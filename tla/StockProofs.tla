----------------------------- MODULE StockProofs -----------------------------
(***************************************************************************)
(* Who owns which hold, and what follows for the counters: the invariant   *)
(* that ties lines, holds, orders and requests together, and from it that  *)
(* a hold leaves `held` once, that the held counter covers the holds, that *)
(* a pending order keeps its places and that the category is not oversold. *)
(***************************************************************************)
EXTENDS InventoryProofs

\* The requests of one cart follow one another, nothing is reserved while a sweep is
\* in progress, no payment is reported cancelled twice and no reservation is released
\* by hand.
Undisturbed ==
    Allow \cap {"parallel_tabs", "add_during_sweep", "late_cancel", "manual_release"} = {}

-----------------------------------------------------------------------------
(* What the tasks look like by themselves. *)

CartOps == {"add", "remove", "renew", "reopen", "checkout", "pay", "compensate", "close"}
OrderOps == {"pay", "compensate", "close", "release", "refund", "void"}
SeenOps == {"remove", "renew", "checkout", "compensate", "release", "sweep"}

Shaped(t) ==
    /\ t.cart # None <=> t.op \in CartOps
    /\ t.order # None <=> t.op \in OrderOps
    /\ t.op = "add" => t.qty > 0
    /\ t.op = "remove" => t.kind \in Kinds /\ \A h \in Holds : t.seen[h] > 0 => h = t.item
    /\ t.op \notin SeenOps => \A h \in Holds : t.seen[h] = 0

\* A cart has one request at a time.
Exclusive ==
    \A v, w \in Workers : task[v].cart # None /\ task[v].cart = task[w].cart => v = w

TasksShaped == Exclusive /\ \A w \in Workers : Shaped(task[w])

\* A request goes on with its cart, ends, or begins with a cart nobody else is at.
LEMMA ShapedStep ==
  ASSUME TypeOK, TasksShaped, NEW w \in Workers, NEW t, Become(w, t), Shaped(t),
         \/ t.cart \in {None, task[w].cart}
         \/ \A v \in Workers : task[v].cart # t.cart
  PROVE  TasksShaped'
<1>1. task'[w] = t /\ \A v \in Workers \ {w} : task'[v] = task[v]
  BY DEF TypeOK, Become
<1>2. \A v \in Workers : Shaped(task'[v])
  BY <1>1 DEF TasksShaped
<1>3. Exclusive'
  BY <1>1, Zenon DEF TasksShaped, Exclusive
<1> QED
  BY <1>2, <1>3, Zenon DEF TasksShaped

LEMMA IdleShaped == Shaped(Idle) /\ Idle.cart = None
  BY DEF Shaped, Idle, CartOps, OrderOps, SeenOps, Nothing

LEMMA FinishShaped ==
  ASSUME TypeOK, TasksShaped, NEW w \in Workers, Finish(w)
  PROVE  TasksShaped'
  BY IdleShaped, ShapedStep DEF Finish

\* Every step keeps the tasks shaped.
LEMMA StepShaped ==
  ASSUME TypeOK, TasksShaped, Undisturbed, [Next]_vars
  PROVE  TasksShaped'
<1>0. None \notin Carts /\ None \notin Orders /\ None \notin Kinds
  BY ConstantsAssumption
<1> USE DEF Shaped, CartOps, OrderOps, SeenOps
<1>1. ASSUME NEW w \in Workers, CartStep(w)
      PROVE  TasksShaped'
  <2>1. ASSUME NEW c \in Carts, NEW k \in Kinds, NEW q \in 1..MaxQty, AddRead(w, c, k, q)
        PROVE  TasksShaped'
    <3> DEFINE t == [Idle EXCEPT !.op = "add", !.cart = c, !.kind = k, !.qty = q]
    <3>1. Shaped(t) /\ t.cart = c
      BY <1>0 DEF Idle, Nothing
    <3> QED
      BY <2>1, <3>1, ShapedStep DEF AddRead, MayTouch, Undisturbed
  <2>2. ASSUME NEW c \in Carts, NEW k \in Kinds, AddCommit(w, c, k)
        PROVE  TasksShaped'
    BY <2>2, FinishShaped DEF AddCommit
  <2>3. ASSUME NEW c \in Carts, NEW k \in Kinds, RemoveRead(w, c, k)
        PROVE  TasksShaped'
    <3> DEFINE g == cart[c].line[k]
               t == [Idle EXCEPT !.op = "remove", !.cart = c, !.kind = k, !.item = g,
                                 !.seen = Read({g})]
    <3>1. \A h \in Holds : Read({g})[h] > 0 => h = g
      BY DEF Read
    <3>2. Shaped(t) /\ t.cart = c
      BY <1>0, <3>1 DEF Idle
    <3> QED
      BY <2>3, <3>2, ShapedStep DEF RemoveRead, MayTouch, Undisturbed
  <2>4. CASE RemoveCommit(w)
    BY <2>4, FinishShaped DEF RemoveCommit
  <2>5. ASSUME NEW c \in Carts, RenewRead(w, c)
        PROVE  TasksShaped'
    <3> DEFINE t == [Idle EXCEPT !.op = "renew", !.cart = c, !.seen = Read(LineHolds(c))]
    <3>1. Shaped(t) /\ t.cart = c
      BY <1>0 DEF Idle
    <3> QED
      BY <2>5, <3>1, ShapedStep DEF RenewRead, MayTouch, Undisturbed
  <2>6. CASE RenewCommit(w)
    <3> DEFINE t == [Idle EXCEPT !.op = "reopen", !.cart = task[w].cart]
    <3>1. task[w].cart # None
      BY <2>6 DEF RenewCommit, Is, TasksShaped
    <3>2. Shaped(t) /\ t.cart = task[w].cart
      BY <3>1 DEF Idle, Nothing
    <3> QED
      BY <2>6, <3>2, ShapedStep DEF RenewCommit
  <2>7. CASE RenewReopen(w)
    BY <2>7, FinishShaped DEF RenewReopen
  <2> QED
    BY <1>1, <2>1, <2>2, <2>3, <2>4, <2>5, <2>6, <2>7 DEF CartStep
<1>2. ASSUME NEW w \in Workers, CheckoutStep(w)
      PROVE  TasksShaped'
  <2>1. ASSUME NEW c \in Carts, CheckoutRead(w, c)
        PROVE  TasksShaped'
    <3> DEFINE t == [Idle EXCEPT !.op = "checkout", !.cart = c, !.seen = Read(LineHolds(c))]
    <3>1. Shaped(t) /\ t.cart = c
      BY <1>0 DEF Idle
    <3> QED
      BY <2>1, <3>1, ShapedStep DEF CheckoutRead, MayTouch, Undisturbed
  <2>2. ASSUME NEW o \in Orders, CheckoutCommit(w, o)
        PROVE  TasksShaped'
    <3> DEFINE t == [Idle EXCEPT !.op = "pay", !.cart = task[w].cart, !.order = o]
    <3>1. task[w].cart # None
      BY <2>2 DEF CheckoutCommit, Is, TasksShaped
    <3>2. Shaped(t) /\ t.cart = task[w].cart
      BY <1>0, <3>1 DEF Idle, Nothing
    <3> QED
      BY <2>2, <3>2, ShapedStep DEF CheckoutCommit
  <2>3. CASE PayStart(w)
    BY <2>3, FinishShaped DEF PayStart
  <2>4. CASE PayStartFails(w)
    <3> DEFINE t == [task[w] EXCEPT !.op = "compensate", !.seen = Read(OrderHolds(task[w].order))]
    <3>1. task[w] \in Task /\ task[w].cart # None /\ task[w].order # None
      BY <2>4 DEF PayStartFails, Is, TasksShaped, TypeOK
    <3>2. Shaped(t) /\ t.cart = task[w].cart
      BY <3>1 DEF Task
    <3> QED
      BY <2>4, <3>2, ShapedStep DEF PayStartFails
  <2>5. CASE CompensateCommit(w)
    <3> DEFINE t == [task[w] EXCEPT !.op = "close", !.seen = Nothing]
    <3>1. task[w] \in Task /\ task[w].cart # None /\ task[w].order # None
      BY <2>5 DEF CompensateCommit, Is, TasksShaped, TypeOK
    <3>2. Shaped(t) /\ t.cart = task[w].cart
      BY <3>1 DEF Task, Nothing
    <3> QED
      BY <2>5, <3>2, ShapedStep DEF CompensateCommit
  <2>6. CASE CompensateClose(w)
    BY <2>6, FinishShaped DEF CompensateClose
  <2> QED
    BY <1>2, <2>1, <2>2, <2>3, <2>4, <2>5, <2>6 DEF CheckoutStep
<1>3. ASSUME NEW w \in Workers, PaymentStep(w)
      PROVE  TasksShaped'
  <2>1. ASSUME NEW o \in Orders, PaymentFails(w, o)
        PROVE  TasksShaped'
    <3> DEFINE t == [Idle EXCEPT !.op = "release", !.order = o, !.seen = Read(OrderHolds(o))]
    <3>1. Shaped(t) /\ t.cart = None
      BY <1>0 DEF Idle
    <3> QED
      BY <2>1, <3>1, ShapedStep DEF PaymentFails
  <2>2. ASSUME NEW o \in Orders, ManualRelease(w, o)
        PROVE  TasksShaped'
    BY <2>2 DEF ManualRelease, Undisturbed
  <2>3. ASSUME NEW o \in Orders, RefundRead(w, o)
        PROVE  TasksShaped'
    <3> DEFINE t == [Idle EXCEPT !.op = "refund", !.order = o, !.qty = order[o].tickets]
    <3>1. Shaped(t) /\ t.cart = None
      BY <1>0 DEF Idle, Nothing
    <3> QED
      BY <2>3, <3>1, ShapedStep DEF RefundRead
  <2>4. ASSUME NEW o \in Orders, VoidRead(w, o)
        PROVE  TasksShaped'
    <3> DEFINE t == [Idle EXCEPT !.op = "void", !.order = o,
                                 !.qty = order[o].tickets + order[o].cancelled]
    <3>1. Shaped(t) /\ t.cart = None
      BY <1>0 DEF Idle, Nothing
    <3> QED
      BY <2>4, <3>1, ShapedStep DEF VoidRead
  <2>5. CASE ReleaseCommit(w)
    BY <2>5, FinishShaped DEF ReleaseCommit
  <2>6. CASE RestoreCommit(w)
    BY <2>6, FinishShaped DEF RestoreCommit
  <2> QED
    BY <1>3, <2>1, <2>2, <2>3, <2>4, <2>5, <2>6 DEF PaymentStep
<1>4. ASSUME NEW w \in Workers, SweepStep(w)
      PROVE  TasksShaped'
  <2>1. CASE SweepRead(w)
    <3> DEFINE S == {h \in HeldHolds : hold[h].lapsed /\ ~Protected(h)}
               t == [Idle EXCEPT !.op = "sweep", !.seen = Read(S)]
    <3>1. Shaped(t) /\ t.cart = None
      BY DEF Idle
    <3> QED
      BY <2>1, <3>1, ShapedStep DEF SweepRead
  <2>2. CASE SweepExpire(w)
    <3> DEFINE touched == {hold[h].channel : h \in Applied(w)}
               t == [Idle EXCEPT !.op = "tally", !.todo = PoolsToRebuild(touched)]
    <3>1. Shaped(t) /\ t.cart = None
      BY DEF Idle, Nothing
    <3> QED
      BY <2>2, <3>1, ShapedStep DEF SweepExpire
  <2>3. ASSUME NEW t, Become(w, t), task[w].op \in {"tally", "compare", "repair"},
               \/ t = Idle
               \/ t = [task[w] EXCEPT !.op = "compare", !.tally = [ch \in Channels |-> HeldPlaces(ch)]]
               \/ \E S : t = [task[w] EXCEPT !.op = "repair", !.todo = S]
               \/ t.op = task[w].op /\ \E S : t = [task[w] EXCEPT !.todo = S]
        PROVE  TasksShaped'
    <3>1. task[w] \in Task /\ Shaped(task[w])
      BY DEF TypeOK, TasksShaped
    <3>2. CASE t = Idle
      BY <2>3, <3>2, IdleShaped, ShapedStep
    <3>3. CASE t = [task[w] EXCEPT !.op = "compare", !.tally = [ch \in Channels |-> HeldPlaces(ch)]]
      <4>1. Shaped(t) /\ t.cart = task[w].cart
        BY <2>3, <3>1, <3>3 DEF Task
      <4> QED
        BY <2>3, <4>1, ShapedStep
    <3>4. ASSUME NEW S, t = [task[w] EXCEPT !.op = "repair", !.todo = S]
          PROVE  TasksShaped'
      <4>1. Shaped(t) /\ t.cart = task[w].cart
        BY <2>3, <3>1, <3>4 DEF Task
      <4> QED
        BY <2>3, <4>1, ShapedStep
    <3>5. ASSUME NEW S, t = [task[w] EXCEPT !.todo = S]
          PROVE  TasksShaped'
      <4>1. Shaped(t) /\ t.cart = task[w].cart
        BY <2>3, <3>1, <3>5 DEF Task
      <4> QED
        BY <2>3, <4>1, ShapedStep
    <3> QED
      BY <2>3, <3>2, <3>3, <3>4, <3>5
  <2>4. CASE SweepTally(w)
    BY <2>3, <2>4 DEF SweepTally, Is
  <2>5. CASE SweepCompare(w)
    BY <2>3, <2>5, Zenon DEF SweepCompare, Is
  <2>6. ASSUME NEW ch \in Channels, SweepRepair(w, ch)
        PROVE  TasksShaped'
    <3>1. \A S : [task[w] EXCEPT !.todo = S].op = task[w].op
      BY DEF TypeOK, Task
    <3> QED
      BY <2>3, <2>6, <3>1, Zenon DEF SweepRepair, Is
  <2> QED
    BY <1>4, <2>1, <2>2, <2>4, <2>5, <2>6 DEF SweepStep
<1>5. ASSUME NEW w \in Workers, GiveUp(w)
      PROVE  TasksShaped'
  BY <1>5, FinishShaped DEF GiveUp
<1>6. CASE UNCHANGED task
  BY <1>6, Zenon DEF TasksShaped, Exclusive
<1>7. ASSUME NEW o \in Orders, NEW q, BoxSale(o, q) \/ TapSale(o, q) \/ PaymentSucceeds(o) \/ Fulfil(o)
      PROVE  TasksShaped'
  BY <1>6, <1>7 DEF BoxSale, TapSale, PaymentSucceeds, Fulfil
<1>8. CASE (\E h \in Holds : LapseHold(h)) \/ (\E c \in Carts : LapseCart(c))
  BY <1>6, <1>8 DEF LapseHold, LapseCart
<1>9. CASE UNCHANGED vars
  BY <1>6, <1>9 DEF vars
<1> QED
  BY <1>1, <1>2, <1>3, <1>4, <1>5, <1>7, <1>8, <1>9 DEF Next

-----------------------------------------------------------------------------
(* The rows exist that others refer to, and a hold never shrinks. *)

HoldRow(h) ==
    /\ hold[h].status = "none" <=> hold[h].qty = 0
    /\ hold[h].status = "none" => hold[h].order = None
    /\ hold[h].order # None => order[hold[h].order].pay # "none"

OrderRow(o) == order[o].pay = "none" => order[o] = NoOrder

TaskRow(w) ==
    /\ task[w].order # None => order[task[w].order].pay # "none"
    /\ \A h \in Holds : task[w].seen[h] <= hold[h].qty

RowsExist ==
    /\ \A h \in Holds : HoldRow(h)
    /\ \A o \in Orders : OrderRow(o)
    /\ \A w \in Workers : TaskRow(w)

\* A hold stays what it is, or only its status and lapse change, without it becoming a
\* row that was never created.
HoldKept(h) ==
    /\ hold'[h].qty = hold[h].qty /\ hold'[h].order = hold[h].order
    /\ hold'[h].status = "none" <=> hold[h].status = "none"

\* A hold is created, grows or is bound to an existing order.
HoldMade(h) ==
    /\ hold'[h].status # "none" /\ hold'[h].qty > 0 /\ hold'[h].qty >= hold[h].qty
    /\ hold'[h].order # None => order'[hold'[h].order].pay # "none"

OrderKept(o) == order'[o] = order[o] \/ order'[o].pay # "none"

TaskMade(w) ==
    /\ task'[w].order # None => order'[task'[w].order].pay # "none"
    /\ \A h \in Holds : task'[w].seen[h] <= hold'[h].qty

\* The rows still exist after a step that keeps or makes each of them.
LEMMA RowsStep ==
  ASSUME TypeOK, TypeOK', RowsExist,
         \A h \in Holds : HoldKept(h) \/ HoldMade(h),
         \A o \in Orders : OrderKept(o),
         \A w \in Workers : task'[w] = task[w] \/ TaskMade(w)
  PROVE  RowsExist'
<1>1. \A o \in Orders : order[o].pay # "none" => order'[o].pay # "none"
  BY DEF OrderKept
<1>2. \A h \in Holds : /\ hold[h].qty \in Nat /\ hold[h].order \in Orders \cup {None}
                       /\ hold'[h].qty \in Nat
  BY ConstantsAssumption DEF TypeOK, Hold
<1>3. ASSUME NEW h \in Holds
      PROVE  HoldRow(h)'
  <2>1. CASE HoldKept(h)
    BY <1>1, <1>2, <2>1 DEF HoldKept, HoldRow, RowsExist
  <2>2. CASE HoldMade(h)
    BY <1>2, <2>2 DEF HoldMade, HoldRow
  <2> QED
    BY <2>1, <2>2
<1>4. ASSUME NEW o \in Orders
      PROVE  OrderRow(o)'
  BY DEF OrderKept, OrderRow, RowsExist
<1>5. \A h \in Holds : hold'[h].qty >= hold[h].qty
  BY <1>2 DEF HoldKept, HoldMade
<1>6. \A w \in Workers : /\ task[w].order \in Orders \cup {None}
                         /\ \A h \in Holds : task[w].seen[h] \in Int
  BY ConstantsAssumption DEF TypeOK, Task
<1>7. ASSUME NEW w \in Workers
      PROVE  TaskRow(w)'
  <2>1. CASE task'[w] = task[w]
    BY <1>1, <1>2, <1>5, <1>6, <2>1 DEF TaskRow, RowsExist
  <2>2. CASE TaskMade(w)
    BY <2>2 DEF TaskMade, TaskRow
  <2> QED
    BY <2>1, <2>2
<1> QED
  BY <1>3, <1>4, <1>7 DEF RowsExist

\* A task that reads rows as they are: its order exists, and nothing it has seen is more
\* than the hold has.
LEMMA TaskMadeBy ==
  ASSUME TypeOK, RowsExist, NEW w \in Workers, NEW t, Become(w, t),
         \A h \in Holds : HoldKept(h) \/ HoldMade(h), TypeOK',
         t.order # None => order'[t.order].pay # "none",
         \/ \A h \in Holds : t.seen[h] = 0
         \/ t.seen = task[w].seen
         \/ \E S : t.seen = Read(S)
  PROVE  \A v \in Workers : task'[v] = task[v] \/ TaskMade(v)
<1>1. task'[w] = t /\ \A v \in Workers \ {w} : task'[v] = task[v]
  BY DEF TypeOK, Become
<1>2. \A h \in Holds : hold[h].qty \in Nat /\ hold'[h].qty \in Nat /\ hold'[h].qty >= hold[h].qty
  BY ConstantsAssumption DEF TypeOK, Hold, HoldKept, HoldMade
<1>3. \A h \in Holds : task[w].seen[h] \in Int /\ task[w].seen[h] <= hold[h].qty
  BY ConstantsAssumption DEF TypeOK, Task, RowsExist, TaskRow
<1>4. \A S : \A h \in Holds : Read(S)[h] \in Int /\ Read(S)[h] <= hold[h].qty
  BY <1>2 DEF Read
<1>5. \A h \in Holds : t.seen[h] <= hold'[h].qty
  BY <1>2, <1>3, <1>4
<1> QED
  BY <1>1, <1>5 DEF TaskMade

\* A finished task has read nothing.
LEMMA TaskMadeIdle ==
  ASSUME TypeOK, RowsExist, NEW w \in Workers, Finish(w),
         \A h \in Holds : HoldKept(h) \/ HoldMade(h), TypeOK'
  PROVE  \A v \in Workers : task'[v] = task[v] \/ TaskMade(v)
<1>1. Idle.order = None /\ \A h \in Holds : Idle.seen[h] = 0
  BY DEF Idle, Nothing
<1> QED
  BY <1>1, TaskMadeBy DEF Finish

\* What leaves `held`, and what lapses, is kept.
LEMMA ReleaseKeeps ==
  ASSUME TypeOK, NEW w \in Workers, NEW next \in {"released", "expired"}, ReleaseSeen(w, next)
  PROVE  \A h \in Holds : /\ HoldKept(h)
                          /\ hold'[h].channel = hold[h].channel
                          /\ hold'[h].lapsed = hold[h].lapsed
                          /\ IF h \in Applied(w) THEN hold[h].status = "held" /\ hold'[h].status = next
                                                 ELSE hold'[h].status = hold[h].status
<1> SUFFICES ASSUME NEW h \in Holds
             PROVE  /\ HoldKept(h)
                    /\ hold'[h].channel = hold[h].channel
                    /\ hold'[h].lapsed = hold[h].lapsed
                    /\ IF h \in Applied(w) THEN hold[h].status = "held" /\ hold'[h].status = next
                                           ELSE hold'[h].status = hold[h].status
  OBVIOUS
<1>1. hold[h] \in Hold
  BY DEF TypeOK
<1>2. CASE h \in Applied(w)
  <2>1. hold'[h] = [hold[h] EXCEPT !.status = next]
    BY <1>2 DEF ReleaseSeen
  <2>2. hold[h].status = "held"
    BY <1>2 DEF Applied, HeldHolds
  <2> QED
    BY <1>1, <1>2, <2>1, <2>2 DEF HoldKept, Hold
<1>3. CASE h \notin Applied(w)
  <2>1. hold'[h] = hold[h]
    BY <1>3 DEF ReleaseSeen
  <2> QED
    BY <1>3, <2>1 DEF HoldKept
<1> QED
  BY <1>2, <1>3

LEMMA ConsumeKeeps ==
  ASSUME TypeOK, NEW S \in SUBSET HeldHolds, ConsumeHolds(S)
  PROVE  \A h \in Holds : /\ HoldKept(h)
                          /\ hold'[h].channel = hold[h].channel
                          /\ hold'[h].lapsed = hold[h].lapsed
                          /\ IF h \in S THEN hold[h].status = "held" /\ hold'[h].status = "consumed"
                                        ELSE hold'[h].status = hold[h].status
<1> SUFFICES ASSUME NEW h \in Holds
             PROVE  /\ HoldKept(h)
                    /\ hold'[h].channel = hold[h].channel
                    /\ hold'[h].lapsed = hold[h].lapsed
                    /\ IF h \in S THEN hold[h].status = "held" /\ hold'[h].status = "consumed"
                                  ELSE hold'[h].status = hold[h].status
  OBVIOUS
<1>1. hold[h] \in Hold
  BY DEF TypeOK
<1>2. CASE h \in S
  <2>1. hold'[h] = [hold[h] EXCEPT !.status = "consumed"]
    BY <1>2 DEF ConsumeHolds
  <2>2. hold[h].status = "held"
    BY <1>2 DEF HeldHolds
  <2> QED
    BY <1>1, <1>2, <2>1, <2>2 DEF HoldKept, Hold
<1>3. CASE h \notin S
  <2>1. hold'[h] = hold[h]
    BY <1>3 DEF ConsumeHolds
  <2> QED
    BY <1>3, <2>1 DEF HoldKept
<1> QED
  BY <1>2, <1>3

LEMMA LapseKeeps ==
  ASSUME TypeOK, (\E h \in Holds : LapseHold(h)) \/ (\E c \in Carts : LapseCart(c))
  PROVE  \A h \in Holds : /\ HoldKept(h)
                          /\ hold'[h].channel = hold[h].channel
                          /\ hold[h].lapsed => hold'[h].lapsed
                          /\ hold'[h].status = hold[h].status
<1>1. \A h \in Holds : hold'[h] = hold[h] \/ hold'[h] = [hold[h] EXCEPT !.lapsed = TRUE]
  BY DEF LapseHold, LapseCart, TypeOK
<1>2. \A h \in Holds : LET g == [hold[h] EXCEPT !.lapsed = TRUE]
                      IN  /\ g.lapsed /\ g.status = hold[h].status /\ g.order = hold[h].order
                          /\ g.channel = hold[h].channel /\ g.qty = hold[h].qty
  BY DEF TypeOK, Hold
<1> QED
  BY <1>1, <1>2 DEF HoldKept

\* A reservation creates the row of a new line ...
LEMMA NewLineMakes ==
  ASSUME TypeOK, NEW c, NEW k, NEW q \in Nat, NEW h \in Holds, NewLine(c, k, q, h)
  PROVE  /\ hold[h].status = "none"
         /\ hold'[h].status = "held" /\ hold'[h].qty = q /\ hold'[h].order = None
         /\ hold'[h].channel = "online" /\ ~hold'[h].lapsed
         /\ \A g \in Holds \ {h} : hold'[g] = hold[g]
  BY DEF NewLine, TypeOK, NoHold

\* ... or extends the row of one that is still held.
LEMMA GrowLineMakes ==
  ASSUME TypeOK, NEW c, NEW q \in Nat, NEW h \in Holds, GrowLine(c, q, h)
  PROVE  /\ hold[h].status = "held"
         /\ hold'[h].status = "held" /\ hold'[h].qty = hold[h].qty + q
         /\ hold'[h].order = hold[h].order /\ hold'[h].channel = hold[h].channel
         /\ ~hold'[h].lapsed
         /\ \A g \in Holds \ {h} : hold'[g] = hold[g]
<1>1. hold[h] \in Hold /\ hold \in [Holds -> Hold]
  BY DEF TypeOK
<1>2. hold' = [hold EXCEPT ![h] = [hold[h] EXCEPT !.qty = hold[h].qty + q, !.lapsed = FALSE]]
  BY Zenon DEF GrowLine
<1>3. hold'[h] = [hold[h] EXCEPT !.qty = hold[h].qty + q, !.lapsed = FALSE]
  BY <1>1, <1>2
<1> QED
  BY <1>1, <1>2, <1>3 DEF GrowLine, Hold

\* A tap sale creates the row of its hold, bound to its order.
LEMMA TapMakes ==
  ASSUME TypeOK, NEW o \in Orders, NEW q \in Nat, TapSale(o, q)
  PROVE  \E h \in Holds :
            /\ hold[h].status = "none"
            /\ hold'[h].status = "held" /\ hold'[h].qty = q /\ hold'[h].order = o
            /\ hold'[h].channel = "box_office" /\ ~hold'[h].lapsed
            /\ \A g \in Holds \ {h} : hold'[g] = hold[g]
  BY DEF TapSale, TypeOK, NoHold

\* A checkout binds the holds it has read.
LEMMA CheckoutMakes ==
  ASSUME TypeOK, NEW w \in Workers, NEW o \in Orders, CheckoutCommit(w, o)
  PROVE  \A h \in Holds : /\ hold'[h].qty = hold[h].qty
                          /\ hold'[h].channel = hold[h].channel
                          /\ hold'[h].lapsed = hold[h].lapsed
                          /\ IF h \in Seen(w) THEN /\ hold'[h].status = "held" /\ hold'[h].order = o
                                                   /\ ~hold[h].lapsed
                                              ELSE hold'[h] = hold[h]
<1> SUFFICES ASSUME NEW h \in Holds
             PROVE  /\ hold'[h].qty = hold[h].qty
                    /\ hold'[h].channel = hold[h].channel
                    /\ hold'[h].lapsed = hold[h].lapsed
                    /\ IF h \in Seen(w) THEN /\ hold'[h].status = "held" /\ hold'[h].order = o
                                             /\ ~hold[h].lapsed
                                        ELSE hold'[h] = hold[h]
  OBVIOUS
<1>1. hold[h] \in Hold
  BY DEF TypeOK
<1>2. CASE h \in Seen(w)
  <2>1. hold'[h] = [hold[h] EXCEPT !.status = "held", !.order = o] /\ ~hold[h].lapsed
    BY <1>2 DEF CheckoutCommit
  <2> QED
    BY <1>1, <1>2, <2>1 DEF Hold
<1>3. CASE h \notin Seen(w)
  <2>1. hold'[h] = hold[h]
    BY <1>3 DEF CheckoutCommit
  <2> QED
    BY <1>3, <2>1
<1> QED
  BY <1>2, <1>3

\* What an order is about never changes.
OrderFixed(o) ==
    /\ order'[o].channel = order[o].channel /\ order'[o].cash = order[o].cash
    /\ order'[o].cart = order[o].cart /\ order'[o].qty = order[o].qty

\* What its tickets are.
TicketsFixed(o) ==
    /\ order'[o].issued = order[o].issued /\ order'[o].tickets = order[o].tickets
    /\ order'[o].cancelled = order[o].cancelled

\* A payment event writes the status of the payment only ...
LEMMA PayKeeps ==
  ASSUME TypeOK, NEW o \in Orders, NEW p, order' = [order EXCEPT ![o].pay = p]
  PROVE  \A i \in Orders : /\ OrderFixed(i) /\ TicketsFixed(i)
                           /\ order'[i].payRow = order[i].payRow
                           /\ order'[i].pay = IF i = o THEN p ELSE order[i].pay
                           /\ i # o => order'[i] = order[i]
  BY DEF TypeOK, Order, OrderFixed, TicketsFixed

\* ... the accepted payment its row ...
LEMMA PayStartKeeps ==
  ASSUME TypeOK, NEW w, PayStart(w)
  PROVE  \A i \in Orders : /\ OrderFixed(i) /\ TicketsFixed(i)
                           /\ order'[i].payRow = (order[i].payRow \/ i = task[w].order)
                           /\ order'[i].pay = order[i].pay
                           /\ i # task[w].order => order'[i] = order[i]
  BY DEF PayStart, TypeOK, Order, OrderFixed, TicketsFixed

\* ... fulfilment and restoring the tickets.
LEMMA FulfilKeeps ==
  ASSUME TypeOK, NEW o \in Orders, Fulfil(o)
  PROVE  \A i \in Orders : /\ OrderFixed(i)
                           /\ order'[i].payRow = order[i].payRow
                           /\ order'[i].pay = order[i].pay
                           /\ i # o => order'[i] = order[i]
<1>1. order \in [Orders -> Order]
  BY DEF TypeOK
<1>2. order' = [order EXCEPT ![o] = [order[o] EXCEPT !.issued = TRUE,
                                        !.tickets = order[o].qty * TicketsPerPlace]]
  BY Zenon DEF Fulfil
<1>3. \A i \in Orders : i # o => order'[i] = order[i]
  BY <1>1, <1>2
<1>4. order'[o] = [order[o] EXCEPT !.issued = TRUE, !.tickets = order[o].qty * TicketsPerPlace]
  BY <1>1, <1>2
<1>5. OrderFixed(o) /\ order'[o].payRow = order[o].payRow /\ order'[o].pay = order[o].pay
  BY <1>1, <1>4 DEF Order, OrderFixed
<1> QED
  BY <1>3, <1>5 DEF OrderFixed

LEMMA RestoreKeeps ==
  ASSUME TypeOK, NEW w, RestoreCommit(w)
  PROVE  \A i \in Orders : /\ OrderFixed(i)
                           /\ order'[i].payRow = order[i].payRow
                           /\ order'[i].pay = order[i].pay
                           /\ order'[i].issued = order[i].issued
                           /\ i # task[w].order => order'[i] = order[i]
<1> DEFINE o == task[w].order
           left == IF task[w].op = "void" THEN 0 ELSE order[o].cancelled + order[o].tickets
           r == [order[o] EXCEPT !.tickets = 0, !.cancelled = left,
                                 !.voided = order[o].voided \/ task[w].op = "void"]
<1>1. order \in [Orders -> Order]
  BY DEF TypeOK
<1>2. order' = [order EXCEPT ![o] = r]
  BY Zenon DEF RestoreCommit
<1>3. \A i \in Orders : i # o => order'[i] = order[i]
  BY <1>1, <1>2
<1>4. o \in Orders => order'[o] = r
  BY <1>1, <1>2
<1>5. o \in Orders => /\ r.channel = order[o].channel /\ r.cash = order[o].cash
                      /\ r.cart = order[o].cart /\ r.qty = order[o].qty
                      /\ r.payRow = order[o].payRow /\ r.pay = order[o].pay
                      /\ r.issued = order[o].issued
  BY <1>1 DEF Order
<1> HIDE DEF r
<1> QED
  BY <1>3, <1>4, <1>5 DEF OrderFixed

\* A checkout and a counter sale write a new row.
LEMMA OrderMade ==
  ASSUME TypeOK, NEW o \in Orders, NEW r, order' = [order EXCEPT ![o] = r]
  PROVE  order'[o] = r /\ \A i \in Orders : i # o => order'[i] = order[i]
  BY DEF TypeOK

\* Every step keeps the references.
LEMMA StepRows ==
  ASSUME TypeOK, TasksShaped, RowsExist, Undisturbed, [Next]_vars
  PROVE  RowsExist'
<1>0. TypeOK' /\ None \notin Orders
  BY StepType, ConstantsAssumption
<1>H. UNCHANGED hold => \A h \in Holds : HoldKept(h)
  BY DEF HoldKept
<1>O. UNCHANGED order => \A o \in Orders : OrderKept(o)
  BY DEF OrderKept
<1>T. UNCHANGED task => \A w \in Workers : task'[w] = task[w]
  OBVIOUS
<1>I. Idle.order = None /\ \A h \in Holds : Idle.seen[h] = 0
  BY DEF Idle, Nothing
<1>A. \A w \in Workers : task[w].order \in Orders \cup {None}
  BY DEF TypeOK, Task
<1>1. ASSUME NEW w \in Workers, CartStep(w)
      PROVE  RowsExist'
  <2>1. ASSUME NEW c \in Carts, NEW k \in Kinds, NEW q \in 1..MaxQty, AddRead(w, c, k, q)
        PROVE  RowsExist'
    <3> DEFINE t == [Idle EXCEPT !.op = "add", !.cart = c, !.kind = k, !.qty = q]
    <3>1. t.order = None /\ \A h \in Holds : t.seen[h] = 0
      BY DEF Idle, Nothing
    <3>2. Become(w, t) /\ UNCHANGED <<hold, order>>
      BY <2>1 DEF AddRead
    <3> QED
      BY <1>0, <1>H, <1>O, <3>1, <3>2, TaskMadeBy, RowsStep
  <2>2. ASSUME NEW c \in Carts, NEW k \in Kinds, AddCommit(w, c, k)
        PROVE  RowsExist'
    <3> DEFINE q == task[w].qty
    <3>1. q \in Nat /\ q > 0
      BY <2>2 DEF TypeOK, Task, TasksShaped, Shaped, AddCommit, Is
    <3>2. \A h \in Holds : HoldKept(h) \/ HoldMade(h)
      <4>1. ASSUME NEW h \in Holds, NewLine(c, k, q, h)
            PROVE  \A g \in Holds : HoldKept(g) \/ HoldMade(g)
        <5>1. hold[h].qty = 0
          BY <4>1, <3>1, NewLineMakes DEF RowsExist, HoldRow
        <5>2. HoldMade(h)
          BY <3>1, <4>1, <5>1, NewLineMakes DEF HoldMade
        <5>3. \A g \in Holds \ {h} : HoldKept(g)
          BY <3>1, <4>1, NewLineMakes DEF HoldKept
        <5> QED
          BY <5>2, <5>3
      <4>2. ASSUME NEW h \in Holds, GrowLine(c, q, h)
            PROVE  \A g \in Holds : HoldKept(g) \/ HoldMade(g)
        <5>1. hold[h].qty \in Nat
          BY ConstantsAssumption DEF TypeOK, Hold
        <5>2. order' = order
          BY <2>2 DEF AddCommit
        <5>3. HoldMade(h)
          BY <3>1, <4>2, <5>1, <5>2, GrowLineMakes DEF HoldMade, RowsExist, HoldRow
        <5>4. \A g \in Holds \ {h} : HoldKept(g)
          BY <3>1, <4>2, GrowLineMakes DEF HoldKept
        <5> QED
          BY <5>3, <5>4
      <4>3. cart[c].line[k] # None => cart[c].line[k] \in Holds
        BY DEF TypeOK, Cart
      <4> QED
        BY <2>2, <4>1, <4>2, <4>3 DEF AddCommit
    <3>3. Finish(w) /\ UNCHANGED order
      BY <2>2 DEF AddCommit
    <3> QED
      BY <1>0, <1>O, <3>2, <3>3, TaskMadeIdle, RowsStep
  <2>3. ASSUME NEW c \in Carts, NEW k \in Kinds, RemoveRead(w, c, k)
        PROVE  RowsExist'
    <3> DEFINE t == [Idle EXCEPT !.op = "remove", !.cart = c, !.kind = k,
                              !.item = cart[c].line[k], !.seen = Read({cart[c].line[k]})]
    <3>1. t.order = None /\ t.seen = Read({cart[c].line[k]})
      BY DEF Idle
    <3>2. Become(w, t) /\ UNCHANGED <<hold, order>>
      BY <2>3 DEF RemoveRead
    <3> QED
      BY <1>0, <1>H, <1>O, <3>1, <3>2, TaskMadeBy, RowsStep
  <2>4. CASE RemoveCommit(w)
    <3>1. ReleaseSeen(w, "released") /\ Finish(w) /\ UNCHANGED order
      BY <2>4 DEF RemoveCommit
    <3> QED
      BY <1>0, <1>O, <3>1, ReleaseKeeps, TaskMadeIdle, RowsStep
  <2>5. ASSUME NEW c \in Carts, RenewRead(w, c)
        PROVE  RowsExist'
    <3> DEFINE t == [Idle EXCEPT !.op = "renew", !.cart = c, !.seen = Read(LineHolds(c))]
    <3>1. t.order = None /\ t.seen = Read(LineHolds(c))
      BY DEF Idle
    <3>2. Become(w, t) /\ UNCHANGED <<hold, order>>
      BY <2>5 DEF RenewRead
    <3> QED
      BY <1>0, <1>H, <1>O, <3>1, <3>2, TaskMadeBy, RowsStep
  <2>6. CASE RenewCommit(w)
    <3> DEFINE t == [Idle EXCEPT !.op = "reopen", !.cart = task[w].cart]
    <3>1. t.order = None /\ \A h \in Holds : t.seen[h] = 0
      BY DEF Idle, Nothing
    <3>2. ReleaseSeen(w, "released") /\ Become(w, t) /\ UNCHANGED order
      BY <2>6 DEF RenewCommit
    <3> QED
      BY <1>0, <1>O, <3>1, <3>2, ReleaseKeeps, TaskMadeBy, RowsStep
  <2>7. CASE RenewReopen(w)
    <3>1. Finish(w) /\ UNCHANGED <<hold, order>>
      BY <2>7 DEF RenewReopen
    <3> QED
      BY <1>0, <1>H, <1>O, <3>1, TaskMadeIdle, RowsStep
  <2> QED
    BY <1>1, <2>1, <2>2, <2>3, <2>4, <2>5, <2>6, <2>7 DEF CartStep
<1>2. ASSUME NEW w \in Workers, CheckoutStep(w)
      PROVE  RowsExist'
  <2>1. ASSUME NEW c \in Carts, CheckoutRead(w, c)
        PROVE  RowsExist'
    <3> DEFINE t == [Idle EXCEPT !.op = "checkout", !.cart = c, !.seen = Read(LineHolds(c))]
    <3>1. t.order = None /\ t.seen = Read(LineHolds(c))
      BY DEF Idle
    <3>2. Become(w, t) /\ UNCHANGED <<hold, order>>
      BY <2>1 DEF CheckoutRead
    <3> QED
      BY <1>0, <1>H, <1>O, <3>1, <3>2, TaskMadeBy, RowsStep
  <2>2. ASSUME NEW o \in Orders, CheckoutCommit(w, o)
        PROVE  RowsExist'
    <3> DEFINE t == [Idle EXCEPT !.op = "pay", !.cart = task[w].cart, !.order = o]
               r == [NoOrder EXCEPT !.pay = "pending", !.cart = task[w].cart,
                                    !.qty = Places(Seen(w), task[w].seen)]
    <3>1. t.order = o /\ \A h \in Holds : t.seen[h] = 0
      BY DEF Idle, Nothing
    <3>2. Become(w, t) /\ order' = [order EXCEPT ![o] = r]
      BY <2>2 DEF CheckoutCommit
    <3>3. r.pay = "pending"
      BY DEF NoOrder
    <3>4. order'[o].pay = "pending" /\ \A i \in Orders : OrderKept(i)
      BY <3>2, <3>3, OrderMade DEF OrderKept
    <3>5. ASSUME NEW h \in Holds
          PROVE  HoldKept(h) \/ HoldMade(h)
      <4>1. CASE h \in Seen(w)
        <5>1. hold[h].qty \in Nat /\ hold[h].qty > 0
          BY <4>1, ConstantsAssumption DEF Seen, RowsExist, TaskRow, TypeOK, Hold, Task
        <5> QED
          BY <2>2, <3>4, <4>1, <5>1, CheckoutMakes DEF HoldMade
      <4>2. CASE h \notin Seen(w)
        BY <2>2, <4>2, CheckoutMakes DEF HoldKept
      <4> QED
        BY <4>1, <4>2
    <3> HIDE DEF t
    <3> QED
      BY <1>0, <3>1, <3>2, <3>4, <3>5, TaskMadeBy, RowsStep
  <2>3. CASE PayStart(w)
    <3>1. task[w].order \in Orders /\ order[task[w].order].pay # "none"
      BY <1>A, <2>3 DEF TasksShaped, Shaped, PayStart, Is, RowsExist, TaskRow, OrderOps
    <3>2. \A i \in Orders : OrderKept(i)
      BY <2>3, <3>1, PayStartKeeps DEF OrderKept
    <3>3. Finish(w) /\ UNCHANGED hold
      BY <2>3 DEF PayStart
    <3> QED
      BY <1>0, <1>H, <3>2, <3>3, TaskMadeIdle, RowsStep
  <2>4. CASE PayStartFails(w)
    <3> DEFINE S == OrderHolds(task[w].order)
               t == [task[w] EXCEPT !.op = "compensate", !.seen = Read(S)]
    <3>1. t.order = task[w].order /\ t.seen = Read(S)
      BY DEF TypeOK, Task
    <3>2. Become(w, t) /\ UNCHANGED <<hold, order>>
      BY <2>4 DEF PayStartFails
    <3>3. t.order # None => order'[t.order].pay # "none"
      BY <3>1, <3>2 DEF RowsExist, TaskRow
    <3> HIDE DEF t
    <3> QED
      BY <1>0, <1>H, <1>O, <3>1, <3>2, <3>3, TaskMadeBy, RowsStep
  <2>5. CASE CompensateCommit(w)
    <3> DEFINE t == [task[w] EXCEPT !.op = "close", !.seen = Nothing]
    <3>1. t.order = task[w].order /\ \A h \in Holds : t.seen[h] = 0
      BY DEF TypeOK, Task, Nothing
    <3>2. ReleaseSeen(w, "released") /\ Become(w, t) /\ UNCHANGED order
      BY <2>5 DEF CompensateCommit
    <3>3. t.order # None => order'[t.order].pay # "none"
      BY <3>1, <3>2 DEF RowsExist, TaskRow
    <3> HIDE DEF t
    <3> QED
      BY <1>0, <1>O, <3>1, <3>2, <3>3, ReleaseKeeps, TaskMadeBy, RowsStep
  <2>6. CASE CompensateClose(w)
    <3>1. order' = [order EXCEPT ![task[w].order].pay = "canceled"] /\ Finish(w) /\ UNCHANGED hold
      BY <2>6 DEF CompensateClose
    <3>2. \A i \in Orders : OrderKept(i)
      BY <3>1 DEF OrderKept, TypeOK, Order
    <3> QED
      BY <1>0, <1>H, <3>1, <3>2, TaskMadeIdle, RowsStep
  <2> QED
    BY <1>2, <2>1, <2>2, <2>3, <2>4, <2>5, <2>6 DEF CheckoutStep
<1>3. ASSUME NEW w \in Workers, PaymentStep(w)
      PROVE  RowsExist'
  <2>1. ASSUME NEW o \in Orders, PaymentFails(w, o)
        PROVE  RowsExist'
    <3> DEFINE t == [Idle EXCEPT !.op = "release", !.order = o, !.seen = Read(OrderHolds(o))]
    <3>1. t.order = o /\ t.seen = Read(OrderHolds(o))
      BY DEF Idle
    <3>2. Become(w, t) /\ order' = [order EXCEPT ![o].pay = "failed"] /\ UNCHANGED hold
      BY <2>1 DEF PaymentFails
    <3> HIDE DEF t
    <3>3. order'[o].pay = "failed" /\ \A i \in Orders : OrderKept(i)
      BY <3>2 DEF OrderKept, TypeOK, Order
    <3> QED
      BY <1>0, <1>H, <3>1, <3>2, <3>3, TaskMadeBy, RowsStep
  <2>2. ASSUME NEW o \in Orders, RefundRead(w, o)
        PROVE  RowsExist'
    <3> DEFINE t == [Idle EXCEPT !.op = "refund", !.order = o, !.qty = order[o].tickets]
    <3>1. t.order = o /\ \A h \in Holds : t.seen[h] = 0
      BY DEF Idle, Nothing
    <3>2. Become(w, t) /\ order' = [order EXCEPT ![o].pay = "refunded"] /\ UNCHANGED hold
      BY <2>2 DEF RefundRead
    <3> HIDE DEF t
    <3>3. order'[o].pay = "refunded" /\ \A i \in Orders : OrderKept(i)
      BY <3>2 DEF OrderKept, TypeOK, Order
    <3> QED
      BY <1>0, <1>H, <3>1, <3>2, <3>3, TaskMadeBy, RowsStep
  <2>3. ASSUME NEW o \in Orders, VoidRead(w, o)
        PROVE  RowsExist'
    <3> DEFINE t == [Idle EXCEPT !.op = "void", !.order = o,
                                 !.qty = order[o].tickets + order[o].cancelled]
    <3>1. t.order = o /\ \A h \in Holds : t.seen[h] = 0
      BY DEF Idle, Nothing
    <3>2. Become(w, t) /\ UNCHANGED <<hold, order>> /\ order[o].issued
      BY <2>3 DEF VoidRead
    <3>3. order'[o].pay # "none"
      BY <3>2 DEF RowsExist, OrderRow, NoOrder
    <3> HIDE DEF t
    <3> QED
      BY <1>0, <1>H, <1>O, <3>1, <3>2, <3>3, TaskMadeBy, RowsStep
  <2>4. ASSUME NEW o \in Orders, ManualRelease(w, o)
        PROVE  RowsExist'
    BY <2>4 DEF ManualRelease, Undisturbed
  <2>5. CASE ReleaseCommit(w)
    <3>1. ReleaseSeen(w, "released") /\ Finish(w) /\ UNCHANGED order
      BY <2>5 DEF ReleaseCommit
    <3> QED
      BY <1>0, <1>O, <3>1, ReleaseKeeps, TaskMadeIdle, RowsStep
  <2>6. CASE RestoreCommit(w)
    <3>1. Finish(w) /\ UNCHANGED hold
      BY <2>6 DEF RestoreCommit
    <3>2. task[w].order # None /\ order[task[w].order].pay # "none"
      BY <2>6 DEF TasksShaped, Shaped, RestoreCommit, RowsExist, TaskRow, OrderOps
    <3>3. \A i \in Orders : OrderKept(i)
      BY <2>6, <3>2, RestoreKeeps DEF OrderKept
    <3> QED
      BY <1>0, <1>H, <3>1, <3>3, TaskMadeIdle, RowsStep
  <2> QED
    BY <1>3, <2>1, <2>2, <2>3, <2>4, <2>5, <2>6 DEF PaymentStep
<1>4. ASSUME NEW w \in Workers, SweepStep(w)
      PROVE  RowsExist'
  <2>1. CASE SweepRead(w)
    <3> DEFINE S == {h \in HeldHolds : hold[h].lapsed /\ ~Protected(h)}
               t == [Idle EXCEPT !.op = "sweep", !.seen = Read(S)]
    <3>1. t.order = None /\ t.seen = Read(S)
      BY DEF Idle
    <3>2. Become(w, t) /\ UNCHANGED <<hold, order>>
      BY <2>1 DEF SweepRead
    <3> HIDE DEF t, S
    <3> QED
      BY <1>0, <1>H, <1>O, <3>1, <3>2, TaskMadeBy, RowsStep
  <2>2. CASE SweepExpire(w)
    <3> DEFINE touched == {hold[h].channel : h \in Applied(w)}
               t == [Idle EXCEPT !.op = "tally", !.todo = PoolsToRebuild(touched)]
    <3>1. t.order = None /\ \A h \in Holds : t.seen[h] = 0
      BY DEF Idle, Nothing
    <3>2. ReleaseSeen(w, "expired") /\ Become(w, t) /\ UNCHANGED order
      BY <2>2 DEF SweepExpire
    <3> HIDE DEF t
    <3> QED
      BY <1>0, <1>O, <3>1, <3>2, ReleaseKeeps, TaskMadeBy, RowsStep
  <2>3. ASSUME NEW t, Become(w, t), t.order \in {None, task[w].order},
               t.seen \in {Nothing, task[w].seen}, UNCHANGED <<hold, order>>
        PROVE  RowsExist'
    <3>1. t.order # None => order'[t.order].pay # "none"
      BY <2>3 DEF RowsExist, TaskRow
    <3>2. (\A h \in Holds : t.seen[h] = 0) \/ t.seen = task[w].seen
      BY <2>3 DEF Nothing
    <3> QED
      BY <1>0, <1>H, <1>O, <2>3, <3>1, <3>2, TaskMadeBy, RowsStep
  <2>4. task[w] \in Task
    BY DEF TypeOK
  <2>5. CASE SweepTally(w)
    <3> DEFINE t == [task[w] EXCEPT !.op = "compare", !.tally = [ch \in Channels |-> HeldPlaces(ch)]]
    <3>1. t.order = task[w].order /\ t.seen = task[w].seen
      BY <2>4 DEF Task
    <3>2. Become(w, t) /\ UNCHANGED <<hold, order>>
      BY <2>5 DEF SweepTally
    <3> HIDE DEF t
    <3> QED
      BY <2>3, <3>1, <3>2
  <2>6. CASE SweepCompare(w)
    <3> DEFINE wrong == {ch \in task[w].todo : pool[ch].held # task[w].tally[ch]}
               t == IF wrong = {} THEN Idle ELSE [task[w] EXCEPT !.op = "repair", !.todo = wrong]
    <3>1. t.order \in {None, task[w].order} /\ t.seen \in {Nothing, task[w].seen}
      BY <2>4 DEF Task, Idle
    <3>2. Become(w, t) /\ UNCHANGED <<hold, order>>
      BY <2>6 DEF SweepCompare
    <3> HIDE DEF t
    <3> QED
      BY <2>3, <3>1, <3>2
  <2>7. ASSUME NEW ch \in Channels, SweepRepair(w, ch)
        PROVE  RowsExist'
    <3> DEFINE rest == task[w].todo \ {ch}
               t == IF rest = {} THEN Idle ELSE [task[w] EXCEPT !.todo = rest]
    <3>1. t.order \in {None, task[w].order} /\ t.seen \in {Nothing, task[w].seen}
      BY <2>4 DEF Task, Idle
    <3>2. Become(w, t) /\ UNCHANGED <<hold, order>>
      BY <2>7 DEF SweepRepair
    <3> HIDE DEF t
    <3> QED
      BY <2>3, <3>1, <3>2
  <2> QED
    BY <1>4, <2>1, <2>2, <2>5, <2>6, <2>7 DEF SweepStep
<1>5. ASSUME NEW w \in Workers, GiveUp(w)
      PROVE  RowsExist'
  <2>1. Finish(w) /\ UNCHANGED <<hold, order>>
    BY <1>5 DEF GiveUp
  <2> QED
    BY <1>0, <1>H, <1>O, <2>1, TaskMadeIdle, RowsStep
<1>6. ASSUME NEW o \in Orders, NEW q \in 1..MaxQty, BoxSale(o, q) \/ TapSale(o, q)
      PROVE  RowsExist'
  <2>1. q \in Nat /\ q > 0
    OBVIOUS
  <2>2. PICK r : r.pay # "none" /\ order' = [order EXCEPT ![o] = r]
    BY <1>6 DEF BoxSale, TapSale, NoOrder
  <2>3. order'[o].pay # "none" /\ \A i \in Orders : OrderKept(i)
    BY <2>2, OrderMade DEF OrderKept
  <2>4. \A h \in Holds : HoldKept(h) \/ HoldMade(h)
    <3>1. CASE BoxSale(o, q)
      BY <1>H, <3>1 DEF BoxSale
    <3>2. CASE TapSale(o, q)
      <4>1. PICK h \in Holds : /\ hold[h].status = "none"
                               /\ hold'[h].status = "held" /\ hold'[h].qty = q /\ hold'[h].order = o
                               /\ \A g \in Holds \ {h} : hold'[g] = hold[g]
        BY <2>1, <3>2, TapMakes
      <4>2. hold[h].qty = 0
        BY <4>1 DEF RowsExist, HoldRow
      <4>3. HoldMade(h)
        BY <2>1, <2>3, <4>1, <4>2 DEF HoldMade
      <4> QED
        BY <4>1, <4>3 DEF HoldKept
    <3> QED
      BY <1>6, <3>1, <3>2
  <2>5. UNCHANGED task
    BY <1>6 DEF BoxSale, TapSale
  <2> QED
    BY <1>0, <1>T, <2>3, <2>4, <2>5, RowsStep
<1>7. ASSUME NEW o \in Orders, PaymentSucceeds(o)
      PROVE  RowsExist'
  <2>1. order' = [order EXCEPT ![o].pay = "paid"] /\ UNCHANGED <<hold, task>>
    BY <1>7 DEF PaymentSucceeds
  <2>2. \A i \in Orders : OrderKept(i)
    BY <2>1, PayKeeps DEF OrderKept
  <2> QED
    BY <1>0, <1>H, <1>T, <2>1, <2>2, RowsStep
<1>8. ASSUME NEW o \in Orders, Fulfil(o)
      PROVE  RowsExist'
  <2>1. OrderHolds(o) \in SUBSET HeldHolds /\ ConsumeHolds(OrderHolds(o)) /\ UNCHANGED task
    BY <1>8 DEF Fulfil, OrderHolds
  <2>2. \A i \in Orders : OrderKept(i)
    BY <1>8, FulfilKeeps DEF OrderKept, Fulfil
  <2> QED
    BY <1>0, <1>T, <2>1, <2>2, ConsumeKeeps, RowsStep
<1>9. CASE (\E h \in Holds : LapseHold(h)) \/ (\E c \in Carts : LapseCart(c))
  <2>1. UNCHANGED <<order, task>>
    BY <1>9 DEF LapseHold, LapseCart
  <2> QED
    BY <1>0, <1>9, <1>O, <1>T, <2>1, LapseKeeps, RowsStep
<1>10. CASE UNCHANGED vars
  BY <1>0, <1>10, <1>H, <1>O, <1>T, RowsStep DEF vars
<1> QED
  BY <1>1, <1>2, <1>3, <1>4, <1>5, <1>6, <1>7, <1>8, <1>9, <1>10 DEF Next

-----------------------------------------------------------------------------
(* Lines, holds, orders and requests agree on who owns what. *)

InLine(c, h) == \E k \in Kinds : cart[c].line[k] = h

\* No hold is in two lines.
LinesApart ==
    \A c, d \in Carts : \A k, l \in Kinds :
        cart[c].line[k] # None /\ cart[c].line[k] = cart[d].line[l] => c = d /\ k = l

\* The lines of an open cart belong to no order yet, those of a converted or expired one
\* to the cart's last order.
CartRow(c) ==
    /\ \A h \in Holds : InLine(c, h) => hold[h].status # "none"
    /\ cart[c].status \in {"none", "open"} =>
          \A h \in Holds : InLine(c, h) => hold[h].order = None
    /\ cart[c].status \in {"converted", "expired"} =>
          /\ cart[c].last # None /\ order[cart[c].last].cart = c
          /\ \A h \in Holds : InLine(c, h) => hold[h].order = cart[c].last
    /\ cart[c].status = "expired" => ~order[cart[c].last].payRow

\* An order that may still be paid is the last one of its converted cart.
OrderCart(o) ==
    order[o].cart # None /\ (order[o].payRow \/ order[o].pay = "pending") =>
        cart[order[o].cart].status = "converted" /\ cart[order[o].cart].last = o

\* What a request has read of its cart, and of the holds of its order, is still true when
\* its transaction runs, except that a hold it has read may have lapsed.
TaskCart(w) ==
    LET t == task[w] IN
    /\ t.op \in {"add", "remove", "checkout"} => cart[t.cart].status = "open"
    /\ t.op \in {"renew", "reopen"} => cart[t.cart].status \in {"open", "expired"}
    /\ t.op = "renew" => \A h \in Holds : t.seen[h] > 0 => InLine(t.cart, h)
    /\ t.op = "checkout" =>
          \A h \in Holds : /\ t.seen[h] > 0 <=> InLine(t.cart, h)
                           /\ InLine(t.cart, h) => /\ t.seen[h] = hold[h].qty
                                                   /\ hold[h].status = "held" \/ hold[h].lapsed
    /\ t.op \in {"pay", "compensate", "close"} =>
          /\ cart[t.cart].status = "converted" /\ cart[t.cart].last = t.order
          /\ ~order[t.order].payRow
    /\ t.op \in {"compensate", "release"} =>
          \A h \in Holds : t.seen[h] > 0 => hold[h].order = t.order

RowsAgree ==
    /\ LinesApart
    /\ \A c \in Carts : CartRow(c)
    /\ \A o \in Orders : OrderCart(o)

Agreement == RowsAgree /\ \A w \in Workers : TaskCart(w)

\* Everything known of a state so far.
Bindings == TypeOK /\ TasksShaped /\ RowsExist /\ Agreement /\ SweepIsCurrent

-----------------------------------------------------------------------------
\* The types of the references.
LEMMA References ==
  ASSUME TypeOK
  PROVE  /\ None \notin Carts /\ None \notin Holds /\ None \notin Orders
         /\ \A w \in Workers : /\ task[w] \in Task
                               /\ task[w].cart \in Carts \cup {None}
                               /\ task[w].order \in Orders \cup {None}
                               /\ \A h \in Holds : task[w].seen[h] \in Nat
         /\ \A o \in Orders : order[o] \in Order /\ order[o].cart \in Carts \cup {None}
         /\ \A h \in Holds : /\ hold[h] \in Hold /\ hold[h].qty \in Nat
                             /\ hold[h].order \in Orders \cup {None}
         /\ \A c \in Carts : /\ cart[c] \in Cart /\ cart[c].last \in Orders \cup {None}
                             /\ cart[c].status \in {"none", "open", "converted", "expired"}
<1>1. None \notin Carts /\ None \notin Holds /\ None \notin Orders
  BY ConstantsAssumption
<1>2. \A w \in Workers : /\ task[w] \in Task
                         /\ task[w].cart \in Carts \cup {None}
                         /\ task[w].order \in Orders \cup {None}
                         /\ \A h \in Holds : task[w].seen[h] \in Nat
  BY ConstantsAssumption DEF TypeOK, Task
<1>3. \A o \in Orders : order[o] \in Order /\ order[o].cart \in Carts \cup {None}
  BY DEF TypeOK, Order
<1>4. \A h \in Holds : /\ hold[h] \in Hold /\ hold[h].qty \in Nat
                       /\ hold[h].order \in Orders \cup {None}
  BY ConstantsAssumption DEF TypeOK, Hold
<1>5. \A c \in Carts : /\ cart[c] \in Cart /\ cart[c].last \in Orders \cup {None}
                       /\ cart[c].status \in {"none", "open", "converted", "expired"}
  BY DEF TypeOK, Cart
<1> QED
  BY <1>1, <1>2, <1>3, <1>4, <1>5

\* The holds of a cart's lines.
LEMMA InLineHolds ==
  ASSUME TypeOK, NEW c \in Carts, NEW h \in Holds
  PROVE  h \in LineHolds(c) <=> InLine(c, h)
<1>1. h # None
  BY References
<1> QED
  BY <1>1, Zenon DEF LineHolds, InLine

\* A hold is in the lines of one cart only.
LEMMA OneCart ==
  ASSUME TypeOK, LinesApart, NEW c \in Carts, NEW d \in Carts, NEW h \in Holds,
         InLine(c, h), InLine(d, h)
  PROVE  c = d
<1>1. h # None
  BY References
<1> QED
  BY <1>1 DEF InLine, LinesApart

\* The holds that releasing or fulfilling an order finds are the ones it owns.
LEMMA OrderHoldsOwned ==
  ASSUME TypeOK, RowsAgree, NEW o \in Orders,
         order[o].cart # None => order[o].payRow \/ order[o].pay = "pending"
                                 \/ (cart[order[o].cart].status = "converted"
                                       /\ cart[order[o].cart].last = o)
  PROVE  OrderHolds(o) = {h \in HeldHolds : hold[h].order = o}
<1> SUFFICES ASSUME NEW h \in HeldHolds, order[o].cart # None, h \in LineHolds(order[o].cart)
             PROVE  hold[h].order = o
  BY Zenon DEF OrderHolds
<1>1. h \in Holds /\ order[o].cart \in Carts
  BY References DEF HeldHolds
<1>2. InLine(order[o].cart, h)
  BY <1>1, InLineHolds
<1>3. cart[order[o].cart].status = "converted" /\ cart[order[o].cart].last = o
  BY DEF RowsAgree, OrderCart
<1> QED
  BY <1>1, <1>2, <1>3 DEF RowsAgree, CartRow

-----------------------------------------------------------------------------
(* Frames: what a step may leave as it is. *)

CartSame(c) == /\ cart'[c].status = cart[c].status /\ cart'[c].last = cart[c].last
               /\ cart'[c].line = cart[c].line

\* The rows agree when carts and the owners of holds stay, and no order becomes payable.
LEMMA RowsStay ==
  ASSUME TypeOK, RowsAgree,
         \A c \in Carts : CartSame(c),
         \A h \in Holds : hold[h].status # "none" =>
            hold'[h].order = hold[h].order /\ hold'[h].status # "none",
         \A o \in Orders : /\ order'[o].cart = order[o].cart
                           /\ order[o].cart # None =>
                                 /\ order'[o].payRow = order[o].payRow
                                 /\ order'[o].pay = "pending" => order[o].pay = "pending"
  PROVE  RowsAgree'
<1>1. \A c \in Carts : \A h \in Holds : InLine(c, h)' <=> InLine(c, h)
  BY DEF CartSame, InLine
<1>2. LinesApart'
  BY DEF RowsAgree, LinesApart, CartSame
<1>3. ASSUME NEW c \in Carts
      PROVE  CartRow(c)'
  BY <1>1, References DEF CartSame, CartRow, RowsAgree
<1>4. ASSUME NEW o \in Orders
      PROVE  OrderCart(o)'
  BY References DEF CartSame, OrderCart, RowsAgree
<1> QED
  BY <1>2, <1>3, <1>4 DEF RowsAgree

\* A hold in the line of a cart somebody is checking out does not change, unless it
\* lapses or is extended.
LineStays(h) ==
    /\ hold'[h].qty = hold[h].qty
    /\ hold'[h].status = hold[h].status \/ hold'[h].status = "held" \/ hold'[h].lapsed
    /\ hold[h].lapsed => hold'[h].lapsed \/ hold'[h].status = "held"

\* A task that goes on waiting agrees with the rows when its cart, the holds and the
\* payment row of its order stay.
LEMMA TaskStays ==
  ASSUME TypeOK, TasksShaped, NEW v \in Workers, task'[v] = task[v], TaskCart(v),
         task[v].cart # None => CartSame(task[v].cart),
         \A h \in Holds : hold[h].order # None => hold'[h].order = hold[h].order,
         task[v].op = "checkout" => \A h \in Holds : InLine(task[v].cart, h) => LineStays(h),
         task[v].op \in {"pay", "compensate", "close"} =>
            order'[task[v].order].payRow = order[task[v].order].payRow
  PROVE  TaskCart(v)'
<1>1. /\ task[v].op \in CartOps => CartSame(task[v].cart)
      /\ task[v].op \in OrderOps => task[v].order # None
  BY DEF TasksShaped, Shaped
<1>2. task[v].op \in CartOps => \A h \in Holds : InLine(task[v].cart, h)' <=> InLine(task[v].cart, h)
  BY <1>1 DEF CartSame, InLine
<1> USE DEF CartOps, OrderOps
<1>3. task[v].op \in {"add", "remove", "checkout"} => cart'[task[v].cart].status = "open"
  BY <1>1 DEF CartSame, TaskCart
<1>4. task[v].op \in {"renew", "reopen"} => cart'[task[v].cart].status \in {"open", "expired"}
  BY <1>1 DEF CartSame, TaskCart
<1>5. task[v].op = "renew" => \A h \in Holds : task[v].seen[h] > 0 => InLine(task[v].cart, h)'
  BY <1>2 DEF TaskCart
<1>6. task[v].op = "checkout" =>
          \A h \in Holds : /\ task[v].seen[h] > 0 <=> InLine(task[v].cart, h)'
                           /\ InLine(task[v].cart, h)' =>
                                 /\ task[v].seen[h] = hold'[h].qty
                                 /\ hold'[h].status = "held" \/ hold'[h].lapsed
  BY <1>2 DEF TaskCart, LineStays
<1>7. task[v].op \in {"pay", "compensate", "close"} =>
          /\ cart'[task[v].cart].status = "converted" /\ cart'[task[v].cart].last = task[v].order
          /\ ~order'[task[v].order].payRow
  BY <1>1 DEF CartSame, TaskCart
<1>8. task[v].op \in {"compensate", "release"} =>
          \A h \in Holds : task[v].seen[h] > 0 => hold'[h].order = task[v].order
  BY <1>1 DEF TaskCart
<1> QED
  BY <1>3, <1>4, <1>5, <1>6, <1>7, <1>8, Zenon DEF TaskCart

\* A task that is not about a cart or holds agrees with everything.
LEMMA TaskFree ==
  ASSUME NEW v, task'[v].op \in {"idle", "refund", "void", "sweep", "tally", "compare", "repair"}
  PROVE  TaskCart(v)'
  BY DEF TaskCart

LEMMA IdleFree ==
  ASSUME TypeOK, NEW w \in Workers, Finish(w)
  PROVE  TaskCart(w)' /\ \A v \in Workers \ {w} : task'[v] = task[v]
<1>1. task'[w] = Idle /\ \A v \in Workers \ {w} : task'[v] = task[v]
  BY DEF TypeOK, Finish, Become
<1>2. task'[w].op = "idle"
  BY <1>1 DEF Idle
<1> QED
  BY <1>1, <1>2, TaskFree

\* A step that only reads.
LEMMA ReaderAgrees ==
  ASSUME TypeOK, TasksShaped, Agreement, UNCHANGED <<hold, cart, order>>,
         NEW w \in Workers, \A v \in Workers \ {w} : task'[v] = task[v], TaskCart(w)'
  PROVE  Agreement'
<1>1. RowsAgree'
  BY RowsStay DEF Agreement, CartSame
<1>2. ASSUME NEW v \in Workers \ {w}
      PROVE  TaskCart(v)'
  BY TaskStays DEF Agreement, CartSame, LineStays
<1> QED
  BY <1>1, <1>2 DEF Agreement

-----------------------------------------------------------------------------
(* The steps of the cart. *)

LEMMA AddReadAgrees ==
  ASSUME Bindings, Undisturbed, NEW w \in Workers, NEW c \in Carts, NEW k \in Kinds, NEW q,
         AddRead(w, c, k, q)
  PROVE  Agreement'
<1>0. TypeOK /\ TasksShaped /\ Agreement
  BY DEF Bindings
<1> DEFINE t == [Idle EXCEPT !.op = "add", !.cart = c, !.kind = k, !.qty = q]
<1>1. /\ task'[w] = t /\ \A v \in Workers \ {w} : task'[v] = task[v]
      /\ UNCHANGED <<hold, order>>
  BY <1>0 DEF AddRead, Become, TypeOK
<1>2. t.op = "add" /\ t.cart = c
  BY DEF Idle
<1> HIDE DEF t
<1>3. \A v \in Workers : task[v].cart # c
  BY DEF AddRead, MayTouch, Undisturbed
<1>4. cart[c].status \in {"open", "none"}
  BY DEF AddRead, Usable
<1>5. \A d \in Carts : /\ cart'[d].line = cart[d].line /\ cart'[d].last = cart[d].last
                       /\ cart'[d].status = IF d = c THEN "open" ELSE cart[d].status
  BY <1>0 DEF AddRead, TypeOK, Cart
<1>6. \A d \in Carts : \A h \in Holds : InLine(d, h)' <=> InLine(d, h)
  BY <1>5 DEF InLine
<1>7. LinesApart'
  BY <1>0, <1>5 DEF Agreement, RowsAgree, LinesApart
<1>8. ASSUME NEW d \in Carts
      PROVE  CartRow(d)'
  BY <1>0, <1>1, <1>4, <1>5, <1>6 DEF Agreement, RowsAgree, CartRow
<1>9. ASSUME NEW o \in Orders
      PROVE  OrderCart(o)'
  BY <1>0, <1>1, <1>4, <1>5, References DEF Agreement, RowsAgree, OrderCart
<1>10. ASSUME NEW v \in Workers \ {w}
       PROVE  TaskCart(v)'
  <2>1. task[v].cart # None => CartSame(task[v].cart)
    BY <1>0, <1>3, <1>5, References DEF CartSame
  <2> QED
    BY <1>0, <1>1, <2>1, TaskStays DEF Agreement, LineStays
<1>11. TaskCart(w)'
  BY <1>1, <1>2, <1>5 DEF TaskCart
<1> QED
  BY <1>7, <1>8, <1>9, <1>10, <1>11 DEF Agreement, RowsAgree

LEMMA RemoveReadAgrees ==
  ASSUME Bindings, NEW w \in Workers, NEW c \in Carts, NEW k \in Kinds, RemoveRead(w, c, k)
  PROVE  Agreement'
<1>0. TypeOK /\ TasksShaped /\ Agreement
  BY DEF Bindings
<1> DEFINE t == [Idle EXCEPT !.op = "remove", !.cart = c, !.kind = k,
                             !.item = cart[c].line[k], !.seen = Read({cart[c].line[k]})]
<1>1. /\ task'[w] = t /\ \A v \in Workers \ {w} : task'[v] = task[v]
      /\ UNCHANGED <<hold, cart, order>>
  BY <1>0 DEF RemoveRead, Become, TypeOK
<1>2. t.op = "remove" /\ t.cart = c /\ cart[c].status = "open"
  BY DEF Idle, RemoveRead, Usable
<1> HIDE DEF t
<1>3. TaskCart(w)'
  BY <1>1, <1>2 DEF TaskCart
<1> QED
  BY <1>0, <1>1, <1>3, ReaderAgrees

\* What Read finds.
LEMMA ReadSeen ==
  ASSUME TypeOK, RowsExist, NEW S, NEW h \in Holds
  PROVE  /\ Read(S)[h] > 0 <=> h \in S \cap HeldHolds
         /\ Read(S)[h] > 0 => Read(S)[h] = hold[h].qty
<1>1. hold[h].qty \in Nat /\ (h \in HeldHolds => hold[h].qty # 0)
  BY References DEF RowsExist, HoldRow, HeldHolds
<1> QED
  BY <1>1 DEF Read

LEMMA RenewReadAgrees ==
  ASSUME Bindings, NEW w \in Workers, NEW c \in Carts, RenewRead(w, c)
  PROVE  Agreement'
<1>0. TypeOK /\ TasksShaped /\ Agreement /\ RowsExist
  BY DEF Bindings
<1> DEFINE t == [Idle EXCEPT !.op = "renew", !.cart = c, !.seen = Read(LineHolds(c))]
<1>1. /\ task'[w] = t /\ \A v \in Workers \ {w} : task'[v] = task[v]
      /\ UNCHANGED <<hold, cart, order>>
  BY <1>0 DEF RenewRead, Become, TypeOK
<1>2. t.op = "renew" /\ t.cart = c /\ t.seen = Read(LineHolds(c))
  BY DEF Idle
<1> HIDE DEF t
<1>3. cart[c].status \in {"open", "expired"}
  BY DEF RenewRead
<1>4. \A h \in Holds : t.seen[h] > 0 => InLine(c, h)
  BY <1>0, <1>2, ReadSeen, InLineHolds
<1>5. \A h \in Holds : InLine(c, h)' <=> InLine(c, h)
  BY <1>1 DEF InLine
<1>6. TaskCart(w)'
  BY <1>1, <1>2, <1>3, <1>4, <1>5 DEF TaskCart
<1> QED
  BY <1>0, <1>1, <1>6, ReaderAgrees

\* Releasing the holds of requests that own them: what others have read stays.
LEMMA ReleaseAgrees ==
  ASSUME Bindings, NEW w \in Workers, NEW next \in {"released", "expired"},
         ReleaseSeen(w, next), UNCHANGED <<cart, order>>,
         \A h \in Applied(w) : hold[h].lapsed \/ hold[h].order # None
                                 \/ (task[w].cart # None /\ InLine(task[w].cart, h)),
         \A v \in Workers \ {w} : task'[v] = task[v], TaskCart(w)'
  PROVE  Agreement'
<1>0. TypeOK /\ TasksShaped /\ Agreement
  BY DEF Bindings
<1>1. \A h \in Holds : /\ hold'[h].qty = hold[h].qty /\ hold'[h].order = hold[h].order
                       /\ hold'[h].lapsed = hold[h].lapsed
                       /\ hold'[h].status = "none" <=> hold[h].status = "none"
                       /\ h \notin Applied(w) => hold'[h].status = hold[h].status
  BY <1>0, ReleaseKeeps DEF HoldKept
<1>2. RowsAgree'
  BY <1>0, <1>1, RowsStay DEF Agreement, CartSame
<1>3. ASSUME NEW v \in Workers \ {w}
      PROVE  TaskCart(v)'
  <2>1. ASSUME task[v].op = "checkout", NEW h \in Holds, InLine(task[v].cart, h)
        PROVE  LineStays(h)
    <3>1. task[v].cart \in Carts /\ cart[task[v].cart].status = "open"
      BY <1>0, <2>1, References DEF Agreement, TaskCart, TasksShaped, Shaped, CartOps
    <3>2. hold[h].order = None
      BY <1>0, <2>1, <3>1 DEF Agreement, RowsAgree, CartRow
    <3>3. task[w].cart # None => task[w].cart \in Carts /\ task[w].cart # task[v].cart
      BY <1>0, <3>1, References DEF TasksShaped, Exclusive
    <3>4. ~(task[w].cart # None /\ InLine(task[w].cart, h))
      BY <1>0, <2>1, <3>1, <3>3, OneCart DEF Agreement, RowsAgree
    <3> QED
      BY <1>1, <3>2, <3>4 DEF LineStays
  <2> QED
    BY <1>0, <1>1, <2>1, TaskStays DEF Agreement, CartSame
<1> QED
  BY <1>2, <1>3 DEF Agreement

LEMMA RenewCommitAgrees ==
  ASSUME Bindings, NEW w \in Workers, RenewCommit(w)
  PROVE  Agreement'
<1>0. TypeOK /\ TasksShaped /\ Agreement
  BY DEF Bindings
<1> DEFINE t == [Idle EXCEPT !.op = "reopen", !.cart = task[w].cart]
<1>1. /\ task'[w] = t /\ \A v \in Workers \ {w} : task'[v] = task[v]
      /\ ReleaseSeen(w, "released") /\ UNCHANGED <<cart, order>> /\ task[w].op = "renew"
  BY <1>0 DEF RenewCommit, Become, TypeOK, Is
<1>2. t.op = "reopen" /\ t.cart = task[w].cart
  BY DEF Idle
<1> HIDE DEF t
<1>3. task[w].cart # None
  BY <1>0, <1>1 DEF TasksShaped, Shaped, CartOps
<1>4. \A h \in Applied(w) : InLine(task[w].cart, h)
  BY <1>0, <1>1 DEF Agreement, TaskCart, Applied, Seen
<1>5. TaskCart(w)'
  BY <1>0, <1>1, <1>2 DEF Agreement, TaskCart
<1> QED
  BY <1>1, <1>3, <1>4, <1>5, ReleaseAgrees

LEMMA SweepExpireAgrees ==
  ASSUME Bindings, NEW w \in Workers, SweepExpire(w)
  PROVE  Agreement'
<1>0. TypeOK /\ SweepIsCurrent
  BY DEF Bindings
<1> DEFINE t == [Idle EXCEPT !.op = "tally",
                             !.todo = PoolsToRebuild({hold[h].channel : h \in Applied(w)})]
<1>1. /\ task'[w] = t /\ \A v \in Workers \ {w} : task'[v] = task[v]
      /\ ReleaseSeen(w, "expired") /\ UNCHANGED <<cart, order>> /\ Is(w, "sweep")
  BY <1>0 DEF SweepExpire, Become, TypeOK
<1>2. t.op = "tally"
  BY DEF Idle
<1> HIDE DEF t
<1>3. \A h \in Applied(w) : hold[h].lapsed
  BY <1>0, <1>1 DEF SweepIsCurrent, Condemned, Applied
<1>4. TaskCart(w)'
  BY <1>1, <1>2, TaskFree
<1> QED
  BY <1>1, <1>3, <1>4, ReleaseAgrees

LEMMA CompensateCommitAgrees ==
  ASSUME Bindings, NEW w \in Workers, CompensateCommit(w)
  PROVE  Agreement'
<1>0. TypeOK /\ TasksShaped /\ Agreement
  BY DEF Bindings
<1> DEFINE t == [task[w] EXCEPT !.op = "close", !.seen = Nothing]
<1>1. /\ task'[w] = t /\ \A v \in Workers \ {w} : task'[v] = task[v]
      /\ ReleaseSeen(w, "released") /\ UNCHANGED <<cart, order>> /\ task[w].op = "compensate"
  BY <1>0 DEF CompensateCommit, Become, TypeOK, Is
<1>2. t.op = "close" /\ t.cart = task[w].cart /\ t.order = task[w].order
  BY <1>0, References DEF Task
<1> HIDE DEF t
<1>3. task[w].order # None
  BY <1>0, <1>1 DEF TasksShaped, Shaped, OrderOps
<1>4. \A h \in Applied(w) : hold[h].order # None
  BY <1>0, <1>1, <1>3 DEF Agreement, TaskCart, Applied, Seen
<1>5. TaskCart(w)'
  BY <1>0, <1>1, <1>2 DEF Agreement, TaskCart
<1> QED
  BY <1>1, <1>4, <1>5, ReleaseAgrees

LEMMA ReleaseCommitAgrees ==
  ASSUME Bindings, NEW w \in Workers, ReleaseCommit(w)
  PROVE  Agreement'
<1>0. TypeOK /\ TasksShaped /\ Agreement
  BY DEF Bindings
<1>1. /\ ReleaseSeen(w, "released") /\ UNCHANGED <<cart, order>> /\ task[w].op = "release"
      /\ Finish(w)
  BY DEF ReleaseCommit, Is
<1>2. task[w].order # None
  BY <1>0, <1>1 DEF TasksShaped, Shaped, OrderOps
<1>3. \A h \in Applied(w) : hold[h].order # None
  BY <1>0, <1>1, <1>2 DEF Agreement, TaskCart, Applied, Seen
<1> QED
  BY <1>0, <1>1, <1>3, IdleFree, ReleaseAgrees

LEMMA RemoveCommitAgrees ==
  ASSUME Bindings, NEW w \in Workers, RemoveCommit(w)
  PROVE  Agreement'
<1>0. TypeOK /\ TasksShaped /\ Agreement
  BY DEF Bindings
<1> DEFINE c == task[w].cart
           k == task[w].kind
<1>1. /\ ReleaseSeen(w, "released") /\ UNCHANGED order /\ task[w].op = "remove" /\ Finish(w)
      /\ cart[c].line[k] = task[w].item
  BY DEF RemoveCommit, Is
<1>2. c \in Carts /\ k \in Kinds /\ cart[c].status = "open"
  BY <1>0, <1>1, References DEF Agreement, TaskCart, TasksShaped, Shaped, CartOps
<1>3. \A h \in Holds : /\ hold'[h].qty = hold[h].qty /\ hold'[h].order = hold[h].order
                       /\ hold'[h].lapsed = hold[h].lapsed
                       /\ hold'[h].status = "none" <=> hold[h].status = "none"
                       /\ h \notin Applied(w) => hold'[h].status = hold[h].status
  BY <1>0, <1>1, ReleaseKeeps DEF HoldKept
<1>4. /\ \A d \in Carts : /\ cart'[d].status = cart[d].status /\ cart'[d].last = cart[d].last
                          /\ d # c => cart'[d].line = cart[d].line
      /\ \A l \in Kinds : cart'[c].line[l] = IF l = k THEN None ELSE cart[c].line[l]
  BY <1>0, <1>2 DEF RemoveCommit, TypeOK, Cart
<1>5. \A h \in Applied(w) : InLine(c, h)
  BY <1>0, <1>1, <1>2 DEF TasksShaped, Shaped, Applied, Seen, InLine
<1>O. \A v \in Workers \ {w} : task[v].cart # None => task[v].cart \in Carts /\ task[v].cart # c
  BY <1>0, References DEF TasksShaped, Exclusive
<1> HIDE DEF c, k
<1>6. \A d \in Carts : \A h \in Holds : /\ InLine(d, h)' => InLine(d, h)
                                        /\ d # c => (InLine(d, h)' <=> InLine(d, h))
  <2>1. None \notin Holds
    BY <1>0, References
  <2>2. ASSUME NEW d \in Carts, NEW h \in Holds, InLine(d, h)'
        PROVE  InLine(d, h)
    BY <1>4, <2>1, <2>2 DEF InLine
  <2>3. ASSUME NEW d \in Carts, NEW h \in Holds, d # c
        PROVE  InLine(d, h)' <=> InLine(d, h)
    BY <1>4, <2>3 DEF InLine
  <2> QED
    BY <2>2, <2>3
<1>7. LinesApart'
  <2> SUFFICES ASSUME NEW d \in Carts, NEW e \in Carts, NEW l \in Kinds, NEW m \in Kinds,
                      cart'[d].line[l] # None, cart'[d].line[l] = cart'[e].line[m]
               PROVE  d = e /\ l = m
    BY DEF LinesApart
  <2>1. cart'[d].line[l] = cart[d].line[l] /\ cart'[e].line[m] = cart[e].line[m]
    BY <1>4
  <2>2. cart[d].line[l] # None /\ cart[d].line[l] = cart[e].line[m]
    BY <2>1
  <2>3. LinesApart
    BY <1>0 DEF Agreement, RowsAgree
  <2> QED
    BY <2>2, <2>3 DEF LinesApart
<1>8. ASSUME NEW d \in Carts
      PROVE  CartRow(d)'
  BY <1>0, <1>1, <1>3, <1>4, <1>6 DEF Agreement, RowsAgree, CartRow
<1>9. ASSUME NEW o \in Orders
      PROVE  OrderCart(o)'
  BY <1>0, <1>1, <1>4, References DEF Agreement, RowsAgree, OrderCart
<1>10. ASSUME NEW v \in Workers \ {w}
       PROVE  TaskCart(v)'
  <2>1. task[v].cart # None => task[v].cart \in Carts /\ task[v].cart # c
    BY <1>O
  <2>2. task[v].cart # None => CartSame(task[v].cart)
    BY <1>4, <2>1 DEF CartSame
  <2>3. ASSUME task[v].op = "checkout", NEW h \in Holds, InLine(task[v].cart, h)
        PROVE  LineStays(h)
    <3>1. task[v].cart \in Carts /\ task[v].cart # c
      BY <1>0, <2>1, <2>3 DEF TasksShaped, Shaped, CartOps
    <3>2. h \notin Applied(w)
      BY <1>0, <1>2, <1>5, <2>3, <3>1, OneCart DEF Agreement, RowsAgree
    <3> QED
      BY <1>3, <3>2 DEF LineStays
  <2> QED
    BY <1>0, <1>1, <1>3, <2>2, <2>3, IdleFree, TaskStays DEF Agreement
<1> QED
  BY <1>0, <1>1, <1>7, <1>8, <1>9, <1>10, IdleFree DEF Agreement, RowsAgree

LEMMA RenewReopenAgrees ==
  ASSUME Bindings, NEW w \in Workers, RenewReopen(w)
  PROVE  Agreement'
<1>0. TypeOK /\ TasksShaped /\ Agreement
  BY DEF Bindings
<1> DEFINE c == task[w].cart
<1>1. UNCHANGED <<hold, order>> /\ task[w].op = "reopen" /\ Finish(w)
  BY DEF RenewReopen, Is
<1>2. c \in Carts /\ cart[c].status \in {"open", "expired"}
  BY <1>0, <1>1, References DEF Agreement, TaskCart, TasksShaped, Shaped, CartOps
<1>3. /\ \A d \in Carts : /\ cart'[d].last = cart[d].last
                          /\ d # c => cart'[d] = cart[d]
      /\ cart'[c].status = "open" /\ \A l \in Kinds : cart'[c].line[l] = None
  BY <1>0, <1>2 DEF RenewReopen, TypeOK, NoCart
<1>O. \A v \in Workers \ {w} : task[v].cart # None => task[v].cart \in Carts /\ task[v].cart # c
  BY <1>0, References DEF TasksShaped, Exclusive
<1> HIDE DEF c
<1>4. \A d \in Carts : \A h \in Holds : InLine(d, h)' <=> d # c /\ InLine(d, h)
  <2>1. None \notin Holds
    BY <1>0, References
  <2> QED
    BY <1>3, <2>1 DEF InLine
<1>5. LinesApart'
  <2> SUFFICES ASSUME NEW d \in Carts, NEW e \in Carts, NEW l \in Kinds, NEW m \in Kinds,
                      cart'[d].line[l] # None, cart'[d].line[l] = cart'[e].line[m]
               PROVE  d = e /\ l = m
    BY DEF LinesApart
  <2>1. cart'[d].line[l] = cart[d].line[l] /\ cart'[e].line[m] = cart[e].line[m]
    BY <1>3
  <2>2. cart[d].line[l] # None /\ cart[d].line[l] = cart[e].line[m]
    BY <2>1
  <2>3. LinesApart
    BY <1>0 DEF Agreement, RowsAgree
  <2> QED
    BY <2>2, <2>3 DEF LinesApart
<1>6. ASSUME NEW d \in Carts
      PROVE  CartRow(d)'
  BY <1>0, <1>1, <1>3, <1>4 DEF Agreement, RowsAgree, CartRow
<1>7. ASSUME NEW o \in Orders
      PROVE  OrderCart(o)'
  BY <1>0, <1>1, <1>2, <1>3, References DEF Agreement, RowsAgree, OrderCart
<1>8. ASSUME NEW v \in Workers \ {w}
      PROVE  TaskCart(v)'
  <2>1. task[v].cart # None => task[v].cart \in Carts /\ task[v].cart # c
    BY <1>O
  <2>2. task[v].cart # None => CartSame(task[v].cart)
    BY <1>3, <2>1 DEF CartSame
  <2> QED
    BY <1>0, <1>1, <2>2, IdleFree, TaskStays DEF Agreement, LineStays
<1> QED
  BY <1>0, <1>1, <1>5, <1>6, <1>7, <1>8, IdleFree DEF Agreement, RowsAgree

LEMMA AddCommitAgrees ==
  ASSUME Bindings, NEW w \in Workers, NEW c \in Carts, NEW k \in Kinds, AddCommit(w, c, k)
  PROVE  Agreement'
<1>0. TypeOK /\ TasksShaped /\ Agreement /\ RowsExist
  BY DEF Bindings
<1> DEFINE q == task[w].qty
<1>1. UNCHANGED order /\ task[w].op = "add" /\ task[w].cart = c /\ Finish(w) /\ q \in Nat
  BY <1>0, References DEF AddCommit, Is, Task
<1>2. cart[c].status = "open"
  BY <1>0, <1>1 DEF Agreement, TaskCart
<1>3. \A v \in Workers \ {w} : task[v].cart # None => task[v].cart \in Carts /\ task[v].cart # c
  BY <1>0, <1>1, References DEF TasksShaped, Exclusive
<1>4. None \notin Holds
  BY <1>0, References
<1>5. ASSUME NEW h \in Holds, NewLine(c, k, q, h), cart[c].line[k] = None
      PROVE  Agreement'
  <2>1. /\ hold[h].status = "none"
        /\ hold'[h].status = "held" /\ hold'[h].order = None
        /\ \A g \in Holds \ {h} : hold'[g] = hold[g]
    BY <1>0, <1>1, <1>5, NewLineMakes
  <2>2. \A d \in Carts : ~InLine(d, h)
    BY <1>0, <2>1 DEF Agreement, RowsAgree, CartRow
  <2>3. /\ \A d \in Carts : /\ cart'[d].status = cart[d].status /\ cart'[d].last = cart[d].last
                            /\ d # c => cart'[d] = cart[d]
        /\ \A l \in Kinds : cart'[c].line[l] = IF l = k THEN h ELSE cart[c].line[l]
    <3>1. cart \in [Carts -> Cart] /\ cart[c].line \in [Kinds -> Holds \cup {None}]
      BY <1>0 DEF TypeOK, Cart
    <3>2. cart' = [cart EXCEPT ![c] = [cart[c] EXCEPT !.lapsed = FALSE, !.line[k] = h, !.newest = h]]
      BY <1>5, Zenon DEF NewLine
    <3>3. cart'[c] = [cart[c] EXCEPT !.lapsed = FALSE, !.line[k] = h, !.newest = h]
      BY <3>1, <3>2
    <3>4. \A d \in Carts : d # c => cart'[d] = cart[d]
      BY <3>1, <3>2
    <3>5. /\ cart'[c].status = cart[c].status /\ cart'[c].last = cart[c].last
          /\ cart'[c].line = [cart[c].line EXCEPT ![k] = h]
      BY <3>1, <3>3 DEF Cart
    <3> QED
      BY <3>1, <3>4, <3>5
  <2>4. \A d \in Carts : \A g \in Holds : InLine(d, g)' <=> (InLine(d, g) \/ (d = c /\ g = h))
    <3>1. \A d \in Carts : d # c => \A g \in Holds : InLine(d, g)' <=> InLine(d, g)
      BY <2>3 DEF InLine
    <3>2. \A g \in Holds : InLine(c, g)' <=> (InLine(c, g) \/ g = h)
      BY <1>4, <1>5, <2>3 DEF InLine
    <3> QED
      BY <3>1, <3>2
  <2>5. LinesApart'
    <3> SUFFICES ASSUME NEW d \in Carts, NEW e \in Carts, NEW l \in Kinds, NEW m \in Kinds,
                        cart'[d].line[l] # None, cart'[d].line[l] = cart'[e].line[m]
                 PROVE  d = e /\ l = m
      BY DEF LinesApart
    <3>1. LinesApart
      BY <1>0 DEF Agreement, RowsAgree
    <3>2. \A b \in Carts : \A n \in Kinds : cart[b].line[n] # h
      BY <2>2 DEF InLine
    <3>3. \A b \in Carts : \A n \in Kinds :
             cart'[b].line[n] = IF b = c /\ n = k THEN h ELSE cart[b].line[n]
      BY <2>3
    <3> QED
      BY <3>1, <3>2, <3>3 DEF LinesApart
  <2>6. ASSUME NEW d \in Carts
        PROVE  CartRow(d)'
    BY <1>0, <1>1, <1>2, <2>1, <2>2, <2>3, <2>4 DEF Agreement, RowsAgree, CartRow
  <2>7. ASSUME NEW o \in Orders
        PROVE  OrderCart(o)'
    BY <1>0, <1>1, <2>3, References DEF Agreement, RowsAgree, OrderCart
  <2>8. ASSUME NEW v \in Workers \ {w}
        PROVE  TaskCart(v)'
    <3>1. task[v].cart # None => CartSame(task[v].cart)
      BY <1>3, <2>3 DEF CartSame
    <3>2. \A g \in Holds : hold[g].order # None => hold'[g].order = hold[g].order
      BY <1>0, <2>1 DEF RowsExist, HoldRow
    <3>3. ASSUME task[v].op = "checkout", NEW g \in Holds, InLine(task[v].cart, g)
          PROVE  LineStays(g)
      <4>1. task[v].cart \in Carts
        BY <1>0, <1>3, <3>3 DEF TasksShaped, Shaped, CartOps
      <4>2. g # h
        BY <2>2, <3>3, <4>1
      <4> QED
        BY <2>1, <4>2 DEF LineStays
    <3> QED
      BY <1>0, <1>1, <3>1, <3>2, <3>3, IdleFree, TaskStays DEF Agreement
  <2> QED
    BY <1>0, <1>1, <2>5, <2>6, <2>7, <2>8, IdleFree DEF Agreement, RowsAgree
<1>G. ASSUME NEW h \in Holds, GrowLine(c, q, h)
      PROVE  /\ hold[h].status = "held" /\ hold'[h].status = "held" /\ hold'[h].order = hold[h].order
             /\ \A g \in Holds \ {h} : hold'[g] = hold[g]
  BY <1>0, <1>1, <1>G, GrowLineMakes
<1>6. ASSUME NEW h \in Holds, h = cart[c].line[k], GrowLine(c, q, h)
      PROVE  Agreement'
  <2>2. /\ hold[h].status = "held" /\ hold'[h].status = "held" /\ hold'[h].order = hold[h].order
        /\ \A g \in Holds \ {h} : hold'[g] = hold[g]
    BY <1>6, <1>G
  <2>3. InLine(c, h)
    BY <1>6 DEF InLine
  <2>4. \A d \in Carts : CartSame(d)
    BY <1>0, <1>6 DEF GrowLine, TypeOK, Cart, CartSame
  <2>5. \A g \in Holds : /\ hold'[g].order = hold[g].order
                         /\ hold[g].status # "none" => hold'[g].status # "none"
    BY <2>2
  <2>6. RowsAgree'
    BY <1>0, <1>1, <2>4, <2>5, RowsStay DEF Agreement
  <2>7. ASSUME NEW v \in Workers \ {w}
        PROVE  TaskCart(v)'
    <3>1. task[v].cart # None => CartSame(task[v].cart)
      BY <1>3, <2>4
    <3>2. ASSUME task[v].op = "checkout", NEW g \in Holds, InLine(task[v].cart, g)
          PROVE  LineStays(g)
      <4>1. task[v].cart \in Carts /\ task[v].cart # c
        BY <1>0, <1>3, <3>2 DEF TasksShaped, Shaped, CartOps
      <4>2. g # h
        BY <1>0, <2>3, <3>2, <4>1, OneCart DEF Agreement, RowsAgree
      <4> QED
        BY <2>2, <4>2 DEF LineStays
    <3> QED
      BY <1>0, <1>1, <2>5, <3>1, <3>2, IdleFree, TaskStays DEF Agreement
  <2> QED
    BY <1>0, <1>1, <2>6, <2>7, IdleFree DEF Agreement
<1>7. cart[c].line[k] # None => cart[c].line[k] \in Holds
  BY <1>0 DEF TypeOK, Cart
<1> QED
  BY <1>5, <1>6, <1>7 DEF AddCommit

-----------------------------------------------------------------------------
(* The steps of a checkout. *)

LEMMA CheckoutReadAgrees ==
  ASSUME Bindings, NEW w \in Workers, NEW c \in Carts, CheckoutRead(w, c)
  PROVE  Agreement'
<1>0. TypeOK /\ TasksShaped /\ Agreement /\ RowsExist
  BY DEF Bindings
<1> DEFINE t == [Idle EXCEPT !.op = "checkout", !.cart = c, !.seen = Read(LineHolds(c))]
<1>1. /\ task'[w] = t /\ \A v \in Workers \ {w} : task'[v] = task[v]
      /\ UNCHANGED <<hold, cart, order>>
  BY <1>0 DEF CheckoutRead, Become, TypeOK
<1>2. t.op = "checkout" /\ t.cart = c /\ t.seen = Read(LineHolds(c))
  BY DEF Idle
<1> HIDE DEF t
<1>3. cart[c].status = "open"
  BY DEF CheckoutRead, Usable
<1>4. ASSUME NEW h \in Holds
      PROVE  /\ t.seen[h] > 0 <=> InLine(c, h)
             /\ InLine(c, h) => t.seen[h] = hold[h].qty /\ hold[h].status = "held"
  <2>1. InLine(c, h) => h \in HeldHolds
    BY <1>0, InLineHolds DEF CheckoutRead, HeldHolds
  <2>2. h \in LineHolds(c) \cap HeldHolds <=> InLine(c, h)
    BY <1>0, <2>1, InLineHolds
  <2> QED
    BY <1>0, <1>2, <2>1, <2>2, ReadSeen DEF HeldHolds
<1>5. \A h \in Holds : InLine(c, h)' <=> InLine(c, h)
  BY <1>1 DEF InLine
<1>6. TaskCart(w)'
  BY <1>1, <1>2, <1>3, <1>4, <1>5 DEF TaskCart
<1> QED
  BY <1>0, <1>1, <1>6, ReaderAgrees

LEMMA CheckoutCommitAgrees ==
  ASSUME Bindings, NEW w \in Workers, NEW o \in Orders, CheckoutCommit(w, o)
  PROVE  Agreement'
<1>0. TypeOK /\ TasksShaped /\ Agreement /\ RowsExist
  BY DEF Bindings
<1> DEFINE c == task[w].cart
           t == [Idle EXCEPT !.op = "pay", !.cart = c, !.order = o]
           r == [NoOrder EXCEPT !.pay = "pending", !.cart = c,
                                !.qty = Places(Seen(w), task[w].seen)]
<1>1. /\ task'[w] = t /\ \A v \in Workers \ {w} : task'[v] = task[v]
      /\ task[w].op = "checkout" /\ order[o].pay = "none"
  BY <1>0 DEF CheckoutCommit, Become, TypeOK, Is
<1>2. t.op = "pay" /\ t.cart = c /\ t.order = o
  BY DEF Idle
<1>3. order'[o] = r /\ \A i \in Orders : i # o => order'[i] = order[i]
  BY <1>0, OrderMade DEF CheckoutCommit
<1>4. r.cart = c /\ ~r.payRow
  BY DEF NoOrder
<1> HIDE DEF t, r
<1>5. c \in Carts /\ cart[c].status = "open"
  BY <1>0, <1>1, References DEF Agreement, TaskCart, TasksShaped, Shaped, CartOps
<1>6. \A h \in Holds : h \in Seen(w) <=> InLine(c, h)
  BY <1>0, <1>1 DEF Agreement, TaskCart, Seen
<1>7. \A h \in Holds : /\ hold'[h].qty = hold[h].qty /\ hold'[h].lapsed = hold[h].lapsed
                       /\ IF InLine(c, h) THEN hold'[h].status = "held" /\ hold'[h].order = o
                                          ELSE hold'[h] = hold[h]
  BY <1>0, <1>6, CheckoutMakes
<1>8. \A d \in Carts : /\ cart'[d].line = cart[d].line
                       /\ d # c => cart'[d] = cart[d]
                       /\ d = c => cart'[d].status = "converted" /\ cart'[d].last = o
  BY <1>0, <1>5 DEF CheckoutCommit, TypeOK, Cart
<1>O. \A v \in Workers \ {w} : task[v].cart # None => task[v].cart \in Carts /\ task[v].cart # c
  BY <1>0, References DEF TasksShaped, Exclusive
<1> HIDE DEF c
<1>9. \A d \in Carts : \A h \in Holds : InLine(d, h)' <=> InLine(d, h)
  BY <1>8 DEF InLine
<1>10. \A d \in Carts : \A h \in Holds : InLine(d, h) /\ InLine(c, h) => d = c
  BY <1>0, <1>5, OneCart DEF Agreement, RowsAgree
<1>11. \A h \in Holds : InLine(c, h) => hold[h].order = None
  BY <1>0, <1>5 DEF Agreement, RowsAgree, CartRow
<1>12. order[o].cart = None
  BY <1>0, <1>1 DEF RowsExist, OrderRow, NoOrder
<1>13. LinesApart'
  BY <1>0, <1>8 DEF Agreement, RowsAgree, LinesApart
<1>14. ASSUME NEW d \in Carts
       PROVE  CartRow(d)'
  <2>1. CASE d = c
    BY <1>3, <1>4, <1>7, <1>8, <1>9, <1>0, <2>1, References DEF CartRow
  <2>2. CASE d # c
    <3>1. CartRow(d) /\ cart'[d] = cart[d]
      BY <1>0, <1>8, <2>2 DEF Agreement, RowsAgree
    <3>2. \A h \in Holds : InLine(d, h) => hold'[h] = hold[h]
      BY <1>7, <1>10, <2>2
    <3>3. cart[d].status \in {"converted", "expired"} => cart[d].last \in Orders \ {o}
      BY <1>0, <1>12, <3>1, References DEF CartRow
    <3> QED
      BY <1>3, <1>9, <3>1, <3>2, <3>3 DEF CartRow
  <2> QED
    BY <2>1, <2>2
<1>15. ASSUME NEW i \in Orders
       PROVE  OrderCart(i)'
  <2>1. CASE i = o
    BY <1>3, <1>4, <1>5, <1>8, <2>1 DEF OrderCart
  <2>2. CASE i # o
    BY <1>0, <1>3, <1>5, <1>8, <2>2, References DEF OrderCart, Agreement, RowsAgree
  <2> QED
    BY <2>1, <2>2
<1>16. ASSUME NEW v \in Workers \ {w}
       PROVE  TaskCart(v)'
  <2>1. task[v].cart # None => CartSame(task[v].cart)
    BY <1>8, <1>O DEF CartSame
  <2>2. \A h \in Holds : hold[h].order # None => hold'[h].order = hold[h].order
    BY <1>7, <1>11
  <2>3. ASSUME task[v].op = "checkout", NEW h \in Holds, InLine(task[v].cart, h)
        PROVE  LineStays(h)
    BY <1>7 DEF LineStays
  <2>4. task[v].op \in {"pay", "compensate", "close"} =>
            order'[task[v].order].payRow = order[task[v].order].payRow
    <3>1. task[v].op \in OrderOps => task[v].order \in Orders /\ order[task[v].order].pay # "none"
      BY <1>0, References DEF TasksShaped, Shaped, RowsExist, TaskRow
    <3> QED
      BY <1>1, <1>3, <3>1 DEF OrderOps
  <2> QED
    BY <1>0, <1>1, <2>1, <2>2, <2>3, <2>4, TaskStays DEF Agreement
<1>17. TaskCart(w)'
  BY <1>1, <1>2, <1>3, <1>4, <1>5, <1>8 DEF TaskCart
<1> QED
  BY <1>13, <1>14, <1>15, <1>16, <1>17 DEF Agreement, RowsAgree

\* A request that is paying owns its order's only cart and is alone with it.
LEMMA PayingAlone ==
  ASSUME Bindings, NEW w \in Workers, task[w].op \in {"pay", "compensate", "close"}
  PROVE  LET c == task[w].cart
             o == task[w].order
         IN  /\ c \in Carts /\ o \in Orders
             /\ cart[c].status = "converted" /\ cart[c].last = o /\ order[o].cart = c
             /\ order[o].pay # "none" /\ ~order[o].payRow
             /\ \A d \in Carts : cart[d].status \in {"converted", "expired"} /\ cart[d].last = o
                                   => d = c
             /\ \A v \in Workers \ {w} : /\ task[v].cart # None => task[v].cart \in Carts \ {c}
                                         /\ task[v].op \in {"pay", "compensate", "close"}
                                              => task[v].order # o
<1>0. TypeOK /\ TasksShaped /\ Agreement /\ RowsExist
  BY DEF Bindings
<1>1. ASSUME NEW v \in Workers, task[v].op \in {"pay", "compensate", "close"}
      PROVE  /\ task[v].cart \in Carts /\ task[v].order \in Orders
             /\ cart[task[v].cart].status = "converted" /\ cart[task[v].cart].last = task[v].order
             /\ order[task[v].order].cart = task[v].cart
             /\ order[task[v].order].pay # "none" /\ ~order[task[v].order].payRow
  <2>1. task[v].cart \in Carts /\ task[v].order \in Orders
    BY <1>0, <1>1, References DEF TasksShaped, Shaped, CartOps, OrderOps
  <2>2. cart[task[v].cart].status = "converted" /\ cart[task[v].cart].last = task[v].order
        /\ ~order[task[v].order].payRow
    BY <1>0, <1>1 DEF Agreement, TaskCart
  <2> QED
    BY <1>0, <2>1, <2>2, References DEF Agreement, RowsAgree, CartRow, RowsExist, TaskRow
<1>2. \A d \in Carts : cart[d].status \in {"converted", "expired"} => order[cart[d].last].cart = d
  BY <1>0 DEF Agreement, RowsAgree, CartRow
<1>3. \A v \in Workers \ {w} : task[v].cart # None => task[v].cart \in Carts /\ task[v].cart # task[w].cart
  BY <1>0, References DEF TasksShaped, Exclusive
<1>4. ASSUME NEW v \in Workers \ {w}, task[v].op \in {"pay", "compensate", "close"}
      PROVE  task[v].order # task[w].order
  <2>1. task[v].cart \in Carts /\ order[task[v].order].cart = task[v].cart
    BY <1>1, <1>4
  <2>2. task[v].cart # task[w].cart /\ order[task[w].order].cart = task[w].cart
    BY <1>0, <1>1, <1>3, <2>1, References
  <2> QED
    BY <2>1, <2>2
<1> QED
  BY <1>1, <1>2, <1>3, <1>4

LEMMA PayStartAgrees ==
  ASSUME Bindings, NEW w \in Workers, PayStart(w)
  PROVE  Agreement'
<1>0. TypeOK /\ TasksShaped /\ Agreement
  BY DEF Bindings
<1> DEFINE c == task[w].cart
           o == task[w].order
<1>1. task[w].op = "pay" /\ Finish(w) /\ UNCHANGED <<hold, cart>>
  BY DEF PayStart, Is
<1>2. \A i \in Orders : /\ order'[i].cart = order[i].cart /\ order'[i].pay = order[i].pay
                        /\ i # o => order'[i] = order[i]
  BY <1>0, PayStartKeeps DEF OrderFixed
<1>3. /\ c \in Carts /\ o \in Orders
      /\ cart[c].status = "converted" /\ cart[c].last = o /\ order[o].cart = c
      /\ \A d \in Carts : cart[d].status \in {"converted", "expired"} /\ cart[d].last = o => d = c
      /\ \A v \in Workers \ {w} : task[v].op \in {"pay", "compensate", "close"} => task[v].order # o
  BY <1>1, PayingAlone
<1>O. \A v \in Workers : task[v].op \in OrderOps => task[v].order \in Orders
  BY <1>0, References DEF TasksShaped, Shaped
<1> HIDE DEF c, o
<1>4. \A d \in Carts : \A h \in Holds : InLine(d, h)' <=> InLine(d, h)
  BY <1>1 DEF InLine
<1>5. LinesApart'
  BY <1>0, <1>1 DEF Agreement, RowsAgree, LinesApart
<1>6. ASSUME NEW d \in Carts
      PROVE  CartRow(d)'
  BY <1>0, <1>1, <1>2, <1>3, <1>4, References DEF Agreement, RowsAgree, CartRow
<1>7. ASSUME NEW i \in Orders
      PROVE  OrderCart(i)'
  <2>1. CASE i = o
    BY <1>1, <1>2, <1>3, <2>1 DEF OrderCart
  <2>2. CASE i # o
    BY <1>0, <1>1, <1>2, <2>2 DEF OrderCart, Agreement, RowsAgree
  <2> QED
    BY <2>1, <2>2
<1>8. ASSUME NEW v \in Workers \ {w}
      PROVE  TaskCart(v)'
  <2>1. task[v].op \in {"pay", "compensate", "close"} =>
            order'[task[v].order].payRow = order[task[v].order].payRow
    BY <1>2, <1>3, <1>O DEF OrderOps
  <2> QED
    BY <1>0, <1>1, <2>1, IdleFree, TaskStays DEF Agreement, CartSame, LineStays
<1> QED
  BY <1>0, <1>1, <1>5, <1>6, <1>7, <1>8, IdleFree DEF Agreement, RowsAgree

LEMMA PayStartFailsAgrees ==
  ASSUME Bindings, NEW w \in Workers, PayStartFails(w)
  PROVE  Agreement'
<1>0. TypeOK /\ TasksShaped /\ Agreement /\ RowsExist
  BY DEF Bindings
<1> DEFINE c == task[w].cart
           o == task[w].order
           t == [task[w] EXCEPT !.op = "compensate", !.seen = Read(OrderHolds(o))]
<1>1. /\ task'[w] = t /\ \A v \in Workers \ {w} : task'[v] = task[v]
      /\ UNCHANGED <<hold, cart, order>> /\ task[w].op = "pay"
  BY <1>0 DEF PayStartFails, Become, TypeOK, Is
<1>2. t.op = "compensate" /\ t.cart = c /\ t.order = o /\ t.seen = Read(OrderHolds(o))
  BY <1>0, References DEF Task
<1>3. /\ c \in Carts /\ o \in Orders /\ order[o].cart = c
      /\ cart[c].status = "converted" /\ cart[c].last = o /\ ~order[o].payRow
  BY <1>1, PayingAlone
<1> HIDE DEF c, o, t
<1>4. \A h \in Holds : t.seen[h] > 0 => hold[h].order = o
  <2>1. OrderHolds(o) = {h \in HeldHolds : hold[h].order = o}
    BY <1>0, <1>3, OrderHoldsOwned DEF Agreement
  <2> QED
    BY <1>0, <1>2, <2>1, ReadSeen
<1>5. TaskCart(w)'
  BY <1>1, <1>2, <1>3, <1>4 DEF TaskCart
<1> QED
  BY <1>0, <1>1, <1>5, ReaderAgrees

LEMMA CompensateCloseAgrees ==
  ASSUME Bindings, NEW w \in Workers, CompensateClose(w)
  PROVE  Agreement'
<1>0. TypeOK /\ TasksShaped /\ Agreement
  BY DEF Bindings
<1> DEFINE c == task[w].cart
           o == task[w].order
<1>1. task[w].op = "close" /\ Finish(w) /\ UNCHANGED hold
  BY DEF CompensateClose, Is
<1>2. /\ c \in Carts /\ o \in Orders
      /\ cart[c].status = "converted" /\ cart[c].last = o /\ order[o].cart = c
      /\ ~order[o].payRow
      /\ \A v \in Workers \ {w} : task[v].cart # None => task[v].cart \in Carts \ {c}
  BY <1>1, PayingAlone
<1>3. \A i \in Orders : /\ order'[i].cart = order[i].cart /\ order'[i].payRow = order[i].payRow
                        /\ i # o => order'[i] = order[i]
                        /\ i = o => order'[i].pay = "canceled"
  BY <1>0, <1>2 DEF CompensateClose, TypeOK, Order
<1>4. \A d \in Carts : /\ cart'[d].line = cart[d].line /\ cart'[d].last = cart[d].last
                       /\ cart'[d].status = IF d = c THEN "expired" ELSE cart[d].status
  BY <1>0, <1>2 DEF CompensateClose, TypeOK, Cart
<1>O. \A v \in Workers : task[v].op \in OrderOps => task[v].order \in Orders
  BY <1>0, References DEF TasksShaped, Shaped
<1> HIDE DEF c, o
<1>5. \A d \in Carts : \A h \in Holds : InLine(d, h)' <=> InLine(d, h)
  BY <1>4 DEF InLine
<1>6. LinesApart'
  BY <1>0, <1>4 DEF Agreement, RowsAgree, LinesApart
<1>7. ASSUME NEW d \in Carts
      PROVE  CartRow(d)'
  <2>1. CASE d = c
    BY <1>0, <1>1, <1>2, <1>3, <1>4, <1>5, <2>1 DEF Agreement, RowsAgree, CartRow
  <2>2. CASE d # c
    BY <1>0, <1>1, <1>3, <1>4, <1>5, <2>2, References DEF Agreement, RowsAgree, CartRow
  <2> QED
    BY <2>1, <2>2
<1>8. ASSUME NEW i \in Orders
      PROVE  OrderCart(i)'
  <2>1. CASE i = o
    BY <1>2, <1>3, <2>1 DEF OrderCart
  <2>2. CASE i # o
    BY <1>0, <1>2, <1>3, <1>4, <2>2, References DEF OrderCart, Agreement, RowsAgree
  <2> QED
    BY <2>1, <2>2
<1>9. ASSUME NEW v \in Workers \ {w}
      PROVE  TaskCart(v)'
  <2>1. task[v].cart # None => CartSame(task[v].cart)
    BY <1>2, <1>4 DEF CartSame
  <2>2. task[v].op \in {"pay", "compensate", "close"} =>
            order'[task[v].order].payRow = order[task[v].order].payRow
    BY <1>3, <1>O DEF OrderOps
  <2> QED
    BY <1>0, <1>1, <2>1, <2>2, IdleFree, TaskStays DEF Agreement, LineStays
<1> QED
  BY <1>0, <1>1, <1>6, <1>7, <1>8, <1>9, IdleFree DEF Agreement, RowsAgree

-----------------------------------------------------------------------------
(* Payments, counter sales and time. *)

\* A step that only writes orders, and perhaps begins or ends one task.
LEMMA OrderStepAgrees ==
  ASSUME TypeOK, TasksShaped, Agreement, UNCHANGED <<hold, cart>>,
         \A o \in Orders : /\ order'[o].cart = order[o].cart
                           /\ order'[o].payRow = order[o].payRow
                           /\ order'[o].pay = "pending" => order[o].pay = "pending",
         \A v \in Workers : task'[v] = task[v] \/ TaskCart(v)'
  PROVE  Agreement'
<1>1. RowsAgree'
  BY RowsStay DEF Agreement, CartSame
<1>2. ASSUME NEW v \in Workers, task'[v] = task[v]
      PROVE  TaskCart(v)'
  <2>1. task[v].op \in {"pay", "compensate", "close"} => task[v].order \in Orders
    BY References DEF TasksShaped, Shaped, OrderOps
  <2> QED
    BY <1>2, <2>1, TaskStays DEF Agreement, CartSame, LineStays
<1> QED
  BY <1>1, <1>2 DEF Agreement

LEMMA PaymentEventAgrees ==
  ASSUME Bindings, Undisturbed, NEW w \in Workers, NEW o \in Orders,
         PaymentFails(w, o) \/ RefundRead(w, o) \/ VoidRead(w, o)
  PROVE  Agreement'
<1>0. TypeOK /\ TasksShaped /\ Agreement /\ RowsExist
  BY DEF Bindings
<1>1. CASE PaymentFails(w, o)
  <2> DEFINE t == [Idle EXCEPT !.op = "release", !.order = o, !.seen = Read(OrderHolds(o))]
  <2>1. /\ task'[w] = t /\ \A v \in Workers \ {w} : task'[v] = task[v]
        /\ UNCHANGED <<hold, cart>> /\ order' = [order EXCEPT ![o].pay = "failed"]
        /\ order[o].pay = "pending"
    BY <1>0, <1>1 DEF PaymentFails, Become, TypeOK, Undisturbed
  <2>2. t.op = "release" /\ t.order = o /\ t.seen = Read(OrderHolds(o))
    BY DEF Idle
  <2> HIDE DEF t
  <2>3. \A h \in Holds : t.seen[h] > 0 => hold[h].order = o
    <3>1. OrderHolds(o) = {h \in HeldHolds : hold[h].order = o}
      BY <1>0, <2>1, OrderHoldsOwned DEF Agreement
    <3> QED
      BY <1>0, <2>2, <3>1, ReadSeen
  <2>4. TaskCart(w)'
    BY <2>1, <2>2, <2>3 DEF TaskCart
  <2>5. \A i \in Orders : /\ order'[i].cart = order[i].cart
                          /\ order'[i].payRow = order[i].payRow
                          /\ order'[i].pay = "pending" => order[i].pay = "pending"
    BY <1>0, <2>1 DEF TypeOK, Order
  <2> QED
    BY <1>0, <2>1, <2>4, <2>5, OrderStepAgrees
<1>2. CASE RefundRead(w, o)
  <2> DEFINE t == [Idle EXCEPT !.op = "refund", !.order = o, !.qty = order[o].tickets]
  <2>1. /\ task'[w] = t /\ \A v \in Workers \ {w} : task'[v] = task[v]
        /\ UNCHANGED <<hold, cart>> /\ order' = [order EXCEPT ![o].pay = "refunded"]
    BY <1>0, <1>2 DEF RefundRead, Become, TypeOK
  <2>2. t.op = "refund"
    BY DEF Idle
  <2> HIDE DEF t
  <2>3. TaskCart(w)'
    BY <2>1, <2>2, TaskFree
  <2>4. \A i \in Orders : /\ order'[i].cart = order[i].cart
                          /\ order'[i].payRow = order[i].payRow
                          /\ order'[i].pay = "pending" => order[i].pay = "pending"
    BY <1>0, <2>1 DEF TypeOK, Order
  <2> QED
    BY <1>0, <2>1, <2>3, <2>4, OrderStepAgrees
<1>3. CASE VoidRead(w, o)
  <2> DEFINE t == [Idle EXCEPT !.op = "void", !.order = o,
                               !.qty = order[o].tickets + order[o].cancelled]
  <2>1. /\ task'[w] = t /\ \A v \in Workers \ {w} : task'[v] = task[v]
        /\ UNCHANGED <<hold, cart, order>>
    BY <1>0, <1>3 DEF VoidRead, Become, TypeOK
  <2>2. t.op = "void"
    BY DEF Idle
  <2> HIDE DEF t
  <2>3. TaskCart(w)'
    BY <2>1, <2>2, TaskFree
  <2> QED
    BY <1>0, <2>1, <2>3, ReaderAgrees
<1> QED
  BY <1>1, <1>2, <1>3

LEMMA RestoreCommitAgrees ==
  ASSUME Bindings, NEW w \in Workers, RestoreCommit(w)
  PROVE  Agreement'
<1>0. TypeOK /\ TasksShaped /\ Agreement
  BY DEF Bindings
<1>1. UNCHANGED <<hold, cart>> /\ Finish(w)
  BY DEF RestoreCommit
<1>2. \A i \in Orders : /\ order'[i].cart = order[i].cart
                        /\ order'[i].payRow = order[i].payRow
                        /\ order'[i].pay = "pending" => order[i].pay = "pending"
  BY <1>0, RestoreKeeps DEF OrderFixed
<1> QED
  BY <1>0, <1>1, <1>2, IdleFree, OrderStepAgrees

LEMMA PaymentSucceedsAgrees ==
  ASSUME Bindings, NEW o \in Orders, PaymentSucceeds(o)
  PROVE  Agreement'
<1>0. TypeOK /\ TasksShaped /\ Agreement
  BY DEF Bindings
<1>1. UNCHANGED <<hold, cart, task>> /\ order' = [order EXCEPT ![o].pay = "paid"]
  BY DEF PaymentSucceeds
<1>2. \A i \in Orders : /\ order'[i].cart = order[i].cart
                        /\ order'[i].payRow = order[i].payRow
                        /\ order'[i].pay = "pending" => order[i].pay = "pending"
  BY <1>0, <1>1 DEF TypeOK, Order
<1> QED
  BY <1>0, <1>1, <1>2, OrderStepAgrees

LEMMA FulfilAgrees ==
  ASSUME Bindings, NEW o \in Orders, Fulfil(o)
  PROVE  Agreement'
<1>0. TypeOK /\ TasksShaped /\ Agreement
  BY DEF Bindings
<1>1. /\ ConsumeHolds(OrderHolds(o)) /\ order[o].payRow /\ UNCHANGED <<cart, task>>
  BY DEF Fulfil
<1>2. OrderHolds(o) = {h \in HeldHolds : hold[h].order = o}
  BY <1>0, <1>1, OrderHoldsOwned DEF Agreement
<1>3. \A h \in Holds : /\ hold'[h].qty = hold[h].qty /\ hold'[h].order = hold[h].order
                       /\ hold'[h].lapsed = hold[h].lapsed
                       /\ hold'[h].status = "none" <=> hold[h].status = "none"
                       /\ h \notin OrderHolds(o) => hold'[h].status = hold[h].status
  BY <1>0, <1>1, <1>2, ConsumeKeeps DEF HoldKept
<1>4. \A i \in Orders : /\ order'[i].cart = order[i].cart /\ order'[i].payRow = order[i].payRow
                        /\ order'[i].pay = order[i].pay
  BY <1>0, FulfilKeeps DEF OrderFixed
<1>5. RowsAgree'
  BY <1>0, <1>1, <1>3, <1>4, RowsStay DEF Agreement, CartSame
<1>6. ASSUME NEW v \in Workers
      PROVE  TaskCart(v)'
  <2>1. ASSUME task[v].op = "checkout", NEW h \in Holds, InLine(task[v].cart, h)
        PROVE  LineStays(h)
    <3>1. task[v].cart \in Carts /\ cart[task[v].cart].status = "open"
      BY <1>0, <2>1, References DEF Agreement, TaskCart, TasksShaped, Shaped, CartOps
    <3>2. hold[h].order = None
      BY <1>0, <2>1, <3>1 DEF Agreement, RowsAgree, CartRow
    <3>3. h \notin OrderHolds(o)
      BY <1>0, <1>2, <3>2, References
    <3> QED
      BY <1>3, <3>3 DEF LineStays
  <2>2. task[v].op \in {"pay", "compensate", "close"} => task[v].order \in Orders
    BY <1>0, References DEF TasksShaped, Shaped, OrderOps
  <2> QED
    BY <1>0, <1>1, <1>3, <1>4, <2>1, <2>2, TaskStays DEF Agreement, CartSame
<1> QED
  BY <1>5, <1>6 DEF Agreement

LEMMA SaleAgrees ==
  ASSUME Bindings, NEW o \in Orders, NEW q \in 1..MaxQty, BoxSale(o, q) \/ TapSale(o, q)
  PROVE  Agreement'
<1>0. TypeOK /\ TasksShaped /\ Agreement /\ RowsExist
  BY DEF Bindings
<1>1. UNCHANGED <<cart, task>> /\ order[o].pay = "none"
  BY DEF BoxSale, TapSale
<1>2. \A h \in Holds : hold[h].status # "none" => hold'[h] = hold[h]
  <2>1. CASE BoxSale(o, q)
    BY <2>1 DEF BoxSale
  <2>2. CASE TapSale(o, q)
    BY <1>0, <2>2, TapMakes
  <2> QED
    BY <2>1, <2>2
<1>3. \A i \in Orders : /\ order'[i].cart = order[i].cart
                        /\ order[i].cart # None => order'[i] = order[i]
                        /\ i # o => order'[i] = order[i]
  <2>1. order[o].cart = None
    BY <1>0, <1>1 DEF RowsExist, OrderRow, NoOrder
  <2>2. PICK r : r.cart = None /\ order' = [order EXCEPT ![o] = r]
    BY DEF BoxSale, TapSale, NoOrder
  <2> QED
    BY <1>0, <2>1, <2>2, OrderMade
<1>4. RowsAgree'
  BY <1>0, <1>1, <1>2, <1>3, RowsStay DEF Agreement, CartSame
<1>5. ASSUME NEW v \in Workers
      PROVE  TaskCart(v)'
  <2>1. \A h \in Holds : hold[h].order # None => hold'[h].order = hold[h].order
    BY <1>0, <1>2 DEF RowsExist, HoldRow
  <2>2. ASSUME task[v].op = "checkout", NEW h \in Holds, InLine(task[v].cart, h)
        PROVE  LineStays(h)
    <3>1. hold[h].status # "none"
      BY <1>0, <2>2, References DEF Agreement, RowsAgree, CartRow, TasksShaped, Shaped, CartOps
    <3> QED
      BY <1>2, <3>1 DEF LineStays
  <2>3. task[v].op \in {"pay", "compensate", "close"} =>
            task[v].order \in Orders /\ order[task[v].order].pay # "none"
    BY <1>0, References DEF TasksShaped, Shaped, OrderOps, RowsExist, TaskRow
  <2> QED
    BY <1>0, <1>1, <1>3, <2>1, <2>2, <2>3, TaskStays DEF Agreement, CartSame
<1> QED
  BY <1>4, <1>5 DEF Agreement

LEMMA LapseAgrees ==
  ASSUME Bindings, (\E h \in Holds : LapseHold(h)) \/ (\E c \in Carts : LapseCart(c))
  PROVE  Agreement'
<1>0. TypeOK /\ TasksShaped /\ Agreement
  BY DEF Bindings
<1>1. UNCHANGED <<order, task>>
  BY DEF LapseHold, LapseCart
<1>2. \A c \in Carts : CartSame(c)
  BY <1>0 DEF LapseHold, LapseCart, CartSame, TypeOK, Cart
<1>3. \A h \in Holds : /\ hold'[h].qty = hold[h].qty /\ hold'[h].order = hold[h].order
                       /\ hold[h].lapsed => hold'[h].lapsed
                       /\ hold'[h].status = hold[h].status
  BY <1>0, LapseKeeps DEF HoldKept
<1>4. RowsAgree'
  BY <1>0, <1>1, <1>2, <1>3, RowsStay DEF Agreement
<1>5. ASSUME NEW v \in Workers
      PROVE  TaskCart(v)'
  <2>1. task[v].cart # None => task[v].cart \in Carts
    BY <1>0, References
  <2> QED
    BY <1>0, <1>1, <1>2, <1>3, <2>1, TaskStays DEF Agreement, LineStays
<1> QED
  BY <1>4, <1>5 DEF Agreement

\* What a sweep reads and rebuilds.
LEMMA SweepReadsAgree ==
  ASSUME Bindings, NEW w \in Workers,
         SweepRead(w) \/ SweepTally(w) \/ SweepCompare(w) \/ \E ch \in Channels : SweepRepair(w, ch)
  PROVE  Agreement'
<1>0. TypeOK /\ TasksShaped /\ Agreement /\ task[w] \in Task
  BY References DEF Bindings
<1>1. UNCHANGED <<hold, cart, order>>
  BY DEF SweepRead, SweepTally, SweepCompare, SweepRepair
<1>2. ASSUME NEW t, Become(w, t), t.op \in {"idle", "sweep", "compare", "repair"}
      PROVE  Agreement'
  <2>1. task'[w] = t /\ \A v \in Workers \ {w} : task'[v] = task[v]
    BY <1>0, <1>2 DEF Become, TypeOK
  <2>2. TaskCart(w)'
    BY <1>2, <2>1, TaskFree
  <2> QED
    BY <1>0, <1>1, <2>1, <2>2, ReaderAgrees
<1>3. CASE SweepRead(w)
  <2> DEFINE t == [Idle EXCEPT !.op = "sweep",
                     !.seen = Read({h \in HeldHolds : hold[h].lapsed /\ ~Protected(h)})]
  <2>1. Become(w, t)
    BY <1>3 DEF SweepRead
  <2>2. t.op = "sweep"
    BY DEF Idle
  <2> HIDE DEF t
  <2> QED
    BY <1>2, <2>1, <2>2
<1>4. CASE SweepTally(w)
  <2> DEFINE t == [task[w] EXCEPT !.op = "compare", !.tally = [ch \in Channels |-> HeldPlaces(ch)]]
  <2>1. Become(w, t)
    BY <1>4 DEF SweepTally
  <2>2. t.op = "compare"
    BY <1>0 DEF Task
  <2> HIDE DEF t
  <2> QED
    BY <1>2, <2>1, <2>2
<1>5. CASE SweepCompare(w)
  <2> DEFINE wrong == {ch \in task[w].todo : pool[ch].held # task[w].tally[ch]}
             t == IF wrong = {} THEN Idle ELSE [task[w] EXCEPT !.op = "repair", !.todo = wrong]
  <2>1. Become(w, t)
    BY <1>5 DEF SweepCompare
  <2>2. t.op \in {"idle", "repair"}
    BY <1>0 DEF Task, Idle
  <2> HIDE DEF t
  <2> QED
    BY <1>2, <2>1, <2>2
<1>6. ASSUME NEW ch \in Channels, SweepRepair(w, ch)
      PROVE  Agreement'
  <2> DEFINE rest == task[w].todo \ {ch}
             t == IF rest = {} THEN Idle ELSE [task[w] EXCEPT !.todo = rest]
  <2>1. Become(w, t) /\ task[w].op = "repair"
    BY <1>6 DEF SweepRepair, Is
  <2>2. t.op \in {"idle", "repair"}
    BY <1>0, <2>1 DEF Task, Idle
  <2> HIDE DEF t
  <2> QED
    BY <1>2, <2>1, <2>2
<1> QED
  BY <1>3, <1>4, <1>5, <1>6

\* Every step keeps the agreement, as long as nothing disturbs it.
LEMMA StepAgrees ==
  ASSUME Bindings, Undisturbed, [Next]_vars
  PROVE  Agreement'
<1>0. TypeOK /\ TasksShaped /\ Agreement
  BY DEF Bindings
<1>1. ASSUME NEW w \in Workers, CartStep(w)
      PROVE  Agreement'
  BY <1>1, AddReadAgrees, AddCommitAgrees, RemoveReadAgrees, RemoveCommitAgrees, RenewReadAgrees,
     RenewCommitAgrees, RenewReopenAgrees DEF CartStep
<1>2. ASSUME NEW w \in Workers, CheckoutStep(w)
      PROVE  Agreement'
  BY <1>2, CheckoutReadAgrees, CheckoutCommitAgrees, PayStartAgrees, PayStartFailsAgrees,
     CompensateCommitAgrees, CompensateCloseAgrees DEF CheckoutStep
<1>3. ASSUME NEW w \in Workers, PaymentStep(w)
      PROVE  Agreement'
  <2>1. \A o \in Orders : ~ManualRelease(w, o)
    BY DEF ManualRelease, Undisturbed
  <2> QED
    BY <1>3, <2>1, PaymentEventAgrees, ReleaseCommitAgrees, RestoreCommitAgrees DEF PaymentStep
<1>4. ASSUME NEW w \in Workers, SweepStep(w)
      PROVE  Agreement'
  BY <1>4, SweepReadsAgree, SweepExpireAgrees DEF SweepStep
<1>5. ASSUME NEW w \in Workers, GiveUp(w)
      PROVE  Agreement'
  <2>1. Finish(w) /\ UNCHANGED <<hold, cart, order>>
    BY <1>5 DEF GiveUp
  <2> QED
    BY <1>0, <2>1, IdleFree, ReaderAgrees
<1>6. CASE UNCHANGED vars
  <2>1. UNCHANGED <<hold, cart, order, task>>
    BY <1>6 DEF vars
  <2> QED
    BY <1>0, <2>1, OrderStepAgrees
<1> QED
  BY <1>1, <1>2, <1>3, <1>4, <1>5, <1>6, SaleAgrees, PaymentSucceedsAgrees, FulfilAgrees,
     LapseAgrees DEF Next

\* At first there is nothing to agree on.
LEMMA InitBindings == Init => Bindings
<1> SUFFICES ASSUME Init
             PROVE  Bindings
  OBVIOUS
<1>1. TypeOK /\ SweepIsCurrent
  BY InitType, InitCurrent
<1>2. /\ \A w \in Workers : task[w] = Idle
      /\ \A c \in Carts : cart[c] = NoCart
      /\ \A o \in Orders : order[o] = NoOrder
      /\ \A h \in Holds : hold[h] = NoHold
  BY DEF Init
<1>3. TasksShaped
  <2>1. \A w \in Workers : task[w].cart = None /\ Shaped(task[w])
    BY <1>2, IdleShaped
  <2> QED
    BY <2>1 DEF TasksShaped, Exclusive
<1>4. RowsExist
  BY <1>2 DEF RowsExist, HoldRow, OrderRow, TaskRow, NoHold, Idle, Nothing
<1>5. \A c \in Carts : \A h \in Holds : ~InLine(c, h)
  BY <1>1, <1>2, References DEF InLine, NoCart
<1>6. LinesApart
  BY <1>2 DEF LinesApart, NoCart
<1>7. \A c \in Carts : CartRow(c)
  BY <1>2, <1>5 DEF CartRow, NoCart
<1>8. \A o \in Orders : OrderCart(o)
  BY <1>2 DEF OrderCart, NoOrder
<1>9. \A w \in Workers : TaskCart(w)
  BY <1>2 DEF TaskCart, Idle
<1> QED
  BY <1>1, <1>3, <1>4, <1>6, <1>7, <1>8, <1>9 DEF Bindings, Agreement, RowsAgree

LEMMA StepBindings ==
  ASSUME Bindings, Undisturbed, [Next]_vars
  PROVE  Bindings'
<1>1. TypeOK'
  BY StepType DEF Bindings
<1>2. "add_during_sweep" \notin Allow
  BY DEF Undisturbed
<1> QED
  BY <1>1, <1>2, StepShaped, StepRows, StepAgrees, StepCurrent DEF Bindings

\* Who owns which hold stays agreed on in every state.
LEMMA BindingsHold == Undisturbed => (Spec => []Bindings)
<1> SUFFICES ASSUME Undisturbed
             PROVE  Spec => []Bindings
  OBVIOUS
<1>1. Bindings /\ [Next]_vars => Bindings'
  BY StepBindings
<1> QED
  BY <1>1, InitBindings, PTL DEF Spec

-----------------------------------------------------------------------------
(* What steps do to a hold's status, and to the places held. *)

\* A checkout binds only holds that are still held: what it has read and has left `held`
\* since then has lapsed.
LEMMA CheckoutKeepsHeld ==
  ASSUME Bindings, NEW w \in Workers, NEW o \in Orders, CheckoutCommit(w, o)
  PROVE  /\ \A h \in Seen(w) : hold[h].status = "held"
         /\ \A h \in Holds : /\ hold'[h].qty = hold[h].qty /\ hold'[h].channel = hold[h].channel
                             /\ hold'[h].status = hold[h].status
<1>0. TypeOK /\ TasksShaped /\ Agreement
  BY DEF Bindings
<1>1. \A h \in Holds : /\ hold'[h].qty = hold[h].qty /\ hold'[h].channel = hold[h].channel
                       /\ h \in Seen(w) => hold'[h].status = "held" /\ ~hold[h].lapsed
                       /\ h \notin Seen(w) => hold'[h] = hold[h]
  BY <1>0, CheckoutMakes
<1>2. \A h \in Seen(w) : h \in Holds /\ hold[h].status = "held"
  BY <1>0, <1>1 DEF CheckoutCommit, Is, Agreement, TaskCart, Seen
<1> QED
  BY <1>1, <1>2

\* What has left `held` stays as it is.
OnceLeft ==
    \A h \in Holds : hold[h].status \in {"expired", "released", "consumed"}
                        => hold'[h].status = hold[h].status

LEMMA ReleaseLeavesOnce ==
  ASSUME TypeOK, NEW w \in Workers, NEW next \in {"released", "expired"}, ReleaseSeen(w, next)
  PROVE  OnceLeft
  BY ReleaseKeeps DEF OnceLeft

LEMMA StepLeavesOnce ==
  ASSUME Bindings, Undisturbed, [Next]_vars
  PROVE  OnceLeft
<1>0. TypeOK
  BY DEF Bindings
<1>U. UNCHANGED hold => OnceLeft
  BY DEF OnceLeft
<1>1. ASSUME NEW w \in Workers, CartStep(w)
      PROVE  OnceLeft
  <2>1. ASSUME NEW c \in Carts, NEW k \in Kinds, AddCommit(w, c, k)
        PROVE  OnceLeft
    <3>1. task[w].qty \in Nat
      BY <1>0, References DEF Task
    <3>2. ASSUME NEW h \in Holds, NewLine(c, k, task[w].qty, h)
          PROVE  OnceLeft
      BY <1>0, <3>1, <3>2, NewLineMakes DEF OnceLeft
    <3>3. ASSUME NEW h \in Holds, GrowLine(c, task[w].qty, h)
          PROVE  OnceLeft
      BY <1>0, <3>1, <3>3, GrowLineMakes DEF OnceLeft
    <3>4. cart[c].line[k] # None => cart[c].line[k] \in Holds
      BY <1>0 DEF TypeOK, Cart
    <3> QED
      BY <2>1, <3>2, <3>3, <3>4 DEF AddCommit
  <2>2. CASE RemoveCommit(w)
    BY <1>0, <2>2, ReleaseLeavesOnce DEF RemoveCommit
  <2>3. CASE RenewCommit(w)
    BY <1>0, <2>3, ReleaseLeavesOnce DEF RenewCommit
  <2>4. ASSUME NEW c \in Carts, NEW k \in Kinds, NEW q \in 1..MaxQty,
               AddRead(w, c, k, q) \/ RemoveRead(w, c, k) \/ RenewRead(w, c) \/ RenewReopen(w)
        PROVE  OnceLeft
    BY <1>U, <2>4 DEF AddRead, RemoveRead, RenewRead, RenewReopen
  <2>5. CASE RenewReopen(w) \/ \E c \in Carts : RenewRead(w, c)
    BY <1>U, <2>5 DEF RenewRead, RenewReopen
  <2>6. CASE \E c \in Carts, k \in Kinds : RemoveRead(w, c, k)
    BY <1>U, <2>6 DEF RemoveRead
  <2> QED
    BY <1>1, <2>1, <2>2, <2>3, <2>4, <2>5, <2>6 DEF CartStep
<1>2. ASSUME NEW w \in Workers, CheckoutStep(w)
      PROVE  OnceLeft
  <2>1. CASE \E o \in Orders : CheckoutCommit(w, o)
    BY <2>1, CheckoutKeepsHeld DEF OnceLeft
  <2>2. CASE CompensateCommit(w)
    BY <1>0, <2>2, ReleaseLeavesOnce DEF CompensateCommit
  <2>3. CASE (\E c \in Carts : CheckoutRead(w, c)) \/ PayStart(w) \/ PayStartFails(w)
               \/ CompensateClose(w)
    BY <1>U, <2>3 DEF CheckoutRead, PayStart, PayStartFails, CompensateClose
  <2> QED
    BY <1>2, <2>1, <2>2, <2>3 DEF CheckoutStep
<1>3. ASSUME NEW w \in Workers, PaymentStep(w)
      PROVE  OnceLeft
  <2>1. CASE ReleaseCommit(w)
    BY <1>0, <2>1, ReleaseLeavesOnce DEF ReleaseCommit
  <2>2. CASE ~ReleaseCommit(w)
    BY <1>U, <1>3, <2>2 DEF PaymentStep, PaymentFails, ManualRelease, RefundRead, VoidRead, RestoreCommit
  <2> QED
    BY <2>1, <2>2
<1>4. ASSUME NEW w \in Workers, SweepStep(w)
      PROVE  OnceLeft
  <2>1. CASE SweepExpire(w)
    BY <1>0, <2>1, ReleaseLeavesOnce DEF SweepExpire
  <2>2. CASE ~SweepExpire(w)
    BY <1>U, <1>4, <2>2 DEF SweepStep, SweepRead, SweepTally, SweepCompare, SweepRepair
  <2> QED
    BY <2>1, <2>2
<1>5. ASSUME NEW o \in Orders, NEW q \in 1..MaxQty, BoxSale(o, q) \/ TapSale(o, q)
      PROVE  OnceLeft
  <2>1. CASE BoxSale(o, q)
    BY <1>U, <2>1 DEF BoxSale
  <2>2. CASE TapSale(o, q)
    BY <1>0, <2>2, TapMakes DEF OnceLeft
  <2> QED
    BY <1>5, <2>1, <2>2
<1>6. ASSUME NEW o \in Orders, PaymentSucceeds(o) \/ Fulfil(o)
      PROVE  OnceLeft
  <2>1. CASE PaymentSucceeds(o)
    BY <1>U, <2>1 DEF PaymentSucceeds
  <2>2. CASE Fulfil(o)
    <3>1. OrderHolds(o) \in SUBSET HeldHolds /\ ConsumeHolds(OrderHolds(o))
      BY <2>2 DEF Fulfil, OrderHolds
    <3> QED
      BY <1>0, <3>1, ConsumeKeeps DEF OnceLeft
  <2> QED
    BY <1>6, <2>1, <2>2
<1>7. CASE (\E h \in Holds : LapseHold(h)) \/ (\E c \in Carts : LapseCart(c))
  BY <1>0, <1>7, LapseKeeps DEF OnceLeft
<1>8. CASE (\E w \in Workers : GiveUp(w)) \/ UNCHANGED vars
  BY <1>U, <1>8 DEF GiveUp, vars
<1> QED
  BY <1>1, <1>2, <1>3, <1>4, <1>5, <1>6, <1>7, <1>8 DEF Next

\* A hold leaves `held` at most once, whatever read it while it was still held.
THEOREM HoldsLeaveOnce == Undisturbed => (Spec => LeavesHeldOnce)
<1> SUFFICES ASSUME Undisturbed
             PROVE  Spec => LeavesHeldOnce
  OBVIOUS
<1> DEFINE A == \A h \in Holds : hold[h].status \in {"expired", "released", "consumed"}
                                    => hold'[h].status = hold[h].status
<1>1. Bindings /\ [Next]_vars => [A]_vars
  BY StepLeavesOnce DEF OnceLeft
<1> QED
  BY <1>1, BindingsHold, PTL DEF Spec, LeavesHeldOnce

-----------------------------------------------------------------------------
(* The places held change by what leaves and by what arrives. *)

\* Places held when the holds in Left leave.
LEMMA PlacesLeave ==
  ASSUME TypeOK, TypeOK', NEW Left \in SUBSET HeldHolds,
         \A h \in Holds : /\ hold'[h].qty = hold[h].qty /\ hold'[h].channel = hold[h].channel
                          /\ hold'[h].status = "held" <=> hold[h].status = "held" /\ h \notin Left
  PROVE  \A ch : /\ Places(On(ch, Left), HoldQty) \in Nat /\ HeldPlaces(ch)' \in Nat
                 /\ HeldPlaces(ch)' = HeldPlaces(ch) - Places(On(ch, Left), HoldQty)
<1> SUFFICES ASSUME NEW ch
             PROVE  /\ Places(On(ch, Left), HoldQty) \in Nat /\ HeldPlaces(ch)' \in Nat
                    /\ HeldPlaces(ch)' = HeldPlaces(ch) - Places(On(ch, Left), HoldQty)
  OBVIOUS
<1> DEFINE A == On(ch, HeldHolds)
           L == On(ch, Left)
           R == A \ L
<1>1. A \in SUBSET Holds /\ L \in SUBSET Holds /\ R \in SUBSET Holds /\ A = R \cup L /\ R \cap L = {}
  BY DEF On, HeldHolds
<1>2. On(ch, HeldHolds)' = R
  BY DEF On, HeldHolds
<1>3. HoldQty' = HoldQty
  BY DEF HoldQty
<1> HIDE DEF A, L, R
<1>4. HeldPlaces(ch)' = Places(R, HoldQty)
  BY <1>2, <1>3 DEF HeldPlaces
<1>5. Places(R \cup L, HoldQty) = Places(R, HoldQty) + Places(L, HoldQty)
  <2>1. IsFiniteSet(R) /\ IsFiniteSet(L) /\ \A x \in R \cup L : HoldQty[x] \in Nat
    BY <1>1, HoldsCounted
  <2> QED
    BY <1>1, <2>1, PlacesAdd
<1>6. Places(R, HoldQty) \in Nat /\ Places(L, HoldQty) \in Nat
  BY <1>1, HoldsCounted, PlacesType
<1>7. HeldPlaces(ch) = Places(R \cup L, HoldQty)
  BY <1>1 DEF HeldPlaces, A
<1> QED
  BY <1>4, <1>5, <1>6, <1>7 DEF L

\* Places held when nothing leaves or arrives.
LEMMA PlacesStay ==
  ASSUME TypeOK, TypeOK',
         \A h \in Holds : /\ hold'[h].qty = hold[h].qty /\ hold'[h].channel = hold[h].channel
                          /\ hold'[h].status = "held" <=> hold[h].status = "held"
  PROVE  \A ch : HeldPlaces(ch)' = HeldPlaces(ch)
<1>1. \A ch : On(ch, {}) = {}
  BY DEF On
<1>2. \A ch : HeldPlaces(ch)' = HeldPlaces(ch) - Places(On(ch, {}), HoldQty)
  BY PlacesLeave
<1> QED
  BY <1>1, <1>2, HeldPlacesType, PlacesNone

\* Places held when a hold is created or grows by q.
LEMMA PlacesArrive ==
  ASSUME TypeOK, TypeOK', NEW h \in Holds, NEW q \in Nat,
         hold'[h].status = "held", \A g \in Holds \ {h} : hold'[g] = hold[g],
         \/ hold[h].status = "none" /\ hold'[h].qty = q
         \/ /\ hold[h].status = "held" /\ hold'[h].qty = hold[h].qty + q
            /\ hold'[h].channel = hold[h].channel
  PROVE  \A ch : HeldPlaces(ch)' = HeldPlaces(ch) + (IF ch = hold'[h].channel THEN q ELSE 0)
<1> SUFFICES ASSUME NEW ch
             PROVE  HeldPlaces(ch)' = HeldPlaces(ch) + (IF ch = hold'[h].channel THEN q ELSE 0)
  OBVIOUS
<1> DEFINE A == On(ch, HeldHolds)
           R == A \ {h}
<1>1. A \in SUBSET Holds /\ R \in SUBSET Holds
  BY DEF On, HeldHolds
<1>2. On(ch, HeldHolds)' = IF ch = hold'[h].channel THEN R \cup {h} ELSE R
  BY DEF On, HeldHolds
<1>3. h \in A => hold[h].status = "held" /\ hold[h].channel = ch
  BY DEF On, HeldHolds
<1>A. hold[h].status = "held" /\ hold[h].channel = ch => h \in A
  BY DEF On, HeldHolds
<1>4. \A x \in R : HoldQty'[x] = HoldQty[x]
  BY <1>1 DEF HoldQty
<1>5. HoldQty'[h] = hold'[h].qty /\ HoldQty[h] = hold[h].qty
  BY DEF HoldQty
<1>6. /\ IsFiniteSet(R) /\ IsFiniteSet(A)
      /\ \A x \in A : HoldQty[x] \in Nat
      /\ hold[h].qty \in Nat /\ hold'[h].qty \in Nat
  BY <1>1, HoldsCounted, ConstantsAssumption DEF TypeOK, Hold
<1>7. Places(R, HoldQty') = Places(R, HoldQty) /\ Places(R, HoldQty) \in Nat
  BY <1>4, <1>6, PlacesSame, PlacesType
<1>8. Places(R \cup {h}, HoldQty') = Places(R, HoldQty') + hold'[h].qty
  <2>1. IsFiniteSet(R \cup {h}) /\ R = (R \cup {h}) \ {h}
    BY <1>6, FS_AddElement
  <2>2. \A x \in R \cup {h} : HoldQty'[x] \in Nat
    BY <1>4, <1>5, <1>6
  <2> HIDE DEF R
  <2> QED
    BY <1>5, <2>1, <2>2, PlacesWith
<1>9. h \in A => Places(A, HoldQty) = Places(R, HoldQty) + hold[h].qty
  BY <1>5, <1>6, PlacesWith
<1>10. h \notin A => Places(A, HoldQty) = Places(R, HoldQty)
  <2>1. h \notin A => A = R
    OBVIOUS
  <2> QED
    BY <2>1
<1>11. HeldPlaces(ch)' = IF ch = hold'[h].channel THEN Places(R \cup {h}, HoldQty')
                                                  ELSE Places(R, HoldQty')
  BY <1>2, Zenon DEF HeldPlaces
<1>12. HeldPlaces(ch) = Places(A, HoldQty)
  BY DEF HeldPlaces
<1> HIDE DEF A, R
<1>13. CASE ch = hold'[h].channel
  <2>1. HeldPlaces(ch)' = Places(R, HoldQty) + hold'[h].qty
    BY <1>7, <1>8, <1>11, <1>13
  <2>2. CASE hold[h].status = "none"
    <3>1. h \notin A
      BY <1>3, <2>2
    <3> QED
      BY <1>7, <1>10, <1>12, <1>13, <2>1, <2>2, <3>1
  <2>3. CASE hold[h].status = "held"
    <3>1. h \in A /\ hold'[h].qty = hold[h].qty + q
      BY <1>A, <1>13, <2>3
    <3> QED
      BY <1>6, <1>7, <1>9, <1>12, <1>13, <2>1, <3>1
  <2> QED
    BY <2>2, <2>3
<1>14. CASE ch # hold'[h].channel
  <2>1. h \notin A
    BY <1>3, <1>14
  <2> QED
    BY <1>7, <1>10, <1>11, <1>12, <1>14, <2>1
<1> QED
  BY <1>13, <1>14

-----------------------------------------------------------------------------
(* The counters: what is committed covers what is held, and fits the category. *)

\* What a sweep has counted is never less than what is held.
TallyCovers ==
    \A w \in Workers : task[w].op \in {"compare", "repair"} =>
        \A ch \in Channels : task[w].tally[ch] >= HeldPlaces(ch)

\* The places sold and the places held fit the category.
WithinCapacity ==
    pool["online"].sold + pool["box_office"].sold
        + HeldPlaces("online") + HeldPlaces("box_office") <= Capacity

Counts == HeldCoversHolds /\ WithinCapacity /\ TallyCovers

\* Unless a sweep counts anew, what it has counted stays.
TallyKept ==
    \A v \in Workers : task'[v].op \in {"compare", "repair"} =>
        task[v].op \in {"compare", "repair"} /\ task'[v].tally = task[v].tally

LEMMA TallyOther ==
  ASSUME TypeOK, NEW w \in Workers, NEW t, Become(w, t), t.op \notin {"compare", "repair"}
  PROVE  TallyKept
  BY DEF TypeOK, Become, TallyKept

LEMMA TallyFinish ==
  ASSUME TypeOK, NEW w \in Workers, Finish(w)
  PROVE  TallyKept
  BY TallyOther DEF Finish, Idle

\* The counters are numbers.
LEMMA CountTypes ==
  ASSUME TypeOK
  PROVE  /\ Capacity \in Nat
         /\ \A ch \in Channels : /\ pool[ch].sold \in Nat /\ pool[ch].held \in Nat
                                 /\ HeldPlaces(ch) \in Nat
         /\ \A w \in Workers : \A ch \in Channels : task[w].tally[ch] \in Nat
         /\ Channels = {"online", "box_office"}
<1>1. \A ch \in Channels : HeldPlaces(ch) \in Nat
  BY HeldPlacesType
<1> QED
  BY <1>1, ConstantsAssumption DEF TypeOK, Task, Channels

\* A step that takes nothing from stock, and leaves in `held` at most what there was:
\* the counters cover and fit as before.
LEMMA CountsStay ==
  ASSUME TypeOK, TypeOK', Counts, TallyKept,
         \A ch \in Channels :
            /\ HeldPlaces(ch)' \in Nat /\ HeldPlaces(ch)' <= HeldPlaces(ch)
            /\ pool'[ch].held >= HeldPlaces(ch)'
            /\ pool'[ch].sold + HeldPlaces(ch)' <= pool[ch].sold + HeldPlaces(ch)
  PROVE  Counts'
<1>1. /\ Capacity \in Nat
      /\ \A ch \in Channels : /\ pool[ch].sold \in Nat /\ HeldPlaces(ch) \in Nat
                              /\ pool'[ch].sold \in Nat
      /\ \A w \in Workers : \A ch \in Channels : task[w].tally[ch] \in Nat
      /\ Channels = {"online", "box_office"}
  BY CountTypes DEF TypeOK
<1>2. HeldCoversHolds'
  BY DEF HeldCoversHolds
<1>3. WithinCapacity'
  BY <1>1 DEF Counts, WithinCapacity
<1>4. TallyCovers'
  BY <1>1 DEF Counts, TallyCovers, TallyKept
<1> QED
  BY <1>2, <1>3, <1>4 DEF Counts

\* The pools stay and so do the places held.
LEMMA CountsQuiet ==
  ASSUME TypeOK, TypeOK', Counts, TallyKept, UNCHANGED pool,
         \A h \in Holds : /\ hold'[h].qty = hold[h].qty /\ hold'[h].channel = hold[h].channel
                          /\ hold'[h].status = "held" <=> hold[h].status = "held"
  PROVE  Counts'
<1>1. \A ch : HeldPlaces(ch)' = HeldPlaces(ch)
  BY PlacesStay
<1>2. \A ch \in Channels : /\ HeldPlaces(ch)' \in Nat /\ HeldPlaces(ch)' <= HeldPlaces(ch)
                           /\ pool'[ch].held >= HeldPlaces(ch)'
                           /\ pool'[ch].sold + HeldPlaces(ch)' <= pool[ch].sold + HeldPlaces(ch)
  BY <1>1, CountTypes DEF Counts, HeldCoversHolds
<1> QED
  BY <1>2, CountsStay

\* releaseHeldQuantity takes from the counter no more than it takes from the holds: what
\* it has read of a hold is at most what the hold has now.
LEMMA CountsRelease ==
  ASSUME TypeOK, TypeOK', RowsExist, Counts, TallyKept, NEW w \in Workers,
         NEW next \in {"released", "expired"}, ReleaseSeen(w, next)
  PROVE  Counts'
<1>1. Applied(w) \in SUBSET HeldHolds
  BY DEF Applied
<1>2. \A h \in Holds : /\ hold'[h].qty = hold[h].qty /\ hold'[h].channel = hold[h].channel
                       /\ hold'[h].status = "held" <=> hold[h].status = "held" /\ h \notin Applied(w)
  BY ReleaseKeeps DEF HoldKept
<1>3. \A ch : /\ Places(On(ch, Applied(w)), HoldQty) \in Nat /\ HeldPlaces(ch)' \in Nat
              /\ HeldPlaces(ch)' = HeldPlaces(ch) - Places(On(ch, Applied(w)), HoldQty)
  BY <1>1, <1>2, PlacesLeave
<1>4. \A ch : /\ Places(On(ch, Applied(w)), task[w].seen) \in Nat
              /\ Places(On(ch, Applied(w)), task[w].seen) <= Places(On(ch, Applied(w)), HoldQty)
  <2> TAKE ch
  <2> DEFINE S == On(ch, Applied(w))
  <2>1. S \in SUBSET Holds
    BY DEF On, Applied, HeldHolds
  <2> HIDE DEF S
  <2>2. /\ IsFiniteSet(S)
        /\ \A h \in S : HoldQty[h] \in Nat /\ HoldQty[h] = hold[h].qty /\ task[w].seen[h] \in Nat
    BY <2>1, HoldsCounted
  <2>3. \A h \in S : task[w].seen[h] <= HoldQty[h]
    BY <2>1, <2>2 DEF RowsExist, TaskRow
  <2>4. Places(S, task[w].seen) <= Places(S, HoldQty)
    BY <2>2, <2>3, PlacesMonotone
  <2>5. Places(S, task[w].seen) \in Nat
    BY <2>2, PlacesType
  <2> QED
    BY <2>4, <2>5 DEF S
<1>5. ASSUME NEW ch \in Channels
      PROVE  /\ HeldPlaces(ch)' \in Nat /\ HeldPlaces(ch)' <= HeldPlaces(ch)
             /\ pool'[ch].held >= HeldPlaces(ch)'
             /\ pool'[ch].sold + HeldPlaces(ch)' <= pool[ch].sold + HeldPlaces(ch)
  <2> DEFINE n == Places(On(ch, Applied(w)), task[w].seen)
             m == Places(On(ch, Applied(w)), HoldQty)
  <2>1. pool'[ch] = [pool[ch] EXCEPT !.held = AtLeastZero(pool[ch].held - n)]
    BY DEF ReleaseSeen
  <2>2. pool[ch] \in [sold: Nat, held: Nat]
    BY DEF TypeOK
  <2> HIDE DEF n
  <2>3. pool'[ch].sold = pool[ch].sold /\ pool'[ch].held = AtLeastZero(pool[ch].held - n)
    BY <2>1, <2>2
  <2>4. n \in Nat /\ n <= m
    BY <1>4 DEF n
  <2>5. m \in Nat /\ HeldPlaces(ch)' \in Nat /\ HeldPlaces(ch)' = HeldPlaces(ch) - m
    BY <1>3
  <2>6. HeldPlaces(ch) \in Nat /\ pool[ch].held >= HeldPlaces(ch)
    BY CountTypes DEF Counts, HeldCoversHolds
  <2> HIDE DEF m
  <2> QED
    BY <2>2, <2>3, <2>4, <2>5, <2>6 DEF AtLeastZero
<1> QED
  BY <1>5, CountsStay

\* Consuming moves places from `held` to `sold`.
LEMMA CountsConsume ==
  ASSUME TypeOK, TypeOK', Counts, TallyKept, NEW S \in SUBSET HeldHolds, ConsumeHolds(S)
  PROVE  Counts'
<1>1. \A h \in Holds : /\ hold'[h].qty = hold[h].qty /\ hold'[h].channel = hold[h].channel
                       /\ hold'[h].status = "held" <=> hold[h].status = "held" /\ h \notin S
  BY ConsumeKeeps DEF HoldKept
<1>2. \A ch : /\ Places(On(ch, S), HoldQty) \in Nat /\ HeldPlaces(ch)' \in Nat
              /\ HeldPlaces(ch)' = HeldPlaces(ch) - Places(On(ch, S), HoldQty)
  BY <1>1, PlacesLeave
<1>3. ASSUME NEW ch \in Channels
      PROVE  /\ HeldPlaces(ch)' \in Nat /\ HeldPlaces(ch)' <= HeldPlaces(ch)
             /\ pool'[ch].held >= HeldPlaces(ch)'
             /\ pool'[ch].sold + HeldPlaces(ch)' <= pool[ch].sold + HeldPlaces(ch)
  <2> DEFINE n == Places(On(ch, S), HoldQty)
  <2>1. pool'[ch].sold = pool[ch].sold + n /\ pool'[ch].held = AtLeastZero(pool[ch].held - n)
    BY DEF ConsumeHolds
  <2>2. n \in Nat /\ HeldPlaces(ch)' \in Nat /\ HeldPlaces(ch)' = HeldPlaces(ch) - n
    BY <1>2
  <2>3. /\ HeldPlaces(ch) \in Nat /\ pool[ch].held >= HeldPlaces(ch)
        /\ pool[ch].held \in Nat /\ pool[ch].sold \in Nat
    BY CountTypes DEF Counts, HeldCoversHolds
  <2> HIDE DEF n
  <2> QED
    BY <2>1, <2>2, <2>3 DEF AtLeastZero
<1> QED
  BY <1>3, CountsStay

\* What the availability check grants fits the category next to what is committed.
LEMMA GrantFits ==
  ASSUME TypeOK, NEW ch \in Channels, NEW q \in Nat, q > 0, q <= Available(ch)
  PROVE  pool["online"].sold + pool["online"].held
            + pool["box_office"].sold + pool["box_office"].held + q <= Capacity
<1>1. /\ Capacity \in Nat
      /\ pool["online"].sold \in Nat /\ pool["online"].held \in Nat
      /\ pool["box_office"].sold \in Nat /\ pool["box_office"].held \in Nat
  BY CountTypes
<1> DEFINE A == AtLeastZero(Lesser(EffectivePoolCapacity(PoolCapacity[ch], Capacity), Capacity)
                                - PoolCommitted(pool[ch]))
           B == SharedRemaining(pool, Capacity)
<1>2. Available(ch) = Lesser(A, B)
  BY DEF Available, ChannelAvailable
<1>3. SharedCommitted(pool) = pool["online"].sold + pool["online"].held
                                + pool["box_office"].sold + pool["box_office"].held
  BY <1>1 DEF SharedCommitted, PoolCommitted, AtLeastZero
<1>4. B \in Nat /\ (B > 0 => B = Capacity - SharedCommitted(pool))
  BY <1>1, <1>3 DEF SharedRemaining, AtLeastZero
<1>5. CASE A <= B
  <2>1. pool[ch].sold \in Nat /\ pool[ch].held \in Nat /\ PoolCapacity[ch] \in Nat
    BY ConstantsAssumption DEF TypeOK
  <2>2. PoolCommitted(pool[ch]) \in Int
    BY <2>1 DEF PoolCommitted, AtLeastZero
  <2>3. A \in Int
    BY <1>1, <2>1, <2>2 DEF Lesser, EffectivePoolCapacity, AtLeastZero
  <2> QED
    BY <1>1, <1>2, <1>3, <1>4, <1>5, <2>3 DEF Lesser
<1>6. CASE ~(A <= B)
  BY <1>1, <1>2, <1>3, <1>4, <1>6 DEF Lesser
<1> QED
  BY <1>5, <1>6

\* A reservation: the counter and the places held grow by as many, which fit, and no
\* sweep has counted.
LEMMA CountsReserve ==
  ASSUME TypeOK, TypeOK', Counts, Undisturbed, MayReserve, TallyKept,
         NEW ch \in Channels, NEW q \in Nat, q > 0, q <= Available(ch),
         pool' = [pool EXCEPT ![ch].held = @ + q],
         \A d : HeldPlaces(d)' = HeldPlaces(d) + (IF d = ch THEN q ELSE 0)
  PROVE  Counts'
<1>1. /\ Capacity \in Nat
      /\ \A d \in Channels : /\ pool[d].sold \in Nat /\ pool[d].held \in Nat /\ HeldPlaces(d) \in Nat
      /\ Channels = {"online", "box_office"}
  BY CountTypes
<1>2. \A d \in Channels : /\ pool'[d].sold = pool[d].sold
                          /\ pool'[d].held = pool[d].held + (IF d = ch THEN q ELSE 0)
  BY DEF TypeOK
<1>3. HeldCoversHolds'
  BY <1>1, <1>2 DEF Counts, HeldCoversHolds
<1>4. WithinCapacity'
  <2>1. pool["online"].sold + pool["online"].held
            + pool["box_office"].sold + pool["box_office"].held + q <= Capacity
    BY GrantFits
  <2>2. pool["online"].held >= HeldPlaces("online") /\ pool["box_office"].held >= HeldPlaces("box_office")
    BY <1>1 DEF Counts, HeldCoversHolds
  <2> QED
    BY <1>1, <1>2, <2>1, <2>2 DEF WithinCapacity
<1>5. TallyCovers'
  BY DEF TallyCovers, TallyKept, MayReserve, Sweeping, Undisturbed
<1> QED
  BY <1>3, <1>4, <1>5 DEF Counts

-----------------------------------------------------------------------------
(* Lines and orders keep to their channel. *)

\* The holds of lines and the orders of carts are online ones; a hold has the channel of
\* the order that owns it, which is not a cash sale.
Origins ==
    /\ \A c \in Carts : \A h \in Holds : InLine(c, h) => hold[h].channel = "online"
    /\ \A h \in Holds : hold[h].order # None =>
          order[hold[h].order].channel = hold[h].channel /\ ~order[hold[h].order].cash
    /\ \A o \in Orders : order[o].cart # None => order[o].channel = "online" /\ ~order[o].cash

\* Lines lose holds only.
NoNewLine == \A c \in Carts : \A h \in Holds : InLine(c, h)' => InLine(c, h)

\* A hold keeps its channel and its owner.
HoldFixed(h) == hold'[h].channel = hold[h].channel /\ hold'[h].order = hold[h].order

\* A row is about what it was about, or it is a new counter sale.
OrderSame(o) == OrderFixed(o) \/ (order[o].pay = "none" /\ order'[o].cart = None)

LEMMA OriginsStay ==
  ASSUME TypeOK, RowsExist, Origins, NoNewLine,
         \A h \in Holds : HoldFixed(h), \A o \in Orders : OrderSame(o)
  PROVE  Origins'
<1>1. \A h \in Holds : hold[h].order # None =>
          hold[h].order \in Orders /\ order[hold[h].order].pay # "none"
  BY References DEF RowsExist, HoldRow
<1>2. ASSUME NEW c \in Carts, NEW h \in Holds, InLine(c, h)'
      PROVE  hold'[h].channel = "online"
  BY <1>2 DEF Origins, NoNewLine, HoldFixed
<1>3. ASSUME NEW h \in Holds, hold'[h].order # None
      PROVE  order'[hold'[h].order].channel = hold'[h].channel /\ ~order'[hold'[h].order].cash
  BY <1>1, <1>3 DEF Origins, HoldFixed, OrderSame, OrderFixed
<1>4. ASSUME NEW o \in Orders, order'[o].cart # None
      PROVE  order'[o].channel = "online" /\ ~order'[o].cash
  BY <1>4 DEF Origins, OrderSame, OrderFixed
<1> QED
  BY <1>2, <1>3, <1>4 DEF Origins

\* The steps that write a cart put no hold into a line, except a reservation.
LEMMA LinesLose ==
  ASSUME TypeOK,
         \/ UNCHANGED cart
         \/ \E c \in Carts : \/ \E s : cart' = [cart EXCEPT ![c].status = s]
                             \/ \E s, o : cart' = [cart EXCEPT ![c] = [@ EXCEPT !.status = s, !.last = o]]
                             \/ \E k \in Kinds : cart' = [cart EXCEPT ![c].line[k] = None]
                             \/ \E s, o : cart' = [cart EXCEPT ![c] = [NoCart EXCEPT !.status = s, !.last = o]]
                             \/ \E b : cart' = [cart EXCEPT ![c].lapsed = b]
  PROVE  NoNewLine
<1>0. /\ None \notin Holds /\ cart \in [Carts -> Cart]
      /\ \A c \in Carts : cart[c].line \in [Kinds -> Holds \cup {None}]
  BY References DEF TypeOK, Cart
<1>1. CASE UNCHANGED cart
  BY <1>1 DEF NoNewLine, InLine
<1>2. ASSUME NEW c \in Carts, NEW s, cart' = [cart EXCEPT ![c].status = s]
      PROVE  NoNewLine
  <2>0. /\ cart'[c] = [cart[c] EXCEPT !.status = s]
        /\ \A d \in Carts \ {c} : cart'[d] = cart[d]
    BY <1>0, <1>2
  <2>1. \A d \in Carts : cart'[d].line = cart[d].line
    <3>1. cart[c] \in Cart
      BY <1>0
    <3>2. cart'[c].line = cart[c].line
      BY <2>0, <3>1 DEF Cart
    <3> QED
      BY <2>0, <3>2
  <2> QED
    BY <2>1 DEF NoNewLine, InLine
<1>3. ASSUME NEW c \in Carts, NEW s, NEW o,
             cart' = [cart EXCEPT ![c] = [@ EXCEPT !.status = s, !.last = o]]
      PROVE  NoNewLine
  <2>0. /\ cart'[c] = [cart[c] EXCEPT !.status = s, !.last = o]
        /\ \A d \in Carts \ {c} : cart'[d] = cart[d]
    BY <1>0, <1>3
  <2>1. \A d \in Carts : cart'[d].line = cart[d].line
    <3>1. cart[c] \in Cart
      BY <1>0
    <3>2. cart'[c].line = cart[c].line
      BY <2>0, <3>1 DEF Cart
    <3> QED
      BY <2>0, <3>2
  <2> QED
    BY <2>1 DEF NoNewLine, InLine
<1>4. ASSUME NEW c \in Carts, NEW k \in Kinds, cart' = [cart EXCEPT ![c].line[k] = None]
      PROVE  NoNewLine
  <2>1. \A d \in Carts : \A l \in Kinds : cart'[d].line[l] \in {None, cart[d].line[l]}
    <3>1. /\ cart'[c] = [cart[c] EXCEPT !.line[k] = None]
          /\ \A d \in Carts \ {c} : cart'[d] = cart[d]
      BY <1>0, <1>4
    <3>2. cart[c] \in Cart
      BY <1>0
    <3>3. cart'[c].line = [cart[c].line EXCEPT ![k] = None]
      BY <3>1, <3>2 DEF Cart
    <3> QED
      BY <1>0, <3>1, <3>3
  <2> QED
    BY <1>0, <2>1 DEF NoNewLine, InLine
<1>5. ASSUME NEW c \in Carts, NEW s, NEW o,
             cart' = [cart EXCEPT ![c] = [NoCart EXCEPT !.status = s, !.last = o]]
      PROVE  NoNewLine
  <2>1. /\ \A d \in Carts \ {c} : cart'[d] = cart[d]
        /\ \A l \in Kinds : cart'[c].line[l] = None
    BY <1>0, <1>5 DEF NoCart
  <2> QED
    BY <1>0, <2>1 DEF NoNewLine, InLine
<1>6. ASSUME NEW c \in Carts, NEW b, cart' = [cart EXCEPT ![c].lapsed = b]
      PROVE  NoNewLine
  <2>0. /\ cart'[c] = [cart[c] EXCEPT !.lapsed = b]
        /\ \A d \in Carts \ {c} : cart'[d] = cart[d]
    BY <1>0, <1>6
  <2>1. \A d \in Carts : cart'[d].line = cart[d].line
    <3>1. cart[c] \in Cart
      BY <1>0
    <3>2. cart'[c].line = cart[c].line
      BY <2>0, <3>1 DEF Cart
    <3> QED
      BY <2>0, <3>2
  <2> QED
    BY <2>1 DEF NoNewLine, InLine
<1> QED
  BY <1>1, <1>2, <1>3, <1>4, <1>5, <1>6

\* Every step keeps them to their channel.
LEMMA StepOrigins ==
  ASSUME Bindings, Undisturbed, Origins, [Next]_vars
  PROVE  Origins'
<1>0. TypeOK /\ RowsExist /\ TasksShaped /\ Agreement
  BY DEF Bindings
<1>H. UNCHANGED hold => \A h \in Holds : HoldFixed(h)
  BY DEF HoldFixed
<1>O. UNCHANGED order => \A o \in Orders : OrderSame(o)
  BY DEF OrderSame, OrderFixed
<1>P. ASSUME NEW o \in Orders, NEW p, order' = [order EXCEPT ![o].pay = p]
      PROVE  \A i \in Orders : OrderSame(i)
  BY <1>0, <1>P, PayKeeps DEF OrderSame
<1>R. ASSUME NEW w \in Workers, NEW next \in {"released", "expired"}, ReleaseSeen(w, next)
      PROVE  \A h \in Holds : HoldFixed(h)
  BY <1>0, <1>R, ReleaseKeeps DEF HoldFixed, HoldKept
<1>C. \A w \in Workers : task[w].cart # None => task[w].cart \in Carts
  BY <1>0, References
<1>1. ASSUME NEW w \in Workers, CartStep(w)
      PROVE  Origins'
  <2>1. ASSUME NEW c \in Carts, NEW k \in Kinds, NEW q \in 1..MaxQty, AddRead(w, c, k, q)
        PROVE  Origins'
    <3>1. NoNewLine
      BY <1>0, <2>1, LinesLose DEF AddRead
    <3> QED
      BY <1>0, <1>H, <1>O, <2>1, <3>1, OriginsStay DEF AddRead
  <2>2. ASSUME NEW c \in Carts, NEW k \in Kinds, AddCommit(w, c, k)
        PROVE  Origins'
    <3> DEFINE q == task[w].qty
    <3>1. q \in Nat /\ UNCHANGED order
      BY <1>0, <2>2, References DEF Task, AddCommit
    <3>2. ASSUME NEW h \in Holds, NewLine(c, k, q, h)
          PROVE  Origins'
      <4>1. /\ hold[h].status = "none" /\ hold'[h].order = None
            /\ hold'[h].channel = "online"
            /\ \A g \in Holds \ {h} : hold'[g] = hold[g]
        BY <1>0, <3>1, <3>2, NewLineMakes
      <4>2. \A d \in Carts : \A g \in Holds : InLine(d, g)' => InLine(d, g) \/ g = h
        <5>1. cart' = [cart EXCEPT ![c] = [cart[c] EXCEPT !.lapsed = FALSE, !.line[k] = h, !.newest = h]]
          BY <3>2, Zenon DEF NewLine
        <5>2. cart \in [Carts -> Cart] /\ cart[c].line \in [Kinds -> Holds \cup {None}]
          BY <1>0 DEF TypeOK, Cart
        <5>3. /\ cart'[c].line = [cart[c].line EXCEPT ![k] = h]
              /\ \A d \in Carts \ {c} : cart'[d] = cart[d]
          BY <5>1, <5>2 DEF Cart
        <5> QED
          BY <5>2, <5>3 DEF InLine
      <4>3. \A d \in Carts : \A g \in Holds : InLine(d, g)' => hold'[g].channel = "online"
        BY <4>1, <4>2 DEF Origins
      <4>4. \A g \in Holds : hold'[g].order # None =>
               order'[hold'[g].order].channel = hold'[g].channel /\ ~order'[hold'[g].order].cash
        BY <3>1, <4>1 DEF Origins
      <4>5. \A o \in Orders : order'[o].cart # None => order'[o].channel = "online" /\ ~order'[o].cash
        BY <3>1 DEF Origins
      <4> QED
        BY <4>3, <4>4, <4>5 DEF Origins
    <3>3. ASSUME NEW h \in Holds, GrowLine(c, q, h)
          PROVE  Origins'
      <4>1. \A g \in Holds : HoldFixed(g)
        BY <1>0, <3>1, <3>3, GrowLineMakes DEF HoldFixed
      <4>2. \A d \in Carts : cart'[d].line = cart[d].line
        BY <1>0, <3>3 DEF GrowLine, TypeOK, Cart
      <4>3. NoNewLine
        BY <4>2 DEF NoNewLine, InLine
      <4> QED
        BY <1>0, <1>O, <3>1, <4>1, <4>3, OriginsStay
    <3>4. cart[c].line[k] # None => cart[c].line[k] \in Holds
      BY <1>0 DEF TypeOK, Cart
    <3> QED
      BY <2>2, <3>2, <3>3, <3>4 DEF AddCommit
  <2>3. ASSUME NEW c \in Carts, NEW k \in Kinds, RemoveRead(w, c, k)
        PROVE  Origins'
    BY <1>0, <1>H, <1>O, <2>3, LinesLose, OriginsStay DEF RemoveRead
  <2>4. CASE RemoveCommit(w)
    <3>1. task[w].cart \in Carts /\ task[w].kind \in Kinds
      BY <1>0, <1>C, <2>4 DEF TasksShaped, Shaped, RemoveCommit, Is, CartOps
    <3>2. cart' = [cart EXCEPT ![task[w].cart].line[task[w].kind] = None]
          /\ ReleaseSeen(w, "released") /\ UNCHANGED order
      BY <2>4 DEF RemoveCommit
    <3>3. NoNewLine
      BY <1>0, <3>1, <3>2, LinesLose
    <3> QED
      BY <1>0, <1>R, <1>O, <3>2, <3>3, OriginsStay
  <2>5. ASSUME NEW c \in Carts, RenewRead(w, c)
        PROVE  Origins'
    BY <1>0, <1>H, <1>O, <2>5, LinesLose, OriginsStay DEF RenewRead
  <2>6. CASE RenewCommit(w)
    BY <1>0, <1>R, <1>O, <2>6, LinesLose, OriginsStay DEF RenewCommit
  <2>7. CASE RenewReopen(w)
    <3>1. task[w].cart \in Carts
      BY <1>0, <1>C, <2>7 DEF TasksShaped, Shaped, RenewReopen, Is, CartOps
    <3>2. cart' = [cart EXCEPT ![task[w].cart] = [NoCart EXCEPT !.status = "open", !.last = cart[task[w].cart].last]]
          /\ UNCHANGED <<hold, order>>
      BY <2>7 DEF RenewReopen
    <3>3. NoNewLine
      BY <1>0, <3>1, <3>2, LinesLose
    <3> QED
      BY <1>0, <1>H, <1>O, <3>2, <3>3, OriginsStay
  <2> QED
    BY <1>1, <2>1, <2>2, <2>3, <2>4, <2>5, <2>6, <2>7 DEF CartStep
<1>2. ASSUME NEW w \in Workers, CheckoutStep(w)
      PROVE  Origins'
  <2>1. ASSUME NEW c \in Carts, CheckoutRead(w, c)
        PROVE  Origins'
    BY <1>0, <1>H, <1>O, <2>1, LinesLose, OriginsStay DEF CheckoutRead
  <2>2. ASSUME NEW o \in Orders, CheckoutCommit(w, o)
        PROVE  Origins'
    <3> DEFINE r == [NoOrder EXCEPT !.pay = "pending", !.cart = task[w].cart,
                                    !.qty = Places(Seen(w), task[w].seen)]
    <3>1. order'[o] = r /\ \A i \in Orders : i # o => order'[i] = order[i]
      BY <1>0, <2>2, OrderMade DEF CheckoutCommit
    <3>2. order'[o].channel = "online" /\ ~order'[o].cash
      BY <3>1 DEF NoOrder
    <3>3. task[w].cart \in Carts /\ task[w].op = "checkout" /\ order[o].pay = "none"
      BY <1>0, <1>C, <2>2 DEF TasksShaped, Shaped, CheckoutCommit, Is, CartOps
    <3>4. \A h \in Seen(w) : h \in Holds /\ hold[h].channel = "online"
      BY <1>0, <3>3 DEF Agreement, TaskCart, Seen, Origins
    <3>5. \A h \in Holds : /\ hold'[h].channel = hold[h].channel
                           /\ h \in Seen(w) => hold'[h].order = o
                           /\ h \notin Seen(w) => hold'[h] = hold[h]
      BY <1>0, <2>2, CheckoutMakes
    <3>6. NoNewLine
      <4>1. cart' = [cart EXCEPT ![task[w].cart] = [@ EXCEPT !.status = "converted", !.last = o]]
        BY <2>2 DEF CheckoutCommit
      <4> QED
        BY <1>0, <3>3, <4>1, LinesLose
    <3>7. \A h \in Holds : hold[h].order # None => hold[h].order \in Orders /\ hold[h].order # o
      BY <1>0, <3>3, References DEF RowsExist, HoldRow
    <3>8. \A d \in Carts : \A g \in Holds : InLine(d, g)' => hold'[g].channel = "online"
      BY <3>5, <3>6 DEF NoNewLine, Origins
    <3>9. \A g \in Holds : hold'[g].order # None =>
               order'[hold'[g].order].channel = hold'[g].channel /\ ~order'[hold'[g].order].cash
      <4> TAKE g \in Holds
      <4>1. CASE g \in Seen(w)
        BY <3>2, <3>4, <3>5, <4>1
      <4>2. CASE g \notin Seen(w)
        BY <3>1, <3>5, <3>7, <4>2 DEF Origins
      <4> QED
        BY <4>1, <4>2
    <3>10. \A i \in Orders : order'[i].cart # None => order'[i].channel = "online" /\ ~order'[i].cash
      BY <3>1, <3>2 DEF Origins
    <3> QED
      BY <3>8, <3>9, <3>10 DEF Origins
  <2>3. CASE PayStart(w)
    <3>1. \A o \in Orders : OrderSame(o)
      BY <1>0, <2>3, PayStartKeeps DEF OrderSame
    <3> QED
      BY <1>0, <1>H, <2>3, <3>1, LinesLose, OriginsStay DEF PayStart
  <2>4. CASE PayStartFails(w)
    BY <1>0, <1>H, <1>O, <2>4, LinesLose, OriginsStay DEF PayStartFails
  <2>5. CASE CompensateCommit(w)
    BY <1>0, <1>R, <1>O, <2>5, LinesLose, OriginsStay DEF CompensateCommit
  <2>6. CASE CompensateClose(w)
    <3>1. task[w].cart \in Carts /\ task[w].order \in Orders
      BY <1>0, <1>C, <2>6, References DEF TasksShaped, Shaped, CompensateClose, Is, CartOps, OrderOps
    <3>2. /\ order' = [order EXCEPT ![task[w].order].pay = "canceled"]
          /\ cart' = [cart EXCEPT ![task[w].cart].status = "expired"]
          /\ UNCHANGED hold
      BY <2>6 DEF CompensateClose
    <3>3. NoNewLine
      BY <1>0, <3>1, <3>2, LinesLose
    <3> QED
      BY <1>0, <1>H, <1>P, <3>1, <3>2, <3>3, OriginsStay
  <2> QED
    BY <1>2, <2>1, <2>2, <2>3, <2>4, <2>5, <2>6 DEF CheckoutStep
<1>3. ASSUME NEW w \in Workers, PaymentStep(w)
      PROVE  Origins'
  <2>1. ASSUME NEW o \in Orders,
               PaymentFails(w, o) \/ ManualRelease(w, o) \/ RefundRead(w, o) \/ VoidRead(w, o)
        PROVE  Origins'
    <3>1. UNCHANGED <<hold, cart>>
      BY <2>1 DEF PaymentFails, ManualRelease, RefundRead, VoidRead
    <3>2. \A i \in Orders : OrderSame(i)
      BY <1>O, <1>P, <2>1 DEF PaymentFails, ManualRelease, RefundRead, VoidRead
    <3> QED
      BY <1>0, <1>H, <3>1, <3>2, LinesLose, OriginsStay
  <2>2. CASE ReleaseCommit(w)
    BY <1>0, <1>R, <1>O, <2>2, LinesLose, OriginsStay DEF ReleaseCommit
  <2>3. CASE RestoreCommit(w)
    <3>1. \A o \in Orders : OrderSame(o)
      BY <1>0, <2>3, RestoreKeeps DEF OrderSame
    <3> QED
      BY <1>0, <1>H, <2>3, <3>1, LinesLose, OriginsStay DEF RestoreCommit
  <2> QED
    BY <1>3, <2>1, <2>2, <2>3 DEF PaymentStep
<1>4. ASSUME NEW w \in Workers, SweepStep(w)
      PROVE  Origins'
  <2>1. UNCHANGED <<cart, order>>
    BY <1>4 DEF SweepStep, SweepRead, SweepExpire, SweepTally, SweepCompare, SweepRepair
  <2>2. \A h \in Holds : HoldFixed(h)
    BY <1>4, <1>H, <1>R DEF SweepStep, SweepRead, SweepExpire, SweepTally, SweepCompare, SweepRepair
  <2> QED
    BY <1>0, <1>O, <2>1, <2>2, LinesLose, OriginsStay
<1>5. ASSUME NEW o \in Orders, NEW q \in 1..MaxQty, BoxSale(o, q)
      PROVE  Origins'
  <2> DEFINE r == [NoOrder EXCEPT !.pay = "paid", !.channel = "box_office",
                                  !.cash = TRUE, !.qty = q, !.payRow = TRUE]
  <2>1. order'[o] = r /\ \A i \in Orders : i # o => order'[i] = order[i]
    BY <1>0, <1>5, OrderMade DEF BoxSale
  <2>2. r.cart = None /\ order[o].pay = "none"
    BY <1>5 DEF NoOrder, BoxSale
  <2>3. \A i \in Orders : OrderSame(i)
    BY <2>1, <2>2 DEF OrderSame, OrderFixed
  <2> QED
    BY <1>0, <1>H, <1>5, <2>3, LinesLose, OriginsStay DEF BoxSale
<1>6. ASSUME NEW o \in Orders, NEW q \in 1..MaxQty, TapSale(o, q)
      PROVE  Origins'
  <2> DEFINE r == [NoOrder EXCEPT !.pay = "pending", !.qty = q,
                                  !.channel = "box_office", !.payRow = TRUE]
  <2>1. order'[o] = r /\ \A i \in Orders : i # o => order'[i] = order[i]
    BY <1>0, <1>6, OrderMade DEF TapSale
  <2>2. r.cart = None /\ ~r.cash /\ r.channel = "box_office" /\ order[o].pay = "none"
    BY <1>6 DEF NoOrder, TapSale
  <2>3. PICK h \in Holds :
            /\ hold[h].status = "none" /\ hold'[h].order = o
            /\ hold'[h].channel = "box_office"
            /\ \A g \in Holds \ {h} : hold'[g] = hold[g]
    <3>1. q \in Nat
      BY ConstantsAssumption
    <3> QED
      BY <1>0, <1>6, <3>1, TapMakes
  <2>4. \A c \in Carts : ~InLine(c, h)
    BY <1>0, <2>3 DEF Agreement, RowsAgree, CartRow
  <2>5. UNCHANGED cart
    BY <1>6 DEF TapSale
  <2>6. \A d \in Carts : \A g \in Holds : InLine(d, g)' => hold'[g].channel = "online"
    BY <2>3, <2>4, <2>5 DEF InLine, Origins
  <2>7. \A g \in Holds : hold[g].order # None => hold[g].order \in Orders /\ hold[g].order # o
    BY <1>0, <2>2, References DEF RowsExist, HoldRow
  <2>8. \A g \in Holds : hold'[g].order # None =>
               order'[hold'[g].order].channel = hold'[g].channel /\ ~order'[hold'[g].order].cash
    <3> TAKE g \in Holds
    <3>1. CASE g = h
      BY <2>1, <2>2, <2>3, <3>1
    <3>2. CASE g # h
      <4>1. hold'[g] = hold[g]
        BY <2>3, <3>2
      <4> QED
        BY <2>1, <2>7, <4>1 DEF Origins
    <3> QED
      BY <3>1, <3>2
  <2>9. \A i \in Orders : order'[i].cart # None => order'[i].channel = "online" /\ ~order'[i].cash
    BY <2>1, <2>2 DEF Origins
  <2> QED
    BY <2>6, <2>8, <2>9 DEF Origins
<1>7. ASSUME NEW o \in Orders, PaymentSucceeds(o)
      PROVE  Origins'
  <2>1. \A i \in Orders : OrderSame(i)
    BY <1>P, <1>7 DEF PaymentSucceeds
  <2> QED
    BY <1>0, <1>H, <1>7, <2>1, LinesLose, OriginsStay DEF PaymentSucceeds
<1>8. ASSUME NEW o \in Orders, Fulfil(o)
      PROVE  Origins'
  <2>1. OrderHolds(o) \in SUBSET HeldHolds /\ ConsumeHolds(OrderHolds(o)) /\ UNCHANGED cart
    BY <1>8 DEF Fulfil, OrderHolds
  <2>2. \A h \in Holds : HoldFixed(h)
    BY <1>0, <2>1, ConsumeKeeps DEF HoldFixed, HoldKept
  <2>3. \A i \in Orders : OrderSame(i)
    BY <1>0, <1>8, FulfilKeeps DEF OrderSame
  <2> QED
    BY <1>0, <2>1, <2>2, <2>3, LinesLose, OriginsStay
<1>9. CASE (\E h \in Holds : LapseHold(h)) \/ (\E c \in Carts : LapseCart(c))
  <2>1. \A h \in Holds : HoldFixed(h)
    BY <1>0, <1>9, LapseKeeps DEF HoldFixed, HoldKept
  <2>2. NoNewLine
    BY <1>0, <1>9, LinesLose DEF LapseHold, LapseCart
  <2> QED
    BY <1>0, <1>9, <1>O, <2>1, <2>2, OriginsStay DEF LapseHold, LapseCart
<1>10. CASE (\E w \in Workers : GiveUp(w)) \/ UNCHANGED vars
  BY <1>0, <1>10, <1>H, <1>O, LinesLose, OriginsStay DEF GiveUp, vars
<1> QED
  BY <1>1, <1>2, <1>3, <1>4, <1>5, <1>6, <1>7, <1>8, <1>9, <1>10 DEF Next

LEMMA InitOrigins == Init => Origins
  BY ConstantsAssumption DEF Init, NoHold, NoOrder, NoCart, Origins, InLine

LEMMA OriginsHold == Undisturbed => (Spec => []Origins)
<1> SUFFICES ASSUME Undisturbed
             PROVE  Spec => []Origins
  OBVIOUS
<1>1. Bindings /\ Origins /\ [Next]_vars => Origins'
  BY StepOrigins
<1> QED
  BY <1>1, InitOrigins, BindingsHold, PTL DEF Spec

\* Every step keeps the counters covering and fitting.
LEMMA StepCounts ==
  ASSUME Bindings, Bindings', Origins, Undisturbed, Counts, [Next]_vars
  PROVE  Counts'
<1>0. TypeOK /\ TypeOK' /\ RowsExist /\ TasksShaped
  BY DEF Bindings
<1>U. UNCHANGED <<pool, hold>> /\ TallyKept => Counts'
  BY <1>0, CountsQuiet
<1>I. Idle.op \notin {"compare", "repair"}
  BY DEF Idle
<1>1. ASSUME NEW w \in Workers, CartStep(w)
      PROVE  Counts'
  <2>1. ASSUME NEW c \in Carts, NEW k \in Kinds, NEW q \in 1..MaxQty, AddRead(w, c, k, q)
        PROVE  Counts'
    <3>1. TallyKept
      BY <1>0, <2>1, TallyOther DEF AddRead, Idle
    <3> QED
      BY <1>U, <2>1, <3>1 DEF AddRead
  <2>2. ASSUME NEW c \in Carts, NEW k \in Kinds, AddCommit(w, c, k)
        PROVE  Counts'
    <3> DEFINE q == task[w].qty
    <3>1. q \in Nat /\ q > 0
      BY <1>0, <2>2, References DEF Task, AddCommit, Is, TasksShaped, Shaped
    <3>2. MayReserve /\ q <= Available("online")
          /\ pool' = [pool EXCEPT !["online"].held = @ + q] /\ Finish(w)
      BY <2>2 DEF AddCommit
    <3>3. ASSUME NEW h \in Holds, NewLine(c, k, q, h)
          PROVE  \A d : HeldPlaces(d)' = HeldPlaces(d) + (IF d = "online" THEN q ELSE 0)
      <4>1. /\ hold[h].status = "none"
            /\ hold'[h].status = "held" /\ hold'[h].qty = q
            /\ hold'[h].channel = "online"
            /\ \A g \in Holds \ {h} : hold'[g] = hold[g]
        BY <1>0, <3>1, <3>3, NewLineMakes
      <4> HIDE DEF q
      <4>2. \A ch : HeldPlaces(ch)' = HeldPlaces(ch) + (IF ch = hold'[h].channel THEN q ELSE 0)
        BY <1>0, <3>1, <4>1, PlacesArrive
      <4> QED
        BY <4>1, <4>2
    <3>4. ASSUME NEW h \in Holds, h = cart[c].line[k], GrowLine(c, q, h)
          PROVE  \A d : HeldPlaces(d)' = HeldPlaces(d) + (IF d = "online" THEN q ELSE 0)
      <4>1. /\ hold[h].status = "held"
            /\ hold'[h].status = "held" /\ hold'[h].qty = hold[h].qty + q
            /\ hold'[h].channel = hold[h].channel
            /\ \A g \in Holds \ {h} : hold'[g] = hold[g]
        BY <1>0, <3>1, <3>4, GrowLineMakes
      <4>2. hold[h].channel = "online"
        BY <3>4, Zenon DEF Origins, InLine
      <4> HIDE DEF q
      <4>3. \A ch : HeldPlaces(ch)' = HeldPlaces(ch) + (IF ch = hold'[h].channel THEN q ELSE 0)
        BY <1>0, <3>1, <4>1, PlacesArrive
      <4> QED
        BY <4>1, <4>2, <4>3
    <3>5. cart[c].line[k] # None => cart[c].line[k] \in Holds
      BY <1>0 DEF TypeOK, Cart
    <3>6. \A d : HeldPlaces(d)' = HeldPlaces(d) + (IF d = "online" THEN q ELSE 0)
      BY <2>2, <3>3, <3>4, <3>5 DEF AddCommit
    <3>7. TallyKept /\ "online" \in Channels
      BY <1>0, <3>2, TallyFinish DEF Channels
    <3> HIDE DEF q
    <3> QED
      BY <1>0, <3>1, <3>2, <3>6, <3>7, CountsReserve
  <2>3. ASSUME NEW c \in Carts, NEW k \in Kinds, RemoveRead(w, c, k)
        PROVE  Counts'
    <3>1. TallyKept
      BY <1>0, <2>3, TallyOther DEF RemoveRead, Idle
    <3> QED
      BY <1>U, <2>3, <3>1 DEF RemoveRead
  <2>4. CASE RemoveCommit(w)
    BY <1>0, <2>4, TallyFinish, CountsRelease DEF RemoveCommit
  <2>5. ASSUME NEW c \in Carts, RenewRead(w, c)
        PROVE  Counts'
    <3>1. TallyKept
      BY <1>0, <2>5, TallyOther DEF RenewRead, Idle
    <3> QED
      BY <1>U, <2>5, <3>1 DEF RenewRead
  <2>6. CASE RenewCommit(w)
    <3>1. TallyKept
      BY <1>0, <2>6, TallyOther DEF RenewCommit, Idle
    <3> QED
      BY <1>0, <2>6, <3>1, CountsRelease DEF RenewCommit
  <2>7. CASE RenewReopen(w)
    BY <1>0, <1>U, <2>7, TallyFinish DEF RenewReopen
  <2> QED
    BY <1>1, <2>1, <2>2, <2>3, <2>4, <2>5, <2>6, <2>7 DEF CartStep
<1>2. ASSUME NEW w \in Workers, CheckoutStep(w)
      PROVE  Counts'
  <2>1. ASSUME NEW c \in Carts, CheckoutRead(w, c)
        PROVE  Counts'
    <3>1. TallyKept
      BY <1>0, <2>1, TallyOther DEF CheckoutRead, Idle
    <3> QED
      BY <1>U, <2>1, <3>1 DEF CheckoutRead
  <2>2. ASSUME NEW o \in Orders, CheckoutCommit(w, o)
        PROVE  Counts'
    <3>1. TallyKept
      BY <1>0, <2>2, TallyOther DEF CheckoutCommit, Idle
    <3>2. \A h \in Holds : /\ hold'[h].qty = hold[h].qty /\ hold'[h].channel = hold[h].channel
                           /\ hold'[h].status = hold[h].status
      BY <2>2, CheckoutKeepsHeld
    <3> QED
      BY <1>0, <2>2, <3>1, <3>2, CountsQuiet DEF CheckoutCommit
  <2>3. CASE PayStart(w)
    BY <1>0, <1>U, <2>3, TallyFinish DEF PayStart
  <2>4. CASE PayStartFails(w)
    <3>1. TallyKept
      BY <1>0, <2>4, TallyOther DEF PayStartFails, TypeOK, Task
    <3> QED
      BY <1>U, <2>4, <3>1 DEF PayStartFails
  <2>5. CASE CompensateCommit(w)
    <3>1. TallyKept
      BY <1>0, <2>5, TallyOther DEF CompensateCommit, TypeOK, Task
    <3> QED
      BY <1>0, <2>5, <3>1, CountsRelease DEF CompensateCommit
  <2>6. CASE CompensateClose(w)
    BY <1>0, <1>U, <2>6, TallyFinish DEF CompensateClose
  <2> QED
    BY <1>2, <2>1, <2>2, <2>3, <2>4, <2>5, <2>6 DEF CheckoutStep
<1>3. ASSUME NEW w \in Workers, PaymentStep(w)
      PROVE  Counts'
  <2>1. ASSUME NEW o \in Orders,
               PaymentFails(w, o) \/ ManualRelease(w, o) \/ RefundRead(w, o) \/ VoidRead(w, o)
        PROVE  Counts'
    <3>1. TallyKept
      BY <1>0, <2>1, TallyOther DEF PaymentFails, ManualRelease, RefundRead, VoidRead, Idle
    <3>2. UNCHANGED <<pool, hold>>
      BY <2>1 DEF PaymentFails, ManualRelease, RefundRead, VoidRead
    <3> QED
      BY <1>U, <3>1, <3>2
  <2>2. CASE ReleaseCommit(w)
    BY <1>0, <2>2, TallyFinish, CountsRelease DEF ReleaseCommit
  <2>3. CASE RestoreCommit(w)
    <3> DEFINE r == RestoreChannel(task[w].order)
    <3>1. \A ch \in Channels : /\ pool'[ch].held = pool[ch].held
                               /\ pool'[ch].sold = IF ch = r THEN AtLeastZero(pool[ch].sold - task[w].qty)
                                                             ELSE pool[ch].sold
      BY <1>0, <2>3 DEF RestoreCommit, TypeOK
    <3>2. task[w].qty \in Nat /\ \A ch \in Channels : pool[ch].sold \in Nat
      BY <1>0, CountTypes DEF TypeOK, Task
    <3>3. \A ch \in Channels : pool'[ch].sold <= pool[ch].sold
      BY <3>1, <3>2 DEF AtLeastZero
    <3>4. \A ch \in Channels : HeldPlaces(ch)' = HeldPlaces(ch) /\ HeldPlaces(ch) \in Nat
      BY <1>0, <2>3, PlacesStay, CountTypes DEF RestoreCommit
    <3>5. TallyKept
      BY <1>0, <2>3, TallyFinish DEF RestoreCommit
    <3>6. \A ch \in Channels :
             /\ HeldPlaces(ch)' \in Nat /\ HeldPlaces(ch)' <= HeldPlaces(ch)
             /\ pool'[ch].held >= HeldPlaces(ch)'
             /\ pool'[ch].sold + HeldPlaces(ch)' <= pool[ch].sold + HeldPlaces(ch)
      <4>1. \A ch \in Channels : pool'[ch].sold \in Nat
        BY <1>0 DEF TypeOK
      <4> QED
        BY <3>1, <3>2, <3>3, <3>4, <4>1 DEF Counts, HeldCoversHolds
    <3> QED
      BY <1>0, <3>5, <3>6, CountsStay
  <2> QED
    BY <1>3, <2>1, <2>2, <2>3 DEF PaymentStep
<1>4. ASSUME NEW w \in Workers, SweepStep(w)
      PROVE  Counts'
  <2>1. CASE SweepRead(w)
    <3>1. TallyKept
      BY <1>0, <2>1, TallyOther DEF SweepRead, Idle
    <3> QED
      BY <1>U, <2>1, <3>1 DEF SweepRead
  <2>2. CASE SweepExpire(w)
    <3>1. TallyKept
      BY <1>0, <2>2, TallyOther DEF SweepExpire, Idle
    <3> QED
      BY <1>0, <2>2, <3>1, CountsRelease DEF SweepExpire
  <2>3. CASE SweepTally(w)
    <3>1. \A ch : HeldPlaces(ch)' = HeldPlaces(ch)
      BY <1>0, <2>3, PlacesStay DEF SweepTally
    <3>2. /\ task'[w].tally = [ch \in Channels |-> HeldPlaces(ch)]
          /\ \A v \in Workers \ {w} : task'[v] = task[v]
      BY <1>0, <2>3 DEF SweepTally, Become, TypeOK, Task
    <3>3. TallyCovers'
      BY <3>1, <3>2, CountTypes, <1>0 DEF Counts, TallyCovers
    <3>4. HeldCoversHolds' /\ WithinCapacity'
      BY <2>3, <3>1 DEF SweepTally, Counts, HeldCoversHolds, WithinCapacity
    <3> QED
      BY <3>3, <3>4 DEF Counts
  <2>4. CASE SweepCompare(w)
    <3>1. task[w] \in Task
      BY <1>0 DEF TypeOK
    <3>2. \A S : /\ [task[w] EXCEPT !.op = "repair", !.todo = S].tally = task[w].tally
      BY <3>1 DEF Task
    <3>3. TallyKept
      BY <1>0, <1>I, <2>4, <3>2 DEF SweepCompare, Become, TypeOK, TallyKept, Is
    <3> QED
      BY <1>U, <2>4, <3>3 DEF SweepCompare
  <2>5. ASSUME NEW ch \in Channels, SweepRepair(w, ch)
        PROVE  Counts'
    <3>1. task[w] \in Task
      BY <1>0 DEF TypeOK
    <3>2. \A S : [task[w] EXCEPT !.todo = S].tally = task[w].tally
      BY <3>1 DEF Task
    <3>3. TallyKept
      BY <1>0, <1>I, <2>5, <3>2 DEF SweepRepair, Become, TypeOK, TallyKept, Is
    <3>4. \A d \in Channels : /\ pool'[d].sold = pool[d].sold
                              /\ pool'[d].held = IF d = ch THEN task[w].tally[d] ELSE pool[d].held
      BY <1>0, <2>5 DEF SweepRepair, TypeOK
    <3>5. \A d \in Channels : HeldPlaces(d)' = HeldPlaces(d) /\ HeldPlaces(d) \in Nat
                              /\ pool[d].sold \in Nat
      BY <1>0, <2>5, PlacesStay, CountTypes DEF SweepRepair
    <3>6. task[w].tally[ch] >= HeldPlaces(ch)
      BY <2>5 DEF SweepRepair, Is, Counts, TallyCovers
    <3>7. \A d \in Channels :
             /\ HeldPlaces(d)' \in Nat /\ HeldPlaces(d)' <= HeldPlaces(d)
             /\ pool'[d].held >= HeldPlaces(d)'
             /\ pool'[d].sold + HeldPlaces(d)' <= pool[d].sold + HeldPlaces(d)
      BY <3>4, <3>5, <3>6 DEF Counts, HeldCoversHolds
    <3> QED
      BY <1>0, <3>3, <3>7, CountsStay
  <2> QED
    BY <1>4, <2>1, <2>2, <2>3, <2>4, <2>5 DEF SweepStep
<1>5. ASSUME NEW o \in Orders, NEW q \in 1..MaxQty, BoxSale(o, q)
      PROVE  Counts'
  <2>1. q \in Nat /\ q > 0 /\ q <= Available("box_office") /\ "box_office" \in Channels
    BY <1>5, ConstantsAssumption DEF BoxSale, Channels
  <2>2. pool["online"].sold + pool["online"].held
            + pool["box_office"].sold + pool["box_office"].held + q <= Capacity
    BY <1>0, <2>1, GrantFits
  <2>3. \A ch : HeldPlaces(ch)' = HeldPlaces(ch)
    BY <1>0, <1>5, PlacesStay DEF BoxSale
  <2>4. /\ pool'["online"].sold = pool["online"].sold
        /\ pool'["box_office"].sold = pool["box_office"].sold + q
        /\ \A ch \in Channels : pool'[ch].held = pool[ch].held
    BY <1>0, <1>5 DEF BoxSale, TypeOK, Channels
  <2>5. /\ Capacity \in Nat
        /\ \A d \in Channels : /\ pool[d].sold \in Nat /\ pool[d].held \in Nat
                               /\ HeldPlaces(d) \in Nat /\ pool[d].held >= HeldPlaces(d)
        /\ Channels = {"online", "box_office"}
    BY <1>0, CountTypes DEF Counts, HeldCoversHolds
  <2>6. HeldCoversHolds'
    BY <2>3, <2>4, <2>5 DEF HeldCoversHolds
  <2>7. WithinCapacity'
    BY <2>1, <2>2, <2>3, <2>4, <2>5 DEF WithinCapacity
  <2>8. TallyCovers'
    BY <1>5, <2>3 DEF BoxSale, Counts, TallyCovers
  <2> QED
    BY <2>6, <2>7, <2>8 DEF Counts
<1>6. ASSUME NEW o \in Orders, NEW q \in 1..MaxQty, TapSale(o, q)
      PROVE  Counts'
  <2>1. q \in Nat /\ q > 0 /\ q <= Available("box_office") /\ "box_office" \in Channels /\ MayReserve
        /\ pool' = [pool EXCEPT !["box_office"].held = @ + q]
    BY <1>6, ConstantsAssumption DEF TapSale, Channels
  <2>2. PICK h \in Holds :
            /\ hold[h].status = "none"
            /\ hold'[h].status = "held" /\ hold'[h].qty = q
            /\ hold'[h].channel = "box_office"
            /\ \A g \in Holds \ {h} : hold'[g] = hold[g]
    BY <1>0, <1>6, <2>1, TapMakes
  <2>3. \A ch : HeldPlaces(ch)' = HeldPlaces(ch) + (IF ch = hold'[h].channel THEN q ELSE 0)
    BY <1>0, <2>1, <2>2, PlacesArrive
  <2>4. \A d : HeldPlaces(d)' = HeldPlaces(d) + (IF d = "box_office" THEN q ELSE 0)
    BY <2>2, <2>3
  <2>5. TallyKept
    BY <1>6 DEF TapSale, TallyKept
  <2> QED
    BY <1>0, <2>1, <2>4, <2>5, CountsReserve
<1>7. ASSUME NEW o \in Orders, PaymentSucceeds(o) \/ Fulfil(o)
      PROVE  Counts'
  <2>1. TallyKept
    BY <1>7 DEF PaymentSucceeds, Fulfil, TallyKept
  <2>2. CASE PaymentSucceeds(o)
    BY <1>U, <2>1, <2>2 DEF PaymentSucceeds
  <2>3. CASE Fulfil(o)
    <3>1. OrderHolds(o) \in SUBSET HeldHolds /\ ConsumeHolds(OrderHolds(o))
      BY <2>3 DEF Fulfil, OrderHolds
    <3> QED
      BY <1>0, <2>1, <3>1, CountsConsume
  <2> QED
    BY <1>7, <2>2, <2>3
<1>8. CASE (\E h \in Holds : LapseHold(h)) \/ (\E c \in Carts : LapseCart(c))
  <2>1. TallyKept /\ UNCHANGED pool
    BY <1>8 DEF LapseHold, LapseCart, TallyKept
  <2>2. \A h \in Holds : HoldKept(h) /\ hold'[h].channel = hold[h].channel
                         /\ hold'[h].status = hold[h].status
    BY <1>0, <1>8, LapseKeeps
  <2> QED
    BY <1>0, <2>1, <2>2, CountsQuiet DEF HoldKept
<1>9. CASE (\E w \in Workers : GiveUp(w)) \/ UNCHANGED vars
  <2>1. TallyKept
    BY <1>0, <1>9, TallyFinish DEF GiveUp, vars, TallyKept
  <2> QED
    BY <1>U, <1>9, <2>1 DEF GiveUp, vars
<1> QED
  BY <1>1, <1>2, <1>3, <1>4, <1>5, <1>6, <1>7, <1>8, <1>9 DEF Next

\* Nothing is sold or held at first.
LEMMA InitCounts == Init => Counts
<1> SUFFICES ASSUME Init
             PROVE  Counts
  OBVIOUS
<1>1. \A ch : HeldPlaces(ch) = 0
  <2>1. HeldHolds = {}
    BY DEF Init, HeldHolds, NoHold
  <2>2. \A ch : On(ch, HeldHolds) = {}
    BY <2>1 DEF On
  <2> QED
    BY <2>2, PlacesNone DEF HeldPlaces
<1>2. /\ Channels = {"online", "box_office"}
      /\ \A ch \in Channels : pool[ch].sold = 0 /\ pool[ch].held = 0
      /\ \A w \in Workers : task[w].op = "idle"
  BY DEF Init, Channels, Idle
<1> QED
  BY <1>1, <1>2, ConstantsAssumption DEF Counts, HeldCoversHolds, WithinCapacity, TallyCovers

LEMMA CountsHold == Undisturbed => (Spec => []Counts)
<1> SUFFICES ASSUME Undisturbed
             PROVE  Spec => []Counts
  OBVIOUS
<1>1. Bindings /\ Bindings' /\ Origins /\ Counts /\ [Next]_vars => Counts'
  BY StepCounts
<1> QED
  BY <1>1, InitCounts, BindingsHold, OriginsHold, PTL DEF Spec

\* The held counter of a channel is never less than the places its holds stand for, for
\* any number of carts, orders, sweeps and payment events and whatever crashes: the
\* availability check never grants a place that somebody holds.
THEOREM HeldCovered == Undisturbed => (Spec => []HeldCoversHolds)
<1> SUFFICES ASSUME Undisturbed
             PROVE  Spec => []HeldCoversHolds
  OBVIOUS
<1>1. Counts => HeldCoversHolds
  BY DEF Counts
<1> QED
  BY <1>1, CountsHold, PTL

\* What the pools of a category have sold, and the places held, fit its capacity, whatever
\* order the grants of its two channels come in.
THEOREM PoolsFitCategory == Undisturbed => (Spec => []WithinCapacity)
<1> SUFFICES ASSUME Undisturbed
             PROVE  Spec => []WithinCapacity
  OBVIOUS
<1>1. Counts => WithinCapacity
  BY DEF Counts
<1> QED
  BY <1>1, CountsHold, PTL

-----------------------------------------------------------------------------
(* What a payable order owns. *)

Paying(o) == \E v \in Workers : task[v].op = "pay" /\ task[v].order = o

\* An order that may still get its tickets: it can be paid, or its payment is being set
\* up, or it is paid and waits for fulfilment after nobody could have released it.
Backed(o) ==
    \/ order[o].pay = "pending" /\ (order[o].payRow \/ Paying(o))
    \/ order[o].pay = "paid" /\ ~order[o].issued /\ ~order[o].cash /\ "late_success" \notin Allow

AllBacked == \A o \in Orders : Backed(o) => BoundPlaces(o) = order[o].qty

\* Only an order with a payment row is paid.
PaidRow(o) == order[o].pay = "paid" => order[o].payRow

\* What a payment event releases is the reservation of an order that is no longer paid.
ReleaseRow(v) ==
    task[v].op = "release" => /\ order[task[v].order].pay \notin {"none", "pending"}
                              /\ order[task[v].order].pay = "paid" => "late_success" \in Allow

Backing ==
    /\ AllBacked
    /\ \A o \in Orders : PaidRow(o)
    /\ \A v \in Workers : ReleaseRow(v)

\* The order's holds stay held and it gets no others.
BoundKept(o) ==
    \A h \in Holds : /\ (hold'[h].status = "held" /\ hold'[h].order = o)
                           <=> (hold[h].status = "held" /\ hold[h].order = o)
                     /\ hold[h].order = o => hold'[h].qty = hold[h].qty

\* Nothing of the order changes that its payment or fulfilment depends on.
PaySame(o) ==
    /\ order'[o].pay = order[o].pay /\ order'[o].payRow = order[o].payRow
    /\ order'[o].issued = order[o].issued /\ order'[o].cash = order[o].cash
    /\ order'[o].qty = order[o].qty

LEMMA BoundStay ==
  ASSUME NEW o \in Orders, BoundKept(o)
  PROVE  BoundPlaces(o)' = BoundPlaces(o)
<1> DEFINE S == {h \in HeldHolds : hold[h].order = o}
<1>1. {h \in HeldHolds : hold[h].order = o}' = S
  BY DEF BoundKept, HeldHolds
<1>2. \A h \in S : HoldQty[h] = HoldQty'[h]
  BY DEF BoundKept, HeldHolds, HoldQty
<1> HIDE DEF S
<1>3. Places(S, HoldQty) = Places(S, HoldQty')
  BY <1>2, PlacesSame
<1>4. BoundPlaces(o)' = Places(S, HoldQty')
  BY <1>1, Zenon DEF BoundPlaces
<1>5. BoundPlaces(o) = Places(S, HoldQty)
  BY DEF BoundPlaces, S
<1> QED
  BY <1>3, <1>4, <1>5

\* A step about order o: it may begin to pay for it or to release it.
LEMMA BackingAbout ==
  ASSUME TypeOK, Backing, NEW o,
         \A i \in Orders : i # o => PaySame(i) /\ (Backed(i) => BoundKept(i)),
         \A v \in Workers : task'[v].op \in {"pay", "release"} =>
            task'[v] = task[v] \/ task'[v].order = o,
         \A v \in Workers : task'[v].op = "release" => task'[v].order \in Orders,
         o \in Orders => /\ PaidRow(o)'
                         /\ Backed(o)' => BoundPlaces(o)' = order'[o].qty,
         \A v \in Workers : task'[v].op = "release" /\ task'[v].order = o => ReleaseRow(v)'
  PROVE  Backing'
<1>1. ASSUME NEW i \in Orders, i # o, Backed(i)'
      PROVE  BoundPlaces(i)' = order'[i].qty
  <2>1. PaySame(i) /\ (Backed(i) => BoundKept(i))
    BY <1>1
  <2>2. Paying(i)' => Paying(i)
    BY <1>1 DEF Paying
  <2>3. Backed(i)
    BY <1>1, <2>1, <2>2 DEF Backed, PaySame
  <2>4. BoundPlaces(i)' = BoundPlaces(i)
    BY <2>1, <2>3, BoundStay
  <2> QED
    BY <2>1, <2>3, <2>4 DEF Backing, AllBacked, PaySame
<1>2. AllBacked'
  BY <1>1 DEF AllBacked
<1>3. \A i \in Orders : PaidRow(i)'
  BY DEF Backing, PaidRow, PaySame
<1>4. ASSUME NEW v \in Workers, task'[v].op = "release", task'[v].order # o
      PROVE  ReleaseRow(v)'
  <2>1. task'[v] = task[v] /\ task[v].order \in Orders
    BY <1>4
  <2> QED
    BY <1>4, <2>1 DEF Backing, ReleaseRow, PaySame
<1>5. \A v \in Workers : ReleaseRow(v)'
  BY <1>4 DEF ReleaseRow
<1> QED
  BY <1>2, <1>3, <1>5 DEF Backing

\* The orders that tasks are about.
LEMMA TaskOrders ==
  ASSUME TypeOK, TasksShaped
  PROVE  \A v \in Workers : task[v].op \in OrderOps => task[v].order \in Orders
  BY References DEF TasksShaped, Shaped

\* A step that is about no order's payment.
LEMMA BackingStay ==
  ASSUME TypeOK, TasksShaped, Backing,
         \A i \in Orders : PaySame(i) /\ (Backed(i) => BoundKept(i)),
         \A v \in Workers : task'[v].op \in {"pay", "release"} => task'[v] = task[v]
  PROVE  Backing'
<1>1. None \notin Orders
  BY References
<1>2. \A v \in Workers : task'[v].op = "release" => task'[v].order \in Orders
  BY TaskOrders DEF OrderOps
<1> QED
  BY <1>1, <1>2, BackingAbout

\* A task of another kind begins neither.
LEMMA NoNewPayer ==
  ASSUME TypeOK, NEW w \in Workers, NEW t, Become(w, t), t.op \notin {"pay", "release"}
  PROVE  \A v \in Workers : task'[v].op \in {"pay", "release"} => task'[v] = task[v]
  BY DEF TypeOK, Become

LEMMA FinishPayer ==
  ASSUME TypeOK, NEW w \in Workers, Finish(w)
  PROVE  \A v \in Workers : task'[v].op \in {"pay", "release"} => task'[v] = task[v]
  BY NoNewPayer DEF Finish, Idle

\* The orders stay.
LEMMA OrdersStay == UNCHANGED order => \A i \in Orders : PaySame(i)
  BY DEF PaySame

\* The holds that orders own stay.
LEMMA BoundSame ==
  ASSUME \A h \in Holds : hold[h].order # None \/ hold'[h].order # None => hold'[h] = hold[h],
         None \notin Orders
  PROVE  \A i \in Orders : BoundKept(i)
  BY DEF BoundKept

\* Releasing holds keeps those of the orders it is not about.
LEMMA ReleaseBound ==
  ASSUME TypeOK, NEW w \in Workers, NEW next \in {"released", "expired"}, ReleaseSeen(w, next),
         NEW i \in Orders, \A h \in Applied(w) : hold[h].order # i
  PROVE  BoundKept(i)
<1>1. \A h \in Holds : /\ hold'[h].qty = hold[h].qty /\ hold'[h].order = hold[h].order
                       /\ IF h \in Applied(w) THEN hold'[h].status = next
                                              ELSE hold'[h].status = hold[h].status
  BY ReleaseKeeps DEF HoldKept
<1> QED
  BY <1>1 DEF BoundKept

\* The lines of an open cart, and those of a cart whose order has no payment, belong to no
\* order that may still get its tickets.
LEMMA LinesFree ==
  ASSUME Bindings, Backing, NEW c \in Carts, cart[c].status \in {"open", "expired"},
         NEW h \in Holds, InLine(c, h), NEW i \in Orders, Backed(i)
  PROVE  hold[h].order # i
<1>0. TypeOK /\ Agreement /\ None \notin Orders
  BY References DEF Bindings
<1>1. CASE cart[c].status = "open"
  BY <1>0, <1>1 DEF Agreement, RowsAgree, CartRow
<1>2. ASSUME cart[c].status = "expired", hold[h].order = i
      PROVE  FALSE
  <2>1. cart[c].last = i /\ ~order[i].payRow
    BY <1>0, <1>2 DEF Agreement, RowsAgree, CartRow
  <2>2. order[i].pay = "pending" /\ Paying(i)
    BY <2>1 DEF Backed, Backing, PaidRow
  <2>3. PICK v \in Workers : task[v].op = "pay" /\ task[v].order = i
    BY <2>2 DEF Paying
  <2>4. /\ cart[task[v].cart].status = "converted"
        /\ \A d \in Carts : cart[d].status \in {"converted", "expired"} /\ cart[d].last = i
                                   => d = task[v].cart
    BY <2>3, PayingAlone
  <2> QED
    BY <1>2, <2>1, <2>4
<1> QED
  BY <1>1, <1>2

\* The steps of the cart touch no hold that a payable order owns.
LEMMA CartStepBacking ==
  ASSUME Bindings, Backing, NEW w \in Workers, CartStep(w)
  PROVE  Backing'
<1>0. TypeOK /\ RowsExist /\ TasksShaped /\ Agreement /\ None \notin Orders /\ None \notin Holds
  BY References DEF Bindings
<1>K. UNCHANGED hold => \A i \in Orders : BoundKept(i)
  BY DEF BoundKept
<1>C. task[w].op \in CartOps => task[w].cart \in Carts
  BY <1>0, References DEF TasksShaped, Shaped
<1>1. ASSUME NEW c \in Carts, NEW k \in Kinds, NEW q \in 1..MaxQty, AddRead(w, c, k, q)
      PROVE  Backing'
  <2>1. \A v \in Workers : task'[v].op \in {"pay", "release"} => task'[v] = task[v]
    BY <1>0, <1>1, NoNewPayer DEF AddRead, Idle
  <2> QED
    BY <1>0, <1>1, <1>K, <2>1, OrdersStay, BackingStay DEF AddRead
<1>2. ASSUME NEW c \in Carts, NEW k \in Kinds, AddCommit(w, c, k)
      PROVE  Backing'
  <2> DEFINE q == task[w].qty
  <2>1. /\ UNCHANGED order /\ Finish(w) /\ q \in Nat
        /\ task[w].op = "add" /\ task[w].cart = c
    BY <1>0, <1>2, References DEF AddCommit, Task, Is
  <2>2. cart[c].status = "open"
    BY <1>0, <2>1 DEF Agreement, TaskCart
  <2>3. ASSUME NEW h \in Holds, NewLine(c, k, q, h)
        PROVE  \A i \in Orders : BoundKept(i)
    <3>1. /\ hold[h].status = "none" /\ hold'[h].order = None
          /\ \A g \in Holds \ {h} : hold'[g] = hold[g]
      BY <1>0, <2>1, <2>3, NewLineMakes
    <3>2. hold[h].order = None
      BY <1>0, <3>1 DEF RowsExist, HoldRow
    <3> QED
      BY <1>0, <3>1, <3>2, BoundSame
  <2>G. ASSUME NEW h \in Holds, GrowLine(c, q, h)
        PROVE  hold'[h].order = hold[h].order /\ \A g \in Holds \ {h} : hold'[g] = hold[g]
    BY <1>0, <2>1, <2>G, GrowLineMakes
  <2>4. ASSUME NEW h \in Holds, h = cart[c].line[k], GrowLine(c, q, h)
        PROVE  \A i \in Orders : BoundKept(i)
    <3>1. hold'[h].order = hold[h].order /\ \A g \in Holds \ {h} : hold'[g] = hold[g]
      BY <2>G, <2>4
    <3>2. InLine(c, h)
      BY <2>4 DEF InLine
    <3>3. hold[h].order = None
      BY <1>0, <2>2, <3>2 DEF Agreement, RowsAgree, CartRow
    <3> QED
      BY <1>0, <3>1, <3>3, BoundSame
  <2>5. cart[c].line[k] # None => cart[c].line[k] \in Holds
    BY <1>0 DEF TypeOK, Cart
  <2>6. \A i \in Orders : BoundKept(i)
    BY <1>2, <2>3, <2>4, <2>5 DEF AddCommit
  <2> QED
    BY <1>0, <2>1, <2>6, FinishPayer, OrdersStay, BackingStay
<1>3. ASSUME NEW c \in Carts, NEW k \in Kinds, RemoveRead(w, c, k)
      PROVE  Backing'
  <2>1. \A v \in Workers : task'[v].op \in {"pay", "release"} => task'[v] = task[v]
    BY <1>0, <1>3, NoNewPayer DEF RemoveRead, Idle
  <2> QED
    BY <1>0, <1>3, <1>K, <2>1, OrdersStay, BackingStay DEF RemoveRead
<1>4. CASE RemoveCommit(w)
  <2> DEFINE c == task[w].cart
  <2>1. /\ task[w].op = "remove" /\ cart[c].line[task[w].kind] = task[w].item
        /\ ReleaseSeen(w, "released") /\ Finish(w) /\ UNCHANGED order
    BY <1>4 DEF RemoveCommit, Is
  <2>2. c \in Carts /\ cart[c].status = "open"
    BY <1>0, <1>C, <2>1 DEF CartOps, Agreement, TaskCart
  <2>3. task[w].kind \in Kinds /\ \A h \in Holds : task[w].seen[h] > 0 => h = task[w].item
    BY <1>0, <2>1 DEF TasksShaped, Shaped
  <2>4. \A h \in Applied(w) : h \in Holds /\ InLine(c, h)
    BY <2>1, <2>3 DEF Applied, Seen, HeldHolds, InLine
  <2>5. \A i \in Orders : \A h \in Applied(w) : hold[h].order # i
    BY <1>0, <2>2, <2>4 DEF Agreement, RowsAgree, CartRow
  <2>6. \A i \in Orders : BoundKept(i)
    BY <1>0, <2>1, <2>5, ReleaseBound
  <2> QED
    BY <1>0, <2>1, <2>6, FinishPayer, OrdersStay, BackingStay
<1>5. ASSUME NEW c \in Carts, RenewRead(w, c)
      PROVE  Backing'
  <2>1. \A v \in Workers : task'[v].op \in {"pay", "release"} => task'[v] = task[v]
    BY <1>0, <1>5, NoNewPayer DEF RenewRead, Idle
  <2> QED
    BY <1>0, <1>5, <1>K, <2>1, OrdersStay, BackingStay DEF RenewRead
<1>6. CASE RenewCommit(w)
  <2> DEFINE c == task[w].cart
  <2>1. task[w].op = "renew" /\ ReleaseSeen(w, "released") /\ UNCHANGED order
    BY <1>6 DEF RenewCommit, Is
  <2>2. c \in Carts /\ cart[c].status \in {"open", "expired"}
        /\ \A h \in Holds : task[w].seen[h] > 0 => InLine(c, h)
    BY <1>0, <1>C, <2>1 DEF CartOps, Agreement, TaskCart
  <2>3. \A h \in Applied(w) : h \in Holds /\ InLine(c, h)
    BY <2>2 DEF Applied, Seen, HeldHolds
  <2>4. \A i \in Orders : Backed(i) => \A h \in Applied(w) : hold[h].order # i
    BY <2>2, <2>3, LinesFree
  <2>5. \A i \in Orders : Backed(i) => BoundKept(i)
    BY <1>0, <2>1, <2>4, ReleaseBound
  <2>6. \A v \in Workers : task'[v].op \in {"pay", "release"} => task'[v] = task[v]
    BY <1>0, <1>6, NoNewPayer DEF RenewCommit, Idle
  <2> QED
    BY <1>0, <2>1, <2>5, <2>6, OrdersStay, BackingStay
<1>7. CASE RenewReopen(w)
  BY <1>0, <1>7, <1>K, FinishPayer, OrdersStay, BackingStay DEF RenewReopen
<1> QED
  BY <1>1, <1>2, <1>3, <1>4, <1>5, <1>6, <1>7 DEF CartStep

\* A checkout gives its order as many held places as it has read; a payment that cannot be
\* started gives back those of its own order, and nobody else pays for that.
LEMMA CheckoutStepBacking ==
  ASSUME Bindings, Bindings', Backing, NEW w \in Workers, CheckoutStep(w)
  PROVE  Backing'
<1>0. TypeOK /\ RowsExist /\ TasksShaped /\ Agreement /\ None \notin Orders /\ None \notin Holds
  BY References DEF Bindings
<1>K. UNCHANGED hold => \A i \in Orders : BoundKept(i)
  BY DEF BoundKept
<1>1. ASSUME NEW c \in Carts, CheckoutRead(w, c)
      PROVE  Backing'
  <2>1. \A v \in Workers : task'[v].op \in {"pay", "release"} => task'[v] = task[v]
    BY <1>0, <1>1, NoNewPayer DEF CheckoutRead, Idle
  <2> QED
    BY <1>0, <1>1, <1>K, <2>1, OrdersStay, BackingStay DEF CheckoutRead
<1>2. ASSUME NEW o \in Orders, CheckoutCommit(w, o)
      PROVE  Backing'
  <2> DEFINE r == [NoOrder EXCEPT !.pay = "pending", !.cart = task[w].cart,
                                  !.qty = Places(Seen(w), task[w].seen)]
             t == [Idle EXCEPT !.op = "pay", !.cart = task[w].cart, !.order = o]
  <2>1. /\ order' = [order EXCEPT ![o] = r] /\ Become(w, t)
        /\ task[w].op = "checkout" /\ order[o].pay = "none"
    BY <1>2 DEF CheckoutCommit, Is
  <2>2. order'[o] = r /\ \A i \in Orders : i # o => order'[i] = order[i]
    BY <1>0, <2>1, OrderMade
  <2>3. r.pay = "pending" /\ r.qty = Places(Seen(w), task[w].seen)
    BY DEF NoOrder
  <2>4. task'[w] = t /\ \A v \in Workers \ {w} : task'[v] = task[v]
    BY <1>0, <2>1 DEF TypeOK, Become
  <2>5. t.op = "pay" /\ t.order = o
    BY DEF Idle
  <2> HIDE DEF r, t
  <2>6. \A h \in Holds : /\ hold'[h].qty = hold[h].qty
                         /\ hold'[h].status = hold[h].status
                         /\ h \in Seen(w) => hold'[h].status = "held" /\ hold'[h].order = o
                         /\ h \notin Seen(w) => hold'[h] = hold[h]
    BY <1>0, <1>2, CheckoutMakes, CheckoutKeepsHeld
  <2>7. Seen(w) \subseteq Holds /\ task[w].cart \in Carts
    BY <1>0, <2>1, References DEF Seen, TasksShaped, Shaped, CartOps
  <2>8. \A h \in Seen(w) : hold[h].order = None /\ task[w].seen[h] = hold[h].qty
    BY <1>0, <2>1, <2>7 DEF Seen, Agreement, TaskCart, RowsAgree, CartRow
  <2>9. \A h \in Holds : hold[h].order # o
    BY <1>0, <2>1 DEF RowsExist, HoldRow
  <2>10. ASSUME NEW i \in Orders, i # o
         PROVE  PaySame(i) /\ BoundKept(i)
    BY <1>0, <2>2, <2>6, <2>8, <2>10 DEF PaySame, BoundKept
  <2>11. BoundPlaces(o)' = order'[o].qty
    <3>1. {h \in HeldHolds : hold[h].order = o}' = Seen(w)
      BY <2>6, <2>7, <2>9 DEF HeldHolds
    <3>2. \A h \in Seen(w) : HoldQty'[h] = task[w].seen[h]
      BY <2>6, <2>7, <2>8 DEF HoldQty
    <3>3. Places(Seen(w), HoldQty') = Places(Seen(w), task[w].seen)
      BY <3>2, PlacesSame
    <3>4. BoundPlaces(o)' = Places(Seen(w), HoldQty')
      BY <3>1, Zenon DEF BoundPlaces
    <3> QED
      BY <2>2, <2>3, <3>3, <3>4
  <2>12. \A v \in Workers : task'[v].op = "release" =>
            task'[v] = task[v] /\ task[v].order \in Orders /\ task[v].order # o
    BY <1>0, <2>1, <2>4, <2>5, TaskOrders DEF OrderOps, Backing, ReleaseRow
  <2>13. PaidRow(o)'
    BY <2>2, <2>3 DEF PaidRow
  <2> QED
    BY <1>0, <2>4, <2>5, <2>10, <2>11, <2>12, <2>13, BackingAbout
<1>3. CASE PayStart(w)
  <2>1. task[w].op = "pay" /\ Finish(w) /\ UNCHANGED hold
    BY <1>3 DEF PayStart, Is
  <2>2. PICK o \in Orders : o = task[w].order
    BY <1>0, <2>1, TaskOrders DEF OrderOps
  <2>3. \A i \in Orders : /\ OrderFixed(i) /\ TicketsFixed(i)
                          /\ order'[i].pay = order[i].pay
                          /\ order'[i].payRow = (order[i].payRow \/ i = o)
                          /\ i # o => order'[i] = order[i]
    BY <1>0, <1>3, <2>2, PayStartKeeps
  <2>4. \A i \in Orders : i # o => PaySame(i) /\ BoundKept(i)
    BY <1>K, <2>1, <2>3 DEF PaySame
  <2>5. \A v \in Workers : task'[v].op \in {"pay", "release"} => task'[v] = task[v]
    BY <1>0, <2>1, FinishPayer
  <2>6. Backed(o)' => Backed(o)
    <3>1. Paying(o)
      BY <2>1, <2>2 DEF Paying
    <3> QED
      BY <2>2, <2>3, <3>1 DEF Backed, OrderFixed, TicketsFixed
  <2>7. Backed(o)' => BoundPlaces(o)' = order'[o].qty
    <3>1. BoundPlaces(o)' = BoundPlaces(o)
      BY <1>K, <2>1, <2>2, BoundStay
    <3>2. order'[o].qty = order[o].qty
      BY <2>2, <2>3 DEF OrderFixed
    <3> QED
      BY <2>2, <2>6, <3>1, <3>2 DEF Backing, AllBacked
  <2>8. PaidRow(o)'
    BY <2>2, <2>3 DEF PaidRow
  <2>9. \A v \in Workers : task'[v].op = "release" => task'[v].order \in Orders /\ ReleaseRow(v)'
    <3>1. ASSUME NEW v \in Workers, task'[v].op = "release"
          PROVE  task'[v].order \in Orders /\ ReleaseRow(v)'
      <4>1. task'[v] = task[v] /\ task[v].order \in Orders
        BY <1>0, <2>5, <3>1, TaskOrders DEF OrderOps
      <4> QED
        BY <2>3, <3>1, <4>1 DEF Backing, ReleaseRow
    <3> QED
      BY <3>1
  <2> QED
    BY <1>0, <2>4, <2>5, <2>7, <2>8, <2>9, BackingAbout
<1>4. CASE PayStartFails(w)
  <2>1. \A v \in Workers : task'[v].op \in {"pay", "release"} => task'[v] = task[v]
    BY <1>0, <1>4, NoNewPayer DEF PayStartFails, TypeOK, Task
  <2> QED
    BY <1>0, <1>4, <1>K, <2>1, OrdersStay, BackingStay DEF PayStartFails
<1>U. ASSUME task[w].op \in {"compensate", "close"}, NEW i \in Orders, Backed(i)
      PROVE  i # task[w].order
  <2>1. SUFFICES ASSUME i = task[w].order
                 PROVE  FALSE
    OBVIOUS
  <2>2. /\ ~order[i].payRow
        /\ \A v \in Workers \ {w} : task[v].op \in {"pay", "compensate", "close"} => task[v].order # i
    BY <1>U, <2>1, PayingAlone
  <2>3. Paying(i)
    BY <1>U, <2>2 DEF Backed, Backing, PaidRow
  <2> QED
    BY <1>U, <2>2, <2>3 DEF Paying
<1>5. CASE CompensateCommit(w)
  <2>1. task[w].op = "compensate" /\ ReleaseSeen(w, "released") /\ UNCHANGED order
    BY <1>5 DEF CompensateCommit, Is
  <2>2. \A h \in Applied(w) : hold[h].order = task[w].order
    BY <1>0, <2>1 DEF Applied, Seen, Agreement, TaskCart
  <2>3. \A i \in Orders : Backed(i) => \A h \in Applied(w) : hold[h].order # i
    BY <1>U, <2>1, <2>2
  <2>4. \A i \in Orders : Backed(i) => BoundKept(i)
    BY <1>0, <2>1, <2>3, ReleaseBound
  <2>5. \A v \in Workers : task'[v].op \in {"pay", "release"} => task'[v] = task[v]
    BY <1>0, <1>5, NoNewPayer DEF CompensateCommit, TypeOK, Task
  <2> QED
    BY <1>0, <2>1, <2>4, <2>5, OrdersStay, BackingStay
<1>6. CASE CompensateClose(w)
  <2>1. task[w].op = "close" /\ Finish(w) /\ UNCHANGED hold
        /\ order' = [order EXCEPT ![task[w].order].pay = "canceled"]
    BY <1>6 DEF CompensateClose, Is
  <2>2. PICK o \in Orders : o = task[w].order
    BY <1>0, <2>1, TaskOrders DEF OrderOps
  <2>A. order' = [order EXCEPT ![o].pay = "canceled"]
    BY <2>1, <2>2
  <2>3. \A i \in Orders : /\ OrderFixed(i) /\ TicketsFixed(i)
                           /\ order'[i].payRow = order[i].payRow
                           /\ order'[i].pay = IF i = o THEN "canceled" ELSE order[i].pay
    BY <1>0, <2>A, PayKeeps
  <2>4. \A i \in Orders : i # o => PaySame(i) /\ BoundKept(i)
    BY <1>K, <2>1, <2>3 DEF PaySame, OrderFixed, TicketsFixed
  <2>5. \A v \in Workers : task'[v].op \in {"pay", "release"} => task'[v] = task[v]
    BY <1>0, <2>1, FinishPayer
  <2>6. ~Backed(o)' /\ PaidRow(o)'
    BY <2>2, <2>3 DEF Backed, PaidRow
  <2>7. \A v \in Workers : task'[v].op = "release" =>
           task'[v].order \in Orders /\ (task'[v].order = o => ReleaseRow(v)')
    BY <1>0, <2>2, <2>3, <2>5, TaskOrders DEF OrderOps, ReleaseRow
  <2> QED
    BY <1>0, <2>4, <2>5, <2>6, <2>7, BackingAbout
<1> QED
  BY <1>1, <1>2, <1>3, <1>4, <1>5, <1>6 DEF CheckoutStep

\* Payment events: a failed payment's order is no longer payable when its holds go, and
\* nothing else releases holds of an order.
LEMMA PaymentStepBacking ==
  ASSUME Bindings, Backing, Undisturbed, NEW w \in Workers, PaymentStep(w)
  PROVE  Backing'
<1>0. TypeOK /\ RowsExist /\ TasksShaped /\ Agreement /\ None \notin Orders /\ None \notin Holds
  BY References DEF Bindings
<1>K. UNCHANGED hold => \A i \in Orders : BoundKept(i)
  BY DEF BoundKept
<1>1. ASSUME NEW o \in Orders, PaymentFails(w, o)
      PROVE  Backing'
  <2> DEFINE t == [Idle EXCEPT !.op = "release", !.order = o, !.seen = Read(OrderHolds(o))]
  <2>1. order' = [order EXCEPT ![o].pay = "failed"] /\ UNCHANGED hold /\ Become(w, t)
    BY <1>1 DEF PaymentFails
  <2>2. task'[w] = t /\ \A v \in Workers \ {w} : task'[v] = task[v]
    BY <1>0, <2>1 DEF TypeOK, Become
  <2>3. t.op = "release" /\ t.order = o
    BY DEF Idle
  <2> HIDE DEF t
  <2>4. \A i \in Orders : /\ order'[i].pay = IF i = o THEN "failed" ELSE order[i].pay
                          /\ i # o => order'[i] = order[i]
    BY <1>0, <2>1, PayKeeps
  <2>5. \A i \in Orders : i # o => PaySame(i) /\ BoundKept(i)
    BY <1>K, <2>1, <2>4 DEF PaySame
  <2>6. ~Backed(o)' /\ PaidRow(o)'
    BY <2>4 DEF Backed, PaidRow
  <2>7. \A v \in Workers : task'[v].op \in {"pay", "release"} =>
            task'[v] = task[v] \/ task'[v].order = o
    BY <2>2, <2>3
  <2>8. \A v \in Workers : task'[v].op = "release" => task'[v].order \in Orders
    BY <1>0, <2>2, <2>3, TaskOrders DEF OrderOps
  <2>9. \A v \in Workers : task'[v].op = "release" /\ task'[v].order = o => ReleaseRow(v)'
    BY <2>4 DEF ReleaseRow
  <2> QED
    BY <1>0, <2>5, <2>6, <2>7, <2>8, <2>9, BackingAbout
<1>2. ASSUME NEW o \in Orders, ManualRelease(w, o)
      PROVE  Backing'
  BY <1>2 DEF ManualRelease, Undisturbed
<1>3. ASSUME NEW o \in Orders, RefundRead(w, o)
      PROVE  Backing'
  <2>1. order' = [order EXCEPT ![o].pay = "refunded"] /\ UNCHANGED hold
    BY <1>3 DEF RefundRead
  <2>2. \A v \in Workers : task'[v].op \in {"pay", "release"} => task'[v] = task[v]
    BY <1>0, <1>3, NoNewPayer DEF RefundRead, Idle
  <2>3. \A i \in Orders : /\ order'[i].pay = IF i = o THEN "refunded" ELSE order[i].pay
                          /\ i # o => order'[i] = order[i]
    BY <1>0, <2>1, PayKeeps
  <2>4. \A i \in Orders : i # o => PaySame(i) /\ BoundKept(i)
    BY <1>K, <2>1, <2>3 DEF PaySame
  <2>5. ~Backed(o)' /\ PaidRow(o)'
    BY <2>3 DEF Backed, PaidRow
  <2>6. \A v \in Workers : task'[v].op = "release" =>
           task'[v].order \in Orders /\ (task'[v].order = o => ReleaseRow(v)')
    BY <1>0, <2>2, <2>3, TaskOrders DEF OrderOps, ReleaseRow
  <2> QED
    BY <1>0, <2>2, <2>4, <2>5, <2>6, BackingAbout
<1>4. ASSUME NEW o \in Orders, VoidRead(w, o)
      PROVE  Backing'
  <2>1. \A v \in Workers : task'[v].op \in {"pay", "release"} => task'[v] = task[v]
    BY <1>0, <1>4, NoNewPayer DEF VoidRead, Idle
  <2> QED
    BY <1>0, <1>4, <1>K, <2>1, OrdersStay, BackingStay DEF VoidRead
<1>5. CASE ReleaseCommit(w)
  <2>1. task[w].op = "release" /\ ReleaseSeen(w, "released") /\ UNCHANGED order /\ Finish(w)
    BY <1>5 DEF ReleaseCommit, Is
  <2>2. \A h \in Applied(w) : hold[h].order = task[w].order
    BY <1>0, <2>1 DEF Applied, Seen, Agreement, TaskCart
  <2>3. ASSUME NEW i \in Orders, Backed(i)
        PROVE  i # task[w].order
    BY <2>1, <2>3 DEF Backed, Backing, ReleaseRow
  <2>4. \A i \in Orders : Backed(i) => \A h \in Applied(w) : hold[h].order # i
    BY <2>2, <2>3
  <2>5. \A i \in Orders : Backed(i) => BoundKept(i)
    BY <1>0, <2>1, <2>4, ReleaseBound
  <2> QED
    BY <1>0, <2>1, <2>5, FinishPayer, OrdersStay, BackingStay
<1>6. CASE RestoreCommit(w)
  <2>1. UNCHANGED hold /\ Finish(w)
    BY <1>6 DEF RestoreCommit
  <2>2. \A i \in Orders : PaySame(i)
    BY <1>0, <1>6, RestoreKeeps DEF PaySame, OrderFixed
  <2> QED
    BY <1>0, <1>K, <2>1, <2>2, FinishPayer, BackingStay
<1> QED
  BY <1>1, <1>2, <1>3, <1>4, <1>5, <1>6 DEF PaymentStep

\* A sweep releases holds without an order only.
LEMMA SweepStepBacking ==
  ASSUME Bindings, Backing, NEW w \in Workers, SweepStep(w)
  PROVE  Backing'
<1>0. TypeOK /\ TasksShaped /\ SweepIsCurrent /\ None \notin Orders
  BY References DEF Bindings
<1>1. UNCHANGED order
  BY DEF SweepStep, SweepRead, SweepExpire, SweepTally, SweepCompare, SweepRepair
<1>2. \A i \in Orders : BoundKept(i)
  <2>1. CASE SweepExpire(w)
    <3>1. \A h \in Applied(w) : hold[h].order = None
      BY <1>0, <2>1 DEF SweepExpire, SweepIsCurrent, Applied, HeldHolds, Condemned
    <3>2. \A i \in Orders : \A h \in Applied(w) : hold[h].order # i
      BY <1>0, <3>1
    <3> QED
      BY <1>0, <2>1, <3>2, ReleaseBound DEF SweepExpire
  <2>2. CASE ~SweepExpire(w)
    BY <2>2 DEF SweepStep, SweepRead, SweepTally, SweepCompare, SweepRepair, BoundKept
  <2> QED
    BY <2>1, <2>2
<1>3. task[w] \in Task
  BY <1>0 DEF TypeOK
<1>4. \A v \in Workers : task'[v].op \in {"pay", "release"} => task'[v] = task[v]
  <2>1. CASE SweepRead(w)
    BY <1>0, <2>1, NoNewPayer DEF SweepRead, Idle
  <2>2. CASE SweepExpire(w)
    BY <1>0, <2>2, NoNewPayer DEF SweepExpire, Idle
  <2>3. CASE SweepTally(w)
    BY <1>0, <1>3, <2>3, NoNewPayer DEF SweepTally, Task
  <2>4. CASE SweepCompare(w)
    BY <1>0, <1>3, <2>4, NoNewPayer DEF SweepCompare, Task, Idle
  <2>5. ASSUME NEW ch \in Channels, SweepRepair(w, ch)
        PROVE  \A v \in Workers : task'[v].op \in {"pay", "release"} => task'[v] = task[v]
    BY <1>0, <1>3, <2>5, NoNewPayer DEF SweepRepair, Task, Is, Idle
  <2> QED
    BY <2>1, <2>2, <2>3, <2>4, <2>5 DEF SweepStep
<1> QED
  BY <1>0, <1>1, <1>2, <1>4, OrdersStay, BackingStay

\* Counter sales, successful payments and fulfilment.
LEMMA SaleBacking ==
  ASSUME Bindings, Bindings', Backing, NEW o \in Orders,
         \/ \E q \in 1..MaxQty : BoxSale(o, q) \/ TapSale(o, q)
         \/ PaymentSucceeds(o) \/ Fulfil(o)
  PROVE  Backing'
<1>0. TypeOK /\ RowsExist /\ TasksShaped /\ Agreement /\ None \notin Orders /\ UNCHANGED task
  BY References DEF Bindings, BoxSale, TapSale, PaymentSucceeds, Fulfil
<1>K. UNCHANGED hold => \A i \in Orders : BoundKept(i)
  BY DEF BoundKept
<1>R. \A v \in Workers : task[v].op = "release" => task[v].order \in Orders
  BY <1>0, TaskOrders DEF OrderOps
<1>T. /\ \A v \in Workers : task'[v].op \in {"pay", "release"} => task'[v] = task[v] \/ task'[v].order = o
      /\ \A v \in Workers : task'[v].op = "release" => task'[v].order \in Orders
  BY <1>0, <1>R
<1>N. ASSUME order[o].pay = "none"
      PROVE  /\ \A v \in Workers : task'[v].op = "release" => task'[v].order # o
             /\ \A h \in Holds : hold[h].order # o
  BY <1>0, <1>N DEF Backing, ReleaseRow, RowsExist, HoldRow
<1>1. ASSUME NEW q \in 1..MaxQty, BoxSale(o, q)
      PROVE  Backing'
  <2> DEFINE r == [NoOrder EXCEPT !.pay = "paid", !.channel = "box_office",
                                  !.cash = TRUE, !.qty = q, !.payRow = TRUE]
  <2>1. order'[o] = r /\ (\A i \in Orders : i # o => order'[i] = order[i])
    BY <1>0, <1>1, OrderMade DEF BoxSale
  <2>2. r.pay = "paid" /\ r.cash /\ r.payRow
    BY DEF NoOrder
  <2> HIDE DEF r
  <2>3. UNCHANGED hold /\ order[o].pay = "none"
    BY <1>1 DEF BoxSale
  <2>4. \A i \in Orders : i # o => PaySame(i) /\ BoundKept(i)
    BY <1>K, <2>1, <2>3 DEF PaySame
  <2>5. ~Backed(o)' /\ PaidRow(o)'
    BY <2>1, <2>2 DEF Backed, PaidRow
  <2> QED
    BY <1>0, <1>T, <1>N, <2>3, <2>4, <2>5, BackingAbout
<1>2. ASSUME NEW q \in 1..MaxQty, TapSale(o, q)
      PROVE  Backing'
  <2> DEFINE r == [NoOrder EXCEPT !.pay = "pending", !.qty = q,
                                  !.channel = "box_office", !.payRow = TRUE]
  <2>1. order'[o] = r /\ (\A i \in Orders : i # o => order'[i] = order[i])
    BY <1>0, <1>2, OrderMade DEF TapSale
  <2>2. r.pay = "pending" /\ r.qty = q /\ q \in Nat
    BY ConstantsAssumption DEF NoOrder
  <2> HIDE DEF r
  <2>3. order[o].pay = "none"
    BY <1>2 DEF TapSale
  <2>4. PICK h \in Holds :
            /\ hold[h].status = "none" /\ hold'[h].status = "held"
            /\ hold'[h].order = o /\ hold'[h].qty = q
            /\ \A g \in Holds \ {h} : hold'[g] = hold[g]
    BY <1>0, <1>2, <2>2, TapMakes
  <2>5. hold[h].order = None
    BY <1>0, <2>4 DEF RowsExist, HoldRow
  <2>6. \A i \in Orders : i # o => PaySame(i) /\ BoundKept(i)
    BY <1>0, <2>1, <2>4, <2>5 DEF PaySame, BoundKept
  <2>7. PaidRow(o)'
    BY <2>1, <2>2 DEF PaidRow
  <2>8. BoundPlaces(o)' = order'[o].qty
    <3>1. {g \in HeldHolds : hold[g].order = o}' = {h}
      BY <1>N, <2>3, <2>4 DEF HeldHolds
    <3>2. HoldQty'[h] = q
      BY <2>4 DEF HoldQty
    <3>3. Places({h}, HoldQty') = q
      BY <2>2, <3>2, PlacesOne
    <3>4. BoundPlaces(o)' = Places({h}, HoldQty')
      BY <3>1, Zenon DEF BoundPlaces
    <3> QED
      BY <2>1, <2>2, <3>3, <3>4
  <2> QED
    BY <1>0, <1>T, <1>N, <2>3, <2>6, <2>7, <2>8, BackingAbout
<1>3. CASE PaymentSucceeds(o)
  <2>0. order' = [order EXCEPT ![o].pay = "paid"] /\ UNCHANGED hold
    BY <1>3 DEF PaymentSucceeds
  <2>1. /\ order[o].payRow
        /\ order[o].pay = "pending" \/ "late_success" \in Allow
    BY <1>3 DEF PaymentSucceeds
  <2>2. \A i \in Orders : /\ OrderFixed(i)
                          /\ order'[i].payRow = order[i].payRow
                          /\ order'[i].pay = IF i = o THEN "paid" ELSE order[i].pay
                          /\ i # o => order'[i] = order[i]
    BY <1>0, <2>0, PayKeeps
  <2>3. \A i \in Orders : i # o => PaySame(i) /\ BoundKept(i)
    BY <1>K, <2>0, <2>2 DEF PaySame
  <2>4. PaidRow(o)'
    BY <2>1, <2>2 DEF PaidRow
  <2>5. Backed(o)' => Backed(o)
    BY <2>1, <2>2 DEF Backed
  <2>6. BoundPlaces(o)' = BoundPlaces(o) /\ order'[o].qty = order[o].qty
    BY <1>K, <2>0, <2>2, BoundStay DEF OrderFixed
  <2>7. Backed(o)' => BoundPlaces(o)' = order'[o].qty
    BY <2>5, <2>6 DEF Backing, AllBacked
  <2>8. ASSUME NEW v \in Workers, task'[v].op = "release", task'[v].order = o
        PROVE  ReleaseRow(v)'
    <3>1. order[o].pay # "pending"
      BY <1>0, <2>8 DEF Backing, ReleaseRow
    <3> QED
      BY <2>1, <2>2, <2>8, <3>1 DEF ReleaseRow
  <2> QED
    BY <1>0, <1>T, <2>3, <2>4, <2>7, <2>8, BackingAbout
<1>4. CASE Fulfil(o)
  <2>1. /\ ConsumeHolds(OrderHolds(o)) /\ order[o].payRow
        /\ order[o].pay = "paid"
    BY <1>4 DEF Fulfil
  <2>2. OrderHolds(o) = {h \in HeldHolds : hold[h].order = o}
    BY <1>0, <2>1, OrderHoldsOwned DEF Agreement
  <2>3. \A i \in Orders : /\ OrderFixed(i)
                          /\ order'[i].payRow = order[i].payRow
                          /\ order'[i].pay = order[i].pay
                          /\ i # o => order'[i] = order[i]
    BY <1>0, <1>4, FulfilKeeps
  <2>4. order'[o].issued
    BY <1>0, <1>4 DEF Fulfil, TypeOK, Order
  <2>5. \A h \in Holds : /\ hold'[h].qty = hold[h].qty /\ hold'[h].order = hold[h].order
                         /\ h \notin OrderHolds(o) => hold'[h].status = hold[h].status
    BY <1>0, <2>1, <2>2, ConsumeKeeps DEF HoldKept
  <2>6. \A i \in Orders : i # o => PaySame(i) /\ BoundKept(i)
    BY <2>2, <2>3, <2>5 DEF PaySame, BoundKept
  <2>7. ~Backed(o)' /\ PaidRow(o)'
    BY <2>1, <2>3, <2>4 DEF Backed, PaidRow
  <2>8. \A v \in Workers : task'[v].op = "release" /\ task'[v].order = o => ReleaseRow(v)'
    BY <1>0, <2>3 DEF Backing, ReleaseRow
  <2> QED
    BY <1>0, <1>T, <2>6, <2>7, <2>8, BackingAbout
<1> QED
  BY <1>1, <1>2, <1>3, <1>4

\* Every step keeps payable orders backed.
LEMMA StepBacking ==
  ASSUME Bindings, Bindings', Backing, Undisturbed, [Next]_vars
  PROVE  Backing'
<1>0. TypeOK /\ TasksShaped
  BY DEF Bindings
<1>1. CASE (\E h \in Holds : LapseHold(h)) \/ (\E c \in Carts : LapseCart(c))
  <2>1. \A i \in Orders : BoundKept(i)
    BY <1>0, <1>1, LapseKeeps DEF HoldKept, BoundKept
  <2>2. UNCHANGED <<order, task>>
    BY <1>1 DEF LapseHold, LapseCart
  <2> QED
    BY <1>0, <2>1, <2>2, OrdersStay, BackingStay
<1>2. CASE (\E w \in Workers : GiveUp(w)) \/ UNCHANGED vars
  <2>1. UNCHANGED <<hold, order>>
    BY <1>2 DEF GiveUp, vars
  <2>2. \A i \in Orders : BoundKept(i)
    BY <2>1 DEF BoundKept
  <2>3. \A v \in Workers : task'[v].op \in {"pay", "release"} => task'[v] = task[v]
    BY <1>0, <1>2, FinishPayer DEF GiveUp, vars
  <2> QED
    BY <1>0, <2>1, <2>2, <2>3, OrdersStay, BackingStay
<1> QED
  BY <1>1, <1>2, CartStepBacking, CheckoutStepBacking, PaymentStepBacking, SweepStepBacking,
     SaleBacking DEF Next

LEMMA InitBacking == Init => Backing
  BY DEF Init, Idle, NoOrder, Backing, AllBacked, Backed, PaidRow, ReleaseRow

LEMMA BackingHolds == Undisturbed => (Spec => []Backing)
<1> SUFFICES ASSUME Undisturbed
             PROVE  Spec => []Backing
  OBVIOUS
<1>1. Bindings /\ Bindings' /\ Backing /\ [Next]_vars => Backing'
  BY StepBacking
<1> QED
  BY <1>1, InitBacking, BindingsHold, PTL DEF Spec

\* A pending order that can be paid owns as many held places as it has tickets to mint,
\* whatever sweeps, renewals, other orders' payments and crashes come in between.
THEOREM PendingBacked == Undisturbed => (Spec => []PendingOrderBacked)
<1> SUFFICES ASSUME Undisturbed
             PROVE  Spec => []PendingOrderBacked
  OBVIOUS
<1>1. Backing => PendingOrderBacked
  BY DEF Backing, AllBacked, Backed, PendingOrderBacked
<1> QED
  BY <1>1, BackingHolds, PTL

-----------------------------------------------------------------------------
(* The sold counters: every place in them is one of an order. *)

\* Requests of a cart, sweeps and payment events meet in any order and any process may
\* stop, but no payment is reported out of turn, no two requests give back the tickets of
\* one order at once, and every place has one ticket.
Orderly == Allow \subseteq {"crash"} /\ TicketsPerPlace = 1

\* What an order has taken from stock: its active tickets, and the places of a cash sale
\* before they are minted.
SoldOf == [o \in Orders |-> IF order[o].issued THEN order[o].tickets
                            ELSE IF order[o].cash THEN order[o].qty ELSE 0]

OrdersOf(ch) == {o \in Orders : order[o].channel = ch}

SoldPlaces(ch) == Places(OrdersOf(ch), SoldOf)

\* Tickets are minted by fulfilment.
TicketRow(o) == ~order[o].issued => order[o].tickets = 0

\* A refund or void gives back the tickets the order has.
RestoreRow(v) ==
    task[v].op \in {"refund", "void"} =>
        order[task[v].order].issued /\ task[v].qty = order[task[v].order].tickets

\* An order's tickets are given back by one request at a time.
RestoreAlone ==
    \A v, w \in Workers :
        task[v].op \in {"refund", "void"} /\ task[w].op \in {"refund", "void"}
            /\ task[v].order = task[w].order => v = w

Books ==
    /\ \A ch \in Channels : pool[ch].sold = SoldPlaces(ch)
    /\ \A o \in Orders : TicketRow(o)
    /\ \A v \in Workers : RestoreRow(v)
    /\ RestoreAlone

\* A row apart from the others.
LEMMA PlacesApart ==
  ASSUME NEW S, IsFiniteSet(S), NEW x, NEW q, \A y \in S : q[y] \in Nat
  PROVE  Places(S, q) = Places(S \ {x}, q) + (IF x \in S THEN q[x] ELSE 0)
<1>1. CASE x \in S
  BY <1>1, PlacesWith
<1>2. CASE x \notin S
  <2>1. S \ {x} = S
    BY <1>2
  <2>2. Places(S, q) \in Nat
    BY PlacesType
  <2> QED
    BY <1>2, <2>1, <2>2
<1> QED
  BY <1>1, <1>2

\* Rows without places.
LEMMA PlacesZero ==
  ASSUME NEW S, NEW q, \A x \in S : q[x] = 0
  PROVE  Places(S, q) = 0
<1>1. \A x \in S : {x} \X (1..q[x]) = {}
  OBVIOUS
<1>2. UNION {{x} \X (1..q[x]) : x \in S} = {}
  BY <1>1
<1> QED
  BY <1>2, FS_EmptySet, Zenon DEF Places

\* The places of orders are numbers.
LEMMA OrdersCounted ==
  ASSUME TypeOK
  PROVE  /\ \A o \in Orders : SoldOf[o] \in Nat
         /\ \A ch : IsFiniteSet(OrdersOf(ch)) /\ OrdersOf(ch) \subseteq Orders
<1>1. \A o \in Orders : order[o].qty \in Nat /\ order[o].tickets \in Nat
  BY DEF TypeOK, Order
<1>2. \A ch : OrdersOf(ch) \subseteq Orders
  BY DEF OrdersOf
<1> QED
  BY <1>1, <1>2, ConstantsAssumption, FS_Subset DEF SoldOf

\* When one order changes, so do the places sold by its channel.
LEMMA SoldAfter ==
  ASSUME TypeOK, TypeOK', NEW o \in Orders,
         \A i \in Orders : i # o => OrderFixed(i) /\ TicketsFixed(i)
  PROVE  \A ch : /\ SoldPlaces(ch) \in Nat
                 /\ SoldOf[o] \in Nat /\ SoldOf'[o] \in Nat
                 /\ order[o].channel = ch => SoldOf[o] <= SoldPlaces(ch)
                 /\ SoldPlaces(ch)' = SoldPlaces(ch)
                                        - (IF order[o].channel = ch THEN SoldOf[o] ELSE 0)
                                        + (IF order'[o].channel = ch THEN SoldOf'[o] ELSE 0)
<1> TAKE ch
<1> DEFINE S == OrdersOf(ch)
           T == {i \in Orders : order'[i].channel = ch}
           R == S \ {o}
<1>1. T \ {o} = R
  BY DEF OrdersOf, OrderFixed
<1>2. \A i \in Orders : i # o => SoldOf'[i] = SoldOf[i]
  BY DEF SoldOf, OrderFixed, TicketsFixed
<1>3. \A i \in Orders : SoldOf[i] \in Nat /\ SoldOf'[i] \in Nat
  <2>1. \A i \in Orders : order'[i].qty \in Nat /\ order'[i].tickets \in Nat
    BY DEF TypeOK, Order
  <2>2. \A i \in Orders : SoldOf'[i] \in Nat
    BY <2>1 DEF SoldOf
  <2> QED
    BY <2>2, OrdersCounted
<1>4. /\ IsFiniteSet(S) /\ IsFiniteSet(T) /\ IsFiniteSet(R)
      /\ S \subseteq Orders /\ T \subseteq Orders /\ R \subseteq Orders /\ o \notin R
  <2>1. S \subseteq Orders /\ T \subseteq Orders /\ R \subseteq Orders /\ o \notin R
    BY DEF OrdersOf
  <2> QED
    BY <2>1, ConstantsAssumption, FS_Subset
<1>5. (o \in S <=> order[o].channel = ch) /\ (o \in T <=> order'[o].channel = ch)
  BY DEF OrdersOf
<1>6. SoldPlaces(ch) = Places(S, SoldOf) /\ SoldPlaces(ch)' = Places(T, SoldOf')
  BY Zenon DEF SoldPlaces, OrdersOf
<1>7. R = S \ {o}
  OBVIOUS
<1> HIDE DEF S, T, R
<1>8. Places(S, SoldOf) = Places(R, SoldOf) + (IF o \in S THEN SoldOf[o] ELSE 0)
  BY <1>3, <1>4, <1>7, PlacesApart
<1>9. Places(T, SoldOf') = Places(R, SoldOf') + (IF o \in T THEN SoldOf'[o] ELSE 0)
  <2>1. \A y \in T : SoldOf'[y] \in Nat
    BY <1>3, <1>4
  <2>2. Places(T, SoldOf') = Places(T \ {o}, SoldOf') + (IF o \in T THEN SoldOf'[o] ELSE 0)
    BY <1>4, <2>1, PlacesApart
  <2> QED
    BY <1>1, <2>2
<1>10. Places(R, SoldOf') = Places(R, SoldOf) /\ Places(R, SoldOf) \in Nat
  <2>1. \A i \in R : SoldOf'[i] = SoldOf[i] /\ SoldOf[i] \in Nat
    BY <1>2, <1>3, <1>4
  <2> QED
    BY <1>4, <2>1, PlacesSame, PlacesType
<1>11. SoldOf[o] \in Nat /\ SoldOf'[o] \in Nat
  BY <1>3
<1> QED
  BY <1>5, <1>6, <1>8, <1>9, <1>10, <1>11

\* When the tickets of the orders stay, so do the places sold.
LEMMA SoldStay ==
  ASSUME \A i \in Orders : OrderFixed(i) /\ TicketsFixed(i)
  PROVE  \A ch : SoldPlaces(ch)' = SoldPlaces(ch)
<1>1. SoldOf' = SoldOf
  BY DEF SoldOf, OrderFixed, TicketsFixed
<1>2. \A ch : OrdersOf(ch)' = OrdersOf(ch)
  BY DEF OrdersOf, OrderFixed
<1> QED
  BY <1>1, <1>2 DEF SoldPlaces

\* A step that changes no order's tickets and no sold counter.
LEMMA BooksStay ==
  ASSUME TypeOK, TypeOK', TasksShaped, Books,
         \A i \in Orders : OrderFixed(i) /\ TicketsFixed(i),
         \A ch \in Channels : pool'[ch].sold = pool[ch].sold,
         \A v \in Workers : task'[v].op \in {"refund", "void"} => task'[v] = task[v]
  PROVE  Books'
<1>1. \A ch : SoldPlaces(ch)' = SoldPlaces(ch)
  BY SoldStay
<1>2. \A v \in Workers : task[v].op \in {"refund", "void"} => task[v].order \in Orders
  BY TaskOrders DEF OrderOps
<1>3. \A o \in Orders : TicketRow(o)'
  BY DEF Books, TicketRow, TicketsFixed
<1>4. \A v \in Workers : RestoreRow(v)'
  BY <1>2 DEF Books, RestoreRow, TicketsFixed
<1>5. RestoreAlone'
  BY DEF Books, RestoreAlone
<1> QED
  BY <1>1, <1>3, <1>4, <1>5 DEF Books

LEMMA NoNewRestore ==
  ASSUME TypeOK, NEW w \in Workers, NEW t, Become(w, t), t.op \notin {"refund", "void"}
  PROVE  \A v \in Workers : task'[v].op \in {"refund", "void"} => task'[v] = task[v]
  BY DEF TypeOK, Become

LEMMA FinishRestore ==
  ASSUME TypeOK, NEW w \in Workers, Finish(w)
  PROVE  \A v \in Workers : task'[v].op \in {"refund", "void"} => task'[v] = task[v]
  BY NoNewRestore DEF Finish, Idle

\* A step that makes a row, or changes the tickets of one: the counter of its channel moves
\* by as much.
LEMMA BooksMove ==
  ASSUME TypeOK, TypeOK', TasksShaped, Books, NEW o \in Orders,
         \A i \in Orders : i # o => OrderFixed(i) /\ TicketsFixed(i),
         TicketRow(o)',
         \A v \in Workers : task'[v].op \in {"refund", "void"} =>
            task'[v] = task[v] /\ task[v].order # o,
         \A ch \in Channels :
            pool'[ch].sold = pool[ch].sold - (IF order[o].channel = ch THEN SoldOf[o] ELSE 0)
                                           + (IF order'[o].channel = ch THEN SoldOf'[o] ELSE 0)
  PROVE  Books'
<1>1. \A ch : SoldPlaces(ch)' = SoldPlaces(ch) - (IF order[o].channel = ch THEN SoldOf[o] ELSE 0)
                                               + (IF order'[o].channel = ch THEN SoldOf'[o] ELSE 0)
  BY SoldAfter
<1>2. \A v \in Workers : task[v].op \in {"refund", "void"} => task[v].order \in Orders
  BY TaskOrders DEF OrderOps
<1>3. \A i \in Orders : TicketRow(i)'
  BY DEF Books, TicketRow, TicketsFixed
<1>4. \A v \in Workers : RestoreRow(v)'
  BY <1>2 DEF Books, RestoreRow, TicketsFixed
<1>5. RestoreAlone'
  BY DEF Books, RestoreAlone
<1>6. \A ch \in Channels : pool'[ch].sold = SoldPlaces(ch)'
  BY <1>1 DEF Books
<1> QED
  BY <1>3, <1>4, <1>6, <1>5 DEF Books

LEMMA OrdersFixed == UNCHANGED order => \A i \in Orders : OrderFixed(i) /\ TicketsFixed(i)
  BY DEF OrderFixed, TicketsFixed

\* Releasing and reserving move the held counter only.
LEMMA ReleaseSold ==
  ASSUME TypeOK, NEW w \in Workers, NEW next, ReleaseSeen(w, next)
  PROVE  \A ch \in Channels : pool'[ch].sold = pool[ch].sold
  BY DEF TypeOK, ReleaseSeen

LEMMA HeldSold ==
  ASSUME TypeOK, NEW c \in Channels, NEW n, pool' = [pool EXCEPT ![c].held = n]
  PROVE  \A ch \in Channels : pool'[ch].sold = pool[ch].sold
  BY DEF TypeOK

LEMMA PoolStays == UNCHANGED pool => \A ch \in Channels : pool'[ch].sold = pool[ch].sold
  OBVIOUS

\* The steps of the cart, of a sweep and of time leave the tickets of orders alone.
LEMMA QuietBooks ==
  ASSUME TypeOK, TypeOK', TasksShaped, Books,
         \/ \E w \in Workers : CartStep(w) \/ SweepStep(w) \/ GiveUp(w)
         \/ \E h \in Holds : LapseHold(h)
         \/ \E c \in Carts : LapseCart(c)
         \/ UNCHANGED vars
  PROVE  Books'
<1>1. UNCHANGED order
  <2>1. ASSUME NEW w \in Workers, CartStep(w)
        PROVE  UNCHANGED order
    BY <2>1 DEF CartStep, AddRead, AddCommit, RemoveRead, RemoveCommit, RenewRead, RenewCommit,
                RenewReopen
  <2>2. ASSUME NEW w \in Workers, SweepStep(w)
        PROVE  UNCHANGED order
    BY <2>2 DEF SweepStep, SweepRead, SweepExpire, SweepTally, SweepCompare, SweepRepair
  <2> QED
    BY <2>1, <2>2 DEF GiveUp, LapseHold, LapseCart, vars
<1>2. \A ch \in Channels : pool'[ch].sold = pool[ch].sold
  <2>1. ASSUME NEW w \in Workers, CartStep(w)
        PROVE  \A ch \in Channels : pool'[ch].sold = pool[ch].sold
    <3>1. ASSUME NEW c \in Carts, NEW k \in Kinds, AddCommit(w, c, k)
          PROVE  \A ch \in Channels : pool'[ch].sold = pool[ch].sold
      <4>1. "online" \in Channels
        BY DEF Channels
      <4> QED
        BY <3>1, <4>1, HeldSold DEF AddCommit
    <3>2. CASE RemoveCommit(w) \/ RenewCommit(w)
      BY <3>2, ReleaseSold DEF RemoveCommit, RenewCommit
    <3>3. UNCHANGED pool => \A ch \in Channels : pool'[ch].sold = pool[ch].sold
      OBVIOUS
    <3> QED
      BY <2>1, <3>1, <3>2, <3>3 DEF CartStep, AddRead, RemoveRead, RenewRead, RenewReopen
  <2>2. ASSUME NEW w \in Workers, SweepStep(w)
        PROVE  \A ch \in Channels : pool'[ch].sold = pool[ch].sold
    <3>1. ASSUME NEW c \in Channels, SweepRepair(w, c)
          PROVE  \A ch \in Channels : pool'[ch].sold = pool[ch].sold
      BY <3>1, HeldSold DEF SweepRepair
    <3>2. CASE SweepExpire(w)
      BY <3>2, ReleaseSold DEF SweepExpire
    <3>3. UNCHANGED pool => \A ch \in Channels : pool'[ch].sold = pool[ch].sold
      OBVIOUS
    <3> QED
      BY <2>2, <3>1, <3>2, <3>3 DEF SweepStep, SweepRead, SweepTally, SweepCompare
  <2>3. UNCHANGED pool => \A ch \in Channels : pool'[ch].sold = pool[ch].sold
    OBVIOUS
  <2> QED
    BY <2>1, <2>2, <2>3 DEF GiveUp, LapseHold, LapseCart, vars
<1>3. \A v \in Workers : task'[v].op \in {"refund", "void"} => task'[v] = task[v]
  <2>0. \A w \in Workers : task[w] \in Task
    BY DEF TypeOK
  <2>1. ASSUME NEW w \in Workers, CartStep(w)
        PROVE  \A v \in Workers : task'[v].op \in {"refund", "void"} => task'[v] = task[v]
    <3>1. ASSUME NEW c \in Carts, NEW k \in Kinds, NEW q \in 1..MaxQty, AddRead(w, c, k, q)
          PROVE  \A v \in Workers : task'[v].op \in {"refund", "void"} => task'[v] = task[v]
      BY <3>1, NoNewRestore DEF AddRead, Idle
    <3>2. ASSUME NEW c \in Carts, NEW k \in Kinds, RemoveRead(w, c, k)
          PROVE  \A v \in Workers : task'[v].op \in {"refund", "void"} => task'[v] = task[v]
      BY <3>2, NoNewRestore DEF RemoveRead, Idle
    <3>3. ASSUME NEW c \in Carts, RenewRead(w, c)
          PROVE  \A v \in Workers : task'[v].op \in {"refund", "void"} => task'[v] = task[v]
      BY <3>3, NoNewRestore DEF RenewRead, Idle
    <3>4. CASE RenewCommit(w)
      BY <3>4, NoNewRestore DEF RenewCommit, Idle
    <3>5. Finish(w) => \A v \in Workers : task'[v].op \in {"refund", "void"} => task'[v] = task[v]
      BY FinishRestore
    <3> QED
      BY <2>1, <3>1, <3>2, <3>3, <3>4, <3>5 DEF CartStep, AddCommit, RemoveCommit, RenewReopen
  <2>2. ASSUME NEW w \in Workers, SweepStep(w)
        PROVE  \A v \in Workers : task'[v].op \in {"refund", "void"} => task'[v] = task[v]
    <3>1. CASE SweepRead(w)
      BY <3>1, NoNewRestore DEF SweepRead, Idle
    <3>2. CASE SweepExpire(w)
      BY <3>2, NoNewRestore DEF SweepExpire, Idle
    <3>3. CASE SweepTally(w)
      BY <2>0, <3>3, NoNewRestore DEF SweepTally, Task
    <3>4. CASE SweepCompare(w)
      BY <2>0, <3>4, NoNewRestore DEF SweepCompare, Task, Idle
    <3>5. ASSUME NEW ch \in Channels, SweepRepair(w, ch)
          PROVE  \A v \in Workers : task'[v].op \in {"refund", "void"} => task'[v] = task[v]
      BY <2>0, <3>5, NoNewRestore DEF SweepRepair, Task, Is, Idle
    <3> QED
      BY <2>2, <3>1, <3>2, <3>3, <3>4, <3>5 DEF SweepStep
  <2>3. \A w \in Workers : GiveUp(w) =>
           \A v \in Workers : task'[v].op \in {"refund", "void"} => task'[v] = task[v]
    BY FinishRestore DEF GiveUp
  <2> QED
    BY <2>1, <2>2, <2>3 DEF LapseHold, LapseCart, vars
<1> QED
  BY <1>1, <1>2, <1>3, OrdersFixed, BooksStay

\* A row that does not exist yet has sold nothing and nobody gives its tickets back.
LEMMA NewRow ==
  ASSUME TypeOK, RowsExist, TasksShaped, Books, NEW o \in Orders, order[o].pay = "none"
  PROVE  /\ SoldOf[o] = 0
         /\ \A v \in Workers : task[v].op \in {"refund", "void"} => task[v].order # o
<1>1. order[o] = NoOrder
  BY DEF RowsExist, OrderRow
<1>2. ~order[o].issued /\ ~order[o].cash
  BY <1>1 DEF NoOrder
<1> QED
  BY <1>2 DEF SoldOf, Books, RestoreRow

\* Checkout makes an order that has taken nothing yet.
LEMMA CheckoutStepBooks ==
  ASSUME TypeOK, TypeOK', RowsExist, TasksShaped, Books, NEW w \in Workers, CheckoutStep(w)
  PROVE  Books'
<1>1. ASSUME NEW c \in Carts, CheckoutRead(w, c)
      PROVE  Books'
  <2>1. \A v \in Workers : task'[v].op \in {"refund", "void"} => task'[v] = task[v]
    BY <1>1, NoNewRestore DEF CheckoutRead, Idle
  <2> QED
    BY <1>1, <2>1, PoolStays, OrdersFixed, BooksStay DEF CheckoutRead
<1>2. ASSUME NEW o \in Orders, CheckoutCommit(w, o)
      PROVE  Books'
  <2> DEFINE r == [NoOrder EXCEPT !.pay = "pending", !.cart = task[w].cart,
                                  !.qty = Places(Seen(w), task[w].seen)]
  <2>1. /\ order' = [order EXCEPT ![o] = r] /\ order[o].pay = "none" /\ UNCHANGED pool
    BY <1>2 DEF CheckoutCommit
  <2>2. order'[o] = r /\ \A i \in Orders : i # o => order'[i] = order[i]
    BY <2>1, OrderMade
  <2>3. ~r.issued /\ ~r.cash /\ r.tickets = 0
    BY DEF NoOrder
  <2> HIDE DEF r
  <2>4. \A v \in Workers : task'[v].op \in {"refund", "void"} => task'[v] = task[v]
    BY <1>2, NoNewRestore DEF CheckoutCommit, Idle
  <2>5. SoldOf[o] = 0 /\ SoldOf'[o] = 0
    BY <2>1, <2>2, <2>3, NewRow DEF SoldOf
  <2>6. \A v \in Workers : task'[v].op \in {"refund", "void"} =>
           task'[v] = task[v] /\ task[v].order # o
    BY <2>1, <2>4, NewRow
  <2>7. \A i \in Orders : i # o => OrderFixed(i) /\ TicketsFixed(i)
    BY <2>2 DEF OrderFixed, TicketsFixed
  <2>8. TicketRow(o)'
    BY <2>2, <2>3 DEF TicketRow
  <2>9. \A ch \in Channels :
           pool'[ch].sold = pool[ch].sold - (IF order[o].channel = ch THEN SoldOf[o] ELSE 0)
                                          + (IF order'[o].channel = ch THEN SoldOf'[o] ELSE 0)
    <3>1. \A ch \in Channels : pool[ch].sold \in Nat /\ pool'[ch].sold = pool[ch].sold
      BY <2>1 DEF TypeOK
    <3> QED
      BY <2>5, <3>1
  <2> QED
    BY <2>6, <2>7, <2>8, <2>9, BooksMove
<1>3. CASE PayStart(w)
  <2>1. \A i \in Orders : OrderFixed(i) /\ TicketsFixed(i)
    BY <1>3, PayStartKeeps
  <2> QED
    BY <1>3, <2>1, PoolStays, FinishRestore, BooksStay DEF PayStart
<1>4. CASE PayStartFails(w)
  <2>1. \A v \in Workers : task'[v].op \in {"refund", "void"} => task'[v] = task[v]
    BY <1>4, NoNewRestore DEF PayStartFails, TypeOK, Task
  <2> QED
    BY <1>4, <2>1, PoolStays, OrdersFixed, BooksStay DEF PayStartFails
<1>5. CASE CompensateCommit(w)
  <2>1. \A v \in Workers : task'[v].op \in {"refund", "void"} => task'[v] = task[v]
    BY <1>5, NoNewRestore DEF CompensateCommit, TypeOK, Task
  <2> QED
    BY <1>5, <2>1, ReleaseSold, OrdersFixed, BooksStay DEF CompensateCommit
<1>6. CASE CompensateClose(w)
  <2>1. PICK o \in Orders : o = task[w].order
    BY <1>6, TaskOrders DEF CompensateClose, Is, OrderOps
  <2>2. order' = [order EXCEPT ![o].pay = "canceled"]
    BY <1>6, <2>1 DEF CompensateClose
  <2>3. \A i \in Orders : OrderFixed(i) /\ TicketsFixed(i)
    BY <2>2, PayKeeps
  <2> QED
    BY <1>6, <2>3, PoolStays, FinishRestore, BooksStay DEF CompensateClose
<1> QED
  BY <1>1, <1>2, <1>3, <1>4, <1>5, <1>6 DEF CheckoutStep

\* A request that gives tickets back has read how many the order has, and is the only one.
LEMMA RestoreReads ==
  ASSUME TypeOK, TypeOK', TasksShaped, Books, Orderly, NEW w \in Workers, NEW o \in Orders,
         RefundRead(w, o) \/ VoidRead(w, o)
  PROVE  Books'
<1>1. PICK t : /\ Become(w, t) /\ t.op \in {"refund", "void"} /\ t.order = o
               /\ t.qty = order[o].tickets
  <2>1. CASE RefundRead(w, o)
    <3> DEFINE t == [Idle EXCEPT !.op = "refund", !.order = o, !.qty = order[o].tickets]
    <3>1. Become(w, t) /\ t.op = "refund" /\ t.order = o /\ t.qty = order[o].tickets
      BY <2>1 DEF RefundRead, Idle
    <3> HIDE DEF t
    <3> QED
      BY <3>1
  <2>2. CASE VoidRead(w, o)
    <3> DEFINE t == [Idle EXCEPT !.op = "void", !.order = o,
                                 !.qty = order[o].tickets + order[o].cancelled]
    <3>1. Become(w, t) /\ t.op = "void" /\ t.order = o
          /\ t.qty = order[o].tickets + order[o].cancelled
      BY <2>2 DEF VoidRead, Idle
    <3>2. order[o].cancelled = 0 /\ order[o].tickets \in Nat
      BY <2>2 DEF VoidRead, Orderly, TypeOK, Order
    <3> HIDE DEF t
    <3> QED
      BY <3>1, <3>2
  <2> QED
    BY <2>1, <2>2
<1>2. task'[w] = t /\ \A v \in Workers \ {w} : task'[v] = task[v]
  BY <1>1 DEF TypeOK, Become
<1>3. \A i \in Orders : OrderFixed(i) /\ TicketsFixed(i)
  <2>1. CASE RefundRead(w, o)
    BY <2>1, PayKeeps DEF RefundRead
  <2>2. CASE VoidRead(w, o)
    BY <2>2, OrdersFixed DEF VoidRead
  <2> QED
    BY <2>1, <2>2
<1>4. \A v \in Workers : task[v].op \in {"refund", "void"} => task[v].order # o
  BY DEF RefundRead, VoidRead, MayRestore, Orderly
<1>5. order[o].issued
  <2>1. order[o].tickets > 0 => order[o].tickets # 0
    OBVIOUS
  <2> QED
    BY <2>1 DEF RefundRead, VoidRead, Books, TicketRow
<1>6. \A v \in Workers : RestoreRow(v)'
  <2>1. \A v \in Workers : task[v].op \in {"refund", "void"} => task[v].order \in Orders
    BY TaskOrders DEF OrderOps
  <2> QED
    BY <1>1, <1>2, <1>3, <1>5, <2>1 DEF Books, RestoreRow, TicketsFixed
<1>7. RestoreAlone'
  BY <1>1, <1>2, <1>4 DEF Books, RestoreAlone
<1>8. \A i \in Orders : TicketRow(i)'
  BY <1>3 DEF Books, TicketRow, TicketsFixed
<1>9. \A ch \in Channels : pool'[ch].sold = SoldPlaces(ch)'
  <2>1. \A ch : SoldPlaces(ch)' = SoldPlaces(ch)
    BY <1>3, SoldStay
  <2> QED
    BY <2>1 DEF Books, RefundRead, VoidRead
<1> QED
  BY <1>6, <1>7, <1>8, <1>9 DEF Books

\* Giving the tickets of an order back takes from the sold counter what they took.
LEMMA RestoreCommitBooks ==
  ASSUME TypeOK, TypeOK', TasksShaped, Books, NEW w \in Workers, RestoreCommit(w)
  PROVE  Books'
<1>1. task[w].op \in {"refund", "void"} /\ Finish(w)
  BY DEF RestoreCommit
<1>2. PICK o \in Orders : o = task[w].order
  BY <1>1, TaskOrders DEF OrderOps
<1>3. order[o].issued /\ task[w].qty = order[o].tickets /\ order[o].tickets \in Nat
      /\ order[o].channel \in Channels
  BY <1>1, <1>2 DEF Books, RestoreRow, TypeOK, Order
<1>4. \A i \in Orders : i # o => OrderFixed(i) /\ TicketsFixed(i)
  BY <1>2, RestoreKeeps DEF OrderFixed, TicketsFixed
<1>5. order'[o].issued /\ order'[o].channel = order[o].channel /\ order'[o].tickets = 0
  <2>1. order'[o].issued /\ order'[o].channel = order[o].channel
    BY <1>2, <1>3, RestoreKeeps, Zenon DEF OrderFixed
  <2>2. order'[o].tickets = 0
    BY <1>2 DEF RestoreCommit, TypeOK, Order
  <2> QED
    BY <2>1, <2>2
<1>6. SoldOf[o] = order[o].tickets /\ SoldOf'[o] = 0
  BY <1>3, <1>5 DEF SoldOf
<1>7. ASSUME NEW v \in Workers, task'[v].op \in {"refund", "void"}
      PROVE  task'[v] = task[v] /\ task[v].order # o
  <2>1. task'[v] = task[v]
    BY <1>1, <1>7, FinishRestore
  <2>2. v # w
    BY <1>1, <1>7 DEF TypeOK, Finish, Become, Idle
  <2> QED
    BY <1>1, <1>2, <1>7, <2>1, <2>2 DEF Books, RestoreAlone
<1>8. \A ch \in Channels :
         pool'[ch].sold = pool[ch].sold - (IF order[o].channel = ch THEN SoldOf[o] ELSE 0)
                                        + (IF order'[o].channel = ch THEN SoldOf'[o] ELSE 0)
  <2>1. \A ch \in Channels :
           pool'[ch].sold = IF order[o].channel = ch THEN AtLeastZero(pool[ch].sold - order[o].tickets)
                                                     ELSE pool[ch].sold
    BY <1>2, <1>3 DEF RestoreCommit, RestoreChannel, TypeOK
  <2>2. \A ch \in Channels : pool[ch].sold \in Nat
    BY DEF TypeOK
  <2>3. \A ch \in Channels : order[o].channel = ch => order[o].tickets <= pool[ch].sold
    BY <1>4, <1>6, SoldAfter DEF Books
  <2> QED
    BY <1>3, <1>5, <1>6, <2>1, <2>2, <2>3 DEF AtLeastZero
<1>9. TicketRow(o)'
  BY <1>5 DEF TicketRow
<1> QED
  BY <1>4, <1>7, <1>8, <1>9, BooksMove

\* Payment events: a failed payment has taken nothing.
LEMMA PaymentStepBooks ==
  ASSUME TypeOK, TypeOK', TasksShaped, Books, Orderly, NEW w \in Workers, PaymentStep(w)
  PROVE  Books'
<1>1. ASSUME NEW o \in Orders, PaymentFails(w, o)
      PROVE  Books'
  <2>1. \A v \in Workers : task'[v].op \in {"refund", "void"} => task'[v] = task[v]
    BY <1>1, NoNewRestore DEF PaymentFails, Idle
  <2>2. \A i \in Orders : OrderFixed(i) /\ TicketsFixed(i)
    BY <1>1, PayKeeps DEF PaymentFails
  <2> QED
    BY <1>1, <2>1, <2>2, PoolStays, BooksStay DEF PaymentFails
<1>2. ASSUME NEW o \in Orders, ManualRelease(w, o)
      PROVE  Books'
  BY <1>2 DEF ManualRelease, Orderly
<1>3. CASE ReleaseCommit(w)
  BY <1>3, ReleaseSold, OrdersFixed, FinishRestore, BooksStay DEF ReleaseCommit
<1> QED
  BY <1>1, <1>2, <1>3, RestoreReads, RestoreCommitBooks DEF PaymentStep

\* A cash sale takes its places at once.
LEMMA BoxSaleBooks ==
  ASSUME TypeOK, TypeOK', RowsExist, TasksShaped, Books, NEW o \in Orders,
         NEW q \in 1..MaxQty, BoxSale(o, q)
  PROVE  Books'
<1> DEFINE r == [NoOrder EXCEPT !.pay = "paid", !.channel = "box_office",
                                !.cash = TRUE, !.qty = q, !.payRow = TRUE]
<1>1. order' = [order EXCEPT ![o] = r] /\ order[o].pay = "none" /\ UNCHANGED task
      /\ pool' = [pool EXCEPT !["box_office"].sold = @ + q]
  BY DEF BoxSale
<1>2. order'[o] = r /\ \A i \in Orders : i # o => order'[i] = order[i]
  BY <1>1, OrderMade
<1>3. ~r.issued /\ r.cash /\ r.tickets = 0 /\ r.qty = q /\ r.channel = "box_office" /\ q \in Nat
  BY ConstantsAssumption DEF NoOrder
<1> HIDE DEF r
<1>4. SoldOf[o] = 0 /\ SoldOf'[o] = q
  BY <1>1, <1>2, <1>3, NewRow DEF SoldOf
<1>5. \A v \in Workers : task'[v].op \in {"refund", "void"} =>
         task'[v] = task[v] /\ task[v].order # o
  BY <1>1, NewRow
<1>6. \A i \in Orders : i # o => OrderFixed(i) /\ TicketsFixed(i)
  BY <1>2 DEF OrderFixed, TicketsFixed
<1>7. TicketRow(o)'
  BY <1>2, <1>3 DEF TicketRow
<1>8. \A ch \in Channels :
         pool'[ch].sold = pool[ch].sold - (IF order[o].channel = ch THEN SoldOf[o] ELSE 0)
                                        + (IF order'[o].channel = ch THEN SoldOf'[o] ELSE 0)
  <2>1. \A ch \in Channels : /\ pool[ch].sold \in Nat
                             /\ pool'[ch].sold = IF ch = "box_office" THEN pool[ch].sold + q
                                                                     ELSE pool[ch].sold
    BY <1>1 DEF TypeOK
  <2> QED
    BY <1>2, <1>3, <1>4, <2>1
<1> QED
  BY <1>5, <1>6, <1>7, <1>8, BooksMove

\* A Tap to Pay sale holds its places first.
LEMMA TapSaleBooks ==
  ASSUME TypeOK, TypeOK', RowsExist, TasksShaped, Books, NEW o \in Orders,
         NEW q \in 1..MaxQty, TapSale(o, q)
  PROVE  Books'
<1> DEFINE r == [NoOrder EXCEPT !.pay = "pending", !.qty = q,
                                !.channel = "box_office", !.payRow = TRUE]
<1>1. order' = [order EXCEPT ![o] = r] /\ order[o].pay = "none" /\ UNCHANGED task
      /\ pool' = [pool EXCEPT !["box_office"].held = @ + q]
  BY DEF TapSale
<1>2. order'[o] = r /\ \A i \in Orders : i # o => order'[i] = order[i]
  BY <1>1, OrderMade
<1>3. ~r.issued /\ ~r.cash /\ r.tickets = 0
  BY DEF NoOrder
<1> HIDE DEF r
<1>4. SoldOf[o] = 0 /\ SoldOf'[o] = 0
  BY <1>1, <1>2, <1>3, NewRow DEF SoldOf
<1>5. \A v \in Workers : task'[v].op \in {"refund", "void"} =>
         task'[v] = task[v] /\ task[v].order # o
  BY <1>1, NewRow
<1>6. \A i \in Orders : i # o => OrderFixed(i) /\ TicketsFixed(i)
  BY <1>2 DEF OrderFixed, TicketsFixed
<1>7. TicketRow(o)'
  BY <1>2, <1>3 DEF TicketRow
<1>8. \A ch \in Channels :
         pool'[ch].sold = pool[ch].sold - (IF order[o].channel = ch THEN SoldOf[o] ELSE 0)
                                        + (IF order'[o].channel = ch THEN SoldOf'[o] ELSE 0)
  <2>1. \A ch \in Channels : pool[ch].sold \in Nat /\ pool'[ch].sold = pool[ch].sold
    BY <1>1 DEF TypeOK
  <2> QED
    BY <1>4, <2>1
<1> QED
  BY <1>5, <1>6, <1>7, <1>8, BooksMove

\* Fulfilment mints a ticket for every place the order holds, or has sold already.
LEMMA FulfilBooks ==
  ASSUME Bindings, TypeOK', Origins, Backing, Books, Orderly, NEW o \in Orders, Fulfil(o)
  PROVE  Books'
<1>0. TypeOK /\ RowsExist /\ TasksShaped /\ Agreement
  BY DEF Bindings
<1>1. /\ order[o].pay = "paid" /\ order[o].payRow /\ ~order[o].issued
      /\ ConsumeHolds(OrderHolds(o)) /\ UNCHANGED task
  BY DEF Fulfil
<1> DEFINE S == OrderHolds(o)
           c == order[o].channel
<1>2. S = {h \in HeldHolds : hold[h].order = o}
  BY <1>0, <1>1, OrderHoldsOwned DEF Agreement
<1>3. \A h \in S : hold[h].channel = c /\ ~order[o].cash
  <2>1. o # None
    BY <1>0, References
  <2> QED
    BY <1>2, <2>1 DEF Origins, HeldHolds
<1>4. order[o].qty \in Nat /\ c \in Channels
  BY <1>0 DEF TypeOK, Order
<1>5. order'[o].issued /\ order'[o].tickets = order[o].qty
  <2>1. order \in [Orders -> Order]
    BY <1>0 DEF TypeOK
  <2>2. order' = [order EXCEPT ![o] = [order[o] EXCEPT !.issued = TRUE,
                                          !.tickets = order[o].qty * TicketsPerPlace]]
    BY Zenon DEF Fulfil
  <2>3. order'[o] = [order[o] EXCEPT !.issued = TRUE, !.tickets = order[o].qty * TicketsPerPlace]
    BY <2>1, <2>2
  <2>4. order[o].qty * TicketsPerPlace = order[o].qty
    BY <1>4 DEF Orderly
  <2>5. order'[o].issued /\ order'[o].tickets = order[o].qty * TicketsPerPlace
    BY <2>1, <2>3 DEF Order
  <2> QED
    BY <2>4, <2>5
<1>6. \A i \in Orders : OrderFixed(i) /\ (i # o => TicketsFixed(i))
  BY <1>0, FulfilKeeps DEF TicketsFixed
<1>7. SoldOf[o] = (IF order[o].cash THEN order[o].qty ELSE 0) /\ SoldOf'[o] = order[o].qty
  BY <1>1, <1>5 DEF SoldOf
<1>8. \A v \in Workers : task'[v].op \in {"refund", "void"} =>
         task'[v] = task[v] /\ task[v].order # o
  BY <1>1 DEF Books, RestoreRow
<1>9. ASSUME NEW ch \in Channels
      PROVE  Places(On(ch, S), HoldQty) =
                 IF ch = c /\ ~order[o].cash THEN order[o].qty ELSE 0
  <2>1. CASE order[o].cash
    <3>1. On(ch, S) = {}
      BY <1>3, <2>1 DEF On
    <3> QED
      BY <2>1, <3>1, PlacesNone
  <2>2. CASE ch # c
    <3>1. On(ch, S) = {}
      BY <1>3, <2>2 DEF On
    <3> QED
      BY <2>2, <3>1, PlacesNone
  <2>3. CASE ch = c /\ ~order[o].cash
    <3>1. On(ch, S) = {h \in HeldHolds : hold[h].order = o}
      BY <1>2, <1>3, <2>3 DEF On
    <3>2. Places(On(ch, S), HoldQty) = BoundPlaces(o)
      BY <3>1, Zenon DEF BoundPlaces
    <3>3. Backed(o)
      BY <1>1, <2>3 DEF Backed, Orderly
    <3> QED
      BY <2>3, <3>2, <3>3 DEF Backing, AllBacked
  <2> QED
    BY <2>1, <2>2, <2>3
<1>10. \A ch \in Channels : /\ pool[ch].sold \in Nat
                            /\ pool'[ch].sold = pool[ch].sold + Places(On(ch, S), HoldQty)
  BY <1>0, <1>1 DEF TypeOK, ConsumeHolds
<1> HIDE DEF S
<1>11. \A ch \in Channels :
          pool'[ch].sold = pool[ch].sold - (IF order[o].channel = ch THEN SoldOf[o] ELSE 0)
                                         + (IF order'[o].channel = ch THEN SoldOf'[o] ELSE 0)
  <2>1. order'[o].channel = c
    BY <1>6 DEF OrderFixed
  <2> QED
    BY <1>4, <1>7, <1>9, <1>10, <2>1
<1>12. TicketRow(o)'
  BY <1>5 DEF TicketRow
<1> QED
  BY <1>0, <1>6, <1>8, <1>11, <1>12, BooksMove

\* Every step keeps the books.
LEMMA StepBooks ==
  ASSUME Bindings, Bindings', Origins, Backing, Books, Orderly, [Next]_vars
  PROVE  Books'
<1>0. TypeOK /\ TypeOK' /\ RowsExist /\ TasksShaped
  BY DEF Bindings
<1>1. ASSUME NEW o \in Orders, PaymentSucceeds(o)
      PROVE  Books'
  <2>1. \A i \in Orders : OrderFixed(i) /\ TicketsFixed(i)
    BY <1>0, <1>1, PayKeeps DEF PaymentSucceeds
  <2> QED
    BY <1>0, <1>1, <2>1, PoolStays, BooksStay DEF PaymentSucceeds
<1>2. ASSUME NEW w \in Workers, CartStep(w) \/ SweepStep(w) \/ GiveUp(w)
      PROVE  Books'
  BY <1>0, <1>2, QuietBooks
<1>3. CASE (\E h \in Holds : LapseHold(h)) \/ (\E c \in Carts : LapseCart(c)) \/ UNCHANGED vars
  BY <1>0, <1>3, QuietBooks
<1> QED
  BY <1>0, <1>1, <1>2, <1>3, CheckoutStepBooks, PaymentStepBooks, BoxSaleBooks, TapSaleBooks,
     FulfilBooks DEF Next

LEMMA InitBooks == Init => Books
<1> SUFFICES ASSUME Init
             PROVE  Books
  OBVIOUS
<1>1. \A o \in Orders : SoldOf[o] = 0 /\ order[o].tickets = 0
  BY DEF Init, NoOrder, SoldOf
<1>2. \A ch : SoldPlaces(ch) = 0
  BY <1>1, PlacesZero DEF SoldPlaces, OrdersOf
<1>3. \A v \in Workers : task[v].op = "idle"
  BY DEF Init, Idle
<1>4. \A ch \in Channels : pool[ch].sold = 0
  BY DEF Init
<1> QED
  BY <1>1, <1>2, <1>3, <1>4 DEF Books, TicketRow, RestoreRow, RestoreAlone

LEMMA OrderlyUndisturbed == Orderly => Undisturbed
  BY DEF Orderly, Undisturbed

LEMMA BooksHold == Orderly => (Spec => []Books)
<1> SUFFICES ASSUME Orderly
             PROVE  Spec => []Books
  OBVIOUS
<1>1. Undisturbed
  BY OrderlyUndisturbed
<1>2. Bindings /\ Bindings' /\ Origins /\ Backing /\ Books /\ [Next]_vars => Books'
  BY StepBooks
<1> QED
  BY <1>1, <1>2, InitBooks, BindingsHold, OriginsHold, BackingHolds, PTL DEF Spec

\* The sold counters of the two channels are the places that all orders have taken.
LEMMA SoldAddsUp ==
  ASSUME TypeOK, Books
  PROVE  pool["online"].sold + pool["box_office"].sold = Places(Orders, SoldOf)
<1> DEFINE S == OrdersOf("online")
           T == OrdersOf("box_office")
<1>1. Orders = S \cup T /\ S \cap T = {}
  BY DEF OrdersOf, TypeOK, Order, Channels
<1>2. IsFiniteSet(S) /\ IsFiniteSet(T) /\ \A o \in S \cup T : SoldOf[o] \in Nat
  BY <1>1, OrdersCounted
<1>3. pool["online"].sold = Places(S, SoldOf) /\ pool["box_office"].sold = Places(T, SoldOf)
  BY DEF Books, SoldPlaces, Channels
<1> HIDE DEF S, T
<1>4. Places(S \cup T, SoldOf) = Places(S, SoldOf) + Places(T, SoldOf)
  BY <1>1, <1>2, PlacesAdd
<1> QED
  BY <1>1, <1>3, <1>4

\* An order that is not a cash sale waiting for its tickets has taken what its tickets admit.
LEMMA TakenIsTickets ==
  ASSUME TypeOK, Books, Orderly
  PROVE  Places(Orders, SoldOf) = Admitting + UnissuedPlaces
<1> DEFINE U == Unissued
           R == Orders \ U
           admits == [o \in Orders |-> order[o].tickets \div TicketsPerPlace]
           places == [o \in Orders |-> order[o].qty]
<1>1. \A o \in Orders : /\ order[o].tickets \in Nat /\ order[o].qty \in Nat
                        /\ order[o].tickets \div TicketsPerPlace = order[o].tickets
  <2>1. \A o \in Orders : order[o].tickets \in Nat /\ order[o].qty \in Nat
    BY DEF TypeOK, Order
  <2>2. \A n \in Nat : n \div 1 = n
    OBVIOUS
  <2> QED
    BY <2>1, <2>2 DEF Orderly
<1>2. \A o \in R : SoldOf[o] = admits[o]
  BY <1>1 DEF Books, TicketRow, SoldOf, Unissued
<1>3. \A o \in U : SoldOf[o] = places[o] /\ admits[o] = 0
  BY <1>1 DEF Books, TicketRow, SoldOf, Unissued
<1>4. /\ Orders = R \cup U /\ R \cap U = {} /\ R \subseteq Orders /\ U \subseteq Orders
      /\ IsFiniteSet(R) /\ IsFiniteSet(U)
  <2>1. Orders = R \cup U /\ R \cap U = {} /\ R \subseteq Orders /\ U \subseteq Orders
    BY DEF Unissued
  <2> QED
    BY <2>1, ConstantsAssumption, FS_Subset
<1>5. \A o \in Orders : SoldOf[o] \in Nat /\ admits[o] \in Nat /\ places[o] \in Nat
  BY <1>1, OrdersCounted
<1>6. Admitting = Places(Orders, admits) /\ UnissuedPlaces = Places(U, places)
  BY Zenon DEF Admitting, UnissuedPlaces
<1> HIDE DEF R, U, admits, places
<1>7. Places(R \cup U, SoldOf) = Places(R, SoldOf) + Places(U, SoldOf)
  BY <1>4, <1>5, PlacesAdd
<1>8. Places(R \cup U, admits) = Places(R, admits) + Places(U, admits)
  BY <1>4, <1>5, PlacesAdd
<1>9. Places(R, SoldOf) = Places(R, admits)
  BY <1>2, PlacesSame
<1>10. Places(U, SoldOf) = Places(U, places)
  BY <1>3, PlacesSame
<1>11. Places(U, admits) = 0
  BY <1>3, PlacesZero
<1>12. Places(R, admits) \in Nat /\ Places(U, places) \in Nat
  BY <1>4, <1>5, PlacesType
<1> QED
  BY <1>4, <1>6, <1>7, <1>8, <1>9, <1>10, <1>11, <1>12

LEMMA BooksBalance ==
  ASSUME TypeOK, Books, Orderly
  PROVE  SoldIsTickets
  BY SoldAddsUp, TakenIsTickets DEF SoldIsTickets

\* The sold counters are exactly the places of tickets that admit somebody and of cash sales
\* about to be minted: fulfilment, refunds, disputes and voids of any number of orders move
\* both by the same number, in whatever order they come and whatever crashes in between.
THEOREM SoldTickets == Orderly => (Spec => []SoldIsTickets)
<1> SUFFICES ASSUME Orderly
             PROVE  Spec => []SoldIsTickets
  OBVIOUS
<1>1. TypeOK /\ Books => SoldIsTickets
  BY BooksBalance
<1> QED
  BY <1>1, TypeCorrect, BooksHold, PTL

\* The category is never oversold over its two channels.
THEOREM NotOversold == Orderly => (Spec => []NeverOversold)
<1> SUFFICES ASSUME Orderly
             PROVE  Spec => []NeverOversold
  OBVIOUS
<1>1. SoldIsTickets /\ WithinCapacity => NeverOversold
  BY DEF SoldIsTickets, WithinCapacity, NeverOversold
<1>2. Undisturbed
  BY OrderlyUndisturbed
<1> QED
  BY <1>1, <1>2, SoldTickets, PoolsFitCategory, PTL
==============================================================================
