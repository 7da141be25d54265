--------------------------- MODULE InventoryProofs ---------------------------
(***************************************************************************)
(* What holds of the inventory for every number of carts, lines, holds,    *)
(* orders and workers and for every capacity: the lemmas on counting       *)
(* places, the types, and that no sweep expires a hold an order owns.      *)
(***************************************************************************)
EXTENDS InventoryProps, FiniteSetTheorems, TLAPS

-----------------------------------------------------------------------------
(* Counting places. *)

\* The places of one row are finitely many, as many as its quantity says.
LEMMA PlacesOfOne ==
  ASSUME NEW x, NEW n \in Nat
  PROVE  IsFiniteSet({x} \X (1..n)) /\ Cardinality({x} \X (1..n)) = n
<1>1. IsFiniteSet({x}) /\ Cardinality({x}) = 1
  BY FS_Singleton
<1>2. IsFiniteSet(1..n) /\ Cardinality(1..n) = n
  BY FS_Interval
<1>3. /\ IsFiniteSet({x} \X (1..n))
      /\ Cardinality({x} \X (1..n)) = Cardinality({x}) * Cardinality(1..n)
  BY <1>1, <1>2, FS_Product
<1> QED
  BY <1>1, <1>2, <1>3

\* The places of finitely many rows are finitely many.
LEMMA PlacesFinite ==
  ASSUME NEW S, IsFiniteSet(S), NEW qty, \A x \in S : qty[x] \in Nat
  PROVE  IsFiniteSet(UNION {{x} \X (1..qty[x]) : x \in S})
<1> DEFINE T == {{x} \X (1..qty[x]) : x \in S}
           f == [x \in S |-> {x} \X (1..qty[x])]
<1>1. f \in Surjection(S, T)
  BY Zenon DEF Surjection
<1>2. IsFiniteSet(T)
  <2> HIDE DEF f, T
  <2> QED
    BY <1>1, FS_Surjection
<1>3. ASSUME NEW x \in S
      PROVE  IsFiniteSet({x} \X (1..qty[x]))
  BY PlacesOfOne
<1>4. \A t \in T : IsFiniteSet(t)
  BY <1>3, Zenon
<1> QED
  BY <1>2, <1>4, FS_UNION

\* Counting places yields a natural number.
LEMMA PlacesType ==
  ASSUME NEW S, IsFiniteSet(S), NEW qty, \A x \in S : qty[x] \in Nat
  PROVE  Places(S, qty) \in Nat
  BY PlacesFinite, FS_CardinalityType DEF Places

\* More rows, with more places each, have more places ...
LEMMA PlacesMonotone ==
  ASSUME NEW S, NEW T, IsFiniteSet(T), S \subseteq T,
         NEW q, NEW r, \A x \in S : q[x] \in Nat /\ q[x] <= r[x],
         \A x \in T : r[x] \in Nat
  PROVE  Places(S, q) <= Places(T, r)
<1> DEFINE A == UNION {{x} \X (1..q[x]) : x \in S}
           B == UNION {{x} \X (1..r[x]) : x \in T}
<1>1. A \subseteq B
  <2>1. ASSUME NEW x \in S
        PROVE  {x} \X (1..q[x]) \subseteq {x} \X (1..r[x])
    <3>1. 1..q[x] \subseteq 1..r[x]
      OBVIOUS
    <3> QED
      BY <3>1
  <2>2. ASSUME NEW p \in A
        PROVE  p \in B
    <3>1. PICK x \in S : p \in {x} \X (1..q[x])
      BY Zenon
    <3>2. x \in T /\ p \in {x} \X (1..r[x])
      BY <2>1, <3>1
    <3> QED
      BY <3>2, Zenon
  <2> QED
    BY <2>2
<1>2. IsFiniteSet(B)
  BY PlacesFinite
<1> HIDE DEF A, B
<1>3. Cardinality(A) <= Cardinality(B)
  BY <1>1, <1>2, FS_Subset
<1> QED
  BY <1>3 DEF Places, A, B

\* ... and the same rows with the same places as many.
LEMMA PlacesSame ==
  ASSUME NEW S, NEW q, NEW r, \A x \in S : q[x] = r[x]
  PROVE  Places(S, q) = Places(S, r)
<1>1. {{x} \X (1..q[x]) : x \in S} = {{x} \X (1..r[x]) : x \in S}
  BY Zenon
<1> QED
  BY <1>1, Zenon DEF Places

\* No row, no place.
LEMMA PlacesNone ==
  ASSUME NEW q
  PROVE  Places({}, q) = 0
<1>1. UNION {{x} \X (1..q[x]) : x \in {}} = {}
  OBVIOUS
<1> QED
  BY <1>1, FS_EmptySet, Zenon DEF Places

\* The places of two sets of rows add up.
LEMMA PlacesAdd ==
  ASSUME NEW S, NEW T, IsFiniteSet(S), IsFiniteSet(T), S \cap T = {},
         NEW q, \A x \in S \cup T : q[x] \in Nat
  PROVE  Places(S \cup T, q) = Places(S, q) + Places(T, q)
<1> DEFINE P(U) == UNION {{x} \X (1..q[x]) : x \in U}
<1>1. P(S \cup T) = P(S) \cup P(T)
  OBVIOUS
<1>2. P(S) \cap P(T) = {}
  <2> SUFFICES ASSUME NEW x \in S, NEW y \in T, NEW p \in {x} \X (1..q[x]),
                      p \in {y} \X (1..q[y])
               PROVE  FALSE
    BY Zenon
  <2>1. p[1] = x /\ p[1] = y
    BY SMT
  <2> QED
    BY <2>1
<1>3. IsFiniteSet(P(S)) /\ IsFiniteSet(P(T))
  BY PlacesFinite
<1> HIDE DEF P
<1>4. Cardinality(P(S) \cup P(T)) = Cardinality(P(S)) + Cardinality(P(T)) - Cardinality({})
  BY <1>2, <1>3, FS_Union
<1>5. Cardinality(P(S)) \in Nat /\ Cardinality(P(T)) \in Nat
  BY <1>3, FS_CardinalityType
<1>6. /\ Places(S \cup T, q) = Cardinality(P(S) \cup P(T))
      /\ Places(S, q) = Cardinality(P(S))
      /\ Places(T, q) = Cardinality(P(T))
  BY <1>1, Zenon DEF Places, P
<1> QED
  BY <1>4, <1>5, <1>6, FS_EmptySet

\* One row has the places its quantity says.
LEMMA PlacesOne ==
  ASSUME NEW x, NEW q, q[x] \in Nat
  PROVE  Places({x}, q) = q[x]
<1>1. UNION {{y} \X (1..q[y]) : y \in {x}} = {x} \X (1..q[x])
  BY Zenon
<1> QED
  BY <1>1, PlacesOfOne DEF Places

\* A row among others.
LEMMA PlacesWith ==
  ASSUME NEW S, IsFiniteSet(S), NEW x \in S, NEW q, \A y \in S : q[y] \in Nat
  PROVE  Places(S, q) = Places(S \ {x}, q) + q[x]
<1>1. S = (S \ {x}) \cup {x}
  OBVIOUS
<1>2. IsFiniteSet(S \ {x}) /\ IsFiniteSet({x})
  BY FS_Subset, FS_Singleton
<1>3. Places((S \ {x}) \cup {x}, q) = Places(S \ {x}, q) + Places({x}, q)
  BY <1>2, PlacesAdd
<1> QED
  BY <1>1, <1>3, PlacesOne

\* The holds of a set of rows are finitely many, and every row has a quantity, now and
\* when it was read.
LEMMA HoldsCounted ==
  ASSUME TypeOK, NEW S \in SUBSET Holds
  PROVE  /\ IsFiniteSet(S)
         /\ \A h \in S : HoldQty[h] \in Nat /\ HoldQty[h] = hold[h].qty
         /\ \A w \in Workers : \A h \in S : task[w].seen[h] \in Nat
<1>1. IsFiniteSet(S)
  BY ConstantsAssumption, FS_Subset
<1>2. \A h \in Holds : hold[h].qty \in Nat
  BY ConstantsAssumption DEF TypeOK, Hold
<1>3. \A w \in Workers : \A h \in Holds : task[w].seen[h] \in Nat
  BY ConstantsAssumption DEF TypeOK, Task
<1> QED
  BY <1>1, <1>2, <1>3 DEF HoldQty

\* The places held in a channel are a number.
LEMMA HeldPlacesType ==
  ASSUME TypeOK, NEW ch
  PROVE  HeldPlaces(ch) \in Nat
<1>1. On(ch, HeldHolds) \in SUBSET Holds
  BY DEF On, HeldHolds
<1> QED
  BY <1>1, HoldsCounted, PlacesType DEF HeldPlaces

-----------------------------------------------------------------------------
(* The helpers: what they return, and that they return something of its type. *)

\* Replacing one value of a function keeps its type, whether or not it is defined there.
LEMMA UpdateType ==
  ASSUME NEW S, NEW T, NEW f \in [S -> T], NEW x, NEW e, x \in S => e \in T
  PROVE  [f EXCEPT ![x] = e] \in [S -> T]
  BY Zenon

\* A floored counter is a natural number.
LEMMA FloorType == \A n \in Int : AtLeastZero(n) \in Nat
  BY DEF AtLeastZero

\* A snapshot of held holds records quantities that holds may have.
LEMMA ReadType ==
  ASSUME TypeOK, NEW S
  PROVE  Read(S) \in [Holds -> 0..MaxQty]
  BY ConstantsAssumption DEF TypeOK, Read, Hold, HeldHolds

\* A worker may always be without a task.
LEMMA IdleType == Idle \in Task
  BY ConstantsAssumption DEF Idle, Task, Ops, Nothing, Channels

\* Giving a worker a task keeps the tasks typed.
LEMMA BecomeType ==
  ASSUME TypeOK, NEW w \in Workers, NEW t \in Task, Become(w, t)
  PROVE  task' \in [Workers -> Task]
  BY DEF TypeOK, Become

\* Finishing a task keeps the tasks typed.
LEMMA FinishType ==
  ASSUME TypeOK, NEW w \in Workers, Finish(w)
  PROVE  task' \in [Workers -> Task]
  BY IdleType, BecomeType DEF Finish

\* releaseHeldQuantity keeps holds and pools typed.
LEMMA ReleaseType ==
  ASSUME TypeOK, NEW w \in Workers, NEW next \in HoldStatus, ReleaseSeen(w, next)
  PROVE  /\ hold' \in [Holds -> Hold]
         /\ pool' \in [Channels -> [sold: Nat, held: Nat]]
<1>1. hold' \in [Holds -> Hold]
  BY DEF TypeOK, ReleaseSeen, Hold
<1>2. ASSUME NEW ch \in Channels
      PROVE  AtLeastZero(pool[ch].held - Places(On(ch, Applied(w)), task[w].seen)) \in Nat
  <2>1. Places(On(ch, Applied(w)), task[w].seen) \in Nat
    <3>1. On(ch, Applied(w)) \in SUBSET Holds
      BY DEF On, Applied, Seen
    <3> QED
      BY <3>1, HoldsCounted, PlacesType
  <2>2. pool[ch].held \in Nat
    BY DEF TypeOK
  <2> QED
    BY <2>1, <2>2, FloorType
<1>3. pool' \in [Channels -> [sold: Nat, held: Nat]]
  BY <1>2 DEF TypeOK, ReleaseSeen
<1> QED
  BY <1>1, <1>3

\* Consuming holds keeps holds and pools typed.
LEMMA ConsumeType ==
  ASSUME TypeOK, NEW S \in SUBSET Holds, ConsumeHolds(S)
  PROVE  /\ hold' \in [Holds -> Hold]
         /\ pool' \in [Channels -> [sold: Nat, held: Nat]]
<1>1. hold' \in [Holds -> Hold]
  BY DEF TypeOK, ConsumeHolds, Hold, HoldStatus
<1>2. ASSUME NEW ch \in Channels
      PROVE  LET n == Places(On(ch, S), HoldQty) IN
             /\ pool[ch].sold + n \in Nat
             /\ AtLeastZero(pool[ch].held - n) \in Nat
  <2>1. Places(On(ch, S), HoldQty) \in Nat
    <3>1. On(ch, S) \in SUBSET Holds
      BY DEF On
    <3> QED
      BY <3>1, HoldsCounted, PlacesType
  <2>2. pool[ch].held \in Nat /\ pool[ch].sold \in Nat
    BY DEF TypeOK
  <2> QED
    BY <2>1, <2>2, FloorType
<1>3. pool' \in [Channels -> [sold: Nat, held: Nat]]
  BY <1>2 DEF TypeOK, ConsumeHolds
<1> QED
  BY <1>1, <1>3

\* An order row that does not exist is typed.
LEMMA NoOrderType == NoOrder \in Order
  BY DEF NoOrder, Order, PaymentStatus, Channels

\* Changing one field of an order keeps the orders typed.
LEMMA OrderFieldType ==
  ASSUME TypeOK, NEW o
  PROVE  /\ \A p \in PaymentStatus : [order EXCEPT ![o].pay = p] \in [Orders -> Order]
         /\ [order EXCEPT ![o].payRow = TRUE] \in [Orders -> Order]
<1>1. order \in [Orders -> Order]
  BY DEF TypeOK
<1>2. ASSUME NEW p \in PaymentStatus
      PROVE  [order EXCEPT ![o].pay = p] \in [Orders -> Order]
  <2>1. o \in Orders => [order[o] EXCEPT !.pay = p] \in Order
    BY <1>1, Zenon DEF Order
  <2>2. [order EXCEPT ![o].pay = p] = [order EXCEPT ![o] = [order[o] EXCEPT !.pay = p]]
    BY SMT
  <2> QED
    BY <1>1, <2>1, <2>2, UpdateType
<1>3. [order EXCEPT ![o].payRow = TRUE] \in [Orders -> Order]
  <2>1. o \in Orders => [order[o] EXCEPT !.payRow = TRUE] \in Order
    BY <1>1, Zenon DEF Order
  <2>2. [order EXCEPT ![o].payRow = TRUE] = [order EXCEPT ![o] = [order[o] EXCEPT !.payRow = TRUE]]
    BY SMT
  <2> QED
    BY <1>1, <2>1, <2>2, UpdateType
<1> QED
  BY <1>2, <1>3

\* An order whose tickets were taken back is typed.
LEMMA ClosedOrderType ==
  ASSUME NEW r \in Order, NEW n \in Nat, NEW b \in BOOLEAN
  PROVE  [r EXCEPT !.tickets = 0, !.cancelled = n, !.voided = b] \in Order
<1>1. 0 \in Nat
  OBVIOUS
<1> QED
  BY <1>1, Zenon DEF Order

\* Changing the status of a cart keeps the carts typed.
LEMMA CartStatusType ==
  ASSUME TypeOK, NEW c, NEW st \in {"open", "expired"}
  PROVE  [cart EXCEPT ![c].status = st] \in [Carts -> Cart]
<1>1. cart \in [Carts -> Cart]
  BY DEF TypeOK
<1>2. c \in Carts => [cart[c] EXCEPT !.status = st] \in Cart
  BY <1>1, Zenon DEF Cart
<1>3. [cart EXCEPT ![c].status = st] = [cart EXCEPT ![c] = [cart[c] EXCEPT !.status = st]]
  BY SMT
<1> QED
  BY <1>1, <1>2, <1>3, UpdateType

\* A reservation never holds more than MaxQty places on a new line ...
LEMMA NewLineType ==
  ASSUME TypeOK, NEW c \in Carts, NEW k \in Kinds, NEW q \in Nat, NEW h \in Holds,
         NewLine(c, k, q, h)
  PROVE  /\ hold' \in [Holds -> Hold]
         /\ cart' \in [Carts -> Cart]
<1>1. hold' \in [Holds -> Hold]
  <2>1. q \in 0..MaxQty
    BY ConstantsAssumption DEF NewLine
  <2>2. NoHold \in Hold
    BY ConstantsAssumption DEF NoHold, Hold, HoldStatus, Channels
  <2>3. [NoHold EXCEPT !.status = "held", !.qty = q] \in Hold
    BY <2>1, <2>2, Zenon DEF Hold, HoldStatus
  <2> QED
    BY <2>3, UpdateType DEF NewLine, TypeOK
<1>2. cart' \in [Carts -> Cart]
  <2>1. cart \in [Carts -> Cart]
    BY DEF TypeOK
  <2>2. [cart[c] EXCEPT !.lapsed = FALSE, !.line[k] = h, !.newest = h] \in Cart
    BY <2>1, Zenon DEF Cart
  <2> QED
    BY <2>1, <2>2, UpdateType DEF NewLine
<1> QED
  BY <1>1, <1>2

\* ... nor on one that grows.
LEMMA GrowLineType ==
  ASSUME TypeOK, NEW c \in Carts, NEW q \in Nat, NEW h \in Holds, GrowLine(c, q, h)
  PROVE  /\ hold' \in [Holds -> Hold]
         /\ cart' \in [Carts -> Cart]
<1>1. hold' \in [Holds -> Hold]
  <2>1. hold \in [Holds -> Hold]
    BY DEF TypeOK
  <2>2. hold[h].qty + q \in 0..MaxQty
    BY <2>1, ConstantsAssumption DEF GrowLine, Hold
  <2>3. [hold[h] EXCEPT !.qty = hold[h].qty + q, !.lapsed = FALSE] \in Hold
    BY <2>1, <2>2, Zenon DEF Hold
  <2>4. hold' = [hold EXCEPT ![h] = [hold[h] EXCEPT !.qty = hold[h].qty + q, !.lapsed = FALSE]]
    BY Zenon DEF GrowLine
  <2> QED
    BY <2>1, <2>3, <2>4, UpdateType
<1>2. cart' \in [Carts -> Cart]
  <2>1. cart \in [Carts -> Cart]
    BY DEF TypeOK
  <2>2. [cart[c] EXCEPT !.lapsed = FALSE, !.newest = h] \in Cart
    BY <2>1, Zenon DEF Cart
  <2> QED
    BY <2>1, <2>2, UpdateType DEF GrowLine
<1> QED
  BY <1>1, <1>2

-----------------------------------------------------------------------------
(* Type correctness. *)

\* The first states are typed.
LEMMA InitType == Init => TypeOK
  BY ConstantsAssumption, IdleType
  DEF Init, TypeOK, Channels, NoHold, Hold, HoldStatus, NoCart, Cart, NoOrder, Order,
      PaymentStatus

\* The steps of a cart request keep the state typed.
LEMMA CartStepType ==
  ASSUME TypeOK, NEW w \in Workers, CartStep(w)
  PROVE  TypeOK'
<1>1. ASSUME NEW c \in Carts, NEW k \in Kinds, NEW q \in 1..MaxQty, AddRead(w, c, k, q)
      PROVE  TypeOK'
  <2>1. q \in Nat
    OBVIOUS
  <2>2. [Idle EXCEPT !.op = "add", !.cart = c, !.kind = k, !.qty = q] \in Task
    BY <2>1, IdleType, Zenon DEF Task, Ops
  <2>3. task' \in [Workers -> Task]
    BY <1>1, <2>2, BecomeType DEF AddRead
  <2>4. cart' \in [Carts -> Cart]
    BY <1>1, CartStatusType DEF AddRead
  <2> QED
    BY <1>1, <2>3, <2>4 DEF AddRead, TypeOK
<1>2. ASSUME NEW c \in Carts, NEW k \in Kinds, AddCommit(w, c, k)
      PROVE  TypeOK'
  <2>1. task' \in [Workers -> Task]
    BY <1>2, FinishType DEF AddCommit
  <2>2. task[w].qty \in Nat
    BY DEF TypeOK, Task
  <2>3. pool' \in [Channels -> [sold: Nat, held: Nat]]
    <3>1. pool["online"] \in [sold: Nat, held: Nat]
      BY DEF TypeOK, Channels
    <3>2. pool["online"].held + task[w].qty \in Nat
      BY <2>2, <3>1
    <3>3. [pool["online"] EXCEPT !.held = pool["online"].held + task[w].qty]
            \in [sold: Nat, held: Nat]
      BY <3>1, <3>2, Zenon
    <3>4. pool' = [pool EXCEPT !["online"] =
                      [pool["online"] EXCEPT !.held = pool["online"].held + task[w].qty]]
      BY <1>2, SMT DEF AddCommit
    <3> QED
      BY <3>3, <3>4, UpdateType DEF TypeOK
  <2>4. CASE \E h \in Holds : NewLine(c, k, task[w].qty, h)
    <3>1. PICK h \in Holds : NewLine(c, k, task[w].qty, h)
      BY <2>4
    <3> QED
      BY <1>2, <2>1, <2>2, <2>3, <3>1, NewLineType DEF AddCommit, TypeOK
  <2>5. CASE cart[c].line[k] # None /\ GrowLine(c, task[w].qty, cart[c].line[k])
    <3>1. cart[c].line[k] \in Holds
      BY <2>5 DEF TypeOK, Cart
    <3> QED
      BY <1>2, <2>1, <2>2, <2>3, <2>5, <3>1, GrowLineType DEF AddCommit, TypeOK
  <2> QED
    BY <1>2, <2>4, <2>5 DEF AddCommit
<1>3. ASSUME NEW c \in Carts, NEW k \in Kinds, RemoveRead(w, c, k)
      PROVE  TypeOK'
  <2>1. Read({cart[c].line[k]}) \in [Holds -> 0..MaxQty]
    BY ReadType
  <2>2. cart[c].line[k] \in Holds \cup {None}
    BY DEF TypeOK, Cart
  <2>3. [Idle EXCEPT !.op = "remove", !.cart = c, !.kind = k, !.item = cart[c].line[k],
                     !.seen = Read({cart[c].line[k]})] \in Task
    BY <2>1, <2>2, IdleType, Zenon DEF Task, Ops
  <2>4. task' \in [Workers -> Task]
    BY <1>3, <2>3, BecomeType DEF RemoveRead
  <2> QED
    BY <1>3, <2>4 DEF RemoveRead, TypeOK
<1>4. CASE RemoveCommit(w)
  <2>1. task' \in [Workers -> Task]
    BY <1>4, FinishType DEF RemoveCommit
  <2>2. /\ hold' \in [Holds -> Hold]
        /\ pool' \in [Channels -> [sold: Nat, held: Nat]]
    BY <1>4, ReleaseType DEF RemoveCommit, HoldStatus
  <2>3. cart' \in [Carts -> Cart]
    <3> DEFINE c == task[w].cart
               k == task[w].kind
    <3>1. cart \in [Carts -> Cart]
      BY DEF TypeOK
    <3>2. c \in Carts => [cart[c].line EXCEPT ![k] = None] \in [Kinds -> Holds \cup {None}]
      <4>1. c \in Carts => cart[c].line \in [Kinds -> Holds \cup {None}]
        BY <3>1 DEF Cart
      <4> QED
        BY <4>1, UpdateType
    <3>3. c \in Carts => [cart[c] EXCEPT !.line = [cart[c].line EXCEPT ![k] = None]] \in Cart
      BY <3>1, <3>2, Zenon DEF Cart
    <3>4. cart' = [cart EXCEPT ![c] = [cart[c] EXCEPT !.line = [cart[c].line EXCEPT ![k] = None]]]
      BY <1>4, SMT DEF RemoveCommit
    <3> QED
      BY <3>1, <3>3, <3>4, UpdateType
  <2> QED
    BY <1>4, <2>1, <2>2, <2>3 DEF RemoveCommit, TypeOK
<1>5. ASSUME NEW c \in Carts, RenewRead(w, c)
      PROVE  TypeOK'
  <2>1. Read(LineHolds(c)) \in [Holds -> 0..MaxQty]
    BY ReadType
  <2>2. [Idle EXCEPT !.op = "renew", !.cart = c, !.seen = Read(LineHolds(c))] \in Task
    BY <2>1, IdleType, Zenon DEF Task, Ops
  <2>3. task' \in [Workers -> Task]
    BY <1>5, <2>2, BecomeType DEF RenewRead
  <2> QED
    BY <1>5, <2>3 DEF RenewRead, TypeOK
<1>6. CASE RenewCommit(w)
  <2>1. task[w].cart \in Carts \cup {None}
    BY DEF TypeOK, Task
  <2>2. [Idle EXCEPT !.op = "reopen", !.cart = task[w].cart] \in Task
    BY <2>1, IdleType, Zenon DEF Task, Ops
  <2>3. task' \in [Workers -> Task]
    BY <1>6, <2>2, BecomeType DEF RenewCommit
  <2>4. /\ hold' \in [Holds -> Hold]
        /\ pool' \in [Channels -> [sold: Nat, held: Nat]]
    BY <1>6, ReleaseType DEF RenewCommit, HoldStatus
  <2> QED
    BY <1>6, <2>3, <2>4 DEF RenewCommit, TypeOK
<1>7. CASE RenewReopen(w)
  <2>1. task' \in [Workers -> Task]
    BY <1>7, FinishType DEF RenewReopen
  <2>2. NoCart \in Cart
    BY DEF NoCart, Cart
  <2>3. cart \in [Carts -> Cart]
    BY DEF TypeOK
  <2>4. task[w].cart \in Carts
          => [NoCart EXCEPT !.status = "open", !.last = cart[task[w].cart].last] \in Cart
    BY <2>2, <2>3, Zenon DEF Cart
  <2>5. cart' \in [Carts -> Cart]
    BY <1>7, <2>3, <2>4, UpdateType DEF RenewReopen
  <2> QED
    BY <1>7, <2>1, <2>5 DEF RenewReopen, TypeOK
<1> QED
  BY <1>1, <1>2, <1>3, <1>4, <1>5, <1>6, <1>7 DEF CartStep

\* The steps of a checkout keep the state typed.
LEMMA CheckoutStepType ==
  ASSUME TypeOK, NEW w \in Workers, CheckoutStep(w)
  PROVE  TypeOK'
<1>0. task[w] \in Task
  BY DEF TypeOK
<1>1. ASSUME NEW c \in Carts, CheckoutRead(w, c)
      PROVE  TypeOK'
  <2>1. Read(LineHolds(c)) \in [Holds -> 0..MaxQty]
    BY ReadType
  <2>2. [Idle EXCEPT !.op = "checkout", !.cart = c, !.seen = Read(LineHolds(c))] \in Task
    BY <2>1, IdleType, Zenon DEF Task, Ops
  <2>3. task' \in [Workers -> Task]
    BY <1>1, <2>2, BecomeType DEF CheckoutRead
  <2> QED
    BY <1>1, <2>3 DEF CheckoutRead, TypeOK
<1>2. ASSUME NEW o \in Orders, CheckoutCommit(w, o)
      PROVE  TypeOK'
  <2>1. task[w].cart \in Carts \cup {None}
    BY <1>0 DEF Task
  <2>2. task' \in [Workers -> Task]
    <3>1. [Idle EXCEPT !.op = "pay", !.cart = task[w].cart, !.order = o] \in Task
      BY <2>1, IdleType, Zenon DEF Task, Ops
    <3> QED
      BY <1>2, <3>1, BecomeType DEF CheckoutCommit
  <2>3. order' \in [Orders -> Order]
    <3>1. Places(Seen(w), task[w].seen) \in Nat
      <4>1. Seen(w) \in SUBSET Holds
        BY DEF Seen
      <4> QED
        BY <4>1, HoldsCounted, PlacesType
    <3>2. [NoOrder EXCEPT !.pay = "pending", !.cart = task[w].cart,
                          !.qty = Places(Seen(w), task[w].seen)] \in Order
      BY <2>1, <3>1, NoOrderType, Zenon DEF Order, PaymentStatus
    <3> QED
      BY <1>2, <3>2, UpdateType DEF CheckoutCommit, TypeOK
  <2>4. hold' \in [Holds -> Hold]
    <3>1. ASSUME NEW h \in Holds
          PROVE  [hold[h] EXCEPT !.status = "held", !.order = o] \in Hold
      BY Zenon DEF TypeOK, Hold, HoldStatus
    <3> QED
      BY <1>2, <3>1 DEF CheckoutCommit, TypeOK
  <2>5. cart' \in [Carts -> Cart]
    <3>1. cart \in [Carts -> Cart]
      BY DEF TypeOK
    <3>2. task[w].cart \in Carts
            => [cart[task[w].cart] EXCEPT !.status = "converted", !.last = o] \in Cart
      BY <3>1, Zenon DEF Cart
    <3>3. cart' = [cart EXCEPT ![task[w].cart] =
                      [cart[task[w].cart] EXCEPT !.status = "converted", !.last = o]]
      BY <1>2, Zenon DEF CheckoutCommit
    <3> QED
      BY <3>1, <3>2, <3>3, UpdateType
  <2> QED
    BY <1>2, <2>2, <2>3, <2>4, <2>5 DEF CheckoutCommit, TypeOK
<1>3. CASE PayStart(w)
  <2>1. task' \in [Workers -> Task]
    BY <1>3, FinishType DEF PayStart
  <2>2. order' \in [Orders -> Order]
    BY <1>3, OrderFieldType DEF PayStart
  <2> QED
    BY <1>3, <2>1, <2>2 DEF PayStart, TypeOK
<1>4. CASE PayStartFails(w)
  <2>1. Read(OrderHolds(task[w].order)) \in [Holds -> 0..MaxQty]
    BY ReadType
  <2>2. [task[w] EXCEPT !.op = "compensate", !.seen = Read(OrderHolds(task[w].order))] \in Task
    BY <1>0, <2>1, Zenon DEF Task, Ops
  <2>3. task' \in [Workers -> Task]
    BY <1>4, <2>2, BecomeType DEF PayStartFails
  <2> QED
    BY <1>4, <2>3 DEF PayStartFails, TypeOK
<1>5. CASE CompensateCommit(w)
  <2>1. Nothing \in [Holds -> 0..MaxQty]
    BY ConstantsAssumption DEF Nothing
  <2>2. [task[w] EXCEPT !.op = "close", !.seen = Nothing] \in Task
    BY <1>0, <2>1, Zenon DEF Task, Ops
  <2>3. task' \in [Workers -> Task]
    BY <1>5, <2>2, BecomeType DEF CompensateCommit
  <2>4. /\ hold' \in [Holds -> Hold]
        /\ pool' \in [Channels -> [sold: Nat, held: Nat]]
    BY <1>5, ReleaseType DEF CompensateCommit, HoldStatus
  <2> QED
    BY <1>5, <2>3, <2>4 DEF CompensateCommit, TypeOK
<1>6. CASE CompensateClose(w)
  <2>1. task' \in [Workers -> Task]
    BY <1>6, FinishType DEF CompensateClose
  <2>2. order' \in [Orders -> Order]
    BY <1>6, OrderFieldType DEF CompensateClose, PaymentStatus
  <2>3. cart' \in [Carts -> Cart]
    BY <1>6, CartStatusType DEF CompensateClose
  <2> QED
    BY <1>6, <2>1, <2>2, <2>3 DEF CompensateClose, TypeOK
<1> QED
  BY <1>1, <1>2, <1>3, <1>4, <1>5, <1>6 DEF CheckoutStep

\* Payment events, refunds and voids keep the state typed.
LEMMA PaymentStepType ==
  ASSUME TypeOK, NEW w \in Workers, PaymentStep(w)
  PROVE  TypeOK'
<1>1. ASSUME NEW o \in Orders, PaymentFails(w, o) \/ ManualRelease(w, o)
      PROVE  TypeOK'
  <2>1. Read(OrderHolds(o)) \in [Holds -> 0..MaxQty]
    BY ReadType
  <2>2. [Idle EXCEPT !.op = "release", !.order = o, !.seen = Read(OrderHolds(o))] \in Task
    BY <2>1, IdleType, Zenon DEF Task, Ops
  <2>3. task' \in [Workers -> Task]
    BY <1>1, <2>2, BecomeType DEF PaymentFails, ManualRelease
  <2>4. order' \in [Orders -> Order]
    <3>1. CASE PaymentFails(w, o)
      BY <3>1, OrderFieldType, Zenon DEF PaymentFails, PaymentStatus
    <3>2. CASE ManualRelease(w, o)
      BY <3>2 DEF ManualRelease, TypeOK
    <3> QED
      BY <1>1, <3>1, <3>2
  <2> QED
    BY <1>1, <2>3, <2>4 DEF PaymentFails, ManualRelease, TypeOK
<1>2. ASSUME NEW o \in Orders, RefundRead(w, o)
      PROVE  TypeOK'
  <2>1. order[o].tickets \in Nat
    BY DEF TypeOK, Order
  <2>2. [Idle EXCEPT !.op = "refund", !.order = o, !.qty = order[o].tickets] \in Task
    BY <2>1, IdleType, Zenon DEF Task, Ops
  <2>3. task' \in [Workers -> Task]
    BY <1>2, <2>2, BecomeType DEF RefundRead
  <2>4. order' \in [Orders -> Order]
    BY <1>2, OrderFieldType DEF RefundRead, PaymentStatus
  <2> QED
    BY <1>2, <2>3, <2>4 DEF RefundRead, TypeOK
<1>3. ASSUME NEW o \in Orders, VoidRead(w, o)
      PROVE  TypeOK'
  <2>1. order[o].tickets + order[o].cancelled \in Nat
    BY DEF TypeOK, Order
  <2>2. [Idle EXCEPT !.op = "void", !.order = o,
                     !.qty = order[o].tickets + order[o].cancelled] \in Task
    BY <2>1, IdleType, Zenon DEF Task, Ops
  <2>3. task' \in [Workers -> Task]
    BY <1>3, <2>2, BecomeType DEF VoidRead
  <2> QED
    BY <1>3, <2>3 DEF VoidRead, TypeOK
<1>4. CASE ReleaseCommit(w)
  <2>1. task' \in [Workers -> Task]
    BY <1>4, FinishType DEF ReleaseCommit
  <2>2. /\ hold' \in [Holds -> Hold]
        /\ pool' \in [Channels -> [sold: Nat, held: Nat]]
    BY <1>4, ReleaseType DEF ReleaseCommit, HoldStatus
  <2> QED
    BY <1>4, <2>1, <2>2 DEF ReleaseCommit, TypeOK
<1>5. CASE RestoreCommit(w)
  <2> DEFINE o == task[w].order
             left == IF task[w].op = "void" THEN 0 ELSE order[o].cancelled + order[o].tickets
             ch == RestoreChannel(o)
  <2>1. task' \in [Workers -> Task]
    BY <1>5, FinishType DEF RestoreCommit
  <2>2. order' \in [Orders -> Order]
    <3>1. order \in [Orders -> Order]
      BY DEF TypeOK
    <3>2. o \in Orders => left \in Nat
      BY <3>1 DEF Order
    <3>3. (order[o].voided \/ task[w].op = "void") \in BOOLEAN
      BY Zenon
    <3>4. o \in Orders => [order[o] EXCEPT !.tickets = 0, !.cancelled = left,
                             !.voided = order[o].voided \/ task[w].op = "void"] \in Order
      BY <3>1, <3>2, <3>3, ClosedOrderType
    <3>5. order' = [order EXCEPT ![o] = [order[o] EXCEPT !.tickets = 0, !.cancelled = left,
                      !.voided = order[o].voided \/ task[w].op = "void"]]
      BY <1>5, Zenon DEF RestoreCommit
    <3> QED
      BY <3>1, <3>4, <3>5, UpdateType
  <2>3. pool' \in [Channels -> [sold: Nat, held: Nat]]
    <3>1. pool \in [Channels -> [sold: Nat, held: Nat]]
      BY DEF TypeOK
    <3>2. ch \in Channels => AtLeastZero(pool[ch].sold - task[w].qty) \in Nat
      BY <3>1, FloorType DEF TypeOK, Task
    <3>3. ch \in Channels => [pool[ch] EXCEPT !.sold = AtLeastZero(pool[ch].sold - task[w].qty)]
                                \in [sold: Nat, held: Nat]
      BY <3>1, <3>2, Zenon
    <3>4. pool' = [pool EXCEPT ![ch] =
                      [pool[ch] EXCEPT !.sold = AtLeastZero(pool[ch].sold - task[w].qty)]]
      BY <1>5, SMT DEF RestoreCommit
    <3> QED
      BY <3>1, <3>3, <3>4, UpdateType
  <2> QED
    BY <1>5, <2>1, <2>2, <2>3 DEF RestoreCommit, TypeOK
<1> QED
  BY <1>1, <1>2, <1>3, <1>4, <1>5 DEF PaymentStep

\* The steps of a sweep keep the state typed.
LEMMA SweepStepType ==
  ASSUME TypeOK, NEW w \in Workers, SweepStep(w)
  PROVE  TypeOK'
<1>0. task[w] \in Task
  BY DEF TypeOK
<1>1. CASE SweepRead(w)
  <2> DEFINE S == {h \in HeldHolds : hold[h].lapsed /\ ~Protected(h)}
  <2>1. Read(S) \in [Holds -> 0..MaxQty]
    BY ReadType
  <2>2. [Idle EXCEPT !.op = "sweep", !.seen = Read(S)] \in Task
    BY <2>1, IdleType, Zenon DEF Task, Ops
  <2>3. task' \in [Workers -> Task]
    BY <1>1, <2>2, BecomeType DEF SweepRead
  <2> QED
    BY <1>1, <2>3 DEF SweepRead, TypeOK
<1>2. CASE SweepExpire(w)
  <2> DEFINE touched == {hold[h].channel : h \in Applied(w)}
  <2>1. PoolsToRebuild(touched) \in SUBSET Channels
    BY DEF PoolsToRebuild, Applied, Seen, TypeOK, Hold
  <2>2. [Idle EXCEPT !.op = "tally", !.todo = PoolsToRebuild(touched)] \in Task
    BY <2>1, IdleType, Zenon DEF Task, Ops
  <2>3. task' \in [Workers -> Task]
    BY <1>2, <2>2, BecomeType DEF SweepExpire
  <2>4. /\ hold' \in [Holds -> Hold]
        /\ pool' \in [Channels -> [sold: Nat, held: Nat]]
    BY <1>2, ReleaseType DEF SweepExpire, HoldStatus
  <2> QED
    BY <1>2, <2>3, <2>4 DEF SweepExpire, TypeOK
<1>3. CASE SweepTally(w)
  <2>1. \A ch \in Channels : HeldPlaces(ch) \in Nat
    BY HeldPlacesType
  <2>2. [ch \in Channels |-> HeldPlaces(ch)] \in [Channels -> Nat]
    BY <2>1
  <2>3. [task[w] EXCEPT !.op = "compare", !.tally = [ch \in Channels |-> HeldPlaces(ch)]] \in Task
    BY <1>0, <2>2, Zenon DEF Task, Ops
  <2>4. task' \in [Workers -> Task]
    BY <1>3, <2>3, BecomeType DEF SweepTally
  <2> QED
    BY <1>3, <2>4 DEF SweepTally, TypeOK
<1>4. CASE SweepCompare(w)
  <2> DEFINE wrong == {ch \in task[w].todo : pool[ch].held # task[w].tally[ch]}
  <2>1. wrong \in SUBSET Channels
    BY <1>0 DEF Task
  <2>2. [task[w] EXCEPT !.op = "repair", !.todo = wrong] \in Task
    BY <1>0, <2>1, Zenon DEF Task, Ops
  <2>3. task' \in [Workers -> Task]
    BY <1>4, <2>2, IdleType, BecomeType DEF SweepCompare
  <2> QED
    BY <1>4, <2>3 DEF SweepCompare, TypeOK
<1>5. ASSUME NEW ch \in Channels, SweepRepair(w, ch)
      PROVE  TypeOK'
  <2> DEFINE rest == task[w].todo \ {ch}
  <2>1. rest \in SUBSET Channels
    BY <1>0 DEF Task
  <2>2. [task[w] EXCEPT !.todo = rest] \in Task
    BY <1>0, <2>1, Zenon DEF Task
  <2>3. task' \in [Workers -> Task]
    BY <1>5, <2>2, IdleType, BecomeType DEF SweepRepair
  <2>4. pool' \in [Channels -> [sold: Nat, held: Nat]]
    <3>1. pool \in [Channels -> [sold: Nat, held: Nat]]
      BY DEF TypeOK
    <3>2. [pool[ch] EXCEPT !.held = task[w].tally[ch]] \in [sold: Nat, held: Nat]
      BY <1>0, <3>1, Zenon DEF Task
    <3>3. pool' = [pool EXCEPT ![ch] = [pool[ch] EXCEPT !.held = task[w].tally[ch]]]
      BY <1>5, SMT DEF SweepRepair
    <3> QED
      BY <3>1, <3>2, <3>3, UpdateType
  <2> QED
    BY <1>5, <2>3, <2>4 DEF SweepRepair, TypeOK
<1> QED
  BY <1>1, <1>2, <1>3, <1>4, <1>5 DEF SweepStep

\* Counter sales keep the state typed.
LEMMA SaleType ==
  ASSUME TypeOK, NEW o \in Orders, NEW q \in 1..MaxQty, BoxSale(o, q) \/ TapSale(o, q)
  PROVE  TypeOK'
<1>1. q \in Nat /\ q \in 0..MaxQty
  BY ConstantsAssumption
<1>2. pool \in [Channels -> [sold: Nat, held: Nat]] /\ "box_office" \in Channels
  BY DEF TypeOK, Channels
<1>3. CASE BoxSale(o, q)
  <2>1. [NoOrder EXCEPT !.pay = "paid", !.channel = "box_office", !.cash = TRUE,
                        !.qty = q, !.payRow = TRUE] \in Order
    BY <1>1, <1>2, NoOrderType, Zenon DEF Order, PaymentStatus
  <2>2. order' \in [Orders -> Order]
    BY <1>3, <2>1, UpdateType DEF BoxSale, TypeOK
  <2>3. pool' \in [Channels -> [sold: Nat, held: Nat]]
    <3>1. pool["box_office"].sold + q \in Nat
      BY <1>1, <1>2
    <3>2. [pool["box_office"] EXCEPT !.sold = pool["box_office"].sold + q]
            \in [sold: Nat, held: Nat]
      BY <1>2, <3>1, Zenon
    <3>3. pool' = [pool EXCEPT !["box_office"] =
                      [pool["box_office"] EXCEPT !.sold = pool["box_office"].sold + q]]
      BY <1>3, SMT DEF BoxSale
    <3> QED
      BY <1>2, <3>2, <3>3, UpdateType
  <2> QED
    BY <1>3, <2>2, <2>3 DEF BoxSale, TypeOK
<1>4. CASE TapSale(o, q)
  <2>1. [NoOrder EXCEPT !.pay = "pending", !.qty = q, !.channel = "box_office",
                        !.payRow = TRUE] \in Order
    BY <1>1, <1>2, NoOrderType, Zenon DEF Order, PaymentStatus
  <2>2. order' \in [Orders -> Order]
    BY <1>4, <2>1, UpdateType DEF TapSale, TypeOK
  <2>3. hold' \in [Holds -> Hold]
    <3>1. NoHold \in Hold
      BY ConstantsAssumption DEF NoHold, Hold, HoldStatus, Channels
    <3>2. [NoHold EXCEPT !.status = "held", !.qty = q, !.channel = "box_office",
                         !.order = o] \in Hold
      BY <1>1, <1>2, <3>1, Zenon DEF Hold, HoldStatus
    <3> QED
      BY <1>4, <3>2, UpdateType DEF TapSale, TypeOK
  <2>4. pool' \in [Channels -> [sold: Nat, held: Nat]]
    <3>1. pool["box_office"].held + q \in Nat
      BY <1>1, <1>2
    <3>2. [pool["box_office"] EXCEPT !.held = pool["box_office"].held + q]
            \in [sold: Nat, held: Nat]
      BY <1>2, <3>1, Zenon
    <3>3. pool' = [pool EXCEPT !["box_office"] =
                      [pool["box_office"] EXCEPT !.held = pool["box_office"].held + q]]
      BY <1>4, SMT DEF TapSale
    <3> QED
      BY <1>2, <3>2, <3>3, UpdateType
  <2> QED
    BY <1>4, <2>2, <2>3, <2>4 DEF TapSale, TypeOK
<1> QED
  BY <1>3, <1>4

\* A successful payment and fulfilment keep the state typed.
LEMMA FulfilType ==
  ASSUME TypeOK, NEW o \in Orders, PaymentSucceeds(o) \/ Fulfil(o)
  PROVE  TypeOK'
<1>1. CASE PaymentSucceeds(o)
  <2>1. order' \in [Orders -> Order]
    BY <1>1, OrderFieldType DEF PaymentSucceeds, PaymentStatus
  <2> QED
    BY <1>1, <2>1 DEF PaymentSucceeds, TypeOK
<1>2. CASE Fulfil(o)
  <2>1. /\ hold' \in [Holds -> Hold]
        /\ pool' \in [Channels -> [sold: Nat, held: Nat]]
    BY <1>2, ConsumeType DEF Fulfil, OrderHolds, HeldHolds
  <2>2. order \in [Orders -> Order]
    BY DEF TypeOK
  <2>3. order[o].qty * TicketsPerPlace \in Nat
    BY <2>2, ConstantsAssumption DEF Order
  <2>4. [order[o] EXCEPT !.issued = TRUE, !.tickets = order[o].qty * TicketsPerPlace] \in Order
    BY <2>2, <2>3, Zenon DEF Order
  <2>5. order' \in [Orders -> Order]
    BY <1>2, <2>2, <2>4, UpdateType DEF Fulfil
  <2> QED
    BY <1>2, <2>1, <2>5 DEF Fulfil, TypeOK
<1> QED
  BY <1>1, <1>2

\* The passing of time keeps the state typed.
LEMMA LapseType ==
  ASSUME TypeOK,
         \/ \E h \in Holds : LapseHold(h)
         \/ \E c \in Carts : LapseCart(c)
  PROVE  TypeOK'
<1>1. ASSUME NEW h \in Holds
      PROVE  [hold[h] EXCEPT !.lapsed = TRUE] \in Hold
  BY Zenon DEF TypeOK, Hold
<1>2. ASSUME NEW h \in Holds, LapseHold(h)
      PROVE  TypeOK'
  <2>1. hold' = [hold EXCEPT ![h] = [hold[h] EXCEPT !.lapsed = TRUE]]
    BY <1>2, SMT DEF LapseHold
  <2>2. hold' \in [Holds -> Hold]
    BY <1>1, <2>1, UpdateType DEF TypeOK
  <2> QED
    BY <1>2, <2>2 DEF LapseHold, TypeOK
<1>3. ASSUME NEW c \in Carts, LapseCart(c)
      PROVE  TypeOK'
  <2>1. hold' \in [Holds -> Hold]
    BY <1>1, <1>3 DEF LapseCart, TypeOK
  <2>2. cart' = [cart EXCEPT ![c] = [cart[c] EXCEPT !.lapsed = TRUE]]
    BY <1>3, SMT DEF LapseCart
  <2>3. [cart[c] EXCEPT !.lapsed = TRUE] \in Cart
    BY Zenon DEF TypeOK, Cart
  <2>4. cart' \in [Carts -> Cart]
    BY <2>2, <2>3, UpdateType DEF TypeOK
  <2> QED
    BY <1>3, <2>1, <2>4 DEF LapseCart, TypeOK
<1> QED
  BY <1>2, <1>3

\* Every step keeps the state typed.
LEMMA StepType == TypeOK /\ [Next]_vars => TypeOK'
<1> SUFFICES ASSUME TypeOK, [Next]_vars
             PROVE  TypeOK'
  OBVIOUS
<1>1. ASSUME NEW w \in Workers, GiveUp(w)
      PROVE  TypeOK'
  <2>1. task' \in [Workers -> Task]
    BY <1>1, FinishType DEF GiveUp
  <2> QED
    BY <1>1, <2>1 DEF GiveUp, TypeOK
<1>2. CASE UNCHANGED vars
  BY <1>2 DEF vars, TypeOK
<1> QED
  BY <1>1, <1>2, CartStepType, CheckoutStepType, PaymentStepType, SweepStepType, SaleType,
     FulfilType, LapseType DEF Next

\* Every row and every snapshot keeps its type, whatever the requests, webhooks and
\* sweeps do: in particular no counter of a pool becomes negative.
THEOREM TypeCorrect == Spec => []TypeOK
  BY InitType, StepType, PTL DEF Spec

-----------------------------------------------------------------------------
(* The sweep expires what it read before its transaction.  As long as no place is  *)
(* reserved while a sweep is in progress, that is never a hold an order owns.       *)

\* Unless a sweep begins, a sweep in progress after the step was in progress before it
\* and has read the same holds.
NoNewSweep == \A v \in Workers : Is(v, "sweep")' => task'[v] = task[v]

\* A hold a sweep may expire stays one.
StaysCondemned == \A h \in Holds : Condemned(h) => Condemned(h)'

\* A hold that an order owns does not become expired.
NoBoundExpiry ==
    \A h \in Holds : hold[h].order # None /\ hold[h].status = "held"
                        => hold'[h].status # "expired"

-----------------------------------------------------------------------------
\* What a sweep has read stays current when its task and the condemned holds do.
LEMMA StaysCurrent ==
  ASSUME SweepIsCurrent, NoNewSweep, StaysCondemned
  PROVE  SweepIsCurrent'
  BY Zenon DEF SweepIsCurrent, NoNewSweep, StaysCondemned, Seen, Is

\* A task of another kind is not a new sweep.
LEMMA OtherTask ==
  ASSUME TypeOK, NEW w \in Workers, NEW t, Become(w, t), t.op # "sweep"
  PROVE  NoNewSweep
  BY DEF TypeOK, Become, NoNewSweep, Is

\* Finishing is not a new sweep.
LEMMA FinishTask ==
  ASSUME TypeOK, NEW w \in Workers, Finish(w)
  PROVE  NoNewSweep
  BY OtherTask DEF Finish, Idle

\* Untouched holds stay condemned and do not expire.
LEMMA HoldsUntouched ==
  ASSUME UNCHANGED hold
  PROVE  StaysCondemned /\ NoBoundExpiry
  BY DEF StaysCondemned, NoBoundExpiry, Condemned

\* Released and consumed holds stay condemned, and they do not expire.
LEMMA ReleaseCondemns ==
  ASSUME TypeOK, NEW w \in Workers, ReleaseSeen(w, "released")
  PROVE  StaysCondemned /\ NoBoundExpiry
<1>1. \A h \in Holds : \/ hold'[h] = hold[h]
                       \/ hold'[h] = [hold[h] EXCEPT !.status = "released"]
  BY DEF ReleaseSeen
<1>2. \A h \in Holds : hold[h] \in Hold
  BY DEF TypeOK
<1>3. \A h \in Holds : [hold[h] EXCEPT !.status = "released"].status = "released"
                       /\ [hold[h] EXCEPT !.status = "released"].lapsed = hold[h].lapsed
  BY <1>2 DEF Hold
<1> QED
  BY <1>1, <1>3 DEF StaysCondemned, NoBoundExpiry, Condemned

LEMMA ConsumeCondemns ==
  ASSUME TypeOK, NEW S, ConsumeHolds(S)
  PROVE  StaysCondemned /\ NoBoundExpiry
<1>1. \A h \in Holds : \/ hold'[h] = hold[h]
                       \/ hold'[h] = [hold[h] EXCEPT !.status = "consumed"]
  BY DEF ConsumeHolds
<1>2. \A h \in Holds : hold[h] \in Hold
  BY DEF TypeOK
<1>3. \A h \in Holds : [hold[h] EXCEPT !.status = "consumed"].status = "consumed"
                       /\ [hold[h] EXCEPT !.status = "consumed"].lapsed = hold[h].lapsed
  BY <1>2 DEF Hold
<1> QED
  BY <1>1, <1>3 DEF StaysCondemned, NoBoundExpiry, Condemned

-----------------------------------------------------------------------------
(* The steps, one lemma for each kind. *)

\* The cart: places are reserved only when no sweep is in progress.
LEMMA CartStepCurrent ==
  ASSUME TypeOK, SweepIsCurrent, "add_during_sweep" \notin Allow,
         NEW w \in Workers, CartStep(w)
  PROVE  SweepIsCurrent' /\ NoBoundExpiry
<1>1. ASSUME NEW c \in Carts, NEW k \in Kinds, NEW q \in 1..MaxQty, AddRead(w, c, k, q)
      PROVE  SweepIsCurrent' /\ NoBoundExpiry
  <2>1. NoNewSweep
    BY <1>1, OtherTask DEF AddRead, Idle
  <2> QED
    BY <1>1, <2>1, HoldsUntouched, StaysCurrent DEF AddRead
<1>2. ASSUME NEW c \in Carts, NEW k \in Kinds, AddCommit(w, c, k)
      PROVE  SweepIsCurrent' /\ NoBoundExpiry
  <2>1. \A v \in Workers : ~Is(v, "sweep")
    BY <1>2 DEF AddCommit, MayReserve, Sweeping, Is
  <2>2. \A v \in Workers : ~Is(v, "sweep")'
    BY <1>2, <2>1, FinishTask DEF AddCommit, NoNewSweep, Is
  <2>3. NoBoundExpiry
    <3>1. ASSUME NEW h \in Holds, NewLine(c, k, task[w].qty, h)
          PROVE  NoBoundExpiry
      BY <3>1 DEF NewLine, NoBoundExpiry, NoHold, TypeOK
    <3>2. ASSUME NEW h, GrowLine(c, task[w].qty, h)
          PROVE  NoBoundExpiry
      BY <3>2 DEF GrowLine, NoBoundExpiry, TypeOK, Hold
    <3> QED
      BY <1>2, <3>1, <3>2 DEF AddCommit
  <2> QED
    BY <2>2, <2>3 DEF SweepIsCurrent
<1>3. ASSUME NEW c \in Carts, NEW k \in Kinds, RemoveRead(w, c, k)
      PROVE  SweepIsCurrent' /\ NoBoundExpiry
  <2>1. NoNewSweep
    BY <1>3, OtherTask DEF RemoveRead, Idle
  <2> QED
    BY <1>3, <2>1, HoldsUntouched, StaysCurrent DEF RemoveRead
<1>4. CASE RemoveCommit(w)
  BY <1>4, FinishTask, ReleaseCondemns, StaysCurrent DEF RemoveCommit
<1>5. ASSUME NEW c \in Carts, RenewRead(w, c)
      PROVE  SweepIsCurrent' /\ NoBoundExpiry
  <2>1. NoNewSweep
    BY <1>5, OtherTask DEF RenewRead, Idle
  <2> QED
    BY <1>5, <2>1, HoldsUntouched, StaysCurrent DEF RenewRead
<1>6. CASE RenewCommit(w)
  <2>1. NoNewSweep
    BY <1>6, OtherTask DEF RenewCommit, Idle
  <2> QED
    BY <1>6, <2>1, ReleaseCondemns, StaysCurrent DEF RenewCommit
<1>7. CASE RenewReopen(w)
  BY <1>7, FinishTask, HoldsUntouched, StaysCurrent DEF RenewReopen
<1> QED
  BY <1>1, <1>2, <1>3, <1>4, <1>5, <1>6, <1>7 DEF CartStep

\* The checkout: an order binds only holds that have not lapsed.
LEMMA CheckoutStepCurrent ==
  ASSUME TypeOK, SweepIsCurrent, NEW w \in Workers, CheckoutStep(w)
  PROVE  SweepIsCurrent' /\ NoBoundExpiry
<1>1. ASSUME NEW c \in Carts, CheckoutRead(w, c)
      PROVE  SweepIsCurrent' /\ NoBoundExpiry
  <2>1. NoNewSweep
    BY <1>1, OtherTask DEF CheckoutRead, Idle
  <2> QED
    BY <1>1, <2>1, HoldsUntouched, StaysCurrent DEF CheckoutRead
<1>2. ASSUME NEW o \in Orders, CheckoutCommit(w, o)
      PROVE  SweepIsCurrent' /\ NoBoundExpiry
  <2>1. NoNewSweep
    BY <1>2, OtherTask DEF CheckoutCommit, Idle
  <2>2. \A h \in Holds : \/ hold'[h] = hold[h]
                         \/ /\ ~hold[h].lapsed
                            /\ hold'[h] = [hold[h] EXCEPT !.status = "held", !.order = o]
    BY <1>2 DEF CheckoutCommit
  <2>3. \A h \in Holds : [hold[h] EXCEPT !.status = "held", !.order = o].status = "held"
    BY DEF TypeOK, Hold
  <2>4. StaysCondemned /\ NoBoundExpiry
    BY <2>2, <2>3 DEF StaysCondemned, Condemned, NoBoundExpiry
  <2> QED
    BY <2>1, <2>4, StaysCurrent
<1>3. CASE PayStart(w)
  BY <1>3, FinishTask, HoldsUntouched, StaysCurrent DEF PayStart
<1>4. CASE PayStartFails(w)
  <2>1. NoNewSweep
    BY <1>4, OtherTask DEF PayStartFails, TypeOK, Task
  <2> QED
    BY <1>4, <2>1, HoldsUntouched, StaysCurrent DEF PayStartFails
<1>5. CASE CompensateCommit(w)
  <2>1. NoNewSweep
    BY <1>5, OtherTask DEF CompensateCommit, TypeOK, Task
  <2> QED
    BY <1>5, <2>1, ReleaseCondemns, StaysCurrent DEF CompensateCommit
<1>6. CASE CompensateClose(w)
  BY <1>6, FinishTask, HoldsUntouched, StaysCurrent DEF CompensateClose
<1> QED
  BY <1>1, <1>2, <1>3, <1>4, <1>5, <1>6 DEF CheckoutStep

\* Payment events, refunds and voids.
LEMMA PaymentStepCurrent ==
  ASSUME TypeOK, SweepIsCurrent, NEW w \in Workers, PaymentStep(w)
  PROVE  SweepIsCurrent' /\ NoBoundExpiry
<1>1. ASSUME NEW o \in Orders,
             PaymentFails(w, o) \/ ManualRelease(w, o) \/ RefundRead(w, o) \/ VoidRead(w, o)
      PROVE  SweepIsCurrent' /\ NoBoundExpiry
  <2>1. NoNewSweep
    BY <1>1, OtherTask DEF PaymentFails, ManualRelease, RefundRead, VoidRead, Idle
  <2>2. UNCHANGED hold
    BY <1>1 DEF PaymentFails, ManualRelease, RefundRead, VoidRead
  <2> QED
    BY <2>1, <2>2, HoldsUntouched, StaysCurrent
<1>2. CASE ReleaseCommit(w)
  BY <1>2, FinishTask, ReleaseCondemns, StaysCurrent DEF ReleaseCommit
<1>3. CASE RestoreCommit(w)
  BY <1>3, FinishTask, HoldsUntouched, StaysCurrent DEF RestoreCommit
<1> QED
  BY <1>1, <1>2, <1>3 DEF PaymentStep

\* The sweep itself: it reads condemned holds only, and expires only those still held.
LEMMA SweepStepCurrent ==
  ASSUME TypeOK, SweepIsCurrent, NEW w \in Workers, SweepStep(w)
  PROVE  SweepIsCurrent' /\ NoBoundExpiry
<1>1. CASE SweepRead(w)
  <2> DEFINE S == {h \in HeldHolds : hold[h].lapsed /\ ~Protected(h)}
             t == [Idle EXCEPT !.op = "sweep", !.seen = Read(S)]
  <2>1. task' = [task EXCEPT ![w] = t] /\ UNCHANGED hold
    BY <1>1 DEF SweepRead, Become
  <2>2. t.seen = Read(S)
    BY DEF Idle
  <2>3. ASSUME NEW h \in Holds, Read(S)[h] > 0
        PROVE  Condemned(h)
    BY <2>3 DEF Read, HeldHolds, Condemned, Protected
  <2>4. ASSUME NEW v \in Workers, NEW h \in Seen(v)', Is(v, "sweep")'
        PROVE  Condemned(h)
    <3>1. CASE v = w
      BY <2>1, <2>2, <2>3, <2>4, <3>1 DEF TypeOK, Seen
    <3>2. CASE v # w
      BY <2>1, <2>4, <3>2 DEF TypeOK, Seen, SweepIsCurrent, Is
    <3> QED
      BY <3>1, <3>2
  <2>5. SweepIsCurrent'
    BY <2>1, <2>4 DEF SweepIsCurrent, Condemned
  <2> QED
    BY <2>1, <2>5, HoldsUntouched
<1>2. CASE SweepExpire(w)
  <2>1. NoNewSweep
    BY <1>2, OtherTask DEF SweepExpire, Idle
  <2>2. \A h \in Holds : \/ hold'[h] = hold[h]
                         \/ /\ h \in Applied(w)
                            /\ hold'[h] = [hold[h] EXCEPT !.status = "expired"]
    BY <1>2 DEF SweepExpire, ReleaseSeen
  <2>3. \A h \in Holds : [hold[h] EXCEPT !.status = "expired"].status = "expired"
                         /\ [hold[h] EXCEPT !.status = "expired"].lapsed = hold[h].lapsed
    BY DEF TypeOK, Hold
  <2>4. \A h \in Applied(w) : hold[h].order = None
    BY <1>2 DEF SweepExpire, SweepIsCurrent, Applied, HeldHolds, Condemned
  <2>5. StaysCondemned /\ NoBoundExpiry
    BY <2>2, <2>3, <2>4 DEF StaysCondemned, Condemned, NoBoundExpiry
  <2> QED
    BY <2>1, <2>5, StaysCurrent
<1>3. CASE SweepTally(w)
  <2>1. NoNewSweep
    BY <1>3, OtherTask DEF SweepTally, TypeOK, Task
  <2> QED
    BY <1>3, <2>1, HoldsUntouched, StaysCurrent DEF SweepTally
<1>4. CASE SweepCompare(w)
  <2>1. NoNewSweep
    BY <1>4, OtherTask DEF SweepCompare, TypeOK, Task, Idle
  <2> QED
    BY <1>4, <2>1, HoldsUntouched, StaysCurrent DEF SweepCompare
<1>5. ASSUME NEW ch \in Channels, SweepRepair(w, ch)
      PROVE  SweepIsCurrent' /\ NoBoundExpiry
  <2>1. NoNewSweep
    BY <1>5, OtherTask DEF SweepRepair, TypeOK, Task, Idle, Is
  <2> QED
    BY <1>5, <2>1, HoldsUntouched, StaysCurrent DEF SweepRepair
<1> QED
  BY <1>1, <1>2, <1>3, <1>4, <1>5 DEF SweepStep

\* Counter sales and fulfilment.
LEMMA SaleCurrent ==
  ASSUME TypeOK, SweepIsCurrent, NEW o \in Orders,
         \/ \E q \in 1..MaxQty : BoxSale(o, q) \/ TapSale(o, q)
         \/ PaymentSucceeds(o) \/ Fulfil(o)
  PROVE  SweepIsCurrent' /\ NoBoundExpiry
<1>1. NoNewSweep
  BY DEF BoxSale, TapSale, PaymentSucceeds, Fulfil, NoNewSweep
<1>2. CASE \E q \in 1..MaxQty : BoxSale(o, q)
  BY <1>1, <1>2, HoldsUntouched, StaysCurrent DEF BoxSale
<1>3. ASSUME NEW q \in 1..MaxQty, TapSale(o, q)
      PROVE  SweepIsCurrent' /\ NoBoundExpiry
  <2>1. PICK h \in Holds : hold[h].status = "none" /\ \A g \in Holds \ {h} : hold'[g] = hold[g]
    BY <1>3 DEF TapSale, TypeOK
  <2>2. StaysCondemned /\ NoBoundExpiry
    BY <2>1 DEF StaysCondemned, Condemned, NoBoundExpiry
  <2> QED
    BY <1>1, <2>2, StaysCurrent
<1>4. CASE PaymentSucceeds(o)
  BY <1>1, <1>4, HoldsUntouched, StaysCurrent DEF PaymentSucceeds
<1>5. CASE Fulfil(o)
  BY <1>1, <1>5, ConsumeCondemns, StaysCurrent DEF Fulfil
<1> QED
  BY <1>2, <1>3, <1>4, <1>5

\* Time: what has lapsed stays lapsed.
LEMMA LapseCurrent ==
  ASSUME TypeOK, SweepIsCurrent,
         \/ \E h \in Holds : LapseHold(h)
         \/ \E c \in Carts : LapseCart(c)
  PROVE  SweepIsCurrent' /\ NoBoundExpiry
<1>1. NoNewSweep
  BY DEF LapseHold, LapseCart, NoNewSweep
<1>2. \A h \in Holds : hold'[h] = hold[h] \/ hold'[h] = [hold[h] EXCEPT !.lapsed = TRUE]
  BY DEF LapseHold, LapseCart, TypeOK
<1>3. \A h \in Holds : LET g == [hold[h] EXCEPT !.lapsed = TRUE]
                      IN  g.lapsed /\ g.status = hold[h].status /\ g.order = hold[h].order
  BY DEF TypeOK, Hold
<1>4. StaysCondemned /\ NoBoundExpiry
  BY <1>2, <1>3 DEF StaysCondemned, Condemned, NoBoundExpiry
<1> QED
  BY <1>1, <1>4, StaysCurrent

\* Every step keeps what sweeps have read current and expires no hold of an order.
LEMMA StepCurrent ==
  ASSUME TypeOK, SweepIsCurrent, "add_during_sweep" \notin Allow, [Next]_vars
  PROVE  SweepIsCurrent' /\ NoBoundExpiry
<1>1. ASSUME NEW w \in Workers, GiveUp(w)
      PROVE  SweepIsCurrent' /\ NoBoundExpiry
  BY <1>1, FinishTask, HoldsUntouched, StaysCurrent DEF GiveUp
<1>2. CASE UNCHANGED vars
  <2>1. NoNewSweep
    BY <1>2 DEF vars, NoNewSweep
  <2> QED
    BY <1>2, <2>1, HoldsUntouched, StaysCurrent DEF vars
<1> QED
  BY <1>1, <1>2, CartStepCurrent, CheckoutStepCurrent, PaymentStepCurrent, SweepStepCurrent,
     SaleCurrent, LapseCurrent DEF Next

-----------------------------------------------------------------------------
\* Nothing has been read at first.
LEMMA InitCurrent == Init => SweepIsCurrent
  BY DEF Init, Idle, SweepIsCurrent, Is

\* Without reservations during a sweep, what a sweep has read stays current until it
\* expires it.
THEOREM SweepStaysCurrent == "add_during_sweep" \notin Allow => (Spec => []SweepIsCurrent)
<1> SUFFICES ASSUME "add_during_sweep" \notin Allow
             PROVE  Spec => []SweepIsCurrent
  OBVIOUS
<1>1. TypeOK /\ SweepIsCurrent /\ [Next]_vars => SweepIsCurrent'
  BY StepCurrent
<1> QED
  BY <1>1, InitCurrent, TypeCorrect, PTL DEF Spec

\* ... and therefore no sweep expires a hold that an order owns, for any number of
\* carts, orders, sweeps and payment events running at once, and whatever crashes.
THEOREM BoundHoldsSafe == "add_during_sweep" \notin Allow => (Spec => BoundHoldNeverExpires)
<1> SUFFICES ASSUME "add_during_sweep" \notin Allow
             PROVE  Spec => BoundHoldNeverExpires
  OBVIOUS
<1> DEFINE A == \A h \in Holds : hold[h].order # None /\ hold[h].status = "held"
                                    => hold'[h].status # "expired"
<1>1. TypeOK /\ SweepIsCurrent /\ [Next]_vars => [A]_vars
  BY StepCurrent DEF NoBoundExpiry
<1> QED
  BY <1>1, TypeCorrect, SweepStaysCurrent, PTL DEF Spec, BoundHoldNeverExpires
=============================================================================
