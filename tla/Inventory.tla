------------------------------ MODULE Inventory ------------------------------
(***************************************************************************)
(* The stock of one ticket category: the two channel pools, the holds of   *)
(* carts and of counter sales, the orders that bind and consume them, and  *)
(* the background sweep that expires holds and rebuilds the held counters. *)
(*                                                                         *)
(* A prisma.$transaction that locks the pools is one step.  What a request *)
(* reads before its transaction is a step of its own, kept in task[w] and  *)
(* used by the transaction however stale it is by then.                    *)
(***************************************************************************)
EXTENDS Availability, FiniteSets

CONSTANTS
    Carts,          \* cart rows
    Kinds,          \* what tells the lines of a cart apart (price, reduced fare)
    Holds,          \* inventory_holds rows that may ever be created
    Orders,         \* order rows
    Workers,        \* requests, webhook deliveries and sweeps in progress
    Capacity,       \* EventTicketCategory.capacity
    PoolCapacity,   \* InventoryPool.capacity per channel
    TicketsPerPlace, \* 2 in a wheelchair category with free companions, else 1
    MaxQty,         \* bound on the places of one hold
    MaxSold,        \* bound on a pool's sold counter
    Allow,          \* environment behaviours that may happen, see Environment
    None            \* SQL NULL

\* parallel_tabs:    two requests of one cart overlap.
\* add_during_sweep: a place is reserved while a sweep is in progress.
\* late_success:     a payment succeeds after its order's holds were released.
\* late_cancel:      a cancelled order's payment is reported cancelled again.
\* manual_release:   an administrator releases a pending order's reservation.
\* double_restore:   two requests give the same order's tickets back at once.
\* void_refunded:    the counter voids an order that was refunded or disputed.
\* crash:            a process stops between two of its steps.
Environment == {"parallel_tabs", "add_during_sweep", "late_success", "late_cancel",
                "manual_release", "double_restore", "void_refunded", "crash"}

ASSUME ConstantsAssumption ==
    /\ Capacity \in Nat
    /\ PoolCapacity \in [Channels -> Nat]
    /\ TicketsPerPlace \in Nat \ {0}
    /\ MaxQty \in Nat \ {0}
    /\ MaxSold \in Nat
    /\ Allow \subseteq Environment
    /\ None \notin Carts \cup Holds \cup Orders \cup Kinds
    /\ IsFiniteSet(Holds) /\ IsFiniteSet(Orders)

VARIABLES
    pool,   \* inventory_pools: [sold, held] per channel
    hold,   \* inventory_holds
    cart,   \* carts with their items: line[k] is the hold of item k, or None
    order,  \* orders, with their tickets counted by status
    task    \* what each worker read before the transaction it is about to run

vars == <<pool, hold, cart, order, task>>

-----------------------------------------------------------------------------
HoldStatus == {"none", "held", "expired", "released", "consumed"}

Hold == [status: HoldStatus, qty: 0..MaxQty, channel: Channels,
         order: Orders \cup {None}, lapsed: BOOLEAN]

NoHold == [status |-> "none", qty |-> 0, channel |-> "online", order |-> None,
           lapsed |-> FALSE]

\* newest is the hold whose creation or extension last set cart.expiresAt: it and
\* the cart lapse together, every other line no later.  last is the latest order.
Cart == [status: {"none", "open", "converted", "expired"}, lapsed: BOOLEAN,
         line: [Kinds -> Holds \cup {None}], newest: Holds \cup {None},
         last: Orders \cup {None}]

NoCart == [status |-> "none", lapsed |-> FALSE, line |-> [k \in Kinds |-> None],
           newest |-> None, last |-> None]

PaymentStatus == {"none", "pending", "paid", "failed", "canceled", "refunded"}

\* qty counts places.  payRow says that the payment row, which fulfilment needs, has
\* been written; issued that tickets were minted (fulfillmentLockedAt).  tickets are
\* the active ones, cancelled those a refund or dispute cancelled; voided is voidedAt.
Order == [pay: PaymentStatus, channel: Channels, cash: BOOLEAN, cart: Carts \cup {None},
          qty: Nat, payRow: BOOLEAN, issued: BOOLEAN, tickets: Nat, cancelled: Nat,
          voided: BOOLEAN]

NoOrder == [pay |-> "none", channel |-> "online", cash |-> FALSE, cart |-> None,
            qty |-> 0, payRow |-> FALSE, issued |-> FALSE, tickets |-> 0,
            cancelled |-> 0, voided |-> FALSE]

Ops == {"idle", "add", "remove", "renew", "reopen", "checkout", "pay", "release",
        "compensate", "close", "refund", "void", "sweep", "tally", "compare", "repair"}

\* seen[h] is the quantity hold h was read with, 0 when it was not in the result.
Task == [op: Ops, cart: Carts \cup {None}, kind: Kinds \cup {None}, qty: Nat,
         item: Holds \cup {None}, order: Orders \cup {None},
         seen: [Holds -> 0..MaxQty], tally: [Channels -> Nat],
         todo: SUBSET Channels]

Nothing == [h \in Holds |-> 0]

Idle == [op |-> "idle", cart |-> None, kind |-> None, qty |-> 0, item |-> None,
         order |-> None, seen |-> Nothing, tally |-> [ch \in Channels |-> 0],
         todo |-> {}]

-----------------------------------------------------------------------------
(* Counting: the places of a set of rows, one element per place. *)

Places(S, qty) == Cardinality(UNION {{x} \X (1..qty[x]) : x \in S})

HeldHolds == {h \in Holds : hold[h].status = "held"}

HoldQty == [h \in Holds |-> hold[h].qty]

On(ch, S) == {h \in S : hold[h].channel = ch}

\* The places of channel ch that holds in status held stand for.
HeldPlaces(ch) == Places(On(ch, HeldHolds), HoldQty)

LineHolds(c) == {cart[c].line[k] : k \in Kinds} \ {None}

\* Reading the held holds of S with the quantities they have now.
Read(S) == [h \in Holds |-> IF h \in S \cap HeldHolds THEN hold[h].qty ELSE 0]

Seen(w) == {h \in Holds : task[w].seen[h] > 0}

\* Mutant: releaseHeldQuantity without `status: "held"` in its where clause.
AppliedBlindly(w) == Seen(w)

\* The holds of `Seen(w)` that are still held: the ones releaseHeldQuantity moves.
Applied(w) == Seen(w) \cap HeldHolds

-----------------------------------------------------------------------------
(* releaseHeldQuantity: leave `held` at most once, decrement by the quantity read. *)

ReleaseSeen(w, next) ==
    /\ hold' = [h \in Holds |-> IF h \in Applied(w) THEN [hold[h] EXCEPT !.status = next]
                                                    ELSE hold[h]]
    /\ pool' = [ch \in Channels |->
                   [pool[ch] EXCEPT !.held =
                       AtLeastZero(@ - Places(On(ch, Applied(w)), task[w].seen))]]

\* Holds in S become consumed and their places move from held to sold.
ConsumeHolds(S) ==
    /\ hold' = [h \in Holds |-> IF h \in S THEN [hold[h] EXCEPT !.status = "consumed"]
                                           ELSE hold[h]]
    /\ pool' = [ch \in Channels |->
                   LET n == Places(On(ch, S), HoldQty) IN
                   [sold |-> pool[ch].sold + n, held |-> AtLeastZero(pool[ch].held - n)]]

Available(ch) == ChannelAvailable(pool, ch, PoolCapacity[ch], Capacity)

Become(w, t) == task' = [task EXCEPT ![w] = t]

Finish(w) == Become(w, Idle)

Is(w, op) == task[w].op = op

Sweeping == \E w \in Workers : task[w].op \in {"sweep", "tally", "compare", "repair"}

\* The scheduling the environment grants to a request that reserves places ...
MayReserve == "add_during_sweep" \in Allow \/ ~Sweeping

\* ... and to a request of cart c.
MayTouch(c) == "parallel_tabs" \in Allow \/ \A w \in Workers : task[w].cart # c

-----------------------------------------------------------------------------
(* The cart: addToCart, removeCartItem, renewCartInPlace. *)

Usable(c) == cart[c].status = "open" /\ ~cart[c].lapsed

\* getOpenCart creates the row of a session that has no open cart.
AddRead(w, c, k, q) ==
    /\ Is(w, "idle") /\ MayTouch(c)
    /\ Usable(c) \/ cart[c].status = "none"
    /\ cart' = [cart EXCEPT ![c].status = "open"]
    /\ Become(w, [Idle EXCEPT !.op = "add", !.cart = c, !.kind = k, !.qty = q])
    /\ UNCHANGED <<pool, hold, order>>

\* A new line gets a hold of its own ...
NewLine(c, k, q, h) ==
    /\ hold[h].status = "none"
    /\ q <= MaxQty
    /\ hold' = [hold EXCEPT ![h] = [NoHold EXCEPT !.status = "held", !.qty = q]]
    /\ cart' = [cart EXCEPT ![c] = [@ EXCEPT !.lapsed = FALSE, !.line[k] = h, !.newest = h]]

\* ... a line that is still held grows and is extended.  One that is not cannot be
\* added to: its second hold would share the unique cartItemId.
GrowLine(c, q, h) ==
    /\ hold[h].status = "held"
    /\ hold[h].qty + q <= MaxQty
    /\ hold' = [hold EXCEPT ![h] = [@ EXCEPT !.qty = hold[h].qty + q, !.lapsed = FALSE]]
    /\ cart' = [cart EXCEPT ![c] = [@ EXCEPT !.lapsed = FALSE, !.newest = h]]

AddCommit(w, c, k) ==
    LET q == task[w].qty
        old == cart[c].line[k]
    IN  /\ Is(w, "add") /\ task[w].cart = c /\ task[w].kind = k
        /\ MayReserve
        /\ q <= Available("online")
        /\ \/ old = None /\ \E h \in Holds : NewLine(c, k, q, h)
           \/ old # None /\ GrowLine(c, q, old)
        /\ pool' = [pool EXCEPT !["online"].held = @ + q]
        /\ Finish(w)
        /\ UNCHANGED order

RemoveRead(w, c, k) ==
    /\ Is(w, "idle") /\ MayTouch(c) /\ Usable(c)
    /\ cart[c].line[k] # None
    /\ Become(w, [Idle EXCEPT !.op = "remove", !.cart = c, !.kind = k,
                              !.item = cart[c].line[k], !.seen = Read({cart[c].line[k]})])
    /\ UNCHANGED <<pool, hold, cart, order>>

\* Deleting an item another request already deleted fails the transaction.
RemoveCommit(w) ==
    LET t == task[w] IN
    /\ Is(w, "remove")
    /\ cart[t.cart].line[t.kind] = t.item
    /\ ReleaseSeen(w, "released")
    /\ cart' = [cart EXCEPT ![t.cart].line[t.kind] = None]
    /\ Finish(w)
    /\ UNCHANGED order

\* getOpenCart finds the session's cart lapsed or expired and reopens it in place:
\* the holds go in one transaction, the items and the cart row after it.
RenewRead(w, c) ==
    /\ Is(w, "idle") /\ MayTouch(c)
    /\ cart[c].status = "expired" \/ (cart[c].status = "open" /\ cart[c].lapsed)
    /\ Become(w, [Idle EXCEPT !.op = "renew", !.cart = c, !.seen = Read(LineHolds(c))])
    /\ UNCHANGED <<pool, hold, cart, order>>

RenewCommit(w) ==
    /\ Is(w, "renew")
    /\ ReleaseSeen(w, "released")
    /\ Become(w, [Idle EXCEPT !.op = "reopen", !.cart = task[w].cart])
    /\ UNCHANGED <<cart, order>>

RenewReopen(w) ==
    LET c == task[w].cart IN
    /\ Is(w, "reopen")
    /\ cart' = [cart EXCEPT ![c] = [NoCart EXCEPT !.status = "open", !.last = cart[c].last]]
    /\ Finish(w)
    /\ UNCHANGED <<pool, hold, order>>

-----------------------------------------------------------------------------
(* Checkout: createOrderFromCart. *)

CheckoutRead(w, c) ==
    /\ Is(w, "idle") /\ MayTouch(c) /\ Usable(c)
    /\ LineHolds(c) # {}
    /\ \A h \in LineHolds(c) : hold[h].status = "held" /\ ~hold[h].lapsed
    /\ Become(w, [Idle EXCEPT !.op = "checkout", !.cart = c, !.seen = Read(LineHolds(c))])
    /\ UNCHANGED <<pool, hold, cart, order>>

\* The capacity checks of the order transaction; the channel's own capacity is
\* compared as stored, and held as stored.
StockValid ==
    /\ pool["online"].sold + pool["online"].held <= PoolCapacity["online"]
    /\ SharedCommitted(pool) <= Capacity

\* The hold rows are bound as they were read: their status is written, not compared.
CheckoutCommit(w, o) ==
    LET t == task[w] IN
    /\ Is(w, "checkout")
    /\ order[o].pay = "none"
    /\ \A h \in Seen(w) : ~hold[h].lapsed
    /\ StockValid
    /\ order' = [order EXCEPT ![o] = [NoOrder EXCEPT !.pay = "pending", !.cart = t.cart,
                                         !.qty = Places(Seen(w), t.seen)]]
    /\ cart' = [cart EXCEPT ![t.cart] = [@ EXCEPT !.status = "converted", !.last = o]]
    /\ hold' = [h \in Holds |->
                   IF h \in Seen(w) THEN [hold[h] EXCEPT !.status = "held", !.order = o]
                                    ELSE hold[h]]
    /\ Become(w, [Idle EXCEPT !.op = "pay", !.cart = t.cart, !.order = o])
    /\ UNCHANGED pool

\* The provider accepted the payment and its row is stored.
PayStart(w) ==
    /\ Is(w, "pay")
    /\ order' = [order EXCEPT ![task[w].order].payRow = TRUE]
    /\ Finish(w)
    /\ UNCHANGED <<pool, hold, cart>>

\* Mutant: the holds of every order instead of this one's.
HoldsOfAnyOrder(o) == {h \in HeldHolds : hold[h].order # None}

\* releaseOrderHolds finds the held holds by order or by the order's cart.
OrderHolds(o) ==
    {h \in HeldHolds : \/ hold[h].order = o
                       \/ (order[o].cart # None /\ h \in LineHolds(order[o].cart))}

PayStartFails(w) ==
    /\ Is(w, "pay")
    /\ Become(w, [task[w] EXCEPT !.op = "compensate", !.seen = Read(OrderHolds(task[w].order))])
    /\ UNCHANGED <<pool, hold, cart, order>>

CompensateCommit(w) ==
    /\ Is(w, "compensate")
    /\ ReleaseSeen(w, "released")
    /\ Become(w, [task[w] EXCEPT !.op = "close", !.seen = Nothing])
    /\ UNCHANGED <<cart, order>>

CompensateClose(w) ==
    LET t == task[w] IN
    /\ Is(w, "close")
    /\ order' = [order EXCEPT ![t.order].pay = "canceled"]
    /\ cart' = [cart EXCEPT ![t.cart].status = "expired"]
    /\ Finish(w)
    /\ UNCHANGED <<pool, hold>>

-----------------------------------------------------------------------------
(* Counter sales: createBoxOfficeSale (cash) and createBoxOfficeTapSale. *)

BoxSale(o, q) ==
    /\ order[o].pay = "none"
    /\ q <= Available("box_office")
    /\ pool' = [pool EXCEPT !["box_office"].sold = @ + q]
    /\ order' = [order EXCEPT ![o] = [NoOrder EXCEPT !.pay = "paid", !.channel = "box_office",
                                         !.cash = TRUE, !.qty = q, !.payRow = TRUE]]
    /\ UNCHANGED <<hold, cart, task>>

TapSale(o, q) ==
    /\ order[o].pay = "none" /\ MayReserve
    /\ q <= Available("box_office")
    /\ pool' = [pool EXCEPT !["box_office"].held = @ + q]
    /\ \E h \in Holds :
          /\ hold[h].status = "none"
          /\ hold' = [hold EXCEPT ![h] = [NoHold EXCEPT !.status = "held", !.qty = q,
                                             !.channel = "box_office", !.order = o]]
    /\ order' = [order EXCEPT ![o] = [NoOrder EXCEPT !.pay = "pending", !.qty = q,
                                         !.channel = "box_office", !.payRow = TRUE]]
    /\ UNCHANGED <<cart, task>>

-----------------------------------------------------------------------------
(* Payment outcomes: processStripeWebhookEvent, fulfillPaidOrder, refunds. *)

PaymentSucceeds(o) ==
    /\ order[o].payRow
    /\ \/ order[o].pay = "pending"
       \/ (order[o].pay \in {"failed", "canceled"} /\ "late_success" \in Allow)
    /\ order' = [order EXCEPT ![o].pay = "paid"]
    /\ UNCHANGED <<pool, hold, cart, task>>

\* The holds of the order's cart and of the order itself, as they are now.
Fulfil(o) ==
    /\ order[o].pay = "paid" /\ order[o].payRow /\ ~order[o].issued
    /\ \A ch \in Channels :
          pool[ch].sold + Places(On(ch, OrderHolds(o)), HoldQty) <= MaxSold
    /\ ConsumeHolds(OrderHolds(o))
    /\ order' = [order EXCEPT ![o] =
                     [@ EXCEPT !.issued = TRUE, !.tickets = order[o].qty * TicketsPerPlace]]
    /\ UNCHANGED <<cart, task>>

\* A failed or cancelled payment, or the counter cancelling a Tap to Pay sale; the
\* order row is written and the holds are read before the transaction.
PaymentFails(w, o) ==
    /\ Is(w, "idle")
    /\ \/ order[o].pay = "pending"
       \/ (order[o].pay \in {"failed", "canceled"} /\ "late_cancel" \in Allow)
    /\ ~order[o].issued
    /\ order' = [order EXCEPT ![o].pay = "failed"]
    /\ Become(w, [Idle EXCEPT !.op = "release", !.order = o, !.seen = Read(OrderHolds(o))])
    /\ UNCHANGED <<pool, hold, cart>>

\* releaseSepaReservationAction: the order itself stays as it is.
ManualRelease(w, o) ==
    /\ "manual_release" \in Allow
    /\ Is(w, "idle")
    /\ order[o].pay \in {"pending", "failed", "canceled"} /\ order[o].channel = "online"
    /\ Become(w, [Idle EXCEPT !.op = "release", !.order = o, !.seen = Read(OrderHolds(o))])
    /\ UNCHANGED <<pool, hold, cart, order>>

ReleaseCommit(w) ==
    /\ Is(w, "release")
    /\ ReleaseSeen(w, "released")
    /\ Finish(w)
    /\ UNCHANGED <<cart, order>>

\* Mutant: tickets always go back to the online pool.
RestoreOnline(o) == "online"

\* pickRestoreInventoryPool: the pool of the order's own channel.
RestoreChannel(o) == order[o].channel

MayRestore(o) ==
    "double_restore" \in Allow
        \/ \A w \in Workers : ~(task[w].op \in {"refund", "void"} /\ task[w].order = o)

\* A full refund or a dispute of a card or debit payment: the transaction reads the
\* active tickets and only then locks the pools.
RefundRead(w, o) ==
    /\ Is(w, "idle") /\ MayRestore(o)
    /\ order[o].tickets > 0 /\ ~order[o].cash
    /\ order' = [order EXCEPT ![o].pay = "refunded"]
    /\ Become(w, [Idle EXCEPT !.op = "refund", !.order = o, !.qty = order[o].tickets])
    /\ UNCHANGED <<pool, hold, cart>>

\* voidBoxOfficeOrder of a whole sale takes every ticket that is not voided, the
\* cancelled ones too.
VoidRead(w, o) ==
    /\ Is(w, "idle") /\ MayRestore(o)
    /\ order[o].channel = "box_office" /\ order[o].issued /\ ~order[o].voided
    /\ order[o].cancelled = 0 \/ "void_refunded" \in Allow
    /\ Become(w, [Idle EXCEPT !.op = "void", !.order = o,
                              !.qty = order[o].tickets + order[o].cancelled])
    /\ UNCHANGED <<pool, hold, cart, order>>

\* cancelTicketsAndRestoreInventory: one unit of stock per ticket found.
RestoreCommit(w) ==
    LET t == task[w]
        left == IF t.op = "void" THEN 0 ELSE order[t.order].cancelled + order[t.order].tickets
    IN  /\ t.op \in {"refund", "void"}
        /\ pool' = [pool EXCEPT ![RestoreChannel(t.order)].sold = AtLeastZero(@ - t.qty)]
        /\ order' = [order EXCEPT ![t.order] =
                         [@ EXCEPT !.tickets = 0, !.cancelled = left,
                                   !.voided = order[t.order].voided \/ t.op = "void"]]
        /\ Finish(w)
        /\ UNCHANGED <<hold, cart>>

-----------------------------------------------------------------------------
(* The sweep: expireHolds, then reconcileHeldQuantities. *)

\* Mutant: hold.orderId is not looked at.
ProtectedByCart(h) ==
    \E c \in Carts : /\ h \in LineHolds(c) /\ cart[c].status = "converted"
                     /\ cart[c].last # None /\ order[cart[c].last].pay = "pending"

\* Mutant: a hold in any cart is protected.
ProtectedInCart(h) == hold[h].order # None \/ \E c \in Carts : h \in LineHolds(c)

\* A lapsed hold is protected when an order owns it or its converted cart's latest
\* order is still being paid.
Protected(h) ==
    \/ hold[h].order # None
    \/ \E c \in Carts : /\ h \in LineHolds(c) /\ cart[c].status = "converted"
                        /\ cart[c].last # None /\ order[cart[c].last].pay = "pending"

SweepRead(w) ==
    /\ Is(w, "idle")
    /\ Become(w, [Idle EXCEPT !.op = "sweep",
                     !.seen = Read({h \in HeldHolds : hold[h].lapsed /\ ~Protected(h)})])
    /\ UNCHANGED <<pool, hold, cart, order>>

\* Mutant: nothing is rebuilt when nothing expired.
TouchedOnly(touched) == touched

\* The pools to rebuild are the ones just touched, or all when none was.
PoolsToRebuild(touched) == IF touched = {} THEN Channels ELSE touched

SweepExpire(w) ==
    LET touched == {hold[h].channel : h \in Applied(w)} IN
    /\ Is(w, "sweep")
    /\ ReleaseSeen(w, "expired")
    /\ Become(w, [Idle EXCEPT !.op = "tally",
                              !.todo = PoolsToRebuild(touched)])
    /\ UNCHANGED <<cart, order>>

SweepTally(w) ==
    /\ Is(w, "tally")
    /\ Become(w, [task[w] EXCEPT !.op = "compare",
                                 !.tally = [ch \in Channels |-> HeldPlaces(ch)]])
    /\ UNCHANGED <<pool, hold, cart, order>>

SweepCompare(w) ==
    LET wrong == {ch \in task[w].todo : pool[ch].held # task[w].tally[ch]} IN
    /\ Is(w, "compare")
    /\ Become(w, IF wrong = {} THEN Idle ELSE [task[w] EXCEPT !.op = "repair", !.todo = wrong])
    /\ UNCHANGED <<pool, hold, cart, order>>

\* The counter is overwritten with the sum read earlier.
SweepRepair(w, ch) ==
    LET rest == task[w].todo \ {ch} IN
    /\ Is(w, "repair") /\ ch \in task[w].todo
    /\ pool' = [pool EXCEPT ![ch].held = task[w].tally[ch]]
    /\ Become(w, IF rest = {} THEN Idle ELSE [task[w] EXCEPT !.todo = rest])
    /\ UNCHANGED <<hold, cart, order>>

-----------------------------------------------------------------------------
(* Time and failures. *)

\* A hold's expiresAt passes.  The newest line of an open cart lapses with the cart.
LapseHold(h) ==
    /\ hold[h].status = "held" /\ ~hold[h].lapsed
    /\ \A c \in Carts : ~(cart[c].status = "open" /\ cart[c].newest = h)
    /\ hold' = [hold EXCEPT ![h].lapsed = TRUE]
    /\ UNCHANGED <<pool, cart, order, task>>

LapseCart(c) ==
    /\ Usable(c)
    /\ cart' = [cart EXCEPT ![c].lapsed = TRUE]
    /\ hold' = [h \in Holds |-> IF h \in LineHolds(c) \cap HeldHolds /\ hold[h].order = None
                                THEN [hold[h] EXCEPT !.lapsed = TRUE] ELSE hold[h]]
    /\ UNCHANGED <<pool, order, task>>

\* A request whose transaction fails leaves no trace; with crash, any process may stop.
GiveUp(w) ==
    /\ ~Is(w, "idle")
    /\ task[w].op \in {"add", "remove", "checkout"} \/ "crash" \in Allow
    /\ Finish(w)
    /\ UNCHANGED <<pool, hold, cart, order>>

-----------------------------------------------------------------------------
Init ==
    /\ pool = [ch \in Channels |-> [sold |-> 0, held |-> 0]]
    /\ hold = [h \in Holds |-> NoHold]
    /\ cart = [c \in Carts |-> NoCart]
    /\ order = [o \in Orders |-> NoOrder]
    /\ task = [w \in Workers |-> Idle]

CartStep(w) ==
    \/ \E c \in Carts, k \in Kinds, q \in 1..MaxQty : AddRead(w, c, k, q)
    \/ \E c \in Carts, k \in Kinds : AddCommit(w, c, k) \/ RemoveRead(w, c, k)
    \/ RemoveCommit(w)
    \/ \E c \in Carts : RenewRead(w, c)
    \/ RenewCommit(w)
    \/ RenewReopen(w)

CheckoutStep(w) ==
    \/ \E c \in Carts : CheckoutRead(w, c)
    \/ \E o \in Orders : CheckoutCommit(w, o)
    \/ PayStart(w)
    \/ PayStartFails(w)
    \/ CompensateCommit(w)
    \/ CompensateClose(w)

PaymentStep(w) ==
    \/ \E o \in Orders : \/ PaymentFails(w, o) \/ ManualRelease(w, o)
                           \/ RefundRead(w, o) \/ VoidRead(w, o)
    \/ ReleaseCommit(w)
    \/ RestoreCommit(w)

SweepStep(w) ==
    \/ SweepRead(w)
    \/ SweepExpire(w)
    \/ SweepTally(w)
    \/ SweepCompare(w)
    \/ \E ch \in Channels : SweepRepair(w, ch)

Next ==
    \/ \E w \in Workers : CartStep(w) \/ CheckoutStep(w) \/ PaymentStep(w)
                            \/ SweepStep(w) \/ GiveUp(w)
    \/ \E o \in Orders, q \in 1..MaxQty : BoxSale(o, q) \/ TapSale(o, q)
    \/ \E o \in Orders : PaymentSucceeds(o) \/ Fulfil(o)
    \/ \E h \in Holds : LapseHold(h)
    \/ \E c \in Carts : LapseCart(c)

Spec == Init /\ [][Next]_vars
=============================================================================
