------------------------------- MODULE Seats -------------------------------
(***************************************************************************)
(* The seats of one event: carts that pick them, box-office sales, the     *)
(* sweep of lapsed holds, the scrub of a cart, release, fulfilment,        *)
(* cancellation and locking.                                               *)
(*                                                                         *)
(* Every transaction is a step.  What the sweep, the scrub and the         *)
(* fulfilment read before they write is kept between two steps.            *)
(***************************************************************************)
EXTENDS Naturals, FiniteSets

CONSTANTS
    Seats,
    Carts,   \* online carts, each with one line of the category
    Taps,    \* box-office sales
    MaxQty,  \* bound on the tickets of a line
    Allow,   \* what may happen beside the plain run of things
    None

Sales == Carts \cup Taps

\* stale: something happens between the read and the write of sweep, scrub or mint.
\* late:  a payment succeeds after its order has been released.
\* lapse: the seats of a box-office order lapse before it is settled.
\* again: an order that has been released is released once more.
\* own:   a cart picks a seat again that it has let lapse.
Faults == {"stale", "late", "lapse", "again", "own"}

ASSUME ConstantsAssumption ==
    /\ IsFiniteSet(Seats) /\ Carts \cap Taps = {} /\ None \notin Sales
    /\ MaxQty \in Nat /\ Allow \subseteq Faults

VARIABLES
    seat,    \* event_seats
    sale,    \* the line and the hold of each sale, and its order
    want,    \* seats in the contractSnapshot of each box-office order
    ticket,  \* what has been minted, or is about to be
    scrub,   \* the seats that a scrub under way has found valid
    sweep,   \* what the sweep has found
    faults   \* what has happened

vars == <<seat, sale, want, ticket, scrub, sweep, faults>>

-----------------------------------------------------------------------------
Status == {"available", "held", "sold"}

\* owner is the cart item; a box office holds seats without one.
Seat == [status: Status, owner: Carts \cup {None}, lapsed: BOOLEAN, locked: BOOLEAN,
         sold: Sales \cup {None}]

State == {"open", "pending", "paid", "minting", "fulfilled", "released", "cancelled"}

\* qty is the line's quantity, ordered the order item's.
Sale == [state: State, qty: 0..MaxQty, ordered: 0..MaxQty, hold: {"none", "held", "gone"},
         lapsed: BOOLEAN]

Held(x) == seat[x].status = "held"
Lapsed(x) == Held(x) /\ seat[x].lapsed
Owned(c) == {x \in Seats : seat[x].owner = c}
Bound(c) == sale[c].state # "open"

Free(r) == [r EXCEPT !.status = "available", !.owner = None, !.lapsed = FALSE, !.sold = None]

\* The seats in xs that are still held become available.
Freed(xs) == [x \in Seats |-> IF x \in xs /\ Held(x) THEN Free(seat[x]) ELSE seat[x]]

\* releaseHeldQuantity: only a hold that is still held.
Release(r) == [r EXCEPT !.hold = IF @ = "held" THEN "gone" ELSE @]

\* Sweep, scrubs and mints between their read and their write.
Midway == {c \in Carts : scrub[c] # None} \cup {s \in Sales : sale[s].state = "minting"}
            \cup (IF sweep = None THEN {} ELSE {None})

\* The step of somebody who is not in me, and what it counts as.
Step(me, fs) ==
    LET all == fs \cup (IF Midway \subseteq me THEN {} ELSE {"stale"})
    IN  all \subseteq Allow /\ faults' = faults \cup all

-----------------------------------------------------------------------------
(* Claims: addToCart and claimBoxOfficeSeats. *)

\* isSeatBookable, with expired holds to be reclaimed.
Bookable(x) == ~seat[x].locked /\ (seat[x].status = "available" \/ Lapsed(x))

\* Mutant: orders are not protected.
ProtectedNever(c) == FALSE

\* Never from an order: its hold is bound, whatever its payment.
Protected(c) == Bound(c) /\ sale[c].hold = "held"

\* Mutant: a line loses its seats before they lapse.
LosersEarly(xs) == {c \in Carts : ~Protected(c) /\ \E x \in xs : Held(x) /\ seat[x].owner = c}

\* Lines that lose all of their seats because one in xs has lapsed.
Losers(xs) == {c \in Carts : ~Protected(c) /\ \E x \in xs : Lapsed(x) /\ seat[x].owner = c}

\* reclaimExpiredSeatsForClaim.
Reclaimed(xs) ==
    Freed({x \in xs : Lapsed(x) /\ seat[x].owner = None} \cup UNION {Owned(c) : c \in Losers(xs)})

\* claimSeatsAtomically, or the transaction is rolled back.
Claim(xs, owner) ==
    /\ \A x \in xs : Bookable(x) /\ Reclaimed(xs)[x].status = "available"
    /\ seat' = [x \in Seats |->
                  IF x \in xs
                  THEN [Free(seat[x]) EXCEPT !.status = "held", !.owner = owner]
                  ELSE Reclaimed(xs)[x]]

\* The holds of the losers go with their seats.
Unhold(cs) == [s \in Sales |-> IF s \in cs THEN Release(sale[s]) ELSE sale[s]]

\* addToCart: a new line and its hold, or more for an old one that is still held.
\* A cart that has lapsed is emptied first.
Pick(c, xs) ==
    /\ sale[c].state = "open"
    /\ sale[c].qty > 0 => sale[c].hold = "held" /\ ~sale[c].lapsed
    /\ sale[c].qty + Cardinality(xs) <= MaxQty
    /\ Claim(xs, c)
    /\ sale' = [Unhold(Losers(xs)) EXCEPT
                  ![c] = [@ EXCEPT !.qty = sale[c].qty + Cardinality(xs), !.lapsed = FALSE,
                                   !.hold = IF c \in Losers(xs) THEN "gone" ELSE "held"]]
    /\ Step({}, IF c \in Losers(xs) THEN {"own"} ELSE {})
    /\ UNCHANGED <<want, ticket, scrub, sweep>>

\* A tap sale waits for its payment, a counter sale is paid; MaxQty bounds both.
Sell(t, xs, state) ==
    /\ sale[t].state = "open" /\ Cardinality(xs) <= MaxQty
    /\ Claim(xs, None)
    /\ want' = [want EXCEPT ![t] = xs]
    /\ sale' = [Unhold(Losers(xs)) EXCEPT
                  ![t] = [state |-> state, qty |-> 0, ordered |-> Cardinality(xs),
                          hold |-> IF state = "paid" THEN "none" ELSE "held", lapsed |-> FALSE]]
    /\ Step({}, {})
    /\ UNCHANGED <<ticket, scrub, sweep>>

\* removeCartItem, and renewCartInPlace once the cart has lapsed.
Empty(c) ==
    /\ sale[c].state = "open" /\ sale[c].qty > 0
    /\ seat' = Freed(Owned(c))
    /\ sale' = [sale EXCEPT ![c] = [state |-> "open", qty |-> 0, ordered |-> 0, hold |-> "none",
                                    lapsed |-> FALSE]]
    /\ Step({}, {})
    /\ UNCHANGED <<want, ticket, scrub, sweep>>

-----------------------------------------------------------------------------
(* scrubCartSeatHolds. *)

\* isSeatHeldByOwner.
Valid(c) == {x \in Owned(c) : Held(x) /\ ~seat[x].lapsed /\ ~seat[x].locked}

Least(m, n) == IF m <= n THEN m ELSE n

\* The read, outside of the transaction; a cart in order is left alone.
ScrubRead(c) ==
    /\ sale[c].state = "open" /\ sale[c].qty > 0 /\ scrub[c] = None
    /\ Valid(c) # Owned(c) \/ Cardinality(Valid(c)) < sale[c].qty
    /\ scrub' = [scrub EXCEPT ![c] = Valid(c)]
    /\ Step({}, {})
    /\ UNCHANGED <<seat, sale, want, ticket, sweep>>

\* The line shrinks to its valid seats or is deleted.
ScrubWrite(c) ==
    /\ scrub[c] # None
    /\ seat' = Freed(Owned(c) \ scrub[c])
    /\ sale' = [sale EXCEPT
                  ![c] = IF scrub[c] = {} THEN [Release(@) EXCEPT !.qty = 0]
                         ELSE [@ EXCEPT !.qty = Least(Cardinality(scrub[c]), sale[c].qty)]]
    /\ scrub' = [scrub EXCEPT ![c] = None]
    /\ Step({c}, {})
    /\ UNCHANGED <<want, ticket, sweep>>

-----------------------------------------------------------------------------
(* Orders: checkout, settlement, releaseOrderHolds, fulfillPaidOrder. *)

\* As many valid seats as tickets, none of them locked.
SeatsSuffice(c) ==
    Cardinality(Valid(c)) >= sale[c].qty /\ \A x \in Owned(c) : Held(x) => ~seat[x].locked

\* The seats are held for the payment.
Checkout(c) ==
    /\ sale[c].state = "open" /\ sale[c].qty > 0
    /\ sale[c].hold = "held" /\ ~sale[c].lapsed
    /\ SeatsSuffice(c)
    /\ sale' = [sale EXCEPT ![c] = [@ EXCEPT !.state = "pending", !.ordered = sale[c].qty]]
    /\ seat' = [x \in Seats |-> IF x \in Owned(c) /\ Held(x)
                                THEN [seat[x] EXCEPT !.lapsed = FALSE] ELSE seat[x]]
    /\ Step({}, {})
    /\ UNCHANGED <<want, ticket, scrub, sweep>>

Pay(s) ==
    /\ sale[s].state \in {"pending", "released"}
    /\ sale' = [sale EXCEPT ![s].state = "paid"]
    /\ Step({}, IF sale[s].state = "released" THEN {"late"} ELSE {})
    /\ UNCHANGED <<seat, want, ticket, scrub, sweep>>

\* A cart's seats go with its hold; a box-office order's without asking who holds
\* them by now.
ReleasedSeats(s) ==
    IF s \in Taps THEN want[s] ELSE IF sale[s].hold = "held" THEN Owned(s) ELSE {}

\* Failed, cancelled at the provider, cancelled by staff: each of them releases.
ReleaseOrder(s) ==
    /\ sale[s].state \in {"pending", "released"}
    /\ seat' = Freed(ReleasedSeats(s))
    /\ sale' = [sale EXCEPT ![s] = [Release(@) EXCEPT !.state = "released"]]
    /\ Step({}, IF sale[s].state = "released" THEN {"again"} ELSE {})
    /\ UNCHANGED <<want, ticket, scrub, sweep>>

\* The seats of the cart's line, or those of the snapshot that are held.
Assigned(s) == IF s \in Carts THEN Owned(s) ELSE {x \in want[s] : Held(x)}

\* A ticket that finds no seat is minted without one.
MintRead(s) ==
    /\ sale[s].state = "paid"
    /\ \E xs \in SUBSET Assigned(s) :
         /\ Cardinality(xs) = Least(sale[s].ordered, Cardinality(Assigned(s)))
         /\ ticket' = [ticket EXCEPT ![s] = xs]
    /\ sale' = [sale EXCEPT ![s].state = "minting"]
    /\ Step({}, {})
    /\ UNCHANGED <<seat, want, scrub, sweep>>

\* Mutant: the seats are marked whatever their status.
MarkAny(x) == TRUE

\* markSeatsSoldFromHeld asks for a held seat, not whose it is.
MayMark(x) == Held(x)

\* A conflict rolls everything back, to be tried again.
MintWrite(s) ==
    /\ sale[s].state = "minting"
    /\ IF \A x \in ticket[s] : MayMark(x)
       THEN /\ seat' = [x \in Seats |->
                          IF x \in ticket[s]
                          THEN [Free(seat[x]) EXCEPT !.status = "sold", !.sold = s]
                          ELSE seat[x]]
            /\ sale' = [sale EXCEPT ![s] = [Release(@) EXCEPT !.state = "fulfilled"]]
            /\ UNCHANGED ticket
       ELSE /\ sale' = [sale EXCEPT ![s].state = "paid"]
            /\ ticket' = [ticket EXCEPT ![s] = {}]
            /\ UNCHANGED seat
    /\ Step({s}, {})
    /\ UNCHANGED <<want, scrub, sweep>>

\* Mutant: the seats of the order become available, not those of its tickets.
RestoredByOrder(s) == Owned(s) \cup (IF s \in Taps THEN want[s] ELSE {})

Restored(s) == {x \in Seats : seat[x].sold = s}

\* cancelTicketsAndRestoreInventory: refund, dispute, void.
Cancel(s) ==
    /\ sale[s].state = "fulfilled"
    /\ sale' = [sale EXCEPT ![s].state = "cancelled"]
    /\ ticket' = [ticket EXCEPT ![s] = {}]
    /\ seat' = [x \in Seats |-> IF x \in Restored(s) THEN Free(seat[x]) ELSE seat[x]]
    /\ Step({}, {})
    /\ UNCHANGED <<want, scrub, sweep>>

-----------------------------------------------------------------------------
(* expireSeatHolds: the read, then one transaction. *)

\* Mutant: the sweep only frees seats without a line.
FoundOrphans == [seats |-> {x \in Seats : Lapsed(x) /\ seat[x].owner = None}, lines |-> {}]

\* Seats without a line, and the lines of lapsed seats that no order protects.
Found == [seats |-> {x \in Seats : Lapsed(x) /\ seat[x].owner = None}, lines |-> Losers(Seats)]

SweepRead ==
    /\ sweep = None /\ \E x \in Seats : Lapsed(x)
    /\ sweep' = Found
    /\ Step({}, {})
    /\ UNCHANGED <<seat, sale, want, ticket, scrub>>

\* Mutant: only the seats that have lapsed, the hold of the line stays.
SweptOnlySeats == UNCHANGED sale

SweptHolds == sale' = Unhold(sweep.lines)

SweepWrite ==
    /\ sweep # None
    /\ seat' = Freed(sweep.seats \cup UNION {Owned(c) : c \in sweep.lines})
    /\ SweptHolds
    /\ sweep' = None
    /\ Step({None}, {})
    /\ UNCHANGED <<want, ticket, scrub>>

-----------------------------------------------------------------------------
(* Staff lock and unlock seats; time. *)

MayLock(x) == seat[x].status = "available"

Lock(x) ==
    /\ MayLock(x) /\ ~seat[x].locked
    /\ seat' = [seat EXCEPT ![x].locked = TRUE]
    /\ Step({}, {})
    /\ UNCHANGED <<sale, want, ticket, scrub, sweep>>

Unlock(x) ==
    /\ seat[x].status # "sold" /\ seat[x].locked
    /\ seat' = [seat EXCEPT ![x].locked = FALSE]
    /\ Step({}, {})
    /\ UNCHANGED <<sale, want, ticket, scrub, sweep>>

\* Box-office orders that count on a seat.
Awaited(x) == \E t \in Taps : x \in want[t] /\ sale[t].state \in {"pending", "paid", "minting"}

Lapse(x) ==
    /\ Held(x) /\ ~seat[x].lapsed
    /\ seat' = [seat EXCEPT ![x].lapsed = TRUE]
    /\ Step(Sales \cup {None}, IF seat[x].owner = None /\ Awaited(x) THEN {"lapse"} ELSE {})
    /\ UNCHANGED <<sale, want, ticket, scrub, sweep>>

\* A hold is renewed with every pick and lapses after all of its seats.
HoldLapses(c) ==
    /\ sale[c].state = "open" /\ sale[c].qty > 0 /\ ~sale[c].lapsed
    /\ \A x \in Owned(c) : seat[x].lapsed
    /\ sale' = [sale EXCEPT ![c].lapsed = TRUE]
    /\ Step(Sales \cup {None}, {})
    /\ UNCHANGED <<seat, want, ticket, scrub, sweep>>

-----------------------------------------------------------------------------
Init ==
    /\ seat = [x \in Seats |-> [status |-> "available", owner |-> None, lapsed |-> FALSE,
                                locked |-> FALSE, sold |-> None]]
    /\ sale = [s \in Sales |-> [state |-> "open", qty |-> 0, ordered |-> 0, hold |-> "none",
                                lapsed |-> FALSE]]
    /\ want = [t \in Taps |-> {}]
    /\ ticket = [s \in Sales |-> {}]
    /\ scrub = [c \in Carts |-> None]
    /\ sweep = None
    /\ faults = {}

Settle(s) == Pay(s) \/ ReleaseOrder(s)
Mint(s) == MintRead(s) \/ MintWrite(s)
Sweep == SweepRead \/ SweepWrite

Next ==
    \/ \E c \in Carts :
         \/ \E xs \in SUBSET Seats \ {{}} : Pick(c, xs)
         \/ Empty(c) \/ ScrubRead(c) \/ ScrubWrite(c) \/ Checkout(c) \/ HoldLapses(c)
    \/ \E t \in Taps, xs \in SUBSET Seats \ {{}}, state \in {"pending", "paid"} :
         Sell(t, xs, state)
    \/ \E s \in Sales : Settle(s) \/ Mint(s) \/ Cancel(s)
    \/ \E x \in Seats : Lock(x) \/ Unlock(x) \/ Lapse(x)
    \/ Sweep

Spec == Init /\ [][Next]_vars

\* Time passes and the cron job sweeps; payments settle, paid orders are minted.
Fairness ==
    /\ \A x \in Seats : WF_vars(Lapse(x))
    /\ WF_vars(Sweep)
    /\ \A c \in Carts : WF_vars(ScrubWrite(c))
    /\ \A s \in Sales : WF_vars(sale[s].state = "pending" /\ Settle(s)) /\ WF_vars(Mint(s))

FairSpec == Spec /\ Fairness
=============================================================================
