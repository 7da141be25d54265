----------------------------- MODULE SeatsProps -----------------------------
(* What seats promise to buyers, staff and each other. *)
EXTENDS Seats

\* Every row and everything under way has its type.
TypeOK ==
    /\ seat \in [Seats -> Seat]
    /\ sale \in [Sales -> Sale]
    /\ want \in [Taps -> SUBSET Seats]
    /\ ticket \in [Sales -> SUBSET Seats]
    /\ scrub \in [Carts -> {None} \cup SUBSET Seats]
    /\ sweep = None \/ (sweep.seats \subseteq Seats /\ sweep.lines \subseteq Carts)
    /\ faults \subseteq Allow

Minted(s) == sale[s].state = "fulfilled"

\* No two valid tickets share a seat, whatever happens between the reads and the
\* writes of carts, box offices, sweeps and mints.
SeatOnce == \A s, t \in Sales : Minted(s) /\ Minted(t) /\ s # t => ticket[s] \cap ticket[t] = {}

\* A seat is sold exactly as long as a valid ticket is for it: none is lost to a
\* cancellation, none is offered while a guest has it on the ticket.
SoldIsTicketed ==
    \A x \in Seats : seat[x].status = "sold"
                       <=> \E s \in Sales : Minted(s) /\ x \in ticket[s]

\* Seats and hold of an open cart live and die together: no seat is held for a line
\* without a hold, and no line with a hold has fewer seats than tickets.
SeatsFollowHold ==
    faults = {} => \A c \in Carts : sale[c].state = "open" =>
        IF sale[c].hold = "held" THEN Cardinality(Owned(c)) = sale[c].qty ELSE Owned(c) = {}

\* The seats an order counts on.
Reserved(s) ==
    IF s \in Carts THEN Owned(s) ELSE {x \in want[s] : Held(x) /\ seat[x].owner = None}

\* From the checkout or the counter on, an order has all of its seats until each of
\* its tickets has one.
OrderIsSeated ==
    faults = {} => \A s \in Sales :
        /\ sale[s].state \in {"pending", "paid", "minting"} =>
             Cardinality(Reserved(s)) = sale[s].ordered
        /\ Minted(s) => Cardinality(ticket[s]) = sale[s].ordered

\* Nobody loses a seat to somebody else's release: while none of its seats has
\* lapsed, a line loses one only to its own buyer or its own order.
KeptWhileFresh ==
    [][faults' = {} => \A c \in Carts : \A x \in Valid(c) :
          Valid(c) = Owned(c) /\ sale[c].qty > 0 =>
              \/ seat'[x].owner = c
              \/ sale'[c].qty # sale[c].qty \/ sale'[c].state # sale[c].state]_vars

\* No seat stays held for ever: it is sold, or free for others again.
NoSeatLost == \A x \in Seats : Held(x) ~> ~Held(x)
=============================================================================
