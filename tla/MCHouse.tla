------------------------------ MODULE MCHouse ------------------------------
(***************************************************************************)
(* Four machines side by side, one of them at work in a behaviour: seats,  *)
(* the sale status of an event, a block of tickets at an agency, and a     *)
(* payout.  TLC gets the same sets for carts, requests and importers, and  *)
(* for seats and printed tickets, so that two permutations serve them all. *)
(*                                                                         *)
(* Stale reads and the other faults together are too many seats for TLC,   *)
(* so every behaviour has either the one or at most two of the others.     *)
(***************************************************************************)
EXTENDS SeatsProps, SaleGate, Consignment, Payout, TLC

CONSTANTS c1, c2, x1, x2

VARIABLE focus

MCKindOf == [charge |-> "payment", fee |-> "fee"]
MCNetOf == [charge |-> 100, fee |-> -3]

Within ==
    \/ focus = "stale" /\ faults' \subseteq {"stale"} /\ Cardinality(Midway') <= 1
         /\ \A x \in Seats : ~seat'[x].locked
    \/ focus = "mints" /\ faults' \subseteq {"stale", "lapse"}
         /\ sweep' = None /\ \A c \in Carts : scrub'[c] = None
         /\ \A x \in Seats : ~seat'[x].locked /\ (seat'[x].lapsed => seat'[x].owner = None)
    \/ focus = "others" /\ "stale" \notin faults' /\ Cardinality(faults') <= 2

MCInit ==
    /\ Init /\ GateInit /\ ConsignInit /\ PayoutInit
    /\ focus \in {"stale", "mints", "others", "gate", "block", "payout"}

MCNext ==
    /\ UNCHANGED focus
    /\ \/ Next /\ Within /\ UNCHANGED <<gateVars, consignVars, payoutVars>>
       \/ focus = "gate" /\ GateNext /\ Cardinality(mishaps') <= 1 /\ UNCHANGED <<vars, consignVars, payoutVars>>
       \/ focus = "block" /\ ConsignNext /\ UNCHANGED <<vars, gateVars, payoutVars>>
       \/ focus = "payout" /\ PayoutNext /\ UNCHANGED <<vars, gateVars, consignVars>>

MCSpec == MCInit /\ [][MCNext]_<<vars, gateVars, consignVars, payoutVars, focus>>

Symmetric == Permutations(Carts) \cup Permutations(Seats)
=============================================================================
