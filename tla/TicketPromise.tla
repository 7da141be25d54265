---------------------------- MODULE TicketPromise ----------------------------
(***************************************************************************)
(* What an order promises its buyer and its organizer: tickets are issued  *)
(* for money received, once, and are revoked only when the money has been  *)
(* returned.                                                               *)
(***************************************************************************)
VARIABLES
    money,    \* "due", "received" or "returned"
    tickets   \* "none", "active" or "cancelled"

Init == money = "due" /\ tickets = "none"

Receive == money = "due" /\ money' = "received" /\ UNCHANGED tickets

Return == money = "received" /\ money' = "returned" /\ UNCHANGED tickets

\* Money may be returned while the tickets are still being issued.
Issue == money # "due" /\ tickets = "none" /\ tickets' = "active" /\ UNCHANGED money

Revoke == money = "returned" /\ tickets = "active" /\ tickets' = "cancelled" /\ UNCHANGED money

Next == Receive \/ Return \/ Issue \/ Revoke

Spec == Init /\ [][Next]_<<money, tickets>>

\* Who has paid gets tickets, unless the money is returned.
Served == money = "received" ~> tickets # "none" \/ money = "returned"
==============================================================================
