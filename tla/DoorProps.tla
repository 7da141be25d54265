------------------------------ MODULE DoorProps ------------------------------
(* What codes, forwarding, cancellation and scanning promise. *)
EXTENDS Door

\* Every row, clerk, device and request has its type.
TypeOK ==
    /\ ticket \in Ticket
    /\ code \in [Codes -> {"unused", "active", "revoked"}]
    /\ hands \in [People -> SUBSET Codes]
    /\ passes \subseteq People
    /\ recent \in 0..Limit /\ open \in BOOLEAN /\ inside \in Int
    /\ clerk \in [Clerks -> Clerk]
    /\ device \in [Devices -> Device]
    /\ request \in [Devices -> [Attempts -> Request]]
    /\ faults \subseteq Allow

\* No silent double entry: with one ticket at most one guest more has come in than
\* gone out, and the ticket's presence says which, whatever devices scan it at the
\* same time, time out and retry.
OneGuestPerTicket == inside = IF ticket.presence = "in" THEN 1 ELSE 0

\* A valid ticket always has a code that opens the door, at every step of a forward
\* and after a crash in it.
ValidTicketHasCode == ticket.status = "active" => Active # {}

\* Once a forward is through, nobody but the holder has a code that opens the door.
EntryOnlyForHolder == Busy = {} => \A p \in People : ~Holds(p) => hands[p] \cap Active = {}

\* The same, while none of the faults has happened.
EntryOnlyForHolderCalm == faults = {} => EntryOnlyForHolder

\* A cancelled ticket lets nobody in or out for long: scans under way when it is
\* cancelled end, and no later one succeeds, even if a forward under way has issued
\* it a new code.
CancelledIsFinal ==
    <>(ticket.status # "active") => <>[][UNCHANGED ticket.presence]_vars
=============================================================================
