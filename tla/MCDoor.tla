------------------------------- MODULE MCDoor -------------------------------
(***************************************************************************)
(* Clerks, devices and retries together are too many for TLC, so every     *)
(* behaviour looks at one of three things: clerks that overlap; clerks     *)
(* that overlap beside a device, with one holder and one forward; a device *)
(* that times out and retries while no clerk is at work.                   *)
(***************************************************************************)
EXTENDS DoorProps

VARIABLE focus

Within ==
    \/ focus = "clerks" /\ UNCHANGED scanning
    \/ /\ focus = "gate"
       /\ ticket'.holder = Buyer /\ code'[MaxCodes] = "unused" /\ passes' = {}
       /\ faults' \subseteq {"overlap"}
    \/ focus = "retry" /\ UNCHANGED clerk

MCInit == Init /\ focus \in {"clerks", "gate", "retry"}

MCNext == Next /\ Within /\ UNCHANGED focus

MCSpec == MCInit /\ [][MCNext]_<<vars, focus>> /\ Fairness
=============================================================================
