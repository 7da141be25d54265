--------------------------- MODULE InventoryProps ---------------------------
(***************************************************************************)
(* What the inventory promises: the counters cover the holds, the category *)
(* is never oversold, and a hold leaves `held` once and for the right      *)
(* reason.                                                                 *)
(***************************************************************************)
EXTENDS Inventory

\* Every row and every snapshot has its type.
TypeOK ==
    /\ pool \in [Channels -> [sold: Nat, held: Nat]]
    /\ hold \in [Holds -> Hold]
    /\ cart \in [Carts -> Cart]
    /\ order \in [Orders -> Order]
    /\ task \in [Workers -> Task]

\* The held counter of a channel never falls below the places its held holds stand
\* for, whatever sweep, removal, renewal and payment failure do to the same holds:
\* an undercount is what lets the availability check grant a place twice.
HeldCoversHolds == \A ch \in Channels : pool[ch].held >= HeldPlaces(ch)

\* Places whose tickets admit somebody, and places that a cash sale has taken from
\* stock but fulfilment has not minted tickets for.
Admitting == Places(Orders, [o \in Orders |-> order[o].tickets \div TicketsPerPlace])
Unissued == {o \in Orders : order[o].cash /\ ~order[o].issued}
UnissuedPlaces == Places(Unissued, [o \in Orders |-> order[o].qty])

\* The category is never oversold: places with active tickets, cash sales about to be
\* minted and places held for carts and orders fit the category, over both channels.
NeverOversold ==
    Admitting + UnissuedPlaces + HeldPlaces("online") + HeldPlaces("box_office")
        <= Capacity

\* The sold counters are exactly the places with tickets that admit somebody: no ticket
\* without stock behind it, no stock lost or invented by a refund, dispute or void.
SoldIsTickets ==
    pool["online"].sold + pool["box_office"].sold = Admitting + UnissuedPlaces

\* A pending order that can still be paid, and that nobody is releasing, owns as many
\* held places as it has tickets to mint.
Releasing(o) == \E w \in Workers : task[w].op \in {"release", "compensate", "close"}
                                       /\ task[w].order = o
BoundPlaces(o) == Places({h \in HeldHolds : hold[h].order = o}, HoldQty)

PendingOrderBacked ==
    \A o \in Orders : order[o].pay = "pending" /\ order[o].payRow /\ ~Releasing(o)
                        => BoundPlaces(o) = order[o].qty

\* A hold leaves `held` at most once: what was expired, released or consumed never
\* comes back, not even through a checkout that read it while it was still held.
LeavesHeldOnce ==
    [][\A h \in Holds : hold[h].status \in {"expired", "released", "consumed"}
                           => hold'[h].status = hold[h].status]_vars

\* A hold that an order owns is never expired by a sweep, however long before its
\* transaction the sweep read it.
BoundHoldNeverExpires ==
    [][\A h \in Holds : hold[h].order # None /\ hold[h].status = "held"
                           => hold'[h].status # "expired"]_vars

\* What a sweep has read stays true until it expires it, as long as no place is reserved
\* meanwhile: the hold is lapsed, and if it is still held, no order has bound it.
Condemned(h) == /\ hold[h].status # "none" /\ hold[h].lapsed
                /\ hold[h].status = "held" => hold[h].order = None

SweepIsCurrent == \A w \in Workers : Is(w, "sweep") => \A h \in Seen(w) : Condemned(h)

\* A line that has lapsed and that no order owns gives its places back in the end,
\* unless the customer adds to it or orders it.
Overdue(h) == hold[h].status = "held" /\ hold[h].lapsed /\ hold[h].order = None

LapsedLineIsFreed == \A h \in Holds : Overdue(h) ~> ~Overdue(h)

\* Whatever the races did to the held counters, once the traffic has died down the
\* sweeps leave them equal to the places held.
CountersHeal == <>[](\A ch \in Channels : pool[ch].held = HeldPlaces(ch))
-----------------------------------------------------------------------------
(* The cron job and the cart traffic start sweeps again and again, each in a         *)
(* function instance of its own: requests never starve them, which in a model with   *)
(* a bounded set of workers takes strong fairness.  A sweep, a release or a checkout *)
(* that has begun goes on to its end.                                                *)
Fairness ==
    \A w \in Workers : /\ SF_vars(SweepRead(w))
                       /\ WF_vars(SweepStep(w) /\ ~Is(w, "idle"))
                       /\ WF_vars(ReleaseCommit(w) \/ RestoreCommit(w))
                       /\ WF_vars(RenewCommit(w) \/ RenewReopen(w))
                       /\ WF_vars(CompensateCommit(w) \/ CompensateClose(w))
                       /\ WF_vars(PayStart(w) \/ PayStartFails(w))
                       /\ WF_vars(GiveUp(w))

FairSpec == Spec /\ Fairness
=============================================================================
