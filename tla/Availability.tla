---------------------------- MODULE Availability ----------------------------
(***************************************************************************)
(* The stock arithmetic of one ticket category: how many places its two    *)
(* channel pools have committed and how many a channel may still grant     *)
(* (lib/commerce/inventory-availability.ts).  A pool is a record           *)
(* [sold, held]; the operators take the function from channels to pools    *)
(* that lockCategoryInventoryPools returns.                                *)
(***************************************************************************)
EXTENDS Integers

Channels == {"online", "box_office"}

\* Math.max(0, n), and the `held_quantity < 0` repair of hold-quantity.ts.
AtLeastZero(n) == IF n > 0 THEN n ELSE 0

Lesser(m, n) == IF m <= n THEN m ELSE n

PoolCommitted(p) == p.sold + AtLeastZero(p.held)

\* Mutant: each channel looks at its own pool only.
OnlineCommitted(pools) == PoolCommitted(pools["online"])

\* sharedCommittedQuantity: what all channels together have sold or hold.
SharedCommitted(pools) ==
    PoolCommitted(pools["online"]) + PoolCommitted(pools["box_office"])

\* sharedRemainingQuantity over categoryInventoryCapacity.
SharedRemaining(pools, capacity) ==
    AtLeastZero(AtLeastZero(capacity) - SharedCommitted(pools))

\* A pool of capacity 0 under a positive category capacity is stale and stands
\* for the whole category.
EffectivePoolCapacity(poolCapacity, capacity) ==
    IF poolCapacity <= 0 /\ capacity > 0 THEN capacity ELSE poolCapacity

\* channelAvailableQuantity.
ChannelAvailable(pools, channel, poolCapacity, capacity) ==
    Lesser(AtLeastZero(Lesser(EffectivePoolCapacity(poolCapacity, capacity), capacity)
                           - PoolCommitted(pools[channel])),
           SharedRemaining(pools, capacity))
=============================================================================
