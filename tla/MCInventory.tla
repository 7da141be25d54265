---------------------------- MODULE MCInventory ----------------------------
EXTENDS InventoryProps, TLC

CONSTANTS c1, c2, h1, h2, h3, o1, o2, w1, w2

TwoPools == [ch \in Channels |-> Capacity]

Symmetric == Permutations(Carts) \cup Permutations(Kinds) \cup Permutations(Holds)
                \cup Permutations(Orders) \cup Permutations(Workers)
=============================================================================
