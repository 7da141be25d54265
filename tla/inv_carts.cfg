SPECIFICATION Spec
CONSTANTS
    c1 = c1  c2 = c2  h1 = h1  h2 = h2  h3 = h3  o1 = o1  o2 = o2  w1 = w1  w2 = w2
    None = None
    Carts = {c1, c2}
    Kinds = {full, reduced}
    Holds = {h1, h2}
    Orders = {o1}
    Workers = {w1, w2}
    Capacity = 2
    TicketsPerPlace = 1
    PoolCapacity <- TwoPools
    MaxQty = 2
    MaxSold = 4
    Allow = {}
SYMMETRY Symmetric
CHECK_DEADLOCK FALSE
INVARIANTS HeldCoversHolds NeverOversold
PROPERTIES BoundHoldNeverExpires
