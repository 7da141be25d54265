CONSTANTS
    Events = {e1, e2, e3}
    Workers = {w1, w2}
    Allow = {"overlap", "crash", "reconcile", "refund"}
    None = None
SPECIFICATION Spec
SYMMETRY Symmetric
CHECK_DEADLOCK FALSE
INVARIANTS
    TicketsNeedMoney
PROPERTIES
    IssuedOnce
