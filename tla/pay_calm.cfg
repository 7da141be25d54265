CONSTANTS
    Events = {e1, e2, e3, e4}
    Workers = {w1}
    Allow = {}
    None = None
SPECIFICATION FairSpec
CHECK_DEADLOCK FALSE
INVARIANTS
    ReturnedIsVoid
PROPERTIES
    KeepsPromise
    Served
