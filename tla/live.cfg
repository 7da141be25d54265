CONSTANTS
    Seats = {1, 2}
    Carts = {c1}
    Taps = {t1}
    MaxQty = 2
    Allow = {"stale"}
    None = None
    TapSales = {s1, s2}
    NoSale = NoSale
    TapAllow = {"outage", "crossed"}
    Entries = {"charge", "fee"}
    Importers = {p1}
    KindOf <- MCKindOf
    NetOf <- MCNetOf
    PayoutAllow = {"outage", "crash", "late"}
    DocumentTypes = {"revenue"}
SPECIFICATION MCSpec
PROPERTIES
    NoSeatLost
    PaidIsMinted
    PayoutSettles
CHECK_DEADLOCK FALSE
