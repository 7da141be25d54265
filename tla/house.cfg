CONSTANTS
    c1 = c1  c2 = c2  x1 = x1  x2 = x2
    Seats = {x1, x2}
    Carts = {c1, c2}
    Taps = {t1}
    MaxQty = 2
    Allow = {"stale","late","lapse","again","own"}
    None = None
    Clerks = {k1}
    Offered = {"draft", "presale_active", "paused", "sold_out"}
    Essentials = {"cover"}
    GateAllow = {"crossed", "oldform", "unready"}
    Prints = {x1, x2}
    Requests = {c1, c2}
    ConsignAllow = {"overlap", "sold"}
    Entries = {"charge", "fee"}
    Importers = {c1, c2}
    KindOf <- MCKindOf
    NetOf <- MCNetOf
    DocumentTypes = {"revenue"}
    PayoutAllow = {"overlap"}
SPECIFICATION MCSpec
SYMMETRY Symmetric
INVARIANTS
    SeatOnce
    SoldIsTicketed
    SeatsFollowHold
    OrderIsSeated
    StoppedStaysStopped
    StockIsOut
    DocumentsShowBalance
PROPERTIES
    KeptWhileFresh
    BuyersKeepTickets
CHECK_DEADLOCK FALSE
