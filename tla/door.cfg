SPECIFICATION MCSpec
CONSTANTS
    People = {buyer, friend}
    Buyer = buyer
    Staff = staff
    Clerks = {k1, k2}
    Devices = {d1}
    MaxAttempts = 2
    MaxCodes = 3
    Limit = 1
    Allow = {"overlap", "crash", "timeout"}
INVARIANTS
    OneGuestPerTicket
    ValidTicketHasCode
    EntryOnlyForHolderCalm
PROPERTIES
    CancelledIsFinal
CHECK_DEADLOCK FALSE
