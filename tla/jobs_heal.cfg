CONSTANTS
    Jobs = {"post_fulfill", "heal"}
    Workers = {"w1"}
    MaxAttempts = 2
    MaxMails = 2
    Allow = {"crash"}
    None = None
SPECIFICATION FairSpec
CHECK_DEADLOCK FALSE
INVARIANTS
    MailedOnce
PROPERTY
    BuyerIsMailed
