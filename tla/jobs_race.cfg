CONSTANTS
    Jobs = {"post_fulfill"}
    Workers = {"w1", "w2"}
    MaxAttempts = 2
    MaxMails = 1
    Allow = {"overlap", "slow", "crash"}
    None = None
SPECIFICATION FairSpec
CHECK_DEADLOCK FALSE
PROPERTY
    NothingStuck
