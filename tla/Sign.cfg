SPECIFICATION SignSpec
CONSTANTS
    w1 = w1
    w2 = w2
    u1 = u1
    u2 = u2
    NoAddress = NoAddress
    Unread = Unread
    Hosts <- Launchers
    Accounts = {"a", "b"}
    Holders = {"a"}
    Networks = {"n", "m"}
    Reqs = {w1, w2}
    MaxHeight = 1
    Handoffs = {1}
    MaxAttempts = 1
    MaxSims = 1
    MaxGen = 1
PROPERTY SignedIsDisplayed
CHECK_DEADLOCK FALSE
