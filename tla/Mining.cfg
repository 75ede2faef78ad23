SPECIFICATION SuiteSpec
CONSTANTS
    Miners = {"m1", "m2"}
    MaxRound = 2
    RevealDelay = 1
    RevealWindow = 2
    CommitBond = 2
    MaxOpenTasks = 2
    MaxCommitsPerTask = 2
    MaxPendingRewards = 2
    Window = 1
    TargetTime = 2
    Expiry = 1
    InitialLevel = 1
    MinLevel = 0
    MaxLevel = 3
    RewardInterval = 2
    RewardLimit = 2
    EscrowDelay = 2
    EpochReward = 5
    HalvingInterval = 1
    Pool = 10
    Funds = 8
    MaxTx = 2
    MaxHeight = 7
INVARIANTS EarliestWins WorkPaidOnce Agree
CHECK_DEADLOCK FALSE
