SPECIFICATION SuiteSpec
CONSTANTS
    r1 = r1
    r2 = r2
    Names = {"n1", "n2"}
    Accounts <- Two
    Salts = {"s"}
    Price <- NamePrices
    RevealDelay = 1
    CommitLifetime = 2
    MaxCommits = 1
    MaxNames = 2
    Funds = 2
    MaxHeight = 6
SYMMETRY RoleSymmetry
INVARIANTS OneNamePerAddress AgentBounded ChainContinues StatesRestore
PROPERTIES NoFrontRunning BalancesKept
CHECK_DEADLOCK FALSE
