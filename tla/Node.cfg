SPECIFICATION SuiteSpec
CONSTANTS
    r1 = r1
    r2 = r2
    r3 = r3
    r4 = r4
    Replicas = {r1, r2, r3, r4}
    Byzantine = {r4}
    Txs <- BondTxs
    MaxHeight = 2
    MaxCrashes = 1
    Recoveries = FALSE
    Snapshots = FALSE
SYMMETRY NodeSymmetry
INVARIANTS EarlyPromiseKept RestartSucceeds AnswersHold CohortSafe
CHECK_DEADLOCK FALSE
