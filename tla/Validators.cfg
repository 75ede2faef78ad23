SPECIFICATION SuiteSpec
CONSTANTS
    v1 = v1
    v2 = v2
    v3 = v3
    c1 = c1
    c2 = c2
    Validators = {v1, v2, v3}
    Candidates = {c1, c2}
    MinBond = 4
    CandidateBond = 25
    Evaluators = 3
    SlashDivisor = 100
    WithdrawalDelay = 1
    Funds = 50
    MaxHeight = 5
SYMMETRY Symmetry
INVARIANTS ObligedAreBonded SafetyConserved SnapshotRestores NeverWedged
PROPERTIES OnTime BondsAccounted
CHECK_DEADLOCK FALSE
