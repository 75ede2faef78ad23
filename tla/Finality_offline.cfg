\* All validators are honest; 4 may stop at any time.
CONSTANTS
    Validators = {1, 2, 3, 4}
    Byzantine = {}
    Genesis = {1, 2, 3, 4}
    A = A
    B = B
    Payloads = {A}
    Rotation <- NoRotation
    RotationDelay = 1
    AnswerSets = {{2}, {3}, {1, 2, 3}}
    MaxCertifications = 1
    MaxHeight = 2
    MaxRound = 0
SPECIFICATION LiveSpec
CHECK_DEADLOCK FALSE
INVARIANT FinalizedParentStored
PROPERTY OneOfflineProgress
