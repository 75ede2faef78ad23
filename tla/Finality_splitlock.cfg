\* No Byzantine validator; two producers, an earlier and a later round.
CONSTANTS
    Validators = {1, 2, 3, 4}
    Byzantine = {}
    Genesis = {1, 2, 3, 4}
    A = A
    B = B
    Payloads = {A, B}
    Rotation <- NoRotation
    RotationDelay = 1
    AnswerSets = {{1, 2, 3}, {2, 3, 4}}
    MaxCertifications = 1
    MaxHeight = 1
    MaxRound = 1
SPECIFICATION Spec
CHECK_DEADLOCK FALSE
INVARIANT LockedValueReachable
