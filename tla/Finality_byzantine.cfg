\* Validator 2, the round-zero proposer of height 1, is Byzantine.
CONSTANTS
    Validators = {1, 2, 3, 4}
    Byzantine = {2}
    Genesis = {1, 2, 3, 4}
    A = A
    B = B
    Payloads = {A, B}
    Rotation <- NoRotation
    RotationDelay = 1
    AnswerSets = {{1, 2, 3}, {2, 3, 4}}
    MaxCertifications = 1
    MaxHeight = 1
    MaxRound = 1
SYMMETRY PayloadSymmetry
SPECIFICATION Spec
CHECK_DEADLOCK FALSE
INVARIANTS TypeOK Agreement CertifiedUnique NoAmbiguousView
PROPERTY LogSpec
