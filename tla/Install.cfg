\* The operator installs a snapshot at or below the tip of the stopped node.
SPECIFICATION InstallSpec
CONSTANTS
    c1 = c1
    c2 = c2
    A = A
    B = B
    NoLock = NoLock
    IOErrors = FALSE
    OperatorInstalls = FALSE
    Certs = {c1, c2}
    MaxHeight = 3
    Missing = Missing
    Damaged = Damaged
    Unhashed = Unhashed
    Stopped = Stopped
    Idle = Idle
    Absent = Absent
INVARIANT RecoverableAfterInstall
CHECK_DEADLOCK FALSE
