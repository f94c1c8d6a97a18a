SPECIFICATION Spec
CONSTANTS
    Procs = {c1, c2}
    Identities = {i1}
    Day = 9
    Interval = 2
    MaxPerDay = 4
    RepeatCap = 3
    LockWait = 1
    Horizon = 11
CHECK_DEADLOCK FALSE
INVARIANTS AttemptsBounded SpacingKept
