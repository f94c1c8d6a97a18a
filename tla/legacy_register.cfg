SPECIFICATION LegacySpec
CONSTANTS
    Outlooks = {o1, o2}
    Batches = {b1, b2}
    Passes = 2
    MaxPending = 3
    None = None
SYMMETRY Symmetry
INVARIANTS UsernamesKept NoneStranded
CHECK_DEADLOCK FALSE
