SPECIFICATION Spec
CONSTANTS
    Accounts = {a1, a2}
    Managers = {m1}
    None = None
SYMMETRY Symmetry
CHECK_DEADLOCK FALSE
INVARIANTS NoAccountVanishes RebuildSettles
