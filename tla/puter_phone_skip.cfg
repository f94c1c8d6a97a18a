SPECIFICATION Spec
CONSTANTS
    None = None
    Procs = {c1}
    Attempts = {a1}
    IPs = {i1}
CHECK_DEADLOCK FALSE
INVARIANTS PhoneSkipsRecorded
