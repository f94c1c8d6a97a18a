SPECIFICATION Spec
CONSTANTS
    None = None
    Procs = {c1, c2}
    Attempts = {a1, a2}
    IPs = {i1, i2}
SYMMETRY Symmetry
CHECK_DEADLOCK FALSE
INVARIANTS TypeOK AuditTellsTheEnd FiledWereQuarantined EscapesExplained
           ReturnedAreFiled PhoneIPsRetired
PROPERTIES LedgerKept
