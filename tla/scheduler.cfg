SPECIFICATION Spec
CONSTANTS
    Procs = {c1, c2}
    DayLength = 7
    WindowStart = 1
    WindowEnd = 5
    MaxPerDay = 2
    MinInterval = 2
    Horizon = 12
INVARIANTS TypeOK DailyLimit OwnSpacing NextSlotAllows
PROPERTIES RegistrationsKept
