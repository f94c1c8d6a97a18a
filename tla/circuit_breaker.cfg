SPECIFICATION Spec
CONSTANTS
    Procs = {c1, c2}
    Categories = {"none", "account_suspended", "email_verification_timeout",
                  "rate_limited"}
    SuspensionLimit = 2
    MailLimit = 3
    CodeLimit = 2
    WindowLimit = 2
    Hour = 2
    Day = 1
    Horizon = 2
    MaxResults = 3
SYMMETRY Symmetry
CHECK_DEADLOCK FALSE
INVARIANTS BreakerCounts
PROPERTIES TripKept
