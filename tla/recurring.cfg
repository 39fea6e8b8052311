CONSTANTS
    Scans = {a}
    Planned = {a}
    Scheduled = {a}
    AlertScans = {a}
    AlertEnabled = TRUE
    CustomScans = {a}
    StrictScans = {a}
    Verdicts = {"true", "error"}
    Outcomes = {"warned"}
    Faults = {"delete", "restart"}
    Threads = 2
    Retention = 1
    MaxReports = 1
    MaxMishaps = 1
    None = None
    a = a
SPECIFICATION FairSpec
INVARIANTS ConditionsAgree FailedForCause DisplayTells
PROPERTIES RunsForever
CHECK_DEADLOCK FALSE
