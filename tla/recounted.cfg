CONSTANTS
    Scans = {a}
    Planned = {}
    Scheduled = {}
    AlertScans = {}
    AlertEnabled = TRUE
    CustomScans = {}
    StrictScans = {}
    Verdicts = {"true"}
    Outcomes = {"clean"}
    Faults = {"resync"}
    Threads = 2
    Retention = 1
    MaxReports = 1
    MaxMishaps = 0
    None = None
    a = a
SPECIFICATION Spec
INVARIANTS CountedOnce
CHECK_DEADLOCK FALSE
