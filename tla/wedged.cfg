CONSTANTS
    Scans = {a}
    Planned = {}
    Scheduled = {}
    AlertScans = {}
    AlertEnabled = TRUE
    CustomScans = {}
    StrictScans = {}
    Verdicts = {"true"}
    Outcomes = {"clean"}
    Faults = {"edit"}
    Threads = 2
    Retention = 1
    MaxReports = 1
    MaxMishaps = 1
    None = None
    a = a
SPECIFICATION Spec
INVARIANTS ClaimBacked
CHECK_DEADLOCK FALSE
