CONSTANTS
    Scans = {a}
    Planned = {a}
    Scheduled = {a}
    AlertScans = {a}
    AlertEnabled = TRUE
    CustomScans = {a}
    StrictScans = {}
    Verdicts = {"true"}
    Outcomes = {"clean"}
    Faults = {"edit", "api", "apply", "expire"}
    Threads = 2
    Retention = 1
    MaxReports = 1
    MaxMishaps = 1
    None = None
    a = a
SPECIFICATION Spec
INVARIANTS ClaimInv
PROPERTIES Serialised
CHECK_DEADLOCK FALSE
