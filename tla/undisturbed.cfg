CONSTANTS
    Scans = {a, b}
    Planned = {b}
    Scheduled = {b}
    AlertScans = {b}
    AlertEnabled = TRUE
    CustomScans = {a}
    StrictScans = {b}
    Verdicts = {"true"}
    Outcomes = {"warned"}
    Faults = {"resync"}
    Threads = 2
    Retention = 1
    MaxReports = 3
    MaxMishaps = 0
    None = None
    a = a
    b = b
SPECIFICATION Spec
INVARIANTS TypeOK RunInv SingleRunner ClaimBacked LaunchedOnce CopyCleaned RetirementPending
PROPERTIES Lived Serialised NoRunCutShort
CHECK_DEADLOCK FALSE
