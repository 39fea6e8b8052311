CONSTANTS
    Scans = {a, b}
    Planned = {}
    Scheduled = {}
    AlertScans = {}
    AlertEnabled = TRUE
    CustomScans = {}
    StrictScans = {}
    Verdicts = {"true"}
    Outcomes = {"clean"}
    Faults = {"crash"}
    Threads = 2
    Retention = 1
    MaxReports = 1
    MaxMishaps = 1
    None = None
    a = a
    b = b
SPECIFICATION Spec
INVARIANTS SingleRunner
SYMMETRY Symmetric
CHECK_DEADLOCK FALSE
