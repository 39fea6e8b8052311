CONSTANTS
    Scans = {a, b}
    Planned = {}
    Scheduled = {}
    AlertScans = {}
    AlertEnabled = TRUE
    CustomScans = {}
    StrictScans = {}
    Verdicts = {"true"}
    Outcomes = {"clean"}
    Faults = {}
    Threads = 2
    Retention = 1
    MaxReports = 1
    MaxMishaps = 0
    None = None
    a = a
    b = b
SPECIFICATION FairSpec
PROPERTIES EveryScanFinishes
CHECK_DEADLOCK FALSE
