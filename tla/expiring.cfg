CONSTANTS
    Scans = {a, b}
    Planned = {a}
    Scheduled = {a}
    AlertScans = {a}
    AlertEnabled = TRUE
    CustomScans = {a}
    StrictScans = {}
    Verdicts = {"true"}
    Outcomes = {"clean"}
    Faults = {"reject", "resync", "expire"}
    Threads = 2
    Retention = 1
    MaxReports = 3
    MaxMishaps = 1
    None = None
    a = a
    b = b
SPECIFICATION Spec
INVARIANTS RunInv ReportPerRun MarkFollowsLaunch PlannedCountedOnce RuleRecorded
PROPERTIES TimelyRerun TimelyLaunch
CHECK_DEADLOCK FALSE
