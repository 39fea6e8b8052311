CONSTANTS
    Scans <- TwoScans
    Scheduled <- OpenOnly
    Words <- NameOfDefaults
    ProfileNamed <- NamedOrOpen
    ProfileWords <- WordsOfProfiles
    RetentionCount <- OneOrDefault
    MaxWords = 2
    MaxVersion = 2
    MaxRuns = 4
    Removable = {"chosen"}
    Editable <- OpenOnly
    None = "none"
    Provider = "rke2"
    DefaultTable <- ByVersion
    BenchmarkOf <- SameNames
    Benchmarks <- Succeeding
SPECIFICATION FairSpec
INVARIANTS TypeOK OutputKept FreshReportKept RetentionKept ValidatedRecently
PROPERTIES ReportOfItsRun RetiredOrStranded
CHECK_DEADLOCK FALSE
