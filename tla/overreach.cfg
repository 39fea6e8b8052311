CONSTANTS
    Scans <- TwoScans
    Scheduled <- TwoScans
    Words <- ExtendedWords
    ProfileNamed <- NamedOrOpen
    ProfileWords <- WordsOfProfiles
    RetentionCount <- OneEach
    MaxWords = 2
    MaxVersion = 2
    MaxRuns = 4
    Removable = {}
    Editable = {}
    None = "none"
    Provider = "rke2"
    DefaultTable <- ByVersion
    BenchmarkOf <- SameNames
    Benchmarks <- Succeeding
SPECIFICATION Spec
INVARIANTS RetentionKept
CHECK_DEADLOCK FALSE
