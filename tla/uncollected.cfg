CONSTANTS
    Scans = {"named"}
    Scheduled = {}
    Words <- EnclosedWords
    ProfileNamed <- NamedOrOpen
    ProfileWords <- WordsOfProfiles
    RetentionCount <- OneOrDefault
    MaxWords = 2
    MaxVersion = 2
    MaxRuns = 2
    Removable = {}
    Editable = {}
    None = "none"
    Provider = "rke2"
    DefaultTable <- ByVersion
    BenchmarkOf <- SameNames
    Benchmarks <- Succeeding
SPECIFICATION FairSpec
PROPERTIES RunRetired
CHECK_DEADLOCK FALSE
