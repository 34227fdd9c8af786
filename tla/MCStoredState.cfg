SPECIFICATION Spec
CHECK_DEADLOCK FALSE
CONSTANTS
    ValidContent = {a, b}
    InvalidContent = {bad}
    MaxVersion = 5
    Proc = {p1, p2}
    Archive <- SomeArchives
    File = {"f1", "f2", "f3"}
    Byte = {0, 1}
    BlockSize = 2
    MaxImage = 4
    Service = {1, 3}
    PanicPrefix = 2
    LineSize = {1, 3}
    MaxLogLines = 2
    FixedSize = 1
    MaxBundleSize = 2
    MaxBundles = 2
    DiagFiles = 2
    MaxSeconds = 2
    WalkOrder <- DataFiles
    Content = {1}
    Absent = Absent
    NoPass = NoPass
    Passphrase = {k}
    MaxWrites = 2
    MaxLines = 2
    SessionCap = 3
    MaxAppends = 5
    MaxFiles = 4
    Faults = {"empty", "tear", "refuse", "reclaim", "expire"}
    MaxSize = 2
    MaxPerSec = 3
    MaxRecords = 3
    MaxDay = 2
    MaxIds = 4
INVARIANTS
    
    
    DatabaseIsTrue
    DeltaIsExact
    
    
    
PROPERTIES
    NewestAreKept
    
    FittingCaptureEnds
    
