SPECIFICATION Spec
CONSTANTS
    f1 = f1
    f2 = f2
    f3 = f3
    w1 = w1
    w2 = w2
    NoKey = NoKey
    Files <- MCFiles3
    Keys <- MCKeys1
    Formatters <- MCFormatters
    Sequence <- MCSequence1
    OneAtATime <- MCOneAtATime
    Workers <- MCWorkers1
    PipeCap = 1
    WalkType = "git"
    UpdateCap = 1
    FlushSize = 2
    BatchSize = 2
    ReadSize = 1
    Unformatted = {}
    Invisible = {}
    Linting = TRUE
    UseCache = TRUE
    FailOnChange = FALSE
    FatalUnmatched = FALSE
    Faults = {"repair"}
PROPERTIES
    FailureExits
CHECK_DEADLOCK FALSE
