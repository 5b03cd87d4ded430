SPECIFICATION Spec
CONSTANTS
    f1 = f1
    f2 = f2
    f3 = f3
    w1 = w1
    w2 = w2
    NoKey = NoKey
    Files <- MCFiles3
    Keys <- MCKeys2
    Formatters <- MCFormatters
    Sequence <- MCSequence2
    OneAtATime <- MCOneAtATime
    Workers <- MCWorkers1
    PipeCap = 1
    WalkType = "filesystem"
    UpdateCap = 1
    FlushSize = 2
    BatchSize = 2
    ReadSize = 2
    Unformatted = {f1, f2}
    Invisible = {f2}
    Linting = TRUE
    UseCache = FALSE
    FailOnChange = TRUE
    FatalUnmatched = TRUE
    Faults = {"repair", "walk", "hash", "tool", "cancel", "read", "timeout"}
INVARIANTS
    SuccessIsCompleteButForGaps
    NoSilentRewrite
PROPERTIES
    Terminates
CHECK_DEADLOCK FALSE
