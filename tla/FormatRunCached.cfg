SPECIFICATION Spec
CONSTANTS
    f1 = f1
    f2 = f2
    f3 = f3
    w1 = w1
    w2 = w2
    NoKey = NoKey
    Files <- MCFiles3
    Keys <- MCKeys2
    Formatters <- MCFormatters
    Sequence <- MCSequence2
    OneAtATime <- MCOneAtATime
    Workers <- MCWorkers2
    PipeCap = 1
    WalkType = "git"
    UpdateCap = 2
    FlushSize = 2
    BatchSize = 2
    ReadSize = 2
    Unformatted = {}
    Invisible = {}
    Linting = FALSE
    UseCache = TRUE
    FailOnChange = FALSE
    FatalUnmatched = FALSE
    Faults = {"tool", "stat", "cancel", "walk", "flush", "attest"}
INVARIANTS
    TypeOK
    OneOwner
    RecordedWasFormatted
    NoReleaseAfterClose
    SuccessIsSound
    SuccessIsCompleteButForGaps
PROPERTIES
    ImplementsContract
    Terminates
