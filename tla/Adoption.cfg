\* Two checkouts, three commands one after another, each cut short anywhere,
\* and one change of the user's at any time.
SPECIFICATION Spec
CONSTANTS
    None = None
    Repos <- MCRepos
    GitRepos = {"app"}
    RepoName <- MCRepoName
    Origin <- MCOrigin
    Canonical = "canonical"
    Plain <- MCPlain
    OtherNames = {"main.go"}
    UserFile <- MCUserFile
    LocalCommands <- MCLocalCommands
    GreenFlake <- MCGreenFlake
    BootstrapCommands <- MCBootstrapCommands
    Template <- MCTemplate
    SweepCommands <- MCSweepCommands
    InitialTrees <- MCInitialTrees
    MaxCommands = 3
    MaxEdits = 1
INVARIANTS
    TypeOK
    FinishedIsFilled
    SweepIsHonest
    WiringResolves
PROPERTIES
    UsersWorkSurvives
CHECK_DEADLOCK FALSE
