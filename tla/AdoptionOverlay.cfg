\* A conform that is cut short between the flake and the overlay it imports, and
\* one more.
SPECIFICATION Spec
CONSTANTS
    None = None
    Repos <- MCRepos
    GitRepos = {"app"}
    RepoName <- MCRepoName
    Origin <- MCOrigin
    Canonical = "canonical"
    Plain <- MCPlain
    OtherNames = {"main.go"}
    UserFile <- MCUserFile
    LocalCommands <- MCLocalCommands
    GreenFlake <- MCGreenFlake
    BootstrapCommands = {}
    Template <- MCTemplate
    SweepCommands = {}
    InitialTrees <- MCInitialTrees
    MaxCommands = 2
    MaxEdits = 0
INVARIANTS
    OverlayIsAlongside
CHECK_DEADLOCK FALSE
