\* One invocation of either lane over every history; tools, git and commits fail,
\* the user interrupts or edits a file, the process is killed.
SPECIFICATION Spec
CONSTANTS
    Paths <- MCPaths
    Marks <- MCMarks
    Linters <- MCLinters
    OptIn <- MCOptIn
    StageNew = {"extract"}
    StageDeleted = {"extract"}
    Triggers <- MCTriggers
    Writes <- MCWrites
    Deletes <- MCDeletes
    Matched = {"src", "gen"}
    Faults = {"repair", "format", "cancel", "git", "commit", "crash", "edit"}
    Histories <- MCHistories
    Scopes <- MCScopes
    MaxRuns = 1
INVARIANTS TypeOK NothingUnstagedIsSwept CommitIsOnlyFixes RefusalPutsFixesBack OutputsAreOptedIn SuccessIsConformant
PROPERTIES UnstagedEditsSurvive
