\* Two linters that restage their outputs, none that stages deletions.
SPECIFICATION Spec
CONSTANTS
    Paths <- MCPaths
    Marks <- MCMarks
    Linters <- MCLinters
    OptIn <- MCOptIn
    StageNew = {"extract"}
    StageDeleted = {}
    Triggers <- MCTriggers
    Writes <- MCWrites
    Deletes <- MCDeletes
    Matched = {"src", "gen"}
    Faults = {}
    Histories <- MCHistories
    Scopes <- MCScopes
    MaxRuns = 1
INVARIANT DeletionsAreOptedIn
