CONSTANTS
    a = a
    b = b
    c1 = c1
    c2 = c2
    Files <- MCFiles
    Configs <- MCConfigs
    FormatterKey <- MCFormatterKey
    CheckKey <- MCCheckKey
    Texts <- MCTexts
    Sizes <- MCSizes
    Contents <- MCContents
    MaxTime = 2
    Faults = {"tool", "db", "cancel", "crash"}
    Watched <- MCFiles
    Reads <- MCFiles
    Passes <- MCPasses
    Trees <- MCTrees
    Drafts <- MCDrafts
    Scopes <- MCScopes
    MaxRuns = 2
    MaxEdits = 1
SPECIFICATION Spec
INVARIANTS TypeOK PathsAreSound WholeTreeIsSound DoneIsFormatted CleanIsClean
