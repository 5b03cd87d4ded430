\* Three checks over every tree of three generated files; nix and git fail, the
\* user edits a file.
SPECIFICATION FairSpec
CONSTANTS
    N = 3
    StartValues = {"absent", "a"}
    Paths <- MCPaths
    Values = {"a", "b"}
    NumChecks = 3
    Outputs <- MCOutputs
    Flakes = {"chain", "cycle", "overlap"}
    Generate <- MCGenerate
    Found <- MCFound
    Unbuildable = {}
    Trees <- MCTrees
    Faults = {"nix", "git", "edit"}
INVARIANTS TypeOK IndexAsFound ConvergedIsCurrent UntrackedIsTheUsers
PROPERTIES ChainsProgress Terminates
