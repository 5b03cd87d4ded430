\* Four checks in a chain against the order of their names; nothing fails.
SPECIFICATION FairSpec
CONSTANTS
    N = 4
    StartValues = {"absent", "a"}
    Paths <- MCPaths
    Values = {"a", "b"}
    NumChecks = 4
    Outputs <- MCOutputs
    Flakes = {"chain"}
    Generate <- MCGenerate
    Found <- MCFoundAll
    Unbuildable = {}
    Trees <- MCTrees
    Faults = {}
INVARIANTS OnlyCyclesDiverge
