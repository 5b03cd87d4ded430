------------------------------ MODULE MCGitFixes ------------------------------
(***************************************************************************)
(* Constants of the model-checking instances of GitFixes: a source file, a *)
(* file that is generated from it, and the linters that generate, add and  *)
(* remove files.                                                           *)
(***************************************************************************)
EXTENDS GitFixes

MCLinters == {"fix", "facade", "extract"}
MCOptIn == {"facade", "extract"}
MCMarks == {"staged", "unstaged", "late", "conflict", "fmt"} \cup MCLinters

MCPaths == {"src", "gen"}

Clean(c) == <<c, c, c>>
\* Clean, staged, partially staged, dirty; generated, missing, conflicting,
\* staged for deletion, untracked; and what a run that was killed may leave: a
\* staged file formatted in the working tree only, an output not restaged.
MCHistories ==
    [src |-> {Clean({}), <<{"fmt"}, {"staged"}, {"staged"}>>,
              <<{"fmt"}, {"staged"}, {"staged", "unstaged"}>>,
              <<{"fmt"}, {"staged"}, {"staged", "fmt"}>>,
              <<{"fmt"}, {"fmt"}, {"unstaged"}>>},
     gen |-> {Clean({"facade", "fmt"}), Clean(Absent),
              <<{"fmt"}, {"staged"}, {"staged"}>>,
              <<{"fmt"}, {"staged"}, {"staged", "unstaged"}>>,
              <<{"fmt"}, Unmerged, {"unstaged"}>>,
              <<{"fmt"}, Absent, Absent>>,
              <<Absent, Absent, {"unstaged"}>>,
              <<{"fmt"}, {"fmt"}, {"facade"}>>}]

\* A linter that fixes the sources it is given, one that regenerates a tracked
\* file (tier 2), and one that may add and remove it (tiers 3 and 4).
MCTriggers == [fix |-> {"src"}, facade |-> {"src"}, extract |-> {"src", "gen"}]
MCWrites == [fix |-> {"src"}, facade |-> {"gen"}, extract |-> {"gen"}]
MCDeletes == [fix |-> {}, facade |-> {}, extract |-> {"gen"}]

MCScopes == {{}, {"src"}}
===============================================================================
