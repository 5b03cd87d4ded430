----------------------------- MODULE MCCacheSession -----------------------------
(* Instances of CacheSession for model checking. *)
EXTENDS CacheSession

CONSTANTS a, b, c1, c2

MCFiles == {a, b}
MCConfigs == {c1, c2}

\* The formatters of c2 have another option; its check has the same command, in
\* another directory.
MCFormatterKey == [c \in MCConfigs |-> c]
MCCheckKey == [c \in MCConfigs |-> "command"]

MCTexts == {"old", "new"}
MCSizes == {1, 2}

\* The formatters of c2 make a file longer.
MCContents ==
    {[text |-> text, style |-> style, size |-> IF style = c2 THEN 2 ELSE 1] :
        text \in MCTexts, style \in MCConfigs \cup {"none"}}

\* At first the files say the same, in the style of c2; or one lags behind, and neither
\* has been formatted.
MCTrees ==
    {[f \in MCFiles |-> [text |-> "old", style |-> c2, size |-> 2]],
     [f \in MCFiles |->
        [text |-> IF f = a THEN "new" ELSE "old", style |-> "none", size |-> 1]]}

\* The user may know the style of c2.
MCDrafts == {new \in MCContents : new.text = "new" /\ new.style # c1}
MCScopes == {{a}, {a, b}}

\* The whole-tree check compares the two files, as one of a manifest and its lock
\* file would; where c2 runs it it also knows what is new.
MCPasses(c, t) == t[a] = t[b] /\ (c = c2 => t[a] = "new")
===============================================================================
