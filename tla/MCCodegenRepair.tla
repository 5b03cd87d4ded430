---------------------------- MODULE MCCodegenRepair ----------------------------
(***************************************************************************)
(* Constants of the model-checking instances of CodegenRepair: N checks,   *)
(* each with a file it generates, and a source.                            *)
(***************************************************************************)
EXTENDS CodegenRepair

CONSTANTS
    N,
    StartValues     \* contents of the generated files at the start

\* Check c generates the file c, and check 1 in some flakes also the file 2; the
\* source is the file N + 1.
MCPaths == 1 .. N + 1
MCOutputs == [c \in 1 .. N |-> IF c = 1 /\ N > 1 THEN {1, 2} ELSE {c}]

Other(v) == IF v = "a" THEN "b" ELSE "a"

\* chain: each file from the next one, against the order of their names.
\* cycle: the first two disagree for ever.
\* overlap: the first check writes a line into file 2, whose generator keeps it.
MCGenerate(k, c, t) ==
    LET kept == [p \in MCOutputs[c] |-> t[p]]
    IN  CASE k = "cycle" /\ c = 1 /\ t[2] # Absent -> [kept EXCEPT ![1] = Other(t[2])]
          [] k = "cycle" /\ c = 2 /\ t[1] # Absent -> [kept EXCEPT ![2] = t[1]]
          [] k = "overlap" /\ c = 1 /\ t[2] = "a" -> [kept EXCEPT ![2] = "b"]
          [] k = "overlap" /\ c = 2 /\ t[2] = Absent -> [kept EXCEPT ![2] = "a"]
          [] k = "chain" \/ c > 2 -> [kept EXCEPT ![c] = t[c + 1]]
          [] OTHER -> kept

MCFound == {1 .. N, 1 .. N - 1, {}}
MCFoundAll == {1 .. N}

\* A source that is tracked; generated files of any content, one or all of
\* them tracked.
MCTrees ==
    {<<[p \in MCPaths |-> IF p = N + 1 THEN "b" ELSE w[p]], {N + 1} \cup tracked>> :
        w \in [1 .. N -> StartValues], tracked \in {{N}, 1 .. N}}
===============================================================================
