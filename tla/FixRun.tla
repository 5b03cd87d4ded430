-------------------------------- MODULE FixRun --------------------------------
(***************************************************************************)
(* A repair-mode run as the --commit and --staged lanes see it             *)
(* (cmd/format/format.go, format/repair.go): the repair commands of the    *)
(* linters over the files in scope, then the formatters.  FormatRun models *)
(* the same run from the inside.  A linter that opted into restaging its   *)
(* outputs runs after the others, and in the staged lane between two       *)
(* `git status` snapshots.                                                 *)
(***************************************************************************)
EXTENDS GitRepo

CONSTANTS
    Linters,        \* linters with a repair command
    OptIn,          \* ... that set restage-repair-outputs (and are whole-tree)
    StageNew,       \* ... and stage-new-outputs
    StageDeleted,   \* ... and stage-deleted-outputs
    Triggers,       \* Triggers[l]: the paths linter l matches
    Writes,         \* Writes[l]: the paths its repair may write
    Deletes,        \* Deletes[l]: the paths its repair may delete
    Matched,        \* the paths a formatter matches
    Faults          \* what may go wrong

FixFaults == {"repair", "format", "cancel", "git", "commit", "crash", "edit"}

ASSUME LintersAssumption ==
    /\ StageNew \cup StageDeleted \subseteq OptIn
    /\ OptIn \subseteq Linters
    /\ Linters \subseteq Marks /\ "fmt" \in Marks \ Linters
    /\ Triggers \in [Linters -> SUBSET Paths]
    /\ Writes \in [Linters -> SUBSET Paths]
    /\ Deletes \in [Linters -> SUBSET Paths]
    /\ Matched \subseteq Paths
    /\ Faults \subseteq FixFaults

VARIABLES
    lane,       \* "commit" or "staged"
    pc,         \* where the process is; "idle" when there is none
    exit,       \* how the last run ended
    scope,      \* the paths the run was given; all of them for a whole-tree run
    scoped,     \* the run was given paths
    todo,       \* matched linters whose repair has not run
    before,     \* the last snapshot before a repair
    observed,   \* the linter whose repair ran since, if any
    outputs,    \* the paths attributed to linters that opted in
    start,      \* history: the repository when the run began
    touched,    \* history: paths the user edited during the run
    writers,    \* history: writers[p]: the linters that wrote p in this run
    removers,   \* history: removers[p]: ... and those that deleted it
    cut         \* history: the run was interrupted and formatted only a part

runVars == <<scope, scoped, todo, before, observed, outputs>>
historyVars == <<start, touched, writers, removers, cut>>

Exits == {"none", "clean", "fixed", "refused", "unrestored", "conflicted",
          "failed", "killed"}

RunTypeOK ==
    /\ lane \in {"commit", "staged"}
    /\ exit \in Exits
    /\ scope \subseteq Paths /\ scoped \in BOOLEAN
    /\ todo \subseteq Linters
    /\ before \subseteq Paths /\ observed \subseteq OptIn /\ outputs \subseteq Paths
    /\ touched \subseteq Paths
    /\ writers \in [Paths -> SUBSET Linters]
    /\ removers \in [Paths -> SUBSET Linters]
    /\ cut \in BOOLEAN

\* A run begins: what it is given, and what it starts from.
Begin(aLane, S, isScoped) ==
    /\ lane' = aLane
    /\ exit' = "none"
    /\ scope' = S
    /\ scoped' = isScoped
    /\ todo' = {l \in Linters : Triggers[l] \cap Present(S) # {}}
    /\ before' = {} /\ observed' = {} /\ outputs' = {}
    /\ start' = [head |-> head, index |-> index, work |-> work]
    /\ touched' = {}
    /\ writers' = [p \in Paths |-> {}]
    /\ removers' = [p \in Paths |-> {}]
    /\ cut' = FALSE
    /\ UNCHANGED repoVars

\* The process exits.
Finish(how) ==
    /\ exit' = how
    /\ pc' = "idle"
    /\ UNCHANGED <<lane, runVars, historyVars>>

Goto(where) ==
    /\ pc' = where
    /\ UNCHANGED <<lane, exit>>

\* Mutant of RepairedText: a file that is created is taken for one that is changed.
RepairedTextEvenAbsent(l, c) == (c \ {"fmt"}) \cup {l}

\* Whatever a linter's repair command makes of a file, it is no longer known to
\* be formatted; whatever a formatter makes of it, it is.
RepairedText(l, c) == ((IF c = Absent THEN {} ELSE c) \ {"fmt"}) \cup {l}
FormattedText(c) == c \cup {"fmt"}

\* The repair command of l writes and deletes some of the files it can.
RunCommand(l) ==
    \E W \in SUBSET Writes[l], D \in SUBSET Deletes[l] :
        /\ W \cap D = {}
        /\ work' = [p \in Paths |-> IF p \in D THEN Absent
                                    ELSE IF p \in W THEN RepairedText(l, work[p])
                                    ELSE work[p]]
        /\ writers' = [p \in Paths |-> writers[p] \cup (IF p \in W THEN {l} ELSE {})]
        /\ removers' = [p \in Paths |-> removers[p] \cup (IF p \in D THEN {l} ELSE {})]
        /\ UNCHANGED <<head, index, headRef, lane, start, touched, cut>>

\* Its exit status is discarded, unless the linter requires success or the command
\* cannot be run.
CommandFails == "repair" \in Faults /\ exit' = "failed" /\ pc' = "idle" /\ UNCHANGED runVars

\* Linters that did not opt in run during the walk; in the commit lane those
\* that did run after them, unobserved.
Repair(l) ==
    /\ pc = "repair"
    /\ l \in todo
    /\ l \in OptIn => lane = "commit" /\ todo \subseteq OptIn
    /\ RunCommand(l)
    /\ \/ /\ todo' = todo \ {l}
          /\ UNCHANGED <<pc, exit, scope, scoped, before, observed, outputs>>
       \/ CommandFails

\* Mutant of Snapshot: untracked files at every tier.
SnapshotUntracked(l) == ChangedOrUntracked

Snapshot(l) == IF l \in StageNew THEN ChangedOrUntracked ELSE ChangedPaths

\* stagedRepairObserver: the snapshot before, and the repair.
RepairObserved(l) ==
    /\ pc = "repair"
    /\ lane = "staged"
    /\ l \in todo /\ todo \subseteq OptIn
    /\ RunCommand(l)
    /\ \/ /\ before' = Snapshot(l)
          /\ observed' = {l}
          /\ todo' = todo \ {l}
          /\ pc' = "attribute"
          /\ UNCHANGED <<exit, scope, scoped, outputs>>
       \/ CommandFails

\* stagedRepairObserver: the snapshot after; a deletion counts at tier 4 only.
NewOutputs(l) == {p \in Snapshot(l) \ before : IsDeletion(p) => l \in StageDeleted}

Attribute ==
    /\ pc = "attribute"
    /\ \/ /\ \E l \in observed : outputs' = outputs \cup NewOutputs(l)
          /\ before' = {} /\ observed' = {}
          /\ Goto("repair")
          /\ UNCHANGED <<scope, scoped, todo, historyVars>>
       \/ "git" \in Faults /\ Finish("failed")
    /\ UNCHANGED repoVars

\* Mutant of FormatScope: the scope of the repairs.
FormatScopeGiven == IF scoped THEN scope ELSE Present(scope)

\* formatScope: a scoped walk also visits the outputs that are still there.
FormatScope == IF scoped THEN scope \cup Present(outputs) ELSE Present(scope)

\* The formatters' walk: a path the run was given and that a repair has removed
\* fails it; so does a formatter, after some of the files.  An interrupted walk
\* ends early and is not an error (FormatRun, SuccessIsCompleteButForGaps).
Format ==
    /\ pc = "repair"
    /\ todo = {}
    /\ UNCHANGED <<head, index, headRef>>
    /\ IF ~(FormatScope \subseteq Present(Paths))
       THEN Finish("failed") /\ UNCHANGED work
       ELSE \E S \in SUBSET (FormatScope \cap Matched) :
              /\ work' = [p \in Paths |-> IF p \in S THEN FormattedText(work[p])
                                                     ELSE work[p]]
              /\ \/ /\ S = FormatScope \cap Matched \/ "cancel" \in Faults
                    /\ cut' = (S # FormatScope \cap Matched)
                    /\ Goto("ran")
                    /\ UNCHANGED <<runVars, start, touched, writers, removers>>
                 \/ "format" \in Faults /\ Finish("failed")

RunStep ==
    \/ \E l \in Linters : Repair(l) \/ RepairObserved(l)
    \/ Attribute
    \/ Format
===============================================================================
