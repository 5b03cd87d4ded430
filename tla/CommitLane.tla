------------------------------ MODULE CommitLane ------------------------------
(***************************************************************************)
(* conformist --commit (cmd/format/commit.go): refuse an unclean tree, run *)
(* over the tree, then commit (or amend into HEAD) the tracked paths that  *)
(* are dirty now and were not before.                                      *)
(***************************************************************************)
EXTENDS FixRun

VARIABLES
    amend,      \* --amend
    preDirty,   \* tracked paths that were dirty before the run
    toCommit    \* what the run has changed

commitVars == <<amend, preDirty, toCommit>>

CommitTypeOK ==
    /\ amend \in BOOLEAN
    /\ preDirty \subseteq Paths
    /\ toCommit \subseteq Paths

CommitInit == amend = FALSE /\ preDirty = {} /\ toCommit = {}

\* commitPreflight, for a run over the paths S (none for the whole tree).  What
\* it refuses (also stdin mode, fail-on-change and a tree outside git) does
\* nothing at all.
CommitPreflight(S, allowDirty, isAmend) ==
    /\ pc = "idle"
    /\ Begin("commit", IF S = {} THEN Paths ELSE S, S # {})
    /\ amend' = isAmend
    /\ preDirty' = ChangedPaths
    /\ toCommit' = {}
    /\ isAmend => headRef # "unborn"
    /\ allowDirty \/ ChangedPaths = {}
    /\ pc' = "repair"

\* Mutant of DetectFixes: a path the user had dirty is committed as well.
DetectFixesAll ==
    /\ pc = "ran" /\ lane = "commit"
    /\ toCommit' = ChangedPaths
    /\ UNCHANGED <<repoVars, runVars, historyVars, amend, preDirty>>
    /\ IF toCommit' = {} THEN pc' = "idle" /\ exit' = "clean" /\ UNCHANGED lane
       ELSE Goto(IF amend THEN "published" ELSE "guard")

DetectFixes ==
    /\ pc = "ran" /\ lane = "commit"
    /\ toCommit' = ChangedPaths \ preDirty
    /\ UNCHANGED <<repoVars, runVars, historyVars, amend, preDirty>>
    /\ IF toCommit' = {} THEN pc' = "idle" /\ exit' = "clean" /\ UNCHANGED lane
       ELSE Goto(IF amend THEN "published" ELSE "guard")

\* publishedHeadError; when git cannot tell, the fixes are put back as well.
CheckPublished ==
    /\ pc = "published"
    /\ \/ Goto(IF headRef = "pushed" THEN "restore" ELSE "guard")
       \/ "git" \in Faults /\ Goto("restore")
    /\ UNCHANGED <<repoVars, runVars, historyVars, commitVars>>

\* Mutants of RestoreFixes: the run is refused, and its fixes stay; every dirty
\* path is put back.
RestoreNothing ==
    /\ pc = "restore"
    /\ Finish(IF headRef = "pushed" THEN "refused" ELSE "failed")
    /\ UNCHANGED <<repoVars, commitVars>>
RestoreAll ==
    /\ pc = "restore"
    /\ RestorePaths(ChangedPaths)
    /\ Finish(IF headRef = "pushed" THEN "refused" ELSE "failed")
    /\ UNCHANGED commitVars

RestoreFixes ==
    /\ pc = "restore"
    /\ \/ /\ RestorePaths(toCommit)
          /\ Finish(IF headRef = "pushed" THEN "refused" ELSE "failed")
       \/ "git" \in Faults /\ Finish("unrestored") /\ UNCHANGED repoVars
    /\ UNCHANGED commitVars

\* git diff --check over what is to be committed.
Conflicted == {p \in toCommit : "conflict" \in work[p] \ index[p]}

GuardConflicts ==
    /\ pc = "guard"
    /\ IF Conflicted # {} THEN Finish("conflicted")
                          ELSE Goto("commit") /\ UNCHANGED <<runVars, historyVars>>
    /\ UNCHANGED <<repoVars, commitVars>>

\* commitOrAmend: git reads the working tree again; it commits nothing when it
\* fails (a signing agent, a hook, unmerged paths).
CommitOrAmend ==
    /\ pc = "commit"
    /\ \/ CommitPaths(toCommit) /\ Finish("fixed")
       \/ /\ "commit" \in Faults \/ HasUnmerged
          /\ Finish("failed")
          /\ UNCHANGED repoVars
    /\ UNCHANGED commitVars

CommitStep ==
    \/ DetectFixes
    \/ CheckPublished
    \/ RestoreFixes
    \/ GuardConflicts
    \/ CommitOrAmend
===============================================================================
