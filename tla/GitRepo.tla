-------------------------------- MODULE GitRepo --------------------------------
(***************************************************************************)
(* The part of a git repository that the --commit and --staged lanes read  *)
(* and write (package git): for each path its content in HEAD, in the      *)
(* index and in the working tree.  A content is the set of the marks that  *)
(* edits have left in it, so that a model can tell whose edits it carries. *)
(***************************************************************************)
EXTENDS Naturals, FiniteSets

CONSTANTS
    Paths,
    Marks       \* whose edits a content may carry

\* Two contents that carry no marks: no such file, and a path with conflicting
\* index entries and none at stage 0.
Absent == {"absent"}
Unmerged == {"unmerged"}

ASSUME MarksAssumption == Marks \cap {"absent", "unmerged"} = {}

Texts == SUBSET Marks
Contents == Texts \cup {Absent, Unmerged}

VARIABLES
    head,       \* content of each path in the commit at HEAD
    index,      \* content of each path in the index
    work,       \* content of each path in the working tree
    headRef     \* "unborn", "local", or "pushed": in a remote-tracking branch

repoVars == <<head, index, work, headRef>>

RepoTypeOK ==
    /\ head \in [Paths -> Texts \cup {Absent}]
    /\ index \in [Paths -> Contents]
    /\ work \in [Paths -> Texts \cup {Absent}]
    /\ headRef \in {"unborn", "local", "pushed"}

-------------------------------------------------------------------------------
(* git status --porcelain *)

\* A column X, or a column Y, that is not blank; untracked files have neither.
Staged(p) == index[p] # head[p]
Unstaged(p) == index[p] # Absent /\ work[p] # index[p]

Tracked(p) == index[p] # Absent \/ head[p] # Absent
Untracked(p) == index[p] = Absent /\ work[p] # Absent
Present(S) == {p \in S : work[p] # Absent}

\* StatusEntries and StatusEntriesWithUntracked.
ChangedPaths == {p \in Paths : Staged(p) \/ Unstaged(p)}
ChangedOrUntracked == ChangedPaths \cup {p \in Paths : Untracked(p)}

\* A "D" in either column.
IsDeletion(p) ==
    \/ index[p] = Absent /\ head[p] # Absent
    \/ index[p] # Absent /\ work[p] = Absent

-------------------------------------------------------------------------------
(* git commands, which change the index under its lock *)

\* The function f, but as g on S.
Override(f, g, S) == [p \in Paths |-> IF p \in S THEN g[p] ELSE f[p]]

\* git add -- S fails as a whole when a path of S names nothing.
Addable(S) == \A p \in S : index[p] # Absent \/ work[p] # Absent

AddPaths(S) ==
    /\ Addable(S)
    /\ index' = Override(index, work, S)
    /\ UNCHANGED <<head, work, headRef>>

\* git restore --source=HEAD --staged --worktree -- S
RestorePaths(S) ==
    /\ index' = Override(index, head, S)
    /\ work' = Override(work, head, S)
    /\ UNCHANGED <<head, headRef>>

HasUnmerged == \E p \in Paths : index[p] = Unmerged

\* git commit [--amend] -- S takes S from the working tree and leaves the rest
\* of the index alone; git refuses it while a path is unmerged.
CommitPaths(S) ==
    /\ ~HasUnmerged
    /\ head' = Override(head, work, S)
    /\ index' = Override(index, work, S)
    /\ headRef' = "local"
    /\ UNCHANGED work

\* git update-index --cacheinfo
UpdateIndexCacheinfo(p, c) ==
    /\ index' = [index EXCEPT ![p] = c]
    /\ UNCHANGED <<head, work, headRef>>
===============================================================================
