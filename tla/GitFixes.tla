------------------------------- MODULE GitFixes -------------------------------
(***************************************************************************)
(* A repository over a session of invocations of the two lanes that write  *)
(* to it.  A run may fail or be killed between any two steps, and the next *)
(* one starts from whatever it left; the user may edit a file meanwhile.   *)
(***************************************************************************)
EXTENDS CommitLane, StagedLane

CONSTANTS
    Histories,  \* Histories[p]: what <<HEAD, index, worktree>> may hold of p at first
    Scopes,     \* the paths --commit is given; {} for the whole tree
    MaxRuns     \* bound on the invocations

ASSUME SessionAssumption ==
    /\ \A p \in Paths : Histories[p] \subseteq
            (Texts \cup {Absent}) \X Contents \X (Texts \cup {Absent})
    /\ Scopes \subseteq SUBSET Paths
    /\ MaxRuns \in Nat

\* The marks of the user: an edit that is not staged at first, and edits made
\* during a run.
ASSUME EditsAssumption ==
    /\ {"late", "conflict"} \subseteq Marks
    /\ "unstaged" \notin Linters
    /\ \A p \in Paths : \A h \in Histories[p] : "unstaged" \notin h[1] \cup h[2]

VARIABLE runs   \* how many invocations there were

vars == <<repoVars, lane, pc, exit, runVars, historyVars, commitVars, stagedVars, runs>>

PCs == {"idle", "repair", "attribute", "ran", "published", "restore", "guard", "commit",
        "add", "blobs", "isolate", "write"}

TypeOK ==
    /\ RepoTypeOK /\ RunTypeOK /\ CommitTypeOK /\ StagedTypeOK
    /\ pc \in PCs
    /\ runs \in 0 .. MaxRuns

Init ==
    /\ \E h \in [Paths -> UNION {Histories[p] : p \in Paths}] :
          /\ \A p \in Paths : h[p] \in Histories[p]
          /\ head = [p \in Paths |-> h[p][1]]
          /\ index = [p \in Paths |-> h[p][2]]
          /\ work = [p \in Paths |-> h[p][3]]
    /\ headRef \in IF \A p \in Paths : head[p] = Absent
                   THEN {"unborn", "local", "pushed"} ELSE {"local", "pushed"}
    /\ lane = "commit" /\ pc = "idle" /\ exit = "none"
    /\ scope = {} /\ scoped = FALSE /\ todo = {}
    /\ before = {} /\ observed = {} /\ outputs = {}
    /\ start = [head |-> head, index |-> index, work |-> work]
    /\ touched = {} /\ cut = FALSE
    /\ writers = [p \in Paths |-> {}] /\ removers = [p \in Paths |-> {}]
    /\ CommitInit
    /\ StagedInit
    /\ runs = 0

StartCommit ==
    /\ runs < MaxRuns
    /\ \E S \in Scopes, allowDirty, isAmend \in BOOLEAN : CommitPreflight(S, allowDirty, isAmend)
    /\ full' = {} /\ partial' = {} /\ toRestage' = {}
    /\ blobs' = NoBlobs /\ changed' = NoBlobs /\ restaged' = FALSE
    /\ runs' = runs + 1

StartStaged ==
    /\ runs < MaxRuns
    /\ StagedPreflight
    /\ amend' = FALSE /\ preDirty' = {} /\ toCommit' = {}
    /\ runs' = runs + 1

Run == RunStep /\ UNCHANGED <<commitVars, stagedVars, runs>>
Commit == CommitStep /\ UNCHANGED <<stagedVars, runs>>
Stage == StagedStep /\ UNCHANGED <<commitVars, runs>>

\* The process is killed between two steps.
Crash ==
    /\ "crash" \in Faults
    /\ pc # "idle"
    /\ Finish("killed")
    /\ UNCHANGED <<repoVars, commitVars, stagedVars, runs>>

\* The user edits a file of the working tree during a run, or pops a stash that
\* does not merge into it.
UserEdits(p) ==
    /\ "edit" \in Faults
    /\ pc # "idle"
    /\ touched = {}
    /\ work[p] # Absent
    /\ \E more \in {{"late"}, {"late", "conflict"}} :
          work' = [work EXCEPT ![p] = (@ \ {"fmt"}) \cup more]
    /\ touched' = {p}
    /\ UNCHANGED <<head, index, headRef, lane, pc, exit, runVars, start, writers, removers,
                   cut, commitVars, stagedVars, runs>>

\* Nobody invokes conformist any more.
Rest == pc = "idle" /\ UNCHANGED vars

Process == Run \/ Commit \/ Stage

Next ==
    \/ StartCommit \/ StartStaged
    \/ Process
    \/ Crash
    \/ \E p \in Paths : UserEdits(p)
    \/ Rest

Spec == Init /\ [][Next]_vars

-------------------------------------------------------------------------------
(* Properties *)

\* Edits that the user has not staged reach neither the index nor a commit,
\* whichever lane runs, fails or is killed in between (commit.go: "anything
\* dirty before the run is excluded"; staged.go: "restaging cannot sweep in
\* unintended edits"; the mark "unstaged" is in no index at first).
NothingUnstagedIsSwept == \A p \in Paths : "unstaged" \notin index[p] \cup head[p]

\* Nor are they lost: only a linter's repair that deletes the file takes them
\* away (the partial lane leaves the working tree alone; restore is for paths
\* that were clean).
UnstagedEditsSurvive ==
    [][\A p \in Paths :
          "unstaged" \in work[p] /\ "unstaged" \notin work'[p] => removers'[p] # {}]_vars

WasClean(p) == start.head[p] = start.index[p] /\ start.work[p] = start.index[p]

\* --commit commits fixes of files that were clean, as the tools left them, and
\* nothing of any other file: neither HEAD nor the user's staging of it moves.
CommitIsOnlyFixes ==
    lane = "commit" =>
        \A p \in Paths :
            /\ ~WasClean(p) => head[p] = start.head[p] /\ index[p] = start.index[p]
            /\ p \notin touched /\ head[p] # start.head[p] =>
                 \/ head[p] \in Texts /\ head[p] \ start.head[p] \subseteq Linters \cup {"fmt"}
                 \/ head[p] = Absent /\ removers[p] # {}

\* A refused amend leaves every tracked file that was clean as it found it.
RefusalPutsFixesBack ==
    exit = "refused" =>
        \A p \in Paths : WasClean(p) /\ start.head[p] # Absent /\ p \notin touched =>
            head[p] = start.head[p] /\ index[p] = start.index[p] /\ work[p] = start.work[p]

\* RFC 0002, section 2.4: a deletion is staged for a linter that stages its
\* deletions, and for no other.
DeletionsAreOptedIn ==
    lane = "staged" =>
        \A p \in Paths : start.index[p] # Absent /\ index[p] = Absent =>
            removers[p] \cap StageDeleted # {}

\* RFC 0002, section 2: outside the staged set only what a linter that opted in
\* wrote or deleted is restaged, and a new file only if one that stages new
\* outputs wrote it.
OutputsAreOptedIn ==
    /\ DeletionsAreOptedIn
    /\ lane = "staged" =>
          \A p \in Paths \ (full \cup partial) : index[p] # start.index[p] =>
              /\ (writers[p] \cup removers[p]) \cap OptIn # {} \/ p \in touched
              /\ start.index[p] = Absent => writers[p] \cap StageNew # {}

\* What a successful run leaves for the commit is formatted: every staged file
\* and every restaged output of the staged lane, every clean file in scope of the
\* commit lane; unless the run was interrupted, or the user edited the file.
SuccessIsConformant ==
    exit \in {"clean", "fixed"} /\ ~cut =>
        \A p \in Matched \ touched :
            /\ lane = "staged" /\ p \in full \cup partial \cup outputs /\ index[p] \in Texts =>
                  "fmt" \in index[p]
            /\ lane = "commit" /\ p \in scope \ preDirty /\ head[p] \in Texts =>
                  "fmt" \in head[p]

===============================================================================
