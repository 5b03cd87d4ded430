------------------------------ MODULE StagedLane ------------------------------
(***************************************************************************)
(* conformist --staged (cmd/format/staged.go, blobs.go): run over the      *)
(* fully staged files in place and restage what changed, then format the   *)
(* staged blobs of the partially staged files in a tree of their own and   *)
(* put the results into the index.                                         *)
(***************************************************************************)
EXTENDS FixRun

VARIABLES
    full,       \* stagedSet: staged paths without an unstaged change
    partial,    \* partialPaths: staged paths with one
    toRestage,  \* what the full lane adds to the index
    blobs,      \* the staged blobs of the partial paths, as read
    changed,    \* the blobs the isolated run has changed, not yet written
    restaged    \* some path was restaged

stagedVars == <<full, partial, toRestage, blobs, changed, restaged>>

StagedTypeOK ==
    /\ full \subseteq Paths /\ partial \subseteq Paths /\ toRestage \subseteq Paths
    /\ blobs \in [Paths -> Contents]
    /\ changed \in [Paths -> Contents]
    /\ restaged \in BOOLEAN

NoBlobs == [p \in Paths |-> Absent]

StagedInit ==
    /\ full = {} /\ partial = {} /\ toRestage = {}
    /\ blobs = NoBlobs /\ changed = NoBlobs
    /\ restaged = FALSE

\* RunStaged sorts the staged paths into the two lanes.  A staged deletion has
\* nothing to format; without fully staged files the full lane is skipped.
StagedPreflight ==
    LET whole == {p \in Paths : Staged(p) /\ ~Unstaged(p)}
        parts == {p \in Paths : Staged(p) /\ Unstaged(p)}
        toFormat == {p \in whole : index[p] # Absent}
    IN  /\ pc = "idle"
        /\ toFormat \cup parts # {}
        /\ Begin("staged", toFormat, TRUE)
        /\ full' = whole /\ partial' = parts /\ toRestage' = {}
        /\ blobs' = NoBlobs /\ changed' = NoBlobs
        /\ restaged' = FALSE
        /\ pc' = IF toFormat = {} THEN "blobs" ELSE "repair"

\* restageFullyStaged, after the run: its outputs, and the fully staged paths
\* it left dirty.
DetectRestage ==
    /\ pc = "ran" /\ lane = "staged"
    /\ \/ /\ toRestage' = outputs \cup {p \in full : Unstaged(p)}
          /\ Goto(IF toRestage' = {} THEN "blobs" ELSE "add")
          /\ UNCHANGED <<runVars, historyVars>>
       \/ "git" \in Faults /\ Finish("failed") /\ UNCHANGED toRestage
    /\ UNCHANGED <<repoVars, full, partial, blobs, changed, restaged>>

RestageFull ==
    /\ pc = "add"
    /\ \/ /\ AddPaths(toRestage)
          /\ restaged' = TRUE
          /\ Goto("blobs")
          /\ UNCHANGED <<runVars, historyVars>>
       \/ /\ "git" \in Faults \/ ~Addable(toRestage)
          /\ Finish("failed")
          /\ UNCHANGED <<repoVars, restaged>>
    /\ UNCHANGED <<full, partial, toRestage, blobs, changed>>

\* restagePartialBlobs, first loop: a path without an entry at stage 0 fails it.
ReadBlobs ==
    /\ pc = "blobs"
    /\ \/ /\ \A p \in partial : index[p] \in Texts
          /\ blobs' = Override(NoBlobs, index, partial)
          /\ Goto(IF partial = {} THEN "write" ELSE "isolate")
          /\ UNCHANGED <<runVars, historyVars>>
       \/ /\ (partial # {} /\ "git" \in Faults) \/ \E p \in partial : index[p] \notin Texts
          /\ Finish("failed")
          /\ UNCHANGED blobs
    /\ UNCHANGED <<repoVars, full, partial, toRestage, changed, restaged>>

\* What the repairs of the linters in ls, then the formatters, make of a blob.
BlobText(p, c, ls) ==
    LET text == IF ls = {} THEN c ELSE (c \ {"fmt"}) \cup ls
    IN  IF p \in Matched THEN FormattedText(text) ELSE text

\* Mutant of FormatBlobs: the working tree's content is formatted instead.
FormatWorkInstead ==
    /\ pc = "isolate"
    /\ LET made == [p \in Paths |-> IF p \in Present(partial)
                                    THEN BlobText(p, work[p], {}) ELSE Absent]
       IN  changed' = [p \in Paths |-> IF made[p] # blobs[p] THEN made[p] ELSE Absent]
    /\ Goto("write")
    /\ UNCHANGED <<repoVars, runVars, historyVars, full, partial, toRestage, blobs, restaged>>

\* formatStagedBlobs: linters and formatters run over a tree that holds only
\* the blobs; a blob that a repair deletes there fails the run.
FormatBlobs ==
    /\ pc = "isolate"
    /\ LET matching == {l \in Linters : Triggers[l] \cap partial # {}}
       IN  \/ \E hits \in [partial -> SUBSET matching] :
                /\ \A p \in partial, l \in Linters : l \in hits[p] => p \in Writes[l]
                /\ changed' =
                     [p \in Paths |->
                        IF p \in partial /\ BlobText(p, blobs[p], hits[p]) # blobs[p]
                        THEN BlobText(p, blobs[p], hits[p])
                        ELSE Absent]
                /\ Goto("write")
                /\ UNCHANGED <<runVars, historyVars>>
           \/ /\ \/ Faults \cap {"repair", "format"} # {}
                 \/ \E l \in matching : Deletes[l] \cap partial # {}
              /\ Finish("failed")
              /\ UNCHANGED changed
    /\ UNCHANGED <<repoVars, full, partial, toRestage, blobs, restaged>>

\* restagePartialBlobs, second loop: hash-object and update-index.
WriteBlob(p) ==
    /\ pc = "write"
    /\ changed[p] # Absent
    /\ \/ /\ UpdateIndexCacheinfo(p, changed[p])
          /\ changed' = [changed EXCEPT ![p] = Absent]
          /\ restaged' = TRUE
          /\ UNCHANGED <<lane, pc, exit, runVars, historyVars>>
       \/ "git" \in Faults /\ Finish("failed") /\ UNCHANGED <<repoVars, changed, restaged>>
    /\ UNCHANGED <<full, partial, toRestage, blobs>>

FinishStaged ==
    /\ pc = "write"
    /\ changed = NoBlobs
    /\ Finish(IF restaged THEN "fixed" ELSE "clean")
    /\ UNCHANGED <<repoVars, stagedVars>>

StagedStep ==
    \/ DetectRestage
    \/ RestageFull
    \/ ReadBlobs
    \/ FormatBlobs
    \/ \E p \in Paths : WriteBlob(p)
    \/ FinishStaged
===============================================================================
