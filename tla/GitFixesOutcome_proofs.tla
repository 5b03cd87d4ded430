-------------------------- MODULE GitFixesOutcome_proofs --------------------------
(***************************************************************************)
(* What the two lanes promise once a run is over, whatever the linters,    *)
(* tiers, files and faults, and over any number of invocations: the commit *)
(* lane commits fixes of clean files and nothing else, and puts them back  *)
(* when it refuses; the staged lane restages what linters that opted in    *)
(* wrote and nothing else; and what a successful run leaves is formatted.  *)
(***************************************************************************)
EXTENDS GitFixes_proofs

\* What the tools have made of a clean, tracked file: no marks but their own.
ToolsOnly(p) ==
    \/ work[p] \in Texts /\ work[p] \ start.head[p] \subseteq Linters \cup {"fmt"}
    \/ work[p] = Absent /\ removers[p] # {}

\* Until it commits, the commit lane changes the working tree only, knows the
\* files that were clean, and after the run wants those of them that differ.
CommitRun ==
    lane = "commit" /\ pc # "idle" =>
        \A p \in Paths :
            /\ head[p] = start.head[p] /\ index[p] = start.index[p]
            /\ p \notin preDirty =>
                  /\ start.index[p] = start.head[p]
                  /\ start.index[p] # Absent => start.work[p] = start.index[p]
            /\ WasClean(p) /\ start.head[p] # Absent => p \notin preDirty
            /\ WasClean(p) /\ start.head[p] # Absent /\ p \notin touched => ToolsOnly(p)
            /\ pc \in CommitPCs /\ p \in toCommit => p \notin preDirty /\ index[p] # Absent
            /\ pc \in CommitPCs /\ p \notin toCommit \cup preDirty \cup touched /\ index[p] # Absent =>
                  work[p] = index[p]
            /\ pc \in CommitPCs \cup {"ran"} /\ ~cut /\ p \in (Matched \cap scope) \ touched =>
                  work[p] = Absent \/ "fmt" \in work[p]

\* The commit lane's half of SuccessIsConformant.
CommitIsConformant ==
    lane = "commit" /\ exit \in {"clean", "fixed"} /\ ~cut =>
        \A p \in Matched \ touched :
            p \in scope \ preDirty /\ head[p] \in Texts => "fmt" \in head[p]

CommitOutcome ==
    /\ pc # "idle" => exit = "none"
    /\ CommitRun
    /\ pc = "idle" => CommitIsOnlyFixes /\ RefusalPutsFixesBack /\ CommitIsConformant

USE MarksAssumption, LintersAssumption, SessionAssumption, EditsAssumption

-------------------------------------------------------------------------------
(* What the tools do to one file *)

LEMMA RepairEffect ==
    ASSUME NEW l \in Linters, RunCommand(l), TypeOK, NEW p \in Paths
    PROVE  /\ writers[p] \subseteq writers'[p] /\ removers[p] \subseteq removers'[p]
           /\ \A k \in removers'[p] : k \in removers[p] \/ (k = l /\ p \in Deletes[l])
           /\ \/ work'[p] = work[p]
              \/ work'[p] = RepairedText(l, work[p]) /\ l \in writers'[p]
              \/ work'[p] = Absent /\ l \in removers'[p]
  BY DEF RunCommand, TypeOK, RunTypeOK, RepoTypeOK

LEMMA ToolMarks ==
    ASSUME NEW c \in Texts \cup {Absent}, NEW base
    PROVE  /\ Absent \notin Texts
           /\ \A l \in Linters : c = Absent \/ c \ base \subseteq Linters \cup {"fmt"} =>
                  RepairedText(l, c) \ base \subseteq Linters \cup {"fmt"}
           /\ c \ base \subseteq Linters \cup {"fmt"} =>
                  FormattedText(c) \ base \subseteq Linters \cup {"fmt"}
           /\ "fmt" \in FormattedText(c)
  BY DEF RepairedText, FormattedText, Texts, Absent

LEMMA FormatEffect ==
    ASSUME Format, TypeOK, NEW p \in Paths
    PROVE  /\ \/ work'[p] = work[p]
              \/ work[p] # Absent /\ work'[p] = FormattedText(work[p])
           /\ pc' # "idle" => /\ FormatScope \subseteq Present(Paths)
                              /\ ~cut' /\ p \in FormatScope \cap Matched =>
                                    work'[p] = FormattedText(work[p])
<1>1. CASE UNCHANGED work /\ Finish("failed")
  BY <1>1 DEF Finish
<1>2. ASSUME NEW S \in SUBSET (FormatScope \cap Matched), FormatScope \subseteq Present(Paths),
             work' = [q \in Paths |-> IF q \in S THEN FormattedText(work[q]) ELSE work[q]],
             pc' # "idle" /\ ~cut' => S = FormatScope \cap Matched
      PROVE  /\ \/ work'[p] = work[p]
                \/ work[p] # Absent /\ work'[p] = FormattedText(work[p])
             /\ pc' # "idle" => /\ FormatScope \subseteq Present(Paths)
                                /\ ~cut' /\ p \in FormatScope \cap Matched =>
                                      work'[p] = FormattedText(work[p])
  BY <1>2 DEF Present
<1>. QED  BY <1>1, <1>2 DEF Format, Finish

-------------------------------------------------------------------------------
(* The commit lane *)

\* Nothing is asked of it while the other lane runs.
LEMMA OtherLane ==
    ASSUME lane' = "staged", exit' # "refused", pc' # "idle" => exit' = "none"
    PROVE  CommitOutcome'
  BY DEF CommitOutcome, CommitRun, CommitIsOnlyFixes, RefusalPutsFixesBack, CommitIsConformant

\* A run that ends without a commit, and promises nothing of the working tree.
LEMMA CommitGivesUp ==
    ASSUME CommitOutcome, lane = "commit", pc # "idle",
           UNCHANGED <<head, index, lane, start>>,
           pc' = "idle", exit' \notin {"clean", "fixed", "refused"}
    PROVE  CommitOutcome'
  BY DEF CommitOutcome, CommitRun, CommitIsOnlyFixes, RefusalPutsFixesBack, CommitIsConformant

LEMMA StartCommitOutcome ==
    ASSUME IndInv, StartCommit
    PROVE  CommitOutcome'
<1>1. /\ pc' = "repair" /\ lane' = "commit" /\ exit' = "none" /\ preDirty' = ChangedPaths
      /\ start' = [head |-> head, index |-> index, work |-> work]
      /\ UNCHANGED <<head, index, work>>
  BY DEF StartCommit, CommitPreflight, Begin, repoVars
<1>2. ASSUME NEW p \in Paths
      PROVE  /\ p \notin ChangedPaths =>
                  index[p] = head[p] /\ (index[p] # Absent => work[p] = index[p])
             /\ head[p] = index[p] /\ work[p] = index[p] => p \notin ChangedPaths
             /\ head[p] = index[p] /\ work[p] = index[p] /\ head[p] # Absent => work[p] \in Texts
  BY DEF ChangedPaths, Staged, Unstaged, IndInv, TypeOK, RepoTypeOK
<1>3. CommitRun'
  BY <1>1, <1>2 DEF CommitRun, WasClean, ToolsOnly, CommitPCs
<1>. QED  BY <1>1, <1>3 DEF CommitOutcome

LEMMA RepairOutcome ==
    ASSUME IndInv, CommitOutcome, NEW l \in Linters, Repair(l),
           UNCHANGED <<commitVars, stagedVars, runs>>
    PROVE  CommitOutcome'
<1>1. /\ RunCommand(l) /\ pc = "repair" /\ exit = "none" /\ TypeOK
      /\ UNCHANGED <<head, index, lane, start, touched, cut, preDirty, toCommit>>
  BY DEF Repair, RunCommand, commitVars, IndInv, CommitOutcome
<1>2. \/ pc' = "repair" /\ exit' = "none"
      \/ pc' = "idle" /\ exit' = "failed"
  BY <1>1 DEF Repair, CommandFails
<1>3. CASE lane = "staged"
  BY <1>1, <1>2, <1>3, OtherLane
<1>4. CASE lane = "commit" /\ pc' = "idle"
  BY <1>1, <1>2, <1>4, CommitGivesUp
<1>5. CASE lane = "commit" /\ pc' = "repair"
  <2>1. ASSUME NEW p \in Paths, ToolsOnly(p)
        PROVE  ToolsOnly(p)'
    <3>1. work[p] \in Texts \cup {Absent}
      BY <1>1 DEF TypeOK, RepoTypeOK
    <3>2. CASE work'[p] = work[p]
      BY <1>1, <2>1, <3>2, RepairEffect DEF ToolsOnly
    <3>3. CASE work'[p] = RepairedText(l, work[p])
      BY <1>1, <2>1, <3>1, <3>3, ToolTexts, ToolMarks DEF ToolsOnly
    <3>4. CASE work'[p] = Absent /\ l \in removers'[p]
      BY <3>4 DEF ToolsOnly
    <3>. QED  BY <1>1, <3>2, <3>3, <3>4, RepairEffect
  <2>2. CommitRun'
    BY <1>1, <1>5, <2>1 DEF CommitOutcome, CommitRun, WasClean, CommitPCs
  <2>. QED  BY <1>2, <1>5, <2>2 DEF CommitOutcome
<1>. QED  BY <1>1, <1>2, <1>3, <1>4, <1>5 DEF TypeOK, RunTypeOK

LEMMA FormatOutcome ==
    ASSUME IndInv, CommitOutcome, Format, UNCHANGED <<commitVars, stagedVars, runs>>
    PROVE  CommitOutcome'
<1>1. /\ pc = "repair" /\ exit = "none" /\ TypeOK
      /\ UNCHANGED <<head, index, lane, scope, start, touched, removers, preDirty, toCommit>>
  BY DEF Format, Finish, Goto, runVars, historyVars, commitVars, IndInv, CommitOutcome
<1>2. \/ pc' = "ran" /\ exit' = "none"
      \/ pc' = "idle" /\ exit' = "failed"
  BY <1>1 DEF Format, Finish, Goto
<1>3. CASE lane = "staged"
  BY <1>1, <1>2, <1>3, OtherLane
<1>4. CASE lane = "commit" /\ pc' = "idle"
  BY <1>1, <1>2, <1>4, CommitGivesUp
<1>5. CASE lane = "commit" /\ pc' = "ran"
  <2>1. ASSUME NEW p \in Paths
        PROVE  /\ ToolsOnly(p) => ToolsOnly(p)'
               /\ ~cut' /\ p \in Matched \cap scope => work'[p] = Absent \/ "fmt" \in work'[p]
    <3>1. work[p] \in Texts \cup {Absent}
      BY <1>1 DEF TypeOK, RepoTypeOK
    <3>2. \/ work'[p] = work[p]
          \/ work[p] # Absent /\ work'[p] = FormattedText(work[p])
      BY <1>1, FormatEffect
    <3>3. ~cut' /\ p \in FormatScope \cap Matched => work'[p] = FormattedText(work[p])
      BY <1>1, <1>5, FormatEffect
    <3>4. p \in scope => p \in FormatScope \/ work[p] = Absent
      BY DEF FormatScope, Present
    <3>5. ToolsOnly(p) => ToolsOnly(p)'
      BY <1>1, <3>1, <3>2, ToolTexts, ToolMarks DEF ToolsOnly
    <3>6. ~cut' /\ p \in Matched \cap scope => work'[p] = Absent \/ "fmt" \in work'[p]
      BY <3>1, <3>2, <3>3, <3>4, ToolMarks
    <3>. QED  BY <3>5, <3>6
  <2>2. CommitRun'
    BY <1>1, <1>5, <2>1 DEF CommitOutcome, CommitRun, WasClean, CommitPCs
  <2>. QED  BY <1>2, <1>5, <2>2 DEF CommitOutcome
<1>. QED  BY <1>1, <1>2, <1>3, <1>4, <1>5 DEF TypeOK, RunTypeOK

\* The paths that the commit lane wants are clean at the start, tracked, and as the
\* tools have left them; any other clean path is as it was.
LEMMA DetectFixesOutcome ==
    ASSUME IndInv, CommitOutcome, DetectFixes, UNCHANGED <<stagedVars, runs>>
    PROVE  CommitOutcome'
<1>1. /\ pc = "ran" /\ lane = "commit" /\ lane' = "commit" /\ exit = "none"
      /\ toCommit' = ChangedPaths \ preDirty
      /\ UNCHANGED <<head, index, work, scope, start, touched, removers, cut, preDirty>>
  BY DEF DetectFixes, Goto, repoVars, runVars, historyVars, CommitOutcome
<1>2. ASSUME NEW p \in Paths
      PROVE  /\ p \in toCommit' => p \notin preDirty /\ index[p] # Absent
             /\ p \notin toCommit' \cup preDirty =>
                  index[p] = head[p] /\ (index[p] # Absent => work[p] = index[p])
  BY <1>1 DEF ChangedPaths, Staged, Unstaged, CommitOutcome, CommitRun
<1>3. CASE toCommit' = {}
  <2>1. pc' = "idle" /\ exit' = "clean"
    BY <1>3 DEF DetectFixes
  <2>2. CommitIsOnlyFixes'
    BY <1>1 DEF CommitOutcome, CommitRun, CommitIsOnlyFixes, WasClean
  <2>3. CommitIsConformant'
    <3>. SUFFICES ASSUME ~cut, NEW p \in Matched \ touched, p \in scope \ preDirty, head[p] \in Texts
                  PROVE  "fmt" \in head[p]
      BY <1>1 DEF CommitIsConformant
    <3>1. p \in Paths /\ index[p] = head[p] /\ (index[p] # Absent => work[p] = index[p])
      BY <1>2, <1>3
    <3>2. head[p] # Absent
      BY ToolMarks
    <3>3. work[p] = Absent \/ "fmt" \in work[p]
      BY <1>1, <3>1 DEF CommitOutcome, CommitRun
    <3>. QED  BY <3>1, <3>2, <3>3
  <2>. QED  BY <2>1, <2>2, <2>3 DEF CommitOutcome, CommitRun, RefusalPutsFixesBack
<1>4. CASE toCommit' # {}
  <2>1. pc' \in CommitPCs /\ exit' = "none"
    BY <1>1, <1>4 DEF DetectFixes, Goto, CommitPCs
  <2>2. CommitRun'
    BY <1>1, <1>2, <2>1 DEF CommitOutcome, CommitRun, WasClean, ToolsOnly
  <2>. QED  BY <2>1, <2>2 DEF CommitOutcome, CommitPCs
<1>. QED  BY <1>3, <1>4

\* The lane looks at something and goes on, or gives up.
LEMMA LookAgainOutcome ==
    ASSUME IndInv, CommitOutcome, CheckPublished \/ GuardConflicts, UNCHANGED <<stagedVars, runs>>
    PROVE  CommitOutcome'
<1>1. /\ pc \in CommitPCs /\ lane = "commit" /\ exit = "none" /\ lane' = lane
      /\ UNCHANGED <<head, index, work, scope, start, touched, removers, cut, preDirty, toCommit>>
  BY DEF CheckPublished, GuardConflicts, Goto, Finish, repoVars, runVars, historyVars, commitVars,
         IndInv, LaneInv, CommitOutcome, CommitPCs
<1>2. \/ pc' \in CommitPCs /\ exit' = "none"
      \/ pc' = "idle" /\ exit' = "conflicted"
  BY <1>1 DEF CheckPublished, GuardConflicts, Goto, Finish, CommitPCs
<1>3. CASE pc' = "idle" /\ exit' = "conflicted"
  BY <1>1, <1>3, CommitGivesUp DEF CommitPCs
<1>4. CASE pc' \in CommitPCs /\ exit' = "none"
  <2>1. CommitRun'
    BY <1>1, <1>4 DEF CommitOutcome, CommitRun, WasClean, ToolsOnly, CommitPCs
  <2>. QED  BY <1>4, <2>1 DEF CommitOutcome, CommitPCs
<1>. QED  BY <1>2, <1>3, <1>4

\* Fixes are put back on paths that were clean; the other clean paths have none.
LEMMA RestoreFixesOutcome ==
    ASSUME IndInv, CommitOutcome, RestoreFixes, UNCHANGED <<stagedVars, runs>>
    PROVE  CommitOutcome'
<1>1. /\ pc = "restore" /\ pc \in CommitPCs /\ lane = "commit" /\ lane' = lane /\ pc' = "idle"
      /\ UNCHANGED <<start, touched, removers, cut, preDirty, toCommit>>
  BY DEF RestoreFixes, Finish, runVars, historyVars, commitVars, IndInv, LaneInv, CommitPCs
<1>2. CASE exit' = "unrestored" /\ UNCHANGED repoVars
  BY <1>1, <1>2, CommitGivesUp DEF repoVars
<1>3. CASE RestorePaths(toCommit) /\ exit' \in {"refused", "failed"}
  <2>1. ASSUME NEW p \in Paths
        PROVE  /\ head'[p] = start.head[p] /\ index'[p] = start.index[p]
               /\ WasClean(p) /\ start.head[p] # Absent /\ p \notin touched =>
                    work'[p] = start.work[p]
    <3>1. /\ head'[p] = head[p]
          /\ index'[p] = IF p \in toCommit THEN head[p] ELSE index[p]
          /\ work'[p] = IF p \in toCommit THEN head[p] ELSE work[p]
      BY <1>3 DEF RestorePaths, Override
    <3>2. head[p] = start.head[p] /\ index[p] = start.index[p]
      BY <1>1 DEF CommitOutcome, CommitRun
    <3>3. p \in toCommit => start.index[p] = start.head[p]
      BY <1>1 DEF CommitOutcome, CommitRun
    <3>4. WasClean(p) /\ start.head[p] # Absent /\ p \notin touched \cup toCommit =>
             work[p] = index[p]
      BY <1>1, <3>2 DEF CommitOutcome, CommitRun, WasClean
    <3>. QED  BY <3>1, <3>2, <3>3, <3>4 DEF WasClean
  <2>2. CommitIsOnlyFixes'
    BY <1>1, <2>1 DEF CommitIsOnlyFixes
  <2>3. RefusalPutsFixesBack'
    BY <1>1, <2>1 DEF RefusalPutsFixesBack, WasClean
  <2>. QED  BY <1>1, <1>3, <2>2, <2>3 DEF CommitOutcome, CommitRun, CommitIsConformant
<1>. QED  BY <1>2, <1>3 DEF RestoreFixes, Finish

\* What is committed are fixes of files that were clean.
LEMMA CommitOrAmendOutcome ==
    ASSUME IndInv, CommitOutcome, CommitOrAmend, UNCHANGED <<stagedVars, runs>>
    PROVE  CommitOutcome'
<1>1. /\ pc = "commit" /\ pc \in CommitPCs /\ lane = "commit" /\ lane' = lane /\ pc' = "idle"
      /\ UNCHANGED <<scope, start, touched, removers, cut, preDirty, toCommit>>
  BY DEF CommitOrAmend, Finish, runVars, historyVars, commitVars, IndInv, LaneInv, CommitPCs
<1>2. CASE exit' = "failed" /\ UNCHANGED repoVars
  BY <1>1, <1>2, CommitGivesUp DEF repoVars
<1>3. CASE CommitPaths(toCommit) /\ exit' = "fixed"
  <2>1. ASSUME NEW p \in Paths
        PROVE  /\ head'[p] = IF p \in toCommit THEN work[p] ELSE head[p]
               /\ index'[p] = IF p \in toCommit THEN work[p] ELSE index[p]
               /\ head[p] = start.head[p] /\ index[p] = start.index[p]
               /\ p \in toCommit => WasClean(p) /\ start.head[p] # Absent
    <3>1. /\ head'[p] = IF p \in toCommit THEN work[p] ELSE head[p]
          /\ index'[p] = IF p \in toCommit THEN work[p] ELSE index[p]
      BY <1>3 DEF CommitPaths, Override
    <3>2. /\ head[p] = start.head[p] /\ index[p] = start.index[p]
          /\ p \in toCommit => WasClean(p) /\ start.head[p] # Absent
      BY <1>1 DEF CommitOutcome, CommitRun, WasClean
    <3>. QED  BY <3>1, <3>2
  <2>2. CommitIsOnlyFixes'
    <3>. SUFFICES ASSUME NEW p \in Paths
                  PROVE  /\ ~WasClean(p) => head'[p] = start.head[p] /\ index'[p] = start.index[p]
                         /\ p \notin touched /\ head'[p] # start.head[p] =>
                              \/ head'[p] \in Texts /\ head'[p] \ start.head[p] \subseteq Linters \cup {"fmt"}
                              \/ head'[p] = Absent /\ removers[p] # {}
      BY <1>1 DEF CommitIsOnlyFixes, WasClean
    <3>1. p \in toCommit /\ p \notin touched => ToolsOnly(p)
      BY <1>1, <2>1 DEF CommitOutcome, CommitRun
    <3>. QED  BY <2>1, <3>1 DEF ToolsOnly
  <2>3. CommitIsConformant'
    <3>. SUFFICES ASSUME ~cut, NEW p \in Matched \ touched, p \in scope \ preDirty, head'[p] \in Texts
                  PROVE  "fmt" \in head'[p]
      BY <1>1 DEF CommitIsConformant
    <3>1. p \in Paths /\ head'[p] # Absent
      BY ToolMarks
    <3>2. work[p] = Absent \/ "fmt" \in work[p]
      BY <1>1 DEF CommitOutcome, CommitRun
    <3>3. p \notin toCommit => index[p] = head[p] /\ (index[p] # Absent => work[p] = index[p])
      BY <1>1, <3>1 DEF CommitOutcome, CommitRun
    <3>. QED  BY <2>1, <3>1, <3>2, <3>3
  <2>. QED  BY <1>1, <1>3, <2>2, <2>3 DEF CommitOutcome, CommitRun, RefusalPutsFixesBack
<1>. QED  BY <1>2, <1>3 DEF CommitOrAmend, Finish

\* The user's edit of a file is the user's.
LEMMA UserEditsOutcome ==
    ASSUME IndInv, CommitOutcome, NEW q \in Paths, UserEdits(q)
    PROVE  CommitOutcome'
<1>1. /\ pc # "idle" /\ touched' = {q} /\ touched = {}
      /\ \A p \in Paths \ {q} : work'[p] = work[p]
      /\ UNCHANGED <<head, index, lane, pc, exit, scope, start, removers, cut, preDirty, toCommit>>
  BY DEF UserEdits, runVars, commitVars, IndInv, TypeOK, RepoTypeOK
<1>2. \A p \in Paths : p \notin touched' => ToolsOnly(p)' = ToolsOnly(p)
  BY <1>1 DEF ToolsOnly
<1>3. CommitRun'
  BY <1>1, <1>2 DEF CommitOutcome, CommitRun, WasClean
<1>. QED  BY <1>1, <1>3 DEF CommitOutcome

LEMMA NextCommitOutcome ==
    ASSUME IndInv, CommitOutcome, [Next]_vars
    PROVE  CommitOutcome'
<1>1. CASE UNCHANGED vars
  BY <1>1 DEF vars, repoVars, runVars, historyVars, commitVars, CommitOutcome, CommitRun, WasClean,
     ToolsOnly, CommitIsOnlyFixes, RefusalPutsFixesBack, CommitIsConformant
<1>2. CASE Run
  <2>1. ASSUME NEW l \in Linters, RepairObserved(l)
        PROVE  CommitOutcome'
    <3>1. lane' = "staged" /\ exit' \in {exit, "failed"} /\ exit = "none"
          /\ (pc' = "idle" \/ exit' = exit)
      BY <2>1 DEF RepairObserved, RunCommand, CommandFails, CommitOutcome
    <3>. QED  BY <3>1, OtherLane
  <2>2. CASE Attribute
    <3>1. lane' = "staged" /\ exit' \in {exit, "failed"} /\ exit = "none"
          /\ (pc' = "idle" \/ exit' = exit)
      BY <2>2 DEF Attribute, Goto, Finish, IndInv, LaneInv, StagedPCs, CommitOutcome
    <3>. QED  BY <3>1, OtherLane
  <2>. QED  BY <1>2, <2>1, <2>2, RepairOutcome, FormatOutcome DEF Run, RunStep
<1>3. CASE Commit
  BY <1>3, DetectFixesOutcome, LookAgainOutcome, RestoreFixesOutcome, CommitOrAmendOutcome
     DEF Commit, CommitStep
<1>4. CASE Stage
  <2>1. pc # "idle" /\ lane = "staged" /\ exit = "none"
    BY <1>4 DEF Stage, StagedStep, DetectRestage, RestageFull, ReadBlobs, FormatBlobs, WriteBlob,
       FinishStaged, IndInv, LaneInv, StagedPCs, CommitOutcome
  <2>2. \/ UNCHANGED <<lane, exit>>
        \/ pc' = "idle" /\ exit' \in {"failed", "fixed", "clean"} /\ lane' = lane
    BY <1>4 DEF Stage, StagedStep, DetectRestage, RestageFull, ReadBlobs, FormatBlobs, WriteBlob,
       FinishStaged, Goto, Finish
  <2>. QED  BY <2>1, <2>2, OtherLane
<1>5. CASE StartStaged
  BY <1>5, OtherLane DEF StartStaged, StagedPreflight, Begin
<1>6. CASE Crash
  <2>1. pc # "idle" /\ pc' = "idle" /\ exit' = "killed" /\ UNCHANGED <<head, index, lane, start>>
    BY <1>6 DEF Crash, Finish, repoVars, historyVars
  <2>. QED  BY <2>1, OtherLane, CommitGivesUp DEF IndInv, TypeOK, RunTypeOK
<1>. QED  BY <1>1, <1>2, <1>3, <1>4, <1>5, <1>6, StartCommitOutcome, UserEditsOutcome
          DEF Next, Process, Rest

LEMMA CommitInvariance == Spec => []CommitOutcome
<1>1. Init => CommitOutcome
  BY DEF Init, CommitOutcome, CommitRun, CommitIsOnlyFixes, RefusalPutsFixesBack,
         CommitIsConformant, WasClean
<1>2. IndInv /\ CommitOutcome /\ [Next]_vars => CommitOutcome'
  BY NextCommitOutcome
<1>. QED  BY <1>1, <1>2, Invariance, PTL DEF Spec

\* Whatever tools, faults and user do, --commit commits nothing but what tools made
\* of files that were clean, and moves neither HEAD nor the index of any other.
THEOREM OnlyFixesAreCommitted == Spec => []CommitIsOnlyFixes
<1>1. CommitOutcome => CommitIsOnlyFixes
  BY DEF CommitOutcome, CommitRun, CommitIsOnlyFixes
<1>. QED  BY <1>1, CommitInvariance, PTL

\* A refused amend leaves no fix behind in a tracked file that was clean.
THEOREM RefusalIsClean == Spec => []RefusalPutsFixesBack
<1>1. CommitOutcome => RefusalPutsFixesBack
  BY DEF CommitOutcome, RefusalPutsFixesBack
<1>. QED  BY <1>1, CommitInvariance, PTL

-------------------------------------------------------------------------------
(* The staged lane *)

\* A path outside the staged set that may be restaged: a linter that opted in wrote
\* or deleted it, and one that stages new outputs wrote it when it is new.
OptedIn(p) ==
    /\ (writers[p] \cup removers[p]) \cap OptIn # {} \/ p \in touched
    /\ start.index[p] = Absent => writers[p] \cap StageNew # {}

\* A linter that opted in deleted the file.
OptInDeleted(p) == removers[p] \cap OptIn # {}

\* Until it restages, the lane leaves the index alone, and has the fully staged
\* files in scope.
NotRestaged(p) ==
    pc \in {"repair", "attribute", "ran", "add"} =>
        /\ index[p] = start.index[p]
        /\ p \in full /\ index[p] # Absent => p \in scope
        /\ pc \in {"ran", "add"} /\ p \in scope => work[p] # Absent

\* What a snapshot lists that the one before did not is the observed linter's doing.
Observed(p) ==
    pc = "attribute" /\ p \notin before =>
        \A l \in observed :
            /\ p \in Snapshot(l) => l \in writers[p] \cup removers[p] \/ p \in touched
            /\ index[p] = Absent /\ l \in StageNew /\ work[p] # Absent => l \in writers[p]
            /\ index[p] # Absent /\ work[p] = Absent => l \in removers[p]

\* Outputs are of linters that opted in, and what is restaged are the outputs and
\* the fully staged files that differ.
Restageable(p) ==
    /\ p \in outputs =>
          OptedIn(p) /\ (work[p] = Absent /\ start.index[p] # Absent => OptInDeleted(p))
    /\ pc = "add" =>
          /\ p \in outputs => p \in toRestage
          /\ p \in toRestage => p \in outputs \/ (p \in full /\ index[p] # Absent)
          /\ p \in full \ (toRestage \cup touched) => index[p] = Absent \/ work[p] = index[p]

\* After the formatters, and then in the index.
FormattedOnce(p) ==
    ~cut /\ p \in Matched \ touched =>
        /\ pc \in {"ran", "add"} /\ p \in scope \cup outputs => work[p] = Absent \/ "fmt" \in work[p]
        /\ pc \in {"blobs", "isolate", "write"} /\ p \in full \cup outputs =>
              index[p] \notin Texts \/ "fmt" \in index[p]

\* The blobs of the partially staged files are those of the index, and formatted
\* when they are written back.
IsolatedBlob(p) ==
    /\ pc = "isolate" /\ p \in partial => blobs[p] = index[p]
    /\ changed[p] # Absent =>
          p \in partial /\ pc = "write" /\ (p \in Matched => "fmt" \in changed[p])
    /\ pc = "write" /\ p \in partial \cap Matched /\ changed[p] = Absent => "fmt" \in index[p]

StagedRun ==
    lane = "staged" /\ pc # "idle" =>
        /\ scoped
        /\ outputs # {} \/ pc = "attribute" => todo \subseteq OptIn
        /\ \A p \in Paths : /\ NotRestaged(p) /\ Observed(p) /\ Restageable(p)
                            /\ FormattedOnce(p) /\ IsolatedBlob(p)

\* The second half of OutputsAreOptedIn.
OutsideIsOptedIn ==
    lane = "staged" =>
        \A p \in Paths \ (full \cup partial) : index[p] # start.index[p] =>
            /\ (writers[p] \cup removers[p]) \cap OptIn # {} \/ p \in touched
            /\ start.index[p] = Absent => writers[p] \cap StageNew # {}

\* DeletionsAreOptedIn without the tier: whoever deleted the file restages its
\* outputs, and could delete it.
DeletionsAreOutputs ==
    lane = "staged" =>
        \A p \in Paths :
            start.index[p] # Absent /\ index[p] = Absent => OptInDeleted(p)

RemoversCanDelete == \A p \in Paths : \A l \in removers[p] : p \in Deletes[l]

\* The staged lane's half of SuccessIsConformant.
StagedIsConformant ==
    lane = "staged" /\ exit \in {"clean", "fixed"} /\ ~cut =>
        \A p \in Matched \ touched :
            p \in full \cup partial \cup outputs /\ index[p] \in Texts => "fmt" \in index[p]

StagedOutcome ==
    /\ StagedRun
    /\ OutsideIsOptedIn
    /\ DeletionsAreOutputs
    /\ pc = "idle" => StagedIsConformant

LEMMA AbsentIsNoText == Absent \notin Texts
  BY ToolMarks DEF Texts

\* Nothing is asked of it while the other lane runs.
LEMMA OtherLaneThanStaged ==
    ASSUME lane' = "commit"
    PROVE  StagedOutcome'
  BY DEF StagedOutcome, StagedRun, OutsideIsOptedIn, DeletionsAreOutputs, StagedIsConformant

\* What tools did stays done, so a path that was opted in stays it.
LEMMA OptedInGrows ==
    ASSUME NEW p \in Paths, writers[p] \subseteq writers'[p], removers[p] \subseteq removers'[p],
           p \in touched => p \in touched', start' = start
    PROVE  (OptedIn(p) => OptedIn(p)') /\ (OptInDeleted(p) => OptInDeleted(p)')
  BY DEF OptedIn, OptInDeleted

\* A run that ends without success, the index as it was.
LEMMA StagedGivesUp ==
    ASSUME StagedOutcome, UNCHANGED <<index, lane, start, touched, full, partial>>,
           \A p \in Paths : writers[p] \subseteq writers'[p] /\ removers[p] \subseteq removers'[p],
           pc' = "idle", exit' \notin {"clean", "fixed"}
    PROVE  StagedOutcome'
<1>1. OutsideIsOptedIn'
  <2>. SUFFICES ASSUME lane = "staged", NEW p \in Paths \ (full \cup partial),
                       index[p] # start.index[p]
                PROVE  OptedIn(p)'
    BY DEF OutsideIsOptedIn, OptedIn
  <2>1. OptedIn(p)
    BY DEF StagedOutcome, OutsideIsOptedIn, OptedIn
  <2>. QED  BY <2>1, OptedInGrows
<1>2. DeletionsAreOutputs'
  <2>. SUFFICES ASSUME lane = "staged", NEW p \in Paths,
                       start.index[p] # Absent, index[p] = Absent
                PROVE  OptInDeleted(p)'
    BY DEF DeletionsAreOutputs
  <2>1. OptInDeleted(p)
    BY DEF StagedOutcome, DeletionsAreOutputs
  <2>. QED  BY <2>1, OptedInGrows
<1>. QED  BY <1>1, <1>2 DEF StagedOutcome, StagedRun, StagedIsConformant

\* Before it restages, the lane has nothing to answer for.
LEMMA NothingRestaged ==
    ASSUME lane' = "staged", pc' # "idle", StagedRun',
           \A p \in Paths : index'[p] = start'.index[p]
    PROVE  StagedOutcome'
  BY DEF StagedOutcome, OutsideIsOptedIn, DeletionsAreOutputs

LEMMA StartStagedOutcome ==
    ASSUME IndInv, StartStaged
    PROVE  StagedOutcome'
<1>. DEFINE whole == {p \in Paths : Staged(p) /\ ~Unstaged(p)}
            parts == {p \in Paths : Staged(p) /\ Unstaged(p)}
            toFormat == {p \in whole : index[p] # Absent}
<1>1. /\ Begin("staged", toFormat, TRUE)
      /\ full' = whole /\ partial' = parts /\ changed' = NoBlobs
      /\ pc' = IF toFormat = {} THEN "blobs" ELSE "repair"
  BY DEF StartStaged, StagedPreflight
<1>2. /\ lane' = "staged" /\ scoped' = TRUE /\ scope' = toFormat /\ outputs' = {}
      /\ start' = [head |-> head, index |-> index, work |-> work]
      /\ UNCHANGED <<index, work>>
  BY <1>1 DEF Begin, repoVars
<1>3. ASSUME NEW p \in Paths
      PROVE  /\ NotRestaged(p)' /\ Observed(p)' /\ Restageable(p)'
             /\ FormattedOnce(p)' /\ IsolatedBlob(p)'
  <2>1. NotRestaged(p)' /\ Observed(p)' /\ Restageable(p)'
    BY <1>1, <1>2 DEF NotRestaged, Observed, Restageable
  <2>2. FormattedOnce(p)'
    BY <1>1, <1>2, AbsentIsNoText DEF FormattedOnce
  <2>3. IsolatedBlob(p)'
    BY <1>1, <1>2 DEF IsolatedBlob, NoBlobs
  <2>. QED  BY <2>1, <2>2, <2>3
<1>4. StagedRun'
  BY <1>1, <1>2, <1>3 DEF StagedRun
<1>. QED  BY <1>1, <1>2, <1>4, NothingRestaged

\* A repair during the walk: nothing is an output yet.
LEMMA RepairStagedOutcome ==
    ASSUME IndInv, StagedOutcome, NEW l \in Linters, Repair(l),
           UNCHANGED <<commitVars, stagedVars, runs>>
    PROVE  StagedOutcome'
<1>1. /\ RunCommand(l) /\ pc = "repair" /\ TypeOK
      /\ UNCHANGED <<index, lane, start, touched, cut, full, partial, toRestage, blobs, changed>>
  BY DEF Repair, RunCommand, stagedVars, IndInv
<1>2. \A p \in Paths : writers[p] \subseteq writers'[p] /\ removers[p] \subseteq removers'[p]
  BY <1>1, RepairEffect
<1>3. CASE lane = "commit"
  BY <1>1, <1>3, OtherLaneThanStaged
<1>4. CASE lane = "staged" /\ pc' = "idle" /\ exit' = "failed"
  BY <1>1, <1>2, <1>4, StagedGivesUp
<1>5. CASE /\ lane = "staged" /\ todo' = todo \ {l}
           /\ UNCHANGED <<pc, exit, scope, scoped, before, observed, outputs>>
  <2>1. l \notin OptIn /\ outputs = {}
    BY <1>1, <1>5 DEF Repair, StagedOutcome, StagedRun
  <2>2. ASSUME NEW p \in Paths
        PROVE  /\ NotRestaged(p)' /\ Observed(p)' /\ Restageable(p)'
               /\ FormattedOnce(p)' /\ IsolatedBlob(p)' /\ index'[p] = start'.index[p]
    BY <1>1, <1>5, <2>1
       DEF StagedOutcome, StagedRun, NotRestaged, Observed, Restageable, FormattedOnce, IsolatedBlob
  <2>3. StagedRun'
    BY <1>1, <1>5, <2>1, <2>2 DEF StagedOutcome, StagedRun
  <2>. QED  BY <1>1, <1>5, <2>2, <2>3, NothingRestaged
<1>. QED  BY <1>1, <1>3, <1>4, <1>5 DEF Repair, CommandFails, TypeOK, RunTypeOK
\* What the snapshot before an observed repair does not list and the one after it
\* does, the repair has written or deleted.
LEMMA RepairObservedOutcome ==
    ASSUME IndInv, StagedOutcome, NEW l \in Linters, RepairObserved(l),
           UNCHANGED <<commitVars, stagedVars, runs>>
    PROVE  StagedOutcome'
<1>1. /\ RunCommand(l) /\ pc = "repair" /\ lane = "staged" /\ TypeOK
      /\ todo \subseteq OptIn /\ l \in OptIn
      /\ UNCHANGED <<head, index, lane, start, touched, cut, full, partial, toRestage, blobs, changed>>
  BY DEF RepairObserved, RunCommand, stagedVars, IndInv
<1>2. \A p \in Paths : writers[p] \subseteq writers'[p] /\ removers[p] \subseteq removers'[p]
  BY <1>1, RepairEffect
<1>3. CASE pc' = "idle" /\ exit' = "failed"
  BY <1>1, <1>2, <1>3, StagedGivesUp
<1>4. CASE /\ before' = Snapshot(l) /\ observed' = {l} /\ todo' = todo \ {l}
           /\ pc' = "attribute"
           /\ UNCHANGED <<exit, scope, scoped, outputs>>
  <2>1. ASSUME NEW p \in Paths
        PROVE  /\ NotRestaged(p)' /\ Observed(p)' /\ Restageable(p)'
               /\ FormattedOnce(p)' /\ IsolatedBlob(p)' /\ index'[p] = start'.index[p]
    <3>1. \/ work'[p] = work[p]
          \/ work'[p] = RepairedText(l, work[p]) /\ l \in writers'[p]
          \/ work'[p] = Absent /\ l \in removers'[p]
      BY <1>1, RepairEffect
    <3>2. RepairedText(l, work[p]) # Absent
      <4>1. work[p] \in Texts \cup {Absent}
        BY <1>1 DEF TypeOK, RepoTypeOK
      <4>. QED  BY <4>1, ToolTexts, AbsentIsNoText
    <3>3. NotRestaged(p)' /\ FormattedOnce(p)' /\ IsolatedBlob(p)' /\ index'[p] = start'.index[p]
      BY <1>1, <1>4
         DEF StagedOutcome, StagedRun, NotRestaged, FormattedOnce, IsolatedBlob
    <3>4. Observed(p)'
      <4>. SUFFICES ASSUME p \notin Snapshot(l)
                    PROVE  /\ p \in Snapshot(l)' => l \in writers'[p] \cup removers'[p]
                           /\ index[p] = Absent /\ l \in StageNew /\ work'[p] # Absent =>
                                 l \in writers'[p]
                           /\ index[p] # Absent /\ work'[p] = Absent => l \in removers'[p]
        BY <1>1, <1>4 DEF Observed, Snapshot
      <4>1. ~Unstaged(p) /\ (l \in StageNew => ~Untracked(p))
        BY DEF Snapshot, ChangedOrUntracked, ChangedPaths
      <4>2. work'[p] = work[p] => p \notin Snapshot(l)'
        BY <1>1 DEF Snapshot, ChangedOrUntracked, ChangedPaths, Staged, Unstaged, Untracked
      <4>. QED  BY <3>1, <3>2, <4>1, <4>2 DEF Unstaged, Untracked
    <3>5. Restageable(p)'
      <4>1. Restageable(p)
        BY <1>1 DEF StagedOutcome, StagedRun
      <4>2. work'[p] = Absent => work[p] = Absent \/ OptInDeleted(p)'
        BY <1>1, <3>1, <3>2 DEF OptInDeleted
      <4>. QED  BY <1>1, <1>2, <1>4, <4>1, <4>2, OptedInGrows DEF Restageable
    <3>. QED  BY <3>3, <3>4, <3>5
  <2>2. StagedRun'
    BY <1>1, <1>4, <2>1 DEF StagedOutcome, StagedRun
  <2>. QED  BY <1>1, <1>4, <2>1, <2>2, NothingRestaged
<1>. QED  BY <1>3, <1>4 DEF RepairObserved, CommandFails

\* What is attributed to a linter that opted in is its doing.
LEMMA AttributeOutcome ==
    ASSUME IndInv, StagedOutcome, Attribute, UNCHANGED <<commitVars, stagedVars, runs>>
    PROVE  StagedOutcome'
<1>1. /\ pc = "attribute" /\ lane = "staged" /\ lane' = lane /\ TypeOK
      /\ UNCHANGED <<head, index, work, start, touched, writers, removers, cut,
                     full, partial, toRestage, blobs, changed>>
  BY DEF Attribute, Goto, Finish, repoVars, historyVars, stagedVars, IndInv, LaneInv, StagedPCs
<1>2. CASE Finish("failed")
  BY <1>1, <1>2, StagedGivesUp DEF Finish
<1>3. ASSUME NEW l \in observed, outputs' = outputs \cup NewOutputs(l), pc' = "repair",
             UNCHANGED <<scope, scoped, todo>>
      PROVE  StagedOutcome'
  <2>1. ASSUME NEW p \in Paths
        PROVE  /\ NotRestaged(p)' /\ Observed(p)' /\ Restageable(p)'
               /\ FormattedOnce(p)' /\ IsolatedBlob(p)' /\ index'[p] = start'.index[p]
    <3>1. /\ NotRestaged(p)' /\ Observed(p)' /\ FormattedOnce(p)' /\ IsolatedBlob(p)'
          /\ index'[p] = start'.index[p]
      BY <1>1, <1>3
         DEF StagedOutcome, StagedRun, NotRestaged, Observed, FormattedOnce, IsolatedBlob
    <3>2. ASSUME p \in NewOutputs(l)
          PROVE  OptedIn(p) /\ (work[p] = Absent /\ start.index[p] # Absent => OptInDeleted(p))
      <4>1. p \in Snapshot(l) /\ p \notin before /\ l \in OptIn
        BY <1>1, <3>2 DEF NewOutputs, TypeOK, RunTypeOK
      <4>2. Observed(p) /\ NotRestaged(p)
        BY <1>1 DEF StagedOutcome, StagedRun
      <4>3. index[p] = head[p]
        BY <1>1, <4>1 DEF IndInv, StagedInv
      <4>4. index[p] = Absent => l \in StageNew /\ work[p] # Absent
        BY <4>1, <4>3
           DEF Snapshot, ChangedOrUntracked, ChangedPaths, Staged, Unstaged, Untracked
      <4>5. index[p] = start.index[p]
        BY <1>1, <4>2 DEF NotRestaged
      <4>6. /\ l \in writers[p] \cup removers[p] \/ p \in touched
            /\ index[p] = Absent => l \in writers[p]
            /\ index[p] # Absent /\ work[p] = Absent => l \in removers[p]
        BY <1>1, <1>3, <4>1, <4>2, <4>4 DEF Observed
      <4>. QED  BY <4>1, <4>4, <4>5, <4>6 DEF OptedIn, OptInDeleted
    <3>3. Restageable(p)'
      BY <1>1, <1>3, <3>2, OptedInGrows DEF StagedOutcome, StagedRun, Restageable
    <3>. QED  BY <3>1, <3>3
  <2>2. StagedRun'
    BY <1>1, <1>3, <2>1 DEF StagedOutcome, StagedRun
  <2>. QED  BY <1>1, <1>3, <2>1, <2>2, NothingRestaged
<1>. QED  BY <1>2, <1>3 DEF Attribute, Goto

\* The formatters visit what is in scope and what is an output, where there is a file.
LEMMA FormatStagedOutcome ==
    ASSUME IndInv, StagedOutcome, Format, UNCHANGED <<commitVars, stagedVars, runs>>
    PROVE  StagedOutcome'
<1>1. /\ pc = "repair" /\ TypeOK
      /\ UNCHANGED <<head, index, lane, scope, scoped, todo, outputs, start, touched, writers,
                     removers, full, partial, toRestage, blobs, changed>>
  BY DEF Format, Finish, Goto, runVars, historyVars, stagedVars, IndInv
<1>2. \/ pc' = "ran"
      \/ pc' = "idle" /\ exit' = "failed"
  BY <1>1 DEF Format, Finish, Goto
<1>3. CASE lane = "commit"
  BY <1>1, <1>3, OtherLaneThanStaged
<1>4. CASE lane = "staged" /\ pc' = "idle" /\ exit' = "failed"
  BY <1>1, <1>4, StagedGivesUp
<1>5. CASE lane = "staged" /\ pc' = "ran"
  <2>1. scoped
    BY <1>1, <1>5 DEF StagedOutcome, StagedRun
  <2>2. ASSUME NEW p \in Paths
        PROVE  /\ NotRestaged(p)' /\ Observed(p)' /\ Restageable(p)'
               /\ FormattedOnce(p)' /\ IsolatedBlob(p)' /\ index'[p] = start'.index[p]
    <3>1. \/ work'[p] = work[p]
          \/ work[p] # Absent /\ work'[p] = FormattedText(work[p])
      BY <1>1, FormatEffect
    <3>2. work'[p] = Absent <=> work[p] = Absent
      BY <1>1, <3>1, ToolTexts, AbsentIsNoText DEF TypeOK, RepoTypeOK
    <3>3. /\ FormatScope \subseteq Present(Paths)
          /\ ~cut' /\ p \in FormatScope \cap Matched => work'[p] = FormattedText(work[p])
      BY <1>1, <1>5, FormatEffect
    <3>4. /\ p \in scope => p \in FormatScope
          /\ p \in outputs => p \in FormatScope \/ work[p] = Absent
      BY <2>1 DEF FormatScope, Present
    <3>5. NotRestaged(p)'
      BY <1>1, <1>5, <3>2, <3>3, <3>4 DEF StagedOutcome, StagedRun, NotRestaged, Present
    <3>6. FormattedOnce(p)'
      BY <1>1, <1>5, <3>2, <3>3, <3>4 DEF FormattedOnce, FormattedText
    <3>7. Restageable(p)'
      BY <1>1, <1>5, <3>2, OptedInGrows DEF StagedOutcome, StagedRun, Restageable
    <3>8. Observed(p)' /\ IsolatedBlob(p)' /\ index'[p] = start'.index[p]
      BY <1>1, <1>5 DEF StagedOutcome, StagedRun, NotRestaged, Observed, IsolatedBlob
    <3>. QED  BY <3>5, <3>6, <3>7, <3>8
  <2>3. StagedRun'
    BY <1>1, <1>5, <2>1, <2>2 DEF StagedOutcome, StagedRun
  <2>. QED  BY <1>1, <1>5, <2>2, <2>3, NothingRestaged
<1>. QED  BY <1>1, <1>2, <1>3, <1>4, <1>5 DEF TypeOK, RunTypeOK
\* The lane settles what it restages: the outputs, and the fully staged files that
\* the run has changed.
LEMMA DetectRestageOutcome ==
    ASSUME IndInv, StagedOutcome, DetectRestage, UNCHANGED <<commitVars, runs>>
    PROVE  StagedOutcome'
<1>1. /\ pc = "ran" /\ lane = "staged" /\ lane' = lane
      /\ UNCHANGED <<head, index, work, scope, scoped, todo, outputs, start, touched, writers,
                     removers, cut, full, partial, blobs, changed>>
  BY DEF DetectRestage, Goto, Finish, repoVars, runVars, historyVars
<1>2. CASE Finish("failed")
  BY <1>1, <1>2, StagedGivesUp DEF Finish
<1>3. CASE /\ toRestage' = outputs \cup {p \in full : Unstaged(p)}
           /\ pc' = IF toRestage' = {} THEN "blobs" ELSE "add"
  <2>1. ASSUME NEW p \in Paths
        PROVE  /\ NotRestaged(p)' /\ Observed(p)' /\ Restageable(p)'
               /\ FormattedOnce(p)' /\ IsolatedBlob(p)' /\ index'[p] = start'.index[p]
    <3>1. NotRestaged(p) /\ Restageable(p) /\ FormattedOnce(p) /\ IsolatedBlob(p)
      BY <1>1 DEF StagedOutcome, StagedRun
    <3>2. NotRestaged(p)' /\ Observed(p)' /\ IsolatedBlob(p)' /\ index'[p] = start'.index[p]
      BY <1>1, <1>3, <3>1 DEF NotRestaged, Observed, IsolatedBlob
    <3>3. Restageable(p)'
      BY <1>1, <1>3, <3>1, OptedInGrows DEF Restageable, Unstaged
    <3>4. FormattedOnce(p)'
      <4>1. CASE pc' = "add"
        BY <1>1, <3>1, <4>1 DEF FormattedOnce
      <4>2. CASE pc' = "blobs" /\ outputs = {} /\ ~Unstaged(p) /\ p \in full
        BY <1>1, <3>1, <4>2, AbsentIsNoText DEF FormattedOnce, NotRestaged, Unstaged
      <4>3. CASE pc' = "blobs" /\ outputs = {} /\ p \notin full
        BY <1>1, <4>3 DEF FormattedOnce
      <4>. QED  BY <1>3, <4>1, <4>2, <4>3
    <3>. QED  BY <3>2, <3>3, <3>4
  <2>2. StagedRun'
    BY <1>1, <1>3, <2>1 DEF StagedOutcome, StagedRun
  <2>. QED  BY <1>1, <1>3, <2>1, <2>2, NothingRestaged
<1>. QED  BY <1>2, <1>3 DEF DetectRestage, Goto

\* What it restages goes into the index as the formatters left it.
LEMMA RestageFullOutcome ==
    ASSUME IndInv, StagedOutcome, RestageFull, UNCHANGED <<commitVars, runs>>
    PROVE  StagedOutcome'
<1>1. /\ pc = "add" /\ lane = "staged" /\ lane' = lane
      /\ UNCHANGED <<scope, scoped, todo, outputs, start, touched, writers,
                     removers, cut, full, partial, toRestage, blobs, changed>>
  BY DEF RestageFull, Goto, Finish, runVars, historyVars, IndInv, LaneInv, StagedPCs
<1>2. CASE Finish("failed") /\ UNCHANGED repoVars
  BY <1>1, <1>2, StagedGivesUp DEF Finish, repoVars
<1>3. CASE AddPaths(toRestage) /\ pc' = "blobs"
  <2>1. ASSUME NEW p \in Paths
        PROVE  /\ index'[p] = IF p \in toRestage THEN work[p] ELSE start.index[p]
               /\ p \in toRestage => index[p] # Absent \/ work[p] # Absent
               /\ index[p] = start.index[p]
               /\ NotRestaged(p) /\ Restageable(p) /\ FormattedOnce(p) /\ IsolatedBlob(p)
    BY <1>1, <1>3 DEF AddPaths, Addable, Override, StagedOutcome, StagedRun, NotRestaged
  <2>2. ASSUME NEW p \in Paths
        PROVE  /\ NotRestaged(p)' /\ Observed(p)' /\ Restageable(p)'
               /\ FormattedOnce(p)' /\ IsolatedBlob(p)'
    <3>1. NotRestaged(p)' /\ Observed(p)' /\ IsolatedBlob(p)'
      BY <1>1, <1>3, <2>1 DEF NotRestaged, Observed, IsolatedBlob
    <3>2. Restageable(p)'
      BY <1>1, <1>3, <2>1, OptedInGrows DEF Restageable, AddPaths
    <3>3. FormattedOnce(p)'
      <4>. SUFFICES ASSUME ~cut, p \in Matched \ touched, p \in full \cup outputs, index'[p] \in Texts
                    PROVE  "fmt" \in index'[p]
        BY <1>1, <1>3 DEF FormattedOnce
      <4>1. index'[p] # Absent
        BY AbsentIsNoText
      <4>2. CASE p \in toRestage
        BY <1>1, <2>1, <4>1, <4>2 DEF FormattedOnce, Restageable, NotRestaged
      <4>3. CASE p \notin toRestage
        BY <1>1, <2>1, <4>1, <4>3 DEF FormattedOnce, Restageable, NotRestaged
      <4>. QED  BY <4>2, <4>3
    <3>. QED  BY <3>1, <3>2, <3>3
  <2>3. StagedRun'
    BY <1>1, <1>3, <2>2 DEF StagedOutcome, StagedRun
  <2>4. OutsideIsOptedIn'
    <3>. SUFFICES ASSUME NEW p \in Paths \ (full \cup partial), index'[p] # start.index[p]
                  PROVE  OptedIn(p)
      BY <1>1 DEF OutsideIsOptedIn, OptedIn
    <3>. QED  BY <1>1, <2>1 DEF Restageable
  <2>5. DeletionsAreOutputs'
    <3>. SUFFICES ASSUME NEW p \in Paths, start.index[p] # Absent, index'[p] = Absent
                  PROVE  OptInDeleted(p)
      BY <1>1 DEF DeletionsAreOutputs, OptInDeleted
    <3>1. p \in toRestage /\ work[p] = Absent
      BY <2>1
    <3>. QED  BY <1>1, <2>1, <3>1 DEF Restageable, NotRestaged
  <2>. QED  BY <1>3, <2>3, <2>4, <2>5 DEF StagedOutcome
<1>. QED  BY <1>2, <1>3 DEF RestageFull, Goto

\* A step past the restage that leaves the index alone.
LEMMA IndexStands ==
    ASSUME StagedOutcome, StagedRun', pc' # "idle",
           UNCHANGED <<index, lane, start, touched, writers, removers, full, partial>>
    PROVE  StagedOutcome'
  BY DEF StagedOutcome, OutsideIsOptedIn, DeletionsAreOutputs, OptInDeleted

LEMMA ReadBlobsOutcome ==
    ASSUME IndInv, StagedOutcome, ReadBlobs, UNCHANGED <<commitVars, runs>>
    PROVE  StagedOutcome'
<1>1. /\ pc = "blobs" /\ lane = "staged" /\ lane' = lane
      /\ UNCHANGED <<index, work, scope, scoped, todo, outputs, start, touched, writers,
                     removers, cut, full, partial, toRestage, changed>>
  BY DEF ReadBlobs, Goto, Finish, repoVars, runVars, historyVars, IndInv, LaneInv, StagedPCs
<1>2. CASE Finish("failed")
  BY <1>1, <1>2, StagedGivesUp DEF Finish
<1>3. CASE /\ blobs' = Override(NoBlobs, index, partial)
           /\ pc' = IF partial = {} THEN "write" ELSE "isolate"
  <2>1. ASSUME NEW p \in Paths
        PROVE  /\ NotRestaged(p)' /\ Observed(p)' /\ Restageable(p)'
               /\ FormattedOnce(p)' /\ IsolatedBlob(p)'
    <3>1. Restageable(p) /\ FormattedOnce(p) /\ IsolatedBlob(p)
      BY <1>1 DEF StagedOutcome, StagedRun
    <3>2. NotRestaged(p)' /\ Observed(p)' /\ FormattedOnce(p)'
      BY <1>1, <1>3, <3>1 DEF NotRestaged, Observed, FormattedOnce
    <3>3. Restageable(p)'
      BY <1>1, <1>3, <3>1, OptedInGrows DEF Restageable
    <3>4. IsolatedBlob(p)'
      BY <1>1, <1>3, <3>1 DEF IsolatedBlob, Override
    <3>. QED  BY <3>2, <3>3, <3>4
  <2>2. StagedRun'
    BY <1>1, <1>3, <2>1 DEF StagedOutcome, StagedRun
  <2>. QED  BY <1>1, <1>3, <2>2, IndexStands
<1>. QED  BY <1>2, <1>3 DEF ReadBlobs, Goto

LEMMA FormatBlobsOutcome ==
    ASSUME IndInv, StagedOutcome, FormatBlobs, UNCHANGED <<commitVars, runs>>
    PROVE  StagedOutcome'
<1>1. /\ pc = "isolate" /\ lane = "staged" /\ lane' = lane
      /\ UNCHANGED <<index, work, scope, scoped, todo, outputs, start, touched, writers,
                     removers, cut, full, partial, toRestage, blobs>>
  BY DEF FormatBlobs, Goto, Finish, repoVars, runVars, historyVars, IndInv, LaneInv, StagedPCs
<1>2. CASE Finish("failed")
  BY <1>1, <1>2, StagedGivesUp DEF Finish
<1>. DEFINE made(hits) == [p \in Paths |->
                             IF p \in partial /\ BlobText(p, blobs[p], hits[p]) # blobs[p]
                             THEN BlobText(p, blobs[p], hits[p])
                             ELSE Absent]
<1>3. ASSUME NEW hits, changed' = made(hits), pc' = "write"
      PROVE  StagedOutcome'
  <2>1. ASSUME NEW p \in Paths
        PROVE  /\ NotRestaged(p)' /\ Observed(p)' /\ Restageable(p)'
               /\ FormattedOnce(p)' /\ IsolatedBlob(p)'
    <3>1. Restageable(p) /\ FormattedOnce(p) /\ IsolatedBlob(p)
      BY <1>1 DEF StagedOutcome, StagedRun
    <3>2. NotRestaged(p)' /\ Observed(p)' /\ FormattedOnce(p)'
      BY <1>1, <1>3, <3>1 DEF NotRestaged, Observed, FormattedOnce
    <3>3. Restageable(p)'
      BY <1>1, <1>3, <3>1, OptedInGrows DEF Restageable
    <3>4. p \in Matched => "fmt" \in BlobText(p, blobs[p], hits[p])
      BY DEF BlobText, FormattedText
    <3>5. /\ changed'[p] # Absent => p \in partial /\ changed'[p] = BlobText(p, blobs[p], hits[p])
          /\ p \in partial /\ changed'[p] = Absent =>
                BlobText(p, blobs[p], hits[p]) \in {blobs[p], Absent}
      BY <1>3
    <3>6. p \in partial \cap Matched => BlobText(p, blobs[p], hits[p]) # Absent
      BY <3>4, LintersAssumption, MarksAssumption DEF Absent
    <3>7. IsolatedBlob(p)'
      BY <1>1, <1>3, <3>1, <3>4, <3>5, <3>6 DEF IsolatedBlob
    <3>. QED  BY <3>2, <3>3, <3>7
  <2>2. StagedRun'
    BY <1>1, <1>3, <2>1 DEF StagedOutcome, StagedRun
  <2>. QED  BY <1>1, <1>3, <2>2, IndexStands
<1>4. \/ \E hits : changed' = made(hits) /\ pc' = "write"
      \/ Finish("failed")
  BY DEF FormatBlobs, Goto
<1>. QED  BY <1>2, <1>3, <1>4
LEMMA WriteBlobOutcome ==
    ASSUME IndInv, StagedOutcome, NEW q \in Paths, WriteBlob(q), UNCHANGED <<commitVars, runs>>
    PROVE  StagedOutcome'
<1>1. /\ pc = "write" /\ lane = "staged" /\ lane' = lane /\ changed[q] # Absent
      /\ UNCHANGED <<work, scope, scoped, todo, outputs, start, touched, writers,
                     removers, cut, full, partial, toRestage, blobs>>
  BY DEF WriteBlob, UpdateIndexCacheinfo, Finish, repoVars, runVars, historyVars,
         IndInv, LaneInv, StagedPCs
<1>2. CASE Finish("failed") /\ UNCHANGED repoVars
  BY <1>1, <1>2, StagedGivesUp DEF Finish, repoVars
<1>3. CASE /\ UpdateIndexCacheinfo(q, changed[q])
           /\ changed' = [changed EXCEPT ![q] = Absent]
           /\ pc' = "write"
  <2>1. ASSUME NEW p \in Paths
        PROVE  /\ index'[p] = IF p = q THEN changed[p] ELSE index[p]
               /\ changed'[p] = IF p = q THEN Absent ELSE changed[p]
    BY <1>3 DEF UpdateIndexCacheinfo, IndInv, TypeOK, RepoTypeOK, StagedTypeOK
  <2>2. q \in partial /\ (q \in Matched => "fmt" \in changed[q])
    BY <1>1 DEF StagedOutcome, StagedRun, IsolatedBlob
  <2>3. ASSUME NEW p \in Paths
        PROVE  /\ NotRestaged(p)' /\ Observed(p)' /\ Restageable(p)'
               /\ FormattedOnce(p)' /\ IsolatedBlob(p)'
    <3>1. Restageable(p) /\ FormattedOnce(p) /\ IsolatedBlob(p)
      BY <1>1 DEF StagedOutcome, StagedRun
    <3>2. NotRestaged(p)' /\ Observed(p)'
      BY <1>3 DEF NotRestaged, Observed
    <3>3. Restageable(p)'
      BY <1>1, <1>3, <3>1, OptedInGrows DEF Restageable
    <3>4. FormattedOnce(p)' /\ IsolatedBlob(p)'
      BY <1>1, <1>3, <2>1, <2>2, <3>1 DEF FormattedOnce, IsolatedBlob
    <3>. QED  BY <3>2, <3>3, <3>4
  <2>4. StagedRun'
    BY <1>1, <1>3, <2>3 DEF StagedOutcome, StagedRun
  <2>5. OutsideIsOptedIn' /\ DeletionsAreOutputs'
    BY <1>1, <2>1, <2>2
       DEF StagedOutcome, OutsideIsOptedIn, DeletionsAreOutputs, OptInDeleted
  <2>. QED  BY <1>3, <2>4, <2>5 DEF StagedOutcome
<1>. QED  BY <1>2, <1>3 DEF WriteBlob

\* With every blob written back, what is staged and matched is formatted.
LEMMA FinishStagedOutcome ==
    ASSUME IndInv, StagedOutcome, FinishStaged, UNCHANGED <<commitVars, runs>>
    PROVE  StagedOutcome'
<1>1. /\ pc = "write" /\ lane = "staged" /\ lane' = lane /\ pc' = "idle" /\ changed = NoBlobs
      /\ UNCHANGED <<index, outputs, start, touched, writers, removers, cut, full, partial>>
  BY DEF FinishStaged, Finish, repoVars, runVars, historyVars, stagedVars,
         IndInv, LaneInv, StagedPCs
<1>2. ASSUME NEW p \in Paths, ~cut, p \in Matched \ touched,
             p \in full \cup partial \cup outputs, index[p] \in Texts
      PROVE  "fmt" \in index[p]
  <2>1. FormattedOnce(p) /\ IsolatedBlob(p) /\ changed[p] = Absent
    BY <1>1 DEF StagedOutcome, StagedRun, NoBlobs
  <2>. QED  BY <1>1, <1>2, <2>1 DEF FormattedOnce, IsolatedBlob
<1>3. StagedIsConformant'
  BY <1>1, <1>2 DEF StagedIsConformant
<1>. QED  BY <1>1, <1>3
          DEF StagedOutcome, StagedRun, OutsideIsOptedIn, DeletionsAreOutputs, OptInDeleted

LEMMA UserEditsStagedOutcome ==
    ASSUME IndInv, StagedOutcome, NEW q \in Paths, UserEdits(q)
    PROVE  StagedOutcome'
<1>1. /\ pc # "idle" /\ touched' = {q} /\ touched = {} /\ work[q] # Absent
      /\ \A p \in Paths \ {q} : work'[p] = work[p]
      /\ UNCHANGED <<head, index, lane, pc, scope, scoped, todo, before, observed, outputs, start,
                     writers, removers, cut, full, partial, toRestage, blobs, changed>>
  BY DEF UserEdits, runVars, stagedVars, IndInv, TypeOK, RepoTypeOK
<1>2. "late" \in work'[q] /\ work'[q] # Absent
  BY DEF UserEdits, Absent, IndInv, TypeOK, RepoTypeOK
<1>3. CASE lane = "commit"
  BY <1>1, <1>3, OtherLaneThanStaged
<1>4. CASE lane = "staged"
  <2>1. ASSUME NEW p \in Paths
        PROVE  /\ NotRestaged(p)' /\ Observed(p)' /\ Restageable(p)'
               /\ FormattedOnce(p)' /\ IsolatedBlob(p)'
    <3>1. NotRestaged(p) /\ Observed(p) /\ Restageable(p) /\ FormattedOnce(p) /\ IsolatedBlob(p)
      BY <1>1, <1>4 DEF StagedOutcome, StagedRun
    <3>2. p # q => \A l \in observed : p \in Snapshot(l)' <=> p \in Snapshot(l)
      BY <1>1 DEF Snapshot, ChangedOrUntracked, ChangedPaths, Staged, Unstaged, Untracked
    <3>3. Observed(p)'
      BY <1>1, <1>2, <3>1, <3>2 DEF Observed
    <3>4. NotRestaged(p)' /\ IsolatedBlob(p)'
      BY <1>1, <1>2, <3>1 DEF NotRestaged, IsolatedBlob
    <3>5. Restageable(p)'
      BY <1>1, <1>2, <3>1, OptedInGrows DEF Restageable
    <3>6. FormattedOnce(p)'
      BY <1>1, <3>1 DEF FormattedOnce
    <3>. QED  BY <3>3, <3>4, <3>5, <3>6
  <2>2. StagedRun'
    BY <1>1, <1>4, <2>1 DEF StagedOutcome, StagedRun
  <2>3. OutsideIsOptedIn' /\ DeletionsAreOutputs'
    BY <1>1 DEF StagedOutcome, OutsideIsOptedIn, DeletionsAreOutputs, OptInDeleted
  <2>. QED  BY <1>1, <2>2, <2>3 DEF StagedOutcome
<1>. QED  BY <1>3, <1>4 DEF IndInv, TypeOK, RunTypeOK

LEMMA NextStagedOutcome ==
    ASSUME IndInv, StagedOutcome, [Next]_vars
    PROVE  StagedOutcome'
<1>1. CASE UNCHANGED vars
  <2>1. \A p \in Paths : /\ NotRestaged(p) = NotRestaged(p)' /\ Observed(p) = Observed(p)'
                         /\ Restageable(p) = Restageable(p)' /\ FormattedOnce(p) = FormattedOnce(p)'
                         /\ IsolatedBlob(p) = IsolatedBlob(p)'
    BY <1>1 DEF vars, repoVars, runVars, historyVars, stagedVars, NotRestaged, Observed,
       Restageable, FormattedOnce, IsolatedBlob, OptedIn, OptInDeleted, Snapshot,
       ChangedOrUntracked, ChangedPaths, Staged, Unstaged, Untracked
  <2>. QED  BY <1>1, <2>1 DEF vars, repoVars, runVars, historyVars, stagedVars, StagedOutcome,
               StagedRun, OutsideIsOptedIn, DeletionsAreOutputs, OptInDeleted, StagedIsConformant
<1>2. CASE Run
  BY <1>2, RepairStagedOutcome, RepairObservedOutcome, AttributeOutcome, FormatStagedOutcome
     DEF Run, RunStep
<1>3. CASE Commit
  <2>1. lane = "commit" /\ lane' = lane
    BY <1>3 DEF Commit, CommitStep, DetectFixes, CheckPublished, RestoreFixes, GuardConflicts,
       CommitOrAmend, Goto, Finish, IndInv, LaneInv, CommitPCs
  <2>. QED  BY <2>1, OtherLaneThanStaged
<1>4. CASE Stage
  BY <1>4, DetectRestageOutcome, RestageFullOutcome, ReadBlobsOutcome, FormatBlobsOutcome,
     WriteBlobOutcome, FinishStagedOutcome DEF Stage, StagedStep
<1>5. CASE StartCommit
  BY <1>5, OtherLaneThanStaged DEF StartCommit, CommitPreflight, Begin
<1>6. CASE Crash
  <2>1. /\ pc' = "idle" /\ exit' = "killed"
        /\ UNCHANGED <<index, lane, start, touched, writers, removers, full, partial>>
    BY <1>6 DEF Crash, Finish, repoVars, historyVars, stagedVars
  <2>. QED  BY <2>1, StagedGivesUp
<1>. QED  BY <1>1, <1>2, <1>3, <1>4, <1>5, <1>6, StartStagedOutcome, UserEditsStagedOutcome
          DEF Next, Process, Rest

LEMMA StagedInvariance == Spec => []StagedOutcome
<1>1. Init => StagedOutcome
  BY DEF Init, StagedOutcome, StagedRun, OutsideIsOptedIn, DeletionsAreOutputs, StagedIsConformant
<1>2. IndInv /\ StagedOutcome /\ [Next]_vars => StagedOutcome'
  BY NextStagedOutcome
<1>. QED  BY <1>1, <1>2, Invariance, PTL DEF Spec

LEMMA RemoversStep ==
    ASSUME IndInv, RemoversCanDelete, [Next]_vars
    PROVE  RemoversCanDelete'
<1>1. ASSUME NEW l \in Linters, RunCommand(l)
      PROVE  RemoversCanDelete'
  BY <1>1, RepairEffect DEF RemoversCanDelete, IndInv
<1>2. CASE Run
  <2>1. CASE Attribute \/ Format
    BY <2>1 DEF Attribute, Format, Goto, Finish, runVars, historyVars, RemoversCanDelete
  <2>. QED  BY <1>1, <1>2, <2>1 DEF Run, RunStep, Repair, RepairObserved
<1>3. CASE Commit \/ Stage
  <2>1. UNCHANGED removers
    BY <1>3 DEF Commit, CommitStep, DetectFixes, CheckPublished, RestoreFixes, GuardConflicts,
       CommitOrAmend, Stage, StagedStep, DetectRestage, RestageFull, ReadBlobs, FormatBlobs,
       WriteBlob, FinishStaged, Finish, historyVars
  <2>. QED  BY <2>1 DEF RemoversCanDelete
<1>4. CASE StartCommit \/ StartStaged
  BY <1>4 DEF StartCommit, CommitPreflight, StartStaged, StagedPreflight, Begin, RemoversCanDelete
<1>5. CASE UNCHANGED removers
  BY <1>5 DEF RemoversCanDelete
<1>. QED  BY <1>2, <1>3, <1>4, <1>5
          DEF Next, Process, Rest, Crash, Finish, UserEdits, vars, historyVars

LEMMA RemoversInvariance == Spec => []RemoversCanDelete
<1>1. Init => RemoversCanDelete
  BY DEF Init, RemoversCanDelete
<1>. QED  BY <1>1, RemoversStep, Invariance, PTL DEF Spec

\* Whatever tools, faults and user do, --staged restages outside the staged set only
\* what a linter that opted in wrote or deleted, a new file only if one that stages
\* new outputs wrote it, and stages no deletion but those of linters that opted in.
THEOREM OnlyOutputsAreRestaged == Spec => [](OutsideIsOptedIn /\ DeletionsAreOutputs)
<1>1. StagedOutcome => OutsideIsOptedIn /\ DeletionsAreOutputs
  BY DEF StagedOutcome
<1>. QED  BY <1>1, StagedInvariance, PTL

\* Where every linter that opted in and may delete a file also stages its deletions,
\* each deletion in the index is one it was to stage (RFC 0002, section 2.4).  The run
\* GitFixesDeletion shows that the hypothesis cannot be dropped.
THEOREM OutputsWereOptedIn ==
    ASSUME \A l \in OptIn : Deletes[l] # {} => l \in StageDeleted
    PROVE  Spec => []OutputsAreOptedIn
<1>1. StagedOutcome /\ RemoversCanDelete => OutputsAreOptedIn
  <2>. SUFFICES ASSUME StagedOutcome, RemoversCanDelete
                PROVE  OutputsAreOptedIn
    OBVIOUS
  <2>1. \A p \in Paths : OptInDeleted(p) => removers[p] \cap StageDeleted # {}
    BY DEF OptInDeleted, RemoversCanDelete
  <2>2. DeletionsAreOptedIn
    BY <2>1 DEF StagedOutcome, DeletionsAreOutputs, DeletionsAreOptedIn
  <2>. QED  BY <2>2 DEF StagedOutcome, OutsideIsOptedIn, OutputsAreOptedIn
<1>. QED  BY <1>1, StagedInvariance, RemoversInvariance, PTL

\* What a successful run of either lane leaves for the commit is formatted, wherever
\* it was neither interrupted nor overtaken by an edit of the user.
THEOREM SuccessLeavesConformant == Spec => []SuccessIsConformant
<1>1. CommitOutcome /\ StagedOutcome => SuccessIsConformant
  BY DEF CommitOutcome, StagedOutcome, CommitIsConformant, StagedIsConformant, SuccessIsConformant
<1>. QED  BY <1>1, CommitInvariance, StagedInvariance, PTL
===============================================================================
