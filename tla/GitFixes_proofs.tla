---------------------------- MODULE GitFixes_proofs ----------------------------
(***************************************************************************)
(* Whatever the linters, tiers, files and faults, and over any number of   *)
(* invocations: neither lane sweeps an edit that the user has not staged   *)
(* into the index or a commit, and neither loses one.                      *)
(***************************************************************************)
EXTENDS GitFixes, TLAPS

\* The working tree's content of p carries an edit that the user has not staged.
Mine(p) == "unstaged" \in work[p]

CommitPCs == {"published", "restore", "guard", "commit"}
StagedPCs == {"attribute", "add", "blobs", "isolate", "write"}

LaneInv ==
    /\ pc \in CommitPCs => lane = "commit"
    /\ pc \in StagedPCs => lane = "staged"

\* Until the commit, what was clean is in the index as in HEAD, and no unstaged
\* edit is in a tracked file that was clean.
CommitInv ==
    lane = "commit" /\ pc # "idle" =>
        \A p \in Paths :
            /\ p \notin preDirty => index[p] = head[p] /\ (index[p] # Absent => ~Mine(p))
            /\ pc \in CommitPCs /\ p \in toCommit => ~Mine(p)

\* No unstaged edit is in an output, in a fully staged file, in what was not
\* listed before a repair and can be listed after it, or in a staged blob.
StagedInv ==
    lane = "staged" /\ pc # "idle" =>
        \A p \in Paths :
            /\ p \in outputs => ~Mine(p)
            /\ pc \in {"repair", "attribute", "ran"} /\ p \in full /\ index[p] # Absent => ~Mine(p)
            /\ pc = "attribute" /\ p \notin before =>
                  /\ index[p] = head[p]
                  /\ \A l \in observed : index[p] # Absent \/ l \in StageNew => ~Mine(p)
            /\ pc = "add" /\ p \in toRestage => ~Mine(p)
            /\ pc = "isolate" /\ p \in partial => blobs[p] \in Texts
            /\ "unstaged" \notin blobs[p] \cup changed[p]

IndInv == TypeOK /\ NothingUnstagedIsSwept /\ LaneInv /\ CommitInv /\ StagedInv

USE MarksAssumption, LintersAssumption, SessionAssumption, EditsAssumption

-------------------------------------------------------------------------------
\* Taking some paths' contents from elsewhere gives contents.
LEMMA OverrideType ==
    ASSUME NEW X, NEW f \in [Paths -> X], NEW g, NEW S,
           \A p \in Paths \cap S : g[p] \in X
    PROVE  Override(f, g, S) \in [Paths -> X]
  BY DEF Override

\* What the tools make of a text is a text, with the user's edits still in it.
LEMMA ToolTexts ==
    ASSUME NEW c \in Texts \cup {Absent}
    PROVE  /\ \A l \in Linters : /\ RepairedText(l, c) \in Texts
                                 /\ "unstaged" \in RepairedText(l, c) <=> "unstaged" \in c
           /\ c # Absent => FormattedText(c) \in Texts
           /\ "unstaged" \in FormattedText(c) <=> "unstaged" \in c
<1>1. ASSUME NEW l \in Linters
      PROVE  /\ RepairedText(l, c) \in Texts
             /\ "unstaged" \in RepairedText(l, c) <=> "unstaged" \in c
  <2>1. CASE c = Absent
    BY <2>1 DEF RepairedText, Texts, Absent
  <2>2. CASE c # Absent
    BY <2>2 DEF RepairedText, Texts
  <2>. QED  BY <2>1, <2>2
<1>2. c # Absent => FormattedText(c) \in Texts
  BY DEF FormattedText, Texts
<1>3. "unstaged" \in FormattedText(c) <=> "unstaged" \in c
  BY DEF FormattedText
<1>. QED  BY <1>1, <1>2, <1>3

\* Repairs and formatters add no unstaged edit, and take one away only with the
\* file.
LEMMA RepairKeepsEdits ==
    ASSUME TypeOK, NEW l \in Linters, RunCommand(l)
    PROVE  /\ work' \in [Paths -> Texts \cup {Absent}]
           /\ writers' \in [Paths -> SUBSET Linters] /\ removers' \in [Paths -> SUBSET Linters]
           /\ \A p \in Paths : Mine(p)' => Mine(p)
           /\ \A p \in Paths : Mine(p) /\ ~Mine(p)' => removers'[p] # {}
           /\ UNCHANGED <<head, index, headRef, lane, start, touched, cut>>
<1>1. PICK W \in SUBSET Writes[l], D \in SUBSET Deletes[l] :
        /\ W \cap D = {}
        /\ work' = [p \in Paths |-> IF p \in D THEN Absent
                                    ELSE IF p \in W THEN RepairedText(l, work[p])
                                    ELSE work[p]]
        /\ writers' = [p \in Paths |-> writers[p] \cup (IF p \in W THEN {l} ELSE {})]
        /\ removers' = [p \in Paths |-> removers[p] \cup (IF p \in D THEN {l} ELSE {})]
        /\ UNCHANGED <<head, index, headRef, lane, start, touched, cut>>
  BY DEF RunCommand
<1>2. work \in [Paths -> Texts \cup {Absent}]
  BY DEF TypeOK, RepoTypeOK
<1>3. ASSUME NEW p \in Paths
      PROVE  /\ work'[p] \in Texts \cup {Absent}
             /\ Mine(p)' => Mine(p)
             /\ Mine(p) /\ ~Mine(p)' => p \in D
  <2>1. CASE p \in D
    BY <1>1, <2>1 DEF Mine, Absent
  <2>2. CASE p \notin D /\ p \in W
    BY <1>1, <1>2, <2>2, ToolTexts DEF Mine
  <2>3. CASE p \notin D /\ p \notin W
    BY <1>1, <1>2, <2>3 DEF Mine
  <2>. QED  BY <2>1, <2>2, <2>3
<1>4. writers' \in [Paths -> SUBSET Linters] /\ removers' \in [Paths -> SUBSET Linters]
  BY <1>1 DEF TypeOK, RunTypeOK
<1>5. work' \in [Paths -> Texts \cup {Absent}]
  BY <1>1, <1>3
<1>. QED  BY <1>1, <1>3, <1>4, <1>5

-------------------------------------------------------------------------------
\* When the process is gone only the repository matters.
LEMMA IdleStep ==
    ASSUME TypeOK', NothingUnstagedIsSwept', pc' = "idle"
    PROVE  IndInv'
  BY DEF IndInv, LaneInv, CommitInv, StagedInv, CommitPCs, StagedPCs

\* A step that only rewrites files of the working tree.
LEMMA WorkStep ==
    ASSUME IndInv, TypeOK',
           UNCHANGED <<head, index, lane, pc, before, observed, outputs, commitVars, stagedVars>>,
           \A p \in Paths : Mine(p)' => Mine(p)
    PROVE  IndInv'
<1>1. NothingUnstagedIsSwept' /\ LaneInv'
  BY DEF IndInv, NothingUnstagedIsSwept, LaneInv
<1>2. CommitInv'
  BY DEF IndInv, CommitInv, commitVars
<1>3. StagedInv'
  BY DEF IndInv, StagedInv, stagedVars
<1>. QED  BY <1>1, <1>2, <1>3 DEF IndInv

LEMMA InitIndInv ==
    ASSUME Init
    PROVE  IndInv
<1>1. PICK h \in [Paths -> UNION {Histories[p] : p \in Paths}] :
          /\ \A p \in Paths : h[p] \in Histories[p]
          /\ head = [p \in Paths |-> h[p][1]]
          /\ index = [p \in Paths |-> h[p][2]]
          /\ work = [p \in Paths |-> h[p][3]]
  BY DEF Init
<1>2. ASSUME NEW p \in Paths
      PROVE  /\ h[p] \in (Texts \cup {Absent}) \X Contents \X (Texts \cup {Absent})
             /\ "unstaged" \notin h[p][1] \cup h[p][2]
  BY <1>1
<1>3. RepoTypeOK
  BY <1>1, <1>2 DEF Init, RepoTypeOK
<1>4. RunTypeOK
  BY DEF Init, RunTypeOK, Exits
<1>5. CommitTypeOK /\ StagedTypeOK
  BY DEF Init, CommitInit, StagedInit, CommitTypeOK, StagedTypeOK, NoBlobs, Contents
<1>6. TypeOK
  BY <1>3, <1>4, <1>5 DEF Init, TypeOK, PCs
<1>7. NothingUnstagedIsSwept
  BY <1>1, <1>2 DEF NothingUnstagedIsSwept
<1>. QED  BY <1>6, <1>7 DEF Init, IndInv, LaneInv, CommitInv, StagedInv, CommitPCs, StagedPCs

\* The sets of paths that a run is given and starts from.
LEMMA BeginTypes ==
    ASSUME TypeOK, NEW aLane \in {"commit", "staged"}, NEW S \in SUBSET Paths,
           NEW isScoped \in BOOLEAN, Begin(aLane, S, isScoped)
    PROVE  RunTypeOK' /\ RepoTypeOK'
<1>1. RepoTypeOK'
  BY DEF Begin, repoVars, TypeOK, RepoTypeOK
<1>2. RunTypeOK'
  BY DEF Begin, RunTypeOK, Exits
<1>. QED  BY <1>1, <1>2

LEMMA StartCommitStep ==
    ASSUME IndInv, StartCommit
    PROVE  IndInv'
<1>1. PICK S \in Scopes, allowDirty \in BOOLEAN, isAmend \in BOOLEAN :
        CommitPreflight(S, allowDirty, isAmend)
  BY DEF StartCommit
<1>2. /\ Begin("commit", IF S = {} THEN Paths ELSE S, S # {})
      /\ pc' = "repair" /\ lane' = "commit" /\ preDirty' = ChangedPaths /\ toCommit' = {}
      /\ amend' \in BOOLEAN /\ UNCHANGED repoVars
  BY <1>1 DEF CommitPreflight, Begin
<1>3. RunTypeOK' /\ RepoTypeOK'
  BY <1>2, BeginTypes DEF IndInv
<1>4. CommitTypeOK'
  BY <1>2 DEF CommitTypeOK, ChangedPaths
<1>5. StagedTypeOK'
  BY DEF StartCommit, StagedTypeOK, NoBlobs, Contents
<1>6. runs' \in 0 .. MaxRuns
  BY DEF StartCommit, IndInv, TypeOK
<1>7. TypeOK'
  BY <1>2, <1>3, <1>4, <1>5, <1>6 DEF TypeOK, PCs
<1>8. NothingUnstagedIsSwept' /\ LaneInv'
  BY <1>2 DEF IndInv, NothingUnstagedIsSwept, LaneInv, CommitPCs, StagedPCs, repoVars
<1>9. ASSUME NEW p \in Paths, p \notin ChangedPaths
      PROVE  index[p] = head[p] /\ (index[p] # Absent => ~Mine(p))
  <2>1. ~Staged(p) /\ ~Unstaged(p)
    BY <1>9 DEF ChangedPaths
  <2>. QED  BY <2>1 DEF Staged, Unstaged, Mine, IndInv, NothingUnstagedIsSwept
<1>10. CommitInv'
  BY <1>2, <1>9 DEF CommitInv, Mine, CommitPCs, repoVars
<1>11. StagedInv'
  BY <1>2 DEF StagedInv
<1>. QED  BY <1>7, <1>8, <1>10, <1>11 DEF IndInv

LEMMA StartStagedStep ==
    ASSUME IndInv, StartStaged
    PROVE  IndInv'
<1>. DEFINE whole == {p \in Paths : Staged(p) /\ ~Unstaged(p)}
            parts == {p \in Paths : Staged(p) /\ Unstaged(p)}
            toFormat == {p \in whole : index[p] # Absent}
<1>1. /\ Begin("staged", toFormat, TRUE)
      /\ full' = whole /\ partial' = parts /\ toRestage' = {}
      /\ blobs' = NoBlobs /\ changed' = NoBlobs /\ restaged' = FALSE
      /\ pc' \in {"blobs", "repair"}
  BY DEF StartStaged, StagedPreflight
<1>2. lane' = "staged" /\ outputs' = {} /\ UNCHANGED repoVars
  BY <1>1 DEF Begin
<1>3. RunTypeOK' /\ RepoTypeOK'
  BY <1>1, BeginTypes DEF IndInv
<1>4. StagedTypeOK'
  BY <1>1 DEF StagedTypeOK, NoBlobs, Contents
<1>5. CommitTypeOK'
  BY DEF StartStaged, CommitTypeOK
<1>6. runs' \in 0 .. MaxRuns
  BY DEF StartStaged, IndInv, TypeOK
<1>7. TypeOK'
  BY <1>1, <1>3, <1>4, <1>5, <1>6 DEF TypeOK, PCs
<1>8. NothingUnstagedIsSwept' /\ LaneInv' /\ CommitInv'
  BY <1>1, <1>2
     DEF IndInv, NothingUnstagedIsSwept, LaneInv, CommitInv, CommitPCs, StagedPCs, repoVars
<1>9. ASSUME NEW p \in whole, index[p] # Absent
      PROVE  ~Mine(p)
  BY <1>9 DEF Unstaged, Mine, IndInv, NothingUnstagedIsSwept
<1>10. StagedInv'
  <2>. SUFFICES ASSUME NEW p \in Paths
                PROVE  /\ p \in full' /\ index[p]' # Absent => ~Mine(p)'
                       /\ "unstaged" \notin blobs'[p] \cup changed'[p]
    BY <1>1, <1>2 DEF StagedInv
  <2>1. p \in full' /\ index[p]' # Absent => ~Mine(p)'
    BY <1>1, <1>2, <1>9 DEF Mine, repoVars
  <2>2. "unstaged" \notin blobs'[p] \cup changed'[p]
    BY <1>1 DEF NoBlobs, Absent
  <2>. QED  BY <2>1, <2>2
<1>. QED  BY <1>7, <1>8, <1>10 DEF IndInv

-------------------------------------------------------------------------------
(* The run *)

LEMMA RepairStep ==
    ASSUME IndInv, NEW l \in Linters, Repair(l), UNCHANGED <<commitVars, stagedVars, runs>>
    PROVE  IndInv'
<1>. TypeOK
  BY DEF IndInv
<1>1. RunCommand(l)
  BY DEF Repair
<1>2. /\ work' \in [Paths -> Texts \cup {Absent}]
      /\ writers' \in [Paths -> SUBSET Linters] /\ removers' \in [Paths -> SUBSET Linters]
      /\ \A p \in Paths : Mine(p)' => Mine(p)
      /\ UNCHANGED <<head, index, headRef, lane, start, touched, cut>>
  BY <1>1, RepairKeepsEdits
<1>3. CASE /\ todo' = todo \ {l}
           /\ UNCHANGED <<pc, exit, scope, scoped, before, observed, outputs>>
  <2>1. TypeOK'
    BY <1>2, <1>3 DEF TypeOK, RepoTypeOK, RunTypeOK, CommitTypeOK, StagedTypeOK, commitVars, stagedVars
  <2>. QED  BY <1>2, <1>3, <2>1, WorkStep
<1>4. CASE CommandFails
  <2>1. RepoTypeOK' /\ RunTypeOK'
    BY <1>2, <1>4 DEF CommandFails, runVars, TypeOK, RepoTypeOK, RunTypeOK, Exits
  <2>2. TypeOK'
    BY <1>4, <2>1 DEF CommandFails, TypeOK, CommitTypeOK, StagedTypeOK, commitVars, stagedVars, PCs
  <2>3. NothingUnstagedIsSwept'
    BY <1>2 DEF IndInv, NothingUnstagedIsSwept
  <2>. QED  BY <1>4, <2>2, <2>3, IdleStep DEF CommandFails
<1>. QED  BY <1>3, <1>4 DEF Repair

\* What the snapshot before an opted-in repair does not list carries no edit that
\* the snapshot after it could pick up.
LEMMA SnapshotCovers ==
    ASSUME IndInv, NEW l \in Linters, NEW p \in Paths, p \notin Snapshot(l)
    PROVE  /\ index[p] = head[p]
           /\ index[p] # Absent \/ l \in StageNew => ~Mine(p)
<1>1. ~Staged(p) /\ ~Unstaged(p) /\ (l \in StageNew => ~Untracked(p))
  BY DEF Snapshot, ChangedOrUntracked, ChangedPaths
<1>2. "unstaged" \notin index[p] /\ "unstaged" \notin Absent
  BY DEF IndInv, NothingUnstagedIsSwept, Absent
<1>. QED  BY <1>1, <1>2 DEF Staged, Unstaged, Untracked, Mine

LEMMA RepairObservedStep ==
    ASSUME IndInv, NEW l \in Linters, RepairObserved(l),
           UNCHANGED <<commitVars, stagedVars, runs>>
    PROVE  IndInv'
<1>. TypeOK
  BY DEF IndInv
<1>1. RunCommand(l)
  BY DEF RepairObserved
<1>2. /\ work' \in [Paths -> Texts \cup {Absent}]
      /\ writers' \in [Paths -> SUBSET Linters] /\ removers' \in [Paths -> SUBSET Linters]
      /\ \A p \in Paths : Mine(p)' => Mine(p)
      /\ UNCHANGED <<head, index, headRef, lane, start, touched, cut>>
  BY <1>1, RepairKeepsEdits
<1>3. NothingUnstagedIsSwept'
  BY <1>2 DEF IndInv, NothingUnstagedIsSwept
<1>4. CASE /\ before' = Snapshot(l)
           /\ observed' = {l}
           /\ todo' = todo \ {l}
           /\ pc' = "attribute"
           /\ UNCHANGED <<exit, scope, scoped, outputs>>
  <2>1. Snapshot(l) \subseteq Paths
    BY DEF Snapshot, ChangedOrUntracked, ChangedPaths
  <2>2. l \in OptIn
    BY DEF RepairObserved, TypeOK, RunTypeOK
  <2>3. RepoTypeOK' /\ RunTypeOK'
    BY <1>2, <1>4, <2>1, <2>2 DEF TypeOK, RepoTypeOK, RunTypeOK, Exits
  <2>4. TypeOK'
    BY <1>4, <2>3 DEF TypeOK, CommitTypeOK, StagedTypeOK, commitVars, stagedVars, PCs
  <2>5. lane = "staged" /\ lane' = "staged" /\ pc = "repair"
    BY <1>2 DEF RepairObserved
  <2>6. StagedInv'
    BY <1>2, <1>4, <2>5, SnapshotCovers DEF IndInv, StagedInv, stagedVars
  <2>. QED  BY <1>3, <1>4, <2>4, <2>5, <2>6 DEF IndInv, LaneInv, CommitInv, CommitPCs, StagedPCs
<1>5. CASE CommandFails
  <2>1. RepoTypeOK' /\ RunTypeOK'
    BY <1>2, <1>5 DEF CommandFails, runVars, TypeOK, RepoTypeOK, RunTypeOK, Exits
  <2>2. TypeOK'
    BY <1>5, <2>1 DEF CommandFails, TypeOK, CommitTypeOK, StagedTypeOK, commitVars, stagedVars, PCs
  <2>. QED  BY <1>3, <1>5, <2>2, IdleStep DEF CommandFails
<1>. QED  BY <1>4, <1>5 DEF RepairObserved

\* A step that ends the run and leaves the repository alone.
LEMMA FinishStep ==
    ASSUME IndInv, NEW how \in Exits, Finish(how), RepoTypeOK', CommitTypeOK', StagedTypeOK',
           NothingUnstagedIsSwept', UNCHANGED runs
    PROVE  IndInv'
<1>1. RunTypeOK' /\ pc' = "idle"
  BY DEF Finish, runVars, historyVars, IndInv, TypeOK, RunTypeOK
<1>2. TypeOK'
  BY <1>1 DEF IndInv, TypeOK, PCs
<1>. QED  BY <1>1, <1>2, IdleStep

LEMMA SameRepo ==
    ASSUME IndInv, UNCHANGED repoVars
    PROVE  RepoTypeOK' /\ NothingUnstagedIsSwept'
  BY DEF IndInv, TypeOK, RepoTypeOK, NothingUnstagedIsSwept, repoVars

LEMMA SameLanes ==
    ASSUME IndInv
    PROVE  /\ UNCHANGED commitVars => CommitTypeOK'
           /\ UNCHANGED stagedVars => StagedTypeOK'
  BY DEF IndInv, TypeOK, CommitTypeOK, StagedTypeOK, commitVars, stagedVars

LEMMA AttributeStep ==
    ASSUME IndInv, Attribute, UNCHANGED <<commitVars, stagedVars, runs>>
    PROVE  IndInv'
<1>1. RepoTypeOK' /\ NothingUnstagedIsSwept' /\ CommitTypeOK' /\ StagedTypeOK'
  BY SameRepo, SameLanes DEF Attribute
<1>2. CASE Finish("failed")
  BY <1>1, <1>2, FinishStep DEF Exits
<1>3. ASSUME NEW l \in observed, outputs' = outputs \cup NewOutputs(l),
             before' = {}, observed' = {}, Goto("repair"),
             UNCHANGED <<scope, scoped, todo, historyVars>>
      PROVE  IndInv'
  <2>1. NewOutputs(l) \subseteq Paths
    BY DEF NewOutputs, Snapshot, ChangedOrUntracked, ChangedPaths
  <2>2. RunTypeOK'
    BY <1>3, <2>1 DEF IndInv, TypeOK, RunTypeOK, Goto, historyVars
  <2>3. TypeOK'
    BY <1>1, <1>3, <2>2 DEF IndInv, TypeOK, Goto, PCs
  <2>4. lane = "staged" /\ pc = "attribute"
    BY DEF Attribute, IndInv, LaneInv, StagedPCs
  <2>5. ASSUME NEW p \in NewOutputs(l)
        PROVE  ~Mine(p)
    <3>1. p \in Paths /\ p \in Snapshot(l) /\ p \notin before
      BY <2>1, <2>5 DEF NewOutputs
    <3>2. index[p] = head[p] /\ (index[p] # Absent \/ l \in StageNew => ~Mine(p))
      BY <2>4, <3>1 DEF IndInv, StagedInv
    <3>3. CASE l \in StageNew
      BY <3>2, <3>3
    <3>4. CASE l \notin StageNew
      BY <3>1, <3>2, <3>4 DEF Snapshot, ChangedPaths, Staged, Unstaged
    <3>. QED  BY <3>3, <3>4
  <2>6. StagedInv'
    BY <1>3, <2>4, <2>5 DEF IndInv, StagedInv, Mine, Goto, stagedVars, Attribute, repoVars
  <2>. QED  BY <1>1, <1>3, <2>3, <2>4, <2>6
            DEF IndInv, LaneInv, CommitInv, CommitPCs, StagedPCs, Goto
<1>. QED  BY <1>2, <1>3 DEF Attribute

\* The formatters add no unstaged edit, and lose none.
LEMMA FormatKeepsEdits ==
    ASSUME TypeOK, Format
    PROVE  /\ RepoTypeOK'
           /\ \A p \in Paths : Mine(p)' <=> Mine(p)
<1>1. CASE UNCHANGED work
  BY <1>1 DEF Format, TypeOK, RepoTypeOK, Mine
<1>2. ASSUME NEW S \in SUBSET (FormatScope \cap Matched), FormatScope \subseteq Present(Paths),
             work' = [p \in Paths |-> IF p \in S THEN FormattedText(work[p]) ELSE work[p]]
      PROVE  /\ RepoTypeOK'
             /\ \A p \in Paths : Mine(p)' <=> Mine(p)
  <2>1. ASSUME NEW p \in Paths
        PROVE  work'[p] \in Texts \cup {Absent} /\ (Mine(p)' <=> Mine(p))
    <3>1. work[p] \in Texts \cup {Absent}
      BY DEF TypeOK, RepoTypeOK
    <3>2. CASE p \in S
      <4>1. work[p] # Absent
        BY <1>2, <3>2 DEF Present
      <4>. QED  BY <1>2, <3>1, <3>2, <4>1, ToolTexts DEF Mine
    <3>3. CASE p \notin S
      BY <1>2, <3>1, <3>3 DEF Mine
    <3>. QED  BY <3>2, <3>3
  <2>. QED  BY <1>2, <2>1 DEF Format, TypeOK, RepoTypeOK
<1>. QED  BY <1>1, <1>2 DEF Format

LEMMA FormatStep ==
    ASSUME IndInv, Format, UNCHANGED <<commitVars, stagedVars, runs>>
    PROVE  IndInv'
<1>1. RepoTypeOK' /\ \A p \in Paths : Mine(p)' <=> Mine(p)
  BY FormatKeepsEdits DEF IndInv
<1>2. NothingUnstagedIsSwept' /\ CommitTypeOK' /\ StagedTypeOK'
  BY SameLanes DEF Format, IndInv, NothingUnstagedIsSwept
<1>3. CASE Finish("failed")
  BY <1>1, <1>2, <1>3, FinishStep DEF Exits
<1>4. CASE /\ cut' \in BOOLEAN
           /\ Goto("ran")
           /\ UNCHANGED <<runVars, start, touched, writers, removers>>
  <2>1. RunTypeOK'
    BY <1>4 DEF IndInv, TypeOK, RunTypeOK, Goto, runVars
  <2>2. TypeOK'
    BY <1>1, <1>2, <1>4, <2>1 DEF IndInv, TypeOK, Goto, PCs
  <2>3. CommitInv'
    BY <1>1, <1>4 DEF IndInv, CommitInv, CommitPCs, Goto, commitVars, Format
  <2>4. StagedInv'
    BY <1>1, <1>4 DEF IndInv, StagedInv, Goto, runVars, stagedVars, Format
  <2>. QED  BY <1>2, <1>4, <2>2, <2>3, <2>4 DEF IndInv, LaneInv, CommitPCs, StagedPCs, Goto
<1>. QED  BY <1>3, <1>4 DEF Format

LEMMA RunStepKeeps ==
    ASSUME IndInv, Run
    PROVE  IndInv'
  BY RepairStep, RepairObservedStep, AttributeStep, FormatStep DEF Run, RunStep

-------------------------------------------------------------------------------
(* The commit lane *)

\* A step of the commit lane that only goes on, with what it wants to commit.
LEMMA CommitGoesOn ==
    ASSUME IndInv, lane = "commit", pc # "idle", pc' \in CommitPCs,
           UNCHANGED <<lane, exit, repoVars, runVars, historyVars, amend, preDirty, stagedVars, runs>>,
           toCommit' \in SUBSET Paths, \A p \in toCommit' : ~Mine(p)
    PROVE  IndInv'
<1>1. RepoTypeOK' /\ NothingUnstagedIsSwept' /\ StagedTypeOK'
  BY SameRepo, SameLanes
<1>2. RunTypeOK'
  BY DEF IndInv, TypeOK, RunTypeOK, runVars, historyVars
<1>3. CommitTypeOK'
  BY DEF IndInv, TypeOK, CommitTypeOK
<1>4. TypeOK'
  BY <1>1, <1>2, <1>3 DEF IndInv, TypeOK, PCs, CommitPCs
<1>5. CommitInv'
  BY DEF IndInv, CommitInv, Mine, repoVars
<1>. QED  BY <1>1, <1>4, <1>5 DEF IndInv, LaneInv, StagedInv, CommitPCs, StagedPCs

LEMMA DetectFixesStep ==
    ASSUME IndInv, DetectFixes, UNCHANGED <<stagedVars, runs>>
    PROVE  IndInv'
<1>. DEFINE fixes == ChangedPaths \ preDirty
<1>1. toCommit' = fixes /\ fixes \subseteq Paths
  BY DEF DetectFixes, ChangedPaths
<1>2. ASSUME NEW p \in fixes
      PROVE  ~Mine(p)
  BY <1>2 DEF ChangedPaths, Staged, Unstaged, DetectFixes, IndInv, CommitInv
<1>3. CASE toCommit' = {}
  <2>1. RepoTypeOK' /\ NothingUnstagedIsSwept' /\ StagedTypeOK'
    BY SameRepo, SameLanes DEF DetectFixes
  <2>2. CommitTypeOK'
    BY <1>1 DEF DetectFixes, IndInv, TypeOK, CommitTypeOK
  <2>3. Finish("clean")
    BY <1>3 DEF DetectFixes, Finish
  <2>. QED  BY <2>1, <2>2, <2>3, FinishStep DEF Exits
<1>4. CASE toCommit' # {}
  <2>1. pc' \in CommitPCs /\ UNCHANGED <<lane, exit>>
    BY <1>4 DEF DetectFixes, Goto, CommitPCs
  <2>. QED  BY <1>1, <1>2, <2>1, CommitGoesOn DEF DetectFixes
<1>. QED  BY <1>3, <1>4

LEMMA CheckPublishedStep ==
    ASSUME IndInv, CheckPublished, UNCHANGED <<stagedVars, runs>>
    PROVE  IndInv'
<1>1. pc = "published" /\ lane = "commit"
  BY DEF CheckPublished, IndInv, LaneInv, CommitPCs
<1>2. pc' \in CommitPCs /\ UNCHANGED <<lane, exit>>
  BY DEF CheckPublished, Goto, CommitPCs
<1>3. toCommit \in SUBSET Paths /\ \A p \in toCommit : ~Mine(p)
  BY <1>1 DEF IndInv, TypeOK, CommitTypeOK, CommitInv, CommitPCs
<1>. QED  BY <1>1, <1>2, <1>3, CommitGoesOn DEF CheckPublished, commitVars

LEMMA GuardConflictsStep ==
    ASSUME IndInv, GuardConflicts, UNCHANGED <<stagedVars, runs>>
    PROVE  IndInv'
<1>1. pc = "guard" /\ lane = "commit"
  BY DEF GuardConflicts, IndInv, LaneInv, CommitPCs
<1>2. CASE Finish("conflicted")
  <2>1. RepoTypeOK' /\ NothingUnstagedIsSwept' /\ StagedTypeOK' /\ CommitTypeOK'
    BY SameRepo, SameLanes DEF GuardConflicts
  <2>. QED  BY <1>2, <2>1, FinishStep DEF Exits
<1>3. CASE Goto("commit") /\ UNCHANGED <<runVars, historyVars>>
  <2>1. toCommit \in SUBSET Paths /\ \A p \in toCommit : ~Mine(p)
    BY <1>1 DEF IndInv, TypeOK, CommitTypeOK, CommitInv, CommitPCs
  <2>2. pc' \in CommitPCs /\ UNCHANGED <<lane, exit>>
    BY <1>3 DEF Goto, CommitPCs
  <2>. QED  BY <1>1, <1>3, <2>1, <2>2, CommitGoesOn DEF GuardConflicts, commitVars
<1>. QED  BY <1>2, <1>3 DEF GuardConflicts

LEMMA RestoreFixesStep ==
    ASSUME IndInv, RestoreFixes, UNCHANGED <<stagedVars, runs>>
    PROVE  IndInv'
<1>1. CommitTypeOK' /\ StagedTypeOK'
  BY SameLanes DEF RestoreFixes
<1>2. PICK how \in Exits : Finish(how)
  BY DEF RestoreFixes, Exits
<1>3. CASE UNCHANGED repoVars
  BY <1>1, <1>2, <1>3, SameRepo, FinishStep DEF RestoreFixes
<1>4. CASE RestorePaths(toCommit)
  <2>1. head \in [Paths -> Texts \cup {Absent}] /\ index \in [Paths -> Contents]
        /\ work \in [Paths -> Texts \cup {Absent}]
    BY DEF IndInv, TypeOK, RepoTypeOK
  <2>2. index' \in [Paths -> Contents] /\ work' \in [Paths -> Texts \cup {Absent}]
    BY <1>4, <2>1, OverrideType DEF RestorePaths, Contents
  <2>3. RepoTypeOK'
    BY <1>4, <2>1, <2>2 DEF RestorePaths, IndInv, TypeOK, RepoTypeOK
  <2>4. NothingUnstagedIsSwept'
    BY <1>4 DEF RestorePaths, Override, IndInv, NothingUnstagedIsSwept
  <2>. QED  BY <1>1, <1>2, <2>3, <2>4, FinishStep DEF RestoreFixes
<1>. QED  BY <1>3, <1>4 DEF RestoreFixes

LEMMA CommitOrAmendStep ==
    ASSUME IndInv, CommitOrAmend, UNCHANGED <<stagedVars, runs>>
    PROVE  IndInv'
<1>1. CommitTypeOK' /\ StagedTypeOK'
  BY SameLanes DEF CommitOrAmend
<1>2. PICK how \in Exits : Finish(how)
  BY DEF CommitOrAmend, Exits
<1>3. CASE UNCHANGED repoVars
  BY <1>1, <1>2, <1>3, SameRepo, FinishStep DEF CommitOrAmend
<1>4. CASE CommitPaths(toCommit)
  <2>1. head \in [Paths -> Texts \cup {Absent}] /\ index \in [Paths -> Contents]
        /\ work \in [Paths -> Texts \cup {Absent}]
    BY DEF IndInv, TypeOK, RepoTypeOK
  <2>2. head' \in [Paths -> Texts \cup {Absent}] /\ index' \in [Paths -> Contents]
    BY <1>4, <2>1, OverrideType DEF CommitPaths, Contents
  <2>3. RepoTypeOK'
    BY <1>4, <2>1, <2>2 DEF CommitPaths, RepoTypeOK
  <2>4. pc = "commit" /\ lane = "commit"
    BY DEF CommitOrAmend, IndInv, LaneInv, CommitPCs
  <2>5. \A p \in Paths \cap toCommit : "unstaged" \notin work[p]
    BY <2>4 DEF IndInv, CommitInv, CommitPCs, Mine
  <2>6. NothingUnstagedIsSwept'
    BY <1>4, <2>5 DEF CommitPaths, Override, IndInv, NothingUnstagedIsSwept
  <2>. QED  BY <1>1, <1>2, <2>3, <2>6, FinishStep DEF CommitOrAmend
<1>. QED  BY <1>3, <1>4 DEF CommitOrAmend

LEMMA CommitStepKeeps ==
    ASSUME IndInv, Commit
    PROVE  IndInv'
  BY DetectFixesStep, CheckPublishedStep, RestoreFixesStep, GuardConflictsStep, CommitOrAmendStep
     DEF Commit, CommitStep

-------------------------------------------------------------------------------
(* The staged lane *)

\* A step of the staged lane that goes on past the run: what it may still put
\* into the index carries no unstaged edit.
LEMMA StagedGoesOn ==
    ASSUME IndInv, lane = "staged", pc # "idle",
           pc' \in {"add", "blobs", "isolate", "write"},
           UNCHANGED <<lane, exit, runVars, historyVars, commitVars, runs>>,
           RepoTypeOK', NothingUnstagedIsSwept', StagedTypeOK', work' = work,
           \A p \in Paths : /\ pc' = "add" /\ p \in toRestage' => ~Mine(p)
                            /\ pc' = "isolate" /\ p \in partial' => blobs'[p] \in Texts
                            /\ "unstaged" \notin blobs'[p] \cup changed'[p]
    PROVE  IndInv'
<1>1. RunTypeOK'
  BY DEF IndInv, TypeOK, RunTypeOK, runVars, historyVars
<1>2. TypeOK'
  BY <1>1, SameLanes DEF IndInv, TypeOK, PCs
<1>3. StagedInv'
  BY DEF IndInv, StagedInv, Mine, runVars
<1>. QED  BY <1>2, <1>3 DEF IndInv, LaneInv, CommitInv, CommitPCs, StagedPCs

LEMMA DetectRestageStep ==
    ASSUME IndInv, DetectRestage, UNCHANGED <<commitVars, runs>>
    PROVE  IndInv'
<1>1. pc = "ran" /\ lane = "staged" /\ UNCHANGED <<repoVars, full, partial, blobs, changed, restaged>>
  BY DEF DetectRestage
<1>2. RepoTypeOK' /\ NothingUnstagedIsSwept' /\ CommitTypeOK'
  BY <1>1, SameRepo, SameLanes
<1>3. CASE Finish("failed") /\ UNCHANGED toRestage
  <2>1. StagedTypeOK'
    BY <1>1, <1>3 DEF IndInv, TypeOK, StagedTypeOK
  <2>. QED  BY <1>2, <1>3, <2>1, FinishStep DEF Exits
<1>4. CASE /\ toRestage' = outputs \cup {p \in full : Unstaged(p)}
           /\ Goto(IF toRestage' = {} THEN "blobs" ELSE "add")
           /\ UNCHANGED <<runVars, historyVars>>
  <2>1. StagedTypeOK'
    BY <1>1, <1>4 DEF IndInv, TypeOK, RunTypeOK, StagedTypeOK
  <2>2. \A p \in toRestage' : p \in Paths /\ ~Mine(p)
    BY <1>1, <1>4 DEF Unstaged, IndInv, StagedInv, TypeOK, RunTypeOK, StagedTypeOK
  <2>3. \A p \in Paths : "unstaged" \notin blobs'[p] \cup changed'[p]
    BY <1>1 DEF IndInv, StagedInv
  <2>4. pc' \in {"add", "blobs"} /\ UNCHANGED <<lane, exit>>
    BY <1>4 DEF Goto
  <2>. QED  BY <1>1, <1>2, <1>4, <2>1, <2>2, <2>3, <2>4, StagedGoesOn DEF repoVars
<1>. QED  BY <1>3, <1>4 DEF DetectRestage

LEMMA RestageFullStep ==
    ASSUME IndInv, RestageFull, UNCHANGED <<commitVars, runs>>
    PROVE  IndInv'
<1>1. pc = "add" /\ lane = "staged" /\ UNCHANGED <<full, partial, toRestage, blobs, changed>>
  BY DEF RestageFull, IndInv, LaneInv, StagedPCs
<1>2. CASE Finish("failed") /\ UNCHANGED <<repoVars, restaged>>
  <2>1. RepoTypeOK' /\ NothingUnstagedIsSwept' /\ CommitTypeOK' /\ StagedTypeOK'
    BY <1>1, <1>2, SameRepo, SameLanes DEF stagedVars
  <2>. QED  BY <1>2, <2>1, FinishStep DEF Exits
<1>3. CASE /\ AddPaths(toRestage)
           /\ restaged' = TRUE
           /\ Goto("blobs")
           /\ UNCHANGED <<runVars, historyVars>>
  <2>1. head \in [Paths -> Texts \cup {Absent}] /\ index \in [Paths -> Contents]
        /\ work \in [Paths -> Texts \cup {Absent}]
    BY DEF IndInv, TypeOK, RepoTypeOK
  <2>2. index' \in [Paths -> Contents]
    BY <1>3, <2>1, OverrideType DEF AddPaths, Contents
  <2>3. RepoTypeOK' /\ work' = work
    BY <1>3, <2>1, <2>2 DEF AddPaths, IndInv, TypeOK, RepoTypeOK
  <2>4. \A p \in Paths \cap toRestage : "unstaged" \notin work[p]
    BY <1>1 DEF IndInv, StagedInv, Mine
  <2>5. NothingUnstagedIsSwept'
    BY <1>3, <2>4 DEF AddPaths, Override, IndInv, NothingUnstagedIsSwept
  <2>6. StagedTypeOK'
    BY <1>1, <1>3 DEF IndInv, TypeOK, StagedTypeOK
  <2>7. \A p \in Paths : "unstaged" \notin blobs'[p] \cup changed'[p]
    BY <1>1 DEF IndInv, StagedInv
  <2>8. pc' = "blobs" /\ UNCHANGED <<lane, exit>>
    BY <1>3 DEF Goto
  <2>. QED  BY <1>1, <1>3, <2>3, <2>5, <2>6, <2>7, <2>8, StagedGoesOn
<1>. QED  BY <1>2, <1>3 DEF RestageFull

LEMMA ReadBlobsStep ==
    ASSUME IndInv, ReadBlobs, UNCHANGED <<commitVars, runs>>
    PROVE  IndInv'
<1>1. pc = "blobs" /\ UNCHANGED <<repoVars, full, partial, toRestage, changed, restaged>>
  BY DEF ReadBlobs
<1>2. lane = "staged"
  BY <1>1 DEF IndInv, LaneInv, StagedPCs
<1>3. RepoTypeOK' /\ NothingUnstagedIsSwept' /\ CommitTypeOK'
  BY <1>1, SameRepo, SameLanes
<1>4. CASE Finish("failed") /\ UNCHANGED blobs
  <2>1. StagedTypeOK'
    BY <1>1, <1>4 DEF IndInv, TypeOK, StagedTypeOK
  <2>. QED  BY <1>3, <1>4, <2>1, FinishStep DEF Exits
<1>5. CASE /\ \A p \in partial : index[p] \in Texts
           /\ blobs' = Override(NoBlobs, index, partial)
           /\ Goto(IF partial = {} THEN "write" ELSE "isolate")
           /\ UNCHANGED <<runVars, historyVars>>
  <2>1. index \in [Paths -> Contents]
    BY DEF IndInv, TypeOK, RepoTypeOK
  <2>2. NoBlobs \in [Paths -> Contents]
    BY DEF NoBlobs, Contents
  <2>3. blobs' \in [Paths -> Contents]
    BY <1>5, <2>1, <2>2, OverrideType
  <2>4. StagedTypeOK'
    BY <1>1, <2>3 DEF IndInv, TypeOK, StagedTypeOK
  <2>5. ASSUME NEW p \in Paths
        PROVE  /\ "unstaged" \notin blobs'[p] \cup changed'[p]
               /\ p \in partial' => blobs'[p] \in Texts
    <3>1. "unstaged" \notin index[p] \cup changed[p]
      BY <1>1, <1>2 DEF IndInv, StagedInv, NothingUnstagedIsSwept
    <3>. QED  BY <1>1, <1>5, <3>1 DEF Override, NoBlobs, Absent
  <2>6. pc' \in {"isolate", "write"} /\ UNCHANGED <<lane, exit>>
    BY <1>5 DEF Goto
  <2>. QED  BY <1>1, <1>2, <1>3, <1>5, <2>4, <2>5, <2>6, StagedGoesOn DEF repoVars
<1>. QED  BY <1>4, <1>5 DEF ReadBlobs

\* Nor do the tools add an unstaged edit to a blob.
LEMMA BlobTexts ==
    ASSUME NEW p \in Paths, NEW c \in Texts, NEW ls \in SUBSET Linters, "unstaged" \notin c
    PROVE  BlobText(p, c, ls) \in Texts /\ "unstaged" \notin BlobText(p, c, ls)
<1>. DEFINE text == IF ls = {} THEN c ELSE (c \ {"fmt"}) \cup ls
<1>1. text \in Texts /\ "unstaged" \notin text
  BY DEF Texts
<1>. QED  BY <1>1 DEF BlobText, FormattedText, Texts

LEMMA FormatBlobsStep ==
    ASSUME IndInv, FormatBlobs, UNCHANGED <<commitVars, runs>>
    PROVE  IndInv'
<1>1. pc = "isolate" /\ UNCHANGED <<repoVars, full, partial, toRestage, blobs, restaged>>
  BY DEF FormatBlobs
<1>2. lane = "staged"
  BY <1>1 DEF IndInv, LaneInv, StagedPCs
<1>3. RepoTypeOK' /\ NothingUnstagedIsSwept' /\ CommitTypeOK'
  BY <1>1, SameRepo, SameLanes
<1>. DEFINE matching == {l \in Linters : Triggers[l] \cap partial # {}}
            made(hits) == [p \in Paths |->
                             IF p \in partial /\ BlobText(p, blobs[p], hits[p]) # blobs[p]
                             THEN BlobText(p, blobs[p], hits[p])
                             ELSE Absent]
<1>4. CASE Finish("failed") /\ UNCHANGED changed
  <2>1. StagedTypeOK'
    BY <1>1, <1>4 DEF IndInv, TypeOK, StagedTypeOK
  <2>. QED  BY <1>3, <1>4, <2>1, FinishStep DEF Exits
<1>5. ASSUME NEW hits \in [partial -> SUBSET matching], changed' = made(hits),
             Goto("write"), UNCHANGED <<runVars, historyVars>>
      PROVE  IndInv'
  <2>1. ASSUME NEW p \in Paths
        PROVE  changed'[p] \in Contents /\ "unstaged" \notin changed'[p]
    <3>1. CASE p \in partial
      <4>1. blobs[p] \in Texts /\ "unstaged" \notin blobs[p]
        BY <1>1, <1>2, <3>1 DEF IndInv, StagedInv
      <4>2. hits[p] \in SUBSET Linters
        BY <1>5, <3>1
      <4>3. /\ BlobText(p, blobs[p], hits[p]) \in Texts
            /\ "unstaged" \notin BlobText(p, blobs[p], hits[p])
        BY <4>1, <4>2, BlobTexts
      <4>. QED  BY <1>5, <4>3 DEF Contents, Absent
    <3>2. CASE p \notin partial
      BY <1>5, <3>2 DEF Contents, Absent
    <3>. QED  BY <3>1, <3>2
  <2>2. changed' \in [Paths -> Contents]
    BY <1>5, <2>1
  <2>3. StagedTypeOK'
    BY <1>1, <2>2 DEF IndInv, TypeOK, StagedTypeOK
  <2>4. \A p \in Paths : "unstaged" \notin blobs'[p] \cup changed'[p]
    BY <1>1, <1>2, <2>1 DEF IndInv, StagedInv
  <2>5. pc' = "write" /\ UNCHANGED <<lane, exit>>
    BY <1>5 DEF Goto
  <2>. QED  BY <1>1, <1>2, <1>3, <1>5, <2>3, <2>4, <2>5, StagedGoesOn DEF repoVars
<1>6. \/ \E hits \in [partial -> SUBSET matching] :
           /\ changed' = made(hits)
           /\ Goto("write")
           /\ UNCHANGED <<runVars, historyVars>>
      \/ Finish("failed") /\ UNCHANGED changed
  BY DEF FormatBlobs
<1>. QED  BY <1>4, <1>5, <1>6

LEMMA WriteBlobStep ==
    ASSUME IndInv, NEW p \in Paths, WriteBlob(p), UNCHANGED <<commitVars, runs>>
    PROVE  IndInv'
<1>1. pc = "write" /\ UNCHANGED <<full, partial, toRestage, blobs>>
  BY DEF WriteBlob
<1>2. lane = "staged"
  BY <1>1 DEF IndInv, LaneInv, StagedPCs
<1>3. CommitTypeOK'
  BY SameLanes
<1>4. CASE Finish("failed") /\ UNCHANGED <<repoVars, changed, restaged>>
  <2>1. RepoTypeOK' /\ NothingUnstagedIsSwept' /\ StagedTypeOK'
    BY <1>1, <1>4, SameRepo, SameLanes DEF stagedVars
  <2>. QED  BY <1>3, <1>4, <2>1, FinishStep DEF Exits
<1>5. CASE /\ UpdateIndexCacheinfo(p, changed[p])
           /\ changed' = [changed EXCEPT ![p] = Absent]
           /\ restaged' = TRUE
           /\ UNCHANGED <<lane, pc, exit, runVars, historyVars>>
  <2>1. index \in [Paths -> Contents] /\ changed \in [Paths -> Contents]
    BY DEF IndInv, TypeOK, RepoTypeOK, StagedTypeOK
  <2>2. RepoTypeOK' /\ work' = work
    BY <1>5, <2>1 DEF UpdateIndexCacheinfo, IndInv, TypeOK, RepoTypeOK
  <2>3. \A q \in Paths : "unstaged" \notin blobs[q] \cup changed[q]
    BY <1>1, <1>2 DEF IndInv, StagedInv
  <2>4. NothingUnstagedIsSwept'
    BY <1>5, <2>1, <2>3 DEF UpdateIndexCacheinfo, IndInv, NothingUnstagedIsSwept
  <2>5. Absent \in Contents
    BY DEF Contents
  <2>6. StagedTypeOK'
    BY <1>1, <1>5, <2>1, <2>5 DEF IndInv, TypeOK, StagedTypeOK
  <2>7. \A q \in Paths : "unstaged" \notin blobs'[q] \cup changed'[q]
    BY <1>1, <1>5, <2>1, <2>3 DEF Absent
  <2>. QED  BY <1>1, <1>2, <1>5, <2>2, <2>4, <2>6, <2>7, StagedGoesOn
<1>. QED  BY <1>4, <1>5 DEF WriteBlob

LEMMA FinishStagedStep ==
    ASSUME IndInv, FinishStaged, UNCHANGED <<commitVars, runs>>
    PROVE  IndInv'
<1>1. RepoTypeOK' /\ NothingUnstagedIsSwept' /\ CommitTypeOK' /\ StagedTypeOK'
  BY SameRepo, SameLanes DEF FinishStaged
<1>2. PICK how \in Exits : Finish(how)
  BY DEF FinishStaged, Exits
<1>. QED  BY <1>1, <1>2, FinishStep

LEMMA StagedStepKeeps ==
    ASSUME IndInv, Stage
    PROVE  IndInv'
  BY DetectRestageStep, RestageFullStep, ReadBlobsStep, FormatBlobsStep, WriteBlobStep,
     FinishStagedStep
     DEF Stage, StagedStep

-------------------------------------------------------------------------------
LEMMA CrashStep ==
    ASSUME IndInv, Crash
    PROVE  IndInv'
<1>1. RepoTypeOK' /\ NothingUnstagedIsSwept' /\ CommitTypeOK' /\ StagedTypeOK'
  BY SameRepo, SameLanes DEF Crash
<1>. QED  BY <1>1, FinishStep DEF Crash, Exits

LEMMA UserEditsStep ==
    ASSUME IndInv, NEW p \in Paths, UserEdits(p)
    PROVE  IndInv' /\ \A q \in Paths : Mine(q)' <=> Mine(q)
<1>1. work \in [Paths -> Texts \cup {Absent}] /\ work[p] \in Texts
  BY DEF UserEdits, IndInv, TypeOK, RepoTypeOK
<1>2. PICK more \in {{"late"}, {"late", "conflict"}} :
          work' = [work EXCEPT ![p] = (@ \ {"fmt"}) \cup more]
  BY DEF UserEdits
<1>3. (work[p] \ {"fmt"}) \cup more \in Texts
  BY <1>1, <1>2 DEF Texts
<1>4. work' \in [Paths -> Texts \cup {Absent}]
  BY <1>1, <1>2, <1>3
<1>5. \A q \in Paths : Mine(q)' <=> Mine(q)
  BY <1>1, <1>2 DEF Mine
<1>6. RepoTypeOK' /\ RunTypeOK'
  BY <1>4 DEF UserEdits, IndInv, TypeOK, RepoTypeOK, RunTypeOK, runVars
<1>7. TypeOK'
  BY <1>6, SameLanes DEF UserEdits, IndInv, TypeOK
<1>8. IndInv'
  BY <1>5, <1>7, WorkStep DEF UserEdits, runVars
<1>. QED  BY <1>5, <1>8

LEMMA NextIndInv ==
    ASSUME IndInv, [Next]_vars
    PROVE  IndInv'
<1>1. CASE UNCHANGED vars
  <2>1. RepoTypeOK' /\ NothingUnstagedIsSwept' /\ CommitTypeOK' /\ StagedTypeOK'
    BY <1>1, SameRepo, SameLanes DEF vars
  <2>2. RunTypeOK'
    BY <1>1 DEF vars, IndInv, TypeOK, RunTypeOK, runVars, historyVars
  <2>3. TypeOK'
    BY <1>1, <2>1, <2>2 DEF vars, IndInv, TypeOK
  <2>. QED  BY <1>1, <2>3, WorkStep DEF vars, repoVars, runVars, Mine
<1>2. CASE Process
  BY <1>2, RunStepKeeps, CommitStepKeeps, StagedStepKeeps DEF Process
<1>. QED
  BY <1>1, <1>2, StartCommitStep, StartStagedStep, CrashStep, UserEditsStep DEF Next, Rest

THEOREM Invariance == Spec => []IndInv
  BY InitIndInv, NextIndInv, PTL DEF Spec

\* Every variable of a session stays in its domain.
THEOREM TypeCorrect == Spec => []TypeOK
<1>1. IndInv => TypeOK
  BY DEF IndInv
<1>. QED  BY <1>1, Invariance, PTL

\* Whatever the linters and formatters do, whichever lane runs, fails or is killed,
\* and however often: what the user has not staged reaches neither the index nor a
\* commit.
THEOREM UnstagedIsNotSwept == Spec => []NothingUnstagedIsSwept
<1>1. IndInv => NothingUnstagedIsSwept
  BY DEF IndInv
<1>. QED  BY <1>1, Invariance, PTL

-------------------------------------------------------------------------------
\* Only a repair that deletes the file takes an unstaged edit out of it.
LEMMA EditsSurviveStep ==
    ASSUME IndInv, Next, NEW p \in Paths, Mine(p), ~Mine(p)'
    PROVE  removers'[p] # {}
<1>. TypeOK
  BY DEF IndInv
<1>1. work' # work
  BY DEF Mine
<1>2. ASSUME NEW l \in Linters, Repair(l) \/ RepairObserved(l)
      PROVE  removers'[p] # {}
  <2>1. RunCommand(l)
    BY <1>2 DEF Repair, RepairObserved
  <2>. QED  BY <2>1, RepairKeepsEdits
<1>3. ~Format
  BY FormatKeepsEdits
<1>4. ~Attribute
  BY <1>1 DEF Attribute, repoVars
<1>5. CASE Run
  BY <1>2, <1>3, <1>4, <1>5 DEF Run, RunStep
<1>6. ~RestoreFixes
  <2>1. SUFFICES ASSUME RestoreFixes
                 PROVE  FALSE
    OBVIOUS
  <2>2. pc = "restore" /\ lane = "commit"
    BY <2>1 DEF RestoreFixes, IndInv, LaneInv, CommitPCs
  <2>3. p \notin toCommit
    BY <2>2 DEF IndInv, CommitInv, CommitPCs
  <2>4. work'[p] = work[p]
    BY <2>1, <2>3, <1>1 DEF RestoreFixes, RestorePaths, Override, repoVars, TypeOK, RepoTypeOK
  <2>. QED  BY <2>4 DEF Mine
<1>7. ~Commit
  BY <1>1, <1>6 DEF Commit, CommitStep, DetectFixes, CheckPublished, GuardConflicts,
                    CommitOrAmend, CommitPaths, repoVars
<1>8. ~Stage
  BY <1>1 DEF Stage, StagedStep, DetectRestage, RestageFull, AddPaths, ReadBlobs, FormatBlobs,
              WriteBlob, UpdateIndexCacheinfo, FinishStaged, repoVars
<1>9. ~StartCommit /\ ~StartStaged /\ ~Crash /\ ~Rest
  BY <1>1 DEF StartCommit, CommitPreflight, StartStaged, StagedPreflight, Begin, Crash, Rest,
              vars, repoVars
<1>10. \A q \in Paths : ~UserEdits(q)
  BY UserEditsStep
<1>. QED  BY <1>5, <1>7, <1>8, <1>9, <1>10 DEF Next, Process

\* Nor does either lane lose it: a step after which the working tree's file no
\* longer has the user's unstaged edit follows a repair that deleted the file.
THEOREM UnstagedIsNotLost == Spec => UnstagedEditsSurvive
<1>1. IndInv /\ [Next]_vars =>
        [\A p \in Paths :
            "unstaged" \in work[p] /\ "unstaged" \notin work'[p] => removers'[p] # {}]_vars
  BY EditsSurviveStep DEF Mine
<1>. QED  BY <1>1, Invariance, PTL DEF Spec, UnstagedEditsSurvive
===============================================================================
