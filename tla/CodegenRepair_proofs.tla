-------------------------- MODULE CodegenRepair_proofs --------------------------
(***************************************************************************)
(* A codegen-repair run gives the index back as it found it and leaves the *)
(* user's untracked files alone, and one that converges leaves every check *)
(* current, whatever the generators, the tree and the number of checks.    *)
(* Where the generators form a chain, every patch is progress.             *)
(***************************************************************************)
EXTENDS CodegenRepair, FiniteSetTheorems, TLAPS

\* The index differs from what it was by the run's own entries, and by nothing
\* once they have been removed.
IndexInv ==
    \A p \in Paths :
        /\ p \in intentAdded => start.index[p] = "untracked"
        /\ index[p] = IF p \in intentAdded /\ pc # "done" THEN "intent" ELSE start.index[p]

\* An untracked file of the user is as it was, nix has not seen it, and git has
\* listed it before a patch was applied.
MineInv ==
    ~edited => \A p \in Paths : start.mine[p] # Absent =>
        /\ work[p] = start.mine[p] /\ index[p] = "untracked"
        /\ pc \in {"check", "snapshot", "apply"} => patch[1][p] = Absent
        /\ pc \in {"apply", "track"} => p \in before

IndInv == TypeOK /\ IndexInv /\ MineInv

USE ChecksAssumption, TreesAssumption

-------------------------------------------------------------------------------
\* What nix sees is a tree, in which every file it sees is as in the work tree.
LEMMA SeenIsATree ==
    ASSUME TypeOK
    PROVE  /\ Seen \in AllTrees
           /\ \A p \in Paths : index[p] = "untracked" => Seen[p] = Absent
  BY DEF TypeOK, Seen, AllTrees

\* What a check makes of a tree is a tree.
LEMMA RepairedIsATree ==
    ASSUME TypeOK, NEW c \in Checks
    PROVE  Repaired(c) \in AllTrees
<1>1. Seen \in AllTrees
  BY SeenIsATree
<1>2. Generate(flake, c, Seen) \in [Outputs[c] -> Values \cup {Absent}]
  BY <1>1, GenerateAssumption DEF TypeOK
<1>. QED  BY <1>1, <1>2 DEF Repaired, AllTrees

\* The limit that a discovery sets is a number.
LEMMA LimitIsANumber ==
    ASSUME NEW S \in SUBSET Checks
    PROVE  PassLimit(Cardinality(S)) \in Nat
<1>1. IsFiniteSet(Checks)
  BY FS_Interval DEF Checks
<1>2. Cardinality(S) \in Nat
  BY <1>1, FS_Subset, FS_CardinalityType
<1>. QED  BY <1>2 DEF PassLimit

-------------------------------------------------------------------------------
LEMMA InitIndInv ==
    ASSUME Init
    PROVE  IndInv
<1>1. PICK t \in Trees :
        /\ work = t[1]
        /\ index = [p \in Paths |-> IF p \in t[2] THEN "tracked" ELSE "untracked"]
        /\ start = [index |-> index,
                    mine |-> [p \in Paths |-> IF p \in Untracked THEN work[p] ELSE Absent]]
  BY DEF Init
<1>2. work \in AllTrees
  BY <1>1
<1>3. TypeOK
  <2>1. start.index \in [Paths -> {"untracked", "tracked"}] /\ start.mine \in AllTrees
    BY <1>1, <1>2 DEF AllTrees
  <2>2. start \in [index : [Paths -> {"untracked", "tracked"}], mine : AllTrees]
    BY <1>1, <2>1
  <2>3. index \in [Paths -> {"untracked", "tracked", "intent"}]
    BY <1>1
  <2>4. patch \in AllTrees \X AllTrees
    BY DEF Init, NoPatch, AllTrees
  <2>. QED  BY <1>2, <2>2, <2>3, <2>4 DEF Init, TypeOK, PCs, Results
<1>4. IndexInv
  BY <1>1 DEF Init, IndexInv
<1>5. MineInv
  BY <1>1 DEF Init, MineInv, Untracked
<1>. QED  BY <1>3, <1>4, <1>5 DEF IndInv

\* A step that leaves tree, index and session alone, and neither enters nor is
\* inside the application of a patch, preserves all but types.
LEMMA QuietStep ==
    ASSUME IndInv, TypeOK', UNCHANGED <<treeVars, intentAdded, edited>>,
           pc # "done", pc' \in {"discover", "build", "restore"}
    PROVE  IndInv'
<1>1. IndexInv'
  BY DEF IndInv, IndexInv, treeVars
<1>2. MineInv'
  BY DEF IndInv, MineInv, treeVars
<1>. QED  BY <1>1, <1>2 DEF IndInv

LEMMA DiscoverStep ==
    ASSUME IndInv, Discover \/ DiscoveryFails
    PROVE  IndInv'
<1>1. CASE Discover
  <2>1. checks' \subseteq Checks
    BY <1>1 DEF Discover
  <2>2. limit' \in Nat
    BY <1>1, <2>1, LimitIsANumber DEF Discover, IndInv, TypeOK
  <2>3. pc' \in {"build", "restore"} /\ result' \in Results
    BY <1>1 DEF Discover, Finish, Goto, Results, IndInv, TypeOK
  <2>4. TypeOK'
    BY <1>1, <2>1, <2>2, <2>3
       DEF Discover, IndInv, TypeOK, treeVars, sessionVars, PCs
  <2>. QED  BY <1>1, <2>3, <2>4, QuietStep DEF Discover, sessionVars
<1>2. CASE DiscoveryFails
  <2>1. TypeOK'
    BY <1>2 DEF DiscoveryFails, Finish, IndInv, TypeOK, treeVars, sessionVars, loopVars,
                PCs, Results
  <2>. QED  BY <1>2, <2>1, QuietStep DEF DiscoveryFails, Finish, sessionVars
<1>. QED  BY <1>1, <1>2

LEMMA PassStep ==
    ASSUME IndInv, Pass
    PROVE  IndInv'
<1>1. ASSUME NEW c \in Checks, GiveUp(c) \/ Current(c)
      PROVE  IndInv'
  <2>1. c \in Nat
    BY DEF Checks
  <2>2. unrepaired' \in SUBSET Checks /\ at' = c + 1
    BY <1>1 DEF GiveUp, Current, IndInv, TypeOK, sessionVars
  <2>3. UNCHANGED <<treeVars, intentAdded, pass, limit, checks, pc, result, patch, before, edited>>
    BY <1>1 DEF GiveUp, Current, sessionVars
  <2>4. TypeOK'
    BY <2>1, <2>2, <2>3 DEF IndInv, TypeOK, treeVars
  <2>. QED  BY <1>1, <2>4, QuietStep DEF GiveUp, Current, Turn, sessionVars
<1>2. ASSUME NEW c \in Checks, BuildPatch(c)
      PROVE  IndInv'
  <2>1. c \in Nat
    BY DEF Checks
  <2>2. patch' = <<Seen, Repaired(c)>> /\ Seen \in AllTrees /\ Repaired(c) \in AllTrees
    BY <1>2, SeenIsATree, RepairedIsATree DEF BuildPatch, IndInv
  <2>3. TypeOK'
    BY <1>2, <2>1, <2>2 DEF BuildPatch, Goto, IndInv, TypeOK, treeVars, sessionVars, PCs
  <2>4. IndexInv'
    BY <1>2 DEF BuildPatch, Turn, Goto, IndInv, IndexInv, treeVars, sessionVars
  <2>5. \A p \in Paths : index[p] = "untracked" => patch'[1][p] = Absent
    BY <2>2, SeenIsATree DEF IndInv
  <2>6. MineInv'
    BY <1>2, <2>5 DEF BuildPatch, Goto, IndInv, MineInv, treeVars, sessionVars
  <2>. QED  BY <2>3, <2>4, <2>6 DEF IndInv
<1>3. CASE Converged
  <2>1. TypeOK'
    BY <1>3 DEF Converged, Finish, IndInv, TypeOK, treeVars, sessionVars, loopVars, PCs, Results
  <2>. QED  BY <1>3, <2>1, QuietStep DEF Converged, Finish, sessionVars
<1>. QED  BY <1>1, <1>2, <1>3 DEF Pass

LEMMA NoPatchIsTyped == NoPatch \in AllTrees \X AllTrees
  BY DEF NoPatch, AllTrees

LEMMA CheckPatchStep ==
    ASSUME IndInv, CheckPatch
    PROVE  IndInv'
<1>1. pc' \in {"snapshot", "build", "restore"} /\ result' \in Results
  BY DEF CheckPatch, Goto, Finish, Results, IndInv, TypeOK
<1>2. patch' \in {patch, NoPatch} /\ (pc' = "snapshot" => patch' = patch)
  BY DEF CheckPatch
<1>3. TypeOK'
  BY <1>1, <1>2, NoPatchIsTyped
     DEF CheckPatch, IndInv, TypeOK, treeVars, sessionVars, loopVars, PCs
<1>4. CASE pc' = "snapshot"
  <2>1. IndexInv'
    BY <1>4 DEF CheckPatch, IndInv, IndexInv, treeVars, sessionVars
  <2>2. MineInv'
    BY <1>2, <1>4 DEF CheckPatch, IndInv, MineInv, treeVars, sessionVars
  <2>. QED  BY <1>3, <2>1, <2>2 DEF IndInv
<1>5. CASE pc' # "snapshot"
  BY <1>1, <1>3, <1>5, QuietStep DEF CheckPatch, sessionVars
<1>. QED  BY <1>4, <1>5

LEMMA SnapshotStep ==
    ASSUME IndInv, Snapshot
    PROVE  IndInv'
<1>1. pc' = "apply" /\ before' \in {Untracked, Paths} /\ Untracked \subseteq Paths
  BY DEF Snapshot, Goto, Untracked
<1>2. TypeOK'
  BY <1>1 DEF Snapshot, Goto, IndInv, TypeOK, treeVars, sessionVars, loopVars, PCs
<1>3. IndexInv'
  BY <1>1 DEF Snapshot, IndInv, IndexInv, treeVars, sessionVars
<1>4. MineInv'
  BY <1>1 DEF Snapshot, IndInv, MineInv, Untracked, treeVars, sessionVars
<1>. QED  BY <1>2, <1>3, <1>4 DEF IndInv

\* The user's untracked files are not among those that an applicable patch touches.
LEMMA ApplyPatchStep ==
    ASSUME IndInv, ApplyPatch
    PROVE  IndInv'
<1>1. CASE pc' = "restore"
  <2>1. UNCHANGED <<treeVars, intentAdded, edited>>
    BY <1>1 DEF ApplyPatch, Goto, treeVars, sessionVars
  <2>2. TypeOK'
    BY <1>1, <2>1, NoPatchIsTyped
       DEF ApplyPatch, Goto, Finish, IndInv, TypeOK, treeVars, sessionVars, loopVars, PCs, Results
  <2>. QED  BY <1>1, <2>1, <2>2, QuietStep DEF ApplyPatch
<1>2. CASE pc' # "restore"
  <2>1. /\ Applies(patch[1]) /\ pc = "apply" /\ pc' = "track" /\ UNCHANGED result
        /\ work' = [p \in Paths |-> IF p \in Touches THEN patch[2][p] ELSE work[p]]
    BY <1>2 DEF ApplyPatch, Goto, Finish
  <2>2. patch[2] \in AllTrees /\ work \in AllTrees
    BY DEF IndInv, TypeOK
  <2>3. work' \in AllTrees
    BY <2>1, <2>2 DEF AllTrees
  <2>4. TypeOK'
    BY <2>1, <2>3, NoPatchIsTyped
       DEF ApplyPatch, IndInv, TypeOK, sessionVars, loopVars, PCs
  <2>5. IndexInv'
    BY <2>1 DEF ApplyPatch, IndInv, IndexInv, sessionVars
  <2>6. ASSUME ~edited, NEW p \in Paths, start.mine[p] # Absent
        PROVE  p \notin Touches
    BY <2>1, <2>6 DEF Applies, IndInv, MineInv
  <2>7. MineInv'
    BY <2>1, <2>6 DEF ApplyPatch, IndInv, MineInv, sessionVars
  <2>. QED  BY <2>4, <2>5, <2>7 DEF IndInv
<1>. QED  BY <1>1, <1>2

\* What a patch has created was untracked when the run began, and is not the
\* user's.
LEMMA TrackCreatedStep ==
    ASSUME IndInv, TrackCreated
    PROVE  IndInv'
<1>1. /\ pc = "track" /\ pc' = "discover"
      /\ UNCHANGED <<flake, work, strict, start, unrepaired, limit, result, edited>>
      /\ patch' = NoPatch /\ before' = {} /\ checks' = {} /\ at' = 1 /\ pass' = pass + 1
  BY DEF TrackCreated, NextPass, Goto
<1>2. CASE UNCHANGED <<index, intentAdded>>
  <2>1. TypeOK'
    BY <1>1, <1>2, NoPatchIsTyped DEF IndInv, TypeOK, PCs
  <2>. QED  BY <1>1, <1>2, <2>1, QuietStep DEF treeVars
<1>3. CASE /\ index' = [p \in Paths |-> IF p \in Created THEN "intent" ELSE index[p]]
           /\ intentAdded' = intentAdded \cup Created
  <2>1. Created \subseteq Paths /\ \A p \in Created : index[p] = "untracked" /\ p \notin before
    BY DEF Created, Untracked
  <2>2. index' \in [Paths -> {"untracked", "tracked", "intent"}]
    BY <1>3 DEF IndInv, TypeOK
  <2>3. TypeOK'
    BY <1>1, <1>3, <2>1, <2>2, NoPatchIsTyped DEF IndInv, TypeOK, PCs
  <2>4. \A p \in Created : start.index[p] = "untracked"
    BY <1>1, <2>1 DEF IndInv, IndexInv
  <2>5. IndexInv'
    BY <1>1, <1>3, <2>4 DEF IndInv, IndexInv
  <2>6. MineInv'
    BY <1>1, <1>3, <2>1 DEF IndInv, MineInv
  <2>. QED  BY <2>3, <2>5, <2>6 DEF IndInv
<1>. QED  BY <1>2, <1>3 DEF TrackCreated

LEMMA RestoreIndexStep ==
    ASSUME IndInv, RestoreIndex
    PROVE  IndInv'
<1>1. /\ pc = "restore"
      /\ UNCHANGED <<flake, work, strict, start, sessionVars, loopVars, result, patch, before,
                     edited>>
  BY DEF RestoreIndex
<1>2. CASE pc' = "unrestored" /\ UNCHANGED index
  <2>1. TypeOK'
    BY <1>1, <1>2 DEF IndInv, TypeOK, sessionVars, loopVars, PCs
  <2>2. IndexInv' /\ MineInv'
    BY <1>1, <1>2 DEF IndInv, IndexInv, MineInv, sessionVars
  <2>. QED  BY <2>1, <2>2 DEF IndInv
<1>3. CASE /\ pc' = "done"
           /\ index' = [p \in Paths |-> IF p \in intentAdded THEN "untracked" ELSE index[p]]
  <2>1. TypeOK'
    BY <1>1, <1>3 DEF IndInv, TypeOK, sessionVars, loopVars, PCs
  <2>2. IndexInv' /\ MineInv'
    BY <1>1, <1>3 DEF IndInv, IndexInv, MineInv, sessionVars
  <2>. QED  BY <2>1, <2>2 DEF IndInv
<1>. QED  BY <1>2, <1>3 DEF RestoreIndex

LEMMA UserEditsStep ==
    ASSUME IndInv, NEW p \in Paths, UserEdits(p)
    PROVE  IndInv'
<1>1. TypeOK'
  BY DEF UserEdits, IndInv, TypeOK, AllTrees, sessionVars, loopVars
<1>2. IndexInv'
  BY DEF UserEdits, IndInv, IndexInv, sessionVars
<1>3. MineInv'
  BY DEF UserEdits, MineInv
<1>. QED  BY <1>1, <1>2, <1>3 DEF IndInv

LEMMA NextIndInv ==
    ASSUME IndInv, [Next]_vars
    PROVE  IndInv'
<1>1. CASE Session
  BY <1>1, DiscoverStep, PassStep, CheckPatchStep, SnapshotStep, ApplyPatchStep,
     TrackCreatedStep, RestoreIndexStep DEF Session, Apply
<1>2. ASSUME NEW p \in Paths, UserEdits(p)
      PROVE  IndInv'
  BY <1>2, UserEditsStep
<1>3. CASE UNCHANGED vars
  BY <1>3 DEF vars, treeVars, sessionVars, loopVars, IndInv, TypeOK, IndexInv, MineInv
<1>. QED  BY <1>1, <1>2, <1>3 DEF Next

\* The inductive invariant holds in every reachable state.
THEOREM Invariance == Spec => []IndInv
<1>1. Init => IndInv
  BY InitIndInv
<1>2. IndInv /\ [Next]_vars => IndInv'
  BY NextIndInv
<1>. QED  BY <1>1, <1>2, PTL DEF Spec

-------------------------------------------------------------------------------
\* Every reachable state of a session is well typed.
THEOREM TypeCorrect == Spec => []TypeOK
<1>1. IndInv => TypeOK
  BY DEF IndInv
<1>. QED  BY <1>1, Invariance, PTL

\* However the convergence loop ends, the user's index is as it was found
\* (restoreIndex), unless git fails to remove the run's entries.
THEOREM IndexIsGivenBack == Spec => []IndexAsFound
<1>1. ASSUME IndInv
      PROVE  IndexAsFound
  <2>1. SUFFICES ASSUME pc = "done"
                 PROVE  index = start.index
    BY DEF IndexAsFound
  <2>2. \A p \in Paths : index[p] = start.index[p]
    BY <1>1, <2>1 DEF IndInv, IndexInv
  <2>3. index \in [Paths -> {"untracked", "tracked", "intent"}]
    BY <1>1 DEF IndInv, TypeOK
  <2>4. start.index \in [Paths -> {"untracked", "tracked"}]
    BY <1>1 DEF IndInv, TypeOK
  <2>. QED  BY <2>2, <2>3, <2>4
<1>. QED  BY <1>1, Invariance, PTL

\* No patch overwrites, and nix never sees, a file that the user has but does not
\* track (applyPatch, trackCreated).
THEOREM UntrackedFilesAreKept == Spec => []UntrackedIsTheUsers
<1>1. IndInv => UntrackedIsTheUsers
  BY DEF IndInv, MineInv, UntrackedIsTheUsers
<1>. QED  BY <1>1, Invariance, PTL

-------------------------------------------------------------------------------
(* Convergence *)

\* Check c has nothing to repair in what nix sees or in the working tree.
CurrentFor(c) ==
    \A p \in Outputs[c] : Generate(flake, c, Seen)[p] \in {Seen[p], work[p]}

\* The checks that the pass has dealt with, and not given up on, are current; while
\* a patch is checked that is so of all but the check it comes from.
CurrentInv ==
    ~edited =>
        /\ pc = "discover" => at = 1
        /\ pc = "build" => \A c \in checks \ unrepaired : c < at => CurrentFor(c)
        /\ pc = "check" => \E c \in Checks :
              /\ at = c + 1 /\ patch = <<Seen, Repaired(c)>>
              /\ \A d \in checks \ unrepaired : d < c => CurrentFor(d)
        /\ pc = "restore" /\ result = "converged" =>
              /\ strict => unrepaired = {}
              /\ \A c \in checks \ unrepaired : CurrentFor(c)

LEMMA CurrentFrame ==
    ASSUME UNCHANGED <<flake, work, index>>
    PROVE  \A c \in Checks : /\ CurrentFor(c)' = CurrentFor(c)
                             /\ Seen' = Seen /\ Repaired(c)' = Repaired(c)
  BY DEF CurrentFor, Seen, Repaired

\* Whoever has no patch of the pass in hand, and has not just converged.
LEMMA ElsewhereIsCurrent ==
    ASSUME \/ pc' \in {"snapshot", "apply", "track", "done", "unrestored"}
           \/ pc' = "discover" /\ at' = 1
           \/ (pc' = "restore" /\ result' # "converged")
    PROVE  CurrentInv'
  BY DEF CurrentInv

LEMMA PassStaysCurrent ==
    ASSUME TypeOK, CurrentInv, Pass
    PROVE  CurrentInv'
<1>1. UNCHANGED <<flake, work, index, strict, checks, edited>> /\ pc = "build"
  BY DEF Pass, GiveUp, Current, BuildPatch, Converged, Turn, treeVars, sessionVars, loopVars
<1>2. at \in Nat /\ checks \subseteq Checks /\ \A c \in Checks : c \in Nat
  BY DEF TypeOK, Checks
<1>. SUFFICES ASSUME ~edited
              PROVE  CurrentInv'
  BY <1>1 DEF CurrentInv
<1>3. \A c \in checks \ unrepaired : c < at => CurrentFor(c)
  BY <1>1 DEF CurrentInv
<1>4. ASSUME NEW c \in Checks, Turn(c), NEW d \in checks \ unrepaired, d < c
      PROVE  CurrentFor(d)
  BY <1>2, <1>3, <1>4 DEF Turn, Due
<1>5. ASSUME NEW c \in Checks, GiveUp(c)
      PROVE  CurrentInv'
  <2>1. pc' = "build" /\ at' = c + 1 /\ unrepaired' = unrepaired \cup {c}
    BY <1>1, <1>5 DEF GiveUp
  <2>2. ASSUME NEW d \in checks \ unrepaired', d < at'
        PROVE  CurrentFor(d)
    BY <1>2, <1>4, <1>5, <2>1, <2>2 DEF GiveUp
  <2>. QED  BY <1>1, <1>2, <2>1, <2>2, CurrentFrame DEF CurrentInv
<1>6. ASSUME NEW c \in Checks, Current(c)
      PROVE  CurrentInv'
  <2>1. pc' = "build" /\ at' = c + 1 /\ unrepaired' = unrepaired
    BY <1>1, <1>6 DEF Current, sessionVars
  <2>2. CurrentFor(c)
    <3>. SUFFICES ASSUME NEW p \in Outputs[c]
                  PROVE  Generate(flake, c, Seen)[p] = Seen[p]
      BY DEF CurrentFor
    <3>1. p \in Paths /\ Repaired(c)[p] = Seen[p]
      BY <1>6 DEF Current
    <3>. QED  BY <3>1 DEF Repaired
  <2>3. ASSUME NEW d \in checks \ unrepaired, d < c + 1
        PROVE  CurrentFor(d)
    BY <1>2, <1>4, <1>6, <2>2, <2>3 DEF Current
  <2>. QED  BY <1>1, <1>2, <2>1, <2>3, CurrentFrame DEF CurrentInv
<1>7. ASSUME NEW c \in Checks, BuildPatch(c)
      PROVE  CurrentInv'
  <2>1. pc' = "check" /\ at' = c + 1 /\ unrepaired' = unrepaired
        /\ patch' = <<Seen, Repaired(c)>>
    BY <1>7 DEF BuildPatch, Goto, sessionVars
  <2>2. \A d \in checks \ unrepaired : d < c => CurrentFor(d)
    BY <1>4, <1>7 DEF BuildPatch
  <2>3. \A d \in checks \ unrepaired : CurrentFor(d)' = CurrentFor(d)
    BY <1>1, <1>2, CurrentFrame
  <2>4. Seen' = Seen /\ Repaired(c)' = Repaired(c)
    BY <1>1, CurrentFrame
  <2>. QED  BY <1>1, <2>1, <2>2, <2>3, <2>4 DEF CurrentInv
<1>8. CASE Converged
  <2>1. /\ pc' = "restore" /\ unrepaired' = unrepaired /\ Due = {}
        /\ result' = "converged" => (strict => unrepaired = {})
    BY <1>8 DEF Converged, Finish, sessionVars
  <2>2. \A c \in checks \ unrepaired : CurrentFor(c)
    BY <1>2, <1>3, <2>1 DEF Due
  <2>3. \A c \in checks \ unrepaired : CurrentFor(c)' = CurrentFor(c)
    BY <1>1, <1>2, CurrentFrame
  <2>. QED  BY <1>1, <2>1, <2>2, <2>3 DEF CurrentInv
<1>. QED  BY <1>5, <1>6, <1>7, <1>8 DEF Pass

\* A patch that applies in reverse is in the working tree already.
LEMMA CheckStaysCurrent ==
    ASSUME TypeOK, CurrentInv, CheckPatch
    PROVE  CurrentInv'
<1>1. UNCHANGED <<flake, work, index, strict, checks, at, unrepaired, edited>> /\ pc = "check"
  BY DEF CheckPatch, treeVars, sessionVars, loopVars
<1>2. CASE pc' = "build" /\ ~edited
  <2>1. Applies(patch[2])
    BY <1>2 DEF CheckPatch, Goto, Finish
  <2>2. PICK c \in Checks :
          /\ at = c + 1 /\ patch = <<Seen, Repaired(c)>>
          /\ \A d \in checks \ unrepaired : d < c => CurrentFor(d)
    BY <1>1, <1>2 DEF CurrentInv
  <2>3. CurrentFor(c)
    <3>. SUFFICES ASSUME NEW p \in Outputs[c]
                  PROVE  Generate(flake, c, Seen)[p] \in {Seen[p], work[p]}
      BY DEF CurrentFor
    <3>1. p \in Paths /\ Repaired(c)[p] = Generate(flake, c, Seen)[p]
      BY DEF Repaired
    <3>2. CASE p \in Touches
      BY <2>1, <2>2, <3>1, <3>2 DEF Applies
    <3>3. CASE p \notin Touches
      BY <2>2, <3>1, <3>3 DEF Touches
    <3>. QED  BY <3>2, <3>3
  <2>4. checks \subseteq Checks /\ \A d \in Checks : d \in Nat
    BY DEF TypeOK, Checks
  <2>5. \A d \in checks \ unrepaired : d < at => CurrentFor(d)
    BY <2>2, <2>3, <2>4
  <2>. QED  BY <1>1, <1>2, <2>4, <2>5, CurrentFrame DEF CurrentInv
<1>3. CASE edited
  BY <1>1, <1>3 DEF CurrentInv
<1>4. pc' \in {"build", "snapshot"} \/ (pc' = "restore" /\ result' = "refused")
  BY DEF CheckPatch, Goto, Finish
<1>. QED  BY <1>2, <1>3, <1>4, ElsewhereIsCurrent

LEMMA NextCurrent ==
    ASSUME TypeOK, CurrentInv, [Next]_vars
    PROVE  CurrentInv'
<1>1. CASE Discover
  <2>1. \/ pc' = "build"
        \/ pc' = "restore" /\ result' # "converged"
    BY <1>1 DEF Discover, Finish, Goto
  <2>2. ~edited' => at' = 1 /\ \A c \in checks' : c \in Nat /\ c >= 1
    BY <1>1 DEF Discover, CurrentInv, Checks
  <2>3. pc' = "build" => CurrentInv'
    BY <2>2 DEF CurrentInv
  <2>. QED  BY <2>1, <2>3, ElsewhereIsCurrent
<1>2. CASE DiscoveryFails \/ Snapshot \/ ApplyPatch \/ TrackCreated \/ RestoreIndex
  BY <1>2, ElsewhereIsCurrent
     DEF DiscoveryFails, Snapshot, ApplyPatch, TrackCreated, NextPass, RestoreIndex, Goto, Finish
<1>3. CASE Pass \/ CheckPatch
  BY <1>3, PassStaysCurrent, CheckStaysCurrent
<1>4. ASSUME NEW p \in Paths, UserEdits(p)
      PROVE  CurrentInv'
  BY <1>4 DEF UserEdits, CurrentInv
<1>5. CASE UNCHANGED vars
  <2>1. checks \subseteq Checks
    BY DEF TypeOK
  <2>. QED  BY <1>5, <2>1, CurrentFrame DEF vars, treeVars, sessionVars, loopVars, CurrentInv
<1>. QED  BY <1>1, <1>2, <1>3, <1>4, <1>5 DEF Next, Session, Apply

\* A run that converges has nothing left to repair: whatever the generators read
\* of each other, every check found and not given up on is current in what nix
\* sees or in the working tree (converge, applyPatch's reverse check).
THEOREM ConvergenceIsReal == Spec => []ConvergedIsCurrent
<1>1. Init => CurrentInv
  BY DEF Init, CurrentInv
<1>2. IndInv /\ CurrentInv /\ [Next]_vars => CurrentInv'
  BY NextCurrent DEF IndInv
<1>3. CurrentInv => ConvergedIsCurrent
  BY DEF CurrentInv, CurrentFor, ConvergedIsCurrent
<1>. QED  BY <1>1, <1>2, <1>3, Invariance, PTL DEF Spec
-------------------------------------------------------------------------------
(* Progress *)

\* A patch in hand is a check's repair of what nix sees, and a run that goes on has
\* no result.
PatchInv ==
    /\ ~edited /\ pc \in {"check", "snapshot", "apply"} =>
          \E c \in Checks : patch = <<Seen, Repaired(c)>> /\ Repaired(c) # Seen
    /\ pc \notin {"restore", "done", "unrestored"} => result = "none"

LEMMA MadeIsATree ==
    ASSUME NEW k \in Flakes, NEW c \in Checks, NEW t \in AllTrees
    PROVE  Made(k, c, t) \in AllTrees
<1>1. Generate(k, c, t) \in [Outputs[c] -> Values \cup {Absent}]
  BY GenerateAssumption
<1>. QED  BY <1>1 DEF Made, AllTrees

\* A repair makes its check current, and stale only checks that are ranked below it.
LEMMA RepairIsProgress ==
    ASSUME NEW k \in Flakes, NEW r \in Rankings[k], NEW t \in AllTrees,
           NEW c \in Checks, Made(k, c, t) # t
    PROVE  Fewer(r, Stale(k, t), Stale(k, Made(k, c, t)))
<1>. DEFINE u == Made(k, c, t)
<1>1. r \in [Checks -> 1 .. NumChecks] /\ Ranks(k, r)
  BY DEF Rankings
<1>2. c \in Stale(k, t) \ Stale(k, u)
  BY <1>1 DEF Ranks, Stale
<1>3. ASSUME NEW d \in Stale(k, u) \ Stale(k, t)
      PROVE  r[d] < r[c]
  <2>1. d \in Checks /\ Made(k, d, u) # u /\ Made(k, d, t) = t
    BY <1>3 DEF Stale
  <2>2. ~(r[c] < r[d])
    BY <1>1, <2>1 DEF Ranks
  <2>3. r[c] # r[d]
    BY <1>1, <1>2, <1>3, <2>1 DEF Ranks
  <2>4. r[c] \in Nat /\ r[d] \in Nat
    BY <1>1, <2>1
  <2>. QED  BY <2>2, <2>3, <2>4
<1>. QED  BY <1>2, <1>3 DEF Fewer

LEMMA SightIsSeen ==
    ASSUME ~HiddenIn(Paths)
    PROVE  Sight = Seen
  BY DEF HiddenIn, Sight, Seen

\* Where the trees stand still, so does what these invariants say of them.
LEMMA SameSight ==
    ASSUME UNCHANGED <<flake, work, index, start>>
    PROVE  /\ Sight' = Sight /\ Seen' = Seen /\ Untracked' = Untracked
           /\ \A c \in Checks : Repaired(c)' = Repaired(c)
  BY DEF Sight, Seen, Untracked, Repaired

LEMMA NextPatch ==
    ASSUME TypeOK, PatchInv, [Next]_vars
    PROVE  PatchInv'
<1>1. CASE Discover \/ DiscoveryFails \/ TrackCreated \/ RestoreIndex
  BY <1>1 DEF Discover, DiscoveryFails, TrackCreated, NextPass, RestoreIndex, Goto, Finish, PatchInv
<1>2. CASE Pass
  <2>1. UNCHANGED <<flake, work, index, start, edited>> /\ pc = "build"
    BY <1>2 DEF Pass, GiveUp, Current, BuildPatch, Converged, Turn, treeVars
  <2>2. ASSUME NEW c \in Checks, BuildPatch(c)
        PROVE  PatchInv'
    <3>1. patch' = <<Seen, Repaired(c)>> /\ Repaired(c) # Seen /\ pc' = "check" /\ result' = result
      BY <2>2 DEF BuildPatch, Goto
    <3>. QED  BY <2>1, <3>1, SameSight DEF PatchInv
  <2>3. ASSUME NEW c \in Checks, GiveUp(c) \/ Current(c)
        PROVE  PatchInv'
    BY <2>1, <2>3 DEF GiveUp, Current, PatchInv
  <2>4. CASE Converged
    BY <2>4 DEF Converged, Finish, PatchInv
  <2>. QED  BY <1>2, <2>2, <2>3, <2>4 DEF Pass
<1>3. CASE CheckPatch \/ Snapshot
  <2>1. UNCHANGED <<flake, work, index, start, edited>> /\ pc \in {"check", "snapshot"}
    BY <1>3 DEF CheckPatch, Snapshot, treeVars
  <2>2. \/ pc' = "build" /\ result' = result
        \/ pc' = "restore"
        \/ pc' \in {"snapshot", "apply"} /\ UNCHANGED <<patch, result>>
    BY <1>3 DEF CheckPatch, Snapshot, Goto, Finish
  <2>. QED  BY <2>1, <2>2, SameSight DEF PatchInv
<1>4. CASE ApplyPatch
  BY <1>4 DEF ApplyPatch, Goto, Finish, PatchInv
<1>5. ASSUME NEW p \in Paths, UserEdits(p)
      PROVE  PatchInv'
  BY <1>5 DEF UserEdits, PatchInv
<1>6. CASE UNCHANGED vars
  BY <1>6, SameSight DEF vars, treeVars, PatchInv
<1>. QED  BY <1>1, <1>2, <1>3, <1>4, <1>5, <1>6 DEF Next, Session, Apply

\* A patch is applied to files as they were seen: none of the user's untracked files,
\* and none that is hidden, is written.
LEMMA AppliedPatch ==
    ASSUME IndInv, PatchInv, ~edited, pc = "apply", Applies(patch[1])
    PROVE  /\ \A p \in Touches : work[p] = Seen[p] /\ start.mine[p] = Absent
           /\ \A p \in Touches : index[p] = "untracked" => work[p] = Absent
<1>1. PICK c \in Checks : patch = <<Seen, Repaired(c)>>
  BY DEF PatchInv
<1>2. \A p \in Touches : p \in Paths /\ work[p] = Seen[p]
  BY <1>1 DEF Applies, Touches
<1>3. \A p \in Touches : start.mine[p] = Absent
  BY <1>1, <1>2 DEF IndInv, MineInv
<1>. QED  BY <1>2, <1>3 DEF Seen, Touches

\* The tree that nix will see is what the check makes of the one it sees.
LEMMA AppliedIsMade ==
    ASSUME IndInv, PatchInv, ApplyPatch, ~edited, pc' = "track", ~HiddenIn(Paths)
    PROVE  \E c \in Checks : /\ Sight \in AllTrees /\ Made(flake, c, Sight) # Sight
                            /\ Sight' = Made(flake, c, Sight)
<1>1. /\ pc = "apply" /\ UNCHANGED <<flake, index, start, edited>>
      /\ Applies(patch[1])
      /\ work' = [p \in Paths |-> IF p \in Touches THEN patch[2][p] ELSE work[p]]
  BY DEF ApplyPatch, Finish
<1>2. \A p \in Touches : p \in Paths /\ work[p] = Seen[p] /\ start.mine[p] = Absent
  BY <1>1, AppliedPatch DEF Touches
<1>3. PICK c \in Checks : patch = <<Seen, Repaired(c)>> /\ Repaired(c) # Seen
  BY <1>1 DEF PatchInv
<1>4. Sight = Seen /\ Seen \in AllTrees /\ Repaired(c) = Made(flake, c, Seen)
  BY SightIsSeen, SeenIsATree DEF IndInv, Repaired, Made
<1>5. Sight' = Repaired(c)
  <2>1. ASSUME NEW p \in Paths
        PROVE  Sight'[p] = Repaired(c)[p]
    <3>1. CASE p \in Touches
      BY <1>1, <1>2, <1>3, <3>1 DEF Sight
    <3>2. CASE p \notin Touches
      <4>1. Sight'[p] = Sight[p]
        BY <1>1, <3>2 DEF Sight
      <4>2. Seen[p] = Repaired(c)[p]
        BY <1>3, <3>2 DEF Touches
      <4>. QED  BY <1>4, <4>1, <4>2
    <3>. QED  BY <3>1, <3>2
  <2>2. Sight' = [p \in Paths |-> Sight'[p]] /\ Repaired(c) = [p \in Paths |-> Repaired(c)[p]]
    BY DEF Sight, Repaired
  <2>. QED  BY <2>1, <2>2
<1>. QED  BY <1>3, <1>4, <1>5

\* Only the application of a patch leads from "apply" to "track".
LEMMA TrackFollowsApply ==
    ASSUME [Next]_vars, pc = "apply", pc' = "track"
    PROVE  ApplyPatch
  BY DEF Next, Session, Apply, Discover, DiscoveryFails, Pass, GiveUp, Current, BuildPatch,
         Converged, Turn, CheckPatch, Snapshot, TrackCreated, NextPass, RestoreIndex, UserEdits,
         Exited, Goto, Finish, vars

LEMMA PatchInvariance == Spec => []PatchInv
<1>1. Init => PatchInv
  BY DEF Init, PatchInv
<1>. QED  BY <1>1, NextPatch, Invariance, PTL DEF Spec, IndInv

\* Any number of generators, whatever they read of each other and in whatever order of
\* their names, as long as some ranking makes them a chain: every patch that is applied
\* is progress in every such ranking, even if nix and git fail and checks drop out of
\* discoveries, unless git has failed to add a file that an earlier patch created.
THEOREM EveryPatchIsProgress == Spec => ChainsProgress
<1>1. ASSUME IndInv, PatchInv, [Next]_vars, pc = "apply", pc' = "track", ~edited,
             ~HiddenIn(Paths), NEW r \in Rankings[flake]
      PROVE  Fewer(r, Stale(flake, Sight), Stale(flake, Sight'))
  <2>1. PICK c \in Checks : /\ Sight \in AllTrees /\ Made(flake, c, Sight) # Sight
                           /\ Sight' = Made(flake, c, Sight)
    BY <1>1, TrackFollowsApply, AppliedIsMade
  <2>2. flake \in Flakes
    BY <1>1 DEF IndInv, TypeOK
  <2>. QED  BY <2>1, <2>2, RepairIsProgress
<1>2. IndInv /\ PatchInv /\ [Next]_vars =>
        [pc = "apply" /\ pc' = "track" /\ ~edited /\ ~HiddenIn(Paths) =>
           \A r \in Rankings[flake] : Fewer(r, Stale(flake, Sight), Stale(flake, Sight'))]_vars
  BY <1>1
<1>. QED  BY <1>2, Invariance, PatchInvariance, PTL DEF Spec, ChainsProgress
===============================================================================
