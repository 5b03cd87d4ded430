----------------------------- MODULE CodegenRepair -----------------------------
(***************************************************************************)
(* conformist codegen-repair (cmd/codegen/codegen.go): the flake's codegen *)
(* checks each build a patch that brings their generated files up to date; *)
(* a run applies one patch per pass and builds the others again, until no  *)
(* patch is left.  nix sees tracked files only, so the files that a patch  *)
(* creates are added to the index with --intent-to-add, until the run is   *)
(* over.  A run that is killed is a behaviour that stops.                  *)
(***************************************************************************)
EXTENDS Naturals, FiniteSets

CONSTANTS
    Paths,
    Values,             \* contents of a file
    NumChecks,
    Outputs,            \* Outputs[c]: the files that check c generates
    Flakes,             \* the ways in which the generators read each other's output
    Generate(_, _, _),  \* Generate(k, c, t): what check c of flake k makes of tree t
    Found,              \* what a discovery may find: checks may fail to evaluate
    Unbuildable,        \* checks that validate() refuses
    Trees,              \* trees at the start, as <<work, tracked>>
    Faults              \* what may go wrong

Absent == "absent"

\* Checks are numbered in the order of their names.
Checks == 1 .. NumChecks
AllTrees == [Paths -> Values \cup {Absent}]
RepairFaults == {"nix", "git", "edit"}

ASSUME ChecksAssumption ==
    /\ NumChecks \in Nat
    /\ Outputs \in [Checks -> SUBSET Paths]
    /\ Found \subseteq SUBSET Checks
    /\ Unbuildable \subseteq Checks
    /\ Faults \subseteq RepairFaults

ASSUME TreesAssumption == Trees \subseteq AllTrees \X SUBSET Paths

ASSUME GenerateAssumption ==
    \A k \in Flakes, c \in Checks : \A t \in AllTrees :
        Generate(k, c, t) \in [Outputs[c] -> Values \cup {Absent}]

VARIABLES
    flake,          \* which of Flakes
    work,           \* content of each file in the working tree
    index,          \* "untracked", "tracked" or "intent": each file in the index
    strict,         \* --strict
    pc, result,
    pass, limit,    \* of the convergence loop; the limit is 0 until it is known
    checks,         \* the checks discovered in this pass
    at,             \* the pass has dealt with the checks before this one
    patch,          \* the patch built, as the trees it leads <<from, to>>
    before,         \* untracked files before the patch is applied
    intentAdded,    \* session.intentAdded
    unrepaired,     \* session.unrepaired
    start,          \* history: the index, and what was untracked, when the run began
    edited          \* history: the user has edited a file

treeVars == <<flake, work, index, strict, start>>
sessionVars == <<intentAdded, unrepaired>>
loopVars == <<pass, limit, checks, at>>
vars == <<treeVars, sessionVars, loopVars, pc, result, patch, before, edited>>

PCs == {"discover", "build", "check", "snapshot", "apply", "track", "restore",
        "done", "unrestored"}
Results == {"none", "nothing", "soft", "converged", "failed", "refused", "diverged"}

TypeOK ==
    /\ flake \in Flakes /\ strict \in BOOLEAN
    /\ work \in AllTrees
    /\ index \in [Paths -> {"untracked", "tracked", "intent"}]
    /\ start \in [index : [Paths -> {"untracked", "tracked"}], mine : AllTrees]
    /\ pc \in PCs /\ result \in Results
    /\ pass \in Nat /\ limit \in Nat
    /\ checks \subseteq Checks /\ at \in Nat
    /\ patch \in AllTrees \X AllTrees
    /\ before \subseteq Paths
    /\ intentAdded \subseteq Paths
    /\ unrepaired \subseteq Checks
    /\ edited \in BOOLEAN

NoPatch == <<[p \in Paths |-> Absent], [p \in Paths |-> Absent]>>

\* Mutant of Seen: nix reads the directory and not the index.
SeenUntracked == work

\* What nix sees of the tree.
Seen == [p \in Paths |-> IF index[p] = "untracked" THEN Absent ELSE work[p]]

Untracked == {p \in Paths : index[p] = "untracked" /\ work[p] # Absent}

Init ==
    /\ flake \in Flakes /\ strict \in BOOLEAN
    /\ \E t \in Trees :
          /\ work = t[1]
          /\ index = [p \in Paths |-> IF p \in t[2] THEN "tracked" ELSE "untracked"]
    /\ start = [index |-> index,
                mine |-> [p \in Paths |-> IF p \in Untracked THEN work[p] ELSE Absent]]
    /\ pc = "discover" /\ result = "none"
    /\ pass = 1 /\ limit = 0 /\ checks = {} /\ at = 1
    /\ patch = NoPatch /\ before = {}
    /\ intentAdded = {} /\ unrepaired = {}
    /\ edited = FALSE

Goto(where) == pc' = where /\ UNCHANGED result

\* converge returns; the deferred restoreIndex follows.
Finish(how) == pc' = "restore" /\ result' = how
-------------------------------------------------------------------------------
(* converge *)

PassLimit(n) == 2 * n + 2

\* discover; a check whose attributes do not evaluate drops out of the result.
Discover ==
    /\ pc = "discover"
    /\ checks' \in Found
    /\ limit' = IF limit = 0 /\ checks' # {} THEN PassLimit(Cardinality(checks')) ELSE limit
    /\ IF checks' = {} THEN Finish("nothing")
       ELSE IF pass > limit' THEN Finish("diverged")
       ELSE Goto("build")
    /\ UNCHANGED <<treeVars, sessionVars, pass, at, patch, before, edited>>

DiscoveryFails ==
    /\ pc = "discover"
    /\ "nix" \in Faults
    /\ Finish(IF strict THEN "failed" ELSE "soft")
    /\ UNCHANGED <<treeVars, sessionVars, loopVars, patch, before, edited>>

\* The checks this pass has still to deal with, and the one whose turn it is.
Due == {c \in checks \ unrepaired : c >= at}
Turn(c) == pc = "build" /\ c \in Due /\ \A d \in Due : c <= d

\* Mutant of GiveUp: the check is passed over and not recorded.
GiveUpUnrecorded(c) ==
    /\ Turn(c)
    /\ c \in Unbuildable \/ "nix" \in Faults
    /\ at' = c + 1
    /\ UNCHANGED <<treeVars, sessionVars, pass, limit, checks, pc, result, patch, before, edited>>

\* Mutant of GiveUp: the next name is recorded.
GiveUpNext(c) ==
    /\ Turn(c)
    /\ c \in Unbuildable \/ "nix" \in Faults
    /\ unrepaired' = unrepaired \cup {c + 1}
    /\ at' = c + 1
    /\ UNCHANGED <<treeVars, intentAdded, pass, limit, checks, pc, result, patch, before, edited>>

\* giveUp: validate refuses the check, or its patch does not build.
GiveUp(c) ==
    /\ Turn(c)
    /\ c \in Unbuildable \/ "nix" \in Faults
    /\ unrepaired' = unrepaired \cup {c}
    /\ at' = c + 1
    /\ UNCHANGED <<treeVars, intentAdded, pass, limit, checks, pc, result, patch, before, edited>>

\* What check c makes of the tree that nix sees.
Repaired(c) ==
    [p \in Paths |-> IF p \in Outputs[c] THEN Generate(flake, c, Seen)[p] ELSE Seen[p]]

\* repairOne: an empty patch says that the check is current.
Current(c) ==
    /\ Turn(c) /\ c \notin Unbuildable
    /\ Repaired(c) = Seen
    /\ at' = c + 1
    /\ UNCHANGED <<treeVars, sessionVars, pass, limit, checks, pc, result, patch, before, edited>>

BuildPatch(c) ==
    /\ Turn(c) /\ c \notin Unbuildable
    /\ Repaired(c) # Seen
    /\ patch' = <<Seen, Repaired(c)>>
    /\ at' = c + 1
    /\ Goto("check")
    /\ UNCHANGED <<treeVars, sessionVars, pass, limit, checks, before, edited>>

\* Every check is current or given up on.
Converged ==
    /\ pc = "build"
    /\ Due = {}
    /\ Finish(IF unrepaired # {} /\ strict THEN "failed" ELSE "converged")
    /\ UNCHANGED <<treeVars, sessionVars, loopVars, patch, before, edited>>

-------------------------------------------------------------------------------
(* applyPatch *)

Touches == {p \in Paths : patch[1][p] # patch[2][p]}

\* Mutant of Applies: a file that is in the way does not matter.
AppliesRegardless(from) == \A p \in Touches : index[p] # "untracked" => work[p] = from[p]

\* git apply: every file is as the patch expects it; one it creates is absent.
Applies(from) == \A p \in Touches : work[p] = from[p]

\* The forward check; if that fails the reverse one, which tells a patch that is
\* in the tree already; if that fails as well the run ends.
CheckPatch ==
    /\ pc = "check"
    /\ \/ Applies(patch[1]) /\ Goto("snapshot")
       \/ ~Applies(patch[1]) /\ Applies(patch[2]) /\ Goto("build")
       \/ ~Applies(patch[1]) /\ ~Applies(patch[2]) /\ Finish("refused")
       \/ "git" \in Faults /\ Finish("refused")
    /\ patch' = IF pc' = "snapshot" THEN patch ELSE NoPatch
    /\ UNCHANGED <<treeVars, sessionVars, loopVars, before, edited>>

\* git status; without it every file counts as known, and none as created.
Snapshot ==
    /\ pc = "snapshot"
    /\ \/ before' = Untracked
       \/ "git" \in Faults /\ before' = Paths
    /\ Goto("apply")
    /\ UNCHANGED <<treeVars, sessionVars, loopVars, patch, edited>>

ApplyPatch ==
    /\ pc = "apply"
    /\ \/ /\ Applies(patch[1])
          /\ work' = [p \in Paths |-> IF p \in Touches THEN patch[2][p] ELSE work[p]]
          /\ Goto("track")
       \/ /\ ~Applies(patch[1]) \/ "git" \in Faults
          /\ Finish("refused")
          /\ UNCHANGED work
    /\ patch' = NoPatch
    /\ UNCHANGED <<flake, index, strict, start, sessionVars, loopVars, before, edited>>

\* Mutant of NextPass: the pass is not counted.
NextPassUncounted == Goto("discover") /\ UNCHANGED pass

NextPass == Goto("discover") /\ pass' = pass + 1

Created == Untracked \ before

\* trackCreated; git status or git add may fail, and then nothing is added.
TrackCreated ==
    /\ pc = "track"
    /\ \/ /\ index' = [p \in Paths |-> IF p \in Created THEN "intent" ELSE index[p]]
          /\ intentAdded' = intentAdded \cup Created
       \/ "git" \in Faults /\ UNCHANGED <<index, intentAdded>>
    /\ NextPass
    /\ patch' = NoPatch /\ before' = {}
    /\ checks' = {} /\ at' = 1
    /\ UNCHANGED <<flake, work, strict, start, unrepaired, limit, edited>>

-------------------------------------------------------------------------------
\* The process has exited; "unrestored" with a warning that git failed.
Exited == pc \in {"done", "unrestored"}

\* Mutant of RestoreIndex: nothing is taken back when the repair has failed.
RestoreConverged ==
    /\ pc = "restore"
    /\ index' = [p \in Paths |-> IF p \in intentAdded /\ result = "converged" THEN "untracked" ELSE index[p]]
    /\ pc' = "done"
    /\ UNCHANGED <<flake, work, strict, start, sessionVars, loopVars, result, patch, before,
                   edited>>

\* restoreIndex: git update-index --force-remove; a failure is only logged.
RestoreIndex ==
    /\ pc = "restore"
    /\ \/ /\ index' = [p \in Paths |-> IF p \in intentAdded THEN "untracked" ELSE index[p]]
          /\ pc' = "done"
       \/ /\ "git" \in Faults /\ intentAdded # {}
          /\ pc' = "unrestored"
          /\ UNCHANGED index
    /\ UNCHANGED <<flake, work, strict, start, sessionVars, loopVars, result, patch, before,
                   edited>>

\* The user changes, creates or removes a file under a patch, once; an edit at
\* another time only changes what the next check is built from.
UserEdits(p) ==
    /\ "edit" \in Faults
    /\ pc \in {"check", "snapshot", "apply", "track"} /\ ~edited
    /\ \E v \in (Values \cup {Absent}) \ {work[p]} : work' = [work EXCEPT ![p] = v]
    /\ edited' = TRUE
    /\ UNCHANGED <<flake, index, strict, start, sessionVars, loopVars, pc, result, patch, before>>

Pass ==
    \/ \E c \in Checks : GiveUp(c) \/ Current(c) \/ BuildPatch(c)
    \/ Converged

Apply == CheckPatch \/ Snapshot \/ ApplyPatch \/ TrackCreated

Session == Discover \/ DiscoveryFails \/ Pass \/ Apply \/ RestoreIndex

Next == Session \/ (\E p \in Paths : UserEdits(p)) \/ (Exited /\ UNCHANGED vars)

Spec == Init /\ [][Next]_vars

\* A sequential program that nix and git answer.
FairSpec == Spec /\ WF_vars(Session)

-------------------------------------------------------------------------------
(* Properties *)

\* trackCreated, restoreIndex: "leaving the index exactly as it was found",
\* however the loop ends, unless git fails then.
IndexAsFound == pc = "done" => index = start.index

\* A run that converges leaves every check it has found, and not given up on,
\* with nothing to repair in what nix sees or in the working tree; a strict one
\* has given up on none.
ConvergedIsCurrent ==
    pc = "restore" /\ result = "converged" /\ ~edited =>
        /\ strict => unrepaired = {}
        /\ \A c \in checks \ unrepaired : \A p \in Outputs[c] :
              Generate(flake, c, Seen)[p] \in {Seen[p], work[p]}

\* The files that the user has and does not track are not the run's: it neither
\* writes them nor shows them to nix.
UntrackedIsTheUsers ==
    ~edited => \A p \in Paths : start.mine[p] # Absent =>
                  work[p] = start.mine[p] /\ index[p] = "untracked"

\* The tree after check c of flake k has been repaired in t.
Made(k, c, t) == [p \in Paths |-> IF p \in Outputs[c] THEN Generate(k, c, t)[p] ELSE t[p]]

\* A ranking of the checks of flake k, the ones that are read above their readers:
\* a check's own repair makes it current, and leaves those above it current.
Ranks(k, r) ==
    /\ \A c, d \in Checks : r[c] = r[d] => c = d
    /\ \A c \in Checks : \A t \in AllTrees :
          LET u == Made(k, c, t)
          IN  /\ Made(k, c, u) = u
              /\ \A d \in Checks : r[c] < r[d] /\ Made(k, d, t) = t => Made(k, d, u) = u

\* What passLimit means by a chain: the checks can be ranked.  In a cycle they
\* cannot: whichever of two generators is put below undoes the one above.
Rankings == [k \in Flakes |-> {r \in [Checks -> 1 .. NumChecks] : Ranks(k, r)}]
Chains == {k \in Flakes : Rankings[k] # {}}

Stale(k, t) == {c \in Checks : Made(k, c, t) # t}

\* From S to T the stale checks become fewer from the top: of the checks in which
\* they differ, the highest is in S.
Fewer(r, S, T) == \E c \in S \ T : \A d \in T \ S : r[d] < r[c]

\* A file of S that a patch has created and nix does not see, because git failed.
HiddenIn(S) ==
    \E p \in S : index[p] = "untracked" /\ work[p] # Absent /\ start.mine[p] = Absent

\* What nix sees, or will once what the run has created is tracked.
Sight ==
    [p \in Paths |-> IF index[p] = "untracked" /\ start.mine[p] # Absent THEN Absent ELSE work[p]]

\* converge: in a chain each patch is progress, although it may make other checks
\* stale again: never one above the check that it makes current.  So no two
\* generators of a chain undo each other, and the passes of a chain come to an end,
\* given enough of them.
ChainsProgress ==
    [][pc = "apply" /\ pc' = "track" /\ ~edited /\ ~HiddenIn(Paths) =>
          \A r \in Rankings[flake] : Fewer(r, Stale(flake, Sight), Stale(flake, Sight'))]_vars

\* Two generators that overwrite each other's output "would loop forever and
\* must instead fail where someone can see it": every run ends.
Terminates == <>Exited

\* --- What a comment says, checked in a run of its own ---

\* passLimit: "Anything past that is not a chain but a cycle".
OnlyCyclesDiverge == result = "diverged" => flake \notin Chains
===============================================================================
