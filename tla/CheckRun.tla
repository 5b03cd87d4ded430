-------------------------------- MODULE CheckRun --------------------------------
(***************************************************************************)
(* conformist check (cmd/check.go, format/check.go, format/sandbox.go):    *)
(* every file of the walk is formatted in a sandbox and compared; then the *)
(* whole-tree check runs, unless the cache says that nothing it matches    *)
(* has changed.  A per-file linter has the shape of a formatter here:      *)
(* neither is ever cached.                                                 *)
(***************************************************************************)
EXTENDS CacheRuns

CONSTANTS
    Watched,    \* the files that the whole-tree check's includes match
    Reads,      \* the files that it reads
    Passes(_,_) \* Passes(c, t): its verdict, as config c has it, on what they say

ASSUME WatchAssumption ==
    /\ Reads \subseteq Watched /\ Watched \subseteq Files
    /\ \A c \in Configs : \A t \in [Reads -> Texts \cup {"gone"}] : Passes(c, t) \in BOOLEAN

\* runCheck; without a cache that it can open it goes on without.
StartCheck(c, S, isCached, clear) ==
    /\ Begin("check", c, S, isCached)
    /\ OpenCache(clear)
    /\ pc' = "walk" /\ exit' = "none"
    /\ fate' = Listed(S) /\ UNCHANGED stamps
    /\ UNCHANGED treeVars

\* The walk stats f, the checker compares it with what the formatters make of a
\* copy.  A file that is not there, or no longer, is not listed.
Examine(f) ==
    /\ lane = "check" /\ pc = "walk"
    /\ fate[f] = "todo"
    /\ IF f \in Present
       THEN /\ stamps' = [stamps EXCEPT ![f] = Stamp(f)]
            /\ Becomes(f, IF content[f].style = config THEN "passed" ELSE "found")
       ELSE Becomes(f, "out") /\ UNCHANGED stamps
    /\ UNCHANGED <<treeVars, cacheVars, runVars, pc, exit, touched, cut>>

CheckFails ==
    /\ lane = "check" /\ pc \in {"walk", "whole"}
    /\ "tool" \in Faults
    /\ Finish("failed")
    /\ UNCHANGED <<treeVars, cacheVars, runVars, touched, cut>>

\* The walk is over, or was interrupted, which is no error.
EndWalk ==
    /\ lane = "check" /\ pc = "walk"
    /\ Having({"todo"}) # {} => "cancel" \in Faults
    /\ cut' = (Having({"todo"}) # {})
    /\ pc' = "finalize"
    /\ UNCHANGED <<treeVars, cacheVars, runVars, exit, fileVars, touched>>

\* The files that the whole-tree check has matched in this walk, and its key.
Matched == Having({"passed", "found"}) \cap Watched
Key == TreeSignature(config, stamps, Matched)
IsHit == cached /\ wholeTree = Key

Verdict(found) ==
    Finish(IF found \/ Having({"found"}) # {} THEN "findings" ELSE "clean")

\* Finalize: the check is not triggered, or its entry has this key.
SkipWhole ==
    /\ lane = "check" /\ pc = "finalize"
    /\ Matched = {} \/ IsHit
    /\ Verdict(FALSE)
    /\ UNCHANGED <<treeVars, cacheVars, runVars, touched, cut>>

\* ... or it has to run (also when the cache cannot be read), and cannot when the run was interrupted.
StartWhole ==
    /\ lane = "check" /\ pc = "finalize"
    /\ Matched # {} /\ (IsHit => "db" \in Faults)
    /\ IF cut THEN Finish("failed") ELSE pc' = "whole" /\ UNCHANGED <<exit, fileVars>>
    /\ UNCHANGED <<treeVars, cacheVars, runVars, touched, cut>>

\* The check's own verdict on the tree as it is.
InOrder(c) == Passes(c, [f \in Reads |-> content[f].text])

\* wholeTreeStore: the entry speaks for the files that this run was given alone.
Store ==
    /\ wholeTree' = Key
    /\ unseen' = unseen \cup (Watched \ scope)

\* Mutant of RunWhole: a check with findings is remembered as well.
RunWholeStoreAll ==
    /\ lane = "check" /\ pc = "whole"
    /\ IF cached THEN Store ELSE UNCHANGED <<wholeTree, unseen>>
    /\ Verdict(~InOrder(config))
    /\ UNCHANGED <<diskVars, paths, attested, runVars, touched, cut>>

\* It reads what it reads, whatever the scope; a clean run is remembered under the
\* key of the files as they were listed, unless the cache cannot be written.
RunWhole ==
    /\ lane = "check" /\ pc = "whole"
    /\ \/ cached /\ InOrder(config) /\ Store
       \/ /\ cached /\ InOrder(config) => "db" \in Faults
          /\ UNCHANGED <<wholeTree, unseen>>
    /\ Verdict(~InOrder(config))
    /\ UNCHANGED <<diskVars, paths, attested, runVars, touched, cut>>

CheckStep ==
    \/ \E f \in Files : Examine(f)
    \/ CheckFails \/ EndWalk
    \/ SkipWhole \/ StartWhole \/ RunWhole
===============================================================================
