------------------------------- MODULE CacheRuns -------------------------------
(***************************************************************************)
(* What a run in repair mode and a run of `conformist check` share: one    *)
(* invocation over a scope, with or without the cache.  It works on the    *)
(* files that its walk has listed, as they were when it listed them.       *)
(***************************************************************************)
EXTENDS EvalCache

CONSTANT Faults     \* what may go wrong

RunFaults == {"tool", "db", "cancel", "crash"}

ASSUME FaultsAssumption == Faults \subseteq RunFaults

VARIABLES
    lane,       \* "repair" or "check"
    pc,         \* where the process is; "idle" when there is none
    exit,       \* how the last run ended
    config,     \* the config of the run
    cached,     \* the run has the cache open
    scope,      \* the files below the paths it was given
    stamps,     \* file.Info: the stamp of each file that was listed
    fate,       \* what has become of each file
    touched,    \* history: files the user has edited since the run began
    cut         \* history: the walk was interrupted

runVars == <<lane, config, cached, scope>>
fileVars == <<stamps, fate>>

PCs == {"idle", "repair", "walk", "finalize", "whole"}
Exits == {"none", "done", "clean", "findings", "failed", "mismatch", "killed"}
Fates == {"out", "repaired", "todo", "skipped", "accepted", "formatted", "recorded",
          "failed", "passed", "found"}

RunTypeOK ==
    /\ lane \in {"repair", "check"} /\ pc \in PCs /\ exit \in Exits
    /\ config \in Configs /\ cached \in BOOLEAN /\ scope \subseteq Files
    /\ stamps \in [Files -> Stamps \cup {NoStamp}]
    /\ fate \in [Files -> Fates]
    /\ touched \subseteq Files /\ cut \in BOOLEAN

Having(what) == {f \in Files : fate[f] \in what}

\* A run begins.
Begin(aLane, c, S, isCached) ==
    /\ pc = "idle"
    /\ lane' = aLane /\ config' = c /\ scope' = S /\ cached' = isCached
    /\ touched' = {} /\ cut' = FALSE

\* The walk is to come by the files of the scope.
Listed(S) == [f \in Files |-> IF f \in S THEN "todo" ELSE "out"]

NoFiles == /\ stamps' = [f \in Files |-> NoStamp]
           /\ fate' = [f \in Files |-> "out"]

\* The process ends.
Finish(how) == pc' = "idle" /\ exit' = how /\ NoFiles

Becomes(f, what) == fate' = [fate EXCEPT ![f] = what]
===============================================================================
