------------------------------ MODULE CacheSession ------------------------------
(***************************************************************************)
(* A tree over a session of runs in repair mode and in check mode, under   *)
(* configs that compete for it, with one evaluation cache.  The user edits *)
(* files between runs and during them; runs fail and are killed.           *)
(***************************************************************************)
EXTENDS CachedRepair, CheckRun

CONSTANTS
    Trees,      \* what the files may hold at first
    Drafts,     \* what the user may write
    Scopes,     \* the sets of files that a run may be given
    MaxRuns,    \* bound on the runs
    MaxEdits    \* bound on the user's edits

ASSUME SessionAssumption ==
    /\ Trees \subseteq [Files -> Contents \cup {Gone}]
    /\ Drafts \subseteq Contents /\ Scopes \subseteq SUBSET Files
    /\ MaxRuns \in Nat /\ MaxEdits \in Nat

VARIABLES runs, edits   \* how many of each there were

counts == <<runs, edits>>
vars == <<treeVars, cacheVars, runVars, pc, exit, fileVars, touched, cut, counts>>

\* Every variable stays in its domain: the entries of the cache are signatures of
\* files that were there (Record, RunWhole).
TypeOK ==
    /\ CacheTypeOK /\ RunTypeOK
    /\ runs \in 0 .. MaxRuns /\ edits \in 0 .. MaxEdits

Init ==
    /\ content \in Trees
    /\ CacheInit
    /\ lane = "repair" /\ pc = "idle" /\ exit = "none"
    /\ config \in Configs /\ cached = FALSE /\ scope = {}
    /\ stamps = [f \in Files |-> NoStamp] /\ fate = [f \in Files |-> "out"]
    /\ touched = {} /\ cut = FALSE
    /\ runs = 0 /\ edits = 0

StartRun ==
    /\ runs < MaxRuns
    /\ \E c \in Configs, S \in Scopes, isCached, clear \in BOOLEAN :
          \/ StartCheck(c, S, isCached, clear)
          \/ \E refuse \in BOOLEAN : StartRepair(c, S, isCached, clear, refuse)
    /\ runs' = runs + 1
    /\ UNCHANGED edits

\* What happens to f now happens behind the cache's back: the formatters are
\* through with it and the job has yet to stat it; or the walk of a check has found
\* that it is not there, and the check has yet to run.
IsUnwatched(f) ==
    /\ pc # "idle"
    /\ fate[f] = "formatted" \/ (lane = "check" /\ fate[f] = "out")

\* The user creates, changes or removes a file.
UserEdits(f) ==
    /\ edits < MaxEdits
    /\ \/ \E new \in Drafts \ {content[f]}, t \in Seconds :
             Write(f, new, t, IsUnwatched(f))
       \/ /\ f \in Present
          /\ content' = [content EXCEPT ![f] = Gone]
          /\ UNCHANGED <<mtime, now, unseen>>
    /\ touched' = touched \cup {f}
    /\ edits' = edits + 1
    /\ UNCHANGED <<cacheVars, runVars, pc, exit, fileVars, cut, runs>>

Crash ==
    /\ "crash" \in Faults
    /\ pc # "idle"
    /\ Finish("killed")
    /\ UNCHANGED <<treeVars, cacheVars, runVars, touched, cut, counts>>

Process == (RepairStep \/ CheckStep) /\ UNCHANGED counts

Next ==
    \/ StartRun
    \/ Process
    \/ \E f \in Files : UserEdits(f)
    \/ Crash
    \/ pc = "idle" /\ UNCHANGED vars

Spec == Init /\ [][Next]_vars

-------------------------------------------------------------------------------
(* Properties *)

\* A cache entry that matches a file speaks the truth about it: the formatters of a
\* config with its key would leave the file alone (submit skips it on that ground).
PathsAreSound ==
    \A f \in Present \ unseen, c \in Configs :
        paths[f] = FileSignature(c, Stamp(f)) => content[f].style \in SameFormatters(c)

\* An entry that matches the files that a whole-tree check watches says that the
\* check passes under a config with its key (Finalize skips it on that ground).
WholeTreeIsSound ==
    \A c \in Configs :
        /\ wholeTree = TreeSignature(c, [f \in Files |-> Stamp(f)], Watched \cap Present)
        /\ Reads \cap unseen = {}
        => \E d \in SameCheck(c) : InOrder(d)

\* A run in repair mode that succeeds leaves every file of its scope in the style
\* of its config, or, when it may take the cache's word for it, of one that the
\* cache takes for it (formatTree, runWithObserver).
DoneIsFormatted ==
    lane = "repair" /\ exit = "done" /\ ~cut =>
        \A f \in (scope \cap Present) \ (touched \cup unseen) :
            content[f].style \in IF cached THEN SameFormatters(config) ELSE {config}

\* A check has said that the tree is clean, and nothing has happened to it since the
\* check began; it was given all that its whole-tree check watches.
SaysClean == lane = "check" /\ exit = "clean" /\ ~cut /\ touched = {}
SawAllWatched == Watched \subseteq scope /\ Watched \cap Present # {} /\ Reads \cap unseen = {}

\* When conformist check says that a tree is clean, it is: every file is in the
\* style of the config, and the whole-tree check passes, be it under another config
\* that the cache takes for this one (runCheck, Check, Finalize).
CleanIsClean ==
    SaysClean =>
        /\ \A f \in scope \cap Present : content[f].style = config
        /\ SawAllWatched =>
              \E d \in IF cached THEN SameCheck(config) ELSE {config} : InOrder(d)
===============================================================================
