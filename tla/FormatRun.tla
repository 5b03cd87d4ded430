------------------------------- MODULE FormatRun -------------------------------
(***************************************************************************)
(* One repair-mode run of conformist over a tree (cmd/format/format.go),   *)
(* composed of the lister (Walker), the scheduler and its goroutines       *)
(* (Scheduler), the cache writer (CachedReader) and the main goroutine:    *)
(*                                                                         *)
(*   { read -> repair }* -> repairEnds  (with linters that repair)         *)
(*   { read -> apply }* -> close -> wait -> closeWalker -> closing         *)
(*          -> return -> attest -> done                                    *)
(*                                                                         *)
(* Lister, jobs, cache writer and main run concurrently; ^C, the read      *)
(* timeout and every failure in Faults may strike between any two steps.   *)
(***************************************************************************)
EXTENDS Walker, CachedReader, Scheduler

CONSTANTS
    ReadSize,       \* length of the slice Read fills
    UseCache,       \* FALSE under --no-cache and --ci: db is nil
    FailOnChange,   \* --fail-on-change
    FatalUnmatched, \* on-unmatched = fatal
    Linting,        \* some linter has a repair command
    Faults          \* what may go wrong in the environment

FaultKinds == {"cancel", "timeout", "read", "walk", "repair", "hash", "tool",
               "stat", "flush", "attest"}

ASSUME ReadSizeAssumption == ReadSize \in Nat \ {0}
ASSUME FlagsAssumption ==
    /\ UseCache \in BOOLEAN /\ FailOnChange \in BOOLEAN /\ FatalUnmatched \in BOOLEAN
    /\ Linting \in BOOLEAN
    /\ Faults \subseteq FaultKinds
ASSUME KeysAssumption == Keys \cap {"excluded", "unmatched", "fresh"} = {}

VARIABLES
    route,      \* what match and the cache say of a file
    pass,       \* "repair" or "format": whose walk the reader in use is
    pc,         \* where the main goroutine is
    inbox,      \* files read and not yet looked at by Repair or Apply
    readErr,    \* how the last Read ended
    applyErr,   \* Apply returned an error
    canceled,   \* the context is cancelled (SIGINT, SIGTERM)
    accepted,   \* files submit has accepted
    result,     \* "none" until the run returns, then "ok" or "error"
    attested    \* the identity of this run is recorded in the cache

mainVars == <<pass, pc, inbox, readErr, applyErr, canceled, accepted,
              result, attested>>
vars == <<route, mainVars, walkVars, cacheVars, schedVars>>

\* match and submit: excluded globally (or generated), matched by no formatter,
\* or matched, and then either unchanged since the cache entry of the same
\* formatters ("fresh") or due for the formatters of a batch key.
Routes == Keys \cup {"excluded", "unmatched"} \cup (IF UseCache THEN {"fresh"} ELSE {})

PCs == {"read", "repair", "repairEnds", "repairFails", "apply", "close", "wait",
        "closeWalker", "closing", "return", "attest", "done"}

ReadErrs == {"none", "eof", "canceled", "timeout", "failed"}

TypeOK ==
    /\ WalkTypeOK
    /\ CacheTypeOK
    /\ SchedTypeOK
    /\ route \in [Files -> Routes]
    /\ pass \in {"repair", "format"}
    /\ pc \in PCs
    /\ inbox \in SUBSET Files
    /\ readErr \in ReadErrs
    /\ applyErr \in BOOLEAN
    /\ canceled \in BOOLEAN
    /\ accepted \in SUBSET Files
    /\ result \in {"none", "ok", "error"}
    /\ attested \in BOOLEAN

Init ==
    /\ WalkInit
    /\ CacheInit
    /\ SchedInit
    /\ route \in [Files -> Routes]
    /\ pass = IF Linting THEN "repair" ELSE "format"
    /\ pc = "read"
    /\ inbox = {}
    /\ readErr = "none"
    /\ applyErr = FALSE
    /\ canceled = FALSE
    /\ accepted = {}
    /\ result = "none"
    /\ attested = FALSE

-------------------------------------------------------------------------------
(* The main goroutine reads: files of the repairs' walk, then the formatters' *)

ReadFile(f) ==
    /\ pc = "read"
    /\ Cardinality(inbox) < ReadSize
    /\ Take(f)
    /\ inbox' = inbox \cup {f}
    /\ UNCHANGED <<route, pass, pc, readErr, applyErr, canceled, accepted, result,
                   attested, cacheVars, schedVars>>

\* Read returns: the slice is full, the listing has ended, the context is
\* done, the ten seconds have passed, or a file cannot be looked at.
ReadEnds(err) ==
    /\ \/ err = "none" /\ Cardinality(inbox) = ReadSize
       \/ /\ Cardinality(inbox) < ReadSize
          /\ \/ err = "eof" /\ Drained
             \/ err = "canceled" /\ canceled
             \/ err = "timeout" /\ "timeout" \in Faults
             \/ err = "failed" /\ "read" \in Faults
    /\ readErr' = err

Read ==
    /\ pc = "read"
    /\ \E err \in ReadErrs : ReadEnds(err)
    /\ pc' = IF pass = "repair" THEN "repair" ELSE "apply"
    /\ UNCHANGED <<route, pass, inbox, applyErr, canceled, accepted, result,
                   attested, walkVars, cacheVars, schedVars>>

-------------------------------------------------------------------------------
(* The main goroutine repairs: applyLinterRepairs, a walk of its own *)

\* The repair commands that match a file of the batch run over the tree (what they
\* rewrite is in FixRun: nothing here reads it); one that must succeed may fail, and
\* one that runs under a cancelled context is killed.  The read error, if there is
\* one, is looked at afterwards.
RepairBatch ==
    /\ pc = "repair"
    /\ inbox' = {}
    /\ \/ pc' = CASE readErr = "none" -> "read"
                  [] readErr = "eof" -> "repairEnds"
                  [] OTHER -> "repairFails"
       \/ /\ inbox # {}
          /\ "repair" \in Faults \/ canceled
          /\ pc' = "repairFails"
    /\ UNCHANGED <<route, pass, readErr, applyErr, canceled, accepted, result, attested,
                   walkVars, cacheVars, schedVars>>

\* Close after an error: it waits for the lister, and nobody drains the pipe.
RepairFails ==
    /\ pc = "repairFails"
    /\ walker # "running"
    /\ pc' = "done"
    /\ result' = "error"
    /\ UNCHANGED <<route, pass, inbox, readErr, applyErr, canceled, accepted, attested,
                   walkVars, cacheVars, schedVars>>

\* Close at the end of the listing, which returns the lister's error, then the
\* linters that opt in to restaging, each once over all the files it matches;
\* if all goes well the formatters' reader is created.
EndRepairs ==
    /\ pc = "repairEnds"
    /\ \/ /\ ~ListingErr
          /\ pass' = "format"
          /\ pc' = "read"
          /\ readErr' = "none"
          /\ NewWalk
          /\ UNCHANGED result
       \/ /\ ListingErr \/ "repair" \in Faults \/ canceled
          /\ pc' = "done"
          /\ result' = "error"
          /\ UNCHANGED <<pass, readErr, walkVars>>
    /\ UNCHANGED <<route, inbox, applyErr, canceled, accepted, attested, cacheVars,
                   schedVars>>

-------------------------------------------------------------------------------
(* The main goroutine formats *)

\* Apply looks at the next file.  A file that needs no formatting is released
\* under no-cache, which has no effect on the cache.
SkipFile(f) ==
    /\ pc = "apply"
    /\ f \in inbox
    /\ \/ route[f] \in {"excluded", "fresh"}
       \/ route[f] = "unmatched" /\ ~FatalUnmatched
    /\ inbox' = inbox \ {f}
    /\ UNCHANGED <<route, pass, pc, readErr, applyErr, canceled, accepted, result,
                   attested, walkVars, cacheVars, schedVars>>

SubmitFile(f) ==
    /\ pc = "apply"
    /\ f \in inbox
    /\ route[f] \in Keys
    /\ Submit(f, route[f])
    /\ inbox' = inbox \ {f}
    /\ accepted' = accepted \cup {f}
    /\ UNCHANGED <<route, pass, pc, readErr, applyErr, canceled, result,
                   attested, walkVars, cacheVars>>

\* Apply returns at once and the read loop is left: on-unmatched = fatal, or the
\* executable of a formatter has gone when its signature is first computed (it is
\* kept from then on).
RefuseFile(f) ==
    /\ pc = "apply"
    /\ f \in inbox
    /\ \/ route[f] = "unmatched" /\ FatalUnmatched
       \/ /\ "hash" \in Faults
          /\ route[f] \in Keys
          /\ \A g \in accepted : route[g] # route[f]
    /\ applyErr' = TRUE
    /\ pc' = "close"
    /\ UNCHANGED <<route, pass, inbox, readErr, canceled, accepted, result,
                   attested, walkVars, cacheVars, schedVars>>

EndApply ==
    /\ pc = "apply"
    /\ inbox = {}
    /\ pc' = IF readErr = "none" THEN "read" ELSE "close"
    /\ UNCHANGED <<route, pass, inbox, readErr, applyErr, canceled, accepted, result,
                   attested, walkVars, cacheVars, schedVars>>

\* formatter.Close: schedule what is left, then wait for every job.
CloseBatch(k) ==
    /\ pc = "close"
    /\ ScheduleRest(k)
    /\ UNCHANGED <<route, mainVars, walkVars, cacheVars>>

CloseBatches ==
    /\ pc = "close"
    /\ AllScheduled
    /\ pc' = "wait"
    /\ UNCHANGED <<route, pass, inbox, readErr, applyErr, canceled, accepted, result,
                   attested, walkVars, cacheVars, schedVars>>

\* Mutant of WaitForJobs: Close does not wait for the errgroup.
WaitForNobody ==
    /\ pc = "wait"
    /\ pc' = "closeWalker"
    /\ UNCHANGED <<route, pass, inbox, readErr, applyErr, canceled, accepted, result,
                   attested, walkVars, cacheVars, schedVars>>

WaitForJobs ==
    /\ pc = "wait"
    /\ AllIdle
    /\ pc' = "closeWalker"
    /\ UNCHANGED <<route, pass, inbox, readErr, applyErr, canceled, accepted, result,
                   attested, walkVars, cacheVars, schedVars>>

\* walker.Close: with a cache, close updateCh and wait for process; the
\* delegate is not closed, and an error of its lister is lost.  Without one, wait
\* for the lister.
CloseWalker ==
    /\ pc = "closeWalker"
    /\ IF UseCache THEN CloseUpdates ELSE UNCHANGED cacheVars
    /\ pc' = "closing"
    /\ UNCHANGED <<route, pass, inbox, readErr, applyErr, canceled, accepted, result,
                   attested, walkVars, schedVars>>

\* Mutant of WalkerClosed: Close does not wait for process.
WalkerClosedAtOnce ==
    /\ pc = "closing"
    /\ pc' = "return"
    /\ UNCHANGED <<route, pass, inbox, readErr, applyErr, canceled, accepted, result,
                   attested, walkVars, cacheVars, schedVars>>

WalkerClosed ==
    /\ pc = "closing"
    /\ IF UseCache THEN process # "running" ELSE walker # "running"
    /\ pc' = "return"
    /\ UNCHANGED <<route, pass, inbox, readErr, applyErr, canceled, accepted, result,
                   attested, walkVars, cacheVars, schedVars>>

\* The errors formatTree returns, in any order.  A cancelled read is no error.
WalkerCloseErr == IF UseCache THEN process = "failed" ELSE ListingErr

\* Mutants of RunFailed: the read error, or the formatters' error, is lost.
RunFailedButRead ==
    applyErr \/ egErr \/ formatError \/ WalkerCloseErr \/ (FailOnChange /\ changed # {})
RunFailed ==
    \/ readErr \in {"timeout", "failed"}
    \/ applyErr
    \/ egErr \/ formatError
    \/ WalkerCloseErr
    \/ FailOnChange /\ changed # {}

Return ==
    /\ pc = "return"
    /\ result' = IF RunFailed THEN "error" ELSE "ok"
    /\ pc' = IF UseCache /\ ~RunFailed THEN "attest" ELSE "done"
    /\ UNCHANGED <<route, pass, inbox, readErr, applyErr, canceled, accepted, attested,
                   walkVars, cacheVars, schedVars>>

\* A failure to write the attestation is only logged.
Attest ==
    /\ pc = "attest"
    /\ attested' = TRUE \/ ("attest" \in Faults /\ UNCHANGED attested)
    /\ pc' = "done"
    /\ UNCHANGED <<route, pass, inbox, readErr, applyErr, canceled, accepted, result,
                   walkVars, cacheVars, schedVars>>

Main ==
    \/ \E f \in Files : ReadFile(f) \/ SkipFile(f) \/ SubmitFile(f) \/ RefuseFile(f)
    \/ Read
    \/ RepairBatch
    \/ RepairFails
    \/ EndRepairs
    \/ EndApply
    \/ \E k \in Keys : CloseBatch(k)
    \/ CloseBatches
    \/ WaitForJobs
    \/ CloseWalker
    \/ WalkerClosed
    \/ Return
    \/ Attest

-------------------------------------------------------------------------------
(* The other goroutines and the environment *)

ListFile(f) ==
    /\ List(f)
    /\ UNCHANGED <<route, mainVars, cacheVars, schedVars>>

EndListing ==
    /\ WalkDone
    /\ UNCHANGED <<route, mainVars, cacheVars, schedVars>>

FailListing ==
    /\ "walk" \in Faults
    /\ WalkFail
    /\ UNCHANGED <<route, mainVars, cacheVars, schedVars>>

Lister == (\E f \in Files : ListFile(f)) \/ EndListing \/ FailListing

\* A command started or still running under a cancelled context fails.
RunFormatter(w) ==
    /\ Formatting(w)
    /\ \E bad \in FailureSets(w) :
          /\ bad # {} => canceled \/ "tool" \in Faults
          /\ canceled => bad = job[w].files
          /\ \E partly \in {{}, bad} : ApplyFormatter(w, bad, partly)
    /\ UNCHANGED <<route, mainVars, walkVars, cacheVars>>

\* The release hook sends to updateCh; the job blocks with its file while the
\* channel is full.
ReleaseFile(w, f) ==
    /\ StatAndRelease(w, f)
    /\ IF UseCache /\ ~job[w].failed THEN Send(f) ELSE UNCHANGED cacheVars
    /\ UNCHANGED <<route, mainVars, walkVars>>

FailStat(w) ==
    /\ "stat" \in Faults
    /\ StatFails(w)
    /\ UNCHANGED <<route, mainVars, walkVars, cacheVars>>

Worker(w) ==
    \/ RunFormatter(w)
    \/ \E f \in Files : ReleaseFile(w, f)
    \/ FailStat(w)

ReceiveFile(f) ==
    /\ Receive(f)
    /\ UNCHANGED <<route, mainVars, walkVars, schedVars>>

FlushBatch ==
    /\ \/ Flush
       \/ "flush" \in Faults /\ FlushFail
    /\ UNCHANGED <<route, mainVars, walkVars, schedVars>>

CacheWriter == (\E f \in Files : ReceiveFile(f)) \/ FlushBatch

\* The user interrupts the run.
Cancel ==
    /\ "cancel" \in Faults
    /\ ~canceled
    /\ pc # "done"
    /\ canceled' = TRUE
    /\ UNCHANGED <<route, pass, pc, inbox, readErr, applyErr, accepted, result,
                   attested, walkVars, cacheVars, schedVars>>

\* The process has exited: whatever its goroutines were doing, they are gone.
Exited == pc = "done" /\ UNCHANGED vars

Step ==
    \/ Main
    \/ Lister
    \/ \E w \in Workers : Worker(w)
    \/ CacheWriter
    \/ Cancel

Next == (pc # "done" /\ Step) \/ Exited

\* Every goroutine that can go on eventually does: the runtime schedules them,
\* and every tool the run starts exits.  The user need not interrupt, and a
\* goroutine that is blocked is not freed by a fault.
Fairness ==
    /\ WF_vars(pc # "done" /\ Main)
    /\ WF_vars(pc # "done" /\ (EndListing \/ \E f \in Files : ListFile(f)))
    /\ \A w \in Workers :
          WF_vars(pc # "done" /\ (RunFormatter(w) \/ \E f \in Files : ReleaseFile(w, f)))
    /\ WF_vars(pc # "done" /\ CacheWriter)

Spec == Init /\ [][Next]_vars /\ Fairness

-------------------------------------------------------------------------------
(* Properties *)

\* The stages of the scheduler a file can be in.
Batched(f) == \E k \in Keys : f \in batches[k]
InJob(f) == \E w \in Workers : f \in job[w].files

\* A file is owned by one stage of the pipeline at a time: it is in one batch
\* at most, never in a batch and a job or in two jobs at once (two formatters
\* would rewrite it concurrently), and never comes back once it is released
\* (scheduler.go: a scheduled batch is replaced by an empty one).
OneOwner ==
    \A f \in Files :
        /\ \A k, l \in Keys : f \in batches[k] /\ f \in batches[l] => k = l
        /\ \A v, w \in Workers : f \in job[v].files /\ f \in job[w].files => v = w
        /\ ~(Batched(f) /\ InJob(f))
        /\ f \in released \cup spoiled => ~Batched(f) /\ ~InJob(f)
        /\ ~(f \in released /\ f \in spoiled)

\* A cache entry written by this run belongs to a file over which every
\* formatter of its sequence has run, once, and succeeded: a batch with a
\* failure is processed again by the next run (scheduler.go, SetNoCache).
RecordedWasFormatted ==
    \A f \in recorded \cup pending \cup updateCh :
        route[f] \in Keys /\ applied[f] = Len(Sequence[route[f]])

\* No job is left that could release a file into the closed channel, which
\* would panic (format.go: formatter.Close returns before walker.Close).
NoReleaseAfterClose == ~chOpen => AllScheduled /\ AllIdle

\* A run that reports success has formatted every file it accepted with every
\* formatter, and with a cache has recorded each of them.
SuccessIsSound ==
    result = "ok" =>
        \A f \in accepted :
            /\ applied[f] = Len(Sequence[route[f]])
            /\ UseCache => f \in recorded

\* A run that reports success has looked at every file of the tree, unless it
\* was cancelled, or the listing failed and its reader, or the cache in front of
\* it, keeps that to itself: the gaps that SuccessMeansComplete does not grant.
SuccessIsCompleteButForGaps ==
    result = "ok" =>
        \/ unlisted \cup pipe \cup inbox = {}
        \/ readErr = "canceled"
        \/ walker = "failed" /\ (UseCache \/ WalkType # "filesystem")

\* Under --fail-on-change a run that reports success let no formatter rewrite
\* a file, as far as size and mtime can tell.
NoSilentRewrite == result = "ok" /\ FailOnChange => rewritten \subseteq Invisible

\* A release hook can be blocked for ever: nobody receives from the full
\* channel once a transaction has failed (cached.go: process returns).
HooksBlocked == process = "failed" /\ Cardinality(updateCh) = UpdateCap

\* A read loop was left before the lister had come to its end, and Close waits
\* for a lister that is blocked on the full pipe: the repairs' reader after any
\* error, the formatters' when there is no cache in front of it.
ListerBlocked ==
    /\ \/ pc = "repairFails"
       \/ pc = "closing" /\ ~UseCache /\ (applyErr \/ readErr \notin {"none", "eof"})
    /\ walker = "running"
    /\ Cardinality(pipe) = PipeCap

\* The run returns, except where one of these two blocks it for good: no other
\* order of faults, cancellation and errors leaves it waiting.
Terminates == <>[](pc = "done" \/ HooksBlocked \/ ListerBlocked)

\* How far a file has come, in the terms of RunContract: a file the linters have
\* repaired is as unseen as any other.
Fate(f) ==
    IF f \in released THEN "formatted"
    ELSE IF f \in spoiled THEN "failed"
    ELSE IF f \in accepted THEN "accepted"
    ELSE IF pass = "repair" \/ f \in unlisted \cup pipe \cup inbox THEN "unseen"
    ELSE "skipped"

Contract == INSTANCE RunContract WITH
    fate <- [f \in Files |-> Fate(f)],
    entries <- recorded,
    outcome <- result

\* The run, with all its goroutines, implements the contract: RunContract.Spec.
ImplementsContract == Contract!Spec

\* --- What comments and docs say, checked in runs of their own ---

\* git.go:132: "failed to wait for git command to complete: %w", the error a
\* reader is to return whose listing command failed; format.go:153, of the identity:
\* "a failed or aborted run does not claim ownership of the tree".
SuccessMeansComplete ==
    result = "ok" \/ attested => unlisted \cup pipe \cup inbox = {}

\* composite.go:85: "exiting with an error if the unmatched level was set to
\* fatal"; 0001-generic-codegen-repair-linter.md:93, of repair-must-succeed: "Makes
\* a failed repair an operational failure (exit 2) rather than a discarded exit
\* status".
FailureExits == applyErr \/ pc = "repairFails" ~> pc = "done"

===============================================================================
