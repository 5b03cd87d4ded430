------------------------------- MODULE Scheduler -------------------------------
(***************************************************************************)
(* format/scheduler.go: files that share a sequence of formatters (a batch *)
(* key) are collected in a batch; a full batch becomes a job of one of a   *)
(* limited number of goroutines.  A job applies the formatters one after   *)
(* the other to the whole batch, going on after a failure, then stats and  *)
(* releases the files one by one.                                          *)
(***************************************************************************)
EXTENDS SourceTree

CONSTANTS
    Keys,        \* the batch keys that occur
    Formatters,
    Sequence,    \* Sequence[k]: the formatters of key k, in priority order
    OneAtATime,  \* formatters without positional-argument support
    Unformatted, \* files that a formatter would rewrite
    Invisible,   \* files whose rewrite keeps the size and the mtime's second
    BatchSize,
    Workers,     \* the goroutines errgroup.SetLimit(NumCPU) allows
    NoKey        \* the key of a worker that has no job

ASSUME SequenceAssumption ==
    /\ Sequence \in [Keys -> Seq(Formatters)]
    /\ \A k \in Keys : Len(Sequence[k]) > 0
ASSUME BatchSizeAssumption == BatchSize \in Nat \ {0}
ASSUME NoKeyAssumption == NoKey \notin Keys
ASSUME UnformattedAssumption == Unformatted \subseteq Files

VARIABLES
    batches,     \* batches[k]: files submitted and not yet scheduled
    job,         \* job[w]: what goroutine w is doing
    formatError, \* at least one formatter failed
    egErr,       \* at least one job returned an error to the errgroup
    applied,     \* applied[f]: how many formatters have succeeded on f
    rewritten,   \* files whose content a formatter has changed
    changed,     \* files that Stat reported as changed
    released,    \* files released to the cache hook
    spoiled      \* files released with no-cache, or never released

schedVars ==
    <<batches, job, formatError, egErr, applied, rewritten, changed, released, spoiled>>

NoJob == [key |-> NoKey, files |-> {}, step |-> 1, failed |-> FALSE]

SchedTypeOK ==
    /\ batches \in [Keys -> SUBSET Files]
    /\ job \in [Workers -> [key : Keys \cup {NoKey}, files : SUBSET Files,
                            step : Nat \ {0}, failed : BOOLEAN]]
    /\ formatError \in BOOLEAN
    /\ egErr \in BOOLEAN
    /\ applied \in [Files -> Nat]
    /\ rewritten \in SUBSET Files
    /\ changed \in SUBSET Files
    /\ released \in SUBSET Files
    /\ spoiled \in SUBSET Files

SchedInit ==
    /\ batches = [k \in Keys |-> {}]
    /\ job = [w \in Workers |-> NoJob]
    /\ formatError = FALSE
    /\ egErr = FALSE
    /\ applied = [f \in Files |-> 0]
    /\ rewritten = {}
    /\ changed = {}
    /\ released = {}
    /\ spoiled = {}

Idle(w) == job[w].files = {}
Formatting(w) == ~Idle(w) /\ job[w].step <= Len(Sequence[job[w].key])

\* Mutant of Releasing: the loop over the sequence misses its last formatter.
ReleasingEarly(w) == ~Idle(w) /\ job[w].step >= Len(Sequence[job[w].key])

Releasing(w) == ~Idle(w) /\ job[w].step > Len(Sequence[job[w].key])

\* Mutant of Start: the loop over the sequence counts from zero.
StartAtZero(w, k, batch) ==
    /\ Idle(w)
    /\ job' = [job EXCEPT ![w] =
                  [key |-> k, files |-> batch, step |-> 0, failed |-> FALSE]]

\* A goroutine starts on a batch; eg.Go blocks the caller until one is free.
Start(w, k, batch) ==
    /\ Idle(w)
    /\ job' = [job EXCEPT ![w] =
                  [key |-> k, files |-> batch, step |-> 1, failed |-> FALSE]]

\* submit: the file joins the batch of its key ...
Append1(f, k) ==
    /\ Cardinality(batches[k]) + 1 # BatchSize
    /\ batches' = [batches EXCEPT ![k] = @ \cup {f}]
    /\ UNCHANGED job

\* Mutant of FillBatch: the slice handed to the job stays in the batch map.
FillBatchKept(f, k) ==
    /\ Cardinality(batches[k]) + 1 = BatchSize
    /\ \E w \in Workers : Start(w, k, batches[k] \cup {f})
    /\ UNCHANGED batches

\* ... and a batch that is full is scheduled, and replaced by an empty one.
FillBatch(f, k) ==
    /\ Cardinality(batches[k]) + 1 = BatchSize
    /\ \E w \in Workers : Start(w, k, batches[k] \cup {f})
    /\ batches' = [batches EXCEPT ![k] = {}]

Submit(f, k) ==
    /\ Append1(f, k) \/ FillBatch(f, k)
    /\ UNCHANGED <<formatError, egErr, applied, rewritten, changed, released, spoiled>>

\* Mutant of ScheduleRest: the scheduled batch stays in the map.
ScheduleRestKept(k) ==
    /\ batches[k] # {}
    /\ \E w \in Workers : Start(w, k, batches[k])
    /\ UNCHANGED <<batches, formatError, egErr, applied, rewritten, changed, released,
                   spoiled>>

\* close: a partial batch is scheduled.
ScheduleRest(k) ==
    /\ batches[k] # {}
    /\ \E w \in Workers : Start(w, k, batches[k])
    /\ batches' = [batches EXCEPT ![k] = {}]
    /\ UNCHANGED <<formatError, egErr, applied, rewritten, changed, released, spoiled>>

AllScheduled == \A k \in Keys : batches[k] = {}
AllIdle == \A w \in Workers : Idle(w)

\* The chunks a formatter can fail on: a formatter without positional-argument
\* support runs once per file, any other once for the batch.
FailureSets(w) ==
    IF Sequence[job[w].key][job[w].step] \in OneAtATime
    THEN SUBSET job[w].files
    ELSE {{}, job[w].files}

\* The next formatter of the sequence runs over the batch and fails on the
\* files of bad, some of which it may have rewritten all the same.  After the
\* last one the outcome of the batch is folded into formatError.
ApplyFormatter(w, bad, partly) ==
    LET files == job[w].files
        failed == job[w].failed \/ bad # {}
    IN  /\ Formatting(w)
        /\ job' = [job EXCEPT ![w].step = @ + 1, ![w].failed = failed]
        /\ applied' = [f \in Files |->
                          IF f \in files \ bad THEN applied[f] + 1 ELSE applied[f]]
        /\ rewritten' = rewritten \cup (Unformatted \cap ((files \ bad) \cup partly))
        /\ formatError' = (formatError \/ (failed /\ job[w].step = Len(Sequence[job[w].key])))
        /\ UNCHANGED <<batches, egErr, changed, released, spoiled>>

\* A file leaves its job; the goroutine ends with the last one.
Leave(w, gone) ==
    IF job[w].files = gone
    THEN job' = [job EXCEPT ![w] = NoJob]
    ELSE job' = [job EXCEPT ![w].files = @ \ gone]

\* Mutant of StatAndRelease: the file is released without another stat.
StatAndReleaseUnseen(w, f) ==
    /\ Releasing(w)
    /\ f \in job[w].files
    /\ IF job[w].failed
       THEN spoiled' = spoiled \cup {f} /\ UNCHANGED released
       ELSE released' = released \cup {f} /\ UNCHANGED spoiled
    /\ Leave(w, {f})
    /\ UNCHANGED <<batches, formatError, egErr, applied, rewritten, changed>>

\* Stat compares size and mtime, in seconds, with what the walk saw; Release
\* then runs the hooks, under no-cache when a formatter failed on the batch.
StatAndRelease(w, f) ==
    /\ Releasing(w)
    /\ f \in job[w].files
    /\ changed' = changed \cup (({f} \cap rewritten) \ Invisible)
    /\ IF job[w].failed
       THEN spoiled' = spoiled \cup {f} /\ UNCHANGED released
       ELSE released' = released \cup {f} /\ UNCHANGED spoiled
    /\ Leave(w, {f})
    /\ UNCHANGED <<batches, formatError, egErr, applied, rewritten>>

\* Stat fails (the file is gone): the job returns, its other files unreleased.
StatFails(w) ==
    /\ Releasing(w)
    /\ egErr' = TRUE
    /\ spoiled' = spoiled \cup job[w].files
    /\ Leave(w, job[w].files)
    /\ UNCHANGED <<batches, formatError, applied, rewritten, changed, released>>
===============================================================================
