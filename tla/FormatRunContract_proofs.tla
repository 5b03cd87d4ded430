----------------------- MODULE FormatRunContract_proofs -----------------------
(***************************************************************************)
(* Proofs, for every value of the constants, of what a run promises when   *)
(* it is over: success means that the whole tree was looked at (with the   *)
(* two gaps the code has) and, under --fail-on-change, that no rewrite     *)
(* went unnoticed; and step by step the run implements RunContract.        *)
(***************************************************************************)
EXTENDS FormatRun_proofs

\* What the main goroutine knows of the listing: where an "eof" comes from, and
\* that nothing it has read is left when it closes the formatter.
ListingInv ==
    /\ walker = "done" => unlisted = {}
    /\ readErr = "eof" => pipe = {} /\ walker # "running"
    /\ pc \in {"close", "wait", "closeWalker", "closing", "return", "attest"} /\ ~applyErr =>
          inbox = {} /\ readErr # "none"
    /\ result = "ok" =>
          /\ inbox = {}
          /\ \/ readErr = "canceled"
             \/ /\ readErr = "eof"
                /\ walker = "done" \/ UseCache \/ WalkType # "filesystem"

\* A visible rewrite is known, will be found by the Stat that is still to come, or
\* was lost with a job that reported an error.
RewriteInv ==
    /\ \A f \in rewritten \ Invisible : InJob(f) \/ f \in changed \/ egErr
    /\ result = "ok" => ~egErr /\ (FailOnChange => changed = {})

-------------------------------------------------------------------------------
(* The listing *)

LEMMA InitListing ==
    ASSUME Init
    PROVE  ListingInv
  BY DEF Init, WalkInit, ListingInv

\* The lister itself: whatever it does, an "eof" has been given only after it.
LEMMA ListerStep ==
    ASSUME ListingInv, Lister
    PROVE  ListingInv'
<1>. USE DEF ListingInv, mainVars
<1>1. ASSUME NEW f \in Files, ListFile(f)
      PROVE  ListingInv'
  BY <1>1 DEF ListFile, List
<1>2. CASE EndListing
  BY <1>2 DEF EndListing, WalkDone
<1>3. CASE FailListing
  BY <1>3 DEF FailListing, WalkFail
<1>. QED  BY <1>1, <1>2, <1>3 DEF Lister

\* Reading, and looking at what was read.
LEMMA ReaderStep ==
    ASSUME IndInv, ListingInv,
           \/ Read \/ EndApply
           \/ \E f \in Files : ReadFile(f) \/ SkipFile(f) \/ SubmitFile(f) \/ RefuseFile(f)
    PROVE  ListingInv'
<1>1. result = "none"
  BY DEF IndInv, MainInv, TypeOK, Read, EndApply, ReadFile, SkipFile, SubmitFile, RefuseFile
<1>. USE <1>1 DEF ListingInv, walkVars
<1>2. ASSUME NEW f \in Files, ReadFile(f)
      PROVE  ListingInv'
  BY <1>2 DEF ReadFile, Take
<1>3. ASSUME NEW f \in Files, SkipFile(f) \/ SubmitFile(f) \/ RefuseFile(f)
      PROVE  ListingInv'
  BY <1>3 DEF SkipFile, SubmitFile, RefuseFile
<1>4. CASE Read
  BY <1>4 DEF Read, ReadEnds, Drained
<1>5. CASE EndApply
  BY <1>5 DEF EndApply
<1>. QED  BY <1>2, <1>3, <1>4, <1>5

\* The repairs end a walk, and another begins.
LEMMA RepairListing ==
    ASSUME IndInv, ListingInv, RepairBatch \/ RepairFails \/ EndRepairs
    PROVE  ListingInv'
<1>1. result # "ok" /\ result' # "ok"
  BY DEF IndInv, MainInv, RepairBatch, RepairFails, EndRepairs
<1>. QED  BY <1>1 DEF ListingInv, RepairBatch, RepairFails, EndRepairs, NewWalk, walkVars

\* The main goroutine from the end of the read loop on.
LEMMA ClosingStep ==
    ASSUME IndInv, ListingInv,
           \/ CloseBatches \/ WaitForJobs \/ CloseWalker \/ WalkerClosed
           \/ Return \/ Attest \/ \E k \in Keys : CloseBatch(k)
    PROVE  ListingInv'
<1>. USE FlagsAssumption DEF ListingInv, walkVars, mainVars, ListingErr
<1>1. CASE Return
  <2>1. /\ pc = "return" /\ result' = (IF RunFailed THEN "error" ELSE "ok")
        /\ pc' = (IF UseCache /\ ~RunFailed THEN "attest" ELSE "done")
        /\ UNCHANGED <<inbox, readErr, applyErr, unlisted, pipe, walker>>
    BY <1>1 DEF Return
  <2>2. ~RunFailed => /\ ~applyErr /\ readErr \in {"none", "eof", "canceled"}
                      /\ UseCache \/ walker # "failed" \/ WalkType # "filesystem"
    BY DEF RunFailed, WalkerCloseErr, IndInv, TypeOK, ReadErrs
  <2>3. walker \in {"running", "done", "failed"}
    BY DEF IndInv, TypeOK, WalkTypeOK
  <2>. QED  BY <2>1, <2>2, <2>3
<1>3. CASE CloseBatches \/ WaitForJobs \/ CloseWalker \/ WalkerClosed
  BY <1>3 DEF CloseBatches, WaitForJobs, CloseWalker, WalkerClosed
<1>4. CASE Attest
  BY <1>4 DEF Attest
<1>5. ASSUME NEW k \in Keys, CloseBatch(k)
      PROVE  ListingInv'
  BY <1>5 DEF CloseBatch
<1>. QED  BY <1>1, <1>3, <1>4, <1>5

LEMMA NextListing ==
    ASSUME IndInv, ListingInv, [Next]_vars
    PROVE  ListingInv'
<1>1. CASE Main
  BY <1>1, ReaderStep, RepairListing, ClosingStep DEF Main
<1>2. CASE Lister
  BY <1>2, ListerStep
<1>3. CASE \E w \in Workers : Worker(w)
  BY <1>3 DEF Worker, RunFormatter, ReleaseFile, FailStat, mainVars, walkVars, ListingInv
<1>4. CASE CacheWriter \/ Cancel \/ UNCHANGED vars
  BY <1>4 DEF CacheWriter, ReceiveFile, FlushBatch, Cancel, vars, mainVars, walkVars, ListingInv
<1>. QED  BY <1>1, <1>2, <1>3, <1>4 DEF Next, Step, Exited

\* Success means that every file of the tree was looked at, unless the run was
\* cancelled, or the listing failed and a git or jj reader, or the cache, hid it.
THEOREM SuccessIsComplete == Spec => []SuccessIsCompleteButForGaps
<1>1. Init => ListingInv
  BY InitListing
<1>2. IndInv /\ ListingInv /\ [Next]_vars => ListingInv'
  BY NextListing
<1>3. IndInv /\ ListingInv => SuccessIsCompleteButForGaps
  BY DEF IndInv, TypeOK, WalkTypeOK, ListingInv, SuccessIsCompleteButForGaps
<1>. QED  BY <1>1, <1>2, <1>3, Invariance, PTL DEF Spec

-------------------------------------------------------------------------------
(* What Stat will tell *)

LEMMA InitRewrite ==
    ASSUME Init
    PROVE  RewriteInv
  BY DEF Init, SchedInit, RewriteInv

\* A step that leaves the jobs alone: only Return has to look at anything.
LEMMA QuietStep ==
    ASSUME IndInv, RewriteInv, UNCHANGED <<job, rewritten, changed, egErr>>,
           UNCHANGED result \/ result' = "error" \/ Return
    PROVE  RewriteInv'
<1>1. \A f \in Files : InJob(f)' = InJob(f)
  BY DEF InJob
<1>2. (\A f \in rewritten \ Invisible : InJob(f) \/ f \in changed \/ egErr)'
  BY <1>1 DEF RewriteInv, IndInv, TypeOK, SchedTypeOK
<1>3. ASSUME result' = "ok"
      PROVE  ~egErr /\ (FailOnChange => changed = {})
  BY <1>3 DEF RewriteInv, Return, RunFailed
<1>. QED  BY <1>2, <1>3 DEF RewriteInv

\* A batch becomes a job, with a file being submitted or alone.
LEMMA StartRewrite ==
    ASSUME IndInv, RewriteInv, NEW w \in Workers, NEW k, NEW S \in SUBSET Files,
           Start(w, k, S), UNCHANGED <<rewritten, changed, egErr, result>>
    PROVE  RewriteInv'
<1>1. \A v \in Workers : job[v].files \subseteq job'[v].files
  BY DEF Start, Idle, IndInv, TypeOK, SchedTypeOK
<1>2. \A f \in Files : InJob(f) => InJob(f)'
  BY <1>1 DEF InJob
<1>. QED  BY <1>2 DEF RewriteInv, IndInv, TypeOK, SchedTypeOK

\* A formatter only rewrites the files of its job.
LEMMA ApplyRewrite ==
    ASSUME IndInv, RewriteInv, NEW w \in Workers, RunFormatter(w)
    PROVE  RewriteInv'
<1>1. PICK bad \in FailureSets(w) : \E partly \in {{}, bad} : ApplyFormatter(w, bad, partly)
  BY DEF RunFormatter
<1>2. PICK partly \in {{}, bad} : ApplyFormatter(w, bad, partly)
  BY <1>1
<1>3. /\ UNCHANGED <<changed, egErr, result>>
      /\ rewritten' = rewritten \cup (Unformatted \cap ((job[w].files \ bad) \cup partly))
  BY <1>2 DEF ApplyFormatter, RunFormatter, mainVars
<1>4. bad \subseteq job[w].files
  BY DEF FailureSets
<1>5. \A v \in Workers : job'[v].files = job[v].files
  BY <1>2 DEF ApplyFormatter, IndInv, TypeOK, SchedTypeOK
<1>6. \A f \in Files : InJob(f)' = InJob(f)
  BY <1>5 DEF InJob
<1>7. \A f \in rewritten' \ rewritten : f \in Files /\ InJob(f)
  BY <1>3, <1>4, UnformattedAssumption DEF InJob
<1>. QED  BY <1>3, <1>6, <1>7 DEF RewriteInv, IndInv, TypeOK, SchedTypeOK

\* A file leaves its job through Stat, which sees a visible rewrite.
LEMMA ReleaseRewrite ==
    ASSUME IndInv, RewriteInv, NEW w \in Workers, NEW f \in Files, ReleaseFile(w, f)
    PROVE  RewriteInv'
<1>1. /\ UNCHANGED <<rewritten, egErr, result>>
      /\ changed' = changed \cup (({f} \cap rewritten) \ Invisible)
  BY DEF ReleaseFile, StatAndRelease, mainVars
<1>2. \A v \in Workers : job'[v].files = IF v = w THEN job[v].files \ {f} ELSE job[v].files
  <2>. DEFINE empty == NoJob
  <2>0. empty.files = {}
    BY DEF NoJob
  <2>. HIDE DEF empty
  <2>1. /\ Leave(w, {f})
        /\ job \in [Workers -> [key : Keys \cup {NoKey}, files : SUBSET Files,
                               step : Nat \ {0}, failed : BOOLEAN]]
    BY DEF ReleaseFile, StatAndRelease, IndInv, TypeOK, SchedTypeOK
  <2>2. CASE job[w].files = {f}
    <3>1. job' = [job EXCEPT ![w] = empty]
      BY <2>1, <2>2 DEF Leave, empty
    <3>. QED  BY <2>0, <2>1, <2>2, <3>1
  <2>3. CASE job[w].files # {f}
    <3>1. job' = [job EXCEPT ![w].files = @ \ {f}]
      BY <2>1, <2>3 DEF Leave
    <3>. QED  BY <2>1, <3>1
  <2>. QED  BY <2>2, <2>3
<1>3. \A g \in Files : InJob(g) => InJob(g)' \/ g = f
  BY <1>2 DEF InJob
<1>4. result = "none"
  <2>1. ~AllIdle
    BY DEF ReleaseFile, StatAndRelease, Releasing, AllIdle
  <2>. QED  BY <2>1 DEF IndInv, MainInv, TypeOK
<1>. QED  BY <1>1, <1>3, <1>4 DEF RewriteInv, IndInv, TypeOK, SchedTypeOK

\* What a failed Stat would have told is lost, and the run fails.
LEMMA FailStatRewrite ==
    ASSUME IndInv, NEW w \in Workers, FailStat(w)
    PROVE  RewriteInv'
<1>1. egErr' /\ result' = result /\ ~AllIdle
  BY DEF FailStat, StatFails, mainVars, Releasing, AllIdle
<1>2. result = "none"
  BY <1>1 DEF IndInv, MainInv, TypeOK
<1>. QED  BY <1>1, <1>2 DEF RewriteInv

LEMMA NextRewrite ==
    ASSUME IndInv, RewriteInv, [Next]_vars
    PROVE  RewriteInv'
<1>. USE DEF mainVars, schedVars
<1>1. ASSUME NEW f \in Files, SubmitFile(f)
      PROVE  RewriteInv'
  <2>1. UNCHANGED <<rewritten, changed, egErr, result>>
    BY <1>1 DEF SubmitFile, Submit
  <2>2. CASE FillBatch(f, route[f])
    <3>1. PICK w \in Workers : Start(w, route[f], batches[route[f]] \cup {f})
      BY <2>2 DEF FillBatch
    <3>2. batches[route[f]] \cup {f} \in SUBSET Files
      BY <1>1 DEF SubmitFile, IndInv, TypeOK, SchedTypeOK
    <3>. QED  BY <2>1, <3>1, <3>2, StartRewrite
  <2>3. CASE Append1(f, route[f])
    BY <2>1, <2>3, QuietStep DEF Append1
  <2>. QED  BY <1>1, <2>2, <2>3 DEF SubmitFile, Submit
<1>2. ASSUME NEW k \in Keys, CloseBatch(k)
      PROVE  RewriteInv'
  <2>1. PICK w \in Workers : Start(w, k, batches[k])
    BY <1>2 DEF CloseBatch, ScheduleRest
  <2>2. batches[k] \in SUBSET Files
    BY DEF IndInv, TypeOK, SchedTypeOK
  <2>. QED  BY <1>2, <2>1, <2>2, StartRewrite DEF CloseBatch, ScheduleRest
<1>3. CASE \/ RepairBatch \/ RepairFails \/ EndRepairs \/ Read \/ EndApply \/ CloseBatches \/ WaitForJobs
           \/ CloseWalker \/ WalkerClosed \/ Return \/ Attest \/ Cancel
           \/ \E f \in Files : ReadFile(f) \/ SkipFile(f) \/ RefuseFile(f)
  BY <1>3, QuietStep DEF RepairBatch, RepairFails, EndRepairs, Read, EndApply, CloseBatches, WaitForJobs, CloseWalker,
     WalkerClosed, Return, Attest, Cancel, ReadFile, SkipFile, RefuseFile
<1>4. CASE Lister \/ CacheWriter \/ UNCHANGED vars
  BY <1>4, QuietStep DEF Lister, ListFile, EndListing, FailListing, CacheWriter,
     ReceiveFile, FlushBatch, vars
<1>5. CASE \E w \in Workers : Worker(w)
  BY <1>5, ApplyRewrite, ReleaseRewrite, FailStatRewrite DEF Worker
<1>. QED  BY <1>1, <1>2, <1>3, <1>4, <1>5 DEF Next, Step, Main, Exited

\* Under --fail-on-change, success means that no formatter rewrote a file, as far
\* as size and mtime can tell: no rewrite is lost between a job and the report.
THEOREM NoRewriteIsLost == Spec => []NoSilentRewrite
<1>1. Init => RewriteInv
  BY InitRewrite
<1>2. IndInv /\ RewriteInv /\ [Next]_vars => RewriteInv'
  BY NextRewrite
<1>3. IndInv /\ RewriteInv => NoSilentRewrite
  <2>. SUFFICES ASSUME IndInv, RewriteInv, result = "ok", FailOnChange
                PROVE  rewritten \subseteq Invisible
    BY DEF NoSilentRewrite
  <2>1. AllIdle
    BY DEF IndInv, MainInv
  <2>2. \A f \in Files : ~InJob(f)
    BY <2>1 DEF AllIdle, Idle, InJob
  <2>. QED  BY <2>2 DEF RewriteInv, IndInv, TypeOK, SchedTypeOK
<1>. QED  BY <1>1, <1>2, <1>3, Invariance, PTL DEF Spec

-------------------------------------------------------------------------------
(* The refinement *)

\* The files the main goroutine has not looked at.
Unseen == unlisted \cup pipe \cup inbox

LEMMA FateFrame ==
    ASSUME UNCHANGED <<released, spoiled, accepted, pass, Unseen>>
    PROVE  [f \in Files |-> Fate(f)]' = [f \in Files |-> Fate(f)]
  BY DEF Fate, Unseen

LEMMA Stutter ==
    ASSUME UNCHANGED <<released, spoiled, accepted, pass, Unseen, recorded, result>>
    PROVE  UNCHANGED Contract!contractVars
  BY FateFrame DEF Contract!contractVars

LEMMA InitContract ==
    ASSUME Init
    PROVE  Contract!Init
  BY DEF Init, WalkInit, CacheInit, SchedInit, Fate, Contract!Init

\* The files of S change their fate, and nothing else happens.
LEMMA MoveFate ==
    ASSUME NEW S \in SUBSET Files, NEW v, NEW u,
           result = "none", UNCHANGED <<recorded, result>>,
           \A f \in S : Fate(f) = v /\ Fate(f)' = u,
           \A f \in Files \ S : Fate(f)' = Fate(f)
    PROVE  Contract!Move(S, v, u)
<1>1. S \subseteq {f \in Files : [g \in Files |-> Fate(g)][f] = v}
  OBVIOUS
<1>2. [f \in Files |-> Fate(f)]' =
         [f \in Files |-> IF f \in S THEN u ELSE [g \in Files |-> Fate(g)][f]]
  OBVIOUS
<1>. QED  BY <1>1, <1>2 DEF Contract!Move, Contract!With

\* A file in a job is accepted and no more.
LEMMA InJobFate ==
    ASSUME IndInv, NEW w \in Workers, NEW f \in job[w].files
    PROVE  f \in Files /\ Fate(f) = "accepted" /\ result = "none"
<1>1. f \in Files /\ InJob(f) /\ ~AllIdle
  BY DEF IndInv, TypeOK, SchedTypeOK, InJob, AllIdle, Idle
<1>2. f \in accepted /\ f \notin released \cup spoiled
  BY <1>1 DEF IndInv, FilesInv, OneOwner
<1>3. result = "none"
  BY <1>1 DEF IndInv, MainInv, TypeOK
<1>. QED  BY <1>1, <1>2, <1>3 DEF Fate

LEMMA LookStep ==
    ASSUME IndInv, NEW f \in Files, SkipFile(f) \/ SubmitFile(f)
    PROVE  Contract!Look
<1>1. /\ result = "none" /\ f \in inbox /\ pass = "format"
      /\ inbox' = inbox \ {f}
      /\ UNCHANGED <<pass, released, spoiled, recorded, result, unlisted, pipe>>
      /\ accepted' = accepted \/ accepted' = accepted \cup {f}
  BY DEF SkipFile, SubmitFile, Submit, IndInv, MainInv, TypeOK, schedVars, walkVars, cacheVars
<1>2. f \notin accepted \cup released \cup spoiled \cup unlisted \cup pipe
  BY <1>1 DEF IndInv, FilesInv
<1>3. Fate(f) = "unseen"
  BY <1>1, <1>2 DEF Fate
<1>4. \A g \in Files \ {f} : Fate(g)' = Fate(g)
  BY <1>1 DEF Fate
<1>5. Fate(f)' = "skipped" \/ Fate(f)' = "accepted"
  BY <1>1, <1>2 DEF Fate
<1>6. ASSUME NEW u \in {"skipped", "accepted"}, Fate(f)' = u
      PROVE  Contract!Move({f}, "unseen", u)
  BY <1>1, <1>3, <1>4, <1>6, MoveFate
<1>. QED  BY <1>5, <1>6 DEF Contract!Look

\* While the repairs last, every file is unseen, and so it is for the formatters'
\* walk that follows: the repairs show nothing, or conclude the run.
LEMMA RepairContractStep ==
    ASSUME IndInv, RepairBatch \/ RepairFails \/ EndRepairs
    PROVE  [Contract!Next]_Contract!contractVars
<1>1. /\ UNCHANGED <<released, spoiled, accepted, recorded>>
      /\ result' = result \/ result' = "error"
      /\ pass = "repair"
      /\ pass' = "repair" \/ unlisted' = Files
  BY DEF RepairBatch, RepairFails, EndRepairs, NewWalk, cacheVars, schedVars, IndInv, MainInv
<1>2. result = "none"
  BY DEF RepairBatch, RepairFails, EndRepairs, IndInv, MainInv, TypeOK
<1>3. accepted \cup released \cup spoiled = {}
  BY <1>1 DEF IndInv, MainInv, FilesInv, TypeOK, SchedTypeOK
<1>4. ASSUME NEW f \in Files
      PROVE  Fate(f) = "unseen" /\ Fate(f)' = "unseen"
  BY <1>1, <1>3 DEF Fate
<1>5. [f \in Files |-> Fate(f)]' = [f \in Files |-> Fate(f)]
  BY <1>4
<1>6. CASE result' = result
  BY <1>1, <1>5, <1>6 DEF Contract!contractVars
<1>7. CASE result' = "error"
  BY <1>1, <1>2, <1>5, <1>7 DEF Contract!Next, Contract!Conclude
<1>. QED  BY <1>1, <1>6, <1>7

LEMMA SettleStep ==
    ASSUME IndInv, NEW w \in Workers,
           FailStat(w) \/ \E f \in Files : ReleaseFile(w, f)
    PROVE  Contract!Settle
<1>. USE DEF mainVars, walkVars, cacheVars
<1>1. CASE FailStat(w)
  <2>1. /\ UNCHANGED <<pass, accepted, released, unlisted, pipe, inbox, recorded, result>>
        /\ spoiled' = spoiled \cup job[w].files /\ job[w].files # {}
    BY <1>1 DEF FailStat, StatFails, Releasing, Idle
  <2>2. \A f \in job[w].files : Fate(f) = "accepted" /\ Fate(f)' = "failed"
    <3>. TAKE f \in job[w].files
    <3>1. Fate(f) = "accepted"
      BY InJobFate
    <3>. QED  BY <2>1, <3>1 DEF Fate
  <2>3. \A f \in Files \ job[w].files : Fate(f)' = Fate(f)
    BY <2>1 DEF Fate
  <2>4. job[w].files \in SUBSET Files /\ result = "none"
    BY <2>1, InJobFate
  <2>5. Contract!Move(job[w].files, "accepted", "failed")
    BY <2>1, <2>2, <2>3, <2>4, MoveFate
  <2>. QED  BY <2>4, <2>5 DEF Contract!Settle
<1>2. ASSUME NEW f \in Files, ReleaseFile(w, f)
      PROVE  Contract!Settle
  <2>1. /\ UNCHANGED <<pass, accepted, unlisted, pipe, inbox, recorded, result>>
        /\ f \in job[w].files
        /\ \/ spoiled' = spoiled \cup {f} /\ released' = released
           \/ released' = released \cup {f} /\ spoiled' = spoiled
    BY <1>2 DEF ReleaseFile, StatAndRelease, Send
  <2>2. Fate(f) = "accepted" /\ result = "none"
    BY <2>1, InJobFate
  <2>3. \A g \in Files \ {f} : Fate(g)' = Fate(g)
    BY <2>1 DEF Fate
  <2>4. Fate(f)' = "failed" \/ Fate(f)' = "formatted"
    BY <2>1, <2>2 DEF Fate
  <2>5. ASSUME NEW u \in {"formatted", "failed"}, Fate(f)' = u
        PROVE  Contract!Move({f}, "accepted", u)
    BY <2>1, <2>2, <2>3, <2>5, MoveFate
  <2>. QED  BY <2>4, <2>5 DEF Contract!Settle
<1>. QED  BY <1>1, <1>2

\* What is flushed was released, and the run is not over.
LEMMA EnterStep ==
    ASSUME IndInv, pc # "done", Flush,
           UNCHANGED <<route, mainVars, walkVars, schedVars>>
    PROVE  Contract!Enter
<1>1. /\ recorded' = recorded \cup pending
      /\ UNCHANGED <<pass, released, spoiled, accepted, unlisted, pipe, inbox, result>>
  BY DEF Flush, mainVars, walkVars, schedVars
<1>2. pending \subseteq released
  BY DEF IndInv, CacheInv
<1>3. \A f \in pending : f \in Files /\ Fate(f) = "formatted"
  BY <1>2 DEF Fate, IndInv, TypeOK, SchedTypeOK
<1>4. pending \subseteq {f \in Files : [g \in Files |-> Fate(g)][f] = "formatted"}
  BY <1>3
<1>5. [f \in Files |-> Fate(f)]' = [f \in Files |-> Fate(f)]
  BY <1>1, FateFrame DEF Unseen
<1>6. result = "none"
  BY DEF Flush, FlushDue, IndInv, MainInv, TypeOK
<1>. QED  BY <1>1, <1>4, <1>5, <1>6 DEF Contract!Enter, Contract!With

\* The run returns; "ok" means that nothing it accepted is left over.
LEMMA ConcludeStep ==
    ASSUME IndInv, IndInv', Return
    PROVE  Contract!Conclude
<1>1. /\ UNCHANGED <<pass, released, spoiled, accepted, unlisted, pipe, inbox, recorded>>
      /\ result' = "ok" \/ result' = "error"
      /\ result = "none"
  BY DEF Return, IndInv, MainInv, TypeOK, walkVars, cacheVars, schedVars
<1>2. [f \in Files |-> Fate(f)]' = [f \in Files |-> Fate(f)]
  BY <1>1, FateFrame DEF Unseen
<1>3. ASSUME result' = "ok"
      PROVE  /\ Contract!With("accepted") \cup Contract!With("failed") = {}
             /\ UseCache => recorded = Contract!With("formatted")
  <2>1. accepted = released /\ (UseCache => recorded = released)
    BY <1>1, <1>3 DEF IndInv, MainInv
  <2>2. spoiled = {}
    BY <2>1 DEF IndInv, FilesInv, OneOwner, TypeOK, SchedTypeOK
  <2>3. \A f \in Files : /\ Fate(f) \notin {"accepted", "failed"}
                         /\ Fate(f) = "formatted" <=> f \in released
    BY <2>1, <2>2 DEF Fate
  <2>. QED  BY <2>1, <2>3 DEF Contract!With, IndInv, TypeOK, SchedTypeOK
<1>. QED  BY <1>1, <1>2, <1>3 DEF Contract!Conclude

LEMMA NextContract ==
    ASSUME IndInv, IndInv', [Next]_vars
    PROVE  [Contract!Next]_Contract!contractVars
<1>. USE DEF mainVars, walkVars, cacheVars, schedVars, Contract!Next
<1>1. ASSUME NEW f \in Files, SkipFile(f) \/ SubmitFile(f)
      PROVE  Contract!Next
  BY <1>1, LookStep
<1>2. ASSUME NEW f \in Files, ListFile(f) \/ ReadFile(f) \/ RefuseFile(f)
      PROVE  UNCHANGED Contract!contractVars
  <2>1. UNCHANGED <<pass, released, spoiled, accepted, recorded, result>>
    BY <1>2 DEF ListFile, List, ReadFile, Take, RefuseFile
  <2>2. Unseen' = Unseen
    BY <1>2 DEF ListFile, List, ReadFile, Take, RefuseFile, Unseen
  <2>. QED  BY <2>1, <2>2, Stutter
<1>3. CASE Return
  BY <1>3, ConcludeStep
<1>4. CASE RepairBatch \/ RepairFails \/ EndRepairs
  BY <1>4, RepairContractStep
<1>5. CASE \/ Read \/ EndApply \/ CloseBatches \/ WaitForJobs \/ CloseWalker
           \/ WalkerClosed \/ Attest \/ Cancel \/ EndListing \/ FailListing
           \/ (\E k \in Keys : CloseBatch(k)) \/ UNCHANGED vars
  <2>1. UNCHANGED <<pass, released, spoiled, accepted, unlisted, pipe, inbox, recorded, result>>
    BY <1>5 DEF Read, EndApply, CloseBatches, WaitForJobs, CloseWalker, CloseUpdates,
       WalkerClosed, Attest, Cancel, EndListing, WalkDone, FailListing, WalkFail,
       CloseBatch, ScheduleRest, vars
  <2>. QED  BY <2>1, Stutter DEF Unseen
<1>6. ASSUME NEW w \in Workers, Worker(w)
      PROVE  [Contract!Next]_Contract!contractVars
  <2>1. CASE RunFormatter(w)
    <3>1. UNCHANGED <<pass, released, spoiled, accepted, unlisted, pipe, inbox, recorded, result>>
      BY <2>1 DEF RunFormatter, ApplyFormatter
    <3>. QED  BY <3>1, Stutter DEF Unseen
  <2>2. CASE FailStat(w) \/ \E f \in Files : ReleaseFile(w, f)
    BY <2>2, SettleStep
  <2>. QED  BY <1>6, <2>1, <2>2 DEF Worker
<1>7. CASE pc # "done" /\ CacheWriter
  <2>1. ASSUME NEW f \in Files, ReceiveFile(f)
        PROVE  UNCHANGED Contract!contractVars
    <3>1. UNCHANGED <<pass, released, spoiled, accepted, unlisted, pipe, inbox, recorded, result>>
      BY <2>1 DEF ReceiveFile, Receive
    <3>. QED  BY <3>1, Stutter DEF Unseen
  <2>2. CASE Flush /\ UNCHANGED <<route, mainVars, walkVars, schedVars>>
    BY <1>7, <2>2, EnterStep
  <2>3. CASE FlushFail /\ UNCHANGED <<route, mainVars, walkVars, schedVars>>
    <3>1. UNCHANGED <<pass, released, spoiled, accepted, unlisted, pipe, inbox, recorded, result>>
      BY <2>3 DEF FlushFail
    <3>. QED  BY <3>1, Stutter DEF Unseen
  <2>. QED  BY <1>7, <2>1, <2>2, <2>3 DEF CacheWriter, FlushBatch
<1>. QED  BY <1>1, <1>2, <1>3, <1>4, <1>5, <1>6, <1>7
          DEF Next, Step, Main, Lister, Exited

\* The run implements its contract: with all its goroutines, faults and
\* cancellations, each of its steps is one the contract allows, or shows nothing.
THEOREM RunImplementsContract == Spec => ImplementsContract
<1>1. Init => Contract!Init
  BY InitContract
<1>2. IndInv /\ IndInv' /\ [Next]_vars => [Contract!Next]_Contract!contractVars
  BY NextContract
<1>. QED  BY <1>1, <1>2, Invariance, PTL DEF Spec, ImplementsContract, Contract!Spec
===============================================================================
