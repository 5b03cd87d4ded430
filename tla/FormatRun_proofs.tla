--------------------------- MODULE FormatRun_proofs ---------------------------
(***************************************************************************)
(* Proofs, for every value of the constants, of the safety properties of   *)
(* FormatRun.  None of them is inductive: IndInv adds what the code keeps  *)
(* true of the batches, the jobs, the channel and the main goroutine's     *)
(* place between them.                                                     *)
(***************************************************************************)
EXTENDS FormatRun, TLAPS

\* What a batch and a job hold: accepted files routed to their key, and as
\* many formatter applications as the job has taken steps without a failure.
BatchesInv ==
    \A k \in Keys : \A f \in batches[k] :
        f \in accepted /\ route[f] = k /\ applied[f] = 0

JobsInv ==
    \A w \in Workers : ~Idle(w) =>
        /\ job[w].key \in Keys
        /\ job[w].step <= Len(Sequence[job[w].key]) + 1
        /\ Releasing(w) /\ job[w].failed => formatError
        /\ \A f \in job[w].files :
              /\ f \in accepted /\ route[f] = job[w].key
              /\ ~job[w].failed => applied[f] + 1 = job[w].step

\* Where files are: not accepted and untouched, or in exactly one stage.
FilesInv ==
    /\ (unlisted \cup pipe \cup inbox) \cap accepted = {}
    /\ unlisted \cap pipe = {}
    /\ (unlisted \cup pipe) \cap inbox = {}
    /\ \A f \in Files \ accepted : applied[f] = 0
    /\ \A f \in accepted : route[f] \in Keys
    /\ \A f \in Files : f \in accepted <=>
          Batched(f) \/ InJob(f) \/ f \in released \cup spoiled
    /\ spoiled # {} => egErr \/ formatError
    /\ \A f \in released : applied[f] = Len(Sequence[route[f]])

\* The released files are exactly those the cache writer has or has recorded.
CacheInv ==
    /\ updateCh \cup pending \cup recorded = (IF UseCache THEN released ELSE {})
    /\ process = "stopped" => ~chOpen /\ updateCh = {} /\ pending = {}

\* The main goroutine's place.
MainInv ==
    /\ pc \in {"repair", "repairEnds", "repairFails"} => pass = "repair"
    /\ pass = "repair" =>
          /\ AllScheduled /\ AllIdle /\ accepted = {} /\ chOpen /\ result # "ok"
          /\ pc \in {"read", "repair", "repairEnds", "repairFails", "done"}
    /\ pc = "repairEnds" => inbox = {}
    /\ pc \in {"wait", "closeWalker", "closing", "return", "attest"} => AllScheduled
    /\ pc \in {"closeWalker", "closing", "return", "attest"} => AllIdle
    /\ ~chOpen => pc \in {"closing", "return", "attest", "done"}
    /\ pc = "done" => AllScheduled /\ AllIdle
    /\ pc \in {"return", "attest"} /\ UseCache => process # "running"
    /\ result # "none" => pc \in {"attest", "done"}
    /\ pc = "attest" => UseCache /\ result = "ok"
    /\ result = "ok" => accepted = released /\ (UseCache => recorded = released)

IndInv ==
    /\ TypeOK
    /\ OneOwner
    /\ BatchesInv
    /\ JobsInv
    /\ FilesInv
    /\ CacheInv
    /\ MainInv

-------------------------------------------------------------------------------
(* The initial states *)

LEMMA InitIndInv == Init => IndInv
<1>. SUFFICES ASSUME Init PROVE IndInv
  OBVIOUS
<1>. USE DEF Init, WalkInit, CacheInit, SchedInit, NoJob
<1>1. TypeOK
  <2>1. SchedTypeOK
    <3>1. NoJob \in [key : Keys \cup {NoKey}, files : SUBSET Files,
                     step : Nat \ {0}, failed : BOOLEAN]
      OBVIOUS
    <3>. HIDE DEF NoJob
    <3>. QED  BY <3>1 DEF SchedTypeOK
  <2>2. WalkTypeOK /\ CacheTypeOK
    BY DEF WalkTypeOK, CacheTypeOK
  <2>. QED  BY <2>1, <2>2 DEF TypeOK, PCs, ReadErrs
<1>2. \A w \in Workers : Idle(w)
  BY DEF Idle
<1>3. OneOwner /\ BatchesInv /\ JobsInv
  BY <1>2 DEF OneOwner, Batched, InJob, BatchesInv, JobsInv
<1>4. FilesInv /\ CacheInv
  BY DEF FilesInv, Batched, InJob, CacheInv
<1>5. MainInv
  BY <1>2 DEF MainInv, AllScheduled, AllIdle
<1>. QED  BY <1>1, <1>3, <1>4, <1>5 DEF IndInv

-------------------------------------------------------------------------------
(* Steps that leave the scheduler alone *)

\* What is said of batches and jobs alone survives such a step.
LEMMA SchedulerFrame ==
    ASSUME OneOwner, BatchesInv, JobsInv, UNCHANGED <<route, accepted, schedVars>>
    PROVE  (OneOwner /\ BatchesInv /\ JobsInv)'
<1>1. OneOwner'
  BY DEF OneOwner, Batched, InJob, schedVars
<1>2. BatchesInv'
  BY DEF BatchesInv, schedVars
<1>3. JobsInv'
  BY DEF JobsInv, Idle, Releasing, schedVars
<1>. QED  BY <1>1, <1>2, <1>3

\* The steps of the main goroutine that move no file.
LEMMA ControlStep ==
    ASSUME IndInv,
           \/ RepairFails \/ Read \/ EndApply \/ CloseBatches \/ WaitForJobs
           \/ WalkerClosed \/ Return \/ Attest \/ Cancel
           \/ \E f \in Files : RefuseFile(f)
    PROVE  IndInv'
<1>. USE FlagsAssumption
     DEF RepairFails, Read, EndApply, CloseBatches, WaitForJobs, WalkerClosed, Return,
         Attest, Cancel, RefuseFile, mainVars
<1>1. UNCHANGED <<route, accepted, inbox, walkVars, cacheVars, schedVars>>
  OBVIOUS
<1>2. (OneOwner /\ BatchesInv /\ JobsInv)'
  BY <1>1, SchedulerFrame DEF IndInv
<1>3. TypeOK'
  <2>1. (WalkTypeOK /\ CacheTypeOK /\ SchedTypeOK)'
    BY <1>1 DEF IndInv, TypeOK, WalkTypeOK, CacheTypeOK, SchedTypeOK, walkVars,
                cacheVars, schedVars
  <2>2. pc' \in PCs
    BY DEF IndInv, TypeOK, PCs
  <2>3. readErr' \in ReadErrs
    BY DEF IndInv, TypeOK, ReadErrs, ReadEnds
  <2>4. (result \in {"none", "ok", "error"})'
    BY DEF IndInv, TypeOK
  <2>5. (applyErr \in BOOLEAN)' /\ (canceled \in BOOLEAN)' /\ (attested \in BOOLEAN)'
    BY DEF IndInv, TypeOK
  <2>6. (route \in [Files -> Routes] /\ inbox \in SUBSET Files /\ accepted \in SUBSET Files)'
    BY <1>1 DEF IndInv, TypeOK, Routes
  <2>7. (pass \in {"repair", "format"})'
    BY DEF IndInv, TypeOK
  <2>. QED  BY <2>1, <2>2, <2>3, <2>4, <2>5, <2>6, <2>7 DEF TypeOK
<1>4. FilesInv' /\ CacheInv'
  BY <1>1 DEF IndInv, FilesInv, CacheInv, Batched, InJob, walkVars, cacheVars, schedVars
<1>5. MainInv'
  <2>1. AllScheduled' = AllScheduled /\ AllIdle' = AllIdle
    BY <1>1 DEF AllScheduled, AllIdle, Idle, schedVars
  <2>2. CASE Return
    <3>1. result' = "ok" => egErr = FALSE /\ formatError = FALSE
      BY <2>2 DEF RunFailed, IndInv, TypeOK, SchedTypeOK
    <3>2. result' = "ok" /\ UseCache => process = "stopped"
      BY <2>2 DEF RunFailed, WalkerCloseErr, IndInv, TypeOK, CacheTypeOK, MainInv
    <3>3. \A f \in Files : ~Batched(f) /\ ~InJob(f)
      BY <2>2 DEF IndInv, MainInv, AllScheduled, AllIdle, Idle, Batched, InJob
    <3>4. result' = "ok" => accepted = released
      BY <3>1, <3>3 DEF IndInv, FilesInv, TypeOK, SchedTypeOK
    <3>5. result' = "ok" /\ UseCache => recorded = released
      BY <3>2 DEF IndInv, CacheInv
    <3>. QED  BY <1>1, <2>1, <2>2, <3>4, <3>5 DEF IndInv, MainInv, schedVars, cacheVars
  <2>3. CASE ~Return
    BY <1>1, <2>1, <2>3 DEF IndInv, MainInv, schedVars, cacheVars
  <2>. QED  BY <2>2, <2>3
<1>. QED  BY <1>2, <1>3, <1>4, <1>5 DEF IndInv

\* The repairs: a batch of files leaves the walk, or a walk begins again.
LEMMA RepairStep ==
    ASSUME IndInv, RepairBatch \/ EndRepairs
    PROVE  IndInv'
<1>. USE FlagsAssumption DEF RepairBatch, EndRepairs, NewWalk, walkVars
<1>1. UNCHANGED <<route, accepted, cacheVars, schedVars>>
  OBVIOUS
<1>2. (OneOwner /\ BatchesInv /\ JobsInv)'
  BY <1>1, SchedulerFrame DEF IndInv
<1>3. pass = "repair" /\ accepted = {} /\ inbox' \in {{}, inbox} /\ readErr' \in ReadErrs
  BY DEF IndInv, MainInv, TypeOK, ReadErrs
<1>4. TypeOK'
  <2>1. (WalkTypeOK /\ CacheTypeOK /\ SchedTypeOK)'
    BY <1>1 DEF IndInv, TypeOK, WalkTypeOK, CacheTypeOK, SchedTypeOK, cacheVars, schedVars
  <2>2. pc' \in PCs /\ pass' \in {"repair", "format"} /\ result' \in {"none", "ok", "error"}
    BY DEF IndInv, TypeOK, PCs
  <2>3. inbox' \in SUBSET Files
    BY DEF IndInv, TypeOK
  <2>. QED  BY <1>1, <1>3, <2>1, <2>2, <2>3 DEF IndInv, TypeOK, Routes
<1>5. FilesInv' /\ CacheInv'
  <2>1. CASE RepairBatch
    BY <1>1, <1>3, <2>1 DEF IndInv, FilesInv, CacheInv, Batched, InJob, cacheVars, schedVars
  <2>2. CASE EndRepairs
    <3>1. inbox' = {}
      BY <2>2 DEF IndInv, MainInv
    <3>2. (unlisted \cap pipe = {})'
      BY <2>2 DEF IndInv, FilesInv
    <3>. QED  BY <1>1, <1>3, <3>1, <3>2 DEF IndInv, FilesInv, CacheInv, Batched, InJob,
                                            cacheVars, schedVars
  <2>. QED  BY <2>1, <2>2
<1>6. MainInv'
  <2>1. AllScheduled' = AllScheduled /\ AllIdle' = AllIdle
    BY <1>1 DEF AllScheduled, AllIdle, Idle, schedVars
  <2>. QED  BY <1>1, <1>3, <2>1 DEF IndInv, MainInv, TypeOK, cacheVars, schedVars
<1>. QED  BY <1>2, <1>4, <1>5, <1>6 DEF IndInv

\* The lister, and the main goroutine reading and skipping files.
LEMMA WalkStep ==
    ASSUME IndInv,
           \/ EndListing \/ FailListing
           \/ \E f \in Files : ListFile(f) \/ ReadFile(f) \/ SkipFile(f)
    PROVE  IndInv'
<1>. USE DEF ListFile, List, EndListing, WalkDone, FailListing, WalkFail, ReadFile,
             Take, SkipFile, mainVars
<1>1. UNCHANGED <<route, pc, accepted, result, cacheVars, schedVars>>
  OBVIOUS
<1>2. (OneOwner /\ BatchesInv /\ JobsInv)'
  BY <1>1, SchedulerFrame DEF IndInv
<1>3. TypeOK'
  BY DEF IndInv, TypeOK, WalkTypeOK, CacheTypeOK, SchedTypeOK, cacheVars, schedVars, walkVars
<1>4. FilesInv'
  BY DEF IndInv, FilesInv, Batched, InJob, walkVars, schedVars
<1>5. CacheInv' /\ MainInv'
  BY <1>1 DEF IndInv, CacheInv, MainInv, AllScheduled, AllIdle, Idle, cacheVars, schedVars
<1>. QED  BY <1>2, <1>3, <1>4, <1>5 DEF IndInv

\* The cache writer, and the main goroutine closing its channel.
LEMMA CacheStep ==
    ASSUME IndInv, (\E f \in Files : ReceiveFile(f)) \/ FlushBatch \/ CloseWalker
    PROVE  IndInv'
<1>. USE FlagsAssumption
     DEF ReceiveFile, Receive, FlushBatch, Flush, FlushFail, FlushDue, CloseWalker,
         CloseUpdates, mainVars
<1>1. UNCHANGED <<route, accepted, inbox, result, walkVars, schedVars>>
  OBVIOUS
<1>2. (OneOwner /\ BatchesInv /\ JobsInv)'
  BY <1>1, SchedulerFrame DEF IndInv
<1>3. TypeOK'
  <2>1. CacheTypeOK'
    BY DEF IndInv, TypeOK, CacheTypeOK, cacheVars
  <2>2. (WalkTypeOK /\ SchedTypeOK)'
    BY <1>1 DEF IndInv, TypeOK, WalkTypeOK, SchedTypeOK, walkVars, schedVars
  <2>3. pc' \in PCs
    BY DEF IndInv, TypeOK, PCs
  <2>. QED  BY <1>1, <2>1, <2>2, <2>3 DEF IndInv, TypeOK, Routes, ReadErrs
<1>4. FilesInv'
  BY <1>1 DEF IndInv, FilesInv, Batched, InJob, walkVars, schedVars
<1>5. CacheInv'
  BY <1>1 DEF IndInv, CacheInv, cacheVars, schedVars
<1>6. MainInv'
  <2>1. AllScheduled' = AllScheduled /\ AllIdle' = AllIdle
    BY <1>1 DEF AllScheduled, AllIdle, Idle, schedVars
  <2>2. CASE CloseWalker
    BY <1>1, <2>1, <2>2 DEF IndInv, MainInv, cacheVars, schedVars
  <2>3. CASE (\E f \in Files : ReceiveFile(f)) \/ FlushBatch
    <3>1. pc' = pc /\ chOpen' = chOpen /\ process = "running"
      BY <2>3
    <3>2. result = "ok" /\ UseCache => recorded' = recorded
      BY <2>3 DEF IndInv, MainInv, CacheInv
    <3>. QED  BY <1>1, <2>1, <3>1, <3>2 DEF IndInv, MainInv, schedVars
  <2>. QED  BY <2>2, <2>3
<1>. QED  BY <1>2, <1>3, <1>4, <1>5, <1>6 DEF IndInv

-------------------------------------------------------------------------------
(* Steps of the scheduler *)

\* A batch becomes a job of goroutine w, together with the file being submitted
\* (S = {f}) or alone (S = {}).
LEMMA StartStep ==
    ASSUME IndInv, NEW k \in Keys, NEW w \in Workers, NEW S \in SUBSET Files,
           S \subseteq inbox, \A f \in S : route[f] = k,
           pc \in {"apply", "close"},
           Start(w, k, batches[k] \cup S), batches' = [batches EXCEPT ![k] = {}],
           accepted' = accepted \cup S, inbox' = inbox \ S,
           UNCHANGED <<route, pass, pc, readErr, applyErr, canceled, result, attested>>,
           UNCHANGED <<walkVars, cacheVars>>,
           UNCHANGED <<formatError, egErr, applied, rewritten, changed, released, spoiled>>
    PROVE  IndInv'
<1>. USE SequenceAssumption, NoKeyAssumption DEF walkVars, cacheVars
<1>. DEFINE j == [key |-> k, files |-> batches[k] \cup S, step |-> 1, failed |-> FALSE]
<1>1. job[w].files = {} /\ job' = [job EXCEPT ![w] = j]
  BY DEF Start, Idle
<1>2. /\ j.key = k /\ j.files = batches[k] \cup S /\ j.step = 1 /\ ~j.failed
      /\ j \in [key : Keys \cup {NoKey}, files : SUBSET Files,
                step : Nat \ {0}, failed : BOOLEAN]
  BY DEF IndInv, TypeOK, SchedTypeOK
<1>. HIDE DEF j
<1>3. \A v \in Workers : job'[v] = IF v = w THEN j ELSE job[v]
  BY <1>1 DEF IndInv, TypeOK, SchedTypeOK
<1>4. \A l \in Keys : batches'[l] = IF l = k THEN {} ELSE batches[l]
  BY DEF IndInv, TypeOK, SchedTypeOK
<1>5. \A f \in S : /\ f \in Files /\ f \notin accepted /\ applied[f] = 0
                  /\ f \notin released \cup spoiled /\ ~Batched(f) /\ ~InJob(f)
  BY DEF IndInv, FilesInv
<1>6. \A f \in batches[k] \cup S : f \in accepted' /\ route[f] = k /\ applied[f] = 0
  BY <1>5 DEF IndInv, BatchesInv
<1>7. ASSUME NEW f \in Files
      PROVE  /\ InJob(f)' <=> (InJob(f) \/ f \in batches[k] \cup S)
             /\ Batched(f)' <=> (Batched(f) /\ f \notin batches[k])
  <2>1. InJob(f)' <=> (InJob(f) \/ f \in batches[k] \cup S)
    BY <1>1, <1>2, <1>3 DEF InJob
  <2>2. Batched(f) /\ f \notin batches[k] => Batched(f)'
    BY <1>4 DEF Batched
  <2>3. Batched(f)' => Batched(f) /\ f \notin batches[k]
    BY <1>4 DEF IndInv, OneOwner, Batched
  <2>. QED  BY <2>1, <2>2, <2>3
<1>8. TypeOK'
  <2>1. job' \in [Workers -> [key : Keys \cup {NoKey}, files : SUBSET Files,
                              step : Nat \ {0}, failed : BOOLEAN]]
    BY <1>1, <1>2 DEF IndInv, TypeOK, SchedTypeOK
  <2>2. batches' \in [Keys -> SUBSET Files]
    BY DEF IndInv, TypeOK, SchedTypeOK
  <2>. QED  BY <2>1, <2>2 DEF IndInv, TypeOK, WalkTypeOK, CacheTypeOK, SchedTypeOK, Routes
<1>9. OneOwner'
  <2>. SUFFICES ASSUME NEW f \in Files
                PROVE  /\ \A l, m \in Keys : f \in batches'[l] /\ f \in batches'[m] => l = m
                       /\ \A u, v \in Workers :
                             f \in job'[u].files /\ f \in job'[v].files => u = v
                       /\ ~(Batched(f)' /\ InJob(f)')
                       /\ f \in released \cup spoiled => ~Batched(f)' /\ ~InJob(f)'
                       /\ ~(f \in released /\ f \in spoiled)
    BY DEF OneOwner
  <2>1. f \in batches[k] \cup S => ~InJob(f) /\ f \notin released \cup spoiled
    BY <1>5 DEF IndInv, OneOwner, Batched
  <2>2. \A l, m \in Keys : f \in batches'[l] /\ f \in batches'[m] => l = m
    BY <1>4 DEF IndInv, OneOwner
  <2>3. ASSUME NEW u \in Workers, NEW v \in Workers,
               f \in job'[u].files, f \in job'[v].files
        PROVE  u = v
    BY <1>2, <1>3, <2>1, <2>3 DEF IndInv, OneOwner, InJob
  <2>4. ~(Batched(f)' /\ InJob(f)')
    BY <1>5, <1>7, <2>1 DEF IndInv, OneOwner, Batched, InJob
  <2>5. f \in released \cup spoiled => ~Batched(f)' /\ ~InJob(f)'
    <3>1. f \in released \cup spoiled => ~Batched(f) /\ ~InJob(f)
      BY DEF IndInv, OneOwner
    <3>. QED  BY <1>7, <2>1, <3>1
  <2>. QED  BY <2>2, <2>3, <2>4, <2>5 DEF IndInv, OneOwner
<1>10. BatchesInv'
  BY <1>4 DEF IndInv, BatchesInv
<1>11. JobsInv'
  <2>. SUFFICES ASSUME NEW v \in Workers, ~Idle(v)'
                PROVE  /\ job'[v].key \in Keys
                       /\ job'[v].step <= Len(Sequence[job'[v].key]) + 1
                       /\ Releasing(v)' /\ job'[v].failed => formatError
                       /\ \A f \in job'[v].files :
                             /\ f \in accepted' /\ route[f] = job'[v].key
                             /\ ~job'[v].failed => applied[f] + 1 = job'[v].step
    BY DEF JobsInv
  <2>1. CASE v = w
    <3>1. job'[v] = j /\ Len(Sequence[k]) \in Nat
      BY <1>3, <2>1
    <3>. QED  BY <1>2, <1>6, <3>1
  <2>2. CASE v # w
    BY <1>3, <2>2 DEF IndInv, JobsInv, Idle, Releasing
  <2>. QED  BY <2>1, <2>2
<1>12. FilesInv'
  <2>1. \A f \in Files : f \in accepted' <=>
           Batched(f)' \/ InJob(f)' \/ f \in released \cup spoiled
    <3>. TAKE f \in Files
    <3>1. f \in accepted' <=> f \in accepted \/ f \in S
      OBVIOUS
    <3>2. f \in batches[k] => Batched(f)
      BY DEF Batched
    <3>3. f \in accepted <=> Batched(f) \/ InJob(f) \/ f \in released \cup spoiled
      BY DEF IndInv, FilesInv
    <3>. QED  BY <1>7, <3>1, <3>2, <3>3
  <2>. QED  BY <1>5, <2>1 DEF IndInv, FilesInv
<1>13. CacheInv' /\ MainInv'
  BY DEF IndInv, CacheInv, MainInv
<1>. QED  BY <1>8, <1>9, <1>10, <1>11, <1>12, <1>13 DEF IndInv

\* A file joins the batch of its key.
LEMMA SubmitFileStep ==
    ASSUME IndInv, NEW f \in Files, SubmitFile(f)
    PROVE  IndInv'
<1>1. /\ pc = "apply" /\ f \in inbox /\ route[f] \in Keys
      /\ inbox' = inbox \ {f} /\ accepted' = accepted \cup {f}
      /\ UNCHANGED <<route, pass, pc, readErr, applyErr, canceled, result, attested>>
      /\ UNCHANGED <<walkVars, cacheVars>>
      /\ UNCHANGED <<formatError, egErr, applied, rewritten, changed, released, spoiled>>
  BY DEF SubmitFile, Submit
<1>2. CASE FillBatch(f, route[f])
  <2>1. PICK w \in Workers : Start(w, route[f], batches[route[f]] \cup {f})
    BY <1>2 DEF FillBatch
  <2>2. batches' = [batches EXCEPT ![route[f]] = {}]
    BY <1>2 DEF FillBatch
  <2>3. {f} \in SUBSET Files /\ {f} \subseteq inbox /\ \A g \in {f} : route[g] = route[f]
    BY <1>1
  <2>. QED  BY <1>1, <2>1, <2>2, <2>3, StartStep
<1>3. CASE Append1(f, route[f])
  <2>. DEFINE k == route[f]
  <2>1. job' = job /\ batches' = [batches EXCEPT ![k] = batches[k] \cup {f}] /\ k \in Keys
    BY <1>1, <1>3 DEF Append1
  <2>. HIDE DEF k
  <2>2. \A l \in Keys : batches'[l] = IF l = k THEN batches[l] \cup {f} ELSE batches[l]
    BY <2>1 DEF IndInv, TypeOK, SchedTypeOK
  <2>3. /\ f \notin accepted /\ applied[f] = 0 /\ f \notin released \cup spoiled
        /\ ~Batched(f) /\ ~InJob(f)
    BY <1>1 DEF IndInv, FilesInv
  <2>4. ASSUME NEW g \in Files
        PROVE  /\ InJob(g)' <=> InJob(g)
               /\ Batched(g)' <=> (Batched(g) \/ g = f)
    BY <2>1, <2>2 DEF InJob, Batched
  <2>5. TypeOK'
    BY <1>1, <2>1 DEF IndInv, TypeOK, WalkTypeOK, CacheTypeOK, SchedTypeOK, Routes,
                      walkVars, cacheVars
  <2>6. OneOwner'
    BY <1>1, <2>1, <2>2, <2>3, <2>4 DEF IndInv, OneOwner, Batched, InJob
  <2>7. BatchesInv'
    <3>. SUFFICES ASSUME NEW l \in Keys, NEW g \in batches'[l]
                  PROVE  g \in accepted' /\ route'[g] = l /\ applied'[g] = 0
      BY DEF BatchesInv
    <3>1. CASE g \in batches[l]
      BY <1>1, <3>1 DEF IndInv, BatchesInv
    <3>2. CASE g \notin batches[l]
      <4>1. g = f /\ l = k
        BY <2>2, <3>2
      <4>. QED  BY <1>1, <2>3, <4>1 DEF k
    <3>. QED  BY <3>1, <3>2
  <2>8. JobsInv'
    BY <1>1, <2>1 DEF IndInv, JobsInv, Idle, Releasing
  <2>9. FilesInv'
    <3>1. \A g \in Files : g \in accepted' <=>
             Batched(g)' \/ InJob(g)' \/ g \in released \cup spoiled
      <4>. TAKE g \in Files
      <4>1. g \in accepted <=> Batched(g) \/ InJob(g) \/ g \in released \cup spoiled
        BY DEF IndInv, FilesInv
      <4>. QED  BY <1>1, <2>4, <4>1
    <3>. QED  BY <1>1, <3>1 DEF IndInv, FilesInv, walkVars
  <2>10. CacheInv' /\ MainInv'
    BY <1>1 DEF IndInv, CacheInv, MainInv, cacheVars
  <2>. QED  BY <2>5, <2>6, <2>7, <2>8, <2>9, <2>10 DEF IndInv
<1>. QED  BY <1>2, <1>3 DEF SubmitFile, Submit

\* formatter.Close schedules a partial batch.
LEMMA CloseBatchStep ==
    ASSUME IndInv, NEW k \in Keys, CloseBatch(k)
    PROVE  IndInv'
<1>1. PICK w \in Workers : Start(w, k, batches[k] \cup {})
  BY DEF CloseBatch, ScheduleRest
<1>2. /\ pc \in {"apply", "close"} /\ batches' = [batches EXCEPT ![k] = {}]
      /\ accepted' = accepted \cup {} /\ inbox' = inbox \ {}
      /\ UNCHANGED <<route, pass, pc, readErr, applyErr, canceled, result, attested>>
      /\ UNCHANGED <<walkVars, cacheVars>>
      /\ UNCHANGED <<formatError, egErr, applied, rewritten, changed, released, spoiled>>
  BY DEF CloseBatch, ScheduleRest, mainVars
<1>3. {} \in SUBSET Files /\ {} \subseteq inbox /\ \A f \in {} : route[f] = k
  OBVIOUS
<1>. QED  BY <1>1, <1>2, <1>3, StartStep

\* A formatter runs over a batch, and fails on some of its files.
LEMMA RunFormatterStep ==
    ASSUME IndInv, NEW w \in Workers, RunFormatter(w)
    PROVE  IndInv'
<1>. USE SequenceAssumption, NoKeyAssumption
<1>0. PICK bad \in FailureSets(w) : \E partly \in {{}, bad} : ApplyFormatter(w, bad, partly)
  BY DEF RunFormatter
<1>1. PICK partly \in {{}, bad} : ApplyFormatter(w, bad, partly)
  BY <1>0
<1>. DEFINE failed == job[w].failed \/ bad # {}
            j == [job[w] EXCEPT !.step = job[w].step + 1, !.failed = failed]
<1>2. /\ UNCHANGED <<route, pass, pc, inbox, readErr, applyErr, canceled, accepted, result, attested>>
      /\ UNCHANGED <<unlisted, pipe, walker>>
      /\ UNCHANGED <<updateCh, chOpen, pending, process, recorded>>
      /\ UNCHANGED <<batches, egErr, changed, released, spoiled>>
  BY <1>1 DEF RunFormatter, ApplyFormatter, mainVars, walkVars, cacheVars
<1>3. /\ job[w].files # {} /\ job[w].key \in Keys
      /\ job[w].step <= Len(Sequence[job[w].key])
      /\ bad \subseteq job[w].files
      /\ job[w].step \in Nat \ {0} /\ Len(Sequence[job[w].key]) \in Nat
      /\ job[w].failed \in BOOLEAN
  BY <1>1 DEF IndInv, JobsInv, TypeOK, SchedTypeOK, ApplyFormatter, Formatting, Idle,
              FailureSets
<1>4. /\ job' = [job EXCEPT ![w] = j]
      /\ applied' = [f \in Files |->
                        IF f \in job[w].files \ bad THEN applied[f] + 1 ELSE applied[f]]
      /\ rewritten' = rewritten \cup (Unformatted \cap ((job[w].files \ bad) \cup partly))
      /\ formatError' = (formatError \/ (failed /\ job[w].step = Len(Sequence[job[w].key])))
  BY <1>1 DEF ApplyFormatter, IndInv, TypeOK, SchedTypeOK
<1>5. \A v \in Workers : job'[v] = IF v = w THEN j ELSE job[v]
  BY <1>4 DEF IndInv, TypeOK, SchedTypeOK
<1>6. /\ j.key = job[w].key /\ j.files = job[w].files
      /\ j.step = job[w].step + 1 /\ j.failed = failed
  BY DEF IndInv, TypeOK, SchedTypeOK
<1>7. \A v \in Workers : job'[v].files = job[v].files
  BY <1>5, <1>6
<1>8. TypeOK'
  <2>1. job' \in [Workers -> [key : Keys \cup {NoKey}, files : SUBSET Files,
                              step : Nat \ {0}, failed : BOOLEAN]]
    <3>1. j \in [key : Keys \cup {NoKey}, files : SUBSET Files,
                step : Nat \ {0}, failed : BOOLEAN]
      <4>1. job[w] \in [key : Keys \cup {NoKey}, files : SUBSET Files,
                       step : Nat \ {0}, failed : BOOLEAN]
        BY DEF IndInv, TypeOK, SchedTypeOK
      <4>2. failed \in BOOLEAN /\ job[w].step + 1 \in Nat \ {0}
        BY <1>3
      <4>. HIDE DEF failed
      <4>. QED  BY <4>1, <4>2
    <3>. HIDE DEF j
    <3>. QED  BY <1>4, <3>1 DEF IndInv, TypeOK, SchedTypeOK
  <2>2. applied' \in [Files -> Nat]
    BY <1>4 DEF IndInv, TypeOK, SchedTypeOK
  <2>3. rewritten' \in SUBSET Files /\ formatError' \in BOOLEAN
    BY <1>4, UnformattedAssumption DEF IndInv, TypeOK, SchedTypeOK
  <2>. QED  BY <1>2, <2>1, <2>2, <2>3 DEF IndInv, TypeOK, WalkTypeOK, CacheTypeOK,
                                         SchedTypeOK, Routes
<1>9. OneOwner'
  BY <1>2, <1>7 DEF IndInv, OneOwner, Batched, InJob
<1>10. \A f \in Files : f \notin job[w].files => applied'[f] = applied[f]
  BY <1>4
<1>11. \A f \in job[w].files : InJob(f)
  BY DEF InJob
<1>12. BatchesInv'
  <2>1. \A k \in Keys : \A f \in batches[k] : f \in Files /\ f \notin job[w].files
    BY <1>11 DEF IndInv, OneOwner, Batched, TypeOK, SchedTypeOK
  <2>. QED  BY <1>2, <1>10, <2>1 DEF IndInv, BatchesInv
<1>13. JobsInv'
  <2>. SUFFICES ASSUME NEW v \in Workers, job'[v].files # {}
                PROVE  /\ job'[v].key \in Keys
                       /\ job'[v].step <= Len(Sequence[job'[v].key]) + 1
                       /\ job'[v].step > Len(Sequence[job'[v].key]) /\ job'[v].failed
                             => formatError'
                       /\ \A f \in job'[v].files :
                             /\ f \in accepted /\ route[f] = job'[v].key
                             /\ ~job'[v].failed => applied'[f] + 1 = job'[v].step
    BY <1>2 DEF JobsInv, Idle, Releasing
  <2>1. CASE v = w
    <3>1. job'[v] = j
      BY <1>5, <2>1
    <3>2. \A f \in job[w].files : f \in Files /\ f \in accepted /\ route[f] = job[w].key
                                 /\ (~job[w].failed => applied[f] + 1 = job[w].step)
      BY <1>3 DEF IndInv, JobsInv, Idle, TypeOK, SchedTypeOK
    <3>3. j.step <= Len(Sequence[j.key]) + 1
      BY <1>3, <1>6
    <3>4. ASSUME j.step > Len(Sequence[j.key]), failed PROVE formatError'
      <4>1. job[w].step = Len(Sequence[job[w].key])
        BY <1>3, <1>6, <3>4
      <4>. QED  BY <1>4, <3>4, <4>1, Zenon
    <3>5. ASSUME NEW f \in job[w].files, ~failed
          PROVE  applied'[f] + 1 = job[w].step + 1
      <4>1. bad = {} /\ f \in Files /\ applied[f] + 1 = job[w].step
        BY <3>2, <3>5
      <4>2. applied'[f] = applied[f] + 1
        BY <1>4, <4>1
      <4>. QED  BY <4>1, <4>2
    <3>. QED  BY <1>3, <1>6, <3>1, <3>2, <3>3, <3>4, <3>5
  <2>2. CASE v # w
    <3>1. job'[v] = job[v]
      BY <1>5, <2>2
    <3>2. \A f \in job[v].files : f \in Files /\ f \notin job[w].files
      BY <2>2 DEF IndInv, OneOwner, TypeOK, SchedTypeOK
    <3>3. formatError => formatError'
      BY <1>4
    <3>. QED  BY <1>10, <3>1, <3>2, <3>3 DEF IndInv, JobsInv, Idle, Releasing
  <2>. QED  BY <2>1, <2>2
<1>14. FilesInv'
  <2>1. \A f \in Files : Batched(f)' = Batched(f) /\ InJob(f)' = InJob(f)
    BY <1>2, <1>7 DEF Batched, InJob
  <2>2. \A f \in released : f \in Files /\ f \notin job[w].files
    BY <1>11 DEF IndInv, OneOwner, TypeOK, SchedTypeOK
  <2>3. \A f \in Files \ accepted : f \notin job[w].files
    BY <1>3 DEF IndInv, JobsInv, Idle
  <2>4. formatError => formatError'
    BY <1>4
  <2>. QED  BY <1>2, <1>10, <2>1, <2>2, <2>3, <2>4 DEF IndInv, FilesInv
<1>15. CacheInv'
  BY <1>2 DEF IndInv, CacheInv
<1>16. MainInv'
  BY <1>2, <1>7 DEF IndInv, MainInv, AllScheduled, AllIdle, Idle
<1>. QED  BY <1>8, <1>9, <1>12, <1>13, <1>14, <1>15, <1>16 DEF IndInv

\* Stat and Release of one file, which leaves its job for the cache writer's
\* channel, or for good.
LEMMA ReleaseFileStep ==
    ASSUME IndInv, NEW w \in Workers, NEW f \in Files, ReleaseFile(w, f)
    PROVE  IndInv'
<1>. USE SequenceAssumption, NoKeyAssumption, FlagsAssumption
<1>. DEFINE j == IF job[w].files = {f} THEN NoJob
                 ELSE [job[w] EXCEPT !.files = @ \ {f}]
<1>1. /\ UNCHANGED <<route, pass, pc, inbox, readErr, applyErr, canceled, accepted, result, attested>>
      /\ UNCHANGED <<unlisted, pipe, walker>>
      /\ UNCHANGED <<chOpen, pending, process, recorded>>
      /\ UNCHANGED <<batches, formatError, egErr, applied, rewritten>>
      /\ changed' = changed \cup (({f} \cap rewritten) \ Invisible)
  BY DEF ReleaseFile, StatAndRelease, Send, mainVars, walkVars, cacheVars
<1>2. /\ f \in job[w].files /\ ~Idle(w) /\ job[w].key \in Keys
      /\ job[w].step = Len(Sequence[job[w].key]) + 1
      /\ Len(Sequence[job[w].key]) \in Nat
      /\ job[w].failed => formatError
      /\ f \in accepted /\ route[f] = job[w].key
      /\ ~job[w].failed => applied[f] = Len(Sequence[route[f]])
  <2>1. f \in job[w].files /\ Releasing(w) /\ ~Idle(w)
    BY DEF ReleaseFile, StatAndRelease, Releasing
  <2>2. job[w].key \in Keys
    BY <2>1 DEF IndInv, JobsInv
  <2>3. /\ Len(Sequence[job[w].key]) \in Nat
        /\ job[w].step = Len(Sequence[job[w].key]) + 1
    BY <2>1, <2>2 DEF Releasing, IndInv, JobsInv, TypeOK, SchedTypeOK
  <2>4. /\ job[w].failed => formatError
        /\ f \in accepted /\ route[f] = job[w].key
        /\ ~job[w].failed => applied[f] + 1 = job[w].step
    BY <2>1 DEF IndInv, JobsInv
  <2>5. applied[f] \in Nat
    BY DEF IndInv, TypeOK, SchedTypeOK
  <2>6. ~job[w].failed => applied[f] = Len(Sequence[route[f]])
    BY <2>3, <2>4, <2>5
  <2>. QED  BY <2>1, <2>2, <2>3, <2>4, <2>6
<1>3. IF job[w].failed
      THEN spoiled' = spoiled \cup {f} /\ released' = released
      ELSE released' = released \cup {f} /\ spoiled' = spoiled
  BY DEF ReleaseFile, StatAndRelease
<1>4. updateCh' = IF UseCache /\ ~job[w].failed THEN updateCh \cup {f} ELSE updateCh
  BY DEF ReleaseFile, Send, cacheVars
<1>5. job' = [job EXCEPT ![w] = j]
  <2>1. Leave(w, {f})
    BY DEF ReleaseFile, StatAndRelease
  <2>2. CASE job[w].files = {f}
    BY <2>1, <2>2 DEF Leave
  <2>3. CASE job[w].files # {f}
    BY <2>1, <2>3 DEF Leave
  <2>. QED  BY <2>2, <2>3
<1>6. /\ j \in [key : Keys \cup {NoKey}, files : SUBSET Files,
                step : Nat \ {0}, failed : BOOLEAN]
      /\ j.files = job[w].files \ {f}
      /\ j.files # {} => j.key = job[w].key /\ j.step = job[w].step /\ j.failed = job[w].failed
  <2>1. job[w] \in [key : Keys \cup {NoKey}, files : SUBSET Files,
                   step : Nat \ {0}, failed : BOOLEAN]
    BY DEF IndInv, TypeOK, SchedTypeOK
  <2>2. CASE job[w].files = {f}
    BY <2>2 DEF NoJob
  <2>3. CASE job[w].files # {f}
    BY <2>1, <2>3
  <2>. QED  BY <2>2, <2>3
<1>. HIDE DEF j
<1>7. \A v \in Workers : job'[v] = IF v = w THEN j ELSE job[v]
  BY <1>5 DEF IndInv, TypeOK, SchedTypeOK
<1>8. ~Batched(f) /\ \A v \in Workers : f \in job[v].files => v = w
  BY <1>2 DEF IndInv, OneOwner, InJob
<1>9. ASSUME NEW g \in Files
      PROVE  /\ Batched(g)' <=> Batched(g)
             /\ InJob(g)' <=> (InJob(g) /\ g # f)
             /\ g \in (released \cup spoiled)' <=> (g \in released \cup spoiled \/ g = f)
  <2>1. Batched(g)' <=> Batched(g)
    BY <1>1 DEF Batched
  <2>2. InJob(g)' <=> (InJob(g) /\ g # f)
    BY <1>6, <1>7, <1>8 DEF InJob
  <2>3. g \in (released \cup spoiled)' <=> (g \in released \cup spoiled \/ g = f)
    BY <1>3
  <2>. QED  BY <2>1, <2>2, <2>3
<1>10. f \notin released \cup spoiled
  BY <1>2 DEF IndInv, OneOwner, InJob
<1>11. TypeOK'
  <2>1. job' \in [Workers -> [key : Keys \cup {NoKey}, files : SUBSET Files,
                              step : Nat \ {0}, failed : BOOLEAN]]
    BY <1>5, <1>6 DEF IndInv, TypeOK, SchedTypeOK
  <2>2. updateCh' \in SUBSET Files /\ released' \in SUBSET Files /\ spoiled' \in SUBSET Files
    BY <1>3, <1>4 DEF IndInv, TypeOK, SchedTypeOK, CacheTypeOK
  <2>3. changed' \in SUBSET Files
    BY <1>1 DEF IndInv, TypeOK, SchedTypeOK
  <2>. QED  BY <1>1, <2>1, <2>2, <2>3 DEF IndInv, TypeOK, WalkTypeOK, CacheTypeOK,
                                         SchedTypeOK, Routes
<1>12. OneOwner'
  <2>. SUFFICES ASSUME NEW g \in Files
                PROVE  /\ \A k, l \in Keys : g \in batches'[k] /\ g \in batches'[l] => k = l
                       /\ \A u, v \in Workers :
                             g \in job'[u].files /\ g \in job'[v].files => u = v
                       /\ ~(Batched(g)' /\ InJob(g)')
                       /\ g \in (released \cup spoiled)' => ~Batched(g)' /\ ~InJob(g)'
                       /\ ~(g \in released' /\ g \in spoiled')
    BY DEF OneOwner
  <2>1. \A u, v \in Workers : g \in job'[u].files /\ g \in job'[v].files => u = v
    BY <1>6, <1>7 DEF IndInv, OneOwner
  <2>2. /\ ~(Batched(g) /\ InJob(g))
        /\ g \in released \cup spoiled => ~Batched(g) /\ ~InJob(g)
        /\ ~(g \in released /\ g \in spoiled)
        /\ \A k, l \in Keys : g \in batches[k] /\ g \in batches[l] => k = l
    BY DEF IndInv, OneOwner
  <2>3. ~(g \in released' /\ g \in spoiled')
    BY <1>3, <1>10, <2>2
  <2>. QED  BY <1>1, <1>8, <1>9, <2>1, <2>2, <2>3
<1>13. BatchesInv'
  BY <1>1 DEF IndInv, BatchesInv
<1>14. JobsInv'
  <2>. SUFFICES ASSUME NEW v \in Workers, ~Idle(v)'
                PROVE  /\ job'[v].key \in Keys
                       /\ job'[v].step <= Len(Sequence[job'[v].key]) + 1
                       /\ Releasing(v)' /\ job'[v].failed => formatError'
                       /\ \A g \in job'[v].files :
                             /\ g \in accepted' /\ route'[g] = job'[v].key
                             /\ ~job'[v].failed => applied'[g] + 1 = job'[v].step
    BY DEF JobsInv
  <2>1. CASE v = w
    <3>1. job'[v] = j /\ j.files # {} /\ Idle(w) = (job[w].files = {})
      BY <1>7, <2>1 DEF Idle
    <3>2. j.key = job[w].key /\ j.step = job[w].step /\ j.failed = job[w].failed
          /\ j.files \subseteq job[w].files
      BY <1>6, <3>1
    <3>. QED  BY <1>1, <1>2, <3>1, <3>2 DEF IndInv, JobsInv, Releasing
  <2>2. CASE v # w
    BY <1>1, <1>7, <2>2 DEF IndInv, JobsInv, Idle, Releasing
  <2>. QED  BY <2>1, <2>2
<1>15. FilesInv'
  <2>1. ASSUME NEW g \in Files
        PROVE  g \in accepted' <=> Batched(g)' \/ InJob(g)' \/ g \in (released \cup spoiled)'
    <3>1. g \in accepted <=> Batched(g) \/ InJob(g) \/ g \in released \cup spoiled
      BY DEF IndInv, FilesInv
    <3>. QED  BY <1>1, <1>2, <1>9, <3>1
  <2>2. (spoiled # {} => egErr \/ formatError)'
    BY <1>1, <1>2, <1>3 DEF IndInv, FilesInv
  <2>3. \A g \in released' : applied'[g] = Len(Sequence[route'[g]])
    BY <1>1, <1>2, <1>3 DEF IndInv, FilesInv
  <2>. QED  BY <1>1, <2>1, <2>2, <2>3 DEF IndInv, FilesInv
<1>16. CacheInv'
  <2>1. process # "stopped"
    BY <1>2 DEF IndInv, MainInv, CacheInv, AllIdle
  <2>2. updateCh' \cup pending' \cup recorded' = (IF UseCache THEN released' ELSE {})
    BY <1>1, <1>3, <1>4 DEF IndInv, CacheInv
  <2>. QED  BY <1>1, <2>1, <2>2 DEF CacheInv
<1>17. MainInv'
  <2>1. pc \notin {"repair", "repairEnds", "repairFails", "closeWalker", "closing", "return",
                  "attest", "done"} /\ pass # "repair" /\ result = "none"
    BY <1>2 DEF IndInv, MainInv, AllIdle, TypeOK
  <2>2. AllScheduled' = AllScheduled
    BY <1>1 DEF AllScheduled
  <2>. QED  BY <1>1, <2>1, <2>2 DEF IndInv, MainInv
<1>. QED  BY <1>11, <1>12, <1>13, <1>14, <1>15, <1>16, <1>17 DEF IndInv

\* Stat fails: the job ends with its error, and its files are abandoned.
LEMMA FailStatStep ==
    ASSUME IndInv, NEW w \in Workers, FailStat(w)
    PROVE  IndInv'
<1>. USE SequenceAssumption, NoKeyAssumption
<1>1. /\ UNCHANGED <<route, pass, pc, inbox, readErr, applyErr, canceled, accepted, result, attested>>
      /\ UNCHANGED <<unlisted, pipe, walker>>
      /\ UNCHANGED <<updateCh, chOpen, pending, process, recorded>>
      /\ UNCHANGED <<batches, formatError, applied, rewritten, changed, released>>
      /\ egErr' = TRUE /\ spoiled' = spoiled \cup job[w].files
  BY DEF FailStat, StatFails, mainVars, walkVars, cacheVars
<1>2. ~Idle(w) /\ job[w].files \subseteq accepted
  BY DEF FailStat, StatFails, Releasing, IndInv, JobsInv
<1>3. NoJob.files = {} /\ NoJob \in [key : Keys \cup {NoKey}, files : SUBSET Files,
                                    step : Nat \ {0}, failed : BOOLEAN]
  BY DEF NoJob
<1>4. job' = [job EXCEPT ![w] = NoJob]
  BY DEF FailStat, StatFails, Leave
<1>5. \A v \in Workers : job'[v] = IF v = w THEN NoJob ELSE job[v]
  BY <1>4 DEF IndInv, TypeOK, SchedTypeOK
<1>6. ASSUME NEW g \in Files
      PROVE  /\ Batched(g)' <=> Batched(g)
             /\ InJob(g)' <=> (InJob(g) /\ g \notin job[w].files)
             /\ g \in job[w].files => InJob(g)
  <2>1. Batched(g)' <=> Batched(g)
    BY <1>1 DEF Batched
  <2>2. InJob(g)' <=> (InJob(g) /\ g \notin job[w].files)
    BY <1>3, <1>5 DEF InJob, IndInv, OneOwner
  <2>3. g \in job[w].files => InJob(g)
    BY DEF InJob
  <2>. QED  BY <2>1, <2>2, <2>3
<1>7. TypeOK'
  <2>1. job' \in [Workers -> [key : Keys \cup {NoKey}, files : SUBSET Files,
                              step : Nat \ {0}, failed : BOOLEAN]]
    BY <1>3, <1>4 DEF IndInv, TypeOK, SchedTypeOK
  <2>2. spoiled' \in SUBSET Files
    BY <1>1 DEF IndInv, TypeOK, SchedTypeOK
  <2>. QED  BY <1>1, <2>1, <2>2 DEF IndInv, TypeOK, WalkTypeOK, CacheTypeOK, SchedTypeOK, Routes
<1>8. OneOwner'
  <2>. SUFFICES ASSUME NEW g \in Files
                PROVE  /\ \A k, l \in Keys : g \in batches'[k] /\ g \in batches'[l] => k = l
                       /\ \A u, v \in Workers :
                             g \in job'[u].files /\ g \in job'[v].files => u = v
                       /\ ~(Batched(g)' /\ InJob(g)')
                       /\ g \in (released \cup spoiled)' => ~Batched(g)' /\ ~InJob(g)'
                       /\ ~(g \in released' /\ g \in spoiled')
    BY DEF OneOwner
  <2>1. \A u, v \in Workers : g \in job'[u].files /\ g \in job'[v].files => u = v
    BY <1>3, <1>5 DEF IndInv, OneOwner
  <2>2. /\ ~(Batched(g) /\ InJob(g))
        /\ g \in released \cup spoiled => ~Batched(g) /\ ~InJob(g)
        /\ ~(g \in released /\ g \in spoiled)
        /\ \A k, l \in Keys : g \in batches[k] /\ g \in batches[l] => k = l
    BY DEF IndInv, OneOwner
  <2>. QED  BY <1>1, <1>6, <2>1, <2>2
<1>9. BatchesInv'
  BY <1>1 DEF IndInv, BatchesInv
<1>10. JobsInv'
  BY <1>1, <1>3, <1>5 DEF IndInv, JobsInv, Idle, Releasing
<1>11. FilesInv'
  <2>1. ASSUME NEW g \in Files
        PROVE  g \in accepted' <=> Batched(g)' \/ InJob(g)' \/ g \in (released \cup spoiled)'
    <3>1. g \in accepted <=> Batched(g) \/ InJob(g) \/ g \in released \cup spoiled
      BY DEF IndInv, FilesInv
    <3>. QED  BY <1>1, <1>6, <3>1
  <2>. QED  BY <1>1, <2>1 DEF IndInv, FilesInv
<1>12. CacheInv'
  BY <1>1 DEF IndInv, CacheInv
<1>13. MainInv'
  <2>1. pc \notin {"repair", "repairEnds", "repairFails", "closeWalker", "closing", "return",
                  "attest", "done"} /\ pass # "repair" /\ result = "none"
    BY <1>2 DEF IndInv, MainInv, AllIdle, TypeOK
  <2>2. AllScheduled' = AllScheduled
    BY <1>1 DEF AllScheduled
  <2>. QED  BY <1>1, <2>1, <2>2 DEF IndInv, MainInv
<1>. QED  BY <1>7, <1>8, <1>9, <1>10, <1>11, <1>12, <1>13 DEF IndInv

-------------------------------------------------------------------------------
(* The invariant, and what it implies *)

LEMMA NextIndInv == IndInv /\ [Next]_vars => IndInv'
<1>. SUFFICES ASSUME IndInv, [Next]_vars PROVE IndInv'
  OBVIOUS
<1>1. CASE Main
  BY <1>1, ControlStep, RepairStep, WalkStep, CacheStep, SubmitFileStep, CloseBatchStep DEF Main
<1>2. CASE Lister
  BY <1>2, WalkStep DEF Lister
<1>3. CASE \E w \in Workers : Worker(w)
  BY <1>3, RunFormatterStep, ReleaseFileStep, FailStatStep DEF Worker
<1>4. CASE CacheWriter
  BY <1>4, CacheStep DEF CacheWriter
<1>5. CASE Cancel
  BY <1>5, ControlStep
<1>6. CASE UNCHANGED vars
  <2>. USE <1>6 DEF vars, mainVars, walkVars, cacheVars, schedVars
  <2>1. (OneOwner /\ BatchesInv /\ JobsInv)'
    BY SchedulerFrame DEF IndInv
  <2>2. TypeOK'
    BY DEF IndInv, TypeOK, WalkTypeOK, CacheTypeOK, SchedTypeOK, Routes
  <2>3. (FilesInv /\ CacheInv)'
    BY DEF IndInv, FilesInv, CacheInv, Batched, InJob
  <2>4. MainInv'
    BY DEF IndInv, MainInv, AllScheduled, AllIdle, Idle
  <2>. QED  BY <2>1, <2>2, <2>3, <2>4 DEF IndInv
<1>. QED  BY <1>1, <1>2, <1>3, <1>4, <1>5, <1>6 DEF Next, Step, Exited

LEMMA Invariance == Spec => []IndInv
  BY InitIndInv, NextIndInv, PTL DEF Spec

\* Every reachable state is well typed.
THEOREM TypeCorrect == Spec => []TypeOK
<1>1. IndInv => TypeOK
  BY DEF IndInv
<1>. QED  BY <1>1, Invariance, PTL

\* No file is ever in two batches or two jobs, or back in one once released:
\* the scheduler never lets two formatters loose on one file at a time.
THEOREM FilesHaveOneOwner == Spec => []OneOwner
<1>1. IndInv => OneOwner
  BY DEF IndInv
<1>. QED  BY <1>1, Invariance, PTL

\* Whatever fails and however the goroutines interleave, a cache entry is only
\* written for a file every formatter of its sequence has succeeded on.
THEOREM CacheIsTruthful == Spec => []RecordedWasFormatted
<1>1. IndInv => RecordedWasFormatted
  BY FlagsAssumption DEF IndInv, TypeOK, SchedTypeOK, OneOwner, FilesInv, CacheInv,
                         RecordedWasFormatted
<1>. QED  BY <1>1, Invariance, PTL

\* The release hooks never send on the closed channel.
THEOREM NoSendOnClosedChannel == Spec => []NoReleaseAfterClose
<1>1. IndInv => NoReleaseAfterClose
  BY DEF IndInv, MainInv, NoReleaseAfterClose
<1>. QED  BY <1>1, Invariance, PTL

\* Success means that every accepted file was formatted and, with a cache,
\* recorded.
THEOREM SuccessIsHonest == Spec => []SuccessIsSound
<1>1. IndInv => SuccessIsSound
  BY FlagsAssumption DEF IndInv, FilesInv, MainInv, SuccessIsSound
<1>. QED  BY <1>1, Invariance, PTL
===============================================================================
