------------------------------ MODULE CachedRepair ------------------------------
(***************************************************************************)
(* A run in repair mode as the cache sees it: what it skips, and what it   *)
(* records (runWithObserver, scheduler.submit, walk.File).  FormatRun      *)
(* models the same run's goroutines.                                       *)
(***************************************************************************)
EXTENDS CacheRuns

restVars == <<pc, exit, stamps, touched, cut>>

\* runWithObserver: clear and open the cache, which may fail; compare the identity
\* with the one that the last successful run has left, if it can be read.
StartRepair(c, S, isCached, clear, refuse) ==
    /\ Begin("repair", c, S, isCached)
    /\ OpenCache(clear)
    /\ LET mismatch == isCached /\ refuse /\ attested' \notin {"none", c}
       IN  \/ mismatch /\ Finish("mismatch")
           \/ isCached /\ "db" \in Faults /\ Finish("failed")
           \/ (mismatch => "db" \in Faults) /\ pc' = "repair" /\ exit' = "none" /\ NoFiles
    /\ UNCHANGED treeVars

\* A linter's repair rewrites or creates a file, in the scope or outside of it.
LinterRepairs(f) ==
    /\ lane = "repair" /\ pc = "repair"
    /\ fate[f] = "out"
    /\ \E new \in Contents, t \in Seconds :
          /\ new.text # content[f].text /\ new.style = "none"
          /\ Write(f, new, t, FALSE)
    /\ Becomes(f, "repaired")
    /\ UNCHANGED <<cacheVars, runVars, restVars>>

\* A repair fails, or the walk for the repairs does.
RepairFails ==
    /\ lane = "repair" /\ pc = "repair"
    /\ "tool" \in Faults
    /\ Finish("failed")
    /\ UNCHANGED <<treeVars, cacheVars, runVars, touched, cut>>

StartWalk ==
    /\ lane = "repair" /\ pc = "repair"
    /\ pc' = "walk"
    /\ fate' = Listed(scope)
    /\ UNCHANGED <<treeVars, cacheVars, runVars, exit, stamps, touched, cut>>

\* Mutant of Submit: the entry is compared by the stamp alone.
SubmitByStamp(f) ==
    /\ lane = "repair" /\ pc = "walk"
    /\ fate[f] = "todo"
    /\ IF f \in Present
       THEN /\ stamps' = [stamps EXCEPT ![f] = Stamp(f)]
            /\ Becomes(f, IF cached /\ paths[f] # None /\ paths[f][2] = Stamp(f)
                          THEN "skipped" ELSE "accepted")
       ELSE Becomes(f, "out") /\ UNCHANGED stamps
    /\ UNCHANGED <<treeVars, cacheVars, runVars, pc, exit, touched, cut>>

\* The walk stats f and reads its cache entry; submit skips it when that is the
\* signature of what it has seen.  A file that has gone is not listed.
Submit(f) ==
    /\ lane = "repair" /\ pc = "walk"
    /\ fate[f] = "todo"
    /\ IF f \in Present
       THEN /\ stamps' = [stamps EXCEPT ![f] = Stamp(f)]
            /\ Becomes(f, IF cached /\ paths[f] = FileSignature(config, Stamp(f))
                          THEN "skipped" ELSE "accepted")
       ELSE Becomes(f, "out") /\ UNCHANGED stamps
    /\ UNCHANGED <<treeVars, cacheVars, runVars, pc, exit, touched, cut>>

\* The formatters write f in their style ("none": one of them fails half-way).
Rewrite(f, style) ==
    \E new \in Contents, t \in Seconds :
        /\ new.text = content[f].text /\ new.style = style
        /\ Write(f, new, t, FALSE)

\* The formatters write f, or leave it alone when it is in their style; one of them
\* fails, on this file or another of its batch, with f rewritten or not.
Format(f) ==
    /\ lane = "repair" /\ pc = "walk"
    /\ fate[f] = "accepted"
    /\ \/ f \in Present /\ Rewrite(f, config) /\ Becomes(f, "formatted")
       \/ f \in Present /\ content[f].style = config
          /\ UNCHANGED treeVars /\ Becomes(f, "formatted")
       \/ /\ f \in Present /\ "tool" \in Faults /\ Becomes(f, "failed")
          /\ Rewrite(f, "none") \/ Rewrite(f, config)
       \/ (f \notin Present \/ "tool" \in Faults)
          /\ UNCHANGED treeVars /\ Becomes(f, "failed")
    /\ UNCHANGED <<cacheVars, runVars, restVars>>

Remember(f) ==
    paths' = IF cached THEN [paths EXCEPT ![f] = FileSignature(config, Stamp(f))] ELSE paths

\* Mutants of Record: the error of the stat is not looked at; what a formatter has
\* failed on is recorded as well.
RecordUnseen(f) ==
    /\ lane = "repair" /\ pc = "walk" /\ fate[f] = "formatted"
    /\ Becomes(f, "recorded") /\ Remember(f)
    /\ UNCHANGED <<treeVars, wholeTree, attested, runVars, restVars>>
RecordFailed(f) ==
    /\ lane = "repair" /\ pc = "walk" /\ fate[f] \in {"formatted", "failed"} /\ f \in Present
    /\ Becomes(f, IF fate[f] = "failed" THEN "failed" ELSE "recorded") /\ Remember(f)
    /\ UNCHANGED <<treeVars, wholeTree, attested, runVars, restVars>>

\* The job stats f again and releases it; the cache writer records the signature
\* of what the stat has seen.  A file that has gone fails the run, and so does a
\* failed transaction.
Record(f) ==
    /\ lane = "repair" /\ pc = "walk"
    /\ fate[f] = "formatted"
    /\ \/ f \in Present /\ Becomes(f, "recorded") /\ Remember(f)
       \/ /\ f \notin Present \/ (cached /\ "db" \in Faults)
          /\ Becomes(f, "failed") /\ UNCHANGED paths
    /\ UNCHANGED <<treeVars, wholeTree, attested, runVars, restVars>>

\* The run ends: a read fails, or the walk is over, and one that was interrupted
\* counts as over.
EndRepair ==
    /\ lane = "repair" /\ pc = "walk"
    /\ Having({"accepted", "formatted"}) = {}
    /\ \/ "tool" \in Faults /\ Finish("failed")
       \/ /\ Having({"todo"}) # {} => "cancel" \in Faults
          /\ Finish(IF Having({"failed"}) # {} THEN "failed" ELSE "done")
    /\ cut' = (Having({"todo"}) # {})
    /\ \/ attested' = IF exit' = "done" /\ cached THEN config ELSE attested
       \/ "db" \in Faults /\ UNCHANGED attested
    /\ UNCHANGED <<treeVars, paths, wholeTree, runVars, touched>>

RepairStep ==
    \/ \E f \in Files : LinterRepairs(f)
    \/ RepairFails \/ StartWalk
    \/ \E f \in Files : Submit(f) \/ Format(f) \/ Record(f)
    \/ EndRepair
===============================================================================
