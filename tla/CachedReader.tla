----------------------------- MODULE CachedReader -----------------------------
(***************************************************************************)
(* walk/cached.go: files released after formatting go through the bounded  *)
(* channel updateCh to one goroutine, process, which records them in the   *)
(* evaluation cache in transactions of FlushSize files.  Close closes the  *)
(* channel and waits for process; it does not close the delegate reader.   *)
(*                                                                         *)
(* The channel is a set: a file is released at most once (OneOwner in      *)
(* FormatRun), and no property depends on the order of two entries.        *)
(***************************************************************************)
EXTENDS SourceTree

CONSTANTS
    UpdateCap,  \* capacity of updateCh: batchSize * NumCPU in the code
    FlushSize   \* batchSize: how many files one transaction records

ASSUME UpdateCapAssumption == UpdateCap \in Nat \ {0}
ASSUME FlushSizeAssumption == FlushSize \in Nat \ {0}

VARIABLES
    updateCh,   \* released files waiting to be recorded
    chOpen,     \* FALSE once Close has closed updateCh
    pending,    \* the local batch of process
    process,    \* "running", "stopped" or "failed": the process goroutine
    recorded    \* files with an entry written to the cache by this run

cacheVars == <<updateCh, chOpen, pending, process, recorded>>

CacheTypeOK ==
    /\ updateCh \in SUBSET Files
    /\ chOpen \in BOOLEAN
    /\ pending \in SUBSET Files
    /\ process \in {"running", "stopped", "failed"}
    /\ recorded \in SUBSET Files

CacheInit ==
    /\ updateCh = {}
    /\ chOpen = TRUE
    /\ pending = {}
    /\ process = "running"
    /\ recorded = {}

\* The release hook: a send, which blocks while the channel is full.  The
\* hook does not look whether the channel is still open (a send on a closed
\* channel panics): NoReleaseAfterClose in FormatRun says it always is.
Send(f) ==
    /\ Cardinality(updateCh) < UpdateCap
    /\ updateCh' = updateCh \cup {f}
    /\ UNCHANGED <<chOpen, pending, process, recorded>>

Receive(f) ==
    /\ process = "running"
    /\ f \in updateCh
    /\ Cardinality(pending) < FlushSize
    /\ updateCh' = updateCh \ {f}
    /\ pending' = pending \cup {f}
    /\ UNCHANGED <<chOpen, process, recorded>>

\* Mutant of FlushDue: the last, partial batch is never flushed.
FlushDueWhenFull ==
    /\ process = "running"
    /\ Cardinality(pending) = FlushSize

\* The batch is full, or the channel is closed and drained.
FlushDue ==
    /\ process = "running"
    /\ \/ Cardinality(pending) = FlushSize
       \/ ~chOpen /\ updateCh = {}

\* Mutant of Flush: at the end of the channel the partial batch is dropped.
FlushFullOnly ==
    /\ FlushDue
    /\ LET full == Cardinality(pending) = FlushSize
       IN  /\ recorded' = IF full THEN recorded \cup pending ELSE recorded
           /\ process' = IF full THEN "running" ELSE "stopped"
    /\ pending' = {}
    /\ UNCHANGED <<updateCh, chOpen>>

\* One transaction records the whole batch.  On a full batch the loop goes on;
\* at the end of the channel (with a partial batch or an empty one) it stops.
Flush ==
    /\ FlushDue
    /\ recorded' = recorded \cup pending
    /\ pending' = {}
    /\ process' = IF Cardinality(pending) = FlushSize THEN "running" ELSE "stopped"
    /\ UNCHANGED <<updateCh, chOpen>>

\* The transaction fails and rolls back; process returns, and nobody receives
\* from updateCh any more.
FlushFail ==
    /\ FlushDue
    /\ pending # {}
    /\ process' = "failed"
    /\ UNCHANGED <<updateCh, chOpen, pending, recorded>>

CloseUpdates ==
    /\ chOpen
    /\ chOpen' = FALSE
    /\ UNCHANGED <<updateCh, pending, process, recorded>>
===============================================================================
