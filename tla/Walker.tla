-------------------------------- MODULE Walker --------------------------------
(***************************************************************************)
(* The delegate readers of walk/: something that lists the tree into a     *)
(* bounded channel (FilesystemReader.process into filesCh, or the child    *)
(* `git ls-files` or `jj file list` into an io.Pipe), and a consumer that  *)
(* takes entries out of it.  The lister checks no context: it only ever    *)
(* stops when it has listed everything, or on an error of its own.  The    *)
(* consumer just sees the channel end, as it does at a regular end of the  *)
(* listing; Close, which waits for the lister, returns the error of the    *)
(* filesystem's lister, and no other (ListingErr).                         *)
(***************************************************************************)
EXTENDS SourceTree

CONSTANTS
    PipeCap,    \* how many entries fit between the lister and its consumer
    WalkType    \* the reader in use: what --walk says, or auto has found

ASSUME PipeCapAssumption == PipeCap \in Nat \ {0}
ASSUME WalkTypeAssumption == WalkType \in {"filesystem", "git", "jujutsu"}

VARIABLES
    unlisted,   \* files the lister has not reached yet
    pipe,       \* files in the channel
    walker      \* "running", "done" or "failed": the lister goroutine

walkVars == <<unlisted, pipe, walker>>

WalkTypeOK ==
    /\ unlisted \in SUBSET Files
    /\ pipe \in SUBSET Files
    /\ walker \in {"running", "done", "failed"}

WalkInit ==
    /\ unlisted = Files
    /\ pipe = {}
    /\ walker = "running"

\* A reader is created, and its lister starts from the beginning.
NewWalk ==
    /\ unlisted' = Files
    /\ pipe' = {}
    /\ walker' = "running"

\* The lister queues an entry, and blocks while the channel is full.
List(f) ==
    /\ walker = "running"
    /\ f \in unlisted
    /\ Cardinality(pipe) < PipeCap
    /\ unlisted' = unlisted \ {f}
    /\ pipe' = pipe \cup {f}
    /\ UNCHANGED walker

WalkDone ==
    /\ walker = "running"
    /\ unlisted = {}
    /\ walker' = "done"
    /\ UNCHANGED <<unlisted, pipe>>

\* filepath.Walk meets an unreadable directory, or git or jj exits non-zero.
WalkFail ==
    /\ walker = "running"
    /\ walker' = "failed"
    /\ UNCHANGED <<unlisted, pipe>>

\* The consumer takes an entry.
Take(f) ==
    /\ f \in pipe
    /\ pipe' = pipe \ {f}
    /\ UNCHANGED <<unlisted, walker>>

\* Mutant of Drained: an empty channel is taken for the end of the listing.
DrainedEarly == pipe = {}

\* What the consumer sees as io.EOF.
Drained == pipe = {} /\ walker # "running"

\* What Close returns once the lister has ended.  The goroutine of a git or jj
\* reader returns what PipeWriter.CloseWithError returns, which is always nil,
\* and no Read asks the scanner for the error the pipe was closed with.
ListingErr == walker = "failed" /\ WalkType = "filesystem"
===============================================================================
