------------------------------- MODULE FlakeSweep ------------------------------
(***************************************************************************)
(* flakeclobber over the flakes of several checkouts.  A first phase reads *)
(* each file, computes its rewrite and has nix parse it; a second writes   *)
(* the rewrites, and only when nix accepted all of them.                   *)
(***************************************************************************)
EXTENDS Checkout

CONSTANT SweepCommands  \* [kind: {"sweep"}, repos, migrations, apply]

\* Every file is rewritten by one substitution per element: none replaces what
\* another one puts in, and no two put in the same.
MigrationsAreDisjoint ==
    \A c \in SweepCommands : \A m, o \in c.migrations :
       m.old # o.new /\ (m # o => m.old # o.old /\ (m.new = o.new => m.new = <<>>))
ASSUME SweepAssumption == MigrationsAreDisjoint

InSweep(label) == pc = label /\ cmd.kind = "sweep"

StartSweep == \E c \in SweepCommands : Start(c) /\ pc' = "read" /\ todo' = c.repos

\* The flake is looked at; a file that cannot be read ends the command by Stop.
Look(counted, queued) ==
    /\ todo' = Tail(todo)
    /\ failures' = failures \cup counted
    /\ queue' = queue \o queued
    /\ UNCHANGED <<files, user, task, pc, touched, outcome>>

ReadFlake ==
    /\ InSweep("read") /\ todo # <<>> /\ tree[Head(todo)][Flake] # None
    /\ LET r == Head(todo)
           old == tree[r][Flake]
           new == [old EXCEPT !.code = Clobber(@, cmd.migrations)]
       IN  IF ~CanClobber(old.code, cmd.migrations) THEN Look({"migration"}, <<>>)
           ELSE IF PendingOf(old.code, cmd.migrations) = {} \/ ~cmd.apply THEN Look({}, <<>>)
           ELSE \/ Look({}, <<[repo |-> r, file |-> new]>>)
                \/ Look({"parse"}, <<>>)

\* Mutant of MayWrite: the rewrites nix has accepted are written.
MayWriteAnyway == TRUE

\* One rewrite that nix refuses stops them all.
MayWrite == "parse" \notin failures

EndOfPhaseOne ==
    /\ InSweep("read") /\ todo = <<>>
    /\ pc' = "write"
    /\ queue' = IF MayWrite THEN queue ELSE <<>>
    /\ UNCHANGED <<files, user, task, todo, touched, failures, outcome>>

WriteRewrite ==
    /\ InSweep("write") /\ queue # <<>>
    /\ LET w == Head(queue)
       IN  \/ /\ Put(w.repo, Flake, w.file)
              /\ queue' = Tail(queue)
              /\ UNCHANGED <<pc, todo, touched, failures, outcome>>
           \/ Put(w.repo, Flake, Torn(Flake)) /\ End("failed")
    /\ UNCHANGED <<index, user, task>>

FinishSweep ==
    /\ InSweep("write") /\ queue = <<>>
    /\ End(IF failures = {} THEN "ok" ELSE IF "parse" \in failures THEN "refused" ELSE "exit 1")
    /\ UNCHANGED <<files, user, task>>

Sweep == StartSweep \/ ReadFlake \/ EndOfPhaseOne \/ WriteRewrite \/ FinishSweep
===============================================================================
