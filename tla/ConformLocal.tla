----------------------------- MODULE ConformLocal ------------------------------
(***************************************************************************)
(* `conformist conform` without a domain: it writes the files of the shape *)
(* that are absent, edits an existing flake.nix in place, persists the     *)
(* allowed hosts and, with --repair, runs the repair command.              *)
(***************************************************************************)
EXTENDS Checkout

CONSTANTS
    LocalCommands,  \* [kind: {"local"}, repo, noEdit, force, hosts, repair]
    GreenFlake      \* the flake conform writes where there is none

Scaffold(n) ==
    File("scaffold", {},
         IF n = Flake THEN GreenFlake ELSE IF n = Overlay THEN PlainOverlay ELSE None)

StartLocal == \E c \in LocalCommands : Start(c) /\ pc' = "plain" /\ todo' = Plain

InLocal(label) == pc = label /\ cmd.kind = "local"
Has(n) == tree[cmd.repo][n] # None

WriteIfAbsent(n, next, list) ==
    IF Has(n) THEN SkipTo(next, list) ELSE WriteAndGoto(n, Scaffold(n), next, list)

WritePlain ==
    /\ InLocal("plain")
    /\ LET rest == Tail(todo)
       IN  WriteIfAbsent(Head(todo), IF rest = <<>> THEN "flake" ELSE "plain", rest)

WriteFlake ==
    /\ InLocal("flake") /\ ~Has(Flake)
    /\ WriteAndGoto(Flake, Scaffold(Flake), "overlay", <<>>)

WriteOverlay == InLocal("overlay") /\ WriteIfAbsent(Overlay, "justfile", <<>>)

\* A flake that is not recognized, or that nothing is missing from, is kept.
EditFlake ==
    /\ InLocal("flake") /\ Has(Flake)
    /\ LET old == tree[cmd.repo][Flake]
           new == [old EXCEPT !.code = Apply(@, RepoName[cmd.repo], cmd.force)]
       IN  IF cmd.noEdit \/ ~CanApply(old.code) \/ new = old
           THEN SkipTo("justfile", <<>>)
           ELSE WriteAndGoto(Flake, new, "justfile", <<>>)

WriteJustfile == InLocal("justfile") /\ WriteIfAbsent("justfile", "hosts", <<>>)

PersistHosts ==
    /\ InLocal("hosts")
    /\ LET new == PersistedOverlay(cmd.repo, WantedHosts(cmd.repo, cmd.hosts))
       IN  IF new = None THEN SkipTo("repair", <<>>)
                         ELSE WriteAndGoto(Overlay, new, "repair", <<>>)

\* The repair command formats and fixes; who wrote a file, and the names the
\* editors see in it, stay.  It fails by Stop.
Finish ==
    /\ InLocal("repair")
    /\ End("ok")
    /\ UNCHANGED <<files, user, task>>

Local ==
    \/ StartLocal \/ WritePlain \/ WriteFlake \/ WriteOverlay
    \/ EditFlake \/ WriteJustfile \/ PersistHosts \/ Finish
===============================================================================
