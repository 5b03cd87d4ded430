------------------------------- MODULE Bootstrap -------------------------------
(***************************************************************************)
(* `conformist conform <domain>`: initialize a checkout from a flake       *)
(* template, fill its placeholders in, persist the allowed hosts, stage    *)
(* what the template wrote and lock the flake.  nix is external: flake     *)
(* init writes the files that are absent, passes over those it would write *)
(* unchanged and fails over the others, after it has written the rest.     *)
(***************************************************************************)
EXTENDS Checkout

CONSTANTS
    BootstrapCommands,  \* [kind: {"bootstrap"}, repo, overwrite, noLock, hosts]
    Template            \* the files of the template, None where it has none

\* bootstrapSubstitutions: the placeholders, each with the files that may have
\* it, in the order in which they are filled in.
Filling(token, name) == [token |-> token, name |-> name]
Substitutions ==
    <<Filling("EXAMPLE_VERSION", "version.env"), Filling("EXAMPLE_VERSION", "conformist.nix"),
      Filling("EXAMPLE_CRATE", "Cargo.toml"), Filling("EXAMPLE_CRATE", "AGENTS.md"),
      Filling("EXAMPLE_NAME", "go.nix"), Filling("EXAMPLE_NAME", Flake),
      Filling("EXAMPLE_NAME", "main.go"), Filling("EXAMPLE_NAME", "AGENTS.md"),
      Filling("import prefix", "main.go")>>

InTemplate == {n \in Names : Template[n] # None}

InBootstrap(label) == pc = label /\ cmd.kind = "bootstrap"
Repo == cmd.repo
Present(t) == {n \in Names : t[n] # None}

StartBootstrap ==
    \E c \in BootstrapCommands :
       /\ Start(c)
       /\ c.overwrite \/ Present(tree[c.repo]) = {}
       /\ pc' = "preflight" /\ todo' = <<>>

\* preflightTemplate, against the tree as it was.
Conflicts == {n \in InTemplate \cap Present(before[Repo]) : before[Repo][n] # Template[n]}
Identical == {n \in InTemplate : before[Repo][n] = Template[n]}

Preflight ==
    /\ InBootstrap("preflight")
    /\ IF Conflicts # {} THEN End("conflict") /\ UNCHANGED <<files, user, task>>
                         ELSE SkipTo("init", <<>>)

\* `nix flake init`: all of the files, or, when it fails, some of them.
FlakeInit ==
    /\ InBootstrap("init")
    /\ LET absent == InTemplate \ Present(tree[Repo])
           clash == {n \in InTemplate \ absent : tree[Repo][n] # Template[n]}
           Writes(ns) == tree' = [tree EXCEPT ![Repo] =
                                    [n \in Names |-> IF n \in ns THEN Template[n] ELSE @[n]]]
       IN  \/ clash = {} /\ Writes(absent) /\ Goto("after", <<>>) /\ UNCHANGED <<touched, queue>>
           \/ \E ns \in SUBSET absent : Writes(ns) /\ End("failed")
    /\ UNCHANGED <<index, user, task>>

\* finishBootstrap: touchedSince, and the identical files.
TouchedSince == {n \in Present(tree[Repo]) : tree[Repo][n] # before[Repo][n]}
Touched == TouchedSince \cup Identical

AfterInit ==
    /\ InBootstrap("after")
    /\ touched' = Touched
    /\ Goto("fill", Substitutions)
    /\ UNCHANGED <<files, user, task, queue>>

\* applySubstitutions: one placeholder in one file.  A file of the template that
\* cannot be read ends the command by Stop.
Fill ==
    /\ InBootstrap("fill") /\ todo # <<>>
    /\ LET f == Head(todo)
           old == tree[Repo][f.name]
       IN  \/ /\ f.name \notin touched
              /\ SkipTo("fill", Tail(todo))
           \/ /\ f.name \in touched /\ old # None
              /\ f.token \notin old.tokens
              /\ SkipTo("fill", Tail(todo))
           \/ /\ f.name \in touched /\ old # None
              /\ f.token \in old.tokens
              /\ WriteAndGoto(f.name, [old EXCEPT !.tokens = @ \ {f.token}], "fill", Tail(todo))

PersistHostsOfTemplate ==
    /\ InBootstrap("fill") /\ todo = <<>>
    /\ LET new == PersistedOverlay(Repo, WantedHosts(Repo, cmd.hosts))
       IN  IF new = None THEN SkipTo("stage", <<>>)
           ELSE /\ \/ /\ Put(Repo, Overlay, new)
                      /\ Goto("stage", <<>>)
                      /\ touched' = touched \cup {Overlay}
                      /\ UNCHANGED queue
                   \/ Put(Repo, Overlay, Torn(Overlay)) /\ End("failed")
                /\ UNCHANGED <<index, user, task>>

\* git add of what was touched: it may fail, and then the user is told to.
Stage ==
    /\ InBootstrap("stage")
    /\ \/ /\ Repo \in GitRepos /\ touched # {}
          /\ index' = [index EXCEPT ![Repo] =
                [n \in Names |-> IF n \in touched THEN tree[Repo][n] ELSE @[n]]]
          /\ Goto(IF cmd.noLock THEN "done" ELSE "lock", <<>>)
          /\ UNCHANGED <<tree, user, task, touched, queue>>
       \/ /\ Repo \in GitRepos
          /\ SkipTo("done", <<>>)
       \/ /\ Repo \notin GitRepos
          /\ SkipTo(IF cmd.noLock THEN "done" ELSE "lock", <<>>)

\* `nix flake lock`, and git add of the lock file after a stage; each may fail.
Lock ==
    /\ InBootstrap("lock")
    /\ \/ SkipTo("done", <<>>)
       \/ LET lock == File("nix", {}, None)
          IN  /\ Put(Repo, "flake.lock", lock)
              /\ \/ Repo \in GitRepos /\ index' = [index EXCEPT ![Repo]["flake.lock"] = lock]
                 \/ UNCHANGED index
              /\ Goto("done", <<>>)
              /\ UNCHANGED <<user, task, touched, queue>>

FinishBootstrap ==
    /\ InBootstrap("done")
    /\ End("ok")
    /\ UNCHANGED <<files, user, task>>

Bootstrapping ==
    \/ StartBootstrap \/ Preflight \/ FlakeInit \/ AfterInit \/ Fill
    \/ PersistHostsOfTemplate \/ Stage \/ Lock \/ FinishBootstrap
===============================================================================
