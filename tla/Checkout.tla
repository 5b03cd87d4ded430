------------------------------- MODULE Checkout --------------------------------
(***************************************************************************)
(* The repositories that are being adopted, and the one command that runs  *)
(* in them: conform, conform with a template's domain, or flakeclobber.    *)
(* A file is who wrote it, the placeholders it still has and, for flake.nix *)
(* and the overlay, what the editors see of it.  The user may change a     *)
(* file at any time, and any command may stop: an error it returns and a   *)
(* kill leave the same tree.  A write truncates before it writes, so one   *)
(* that is cut short leaves a torn file.                                   *)
(***************************************************************************)
EXTENDS FlakeFile, Naturals

CONSTANTS
    Repos,          \* the checkouts
    GitRepos,       \* those that are the root of a git work tree
    RepoName,       \* RepoName[r]: from the origin remote or the directory
    Origin,         \* Origin[r]: the origin remote's host, or None
    Canonical,      \* the canonical git host
    Plain,          \* the sequence of the scaffold's plain files
    OtherNames,     \* files of a template that conform does not write itself
    UserFile(_, _), \* UserFile(r, n): what the user may write into n
    MaxCommands,
    MaxEdits

Flake == "flake.nix"
Overlay == "conformist-impure.nix"
Names == {Plain[i] : i \in 1..Len(Plain)}
           \cup {Flake, Overlay, "justfile", "flake.lock"} \cup OtherNames

VARIABLES
    tree,       \* tree[r][n]: the file, None when there is none
    index,      \* index[r][n]: the file as it was staged, None when it was not
    mine,       \* the files the user changed since the command began
    edits,      \* how often the user changed a file
    cmd,        \* the command, None before the first
    commands,   \* how many were started
    pc,         \* where the command is, "idle" between commands
    todo,       \* what its loop still has to do
    before,     \* the tree as it was when the command began
    touched,    \* bootstrap: the files the template wrote, and those it equals
    queue,      \* flakeclobber: the rewrites it will write
    failures,   \* flakeclobber: which kinds of failure it has counted
    outcome     \* how the last command ended

vars == <<tree, index, mine, edits, cmd, commands, pc, todo, before, touched,
          queue, failures, outcome>>
files == <<tree, index>>
user == <<mine, edits>>
task == <<cmd, commands, before>>

File(by, tokens, code) == [by |-> by, tokens |-> tokens, code |-> code]
HostsLine(shape, hosts) == [shape |-> shape, hosts |-> hosts]

CodeOfTorn(n) ==
    IF n = Flake THEN Unrecognized
    ELSE IF n = Overlay THEN HostsLine("unclosed", {})
    ELSE None
Torn(n) == File("torn", {}, CodeOfTorn(n))

Put(r, n, file) == tree' = [tree EXCEPT ![r][n] = file]

\* The end of a command, and the end of its loop.
End(how) ==
    /\ pc' = "idle"
    /\ outcome' = how
    /\ todo' = <<>> /\ touched' = {} /\ queue' = <<>> /\ failures' = {}
Goto(next, list) == pc' = next /\ todo' = list /\ UNCHANGED <<failures, outcome>>

Start(c) ==
    /\ pc = "idle"
    /\ commands < MaxCommands
    /\ cmd' = c
    /\ commands' = commands + 1
    /\ before' = tree
    /\ mine' = {}
    /\ touched' = {} /\ queue' = <<>> /\ failures' = {}
    /\ outcome' = None
    /\ UNCHANGED <<tree, index, edits>>

\* os.WriteFile inside a command that goes on to pc' and todo', or is cut short.
WriteAndGoto(n, file, next, list) ==
    /\ \/ Put(cmd.repo, n, file) /\ Goto(next, list) /\ UNCHANGED <<touched, queue>>
       \/ Put(cmd.repo, n, Torn(n)) /\ End("failed")
    /\ UNCHANGED <<index, user, task>>

SkipTo(next, list) ==
    Goto(next, list) /\ UNCHANGED <<files, user, task, touched, queue>>

Stop ==
    /\ pc # "idle"
    /\ End("failed")
    /\ UNCHANGED <<files, user, task>>

UserEdits(r, n) ==
    /\ edits < MaxEdits
    /\ \E file \in UserFile(r, n) \ {tree[r][n]} : Put(r, n, file)
    /\ edits' = edits + 1
    /\ mine' = mine \cup {<<r, n>>}
    /\ UNCHANGED <<index, task, pc, todo, touched, queue, failures, outcome>>

-----------------------------------------------------------------------------
(* The hosts the git-remotes check accepts, in one line of the overlay *)

\* Mutant of WantedHosts: the canonical host is not left out.
WantedHostsUnfiltered(r, hosts) == (hosts \cup {Origin[r]}) \ {None}

WantedHosts(r, hosts) == (hosts \cup {Origin[r]}) \ {Canonical, None}

\* The overlay as conform ships it: a closed module without the line.
PlainOverlay == HostsLine("plain", {})

\* Not by hand, and with a closing brace to insert before.
IsEditable(o) == o.shape \in {"plain", "managed"}

\* Mutant of WithAllowedHosts: the hosts that are there are replaced.
WithAllowedHostsOnly(o, hosts) == HostsLine("managed", hosts)

WithAllowedHosts(o, hosts) == HostsLine("managed", o.hosts \cup hosts)

\* persistAllowedHosts: the overlay it writes, None when it writes none.
PersistedOverlay(r, hosts) ==
    LET had == tree[r][Overlay]
        old == IF had = None THEN File("scaffold", {}, PlainOverlay) ELSE had
        new == [old EXCEPT !.code = WithAllowedHosts(@, hosts)]
    IN  IF hosts = {} \/ ~IsEditable(old.code) \/ new = had THEN None ELSE new
===============================================================================
