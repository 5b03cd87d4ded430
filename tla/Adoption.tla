-------------------------------- MODULE Adoption -------------------------------
(***************************************************************************)
(* A fleet of checkouts taken through conformist's adoption commands, one  *)
(* command after another, each of which may stop anywhere, while the user  *)
(* edits files: what earlier commands left behind is what later ones find. *)
(***************************************************************************)
EXTENDS ConformLocal, Bootstrap, FlakeSweep

CONSTANT InitialTrees

\* A flake whose names mean something: every bare identifier in its list is
\* bound, every tool it uses and every input it has is an argument of its
\* outputs, but for the utils that conform adds under a bare head.
Resolves(f) ==
    /\ f.elements # None =>
          \A e \in BagToSet(f.elements) : Len(e) = 1 => e[1] \in f.bound \cup f.args
    /\ \A b \in OwnBindings(f) : f.args \cap {ToolOf[b], "self"} # {}
    /\ f.inputs \ (IF HasBareHead(f) THEN {"utils"} ELSE {}) \subseteq f.args

\* One that nix can evaluate, or that is in no shape the editors know.
IsWired(f) ==
    /\ Resolves(f)
    /\ f.recognized /\ f.utils = "utils" => "utils" \in f.args

\* A file the commands can look at.
IsFile(n, f) ==
    /\ DOMAIN f = {"by", "tokens", "code"}
    /\ f.by \in {"user", "scaffold", "template", "nix", "torn"}
    /\ f.tokens \subseteq {Substitutions[i].token : i \in DOMAIN Substitutions}
    /\ CASE n = Flake -> IsFlake(f.code)
         [] n = Overlay -> /\ f.code.shape \in {"plain", "managed", "by hand", "unclosed"}
                           /\ f.code.hosts \cap {Canonical, None} = {}
         [] OTHER -> f.code = None

IsFine(n, f) == IsFile(n, f) /\ (n = Flake => IsWired(f.code))

\* The placeholders that a bootstrap fills in a file of that name.
TokensOf(n) ==
    {Substitutions[i].token : i \in {j \in DOMAIN Substitutions : Substitutions[j].name = n}}

\* The flakes that are there, and those the user, the template and conform write,
\* make sense; a template has no placeholder that is not filled in.
ASSUME AdoptionAssumption ==
    /\ MaxCommands \in Nat /\ MaxEdits \in Nat /\ None # "ok"
    /\ \A c \in LocalCommands : c.kind = "local" /\ c.repo \in Repos
    /\ \A c \in BootstrapCommands : c.kind = "bootstrap" /\ c.repo \in Repos
    /\ \A c \in SweepCommands : c.kind = "sweep" /\ c.repos \in Seq(Repos)
    /\ IsFlake(GreenFlake) /\ IsWired(GreenFlake)
    /\ \A n \in InTemplate :
          /\ IsFine(n, Template[n])
          /\ Template[n].by = "template" /\ Template[n].tokens \subseteq TokensOf(n)
    /\ \A r \in Repos, n \in Names : \A f \in UserFile(r, n) :
          f # None /\ IsFine(n, f) /\ f.by = "user"
    /\ \A t \in InitialTrees :
          /\ DOMAIN t = Repos
          /\ \A r \in Repos :
                /\ DOMAIN t[r] = Names
                /\ \A n \in Names : t[r][n] # None => IsFine(n, t[r][n]) /\ t[r][n].by = "user"

Init ==
    /\ tree \in InitialTrees
    /\ index = [r \in Repos |-> [n \in Names |-> None]]
    /\ mine = {} /\ edits = 0
    /\ cmd = None /\ commands = 0 /\ before = tree
    /\ pc = "idle" /\ todo = <<>> /\ touched = {} /\ queue = <<>> /\ failures = {}
    /\ outcome = None

EditByUser == \E r \in Repos, n \in Names : UserEdits(r, n)

Next == Local \/ Bootstrapping \/ Sweep \/ Stop \/ EditByUser

Spec == Init /\ [][Next]_vars

-----------------------------------------------------------------------------
(* Type correctness *)

\* Every file is one the editors can look at, an overlay accepts no host that
\* needs no permission, and nothing is pending between commands.
TypeOK ==
    /\ \A r \in Repos, n \in Names :
          \A f \in {tree[r][n], index[r][n]} : f # None => IsFile(n, f)
    /\ mine \subseteq Repos \X Names
    /\ commands \in 0..MaxCommands /\ edits \in 0..MaxEdits
    /\ touched \subseteq Names
    /\ failures \subseteq {"migration", "parse"}
    /\ pc = "idle" => todo = <<>> /\ touched = {} /\ queue = <<>> /\ failures = {}
    /\ pc \in {"idle", "plain", "flake", "overlay", "justfile", "hosts", "repair",
               "preflight", "init", "after", "fill", "stage", "lock", "done",
               "read", "write"}
    /\ outcome \in {None, "ok", "failed", "conflict", "refused", "exit 1"}

-----------------------------------------------------------------------------
(* The user's work *)

\* An element the command was told to replace or delete.
Migrated == IF cmd.kind = "sweep" THEN {m.old : m \in cmd.migrations} ELSE {}

KeepsFlake(f, g) ==
    /\ f.inputs \subseteq g.inputs /\ f.args \subseteq g.args
    /\ f.bound \subseteq g.bound /\ f.attrs \subseteq g.attrs
    /\ f.elements # None =>
          /\ g.elements # None
          /\ \A e \in BagToSet(f.elements) \ Migrated :
                BagIn(e, g.elements) /\ g.elements[e] = f.elements[e]
    /\ g.wrapper # f.wrapper /\ <<"formatter">> \in f.attrs =>
          cmd.kind = "local" /\ cmd.force

KeepsOverlay(o, p) == o.hosts \subseteq p.hosts /\ (o.shape = "by hand" => o = p)

Keeps(n, old, new) ==
    CASE n = Flake -> KeepsFlake(old.code, new.code)
      [] n = Overlay -> KeepsOverlay(old.code, new.code)
      [] n = "flake.lock" -> TRUE
      [] OTHER -> old.by = "user" => new = old

\* What the user had in a file when a command began, and has not changed since,
\* is there after each of its steps, across interrupted commands and repeated
\* ones: plain files as they were, placeholders that look like a template's
\* included; the flake's names and list, but for the elements a sweep was told
\* to replace and a formatter conform was told to replace; the hosts of the
\* overlay, and its line when the user wrote it.  The lock file is nix's, and only
\* a write that is cut short may lose a file.  "It is idempotent and only ever adds hosts", hosts.go:88;
\* "never a pre-existing user file", bootstrap_post.go:109.
UsersWorkSurvives ==
    [][pc # "idle" /\ edits' = edits =>
         \A r \in Repos, n \in Names :
            /\ tree[r][n] # None
            /\ tree'[r][n] # tree[r][n]
            /\ <<r, n>> \notin mine
            => \/ tree'[r][n] = Torn(n) /\ outcome' = "failed"
               \/ Keeps(n, tree[r][n], tree'[r][n])]_vars

-----------------------------------------------------------------------------
(* What a command that succeeded has done *)

Succeeded(kind) == outcome = "ok" /\ cmd.kind = kind

\* A bootstrap that succeeded has filled every placeholder of the template's
\* files in, in the tree and in what it staged: also in the files that an
\* earlier bootstrap wrote before it was interrupted, which nix now passes over
\* as identical (bootstrap.go:207).
FinishedIsFilled ==
    Succeeded("bootstrap") =>
       \A n \in Names :
          LET t == tree[cmd.repo][n]  i == index[cmd.repo][n]
          IN  \A f \in {t, i} \ {None} : f.by = "template" => f.tokens = {}

\* A sweep that ended well with --apply has left no element to migrate in the
\* flakes it was given, but for those the user changed meanwhile; one that nix's
\* parser stopped has written none of them (flakeclobber/main.go:90-103).
SweepIsHonest ==
    pc = "idle" /\ cmd # None /\ cmd.kind = "sweep" =>
       \A i \in DOMAIN cmd.repos :
          LET r == cmd.repos[i]
          IN  <<r, Flake>> \notin mine =>
                 /\ outcome = "ok" /\ cmd.apply =>
                       PendingOf(tree[r][Flake].code, cmd.migrations) = {}
                 /\ outcome = "refused" => tree[r][Flake] = before[r][Flake]

\* Whatever the order of conform, bootstrap and sweeps, and wherever they were
\* interrupted: a flake names no bare identifier in its list that nothing
\* binds, no tool that is not an argument of its outputs, and has no input that
\* its outputs' pattern does not name, but for the utils of a flake whose head
\* is bare, which conform adds although nothing in such a flake need name it
\* (clobber.go:60, flakeedit.go:299-317, 338-341).
WiringResolves ==
    \A r \in Repos : tree[r][Flake] # None => Resolves(tree[r][Flake].code)

\* "The greenfield flake imports ./conformist-impure.nix, so the overlay must
\* exist alongside it" (conform.go:173): after a conform that succeeded.
OverlayIsAlongside ==
    Succeeded("local") /\ tree[cmd.repo][Flake].code.overlay
       => tree[cmd.repo][Overlay] # None
===============================================================================
