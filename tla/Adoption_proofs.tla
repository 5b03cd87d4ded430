----------------------------- MODULE Adoption_proofs ----------------------------
(***************************************************************************)
(* Proofs about Adoption, for any checkouts, commands, templates and edits *)
(* of the user's that leave a flake whose names mean something.  First     *)
(* what the two editors of flake.nix do, then the inductive invariant:     *)
(* what a bootstrap and a sweep know of the tree while the user goes on    *)
(* editing it.                                                             *)
(***************************************************************************)
EXTENDS Adoption, SequenceTheorems, TLAPS

\* "No list" is not a list.
NoneIsNoBag == \A B, C : B (+) C # None

-------------------------------------------------------------------------------
(* The two editors *)

\* What Apply adds refers to what Apply binds and passes in, or is the utils of a
\* flake with a bare head.
LEMMA ApplyIsFine ==
  ASSUME NEW f, IsFlake(f), IsWired(f), CanApply(f), NEW name, NEW force
  PROVE  IsFlake(Apply(f, name, force)) /\ IsWired(Apply(f, name, force))
<1> DEFINE g == Apply(f, name, force)
<1>1. /\ DOMAIN g = DOMAIN Unrecognized
      /\ g.recognized = f.recognized /\ g.utils = f.utils
      /\ g.ownEval = f.ownEval /\ g.overlay = f.overlay
      /\ g.wrapper = (f.wrapper \/ FormatterIsSet(f, force))
      /\ g.inputs = f.inputs \cup AddedInputs(f, name)
      /\ g.args = f.args \cup AddedArgs(name)
      /\ g.bound = f.bound \cup Bindings
      /\ g.elements = WithPackages(f)
  <2>1. /\ DOMAIN f = DOMAIN Unrecognized
        /\ {"recognized", "utils", "inputs", "args", "bound", "attrs", "elements",
            "wrapper", "ownEval", "overlay"} \subseteq DOMAIN f
    BY DEF IsFlake, Unrecognized
  <2> QED  BY <2>1 DEF Apply
<1>2. g.elements # None => IsABag(g.elements)
  <2>1. \A S : IsABag(SetToBag(S))
    BY DEF IsABag, SetToBag
  <2>2. \A B, C : IsABag(B) /\ IsABag(C) => IsABag(B (+) C)
    BY DEF IsABag, (+)
  <2> QED  BY <1>1, <2>1, <2>2 DEF WithPackages, IsFlake
<1>3. IsFlake(g)
  <2> HIDE DEF g
  <2>1. FormatterIsSet(f, force) \in BOOLEAN
    BY DEF FormatterIsSet
  <2> QED  BY <1>1, <1>2, <2>1 DEF IsFlake
<1>4. \A b \in OwnBindings(g) : g.args \cap {ToolOf[b], "self"} # {}
  <2>1. \A b \in Bindings : ToolOf[b] \in Tools
    BY DEF Bindings, ToolOf, Tools
  <2>2. \A t \in Tools : AddedArgs(name) \cap {t, "self"} # {}
    BY DEF AddedArgs, Via
  <2> QED  BY <1>1, <2>1, <2>2 DEF OwnBindings
<1>5. g.inputs \ (IF HasBareHead(g) THEN {"utils"} ELSE {}) \subseteq g.args
  <2>1. /\ f.inputs \ (IF HasBareHead(f) THEN {"utils"} ELSE {}) \subseteq f.args
        /\ f.recognized
    BY DEF IsWired, Resolves, CanApply
  <2>2. HasBareHead(g) <=> HasBareHead(f)
    BY <1>1 DEF HasBareHead
  <2>3. Tools \ {name} \subseteq AddedArgs(name)
    BY DEF AddedArgs, Via
  <2>4. UtilsName(f) = "utils" => HasBareHead(f) \/ "utils" \in f.args
    BY <2>1 DEF UtilsName, HasBareHead, IsWired
  <2> HIDE DEF g
  <2> QED  BY <1>1, <2>1, <2>2, <2>3, <2>4 DEF AddedInputs
<1>6. ASSUME g.elements # None, NEW e \in BagToSet(g.elements), Len(e) = 1
      PROVE  e[1] \in g.bound \cup g.args
  <2>1. \/ e \in DevShellPackages
        \/ f.elements # None /\ e \in BagToSet(f.elements)
    BY <1>1, <1>6 DEF WithPackages, BagToSet, SetToBag, (+)
  <2>2. CASE e \in DevShellPackages
    <3>1. e[1] \in Bindings
      BY <2>2 DEF DevShellPackages, Bindings, ToolOf
    <3> QED  BY <1>1, <3>1
  <2>3. CASE f.elements # None /\ e \in BagToSet(f.elements)
    BY <1>1, <1>6, <2>3 DEF IsWired, Resolves
  <2> QED  BY <2>1, <2>2, <2>3
<1>7. g.recognized /\ g.utils = "utils" => "utils" \in g.args
  BY <1>1 DEF IsWired
<1> HIDE DEF g
<1>8. IsWired(g)
  BY <1>4, <1>5, <1>6, <1>7 DEF IsWired, Resolves
<1> QED  BY <1>3, <1>8 DEF g

\* Apply takes nothing away, and replaces a formatter only when it is told to.
LEMMA ApplyKeeps ==
  ASSUME NEW f, IsFlake(f), NEW name, cmd.kind = "local", NoneIsNoBag
  PROVE  KeepsFlake(f, Apply(f, name, cmd.force))
<1> DEFINE g == Apply(f, name, cmd.force)
<1>1. /\ f.inputs \subseteq g.inputs /\ f.args \subseteq g.args
      /\ f.bound \subseteq g.bound /\ f.attrs \subseteq g.attrs
      /\ g.wrapper = (f.wrapper \/ FormatterIsSet(f, cmd.force))
      /\ g.elements = WithPackages(f)
  <2>1. {"inputs", "args", "bound", "attrs", "elements", "wrapper"} \subseteq DOMAIN f
    BY DEF IsFlake, Unrecognized
  <2> QED  BY <2>1 DEF Apply
<1>2. ASSUME f.elements # None
      PROVE  /\ g.elements # None
             /\ \A e \in BagToSet(f.elements) :
                   BagIn(e, g.elements) /\ g.elements[e] = f.elements[e]
  <2> DEFINE D == DevShellPackages \ BagToSet(f.elements)
  <2>1. g.elements = f.elements (+) SetToBag(D) \/ g.elements = f.elements
    BY <1>1, <1>2 DEF WithPackages, AddedAttrs
  <2>2. CASE g.elements = f.elements
    BY <1>2, <2>2 DEF BagIn
  <2>3. CASE g.elements = f.elements (+) SetToBag(D)
    <3>1. \A e \in DOMAIN f.elements : f.elements[e] \in Nat
      BY <1>2 DEF IsFlake, IsABag
    <3>2. DOMAIN SetToBag(D) = D /\ D \cap DOMAIN f.elements = {}
      BY DEF SetToBag, BagToSet
    <3> HIDE DEF D, g
    <3>3. \A e \in DOMAIN f.elements :
             e \in DOMAIN g.elements /\ g.elements[e] = f.elements[e]
      BY <2>3, <3>1, <3>2 DEF (+)
    <3> QED  BY <2>3, <3>3 DEF NoneIsNoBag, BagIn, BagToSet
  <2> QED  BY <2>1, <2>2, <2>3
<1>3. g.wrapper # f.wrapper /\ <<"formatter">> \in f.attrs => cmd.force
  <2>1. f.wrapper \in BOOLEAN
    BY DEF IsFlake
  <2> QED  BY <1>1, <2>1 DEF FormatterIsSet, AddedAttrs
<1> HIDE DEF g
<1> QED  BY <1>1, <1>2, <1>3 DEF KeepsFlake, g

\* Clobber changes the list alone, and there what its migrations say: what it
\* puts in is bound and was not there, the rest stays as often as it was there.
LEMMA ClobberList ==
  ASSUME NEW c \in SweepCommands, NEW f, IsFlake(f), CanClobber(f, c.migrations)
  PROVE  LET ms == c.migrations
             g == Clobber(f, ms)
         IN  /\ DOMAIN g = DOMAIN f
             /\ g.recognized = f.recognized /\ g.utils = f.utils
             /\ g.ownEval = f.ownEval /\ g.overlay = f.overlay
             /\ g.wrapper = f.wrapper /\ g.attrs = f.attrs
             /\ g.inputs = f.inputs /\ g.args = f.args /\ g.bound = f.bound
             /\ IsABag(g.elements)
             /\ \E B, C : g.elements = B (+) C
             /\ \A e \in DOMAIN g.elements :
                   e \in DOMAIN f.elements \/ \E m \in PendingOf(f, ms) : e = m.new
             /\ \A m \in ms : m.old \notin DOMAIN g.elements
             /\ \A e \in DOMAIN f.elements \ {m.old : m \in ms} :
                   e \in DOMAIN g.elements /\ g.elements[e] = f.elements[e]
<1> DEFINE ms == c.migrations
           g == Clobber(f, ms)
           old == {m.old : m \in PendingOf(f, ms)}
           new == {m.new : m \in PendingOf(f, ms)} \ {<<>>}
           rest == f.elements (-) SetToBag(old)
<1>1. /\ DOMAIN g = DOMAIN f
      /\ g.recognized = f.recognized /\ g.utils = f.utils
      /\ g.ownEval = f.ownEval /\ g.overlay = f.overlay
      /\ g.wrapper = f.wrapper /\ g.attrs = f.attrs
      /\ g.inputs = f.inputs /\ g.args = f.args /\ g.bound = f.bound
      /\ g.elements = rest (+) SetToBag(new)
  <2>1. {"recognized", "utils", "inputs", "args", "bound", "attrs", "elements",
         "wrapper", "ownEval", "overlay"} \subseteq DOMAIN f
    BY DEF IsFlake, Unrecognized
  <2> QED  BY <2>1 DEF Clobber
<1>2. /\ IsABag(f.elements)
      /\ \A e \in old : e \in DOMAIN f.elements /\ f.elements[e] = 1
      /\ old \subseteq {m.old : m \in ms}
      /\ \A m \in ms : m.old \in DOMAIN f.elements => m.old \in old
      /\ new \cap {m.old : m \in ms} = {}
      /\ new \cap DOMAIN f.elements = {}
  <2>1. IsABag(f.elements)
    BY DEF CanClobber, HasList, IsFlake
  <2>2. new \cap {m.old : m \in ms} = {}
    BY SweepAssumption DEF MigrationsAreDisjoint, PendingOf
  <2>3. new \cap DOMAIN f.elements = {}
    BY DEF CanClobber, PendingOf, IsPending, IsAmbiguous, BagIn, BagToSet
  <2> QED  BY <2>1, <2>2, <2>3
           DEF CanClobber, PendingOf, IsPending, BagIn, BagToSet
<1>3. /\ DOMAIN rest = DOMAIN f.elements \ old
      /\ \A e \in DOMAIN rest : rest[e] = f.elements[e]
  <2> HIDE DEF old, new
  <2> QED  BY <1>2 DEF (-), SetToBag, IsABag
<1>4. /\ DOMAIN g.elements = (DOMAIN f.elements \ old) \cup new
      /\ \A e \in DOMAIN f.elements \ old : g.elements[e] = f.elements[e]
      /\ \A e \in new : g.elements[e] = 1
      /\ g.elements = [e \in DOMAIN g.elements |-> g.elements[e]]
  <2> HIDE DEF old, new, rest, g
  <2> QED  BY <1>1, <1>2, <1>3 DEF (+), SetToBag, IsABag
<1>5. IsABag(g.elements)
  <2> HIDE DEF old, new, rest, g
  <2> QED  BY <1>2, <1>4 DEF IsABag
<1>6. \A e \in new : \E m \in PendingOf(f, ms) : e = m.new
  OBVIOUS
<1>7. \E B, C : g.elements = B (+) C
  BY <1>1
<1> HIDE DEF old, new, rest, g
<1> QED  BY <1>1, <1>2, <1>4, <1>5, <1>6, <1>7 DEF g

LEMMA ClobberIsFine ==
  ASSUME NEW c \in SweepCommands, NEW f, IsFlake(f), IsWired(f),
         CanClobber(f, c.migrations)
  PROVE  /\ IsFlake(Clobber(f, c.migrations)) /\ IsWired(Clobber(f, c.migrations))
         /\ PendingOf(Clobber(f, c.migrations), c.migrations) = {}
<1> DEFINE ms == c.migrations
           g == Clobber(f, ms)
<1>1. /\ DOMAIN g = DOMAIN f
      /\ g.recognized = f.recognized /\ g.utils = f.utils
      /\ g.ownEval = f.ownEval /\ g.overlay = f.overlay
      /\ g.wrapper = f.wrapper /\ g.attrs = f.attrs
      /\ g.inputs = f.inputs /\ g.args = f.args /\ g.bound = f.bound
      /\ IsABag(g.elements)
      /\ \A e \in DOMAIN g.elements :
            e \in DOMAIN f.elements \/ \E m \in PendingOf(f, ms) : e = m.new
      /\ \A m \in ms : m.old \notin DOMAIN g.elements
  BY ClobberList
<1> HIDE DEF g
<1>2. ASSUME NEW e \in BagToSet(g.elements), Len(e) = 1
      PROVE  e[1] \in g.bound \cup g.args
  <2>1. CASE e \in BagToSet(f.elements)
    BY <1>1, <1>2, <2>1 DEF IsWired, Resolves, CanClobber, HasList
  <2>2. CASE \E m \in PendingOf(f, ms) : e = m.new
    BY <1>1, <1>2, <2>2 DEF CanClobber, IsBound
  <2> QED  BY <1>1, <2>1, <2>2 DEF BagToSet
<1>3. IsFlake(g)
  BY <1>1 DEF IsFlake
<1>4. IsWired(g)
  BY <1>1, <1>2 DEF IsWired, Resolves, OwnBindings, HasBareHead
<1>5. PendingOf(g, ms) = {}
  BY <1>1 DEF PendingOf, IsPending, BagIn, BagToSet
<1> QED  BY <1>3, <1>4, <1>5 DEF g

LEMMA ClobberKeeps ==
  ASSUME NEW f, IsFlake(f), CanClobber(f, cmd.migrations), cmd \in SweepCommands,
         NoneIsNoBag
  PROVE  KeepsFlake(f, Clobber(f, cmd.migrations))
<1> DEFINE g == Clobber(f, cmd.migrations)
<1>1. /\ g.wrapper = f.wrapper /\ g.attrs = f.attrs
      /\ g.inputs = f.inputs /\ g.args = f.args /\ g.bound = f.bound
      /\ \E B, C : g.elements = B (+) C
      /\ \A e \in DOMAIN f.elements \ {m.old : m \in cmd.migrations} :
            e \in DOMAIN g.elements /\ g.elements[e] = f.elements[e]
  BY ClobberList
<1>2. cmd.kind = "sweep"
  BY AdoptionAssumption
<1> HIDE DEF g
<1>3. g.elements # None
  BY <1>1 DEF NoneIsNoBag
<1> QED  BY <1>1, <1>2, <1>3 DEF KeepsFlake, Migrated, BagIn, BagToSet, g

-------------------------------------------------------------------------------
(* The inductive invariant *)

Commands == LocalCommands \cup BootstrapCommands \cup SweepCommands

BootstrapPCs == {"preflight", "init", "after", "fill", "stage", "lock", "done"}

\* A command that runs is one of those there are and has not ended; a sweep that
\* reads has only checkouts before it.
CommandIsKnown ==
    /\ cmd = None \/ cmd \in Commands
    /\ pc # "idle" => cmd \in Commands /\ outcome = None
    /\ outcome # None => cmd \in Commands
    /\ pc \in BootstrapPCs => cmd \in BootstrapCommands
    /\ pc = "read" => todo \in Seq(Repos)
    /\ edits \in 0..MaxEdits

\* Every file can be looked at, and a template's has no placeholder that its
\* next bootstrap would not know.
IsSound(n, f) ==
    /\ IsFine(n, f)
    /\ f.by = "template" => n \in InTemplate /\ f.tokens \subseteq TokensOf(n)

TreeIsFine ==
    /\ DOMAIN tree = Repos
    /\ \A r \in Repos :
          /\ DOMAIN tree[r] = Names
          /\ \A n \in Names : tree[r][n] # None => IsSound(n, tree[r][n])

QueueIsFine ==
    /\ queue \in Seq({queue[i] : i \in DOMAIN queue})
    /\ \A i \in DOMAIN queue : queue[i].repo \in Repos /\ IsSound(Flake, queue[i].file)

\* A sweep has changed nothing before nix has parsed all of its rewrites; what
\* it will write is made from what it still finds, or has already written; and a
\* flake it was given that still needs work is ahead of it or in its queue.  But
\* for those that the user has changed.
IsRewrite(w, old, ms, now) ==
    /\ old # None /\ IsFile(Flake, old)
    /\ CanClobber(old.code, ms)
    /\ w.file = [old EXCEPT !.code = Clobber(@, ms)]
    /\ now \in {old, w.file}

SweepKeepsTrack ==
    pc \in {"read", "write"} =>
        /\ cmd \in SweepCommands
        /\ pc = "write" => todo = <<>> /\ ("parse" \in failures => queue = <<>>)
        /\ pc = "read" \/ "parse" \in failures =>
              \A r \in Repos : <<r, Flake>> \notin mine => tree[r][Flake] = before[r][Flake]
        /\ \A i \in DOMAIN queue :
              /\ PendingOf(queue[i].file.code, cmd.migrations) = {}
              /\ <<queue[i].repo, Flake>> \notin mine =>
                    IsRewrite(queue[i], before[queue[i].repo][Flake], cmd.migrations,
                              tree[queue[i].repo][Flake])
        /\ failures = {} /\ cmd.apply =>
              \A i \in DOMAIN cmd.repos :
                 \/ <<cmd.repos[i], Flake>> \in mine
                 \/ \E j \in DOMAIN todo : todo[j] = cmd.repos[i]
                 \/ \E j \in DOMAIN queue : queue[j].repo = cmd.repos[i]
                 \/ PendingOf(tree[cmd.repos[i]][Flake].code, cmd.migrations) = {}

\* What a bootstrap may still have to fill in, in files it counts as the
\* template's, none of which the user wrote but those changed since it began.
UpToFill == {"preflight", "init", "after"}
AfterFill == {"stage", "lock", "done"}
BootstrapKeepsTrack ==
    /\ pc \in {"preflight", "init"} =>
          \A n \in Names : <<Repo, n>> \in mine \/ tree[Repo][n] = before[Repo][n]
    /\ pc \in {"init", "after"} => Conflicts = {}
    /\ pc = "after" =>
          \A n \in Names :
             \/ <<Repo, n>> \in mine
             \/ tree[Repo][n] = before[Repo][n]
             \/ n \in InTemplate /\ tree[Repo][n] = Template[n]
    /\ pc \in UpToFill =>
          \A n \in Names :
             <<Repo, n>> \in mine => tree[Repo][n] # None /\ tree[Repo][n].by = "user"
    /\ pc = "fill" =>
          \A n \in Names : tree[Repo][n] # None =>
             /\ tree[Repo][n].by = "template" =>
                   /\ n \in touched
                   /\ \A t \in tree[Repo][n].tokens :
                         \E j \in DOMAIN todo : todo[j] = Filling(t, n)
             /\ n \in touched /\ <<Repo, n>> \notin mine => tree[Repo][n].by # "user"
    /\ pc = "fill" => todo \in Seq({Substitutions[i] : i \in DOMAIN Substitutions})
    /\ pc \in AfterFill =>
          \A n \in Names : tree[Repo][n] # None /\ tree[Repo][n].by = "template" =>
             tree[Repo][n].tokens = {}
    /\ \A r \in Repos : \A n \in Names :
          index[r][n] # None /\ index[r][n].by = "template" => index[r][n].tokens = {}

\* The rest of the type invariant.
ControlIsFine ==
    /\ DOMAIN index = Repos
    /\ \A r \in Repos :
          /\ DOMAIN index[r] = Names
          /\ \A n \in Names : index[r][n] # None => IsFile(n, index[r][n])
    /\ mine \subseteq Repos \X Names
    /\ commands \in 0..MaxCommands
    /\ touched \subseteq Names
    /\ failures \subseteq {"migration", "parse"}
    /\ pc = "idle" => todo = <<>> /\ touched = {} /\ queue = <<>> /\ failures = {}
    /\ pc \in {"idle", "plain", "flake", "overlay", "justfile", "hosts", "repair",
               "read", "write"} \cup BootstrapPCs
    /\ outcome \in {None, "ok", "failed", "conflict", "refused", "exit 1"}

IInv ==
    /\ ControlIsFine
    /\ CommandIsKnown
    /\ TreeIsFine
    /\ QueueIsFine
    /\ SweepKeepsTrack
    /\ SweepIsHonest
    /\ BootstrapKeepsTrack
    /\ FinishedIsFilled

-------------------------------------------------------------------------------
(* What a write leaves *)

LEMMA EmptyIsEmpty == DOMAIN <<>> = {} /\ \A S : <<>> \in Seq(S)
  OBVIOUS

LEMMA CommandKinds ==
  ASSUME cmd \in Commands
  PROVE  /\ cmd.kind \in {"local", "bootstrap"} => cmd.repo \in Repos
         /\ cmd.kind = "sweep" => cmd.repos \in Seq(Repos)
         /\ cmd.kind \in {"local", "bootstrap", "sweep"}
         /\ cmd.kind = "bootstrap" => cmd \in BootstrapCommands
         /\ cmd.kind = "sweep" => cmd \in SweepCommands
  BY AdoptionAssumption DEF Commands

LEMMA PutIs ==
  ASSUME NEW r, NEW n, NEW file, TreeIsFine, Put(r, n, file)
  PROVE  /\ DOMAIN tree' = Repos
         /\ \A q \in Repos :
               /\ DOMAIN tree'[q] = Names
               /\ \A m \in Names :
                     tree'[q][m] = IF q = r /\ m = n THEN file ELSE tree[q][m]
<1>1. tree' = [tree EXCEPT ![r] = [tree[r] EXCEPT ![n] = file]]
  BY DEF Put
<1>2. ASSUME NEW q \in Repos
      PROVE  /\ DOMAIN tree'[q] = Names
             /\ \A m \in Names :
                   tree'[q][m] = IF q = r /\ m = n THEN file ELSE tree[q][m]
  <2>1. CASE q # r
    BY <1>1, <2>1 DEF TreeIsFine
  <2>2. CASE q = r
    <3>1. tree'[q] = [tree[q] EXCEPT ![n] = file] /\ DOMAIN tree[q] = Names
      BY <1>1, <2>2 DEF TreeIsFine
    <3> QED  BY <2>2, <3>1
  <2> QED  BY <2>1, <2>2
<1> QED  BY <1>1, <1>2 DEF TreeIsFine

LEMMA PutIsFine ==
  ASSUME NEW r, NEW n, NEW file, TreeIsFine, Put(r, n, file), IsSound(n, file)
  PROVE  TreeIsFine'
<1>1. /\ DOMAIN tree' = Repos
      /\ \A q \in Repos :
            /\ DOMAIN tree'[q] = Names
            /\ \A m \in Names :
                  tree'[q][m] = IF q = r /\ m = n THEN file ELSE tree[q][m]
  BY PutIs
<1>2. \A q \in Repos, m \in Names : tree[q][m] # None => IsSound(m, tree[q][m])
  BY DEF TreeIsFine
<1>3. \A q \in Repos, m \in Names : tree'[q][m] # None => IsSound(m, tree'[q][m])
  BY <1>1, <1>2
<1> QED  BY <1>1, <1>3 DEF TreeIsFine

LEMMA TornIsSound == \A n : IsSound(n, Torn(n))
<1> TAKE n
<1>1. /\ Torn(n) = File("torn", {}, CodeOfTorn(n))
      /\ DOMAIN Torn(n) = {"by", "tokens", "code"}
      /\ Torn(n).by = "torn" /\ Torn(n).tokens = {} /\ Torn(n).code = CodeOfTorn(n)
  BY DEF Torn, File
<1>2. IsFlake(Unrecognized) /\ IsWired(Unrecognized)
  BY DEF IsFlake, IsWired, Resolves, Unrecognized, OwnBindings
<1>3. IsFile(n, Torn(n))
  <2> DEFINE f == Torn(n)
  <2>1. n = Flake => f.code = Unrecognized
    BY <1>1 DEF CodeOfTorn
  <2>2. n = Overlay => f.code.shape = "unclosed" /\ f.code.hosts = {}
    BY <1>1 DEF CodeOfTorn, Overlay, Flake, HostsLine
  <2>3. n # Flake /\ n # Overlay => f.code = None
    BY <1>1 DEF CodeOfTorn
  <2> HIDE DEF f
  <2>4. Flake # Overlay
    BY DEF Flake, Overlay
  <2>5. DOMAIN f = {"by", "tokens", "code"} /\ f.by = "torn" /\ f.tokens = {}
    BY <1>1 DEF f
  <2>6. IsFile(n, f)
    BY <1>2, <2>1, <2>2, <2>3, <2>4, <2>5 DEF IsFile
  <2> QED  BY <2>6 DEF f
<1>4. n = Flake => IsWired(Torn(n).code)
  BY <1>1, <1>2 DEF CodeOfTorn
<1> QED  BY <1>1, <1>3, <1>4 DEF IsSound, IsFine

LEMMA ScaffoldIsSound == \A n : IsSound(n, Scaffold(n))
<1> TAKE n
<1> DEFINE f == Scaffold(n)
<1>1. /\ DOMAIN f = {"by", "tokens", "code"}
      /\ f.by = "scaffold" /\ f.tokens = {}
      /\ f.code = IF n = Flake THEN GreenFlake
                  ELSE IF n = Overlay THEN PlainOverlay ELSE None
  BY DEF Scaffold, File
<1>2. PlainOverlay.shape = "plain" /\ PlainOverlay.hosts = {}
  BY DEF PlainOverlay, HostsLine
<1>3. Flake # Overlay
  BY DEF Flake, Overlay
<1> HIDE DEF f
<1>4. IsFile(n, f)
  BY <1>1, <1>2, <1>3, AdoptionAssumption DEF IsFile
<1>5. IsSound(n, f)
  BY <1>1, <1>4, AdoptionAssumption DEF IsSound, IsFine
<1> QED  BY <1>5 DEF f

\* An edit of a file's code alone.
LEMMA RecodedIsSound ==
  ASSUME NEW n, NEW f, NEW code, IsSound(n, f),
         n \in {Flake, Overlay},
         n = Flake => IsFlake(code) /\ IsWired(code),
         n = Overlay => code.shape = "managed" /\ code.hosts \cap {Canonical, None} = {}
  PROVE  LET new == [f EXCEPT !.code = code]
         IN  /\ IsSound(n, new)
             /\ new.by = f.by /\ new.tokens = f.tokens /\ new.code = code
<1> DEFINE g == [f EXCEPT !.code = code]
<1>1. /\ DOMAIN g = {"by", "tokens", "code"}
      /\ g.by = f.by /\ g.tokens = f.tokens /\ g.code = code
  BY DEF IsSound, IsFine, IsFile
<1>2. Flake # Overlay
  BY DEF Flake, Overlay
<1> HIDE DEF g
<1>3. IsFile(n, g)
  BY <1>1, <1>2 DEF IsSound, IsFine, IsFile
<1>4. IsSound(n, g)
  BY <1>1, <1>3 DEF IsSound, IsFine
<1> QED  BY <1>1, <1>4 DEF g

\* The overlay with the hosts in it.
LEMMA OverlayIsSound ==
  ASSUME TreeIsFine, NEW r \in Repos, NEW hosts,
         PersistedOverlay(r, WantedHosts(r, hosts)) # None
  PROVE  LET had == tree[r][Overlay]
             new == PersistedOverlay(r, WantedHosts(r, hosts))
         IN  /\ IsSound(Overlay, new)
             /\ had # None =>
                   /\ new.by = had.by /\ new.tokens = had.tokens
                   /\ KeepsOverlay(had.code, new.code)
             /\ had = None => new.by = "scaffold"
<1> DEFINE had == tree[r][Overlay]
           old == IF had = None THEN File("scaffold", {}, PlainOverlay) ELSE had
           wanted == WantedHosts(r, hosts)
           code == WithAllowedHosts(old.code, wanted)
           new == PersistedOverlay(r, wanted)
<1>1. new = [old EXCEPT !.code = code] /\ IsEditable(old.code)
  BY DEF PersistedOverlay
<1>2. Overlay \in Names
  BY DEF Names
<1>3. IsSound(Overlay, old)
  <2>1. CASE had = None
    <3>1. Scaffold(Overlay) = File("scaffold", {}, PlainOverlay)
      BY DEF Scaffold, Overlay, Flake
    <3> QED  BY <2>1, <3>1, ScaffoldIsSound
  <2>2. CASE had # None
    BY <1>2, <2>2 DEF TreeIsFine
  <2> QED  BY <2>1, <2>2
<1>4. code.shape = "managed" /\ code.hosts = old.code.hosts \cup wanted
  BY DEF WithAllowedHosts, HostsLine
<1>5. Overlay # Flake /\ old.code.hosts \cap {Canonical, None} = {}
  <2>1. Overlay # Flake
    BY DEF Flake, Overlay
  <2> HIDE DEF old
  <2> QED  BY <1>3, <2>1 DEF IsSound, IsFine, IsFile
<1>6. wanted \cap {Canonical, None} = {}
  BY DEF WantedHosts
<1>7. old.by = IF had = None THEN "scaffold" ELSE had.by
  BY DEF File
<1>8. had # None => old = had
  OBVIOUS
<1> HIDE DEF old, code, new, wanted, had
<1>9. /\ IsSound(Overlay, new)
      /\ new.by = old.by /\ new.tokens = old.tokens /\ new.code = code
  BY <1>1, <1>3, <1>4, <1>5, <1>6, RecodedIsSound
<1>10. had # None => KeepsOverlay(had.code, new.code)
  BY <1>1, <1>4, <1>8, <1>9 DEF KeepsOverlay, IsEditable
<1> QED  BY <1>7, <1>8, <1>9, <1>10 DEF new, had, wanted

LEMMA SoundFlake ==
  ASSUME NEW f, IsSound(Flake, f)
  PROVE  IsFlake(f.code) /\ IsWired(f.code)
<1>1. Flake # Overlay
  BY DEF Flake, Overlay
<1> QED  BY <1>1 DEF IsSound, IsFine, IsFile

-------------------------------------------------------------------------------
(* The commands, the tree and the queue *)

LEMMA StepCommand ==
  ASSUME CommandIsKnown, [Next]_vars
  PROVE  CommandIsKnown'
<1> USE AdoptionAssumption
    DEF CommandIsKnown, Goto, End, SkipTo, WriteAndGoto, WriteIfAbsent, task, user,
        BootstrapPCs
<1>1. CASE UNCHANGED vars  BY <1>1 DEF vars
<1>2. CASE Local
  <2>1. CASE StartLocal
    BY <2>1 DEF StartLocal, Start, Commands
  <2>2. CASE WritePlain \/ WriteFlake \/ WriteOverlay \/ EditFlake \/ WriteJustfile
    BY <2>2 DEF WritePlain, WriteFlake, WriteOverlay, EditFlake, WriteJustfile, InLocal
  <2>3. CASE PersistHosts \/ Finish
    BY <2>3 DEF PersistHosts, Finish, InLocal
  <2> QED  BY <1>2, <2>1, <2>2, <2>3 DEF Local
<1>3. CASE Bootstrapping
  <2> USE DEF InBootstrap
  <2>0. cmd \in Commands /\ cmd.kind = "bootstrap" => cmd \in BootstrapCommands
    BY CommandKinds
  <2>1. CASE StartBootstrap
    BY <2>1 DEF StartBootstrap, Start, Commands
  <2>2. CASE Preflight  BY <2>0, <2>2 DEF Preflight
  <2>3. CASE FlakeInit  BY <2>0, <2>3 DEF FlakeInit
  <2>4. CASE AfterInit  BY <2>0, <2>4 DEF AfterInit
  <2>5. CASE Fill  BY <2>0, <2>5 DEF Fill
  <2>6. CASE PersistHostsOfTemplate  BY <2>0, <2>6 DEF PersistHostsOfTemplate
  <2>7. CASE Stage  BY <2>0, <2>7 DEF Stage
  <2>8. CASE Lock  BY <2>0, <2>8 DEF Lock
  <2>9. CASE FinishBootstrap  BY <2>9 DEF FinishBootstrap
  <2> QED  BY <1>3, <2>1, <2>2, <2>3, <2>4, <2>5, <2>6, <2>7, <2>8, <2>9
           DEF Bootstrapping
<1>4. CASE Sweep
  <2> USE DEF InSweep
  <2>1. CASE StartSweep
    BY <2>1 DEF StartSweep, Start, Commands
  <2>2. CASE ReadFlake
    <3>1. /\ todo' = Tail(todo) /\ UNCHANGED <<pc, cmd, edits, outcome>>
          /\ pc = "read" /\ todo # <<>>
      BY <2>2 DEF ReadFlake, Look
    <3> QED  BY <3>1
  <2>3. CASE EndOfPhaseOne  BY <2>3 DEF EndOfPhaseOne
  <2>4. CASE WriteRewrite  BY <2>4 DEF WriteRewrite
  <2>5. CASE FinishSweep  BY <2>5 DEF FinishSweep
  <2> QED  BY <1>4, <2>1, <2>2, <2>3, <2>4, <2>5 DEF Sweep
<1>5. CASE Stop  BY <1>5 DEF Stop
<1>6. CASE EditByUser  BY <1>6 DEF EditByUser, UserEdits
<1> QED  BY <1>1, <1>2, <1>3, <1>4, <1>5, <1>6 DEF Next

LEMMA StepTree ==
  ASSUME IInv, [Next]_vars
  PROVE  TreeIsFine'
<1> USE DEF IInv
<1>1. CASE UNCHANGED tree  BY <1>1 DEF TreeIsFine
<1>2. ASSUME NEW n, NEW file, IsSound(n, file), NEW next, NEW list,
             WriteAndGoto(n, file, next, list)
      PROVE  TreeIsFine'
  BY <1>2, PutIsFine, TornIsSound DEF WriteAndGoto
<1>3. CASE Local
  <2> USE DEF SkipTo, files
  <2>2. CASE StartLocal
    BY <1>1, <2>2 DEF StartLocal, Start
  <2>3. CASE WritePlain
    BY <1>1, <1>2, <2>3, ScaffoldIsSound DEF WritePlain, WriteIfAbsent
  <2>4. CASE WriteFlake
    BY <1>2, <2>4, ScaffoldIsSound DEF WriteFlake
  <2>5. CASE WriteOverlay
    BY <1>1, <1>2, <2>5, ScaffoldIsSound DEF WriteOverlay, WriteIfAbsent
  <2>6. CASE EditFlake
    <3> DEFINE old == tree[cmd.repo][Flake]
               code == Apply(old.code, RepoName[cmd.repo], cmd.force)
               new == [old EXCEPT !.code = code]
    <3>1. IsSound(Flake, old)
      <4>1. cmd.repo \in Repos /\ old # None
        BY <2>6, CommandKinds DEF EditFlake, Has, InLocal, CommandIsKnown
      <4> QED  BY <4>1 DEF TreeIsFine, Names
    <3>2. CanApply(old.code) => IsFlake(code) /\ IsWired(code)
      BY <3>1, SoundFlake, ApplyIsFine
    <3>3. CanApply(old.code) => IsSound(Flake, new)
      <4> HIDE DEF code, old
      <4>1. Flake # Overlay
        BY DEF Flake, Overlay
      <4> QED  BY <3>1, <3>2, <4>1, RecodedIsSound
    <3> HIDE DEF new
    <3>4. UNCHANGED tree \/ (CanApply(old.code)
                             /\ WriteAndGoto(Flake, new, "justfile", <<>>))
      BY <2>6 DEF EditFlake, new
    <3> QED  BY <1>1, <1>2, <3>3, <3>4
  <2>7. CASE WriteJustfile
    BY <1>1, <1>2, <2>7, ScaffoldIsSound DEF WriteJustfile, WriteIfAbsent
  <2>8. CASE PersistHosts
    <3>1. cmd.repo \in Repos
      BY <2>8, CommandKinds DEF PersistHosts, InLocal, CommandIsKnown
    <3> DEFINE new == PersistedOverlay(cmd.repo, WantedHosts(cmd.repo, cmd.hosts))
    <3>2. new # None => IsSound(Overlay, new)
      BY <3>1, OverlayIsSound
    <3>3. UNCHANGED tree \/ (new # None /\ WriteAndGoto(Overlay, new, "repair", <<>>))
      BY <2>8 DEF PersistHosts
    <3> HIDE DEF new
    <3> QED  BY <1>1, <1>2, <3>2, <3>3
  <2>9. CASE Finish
    BY <1>1, <2>9 DEF Finish
  <2> QED  BY <1>3, <2>2, <2>3, <2>4, <2>5, <2>6, <2>7, <2>8, <2>9 DEF Local
<1>4. CASE Bootstrapping
  <2> USE DEF SkipTo, files
  <2>0. pc # "idle" /\ cmd.kind = "bootstrap" => Repo \in Repos
    BY CommandKinds DEF CommandIsKnown, Repo
  <2>1. CASE StartBootstrap
    BY <1>1, <2>1 DEF StartBootstrap, Start
  <2>2. CASE Preflight
    BY <1>1, <2>2 DEF Preflight
  <2>3. CASE FlakeInit
    <3>1. PICK ns \in SUBSET InTemplate :
             tree' = [tree EXCEPT ![Repo] =
                        [n \in Names |-> IF n \in ns THEN Template[n] ELSE @[n]]]
      BY <2>3 DEF FlakeInit
    <3>2. \A r \in Repos, n \in Names :
             \/ tree'[r][n] = tree[r][n]
             \/ n \in InTemplate /\ tree'[r][n] = Template[n]
      BY <3>1 DEF TreeIsFine
    <3>3. \A n \in InTemplate : IsSound(n, Template[n])
      BY AdoptionAssumption DEF IsSound
    <3>4. \A r \in Repos, n \in Names : tree'[r][n] # None => IsSound(n, tree'[r][n])
      BY <3>2, <3>3 DEF TreeIsFine
    <3>5. DOMAIN tree' = Repos /\ \A r \in Repos : DOMAIN tree'[r] = Names
      BY <3>1 DEF TreeIsFine
    <3> QED  BY <3>4, <3>5 DEF TreeIsFine
  <2>4. CASE AfterInit
    BY <1>1, <2>4 DEF AfterInit
  <2>5. CASE Fill
    <3> DEFINE f == Head(todo)
               old == tree[Repo][f.name]
               new == [old EXCEPT !.tokens = @ \ {f.token}]
    <3>1. UNCHANGED tree \/ (/\ old # None
                             /\ WriteAndGoto(f.name, new, "fill", Tail(todo)))
      BY <2>5 DEF Fill
    <3>2. Repo \in Repos
      BY <2>0, <2>5 DEF Fill, InBootstrap
    <3>3. f.name \notin Names => UNCHANGED tree \/ TreeIsFine'
      <4> SUFFICES ASSUME f.name \notin Names,
                          WriteAndGoto(f.name, new, "fill", Tail(todo))
                   PROVE  TreeIsFine'
        BY <3>1
      <4>1. PICK file : Put(Repo, f.name, file)
        BY DEF WriteAndGoto, Repo
      <4>2. /\ DOMAIN tree' = Repos
            /\ \A q \in Repos :
                  /\ DOMAIN tree'[q] = Names
                  /\ \A m \in Names : tree'[q][m] = tree[q][m]
        <5> HIDE DEF f, old, new
        <5> QED  BY <4>1, PutIs
      <4> QED  BY <4>2 DEF TreeIsFine
    <3>4. f.name \in Names /\ old # None => IsSound(f.name, new)
      <4> SUFFICES ASSUME f.name \in Names, old # None PROVE IsSound(f.name, new)
        OBVIOUS
      <4>1. IsSound(f.name, old)
        BY <3>2 DEF TreeIsFine
      <4> HIDE DEF old, f
      <4>2. /\ DOMAIN new = DOMAIN old /\ new.by = old.by /\ new.code = old.code
            /\ new.tokens \subseteq old.tokens
        BY <4>1 DEF IsSound, IsFine, IsFile
      <4> HIDE DEF new
      <4>3. IsFile(f.name, new)
        BY <4>1, <4>2 DEF IsSound, IsFine, IsFile
      <4> QED  BY <4>1, <4>2, <4>3 DEF IsSound, IsFine
    <3> HIDE DEF new, old, f
    <3> QED  BY <1>1, <1>2, <3>1, <3>3, <3>4
  <2>6. CASE PersistHostsOfTemplate
    <3> DEFINE new == PersistedOverlay(Repo, WantedHosts(Repo, cmd.hosts))
    <3>1. new # None => IsSound(Overlay, new)
      BY <2>0, <2>6, OverlayIsSound DEF PersistHostsOfTemplate, InBootstrap
    <3>2. \/ UNCHANGED tree
          \/ new # None /\ Put(Repo, Overlay, new)
          \/ Put(Repo, Overlay, Torn(Overlay))
      BY <2>6 DEF PersistHostsOfTemplate
    <3> HIDE DEF new
    <3> QED  BY <1>1, <3>1, <3>2, PutIsFine, TornIsSound
  <2>7. CASE Stage
    BY <1>1, <2>7 DEF Stage
  <2>8. CASE Lock
    <3> DEFINE lock == File("nix", {}, None)
    <3>1. IsSound("flake.lock", lock)
      BY DEF IsSound, IsFine, IsFile, File, Flake, Overlay
    <3>2. UNCHANGED tree \/ Put(Repo, "flake.lock", lock)
      BY <2>8 DEF Lock, Repo
    <3> HIDE DEF lock
    <3> QED  BY <1>1, <3>1, <3>2, PutIsFine
  <2>9. CASE FinishBootstrap
    BY <1>1, <2>9 DEF FinishBootstrap
  <2> QED  BY <1>4, <2>1, <2>2, <2>3, <2>4, <2>5, <2>6, <2>7, <2>8, <2>9
           DEF Bootstrapping
<1>5. CASE Sweep
  <2> USE DEF files
  <2>1. CASE StartSweep
    BY <1>1, <2>1 DEF StartSweep, Start
  <2>2. CASE ReadFlake
    BY <1>1, <2>2 DEF ReadFlake, Look
  <2>3. CASE EndOfPhaseOne
    BY <1>1, <2>3 DEF EndOfPhaseOne
  <2>4. CASE WriteRewrite
    <3>1. IsSound(Flake, Head(queue).file)
      BY <2>4 DEF WriteRewrite, QueueIsFine
    <3> QED  BY <2>4, <3>1, PutIsFine, TornIsSound DEF WriteRewrite
  <2>5. CASE FinishSweep
    BY <1>1, <2>5 DEF FinishSweep
  <2> QED  BY <1>5, <2>1, <2>2, <2>3, <2>4, <2>5 DEF Sweep
<1>6. CASE Stop
  BY <1>1, <1>6 DEF Stop, files
<1>7. CASE EditByUser
  <2>1. PICK r \in Repos, n \in Names : UserEdits(r, n)
    BY <1>7 DEF EditByUser
  <2>2. PICK file \in UserFile(r, n) : Put(r, n, file)
    BY <2>1 DEF UserEdits
  <2>3. IsSound(n, file)
    BY AdoptionAssumption DEF IsSound
  <2> QED  BY <2>2, <2>3, PutIsFine
<1> QED  BY <1>1, <1>3, <1>4, <1>5, <1>6, <1>7 DEF Next, vars

LEMMA StepQueue ==
  ASSUME IInv, [Next]_vars
  PROVE  QueueIsFine'
<1> USE DEF IInv, QueueIsFine, Goto, End, SkipTo, WriteAndGoto, WriteIfAbsent
<1>1. CASE UNCHANGED queue  BY <1>1
<1>2. CASE queue' = <<>>    BY <1>2, EmptyIsEmpty
<1>3. CASE Local
  BY <1>1, <1>2, <1>3
  DEF Local, StartLocal, Start, WritePlain, WriteFlake, WriteOverlay, EditFlake,
      WriteJustfile, PersistHosts, Finish
<1>4. CASE Bootstrapping
  BY <1>1, <1>2, <1>4
  DEF Bootstrapping, StartBootstrap, Start, Preflight, FlakeInit, AfterInit, Fill,
      PersistHostsOfTemplate, Stage, Lock, FinishBootstrap
<1>5. CASE Sweep
  <2>1. CASE StartSweep \/ FinishSweep \/ EndOfPhaseOne
    BY <1>1, <1>2, <2>1 DEF StartSweep, Start, FinishSweep, EndOfPhaseOne
  <2>2. CASE ReadFlake
    <3> DEFINE r == Head(todo)
               old == tree[r][Flake]
               code == Clobber(old.code, cmd.migrations)
               new == [old EXCEPT !.code = code]
               w == [repo |-> r, file |-> new]
    <3>1. /\ \/ queue' = queue \o <<>>
             \/ queue' = queue \o <<w>> /\ CanClobber(old.code, cmd.migrations)
          /\ pc = "read" /\ todo # <<>> /\ old # None
      BY <2>2 DEF ReadFlake, Look, InSweep
    <3>2. r \in Repos /\ IsSound(Flake, old) /\ cmd \in SweepCommands
      BY <3>1 DEF CommandIsKnown, TreeIsFine, SweepKeepsTrack, Names
    <3>3. CanClobber(old.code, cmd.migrations) => IsSound(Flake, new)
      <4>1. CanClobber(old.code, cmd.migrations) => IsFlake(code) /\ IsWired(code)
        BY <3>2, SoundFlake, ClobberIsFine
      <4>2. Flake # Overlay
        BY DEF Flake, Overlay
      <4> HIDE DEF old, code
      <4> QED  BY <3>2, <4>1, <4>2, RecodedIsSound
    <3>4. w.repo = r /\ w.file = new
      OBVIOUS
    <3> HIDE DEF w, old, new
    <3>5. CASE queue' = queue \o <<>>
      BY <3>5
    <3>6. CASE queue' = queue \o <<w>> /\ CanClobber(old.code, cmd.migrations)
      <4> DEFINE S == {queue[i] : i \in DOMAIN queue}
      <4>1. \A v \in S \cup {w} : v.repo \in Repos /\ IsSound(Flake, v.file)
        BY <3>2, <3>3, <3>4, <3>6
      <4>2. queue' \in Seq(S \cup {w})
        BY <3>6
      <4> HIDE DEF S
      <4> QED  BY <4>1, <4>2
    <3> QED  BY <3>1, <3>5, <3>6
  <2>3. CASE WriteRewrite
    <3>1. queue # <<>> /\ (queue' = Tail(queue) \/ queue' = <<>>)
      BY <2>3 DEF WriteRewrite
    <3>2. CASE queue' = Tail(queue)
      <4> DEFINE S == {queue[i] : i \in DOMAIN queue}
      <4>1. \A v \in S : v.repo \in Repos /\ IsSound(Flake, v.file)
        OBVIOUS
      <4>2. queue \in Seq(S)
        OBVIOUS
      <4>3. queue' \in Seq(S)
        <5> HIDE DEF S
        <5> QED  BY <3>1, <3>2, <4>2
      <4> HIDE DEF S
      <4> QED  BY <4>1, <4>3
    <3> QED  BY <1>2, <3>1, <3>2
  <2> QED  BY <1>5, <2>1, <2>2, <2>3 DEF Sweep
<1>6. CASE Stop \/ EditByUser
  BY <1>1, <1>2, <1>6 DEF Stop, EditByUser, UserEdits
<1> QED  BY <1>1, <1>3, <1>4, <1>5, <1>6 DEF Next, vars

-------------------------------------------------------------------------------
(* What a sweep knows *)

LEMMA StepTrack ==
  ASSUME IInv, [Next]_vars
  PROVE  SweepKeepsTrack'
<1> USE DEF IInv, Goto, End, SkipTo, WriteAndGoto, WriteIfAbsent
<1>1. CASE pc' \notin {"read", "write"}  BY <1>1 DEF SweepKeepsTrack
<1>2. CASE UNCHANGED vars  BY <1>2 DEF SweepKeepsTrack, vars
<1>3. CASE Local
  BY <1>1, <1>3
  DEF Local, StartLocal, Start, WritePlain, WriteFlake, WriteOverlay, EditFlake,
      WriteJustfile, PersistHosts, Finish, InLocal
<1>4. CASE Bootstrapping
  BY <1>1, <1>4
  DEF Bootstrapping, StartBootstrap, Start, Preflight, FlakeInit, AfterInit, Fill,
      PersistHostsOfTemplate, Stage, Lock, FinishBootstrap, InBootstrap
<1>5. CASE Stop
  BY <1>1, <1>5 DEF Stop
<1>6. CASE StartSweep
  <2>1. PICK c \in SweepCommands : Start(c) /\ pc' = "read" /\ todo' = c.repos
    BY <1>6 DEF StartSweep
  <2> QED  BY <2>1 DEF Start, SweepKeepsTrack
<1>7. CASE ReadFlake
  <2> DEFINE r == Head(todo)
             old == tree[r][Flake]
             code == Clobber(old.code, cmd.migrations)
             new == [old EXCEPT !.code = code]
             w == [repo |-> r, file |-> new]
  <2>1. /\ pc = "read" /\ todo # <<>> /\ old # None
        /\ UNCHANGED <<tree, mine, cmd, before, pc>> /\ todo' = Tail(todo)
        /\ \/ /\ failures' # {} /\ queue' = queue \o <<>>
           \/ /\ failures' = failures /\ queue' = queue \o <<>>
              /\ PendingOf(old.code, cmd.migrations) = {} \/ ~cmd.apply
           \/ /\ failures' = failures /\ queue' = queue \o <<w>>
              /\ CanClobber(old.code, cmd.migrations)
    BY <1>7 DEF ReadFlake, Look, InSweep, files, user, task
  <2>2. /\ r \in Repos /\ IsSound(Flake, old)
        /\ todo \in Seq(Repos) /\ cmd \in SweepCommands
    BY <2>1 DEF CommandIsKnown, TreeIsFine, SweepKeepsTrack, Names
  <2>3. CanClobber(old.code, cmd.migrations) =>
           PendingOf(w.file.code, cmd.migrations) = {}
    <3>1. w.file.code = code
      BY <2>2 DEF IsSound, IsFine, IsFile
    <3> QED  BY <2>2, <3>1, SoundFlake, ClobberIsFine
  <2>4. w.repo = r /\ w.file = new
    OBVIOUS
  <2>10. CanClobber(old.code, cmd.migrations) /\ <<r, Flake>> \notin mine =>
            IsRewrite(w, before[r][Flake], cmd.migrations, tree[r][Flake])
    <3>1. <<r, Flake>> \notin mine => old = before[r][Flake]
      BY <2>1, <2>2 DEF SweepKeepsTrack
    <3>2. w.file = [old EXCEPT !.code = Clobber(@, cmd.migrations)]
      OBVIOUS
    <3>3. old = tree[r][Flake]
      OBVIOUS
    <3> HIDE DEF w, old, new
    <3> QED  BY <2>1, <2>2, <3>1, <3>2, <3>3 DEF IsRewrite, IsSound, IsFine
  <2>5. queue \in Seq({queue[i] : i \in DOMAIN queue})
    BY DEF QueueIsFine
  <2> HIDE DEF w
  <2>6. \/ queue' = queue
        \/ /\ DOMAIN queue' = DOMAIN queue \cup {Len(queue) + 1}
           /\ \A i \in DOMAIN queue : queue'[i] = queue[i]
           /\ queue'[Len(queue) + 1] = w
           /\ CanClobber(old.code, cmd.migrations)
    <3> DEFINE S == {queue[i] : i \in DOMAIN queue}
    <3>1. queue \in Seq(S)
      BY <2>5
    <3> HIDE DEF S, old
    <3>2. CASE queue' = queue \o <<>>
      BY <3>1, <3>2
    <3>3. CASE queue' = queue \o <<w>> /\ CanClobber(old.code, cmd.migrations)
      BY <3>1, <3>3
    <3> QED  BY <2>1, <3>2, <3>3
  <2>7. \A j \in DOMAIN todo : todo[j] = r \/ \E k \in DOMAIN todo' : todo'[k] = todo[j]
    <3> SUFFICES ASSUME NEW j \in DOMAIN todo, j # 1
                 PROVE  \E k \in DOMAIN todo' : todo'[k] = todo[j]
      <4>1. todo[1] = r
        BY <2>2
      <4> HIDE DEF r
      <4> QED  BY <4>1
    <3>1. todo' = Tail(todo) /\ todo # <<>> /\ todo \in Seq(Repos)
      BY <2>1, <2>2
    <3>2. j - 1 \in DOMAIN todo' /\ todo'[j - 1] = todo[j]
      BY <3>1
    <3> QED  BY <3>2
  <2>8. \A i \in DOMAIN queue' :
           /\ PendingOf(queue'[i].file.code, cmd.migrations) = {}
           /\ <<queue'[i].repo, Flake>> \notin mine =>
                 IsRewrite(queue'[i], before[queue'[i].repo][Flake], cmd.migrations,
                           tree[queue'[i].repo][Flake])
    <3> HIDE DEF r, old
    <3>1. ASSUME NEW i \in DOMAIN queue
          PROVE  /\ PendingOf(queue[i].file.code, cmd.migrations) = {}
                 /\ <<queue[i].repo, Flake>> \notin mine =>
                       IsRewrite(queue[i], before[queue[i].repo][Flake], cmd.migrations,
                                 tree[queue[i].repo][Flake])
      BY <2>1 DEF SweepKeepsTrack
    <3>2. CASE queue' = queue
      BY <3>1, <3>2
    <3>3. CASE queue' # queue
      <4>1. \A i \in DOMAIN queue' :
               (i \in DOMAIN queue /\ queue'[i] = queue[i])
                 \/ (queue'[i] = w /\ CanClobber(old.code, cmd.migrations))
        BY <2>6, <3>3
      <4>2. CanClobber(old.code, cmd.migrations) =>
               /\ PendingOf(w.file.code, cmd.migrations) = {}
               /\ <<w.repo, Flake>> \notin mine =>
                     IsRewrite(w, before[w.repo][Flake], cmd.migrations,
                               tree[w.repo][Flake])
        BY <2>3, <2>4, <2>10
      <4> QED  BY <3>1, <4>1, <4>2
    <3> QED  BY <3>2, <3>3
  <2>9. ASSUME failures' = {}, cmd.apply, NEW i \in DOMAIN cmd.repos
        PROVE  \/ <<cmd.repos[i], Flake>> \in mine
               \/ \E j \in DOMAIN todo' : todo'[j] = cmd.repos[i]
               \/ \E j \in DOMAIN queue' : queue'[j].repo = cmd.repos[i]
               \/ PendingOf(tree[cmd.repos[i]][Flake].code, cmd.migrations) = {}
    <3> DEFINE q == cmd.repos[i]
    <3>0. \/ <<q, Flake>> \in mine
          \/ \E j \in DOMAIN todo : todo[j] = q
          \/ \E j \in DOMAIN queue : queue[j].repo = q
          \/ PendingOf(tree[q][Flake].code, cmd.migrations) = {}
      BY <2>1, <2>9 DEF SweepKeepsTrack
    <3>4. \A j \in DOMAIN queue : \E k \in DOMAIN queue' : queue'[k] = queue[j]
      BY <2>6
    <3>5. (\E j \in DOMAIN todo : todo[j] = q) =>
             q = r \/ \E j \in DOMAIN todo' : todo'[j] = q
      BY <2>7
    <3>6. PendingOf(tree[r][Flake].code, cmd.migrations)
            = PendingOf(old.code, cmd.migrations)
      OBVIOUS
    <3> HIDE DEF q, r, old
    <3>1. CASE queue' = queue /\ PendingOf(old.code, cmd.migrations) = {}
      BY <3>0, <3>1, <3>5, <3>6 DEF q
    <3>2. CASE \E j \in DOMAIN queue' : queue'[j].repo = r
      BY <3>0, <3>2, <3>4, <3>5 DEF q
    <3>3. \/ queue' = queue /\ PendingOf(old.code, cmd.migrations) = {}
          \/ \E j \in DOMAIN queue' : queue'[j].repo = r
      BY <2>1, <2>4, <2>5, <2>6, <2>9
    <3> QED  BY <3>1, <3>2, <3>3
  <2> HIDE DEF old, r
  <2> QED  BY <2>1, <2>8, <2>9 DEF SweepKeepsTrack
<1>8. CASE EndOfPhaseOne
  <2>1. /\ pc = "read" /\ todo = <<>> /\ pc' = "write"
        /\ queue' = IF "parse" \notin failures THEN queue ELSE <<>>
        /\ UNCHANGED <<tree, mine, cmd, before, todo, failures>>
    BY <1>8 DEF EndOfPhaseOne, InSweep, MayWrite, files, user, task
  <2>2. CASE "parse" \in failures
    BY <2>1, <2>2 DEF SweepKeepsTrack
  <2>3. CASE "parse" \notin failures
    BY <2>1, <2>3 DEF SweepKeepsTrack
  <2> QED  BY <2>2, <2>3
<1>9. CASE WriteRewrite
  <2> DEFINE w == Head(queue)
             S == {queue[i] : i \in DOMAIN queue}
  <2>1. CASE pc' = "idle"
    BY <1>1, <2>1
  <2>2. CASE /\ Put(w.repo, Flake, w.file) /\ queue' = Tail(queue) /\ queue # <<>>
             /\ pc = "write"
             /\ UNCHANGED <<pc, todo, failures, mine, cmd, before>>
    <3>1. queue \in Seq(S)
      BY DEF QueueIsFine
    <3> HIDE DEF S
    <3>2. \A i \in DOMAIN queue' : i + 1 \in DOMAIN queue /\ queue'[i] = queue[i + 1]
      BY <2>2, <3>1
    <3>3. \A i \in DOMAIN queue : queue[i] = w \/ \E j \in DOMAIN queue' : queue'[j] = queue[i]
      <4> SUFFICES ASSUME NEW i \in DOMAIN queue, i # 1
                   PROVE  \E j \in DOMAIN queue' : queue'[j] = queue[i]
        BY <2>2, <3>1
      <4>1. i - 1 \in DOMAIN queue' /\ queue'[i - 1] = queue[i]
        BY <2>2, <3>1
      <4> QED  BY <4>1
    <3>4. /\ w.repo \in Repos /\ PendingOf(w.file.code, cmd.migrations) = {}
          /\ <<w.repo, Flake>> \notin mine =>
                IsRewrite(w, before[w.repo][Flake], cmd.migrations, tree[w.repo][Flake])
      <4>1. w = queue[1] /\ 1 \in DOMAIN queue
        BY <2>2, <3>1
      <4> QED  BY <2>2, <4>1 DEF QueueIsFine, SweepKeepsTrack
    <3>5. "parse" \notin failures
      BY <2>2 DEF SweepKeepsTrack
    <3>6. \A q \in Repos : tree'[q][Flake] = IF q = w.repo THEN w.file ELSE tree[q][Flake]
      BY <2>2, PutIs DEF Names
    <3>7. cmd \in SweepCommands /\ cmd.repos \in Seq(Repos)
      BY <2>2, AdoptionAssumption DEF SweepKeepsTrack
    <3>8. ASSUME NEW i \in DOMAIN queue'
          PROVE  /\ PendingOf(queue'[i].file.code, cmd.migrations) = {}
                 /\ <<queue'[i].repo, Flake>> \notin mine =>
                       IsRewrite(queue'[i], before[queue'[i].repo][Flake], cmd.migrations,
                                 tree'[queue'[i].repo][Flake])
      <4> DEFINE v == queue'[i]
                 old == before[v.repo][Flake]
      <4>1. /\ PendingOf(v.file.code, cmd.migrations) = {}
            /\ v.repo \in Repos
            /\ <<v.repo, Flake>> \notin mine =>
                  IsRewrite(v, old, cmd.migrations, tree[v.repo][Flake])
        BY <2>2, <3>2 DEF SweepKeepsTrack, QueueIsFine
      <4> HIDE DEF v, w
      <4>2. ASSUME <<v.repo, Flake>> \notin mine
            PROVE  IsRewrite(v, old, cmd.migrations, tree'[v.repo][Flake])
        <5>1. CASE v.repo = w.repo
          <6>1. v.file = w.file
            BY <3>4, <4>1, <4>2, <5>1 DEF IsRewrite
          <6>2. tree'[v.repo][Flake] = v.file
            BY <3>6, <4>1, <5>1, <6>1
          <6> QED  BY <4>1, <4>2, <6>2 DEF IsRewrite
        <5>2. CASE v.repo # w.repo
          BY <3>6, <4>1, <4>2, <5>2
        <5> QED  BY <5>1, <5>2
      <4> QED  BY <4>1, <4>2 DEF v
    <3>9. ASSUME failures = {}, cmd.apply, NEW i \in DOMAIN cmd.repos
          PROVE  \/ <<cmd.repos[i], Flake>> \in mine
                 \/ \E j \in DOMAIN todo : todo[j] = cmd.repos[i]
                 \/ \E j \in DOMAIN queue' : queue'[j].repo = cmd.repos[i]
                 \/ PendingOf(tree'[cmd.repos[i]][Flake].code, cmd.migrations) = {}
      <4>1. cmd.repos[i] \in Repos
        BY <3>7
      <4>2. CASE cmd.repos[i] = w.repo
        BY <3>4, <3>6, <4>1, <4>2
      <4>3. CASE cmd.repos[i] # w.repo
        <5> DEFINE q == cmd.repos[i]
        <5>1. \/ <<q, Flake>> \in mine
              \/ \E j \in DOMAIN todo : todo[j] = q
              \/ \E j \in DOMAIN queue : queue[j].repo = q
              \/ PendingOf(tree[q][Flake].code, cmd.migrations) = {}
          BY <2>2, <3>9 DEF SweepKeepsTrack
        <5>2. tree'[q][Flake] = tree[q][Flake]
          BY <3>6, <4>1, <4>3
        <5> HIDE DEF w, q
        <5>3. (\E j \in DOMAIN queue : queue[j].repo = q)
                 => \E j \in DOMAIN queue' : queue'[j].repo = q
          BY <3>3, <4>3 DEF q
        <5> QED  BY <5>1, <5>2, <5>3 DEF q
      <4> QED  BY <4>2, <4>3
    <3> QED  BY <2>2, <3>5, <3>7, <3>8, <3>9 DEF SweepKeepsTrack
  <2> QED  BY <1>9, <2>1, <2>2 DEF WriteRewrite, InSweep, user, task
<1>10. CASE FinishSweep
  BY <1>1, <1>10 DEF FinishSweep
<1>11. CASE EditByUser
  <2>1. PICK r \in Repos, n \in Names : UserEdits(r, n)
    BY <1>11 DEF EditByUser
  <2>2. /\ UNCHANGED <<pc, cmd, before, todo, queue, failures>>
        /\ mine \subseteq mine' /\ (n = Flake => <<r, Flake>> \in mine')
    BY <2>1 DEF UserEdits, task
  <2>3. \A q \in Repos : \/ <<q, Flake>> \in mine'
                         \/ tree'[q][Flake] = tree[q][Flake]
    BY <2>1, <2>2, PutIs DEF UserEdits, Names
  <2>4. cmd \in SweepCommands => cmd.repos \in Seq(Repos)
    BY AdoptionAssumption
  <2>5. ASSUME pc = "read" \/ "parse" \in failures, pc \in {"read", "write"},
               NEW q \in Repos, <<q, Flake>> \notin mine'
        PROVE  tree'[q][Flake] = before[q][Flake]
    BY <2>2, <2>3, <2>5 DEF SweepKeepsTrack
  <2>6. ASSUME pc \in {"read", "write"}, failures = {}, cmd.apply,
               NEW i \in DOMAIN cmd.repos
        PROVE  \/ <<cmd.repos[i], Flake>> \in mine'
               \/ \E j \in DOMAIN todo : todo[j] = cmd.repos[i]
               \/ \E j \in DOMAIN queue : queue[j].repo = cmd.repos[i]
               \/ PendingOf(tree'[cmd.repos[i]][Flake].code, cmd.migrations) = {}
    <3>1. cmd.repos[i] \in Repos
      BY <2>4, <2>6 DEF SweepKeepsTrack
    <3> QED  BY <2>2, <2>3, <2>6, <3>1 DEF SweepKeepsTrack
  <2>7. ASSUME pc \in {"read", "write"}, NEW i \in DOMAIN queue,
               <<queue[i].repo, Flake>> \notin mine'
        PROVE  IsRewrite(queue[i], before[queue[i].repo][Flake], cmd.migrations,
                         tree'[queue[i].repo][Flake])
    <3>1. queue[i].repo \in Repos
      BY <2>7 DEF QueueIsFine
    <3> QED  BY <2>2, <2>3, <2>7, <3>1 DEF SweepKeepsTrack
  <2> QED  BY <2>2, <2>5, <2>6, <2>7 DEF SweepKeepsTrack
<1> QED  BY <1>2, <1>3, <1>4, <1>5, <1>6, <1>7, <1>8, <1>9, <1>10, <1>11
         DEF Next, Sweep

LEMMA StepHonest ==
  ASSUME IInv, [Next]_vars
  PROVE  SweepIsHonest'
<1> USE DEF IInv, Goto, End, SkipTo, WriteAndGoto, WriteIfAbsent
<1>1. CASE pc' # "idle"  BY <1>1 DEF SweepIsHonest
<1>2. CASE UNCHANGED vars  BY <1>2 DEF SweepIsHonest, vars
<1>3. CASE cmd'.kind # "sweep" \/ outcome' \notin {"ok", "refused"}
  BY <1>3 DEF SweepIsHonest
<1>4. CASE Local
  BY <1>1, <1>3, <1>4
  DEF Local, StartLocal, Start, WritePlain, WriteFlake, WriteOverlay, EditFlake,
      WriteJustfile, PersistHosts, Finish, InLocal, user, task
<1>5. CASE Bootstrapping
  BY <1>1, <1>3, <1>5
  DEF Bootstrapping, StartBootstrap, Start, Preflight, FlakeInit, AfterInit, Fill,
      PersistHostsOfTemplate, Stage, Lock, FinishBootstrap, InBootstrap, user, task
<1>6. CASE Stop
  BY <1>3, <1>6 DEF Stop
<1>7. CASE StartSweep \/ ReadFlake \/ EndOfPhaseOne
  BY <1>1, <1>7 DEF StartSweep, Start, ReadFlake, Look, EndOfPhaseOne, InSweep
<1>8. CASE WriteRewrite
  BY <1>1, <1>3, <1>8 DEF WriteRewrite, InSweep
<1>9. CASE FinishSweep
  <2>1. /\ pc = "write" /\ queue = <<>> /\ todo = <<>> /\ cmd \in SweepCommands
        /\ UNCHANGED <<tree, mine, cmd, before>>
        /\ outcome' = "ok" => failures = {}
        /\ outcome' = "refused" => "parse" \in failures
    BY <1>9 DEF FinishSweep, InSweep, SweepKeepsTrack, files, user, task
  <2>2. cmd.repos \in Seq(Repos)
    BY <2>1, AdoptionAssumption
  <2>3. ASSUME NEW i \in DOMAIN cmd.repos, <<cmd.repos[i], Flake>> \notin mine,
               outcome' = "ok", cmd.apply
        PROVE  PendingOf(tree[cmd.repos[i]][Flake].code, cmd.migrations) = {}
    BY <2>1, <2>3, EmptyIsEmpty DEF SweepKeepsTrack
  <2>4. ASSUME NEW i \in DOMAIN cmd.repos, <<cmd.repos[i], Flake>> \notin mine,
               outcome' = "refused"
        PROVE  tree[cmd.repos[i]][Flake] = before[cmd.repos[i]][Flake]
    BY <2>1, <2>2, <2>4 DEF SweepKeepsTrack
  <2> QED  BY <2>1, <2>3, <2>4 DEF SweepIsHonest
<1>10. CASE EditByUser
  <2>1. PICK r \in Repos, n \in Names : UserEdits(r, n)
    BY <1>10 DEF EditByUser
  <2>2. /\ UNCHANGED <<pc, cmd, before, outcome>> /\ mine \subseteq mine'
        /\ (n = Flake => <<r, Flake>> \in mine')
    BY <2>1 DEF UserEdits, task
  <2>3. \A q \in Repos : \/ <<q, Flake>> \in mine'
                         \/ tree'[q][Flake] = tree[q][Flake]
    BY <2>1, <2>2, PutIs DEF UserEdits, Names
  <2>4. ASSUME pc = "idle", cmd # None, cmd.kind = "sweep", NEW i \in DOMAIN cmd.repos,
               <<cmd.repos[i], Flake>> \notin mine'
        PROVE  /\ outcome = "ok" /\ cmd.apply =>
                     PendingOf(tree'[cmd.repos[i]][Flake].code, cmd.migrations) = {}
               /\ outcome = "refused" =>
                     tree'[cmd.repos[i]][Flake] = before[cmd.repos[i]][Flake]
    <3>1. cmd.repos[i] \in Repos
      BY <2>4, CommandKinds DEF CommandIsKnown
    <3> QED  BY <2>2, <2>3, <2>4, <3>1 DEF SweepIsHonest
  <2> QED  BY <2>2, <2>4 DEF SweepIsHonest
<1> QED  BY <1>2, <1>4, <1>5, <1>6, <1>7, <1>8, <1>9, <1>10 DEF Next, Sweep

-------------------------------------------------------------------------------
(* What a bootstrap knows *)

LEMMA SubstitutionsAre ==
  /\ Substitutions \in Seq({Substitutions[i] : i \in DOMAIN Substitutions})
  /\ \A n : \A t \in TokensOf(n) :
        \E j \in DOMAIN Substitutions : Substitutions[j] = Filling(t, n)
<1>1. DOMAIN Substitutions = 1..9 /\ Len(Substitutions) = 9
  BY DEF Substitutions
<1>2. \A j \in 1..9 :
         Substitutions[j] = Filling(Substitutions[j].token, Substitutions[j].name)
  <2>1. \A t, m : Filling(t, m) = Filling(Filling(t, m).token, Filling(t, m).name)
    BY DEF Filling
  <2>2. \A j \in 1..9 : \E t, m : Substitutions[j] = Filling(t, m)
    <3>1. /\ Substitutions[1] = Filling("EXAMPLE_VERSION", "version.env")
          /\ Substitutions[2] = Filling("EXAMPLE_VERSION", "conformist.nix")
          /\ Substitutions[3] = Filling("EXAMPLE_CRATE", "Cargo.toml")
          /\ Substitutions[4] = Filling("EXAMPLE_CRATE", "AGENTS.md")
          /\ Substitutions[5] = Filling("EXAMPLE_NAME", "go.nix")
          /\ Substitutions[6] = Filling("EXAMPLE_NAME", Flake)
          /\ Substitutions[7] = Filling("EXAMPLE_NAME", "main.go")
          /\ Substitutions[8] = Filling("EXAMPLE_NAME", "AGENTS.md")
          /\ Substitutions[9] = Filling("import prefix", "main.go")
      BY DEF Substitutions
    <3>2. \A j \in 1..9 : \/ j = 1 \/ j = 2 \/ j = 3 \/ j = 4 \/ j = 5
                         \/ j = 6 \/ j = 7 \/ j = 8 \/ j = 9
      OBVIOUS
    <3> QED  BY ONLY <3>1, <3>2, Zenon
  <2> QED  BY <2>1, <2>2
<1>3. \A n : \A t \in TokensOf(n) : \E j \in 1..9 :
         Substitutions[j].token = t /\ Substitutions[j].name = n
  BY <1>1 DEF TokensOf
<1>4. Substitutions \in Seq({Substitutions[i] : i \in DOMAIN Substitutions})
  <2> DEFINE T == {Substitutions[i] : i \in 1..9}
  <2>1. \A i \in 1..9 : Substitutions[i] \in T
    OBVIOUS
  <2>2. Substitutions = [i \in 1..9 |-> Substitutions[i]]
    BY DEF Substitutions
  <2> HIDE DEF T
  <2>3. Substitutions \in [1..9 -> T]
    BY <2>1, <2>2
  <2>4. Substitutions \in Seq(T)
    <3>1. \A s \in [1..9 -> T] : s \in Seq(T)
      BY SeqDef
    <3> QED  BY <2>3, <3>1
  <2> QED  BY <1>1, <2>4 DEF T
<1> QED  BY <1>1, <1>2, <1>3, <1>4

LEMMA StepBootstrap ==
  ASSUME IInv, [Next]_vars
  PROVE  BootstrapKeepsTrack'
<1> USE DEF IInv, Goto, End, SkipTo, WriteAndGoto, WriteIfAbsent, UpToFill, AfterFill,
            files, user, task
<1>1. CASE UNCHANGED vars
  BY <1>1 DEF BootstrapKeepsTrack, vars, Repo, Conflicts, Present
<1>2. ASSUME pc' \notin BootstrapPCs, UNCHANGED index
      PROVE  BootstrapKeepsTrack'
  BY <1>2 DEF BootstrapKeepsTrack, BootstrapPCs
<1>3. CASE Local
  <2>1. UNCHANGED index
    BY <1>3 DEF Local, StartLocal, Start, WritePlain, WriteFlake, WriteOverlay,
                EditFlake, WriteJustfile, PersistHosts, Finish
  <2>2. pc' \notin BootstrapPCs
    BY <1>3 DEF Local, StartLocal, WritePlain, WriteFlake, WriteOverlay, EditFlake,
                WriteJustfile, PersistHosts, Finish, BootstrapPCs
  <2> QED  BY <1>2, <2>1, <2>2
<1>4. CASE Sweep
  <2>1. UNCHANGED index
    BY <1>4 DEF Sweep, StartSweep, Start, ReadFlake, Look, EndOfPhaseOne, WriteRewrite,
                FinishSweep
  <2>2. pc' \notin BootstrapPCs
    BY <1>4 DEF Sweep, StartSweep, ReadFlake, Look, InSweep, EndOfPhaseOne, WriteRewrite,
                FinishSweep, BootstrapPCs
  <2> QED  BY <1>2, <2>1, <2>2
<1>5. CASE Stop
  BY <1>2, <1>5 DEF Stop, BootstrapPCs
<1>6. CASE Bootstrapping
  <2> USE DEF InBootstrap
  <2>0. pc # "idle" /\ cmd.kind = "bootstrap" => Repo \in Repos
    BY CommandKinds DEF CommandIsKnown, Repo
  <2>1. CASE StartBootstrap
    <3>1. PICK c \in BootstrapCommands : Start(c) /\ pc' = "preflight"
      BY <2>1 DEF StartBootstrap
    <3>2. /\ cmd' = c /\ before' = tree /\ tree' = tree /\ mine' = {} /\ index' = index
          /\ Repo' = c.repo
      BY <3>1 DEF Start, Repo
    <3> QED  BY <3>1, <3>2 DEF BootstrapKeepsTrack, Repo
  <2>2. CASE Preflight
    <3>1. CASE Conflicts # {}
      BY <1>2, <2>2, <3>1 DEF Preflight, BootstrapPCs
    <3>2. CASE Conflicts = {}
      <4>1. /\ pc = "preflight" /\ pc' = "init"
            /\ UNCHANGED <<tree, index, mine, cmd, before>>
        BY <2>2, <3>2 DEF Preflight
      <4> QED  BY <3>2, <4>1 DEF BootstrapKeepsTrack, Conflicts, Present, Repo
    <3> QED  BY <3>1, <3>2
  <2>3. CASE FlakeInit
    <3>1. CASE pc' = "idle"
      BY <1>2, <2>3, <3>1 DEF FlakeInit, BootstrapPCs
    <3> DEFINE absent == InTemplate \ Present(tree[Repo])
    <3>2. CASE /\ pc = "init" /\ pc' = "after"
               /\ tree' = [tree EXCEPT ![Repo] =
                        [n \in Names |-> IF n \in absent THEN Template[n] ELSE @[n]]]
               /\ UNCHANGED <<index, mine, cmd, before>>
      <4>1. Repo \in Repos
        BY <2>0, <2>3 DEF FlakeInit
      <4>2. \A n \in Names : tree'[Repo][n] =
                 IF n \in absent THEN Template[n] ELSE tree[Repo][n]
        BY <3>2, <4>1 DEF TreeIsFine
      <4>3. \A n \in absent : n \in InTemplate /\ tree[Repo][n] = None
        BY DEF Present, InTemplate
      <4>4. Repo' = Repo /\ Conflicts' = Conflicts
        BY <3>2 DEF Repo, Conflicts, Present
      <4> HIDE DEF absent
      <4> QED  BY <3>2, <4>2, <4>3, <4>4 DEF BootstrapKeepsTrack
    <3> QED  BY <2>3, <3>1, <3>2 DEF FlakeInit
  <2>4. CASE AfterInit
    <3>1. /\ pc = "after" /\ pc' = "fill" /\ touched' = Touched
          /\ todo' = Substitutions
          /\ UNCHANGED <<tree, index, mine, cmd, before>> /\ Repo' = Repo
      BY <2>4 DEF AfterInit, Repo
    <3>2. Repo \in Repos
      BY <2>0, <2>4 DEF AfterInit
    <3>3. ASSUME NEW n \in Names, tree[Repo][n] # None, tree[Repo][n].by = "template"
          PROVE  /\ n \in Touched
                 /\ \A t \in tree[Repo][n].tokens :
                       \E j \in DOMAIN Substitutions : Substitutions[j] = Filling(t, n)
      <4>1. n \in InTemplate /\ tree[Repo][n].tokens \subseteq TokensOf(n)
        BY <3>2, <3>3 DEF TreeIsFine, IsSound
      <4>2. <<Repo, n>> \notin mine
        BY <3>1, <3>3 DEF BootstrapKeepsTrack
      <4>3. CASE tree[Repo][n] = before[Repo][n]
        <5>1. before[Repo][n] = Template[n]
          BY <3>1, <3>3, <4>1, <4>3 DEF BootstrapKeepsTrack, Conflicts, Present
        <5> QED  BY <4>1, <5>1, SubstitutionsAre DEF Touched, Identical
      <4>4. CASE tree[Repo][n] # before[Repo][n]
        BY <3>3, <4>1, <4>4, SubstitutionsAre DEF Touched, TouchedSince, Present
      <4> QED  BY <4>3, <4>4
    <3>4. ASSUME NEW n \in Names, tree[Repo][n] # None, n \in Touched,
                 <<Repo, n>> \notin mine
          PROVE  tree[Repo][n].by # "user"
      <4>1. n \in InTemplate /\ tree[Repo][n] = Template[n]
        BY <3>1, <3>4
        DEF BootstrapKeepsTrack, Touched, TouchedSince, Identical
      <4> QED  BY <4>1, AdoptionAssumption
    <3> QED  BY <3>1, <3>3, <3>4, SubstitutionsAre DEF BootstrapKeepsTrack
  <2>5. CASE Fill
    <3> DEFINE f == Head(todo)
               old == tree[Repo][f.name]
               new == [old EXCEPT !.tokens = @ \ {f.token}]
               S == {Substitutions[i] : i \in DOMAIN Substitutions}
    <3>1. /\ pc = "fill" /\ todo # <<>>
          /\ UNCHANGED <<index, mine, cmd, before>> /\ Repo' = Repo
      BY <2>5 DEF Fill, Repo
    <3>2. Repo \in Repos
      BY <2>0, <2>5 DEF Fill
    <3>3. todo \in Seq(S)
      BY <3>1 DEF BootstrapKeepsTrack
    <3>4. \/ pc' = "idle"
          \/ /\ pc' = "fill" /\ todo' = Tail(todo) /\ touched' = touched
             /\ \/ tree' = tree /\ f.name \notin touched
                \/ tree' = tree /\ old # None /\ f.token \notin old.tokens
                \/ old # None /\ Put(Repo, f.name, new)
      BY <2>5 DEF Fill, Repo
    <3>5. CASE pc' = "idle"
      BY <1>2, <3>1, <3>5 DEF BootstrapPCs
    <3>6. CASE pc' = "fill"
      <4>1. /\ todo' = Tail(todo) /\ touched' = touched
            /\ \/ tree' = tree /\ f.name \notin touched
               \/ tree' = tree /\ old # None /\ f.token \notin old.tokens
               \/ old # None /\ Put(Repo, f.name, new)
        BY <3>4, <3>6
      <4>2. todo' \in Seq(S)
        <5> HIDE DEF S
        <5> QED  BY <3>1, <3>3, <4>1
      <4>3. \A j \in DOMAIN todo :
               todo[j] = f \/ \E k \in DOMAIN todo' : todo'[k] = todo[j]
        <5> HIDE DEF S
        <5> SUFFICES ASSUME NEW j \in DOMAIN todo, j # 1
                     PROVE  \E k \in DOMAIN todo' : todo'[k] = todo[j]
          BY <3>1, <3>3
        <5>1. j - 1 \in DOMAIN todo' /\ todo'[j - 1] = todo[j]
          BY <3>1, <3>3, <4>1
        <5> QED  BY <5>1
      <4>4. \A t, n : Filling(t, n).token = t /\ Filling(t, n).name = n
        BY DEF Filling
      <4>5. \A n \in Names : tree[Repo][n] # None =>
               /\ tree[Repo][n].by = "template" =>
                     /\ n \in touched
                     /\ \A t \in tree[Repo][n].tokens :
                           \E j \in DOMAIN todo : todo[j] = Filling(t, n)
               /\ n \in touched /\ <<Repo, n>> \notin mine => tree[Repo][n].by # "user"
        BY <3>1 DEF BootstrapKeepsTrack
      <4>6. ASSUME NEW n \in Names, tree'[Repo][n] # None
            PROVE  /\ tree[Repo][n] # None
                   /\ tree'[Repo][n].by = tree[Repo][n].by
                   /\ tree'[Repo][n].tokens \subseteq tree[Repo][n].tokens
                   /\ n \in touched /\ n = f.name =>
                         f.token \notin tree'[Repo][n].tokens
        <5>1. CASE /\ tree' = tree
                   /\ f.name \notin touched \/ f.token \notin old.tokens
          <6> HIDE DEF f, S, new
          <6> QED  BY <4>6, <5>1
        <5>2. CASE old # None /\ Put(Repo, f.name, new)
          <6> HIDE DEF new, f, S
          <6>1. tree'[Repo][n] = IF n = f.name THEN new ELSE tree[Repo][n]
            BY <3>2, <5>2, PutIs
          <6>2. CASE n = f.name
            <7>1. IsFile(n, old)
              BY <3>2, <5>2, <6>2 DEF TreeIsFine, IsSound, IsFine
            <7>2. DOMAIN old = {"by", "tokens", "code"}
              BY <7>1 DEF IsFile
            <7> HIDE DEF old
            <7>3. new.by = old.by /\ new.tokens = old.tokens \ {f.token}
              BY <7>2 DEF new
            <7> QED  BY <5>2, <6>1, <6>2, <7>3 DEF old
          <6>3. CASE n # f.name
            BY <4>6, <6>1, <6>3
          <6> QED  BY <6>2, <6>3
        <5> QED  BY <4>1, <5>1, <5>2
      <4> HIDE DEF f, old, new, S
      <4>7. ASSUME NEW n \in Names, tree'[Repo][n] # None
            PROVE  /\ tree'[Repo][n].by = "template" =>
                         /\ n \in touched
                         /\ \A t \in tree'[Repo][n].tokens :
                               \E j \in DOMAIN todo' : todo'[j] = Filling(t, n)
                   /\ n \in touched /\ <<Repo, n>> \notin mine =>
                         tree'[Repo][n].by # "user"
        <5>1. ASSUME tree'[Repo][n].by = "template", NEW t \in tree'[Repo][n].tokens
              PROVE  \E j \in DOMAIN todo' : todo'[j] = Filling(t, n)
          <6>1. PICK j \in DOMAIN todo : todo[j] = Filling(t, n)
            BY <4>5, <4>6, <4>7, <5>1
          <6>2. n \in touched
            BY <4>5, <4>6, <4>7, <5>1
          <6>3. f = Filling(t, n) => f.token = t /\ f.name = n
            BY <4>4
          <6>4. todo[j] # f
            BY <4>6, <4>7, <5>1, <6>1, <6>2, <6>3
          <6> QED  BY <4>3, <6>1, <6>4
        <5> QED  BY <4>5, <4>6, <4>7, <5>1
      <4> QED  BY <3>1, <3>6, <4>1, <4>2, <4>7 DEF BootstrapKeepsTrack, S
    <3> QED  BY <3>4, <3>5, <3>6
  <2>6. CASE PersistHostsOfTemplate
    <3> DEFINE new == PersistedOverlay(Repo, WantedHosts(Repo, cmd.hosts))
    <3>1. /\ pc = "fill" /\ todo = <<>>
          /\ UNCHANGED <<index, mine, cmd, before>> /\ Repo' = Repo
          /\ \/ pc' = "idle"
             \/ /\ pc' = "stage"
                /\ UNCHANGED tree \/ (new # None /\ Put(Repo, Overlay, new))
      BY <2>6 DEF PersistHostsOfTemplate, Repo
    <3>2. Repo \in Repos
      BY <2>0, <2>6 DEF PersistHostsOfTemplate
    <3>3. CASE pc' = "idle"
      BY <1>2, <3>1, <3>3 DEF BootstrapPCs
    <3>4. CASE pc' = "stage"
      <4>1. \A n \in Names : tree[Repo][n] # None /\ tree[Repo][n].by = "template" =>
               tree[Repo][n].tokens = {}
        BY <3>1, EmptyIsEmpty DEF BootstrapKeepsTrack
      <4>2. new # None =>
               LET had == tree[Repo][Overlay]
               IN  /\ had # None => new.by = had.by /\ new.tokens = had.tokens
                   /\ had = None => new.by = "scaffold"
        BY <3>2, OverlayIsSound
      <4>3. Overlay \in Names
        BY DEF Names
      <4> HIDE DEF new
      <4>4. ASSUME NEW n \in Names, tree'[Repo][n] # None, tree'[Repo][n].by = "template"
            PROVE  tree'[Repo][n].tokens = {}
        <5>1. CASE UNCHANGED tree
          BY <4>1, <4>4, <5>1
        <5>2. CASE new # None /\ Put(Repo, Overlay, new)
          <6>1. tree'[Repo][n] = IF n = Overlay THEN new ELSE tree[Repo][n]
            BY <3>2, <5>2, PutIs
          <6> QED  BY <4>1, <4>2, <4>4, <5>2, <6>1
        <5> QED  BY <3>1, <3>4, <5>1, <5>2
      <4> QED  BY <3>1, <3>4, <4>4 DEF BootstrapKeepsTrack
    <3> QED  BY <3>1, <3>3, <3>4
  <2>7. CASE Stage
    <3>1. /\ pc = "stage" /\ pc' \in {"done", "lock"}
          /\ UNCHANGED <<tree, mine, cmd, before>> /\ Repo' = Repo
          /\ \/ UNCHANGED index
             \/ index' = [index EXCEPT ![Repo] =
                  [n \in Names |-> IF n \in touched THEN tree[Repo][n] ELSE @[n]]]
      BY <2>7 DEF Stage, Repo
    <3>2. \A n \in Names : tree[Repo][n] # None /\ tree[Repo][n].by = "template" =>
             tree[Repo][n].tokens = {}
      BY <3>1 DEF BootstrapKeepsTrack
    <3>3. \A r \in Repos : \A n \in Names :
             \/ index'[r][n] = index[r][n]
             \/ index'[r][n] = tree[Repo][n]
      <4> SUFFICES ASSUME NEW r \in Repos, NEW n \in Names,
                          index' = [index EXCEPT ![Repo] =
                             [m \in Names |-> IF m \in touched THEN tree[Repo][m] ELSE @[m]]]
                   PROVE  index'[r][n] \in {index[r][n], tree[Repo][n]}
        BY <3>1
      <4>1. DOMAIN index = Repos
        BY DEF ControlIsFine
      <4>2. CASE r = Repo
        <5>1. index'[r] =
                [m \in Names |-> IF m \in touched THEN tree[Repo][m] ELSE index[r][m]]
          BY <4>1, <4>2
        <5> QED  BY <5>1
      <4>3. CASE r # Repo
        BY <4>1, <4>3
      <4> QED  BY <4>2, <4>3
    <3> QED  BY <3>1, <3>2, <3>3 DEF BootstrapKeepsTrack
  <2>8. CASE Lock
    <3> DEFINE lock == File("nix", {}, None)
    <3>1. /\ pc = "lock" /\ pc' = "done"
          /\ UNCHANGED <<mine, cmd, before>> /\ Repo' = Repo
          /\ UNCHANGED tree \/ Put(Repo, "flake.lock", lock)
          /\ UNCHANGED index \/ index' = [index EXCEPT ![Repo]["flake.lock"] = lock]
      BY <2>8 DEF Lock, Repo
    <3>2. Repo \in Repos
      BY <2>0, <2>8 DEF Lock
    <3>3. lock.by # "template"
      BY DEF File
    <3> HIDE DEF lock
    <3>4. \A n \in Names : tree'[Repo][n] \in {tree[Repo][n], lock}
      BY <3>1, <3>2, PutIs
    <3>5. \A r \in Repos : \A n \in Names : index'[r][n] \in {index[r][n], lock}
      <4> SUFFICES ASSUME NEW r \in Repos, NEW n \in Names,
                          index' = [index EXCEPT ![Repo]["flake.lock"] = lock]
                   PROVE  index'[r][n] \in {index[r][n], lock}
        BY <3>1
      <4>1. DOMAIN index = Repos /\ DOMAIN index[r] = Names
        BY DEF ControlIsFine
      <4>2. CASE r = Repo
        <5>1. index'[r] = [index[r] EXCEPT !["flake.lock"] = lock]
          BY <4>1, <4>2
        <5> QED  BY <4>1, <5>1
      <4>3. CASE r # Repo
        BY <4>1, <4>3
      <4> QED  BY <4>2, <4>3
    <3> QED  BY <3>1, <3>3, <3>4, <3>5 DEF BootstrapKeepsTrack
  <2>9. CASE FinishBootstrap
    BY <1>2, <2>9 DEF FinishBootstrap, BootstrapPCs
  <2> QED  BY <1>6, <2>1, <2>2, <2>3, <2>4, <2>5, <2>6, <2>7, <2>8, <2>9
           DEF Bootstrapping
<1>7. CASE EditByUser
  <2>1. PICK r \in Repos, n \in Names : UserEdits(r, n)
    BY <1>7 DEF EditByUser
  <2>2. /\ UNCHANGED <<index, cmd, before, pc, todo, touched>>
        /\ mine' = mine \cup {<<r, n>>} /\ Repo' = Repo /\ Conflicts' = Conflicts
    BY <2>1 DEF UserEdits, Repo, Conflicts, Present
  <2>3. PICK file \in UserFile(r, n) : Put(r, n, file)
    BY <2>1 DEF UserEdits
  <2>4. file # None /\ file.by = "user"
    BY AdoptionAssumption
  <2>5. \A q \in Repos, m \in Names :
           IF q = r /\ m = n THEN tree'[q][m] = file /\ <<q, m>> \in mine'
           ELSE tree'[q][m] = tree[q][m] /\ (<<q, m>> \in mine' <=> <<q, m>> \in mine)
    BY <2>2, <2>3, PutIs
  <2>6. CASE pc \notin BootstrapPCs
    BY <1>2, <2>2, <2>6
  <2>7. CASE pc \in BootstrapPCs
    <3>1. Repo \in Repos
      BY <2>7, CommandKinds, AdoptionAssumption
      DEF CommandIsKnown, Repo, BootstrapPCs, Commands
    <3> DEFINE R == Repo
    <3>2. R \in Repos /\ Repo' = R
      BY <2>2, <3>1
    <3>3. \A m \in Names :
             \/ tree'[R][m] = file /\ <<R, m>> \in mine'
             \/ tree'[R][m] = tree[R][m] /\ (<<R, m>> \in mine' <=> <<R, m>> \in mine)
      BY <2>5, <3>2
    <3>4. R = Repo
      OBVIOUS
    <3> HIDE DEF R
    <3>5. CASE pc \in UpToFill
      BY <2>2, <2>4, <3>2, <3>3, <3>4, <3>5 DEF BootstrapKeepsTrack
    <3>6. CASE pc = "fill"
      BY <2>2, <2>4, <3>2, <3>3, <3>4, <3>6 DEF BootstrapKeepsTrack
    <3>7. CASE pc \in AfterFill
      BY <2>2, <2>4, <3>2, <3>3, <3>4, <3>7 DEF BootstrapKeepsTrack
    <3> QED  BY <2>7, <3>5, <3>6, <3>7 DEF BootstrapPCs
  <2> QED  BY <2>6, <2>7
<1> QED  BY <1>1, <1>3, <1>4, <1>5, <1>6, <1>7 DEF Next

-------------------------------------------------------------------------------
(* The rest of the invariant *)

LEMMA StepControl ==
  ASSUME IInv, [Next]_vars
  PROVE  ControlIsFine'
<1> USE DEF IInv, Goto, End, SkipTo, WriteAndGoto, WriteIfAbsent, files, user, task,
            BootstrapPCs
<1>1. CASE UNCHANGED vars
  BY <1>1 DEF ControlIsFine, vars
<1>7. ASSUME NEW c, Start(c), pc' \in {"plain", "preflight", "read"}
      PROVE  ControlIsFine'
  <2>1. MaxCommands \in Nat /\ commands \in 0..MaxCommands
    BY AdoptionAssumption DEF ControlIsFine
  <2>2. commands' \in 0..MaxCommands
    BY <1>7, <2>1 DEF Start
  <2>3. /\ index' = index /\ mine' = {} /\ touched' = {} /\ failures' = {}
        /\ outcome' = None
    BY <1>7 DEF Start
  <2> QED  BY <1>7, <2>2, <2>3 DEF ControlIsFine
<1>2. CASE Local
  <2>1. CASE StartLocal
    BY <1>7, <2>1 DEF StartLocal
  <2>2. CASE WritePlain \/ WriteFlake \/ WriteOverlay \/ EditFlake \/ WriteJustfile
    BY <2>2 DEF WritePlain, WriteFlake, WriteOverlay, EditFlake, WriteJustfile, InLocal,
                ControlIsFine
  <2>3. CASE PersistHosts \/ Finish
    BY <2>3 DEF PersistHosts, Finish, InLocal, ControlIsFine
  <2> QED  BY <1>2, <2>1, <2>2, <2>3 DEF Local
<1>3. CASE Bootstrapping
  <2> USE DEF InBootstrap
  <2>0. pc # "idle" /\ cmd.kind = "bootstrap" => Repo \in Repos
    BY CommandKinds DEF CommandIsKnown, Repo
  <2>1. CASE StartBootstrap
    BY <1>7, <2>1 DEF StartBootstrap
  <2>2. CASE Preflight
    BY <2>2 DEF Preflight, ControlIsFine
  <2>3. CASE FlakeInit
    BY <2>3 DEF FlakeInit, ControlIsFine
  <2>4. CASE AfterInit
    <3>1. Touched \subseteq Names
      BY DEF Touched, TouchedSince, Identical, Present, InTemplate
    <3> QED  BY <2>4, <3>1 DEF AfterInit, ControlIsFine
  <2>5. CASE Fill
    BY <2>5 DEF Fill, ControlIsFine
  <2>6. CASE PersistHostsOfTemplate
    <3>1. Overlay \in Names
      BY DEF Names
    <3>2. /\ UNCHANGED <<index, mine, edits, commands>>
          /\ pc = "fill"
          /\ \/ /\ pc' = "stage" /\ touched' \subseteq touched \cup {Overlay}
                /\ UNCHANGED <<failures, outcome>>
             \/ /\ pc' = "idle" /\ touched' = {} /\ failures' = {} /\ outcome' = "failed"
                /\ todo' = <<>> /\ queue' = <<>>
      BY <2>6 DEF PersistHostsOfTemplate
    <3> QED  BY <3>1, <3>2 DEF ControlIsFine
  <2>7. CASE Stage
    <3>1. /\ UNCHANGED <<mine, edits, commands, touched, queue, failures, outcome>>
          /\ pc = "stage" /\ pc' \in {"done", "lock"}
          /\ \/ UNCHANGED index
             \/ index' = [index EXCEPT ![Repo] =
                  [n \in Names |-> IF n \in touched THEN tree[Repo][n] ELSE @[n]]]
      BY <2>7 DEF Stage
    <3>2. ASSUME NEW r \in Repos
          PROVE  /\ DOMAIN index'[r] = Names
                 /\ \A n \in Names : index'[r][n] # None => IsFile(n, index'[r][n])
      <4>1. DOMAIN index = Repos /\ DOMAIN index[r] = Names
        BY DEF ControlIsFine
      <4>2. \A n \in Names : index[r][n] # None => IsFile(n, index[r][n])
        BY DEF ControlIsFine
      <4>3. CASE r = Repo /\ index' # index
        <5>1. index'[r] =
                [m \in Names |-> IF m \in touched THEN tree[r][m] ELSE index[r][m]]
          BY <3>1, <4>1, <4>3
        <5>2. \A n \in Names : tree[r][n] # None => IsFile(n, tree[r][n])
          BY DEF TreeIsFine, IsSound, IsFine
        <5> QED  BY <4>2, <5>1, <5>2
      <4>4. CASE r # Repo \/ index' = index
        <5>1. index'[r] = index[r]
          BY <3>1, <4>1, <4>4
        <5> QED  BY <4>1, <4>2, <5>1
      <4> QED  BY <4>3, <4>4
    <3>3. DOMAIN index' = Repos
      BY <3>1 DEF ControlIsFine
    <3> QED  BY <3>1, <3>2, <3>3 DEF ControlIsFine
  <2>8. CASE Lock
    <3> DEFINE lock == File("nix", {}, None)
    <3>1. /\ UNCHANGED <<mine, edits, commands, touched, queue, failures, outcome>>
          /\ pc = "lock" /\ pc' = "done"
          /\ UNCHANGED index \/ index' = [index EXCEPT ![Repo]["flake.lock"] = lock]
      BY <2>8 DEF Lock
    <3>2. IsFile("flake.lock", lock)
      BY DEF IsFile, File, Flake, Overlay
    <3> HIDE DEF lock
    <3>3. ASSUME NEW r \in Repos
          PROVE  /\ DOMAIN index'[r] = Names
                 /\ \A n \in Names : index'[r][n] # None => IsFile(n, index'[r][n])
      <4>1. DOMAIN index = Repos /\ DOMAIN index[r] = Names
        BY DEF ControlIsFine
      <4>2. \A n \in Names : index[r][n] # None => IsFile(n, index[r][n])
        BY DEF ControlIsFine
      <4>3. CASE r = Repo /\ index' # index
        <5>1. index'[r] = [index[r] EXCEPT !["flake.lock"] = lock]
          BY <3>1, <4>1, <4>3
        <5> QED  BY <3>2, <4>1, <4>2, <5>1
      <4>4. CASE r # Repo \/ index' = index
        <5>1. index'[r] = index[r]
          BY <3>1, <4>1, <4>4
        <5> QED  BY <4>1, <4>2, <5>1
      <4> QED  BY <4>3, <4>4
    <3>4. DOMAIN index' = Repos
      BY <3>1 DEF ControlIsFine
    <3> QED  BY <3>1, <3>3, <3>4 DEF ControlIsFine
  <2>9. CASE FinishBootstrap
    BY <2>9 DEF FinishBootstrap, ControlIsFine
  <2> QED  BY <1>3, <2>1, <2>2, <2>3, <2>4, <2>5, <2>6, <2>7, <2>8, <2>9
           DEF Bootstrapping
<1>4. CASE Sweep
  <2> USE DEF InSweep
  <2>1. CASE StartSweep
    BY <1>7, <2>1 DEF StartSweep
  <2>2. CASE ReadFlake
    <3>1. /\ UNCHANGED <<tree, index, mine, edits, commands, pc, touched, outcome>>
          /\ pc = "read"
          /\ failures' \subseteq failures \cup {"migration", "parse"}
      BY <2>2 DEF ReadFlake, Look
    <3> QED  BY <3>1 DEF ControlIsFine
  <2>3. CASE EndOfPhaseOne
    BY <2>3 DEF EndOfPhaseOne, ControlIsFine
  <2>4. CASE WriteRewrite
    BY <2>4 DEF WriteRewrite, ControlIsFine
  <2>5. CASE FinishSweep
    BY <2>5 DEF FinishSweep, ControlIsFine
  <2> QED  BY <1>4, <2>1, <2>2, <2>3, <2>4, <2>5 DEF Sweep
<1>5. CASE Stop
  BY <1>5 DEF Stop, ControlIsFine
<1>6. CASE EditByUser
  <2>1. PICK r \in Repos, n \in Names : UserEdits(r, n)
    BY <1>6 DEF EditByUser
  <2>2. /\ UNCHANGED <<index, commands, touched, failures, queue, todo, pc, outcome>>
        /\ mine' = mine \cup {<<r, n>>}
    BY <2>1 DEF UserEdits
  <2>3. mine' \subseteq Repos \X Names
    <3>1. mine \subseteq Repos \X Names
      BY DEF ControlIsFine
    <3>2. <<r, n>> \in Repos \X Names
      OBVIOUS
    <3> QED  BY <2>2, <3>1, <3>2
  <2> HIDE DEF BootstrapPCs
  <2> QED  BY <2>2, <2>3 DEF ControlIsFine
<1> QED  BY <1>1, <1>2, <1>3, <1>4, <1>5, <1>6 DEF Next

LEMMA StepFilled ==
  ASSUME IInv, [Next]_vars
  PROVE  FinishedIsFilled'
<1> USE AdoptionAssumption
    DEF IInv, Goto, End, SkipTo, WriteAndGoto, WriteIfAbsent, files, user, task
<1>1. CASE outcome' # "ok" \/ cmd'.kind # "bootstrap"
  BY <1>1 DEF FinishedIsFilled, Succeeded
<1>2. CASE UNCHANGED vars
  BY <1>2 DEF FinishedIsFilled, Succeeded, vars
<1>3. pc # "idle" => outcome # "ok"
  BY DEF CommandIsKnown
<1>4. CASE Local
  <2>1. outcome' # "ok" \/ cmd'.kind # "bootstrap"
    BY <1>3, <1>4
    DEF Local, StartLocal, Start, WritePlain, WriteFlake, WriteOverlay, EditFlake,
        WriteJustfile, PersistHosts, Finish, InLocal
  <2> QED  BY <1>1, <2>1
<1>5. CASE Sweep
  <2>1. outcome' # "ok" \/ cmd'.kind # "bootstrap"
    BY <1>3, <1>5
    DEF Sweep, StartSweep, Start, ReadFlake, Look, EndOfPhaseOne, WriteRewrite,
        FinishSweep, InSweep
  <2> QED  BY <1>1, <2>1
<1>6. CASE Stop
  BY <1>1, <1>6 DEF Stop
<1>7. CASE FinishBootstrap
  <2>1. pc = "done" /\ UNCHANGED <<tree, index, cmd>> /\ cmd.kind = "bootstrap"
    BY <1>7 DEF FinishBootstrap, InBootstrap
  <2>2. cmd.repo \in Repos
    BY <2>1, CommandKinds DEF CommandIsKnown
  <2>3. ASSUME NEW n \in Names,
               NEW f \in {tree[cmd.repo][n], index[cmd.repo][n]} \ {None},
               f.by = "template"
        PROVE  f.tokens = {}
    <3>1. CASE f = tree[cmd.repo][n]
      BY <2>1, <2>3, <3>1 DEF BootstrapKeepsTrack, AfterFill, Repo
    <3>2. CASE f = index[cmd.repo][n]
      BY <2>2, <2>3, <3>2 DEF BootstrapKeepsTrack
    <3> QED  BY <2>3, <3>1, <3>2
  <2> QED  BY <2>1, <2>3 DEF FinishedIsFilled
<1>8. CASE Bootstrapping /\ ~FinishBootstrap
  <2>1. outcome' # "ok"
    BY <1>3, <1>8
    DEF Bootstrapping, StartBootstrap, Start, Preflight, FlakeInit, AfterInit, Fill,
        PersistHostsOfTemplate, Stage, Lock, InBootstrap
  <2> QED  BY <1>1, <2>1
<1>9. CASE EditByUser
  <2>1. PICK r \in Repos, n \in Names : UserEdits(r, n)
    BY <1>9 DEF EditByUser
  <2>2. PICK file \in UserFile(r, n) : Put(r, n, file)
    BY <2>1 DEF UserEdits
  <2>3. UNCHANGED <<index, cmd, pc, outcome>> /\ file.by = "user"
    BY <2>1 DEF UserEdits
  <2>4. CASE outcome = "ok" /\ cmd.kind = "bootstrap"
    <3>2. cmd.repo \in Repos
      BY <2>4, CommandKinds DEF CommandIsKnown
    <3>3. \A m \in Names : tree'[cmd.repo][m] \in {tree[cmd.repo][m], file}
      BY <2>2, <3>2, PutIs
    <3> QED  BY <2>3, <2>4, <3>3 DEF FinishedIsFilled, Succeeded
  <2> QED  BY <1>1, <2>3, <2>4
<1> QED  BY <1>2, <1>4, <1>5, <1>6, <1>7, <1>8, <1>9 DEF Next

LEMMA InitIsFine == Init => IInv
<1> SUFFICES ASSUME Init PROVE IInv
  OBVIOUS
<1> USE AdoptionAssumption DEF Init
<1>1. ControlIsFine
  BY DEF ControlIsFine
<1>2. CommandIsKnown /\ SweepKeepsTrack /\ SweepIsHonest
  BY DEF CommandIsKnown, SweepKeepsTrack, SweepIsHonest, BootstrapPCs
<1>3. TreeIsFine
  BY DEF TreeIsFine, IsSound
<1>4. QueueIsFine
  BY EmptyIsEmpty DEF QueueIsFine
<1>5. BootstrapKeepsTrack
  BY DEF BootstrapKeepsTrack, UpToFill, AfterFill
<1>6. FinishedIsFilled
  BY DEF FinishedIsFilled, Succeeded
<1> QED  BY <1>1, <1>2, <1>3, <1>4, <1>5, <1>6 DEF IInv

-------------------------------------------------------------------------------
(* The theorems *)

\* No command, finished or interrupted, and no edit of the user's disturbs it.
THEOREM Inductive == Spec => []IInv
<1>1. IInv /\ [Next]_vars => IInv'
  BY StepControl, StepCommand, StepTree, StepQueue, StepTrack, StepHonest,
     StepBootstrap, StepFilled DEF IInv
<1> QED  BY InitIsFine, <1>1, PTL DEF Spec

\* Files, control and bounds stay what the run's type invariant says.
THEOREM TypeCorrect == Spec => []TypeOK
<1>1. IInv => TypeOK
  <2> SUFFICES ASSUME IInv PROVE TypeOK
    OBVIOUS
  <2>1. \A r \in Repos, n \in Names :
           \A f \in {tree[r][n], index[r][n]} : f # None => IsFile(n, f)
    BY DEF IInv, TreeIsFine, IsSound, IsFine, ControlIsFine
  <2>2. edits \in 0..MaxEdits
    BY DEF IInv, CommandIsKnown
  <2> QED  BY <2>1, <2>2 DEF IInv, ControlIsFine, TypeOK, BootstrapPCs
<1> QED  BY <1>1, Inductive, PTL

\* Whatever commands follow one another, and wherever they were interrupted, the
\* names in a flake mean something, but for the utils that conform adds under a
\* bare head.
THEOREM WiringCorrect == Spec => []WiringResolves
<1>1. IInv => WiringResolves
  BY SoundFlake DEF IInv, TreeIsFine, IsWired, WiringResolves, Names
<1> QED  BY <1>1, Inductive, PTL

\* A sweep that says it has migrated has done so, and one that nix's parser has
\* stopped has written nothing.
THEOREM SweepCorrect == Spec => []SweepIsHonest
<1>1. IInv => SweepIsHonest
  BY DEF IInv
<1> QED  BY <1>1, Inductive, PTL

\* A bootstrap that succeeds leaves no placeholder in the template's files,
\* those of an earlier, interrupted bootstrap included.
THEOREM FilledCorrect == Spec => []FinishedIsFilled
<1>1. IInv => FinishedIsFilled
  BY DEF IInv
<1> QED  BY <1>1, Inductive, PTL

\* A write that changes only what is not code, in a file the user did not write.
LEMMA KeepsSameCode ==
  ASSUME NEW n, NEW f, NEW g, IsFile(n, f), f.code = g.code, f.by # "user"
  PROVE  Keeps(n, f, g)
<1>1. n = Flake => IsFlake(f.code)
  BY DEF IsFile, Flake, Overlay
<1>2. n = Flake => KeepsFlake(f.code, g.code)
  BY DEF KeepsFlake, BagIn
<1>3. n = Overlay => KeepsOverlay(f.code, g.code)
  BY DEF KeepsOverlay
<1> QED  BY <1>2, <1>3 DEF Keeps, Flake, Overlay

LEMMA StepSurvives ==
  ASSUME IInv, [Next]_vars, NoneIsNoBag, pc # "idle", edits' = edits,
         NEW r \in Repos, NEW n \in Names,
         tree[r][n] # None, tree'[r][n] # tree[r][n], <<r, n>> \notin mine
  PROVE  \/ tree'[r][n] = Torn(n) /\ outcome' = "failed"
         \/ Keeps(n, tree[r][n], tree'[r][n])
<1> USE DEF IInv, Goto, End, SkipTo, files, user, task
<1> DEFINE old == tree[r][n]
<1>1. IsSound(n, old)
  BY DEF TreeIsFine
<1>2. ~UNCHANGED tree
  OBVIOUS
<1>3. ASSUME NEW m, NEW file, NEW next, NEW list, WriteAndGoto(m, file, next, list)
      PROVE  /\ r = cmd.repo /\ n = m
             /\ \/ tree'[r][n] = Torn(n) /\ outcome' = "failed"
                \/ tree'[r][n] = file
  BY <1>3, PutIs DEF WriteAndGoto
<1>4. cmd.kind = "sweep" => cmd \in SweepCommands
  BY CommandKinds DEF CommandIsKnown
<1>5. CASE Local
  <2>1. ~StartLocal
    BY DEF StartLocal, Start
  <2>2. CASE WritePlain \/ WriteFlake \/ WriteOverlay \/ WriteJustfile
    BY <1>2, <1>3, <2>2
    DEF WritePlain, WriteFlake, WriteOverlay, WriteJustfile, WriteIfAbsent, Has
  <2>3. CASE EditFlake
    <3> DEFINE code == Apply(old.code, RepoName[cmd.repo], cmd.force)
               new == [old EXCEPT !.code = code]
    <3>1. /\ r = cmd.repo /\ n = Flake
          /\ \/ tree'[r][n] = Torn(n) /\ outcome' = "failed"
             \/ tree'[r][n] = new
      BY <1>2, <1>3, <2>3 DEF EditFlake
    <3>2. IsFlake(old.code) /\ cmd.kind = "local"
      BY <1>1, <2>3, <3>1, SoundFlake DEF EditFlake, InLocal
    <3>3. KeepsFlake(old.code, code)
      BY <3>2, ApplyKeeps
    <3>4. new.code = code
      BY <1>1 DEF IsSound, IsFine, IsFile
    <3> HIDE DEF code, new, old
    <3>5. n = Flake => Keeps(n, old, new)
      BY <3>3, <3>4 DEF Keeps, Flake, Overlay
    <3> QED  BY <3>1, <3>5 DEF old
  <2>4. CASE PersistHosts
    <3> DEFINE new == PersistedOverlay(cmd.repo, WantedHosts(cmd.repo, cmd.hosts))
    <3>1. /\ r = cmd.repo /\ n = Overlay /\ new # None
          /\ \/ tree'[r][n] = Torn(n) /\ outcome' = "failed"
             \/ tree'[r][n] = new
      BY <1>2, <1>3, <2>4 DEF PersistHosts
    <3>2. KeepsOverlay(old.code, new.code)
      BY <3>1, OverlayIsSound
    <3> HIDE DEF new, old
    <3>3. n = Overlay => Keeps(n, old, new)
      BY <3>2 DEF Keeps, Flake, Overlay
    <3> QED  BY <3>1, <3>3 DEF old
  <2>5. CASE Finish
    BY <1>2, <2>5 DEF Finish
  <2> QED  BY <1>5, <2>1, <2>2, <2>3, <2>4, <2>5 DEF Local
<1>6. CASE Bootstrapping
  <2> USE DEF InBootstrap
  <2>1. ~StartBootstrap
    BY DEF StartBootstrap, Start
  <2>2. CASE Preflight \/ AfterInit \/ Stage \/ FinishBootstrap
    BY <1>2, <2>2 DEF Preflight, AfterInit, Stage, FinishBootstrap
  <2>3. CASE FlakeInit
    <3>1. PICK ns \in SUBSET (InTemplate \ Present(tree[Repo])) :
             tree' = [tree EXCEPT ![Repo] =
                        [m \in Names |-> IF m \in ns THEN Template[m] ELSE @[m]]]
      BY <2>3 DEF FlakeInit
    <3>2. DOMAIN tree = Repos
      BY DEF TreeIsFine
    <3>3. r = Repo => n \notin ns
      BY <3>1 DEF Present
    <3> QED  BY <3>1, <3>2, <3>3
  <2>4. CASE Fill
    <3> DEFINE f == Head(todo)
               new == [tree[Repo][f.name] EXCEPT !.tokens = @ \ {f.token}]
    <3>1. /\ WriteAndGoto(f.name, new, "fill", Tail(todo)) /\ f.name \in touched
          /\ pc = "fill"
      BY <1>2, <2>4 DEF Fill
    <3>2. /\ r = Repo /\ n = f.name
          /\ \/ tree'[r][n] = Torn(n) /\ outcome' = "failed"
             \/ tree'[r][n] = new
      BY <1>3, <3>1 DEF Repo
    <3>3. old.by # "user"
      BY <3>1, <3>2 DEF BootstrapKeepsTrack
    <3>4. new = [old EXCEPT !.tokens = @ \ {f.token}]
      BY <3>2
    <3>5. DOMAIN old = {"by", "tokens", "code"} /\ IsFile(n, old)
      BY <1>1 DEF IsSound, IsFine, IsFile
    <3> HIDE DEF f, old, new
    <3>6. new.code = old.code
      BY <3>4, <3>5
    <3>7. Keeps(n, old, new)
      BY <3>3, <3>5, <3>6, KeepsSameCode
    <3> QED  BY <3>2, <3>7 DEF old
  <2>5. CASE PersistHostsOfTemplate
    <3> DEFINE new == PersistedOverlay(Repo, WantedHosts(Repo, cmd.hosts))
    <3>1. /\ new # None
          /\ \/ Put(Repo, Overlay, new)
             \/ Put(Repo, Overlay, Torn(Overlay)) /\ outcome' = "failed"
      BY <1>2, <2>5 DEF PersistHostsOfTemplate
    <3>2. \A file : Put(Repo, Overlay, file) =>
             r = Repo /\ n = Overlay /\ tree'[r][n] = file
      <4> HIDE DEF new
      <4> QED  BY PutIs
    <3>3. r = Repo => KeepsOverlay(tree[r][Overlay].code, new.code)
                        \/ tree[r][Overlay] = None
      BY <3>1, OverlayIsSound
    <3> HIDE DEF new
    <3>4. n = Overlay /\ KeepsOverlay(tree[r][n].code, new.code)
             => Keeps(n, tree[r][n], new)
      BY DEF Keeps, Flake, Overlay
    <3> QED  BY <3>1, <3>2, <3>3, <3>4
  <2>6. CASE Lock
    <3>1. PICK file : Put(Repo, "flake.lock", file)
      BY <1>2, <2>6 DEF Lock, Repo
    <3>2. n = "flake.lock"
      BY <3>1, PutIs
    <3> QED  BY <3>2 DEF Keeps, Flake, Overlay
  <2> QED  BY <1>6, <2>1, <2>2, <2>3, <2>4, <2>5, <2>6 DEF Bootstrapping
<1>7. CASE Sweep
  <2> USE DEF InSweep
  <2>1. ~StartSweep
    BY DEF StartSweep, Start
  <2>2. CASE ReadFlake \/ EndOfPhaseOne \/ FinishSweep
    BY <1>2, <2>2 DEF ReadFlake, Look, EndOfPhaseOne, FinishSweep
  <2>3. CASE WriteRewrite
    <3> DEFINE w == Head(queue)
    <3>1. /\ pc = "write" /\ queue # <<>> /\ cmd.kind = "sweep"
          /\ \/ Put(w.repo, Flake, w.file)
             \/ Put(w.repo, Flake, Torn(Flake)) /\ outcome' = "failed"
      BY <2>3 DEF WriteRewrite
    <3>2. w = queue[1] /\ 1 \in DOMAIN queue
      <4> DEFINE S == {queue[i] : i \in DOMAIN queue}
      <4>1. queue \in Seq(S)
        BY DEF QueueIsFine
      <4> HIDE DEF S
      <4> QED  BY <3>1, <4>1
    <3> HIDE DEF w
    <3>3. \A file : Put(w.repo, Flake, file) =>
             r = w.repo /\ n = Flake /\ tree'[r][n] = file
      BY PutIs
    <3>4. CASE Put(w.repo, Flake, w.file)
      <4>1. r = w.repo /\ n = Flake /\ tree'[r][n] = w.file
        BY <3>3, <3>4
      <4>2. IsRewrite(w, before[r][Flake], cmd.migrations, old)
        BY <3>1, <3>2, <4>1 DEF SweepKeepsTrack
      <4> HIDE DEF old
      <4>3. /\ CanClobber(old.code, cmd.migrations)
            /\ w.file = [old EXCEPT !.code = Clobber(@, cmd.migrations)]
        BY <4>1, <4>2 DEF IsRewrite, old
      <4>4. KeepsFlake(old.code, Clobber(old.code, cmd.migrations))
        BY <1>1, <1>4, <3>1, <4>1, <4>3, SoundFlake, ClobberKeeps
      <4>5. w.file.code = Clobber(old.code, cmd.migrations)
        BY <1>1, <4>3 DEF IsSound, IsFine, IsFile
      <4>6. Keeps(Flake, old, w.file)
        BY <4>4, <4>5 DEF Keeps, Flake, Overlay
      <4> QED  BY <4>1, <4>6 DEF old
    <3>5. CASE Put(w.repo, Flake, Torn(Flake)) /\ outcome' = "failed"
      BY <3>3, <3>5
    <3> QED  BY <3>1, <3>4, <3>5
  <2> QED  BY <1>7, <2>1, <2>2, <2>3 DEF Sweep
<1>8. CASE Stop
  BY <1>2, <1>8 DEF Stop
<1>9. ~EditByUser
  <2>1. edits \in Nat
    BY AdoptionAssumption DEF CommandIsKnown
  <2> QED  BY <2>1 DEF EditByUser, UserEdits
<1> QED  BY <1>2, <1>5, <1>6, <1>7, <1>8, <1>9 DEF Next, vars

\* What the user had when a command began, and has not changed since, survives
\* each of its steps, after any commands before it.
THEOREM WorkCorrect ==
  ASSUME NoneIsNoBag
  PROVE  Spec => UsersWorkSurvives
<1> DEFINE Survives ==
      pc # "idle" /\ edits' = edits =>
         \A r \in Repos, n \in Names :
            /\ tree[r][n] # None
            /\ tree'[r][n] # tree[r][n]
            /\ <<r, n>> \notin mine
            => \/ tree'[r][n] = Torn(n) /\ outcome' = "failed"
               \/ Keeps(n, tree[r][n], tree'[r][n])
<1>1. IInv /\ [Next]_vars => Survives
  BY StepSurvives
<1>2. IInv /\ [Next]_vars => [Survives]_vars
  BY <1>1
<1> QED  BY <1>2, Inductive, PTL DEF UsersWorkSurvives, Spec
===============================================================================
