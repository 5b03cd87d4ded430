----------------------------- MODULE ProfileCheck -----------------------------
(***************************************************************************)
(* Runs of conformist check --profile (cmd/profile.go, profile/resolve.go) *)
(* up to the point where the checks start: each reads a profile, from a    *)
(* file or from a domain that publishes its signing keys, and materializes *)
(* its artifacts and rules in the shared cache.  The domain may change the *)
(* profile and its keys at any time, a server may answer anything, a run   *)
(* may be killed between any two steps.                                    *)
(***************************************************************************)
EXTENDS ArtifactCache

CONSTANTS
    Keys,           \* well-formed signing keys
    Signed,         \* the signed documents there are
    OnDisk,         \* those that a local file may hold
    Online,         \* those that the domain may serve
    Invocations,    \* [from, only, pinned, envFrom, envPinned]: flags and environment
    Serves(_),      \* Serves(url): the texts a server may send
    ConfigLinters,  \* names of the linters in conformist.toml
    MaxForeign,     \* bound on the changes to the cache from outside
    MaxChanges      \* bound on the changes of the domain

ASSUME ProfileAssumption ==
    /\ None \notin Runs
    /\ OnDisk \cup Online \subseteq Signed
    /\ \A s \in Signed : \* names are numbers
          /\ DOMAIN s.body.linters \subseteq Nat
          /\ \A l \in DOMAIN s.body.linters : s.body.linters[l].preludes \in Seq(Nat)
    /\ MaxForeign \in Nat /\ MaxChanges \in Nat

VARIABLES
    served,     \* the signed document the domain serves
    published,  \* the keys on its /papi/piggy-ids
    changes,    \* how often the domain has changed
    pc,         \* pc[r]: where run r is
    call,       \* call[r]: where the profile is read from, and the pinned keys
    doc,        \* doc[r]: the signed document it has read
    since,      \* since[r]: the keys published at some time since it read it
    got,        \* got[r]: artifact name -> the text it has verified
    linters,    \* linters[r]: linter name -> the command it will run
    foreign     \* how often the cache has been changed from outside

domainVars == <<served, published, changes>>
runVars == <<pc, call, doc, since, got, linters>>
vars == <<cacheVars, domainVars, runVars, foreign>>

Ended == {"plain", "ready", "refused", "failed", "corrupt", "unreadable", "killed"}
PCs == {"start", "read", "keys", "parse", "artifacts", "fetch", "install", "linters"} \cup Ended

Unread == [body |-> None, sigs |-> <<>>]
Uncalled == [from |-> None, pinned |-> {}, only |-> FALSE]

TypeOK ==
    /\ \A path \in DOMAIN disk : DOMAIN disk[path] = {"text", "executable"}
    /\ DOMAIN temp = Runs
    /\ served \in Online /\ published \subseteq Keys /\ changes \in 0 .. MaxChanges
    /\ tainted \cup removed \subseteq DOMAIN disk \cup removed
    /\ foreign \in 0 .. MaxForeign
    /\ pc \in [Runs -> PCs]
    /\ doc \in [Runs -> Signed \cup {Unread}]
    /\ since \in [Runs -> SUBSET Keys]
    /\ \A r \in Runs : pc[r] = "install" \/ temp[r] = NoFile

Init ==
    /\ CacheInit
    /\ served \in Online /\ published \in SUBSET Keys /\ changes = 0
    /\ pc = [r \in Runs |-> "start"]
    /\ call = [r \in Runs |-> Uncalled]
    /\ doc = [r \in Runs |-> Unread]
    /\ since = [r \in Runs |-> {}]
    /\ got = [r \in Runs |-> <<>>]
    /\ linters = [r \in Runs |-> <<>>]
    /\ foreign = 0

Goto(r, next) == pc' = [pc EXCEPT ![r] = next]
Body(r) == doc[r].body

-------------------------------------------------------------------------------
(* applyProfile and readProfile *)

\* The environment is looked at under --profile-only alone; a flag wins over it.
Source(v) == IF v.only /\ v.from = None THEN v.envFrom ELSE v.from
Pinned(v) == IF v.only /\ v.pinned = {} THEN v.envPinned ELSE v.pinned

\* Without a profile there is nothing to apply, and flags that need one are an
\* error.  A key that is no key is refused before anything is fetched.
Begin(r, v) ==
    /\ pc[r] = "start"
    /\ call' = [call EXCEPT ![r] =
                  [from |-> Source(v), pinned |-> Pinned(v), only |-> v.only]]
    /\ IF Source(v) = None
       THEN Goto(r, IF v.only \/ Pinned(v) # {} THEN "refused" ELSE "plain")
       ELSE IF Source(v) = "https" /\ (Pinned(v) = {} \/ ~(Pinned(v) \subseteq Keys))
       THEN Goto(r, "refused")
       ELSE Goto(r, "read")
    /\ UNCHANGED <<doc, since, got, linters, cacheVars, domainVars, foreign>>

\* A local file is taken as it is, unless keys are pinned.
ReadFile(r) ==
    /\ pc[r] = "read" /\ call[r].from = "file"
    /\ \/ /\ \E s \in OnDisk :
                /\ doc' = [doc EXCEPT ![r] = s]
                /\ Goto(r, IF \/ call[r].pinned = {}
                              \/ call[r].pinned \subseteq Keys /\ IsSignedBy(s, call[r].pinned)
                           THEN "parse" ELSE "refused")
       \/ /\ Goto(r, "failed")
          /\ UNCHANGED doc
    /\ UNCHANGED <<call, since, got, linters, cacheVars, domainVars, foreign>>

\* FetchSignedProfile reads the document first ...
FetchProfile(r) ==
    /\ pc[r] = "read" /\ call[r].from = "https"
    /\ \/ /\ doc' = [doc EXCEPT ![r] = served]
          /\ since' = [since EXCEPT ![r] = published]
          /\ Goto(r, "keys")
       \/ /\ Goto(r, "failed")
          /\ UNCHANGED <<doc, since>>
    /\ UNCHANGED <<call, got, linters, cacheVars, domainVars, foreign>>

\* Mutant of Trusted: a pinned key need not be published.
TrustedPins(r) == call[r].pinned

\* ... and then the keys the domain publishes: trusted are the pinned ones.
Trusted(r) == call[r].pinned \cap published

FetchKeys(r) ==
    /\ pc[r] = "keys"
    /\ \/ Goto(r, IF IsSignedBy(doc[r], Trusted(r)) THEN "parse" ELSE "refused")
       \/ Goto(r, "failed")
    /\ UNCHANGED <<call, doc, since, got, linters, cacheVars, domainVars, foreign>>

-------------------------------------------------------------------------------
(* Resolve *)

\* Parse and validate; select every build and check every pin before anything
\* is fetched.
Accept(r) ==
    /\ pc[r] = "parse"
    /\ Goto(r, IF IsValid(Body(r)) /\ IsResolvable(Body(r)) THEN "artifacts" ELSE "refused")
    /\ UNCHANGED <<call, doc, since, got, linters, cacheVars, domainVars, foreign>>

\* The next artifact in the order of names, and its path.
Artifacts(r) == DOMAIN Body(r).artifacts
NextArtifact(r) == Min(Artifacts(r) \ DOMAIN got[r])
PathOf(r, n) == ArtifactPath(PinOf(Body(r), n), n)

Take(r, n, text) ==
    got' = [got EXCEPT ![r] = [m \in DOMAIN got[r] \cup {n} |->
                                  IF m = n THEN text ELSE got[r][m]]]

\* Mutant of UseCached: what is cached is taken as it is.
UseCachedUnverified(r) ==
    LET n == NextArtifact(r)
    IN  /\ pc[r] = "artifacts" /\ Artifacts(r) # DOMAIN got[r]
        /\ IsCached(PathOf(r, n))
        /\ Take(r, n, disk[PathOf(r, n)].text)
        /\ UNCHANGED <<pc, call, doc, since, linters, cacheVars, domainVars, foreign>>

\* A cached artifact is verified again, and never fetched again; its mode is
\* not looked at.
UseCached(r) ==
    LET n == NextArtifact(r)
        path == PathOf(r, n)
    IN  /\ pc[r] = "artifacts" /\ Artifacts(r) # DOMAIN got[r]
        /\ IsCached(path)
        /\ IF Verifies(PinOf(Body(r), n), disk[path].text)
           THEN Take(r, n, disk[path].text) /\ UNCHANGED pc
           ELSE Goto(r, "corrupt") /\ UNCHANGED got
        /\ UNCHANGED <<call, doc, since, linters, cacheVars, domainVars, foreign>>

StartFetch(r) ==
    /\ pc[r] = "artifacts" /\ Artifacts(r) # DOMAIN got[r]
    /\ ~IsCached(PathOf(r, NextArtifact(r)))
    /\ Goto(r, "fetch")
    /\ UNCHANGED <<call, doc, since, got, linters, cacheVars, domainVars, foreign>>

\* What arrives is verified before it is written.  A status, a redirect to a
\* login, a text that is too long or a wrong scheme are failures.
Fetch(r) ==
    LET n == NextArtifact(r)
        a == Body(r).artifacts[n]
    IN  /\ pc[r] = "fetch"
        /\ \/ \E text \in Serves(SourceFor(a).url) :
                IF Verifies(PinOf(Body(r), n), text)
                THEN /\ CreateTemp(r, PathOf(r, n), text, a.executable)
                     /\ Goto(r, "install")
                ELSE Goto(r, "failed") /\ UNCHANGED cacheVars
           \/ Goto(r, "failed") /\ UNCHANGED cacheVars
        /\ UNCHANGED <<call, doc, since, got, linters, domainVars, foreign>>

\* All artifacts there: the linters are translated, in the order of names.
EndArtifacts(r) ==
    /\ pc[r] = "artifacts" /\ Artifacts(r) = DOMAIN got[r]
    /\ Goto(r, "linters")
    /\ UNCHANGED <<call, doc, since, got, linters, cacheVars, domainVars, foreign>>

\* What a linter runs; the pins are in its text, because the key of a cached
\* result covers the text of the command and not the tools it runs.
Pins(r) == [n \in Artifacts(r) |-> PinOf(Body(r), n)]
LinterOf(r, l) == Body(r).linters[l]

\* Mutant of Command: the pins are left out.
CommandWithoutPins(r, l, options) ==
    [command |-> LinterOf(r, l).command, tool |-> LinterOf(r, l).tool,
     options |-> options, pins |-> <<>>]
Command(r, l, options) ==
    [command |-> LinterOf(r, l).command, tool |-> LinterOf(r, l).tool,
     options |-> options, pins |-> Pins(r)]

NextLinter(r) == Min(DOMAIN Body(r).linters \ DOMAIN linters[r])
IsTranslating(r) == pc[r] = "linters" /\ DOMAIN Body(r).linters # DOMAIN linters[r]

AddLinter(r, l, options) ==
    linters' = [linters EXCEPT ![r] =
        [m \in DOMAIN linters[r] \cup {l} |->
            IF m = l THEN Command(r, l, options) ELSE linters[r][m]]]

TranslatePlain(r) ==
    LET l == NextLinter(r)
    IN  /\ IsTranslating(r) /\ ~HasRule(LinterOf(r, l))
        /\ AddLinter(r, l, LinterOf(r, l).options)
        /\ UNCHANGED <<pc, call, doc, since, got, cacheVars, domainVars, foreign>>

\* carriedText reads the artifacts once more.
CanCarry(r, l) ==
    \A n \in CarriedArtifacts(Body(r), LinterOf(r, l)) :
        n \in Artifacts(r) /\ IsCached(PathOf(r, n))
ProgramOf(r, l) ==
    Program(Body(r), LinterOf(r, l),
            [n \in CarriedArtifacts(Body(r), LinterOf(r, l)) |-> disk[PathOf(r, n)].text])

\* writeRule: a program that is cached must be the same.
TranslateRule(r) ==
    LET l == NextLinter(r)
        path == RulePath(ProgramOf(r, l))
    IN  /\ IsTranslating(r) /\ HasRule(LinterOf(r, l))
        /\ IF ~CanCarry(r, l)
           THEN Goto(r, "unreadable") /\ UNCHANGED <<linters, cacheVars>>
           ELSE IF ~IsCached(path)
           THEN /\ CreateTemp(r, path, ProgramOf(r, l), FALSE)
                /\ Goto(r, "install") /\ UNCHANGED linters
           ELSE IF disk[path].text = ProgramOf(r, l)
           THEN AddLinter(r, l, <<path>>) /\ UNCHANGED <<pc, cacheVars>>
           ELSE Goto(r, "corrupt") /\ UNCHANGED <<linters, cacheVars>>
        /\ UNCHANGED <<call, doc, since, got, domainVars, foreign>>

\* The end of writeFileAtomic, for an artifact and for a rule.
InstallArtifact(r) ==
    /\ pc[r] = "install" /\ Artifacts(r) # DOMAIN got[r]
    /\ Install(r)
    /\ Take(r, NextArtifact(r), temp[r].text)
    /\ Goto(r, "artifacts")
    /\ UNCHANGED <<call, doc, since, linters, domainVars, foreign>>

InstallRule(r) ==
    /\ pc[r] = "install" /\ Artifacts(r) = DOMAIN got[r]
    /\ Install(r)
    /\ AddLinter(r, NextLinter(r), <<temp[r].path>>)
    /\ Goto(r, "linters")
    /\ UNCHANGED <<call, doc, since, got, domainVars, foreign>>

FailInstall(r) ==
    /\ pc[r] = "install"
    /\ DropTemp(r)
    /\ Goto(r, "failed")
    /\ UNCHANGED <<call, doc, since, got, linters, domainVars, foreign>>

\* The directories of the executables go in front of PATH; the linters are
\* added, except that conformist.toml wins unless it is left out altogether.
Apply(r) ==
    /\ pc[r] = "linters" /\ DOMAIN Body(r).linters = DOMAIN linters[r]
    /\ linters' = [linters EXCEPT ![r] =
          [l \in DOMAIN linters[r] \ (IF call[r].only THEN {} ELSE ConfigLinters) |->
              linters[r][l]]]
    /\ Goto(r, "ready")
    /\ UNCHANGED <<call, doc, since, got, cacheVars, domainVars, foreign>>

\* A run is killed, and what it knew is gone.  The temporary file it leaves has
\* a name that nobody looks for.
Kill(r) ==
    /\ pc[r] \notin Ended
    /\ Goto(r, "killed")
    /\ call' = [call EXCEPT ![r] = Uncalled]
    /\ doc' = [doc EXCEPT ![r] = Unread]
    /\ since' = [since EXCEPT ![r] = {}]
    /\ got' = [got EXCEPT ![r] = <<>>]
    /\ linters' = [linters EXCEPT ![r] = <<>>]
    /\ temp' = [temp EXCEPT ![r] = NoFile]
    /\ UNCHANGED <<disk, tainted, removed, domainVars, foreign>>

-------------------------------------------------------------------------------
(* The others *)

\* The domain publishes another profile, or other keys.
ChangeDomain ==
    /\ changes < MaxChanges
    /\ changes' = changes + 1
    /\ \/ served' \in Online /\ UNCHANGED published
       \/ published' \in SUBSET Keys /\ UNCHANGED served
    /\ since' = [r \in Runs |-> IF pc[r] = "keys" THEN since[r] \cup published' ELSE since[r]]
    /\ UNCHANGED <<pc, call, doc, got, linters, cacheVars, foreign>>

ChangeCache(path) ==
    /\ foreign < MaxForeign
    /\ foreign' = foreign + 1
    /\ Taint(path) \/ RemoveFile(path)
    /\ UNCHANGED <<runVars, domainVars>>

Step(r) ==
    \/ \E v \in Invocations : Begin(r, v)
    \/ ReadFile(r) \/ FetchProfile(r) \/ FetchKeys(r)
    \/ Accept(r)
    \/ UseCached(r) \/ StartFetch(r) \/ Fetch(r) \/ EndArtifacts(r)
    \/ TranslatePlain(r) \/ TranslateRule(r)
    \/ InstallArtifact(r) \/ InstallRule(r) \/ FailInstall(r)
    \/ Apply(r)
    \/ Kill(r)

AllEnded == (\A r \in Runs : pc[r] \in Ended) /\ UNCHANGED vars

Next ==
    \/ \E r \in Runs : Step(r)
    \/ ChangeDomain
    \/ \E path \in DOMAIN disk : ChangeCache(path)
    \/ AllEnded

Spec == Init /\ [][Next]_vars

-------------------------------------------------------------------------------
(* Properties *)

\* Whoever reads the cache, at whatever moment, finds complete files that
\* match their names, whatever runs write to it at once and whichever of them
\* are killed; other files only where somebody else has put them
\* (resolve.go:444: "a reader never observes a partial artifact").
CacheHoldsPins ==
    \A path \in DOMAIN disk \ tainted :
        \/ path[1] = "artifacts" /\ Verifies(path[2], disk[path].text)
        \/ path[1] = "rules" /\ Digest("sha256", disk[path].text) = path[2]

\* A run that finds a corrupt file, or no file where it has just verified one,
\* is never the victim of another run: somebody has meddled with the cache.
CacheErrorsAreForeign ==
    \A r \in Runs :
        /\ pc[r] = "corrupt" => tainted # {}
        /\ pc[r] = "unreadable" => removed # {}

\* A run takes no artifact that does not match its pin, even from a cache that
\* was changed; and the rule file that a linter of it is given holds the texts
\* the run has verified, unless the file or one of the artifacts was changed
\* since.
RunsWhatItPinned ==
    \A r \in Runs :
        /\ \A n \in DOMAIN got[r] : Verifies(PinOf(Body(r), n), got[r][n])
        /\ pc[r] \in {"linters", "ready"} =>
              \A l \in DOMAIN linters[r] :
                  LET path == linters[r][l].options[1]
                      parts == CarriedArtifacts(Body(r), LinterOf(r, l))
                  IN  /\ HasRule(LinterOf(r, l))
                      /\ path \notin tainted \cup removed
                      /\ {PathOf(r, n) : n \in parts} \cap tainted = {}
                      => disk[path].text = Program(Body(r), LinterOf(r, l), got[r])

\* The key of a cached result is the text of the command: two runs that run the
\* same text of a linter have verified the same artifacts (resolve.go:145).
SameCommandSameBytes ==
    \A r, q \in Runs :
        pc[r] = "ready" /\ pc[q] = "ready" =>
            \A l \in DOMAIN linters[r] \cap DOMAIN linters[q] :
                linters[r][l] = linters[q][l] => got[r] = got[q]

\* A profile from a domain is used only if a key signed it that the run pins and
\* that the domain has published after it served the profile: a key that was
\* withdrawn before is refused (resolve.go:357).
WithdrawnKeyIsRefused ==
    \A r \in Runs :
        /\ call[r].from = "https"
        /\ pc[r] \in {"parse", "artifacts", "fetch", "install", "linters", "ready"}
        => Signer(doc[r]) \in call[r].pinned \cap since[r]
===============================================================================
