--------------------------- MODULE ProfileCheck_proofs -------------------------
(***************************************************************************)
(* Proofs about ProfileCheck, for any runs, keys, documents, servers and   *)
(* changes from outside.  The inductive invariant says what is behind a    *)
(* temporary file, a verified artifact and a translated linter while the   *)
(* cache and the domain change under them.  Its first part holds whatever  *)
(* the digests are worth; the second, about what is put together from      *)
(* files read twice, needs that a digest has one text.                     *)
(***************************************************************************)
EXTENDS ProfileCheck, WellFoundedInduction, TLAPS

\* What the names in the cache stand on: a digest has one text.
DigestIsInjective ==
    \A format \in Formats : \A s, t : Digest(format, s) = Digest(format, t) => s = t

-------------------------------------------------------------------------------
(* The inductive invariant *)

\* What TypeOK leaves open: the variables are functions on the runs.
Functions_ ==
    /\ temp = [r \in Runs |-> temp[r]]
    /\ pc \in [Runs -> PCs]
    /\ call = [r \in Runs |-> call[r]]
    /\ doc = [r \in Runs |-> doc[r]]
    /\ since = [r \in Runs |-> since[r]]
    /\ got = [r \in Runs |-> got[r]]
    /\ linters = [r \in Runs |-> linters[r]]

\* A text may stand at a path.
Fits(path, text) ==
    \/ path[1] = "artifacts" /\ Verifies(path[2], text)
    \/ path[1] = "rules" /\ Digest("sha256", text) = path[2]

DiskFits == \A path \in DOMAIN disk \ tainted : Fits(path, disk[path].text)

\* A temporary file fits its path: that of the artifact the run is at.
TempFits ==
    \A r \in Runs : pc[r] = "install" =>
        /\ Fits(temp[r].path, temp[r].text)
        /\ Artifacts(r) # DOMAIN got[r] => temp[r].path = PathOf(r, NextArtifact(r))

\* The run has every key in mind that was published since it read the profile.
KeysAreSince == \A r \in Runs : pc[r] = "keys" => published \subseteq since[r]

\* Before the document is accepted nothing is done; after that it is valid.
Early == {"start", "read", "keys", "parse"}
Late == {"artifacts", "fetch", "install", "linters", "ready"}
DocumentIsAccepted ==
    \A r \in Runs :
        /\ pc[r] \in Early => got[r] = <<>> /\ linters[r] = <<>>
        /\ pc[r] \in {"keys", "parse"} \cup Late => doc[r] \in Signed
        /\ pc[r] \in Late => IsValid(Body(r))
        /\ pc[r] \in {"linters", "ready"} => DOMAIN got[r] = Artifacts(r)
        /\ pc[r] = "fetch" => DOMAIN got[r] # Artifacts(r)
        /\ linters[r] # <<>> => DOMAIN got[r] = Artifacts(r)

\* A verified artifact is in the cache, or somebody has removed it.
GotIsVerified ==
    \A r \in Runs :
        /\ got[r] = [n \in DOMAIN got[r] |-> got[r][n]]
        /\ \A n \in DOMAIN got[r] :
              /\ Verifies(PinOf(Body(r), n), got[r][n])
              /\ PathOf(r, n) \in DOMAIN disk \cup removed

\* A translated linter is one of the profile's and carries the pins of all
\* artifacts.
LintersCarryPins ==
    \A r \in Runs : \A l \in DOMAIN linters[r] :
        /\ l \in DOMAIN Body(r).linters
        /\ linters[r][l].pins = Pins(r)

\* Somebody has changed an artifact that carries a part of the linter's rule.
IsSpoilt(r, l) ==
    \E n \in CarriedArtifacts(Body(r), LinterOf(r, l)) : PathOf(r, n) \in tainted

\* The program the linter should run, from the texts that were verified.
VerifiedProgram(r, l) == Program(Body(r), LinterOf(r, l), got[r])

\* A rule that is being written is that of the next linter.
TempIsRule ==
    \A r \in Runs : pc[r] = "install" /\ Artifacts(r) = DOMAIN got[r] =>
        LET l == NextLinter(r)
        IN  /\ l \in DOMAIN Body(r).linters \ DOMAIN linters[r]
            /\ temp[r].path = RulePath(temp[r].text)
            /\ IsSpoilt(r, l) \/ temp[r].text = VerifiedProgram(r, l)

\* The rule file of a translated linter is named by its program, and is there
\* unless somebody has removed it.
RulesAreVerified ==
    \A r \in Runs : \A l \in DOMAIN linters[r] : HasRule(LinterOf(r, l)) =>
        /\ linters[r][l].options[1] \in DOMAIN disk \cup removed
        /\ \/ IsSpoilt(r, l)
           \/ linters[r][l].options[1] = RulePath(VerifiedProgram(r, l))

CacheInv ==
    /\ TypeOK
    /\ Functions_
    /\ DiskFits
    /\ TempFits
    /\ KeysAreSince
    /\ WithdrawnKeyIsRefused
    /\ DocumentIsAccepted
    /\ GotIsVerified

RuleInv ==
    /\ LintersCarryPins
    /\ TempIsRule
    /\ RulesAreVerified
    /\ CacheErrorsAreForeign

IInv == CacheInv /\ RuleInv

-------------------------------------------------------------------------------
(* Each conjunct holds after each step *)

LEMMA StepFunctions == Functions_ /\ [Next]_vars => Functions_'
<1> SUFFICES ASSUME Functions_, [Next]_vars PROVE Functions_'
  OBVIOUS
<1> USE DEF Functions_, PCs, Ended, Goto, cacheVars, domainVars, runVars
<1>1. CASE UNCHANGED vars  BY <1>1 DEF vars
<1>2. CASE ChangeDomain  BY <1>2 DEF ChangeDomain
<1>3. ASSUME NEW path \in DOMAIN disk, ChangeCache(path) PROVE Functions_'
  BY <1>3 DEF ChangeCache, Taint, RemoveFile
<1>4. ASSUME NEW r \in Runs, Step(r) PROVE Functions_'
  <2>1. ASSUME NEW v \in Invocations, Begin(r, v) PROVE Functions_'
    BY <2>1 DEF Begin
  <2>2. CASE ReadFile(r)  BY <2>2 DEF ReadFile
  <2>3. CASE FetchProfile(r)  BY <2>3 DEF FetchProfile
  <2>4. CASE FetchKeys(r)  BY <2>4 DEF FetchKeys
  <2>5. CASE Accept(r)  BY <2>5 DEF Accept
  <2>6. CASE UseCached(r)  BY <2>6 DEF UseCached, Take
  <2>7. CASE StartFetch(r)  BY <2>7 DEF StartFetch
  <2>8. CASE Fetch(r)  BY <2>8 DEF Fetch, CreateTemp
  <2>9. CASE EndArtifacts(r)  BY <2>9 DEF EndArtifacts
  <2>10. CASE TranslatePlain(r)  BY <2>10 DEF TranslatePlain, AddLinter
  <2>11. CASE TranslateRule(r)
    BY <2>11 DEF TranslateRule, AddLinter, CreateTemp
  <2>12. CASE InstallArtifact(r)  BY <2>12 DEF InstallArtifact, Install, Take
  <2>13. CASE InstallRule(r)  BY <2>13 DEF InstallRule, Install, AddLinter
  <2>14. CASE FailInstall(r)  BY <2>14 DEF FailInstall, DropTemp
  <2>15. CASE Apply(r)  BY <2>15 DEF Apply
  <2>16. CASE Kill(r)  BY <2>16 DEF Kill
  <2> QED  BY <1>4, <2>1, <2>2, <2>3, <2>4, <2>5, <2>6, <2>7, <2>8, <2>9, <2>10,
              <2>11, <2>12, <2>13, <2>14, <2>15, <2>16
           DEF Step
<1> QED  BY <1>1, <1>2, <1>3, <1>4 DEF Next, AllEnded

\* What a step of TranslateRule comes to.
LEMMA RuleOutcome ==
  ASSUME NEW r \in Runs, TranslateRule(r)
  PROVE  LET l == NextLinter(r)
             program == ProgramOf(r, l)
             path == RulePath(program)
         IN  /\ IsTranslating(r) /\ HasRule(LinterOf(r, l))
             /\ UNCHANGED <<call, doc, since, got, domainVars, foreign>>
             /\ \/ /\ ~CanCarry(r, l)
                   /\ Goto(r, "unreadable") /\ UNCHANGED <<linters, cacheVars>>
                \/ /\ CanCarry(r, l) /\ CreateTemp(r, path, program, FALSE)
                   /\ Goto(r, "install") /\ UNCHANGED linters
                \/ /\ CanCarry(r, l) /\ IsCached(path)
                   /\ AddLinter(r, l, <<path>>) /\ UNCHANGED <<pc, cacheVars>>
                \/ /\ CanCarry(r, l) /\ IsCached(path) /\ disk[path].text # program
                   /\ Goto(r, "corrupt") /\ UNCHANGED <<linters, cacheVars>>
  BY DEF TranslateRule

\* There is a least one among the linters that are left.
LEMMA MinIsMember ==
  ASSUME NEW S, S \subseteq Nat, S # {}
  PROVE  Min(S) \in S
<1>1. PICK x \in S : \A y \in S : ~(<<y, x>> \in OpToRel(<, Nat))
  BY WFMin, NatLessThanWellFounded
<1>2. ASSUME NEW y \in S PROVE x =< y
  <2>1. x \in Nat /\ y \in Nat
    OBVIOUS
  <2>2. ~(<<y, x>> \in OpToRel(<, Nat))
    BY <1>1
  <2>3. ~(y < x)
    BY <2>1, <2>2 DEF OpToRel
  <2> QED  BY <2>1, <2>3
<1> QED  BY <1>2 DEF Min

LEMMA NextLinterIsNew ==
  ASSUME NEW r \in Runs, DocumentIsAccepted, LintersCarryPins, IsTranslating(r)
  PROVE  NextLinter(r) \in DOMAIN Body(r).linters \ DOMAIN linters[r]
<1>1. DOMAIN Body(r).linters \subseteq Nat
  BY ProfileAssumption DEF IsTranslating, DocumentIsAccepted, Late, Body
<1>2. DOMAIN linters[r] \subseteq DOMAIN Body(r).linters
  BY DEF LintersCarryPins
<1>3. DOMAIN Body(r).linters \ DOMAIN linters[r] # {}
  BY <1>2 DEF IsTranslating
<1>4. DOMAIN Body(r).linters \ DOMAIN linters[r] \subseteq Nat
  BY <1>1
<1> QED  BY <1>3, <1>4, MinIsMember DEF NextLinter

\* What carries a part of a valid rule is an artifact of the document.
LEMMA CarriedAreArtifacts ==
  ASSUME NEW d, IsValid(d), NEW n \in DOMAIN d.linters, HasRule(d.linters[n]),
         d.linters[n].preludes \in Seq(Nat)
  PROVE  CarriedArtifacts(d, d.linters[n]) \subseteq DOMAIN d.artifacts
<1> DEFINE l == d.linters[n]
           preludes == [i \in DOMAIN l.preludes |-> d.preludes[l.preludes[i]]]
           All == {d.preludes[l.preludes[i]] : i \in DOMAIN l.preludes}
<1>1. IsValidRule(d, l)
  BY DEF IsValid, IsValidLinter
<1>2. ASSUME NEW c \in All, c.artifact # None
      PROVE  c.artifact \in DOMAIN d.artifacts
  BY <1>1, <1>2 DEF IsValidRule, IsValid, IsValidPrelude, IsData
<1>3. l.artifact # None => l.artifact \in DOMAIN d.artifacts
  BY <1>1 DEF IsValidRule, IsData
<1>4. preludes \in Seq(All)
  BY DEF All
<1>5. \A c \in ToSet(Append(preludes, l)) : c \in All \/ c = l
  <2> HIDE DEF All, preludes, l
  <2> QED  BY <1>4 DEF ToSet
<1> QED  BY <1>2, <1>3, <1>5 DEF CarriedArtifacts, Carriers

\* A program depends on the texts of the artifacts that carry it alone.
LEMMA ProgramOfCarried ==
  ASSUME NEW d, NEW l, NEW s, NEW t,
         \A n \in CarriedArtifacts(d, l) : s[n] = t[n]
  PROVE  Program(d, l, s) = Program(d, l, t)
<1> DEFINE Parts(u) == [i \in DOMAIN Carriers(d, l) |->
                         LET c == Carriers(d, l)[i]
                         IN  IF c.artifact = None THEN c.rule ELSE u[c.artifact]]
<1>1. \A i \in DOMAIN Carriers(d, l) :
        Carriers(d, l)[i].artifact # None =>
            Carriers(d, l)[i].artifact \in CarriedArtifacts(d, l)
  BY DEF CarriedArtifacts, ToSet
<1>2. Parts(s) = Parts(t)
  BY <1>1
<1> QED  BY <1>2 DEF Program

\* A program that is put together again from the cache is the verified one.
LEMMA ProgramIsVerified ==
  ASSUME NEW r \in Runs, NEW l, DigestIsInjective, DiskFits, GotIsVerified,
         Artifacts(r) = DOMAIN got[r], CanCarry(r, l)
  PROVE  IsSpoilt(r, l) \/ ProgramOf(r, l) = VerifiedProgram(r, l)
<1> SUFFICES ASSUME ~IsSpoilt(r, l) PROVE ProgramOf(r, l) = VerifiedProgram(r, l)
  OBVIOUS
<1> DEFINE Carried == CarriedArtifacts(Body(r), LinterOf(r, l))
<1>1. ASSUME NEW n \in Carried PROVE disk[PathOf(r, n)].text = got[r][n]
  <2>1. n \in DOMAIN got[r] /\ PathOf(r, n) \in DOMAIN disk \ tainted
    BY DEF CanCarry, IsCached, IsSpoilt
  <2>2. Verifies(PinOf(Body(r), n), disk[PathOf(r, n)].text)
    BY <2>1 DEF DiskFits, Fits, PathOf, ArtifactPath
  <2>3. Verifies(PinOf(Body(r), n), got[r][n])
    BY <2>1 DEF GotIsVerified
  <2> QED  BY <2>2, <2>3 DEF Verifies, DigestIsInjective
<1> QED  BY <1>1, ProgramOfCarried DEF ProgramOf, VerifiedProgram

LEMMA EmptyTuple == DOMAIN <<>> = {} /\ <<>> = [n \in DOMAIN <<>> |-> <<>>[n]]
  OBVIOUS

LEMMA StepDiskFits ==
  ASSUME Functions_, DiskFits, TempFits, [Next]_vars
  PROVE  DiskFits'
<1> USE DEF Functions_, PCs, Ended, Goto, cacheVars, domainVars, runVars,
            DiskFits, TempFits, Fits, IsCached, Put
<1>1. CASE UNCHANGED vars  BY <1>1 DEF vars
<1>2. CASE ChangeDomain  BY <1>2 DEF ChangeDomain
<1>3. ASSUME NEW path \in DOMAIN disk, ChangeCache(path) PROVE DiskFits'
  BY <1>3 DEF ChangeCache, Taint, RemoveFile
<1>4. ASSUME NEW r \in Runs, Step(r) PROVE DiskFits'
  <2>1. ASSUME NEW v \in Invocations, Begin(r, v) PROVE DiskFits'
    BY <2>1 DEF Begin
  <2>2. CASE ReadFile(r)  BY <2>2 DEF ReadFile
  <2>3. CASE FetchProfile(r)  BY <2>3 DEF FetchProfile
  <2>4. CASE FetchKeys(r)  BY <2>4 DEF FetchKeys
  <2>5. CASE Accept(r)  BY <2>5 DEF Accept
  <2>6. CASE UseCached(r)  BY <2>6 DEF UseCached, Take
  <2>7. CASE StartFetch(r)  BY <2>7 DEF StartFetch
  <2>8. CASE Fetch(r)  BY <2>8 DEF Fetch, CreateTemp
  <2>9. CASE EndArtifacts(r)  BY <2>9 DEF EndArtifacts
  <2>10. CASE TranslatePlain(r)
    BY <2>10 DEF TranslatePlain, IsTranslating, AddLinter
  <2>11. CASE TranslateRule(r)
    BY <2>11 DEF TranslateRule, AddLinter, CreateTemp
  <2>12. CASE InstallArtifact(r)  BY <2>12 DEF InstallArtifact, Install, Take
  <2>13. CASE InstallRule(r)  BY <2>13 DEF InstallRule, Install, AddLinter
  <2>14. CASE FailInstall(r)  BY <2>14 DEF FailInstall, DropTemp
  <2>15. CASE Apply(r)  BY <2>15 DEF Apply
  <2>16. CASE Kill(r)  BY <2>16 DEF Kill
  <2> QED  BY <1>4, <2>1, <2>2, <2>3, <2>4, <2>5, <2>6, <2>7, <2>8, <2>9,
              <2>10, <2>11, <2>12, <2>13, <2>14, <2>15, <2>16
           DEF Step
<1> QED  BY <1>1, <1>2, <1>3, <1>4 DEF Next, AllEnded

LEMMA StepTempFits ==
  ASSUME Functions_, TempFits, DocumentIsAccepted, [Next]_vars
  PROVE  TempFits'
<1> USE DEF Functions_, PCs, Ended, Goto, cacheVars, domainVars, runVars,
            TempFits, Artifacts, NextArtifact, Body, PathOf
<1>1. CASE UNCHANGED vars  BY <1>1 DEF vars
<1>2. CASE ChangeDomain  BY <1>2 DEF ChangeDomain
<1>3. ASSUME NEW path \in DOMAIN disk, ChangeCache(path) PROVE TempFits'
  BY <1>3 DEF ChangeCache, Taint, RemoveFile
<1>4. ASSUME NEW r \in Runs, Step(r) PROVE TempFits'
  <2>1. ASSUME NEW v \in Invocations, Begin(r, v) PROVE TempFits'
    BY <2>1 DEF Begin
  <2>2. CASE ReadFile(r)  BY <2>2 DEF ReadFile
  <2>3. CASE FetchProfile(r)  BY <2>3 DEF FetchProfile
  <2>4. CASE FetchKeys(r)  BY <2>4 DEF FetchKeys
  <2>5. CASE Accept(r)  BY <2>5 DEF Accept
  <2>6. CASE UseCached(r)  BY <2>6 DEF UseCached, Take
  <2>7. CASE StartFetch(r)  BY <2>7 DEF StartFetch
  <2>8. CASE Fetch(r)
    <3> DEFINE n == NextArtifact(r)
    <3>1. ASSUME NEW text, Verifies(PinOf(Body(r), n), text)
          PROVE  Fits(PathOf(r, n), text)
      BY <3>1 DEF Fits, ArtifactPath
    <3>2. /\ UNCHANGED <<doc, got>>
          /\ \/ Goto(r, "failed") /\ UNCHANGED temp
             \/ \E text, x : /\ Fits(PathOf(r, n), text)
                             /\ temp' = [temp EXCEPT ![r] = File(PathOf(r, n), text, x)]
                             /\ Goto(r, "install")
      BY <2>8, <3>1 DEF Fetch, CreateTemp
    <3>3. CASE Goto(r, "failed") /\ UNCHANGED temp
      BY <3>2, <3>3
    <3>4. ASSUME NEW text, NEW x, Fits(PathOf(r, n), text),
                 temp' = [temp EXCEPT ![r] = File(PathOf(r, n), text, x)],
                 Goto(r, "install")
          PROVE  TempFits'
      BY <3>2, <3>4 DEF File
    <3> QED  BY <3>2, <3>3, <3>4
  <2>9. CASE EndArtifacts(r)  BY <2>9 DEF EndArtifacts
  <2>10. CASE TranslatePlain(r)
    BY <2>10 DEF TranslatePlain, IsTranslating, AddLinter
  <2>11. CASE TranslateRule(r)
    <3> DEFINE program == ProgramOf(r, NextLinter(r))
    <3>1. Fits(RulePath(program), program)
      BY DEF Fits, RulePath
    <3>2. Artifacts(r) = DOMAIN got[r]
      BY <2>11, RuleOutcome DEF IsTranslating, DocumentIsAccepted
    <3>3. /\ UNCHANGED <<doc, got>>
          /\ \/ /\ temp' = [temp EXCEPT ![r] = File(RulePath(program), program, FALSE)]
                /\ Goto(r, "install")
             \/ UNCHANGED temp /\ Goto(r, "unreadable")
             \/ UNCHANGED temp /\ Goto(r, "corrupt")
             \/ UNCHANGED <<temp, pc>>
      BY <2>11, RuleOutcome DEF CreateTemp
    <3> HIDE DEF program
    <3> QED  BY <3>1, <3>2, <3>3 DEF File
  <2>12. CASE InstallArtifact(r)  BY <2>12 DEF InstallArtifact, Install, Take
  <2>13. CASE InstallRule(r)  BY <2>13 DEF InstallRule, Install, AddLinter
  <2>14. CASE FailInstall(r)  BY <2>14 DEF FailInstall, DropTemp
  <2>15. CASE Apply(r)  BY <2>15 DEF Apply
  <2>16. CASE Kill(r)  BY <2>16 DEF Kill
  <2> QED  BY <1>4, <2>1, <2>2, <2>3, <2>4, <2>5, <2>6, <2>7, <2>8, <2>9,
              <2>10, <2>11, <2>12, <2>13, <2>14, <2>15, <2>16
           DEF Step
<1> QED  BY <1>1, <1>2, <1>3, <1>4 DEF Next, AllEnded

LEMMA StepKeys ==
  ASSUME Functions_, KeysAreSince, [Next]_vars
  PROVE  KeysAreSince'
<1> USE DEF Functions_, PCs, Ended, Goto, cacheVars, domainVars, runVars,
            KeysAreSince
<1>1. CASE UNCHANGED vars  BY <1>1 DEF vars
<1>2. CASE ChangeDomain  BY <1>2 DEF ChangeDomain
<1>3. ASSUME NEW path \in DOMAIN disk, ChangeCache(path) PROVE KeysAreSince'
  BY <1>3 DEF ChangeCache, Taint, RemoveFile
<1>4. ASSUME NEW r \in Runs, Step(r) PROVE KeysAreSince'
  <2>1. ASSUME NEW v \in Invocations, Begin(r, v) PROVE KeysAreSince'
    BY <2>1 DEF Begin
  <2>2. CASE ReadFile(r)  BY <2>2 DEF ReadFile
  <2>3. CASE FetchProfile(r)  BY <2>3 DEF FetchProfile
  <2>4. CASE FetchKeys(r)  BY <2>4 DEF FetchKeys
  <2>5. CASE Accept(r)  BY <2>5 DEF Accept
  <2>6. CASE UseCached(r)  BY <2>6 DEF UseCached, Take
  <2>7. CASE StartFetch(r)  BY <2>7 DEF StartFetch
  <2>8. CASE Fetch(r)  BY <2>8 DEF Fetch, CreateTemp
  <2>9. CASE EndArtifacts(r)  BY <2>9 DEF EndArtifacts
  <2>10. CASE TranslatePlain(r)
    BY <2>10 DEF TranslatePlain, IsTranslating, AddLinter
  <2>11. CASE TranslateRule(r)
    BY <2>11 DEF TranslateRule, AddLinter, CreateTemp
  <2>12. CASE InstallArtifact(r)  BY <2>12 DEF InstallArtifact, Install, Take
  <2>13. CASE InstallRule(r)  BY <2>13 DEF InstallRule, Install, AddLinter
  <2>14. CASE FailInstall(r)  BY <2>14 DEF FailInstall, DropTemp
  <2>15. CASE Apply(r)  BY <2>15 DEF Apply
  <2>16. CASE Kill(r)  BY <2>16 DEF Kill
  <2> QED  BY <1>4, <2>1, <2>2, <2>3, <2>4, <2>5, <2>6, <2>7, <2>8, <2>9,
              <2>10, <2>11, <2>12, <2>13, <2>14, <2>15, <2>16
           DEF Step
<1> QED  BY <1>1, <1>2, <1>3, <1>4 DEF Next, AllEnded

LEMMA StepWithdrawn ==
  ASSUME Functions_, KeysAreSince, WithdrawnKeyIsRefused, [Next]_vars
  PROVE  WithdrawnKeyIsRefused'
<1> USE DEF Functions_, PCs, Ended, Goto, cacheVars, domainVars, runVars,
            KeysAreSince, WithdrawnKeyIsRefused, Trusted, IsSignedBy, Signer,
            Body
<1>1. CASE UNCHANGED vars  BY <1>1 DEF vars
<1>2. CASE ChangeDomain  BY <1>2 DEF ChangeDomain
<1>3. ASSUME NEW path \in DOMAIN disk, ChangeCache(path) PROVE WithdrawnKeyIsRefused'
  BY <1>3 DEF ChangeCache, Taint, RemoveFile
<1>4. ASSUME NEW r \in Runs, Step(r) PROVE WithdrawnKeyIsRefused'
  <2>1. ASSUME NEW v \in Invocations, Begin(r, v) PROVE WithdrawnKeyIsRefused'
    BY <2>1 DEF Begin
  <2>2. CASE ReadFile(r)  BY <2>2 DEF ReadFile
  <2>3. CASE FetchProfile(r)  BY <2>3 DEF FetchProfile
  <2>4. CASE FetchKeys(r)  BY <2>4 DEF FetchKeys
  <2>5. CASE Accept(r)  BY <2>5 DEF Accept
  <2>6. CASE UseCached(r)  BY <2>6 DEF UseCached, Take
  <2>7. CASE StartFetch(r)  BY <2>7 DEF StartFetch
  <2>8. CASE Fetch(r)  BY <2>8 DEF Fetch, CreateTemp
  <2>9. CASE EndArtifacts(r)  BY <2>9 DEF EndArtifacts
  <2>10. CASE TranslatePlain(r)
    BY <2>10 DEF TranslatePlain, IsTranslating, AddLinter
  <2>11. CASE TranslateRule(r)
    BY <2>11, RuleOutcome DEF IsTranslating, AddLinter, CreateTemp
  <2>12. CASE InstallArtifact(r)  BY <2>12 DEF InstallArtifact, Install, Take
  <2>13. CASE InstallRule(r)  BY <2>13 DEF InstallRule, Install, AddLinter
  <2>14. CASE FailInstall(r)  BY <2>14 DEF FailInstall, DropTemp
  <2>15. CASE Apply(r)  BY <2>15 DEF Apply
  <2>16. CASE Kill(r)  BY <2>16 DEF Kill
  <2> QED  BY <1>4, <2>1, <2>2, <2>3, <2>4, <2>5, <2>6, <2>7, <2>8, <2>9,
              <2>10, <2>11, <2>12, <2>13, <2>14, <2>15, <2>16
           DEF Step
<1> QED  BY <1>1, <1>2, <1>3, <1>4 DEF Next, AllEnded

LEMMA StepTypeOK ==
  ASSUME Functions_, TypeOK, [Next]_vars
  PROVE  TypeOK'
<1> USE DEF Functions_, PCs, Ended, Goto, cacheVars, domainVars, runVars,
            TypeOK, IsCached, Put, NoFile
<1>1. CASE UNCHANGED vars  BY <1>1 DEF vars
<1>2. CASE ChangeDomain  BY <1>2, ProfileAssumption DEF ChangeDomain
<1>3. ASSUME NEW path \in DOMAIN disk, ChangeCache(path) PROVE TypeOK'
  <2>1. foreign' \in 0 .. MaxForeign
    BY <1>3, ProfileAssumption DEF ChangeCache
  <2>2. \A q \in DOMAIN disk' : DOMAIN disk'[q] = {"text", "executable"}
    <3>1. CASE Taint(path)
      BY <3>1 DEF Taint
    <3>2. CASE RemoveFile(path)
      BY <3>2 DEF RemoveFile
    <3> QED  BY <1>3, <3>1, <3>2 DEF ChangeCache
  <2>3. tainted' \cup removed' \subseteq DOMAIN disk' \cup removed'
    BY <1>3 DEF ChangeCache, Taint, RemoveFile
  <2> QED  BY <1>3, <2>1, <2>2, <2>3 DEF ChangeCache, Taint, RemoveFile
<1>4. ASSUME NEW r \in Runs, Step(r) PROVE TypeOK'
  <2>1. ASSUME NEW v \in Invocations, Begin(r, v) PROVE TypeOK'
    BY <2>1 DEF Begin
  <2>2. CASE ReadFile(r)
    BY <2>2, ProfileAssumption DEF ReadFile, TypeOK
  <2>3. CASE FetchProfile(r)
    BY <2>3, ProfileAssumption DEF FetchProfile, TypeOK
  <2>4. CASE FetchKeys(r)  BY <2>4 DEF FetchKeys
  <2>5. CASE Accept(r)  BY <2>5 DEF Accept
  <2>6. CASE UseCached(r)  BY <2>6 DEF UseCached, Take
  <2>7. CASE StartFetch(r)  BY <2>7 DEF StartFetch
  <2>8. CASE Fetch(r)  BY <2>8 DEF Fetch, CreateTemp
  <2>9. CASE EndArtifacts(r)  BY <2>9 DEF EndArtifacts
  <2>10. CASE TranslatePlain(r)
    BY <2>10 DEF TranslatePlain, IsTranslating, AddLinter
  <2>11. CASE TranslateRule(r)
    <3> DEFINE path == RulePath(ProgramOf(r, NextLinter(r)))
    <3>1. /\ pc[r] = "linters"
          /\ UNCHANGED <<doc, since, disk, tainted, removed, domainVars, foreign>>
          /\ \/ \E file : temp' = [temp EXCEPT ![r] = file] /\ Goto(r, "install")
             \/ UNCHANGED temp /\ Goto(r, "unreadable")
             \/ UNCHANGED temp /\ Goto(r, "corrupt")
             \/ UNCHANGED <<temp, pc>>
      BY <2>11, RuleOutcome DEF IsTranslating, CreateTemp
    <3> QED  BY <3>1
  <2>12. CASE InstallArtifact(r)  BY <2>12 DEF InstallArtifact, Install, Take
  <2>13. CASE InstallRule(r)  BY <2>13 DEF InstallRule, Install, AddLinter
  <2>14. CASE FailInstall(r)  BY <2>14 DEF FailInstall, DropTemp
  <2>15. CASE Apply(r)  BY <2>15 DEF Apply
  <2>16. CASE Kill(r)  BY <2>16 DEF Kill
  <2> QED  BY <1>4, <2>1, <2>2, <2>3, <2>4, <2>5, <2>6, <2>7, <2>8, <2>9,
              <2>10, <2>11, <2>12, <2>13, <2>14, <2>15, <2>16
           DEF Step
<1> QED  BY <1>1, <1>2, <1>3, <1>4 DEF Next, AllEnded

LEMMA StepAccepted ==
  ASSUME Functions_, TypeOK, DocumentIsAccepted, [Next]_vars
  PROVE  DocumentIsAccepted'
<1> USE DEF Functions_, PCs, Ended, Goto, cacheVars, domainVars, runVars,
            DocumentIsAccepted, Early, Late, Artifacts, Body
<1>1. CASE UNCHANGED vars  BY <1>1 DEF vars
<1>2. CASE ChangeDomain  BY <1>2 DEF ChangeDomain
<1>3. ASSUME NEW path \in DOMAIN disk, ChangeCache(path) PROVE DocumentIsAccepted'
  BY <1>3 DEF ChangeCache, Taint, RemoveFile
<1>4. ASSUME NEW r \in Runs, Step(r) PROVE DocumentIsAccepted'
  <2>1. ASSUME NEW v \in Invocations, Begin(r, v) PROVE DocumentIsAccepted'
    BY <2>1 DEF Begin
  <2>2. CASE ReadFile(r)
    BY <2>2, ProfileAssumption DEF ReadFile, TypeOK
  <2>3. CASE FetchProfile(r)
    BY <2>3, ProfileAssumption DEF FetchProfile, TypeOK
  <2>4. CASE FetchKeys(r)  BY <2>4 DEF FetchKeys
  <2>5. CASE Accept(r)  BY <2>5 DEF Accept
  <2>6. CASE UseCached(r)  BY <2>6 DEF UseCached, Take
  <2>7. CASE StartFetch(r)  BY <2>7 DEF StartFetch
  <2>8. CASE Fetch(r)  BY <2>8 DEF Fetch, CreateTemp
  <2>9. CASE EndArtifacts(r)  BY <2>9 DEF EndArtifacts
  <2>10. CASE TranslatePlain(r)
    BY <2>10 DEF TranslatePlain, IsTranslating, AddLinter
  <2>11. CASE TranslateRule(r)
    <3>1. /\ UNCHANGED <<doc, got>> /\ pc[r] = "linters"
          /\ \/ \E next \in {"unreadable", "corrupt", "install"} : Goto(r, next)
             \/ UNCHANGED pc
          /\ UNCHANGED linters \/ \E x : linters' = [linters EXCEPT ![r] = x]
      BY <2>11, RuleOutcome DEF IsTranslating, AddLinter
    <3> QED  BY <3>1
  <2>12. CASE InstallArtifact(r)  BY <2>12 DEF InstallArtifact, Install, Take
  <2>13. CASE InstallRule(r)  BY <2>13 DEF InstallRule, Install, AddLinter
  <2>14. CASE FailInstall(r)  BY <2>14 DEF FailInstall, DropTemp
  <2>15. CASE Apply(r)  BY <2>15 DEF Apply
  <2>16. CASE Kill(r)  BY <2>16 DEF Kill
  <2> QED  BY <1>4, <2>1, <2>2, <2>3, <2>4, <2>5, <2>6, <2>7, <2>8, <2>9,
              <2>10, <2>11, <2>12, <2>13, <2>14, <2>15, <2>16
           DEF Step
<1> QED  BY <1>1, <1>2, <1>3, <1>4 DEF Next, AllEnded

LEMMA StepGot ==
  ASSUME Functions_, DiskFits, TempFits, DocumentIsAccepted, GotIsVerified,
         [Next]_vars
  PROVE  GotIsVerified'
<1> USE DEF Functions_, PCs, Ended, Goto, cacheVars, domainVars, runVars,
            GotIsVerified, Body, PathOf
<1>1. CASE UNCHANGED vars  BY <1>1 DEF vars
<1>2. CASE ChangeDomain  BY <1>2 DEF ChangeDomain
<1>3. ASSUME NEW path \in DOMAIN disk, ChangeCache(path) PROVE GotIsVerified'
  BY <1>3 DEF ChangeCache, Taint, RemoveFile
<1>4. ASSUME NEW r \in Runs, Step(r) PROVE GotIsVerified'
  <2>1. ASSUME NEW v \in Invocations, Begin(r, v) PROVE GotIsVerified'
    BY <2>1 DEF Begin
  <2>2. CASE ReadFile(r)
    BY <2>2, EmptyTuple DEF ReadFile, DocumentIsAccepted, Early
  <2>3. CASE FetchProfile(r)
    BY <2>3, EmptyTuple DEF FetchProfile, DocumentIsAccepted, Early
  <2>4. CASE FetchKeys(r)  BY <2>4 DEF FetchKeys
  <2>5. CASE Accept(r)  BY <2>5 DEF Accept
  <2>6. CASE UseCached(r)
    <3> DEFINE n == NextArtifact(r)
    <3>1. /\ PathOf(r, n) \in DOMAIN disk
          /\ UNCHANGED <<doc, disk, removed>>
          /\ \/ /\ Verifies(PinOf(Body(r), n), disk[PathOf(r, n)].text)
                /\ Take(r, n, disk[PathOf(r, n)].text)
             \/ UNCHANGED got
      BY <2>6 DEF UseCached, IsCached
    <3> HIDE DEF n
    <3> QED  BY <3>1 DEF Take
  <2>7. CASE StartFetch(r)  BY <2>7 DEF StartFetch
  <2>8. CASE Fetch(r)  BY <2>8 DEF Fetch, CreateTemp
  <2>9. CASE EndArtifacts(r)  BY <2>9 DEF EndArtifacts
  <2>10. CASE TranslatePlain(r)
    BY <2>10 DEF TranslatePlain, IsTranslating, AddLinter
  <2>11. CASE TranslateRule(r)
    BY <2>11 DEF TranslateRule, AddLinter, CreateTemp
  <2>12. CASE InstallArtifact(r)
    <3> DEFINE n == NextArtifact(r)
    <3>1. /\ temp[r].path = PathOf(r, n)
          /\ Verifies(PinOf(Body(r), n), temp[r].text)
      BY <2>12 DEF InstallArtifact, TempFits, Fits, ArtifactPath
    <3>2. /\ Take(r, n, temp[r].text)
          /\ DOMAIN disk' = DOMAIN disk \cup {PathOf(r, n)}
          /\ UNCHANGED <<doc, removed>>
      BY <2>12, <3>1 DEF InstallArtifact, Install, Put
    <3> HIDE DEF n
    <3> QED  BY <3>1, <3>2 DEF Take
  <2>13. CASE InstallRule(r)
    <3>1. DOMAIN disk \subseteq DOMAIN disk' /\ UNCHANGED <<doc, got, removed>>
      BY <2>13 DEF InstallRule, Install, Put
    <3> QED  BY <3>1
  <2>14. CASE FailInstall(r)  BY <2>14 DEF FailInstall, DropTemp
  <2>15. CASE Apply(r)  BY <2>15 DEF Apply
  <2>16. CASE Kill(r)
    BY <2>16, EmptyTuple DEF Kill, DocumentIsAccepted, Early
  <2> QED  BY <1>4, <2>1, <2>2, <2>3, <2>4, <2>5, <2>6, <2>7, <2>8, <2>9,
              <2>10, <2>11, <2>12, <2>13, <2>14, <2>15, <2>16
           DEF Step
<1> QED  BY <1>1, <1>2, <1>3, <1>4 DEF Next, AllEnded

LEMMA StepPins ==
  ASSUME Functions_, DocumentIsAccepted, TempIsRule, LintersCarryPins,
         [Next]_vars
  PROVE  LintersCarryPins'
<1> USE DEF Functions_, PCs, Ended, Goto, cacheVars, domainVars, runVars,
            LintersCarryPins, DocumentIsAccepted, Early, Body, Artifacts, Pins,
            Command
<1>1. CASE UNCHANGED vars  BY <1>1 DEF vars
<1>2. CASE ChangeDomain  BY <1>2 DEF ChangeDomain
<1>3. ASSUME NEW path \in DOMAIN disk, ChangeCache(path) PROVE LintersCarryPins'
  BY <1>3 DEF ChangeCache, Taint, RemoveFile
<1>4. ASSUME NEW r \in Runs, Step(r) PROVE LintersCarryPins'
  <2>1. ASSUME NEW v \in Invocations, Begin(r, v) PROVE LintersCarryPins'
    BY <2>1 DEF Begin
  <2>2. CASE ReadFile(r)
    <3>1. /\ linters'[r] = <<>> /\ DOMAIN linters'[r] = {}
          /\ \A q \in Runs \ {r} : linters'[q] = linters[q] /\ doc'[q] = doc[q]
      BY <2>2, EmptyTuple DEF ReadFile, DocumentIsAccepted, Early
    <3> QED  BY <3>1
  <2>3. CASE FetchProfile(r)
    <3>1. /\ linters'[r] = <<>> /\ DOMAIN linters'[r] = {}
          /\ \A q \in Runs \ {r} : linters'[q] = linters[q] /\ doc'[q] = doc[q]
      BY <2>3, EmptyTuple DEF FetchProfile, DocumentIsAccepted, Early
    <3> QED  BY <3>1
  <2>4. CASE FetchKeys(r)  BY <2>4 DEF FetchKeys
  <2>5. CASE Accept(r)  BY <2>5 DEF Accept
  <2>6. CASE UseCached(r)  BY <2>6 DEF UseCached, Take
  <2>7. CASE StartFetch(r)  BY <2>7 DEF StartFetch
  <2>8. CASE Fetch(r)  BY <2>8 DEF Fetch, CreateTemp
  <2>9. CASE EndArtifacts(r)  BY <2>9 DEF EndArtifacts
  <2>10. CASE TranslatePlain(r)
    <3> DEFINE l == NextLinter(r)
    <3>1. l \in DOMAIN Body(r).linters
      BY <2>10, NextLinterIsNew DEF TranslatePlain
    <3>2. UNCHANGED doc /\ \E options : AddLinter(r, l, options)
      BY <2>10 DEF TranslatePlain
    <3> HIDE DEF l
    <3> QED  BY <3>1, <3>2 DEF AddLinter
  <2>11. CASE TranslateRule(r)
    <3> DEFINE l == NextLinter(r)
    <3>0. l \in DOMAIN Body(r).linters
      BY <2>11, RuleOutcome, NextLinterIsNew
    <3>1. /\ UNCHANGED doc
          /\ \/ UNCHANGED linters
             \/ \E options : AddLinter(r, l, options)
      BY <2>11, RuleOutcome
    <3> HIDE DEF l
    <3>2. CASE UNCHANGED <<doc, linters>>
      BY <3>2
    <3>3. ASSUME NEW options, UNCHANGED doc, AddLinter(r, l, options)
          PROVE  LintersCarryPins'
      BY <3>0, <3>3 DEF AddLinter
    <3> QED  BY <3>1, <3>2, <3>3
  <2>12. CASE InstallArtifact(r)  BY <2>12 DEF InstallArtifact, Install, Take
  <2>13. CASE InstallRule(r)
    <3> DEFINE l == NextLinter(r)
    <3>1. l \in DOMAIN Body(r).linters
      BY <2>13 DEF InstallRule, TempIsRule
    <3>2. UNCHANGED doc /\ \E options : AddLinter(r, l, options)
      BY <2>13 DEF InstallRule
    <3> HIDE DEF l
    <3> QED  BY <3>1, <3>2 DEF AddLinter
  <2>14. CASE FailInstall(r)  BY <2>14 DEF FailInstall, DropTemp
  <2>15. CASE Apply(r)  BY <2>15 DEF Apply
  <2>16. CASE Kill(r)
    <3>1. /\ linters'[r] = <<>> /\ DOMAIN linters'[r] = {}
          /\ \A q \in Runs \ {r} : linters'[q] = linters[q] /\ doc'[q] = doc[q]
      BY <2>16, EmptyTuple DEF Kill, DocumentIsAccepted, Early
    <3> QED  BY <3>1
  <2> QED  BY <1>4, <2>1, <2>2, <2>3, <2>4, <2>5, <2>6, <2>7, <2>8, <2>9,
              <2>10, <2>11, <2>12, <2>13, <2>14, <2>15, <2>16
           DEF Step
<1> QED  BY <1>1, <1>2, <1>3, <1>4 DEF Next, AllEnded

LEMMA StepTempIsRule ==
  ASSUME Functions_, DigestIsInjective, DiskFits, DocumentIsAccepted,
         GotIsVerified, LintersCarryPins, TempIsRule, [Next]_vars
  PROVE  TempIsRule'
<1> USE DEF Functions_, PCs, Ended, Goto, cacheVars, domainVars, runVars,
            TempIsRule, IsSpoilt, VerifiedProgram, LinterOf, Body, PathOf,
            Artifacts, NextLinter
<1>1. CASE UNCHANGED vars  BY <1>1 DEF vars
<1>2. CASE ChangeDomain  BY <1>2 DEF ChangeDomain
<1>3. ASSUME NEW path \in DOMAIN disk, ChangeCache(path) PROVE TempIsRule'
  BY <1>3 DEF ChangeCache, Taint, RemoveFile
<1>4. ASSUME NEW r \in Runs, Step(r) PROVE TempIsRule'
  <2>1. ASSUME NEW v \in Invocations, Begin(r, v) PROVE TempIsRule'
    BY <2>1 DEF Begin
  <2>2. CASE ReadFile(r)  BY <2>2 DEF ReadFile
  <2>3. CASE FetchProfile(r)  BY <2>3 DEF FetchProfile
  <2>4. CASE FetchKeys(r)  BY <2>4 DEF FetchKeys
  <2>5. CASE Accept(r)  BY <2>5 DEF Accept
  <2>6. CASE UseCached(r)  BY <2>6 DEF UseCached, Take
  <2>7. CASE StartFetch(r)  BY <2>7 DEF StartFetch
  <2>8. CASE Fetch(r)
    <3>1. /\ UNCHANGED <<doc, got, linters, tainted>>
          /\ DOMAIN got[r] # Artifacts(r)
          /\ \E file : temp' = [temp EXCEPT ![r] = file]
          /\ \E next : Goto(r, next)
      BY <2>8 DEF Fetch, CreateTemp, DocumentIsAccepted
    <3> QED  BY <3>1
  <2>9. CASE EndArtifacts(r)  BY <2>9 DEF EndArtifacts
  <2>10. CASE TranslatePlain(r)
    BY <2>10 DEF TranslatePlain, IsTranslating, AddLinter
  <2>11. CASE TranslateRule(r)
    <3> DEFINE l == NextLinter(r)
               program == ProgramOf(r, l)
    <3>1. l \in DOMAIN Body(r).linters \ DOMAIN linters[r]
      BY <2>11, RuleOutcome, NextLinterIsNew
    <3>2. Artifacts(r) = DOMAIN got[r]
      BY <2>11, RuleOutcome DEF IsTranslating, DocumentIsAccepted
    <3>3. CanCarry(r, l) => IsSpoilt(r, l) \/ program = VerifiedProgram(r, l)
      BY <3>2, ProgramIsVerified
    <3>4. /\ UNCHANGED <<doc, got, tainted>> /\ pc[r] = "linters"
          /\ \/ /\ CanCarry(r, l)
                /\ temp' = [temp EXCEPT ![r] = File(RulePath(program), program, FALSE)]
                /\ Goto(r, "install") /\ UNCHANGED linters
             \/ /\ UNCHANGED <<temp, linters>>
                /\ Goto(r, "unreadable") \/ Goto(r, "corrupt")
             \/ UNCHANGED <<temp, pc>> /\ AddLinter(r, l, <<RulePath(program)>>)
      BY <2>11, RuleOutcome DEF CreateTemp, IsTranslating
    <3> HIDE DEF program
    <3>5. CASE /\ CanCarry(r, l)
               /\ temp' = [temp EXCEPT ![r] = File(RulePath(program), program, FALSE)]
               /\ Goto(r, "install") /\ UNCHANGED linters
      BY <3>1, <3>3, <3>4, <3>5 DEF File
    <3>6. CASE /\ UNCHANGED <<temp, linters>>
               /\ Goto(r, "unreadable") \/ Goto(r, "corrupt")
      BY <3>4, <3>6
    <3>7. CASE UNCHANGED <<temp, pc>> /\ AddLinter(r, l, <<RulePath(program)>>)
      <4>1. \A q \in Runs \ {r} : linters'[q] = linters[q]
        BY <3>7 DEF AddLinter
      <4> QED  BY <3>4, <3>7, <4>1
    <3> QED  BY <3>4, <3>5, <3>6, <3>7
  <2>12. CASE InstallArtifact(r)  BY <2>12 DEF InstallArtifact, Install, Take
  <2>13. CASE InstallRule(r)  BY <2>13 DEF InstallRule, Install, AddLinter
  <2>14. CASE FailInstall(r)  BY <2>14 DEF FailInstall, DropTemp
  <2>15. CASE Apply(r)  BY <2>15 DEF Apply
  <2>16. CASE Kill(r)  BY <2>16 DEF Kill
  <2> QED  BY <1>4, <2>1, <2>2, <2>3, <2>4, <2>5, <2>6, <2>7, <2>8, <2>9,
              <2>10, <2>11, <2>12, <2>13, <2>14, <2>15, <2>16
           DEF Step
<1> QED  BY <1>1, <1>2, <1>3, <1>4 DEF Next, AllEnded

LEMMA StepRules ==
  ASSUME Functions_, DigestIsInjective, DiskFits, DocumentIsAccepted,
         GotIsVerified, TempIsRule, RulesAreVerified, [Next]_vars
  PROVE  RulesAreVerified'
<1> USE DEF Functions_, PCs, Ended, Goto, cacheVars, domainVars, runVars,
            RulesAreVerified, IsSpoilt, VerifiedProgram, LinterOf, Body,
            PathOf, Artifacts
<1>1. CASE UNCHANGED vars  BY <1>1 DEF vars
<1>2. CASE ChangeDomain  BY <1>2 DEF ChangeDomain
<1>3. ASSUME NEW path \in DOMAIN disk, ChangeCache(path) PROVE RulesAreVerified'
  BY <1>3 DEF ChangeCache, Taint, RemoveFile
<1>4. ASSUME NEW r \in Runs, Step(r) PROVE RulesAreVerified'
  <2>1. ASSUME NEW v \in Invocations, Begin(r, v) PROVE RulesAreVerified'
    BY <2>1 DEF Begin
  <2>2. CASE ReadFile(r)
    <3>1. /\ linters'[r] = <<>> /\ DOMAIN linters'[r] = {}
          /\ tainted \subseteq tainted'
          /\ DOMAIN disk \cup removed \subseteq DOMAIN disk' \cup removed'
          /\ \A q \in Runs \ {r} : /\ linters'[q] = linters[q]
                                   /\ doc'[q] = doc[q] /\ got'[q] = got[q]
      BY <2>2, EmptyTuple DEF ReadFile, DocumentIsAccepted, Early
    <3> QED  BY <3>1
  <2>3. CASE FetchProfile(r)
    <3>1. /\ linters'[r] = <<>> /\ DOMAIN linters'[r] = {}
          /\ tainted \subseteq tainted'
          /\ DOMAIN disk \cup removed \subseteq DOMAIN disk' \cup removed'
          /\ \A q \in Runs \ {r} : /\ linters'[q] = linters[q]
                                   /\ doc'[q] = doc[q] /\ got'[q] = got[q]
      BY <2>3, EmptyTuple DEF FetchProfile, DocumentIsAccepted, Early
    <3> QED  BY <3>1
  <2>4. CASE FetchKeys(r)  BY <2>4 DEF FetchKeys
  <2>5. CASE Accept(r)  BY <2>5 DEF Accept
  <2>6. CASE UseCached(r)
    <3>1. /\ linters'[r] = <<>> /\ DOMAIN linters'[r] = {}
          /\ UNCHANGED <<linters, doc, tainted, removed>>
          /\ DOMAIN disk \subseteq DOMAIN disk'
          /\ \A q \in Runs \ {r} : got'[q] = got[q]
      BY <2>6, EmptyTuple DEF UseCached, Take, DocumentIsAccepted
    <3> QED  BY <3>1
  <2>7. CASE StartFetch(r)  BY <2>7 DEF StartFetch
  <2>8. CASE Fetch(r)  BY <2>8 DEF Fetch, CreateTemp
  <2>9. CASE EndArtifacts(r)  BY <2>9 DEF EndArtifacts
  <2>10. CASE TranslatePlain(r)
    <3> DEFINE l == NextLinter(r)
    <3>1. /\ ~HasRule(LinterOf(r, l))
          /\ UNCHANGED <<doc, got, disk, removed, tainted>>
          /\ \E options : AddLinter(r, l, options)
      BY <2>10 DEF TranslatePlain
    <3> HIDE DEF l
    <3> QED  BY <3>1 DEF AddLinter
  <2>11. CASE TranslateRule(r)
    <3> DEFINE l == NextLinter(r)
               path == RulePath(ProgramOf(r, l))
    <3>1. Artifacts(r) = DOMAIN got[r]
      BY <2>11, RuleOutcome DEF IsTranslating, DocumentIsAccepted
    <3>2. CanCarry(r, l) => IsSpoilt(r, l) \/ path = RulePath(VerifiedProgram(r, l))
      BY <3>1, ProgramIsVerified
    <3>3. /\ UNCHANGED <<doc, got, disk, removed, tainted>>
          /\ \/ UNCHANGED linters
             \/ CanCarry(r, l) /\ path \in DOMAIN disk /\ AddLinter(r, l, <<path>>)
      BY <2>11, RuleOutcome DEF CreateTemp, IsCached
    <3> HIDE DEF l, path
    <3>4. CASE UNCHANGED linters
      BY <3>3, <3>4
    <3>5. CASE CanCarry(r, l) /\ path \in DOMAIN disk /\ AddLinter(r, l, <<path>>)
      BY <3>2, <3>3, <3>5 DEF AddLinter, Command
    <3> QED  BY <3>3, <3>4, <3>5
  <2>12. CASE InstallArtifact(r)
    <3>1. /\ linters'[r] = <<>> /\ DOMAIN linters'[r] = {}
          /\ UNCHANGED <<linters, doc, tainted, removed>>
          /\ DOMAIN disk \subseteq DOMAIN disk'
          /\ \A q \in Runs \ {r} : got'[q] = got[q]
      BY <2>12, EmptyTuple DEF InstallArtifact, Install, Put, Take, DocumentIsAccepted
    <3> QED  BY <3>1
  <2>13. CASE InstallRule(r)
    <3> DEFINE l == NextLinter(r)
    <3>1. IsSpoilt(r, l) \/ temp[r].path = RulePath(VerifiedProgram(r, l))
      BY <2>13 DEF InstallRule, TempIsRule
    <3>2. /\ UNCHANGED <<doc, got, removed, tainted>>
          /\ DOMAIN disk' = DOMAIN disk \cup {temp[r].path}
          /\ AddLinter(r, l, <<temp[r].path>>)
      BY <2>13 DEF InstallRule, Install, Put
    <3> HIDE DEF l
    <3> QED  BY <3>1, <3>2 DEF AddLinter, Command
  <2>14. CASE FailInstall(r)  BY <2>14 DEF FailInstall, DropTemp
  <2>15. CASE Apply(r)  BY <2>15 DEF Apply
  <2>16. CASE Kill(r)
    <3>1. /\ linters'[r] = <<>> /\ DOMAIN linters'[r] = {}
          /\ tainted \subseteq tainted'
          /\ DOMAIN disk \cup removed \subseteq DOMAIN disk' \cup removed'
          /\ \A q \in Runs \ {r} : /\ linters'[q] = linters[q]
                                   /\ doc'[q] = doc[q] /\ got'[q] = got[q]
      BY <2>16, EmptyTuple DEF Kill, DocumentIsAccepted, Early
    <3> QED  BY <3>1
  <2> QED  BY <1>4, <2>1, <2>2, <2>3, <2>4, <2>5, <2>6, <2>7, <2>8, <2>9,
              <2>10, <2>11, <2>12, <2>13, <2>14, <2>15, <2>16
           DEF Step
<1> QED  BY <1>1, <1>2, <1>3, <1>4 DEF Next, AllEnded

LEMMA StepErrors ==
  ASSUME Functions_, DigestIsInjective, DiskFits, DocumentIsAccepted,
         GotIsVerified, LintersCarryPins, CacheErrorsAreForeign, [Next]_vars
  PROVE  CacheErrorsAreForeign'
<1> USE DEF Functions_, PCs, Ended, Goto, cacheVars, domainVars, runVars,
            CacheErrorsAreForeign
<1>1. CASE UNCHANGED vars  BY <1>1 DEF vars
<1>2. CASE ChangeDomain  BY <1>2 DEF ChangeDomain
<1>3. ASSUME NEW path \in DOMAIN disk, ChangeCache(path) PROVE CacheErrorsAreForeign'
  BY <1>3 DEF ChangeCache, Taint, RemoveFile
<1>4. ASSUME NEW r \in Runs, Step(r) PROVE CacheErrorsAreForeign'
  <2>1. ASSUME NEW v \in Invocations, Begin(r, v) PROVE CacheErrorsAreForeign'
    BY <2>1 DEF Begin
  <2>2. CASE ReadFile(r)  BY <2>2 DEF ReadFile
  <2>3. CASE FetchProfile(r)  BY <2>3 DEF FetchProfile
  <2>4. CASE FetchKeys(r)  BY <2>4 DEF FetchKeys
  <2>5. CASE Accept(r)  BY <2>5 DEF Accept
  <2>6. CASE UseCached(r)
    <3> DEFINE n == NextArtifact(r)
    <3>1. /\ UNCHANGED <<tainted, removed>>
          /\ \/ UNCHANGED pc
             \/ /\ Goto(r, "corrupt") /\ PathOf(r, n) \in DOMAIN disk
                /\ ~Verifies(PinOf(Body(r), n), disk[PathOf(r, n)].text)
      BY <2>6 DEF UseCached, IsCached
    <3>2. /\ PathOf(r, n) \in DOMAIN disk
          /\ ~Verifies(PinOf(Body(r), n), disk[PathOf(r, n)].text)
          => PathOf(r, n) \in tainted
      BY DEF DiskFits, Fits, PathOf, ArtifactPath
    <3> HIDE DEF n
    <3> QED  BY <3>1, <3>2
  <2>7. CASE StartFetch(r)  BY <2>7 DEF StartFetch
  <2>8. CASE Fetch(r)  BY <2>8 DEF Fetch, CreateTemp
  <2>9. CASE EndArtifacts(r)  BY <2>9 DEF EndArtifacts
  <2>10. CASE TranslatePlain(r)
    BY <2>10 DEF TranslatePlain, IsTranslating, AddLinter
  <2>11. CASE TranslateRule(r)
    <3> DEFINE l == NextLinter(r)
               program == ProgramOf(r, l)
               path == RulePath(program)
    <3>1. ~CanCarry(r, l) => removed # {}
      <4>1. /\ l \in DOMAIN Body(r).linters /\ HasRule(Body(r).linters[l])
            /\ IsValid(Body(r)) /\ doc[r] \in Signed
            /\ Artifacts(r) = DOMAIN got[r]
        BY <2>11, RuleOutcome, NextLinterIsNew
        DEF IsTranslating, DocumentIsAccepted, Late, LinterOf
      <4>2. Body(r).linters[l].preludes \in Seq(Nat)
        BY <4>1, ProfileAssumption DEF Body
      <4>3. CarriedArtifacts(Body(r), LinterOf(r, l)) \subseteq Artifacts(r)
        BY <4>1, <4>2, CarriedAreArtifacts DEF LinterOf, Artifacts
      <4>4. \A n \in Artifacts(r) : PathOf(r, n) \in DOMAIN disk \cup removed
        BY <4>1 DEF GotIsVerified
      <4> QED  BY <4>3, <4>4 DEF CanCarry, IsCached
    <3>2. path \in DOMAIN disk \ tainted => disk[path].text = program
      BY DocumentAssumption DEF DiskFits, Fits, RulePath, DigestIsInjective
    <3>3. /\ UNCHANGED <<tainted, removed>>
          /\ \/ ~CanCarry(r, l) /\ Goto(r, "unreadable")
             \/ Goto(r, "install")
             \/ UNCHANGED pc
             \/ path \in DOMAIN disk /\ disk[path].text # program /\ Goto(r, "corrupt")
      BY <2>11, RuleOutcome DEF CreateTemp, IsCached
    <3> HIDE DEF path, program
    <3> QED  BY <3>1, <3>2, <3>3
  <2>12. CASE InstallArtifact(r)  BY <2>12 DEF InstallArtifact, Install, Take
  <2>13. CASE InstallRule(r)  BY <2>13 DEF InstallRule, Install, AddLinter
  <2>14. CASE FailInstall(r)  BY <2>14 DEF FailInstall, DropTemp
  <2>15. CASE Apply(r)  BY <2>15 DEF Apply
  <2>16. CASE Kill(r)  BY <2>16 DEF Kill
  <2> QED  BY <1>4, <2>1, <2>2, <2>3, <2>4, <2>5, <2>6, <2>7, <2>8, <2>9,
              <2>10, <2>11, <2>12, <2>13, <2>14, <2>15, <2>16
           DEF Step
<1> QED  BY <1>1, <1>2, <1>3, <1>4 DEF Next, AllEnded

-------------------------------------------------------------------------------
(* The theorems *)

LEMMA InitCache == Init => CacheInv
<1> SUFFICES ASSUME Init PROVE CacheInv
  OBVIOUS
<1> USE EmptyTuple, ProfileAssumption DEF Init, CacheInit
<1>1. TypeOK
  BY DEF TypeOK, PCs, NoFile
<1>2. Functions_
  BY DEF Functions_, PCs
<1>3. DiskFits /\ TempFits /\ KeysAreSince /\ WithdrawnKeyIsRefused
  BY DEF DiskFits, TempFits, KeysAreSince, WithdrawnKeyIsRefused, Uncalled
<1>4. DocumentIsAccepted
  BY DEF DocumentIsAccepted, Early, Late
<1>5. GotIsVerified
  BY DEF GotIsVerified
<1> QED  BY <1>1, <1>2, <1>3, <1>4, <1>5 DEF CacheInv

LEMMA InitRules == Init => RuleInv
  BY EmptyTuple
  DEF Init, RuleInv, LintersCarryPins, TempIsRule, RulesAreVerified,
      CacheErrorsAreForeign

LEMMA StepCache == CacheInv /\ [Next]_vars => CacheInv'
  BY StepTypeOK, StepFunctions, StepDiskFits, StepTempFits, StepKeys,
     StepWithdrawn, StepAccepted, StepGot
  DEF CacheInv

LEMMA StepRuleInv ==
  ASSUME DigestIsInjective
  PROVE  CacheInv /\ RuleInv /\ [Next]_vars => RuleInv'
  BY StepPins, StepTempIsRule, StepRules, StepErrors DEF CacheInv, RuleInv

\* The first part of the invariant, whatever the digests are worth: no step of a
\* run, of the domain or of somebody outside disturbs it.
THEOREM CacheInductive == Spec => []CacheInv
  BY InitCache, StepCache, PTL DEF Spec

\* All of it, where a digest has one text.
THEOREM Inductive ==
  ASSUME DigestIsInjective
  PROVE  Spec => []IInv
<1>1. Init => IInv
  BY InitCache, InitRules DEF IInv
<1>2. IInv /\ [Next]_vars => IInv'
  BY StepCache, StepRuleInv DEF IInv
<1> QED  BY <1>1, <1>2, PTL DEF Spec

\* The variables stay what they are meant to be.
THEOREM TypeCorrect == Spec => []TypeOK
<1>1. CacheInv => TypeOK
  BY DEF CacheInv
<1> QED  BY <1>1, CacheInductive, PTL

\* Whatever runs write to the cache at once and whichever are killed, a reader
\* finds complete files that match their names.
THEOREM CacheCorrect == Spec => []CacheHoldsPins
<1>1. CacheInv => CacheHoldsPins
  BY DEF CacheInv, DiskFits, Fits, CacheHoldsPins
<1> QED  BY <1>1, CacheInductive, PTL

\* A key that the domain withdrew before it served the profile opens nothing.
THEOREM KeysCorrect == Spec => []WithdrawnKeyIsRefused
<1>1. CacheInv => WithdrawnKeyIsRefused
  BY DEF CacheInv
<1> QED  BY <1>1, CacheInductive, PTL

\* A run is never the victim of another run: whoever finds the cache corrupt, or
\* an artifact gone that it has verified, owes it to somebody outside.
THEOREM ErrorsAreForeign ==
  ASSUME DigestIsInjective
  PROVE  Spec => []CacheErrorsAreForeign
<1>1. IInv => CacheErrorsAreForeign
  BY DEF IInv, RuleInv
<1> QED  BY <1>1, Inductive, PTL

\* What a run has taken matches its pins, and the rule files that its linters
\* are given hold the texts it has verified.
THEOREM RunsAreVerified ==
  ASSUME DigestIsInjective
  PROVE  Spec => []RunsWhatItPinned
<1>1. IInv => RunsWhatItPinned
  <2> SUFFICES ASSUME IInv, NEW r \in Runs, NEW l \in DOMAIN linters[r],
                      HasRule(LinterOf(r, l)), ~IsSpoilt(r, l),
                      linters[r][l].options[1] \notin tainted \cup removed
               PROVE  disk[linters[r][l].options[1]].text = VerifiedProgram(r, l)
    BY DEF RunsWhatItPinned, IsSpoilt, VerifiedProgram, IInv, CacheInv,
           GotIsVerified
  <2> DEFINE path == linters[r][l].options[1]
  <2>1. path \in DOMAIN disk \ tainted /\ path = RulePath(VerifiedProgram(r, l))
    BY DEF IInv, RuleInv, RulesAreVerified
  <2>2. Fits(path, disk[path].text)
    BY <2>1 DEF IInv, CacheInv, DiskFits
  <2>3. Digest("sha256", disk[path].text) = Digest("sha256", VerifiedProgram(r, l))
    BY <2>1, <2>2 DEF Fits, RulePath
  <2> QED  BY <2>3, DocumentAssumption DEF DigestIsInjective
<1> QED  BY <1>1, Inductive, PTL

\* Two runs that run the same text of a linter have verified the same artifacts.
THEOREM SameCommandsAgree ==
  ASSUME DigestIsInjective
  PROVE  Spec => []SameCommandSameBytes
<1>1. IInv => SameCommandSameBytes
  <2> SUFFICES ASSUME IInv, NEW r \in Runs, NEW q \in Runs,
                      pc[r] = "ready", pc[q] = "ready",
                      NEW l \in DOMAIN linters[r] \cap DOMAIN linters[q],
                      linters[r][l] = linters[q][l]
               PROVE  got[r] = got[q]
    BY DEF SameCommandSameBytes
  <2>1. Pins(r) = Pins(q)
    BY DEF IInv, RuleInv, LintersCarryPins
  <2>2. DOMAIN got[r] = Artifacts(r) /\ DOMAIN got[q] = Artifacts(q)
    BY DEF IInv, CacheInv, DocumentIsAccepted
  <2>3. /\ DOMAIN got[r] = DOMAIN got[q]
        /\ \A n \in DOMAIN got[r] : PinOf(Body(r), n) = PinOf(Body(q), n)
    BY <2>1, <2>2 DEF Pins
  <2>4. ASSUME NEW n \in DOMAIN got[r] PROVE got[r][n] = got[q][n]
    <3>1. /\ Verifies(PinOf(Body(r), n), got[r][n])
          /\ Verifies(PinOf(Body(r), n), got[q][n])
      BY <2>3 DEF IInv, CacheInv, GotIsVerified
    <3> QED  BY <3>1 DEF Verifies, DigestIsInjective
  <2>5. /\ got[r] = [n \in DOMAIN got[r] |-> got[r][n]]
        /\ got[q] = [n \in DOMAIN got[q] |-> got[q][n]]
    BY DEF IInv, CacheInv, GotIsVerified
  <2> QED  BY <2>3, <2>4, <2>5
<1> QED  BY <1>1, Inductive, PTL
===============================================================================
