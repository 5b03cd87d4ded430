-------------------------- MODULE CacheSession_proofs --------------------------
(***************************************************************************)
(* Proofs about CacheSession, for any files, configs, contents, checks and *)
(* faults.  The inductive invariant says what an entry of the cache stands *)
(* for after the fact: a file's entry for the style the file was left in,  *)
(* and the whole-tree entry for a tree, of which only its stamps are kept, *)
(* on which the check has passed.                                          *)
(***************************************************************************)
EXTENDS CacheSession, TLAPS

Trees_ == [Reads -> Texts \cup {"gone"}]

-------------------------------------------------------------------------------
(* The inductive invariant *)

\* Between runs no file is in hand; during a run there is no verdict yet.
Resting ==
    /\ pc = "idle" => \A f \in Files : fate[f] = "out"
    /\ pc # "idle" => exit = "none"

\* What is about to be recorded is in the style that it is recorded for.
FormattedIsStyled ==
    \A f \in Files :
        fate[f] = "formatted" =>
            /\ lane = "repair" /\ pc = "walk"
            /\ f \in Present \ unseen => content[f].style = config

\* t is a tree that the check behind an entry over the stamps K has seen, and the file
\* f is as it was in t unless its stamp tells.
Tallies(t, K, f) ==
    /\ \A size \in Sizes :
          f \in Present /\ <<f, <<mtime[f], size>>>> \in K => t[f] = content[f].text
    /\ (\A s \in Stamps : <<f, s>> \notin K) => t[f] = "gone"

EntryIsVouchedFor ==
    wholeTree # None =>
        \E d \in Configs, t \in Trees_ :
            /\ wholeTree[1] = CheckKey[d] /\ Passes(d, t)
            /\ \A f \in Reads \ unseen : Tallies(t, wholeTree[2], f)

\* What a check knows of the files that its walk has come by.
CheckKnows ==
    lane = "check" /\ pc # "idle" =>
        /\ pc \in {"walk", "finalize", "whole"}
        /\ pc # "walk" /\ ~cut => \A f \in Files : fate[f] # "todo"
        /\ pc = "whole" => ~cut
        /\ \A f \in Files :
              /\ fate[f] \in {"out", "todo", "passed", "found"}
              /\ fate[f] # "out" => f \in scope
              /\ f \in scope /\ fate[f] = "out" => f \notin Present \/ f \in touched \cap unseen
              /\ fate[f] \in {"passed", "found"} => stamps[f] \in Stamps
              /\ fate[f] \in {"passed", "found"} /\ f \notin touched =>
                    f \in Present /\ stamps[f] = Stamp(f)
              /\ fate[f] = "passed" /\ f \notin touched => content[f].style = config

\* What a run in repair mode knows of them.
RepairKnows ==
    lane = "repair" /\ pc # "idle" =>
        /\ pc \in {"repair", "walk"}
        /\ pc = "walk" =>
            \A f \in Files :
              /\ fate[f] \in {"out", "todo", "skipped", "accepted", "formatted", "recorded",
                              "failed"}
              /\ f \in scope /\ fate[f] = "out" => f \notin Present \/ f \in touched
              /\ fate[f] \in {"skipped", "recorded"} /\ f \in Present =>
                    \/ f \in touched \cup unseen
                    \/ content[f].style \in IF cached THEN SameFormatters(config) ELSE {config}

IInv ==
    /\ TypeOK /\ Resting
    /\ FormattedIsStyled /\ PathsAreSound /\ EntryIsVouchedFor
    /\ CheckKnows /\ RepairKnows
    /\ DoneIsFormatted /\ CleanIsClean

-------------------------------------------------------------------------------
(* Lemmas *)

\* A config is one of those with its key.
LEMMA SameAsItself ==
  ASSUME NEW c \in Configs
  PROVE  c \in SameFormatters(c) /\ c \in SameCheck(c)
  BY DEF SameFormatters, SameCheck

\* A signature is no empty entry, and is made of its parts.
LEMMA Signatures ==
    \A c, s : /\ None # <<c, s>>
              /\ <<c, s>>[1] = c /\ <<c, s>>[2] = s
  BY DEF None

\* The stamp of a file that is there.
LEMMA StampOfPresent ==
  ASSUME CacheTypeOK, NEW f \in Present
  PROVE  /\ f \in Files /\ content[f] \in Contents
         /\ content[f].size \in Sizes /\ mtime[f] \in Seconds
         /\ Stamp(f) \in Stamps /\ Stamp(f) = <<mtime[f], content[f].size>>
         /\ content[f].text \in Texts
  BY CacheAssumption DEF CacheTypeOK, Present, Stamp, Stamps

\* What a file says, whether it is there or not.
LEMMA TextOfFile ==
  ASSUME CacheTypeOK, NEW f \in Files
  PROVE  /\ content[f].text \in Texts \cup {"gone"}
         /\ f \notin Present => content[f].text = "gone"
  BY CacheAssumption DEF CacheTypeOK, Present, Gone

\* A write leaves the entries true of every file that it has not hidden from them.
LEMMA WriteKeepsEntries ==
  ASSUME CacheTypeOK, PathsAreSound, EntryIsVouchedFor,
         NEW f \in Files, NEW new \in Contents, NEW t \in Seconds, NEW behind \in BOOLEAN,
         Write(f, new, t, behind), UNCHANGED <<paths, wholeTree>>
  PROVE  PathsAreSound' /\ EntryIsVouchedFor'
<1>1. \A g \in Files : g # f => content'[g] = content[g] /\ mtime'[g] = mtime[g]
  BY DEF Write, CacheTypeOK
<1>2. content'[f] = new /\ mtime'[f] = t
  BY DEF Write, CacheTypeOK
<1>3. unseen \subseteq unseen' /\ (Held(f, t) => f \in unseen')
  BY DEF Write
<1>4. \A g \in Files : g # f => (g \in Present' <=> g \in Present)
  BY <1>1 DEF Present, Gone
<1>5. PathsAreSound'
  <2> SUFFICES ASSUME NEW g \in (Present \ unseen)', NEW c \in Configs,
                      paths[g] = FileSignature(c, Stamp(g)')
               PROVE  content'[g].style \in SameFormatters(c)
    BY DEF PathsAreSound, FileSignature
  <2>0. g \in Files
    BY DEF Present
  <2>1. CASE g = f
    <3>1. paths[f] = <<FormatterKey[c], <<t, new.size>>>>
      BY <1>2, <2>1 DEF FileSignature, Stamp
    <3>2. paths[f] # None /\ paths[f][2][1] = t
      BY <3>1, Signatures
    <3> QED
      BY <1>3, <2>1, <3>2 DEF Held
  <2>2. CASE g # f
    <3>1. Stamp(g)' = Stamp(g)
      BY <1>1, <2>0, <2>2 DEF Stamp
    <3> QED
      BY <1>1, <1>3, <1>4, <2>0, <2>2, <3>1 DEF PathsAreSound
  <2> QED
    BY <2>1, <2>2
<1>6. EntryIsVouchedFor'
  <2> SUFFICES ASSUME wholeTree # None
               PROVE  EntryIsVouchedFor'
    BY DEF EntryIsVouchedFor
  <2>1. PICK d \in Configs, u \in Trees_ :
          /\ wholeTree[1] = CheckKey[d] /\ Passes(d, u)
          /\ \A g \in Reads \ unseen : Tallies(u, wholeTree[2], g)
    BY DEF EntryIsVouchedFor
  <2>2. ASSUME NEW g \in Reads \ unseen'
        PROVE  Tallies(u, wholeTree[2], g)'
    <3>0. g \in Files /\ Tallies(u, wholeTree[2], g)
      BY <1>3, <2>1, WatchAssumption
    <3>1. CASE g = f
      <4>1. \A size \in Sizes : <<f, <<t, size>>>> \notin wholeTree[2]
        BY <1>3, <3>1 DEF Held
      <4> QED
        BY <1>2, <3>0, <3>1, <4>1 DEF Tallies
    <3>2. CASE g # f
      BY <1>1, <1>4, <3>0, <3>2 DEF Tallies
    <3> QED
      BY <3>1, <3>2
  <2> QED
    BY <2>1, <2>2 DEF EntryIsVouchedFor, Trees_
<1> QED
  BY <1>5, <1>6

\* Entries stay true as long as neither they nor the tree change, ...
LEMMA QuietKeepsEntries ==
  ASSUME PathsAreSound, EntryIsVouchedFor, UNCHANGED <<treeVars, paths, wholeTree>>
  PROVE  PathsAreSound' /\ EntryIsVouchedFor'
<1>1. PathsAreSound'
  BY DEF PathsAreSound, treeVars, diskVars, Present, Stamp, FileSignature
<1>2. EntryIsVouchedFor'
  BY DEF EntryIsVouchedFor, Tallies, treeVars, diskVars, Present, Trees_
<1> QED
  BY <1>1, <1>2

\* ... and an empty cache says nothing.
LEMMA OpenKeepsEntries ==
  ASSUME CacheTypeOK, PathsAreSound, EntryIsVouchedFor, NEW clear \in BOOLEAN,
         OpenCache(clear), UNCHANGED treeVars
  PROVE  CacheTypeOK' /\ PathsAreSound' /\ EntryIsVouchedFor'
<1>1. CASE ~clear
  <2>1. CacheTypeOK'
    BY <1>1 DEF OpenCache, cacheVars, treeVars, diskVars, CacheTypeOK
  <2> QED
    BY <1>1, <2>1, QuietKeepsEntries DEF OpenCache, cacheVars
<1>2. CASE clear
  <2>1. /\ paths' = [f \in Files |-> None] /\ wholeTree' = None /\ attested' = "none"
    BY <1>2 DEF OpenCache
  <2>2. CacheTypeOK'
    BY <2>1 DEF treeVars, diskVars, CacheTypeOK
  <2>3. PathsAreSound'
    BY <2>1, Signatures DEF PathsAreSound, Present, FileSignature
  <2>4. EntryIsVouchedFor'
    BY <2>1 DEF EntryIsVouchedFor
  <2> QED
    BY <2>2, <2>3, <2>4
<1> QED
  BY <1>1, <1>2

\* The tree and the clock stay in their domain when a file is written.
LEMMA WriteTyped ==
  ASSUME CacheTypeOK, NEW f \in Files, NEW new \in Contents, NEW t \in Seconds,
         NEW behind \in BOOLEAN, Write(f, new, t, behind), UNCHANGED cacheVars
  PROVE  CacheTypeOK'
  BY DEF Write, CacheTypeOK, cacheVars

-------------------------------------------------------------------------------
(* The initial states and the steps preserve the inductive invariant *)

LEMMA InitIInv == Init => IInv
<1> SUFFICES ASSUME Init
             PROVE  IInv
  OBVIOUS
<1> USE DEF Init, CacheInit
<1>1. TypeOK
  <2>1. content \in [Files -> Contents \cup {Gone}]
    BY SessionAssumption
  <2>2. 0 \in Seconds /\ 1 \in Seconds
    BY CacheAssumption DEF Seconds
  <2>3. runs \in 0 .. MaxRuns /\ edits \in 0 .. MaxEdits
    BY SessionAssumption
  <2> QED
    BY <2>1, <2>2, <2>3 DEF TypeOK, CacheTypeOK, RunTypeOK, PCs, Exits, Fates
<1>2. PathsAreSound
  BY Signatures DEF PathsAreSound, FileSignature, Present
<1>3. EntryIsVouchedFor
  BY DEF EntryIsVouchedFor
<1> QED
  BY <1>1, <1>2, <1>3 DEF IInv, Resting, FormattedIsStyled, CheckKnows, RepairKnows,
     DoneIsFormatted, CleanIsClean, SaysClean

\* A run begins.
LEMMA StartRunStep ==
  ASSUME IInv, StartRun
  PROVE  IInv'
<1>0. PICK c \in Configs, S \in Scopes, isCached \in BOOLEAN, clear \in BOOLEAN :
        \/ StartCheck(c, S, isCached, clear)
        \/ \E refuse \in BOOLEAN : StartRepair(c, S, isCached, clear, refuse)
  BY DEF StartRun
<1>1. /\ OpenCache(clear) /\ UNCHANGED treeVars
      /\ config' = c /\ scope' = S /\ cached' = isCached /\ pc = "idle"
      /\ touched' = {} /\ cut' = FALSE
  BY <1>0 DEF StartCheck, StartRepair, Begin
<1>2. CacheTypeOK' /\ PathsAreSound' /\ EntryIsVouchedFor'
  BY <1>1, OpenKeepsEntries DEF IInv, TypeOK
<1>3. runs' \in 0 .. MaxRuns /\ edits' \in 0 .. MaxEdits
  BY SessionAssumption DEF StartRun, IInv, TypeOK
<1>4. S \subseteq Files
  BY SessionAssumption
<1>5. CASE StartCheck(c, S, isCached, clear)
  <2>1. /\ lane' = "check" /\ pc' = "walk" /\ exit' = "none"
        /\ fate' = Listed(S) /\ stamps' = stamps
    BY <1>5 DEF StartCheck, Begin
  <2>2. TypeOK'
    BY <1>1, <1>2, <1>3, <1>4, <2>1
    DEF IInv, TypeOK, RunTypeOK, PCs, Exits, Fates, Listed
  <2>3. \A f \in Files : fate'[f] = IF f \in S THEN "todo" ELSE "out"
    BY <2>1 DEF Listed
  <2> QED
    BY <1>1, <1>2, <2>1, <2>2, <2>3
    DEF IInv, Resting, FormattedIsStyled, CheckKnows, RepairKnows, DoneIsFormatted,
        CleanIsClean, SaysClean
<1>6. CASE \E refuse \in BOOLEAN : StartRepair(c, S, isCached, clear, refuse)
  <2>1. /\ lane' = "repair" /\ NoFiles
        /\ \/ pc' = "idle" /\ exit' \in {"mismatch", "failed"}
           \/ pc' = "repair" /\ exit' = "none"
    BY <1>6 DEF StartRepair, Begin, Finish
  <2>2. TypeOK'
    BY <1>1, <1>2, <1>3, <1>4, <2>1
    DEF IInv, TypeOK, RunTypeOK, PCs, Exits, Fates, NoFiles
  <2>3. \A f \in Files : fate'[f] = "out"
    BY <2>1 DEF NoFiles
  <2> QED
    BY <1>1, <1>2, <2>1, <2>2, <2>3
    DEF IInv, Resting, FormattedIsStyled, CheckKnows, RepairKnows, DoneIsFormatted,
        CleanIsClean, SaysClean
<1> QED
  BY <1>0, <1>5, <1>6

\* A linter's repair has no file in hand, and leaves the entries true.
LEMMA LinterRepairsStep ==
  ASSUME IInv, NEW f \in Files, LinterRepairs(f), UNCHANGED counts
  PROVE  IInv'
<1>1. PICK new \in Contents, t \in Seconds : Write(f, new, t, FALSE)
  BY DEF LinterRepairs
<1>2. CacheTypeOK' /\ PathsAreSound' /\ EntryIsVouchedFor'
  BY <1>1, WriteTyped, WriteKeepsEntries DEF LinterRepairs, cacheVars, IInv, TypeOK
<1>3. TypeOK'
  BY <1>2 DEF LinterRepairs, Becomes, runVars, restVars, counts, IInv, TypeOK, RunTypeOK, Fates
<1>4. /\ lane' = "repair" /\ pc' = "repair" /\ exit' = "none"
      /\ \A g \in Files : fate'[g] # "formatted"
  BY DEF LinterRepairs, Becomes, runVars, restVars, IInv, Resting, FormattedIsStyled, TypeOK,
     RunTypeOK
<1> QED
  BY <1>2, <1>3, <1>4
  DEF IInv, Resting, FormattedIsStyled, CheckKnows, RepairKnows, DoneIsFormatted,
      CleanIsClean, SaysClean

LEMMA StartWalkStep ==
  ASSUME IInv, StartWalk, UNCHANGED counts
  PROVE  IInv'
<1>1. /\ lane' = "repair" /\ pc' = "walk" /\ exit' = "none" /\ scope' = scope
      /\ \A g \in Files : fate'[g] = IF g \in scope THEN "todo" ELSE "out"
  BY DEF StartWalk, Listed, runVars, IInv, Resting
<1>2. PathsAreSound' /\ EntryIsVouchedFor'
  BY QuietKeepsEntries DEF StartWalk, cacheVars, IInv
<1>3. TypeOK'
  BY DEF StartWalk, Listed, runVars, cacheVars, treeVars, diskVars, counts, IInv, TypeOK,
     RunTypeOK, CacheTypeOK, Fates, PCs
<1> QED
  BY <1>1, <1>2, <1>3
  DEF IInv, Resting, FormattedIsStyled, CheckKnows, RepairKnows, DoneIsFormatted,
      CleanIsClean, SaysClean

\* A file that is skipped is formatted: its entry matches, and is true.
LEMMA SubmitStep ==
  ASSUME IInv, NEW f \in Files, Submit(f), UNCHANGED counts
  PROVE  IInv'
<1>0. /\ lane = "repair" /\ pc = "walk" /\ exit = "none"
      /\ UNCHANGED <<treeVars, cacheVars, runVars, pc, exit, touched, cut, counts>>
  BY DEF Submit, IInv, Resting
<1>1. PathsAreSound' /\ EntryIsVouchedFor'
  BY <1>0, QuietKeepsEntries DEF cacheVars, IInv
<1>2. PICK what \in {"out", "skipped", "accepted"} :
        /\ fate' = [fate EXCEPT ![f] = what]
        /\ what = "out" => f \notin Present
        /\ what = "skipped" => f \in Present /\ cached /\ paths[f] = FileSignature(config, Stamp(f))
  BY DEF Submit, Becomes
<1>3. stamps' \in [Files -> Stamps \cup {NoStamp}]
  BY StampOfPresent DEF Submit, IInv, TypeOK, RunTypeOK
<1>4. TypeOK'
  BY <1>0, <1>2, <1>3
  DEF runVars, cacheVars, treeVars, diskVars, counts, IInv, TypeOK, RunTypeOK, CacheTypeOK, Fates
<1>5. what = "skipped" /\ f \notin unseen =>
        cached /\ content[f].style \in SameFormatters(config)
  BY <1>2 DEF IInv, PathsAreSound, TypeOK, RunTypeOK
<1>6. /\ fate'[f] = what
      /\ \A g \in Files : g # f => fate'[g] = fate[g]
  BY <1>2 DEF IInv, TypeOK, RunTypeOK
<1>7. FormattedIsStyled'
  BY <1>0, <1>6
  DEF IInv, FormattedIsStyled, Present, treeVars, diskVars, runVars
<1>8. RepairKnows'
  BY <1>0, <1>2, <1>5, <1>6
  DEF IInv, RepairKnows, Present, treeVars, diskVars, runVars
<1> QED
  BY <1>0, <1>1, <1>4, <1>7, <1>8
  DEF IInv, Resting, CheckKnows, DoneIsFormatted, CleanIsClean, SaysClean, runVars

LEMMA FormatStep ==
  ASSUME IInv, NEW f \in Files, Format(f), UNCHANGED counts
  PROVE  IInv'
<1>0. /\ lane = "repair" /\ pc = "walk" /\ exit = "none" /\ fate[f] = "accepted"
      /\ UNCHANGED <<cacheVars, runVars, restVars, counts>>
  BY DEF Format, IInv, Resting
<1>1. PICK what \in {"formatted", "failed"} :
        /\ fate' = [fate EXCEPT ![f] = what]
        /\ what = "formatted" => f \in Present
        /\ \/ UNCHANGED treeVars /\ (what = "formatted" => content[f].style = config)
           \/ \E new \in Contents, t \in Seconds :
                /\ Write(f, new, t, FALSE)
                /\ what = "formatted" => new.style = config
  BY DEF Format, Rewrite, Becomes
<1>2. /\ fate'[f] = what
      /\ \A g \in Files : g # f => fate'[g] = fate[g]
  BY <1>1 DEF IInv, TypeOK, RunTypeOK
<1> DEFINE Left ==
             /\ CacheTypeOK' /\ PathsAreSound' /\ EntryIsVouchedFor'
             /\ unseen \subseteq unseen'
             /\ \A g \in Files : g # f => content'[g] = content[g]
             /\ what = "formatted" => content'[f].style = config
<1>3. Left
  <2>1. CASE UNCHANGED treeVars /\ (what = "formatted" => content[f].style = config)
    <3>1. CacheTypeOK'
      BY <1>0, <2>1 DEF treeVars, diskVars, cacheVars, IInv, TypeOK, CacheTypeOK
    <3> QED
      BY <1>0, <2>1, <3>1, QuietKeepsEntries DEF cacheVars, treeVars, diskVars, IInv
  <2>2. ASSUME NEW new \in Contents, NEW t \in Seconds, Write(f, new, t, FALSE),
               what = "formatted" => new.style = config
        PROVE  Left
    <3>1. CacheTypeOK' /\ PathsAreSound' /\ EntryIsVouchedFor'
      BY <1>0, <2>2, WriteTyped, WriteKeepsEntries DEF cacheVars, IInv, TypeOK
    <3> QED
      BY <2>2, <3>1 DEF Write, IInv, TypeOK, CacheTypeOK
  <2> QED
    BY <1>1, <2>1, <2>2
<1>4. TypeOK'
  BY <1>0, <1>1, <1>3 DEF runVars, restVars, counts, IInv, TypeOK, RunTypeOK, Fates
<1>5. FormattedIsStyled'
  BY <1>0, <1>2, <1>3 DEF IInv, FormattedIsStyled, Present, runVars, restVars
<1>6. RepairKnows'
  BY <1>0, <1>2, <1>3 DEF IInv, RepairKnows, Present, runVars, restVars
<1> QED
  BY <1>0, <1>3, <1>4, <1>5, <1>6
  DEF IInv, Resting, CheckKnows, DoneIsFormatted, CleanIsClean, SaysClean, runVars, restVars

\* What is recorded is what the file was formatted to, unless it was edited before the
\* job could stat it.
LEMMA RecordStep ==
  ASSUME IInv, NEW f \in Files, Record(f), UNCHANGED counts
  PROVE  IInv'
<1>0. /\ lane = "repair" /\ pc = "walk" /\ exit = "none" /\ fate[f] = "formatted"
      /\ UNCHANGED <<treeVars, wholeTree, attested, runVars, restVars, counts>>
  BY DEF Record, IInv, Resting
<1>1. PICK what \in {"recorded", "failed"} :
        /\ fate' = [fate EXCEPT ![f] = what]
        /\ \/ UNCHANGED paths
           \/ /\ what = "recorded" /\ f \in Present
              /\ paths' = [paths EXCEPT ![f] = FileSignature(config, Stamp(f))]
  BY DEF Record, Becomes, Remember
<1>2. /\ fate'[f] = what
      /\ \A g \in Files : g # f => fate'[g] = fate[g]
  BY <1>1 DEF IInv, TypeOK, RunTypeOK
<1>3. /\ f \in Present \ unseen => content[f].style = config
      /\ config \in SameFormatters(config)
  BY <1>0, SameAsItself DEF IInv, FormattedIsStyled, TypeOK, RunTypeOK
<1>4. EntryIsVouchedFor'
  BY <1>0 DEF IInv, EntryIsVouchedFor, Tallies, treeVars, diskVars, Present, Trees_
<1>5. PathsAreSound' /\ paths' \in [Files -> FileSignatures \cup {None}]
  <2>1. CASE UNCHANGED paths
    BY <1>0, <2>1, QuietKeepsEntries DEF IInv, TypeOK, CacheTypeOK
  <2>2. CASE f \in Present /\ paths' = [paths EXCEPT ![f] = FileSignature(config, Stamp(f))]
    <3>1. Stamp(f) \in Stamps /\ config \in Configs
      BY <2>2, StampOfPresent DEF IInv, TypeOK, RunTypeOK
    <3>2. /\ paths'[f] = <<FormatterKey[config], Stamp(f)>>
          /\ \A g \in Files : g # f => paths'[g] = paths[g]
      BY <2>2 DEF FileSignature, IInv, TypeOK, CacheTypeOK
    <3>3. paths' \in [Files -> FileSignatures \cup {None}]
      BY <2>2, <3>1 DEF FileSignature, FileSignatures, IInv, TypeOK, CacheTypeOK
    <3>4. ASSUME NEW g \in Present \ unseen, NEW c \in Configs,
                 paths'[g] = FileSignature(c, Stamp(g))
          PROVE  content[g].style \in SameFormatters(c)
      <4>1. CASE g = f
        <5>1. FormatterKey[config] = FormatterKey[c]
          BY <3>2, <3>4, <4>1, Signatures DEF FileSignature
        <5> QED
          BY <1>3, <3>1, <3>4, <4>1, <5>1 DEF SameFormatters
      <4>2. CASE g # f
        BY <3>2, <3>4, <4>2 DEF IInv, PathsAreSound, Present
      <4> QED
        BY <4>1, <4>2
    <3> QED
      BY <1>0, <3>3, <3>4 DEF PathsAreSound, treeVars, diskVars, Present, Stamp, FileSignature
  <2> QED
    BY <1>1, <2>1, <2>2
<1>6. TypeOK'
  BY <1>0, <1>1, <1>5
  DEF runVars, restVars, treeVars, diskVars, counts, IInv, TypeOK, RunTypeOK, CacheTypeOK, Fates
<1>7. FormattedIsStyled'
  BY <1>0, <1>2 DEF IInv, FormattedIsStyled, Present, treeVars, diskVars, runVars, restVars
<1>8. RepairKnows'
  BY <1>0, <1>2, <1>3 DEF IInv, RepairKnows, Present, treeVars, diskVars, runVars, restVars
<1> QED
  BY <1>0, <1>4, <1>5, <1>6, <1>7, <1>8
  DEF IInv, Resting, CheckKnows, DoneIsFormatted, CleanIsClean, SaysClean, runVars, restVars

\* A run that ends well has skipped or recorded every file that it was given.
LEMMA EndRepairStep ==
  ASSUME IInv, EndRepair, UNCHANGED counts
  PROVE  IInv'
<1>0. /\ lane = "repair" /\ pc = "walk"
      /\ UNCHANGED <<treeVars, paths, wholeTree, runVars, touched, counts>>
      /\ pc' = "idle" /\ exit' \in {"done", "failed"} /\ NoFiles
      /\ attested' \in {attested, config}
  BY DEF EndRepair, Finish
<1>1. PathsAreSound' /\ EntryIsVouchedFor'
  BY <1>0, QuietKeepsEntries DEF IInv
<1>2. \A f \in Files : fate'[f] = "out"
  BY <1>0 DEF NoFiles
<1>3. TypeOK'
  <2>1. cut' \in BOOLEAN
    BY DEF EndRepair
  <2> QED
    BY <1>0, <2>1 DEF NoFiles, runVars, treeVars, diskVars, counts, IInv, TypeOK, RunTypeOK,
       CacheTypeOK, Fates, PCs, Exits
<1>4. DoneIsFormatted'
  <2> SUFFICES ASSUME exit' = "done", ~cut',
                      NEW f \in (scope \cap Present) \ (touched \cup unseen)
               PROVE  content[f].style \in IF cached THEN SameFormatters(config) ELSE {config}
    BY <1>0 DEF DoneIsFormatted, treeVars, diskVars, runVars, Present
  <2>1. \A g \in Files : fate[g] \notin {"accepted", "formatted", "todo", "failed"}
    BY DEF EndRepair, Finish, Having
  <2>2. f \in Files
    BY DEF Present
  <2> QED
    BY <1>0, <2>1, <2>2 DEF IInv, RepairKnows
<1> QED
  BY <1>0, <1>1, <1>2, <1>3, <1>4
  DEF IInv, Resting, FormattedIsStyled, CheckKnows, RepairKnows,
      CleanIsClean, SaysClean, runVars

\* The walk of a check comes by a file, or finds that it is not there.
LEMMA ExamineStep ==
  ASSUME IInv, NEW f \in Files, Examine(f), UNCHANGED counts
  PROVE  IInv'
<1>0. /\ lane = "check" /\ pc = "walk" /\ exit = "none" /\ fate[f] = "todo"
      /\ UNCHANGED <<treeVars, cacheVars, runVars, pc, exit, touched, cut, counts>>
  BY DEF Examine, IInv, Resting
<1>1. PathsAreSound' /\ EntryIsVouchedFor'
  BY <1>0, QuietKeepsEntries DEF cacheVars, IInv
<1>2. PICK what \in {"out", "passed", "found"} :
        /\ fate' = [fate EXCEPT ![f] = what]
        /\ IF what = "out" THEN f \notin Present /\ stamps' = stamps
           ELSE f \in Present /\ stamps' = [stamps EXCEPT ![f] = Stamp(f)]
        /\ what = "passed" => content[f].style = config
  BY DEF Examine, Becomes
<1>3. f \in Present => Stamp(f) \in Stamps
  BY StampOfPresent DEF IInv, TypeOK
<1>4. stamps' \in [Files -> Stamps \cup {NoStamp}]
  BY <1>2, <1>3 DEF IInv, TypeOK, RunTypeOK
<1>5. TypeOK'
  BY <1>0, <1>2, <1>4
  DEF runVars, cacheVars, treeVars, diskVars, counts, IInv, TypeOK, RunTypeOK, CacheTypeOK, Fates
<1>6. /\ fate'[f] = what /\ (what # "out" => stamps'[f] = Stamp(f))
      /\ \A g \in Files : g # f => fate'[g] = fate[g] /\ stamps'[g] = stamps[g]
  BY <1>2 DEF IInv, TypeOK, RunTypeOK
<1>7. FormattedIsStyled'
  BY <1>0, <1>6 DEF IInv, FormattedIsStyled
<1>8. CheckKnows'
  BY <1>0, <1>2, <1>3, <1>6
  DEF IInv, CheckKnows, Present, Stamp, treeVars, diskVars, runVars
<1> QED
  BY <1>0, <1>1, <1>5, <1>7, <1>8
  DEF IInv, Resting, RepairKnows, DoneIsFormatted, CleanIsClean, SaysClean, runVars

LEMMA EndWalkStep ==
  ASSUME IInv, EndWalk, UNCHANGED counts
  PROVE  IInv'
<1>0. /\ lane = "check" /\ pc = "walk" /\ exit = "none" /\ pc' = "finalize"
      /\ cut' = (Having({"todo"}) # {})
      /\ UNCHANGED <<treeVars, cacheVars, runVars, exit, fileVars, touched, counts>>
  BY DEF EndWalk, IInv, Resting
<1>1. PathsAreSound' /\ EntryIsVouchedFor'
  BY <1>0, QuietKeepsEntries DEF cacheVars, IInv
<1>2. TypeOK'
  BY <1>0 DEF runVars, fileVars, cacheVars, treeVars, diskVars, counts, IInv, TypeOK, RunTypeOK,
     CacheTypeOK, PCs
<1>3. CheckKnows'
  BY <1>0 DEF IInv, CheckKnows, Having, Present, Stamp, treeVars, diskVars, runVars, fileVars
<1> QED
  BY <1>0, <1>1, <1>2, <1>3
  DEF IInv, Resting, FormattedIsStyled, RepairKnows, DoneIsFormatted,
      CleanIsClean, SaysClean, runVars,
      fileVars

LEMMA StartWholeStep ==
  ASSUME IInv, StartWhole, UNCHANGED counts, pc' = "whole"
  PROVE  IInv'
<1>0. /\ lane = "check" /\ pc = "finalize" /\ exit = "none" /\ ~cut
      /\ UNCHANGED <<treeVars, cacheVars, runVars, exit, fileVars, touched, cut, counts>>
  BY DEF StartWhole, Finish, IInv, Resting
<1>1. PathsAreSound' /\ EntryIsVouchedFor'
  BY <1>0, QuietKeepsEntries DEF cacheVars, IInv
<1>2. TypeOK'
  BY <1>0 DEF runVars, fileVars, cacheVars, treeVars, diskVars, counts, IInv, TypeOK, RunTypeOK,
     CacheTypeOK, PCs
<1>3. CheckKnows'
  BY <1>0 DEF IInv, CheckKnows, Present, Stamp, treeVars, diskVars, runVars, fileVars
<1> QED
  BY <1>0, <1>1, <1>2, <1>3
  DEF IInv, Resting, FormattedIsStyled, RepairKnows, DoneIsFormatted,
      CleanIsClean, SaysClean, runVars,
      fileVars

\* A run that ends without a verdict leaves nothing to claim.
LEMMA FinishStep ==
  ASSUME IInv, NEW how \in {"failed", "killed"}, Finish(how),
         UNCHANGED <<treeVars, cacheVars, runVars, touched, cut, counts>>
  PROVE  IInv'
<1>1. PathsAreSound' /\ EntryIsVouchedFor'
  BY QuietKeepsEntries DEF cacheVars, IInv
<1>2. \A f \in Files : fate'[f] = "out"
  BY DEF Finish, NoFiles
<1>3. TypeOK'
  BY DEF Finish, NoFiles, runVars, cacheVars, treeVars, diskVars, counts, IInv, TypeOK, RunTypeOK,
     CacheTypeOK, PCs, Exits, Fates
<1> QED
  BY <1>1, <1>2, <1>3
  DEF Finish, IInv, Resting, FormattedIsStyled, CheckKnows, RepairKnows, DoneIsFormatted,
      CleanIsClean, SaysClean

-------------------------------------------------------------------------------
(* The whole-tree check *)

\* An entry that matches every file there is to watch is about this very tree.
LEMMA VouchedIsSound ==
  ASSUME CacheTypeOK, EntryIsVouchedFor
  PROVE  WholeTreeIsSound
<1> SUFFICES ASSUME NEW c \in Configs,
                    wholeTree = TreeSignature(c, [f \in Files |-> Stamp(f)], Watched \cap Present),
                    Reads \cap unseen = {}
             PROVE  \E d \in SameCheck(c) : InOrder(d)
  BY DEF WholeTreeIsSound
<1> DEFINE K == {<<f, Stamp(f)>> : f \in Watched \cap Present}
<1>1. wholeTree = <<CheckKey[c], K>>
  BY WatchAssumption DEF TreeSignature
<1>2. wholeTree # None /\ wholeTree[1] = CheckKey[c] /\ wholeTree[2] = K
  BY <1>1, Signatures
<1>3. PICK d \in Configs, t \in Trees_ :
        /\ CheckKey[d] = CheckKey[c] /\ Passes(d, t)
        /\ \A f \in Reads \ unseen : Tallies(t, K, f)
  BY <1>2 DEF EntryIsVouchedFor
<1>4. ASSUME NEW f \in Reads
      PROVE  t[f] = content[f].text
  <2>1. f \in Files /\ f \in Watched /\ Tallies(t, K, f)
    BY <1>3, WatchAssumption
  <2>2. CASE f \in Present
    <3>1. content[f].size \in Sizes /\ Stamp(f) = <<mtime[f], content[f].size>>
      BY <2>2, StampOfPresent
    <3>2. <<f, Stamp(f)>> \in K
      BY <2>1, <2>2
    <3> QED
      BY <2>1, <2>2, <3>1, <3>2 DEF Tallies
  <2>3. CASE f \notin Present
    <3>1. \A s \in Stamps : <<f, s>> \notin K
      BY <2>3
    <3> QED
      BY <2>1, <2>3, <3>1, TextOfFile DEF Tallies
  <2> QED
    BY <2>2, <2>3
<1>5. t = [f \in Reads |-> content[f].text]
  BY <1>4 DEF Trees_
<1> QED
  BY <1>3, <1>5 DEF InOrder, SameCheck

\* When nothing was edited meanwhile, a walk that is over has matched what there is to
\* watch, as it is.
LEMMA MatchedIsWatched ==
  ASSUME IInv, lane = "check", pc \in {"finalize", "whole"}, ~cut, touched = {},
         Watched \subseteq scope
  PROVE  /\ Matched = Watched \cap Present
         /\ Key = TreeSignature(config, [f \in Files |-> Stamp(f)], Watched \cap Present)
<1>1. \A f \in Files : fate[f] \in {"out", "passed", "found"}
  BY DEF IInv, CheckKnows
<1>2. \A f \in Files : fate[f] \in {"passed", "found"} => f \in Present /\ stamps[f] = Stamp(f)
  BY DEF IInv, CheckKnows
<1>3. \A f \in scope : f \in Files /\ (fate[f] = "out" => f \notin Present)
  BY DEF IInv, CheckKnows, TypeOK, RunTypeOK
<1>4. Matched = Watched \cap Present
  BY <1>1, <1>2, <1>3, WatchAssumption DEF Matched, Having, Present
<1>5. \A f \in Watched \cap Present : f \in Files /\ stamps[f] = Stamp(f)
  BY <1>2, <1>4, WatchAssumption DEF Matched, Having
<1> QED
  BY <1>4, <1>5 DEF Key, TreeSignature

\* A check that says "clean" is right, if it is right about the whole tree.
LEMMA VerdictStep ==
  ASSUME IInv, lane = "check", pc \in {"finalize", "whole"}, NEW found \in BOOLEAN, Verdict(found),
         UNCHANGED <<diskVars, runVars, touched, cut, counts>>, unseen \subseteq unseen',
         CacheTypeOK', PathsAreSound', EntryIsVouchedFor',
         ~found /\ ~cut /\ touched = {} /\ SawAllWatched
         => \E d \in IF cached THEN SameCheck(config) ELSE {config} : InOrder(d)
  PROVE  IInv'
<1>1. /\ pc' = "idle" /\ NoFiles /\ exit' \in {"clean", "findings"}
      /\ exit' = "clean" => ~found /\ Having({"found"}) = {}
  BY DEF Verdict, Finish
<1>2. \A f \in Files : fate'[f] = "out"
  BY <1>1 DEF NoFiles
<1>3. TypeOK'
  BY <1>1 DEF NoFiles, runVars, counts, IInv, TypeOK, RunTypeOK, PCs, Exits, Fates
<1>4. CleanIsClean'
  <2> SUFFICES ASSUME exit' = "clean", ~cut, touched = {}
               PROVE  /\ \A f \in scope \cap Present : content[f].style = config
                      /\ SawAllWatched' =>
                           \E d \in IF cached THEN SameCheck(config) ELSE {config} : InOrder(d)
    BY DEF CleanIsClean, SaysClean, Present, InOrder, diskVars, runVars
  <2>1. ASSUME NEW f \in scope \cap Present
        PROVE  content[f].style = config
    <3>1. f \in Files /\ fate[f] \notin {"out", "todo", "found"}
      BY <1>1, <2>1 DEF Having, IInv, CheckKnows, Present
    <3> QED
      BY <3>1 DEF IInv, CheckKnows
  <2>2. SawAllWatched' => SawAllWatched
    BY DEF SawAllWatched, Present, diskVars, runVars
  <2> QED
    BY <1>1, <2>1, <2>2
<1> QED
  BY <1>1, <1>2, <1>3, <1>4
  DEF IInv, Resting, FormattedIsStyled, CheckKnows, RepairKnows, DoneIsFormatted, runVars

\* The check is skipped: nothing matches, or the entry is about this tree.
LEMMA SkipWholeStep ==
  ASSUME IInv, SkipWhole, UNCHANGED counts
  PROVE  IInv'
<1>1. PathsAreSound' /\ EntryIsVouchedFor'
  BY QuietKeepsEntries DEF SkipWhole, cacheVars, IInv
<1>2. CacheTypeOK'
  BY DEF SkipWhole, treeVars, diskVars, cacheVars, IInv, TypeOK, CacheTypeOK
<1>3. ASSUME ~cut, touched = {}, SawAllWatched
      PROVE  cached /\ \E d \in SameCheck(config) : InOrder(d)
  <2>1. /\ cached
        /\ wholeTree = TreeSignature(config, [f \in Files |-> Stamp(f)], Watched \cap Present)
    BY <1>3, MatchedIsWatched DEF SkipWhole, IsHit, SawAllWatched
  <2> QED
    BY <1>3, <2>1, VouchedIsSound DEF WholeTreeIsSound, SawAllWatched, IInv, TypeOK, RunTypeOK
<1> QED
  BY <1>1, <1>2, <1>3, VerdictStep DEF SkipWhole, treeVars

\* The check runs: what it is remembered by is made of the stamps of the walk, and
\* yet an entry for the tree that it has read.
LEMMA RunWholeStep ==
  ASSUME IInv, RunWhole, UNCHANGED counts
  PROVE  IInv'
<1>0. /\ lane = "check" /\ pc = "whole" /\ ~cut
      /\ Verdict(~InOrder(config))
      /\ UNCHANGED <<diskVars, paths, attested, runVars, touched, cut, counts>>
      /\ unseen \subseteq unseen'
      /\ InOrder(config) => \E d \in IF cached THEN SameCheck(config) ELSE {config} : InOrder(d)
  BY SameAsItself DEF RunWhole, Store, IInv, CheckKnows, TypeOK, RunTypeOK
<1>1. PathsAreSound'
  BY <1>0 DEF IInv, PathsAreSound, diskVars, Present, Stamp, FileSignature
<1>2. CASE UNCHANGED <<wholeTree, unseen>>
  <2>1. CacheTypeOK'
    BY <1>0, <1>2 DEF diskVars, IInv, TypeOK, CacheTypeOK
  <2>2. EntryIsVouchedFor'
    BY <1>0, <1>2, QuietKeepsEntries DEF treeVars, IInv
  <2> QED
    BY <1>0, <1>1, <2>1, <2>2, VerdictStep
<1>3. CASE Store /\ InOrder(config)
  <2>0. PICK K : K = {<<f, stamps[f]>> : f \in Matched}
    OBVIOUS
  <2>1. wholeTree' = <<CheckKey[config], K>> /\ unseen' = unseen \cup (Watched \ scope)
    BY <1>3, <2>0 DEF Store, Key, TreeSignature
  <2>2. \A f \in Matched : f \in Files /\ stamps[f] \in Stamps
    BY <1>0 DEF Matched, Having, IInv, CheckKnows
  <2>3. CacheTypeOK'
    <3>1. K \in SUBSET (Files \X Stamps)
      BY <2>0, <2>2
    <3>2. wholeTree' \in TreeSignatures
      BY <2>1, <3>1 DEF TreeSignatures, IInv, TypeOK, RunTypeOK
    <3> QED
      BY <1>0, <2>1, <3>2, WatchAssumption DEF diskVars, IInv, TypeOK, CacheTypeOK
  <2>4. EntryIsVouchedFor'
    <3>1. PICK t \in Trees_ : t = [f \in Reads |-> content[f].text]
      BY WatchAssumption, TextOfFile DEF Trees_, IInv, TypeOK
    <3>2. ASSUME NEW f \in Reads \ unseen'
          PROVE  Tallies(t, K, f)'
      <4>1. f \in Files /\ f \in Watched \cap scope /\ f \notin unseen
        BY <2>1, WatchAssumption
      <4>2. CASE f \in Matched
        <5>1. <<f, stamps[f]>> \in K /\ stamps[f] \in Stamps
          BY <2>0, <2>2, <4>2
        <5> QED
          BY <1>0, <3>1, <5>1 DEF Tallies, diskVars
      <4>3. CASE f \notin Matched
        <5>1. f \notin Present
          BY <1>0, <4>1, <4>3 DEF Matched, Having, IInv, CheckKnows
        <5>2. content[f].text = "gone"
          BY <4>1, <5>1, TextOfFile DEF IInv, TypeOK
        <5> QED
          BY <1>0, <3>1, <5>1, <5>2 DEF Tallies, diskVars, Present
      <4> QED
        BY <4>2, <4>3
    <3>3. Passes(config, t)
      BY <1>3, <3>1 DEF InOrder
    <3>4. wholeTree'[1] = CheckKey[config] /\ wholeTree'[2] = K /\ config \in Configs
      BY <2>1, Signatures DEF IInv, TypeOK, RunTypeOK
    <3> QED
      BY <3>1, <3>2, <3>3, <3>4 DEF EntryIsVouchedFor, Trees_
  <2> QED
    BY <1>0, <1>1, <1>3, <2>3, <2>4, VerdictStep
<1> QED
  BY <1>2, <1>3 DEF RunWhole

-------------------------------------------------------------------------------
(* The user, and every step *)

\* An edit hides behind the cache only where IsUnwatched says so, and then it counts
\* as missed.
LEMMA UserEditsStep ==
  ASSUME IInv, NEW f \in Files, UserEdits(f)
  PROVE  IInv'
<1>0. /\ touched' = touched \cup {f} /\ edits' = edits + 1 /\ edits < MaxEdits
      /\ UNCHANGED <<cacheVars, runVars, pc, exit, fileVars, cut, runs>>
  BY DEF UserEdits
<1> DEFINE Left ==
             /\ CacheTypeOK' /\ PathsAreSound' /\ EntryIsVouchedFor'
             /\ unseen \subseteq unseen'
             /\ \A g \in Files : g # f => content'[g] = content[g] /\ mtime'[g] = mtime[g]
             /\ f \in Present' /\ IsUnwatched(f) => f \in unseen'
<1>1. Left
  <2>1. ASSUME NEW new \in Contents, NEW t \in Seconds, Write(f, new, t, IsUnwatched(f))
        PROVE  Left
    <3>1. IsUnwatched(f) \in BOOLEAN
      BY DEF IsUnwatched
    <3>2. CacheTypeOK' /\ PathsAreSound' /\ EntryIsVouchedFor'
      BY <1>0, <2>1, <3>1, WriteTyped, WriteKeepsEntries DEF cacheVars, IInv, TypeOK
    <3> QED
      BY <2>1, <3>2 DEF Write, IInv, TypeOK, CacheTypeOK
  <2>2. ASSUME content' = [content EXCEPT ![f] = Gone], UNCHANGED <<mtime, now, unseen>>
        PROVE  Left
    <3>1. CacheTypeOK'
      BY <1>0, <2>2 DEF cacheVars, IInv, TypeOK, CacheTypeOK
    <3>2. \A g \in Files : content'[g] = IF g = f THEN Gone ELSE content[g]
      BY <2>2 DEF IInv, TypeOK, CacheTypeOK
    <3>3. \A g \in Present' : g \in Present /\ content'[g] = content[g]
      BY <3>2 DEF Present
    <3>4. PathsAreSound'
      BY <1>0, <2>2, <3>3 DEF cacheVars, IInv, PathsAreSound, Stamp, FileSignature
    <3>5. EntryIsVouchedFor'
      BY <1>0, <2>2, <3>3 DEF cacheVars, IInv, EntryIsVouchedFor, Tallies, Trees_
    <3> QED
      BY <2>2, <3>1, <3>2, <3>3, <3>4, <3>5 DEF Present
  <2> QED
    BY <2>1, <2>2, SessionAssumption DEF UserEdits
<1>2. TypeOK'
  BY <1>0, <1>1, SessionAssumption
  DEF runVars, fileVars, IInv, TypeOK, RunTypeOK
<1>3. \A g \in Files : g # f => (g \in Present' <=> g \in Present) /\ Stamp(g)' = Stamp(g)
  BY <1>1 DEF Present, Stamp
<1>4. FormattedIsStyled'
  BY <1>0, <1>1, <1>3 DEF IInv, FormattedIsStyled, IsUnwatched, runVars, fileVars
<1>5. CheckKnows'
  BY <1>0, <1>1, <1>3 DEF IInv, CheckKnows, IsUnwatched, runVars, fileVars
<1>6. RepairKnows'
  BY <1>0, <1>1, <1>3 DEF IInv, RepairKnows, runVars, fileVars
<1>7. DoneIsFormatted'
  <2>1. \A g \in Present' : g \in Files
    BY DEF Present
  <2> QED
    BY <1>0, <1>1, <1>3, <2>1 DEF IInv, DoneIsFormatted, runVars
<1> QED
  BY <1>0, <1>1, <1>2, <1>4, <1>5, <1>6, <1>7
  DEF IInv, Resting, CleanIsClean, SaysClean, runVars, fileVars

LEMMA NextIInv ==
  ASSUME IInv, [Next]_vars
  PROVE  IInv'
<1>1. CASE StartRun
  BY <1>1, StartRunStep
<1>2. CASE RepairStep /\ UNCHANGED counts
  BY <1>2, LinterRepairsStep, FinishStep, StartWalkStep, SubmitStep, FormatStep, RecordStep,
     EndRepairStep
  DEF RepairStep, RepairFails
<1>3. CASE CheckStep /\ UNCHANGED counts
  <2>1. CASE CheckFails
    BY <1>3, <2>1, FinishStep DEF CheckFails
  <2>2. CASE StartWhole
    BY <1>3, <2>2, StartWholeStep, FinishStep DEF StartWhole
  <2> QED
    BY <1>3, <2>1, <2>2, ExamineStep, EndWalkStep, SkipWholeStep, RunWholeStep DEF CheckStep
<1>4. CASE Crash
  BY <1>4, FinishStep DEF Crash
<1>5. ASSUME NEW f \in Files, UserEdits(f)
      PROVE  IInv'
  BY <1>5, UserEditsStep
<1>6. CASE UNCHANGED vars
  <2>1. PathsAreSound' /\ EntryIsVouchedFor'
    BY <1>6, QuietKeepsEntries DEF vars, cacheVars, IInv
  <2> QED
    BY <1>6, <2>1
    DEF vars, treeVars, diskVars, cacheVars, runVars, fileVars, counts, IInv, TypeOK, CacheTypeOK,
        RunTypeOK, Resting, FormattedIsStyled, CheckKnows, RepairKnows, DoneIsFormatted,
        CleanIsClean, SaysClean, SawAllWatched, Present, Stamp, InOrder
<1> QED
  BY <1>1, <1>2, <1>3, <1>4, <1>5, <1>6 DEF Next, Process

-------------------------------------------------------------------------------
(* Theorems *)

\* The inductive invariant holds in every reachable state.
THEOREM Invariance == Spec => []IInv
  BY InitIInv, NextIInv, PTL DEF Spec

\* Every variable stays in its domain.
THEOREM TypeCorrect == Spec => []TypeOK
<1>1. IInv => TypeOK
  BY DEF IInv
<1> QED
  BY <1>1, Invariance, PTL

\* A matching entry of a file is true of it, up to what the key leaves out of a config
\* (scheduler.submit, File.NewFormatSignature).
THEOREM FileEntriesAreSound == Spec => []PathsAreSound
<1>1. IInv => PathsAreSound
  BY DEF IInv
<1> QED
  BY <1>1, Invariance, PTL

\* A matching whole-tree entry is true of the tree, although its stamps were taken
\* before the check ran, up to what the key leaves out of a config: where the check
\* runs, and its executable (wholeTreeSignature, Finalize).
THEOREM WholeTreeEntryIsSound == Spec => []WholeTreeIsSound
<1>1. IInv => WholeTreeIsSound
  BY VouchedIsSound DEF IInv, TypeOK
<1> QED
  BY <1>1, Invariance, PTL

\* A run in repair mode that succeeds leaves its scope formatted: without a cache by
\* its own config, with one by a config of the same key (formatTree).
THEOREM SuccessIsFormatted == Spec => []DoneIsFormatted
<1>1. IInv => DoneIsFormatted
  BY DEF IInv
<1> QED
  BY <1>1, Invariance, PTL

\* A check that finds nothing is right: about each file always, about the whole tree
\* without a cache by its own config, with one by a config of the same key (runCheck).
THEOREM CleanIsRight == Spec => []CleanIsClean
<1>1. IInv => CleanIsClean
  BY DEF IInv
<1> QED
  BY <1>1, Invariance, PTL
===============================================================================
