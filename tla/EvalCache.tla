------------------------------- MODULE EvalCache -------------------------------
(***************************************************************************)
(* The evaluation cache of a tree (walk/cache/cache.go, the signatures of  *)
(* walk/walk.go and format/check.go) and the tree it speaks of.  A file is *)
(* recognised by its size and the second of its last write.  A config is   *)
(* recognised by what a signature covers of it, which is less than what    *)
(* decides how its tools behave.                                           *)
(***************************************************************************)
EXTENDS SourceTree

CONSTANTS
    Configs,
    FormatterKey,   \* of each config: its formatters' names, options, priorities and
                    \* executables, or the text of their shell lines; not where they run
    CheckKey,       \* of each config: the whole-tree check's command, options, includes and
                    \* excludes as they are written; not where it runs, nor the executable
    Texts,      \* what a file may say
    Sizes,
    Contents,   \* what a file may hold
    MaxTime     \* bound on the clock, in seconds

ASSUME CacheAssumption ==
    /\ "none" \notin Configs
    /\ DOMAIN FormatterKey = Configs /\ DOMAIN CheckKey = Configs
    /\ "gone" \notin Texts
    /\ Sizes \subseteq Nat \ {0}
    /\ Contents \subseteq [text : Texts, style : Configs \cup {"none"}, size : Sizes]
    /\ MaxTime \in Nat \ {0}

\* A content is what it says, the config whose formatters would leave it alone, if
\* any, and its size.
Gone == [text |-> "gone", style |-> "none", size |-> 0]

VARIABLES
    content,    \* content of each file, or Gone
    mtime,      \* the second of its last write
    now,        \* the second of the last write of all
    paths,      \* bucketPaths: a file's format signature, or None
    wholeTree,  \* bucketWholeTree: the check's signature, or None
    attested,   \* bucketAttestation: a config, or "none"
    unseen      \* history: files of which the cache has missed a write

diskVars == <<content, mtime, now>>
treeVars == <<diskVars, unseen>>
cacheVars == <<paths, wholeTree, attested>>

None == <<>>
NoStamp == <<>>
Seconds == 0 .. MaxTime
Stamps == Seconds \X Sizes
FileSignatures == {FormatterKey[c] : c \in Configs} \X Stamps
TreeSignatures == {CheckKey[c] : c \in Configs} \X SUBSET (Files \X Stamps)

CacheTypeOK ==
    /\ content \in [Files -> Contents \cup {Gone}]
    /\ mtime \in [Files -> Seconds] /\ now \in Seconds
    /\ paths \in [Files -> FileSignatures \cup {None}]
    /\ wholeTree \in TreeSignatures \cup {None}
    /\ attested \in Configs \cup {"none"}
    /\ unseen \subseteq Files

Present == {f \in Files : content[f] # Gone}

\* What os.Stat says of a file.
Stamp(f) == <<mtime[f], content[f].size>>

\* FormatSignature and NewFormatSignature, over Formatter.Hash.
FileSignature(c, stamp) == <<FormatterKey[c], stamp>>

\* Mutant of TreeSignature: as if the matched files were hashed by name.
TreeSignatureOfNames(c, stamps, S) == <<CheckKey[c], {<<f, <<0, 1>>>> : f \in S}>>

\* wholeTreeSignature, over the matched files S and their infos.
TreeSignature(c, stamps, S) == <<CheckKey[c], {<<f, stamps[f]>> : f \in S}>>

\* The configs that the cache cannot tell from c: by a file's entry, by the check's.
SameFormatters(c) == {d \in Configs : FormatterKey[d] = FormatterKey[c]}
SameCheck(c) == {d \in Configs : CheckKey[d] = CheckKey[c]}

\* The cache has an entry about f as written in the second t.
Held(f, t) ==
    \/ paths[f] # None /\ paths[f][2][1] = t
    \/ wholeTree # None /\ \E size \in Sizes : <<f, <<t, size>>>> \in wholeTree[2]

\* f is written in the second t.  The cache misses it when it has an entry of that
\* second already, or when it happens behind its back.
Write(f, new, t, behind) ==
    /\ t \in now .. MaxTime
    /\ content' = [content EXCEPT ![f] = new]
    /\ mtime' = [mtime EXCEPT ![f] = t]
    /\ now' = t
    /\ unseen' = unseen \cup (IF behind \/ Held(f, t) THEN {f} ELSE {})

CacheInit ==
    /\ mtime = [f \in Files |-> 0] /\ now = 1
    /\ paths = [f \in Files |-> None] /\ wholeTree = None /\ attested = "none"
    /\ unseen = {}

\* cache.Remove, if asked for, and cache.Open.
OpenCache(clear) ==
    IF clear THEN /\ paths' = [f \in Files |-> None]
                  /\ wholeTree' = None
                  /\ attested' = "none"
             ELSE UNCHANGED cacheVars
===============================================================================
