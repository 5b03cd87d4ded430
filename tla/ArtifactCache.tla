---------------------------- MODULE ArtifactCache ----------------------------
(***************************************************************************)
(* The cache of materialized artifacts (profile/resolve.go): files named   *)
(* by a pin and an artifact's name, rule programs named by their hash.     *)
(* Runs share it, without a lock; a file is written beside its path and    *)
(* renamed into place.  Files may also be changed and removed from         *)
(* outside.                                                                *)
(***************************************************************************)
EXTENDS ProfileDocument

CONSTANT Runs   \* the runs of conformist check --profile

VARIABLES
    disk,       \* path -> [text, executable]
    temp,       \* temp[r]: the temporary file of run r, NoFile if there is none
    tainted,    \* paths ever changed from outside
    removed     \* paths ever removed from outside

cacheVars == <<disk, temp, tainted, removed>>

NoFile == [path |-> <<>>, text |-> <<>>, executable |-> FALSE]
File(path, text, executable) == [path |-> path, text |-> text, executable |-> executable]

\* A torn file: the beginning of a text that is being written.
Torn == <<"torn">>

ArtifactPath(pin, name) == <<"artifacts", pin, name>>

\* Mutant of RulePath: the rule file is named by the rule, without its preludes.
RulePathOfRule(program) == <<"rules", Digest("sha256", <<Last(program)>>)>>
RulePath(program) == <<"rules", Digest("sha256", program)>>

IsCached(path) == path \in DOMAIN disk

CacheInit ==
    /\ disk = <<>>
    /\ temp = [r \in Runs |-> NoFile]
    /\ tainted = {}
    /\ removed = {}

Put(path, file) ==
    [q \in DOMAIN disk \cup {path} |-> IF q = path THEN file ELSE disk[q]]

\* Mutant of CreateTemp: the file is created at its path.
CreateInPlace(r, path, text, executable) ==
    /\ temp' = [temp EXCEPT ![r] = File(path, text, executable)]
    /\ disk' = Put(path, [text |-> Torn, executable |-> FALSE])
    /\ UNCHANGED <<tainted, removed>>

\* writeFileAtomic, up to the rename: CreateTemp, Write, Close, Chmod.
CreateTemp(r, path, text, executable) ==
    /\ temp' = [temp EXCEPT ![r] = File(path, text, executable)]
    /\ UNCHANGED <<disk, tainted, removed>>

\* ... and the rename, which replaces what another run has installed meanwhile.
Install(r) ==
    /\ disk' = Put(temp[r].path, [text |-> temp[r].text, executable |-> temp[r].executable])
    /\ temp' = [temp EXCEPT ![r] = NoFile]
    /\ UNCHANGED <<tainted, removed>>

\* Mutant of DropTemp: the error path returns at once.
KeepTemp(r) == UNCHANGED cacheVars

\* When any of the calls fails, the temporary file is removed.
DropTemp(r) ==
    /\ temp' = [temp EXCEPT ![r] = NoFile]
    /\ UNCHANGED <<disk, tainted, removed>>

\* Somebody changes a file of the cache, or removes it.
Taint(path) ==
    /\ IsCached(path)
    /\ disk' = [disk EXCEPT ![path].text = <<"foreign">>]
    /\ tainted' = tainted \cup {path}
    /\ UNCHANGED <<temp, removed>>

RemoveFile(path) ==
    /\ IsCached(path)
    /\ disk' = [q \in DOMAIN disk \ {path} |-> disk[q]]
    /\ removed' = removed \cup {path}
    /\ UNCHANGED <<temp, tainted>>
===============================================================================
