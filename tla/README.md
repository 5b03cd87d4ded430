# A TLA+ model of conformist

conformist runs formatters and linters over a source tree. This directory holds
TLA+ modules translated from its Go code, TLC configurations that check them on
small instances, and proofs that TLAPS checks for every instance.
`PROJECT.json` relates every definition to the lines it models and lists the
runs, the mutants that show each property can fail, the hazards and the
theorems.

## 1. Inventory

| component | state it keeps | operations | what must hold |
|---|---|---|---|
| repair-mode run, `cmd/format/format.go` | position in the run, read and apply errors, what was released | repairs, read loop, Apply, ordered closes, exit status, attestation | success means that everything accepted was formatted; nothing is sent after a close; it ends |
| walker, `walk/*.go` | what is listed, what is on the pipe | list (own goroutine), Read with a timeout, Close | every file reaches the run once, or the run fails |
| cached reader, `walk/cached.go` | `updateCh`, the unflushed batch, the bucket | Read (attaches the release hook), process (own goroutine), Close | only files that were formatted are recorded; no update is lost by a successful run |
| scheduler and composite formatter, `format/scheduler.go`, `composite.go` | batches per key, jobs on a bounded group, per-batch errors | Apply/submit, schedule, Close | a file has one owner; formatters of a sequence run in order and stop at a failure |
| linter repairs, `format/repair.go`, `linter.go` | none between calls | repair command per linter, in-run or whole-tree | an exit status that matters is not dropped |
| commit lane, `cmd/format/commit.go`, `git/commit.go` | HEAD, index, working tree, dirty sets before and after | preflight, run, detect, published guard, restore, conflict guard, commit/amend | only fixes are committed, the user's edits stay where they were |
| staged lane, `cmd/format/staged.go`, `blobs.go`, `git/staged.go` | the two lanes' path sets, snapshots of `git status`, staged blobs | split, attribution, restage, isolated format, write back | nothing unstaged is swept into the index; only opted-in outputs are restaged |
| evaluation cache and check mode, `cmd/check.go`, `format/check.go`, `format/sandbox.go`, `walk/cache/cache.go` | per-file and whole-tree entries, attestation | check in a sandbox, look up, record | a hit is as good as a check |
| codegen repair, `cmd/codegen/codegen.go` | patches applied, intent-to-add entries | discover, build, apply, converge | it ends, and leaves the index as it was |
| profile, `profile/*.go`, `cmd/profile.go` | the artifact cache, shared by all runs; what a run has read and verified so far | read, verify the signature, validate, fetch, cache, put rules together, add linters | only verified artifacts are used, whoever shares the cache; equal commands mean equal tools |
| conform, `cmd/conform/conform.go`, `hosts.go`, `flakeedit` | the files of the checkout | write if absent, edit flake.nix, persist hosts, repair | idempotent; nothing of the user's is lost |
| bootstrap, `cmd/conform/bootstrap*.go` | the tree before `nix flake init`, the files it touched, the index | preflight, init, fill placeholders, persist hosts, stage, lock | the template's files are complete, the user's are not touched |
| flakeclobber, `cmd/flakeclobber` | the queue of pending writes | read and rewrite all, nix parses all, write all | none is written when nix refuses one; elements are replaced and nothing else |
| flake parser, `cmd/conform/flakeparse` | none | what the editors see of a flake | |
| configuration, command line, statistics, rulejq, nix modules | none at run time | parsing, printing, packaging | |

How they interact. `root.go` dispatches to one of the lanes. Each lane calls
the repair-mode run (function calls; the staged lane passes an observer that
takes snapshots of `git status` around a repair). The run owns a walker, which
may be wrapped in a cached reader, and a composite formatter, which owns a
scheduler. Three kinds of goroutines run beside the main one: the lister (it
writes to a pipe or a channel that Read drains), the scheduler's jobs (an
errgroup with a limit), and the cache writer. Jobs talk to the cache writer
through the release hooks that Read attaches to files (callbacks), over
`updateCh`. The lanes and check mode share the repository and the cache
database with whoever else uses them. `check --profile` puts a profile's tools
and linters in front of check mode and shares the artifact cache with every
other run. `conform`, with and without a domain, and `flakeclobber` are
sequential programs of their own that meet only in the files of a checkout:
both edit flake.nix, and conform ends with the repair-mode run.

What is hard here: the three kinds of goroutines and the order in which they
are shut down; errors that one of them hits while the others wait for it; reads
that time out; cancellation; failures and kills between two git commands, after
which the next run starts from whatever is there; deciding from listings of
dirty paths whose change a change is; caches that are consulted later; a cache
that unlocked runs share while a domain changes what it serves; commands that
edit a checkout in many small writes and are run again on what an interrupted
one has left.
`PROJECT.json` lists these hazards by line.

## 2. Plan

| step | modules | abstract specification | theorems | status |
|---|---|---|---|---|
| A | `SourceTree`, `Walker`, `CachedReader`, `Scheduler`, composed by `FormatRun` | `RunContract`: the fate of each file, what is recorded, the outcome | type correctness, one owner, truthful records, no send after close, honest and complete success, no silent rewrite, the contract | done |
| B | `GitRepo`, `FixRun`, `CommitLane`, `StagedLane`, composed by `GitFixes` | none; the properties speak of what the user did | type correctness, nothing unstaged is swept or lost, only fixes are committed, a refusal is clean, outputs are opted in, success is conformant | done |
| C | `CodegenRepair`: the convergence loop over a tree and what nix sees of it | none; "every check is current" is stated of the generators themselves | type correctness, the index is given back, untracked files are kept, convergence is real, every patch of a chain is progress | done |
| D | `EvalCache`, `CacheRuns`, `CachedRepair`, `CheckRun`, composed by `CacheSession`: per-file and whole-tree entries, the attestation, edits between and during runs | none; a hit is compared with what a run without the cache would say | a matching entry is true, what is skipped is formatted, clean is clean | done |
| E | `ProfileDocument`, `ArtifactCache`, composed by `ProfileCheck`: runs that share the cache, the domain and its keys | none; the cache's promise is stated of its names | the cache holds what its names say, no run is another's victim, what runs was pinned, one command means one set of tools | done |
| F | `FlakeFile`, `Checkout`, `ConformLocal`, `Bootstrap`, `FlakeSweep`, composed by `Adoption`: the commands one after another in several checkouts | none; the properties speak of what the user had | the user's work survives, flakes resolve, a sweep is honest, a bootstrap is finished | done |
| G | `FormatRunContract_proofs`, `GitFixesOutcome_proofs`, two more sections of `CodegenRepair_proofs` | the proof that `FormatRun` implements `RunContract` | the rest of what the runs of A to C check | done |

The most important behaviour (a run that says it succeeded has formatted the
tree) comes first. No module that is proved about reaches a RECURSIVE operator.

## 3. Modules

### 3.1 The repair-mode run

* `SourceTree` declares the files of the tree.
* `Walker` is one reader of the kind `WalkType`: `unlisted`, the `pipe`, the
  lister's state. `List`, `WalkDone`, `WalkFail` are the lister's goroutine, `Take`
  and `Drained` what a `Read` sees. A listing that fails ends like one that
  succeeds; only the filesystem reader's Close returns its error (`ListingErr`).
  `NewWalk` is the creation of another reader.
* `CachedReader` is `updateCh`, the unflushed batch and the bucket. `Send` is the
  release hook, `Receive`, `FlushDue`, `Flush`, `FlushFail` the `process`
  goroutine, `CloseUpdates` the `close(updateCh)` of Close.
* `Scheduler` is batches, jobs and per-batch failures. `Submit` is one call of
  `scheduler.submit`, with the batch that becomes full and is scheduled in the same
  step; `ApplyFormatter`, `FailureSets`, `StatAndRelease`, `StatFails`, `Leave` are
  the steps of a job.
* `FormatRun` composes them and is `applyLinterRepairs` and `formatTree`. Both read
  the tree, each through a reader of its own (`pass` says whose it is): `Read`, in
  batches of `ReadSize`. With linters that repair the first walk is theirs:
  `RepairBatch`, then `EndRepairs`, which closes the reader and creates the
  formatters', or `RepairFails`, which waits for the lister to end before the run
  does. Then come `SkipFile`/`SubmitFile`/`RefuseFile`, `EndApply`, the closes in
  the code's order (`CloseBatch`, `WaitForJobs`, `CloseWalker`, `WalkerClosed`),
  `Return`, `Attest`; `Cancel` is the signal.
* `RunContract` is what a caller may assume: each file has a fate, the cache is
  written once, the outcome follows from both.
* `FormatRun_proofs`, `FormatRunContract_proofs` (success, rewrites and the
  contract), `MCFormatRun`.

Abstractions: what the repair commands of a batch do is one step (`FixRun` opens it
up); there is one reader at a time (no `CompositeReader`); skips of irregular files are
part of "skipped"; a channel is the set of files in it with its capacity kept
(nothing depends on the order of files); `Invisible` is the set of files whose
rewrite a `Stat` cannot see, because it happens within one second and keeps the
size; a kill is a prefix of a behaviour, because nothing is read back.

### 3.2 The git lanes

* `GitRepo`: for every path its content in HEAD, index and working tree, and
  whether HEAD is unborn, local or published. A content is the set of marks left
  in it ("unstaged": an edit the user has not staged; a linter's name; "fmt":
  formatted), so that a property can ask whose edits went where. The predicates
  are the columns of `git status --porcelain`; the actions are the git commands
  the code runs.
* `FixRun`: the run as the lanes see it. Repairs write and delete any part of
  what they can (`Writes`, `Deletes`), in any order the code allows; opted-in
  linters come last, in the staged lane between two snapshots
  (`RepairObserved`, `Attribute`). `Format` works on `FormatScope` and may be
  interrupted, which is no error.
* `CommitLane`, `StagedLane`: one action per step of the lane that reads or
  writes the repository, so that failures, kills and edits fall between them.
* `GitFixes` composes the lanes into a session on one repository.

Abstractions: a git command is atomic (it works under the index lock); a
preflight that refuses does nothing and is no step; batching of repair
arguments and the order of paths are left out; the user edits one file of the
working tree per run and stages nothing meanwhile; `--exit-zero-on-fix` only
changes the exit code of "fixed" and is left out; modes of files are left out.
History variables (`start`, `touched`, `writers`, `removers`, `cut`) serve the
properties only. `GitFixes_proofs` (unstaged edits), `GitFixesOutcome_proofs` (what
a lane leaves behind), `MCGitFixes`.

### 3.3 Codegen repair

`CodegenRepair` is one session of `cmd/codegen`: the working tree, for every
file whether the index has it (`"intent"` after `git add --intent-to-add`),
`session.intentAdded` and `session.unrepaired`.

* `Discover`, `DiscoveryFails`: `session.discover` at the head of each pass. It
  fixes the limit on the first one that finds something. `Found` is what a
  discovery may find, since a check that no longer evaluates drops out.
* `GiveUp`, `Current`, `BuildPatch`: `session.repairOne` for the check whose
  turn it is, in the order of names. `Seen` is the tree that nix gets: what is
  not in the index is absent from it. `Converged`: the pass applied nothing.
* `CheckPatch`, `Snapshot`, `ApplyPatch`, `TrackCreated`: `session.applyPatch`
  and `trackCreated`, one action per git command, so that failures and edits
  fall between them. `RestoreIndex` is the deferred `restoreIndex`.
* A generator is a function `Generate(flake, check, tree)` and nothing else is
  known of it.
* `Ranks` says what makes a set of generators a chain: the checks can be ranked so
  that the repair of one makes it current, and leaves every check ranked above it
  current. `Chains` are the flakes whose checks can.
* `CodegenRepair_proofs`, `MCCodegenRepair`.

Abstractions: a patch carries whole files, so that it applies exactly when the
files it touches are as it expects them; the store, evaluation and the refusals
of `validate` are the constants `Found`, `Unbuildable` and the fault "nix"; the
user edits one file once, while a patch is under way (an edit at another time
only changes what the next check is built from), and stages nothing; a kill is
a prefix of a behaviour; `--list` and finding the tree root have no state.

### 3.4 The evaluation cache and check mode

`CacheSession` is a tree, its cache and a session of runs of either kind.

* `EvalCache`: of a file its content (what it says, whose formatters would leave
  it alone, its size) and the second of its last write; the three buckets. `Stamp`
  is what a signature takes of a file, `FileSignature` and `TreeSignature` are the
  keys, `Held` says that a write is in the second that an entry already has.
* `CacheRuns`: the invocation, its scope and config, the file infos that its walk
  has taken (`stamps`) and the fate of each file. `Finish` ends the process and
  with it all of this.
* `CachedRepair`: `StartRepair` clears, opens and compares the attestation, as
  `runWithObserver` does; `Submit` is `scheduler.submit`, which skips; `Format` and
  `Record` are a job, with the stat in between; `EndRepair` attests.
* `CheckRun`: `Examine` is the verdict on a file, `SkipWhole`, `StartWhole` and
  `RunWhole` are `Finalize` for one whole-tree check, from its key over the
  infos of the walk to the entry it leaves.
* `CacheSession_proofs`, `MCCacheSession`.

Abstractions: a run's goroutines are in `FormatRun`; here a file is skipped,
formatted and recorded in single steps, in any order between files. A config
is all that decides how its formatters and its check behave; `FormatterKey` and
`CheckKey` are what the signatures cover of it, so that two configs with the same key
are one to the cache. Neither key has the directory that a tool runs in
(`working-dir`), and the check's (`wholeTreeSignature`) has only its command, options, includes
and excludes as they are written, so that another executable under the same command
has the same key; a formatter's (`Formatter.Hash`) has its executable. A whole-tree check is any predicate
`Passes` of what the files it reads say, and it reads only files that it watches
(`WatchAssumption`); the code cannot know that it does. A per-file linter has the shape of
a formatter in check mode: neither is cached. bolt's lock keeps two processes
from having the database open at once; a check that cannot open it goes on
without, a run in repair mode fails. Every file is one that a formatter wants, so
the level of unmatched files and the excludes are left out; repairs of linters write
any one state into a file, once per run.

What the cache cannot know. It takes one config for another with the same key; the
properties therefore speak of some config of the same key when the cache is in use,
which is less than the comments claim (section 6). Beyond that, `unseen` collects the files of which it has
missed a write, and the properties exempt them:

* a write in the same second as an entry (`Held`), which the code accepts
  ("second-level precision", `cmd/format/format.go`);
* an edit after the formatters are through with a file and before the job's stat
  (`IsUnwatched`);
* a file created after the walk of a check has gone by, before the check runs
  (`IsUnwatched`): the entry speaks of a tree with the file, under a key without
  it, and matches again if the file is removed;
* what lies outside the paths of a `conformist check P`, when the whole-tree check
  it triggers is remembered (`Store`): the check has read all of the tree, and
  the key covers only P. A second `check P` is a hit whatever has changed
  elsewhere.

### 3.5 Profiles and the artifact cache

`ProfileCheck` is any number of runs of `conformist check --profile` up to the
point where their checks start, over one cache.

* `ProfileDocument`: what a profile declares and what makes it acceptable
  (`IsValid`, one predicate per validation function), which build and pin of an
  artifact the host gets (`SourceFor`, `PinOf`), the program of a rule
  (`Program`), `IsSignedBy`.
* `ArtifactCache`: the files, named by pin or by hash, with their mode. A write
  is `CreateTemp`, then `Install` (the rename) or `DropTemp`; `Taint` and
  `RemoveFile` come from outside.
* `ProfileCheck`: `Begin` merges flags and environment, `ReadFile` or
  `FetchProfile` and `FetchKeys` get the document, `Accept` checks it,
  `UseCached`, `StartFetch`, `Fetch` and `InstallArtifact` are `materialize` for
  the next artifact, `TranslatePlain`, `TranslateRule` and `InstallRule` translate
  the next linter, `Apply` hands them over. `Kill` ends a run anywhere;
  `ChangeDomain` replaces the profile or the keys the domain serves.
* `ProfileCheck_proofs`, `MCProfileCheck`.

Abstractions: names are numbers in the order in which the code sorts them; a text
is a sequence of chunks and a torn file is a text of its own; a digest is a
function that two texts may share unless a theorem says otherwise; the syntax of
documents, keys and pins is left out, what its checks reject is not. A temporary
file of a killed run has a name that nobody looks for. History variables
(`tainted`, `removed`, `since`) serve the properties only.

### 3.6 conform, bootstrap and flakeclobber

`Adoption` is a fleet of checkouts and a session of commands on them, one after
another, with a user who edits files between and during them.

* `FlakeFile`: a flake is the sets of names that the editors look at, and the
  elements of its development shell a bag. `Apply` and `CanApply` are
  `flakeedit.Apply`, `Clobber` and `CanClobber` are `clobber.go`, each with its refusals.
  `utils` is what the head of the call names, `None` when it is a bare
  `eachDefaultSystem`, which the editor takes for "utils" (`UtilsName`).
* `Checkout`: who wrote each file, the placeholders it still has, what is
  staged; `WriteAndGoto` is `os.WriteFile` in the middle of a command, which may
  be cut short and leave a torn file; `PersistedOverlay` is `hosts.go`.
* `ConformLocal`: conform without a domain, one action per file it writes or
  edits. `Bootstrap`: with a domain, from the preflight to the lock file.
  `FlakeSweep`: flakeclobber's two phases. `Stop` is a kill or a returned error.
* `Adoption_proofs`, `MCAdoption`.

Abstractions: an error that is returned and a kill leave the same tree and are one
action; a function that reads a file and writes it at once is one step; nix is
external: `flake init` writes the absent files of the template, passes over
identical ones, fails over others, and may fail after writing any of them; the
repair at the end of conform changes no name that the editors see; the order of
migrations is left out, because `SweepAssumption` excludes those that touch one
another (the code rejects none of them, `buildMigrations`); the user adds and changes
files and removes none; the lock file is nix's; an outputs pattern is strict, because
one with `...` names whatever is missing.
History variables (`mine`, `before`) serve the properties, `before` also stands for
the snapshot that bootstrap takes.

## 4. Runs

| run | instance | shows |
|---|---|---|
| FormatRunCached | the git reader, 3 files, 2 batch keys (one a sequence of two formatters, one shared by both goroutines), an update channel of 2 and a pipe of 1, batches and flushes of 2; formatter, stat, listing, transaction and attestation failures, cancellation | type, `OneOwner`, `RecordedWasFormatted`, `NoReleaseAfterClose`, `SuccessIsSound`, `SuccessIsCompleteButForGaps`; the run implements `RunContract` and terminates |
| FormatRunNoCache | the filesystem reader without a cache, linters that repair in a walk of their own, `--fail-on-change`, fatal unmatched files; the listing, repairs and hashes fail, reads fail or time out, cancellation, a rewrite `Stat` cannot see | what it reports is right, a failed listing included; the run terminates when the lister is not left waiting |
| FormatRunListingLost | three files, the git reader without a cache; the listing fails | a disagreement (section 6) |
| FormatRunFailureHang | three files, a pipe of 1, with a cache; a repair that must succeed and fails | a disagreement |
| GitFixes | a source and a generated file, three linters (one per tier), every combination of 5 and 8 histories, one invocation of either lane, all faults | the seven properties of the lanes |
| GitFixesDeletion | the same, nothing fails | a disagreement |
| CodegenRepair | three generators in a chain, in a cycle, or with a shared output, over every start in which each file is absent or stale, one or all of them tracked; nix, git and the user interfere | the index is given back, what converges is current, untracked files are kept, every patch of a chain is progress, the run ends |
| CodegenRepairLongChain | four generators in a chain against the order of their names, nothing fails | a disagreement |
| CacheSession | two files that are formatted and agree at first, or are neither, two configs that differ in what their formatters leave and in what their check accepts, with one key for the check and two for the formatters, a whole-tree check that compares the files; two runs of any kind over one file or both, one edit at any point, formatted or not, writes in the same second or the next one, all faults | a matching entry is true, what is skipped is formatted, what is clean is clean, each as far as a key tells configs apart |
| ProfileCheck | two runs, five documents on disk and two online, two keys, four ways to call; one change of the domain and one of the cache from outside | complete and matching files, no victims, only pinned tools and rules, equal commands mean equal tools, a withdrawn key is refused |
| Adoption | two checkouts in five fleets of flakes (unwired, outdated, merged, with a doubled element, with a bare head, unreadable, none), three commands of each kind's variants, each cut short anywhere, one edit of the user's | the user's work survives, a bootstrap that succeeded is filled, a sweep is honest, names resolve |
| AdoptionOverlay | the same checkouts, two conforms, no edit | a disagreement |

Why the bounds are enough. In `FormatRun` three files and batches of two give
full, partial and empty batches at once, and two jobs that race; a pipe of 1 blocks
the lister with one file in the pipe and one still to list, and an update channel
of 2 blocks a release; two formatters make a sequence that fails in the
middle. FormatRunCached has no linters, because the walk of the repairs has ended
before the cached reader is created and only multiplies the states; FormatRunNoCache
has both walks. In `GitFixes` one invocation suffices for safety because the histories
contain what an earlier invocation that failed or was killed leaves
(formatted in the working tree only, an output not restaged); two invocations
without concurrent edits were also checked once (2.7 million states). Two paths
suffice because a lane treats paths alike except for what linters match and
write: one path is matched, the other written.

In `CodegenRepair` three checks give a chain with a middle, a cycle with a check
outside it and two checks that share a file; the limit of eight passes is
derived, as in the code, from the number of checks. Three is also the largest number
of which "only cycles exceed the limit" is true; the claim is checked with four, where it
is not (CodegenRepairLongChain), and what holds for any number is the theorem
`EveryPatchIsProgress`.

In `CacheSession` two runs suffice because what a third could rely on, the
entries, is checked in every state; one edit reaches all gaps above but the
third, which takes a creation and a removal. The theorems hold for any number.

In `ProfileCheck` two runs meet at every point of the cache; the documents share
pins, names and texts in every combination the paths tell apart (same pin and
name, same pin under two names, same name with another pin, same text as data and
as a tool). A third run would only find a cache that one of the two has left. In
`Adoption` three commands are an interrupted one, one that finds what it left,
and one that relies on the second; two checkouts let a sweep fail between its
writes, and one of them is the repository of a tool, which reaches it through
`self`.

Deadlock is checked except in FormatRunNoCache and FormatRunFailureHang, where the
code itself may stop (section 6), and in the runs of `Adoption`, which end when their commands and edits
are used up.

Fairness. `FormatRun`: weak fairness of the main goroutine, the lister, each
worker and the cache writer, because the Go scheduler runs every goroutine that
can run; none on `Cancel`, on faults or on which outcome a step has, so that a
blocked goroutine is never freed by a fault.
`GitFixes`, `CacheSession`, `ProfileCheck` and `Adoption` assume no fairness: a run
may stop anywhere. `CodegenRepair`: weak
fairness of the session, a sequential program whose subprocesses return; none
on the user or on which outcome a step has.

## 5. Proofs

`FormatRun_proofs` proves for any tree, keys, sequences, number of goroutines
and channel capacities that `TypeOK`, `OneOwner`, `RecordedWasFormatted`,
`NoReleaseAfterClose` and `SuccessIsSound` are invariants. They rest on the
named assumptions about the constants that TLC evaluates in every run. None of
the last four is inductive. The invariant is `IndInv`:

* `BatchesInv`, `JobsInv`: what is in a batch or a job was accepted, has not
  been released and, in a job, has passed exactly the formatters before the
  job's position. Needed for "formatted completely" at release.
* `FilesInv`: every accepted file is in a batch, in a job, or has left it,
  with an error of the run if it left unformatted. Needed for success.
* `CacheInv`: what is in the channel, the unflushed batch or the bucket was
  released. Needed for truthful records.
* `MainInv`: which of these sets are empty at which point of the run. Needed
  because success is reported, and the channel closed, by the main goroutine.

One lemma per action shows that it preserves `IndInv`; a temporal step by PTL
combines them.

`FormatRunContract_proofs` builds on it.

* `SuccessIsComplete` (`SuccessIsCompleteButForGaps`) needs `ListingInv`: the
  read loop has seen the end only when the lister has stopped and the pipe is
  empty, and a run that has left it otherwise has an error, or one of the gaps: a
  cancelled read, and a listing that failed in a reader that does not say so (git's and
  jujutsu's, and any behind the cache). Without a cache on the filesystem reader the
  second does not exist.
* `NoRewriteIsLost` (`NoSilentRewrite`) needs `RewriteInv`: from the moment a
  formatter rewrites a file until the job's stat the file is in that job, and after
  it the run counts it as changed, or has an error. The close that waits for the
  jobs comes before the report.
* `RunImplementsContract` (`ImplementsContract`) goes step by step. An action
  leaves the fates of the files alone (`FateFrame`) or moves those of a set of files
  from one fate to another (`MoveFate`), where a file in a job is one that has been
  accepted and has no fate beyond that yet (`InJobFate`); then a read that looks at files, a job that settles one, the
  closes, the flush of the cache and the return are each one step of the contract
  or a stutter, `IndInv` excluding what the contract does not allow.

`GitFixes_proofs` proves, for any paths, linters, tiers, sets of files that
repairs write or delete, faults and number of invocations, that `TypeOK` and
`NothingUnstagedIsSwept` are invariants and that `UnstagedEditsSurvive` holds of
every step. Its `IndInv` says where an unstaged edit can not be:

* `CommitInv`: not in a tracked file that was clean before the run, where HEAD
  and index still agree, nor in what is to be committed. Hence neither `git
  commit` nor the restore of a refused amend touches one.
* `StagedInv`: not in an output, in a fully staged file, in what is to be
  restaged, in a staged blob that was read or formatted, or in a path that the
  snapshot before a repair did not list and the one after it could. The last
  is why tier 3 must list untracked files in both snapshots.
* `LaneInv`: which lane a control point belongs to.

It rests on `EditsAssumption`: the mark "unstaged" is in no index and no commit
at first, and no tool produces it.

`GitFixesOutcome_proofs` is about what a lane leaves behind, for the same instances.

* `CommitRun` relates the repository to the start of the invocation. Up to the
  commit, HEAD and index are the start's; a tracked file that was clean then
  holds what tools made of it, if anything (`ToolsOnly`); and once the run is over,
  a file that differs from the index is to be committed, was dirty before, or was
  edited by the user. Hence `OnlyFixesAreCommitted`, and `RefusalIsClean`, because the
  restore that precedes a refusal takes exactly these files back.
  `CommitIsConformant` adds that an uninterrupted run has formatted its scope.
* `StagedRun` says of every path how far the lane is with it: in the index as at the
  start until the restage (`NotRestaged`), in the snapshots around a repair only if
  that repair, or the user, changed it (`Observed`), an output only if a linter opted
  in to it (`Restageable`), formatted before it is restaged (`FormattedOnce`), and, for
  a partially staged path, formatted in a blob of its own (`IsolatedBlob`). Hence
  `OnlyOutputsAreRestaged` and, with `CommitIsConformant`, `SuccessLeavesConformant`.
* `OutputsWereOptedIn` (`OutputsAreOptedIn`) has the hypothesis that a linter that
  opted in and deletes files also stages its deletions. The run GitFixes satisfies it;
  GitFixesDeletion is the counterexample without it. `OnlyOutputsAreRestaged` says
  what is left then.

`CodegenRepair_proofs` proves for any generators, trees, numbers of checks and
faults that `TypeOK`, `IndexAsFound` and `UntrackedIsTheUsers` are invariants.
The first needs that what differs from the index found is exactly
`intentAdded`, and was untracked (`IndexInv`). The second needs that a patch is
built from a tree without the user's untracked files, so that one that writes
such a file would have to create it, which git refuses, and that such a file is
in the snapshot before the patch, so that `TrackCreated` leaves it (`MineInv`).

`ConvergenceIsReal` (`ConvergedIsCurrent`) needs that every check whose turn has
passed, and that was not given up on, is current in what nix sees or in the working
tree for as long as the pass has applied nothing (`CurrentInv`).

`EveryPatchIsProgress` (`ChainsProgress`) is what can be said of the passes for any
number of checks, with nix and git failing and checks dropping out. Order the sets of
stale checks by the highest rank in which they differ (`Fewer`): a patch clears its
own check and makes stale only checks of lower rank, so the set falls with every patch,
and no two generators of a chain undo each other. It rests on `PatchInv`: a patch that is
under way was made from what nix saw, which is still there when it applies (the user
edits nothing), so that the tree it leaves is what its check makes of that
(`AppliedIsMade`). `HiddenIn` is the exception the code has: git failed to add a file
that a patch created, nix is not shown it, and the check stays stale for ever. How many
patches a descent takes, and that the limit allows fewer for four checks, is left to TLC.

`CacheSession_proofs` proves all five properties of `CacheSession` for any files,
configs, contents, checks, faults and bounds. The truth of an entry is not
inductive, because the tree it was about is gone. `EntryIsVouchedFor` says that
there is a tree on which the check passes and from which a file differs only if
its stamp tells, or if it is unseen. The stamps were taken before the check ran
and the tree in question is the one it read: the invariant holds because an edit
in between makes the key one that no later tree has. It speaks of a config with the
key of the entry, since an entry says no more: whether two configs of the same key
agree is not known, and the theorems assume nothing of it. `FormattedIsStyled`
says the same of a file between its formatter and its record, and `CheckKnows`
and `RepairKnows` what a walk has established so far. Assumed: a check reads
only what it watches; a file's size is not zero; the checks are predicates.

`ProfileCheck_proofs` proves all six properties of `ProfileCheck` for any runs,
documents, keys, servers and numbers of changes. The invariant has two parts.

* `CacheInv` needs nothing of the digests: a file fits its path unless it was
  changed from outside (`DiskFits`), a temporary file fits the path it is renamed
  to (`TempFits`), and a run knows every key published since it read its profile
  (`KeysAreSince`), so that a signer it trusts was published meanwhile. `TypeOK`,
  `CacheHoldsPins` and `WithdrawnKeyIsRefused` follow from it.
* `RuleInv` is about what is put together from files that are read twice: between
  the moment a run verifies an artifact and the moment it reads it again for a rule,
  other runs may have replaced the file, and the rule file may be another run's.
  That all of them hold the same text needs `DigestIsInjective`, the hypothesis of
  `ErrorsAreForeign`, `RunsAreVerified` and `SameCommandsAgree`.

`Adoption_proofs` proves all five properties of `Adoption` for any checkouts,
commands, templates, edits and starting trees that `AdoptionAssumption` allows
(TLC evaluates it). It begins with what the two editors do to a flake:
`ApplyIsFine` and `ClobberIsFine` (names resolve afterwards if they did before, but
for the `utils` that conform adds under a bare head, which `Resolves` exempts),
`ApplyKeeps` and `ClobberKeeps` (what was there is there). `IInv` then says what
a command may rely on while the user edits under it:

* `BootstrapKeepsTrack`: from the preflight on a file is as it was, or the
  template's, or the user's since; hence what is touched or identical is the
  template's, every placeholder that is left is ahead in `todo`, and a file that is
  filled was not the user's unless he changed it meanwhile.
* `SweepKeepsTrack`: nothing has changed before nix has parsed every rewrite; a
  queued rewrite is made from what is still in the file, or is already in it (a
  checkout may be named twice); a flake that needs work is ahead, or queued.
* `TreeIsFine`, `QueueIsFine`: flakes resolve, in the tree and in the queue; a
  file of the template has no placeholder that its bootstrap would not look for.

`WorkCorrect` has the hypothesis `NoneIsNoBag`: the constant for "no list" is not
a list. Read with `SweepAssumption`, no migration undoes another.

Only model-checked: liveness (`Terminates` of `FormatRun` and of `CodegenRepair`),
which is beyond the prover. Every other property of a passing run is a theorem. That a
chain of any length ends within the limit is not true, see below.

## 6. Disagreements met

Shown by a run:

* With the git and jujutsu readers a listing that fails is silent: their Close returns
  what `CloseWithError` returns, which is always nil, and Read never asks for the
  scanner's error. The run succeeds, and attests its identity, without the rest of the
  tree (`SuccessMeansComplete`, FormatRunListingLost). With a cache the filesystem
  reader's error is lost as well, because `CachedReader.Close` does not close the
  reader behind it. The same property fails when a run is interrupted while no
  formatter runs: the cancelled read is only logged (`cmd/format/format.go:316`). An
  instance with a cache and `Faults = {"cancel"}` shows it.
* A repair that must succeed and does not, or a read of the repairs' walk that ends
  early, leaves the main goroutine in Close, waiting for a lister that is blocked on a
  pipe nobody drains, with a cache or without (`FailureExits`, FormatRunFailureHang).
  Without a cache the same property fails after a fatally unmatched file
  (`cmd/format/format.go:304`): an instance with `Linting = FALSE`,
  `FatalUnmatched = TRUE` and no faults shows it. `Terminates` exempts the two waits.
* A deletion that no linter opted in to stage is staged, when another opted-in
  linter wrote the path first (GitFixesDeletion).
* Four generators in a chain whose names run against it need ten patches; the
  limit leaves room for nine and a confirming pass. The tree is current, and
  the run says that it did not converge (CodegenRepairLongChain).
* A conform that stops between flake.nix and the overlay it imports is never
  completed: the next one takes the flake as conformant (AdoptionOverlay).

Seen with an instance that is no longer kept, or while translating:

* After a failed cache transaction nobody drains `updateCh`, and jobs block in
  their release hooks, so that `walker.Close`, which would report the failure, is never
  reached. It takes more releases after the failure than the channel has room for, a
  batch of files per CPU (`walk/cached.go:152`), so a small tree never sees it.
  `Terminates` exempts it (`HooksBlocked`).
* `--fail-on-change` counts what formatters change, not what the linters' repairs
  rewrote before; "Exit with error if any changes were made during execution"
  (`docs/site/getting-started/configure.md:209`).
* The key of a whole-tree check leaves out the directory in which the check runs, and its
  executable: after a change of `working-dir`, or of the tool behind the same
  command, an entry of before is a hit and the tree is called clean, although "A config
  change or any added, removed, or modified matched file changes the key"
  (`format/check.go:236`). A formatter's key has the executable but not the directory:
  files are skipped as formatted. In the models two configs may have one key
  (`FormatterKey`, `CheckKey`), and `CleanIsClean` and `DoneIsFormatted` claim no more
  than that some config of the same key is satisfied.
* A flake whose head is a bare `eachDefaultSystem`, inherited by an outer let from
  flake-utils, gets an input `utils` that its outputs pattern does not name
  (`flakeedit.go:315`); with a strict pattern it no longer evaluates. The comment
  says that conform adds only what "the recognized shape guarantees the outputs pattern
  names" (`flakeedit.go:338`). `WiringResolves` exempts this one input.
* An artifact that is cached as data stays without its mode when a profile
  declares it executable, and a directory that another profile has filled may come
  first on PATH: the name of a tool finds another one (`profile/resolve.go:267`).
* A refused amend restores the paths it would have committed, not the files
  that were dirty or untracked and that it rewrote as well.
* A second `conform --overwrite <domain>` on a checkout whose placeholders have
  been filled is refused as a conflict: the preflight compares with the template
  as it is served.
* "exactly the files the template wrote, never a pre-existing user file"
  (`bootstrap_post.go:107`): a file that the user saves while `nix flake init` runs
  differs between the snapshots too, is filled and staged.
* flakeclobber reads every flake before nix parses any, and writes them after:
  what is saved in between is overwritten.
* `os.WriteFile` truncates before it writes. A command that is killed then loses
  the file, an existing flake.nix or overlay included; the artifact cache, which
  writes beside the file and renames, does not.

## 7. Not modelled

* Configuration (`config/config.go`), rulejq, the nix modules, the templates and
  the docs: parsing, a pure evaluator, packaging. They keep no state that a
  concurrent or failing step could disturb; what a configuration says is a constant
  of the models.
* Walker: one reader; several roots, and the temporary file of stdin, are left out.
* Linter repairs: streams and the batching of arguments. Check mode: the sandbox's
  files and the lister's shutdown.
* Flake parser: the grammar and the offsets. A wrong offset would corrupt a
  file in a way that no set of names shows; flakeclobber has nix parse its result,
  conform has not.
* Command line and statistics: dispatch is an action of `GitFixes`, the rest keeps no state.
* Profiles: what runs the linters afterwards is check mode. Adoption: the choice of
  a template (prompt, papi) precedes every change; the user removes no file.

Hazards that no property covers have a note in `PROJECT.json` that says why.
