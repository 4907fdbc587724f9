# A specification of lnpm

lnpm links npm packages under development into the projects that use them. It
keeps every published build in a content-addressed store, records who consumes
what in a bbolt database, and puts a copy of a build in each project under
`.lnpm/`, with a symlink in `node_modules`. Every command is one process; there
is no daemon.

What goes wrong in such a program is seldom in a function. It is in what the
store, the database, three files of the project and two directories say about
each other after a command failed half way, after a machine lost power, after a
drive was unplugged, or while another command runs. The modules here model that:
the control of the code, with the data it moves reduced to what the properties
tell apart. TLC checks them on small instances. TLAPS proves for all instances
what the database, the store, the linker, the commands, their batches, their
waits for each other, gc's judgement of projects, the packing and the self update
promise.

`PROJECT.json` lists the runs, the mutants that show each property can fail, the
source lines behind every definition, and the hazards the properties are for.

## 1. The system

### Components, their state and their operations

| Component | State | Operations that change it | Modelled by |
|---|---|---|---|
| Registry, `internal/db` | the buckets of `~/.lnpm/lnpm.db`: package records by id, name index, tags, file lists, projects and path index, links and two link indexes, schema version and one id counter | publish a version, set and delete a tag, delete a package, insert a project, set its device, delete it, insert and delete a link, migrate | `LnpmDB`, `LnpmRegistry` |
| Store, `internal/store` | `~/.lnpm/store/<name>/<hash>/` with a completeness marker each, temp directories, two sentinels | `New` (backfill of markers, protection pass), `Store`, `RemoveEntry`, the temp sweep | `LnpmStore`, `LnpmBuilds` |
| Linker, `internal/link` | in a project `.lnpm/<pkg>` with a manifest, `.lnpm/.tmp-*` and `.tmp-*.old`, `node_modules/<pkg>` | `Link`, `LinkSource`, `Unlink`, the leftover sweep | `LnpmLink` |
| Commands, `internal/cli`, and the lock file, `pkg/lockfile` | `package.json`, `lnpm.lock`, `lnpm.lock.retreat`, and all of the above | add, pull, push, publish, tag, gc, remove, retreat, restore; add of several packages, push to several projects, publish --all | `LnpmProject` (one package), `LnpmBatch` (several), `LnpmHooks` (waiting) |
| Hooks, `internal/hooks` | none of their own; a process, its goroutines, the lock it waits for | the scripts each command runs before and after what it does | `LnpmHooks` |
| Reachability, `cli/reachable.go`, gc, forget | the device number in each project record | gc's scan, device re-recording and collection, forget | `LnpmReach` |
| Packing, `internal/pack` | the list of files so far | one walk over a source tree, which prunes, skips, fails or takes each path | `LnpmPack` |
| Self update, `cli/update.go`, `internal/update`, `installmethod`, `releasekeys` | the binary, its `.bak`, staged copies | check, download, verify, back up, install, put back | `LnpmUpdate` |
| `internal/pkgjson`, `fsutil`, `workspace`, `validation`, `gitignore`, `config`, `shellcmd`, `ui`, `debug` | files they read or write once | JSON editing, atomic write, globbing, settings | not modelled (their one effect is a step of the commands' modules where there is one) |
| Reports: status, list, check, doctor, completion, config | none | print | not modelled |

### How they interact

    add, pull, push, ...  --- transactions --->  database     (file lock, held
         |    |                                                to process exit)
         |    +--- Store, CheckComplete, RemoveEntry --->  store
         |
         +--- Link, Unlink --->  .lnpm, node_modules
         +--- one rename each --->  package.json, lnpm.lock, lnpm.lock.retreat

* The database's exclusive file lock is the only mutual exclusion between
  commands. `GetDB` takes it, waits thirty seconds at most, and the process
  holds it until it ends. The store is opened after it. So a publish and a gc
  never run together, and the sweeps of temp directories have no other guard.
* `retreat` alone goes on when it cannot open the database, and `retreat` and
  `restore` read project files before they wait for it.
* `publish --all` packs, stores and runs hooks in several goroutines of one
  process; add links one goroutine per package, push one per project.
* A hook or lifecycle script is the user's program. It runs while its command
  waits, in push and after a publish with the database open, and may run lnpm.
* `lnpm update` takes no lock: two of them share the binary and its backup.
* Everything else that touches a project or a source tree (editors, builds,
  package managers, a user at a shell, the machine's mounts) takes no lock.
* Nothing spans two of the stores of state: a command is a series of single
  transactions and renames, any of which may be the last.

### What is hard here

Crashes between two steps; a failed step in the middle of a series; values read
before the lock and used after it; a directory edited while it is being copied,
verified or swapped; a build collected while something still names it; an id
counter shared by four kinds of row; a drive that is away and looks like a
deleted directory; a command that waits for a script that waits for the
command's lock; a batch of which one part fails after the files were saved for
all of them; ignore rules whose order is the whole of their meaning, asked by a
walk that prunes; a binary that is replaced while it runs. `PROJECT.json` has the
list, each at its line, with the properties that would catch it.

### What makes each component correct

* Registry: the buckets agree; a moved tag carries its followers and no pin; an
  insert never lands on a row in use; a transaction is what it says it is.
* Store: what a read path accepts is a whole, sealed build that never changes;
  removal and interrupted removal are never taken for one; writers keep their
  temp directories.
* Linker: a link that succeeds leaves exactly the build; nobody sees a mixture;
  one that fails loses nothing.
* Commands: the user's specifier survives; a row names a build that is served; a
  pin stays; pull and restore do what they say; nothing retreated is forgotten.
  What a batch does not report failed is true of the copy, the lock file,
  `package.json` and the row at once, and what it rolls back is in none.
* Hooks: every command ends; a publish does not starve the scripts that build
  what it packs; one package's failure stops no other.
* Packing: what is published is what the rules say, whatever the walk pruned or
  could not read; what is reserved never is; a secret only when asked for.
* Self update: only a verified release is ever run, and a binary is always there.
* Reachability: gc takes nothing from a project that exists, even one that is
  away, and still collects what deleted projects consumed.

## 2. The modules

`LnpmRegistry` is what the database promises: which builds are stored, which
build each channel names, what each project consumes, and whether it is pinned.
One action per method. It has no run of its own: `LnpmDB` implements it and
`LnpmProject` uses its actions.

`LnpmDB` is the database, on buckets and ids. Each action is one bolt `Update`
transaction. A method that returns an error rolls back and is no step. The
helpers keep their names in the code (`moveLinks`, `Retagged` for the set of
tags `setTagTx` moves, `Previous` for its `previous`). The refinement mapping
into `LnpmRegistry` goes through the lookups the commands use
(`GetPackageByName`, `ResolveTag`, `GetLinksForProject`, ...), so it says what a
reader can observe and not what the buckets happen to hold. `Init` is an empty
database, or one left by a release that had no tags.

`LnpmBuilds` is what the store promises its readers: a build appears whole, in
one step, never changes, and disappears in one step.

`LnpmStore` is the store under it, file by file: a directory per build with its
marker, its write bits and, for the properties, the release that wrote it. A
file's content is the build it was copied from, so a source that is edited while
it is copied shows. `Init` is every store an earlier release can have left,
including the ruins of interrupted removals.

`LnpmLink` is one package in one project: `.lnpm/<pkg>`, its manifest, temp
entries, directories set aside, the `node_modules` link. Edits, deletions,
crashes and gc's sweep happen between any two steps. A file's content is its
bytes: the modes in a manifest, which a relink compares with the build's and
never with the disk (`link/manifest.go:277-282`), only narrow the set of files it
tries to carry over, so `Scan` takes any subset (`sameMode`). `dirty`, `touched`
and `prev` are history for the properties.

`LnpmProject` composes: one package, one consuming project, each command a
process with a program counter. It uses the actions of `LnpmRegistry` and
`LnpmBuilds` for the database and the store (each a single step, which is what
`ImplementsRegistry` and `ImplementsBuilds` justify), and takes a link to be one
step, which `NeverHalfLinked` and `PreviousSurvives` justify. A behaviour
belongs to one scenario (`scene`): the commands it runs, the tags they name,
whether steps may fail and processes die anywhere (`Faults`), and how many run
at once. One run so asks every property of every scenario; two of the
properties speak only of the scenarios without failures (`Alone`). A retreat
that cannot open the database goes on without it. `was` is history.

`LnpmBatch` is what `LnpmProject` leaves out by having one package and one
project: an add of several, with its `rollBack` of the ones whose
`package.json` could not be written, after `lnpm.lock` was saved for all of
them, and with `--pure`, which leaves `package.json` alone; and a push to several
projects, some of which fail. Each goroutine replaces a copy as the linker does,
by two renames: `Relink` sets the old one aside (`aside`), where a failure may or
may not put it back and a death leaves it. What happens within the building of
the new copy is `LnpmLink`'s. It uses `LnpmRegistry` for the rows. One command
runs at a time.

`LnpmHooks` is who waits for whom: slots for processes, the file lock, a
process's `sync.Once`, its goroutines, the scripts they run and the lnpm those
run. `Plan` is the order of scripts, opening the database and writing for each
command, read off its source. What a command writes is one step here.

`LnpmPack` is one call of `pack.Pack`: `filepath.Walk` as a work list, and what
its callback does with a path as actions (`SkipUnreadable`, `Abort`, `Prune`,
`Descend`, `Collect`), over the ignore matcher with its nested files,
the built-in lists, `files` and `main`. What it should publish is stated apart
from the walk (`Published`) and compared with what it did. Patterns are
sequences of segments; what a segment with a `*` matches is a constant, and a
pattern matches a path when its segments can be laid along it (`Match`).

`LnpmUpdate` is the replacement of the binary, one file operation per step, with
updates that overlap, fail at any step and die after any. What the server sends
is any archive, checksums and signature. `crossed` and `torn` are history.

`LnpmReach` is the part of gc and forget that looks at the disk: filesystems
with device numbers, mount points, directories, and the two looks
`classifyProjectDir` takes at a path, between which the world may change.
Whatever reads a device may get none (`DeviceIDOfPath`: the read fails, or the
filesystem has no number to give), and every caller's case for that is there.
`origin`, `raced` and `blind` are history.

The `*_proofs` modules hold the proofs (section 4).

The `MC*` modules give TLC its sets and, where values are interchangeable, its
symmetry. Definitions whose comment
begins "A slip:" are not part of any specification: each is a plausible mistake
in the code, the mutant that a property must catch.

## 3. The runs

All values are model values. "Distinct" is what TLC reports; times are for two
workers on two cores.

| Run | Instance | Checks | Distinct states, time |
|---|---|---|---|
| `channels` | 1 package, 2 builds, 2 tags, 2 projects, ids to 6 | `TypeOK`, `Consistent`, `PinnedLinksStayPut`, `FollowersCarried` | 39 088, 25 s |
| `rows` | 2 packages, 2 builds of one file, 2 tags, 1 project, 1 device, ids to 7 | `RowsKeepTheirIdentity`, `DeviceRemembered`, `ImplementsRegistry` | 14 601, 90 s |
| `store` | 2 packages (one unlistable), 1 hash of 1 file, 2 goroutines, 2 temp names, 1 passing content | `TypeOK`, `WritersKeepTheirTemp`, `ServedIsWhole`, `NoLaundering`, `ImplementsBuilds` | 704 176, 85 s |
| `swap` | 2 builds of up to 2 files, 1 temp name | `TypeOK`, `LinkedExactly`, `NeverHalfLinked`, `PreviousSurvives` | 2 897 329, 60 s |
| `served` | 2 builds, up to 2 tags, 4 scenarios, up to 2 processes | `TypeOK`, `RowIsServed`, `PullMeansCurrent`, `PinnedStays`, `NothingForgotten`, `SpecifierSurvives`, `RestoreRebuildsExactly` | 2 055 623, 110 s |
| `batch` | 2 packages, 2 projects, 2 builds, 1 tag, 2 commands | `ReportIsTrue`, `ReferencedIsKept`, `PushReachesAll`, `SpecifiersSurvive` | 2 803 044, 130 s |
| `waits` | 3 processes, 2 goroutines, 2 packages | `TypeOK`, `EveryCommandEnds`, `PrePackScriptsMayRunLnpm`, `EveryPackageIsTried` | 69 309, 70 s |
| `drives` | 2 drives, 1 mount point, 4 device numbers, 2 projects, 1 build | `TypeOK`, `ConsumedIsKept`, `SkippedIsAway` | 752 144, 55 s |
| `pack` | 3 trees, 5 sets of ignore files, 10 of `files`, 4 of `main`, each path unreadable in turn | `NothingIsLost`, `NothingReserved`, `SecretsNeedConsent`, `CheckAgreesWithPack` | 161 910, 45 s |
| `update` | 3 releases, 3 updates, 2 at once | `OnlyReleasesRun`, `BinaryKept` | 8 075, 2 s |
| `sentinel` (violation) | a store whose sentinel may not be written, 1 package, 2 files | `ServedIsWhole` | |
| `pure` (violation) | publish, add --pure, remove | `SpecifierSurvives` | |

### What they show

* `channels`, `rows`. After every transaction every bucket agrees with every
  other (nine named parts of `Consistent`). Moving a tag carries the links that
  follow it and only those, also when `latest` moves along because nothing was
  reachable by the bare name. Six ids are two builds, two projects and a link in
  each, the least in which one move carries two links and a third tag operation
  finds them. In `rows` packages, links, projects and file rows
  compete for ids, and every transaction is checked to be one of the registry's.
  Deadlock is not checked there: the counter's bound stops the inserts.
* `store`. Two goroutines finalize the same hash while their source is edited,
  gc runs before and after, and any command is killed anywhere, over the stores
  of every earlier release. An entry is served from the rename to the removal
  of its marker and is the same bytes all that time; the backfill never vouches
  for an entry of a store that has markers. One file is enough: an entry that
  lost part of its tree shows as an unmarked directory that is empty, and one
  that lost only its marker as one that is not. The package that cannot be
  listed is the case that makes the backfill abstain. Two temp names are one per
  writer; a name left by a dead one is in the way until the sweep.
* `swap`. Two builds that change one file and drop the other give a carried
  file, a replaced file, a stray and a missing one; `Edited` adds a file that is
  not regular. Single files go missing when an `Unlink` is cut short. One temp
  name bounds the leftovers to one interrupted link, and a link waits when a
  leftover has the name (the code would draw another). That a sweep spares what
  a link is working on is a part of `PreviousSurvives`.
* `served`. Four scenarios (`MCLnpmProject`): every command but a push on two
  channels without failures; `add --pure` among those that do not remove what it
  adds; every command on one channel with any step failing and any process
  dying; and two commands at once, a retreat that does not wait for the database
  among them. Two builds are the least in which a row, a lock file and a disk
  can disagree. What a scenario leaves out it leaves out because a property is
  then false, and section 5 says where.
* `batch`. An add of two packages and a push to two projects, in either order,
  into projects that have the user's specifiers, in either field, or an earlier
  add's. Any step may fail or be the last, the ones between two renames included.
  What package.json refers to is then in place or set aside; that it is in place
  is not so, and not claimed, between the two renames and after a death or a
  failed rollback there (section 5). `MCInit` leaves out new projects whose
  `package.json` has both packages alike: which field a package is in matters to
  that package alone. Two packages are one that fails and
  one that goes on; two commands let a push find what a failed push left
  behind. Deadlock is not checked: the bound on commands stops it.
* `waits`. One typed command, the scripts it runs, an lnpm in those, and its
  scripts' lnpm in turn: the third process is the least that waits behind two
  others for the lock the first one has. Any may be killed, and what it started
  goes on. `publish --all` has two goroutines that share one `sync.Once`.
* `pack`. Each case the rules tell apart is in one of the trees, by name and by
  depth, crossed with every `files`, `main` and set of ignore files, and then
  with each single path failing to be read. Two levels of directories let an
  inner ignore file overrule an outer one and a pruned directory hide a rule.
  Deadlock is not checked: a pack ends.
* `drives`. Two drives take turns at one mount point and may come back with a
  number that nothing had before; numbers are not recycled, which is the case
  `reachable.go` documents as misjudged. Any read of a device may yield none, when
  a directory is recorded and when gc compares. Four numbers allow one renumbering
  beyond the three filesystems. A second project on the root filesystem
  shares the build with the one on the drive.
* `update`. Three updates, two of which may overlap: the third runs what the
  first two left. Any step fails or is the last. Three releases are one to run,
  one to install and one that came out meanwhile. Deadlock is not checked: the
  bound on attempts stops it.

### Fairness

Only `waits` needs it: `EveryCommandEnds` is a leads-to. `Fairness` is weak
fairness of each process's `Progress`: the operating system keeps running a
process that can run, and the timer of `bolt.Open` (`db.openTimeout`) expires.
Nothing is asked of the order of its goroutines, and starting a command,
killing one and being refused at a bound are under no fairness. That a script
ends once what it waits for has ended is assumed: it is the user's program. The
property is what the timeout is for: without it a push whose script runs lnpm
waits forever. The run has no symmetry, which would be unsound for it.

## 4. The proofs

| Module | Theorem | Establishes |
|---|---|---|
| `LnpmDB_proofs` | `TypeCorrect`, `Consistency` | `Spec => []TypeOK`, `Spec => []Consistent` |
| `LnpmDB_proofs` | `Identity`, `PinsHold`, `FollowersFollow`, `DevicesKept` | the four step properties of `channels` and `rows` |
| `LnpmDB_proofs` | `Refinement` | `Spec => ImplementsRegistry` |
| `LnpmStore_proofs` | `TypeCorrect`, `Kept`, `WholeServed` | `Spec => []` of `TypeOK`, `WritersKeepTheirTemp`, `ServedIsWhole` |
| `LnpmStore_proofs` | `NothingLaundered`, `Implements` | `Spec => NoLaundering`, `Spec => ImplementsBuilds` |
| `LnpmLink_proofs` | `TypeCorrect`, `Linking`, `OneBuild`, `NothingLost` | `Spec => []` of `TypeOK`, `LinkedExactly`, `NeverHalfLinked`, `PreviousSurvives` |
| `LnpmReach_proofs` | `TypeCorrect`, `Kept`, `Away` | `TypeOK`, `ConsumedIsKept`, `SkippedIsAway` |
| `LnpmProject_proofs` | `TypeCorrect`, `PinnedNeverMoved` | `TypeOK`, `PinnedStays`, in every scenario |
| `LnpmProject_proofs` | `RowsServed`, `NothingIsForgotten`, `SpecifierKept` | `RowIsServed`, `NothingForgotten`, `SpecifierSurvives`, each in the scenarios it names |
| `LnpmProject_proofs` | `PullsAreCurrent`, `RebuiltExactly` | `PullMeansCurrent`, `RestoreRebuildsExactly`, likewise |
| `LnpmBatch_proofs` | `ReportedTruthfully`, `CopyKept`, `AllReached` | `Spec => []` of `ReportIsTrue`, `ReferencedIsKept`, `PushReachesAll` |
| `LnpmBatch_proofs` | `SpecifiersKept` | `Spec => SpecifiersSurvive` |
| `LnpmHooks_proofs` | `TypeCorrect`, `NoneIsPassedOver` | `TypeOK`, `EveryPackageIsTried` |
| `LnpmHooks_proofs` | `PackScriptsMayRunLnpm` | `Spec => PrePackScriptsMayRunLnpm` |
| `LnpmRelease_proofs` | `PacksWhatTheRulesSay`, `NeverReserved` | `Spec => []NothingIsLost`, `Spec => []NothingReserved` |
| `LnpmRelease_proofs` | `SecretsByConsent`, `CheckSaysWhatPackDoes` | `Spec => []SecretsNeedConsent`, `Spec => []CheckAgreesWithPack` |
| `LnpmRelease_proofs` | `Genuine`, `Kept` | `UpdateSpec => []OnlyReleasesRun`, `UpdateSpec => []BinaryKept` |

Every property that the passing runs check is proved but `EveryCommandEnds`,
for every set of names, builds, files, tags, paths, devices, drives, mount
points, releases, processes, goroutines, temp names, source trees, patterns,
scripts and edits, and every bound. Those of `served` are proved under the
hypotheses on scenarios that "The commands" below names.

**The database.** The inductive invariant is `IInv == TypeOK /\ Consistent`. No
part of `Consistent` is inductive alone: that a link names rows
(`LinksNameRows`) needs that deleting a package finds all its links in the index
(`LinkIndexesExact`); one link per name needs that a carried link that would be a
second one is dropped, which needs the same index and distinct records; that a
fresh id is free needs `IdsAreFresh`, which every other part needs at an insert.
The argument goes action by action. `FindPackage` says what the scan for a
record returns; `SetTagType`, `SetTagLinks` and `SetTagConsistent` treat
`setTagTx` once, for publishing and for tagging; `ProjectUpdate` and
`LinkWrites` say what remains true of the other buckets when one row is written;
then there is one lemma per action, and `NextConsistent` puts them together.

The second part proves what a step does to rows that are there, from the same
invariant: `RowsPresent` and `FindRecord` say which rows and which record a
method sees, `CarriedExactly` which links a moved tag takes along, `TagMoves`
what that leaves of all others, and one lemma per kind of method the effect on
rows. The third part says what each lookup answers before and after each
method's writes, and shows the step that gives in the registry: the published
set, the channels, the projects and what each consumes. The invariant is needed
because a lookup goes through an index, and a lookup that finds no row and one
that finds a stale one would both map to nothing.

**The store.** `Locked` says who has the lock; `Writing` that each goroutine
past `newTempDir` has a directory of its own (`Apart`), which is whole and sealed
before it is marked and marked before it is renamed (`Filled`). With `TypeOK`
these are inductive for any store, and give `Kept`. What is served needs
`Legacy`, about the markers of earlier releases: until the backfill has decided,
an entry that can be listed is of 1.x or still has its marker, and a gc that
runs while it is undecided finds only the former, since one marker would have
decided it. So the backfill marks nothing but 1.x entries. This is where the
sentinel matters: `WholeServed`, `NothingLaundered` and `Implements` assume
`~SentinelMayFail`, and `sentinel` shows the first is false without. `Implements`
is the refinement: each step of a goroutine, the backfill, gc or a crash is one
step of `LnpmBuilds` or none.

**The linker.** `Underway` says what a job in each of its steps has reserved;
`Constructed` what the scan, the verification, the workers and the manifest have
established about files nobody else has touched since the start; `Wholes` that
what is in place, and what was set aside during the swap, is one build;
`Finished` and `Previous` where the new package and the old one are. `Linking`
speaks of bytes, as `LinkedExactly` does: of modes it says nothing.
`LinkedExactly` needs `Constructed` because a file carried over was verified
several steps before it is copied, and an edit in between must be one that
`touched` knows of. `Telling` treats whoever else writes in the project once and
for all: it takes files out of what `Constructed` speaks of and changes nothing
else it says.

**The commands.** The invariant of `LnpmProject_proofs` comes in layers, because
what the commands promise depends on what runs beside them, which is what a
scenario says.

* `Base` holds in every scenario. `Placed` says which command can be at which
  step and what it has in memory there, `Holding` that whoever touches the
  registry or the store has the database, `Spared` that no row names what gc is
  about to take and that no row that pull moves is pinned. Each is needed at a
  step that comes several after the one that made it so, with other processes in
  between, which `Holding` keeps out. `TypeCorrect` and `PinnedNeverMoved` need
  no more.
* `Served` adds that who is about to record a build has it in the store
  (`Brought`) and, where nothing fails, that a record has its build except while
  gc is between the two (`Recorded`). `RowsServed` assumes that in scenarios with
  failures there is neither tag nor `add --link`, which ask for the record alone
  (section 5): with them it is false.
* `Consistent`, `Kept` and `Right` are about scenarios with one command at a
  time. `Consistent` says that what a command read is so until it changes it,
  `Kept` where the user's specifier is at each step of each command (`Saved`
  between two, `Saving` within one), `Right` which build is on the disk while a
  pull, a retreat or a restore goes on.

* `Tracked` is about the other scenarios, where what a command read before it
  waited for the database may have changed since, and a retreat may not wait at
  all. There is no specifier and nobody remembers one (`Unsaid`), or the snapshot
  has it, which nothing but a restore takes back, or (`Said`) it is in
  `package.json` or in the lock entry and every command that will write either
  of them back carries it. The database's lock is what keeps an add and a remove
  out of each other's steps (`Unshared`); the retreat that goes on without is
  harmless to the specifier because it only writes back what has it.

`NothingIsForgotten` assumes that nothing runs beside a restore, which reads the
snapshot before it has the database. `SpecifierKept` assumes, of scenarios with
one command at a time, that nothing removes what `add --pure` added, which is
what `pure` shows to be necessary; a step may fail, and a process die, anywhere.
Of scenarios with several it assumes that there is neither `restore` nor
`add --pure`, and no `remove` where a step may fail: that can leave a snapshot
without the package, which a retreat with an old copy of `lnpm.lock` merges into
(section 5).
`PullsAreCurrent` and `RebuiltExactly` assume that where nothing fails nothing
pushes, since a push leaves `lnpm.lock` behind (section 5). The scenarios of
`served` meet all of these.

**Batches.** `Reading` and `Writing` carry the specifiers over the two saves of
`lnpm.lock`: until the first one everything the batch knows is still in
`package.json`; from then on the file has an entry for whatever `package.json`
may refer to, and what may still be rolled back has not lost its specifier
there. `Referenced`, that a reference has a lock entry and a copy, in place or
set aside, is what keeps `rollBack` away from an earlier run's package, and it
holds only because an entry goes into the file before the reference does. That a
swap loses no copy wherever it stops is `Renames`, once for adds and pushes.
`Linked`, `InFiles` and `InRows` follow the packages that have not failed through the phases, which is
what the report is about, and `Reached` says that who is on the pushed build and
has no copy of it is still to be visited or has been named.

**Waiting.** Each process's accounts are `Own`: every package is in exactly one of
the channel, a goroutine's hands and the results (`Accounted`, `Within`,
`Apart`), a goroutine past the write has its package recorded (`Going`), and a
publish of one package has asked for the database only once its pack is over
(`Opened`). `Family` is the tree of scripts: the commands above a process are
alive, a chain (`Chain`, `Nested`), and each has a goroutine that waits for the
next one down (`Awaited`). A process that is killed takes itself and all above
it out of that tree for what it started, and that no more and no less is left
needs the chain. `PackScriptsMayRunLnpm` then follows without looking at the
rest of the system: who has the lock and is waited for from below is at a hook,
and a publish at a hook with the database open is past its write.

**Reachability.** `LnpmReach_proofs` has the invariant `TypeOK`, `Numbered` (no
two filesystems that are there have a number in common, and none will get one
that was in use), `Recorded` (a number read from a filesystem is no other filesystem's, then or
ever after), and `Right` (what a scan that is under way has judged is still
so, unless a mount came between or no device could be read). `ConsumedIsKept` is
about one step, but the step acts on what a scan found several steps before,
which is what `Right` carries over.

**Packing.** `WalkInv` says of the walk at any moment that nothing the rules keep
out has been entered or collected, above what is collected or still to be visited
included, and that what they publish (`Published`) is collected, or is still to
be visited or lies below what is. The last is where each shortcut of the walk is
answered for: a pruned directory has nothing published in it because `excludes`
and `isHardReserved` speak of everything below (`NothingBelow`); a directory
that could not be read, and was skipped, has none because an entry of `files`
that selects a path may reach every directory above it (`SelectedIsReached`). For
that lemma the pattern is laid along the path, and cut where the directory ends.
At the end nothing is left to visit, and the git filter takes nothing more away,
since each name it looks for is reserved as well. The other three properties
follow from `packed = Published`, and from what the last matching line decides:
a verdict that turns from excluded to published comes from a line with a `!`
(`ApplyIs`, `OnlyByNegation`). Statements about every prefix of a path, or each
verdict along the chain of ignore files, are proved by the least number that
they could fail for (`Least`, which is the library's `WFMin` for the naturals).

**The self update.** `Sound` says that what is staged, installed or backed up is
a release, and that an updater past verification has one; `Placed` says where
the binary is at each step of a swap. `Placed` holds while no two updates are in
the swap at once, which is what `crossed` records. It shares
a module with packing: both are about what is released, and neither
knows of the other's state.

The assumptions are `DBAssumption` (the default tag is a tag, ids reach at least
3, which the migrated database has, file counts are naturals, the markers for
"nothing" are not values), `StoreAssumption` (there is a file, a package that
cannot be listed is a package, the marker for "nothing" is not a value),
`LinkAssumption` (a build has a file, and builds, contents, names and the values
for "nothing", "live" and "odd" are distinct), `ReachAssumption` (the values that stand for states of
a scan, numbers and builds are distinct, places are directories),
`PackAssumption` (names are strings, lower-casing a name twice is lower-casing it
once, `package.json` is a name in lower case that no pattern of the default list
matches, what `*` matches are names, patterns are sequences of segments, and a
tree has the directories of everything in it), `UpdateAssumption` (releases are naturals, a foreign or partial binary is none),
`BatchAssumption` (the default tag is a tag, the bound on commands is a number,
no package is a project, and the marker for "nothing" is not a value),
`ProjectAssumption` (the default tag is a tag,
the marker for "nothing" is not a value,
there are finitely many processes, and a file without the entry is neither an
entry nor no file) and `HooksAssumption` (there is a goroutine and a package,
and the marker for "nothing" is not a value). TLC evaluates each in the runs of
its module.

Only model-checked: `EveryCommandEnds`, which needs fairness and `ENABLED`, out of
the prover's reach.

## 5. What was found

Runs that end in a violation, each from a behaviour of the code that a comment
or the documentation rules out:

* `sentinel`: `recordBackfillDecision` swallows a failed write of its sentinel
  (`internal/store/entries.go:116`) because "the only cost is that the next
  store open scans and decides again". When gc then takes the store's last
  marker and is killed before the tree is gone, that next open finds no marker,
  marks what is left and serves it.
* `pure`: `add --pure` leaves `package.json` alone and records no specifier;
  `remove` takes a missing specifier for "there was none" and deletes the
  dependency (`internal/cli/remove.go:96`), and `retreat` does the same
  (`internal/cli/retreat.go:232-244`).

Met while modelling, outside what the passing runs include, and not run:

* `restore` takes an entry out of the snapshot before `recordRestoredLink` has
  written the row (`cli/restore.go:256`). When that fails, the run counts as
  failed but the entry is gone, against the comment at `restore.go:325-327`. The
  re-run then has nothing to do, and the link has no row.
* A retreat that could not rewrite `package.json`, an add over the reference it
  left, and a restore that finds the name in `lnpm.lock` together drop the only
  copy of the specifier (`cli/restore.go:150`).
* `retreat` reads `lnpm.lock` before it waits for the database, up to thirty
  seconds (`cli/retreat.go:26`), and when there is a snapshot already it merges
  that copy into it and deletes the file (`cli/retreat.go:512`). What an add that
  it waited for has put into the file since is in neither, the specifier
  included. With one package this needs a snapshot that is there without it,
  which a `remove` whose last step fails leaves behind; with several any earlier
  retreat does.
* push and `publish --push` relink a project without touching its `lnpm.lock`
  (`cli/publish.go:533`), so a later retreat snapshots the build before the
  push and restore links that one; and pull, which compares the channel with
  `lnpm.lock` (`cli/pull.go:187`), may answer "already up to date" about another
  build than the one on disk. So the scenarios in which nothing fails leave
  pushes out.
* `rollBack` leaves a package of an earlier run alone because "its fresh lock
  entry already describes what the link phase just wrote" (`cli/add.go:361`).
  When `package.json` could not be read no entry was made, and the old one
  describes what was there before. And when the second save of `lnpm.lock`
  fails after a rollback, the file keeps an entry for a package that is
  unlinked.
* An add that dies between `lnpm.lock` and the row leaves the two disagreeing
  about the pin. Nothing says which one wins.
* The same package named twice in one add is linked by two goroutines at once.
  `LnpmBatch` takes a set of packages, so this is not in it.
* gc removes the store entry before the record (`cli/gc.go:516`). Killed in
  between, it leaves a record that resolves. A publish of the same content then
  finds it and stores nothing (`cli/publish.go:279`), and a tag put on it moves
  projects onto a build nothing serves. So the scenarios of `served` with failures
  leave the tag command out.
* `Store` does not hash what it copied (`store/store.go:242`): a source edited
  after `Pack` is committed under the hash it had. `LnpmStore` lets that happen.
* Link removes the directory it set aside file by file and ignores a failure, so
  what gc finds after a crash may be part of a package, where the prompt calls
  it a complete copy (`cli/gc.go:554`).
* The backfill marks 1.x entries with the current schema, and 4.x serves them,
  where ADR-0009 has pre-4.0.0 state treated as absent.
* `classifyProjectDir` stats the path and its ancestor's device in two calls
  (`cli/reachable.go:141`). A drive mounted in between turns a project that is
  there into one that is gone. `ConsumedIsKept` exempts exactly the projects
  (`raced`) a mount came between. It also speaks of the directory the recorded
  device was read from: a directory at the same path on another filesystem
  shares the record and is not protected.
* A recorded device protects a project only while a device can be read now: when
  none can be along the whole path (`cli/reachable.go:141-146`), a directory that
  does not stat is gone, as one without a recorded device is, and gc takes the
  build of a drive that is away. The comment at `reachable.go:24-29` says so
  ("none can be read for the path now"). `ConsumedIsKept` exempts exactly the
  projects judged so (`blind`); without that exemption, or without `raced`, TLC
  finds it violated.
* Killed between the two renames of a swap, or when the rename back fails
  (`link/link.go:398-411`, `508-520`), a link leaves no `.lnpm/<pkg>` while
  `package.json` points there. The old copy is next to it under a temporary name,
  which a failed rollback's error tells the user and a crash does not, and
  nothing puts it back. `ReferencedIsKept` is about the copy for that reason.
* A mode changed by hand on a linked file survives a relink that reports
  success, since the mode on the disk is not compared (`link/manifest.go:277-282`,
  on purpose). `LinkedExactly` is about bytes.
* The comment at `store/entries.go:55-56`, that nothing serialises a store open
  against a running gc, is stale: every command takes the database lock first.
* The backfill's decision is withheld while a package cannot be listed. When
  such a package holds the last marker, gc is killed removing it, and it can be
  listed again, the next open decides over what is left: the same way to a
  served ruin as `sentinel`, without a write that failed. `store` leaves it out
  by having a package that cannot be listed stay so.
* Two `lnpm update`s at once share the binary and its backup
  (`cli/update.go:325`). One can back up what the other is installing, so that
  both names are gone for a moment, or install the older release over the newer.
  `BinaryKept` exempts exactly the behaviours (`crossed`) in which two were
  between the backup and the cleanup.
* An `.npmignore` that cannot be read is passed over
  (`internal/pack/pack.go:1793`), and the files it names are published:
  ADR-0001 has such errors fall on the side of publishing less.
* `README.md:676` says `.gitignore` is used when there is no `.npmignore`. The
  code also uses it when `.npmignore` is there and has no rule in it.
* An ignore pattern whose last segment is `**` after one with a metacharacter
  (`x*/**`) is compared literally, and `dist/` in the root's ignore file matches
  only the root's `dist`, where git's rules would have any.

## 6. What is not modelled

* Functions from strings to strings: the package-name rules (`pack/name.go`), the
  rewriting of `workspace:` specifiers (`pack/workspacedeps.go`), JSON editing,
  version and specifier parsing, escapes, braces and character classes in
  patterns. They have no state, and unit tests reach them. Where a result
  matters elsewhere it is a choice (the build a pack yields, the answer to a
  prompt, the package an argument resolves to).
* What one system call does: `fsutil` writes to a temporary file and renames it,
  which is one step here; reflink, hard link and copy; modes other than the
  write bits of the store. So nothing is said of the modes a link leaves.
* Reports (status, list, check, doctor, completion), configuration, `.gitignore`
  editing, output. They read and print. Of `check`, its reading of the packing
  rules is in `LnpmPack`.
* Workspace globbing: `LnpmHooks` has the packages it finds as a set.
* The self update's version cache and notice, `go install`, which paths betray a
  package manager, and the signature scheme: a signature is genuine or not.
* Damaged database rows: dangling ids and records that do not parse. No
  transaction makes one (`Consistent`); reads that meet one refuse or skip it.
* pull, remove, retreat and restore over several packages. They are loops of
  what `LnpmProject` has for one, and keep no state between two packages but the
  lock file they save at the end.
* Restore to completion. That a snapshot entry whose build is served is linked
  and recorded once nothing fails any more would need re-runs by the user, which
  no fairness of the code provides.

`LnpmReach` takes an add to be one step although what is mounted could change
during it, and it keeps no tags: a tag only ever keeps a build from gc.
`LnpmProject` writes each file in one step because `fsutil` writes it through a
rename, and skips the crash inside a single link, which `LnpmLink` and `LnpmBatch`
cover. Its `LockAdd` is one step for what `runAddSingle` does in three, loading
`lnpm.lock` (`cli/add.go:605`), reading `package.json` (624) and saving (645). All
other commands that write these files wait for the database meanwhile; a retreat
that goes on without it may come in between, and is here before or after. What
the add then saves would be the specifier it read earlier, so the specifier is
no less safe there than here.

`CheckAgreesWithPack` is about the function that `lnpm check` asks, for any path.
The one path it asks about today, `lnpm.lock.retreat`, is reserved: no pack has it
whatever the rules say, so the property says nothing of it.

What remains to prove: what the hypotheses on scenarios leave out, where it is
true at all.
