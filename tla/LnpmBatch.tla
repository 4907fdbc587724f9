----------------------------- MODULE LnpmBatch ------------------------------
(***************************************************************************)
(* internal/cli: the two commands that work on several things at once, add *)
(* of several packages and push to several projects, with what each does   *)
(* when some of its parts fail.  A goroutine per package, or per project,  *)
(* links, by two renames where there is a copy already; the rest is one    *)
(* goroutine's, one file saved or one transaction per step.  Any step may  *)
(* fail, and the process may die after any.                                *)
(*                                                                         *)
(* How a build comes into the store, and what commands do to each other,   *)
(* is LnpmProject's business: here one runs at a time.                     *)
(***************************************************************************)
EXTENDS Naturals, FiniteSets

CONSTANTS
    Pkg, Project, Hash, Tag, Latest,
    Commands,   \* how many are run; bounds a behaviour
    NoDevice, None

ASSUME BatchAssumption ==
    /\ Latest \in Tag
    /\ Commands \in Nat
    /\ Pkg \cap Project = {}
    /\ None \notin Hash \cup Tag \cup {"live"}
    /\ None \notin [hash : Hash, orig : BOOLEAN, pinned : BOOLEAN]
                   \cup [hash : Hash, tag : Tag, pinned : BOOLEAN]

VARIABLES
    stored, channel, project, consumes,   \* the registry
    deps,       \* deps[q][x][f]: what package.json has for x in field f
    lock,       \* lock[q][x]: the entry lnpm.lock has for x
    disk,       \* disk[q][x]: what .lnpm/<x> is: a build, "live", or None
    aside,      \* aside[q][x]: what it was, while set aside with nothing in
                \* its place; None otherwise
    job,        \* the command under way
    spent       \* commands started

db == <<stored, channel, project, consumes>>
copies == <<disk, aside>>
files == <<deps, lock, disk, aside>>
vars == <<stored, channel, project, consumes, deps, lock, disk, aside, job, spent>>

R == INSTANCE LnpmRegistry WITH Name <- Pkg, Path <- Project, Device <- {}

Field == {"dependencies", "devDependencies"}
NoDep == [f \in Field |-> "none"]
Has(d, what) == \E f \in Field : d[f] = what

(* todo: what a loop or the goroutines have not come to the end of.        *)
(* moving: where a goroutine is between its two renames.  failed: what the *)
(* command will say failed; gone: the packages rolled back.  lock: the     *)
(* lock file in memory; new: the packages it had no entry for when it was  *)
(* loaded.  orig: those that package.json has the user's specifier for.    *)
(* want: what is linked, for as long as it matters.                        *)
Idle == [pc |-> "idle", cmd |-> None, specs |-> {}, at |-> None,
         dev |-> FALSE, live |-> FALSE, pure |-> FALSE,
         todo |-> {}, moving |-> {}, failed |-> {}, gone |-> {}, new |-> {}, lock |-> None,
         orig |-> {}, dirty |-> FALSE, want |-> [x \in Pkg |-> None]]

(* Each package published once; the user has a specifier for it in either  *)
(* field, or none; and an earlier add brought all of them to some projects.*)
Init ==
    \E h \in Hash, old \in SUBSET Project,
       user \in [Pkg -> {NoDep} \cup {[NoDep EXCEPT ![e] = "user"] : e \in Field}] :
          /\ stored = {<<x, h>> : x \in Pkg}
          /\ channel = [x \in Pkg |-> [t \in Tag |-> IF t = Latest THEN h ELSE None]]
          /\ project = [q \in Project |-> IF q \in old THEN NoDevice ELSE None]
          /\ deps = [q \in Project |-> IF q \notin old THEN user ELSE
                [x \in Pkg |-> [NoDep EXCEPT !["dependencies"] = "lnpm"]]]
          /\ lock = [q \in Project |-> [x \in Pkg |-> IF q \notin old THEN None ELSE
                [hash |-> h, orig |-> user[x] # NoDep, pinned |-> FALSE]]]
          /\ disk = [q \in Project |-> [x \in Pkg |-> IF q \in old THEN h ELSE None]]
          /\ aside = [q \in Project |-> [x \in Pkg |-> None]]
          /\ consumes = [q \in Project |-> [x \in Pkg |-> IF q \notin old THEN None ELSE
                [hash |-> h, tag |-> Latest, pinned |-> FALSE]]]
          /\ job = Idle
          /\ spent = 0

-----------------------------------------------------------------------------
At(pc) == job.pc = pc
GoOn(pc, todo) == job' = [job EXCEPT !.pc = pc, !.todo = todo]

(* A slip: the first failure ends a push.                                  *)
GiveUp(i) ==
    LET over == IF At("relink") THEN Project ELSE {i} IN
    job' = [job EXCEPT !.todo = @ \ over, !.moving = @ \ over, !.failed = @ \cup {i}]

(* What has failed is reported, and nothing more is done about it.         *)
Fail(i) == job' = [job EXCEPT !.todo = @ \ {i}, !.moving = @ \ {i}, !.failed = @ \cup {i},
                              !.want = [x \in Pkg |-> IF x = i THEN None ELSE @[x]]]

(* It has come to the end, and reports what failed.                        *)
Done ==
    /\ job.todo = {}
    /\ At("rows") \/ At("relink") \/ (At("link") /\ job.failed = job.specs)

Return ==
    /\ Done
    /\ job' = Idle
    /\ UNCHANGED <<db, files, spent>>

(* It dies and nothing is undone; or a step fails whose error ends the     *)
(* command, and nothing is undone either: the lock file cannot be loaded   *)
(* or saved, the project or the build cannot be recorded.                  *)
Kill ==
    /\ ~At("idle")
    /\ job' = Idle
    /\ UNCHANGED <<db, files, spent>>

-----------------------------------------------------------------------------
(* Link and LinkSource, as a goroutine for i does them: a copy that is     *)
(* there is set aside, the one that was built put in, and where that fails *)
(* the old one put back, unless that fails too.  With the new one in, the  *)
(* node_modules link can still fail.                                       *)
Relink(i, q, x, want) ==
    \/ /\ disk[q][x] # None
       /\ aside' = [aside EXCEPT ![q][x] = disk[q][x]]
       /\ disk' = [disk EXCEPT ![q][x] = None]
       /\ job' = [job EXCEPT !.moving = @ \cup {i}, !.want[x] = want]
    \/ /\ disk[q][x] = None
       /\ aside' = [aside EXCEPT ![q][x] = None]
       /\ \/ /\ disk' = [disk EXCEPT ![q][x] = IF job.live THEN "live" ELSE want.hash]
             /\ \/ job' = [job EXCEPT !.todo = @ \ {i}, !.moving = @ \ {i}, !.want[x] = want]
                \/ Fail(i)
          \/ /\ i \in job.moving
             /\ disk' = [disk EXCEPT ![q][x] = aside[q][x]]
             /\ Fail(i)

-----------------------------------------------------------------------------
(* RunAddMultiple.                                                         *)

StartAdd ==
    /\ At("idle") /\ spent < Commands
    /\ \E q \in Project, specs \in SUBSET Pkg, live \in BOOLEAN :
       \E dev \in BOOLEAN, pure \in BOOLEAN :
          /\ Cardinality(specs) > 1 /\ ~(pure /\ dev)
          /\ job' = [Idle EXCEPT !.cmd = "add", !.pc = "link", !.at = q, !.specs = specs,
                                 !.dev = dev, !.live = live, !.pure = pure, !.todo = specs]
    /\ spent' = spent + 1
    /\ UNCHANGED <<db, files>>

(* What a spec may name: the build of a channel, or one build, which pins. *)
(* Only what a bare name names can be linked live.                         *)
resolveAddSpec(x) ==
    {[hash |-> channel[x][t], tag |-> t, pinned |-> FALSE] :
        t \in {u \in Tag : channel[x][u] # None /\ (job.live => u = Latest)}}
    \cup {[hash |-> h, tag |-> Latest, pinned |-> TRUE] :
        h \in {k \in Hash : <<x, k>> \in stored /\ ~job.live}}

linkPackage(x) ==
    /\ At("link")
    /\ \/ \E want \in IF x \in job.moving THEN {job.want[x]} ELSE resolveAddSpec(x) :
             Relink(x, job.at, x, want)
       \/ Fail(x) /\ UNCHANGED copies
    /\ UNCHANGED <<db, deps, lock, spent>>

(* wg.Wait has returned.  If nothing linked, nothing else is touched; with *)
(* --pure, package.json is neither read nor written.                       *)
Load ==
    /\ At("link") /\ job.todo = {} /\ job.failed # job.specs
    /\ job' = [job EXCEPT !.pc = "read", !.lock = lock[job.at],
                          !.new = {x \in Pkg : lock[job.at][x] = None},
                          !.todo = IF job.pure THEN {} ELSE job.specs \ job.failed]
    /\ UNCHANGED <<db, files, spent>>

(* A slip: what an earlier run added is undone too.                        *)
rollBackAll(x) ==
    /\ job' = [job EXCEPT !.todo = @ \ {x}, !.failed = @ \cup {x}, !.gone = @ \cup {x},
                          !.lock[x] = None, !.want[x] = None, !.dirty = @ \/ At("write")]
    /\ disk' \in {disk, [disk EXCEPT ![job.at][x] = None]}

(* Only a package that this run added is undone; that it could not be      *)
(* unlinked is a warning.                                                  *)
rollBack(x) ==
    LET new == x \in job.new IN
    /\ job' = [job EXCEPT !.todo = @ \ {x}, !.failed = @ \cup {x}, !.gone = @ \cup {x},
                          !.lock[x] = IF new THEN None ELSE @, !.want[x] = None,
                          !.dirty = @ \/ (new /\ At("write"))]
    /\ disk' \in {disk} \cup (IF new THEN {[disk EXCEPT ![job.at][x] = None]} ELSE {})

(* The specifier the user has, in whichever field.                         *)
readPackageJSONDeps(x) ==
    /\ At("read")
    /\ \/ /\ job' = [job EXCEPT !.todo = @ \ {x},
                       !.orig = IF Has(deps[job.at][x], "user") THEN @ \cup {x} ELSE @]
          /\ UNCHANGED disk
       \/ rollBack(x)
    /\ UNCHANGED <<db, deps, lock, aside, spent>>

(* The entries to save: a specifier saved earlier is kept.                 *)
Entries ==
    [x \in Pkg |->
        IF x \notin job.specs \ job.failed THEN job.lock[x] ELSE
        [hash |-> job.want[x].hash, pinned |-> job.want[x].pinned,
         orig |-> x \in job.orig \/ (job.lock[x] # None /\ job.lock[x].orig)]]

(* A slip: package.json is rewritten before the lock file is saved.        *)
AddedLater ==
    /\ At("read") /\ job.todo = {}
    /\ job' = [job EXCEPT !.pc = "write", !.orig = {}, !.lock = Entries, !.dirty = TRUE,
                          !.todo = IF job.pure THEN {} ELSE job.specs \ job.failed]
    /\ UNCHANGED <<db, files, spent>>

LockSave ==
    /\ At("read") /\ job.todo = {}
    /\ lock' = [lock EXCEPT ![job.at] = Entries]
    /\ job' = [job EXCEPT !.pc = "write", !.orig = {}, !.lock = Entries,
                          !.todo = IF job.pure THEN {} ELSE job.specs \ job.failed]
    /\ UNCHANGED <<db, deps, copies, spent>>

(* The field to write is read again; the other one is cleared.             *)
writeLnpmReference(x) ==
    LET d == deps[job.at][x]
        field == IF job.dev \/ (d["dependencies"] = "none" /\ d["devDependencies"] # "none")
                 THEN "devDependencies" ELSE "dependencies"
    IN  /\ At("write")
        /\ \/ /\ deps' = [deps EXCEPT ![job.at][x] = [NoDep EXCEPT ![field] = "lnpm"]]
              /\ job' = [job EXCEPT !.todo = @ \ {x}]
              /\ UNCHANGED disk
           \/ rollBack(x) /\ UNCHANGED deps
        /\ UNCHANGED <<db, lock, aside, spent>>

(* A slip: the entries of what was rolled back stay in the file.           *)
WrittenForGood ==
    /\ At("write") /\ job.todo = {}
    /\ job' = [job EXCEPT !.pc = "project", !.lock = None,
                          !.dev = FALSE, !.dirty = FALSE]
    /\ UNCHANGED <<db, files, spent>>

Written ==
    /\ At("write") /\ job.todo = {}
    /\ lock' = IF job.dirty THEN [lock EXCEPT ![job.at] = job.lock] ELSE lock
    /\ job' = [job EXCEPT !.pc = "project", !.lock = None,
                          !.dev = FALSE, !.dirty = FALSE]
    /\ UNCHANGED <<db, deps, copies, spent>>

InsertProject ==
    /\ At("project")
    /\ R!InsertProject(job.at, NoDevice)
    /\ GoOn("rows", job.specs \ job.failed)
    /\ UNCHANGED <<files, spent>>

(* A row that cannot be written is a failure of its package, and leaves    *)
(* the files where they are.                                               *)
InsertLink(x) ==
    /\ At("rows") /\ x \in job.todo
    /\ \/ /\ R!InsertLink(job.at, x, job.want[x].hash, job.want[x].tag, job.want[x].pinned)
          /\ job' = [job EXCEPT !.todo = @ \ {x}]
       \/ Fail(x) /\ UNCHANGED db
    /\ UNCHANGED <<files, spent>>

-----------------------------------------------------------------------------
(* RunPushTagged, once the build is packed, and publish --push.            *)

StartPush ==
    /\ At("idle") /\ spent < Commands
    /\ \E x \in Pkg, h \in Hash, t \in Tag :
          job' = [Idle EXCEPT !.cmd = "push", !.pc = "record", !.specs = {x},
                     !.want[x] = [hash |-> h, tag |-> t, pinned |-> FALSE]]
    /\ spent' = spent + 1
    /\ UNCHANGED <<db, files>>

pushed == CHOOSE x \in job.specs : TRUE
build == job.want[pushed].hash

(* InsertPackageWithFilesTagged: the rows that follow the tag move along.  *)
Record ==
    /\ At("record")
    /\ R!Publish(pushed, build, job.want[pushed].tag)
    /\ GoOn("find", {})
    /\ UNCHANGED <<files, spent>>

projectsToPush == {q \in Project : consumes[q][pushed] # None /\ consumes[q][pushed].hash = build}

GetProjectsForPackage ==
    /\ At("find")
    /\ GoOn("relink", projectsToPush)
    /\ UNCHANGED <<db, files, spent>>

(* A live link is left alone.                                              *)
pushToProject(q) ==
    /\ At("relink") /\ q \in job.todo
    /\ \/ disk[q][pushed] = "live" /\ GoOn("relink", job.todo \ {q}) /\ UNCHANGED copies
       \/ disk[q][pushed] # "live" /\ Relink(q, q, pushed, job.want[pushed])
       \/ Fail(q) /\ UNCHANGED copies
    /\ UNCHANGED <<db, deps, lock, spent>>

Next ==
    \/ StartAdd \/ Load \/ LockSave \/ Written \/ InsertProject
    \/ \E x \in job.todo \cap Pkg :
          linkPackage(x) \/ readPackageJSONDeps(x) \/ writeLnpmReference(x) \/ InsertLink(x)
    \/ StartPush \/ Record \/ GetProjectsForPackage \/ \E q \in Project : pushToProject(q)
    \/ Return \/ Kill

Spec == Init /\ [][Next]_vars

-----------------------------------------------------------------------------
(* Whatever a command does not report as failed is as it says, in all four *)
(* places at once: the copy, lnpm.lock, package.json (one field only, and  *)
(* not with --pure) and the row that gc and push go by.  And what this run *)
(* added and rolled back has left no lock entry, which a later remove      *)
(* would act on.                                                           *)
Added(q, x) ==
    LET want == job.want[x] IN
    /\ disk[q][x] = IF job.live THEN "live" ELSE want.hash
    /\ lock[q][x] # None /\ lock[q][x].hash = want.hash /\ lock[q][x].pinned = want.pinned
    /\ job.pure \/ (Has(deps[q][x], "lnpm") /\ Has(deps[q][x], "none"))
    /\ consumes[q][x] = want

ReportIsTrue ==
    Done /\ job.cmd = "add" =>
        /\ \A x \in job.specs \ job.failed : Added(job.at, x)
        /\ \A x \in job.gone \cap job.new : lock[job.at][x] = None

(* rollBack: an earlier run's package "must not be unlinked - package.json *)
(* points at the .lnpm copy".  What package.json points at is there; or it *)
(* has been set aside and is next to it, between the two renames of an add *)
(* or a push, and from then on if that was cut short there or could not be *)
(* rolled back.  No failure, rollback or death of an add or a push leaves  *)
(* it with neither.  (Only a sweep that the user confirms takes what is    *)
(* set aside; that is LnpmLink's.)                                         *)
ReferencedIsKept ==
    \A q \in Project, x \in Pkg :
        Has(deps[q][x], "lnpm") => disk[q][x] # None \/ aside[q][x] # None

Known(q, x) == Has(deps[q][x], "user") \/ (lock[q][x] # None /\ lock[q][x].orig)

(* The ORDERING CONSTRAINT, for a batch: the user's specifier is in        *)
(* package.json or in the saved lock file at every step, though both are   *)
(* written once for all packages and some are rolled back in between.      *)
SpecifiersSurvive ==
    [][\A q \in Project, x \in Pkg : Known(q, x) => Known(q, x)']_vars

(* A push that ends names every project it did not bring to the build:     *)
(* those that consume the build by then, whether they followed the channel *)
(* along, were on it already, or are left behind by an earlier push that   *)
(* failed; and no failure stops the others.                                *)
PushReachesAll ==
    Done /\ job.cmd = "push" =>
        \A q \in Project :
            consumes[q][pushed] # None /\ consumes[q][pushed].hash = build =>
                q \in job.failed \/ disk[q][pushed] \in {build, "live"}
=============================================================================
