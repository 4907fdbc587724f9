---------------------------- MODULE LnpmProject -----------------------------
(***************************************************************************)
(* internal/cli: the commands, as what each does to the things a package   *)
(* in a project is made of: the store's records (LnpmRegistry) and builds  *)
(* (LnpmBuilds), and in the project package.json, lnpm.lock,               *)
(* lnpm.lock.retreat and .lnpm.  One package, one consuming project.       *)
(*                                                                         *)
(* A command is a process.  It takes bolt's exclusive file lock when it    *)
(* opens the database and keeps it until it ends; retreat and restore read *)
(* a project file before that.  Each step is one transaction, one file     *)
(* saved through a rename, or one link; a step may fail, and a process may *)
(* die between any two.                                                    *)
(***************************************************************************)
EXTENDS Naturals, FiniteSets

CONSTANTS
    Hash, Tag, Latest,
    Pkg, Project,
    Proc,       \* commands that may run at once
    Scenario,   \* what a behaviour is made of: see Scenarios
    Blank,      \* a lock file, or a snapshot, without the package
    NoDevice, None

Publishing == {"publish", "publish-push", "push"}
Add == {"add", "add-pure", "add-link"}
Command == Publishing \cup Add \cup {"tag", "gc", "pull", "remove", "retreat", "restore"}

(* The commands, and kinds of add, that are run; the tags they name;       *)
(* whether a step may fail and a process may die; how many run at once.    *)
Scenarios == [used : SUBSET Command, tags : SUBSET Tag, faults : BOOLEAN, atonce : Nat]

ASSUME ProjectAssumption ==
    /\ Latest \in Tag
    /\ Scenario \subseteq Scenarios
    /\ IsFiniteSet(Proc)
    /\ None \notin Hash \cup Proc \cup Tag \cup Command \cup {"live", "served"} /\ "live" \notin Hash
    /\ Blank # None
    /\ {Blank, None} \cap [hash : Hash, orig : BOOLEAN, pinned : BOOLEAN] = {}
    /\ None \notin [hash : Hash, tag : Tag, pinned : BOOLEAN]

VARIABLES
    scene,      \* the scenario
    stored, channel, project, consumes,   \* the registry
    held,       \* the builds the store serves
    dep,        \* package.json's specifier: none, the user's, or lnpm's reference
    lock,       \* lnpm.lock: its entry for the package, Blank, or None: no file
    snap,       \* lnpm.lock.retreat, likewise
    disk,       \* what .lnpm/<package> is: a build, "live", or None
    was,        \* history: the build the last retreat took off the disk, if Alone
    holder,     \* the process that has the database open
    proc        \* proc[p]: what process p is running

db == <<stored, channel, project, consumes>>
files == <<dep, lock, snap, disk>>
vars == <<scene, stored, channel, project, consumes, held, dep, lock, snap, disk, was, holder, proc>>

Faults == scene.faults
Alone == ~scene.faults /\ scene.atonce = 1

R == INSTANCE LnpmRegistry WITH Name <- {Pkg}, Path <- {Project}, Device <- {}
B == INSTANCE LnpmBuilds WITH Entry <- Hash, Content <- {"served"}

(* A lock entry.  orig: it carries the specifier the user had.             *)
Entry == [hash : Hash, orig : BOOLEAN, pinned : BOOLEAN]
LockFile == Entry \cup {Blank, None}
Has(l) == l \in Entry
HasOrig(l) == Has(l) /\ l.orig

Option == {"push", "pinned", "live", "nodb", "kept"}
Idle == [cmd |-> None, pc |-> "idle", build |-> None, tag |-> Latest, opts |-> {},
         seen |-> None, orig |-> FALSE, victims |-> {}]

TypeOK ==
    /\ scene \in Scenario
    /\ R!TypeOK
    /\ held \in [Hash -> {"served", None}]
    /\ dep \in {"none", "user", "lnpm"}
    /\ lock \in LockFile /\ snap \in LockFile
    /\ disk \in Hash \cup {"live", None}
    /\ was \in Hash \cup {None}
    /\ holder \in Proc \cup {None}
    /\ \A p \in Proc :
          /\ proc[p].cmd \in Command \cup {None}
          /\ proc[p].pc \in {"idle", "open", "start", "store", "record", "relink", "link",
                             "lock", "dep", "project", "row", "wipe", "stash", "unstash",
                             "consume", "clean", "evict", "forget", "exit", "failed"}
          /\ proc[p].build \in Hash \cup {None}
          /\ proc[p].tag \in Tag
          /\ proc[p].opts \subseteq Option
          /\ proc[p].seen \in LockFile
          /\ proc[p].orig \in BOOLEAN
          /\ proc[p].victims \subseteq Hash

row == consumes[Project][Pkg]
Stored(h) == <<Pkg, h>> \in stored
latest == channel[Pkg][Latest]

Init ==
    /\ scene \in Scenario
    /\ R!Init /\ stored = {}
    /\ B!Init
    /\ dep \in {"none", "user"}
    /\ lock = None /\ snap = None /\ disk = None /\ was = None
    /\ holder = None
    /\ proc = [p \in Proc |-> Idle]

-----------------------------------------------------------------------------
(* Running a command.                                                      *)

At(p, cs, pc) == proc[p].cmd \in cs /\ proc[p].pc = pc
To(p, pc) == proc' = [proc EXCEPT ![p].pc = pc]

(* The process ends: its memory and its hold on the database go with it.   *)
End(p) ==
    /\ proc' = [proc EXCEPT ![p] = Idle]
    /\ holder' = IF holder = p THEN None ELSE holder

(* What retreat and restore read before the database is open.              *)
Start(p) ==
    /\ proc[p].cmd = None
    /\ Cardinality({o \in Proc : proc[o].cmd # None}) < scene.atonce
    /\ \E c \in scene.used :
          LET seen == CASE c = "retreat" -> lock
                        [] c = "restore" -> snap
                        [] OTHER -> None
              pc == CASE c = "retreat" /\ ~Has(lock) /\ disk = None -> "exit"
                      [] c = "restore" /\ snap = None -> "exit"
                      [] c = "restore" /\ snap = Blank -> "clean"
                      [] OTHER -> "open"
          IN  proc' = [proc EXCEPT ![p] = [Idle EXCEPT !.cmd = c, !.pc = pc, !.seen = seen]]
    /\ UNCHANGED <<db, held, files, was, holder>>

(* A slip: nobody waits.                                                   *)
GetDBAnyway(p) ==
    /\ proc[p].pc = "open"
    /\ holder' = p
    /\ To(p, "start")
    /\ UNCHANGED <<db, held, files, was>>

(* Blocks while another process has it.                                    *)
GetDB(p) ==
    /\ proc[p].pc = "open" /\ holder = None
    /\ holder' = p
    /\ To(p, "start")
    /\ UNCHANGED <<db, held, files, was>>

(* Thirty seconds at most: then retreat, alone, goes on without.           *)
GetDBFails(p) ==
    /\ proc[p].pc = "open"
    /\ holder # None \/ Faults
    /\ \/ /\ proc[p].cmd = "retreat"
          /\ proc' = [proc EXCEPT ![p].pc = "start", ![p].opts = {"nodb"}]
          /\ UNCHANGED holder
       \/ proc[p].cmd # "retreat" /\ End(p)
    /\ UNCHANGED <<db, held, files, was>>

(* The command returns: nil from "exit", an error from "failed".           *)
Exit(p) ==
    /\ proc[p].pc \in {"exit", "failed"}
    /\ End(p)
    /\ UNCHANGED <<db, held, files, was>>

(* A step returned an error, or the process died: nothing is undone.       *)
Stop(p) ==
    /\ Faults /\ proc[p].cmd # None
    /\ End(p)
    /\ UNCHANGED <<db, held, files, was>>

-----------------------------------------------------------------------------
(* publish and push: store the build, record it, then relink.              *)

(* publish stops short when the tag names the build already; the record is *)
(* asked, the store is not.  push, of a package nothing publishes yet, is  *)
(* a publish without --push.                                               *)
Check(p) ==
    /\ At(p, Publishing, "start")
    /\ \E h \in Hash, t \in scene.tags :
          LET done == proc[p].cmd = "publish" /\ Stored(h) /\ channel[Pkg][t] = h
              push == \/ proc[p].cmd = "publish-push"
                      \/ proc[p].cmd = "push" /\ latest # None
          IN  proc' = [proc EXCEPT ![p].build = h, ![p].tag = t,
                                   ![p].opts = IF push THEN {"push"} ELSE {},
                                   ![p].pc = IF done THEN "exit" ELSE "store"]
    /\ UNCHANGED <<db, held, files, was, holder>>

Store(p) ==
    LET h == proc[p].build IN
    /\ proc[p].pc = "store"
    /\ IF held[h] = None THEN B!Store(h) ELSE UNCHANGED held
    /\ To(p, "record")
    /\ UNCHANGED <<db, files, was, holder>>

Record(p) ==
    /\ proc[p].pc = "record"
    /\ R!Publish(Pkg, proc[p].build, proc[p].tag)
    /\ To(p, IF "push" \in proc[p].opts THEN "relink" ELSE "exit")
    /\ UNCHANGED <<held, files, was, holder>>

(* Every project whose row names the build; lnpm.lock is left as it is.    *)
Relink(p) ==
    LET h == proc[p].build IN
    /\ proc[p].pc = "relink"
    /\ IF row # None /\ row.hash = h /\ disk # "live"
         THEN held[h] # None /\ disk' = h
         ELSE UNCHANGED disk
    /\ To(p, "exit")
    /\ UNCHANGED <<db, held, dep, lock, snap, was, holder>>

(* lnpm tag: put a tag on what latest names, or take one off.              *)
RunTag(p) ==
    /\ At(p, {"tag"}, "start")
    /\ \/ \E t \in scene.tags :
             \/ latest # None /\ R!SetTag(Pkg, t, latest)
             \/ R!DeleteTag(Pkg, t)
       \/ latest = None /\ UNCHANGED db
    /\ To(p, "exit")
    /\ UNCHANGED <<held, files, was, holder>>

-----------------------------------------------------------------------------
(* gc: latest alone keeps nothing alive; a project, or a tag, does.        *)

pinnedByTag(h) == \E t \in Tag \ {Latest} : channel[Pkg][t] = h

(* A slip: roots counted, consumers not.                                   *)
packagesUnpinned == {h \in Hash : Stored(h) /\ ~pinnedByTag(h)}

packagesToRemove == {h \in Hash : /\ Stored(h) /\ ~pinnedByTag(h)
                                  /\ row = None \/ row.hash # h}

(* --older-than, and the prompt, may leave any of them out.                *)
Scan(p) ==
    /\ At(p, {"gc"}, "start")
    /\ \E v \in SUBSET packagesToRemove :
          proc' = [proc EXCEPT ![p].victims = v, ![p].pc = "evict"]
    /\ UNCHANGED <<db, held, files, was, holder>>

(* RemoveEntry; a failed one keeps the record.                             *)
Evict(p) ==
    /\ At(p, {"gc"}, "evict")
    /\ \/ /\ proc[p].victims = {} /\ To(p, "exit")
          /\ UNCHANGED held
       \/ \E h \in proc[p].victims :
             /\ proc' = [proc EXCEPT ![p].build = h, ![p].victims = @ \ {h}, ![p].pc = "forget"]
             /\ IF held[h] # None THEN B!Remove(h) ELSE UNCHANGED held
       \/ /\ Faults
          /\ \E h \in proc[p].victims : proc' = [proc EXCEPT ![p].victims = @ \ {h}]
          /\ UNCHANGED held
    /\ UNCHANGED <<db, files, was, holder>>

Forget(p) ==
    /\ At(p, {"gc"}, "forget")
    /\ R!DeletePackage(Pkg, proc[p].build)
    /\ To(p, "evict")
    /\ UNCHANGED <<held, files, was, holder>>

-----------------------------------------------------------------------------
(* Linking.                                                                *)

(* add: a bare name follows latest, and only it may be linked live; a tag  *)
(* follows the tag; a version or a hash pins the build it names.           *)
Resolves(t, h, o) ==
    CASE o = {} -> channel[Pkg][t] = h
      [] o = {"live"} -> t = Latest /\ latest = h
      [] o = {"pinned"} -> t = Latest /\ Stored(h)
      [] OTHER -> FALSE

Resolve(p) ==
    /\ At(p, Add, "start")
    /\ \/ \E t \in Tag, h \in Hash, o \in SUBSET {"pinned", "live"} :
             /\ Resolves(t, h, o)
             /\ ("live" \in o) <=> (proc[p].cmd = "add-link")
             /\ proc' = [proc EXCEPT ![p].build = h, ![p].tag = t, ![p].opts = o,
                                     ![p].pc = "link"]
             /\ UNCHANGED holder
       \/ latest = None /\ End(p)
    /\ UNCHANGED <<db, held, files, was>>

(* storeFilesForLink refuses a build the store does not serve.             *)
Link(p) ==
    LET h == proc[p].build
        live == "live" \in proc[p].opts
    IN  /\ proc[p].pc = "link"
        /\ \/ /\ live \/ held[h] # None
              /\ disk' = IF live THEN "live" ELSE h
              /\ To(p, CASE proc[p].cmd \in Add -> "lock"
                         [] proc[p].cmd = "pull" -> "row"
                         [] proc[p].cmd = "restore" -> "dep")
              /\ UNCHANGED holder
           \/ /\ ~live /\ held[h] = None
              /\ End(p)
              /\ UNCHANGED disk
        /\ UNCHANGED <<db, held, dep, lock, snap, was>>

(* A slip: an add over an add forgets what the first one saved.            *)
LockAddFresh(p) ==
    /\ At(p, Add, "lock")
    /\ lock' = [hash |-> proc[p].build,
                orig |-> proc[p].cmd # "add-pure" /\ dep = "user",
                pinned |-> "pinned" \in proc[p].opts]
    /\ To(p, IF proc[p].cmd = "add-pure" THEN "project" ELSE "dep")
    /\ UNCHANGED <<db, held, dep, snap, disk, was, holder>>

(* A slip: the lock file says what is on disk, not what was resolved.      *)
LockAddOfDisk(p) ==
    /\ At(p, Add, "lock")
    /\ lock' = [hash |-> disk,
                orig |-> (proc[p].cmd # "add-pure" /\ dep = "user") \/ HasOrig(lock),
                pinned |-> "pinned" \in proc[p].opts]
    /\ To(p, IF proc[p].cmd = "add-pure" THEN "project" ELSE "dep")
    /\ UNCHANGED <<db, held, dep, snap, disk, was, holder>>

(* The specifier is saved before package.json is rewritten over it.  One   *)
(* step for Load, the reading of package.json and Save: only a retreat     *)
(* that goes on without the database can write either file in between, and *)
(* here its writes come before all three or after.                         *)
LockAdd(p) ==
    /\ At(p, Add, "lock")
    /\ lock' = [hash |-> proc[p].build,
                orig |-> (proc[p].cmd # "add-pure" /\ dep = "user") \/ HasOrig(lock),
                pinned |-> "pinned" \in proc[p].opts]
    /\ To(p, IF proc[p].cmd = "add-pure" THEN "project" ELSE "dep")
    /\ UNCHANGED <<db, held, dep, snap, disk, was, holder>>

writeLnpmReference(p) ==
    /\ At(p, Add \cup {"restore"}, "dep")
    /\ dep' = "lnpm"
    /\ To(p, IF proc[p].cmd = "restore" THEN "lock" ELSE "project")
    /\ UNCHANGED <<db, held, lock, snap, disk, was, holder>>

InsertProject(p) ==
    /\ At(p, Add \cup {"restore"}, "project")
    /\ R!InsertProject(Project, NoDevice)
    /\ To(p, "row")
    /\ UNCHANGED <<held, files, was, holder>>

InsertLink(p) ==
    /\ At(p, Add \cup {"restore"}, "row")
    /\ R!InsertLink(Project, Pkg, proc[p].build, proc[p].tag, "pinned" \in proc[p].opts)
    /\ To(p, IF proc[p].cmd = "restore" THEN "clean" ELSE "exit")
    /\ UNCHANGED <<held, files, was, holder>>

-----------------------------------------------------------------------------
(* What linksOfProject says of the package: the channel it follows, and    *)
(* whether it is pinned instead.                                           *)

(* A slip: lookups by name, whatever was asked for.                        *)
defaultTag == Latest

heldTag == IF row = None THEN Latest ELSE row.tag

(* A slip: pins ignored.                                                   *)
neverPinned == FALSE

heldPinned == row # None /\ row.pinned

(* pull: onto what the channel names now, unless live, pinned or the lock  *)
(* says it is there already.                                               *)
RunPull(p) ==
    LET h == channel[Pkg][heldTag]
        pc == IF disk = "live" \/ heldPinned THEN "exit"
              ELSE IF h = None THEN "failed"
              ELSE IF lock.hash = h THEN "exit" ELSE "link"
    IN  /\ At(p, {"pull"}, "start")
        /\ \/ /\ Has(lock)
              /\ proc' = [proc EXCEPT ![p].pc = pc, ![p].seen = lock, ![p].build = h,
                              ![p].opts = IF disk = "live" \/ heldPinned THEN {"kept"} ELSE {}]
              /\ UNCHANGED holder
           \/ ~Has(lock) /\ End(p)
        /\ UNCHANGED <<db, held, files, was>>

(* An existing row on another build is repointed; a failure is counted,    *)
(* and the lock file saved all the same.                                   *)
PullRow(p) ==
    LET h == proc[p].build IN
    /\ At(p, {"pull"}, "row")
    /\ IF row # None /\ row.hash # h
         THEN \/ R!InsertLink(Project, Pkg, h, row.tag, row.pinned)
              \/ Faults /\ UNCHANGED db
         ELSE UNCHANGED db
    /\ To(p, "lock")
    /\ UNCHANGED <<held, files, was, holder>>

(* A slip: the entry written back as it was loaded.                        *)
PullLockAsLoaded(p) ==
    /\ At(p, {"pull"}, "lock")
    /\ lock' = proc[p].seen
    /\ To(p, IF row # None /\ row.hash # proc[p].build THEN "failed" ELSE "exit")
    /\ UNCHANGED <<db, held, dep, snap, disk, was, holder>>

PullLock(p) ==
    /\ At(p, {"pull"}, "lock")
    /\ lock' = [proc[p].seen EXCEPT !.hash = proc[p].build]
    /\ To(p, IF row # None /\ row.hash # proc[p].build THEN "failed" ELSE "exit")
    /\ UNCHANGED <<db, held, dep, snap, disk, was, holder>>

-----------------------------------------------------------------------------
(* remove and retreat.                                                     *)

(* A slip: the dependency dropped, whatever it was.                        *)
RevertedToNothing(orig) == "none"

(* restorePackageJSON touches an entry that is there, and only that;       *)
(* removeFromPackageJSON whatever is.                                      *)
Reverted(orig) == IF orig /\ dep # "none" THEN "user" ELSE "none"

Unlink(p) ==
    /\ At(p, {"remove"}, "start")
    /\ \/ /\ Has(lock)
          /\ disk' = None
          /\ proc' = [proc EXCEPT ![p].pc = "dep", ![p].seen = lock]
          /\ UNCHANGED holder
       \/ ~Has(lock) /\ End(p) /\ UNCHANGED disk
    /\ UNCHANGED <<db, held, dep, lock, snap, was>>

(* A failure stops remove, which keeps the lock entry; retreat warns.      *)
RevertDep(p) ==
    /\ At(p, {"remove", "retreat"}, "dep")
    /\ \/ dep' = Reverted(proc[p].seen.orig)
       \/ Faults /\ proc[p].cmd = "retreat" /\ UNCHANGED dep
    /\ To(p, "row")
    /\ UNCHANGED <<db, held, lock, snap, disk, was, holder>>

(* A refused delete is reported, and the command goes on.                  *)
DeleteLink(p) ==
    LET reachable == row # None /\ "nodb" \notin proc[p].opts IN
    /\ At(p, {"remove", "retreat"}, "row")
    /\ \/ reachable /\ R!DeleteLink(Project, Pkg)
       \/ (~reachable \/ Faults) /\ UNCHANGED db
    /\ To(p, IF proc[p].cmd = "remove" THEN "lock" ELSE "wipe")
    /\ UNCHANGED <<held, files, was, holder>>

(* The emptied lock file is saved, then deleted if that works.             *)
LockRemove(p) ==
    /\ At(p, {"remove"}, "lock")
    /\ lock' \in IF Faults THEN {None, Blank} ELSE {None}
    /\ To(p, "exit")
    /\ UNCHANGED <<db, held, dep, snap, disk, was, holder>>

RunRetreat(p) ==
    /\ At(p, {"retreat"}, "start")
    /\ To(p, IF Has(proc[p].seen) THEN "dep" ELSE "wipe")
    /\ UNCHANGED <<db, held, files, was, holder>>

Wipe(p) ==
    /\ At(p, {"retreat"}, "wipe")
    /\ \/ disk' = None
       \/ Faults /\ UNCHANGED disk
    /\ was' = IF Alone /\ Has(proc[p].seen) THEN IF disk \in Hash THEN disk ELSE None ELSE was
    /\ To(p, "stash")
    /\ UNCHANGED <<db, held, dep, lock, snap, holder>>

(* The lock file becomes the snapshot.  Over an earlier snapshot, what was *)
(* read at the start is merged into it: this retreat's entry wins, except  *)
(* over a specifier it lacks.                                              *)
stashLockForRestore(p) ==
    LET seen == proc[p].seen
        merged == IF Has(seen) THEN [seen EXCEPT !.orig = @ \/ HasOrig(snap)] ELSE snap
    IN  /\ At(p, {"retreat"}, "stash")
        /\ \/ /\ lock # None /\ snap = None
              /\ snap' = lock /\ lock' = None
              /\ To(p, "exit")
           \/ /\ lock # None /\ snap # None
              /\ snap' = merged
              /\ To(p, "unstash")
              /\ UNCHANGED lock
           \/ /\ lock = None \/ Faults
              /\ To(p, "exit")
              /\ UNCHANGED <<lock, snap>>
        /\ UNCHANGED <<db, held, dep, disk, was, holder>>

Unstash(p) ==
    /\ At(p, {"retreat"}, "unstash")
    /\ \/ lock' = None
       \/ Faults /\ UNCHANGED lock
    /\ To(p, "exit")
    /\ UNCHANGED <<db, held, dep, snap, disk, was, holder>>

-----------------------------------------------------------------------------
(* restore: link, then package.json, then the lock file, then the snapshot *)
(* entry, then the row.                                                    *)

(* A slip: a package that is not in the store passed over, not counted.    *)
RunRestoreUncounted(p) ==
    LET entry == proc[p].seen
        job == [proc[p] EXCEPT !.build = entry.hash, !.orig = dep = "user" \/ entry.orig,
                               !.opts = IF entry.pinned THEN {"pinned"} ELSE {}]
    IN  /\ At(p, {"restore"}, "start")
        /\ proc' = [proc EXCEPT ![p] =
              IF Has(lock) THEN [proc[p] EXCEPT !.pc = "consume", !.opts = {"kept"}]
              ELSE [job EXCEPT !.pc = IF Stored(entry.hash) THEN "link" ELSE "clean"]]
        /\ UNCHANGED <<db, held, files, was, holder>>

(* The lock file is read with the database open, the snapshot before.  A   *)
(* package that is in the lock file keeps its link.                        *)
RunRestore(p) ==
    LET entry == proc[p].seen
        job == [proc[p] EXCEPT !.build = entry.hash, !.orig = dep = "user" \/ entry.orig,
                               !.opts = IF entry.pinned THEN {"pinned"} ELSE {}]
    IN  /\ At(p, {"restore"}, "start")
        /\ proc' = [proc EXCEPT ![p] =
              IF Has(lock) THEN [proc[p] EXCEPT !.pc = "consume", !.opts = {"kept"}]
              ELSE [job EXCEPT !.pc = IF Stored(entry.hash) THEN "link" ELSE "failed"]]
        /\ UNCHANGED <<db, held, files, was, holder>>

LockRestore(p) ==
    /\ At(p, {"restore"}, "lock")
    /\ lock' = [hash |-> proc[p].build, orig |-> proc[p].orig,
                pinned |-> "pinned" \in proc[p].opts]
    /\ To(p, "consume")
    /\ UNCHANGED <<db, held, dep, snap, disk, was, holder>>

(* A failure to write is only reported.                                    *)
consumeSnapshotEntry(p) ==
    /\ At(p, {"restore"}, "consume")
    /\ \/ snap' = Blank
       \/ Faults /\ UNCHANGED snap
    /\ To(p, IF "kept" \in proc[p].opts THEN "clean" ELSE "project")
    /\ UNCHANGED <<db, held, dep, lock, disk, was, holder>>

(* recordRestoredLink could not write: the restore counts as failed.       *)
RecordFails(p) ==
    /\ Faults
    /\ proc[p].cmd = "restore" /\ proc[p].pc \in {"project", "row"}
    /\ To(p, "failed")
    /\ UNCHANGED <<db, held, files, was, holder>>

(* Nothing failed: the spent snapshot goes.                                *)
Clean(p) ==
    /\ At(p, {"restore"}, "clean")
    /\ \/ snap' = None
       \/ Faults /\ UNCHANGED snap
    /\ To(p, "exit")
    /\ UNCHANGED <<db, held, dep, lock, disk, was, holder>>

Next ==
    /\ UNCHANGED scene
    /\ \E p \in Proc :
       \/ Start(p) \/ GetDB(p) \/ GetDBFails(p) \/ Exit(p) \/ Stop(p)
       \/ Check(p) \/ Store(p) \/ Record(p) \/ Relink(p) \/ RunTag(p)
       \/ Scan(p) \/ Evict(p) \/ Forget(p)
       \/ Resolve(p) \/ Link(p) \/ LockAdd(p) \/ writeLnpmReference(p)
       \/ InsertProject(p) \/ InsertLink(p)
       \/ RunPull(p) \/ PullRow(p) \/ PullLock(p)
       \/ Unlink(p) \/ RevertDep(p) \/ DeleteLink(p) \/ LockRemove(p)
       \/ RunRetreat(p) \/ Wipe(p) \/ stashLockForRestore(p) \/ Unstash(p)
       \/ RunRestore(p) \/ LockRestore(p) \/ consumeSnapshotEntry(p)
       \/ RecordFails(p) \/ Clean(p)

Spec == Init /\ [][Next]_vars

-----------------------------------------------------------------------------
(* The user's specifier, once add has written over it, exists in a lock    *)
(* entry or in the snapshot (add.go's ORDERING CONSTRAINT, the merge in    *)
(* stashLockForRestore): no step of any command, failed or cut short,      *)
(* destroys the last copy of it, but for a restore that lets a package go  *)
(* that was added again since the retreat.                                 *)
Known == dep = "user" \/ HasOrig(lock) \/ HasOrig(snap)
SpecifierSurvives ==
    [][\/ Known => Known'
       \/ \E p \in Proc : proc[p].cmd = "restore" /\ "kept" \in proc[p].opts /\ lock' = lock]_vars

(* RunRestore: "what is on disk at any point is the work still             *)
(* outstanding".  A package that retreat took out of the project stays in  *)
(* the snapshot until lnpm.lock has it again, wherever a command stops.    *)
NothingForgotten == [][Has(snap) => Has(snap') \/ Has(lock')]_vars

(* ADR-0006: nothing but the project's own commands moves a pinned         *)
(* project, or its row; a push can only put back the build it is pinned    *)
(* to.                                                                     *)
PinnedStays ==
    [][\A p \in Proc :
          /\ proc[p].cmd \in Publishing \cup {"tag", "gc", "pull"}
          /\ row # None /\ row.pinned
          /\ proc'[p] # proc[p]
          => row' = row /\ disk' \in {disk, row.hash}]_vars

(* A project's row names a build the store can serve: publish stores       *)
(* before it records, gc spares what a row names.                          *)
RowIsServed == row # None => held[row.hash] # None

(* Where no step fails and no command runs beside it, a pull that found    *)
(* something to follow leaves the project with the build its channel       *)
(* names, and a lock file that says so.                                    *)
PullMeansCurrent ==
    \A p \in Proc :
        Alone /\ At(p, {"pull"}, "exit") /\ "kept" \notin proc[p].opts =>
            /\ disk = channel[Pkg][IF row = None THEN Latest ELSE row.tag]
            /\ Has(lock) /\ lock.hash = disk

(* "Which build each package was on is rebuilt exactly": restore links the *)
(* build that the retreat took off the disk, unless an add or a pull was   *)
(* cut short before it (and a live link is not rebuilt).                   *)
RestoreRebuildsExactly ==
    [][\A p \in Proc :
          Alone /\ At(p, {"restore"}, "link") /\ was # None => disk' \in {was, disk}]_vars
=============================================================================
