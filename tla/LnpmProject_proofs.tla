-------------------------- MODULE LnpmProject_proofs -------------------------
(***************************************************************************)
(* Proofs about LnpmProject, for any builds, tags, processes and scenarios.*)
(*                                                                         *)
(* The invariant comes in layers, each kept by every step under those above*)
(* it: Base, in every scenario; Served, where who names a build asks for it*)
(* first; Consistent, where one command runs at a time; then Kept, what the*)
(* files remember of the user's specifier, and Right, what is on the disk; *)
(* and Tracked, who remembers it where commands run beside each other.     *)
(***************************************************************************)
EXTENDS LnpmProject, FiniteSetTheorems, TLAPS

(***************************************************************************)
(* What a process is.                                                      *)
(***************************************************************************)
Pc == {"idle", "open", "start", "store", "record", "relink", "link", "lock", "dep", "project",
       "row", "wipe", "stash", "unstash", "consume", "clean", "evict", "forget", "exit", "failed"}
Process == [cmd : Command \cup {None}, pc : Pc, build : Hash \cup {None}, tag : Tag,
            opts : SUBSET Option, seen : LockFile, orig : BOOLEAN, victims : SUBSET Hash]

Typed ==
    /\ scene \in Scenario
    /\ R!TypeOK
    /\ held \in [Hash -> {"served", None}]
    /\ dep \in {"none", "user", "lnpm"}
    /\ lock \in LockFile /\ snap \in LockFile
    /\ disk \in Hash \cup {"live", None}
    /\ was \in Hash \cup {None}
    /\ holder \in Proc \cup {None}
    /\ proc \in [Proc -> Process]

Bringing == Add \cup {"pull", "restore"}
Runs(q, c) == proc[q].cmd = c
Is(q, pcs) == proc[q].pc \in pcs

(* Which step belongs to which command, and what it has in memory there.   *)
Placed(q) ==
    /\ proc[q].cmd \in scene.used \cup {None}
    /\ proc[q].cmd = None => Is(q, {"idle"})
    /\ Is(q, {"store", "record", "relink"}) =>
          proc[q].cmd \in Publishing /\ proc[q].build \in Hash
    /\ Is(q, {"link"}) => proc[q].cmd \in Bringing
    /\ Is(q, {"link", "lock", "dep", "project", "row", "consume"}) /\ proc[q].cmd \in Bringing
          => proc[q].build \in Hash \/ ("kept" \in proc[q].opts /\ Is(q, {"consume"}))
    /\ Is(q, {"link", "lock", "dep", "project", "row"}) /\ proc[q].cmd \in Bringing
          => "kept" \notin proc[q].opts
    /\ Is(q, {"forget"}) => Runs(q, "gc") /\ proc[q].build \in Hash
    /\ Is(q, {"dep"}) /\ proc[q].cmd \in {"remove", "retreat"} => Has(proc[q].seen)
    /\ Is(q, {"link", "row", "lock"}) /\ Runs(q, "pull") => Has(proc[q].seen)
    /\ Is(q, {"open", "start"}) /\ Runs(q, "restore") => Has(proc[q].seen)
    /\ Is(q, {"open"}) => proc[q].opts = {}
    /\ "nodb" \in proc[q].opts => Runs(q, "retreat")
    /\ "live" \in proc[q].opts => Runs(q, "add-link")
    /\ "push" \in proc[q].opts \/ Is(q, {"relink"}) => proc[q].cmd \in {"publish-push", "push"}

(* Who may change the registry or the store has the database.              *)
Busy(q) ==
    /\ ~Is(q, {"idle", "open", "exit", "failed"})
    /\ "nodb" \notin proc[q].opts
    /\ ~(Runs(q, "restore") /\ Is(q, {"clean"}))
Holding(q) == Busy(q) => holder = q

(* What gc is about to take no row names; what pull moves is not pinned.   *)
Spared(q) ==
    /\ Is(q, {"evict", "forget"}) /\ Runs(q, "gc") =>
          row = None \/ row.hash \notin proc[q].victims
    /\ Is(q, {"forget"}) => row = None \/ row.hash # proc[q].build
    /\ Is(q, {"link", "row"}) /\ Runs(q, "pull") => row = None \/ ~row.pinned

Base == Typed /\ \A q \in Proc : Placed(q) /\ Holding(q) /\ Spared(q)

(***************************************************************************)
(* Builds.  A step that fails between a build's removal and its record's   *)
(* leaves a record that resolves, which tag and a live link do not notice. *)
(***************************************************************************)
Careful(s) == s.faults => s.used \cap {"tag", "add-link"} = {}

Brought(q) ==
    /\ Is(q, {"record"}) => held[proc[q].build] # None
    /\ (/\ Is(q, {"lock", "dep", "project", "row", "consume"}) /\ proc[q].cmd \in Bringing
        /\ proc[q].opts \cap {"live", "kept"} = {})
          => held[proc[q].build] # None

Recorded ==
    ~scene.faults =>
        \A h \in Hash : Stored(h) =>
            held[h] # None \/ \E q \in Proc : Is(q, {"forget"}) /\ proc[q].build = h

Served == Careful(scene) => RowIsServed /\ Recorded /\ \A q \in Proc : Brought(q)

(***************************************************************************)
(* The project's files, where one command runs at a time.                  *)
(***************************************************************************)
Single == scene.atonce <= 1
OneAtATime == Single => \A p, q \in Proc : ~Runs(p, None) /\ ~Runs(q, None) => p = q

(* What a command read is so until it changes it.                          *)
Seen(q) ==
    /\ Is(q, {"dep", "row", "lock"}) /\ Runs(q, "remove") => lock = proc[q].seen
    /\ Is(q, {"open", "start", "dep", "row", "wipe", "stash"}) /\ Runs(q, "retreat") =>
          lock = proc[q].seen
    /\ Is(q, {"link", "row", "lock"}) /\ Runs(q, "pull") => lock = proc[q].seen
    /\ Is(q, {"open", "start", "link", "dep", "lock"}) /\ Runs(q, "restore") =>
          snap = proc[q].seen
    /\ Is(q, {"link", "dep", "lock"}) /\ Runs(q, "restore") =>
          Has(snap) /\ ~Has(lock) /\ proc[q].build = snap.hash
    /\ Is(q, {"consume", "project", "row", "clean"}) /\ Runs(q, "restore") =>
          (Has(snap) => Has(lock))

Consistent == OneAtATime /\ (Single => \A q \in Proc : Seen(q))

(* Where add --pure does not run beside a command that takes it for an add *)
(* that found no specifier.                                                *)
Reversible == "add-pure" \notin scene.used
Saved ==
    /\ Has(lock) /\ dep = "user" => lock.orig
    /\ HasOrig(lock) => dep # "none"
    /\ Has(snap) /\ ~snap.orig => dep # "user" /\ ~HasOrig(lock)

Saving(q) ==
    /\ Is(q, {"row", "lock"}) /\ Runs(q, "remove") => (HasOrig(lock) => dep = "user")
    /\ Is(q, {"unstash"}) /\ Runs(q, "retreat") => (HasOrig(lock) => HasOrig(snap))
    /\ Is(q, {"link", "dep", "lock"}) /\ Runs(q, "restore") => (proc[q].orig <=> HasOrig(snap))
    /\ Is(q, {"lock"}) /\ Runs(q, "restore") => dep = "lnpm"
    /\ Is(q, {"consume", "project", "row", "clean"}) /\ Runs(q, "restore") =>
          "kept" \in proc[q].opts \/ (HasOrig(snap) => HasOrig(lock))

(* An add is about to write over a specifier that is in its lock entry.    *)
Written(q) == Is(q, {"dep"}) /\ proc[q].cmd \in Add => Has(lock) /\ (dep = "user" => lock.orig)

Kept ==
    Single => /\ \A q \in Proc : Written(q)
              /\ Reversible => Saved /\ \A q \in Proc : Saving(q)

(* Where commands run beside each other, a retreat that goes on without    *)
(* the database among them: there is no specifier, or the snapshot has it, *)
(* or package.json or the lock entry has it, and so has whatever a command *)
(* will write back.                                                        *)
Watched(s) ==
    /\ s.used \cap {"add-pure", "restore"} = {}
    /\ s.faults => "remove" \notin s.used

Reads(q) ==
    \/ Runs(q, "retreat")
    \/ Is(q, {"link", "row", "lock"}) /\ Runs(q, "pull")
    \/ Is(q, {"dep"}) /\ Runs(q, "remove")

Unsaid ==
    /\ dep # "user" /\ ~HasOrig(lock) /\ ~HasOrig(snap)
    /\ \A q \in Proc : Reads(q) => ~HasOrig(proc[q].seen)

Carries(q) ==
    /\ Reads(q) /\ Has(proc[q].seen) => HasOrig(proc[q].seen)
    /\ Is(q, {"dep"}) /\ proc[q].cmd \in Add => Has(lock)
    /\ Is(q, {"row", "lock"}) /\ Runs(q, "remove") => dep = "user"
    /\ ~(Is(q, {"unstash"}) /\ Runs(q, "retreat"))

Said ==
    /\ snap = None /\ dep # "none"
    /\ lock = None \/ HasOrig(lock)
    /\ dep = "lnpm" => Has(lock)
    /\ \A q \in Proc : Carries(q)

Tracked == Watched(scene) => Unsaid \/ HasOrig(snap) \/ Said

(***************************************************************************)
(* What is on the disk, where besides nothing fails and nothing is pushed. *)
(***************************************************************************)
Quiet == Alone /\ scene.used \cap {"publish-push", "push"} = {}

Between(q) ==
    \/ Is(q, {"lock"}) /\ proc[q].cmd \in Add
    \/ Is(q, {"row", "lock"}) /\ Runs(q, "pull")
    \/ Is(q, {"dep", "row", "lock"}) /\ Runs(q, "remove")
    \/ Is(q, {"stash", "unstash"}) /\ Runs(q, "retreat")
OnDisk == Has(lock) => disk \in {"live", lock.hash} \/ \E q \in Proc : Between(q)

Stashing(q) == Is(q, {"stash"}) /\ Runs(q, "retreat") /\ Has(proc[q].seen)
Rebuildable ==
    Has(snap) /\ was # None => snap.hash = was \/ \E q \in Proc : Stashing(q)

Followed == channel[Pkg][IF row = None THEN Latest ELSE row.tag]

Moving(q) ==
    /\ Is(q, {"lock"}) /\ proc[q].cmd \in Add => disk \in {"live", proc[q].build}
    /\ Is(q, {"link", "row", "lock"}) /\ Runs(q, "pull") => proc[q].build = Followed
    /\ Is(q, {"row", "lock"}) /\ Runs(q, "pull") => disk = proc[q].build
    /\ Is(q, {"exit"}) /\ Runs(q, "pull") /\ "kept" \notin proc[q].opts =>
          disk = Followed /\ Has(lock) /\ lock.hash = disk
    /\ Is(q, {"dep", "lock"}) /\ Runs(q, "restore") => disk = proc[q].build
    /\ Stashing(q) => was \in {None, proc[q].seen.hash}

Right == Quiet => OnDisk /\ Rebuildable /\ \A q \in Proc : Moving(q)
-----------------------------------------------------------------------------
LEMMA Facts ==
    /\ Latest \in Tag /\ None \notin Hash /\ None \notin Proc /\ None \notin Command
    /\ None # "live" /\ None # "served" /\ "live" \notin Hash /\ Blank # None
    /\ ~Has(None) /\ ~Has(Blank) /\ None \notin R!Consumption
  BY ProjectAssumption DEF Has, Entry, R!Consumption


(* The registry's methods keep its types, and what they do to the row.     *)
LEMMA RegistryTypes ==
  ASSUME R!TypeOK
  PROVE  /\ \A h \in Hash, t \in Tag : R!Publish(Pkg, h, t) \/ R!SetTag(Pkg, t, h) =>
               /\ R!TypeOK'
               /\ row' # row => row # None /\ ~row.pinned /\ row' # None /\ row'.hash = h
         /\ \A t \in Tag : R!DeleteTag(Pkg, t) => R!TypeOK' /\ row' = row
         /\ \A h \in Hash : R!DeletePackage(Pkg, h) =>
               /\ R!TypeOK'
               /\ row' = IF row # None /\ row.hash = h THEN None ELSE row
         /\ R!InsertProject(Project, NoDevice) => R!TypeOK' /\ row' = row
         /\ \A h \in Hash, t \in Tag, pin \in BOOLEAN :
               R!InsertLink(Project, Pkg, h, t, pin) =>
                  /\ R!TypeOK'
                  /\ row' = [hash |-> h, tag |-> t, pinned |-> pin]
         /\ R!DeleteLink(Project, Pkg) => R!TypeOK' /\ row' = None
<1> USE Facts
<1> DEFINE C == R!Consumption \cup {None}
<1>0. consumes \in [{Project} -> [{Pkg} -> C]] /\ row \in C
  BY DEF R!TypeOK, row
<1>1. ASSUME NEW h \in Hash, NEW t \in Tag, R!Publish(Pkg, h, t) \/ R!SetTag(Pkg, t, h)
      PROVE  /\ R!TypeOK'
             /\ row' # row => row # None /\ ~row.pinned /\ row' # None /\ row'.hash = h
  <2>1. stored' \subseteq {Pkg} \X Hash /\ project' = project /\ R!MoveChannel(Pkg, t, h)
    BY <1>1 DEF R!Publish, R!SetTag, R!TypeOK
  <2>2. channel' \in [{Pkg} -> [Tag -> Hash \cup {None}]]
    BY <2>1 DEF R!MoveChannel, R!TypeOK
  <2> DEFINE c == IF R!Follows(row, Pkg, R!Moved(Pkg, t)) THEN [row EXCEPT !.hash = h] ELSE row
  <2>3. c \in C /\ (c # row => row # None /\ ~row.pinned /\ c # None /\ c.hash = h)
    <3>1. CASE row = None
      BY <1>0, <3>1 DEF R!Follows
    <3>2. CASE row # None
      <4>1. row \in R!Consumption
        BY <1>0, <3>2
      <4>2. [row EXCEPT !.hash = h] \in R!Consumption /\ [row EXCEPT !.hash = h].hash = h
        BY <4>1 DEF R!Consumption
      <4> QED
        BY <4>1, <4>2 DEF R!Follows
    <3> QED
      BY <3>1, <3>2
  <2>4. consumes' = [q \in {Project} |-> [consumes[q] EXCEPT ![Pkg] =
                       IF R!Follows(@, Pkg, R!Moved(Pkg, t)) THEN [@ EXCEPT !.hash = h] ELSE @]]
    BY <2>1 DEF R!MoveChannel
  <2>5. consumes'[Project] = [consumes[Project] EXCEPT ![Pkg] = c]
    BY <2>4 DEF row
  <2> HIDE DEF c
  <2>6. consumes' \in [{Project} -> [{Pkg} -> C]] /\ row' = c
    <3>1. consumes' = [q \in {Project} |-> consumes'[q]]
      BY <2>4
    <3>2. consumes'[Project] \in [{Pkg} -> C] /\ consumes'[Project][Pkg] = c
      BY <1>0, <2>3, <2>5
    <3> QED
      BY <3>1, <3>2 DEF row
  <2> QED
    BY <2>1, <2>2, <2>3, <2>6 DEF R!TypeOK
<1>2. ASSUME NEW t \in Tag, R!DeleteTag(Pkg, t)
      PROVE  R!TypeOK' /\ row' = row
  BY <1>2 DEF R!DeleteTag, R!TypeOK, row
<1>3. ASSUME NEW h \in Hash, R!DeletePackage(Pkg, h)
      PROVE  R!TypeOK' /\ row' = IF row # None /\ row.hash = h THEN None ELSE row
  <2>1. channel' \in [{Pkg} -> [Tag -> Hash \cup {None}]]
    BY <1>3 DEF R!DeletePackage, R!TypeOK
  <2> DEFINE c == IF row # None /\ row.hash = h THEN None ELSE row
  <2>2. c \in C
    BY <1>0
  <2>3. consumes' = [q \in {Project} |-> [consumes[q] EXCEPT ![Pkg] =
                       IF @ # None /\ @.hash = h THEN None ELSE @]]
    BY <1>3 DEF R!DeletePackage
  <2>4. consumes'[Project] = [consumes[Project] EXCEPT ![Pkg] = c]
    BY <2>3 DEF row
  <2> HIDE DEF c
  <2>5. consumes' \in [{Project} -> [{Pkg} -> C]] /\ row' = c
    <3>1. consumes' = [q \in {Project} |-> consumes'[q]]
      BY <2>3
    <3>2. consumes'[Project] \in [{Pkg} -> C] /\ consumes'[Project][Pkg] = c
      BY <1>0, <2>2, <2>4
    <3> QED
      BY <3>1, <3>2 DEF row
  <2> QED
    BY <1>3, <2>1, <2>5 DEF R!DeletePackage, R!TypeOK, c
<1>4. ASSUME R!InsertProject(Project, NoDevice)
      PROVE  R!TypeOK' /\ row' = row
  BY <1>4 DEF R!InsertProject, R!TypeOK, row
<1>5. ASSUME NEW h \in Hash, NEW t \in Tag, NEW pin \in BOOLEAN,
             R!InsertLink(Project, Pkg, h, t, pin)
      PROVE  R!TypeOK' /\ row' = [hash |-> h, tag |-> t, pinned |-> pin]
  <2> DEFINE c == [hash |-> h, tag |-> t, pinned |-> pin]
  <2>1. c \in C
    BY DEF R!Consumption
  <2>2. consumes' = [consumes EXCEPT ![Project][Pkg] = c]
        /\ UNCHANGED <<stored, channel, project>>
    BY <1>5 DEF R!InsertLink
  <2> HIDE DEF c
  <2>3. consumes' \in [{Project} -> [{Pkg} -> C]] /\ row' = c
    BY <1>0, <2>1, <2>2 DEF row
  <2> QED
    BY <2>2, <2>3 DEF R!TypeOK, c
<1>6. ASSUME R!DeleteLink(Project, Pkg)
      PROVE  R!TypeOK' /\ row' = None
  BY <1>0, <1>6 DEF R!DeleteLink, R!TypeOK, row
<1> QED
  BY <1>1, <1>2, <1>3, <1>4, <1>5, <1>6

(* A process that goes on, and one that ends; the others are as they were. *)
Rest(p) == \A q \in Proc \ {p} : proc'[q] = proc[q]

GoesOn(p) ==
    /\ proc' \in [Proc -> Process] /\ Rest(p)
    /\ proc'[p].cmd = proc[p].cmd /\ proc'[p].build = proc[p].build
    /\ proc'[p].tag = proc[p].tag /\ proc'[p].opts = proc[p].opts
    /\ proc'[p].seen = proc[p].seen /\ proc'[p].orig = proc[p].orig
    /\ proc'[p].victims = proc[p].victims

LEMMA Goes ==
  ASSUME proc \in [Proc -> Process], NEW p \in Proc
  PROVE  \A x \in Pc : To(p, x) => GoesOn(p) /\ proc'[p].pc = x
<1> SUFFICES ASSUME NEW x \in Pc, To(p, x)
             PROVE  GoesOn(p) /\ proc'[p].pc = x
  OBVIOUS
<1> DEFINE r == [proc[p] EXCEPT !.pc = x]
<1>1. r \in Process
  BY DEF Process
<1>2. proc' = [proc EXCEPT ![p] = r]
  BY DEF To
<1>3. /\ r.pc = x /\ r.cmd = proc[p].cmd /\ r.build = proc[p].build /\ r.tag = proc[p].tag
      /\ r.opts = proc[p].opts /\ r.seen = proc[p].seen /\ r.orig = proc[p].orig
      /\ r.victims = proc[p].victims
  BY DEF Process
<1> HIDE DEF r
<1> QED
  BY <1>1, <1>2, <1>3 DEF GoesOn, Rest

LEMMA Becomes ==
  ASSUME proc \in [Proc -> Process], NEW p \in Proc
  PROVE  \A r \in Process : proc' = [proc EXCEPT ![p] = r] =>
            proc' \in [Proc -> Process] /\ Rest(p) /\ proc'[p] = r
  BY DEF Rest

LEMMA Fresh ==
    /\ Idle \in Process /\ Idle.cmd = None /\ Idle.pc = "idle" /\ Idle.opts = {}
    /\ Idle.victims = {} /\ Idle.build = None
  BY Facts DEF Idle, Process, Pc, LockFile

LEMMA Ends ==
  ASSUME Typed, NEW p \in Proc, End(p)
  PROVE  /\ proc' \in [Proc -> Process] /\ Rest(p) /\ proc'[p] = Idle
         /\ holder' = IF holder = p THEN None ELSE holder
  BY Fresh, Becomes DEF End, Typed

-----------------------------------------------------------------------------
(* Only who has the database changes the registry and the store.           *)
LEMMA OnlyHolder ==
  ASSUME Base, NEW p \in Proc, NEW q \in Proc, holder = p, q # p
  PROVE  ~Busy(q)
  BY DEF Base, Holding

LEMMA BaseStep ==
  ASSUME Base, NEW p \in Proc, Rest(p), UNCHANGED scene, Typed',
         holder' = holder \/ holder = None \/ holder = p,
         row' = row \/ holder = p,
         Placed(p)', Holding(p)', Spared(p)'
  PROVE  Base'
<1> SUFFICES ASSUME NEW q \in Proc, q # p
             PROVE  Placed(q)' /\ Holding(q)' /\ Spared(q)'
  BY DEF Base
<1>1. proc'[q] = proc[q]
  BY DEF Rest
<1>2. Placed(q) /\ Holding(q) /\ Spared(q)
  BY DEF Base
<1>3. Placed(q)'
  BY <1>1, <1>2 DEF Placed, Is, Runs
<1>4. Holding(q)'
  BY <1>1, <1>2, Facts DEF Holding, Busy, Is, Runs
<1>5. Spared(q)'
  <2>1. CASE row' = row
    BY <1>1, <1>2, <2>1 DEF Spared, Is, Runs
  <2>2. CASE holder = p
    <3>1. ~Busy(q)
      BY <2>2, OnlyHolder
    <3> QED
      BY <1>1, <1>2, <3>1 DEF Busy, Spared, Placed, Is, Runs
  <2> QED
    BY <2>1, <2>2
<1> QED
  BY <1>3, <1>4, <1>5

LEMMA Initially == Init => Base
<1> SUFFICES ASSUME Init PROVE Base
  OBVIOUS
<1>1. /\ scene \in Scenario /\ R!Init /\ stored = {} /\ held = [h \in Hash |-> None]
      /\ dep \in {"none", "user"} /\ lock = None /\ snap = None /\ disk = None /\ was = None
      /\ holder = None /\ proc = [p \in Proc |-> Idle]
  BY DEF Init, B!Init
<1>2. R!TypeOK /\ row = None
  <2>1. \A n \in {Pkg}, h \in Hash : {<<n, h>>} # {}
    OBVIOUS
  <2>2. /\ channel = R!NoChannel /\ project = [q \in {Project} |-> None]
        /\ consumes = R!NoConsumption
    BY <1>1, <2>1 DEF R!Init
  <2> QED
    BY <1>1, <2>2 DEF R!TypeOK, R!NoChannel, R!NoConsumption, row
<1>3. Typed
  BY <1>1, <1>2, Fresh DEF Typed, LockFile
<1>4. ASSUME NEW q \in Proc
      PROVE  Placed(q) /\ Holding(q) /\ Spared(q)
  <2>1. proc[q].cmd = None /\ proc[q].pc = "idle" /\ proc[q].opts = {}
    BY <1>1, Fresh
  <2> QED
    BY <2>1, Facts DEF Placed, Holding, Spared, Busy, Is, Runs, Publishing, Bringing, Add, Command
<1> QED
  BY <1>3, <1>4 DEF Base

(* A process that ends leaves the rest alone.                              *)
LEMMA EndBase ==
  ASSUME Base, NEW p \in Proc, End(p), UNCHANGED scene, UNCHANGED <<db, held>>,
         UNCHANGED <<files, was>>
  PROVE  Base'
<1>1. /\ proc' \in [Proc -> Process] /\ Rest(p) /\ proc'[p] = Idle
      /\ holder' = IF holder = p THEN None ELSE holder
  BY Ends DEF Base
<1>2. UNCHANGED <<stored, channel, project, consumes, dep, lock, snap, disk, row>>
  BY DEF db, files, row
<1>3. Typed'
  BY <1>1, <1>2 DEF Base, Typed, R!TypeOK
<1>4. Placed(p)' /\ Holding(p)' /\ Spared(p)'
  <2>1. proc'[p].cmd = None /\ proc'[p].pc = "idle" /\ proc'[p].opts = {}
    BY <1>1, Fresh
  <2> QED
    BY <2>1, Facts DEF Placed, Holding, Spared, Busy, Is, Runs, Publishing, Bringing, Add, Command
<1> QED
  BY <1>1, <1>2, <1>3, <1>4, BaseStep

(* A step of one process that goes on, whatever it changes besides.        *)
LEMMA GoBase ==
  ASSUME Base, NEW p \in Proc, GoesOn(p), UNCHANGED <<scene, holder>>,
         R!TypeOK', held' \in [Hash -> {"served", None}], dep' \in {"none", "user", "lnpm"},
         lock' \in LockFile, snap' \in LockFile, disk' \in Hash \cup {"live", None},
         was' \in Hash \cup {None},
         row' = row \/ holder = p,
         Busy(p)' => Busy(p) \/ holder = p,
         Placed(p)', Spared(p)'
  PROVE  Base'
<1>1. Typed'
  BY DEF Base, Typed, GoesOn
<1>2. Holding(p)'
  BY DEF Base, Holding
<1> QED
  BY <1>1, <1>2, BaseStep DEF GoesOn

LEMMA Still ==
  ASSUME Base, UNCHANGED db
  PROVE  R!TypeOK' /\ row' = row /\ UNCHANGED <<stored, channel, project, consumes>>
  BY DEF Base, Typed, R!TypeOK, db, row

-----------------------------------------------------------------------------
(* What a step does that changes more of its process than the place it has *)
(* reached.                                                                *)
Turns(p) == proc' \in [Proc -> Process] /\ Rest(p) /\ proc'[p].cmd = proc[p].cmd

LEMMA StartDoes ==
  ASSUME Base, NEW p \in Proc, Start(p)
  PROVE  /\ proc' \in [Proc -> Process] /\ Rest(p) /\ proc[p].cmd = None
         /\ UNCHANGED <<held, dep, lock, snap, disk, was, holder>> /\ R!TypeOK' /\ row' = row
         /\ proc'[p].cmd \in scene.used /\ proc'[p].cmd \in Command /\ proc'[p].opts = {}
         /\ proc'[p].pc \in {"exit", "clean", "open"}
         /\ proc'[p].cmd = "retreat" => proc'[p].seen = lock /\ proc'[p].pc # "clean"
         /\ proc'[p].cmd = "restore" =>
               /\ proc'[p].seen = snap
               /\ proc'[p].pc = "open" => Has(snap)
               /\ proc'[p].pc = "clean" => snap = Blank
         /\ proc'[p].cmd \notin {"retreat", "restore"} => proc'[p].pc = "open"
<1> USE Facts
<1>1. PICK c \in scene.used :
        LET seen == CASE c = "retreat" -> lock
                      [] c = "restore" -> snap
                      [] OTHER -> None
            pc == CASE c = "retreat" /\ ~Has(lock) /\ disk = None -> "exit"
                    [] c = "restore" /\ snap = None -> "exit"
                    [] c = "restore" /\ snap = Blank -> "clean"
                    [] OTHER -> "open"
        IN  proc' = [proc EXCEPT ![p] = [Idle EXCEPT !.cmd = c, !.pc = pc, !.seen = seen]]
  BY DEF Start
<1> DEFINE seen == CASE c = "retreat" -> lock
                     [] c = "restore" -> snap
                     [] OTHER -> None
           pc == CASE c = "retreat" /\ ~Has(lock) /\ disk = None -> "exit"
                   [] c = "restore" /\ snap = None -> "exit"
                   [] c = "restore" /\ snap = Blank -> "clean"
                   [] OTHER -> "open"
           r == [Idle EXCEPT !.cmd = c, !.pc = pc, !.seen = seen]
<1>2. proc' = [proc EXCEPT ![p] = r]
  BY <1>1
<1>3. c \in Command
  BY ProjectAssumption DEF Base, Typed, Scenarios
<1>4. /\ seen \in LockFile
      /\ c = "retreat" => seen = lock
      /\ c = "restore" => seen = snap
  BY DEF Base, Typed, LockFile
<1>5. /\ pc \in {"exit", "clean", "open"}
      /\ c = "retreat" => pc # "clean"
      /\ c = "restore" => (pc = "open" => Has(snap)) /\ (pc = "clean" => snap = Blank)
      /\ c \notin {"retreat", "restore"} => pc = "open"
  BY DEF Base, Typed, LockFile, Has
<1> HIDE DEF seen, pc
<1>6. /\ r \in Process /\ r.cmd = c /\ r.pc = pc /\ r.seen = seen /\ r.opts = {}
  BY <1>3, <1>4, <1>5, Fresh DEF Process, Pc
<1> HIDE DEF r
<1>7. proc' \in [Proc -> Process] /\ Rest(p) /\ proc'[p] = r
  BY <1>2, <1>6, Becomes DEF Base, Typed
<1>8. /\ UNCHANGED <<held, dep, lock, snap, disk, was, holder>>
      /\ R!TypeOK' /\ row' = row /\ proc[p].cmd = None
  BY Still DEF Start, files
<1> QED
  BY <1>3, <1>4, <1>5, <1>6, <1>7, <1>8

LEMMA GetDBFailsDoes ==
  ASSUME Base, NEW p \in Proc, GetDBFails(p)
  PROVE  /\ UNCHANGED <<held, dep, lock, snap, disk, was>> /\ R!TypeOK' /\ row' = row
         /\ proc[p].pc = "open"
         /\ \/ End(p)
            \/ /\ Turns(p) /\ proc[p].cmd = "retreat" /\ UNCHANGED holder
               /\ proc'[p].pc = "start" /\ proc'[p].opts = {"nodb"}
               /\ proc'[p].seen = proc[p].seen
<1>1. /\ UNCHANGED <<held, dep, lock, snap, disk, was>> /\ R!TypeOK' /\ row' = row
      /\ proc[p].pc = "open" /\ proc[p] \in Process
  BY Still DEF GetDBFails, files, Base, Typed
<1>2. CASE /\ proc[p].cmd = "retreat" /\ UNCHANGED holder
           /\ proc' = [proc EXCEPT ![p].pc = "start", ![p].opts = {"nodb"}]
  <2> DEFINE r == [proc[p] EXCEPT !.pc = "start", !.opts = {"nodb"}]
  <2>1. proc' = [proc EXCEPT ![p] = r]
    BY <1>2 DEF Base, Typed
  <2>2. /\ r \in Process /\ r.cmd = "retreat" /\ r.pc = "start" /\ r.opts = {"nodb"}
        /\ r.seen = proc[p].seen
    BY <1>1, <1>2 DEF Process, Pc, Option
  <2> HIDE DEF r
  <2> QED
    BY <1>1, <1>2, <2>1, <2>2, Becomes DEF Base, Typed, Turns
<1> QED
  BY <1>1, <1>2 DEF GetDBFails

LEMMA CheckDoes ==
  ASSUME Base, NEW p \in Proc, Check(p)
  PROVE  /\ Turns(p) /\ proc[p].pc = "start" /\ proc[p].cmd \in Publishing
         /\ UNCHANGED <<held, dep, lock, snap, disk, was, holder>> /\ R!TypeOK' /\ row' = row
         /\ proc'[p].pc \in {"exit", "store"} /\ proc'[p].build \in Hash
         /\ proc'[p].opts \in {{"push"}, {}}
         /\ proc'[p].opts = {"push"} => proc[p].cmd \in {"publish-push", "push"}
<1>1. PICK h \in Hash, t \in scene.tags, pc \in {"exit", "store"}, o \in {{"push"}, {}} :
        /\ proc' = [proc EXCEPT ![p].build = h, ![p].tag = t, ![p].opts = o, ![p].pc = pc]
        /\ o = {"push"} => proc[p].cmd \in {"publish-push", "push"}
  BY Zenon DEF Check
<1> DEFINE r == [proc[p] EXCEPT !.build = h, !.tag = t, !.opts = o, !.pc = pc]
<1>2. proc' = [proc EXCEPT ![p] = r]
  BY <1>1 DEF Base, Typed
<1>3. t \in Tag
  BY ProjectAssumption DEF Base, Typed, Scenarios
<1>4. /\ r \in Process /\ r.cmd = proc[p].cmd /\ r.pc = pc /\ r.build = h /\ r.opts = o
  <2>1. proc[p] \in Process
    BY DEF Base, Typed
  <2> QED
    BY <1>3, <2>1 DEF Process, Pc, Option
<1> HIDE DEF r
<1>5. proc' \in [Proc -> Process] /\ Rest(p) /\ proc'[p] = r
  BY <1>2, <1>4, Becomes DEF Base, Typed
<1>6. /\ UNCHANGED <<held, dep, lock, snap, disk, was, holder>> /\ R!TypeOK' /\ row' = row
      /\ proc[p].pc = "start" /\ proc[p].cmd \in Publishing
  BY Still DEF Check, At, files
<1> QED
  BY <1>1, <1>4, <1>5, <1>6 DEF Turns

LEMMA ScanDoes ==
  ASSUME Base, NEW p \in Proc, Scan(p)
  PROVE  /\ Turns(p) /\ proc[p].pc = "start" /\ proc[p].cmd = "gc" /\ proc'[p].pc = "evict"
         /\ UNCHANGED <<held, dep, lock, snap, disk, was, holder>> /\ R!TypeOK' /\ row' = row
         /\ proc'[p].opts = proc[p].opts
         /\ row = None \/ row.hash \notin proc'[p].victims
<1>1. PICK v \in SUBSET packagesToRemove :
        proc' = [proc EXCEPT ![p].victims = v, ![p].pc = "evict"]
  BY DEF Scan
<1> DEFINE r == [proc[p] EXCEPT !.victims = v, !.pc = "evict"]
<1>2. proc' = [proc EXCEPT ![p] = r] /\ v \in SUBSET Hash
      /\ (row = None \/ row.hash \notin v)
  BY <1>1 DEF Base, Typed, packagesToRemove
<1>3. /\ r \in Process /\ r.cmd = proc[p].cmd /\ r.pc = "evict" /\ r.victims = v
      /\ r.opts = proc[p].opts
  <2>1. proc[p] \in Process
    BY DEF Base, Typed
  <2> QED
    BY <1>2, <2>1 DEF Process, Pc
<1> HIDE DEF r
<1>4. proc' \in [Proc -> Process] /\ Rest(p) /\ proc'[p] = r
  BY <1>2, <1>3, Becomes DEF Base, Typed
<1>5. /\ UNCHANGED <<held, dep, lock, snap, disk, was, holder>> /\ R!TypeOK' /\ row' = row
      /\ proc[p].pc = "start" /\ proc[p].cmd = "gc"
  BY Still DEF Scan, At, files
<1> QED
  BY <1>2, <1>3, <1>4, <1>5 DEF Turns

(* It goes on, takes a build and is about to forget it, or passes one over. *)
LEMMA EvictDoes ==
  ASSUME Base, NEW p \in Proc, Evict(p)
  PROVE  /\ Turns(p) /\ proc[p].pc = "evict" /\ proc[p].cmd = "gc"
         /\ UNCHANGED <<dep, lock, snap, disk, was, holder>> /\ R!TypeOK' /\ row' = row
         /\ stored' = stored /\ proc'[p].opts = proc[p].opts
         /\ proc'[p].victims \subseteq proc[p].victims
         /\ \/ proc'[p].pc \in {"evict", "exit"} /\ UNCHANGED held
            \/ /\ proc'[p].pc = "forget" /\ proc'[p].build \in proc[p].victims
               /\ proc'[p].build \notin proc'[p].victims
               /\ IF held[proc'[p].build] # None THEN B!Remove(proc'[p].build)
                                                 ELSE UNCHANGED held
<1>1. /\ UNCHANGED <<dep, lock, snap, disk, was, holder>> /\ R!TypeOK' /\ row' = row
      /\ proc[p].pc = "evict" /\ proc[p].cmd = "gc" /\ proc[p] \in Process /\ stored' = stored
  BY Still DEF Evict, At, files, Base, Typed
<1>2. CASE To(p, "exit") /\ UNCHANGED held
  BY <1>1, <1>2, Goes DEF Pc, Base, Typed, GoesOn, Turns
<1>3. CASE \E h \in proc[p].victims :
             /\ proc' = [proc EXCEPT ![p].build = h, ![p].victims = @ \ {h}, ![p].pc = "forget"]
             /\ IF held[h] # None THEN B!Remove(h) ELSE UNCHANGED held
  <2>1. PICK h \in proc[p].victims :
             /\ proc' = [proc EXCEPT ![p].build = h, ![p].victims = @ \ {h}, ![p].pc = "forget"]
             /\ IF held[h] # None THEN B!Remove(h) ELSE UNCHANGED held
    BY <1>3
  <2> DEFINE r == [proc[p] EXCEPT !.build = h, !.victims = @ \ {h}, !.pc = "forget"]
  <2>2. proc' = [proc EXCEPT ![p] = r]
    BY <2>1 DEF Base, Typed
  <2>3. h \in Hash
    BY <1>1 DEF Process
  <2>4. /\ r \in Process /\ r.cmd = "gc" /\ r.pc = "forget" /\ r.build = h
        /\ r.victims = proc[p].victims \ {h} /\ r.opts = proc[p].opts
    BY <1>1, <2>3 DEF Process, Pc
  <2> HIDE DEF r
  <2>5. proc' \in [Proc -> Process] /\ Rest(p) /\ proc'[p] = r
    BY <2>2, <2>4, Becomes DEF Base, Typed
  <2> QED
    BY <1>1, <2>1, <2>4, <2>5 DEF Turns
<1>4. CASE /\ \E h \in proc[p].victims : proc' = [proc EXCEPT ![p].victims = @ \ {h}]
           /\ UNCHANGED held
  <2>1. PICK h \in proc[p].victims : proc' = [proc EXCEPT ![p].victims = @ \ {h}]
    BY <1>4
  <2> DEFINE r == [proc[p] EXCEPT !.victims = @ \ {h}]
  <2>2. proc' = [proc EXCEPT ![p] = r]
    BY <2>1 DEF Base, Typed
  <2>3. /\ r \in Process /\ r.cmd = "gc" /\ r.pc = "evict"
        /\ r.victims = proc[p].victims \ {h} /\ r.opts = proc[p].opts
    BY <1>1 DEF Process, Pc
  <2> HIDE DEF r
  <2>4. proc' \in [Proc -> Process] /\ Rest(p) /\ proc'[p] = r
    BY <2>2, <2>3, Becomes DEF Base, Typed
  <2> QED
    BY <1>1, <1>4, <2>3, <2>4 DEF Turns
<1> QED
  BY <1>2, <1>3, <1>4 DEF Evict

LEMMA ResolveDoes ==
  ASSUME Base, NEW p \in Proc, Resolve(p)
  PROVE  /\ UNCHANGED <<held, dep, lock, snap, disk, was>> /\ R!TypeOK' /\ row' = row
         /\ proc[p].pc = "start" /\ proc[p].cmd \in Add
         /\ \/ End(p)
            \/ /\ Turns(p) /\ UNCHANGED holder
               /\ proc'[p].pc = "link" /\ proc'[p].build \in Hash
               /\ proc'[p].opts \subseteq {"pinned", "live"}
               /\ "live" \in proc'[p].opts => proc[p].cmd = "add-link"
<1>1. /\ UNCHANGED <<held, dep, lock, snap, disk, was>> /\ R!TypeOK' /\ row' = row
      /\ proc[p].pc = "start" /\ proc[p].cmd \in Add
  BY Still DEF Resolve, At, files
<1>2. CASE \E t \in Tag, h \in Hash, o \in SUBSET {"pinned", "live"} :
             /\ Resolves(t, h, o)
             /\ ("live" \in o) <=> (proc[p].cmd = "add-link")
             /\ proc' = [proc EXCEPT ![p].build = h, ![p].tag = t, ![p].opts = o,
                                     ![p].pc = "link"]
             /\ UNCHANGED holder
  <2>1. PICK t \in Tag, h \in Hash, o \in SUBSET {"pinned", "live"} :
             /\ ("live" \in o) <=> (proc[p].cmd = "add-link")
             /\ proc' = [proc EXCEPT ![p].build = h, ![p].tag = t, ![p].opts = o,
                                     ![p].pc = "link"]
             /\ UNCHANGED holder
    BY <1>2
  <2> DEFINE r == [proc[p] EXCEPT !.build = h, !.tag = t, !.opts = o, !.pc = "link"]
  <2>2. proc' = [proc EXCEPT ![p] = r]
    BY <2>1 DEF Base, Typed
  <2>3. /\ r \in Process /\ r.cmd = proc[p].cmd /\ r.pc = "link" /\ r.build = h /\ r.opts = o
    <3>1. proc[p] \in Process /\ o \subseteq Option
      BY DEF Base, Typed, Option
    <3> QED
      BY <3>1 DEF Process, Pc
  <2> HIDE DEF r
  <2>4. proc' \in [Proc -> Process] /\ Rest(p) /\ proc'[p] = r
    BY <2>2, <2>3, Becomes DEF Base, Typed
  <2> QED
    BY <1>1, <2>1, <2>3, <2>4 DEF Turns
<1> QED
  BY <1>1, <1>2 DEF Resolve

LEMMA LinkDoes ==
  ASSUME Base, NEW p \in Proc, Link(p)
  PROVE  /\ UNCHANGED <<held, dep, lock, snap, was>> /\ R!TypeOK' /\ row' = row
         /\ proc[p].pc = "link" /\ proc[p].cmd \in Bringing /\ proc[p].build \in Hash
         /\ \/ End(p) /\ UNCHANGED disk
            \/ /\ GoesOn(p) /\ UNCHANGED holder
               /\ \/ "live" \in proc[p].opts /\ proc[p].cmd = "add-link" /\ disk' = "live"
                  \/ /\ "live" \notin proc[p].opts /\ held[proc[p].build] # None
                     /\ disk' = proc[p].build
               /\ \/ proc[p].cmd \in Add /\ proc'[p].pc = "lock"
                  \/ proc[p].cmd = "pull" /\ proc'[p].pc = "row"
                  \/ proc[p].cmd = "restore" /\ proc'[p].pc = "dep"
<1> USE Facts
<1>1. /\ UNCHANGED <<held, dep, lock, snap, was>> /\ R!TypeOK' /\ row' = row
      /\ proc[p].pc = "link"
  BY Still DEF Link
<1>2. proc[p].cmd \in Bringing /\ proc[p].build \in Hash
      /\ ("live" \in proc[p].opts => proc[p].cmd = "add-link")
  BY <1>1 DEF Base, Placed, Is, Runs
<1>3. CASE ~(End(p) /\ UNCHANGED disk)
  <2>1. /\ UNCHANGED holder
        /\ \/ "live" \in proc[p].opts /\ proc[p].cmd = "add-link" /\ disk' = "live"
           \/ /\ "live" \notin proc[p].opts /\ held[proc[p].build] # None
              /\ disk' = proc[p].build
        /\ To(p, CASE proc[p].cmd \in Add -> "lock"
                   [] proc[p].cmd = "pull" -> "row"
                   [] proc[p].cmd = "restore" -> "dep")
    BY <1>2, <1>3 DEF Link
  <2>2. CASE proc[p].cmd \in Add
    <3>1. To(p, "lock")
      BY <2>1, <2>2 DEF Add
    <3> QED
      BY <1>1, <1>2, <2>1, <2>2, <3>1, Goes DEF Pc, Base, Typed
  <2>3. CASE proc[p].cmd = "pull"
    <3>1. To(p, "row")
      BY <2>1, <2>3 DEF Add
    <3> QED
      BY <1>1, <1>2, <2>1, <2>3, <3>1, Goes DEF Pc, Base, Typed
  <2>4. CASE proc[p].cmd = "restore"
    <3>1. To(p, "dep")
      BY <2>1, <2>4 DEF Add
    <3> QED
      BY <1>1, <1>2, <2>1, <2>4, <3>1, Goes DEF Pc, Base, Typed
  <2> QED
    BY <1>2, <2>2, <2>3, <2>4 DEF Bringing
<1> QED
  BY <1>1, <1>2, <1>3

(* pull.                                                                   *)
LEMMA RunPullDoes ==
  ASSUME Base, NEW p \in Proc, RunPull(p)
  PROVE  /\ UNCHANGED <<held, dep, lock, snap, disk, was>> /\ R!TypeOK' /\ row' = row
         /\ channel' = channel /\ proc[p].pc = "start" /\ proc[p].cmd = "pull"
         /\ \/ End(p)
            \/ /\ Turns(p) /\ UNCHANGED holder /\ Has(lock) /\ proc'[p].seen = lock
               /\ proc'[p].build = Followed
               /\ \/ /\ proc'[p].pc = "exit" /\ proc'[p].opts = {"kept"}
                  \/ /\ proc'[p].pc = "failed" /\ proc'[p].opts = {}
                  \/ /\ proc'[p].pc = "exit" /\ proc'[p].opts = {}
                     /\ disk # "live" /\ lock.hash = Followed
                  \/ /\ proc'[p].pc = "link" /\ proc'[p].opts = {}
                     /\ disk # "live" /\ Followed \in Hash /\ (row = None \/ ~row.pinned)
<1>1. /\ UNCHANGED <<held, dep, lock, snap, disk, was>> /\ R!TypeOK' /\ row' = row
      /\ channel' = channel /\ proc[p].pc = "start" /\ proc[p].cmd = "pull"
      /\ proc[p] \in Process
  BY Still DEF RunPull, At, files, Base, Typed
<1>2. CASE ~End(p)
  <2> DEFINE h == channel[Pkg][heldTag]
             kept == disk = "live" \/ heldPinned
             pc == IF kept THEN "exit" ELSE IF h = None THEN "failed"
                   ELSE IF lock.hash = h THEN "exit" ELSE "link"
             o == IF kept THEN {"kept"} ELSE {}
             r == [proc[p] EXCEPT !.pc = pc, !.seen = lock, !.build = h, !.opts = o]
  <2>1. /\ proc' = [proc EXCEPT ![p].pc = pc, ![p].seen = lock, ![p].build = h, ![p].opts = o]
        /\ Has(lock) /\ UNCHANGED holder
    BY <1>2 DEF RunPull
  <2>2. proc' = [proc EXCEPT ![p] = r]
    BY <2>1 DEF Base, Typed
  <2>3. heldTag \in Tag
    <3>1. row \in R!Consumption \cup {None}
      BY DEF row, Base, Typed, R!TypeOK
    <3> QED
      BY <3>1, Facts DEF heldTag, R!Consumption
  <2>4. h \in Hash \cup {None} /\ h = Followed
    BY <2>3 DEF Base, Typed, R!TypeOK, Followed, heldTag
  <2>5. /\ \/ pc = "exit" /\ o = {"kept"}
           \/ pc = "failed" /\ o = {}
           \/ pc = "exit" /\ o = {} /\ disk # "live" /\ lock.hash = h
           \/ pc = "link" /\ o = {} /\ disk # "live" /\ h # None /\ (row = None \/ ~row.pinned)
    BY DEF heldPinned
  <2> HIDE DEF h, o, pc
  <2>6. /\ r \in Process /\ r.cmd = "pull" /\ r.pc = pc /\ r.seen = lock /\ r.build = h
        /\ r.opts = o
    <3>1. o \subseteq Option /\ lock \in LockFile
      BY <2>5 DEF Option, Base, Typed
    <3> QED
      BY <1>1, <2>4, <2>5, <3>1 DEF Process, Pc
  <2> HIDE DEF r
  <2>7. proc' \in [Proc -> Process] /\ Rest(p) /\ proc'[p] = r
    BY <2>2, <2>6, Becomes DEF Base, Typed
  <2> QED
    BY <1>1, <2>1, <2>4, <2>5, <2>6, <2>7 DEF Turns
<1> QED
  BY <1>1, <1>2

(* remove and retreat.                                                     *)
LEMMA UnlinkDoes ==
  ASSUME Base, NEW p \in Proc, Unlink(p)
  PROVE  /\ UNCHANGED <<held, dep, lock, snap, was>> /\ R!TypeOK' /\ row' = row
         /\ proc[p].pc = "start" /\ proc[p].cmd = "remove"
         /\ \/ End(p) /\ UNCHANGED disk
            \/ /\ Turns(p) /\ UNCHANGED holder /\ Has(lock) /\ disk' = None
               /\ proc'[p].pc = "dep" /\ proc'[p].seen = lock /\ proc'[p].opts = proc[p].opts
<1>1. /\ UNCHANGED <<held, dep, lock, snap, was>> /\ R!TypeOK' /\ row' = row
      /\ proc[p].pc = "start" /\ proc[p].cmd = "remove" /\ proc[p] \in Process
  BY Still DEF Unlink, At, Base, Typed
<1>2. CASE /\ Has(lock) /\ disk' = None /\ UNCHANGED holder
           /\ proc' = [proc EXCEPT ![p].pc = "dep", ![p].seen = lock]
  <2> DEFINE r == [proc[p] EXCEPT !.pc = "dep", !.seen = lock]
  <2>1. proc' = [proc EXCEPT ![p] = r]
    BY <1>2 DEF Base, Typed
  <2>2. /\ r \in Process /\ r.cmd = "remove" /\ r.pc = "dep" /\ r.seen = lock
        /\ r.opts = proc[p].opts
    <3>1. lock \in LockFile
      BY DEF Base, Typed
    <3> QED
      BY <1>1, <3>1 DEF Process, Pc
  <2> HIDE DEF r
  <2> QED
    BY <1>1, <1>2, <2>1, <2>2, Becomes DEF Base, Typed, Turns
<1> QED
  BY <1>1, <1>2 DEF Unlink



(* Running a command.                                                      *)
LEMMA StartBase ==
  ASSUME Base, NEW p \in Proc, Start(p), UNCHANGED scene
  PROVE  Base'
<1> USE Facts
<1>1. /\ proc' \in [Proc -> Process] /\ Rest(p) /\ proc[p].cmd = None
      /\ UNCHANGED <<held, dep, lock, snap, disk, was, holder>> /\ R!TypeOK' /\ row' = row
      /\ proc'[p].cmd \in scene.used /\ proc'[p].cmd # None /\ proc'[p].opts = {}
      /\ proc'[p].pc \in {"exit", "clean", "open"}
      /\ proc'[p].cmd = "restore" /\ proc'[p].pc = "open" => Has(proc'[p].seen)
      /\ proc'[p].pc = "clean" => proc'[p].cmd = "restore"
  BY StartDoes
<1>2. Typed'
  BY <1>1 DEF Base, Typed
<1>3. Placed(p)' /\ Spared(p)' /\ ~Busy(p)'
  BY <1>1 DEF Placed, Spared, Busy, Is, Runs
<1> QED
  BY <1>1, <1>2, <1>3, BaseStep DEF Holding

LEMMA GetDBBase ==
  ASSUME Base, NEW p \in Proc, GetDB(p), UNCHANGED scene
  PROVE  Base'
<1> USE Facts
<1>1. /\ GoesOn(p) /\ proc'[p].pc = "start" /\ proc[p].pc = "open" /\ holder = None /\ holder' = p
      /\ UNCHANGED <<held, dep, lock, snap, disk, was>> /\ R!TypeOK' /\ row' = row
  BY Still, Goes DEF GetDB, files, Pc, Base, Typed
<1>2. Typed'
  BY <1>1 DEF Base, Typed, GoesOn
<1>3. Placed(p)' /\ Spared(p)' /\ Holding(p)'
  BY <1>1 DEF Base, Placed, Spared, Holding, Is, Runs, GoesOn
<1> QED
  BY <1>1, <1>2, <1>3, BaseStep DEF GoesOn

LEMMA GetDBFailsBase ==
  ASSUME Base, NEW p \in Proc, GetDBFails(p), UNCHANGED scene
  PROVE  Base'
<1> USE Facts
<1>1. CASE End(p)
  BY <1>1, EndBase DEF GetDBFails
<1>2. CASE ~End(p)
  <2>1. /\ UNCHANGED <<held, dep, lock, snap, disk, was, holder>> /\ R!TypeOK' /\ row' = row
        /\ proc' \in [Proc -> Process] /\ Rest(p) /\ proc'[p].cmd = proc[p].cmd
        /\ proc[p].cmd = "retreat" /\ proc'[p].pc = "start" /\ proc'[p].opts = {"nodb"}
    BY <1>2, GetDBFailsDoes DEF Turns
  <2>2. Typed'
    BY <2>1 DEF Base, Typed
  <2>3. Placed(p)'
    <3>1. "retreat" # None
      BY DEF Command
    <3> QED
      BY <2>1, <3>1 DEF Base, Placed, Is, Runs
  <2>4. Spared(p)' /\ ~Busy(p)'
    BY <2>1 DEF Spared, Busy, Is, Runs
  <2> QED
    BY <2>1, <2>2, <2>3, <2>4, BaseStep DEF Holding
<1> QED
  BY <1>1, <1>2

(* Publishing.                                                             *)
LEMMA CheckBase ==
  ASSUME Base, NEW p \in Proc, Check(p), UNCHANGED scene
  PROVE  Base'
<1> USE Facts
<1>1. /\ proc' \in [Proc -> Process] /\ Rest(p) /\ proc'[p].cmd = proc[p].cmd
      /\ proc[p].pc = "start" /\ proc[p].cmd \in Publishing
      /\ UNCHANGED <<held, dep, lock, snap, disk, was, holder>> /\ R!TypeOK' /\ row' = row
      /\ proc'[p].pc \in {"exit", "store"} /\ proc'[p].build \in Hash
      /\ proc'[p].opts \in {{"push"}, {}}
      /\ proc'[p].opts = {"push"} => proc[p].cmd \in {"publish-push", "push"}
  BY CheckDoes DEF Turns
<1>2. Typed'
  BY <1>1 DEF Base, Typed
<1>3. Placed(p)' /\ Spared(p)' /\ Busy(p)
  BY <1>1 DEF Base, Placed, Spared, Busy, Is, Runs, Publishing
<1> QED
  BY <1>1, <1>2, <1>3, BaseStep DEF Base, Holding

LEMMA StoreBase ==
  ASSUME Base, NEW p \in Proc, Store(p), UNCHANGED scene
  PROVE  Base'
<1> USE Facts
<1>1. /\ GoesOn(p) /\ proc'[p].pc = "record" /\ proc[p].pc = "store"
      /\ UNCHANGED <<dep, lock, snap, disk, was, holder>> /\ R!TypeOK' /\ row' = row
  BY Still, Goes DEF Store, files, Pc, Base, Typed
<1>2. proc[p].build \in Hash /\ held \in [Hash -> {"served", None}]
      /\ proc[p].cmd \in Publishing
  BY <1>1 DEF Base, Typed, Placed, Is
<1>3. held' \in [Hash -> {"served", None}]
  BY <1>2 DEF Store, B!Store
<1>4. Placed(p)' /\ Spared(p)' /\ Busy(p)
  BY <1>1, <1>2 DEF Base, Placed, Spared, Busy, Is, Runs, GoesOn, Publishing
<1> QED
  BY <1>1, <1>3, <1>4, GoBase DEF Base, Typed

LEMMA RecordBase ==
  ASSUME Base, NEW p \in Proc, Record(p), UNCHANGED scene
  PROVE  Base'
<1> USE Facts
<1>1. /\ GoesOn(p) /\ proc[p].pc = "record"
      /\ \/ proc'[p].pc = "relink" /\ "push" \in proc[p].opts
         \/ proc'[p].pc = "exit"
      /\ UNCHANGED <<held, dep, lock, snap, disk, was, holder>>
      /\ R!Publish(Pkg, proc[p].build, proc[p].tag)
  BY Goes DEF Record, files, Pc, Base, Typed
<1>2. proc[p].build \in Hash /\ proc[p].cmd \in Publishing /\ proc[p].tag \in Tag
  BY <1>1 DEF Base, Typed, Placed, Is, Process
<1>3. R!TypeOK'
  BY <1>1, <1>2, RegistryTypes DEF Base, Typed
<1>4. Placed(p)' /\ Spared(p)' /\ Busy(p)
  BY <1>1, <1>2 DEF Base, Placed, Spared, Busy, Is, Runs, GoesOn, Publishing
<1> QED
  BY <1>1, <1>3, <1>4, GoBase DEF Base, Typed, Holding

LEMMA RelinkBase ==
  ASSUME Base, NEW p \in Proc, Relink(p), UNCHANGED scene
  PROVE  Base'
<1> USE Facts
<1>1. /\ GoesOn(p) /\ proc[p].pc = "relink" /\ proc'[p].pc = "exit"
      /\ UNCHANGED <<held, dep, lock, snap, was, holder>> /\ R!TypeOK' /\ row' = row
      /\ disk' \in {disk, proc[p].build}
  BY Still, Goes DEF Relink, Pc, Base, Typed
<1>2. proc[p].build \in Hash
  BY <1>1 DEF Base, Placed, Is
<1>3. Placed(p)' /\ Spared(p)' /\ ~Busy(p)'
  BY <1>1 DEF Base, Placed, Spared, Busy, Is, Runs, GoesOn
<1> QED
  BY <1>1, <1>2, <1>3, GoBase DEF Base, Typed

LEMMA TagBase ==
  ASSUME Base, NEW p \in Proc, RunTag(p), UNCHANGED scene
  PROVE  Base'
<1> USE Facts
<1>1. /\ GoesOn(p) /\ proc[p].pc = "start" /\ proc[p].cmd = "tag" /\ proc'[p].pc = "exit"
      /\ UNCHANGED <<held, dep, lock, snap, disk, was, holder>>
  BY Goes DEF RunTag, At, files, Pc, Base, Typed
<1>2. R!TypeOK'
  <2>1. \A t \in scene.tags : t \in Tag
    BY ProjectAssumption DEF Base, Typed, Scenarios
  <2>2. latest # None => latest \in Hash
    BY DEF latest, Base, Typed, R!TypeOK
  <2>3. ASSUME NEW t \in scene.tags, \/ latest # None /\ R!SetTag(Pkg, t, latest)
                                     \/ R!DeleteTag(Pkg, t)
        PROVE  R!TypeOK'
    BY <2>1, <2>2, <2>3, RegistryTypes DEF Base, Typed
  <2> QED
    BY <2>3, Still DEF RunTag
<1>3. Placed(p)' /\ Spared(p)' /\ Busy(p)
  BY <1>1 DEF Base, Placed, Spared, Busy, Is, Runs, GoesOn
<1> QED
  BY <1>1, <1>2, <1>3, GoBase DEF Base, Typed, Holding

(* gc.                                                                     *)
LEMMA ScanBase ==
  ASSUME Base, NEW p \in Proc, Scan(p), UNCHANGED scene
  PROVE  Base'
<1> USE Facts
<1>1. /\ proc' \in [Proc -> Process] /\ Rest(p) /\ proc'[p].cmd = proc[p].cmd
      /\ proc[p].pc = "start" /\ proc[p].cmd = "gc" /\ proc'[p].pc = "evict"
      /\ UNCHANGED <<held, dep, lock, snap, disk, was, holder>> /\ R!TypeOK' /\ row' = row
      /\ proc'[p].opts = proc[p].opts
      /\ row = None \/ row.hash \notin proc'[p].victims
  BY ScanDoes DEF Turns
<1>2. Typed'
  BY <1>1 DEF Base, Typed
<1>3. Placed(p)' /\ Spared(p)' /\ Busy(p)
  BY <1>1 DEF Base, Placed, Spared, Busy, Is, Runs
<1> QED
  BY <1>1, <1>2, <1>3, BaseStep DEF Base, Holding

LEMMA EvictBase ==
  ASSUME Base, NEW p \in Proc, Evict(p), UNCHANGED scene
  PROVE  Base'
<1> USE Facts
<1>1. /\ proc' \in [Proc -> Process] /\ Rest(p) /\ proc'[p].cmd = proc[p].cmd
      /\ proc[p].pc = "evict" /\ proc[p].cmd = "gc" /\ proc'[p].pc \in {"evict", "exit", "forget"}
      /\ UNCHANGED <<dep, lock, snap, disk, was, holder>> /\ R!TypeOK' /\ row' = row
      /\ proc'[p].opts = proc[p].opts /\ proc'[p].victims \subseteq proc[p].victims
      /\ proc'[p].pc = "forget" => proc'[p].build \in proc[p].victims
  BY EvictDoes DEF Turns
<1>2. held' \in [Hash -> {"served", None}]
  BY EvictDoes DEF Base, Typed, B!Remove
<1>3. Typed'
  BY <1>1, <1>2 DEF Base, Typed
<1>4. proc[p].victims \subseteq Hash /\ (row = None \/ row.hash \notin proc[p].victims)
  BY <1>1 DEF Base, Typed, Process, Spared, Is, Runs
<1>5. Placed(p)' /\ Spared(p)' /\ Busy(p)
  BY <1>1, <1>4 DEF Base, Placed, Spared, Busy, Is, Runs
<1> QED
  BY <1>1, <1>3, <1>5, BaseStep DEF Base, Holding

LEMMA ForgetBase ==
  ASSUME Base, NEW p \in Proc, Forget(p), UNCHANGED scene
  PROVE  Base'
<1> USE Facts
<1>1. /\ GoesOn(p) /\ proc[p].pc = "forget" /\ proc'[p].pc = "evict" /\ proc[p].cmd = "gc"
      /\ UNCHANGED <<held, dep, lock, snap, disk, was, holder>>
      /\ R!DeletePackage(Pkg, proc[p].build)
  BY Goes DEF Forget, At, files, Pc, Base, Typed
<1>2. proc[p].build \in Hash
  BY <1>1 DEF Base, Placed, Is
<1>3. R!TypeOK' /\ row' = IF row # None /\ row.hash = proc[p].build THEN None ELSE row
  BY <1>1, <1>2, RegistryTypes DEF Base, Typed
<1>4. Placed(p)' /\ Busy(p)
  BY <1>1, <1>2 DEF Base, Placed, Busy, Is, Runs, GoesOn
<1>5. Spared(p)'
  BY <1>1, <1>3 DEF Base, Spared, Is, Runs, GoesOn
<1> QED
  BY <1>1, <1>3, <1>4, <1>5, GoBase DEF Base, Typed, Holding

(* Linking.                                                                *)
LEMMA ResolveBase ==
  ASSUME Base, NEW p \in Proc, Resolve(p), UNCHANGED scene
  PROVE  Base'
<1> USE Facts
<1>1. CASE End(p)
  BY <1>1, EndBase DEF Resolve
<1>2. CASE ~End(p)
  <2>1. /\ UNCHANGED <<held, dep, lock, snap, disk, was, holder>> /\ R!TypeOK' /\ row' = row
        /\ proc' \in [Proc -> Process] /\ Rest(p) /\ proc'[p].cmd = proc[p].cmd
        /\ proc[p].pc = "start" /\ proc[p].cmd \in Add
        /\ proc'[p].pc = "link" /\ proc'[p].build \in Hash
        /\ proc'[p].opts \subseteq {"pinned", "live"}
        /\ "live" \in proc'[p].opts => proc[p].cmd = "add-link"
    BY <1>2, ResolveDoes DEF Turns
  <2>2. Typed'
    BY <2>1 DEF Base, Typed
  <2>3. Placed(p)'
    BY <2>1 DEF Base, Placed, Is, Runs, Bringing, Add
  <2>4. Spared(p)' /\ Busy(p)
    BY <2>1 DEF Base, Placed, Spared, Busy, Is, Runs, Add
  <2> QED
    BY <2>1, <2>2, <2>3, <2>4, BaseStep DEF Base, Holding
<1> QED
  BY <1>1, <1>2

LEMMA LinkBase ==
  ASSUME Base, NEW p \in Proc, Link(p), UNCHANGED scene
  PROVE  Base'
<1> USE Facts
<1>1. CASE End(p) /\ UNCHANGED disk
  BY <1>1, EndBase DEF Link, files
<1>2. CASE ~(End(p) /\ UNCHANGED disk)
  <2>1. /\ UNCHANGED <<held, dep, lock, snap, was, holder>> /\ R!TypeOK' /\ row' = row
        /\ proc[p].pc = "link" /\ proc[p].cmd \in Bringing /\ proc[p].build \in Hash
        /\ GoesOn(p) /\ disk' \in {"live", proc[p].build}
        /\ \/ proc[p].cmd \in Add /\ proc'[p].pc = "lock"
           \/ proc[p].cmd = "pull" /\ proc'[p].pc = "row"
           \/ proc[p].cmd = "restore" /\ proc'[p].pc = "dep"
    BY <1>2, LinkDoes
  <2>2. Placed(p)' /\ Spared(p)' /\ Busy(p)
    BY <2>1 DEF Base, Placed, Spared, Busy, Is, Runs, GoesOn, Bringing, Add
  <2> QED
    BY <2>1, <2>2, GoBase DEF Base, Typed
<1> QED
  BY <1>1, <1>2

LEMMA LockAddBase ==
  ASSUME Base, NEW p \in Proc, LockAdd(p), UNCHANGED scene
  PROVE  Base'
<1> USE Facts
<1>1. /\ GoesOn(p) /\ proc[p].pc = "lock" /\ proc'[p].pc \in {"project", "dep"}
      /\ proc[p].cmd \in Add
      /\ UNCHANGED <<held, dep, snap, disk, was, holder>> /\ R!TypeOK' /\ row' = row
  BY Still, Goes DEF LockAdd, At, Pc, Base, Typed
<1>2. proc[p].build \in Hash
  BY <1>1 DEF Base, Placed, Is, Bringing
<1>3. lock' \in Entry
  BY <1>2 DEF LockAdd, Entry, HasOrig, Has
<1>4. Placed(p)' /\ Spared(p)' /\ Busy(p)
  BY <1>1, <1>2 DEF Base, Placed, Spared, Busy, Is, Runs, GoesOn, Bringing, Add
<1> QED
  BY <1>1, <1>3, <1>4, GoBase DEF Base, Typed, LockFile

LEMMA WriteBase ==
  ASSUME Base, NEW p \in Proc, writeLnpmReference(p), UNCHANGED scene
  PROVE  Base'
<1> USE Facts
<1>1. /\ GoesOn(p) /\ proc[p].pc = "dep"
      /\ \/ proc[p].cmd = "restore" /\ proc'[p].pc = "lock"
         \/ proc[p].cmd \in Add /\ proc'[p].pc = "project"
      /\ dep' = "lnpm"
      /\ UNCHANGED <<held, lock, snap, disk, was, holder>> /\ R!TypeOK' /\ row' = row
  BY Still, Goes DEF writeLnpmReference, At, Pc, Base, Typed, Add
<1>2. Placed(p)' /\ Spared(p)' /\ Busy(p)
  BY <1>1 DEF Base, Placed, Spared, Busy, Is, Runs, GoesOn, Bringing, Add
<1> QED
  BY <1>1, <1>2, GoBase DEF Base, Typed

LEMMA InsertProjectBase ==
  ASSUME Base, NEW p \in Proc, InsertProject(p), UNCHANGED scene
  PROVE  Base'
<1> USE Facts
<1>1. /\ GoesOn(p) /\ proc[p].pc = "project" /\ proc'[p].pc = "row"
      /\ proc[p].cmd \in Add \cup {"restore"} /\ R!InsertProject(Project, NoDevice)
      /\ UNCHANGED <<held, dep, lock, snap, disk, was, holder>>
  BY Goes DEF InsertProject, At, files, Pc, Base, Typed
<1>2. R!TypeOK' /\ row' = row
  BY <1>1, RegistryTypes DEF Base, Typed
<1>3. Placed(p)' /\ Spared(p)' /\ Busy(p)
  BY <1>1 DEF Base, Placed, Spared, Busy, Is, Runs, GoesOn, Bringing, Add
<1> QED
  BY <1>1, <1>2, <1>3, GoBase DEF Base, Typed

LEMMA InsertLinkBase ==
  ASSUME Base, NEW p \in Proc, InsertLink(p), UNCHANGED scene
  PROVE  Base'
<1> USE Facts
<1>1. /\ GoesOn(p) /\ proc[p].pc = "row" /\ proc'[p].pc \in {"clean", "exit"}
      /\ proc[p].cmd \in Add \cup {"restore"}
      /\ proc'[p].pc = "clean" => proc[p].cmd = "restore"
      /\ R!InsertLink(Project, Pkg, proc[p].build, proc[p].tag, "pinned" \in proc[p].opts)
      /\ UNCHANGED <<held, dep, lock, snap, disk, was, holder>>
  BY Goes DEF InsertLink, At, files, Pc, Base, Typed
<1>2. proc[p].build \in Hash /\ proc[p].tag \in Tag
  BY <1>1 DEF Base, Typed, Process, Placed, Is, Bringing
<1>3. \E pin \in BOOLEAN : R!InsertLink(Project, Pkg, proc[p].build, proc[p].tag, pin)
  <2> DEFINE pin == "pinned" \in proc[p].opts
  <2>1. pin \in BOOLEAN
    OBVIOUS
  <2>2. R!InsertLink(Project, Pkg, proc[p].build, proc[p].tag, pin)
    BY <1>1
  <2> HIDE DEF pin
  <2> QED
    BY <2>1, <2>2, Zenon
<1>4. R!TypeOK'
  BY <1>2, <1>3, RegistryTypes DEF Base, Typed
<1>5. Placed(p)' /\ Spared(p)' /\ Busy(p)
  BY <1>1 DEF Base, Placed, Spared, Busy, Is, Runs, GoesOn, Bringing, Add
<1> QED
  BY <1>1, <1>4, <1>5, GoBase DEF Base, Typed, Holding

(* pull.                                                                   *)
LEMMA RunPullBase ==
  ASSUME Base, NEW p \in Proc, RunPull(p), UNCHANGED scene
  PROVE  Base'
<1> USE Facts
<1>1. CASE End(p)
  BY <1>1, EndBase DEF RunPull
<1>2. CASE ~End(p)
  <2>1. /\ UNCHANGED <<held, dep, lock, snap, disk, was, holder>> /\ R!TypeOK' /\ row' = row
        /\ proc' \in [Proc -> Process] /\ Rest(p) /\ proc'[p].cmd = proc[p].cmd
        /\ proc[p].pc = "start" /\ proc[p].cmd = "pull" /\ Has(lock) /\ proc'[p].seen = lock
        /\ proc'[p].opts \in {{"kept"}, {}} /\ proc'[p].pc \in {"exit", "failed", "link"}
        /\ proc'[p].pc = "link" => /\ proc'[p].opts = {} /\ proc'[p].build \in Hash
                                   /\ row = None \/ ~row.pinned
    BY <1>2, RunPullDoes DEF Turns
  <2>2. Typed'
    BY <2>1 DEF Base, Typed
  <2>3. Placed(p)' /\ Spared(p)' /\ (Busy(p)' => Busy(p))
    BY <2>1 DEF Base, Placed, Spared, Busy, Is, Runs, Bringing
  <2> QED
    BY <2>1, <2>2, <2>3, BaseStep DEF Base, Holding
<1> QED
  BY <1>1, <1>2

LEMMA PullRowBase ==
  ASSUME Base, NEW p \in Proc, PullRow(p), UNCHANGED scene
  PROVE  Base'
<1> USE Facts
<1>1. /\ GoesOn(p) /\ proc[p].pc = "row" /\ proc'[p].pc = "lock" /\ proc[p].cmd = "pull"
      /\ UNCHANGED <<held, dep, lock, snap, disk, was, holder>>
      /\ \/ UNCHANGED db
         \/ row # None /\ R!InsertLink(Project, Pkg, proc[p].build, row.tag, row.pinned)
  BY Goes DEF PullRow, At, files, Pc, Base, Typed
<1>2. proc[p].build \in Hash
  BY <1>1 DEF Base, Placed, Is, Bringing
<1>3. R!TypeOK'
  <2>1. CASE UNCHANGED db
    BY <2>1, Still
  <2>2. CASE row # None /\ R!InsertLink(Project, Pkg, proc[p].build, row.tag, row.pinned)
    <3>1. row.tag \in Tag /\ row.pinned \in BOOLEAN
      BY <2>2 DEF row, R!Consumption, Base, Typed, R!TypeOK
    <3> QED
      BY <1>2, <2>2, <3>1, RegistryTypes DEF Base, Typed
  <2> QED
    BY <1>1, <2>1, <2>2
<1>4. Placed(p)' /\ Spared(p)' /\ Busy(p)
  BY <1>1 DEF Base, Placed, Spared, Busy, Is, Runs, GoesOn, Bringing
<1> QED
  BY <1>1, <1>3, <1>4, GoBase DEF Base, Typed, Holding

LEMMA PullLockBase ==
  ASSUME Base, NEW p \in Proc, PullLock(p), UNCHANGED scene
  PROVE  Base'
<1> USE Facts
<1>1. /\ GoesOn(p) /\ proc[p].pc = "lock" /\ proc'[p].pc \in {"failed", "exit"}
      /\ proc[p].cmd = "pull" /\ lock' = [proc[p].seen EXCEPT !.hash = proc[p].build]
      /\ UNCHANGED <<held, dep, snap, disk, was, holder>> /\ R!TypeOK' /\ row' = row
  BY Still, Goes DEF PullLock, At, Pc, Base, Typed
<1>2. proc[p].build \in Hash /\ proc[p].seen \in Entry
  BY <1>1 DEF Base, Placed, Is, Runs, Bringing, Has
<1>3. lock' \in Entry
  BY <1>1, <1>2 DEF Entry
<1>4. Placed(p)' /\ Spared(p)' /\ ~Busy(p)'
  BY <1>1 DEF Base, Placed, Spared, Busy, Is, Runs, GoesOn
<1> QED
  BY <1>1, <1>3, <1>4, GoBase DEF Base, Typed, LockFile

(* remove and retreat.                                                     *)
LEMMA UnlinkBase ==
  ASSUME Base, NEW p \in Proc, Unlink(p), UNCHANGED scene
  PROVE  Base'
<1> USE Facts
<1>1. CASE End(p) /\ UNCHANGED disk
  BY <1>1, EndBase DEF Unlink, files
<1>2. CASE ~(End(p) /\ UNCHANGED disk)
  <2>1. /\ UNCHANGED <<held, dep, lock, snap, was, holder>> /\ R!TypeOK' /\ row' = row
        /\ proc' \in [Proc -> Process] /\ Rest(p) /\ proc'[p].cmd = proc[p].cmd
        /\ proc[p].pc = "start" /\ proc[p].cmd = "remove" /\ Has(lock) /\ disk' = None
        /\ proc'[p].pc = "dep" /\ proc'[p].seen = lock /\ proc'[p].opts = proc[p].opts
    BY <1>2, UnlinkDoes DEF Turns
  <2>2. Typed'
    BY <2>1 DEF Base, Typed
  <2>3. Placed(p)' /\ Spared(p)' /\ Busy(p)
    BY <2>1 DEF Base, Placed, Spared, Busy, Is, Runs, Bringing, Add
  <2> QED
    BY <2>1, <2>2, <2>3, BaseStep DEF Base, Holding
<1> QED
  BY <1>1, <1>2

LEMMA RevertDepBase ==
  ASSUME Base, NEW p \in Proc, RevertDep(p), UNCHANGED scene
  PROVE  Base'
<1> USE Facts
<1>1. /\ GoesOn(p) /\ proc[p].pc = "dep" /\ proc'[p].pc = "row"
      /\ proc[p].cmd \in {"remove", "retreat"}
      /\ dep' \in {dep, "user", "none"}
      /\ UNCHANGED <<held, lock, snap, disk, was, holder>> /\ R!TypeOK' /\ row' = row
  BY Still, Goes DEF RevertDep, Reverted, At, Pc, Base, Typed
<1>2. Placed(p)' /\ Spared(p)' /\ (Busy(p)' => Busy(p))
  BY <1>1 DEF Base, Placed, Spared, Busy, Is, Runs, GoesOn, Bringing, Add
<1> QED
  BY <1>1, <1>2, GoBase DEF Base, Typed

(* Only a command that has the database takes the row.                     *)
LEMMA DeleteLinkBase ==
  ASSUME Base, NEW p \in Proc, DeleteLink(p), UNCHANGED scene
  PROVE  Base'
<1> USE Facts
<1>1. /\ GoesOn(p) /\ proc[p].pc = "row" /\ proc[p].cmd \in {"remove", "retreat"}
      /\ \/ proc[p].cmd = "remove" /\ proc'[p].pc = "lock"
         \/ proc[p].cmd = "retreat" /\ proc'[p].pc = "wipe"
      /\ UNCHANGED <<held, dep, lock, snap, disk, was, holder>>
      /\ \/ UNCHANGED db
         \/ "nodb" \notin proc[p].opts /\ R!DeleteLink(Project, Pkg)
  BY Goes DEF DeleteLink, At, files, Pc, Base, Typed
<1>2. R!TypeOK' /\ (row' = row \/ "nodb" \notin proc[p].opts)
  BY <1>1, Still, RegistryTypes DEF Base, Typed
<1>3. Placed(p)' /\ Spared(p)' /\ (Busy(p)' => Busy(p))
  BY <1>1 DEF Base, Placed, Spared, Busy, Is, Runs, GoesOn, Bringing, Add
<1>4. "nodb" \notin proc[p].opts => Busy(p)
  BY <1>1 DEF Busy, Is, Runs
<1> QED
  BY <1>1, <1>2, <1>3, <1>4, GoBase DEF Base, Typed, Holding

LEMMA LockRemoveBase ==
  ASSUME Base, NEW p \in Proc, LockRemove(p), UNCHANGED scene
  PROVE  Base'
<1> USE Facts
<1>1. /\ GoesOn(p) /\ proc[p].pc = "lock" /\ proc'[p].pc = "exit" /\ proc[p].cmd = "remove"
      /\ lock' \in {None, Blank}
      /\ UNCHANGED <<held, dep, snap, disk, was, holder>> /\ R!TypeOK' /\ row' = row
  BY Still, Goes DEF LockRemove, At, Pc, Base, Typed
<1>2. Placed(p)' /\ Spared(p)' /\ ~Busy(p)'
  BY <1>1 DEF Base, Placed, Spared, Busy, Is, Runs, GoesOn
<1> QED
  BY <1>1, <1>2, GoBase DEF Base, Typed, LockFile

LEMMA RunRetreatBase ==
  ASSUME Base, NEW p \in Proc, RunRetreat(p), UNCHANGED scene
  PROVE  Base'
<1> USE Facts
<1>1. /\ GoesOn(p) /\ proc[p].pc = "start" /\ proc[p].cmd = "retreat"
      /\ \/ proc'[p].pc = "dep" /\ Has(proc[p].seen)
         \/ proc'[p].pc = "wipe"
      /\ UNCHANGED <<held, dep, lock, snap, disk, was, holder>> /\ R!TypeOK' /\ row' = row
  BY Still, Goes DEF RunRetreat, At, files, Pc, Base, Typed
<1>2. Placed(p)' /\ Spared(p)' /\ (Busy(p)' => Busy(p))
  BY <1>1 DEF Base, Placed, Spared, Busy, Is, Runs, GoesOn, Bringing, Add
<1> QED
  BY <1>1, <1>2, GoBase DEF Base, Typed

LEMMA WipeBase ==
  ASSUME Base, NEW p \in Proc, Wipe(p), UNCHANGED scene
  PROVE  Base'
<1> USE Facts
<1>1. /\ GoesOn(p) /\ proc[p].pc = "wipe" /\ proc'[p].pc = "stash" /\ proc[p].cmd = "retreat"
      /\ disk' \in {disk, None} /\ was' \in {was, None} \cup Hash
      /\ UNCHANGED <<held, dep, lock, snap, holder>> /\ R!TypeOK' /\ row' = row
  BY Still, Goes DEF Wipe, At, Pc, Base, Typed
<1>2. Placed(p)' /\ Spared(p)' /\ (Busy(p)' => Busy(p))
  BY <1>1 DEF Base, Placed, Spared, Busy, Is, Runs, GoesOn, Bringing, Add
<1> QED
  BY <1>1, <1>2, GoBase DEF Base, Typed

(* What a retreat merges into an earlier snapshot.                         *)
Merged(seen) == IF Has(seen) THEN [seen EXCEPT !.orig = @ \/ HasOrig(snap)] ELSE snap

LEMMA Merging ==
  ASSUME NEW seen \in LockFile, snap \in LockFile
  PROVE  /\ Merged(seen) \in LockFile
         /\ Has(seen) => /\ Has(Merged(seen)) /\ Merged(seen).hash = seen.hash
                         /\ (Merged(seen).orig <=> seen.orig \/ HasOrig(snap))
         /\ ~Has(seen) => Merged(seen) = snap
<1>1. CASE Has(seen)
  <2> DEFINE o == seen.orig \/ HasOrig(snap)
  <2>1. o \in BOOLEAN /\ (o <=> seen.orig \/ HasOrig(snap))
    BY <1>1 DEF Has, HasOrig, Entry
  <2>2. Merged(seen) = [seen EXCEPT !.orig = o]
    BY <1>1 DEF Merged
  <2> HIDE DEF o
  <2>3. Merged(seen) \in Entry /\ Merged(seen).hash = seen.hash /\ Merged(seen).orig = o
    BY <1>1, <2>1, <2>2 DEF Has, Entry
  <2> QED
    BY <1>1, <2>1, <2>3 DEF Has, LockFile
<1>2. CASE ~Has(seen)
  BY <1>2 DEF Merged
<1> QED
  BY <1>1, <1>2

LEMMA StashDoes ==
  ASSUME Base, NEW p \in Proc, stashLockForRestore(p)
  PROVE  /\ GoesOn(p) /\ proc[p].pc = "stash" /\ proc[p].cmd = "retreat"
         /\ UNCHANGED <<held, dep, disk, was, holder>> /\ R!TypeOK' /\ row' = row
         /\ proc[p].seen \in LockFile
         /\ \/ /\ proc'[p].pc = "exit" /\ lock # None /\ snap = None
               /\ snap' = lock /\ lock' = None
            \/ /\ proc'[p].pc = "unstash" /\ lock # None /\ snap # None
               /\ snap' = Merged(proc[p].seen) /\ lock' = lock
            \/ /\ proc'[p].pc = "exit" /\ lock' = lock /\ snap' = snap
               /\ lock = None \/ Faults
<1>1. /\ proc[p].pc = "stash" /\ proc[p].cmd = "retreat" /\ proc[p].seen \in LockFile
      /\ UNCHANGED <<held, dep, disk, was, holder>> /\ R!TypeOK' /\ row' = row
  BY Still DEF stashLockForRestore, At, Base, Typed, Process
<1>2. \A x \in Pc : To(p, x) => GoesOn(p) /\ proc'[p].pc = x
  BY Goes DEF Base, Typed
<1>3. "exit" \in Pc /\ "unstash" \in Pc
  BY DEF Pc
<1> QED
  BY <1>1, <1>2, <1>3 DEF stashLockForRestore, Merged

LEMMA StashBase ==
  ASSUME Base, NEW p \in Proc, stashLockForRestore(p), UNCHANGED scene
  PROVE  Base'
<1> USE Facts
<1>1. /\ GoesOn(p) /\ proc[p].pc = "stash" /\ proc[p].cmd = "retreat"
      /\ UNCHANGED <<held, dep, disk, was, holder>> /\ R!TypeOK' /\ row' = row
      /\ proc[p].seen \in LockFile /\ proc'[p].pc \in {"exit", "unstash"}
      /\ lock' \in {lock, None} /\ snap' \in {lock, snap, Merged(proc[p].seen)}
  BY StashDoes
<1>2. lock' \in LockFile /\ snap' \in LockFile
  BY <1>1, Merging DEF Base, Typed, LockFile
<1>3. Placed(p)' /\ Spared(p)' /\ (Busy(p)' => Busy(p))
  BY <1>1 DEF Base, Placed, Spared, Busy, Is, Runs, GoesOn, Bringing, Add
<1> QED
  BY <1>1, <1>2, <1>3, GoBase DEF Base, Typed

LEMMA UnstashBase ==
  ASSUME Base, NEW p \in Proc, Unstash(p), UNCHANGED scene
  PROVE  Base'
<1> USE Facts
<1>1. /\ GoesOn(p) /\ proc[p].pc = "unstash" /\ proc'[p].pc = "exit" /\ proc[p].cmd = "retreat"
      /\ lock' \in {lock, None}
      /\ UNCHANGED <<held, dep, snap, disk, was, holder>> /\ R!TypeOK' /\ row' = row
  BY Still, Goes DEF Unstash, At, Pc, Base, Typed
<1>2. Placed(p)' /\ Spared(p)' /\ ~Busy(p)'
  BY <1>1 DEF Base, Placed, Spared, Busy, Is, Runs, GoesOn
<1> QED
  BY <1>1, <1>2, GoBase DEF Base, Typed, LockFile

(* restore.                                                                *)
LEMMA RunRestoreDoes ==
  ASSUME Base, NEW p \in Proc, RunRestore(p)
  PROVE  /\ proc' \in [Proc -> Process] /\ Rest(p) /\ proc'[p].cmd = "restore"
         /\ proc[p].pc = "start" /\ proc[p].cmd = "restore" /\ Has(proc[p].seen)
         /\ UNCHANGED <<held, dep, lock, snap, disk, was, holder>> /\ R!TypeOK' /\ row' = row
         /\ proc'[p].seen = proc[p].seen
         /\ \/ Has(lock) /\ proc'[p].pc = "consume" /\ proc'[p].opts = {"kept"}
            \/ /\ ~Has(lock) /\ proc'[p].opts \in {{}, {"pinned"}}
               /\ proc'[p].build = proc[p].seen.hash
               /\ (proc'[p].orig <=> dep = "user" \/ proc[p].seen.orig)
               /\ proc'[p].pc \in {"link", "failed"}
<1> USE Facts
<1>1. /\ proc[p].pc = "start" /\ proc[p].cmd = "restore" /\ proc[p] \in Process
      /\ UNCHANGED <<held, dep, lock, snap, disk, was, holder>> /\ R!TypeOK' /\ row' = row
  BY Still DEF RunRestore, At, files, Base, Typed
<1>2. Has(proc[p].seen)
  BY <1>1 DEF Base, Placed, Is, Runs
<1> DEFINE entry == proc[p].seen
           o == dep = "user" \/ entry.orig
           opts == IF entry.pinned THEN {"pinned"} ELSE {}
           pc == IF Stored(entry.hash) THEN "link" ELSE "failed"
           job == [proc[p] EXCEPT !.build = entry.hash, !.orig = dep = "user" \/ entry.orig,
                                  !.opts = IF entry.pinned THEN {"pinned"} ELSE {}]
           r == IF Has(lock) THEN [proc[p] EXCEPT !.pc = "consume", !.opts = {"kept"}]
                ELSE [job EXCEPT !.pc = IF Stored(entry.hash) THEN "link" ELSE "failed"]
<1>3. proc' = [proc EXCEPT ![p] = r]
  BY DEF RunRestore
<1>4. CASE Has(lock)
  <2>1. r = [proc[p] EXCEPT !.pc = "consume", !.opts = {"kept"}]
    BY <1>4
  <2> DEFINE there == [proc[p] EXCEPT !.pc = "consume"]
  <2>2. /\ r \in Process /\ r.cmd = "restore" /\ r.pc = "consume" /\ r.opts = {"kept"}
        /\ r.seen = entry
    <3>1. r = [there EXCEPT !.opts = {"kept"}]
      BY <2>1
    <3>2. there \in Process /\ there.cmd = "restore" /\ there.pc = "consume" /\ there.seen = entry
      BY <1>1 DEF Process, Pc
    <3> HIDE DEF there, r
    <3> QED
      BY <3>1, <3>2 DEF Process, Option
  <2> HIDE DEF r
  <2>3. proc' \in [Proc -> Process] /\ Rest(p) /\ proc'[p] = r
    BY <1>3, <2>2, Becomes DEF Base, Typed
  <2> QED
    BY <1>1, <1>2, <1>4, <2>2, <2>3
<1>5. CASE ~Has(lock)
  <2>1. r = [proc[p] EXCEPT !.build = entry.hash, !.orig = o, !.opts = opts, !.pc = pc]
    BY <1>1, <1>5
  <2>2. /\ entry.hash \in Hash /\ o \in BOOLEAN /\ (o <=> dep = "user" \/ entry.orig)
        /\ opts \in SUBSET Option /\ opts \in {{}, {"pinned"}} /\ pc \in {"link", "failed"}
        /\ pc \in Pc
    BY <1>2 DEF Has, Entry, Option, Pc
  <2>9. proc' = [proc EXCEPT ![p] = r]
    BY <1>3
  <2> HIDE DEF o, opts, pc, r
  <2>3. /\ r \in Process /\ r.cmd = "restore" /\ r.pc = pc /\ r.opts = opts /\ r.build = entry.hash
        /\ r.orig = o /\ r.seen = entry
    BY <1>1, <2>1, <2>2 DEF Process
  <2>4. proc' \in [Proc -> Process] /\ Rest(p) /\ proc'[p] = r
    BY <2>3, <2>9, Becomes DEF Base, Typed
  <2> QED
    BY <1>1, <1>2, <1>5, <2>2, <2>3, <2>4
<1> QED
  BY <1>4, <1>5

LEMMA RunRestoreBase ==
  ASSUME Base, NEW p \in Proc, RunRestore(p), UNCHANGED scene
  PROVE  Base'
<1> USE Facts
<1>1. /\ proc' \in [Proc -> Process] /\ Rest(p) /\ proc'[p].cmd = "restore"
      /\ proc[p].pc = "start" /\ proc[p].cmd = "restore" /\ Has(proc[p].seen)
      /\ UNCHANGED <<held, dep, lock, snap, disk, was, holder>> /\ R!TypeOK' /\ row' = row
      /\ \/ proc'[p].pc = "consume" /\ proc'[p].opts = {"kept"}
         \/ /\ proc'[p].opts \in {{}, {"pinned"}} /\ proc'[p].build = proc[p].seen.hash
            /\ proc'[p].pc \in {"link", "failed"}
  BY RunRestoreDoes
<1>2. Typed'
  BY <1>1 DEF Base, Typed
<1>3. proc[p].seen.hash \in Hash
  BY <1>1 DEF Has, Entry
<1>4. Placed(p)'
  BY <1>1, <1>3 DEF Base, Placed, Is, Runs, Bringing
<1>5. Spared(p)'
  BY <1>1 DEF Spared, Is, Runs
<1>6. Holding(p)'
  BY <1>1 DEF Base, Placed, Holding, Busy, Is, Runs
<1> QED
  BY <1>1, <1>2, <1>4, <1>5, <1>6, BaseStep

LEMMA LockRestoreBase ==
  ASSUME Base, NEW p \in Proc, LockRestore(p), UNCHANGED scene
  PROVE  Base'
<1> USE Facts
<1>1. /\ GoesOn(p) /\ proc[p].pc = "lock" /\ proc'[p].pc = "consume" /\ proc[p].cmd = "restore"
      /\ UNCHANGED <<held, dep, snap, disk, was, holder>> /\ R!TypeOK' /\ row' = row
      /\ proc[p] \in Process
  BY Still, Goes DEF LockRestore, At, Pc, Base, Typed
<1>2. proc[p].build \in Hash
  BY <1>1 DEF Base, Placed, Is, Bringing
<1>3. lock' \in Entry
  BY <1>1, <1>2 DEF LockRestore, Entry, Process
<1>4. Placed(p)' /\ Spared(p)' /\ Busy(p)
  BY <1>1, <1>2 DEF Base, Placed, Spared, Busy, Is, Runs, GoesOn, Bringing, Add
<1> QED
  BY <1>1, <1>3, <1>4, GoBase DEF Base, Typed, LockFile

LEMMA ConsumeBase ==
  ASSUME Base, NEW p \in Proc, consumeSnapshotEntry(p), UNCHANGED scene
  PROVE  Base'
<1> USE Facts
<1>1. /\ GoesOn(p) /\ proc[p].pc = "consume" /\ proc[p].cmd = "restore"
      /\ \/ proc'[p].pc = "clean" /\ "kept" \in proc[p].opts
         \/ proc'[p].pc = "project" /\ "kept" \notin proc[p].opts
      /\ snap' \in {Blank, snap}
      /\ UNCHANGED <<held, dep, lock, disk, was, holder>> /\ R!TypeOK' /\ row' = row
  BY Still, Goes DEF consumeSnapshotEntry, At, Pc, Base, Typed
<1>2. Placed(p)' /\ Spared(p)' /\ Busy(p)
  BY <1>1 DEF Base, Placed, Spared, Busy, Is, Runs, GoesOn, Bringing, Add
<1> QED
  BY <1>1, <1>2, GoBase DEF Base, Typed, LockFile

LEMMA RecordFailsBase ==
  ASSUME Base, NEW p \in Proc, RecordFails(p), UNCHANGED scene
  PROVE  Base'
<1> USE Facts
<1>1. /\ GoesOn(p) /\ proc'[p].pc = "failed" /\ proc[p].cmd = "restore"
      /\ proc[p].pc \in {"project", "row"}
      /\ UNCHANGED <<held, dep, lock, snap, disk, was, holder>> /\ R!TypeOK' /\ row' = row
  BY Still, Goes DEF RecordFails, files, Pc, Base, Typed
<1>2. Placed(p)' /\ Spared(p)' /\ ~Busy(p)'
  BY <1>1 DEF Base, Placed, Spared, Busy, Is, Runs, GoesOn
<1> QED
  BY <1>1, <1>2, GoBase DEF Base, Typed

LEMMA CleanBase ==
  ASSUME Base, NEW p \in Proc, Clean(p), UNCHANGED scene
  PROVE  Base'
<1> USE Facts
<1>1. /\ GoesOn(p) /\ proc[p].pc = "clean" /\ proc'[p].pc = "exit" /\ proc[p].cmd = "restore"
      /\ snap' \in {None, snap}
      /\ UNCHANGED <<held, dep, lock, disk, was, holder>> /\ R!TypeOK' /\ row' = row
  BY Still, Goes DEF Clean, At, Pc, Base, Typed
<1>2. Placed(p)' /\ Spared(p)' /\ ~Busy(p)'
  BY <1>1 DEF Base, Placed, Spared, Busy, Is, Runs, GoesOn
<1> QED
  BY <1>1, <1>2, GoBase DEF Base, Typed, LockFile


-----------------------------------------------------------------------------
(* What one process does: Next is a step of one of them.                   *)
Publishes(p) == Check(p) \/ Store(p) \/ Record(p) \/ Relink(p) \/ RunTag(p)
Collects(p) == Scan(p) \/ Evict(p) \/ Forget(p)
Adds(p) ==
    \/ Resolve(p) \/ Link(p) \/ LockAdd(p) \/ writeLnpmReference(p)
    \/ InsertProject(p) \/ InsertLink(p)
Pulls(p) == RunPull(p) \/ PullRow(p) \/ PullLock(p)
Removes(p) ==
    \/ Unlink(p) \/ RevertDep(p) \/ DeleteLink(p) \/ LockRemove(p)
    \/ RunRetreat(p) \/ Wipe(p) \/ stashLockForRestore(p) \/ Unstash(p)
Restores(p) ==
    \/ RunRestore(p) \/ LockRestore(p) \/ consumeSnapshotEntry(p)
    \/ RecordFails(p) \/ Clean(p)
Comes(p) == Start(p) \/ GetDB(p) \/ GetDBFails(p)
Leaves(p) == Exit(p) \/ Stop(p)
Step(p) ==
    \/ Comes(p) \/ Leaves(p) \/ Publishes(p) \/ Collects(p) \/ Adds(p) \/ Pulls(p)
    \/ Removes(p) \/ Restores(p)

LEMMA Steps ==
  ASSUME [Next]_vars
  PROVE  (UNCHANGED scene /\ \E p \in Proc : Step(p)) \/ UNCHANGED vars
  BY DEF Next, Step, Comes, Leaves, Publishes, Collects, Adds, Pulls, Removes, Restores

LEMMA StepRests ==
  ASSUME Base, NEW p \in Proc, Step(p)
  PROVE  Rest(p)
<1>0. proc \in [Proc -> Process]
  BY DEF Base, Typed
<1>1. CASE Comes(p) \/ Leaves(p) \/ Publishes(p) \/ Collects(p)
  BY <1>0, <1>1 DEF Comes, Leaves, Publishes, Collects, Start, GetDB, GetDBFails, Exit, Stop, End,
     To, Check, Store, Record, Relink, RunTag, Scan, Evict, Forget, Rest
<1>2. CASE Adds(p) \/ Pulls(p)
  BY <1>0, <1>2 DEF Adds, Pulls, Resolve, Link, LockAdd, writeLnpmReference, InsertProject,
     InsertLink, RunPull, PullRow, PullLock, End, To, Rest
<1>3. CASE Removes(p) \/ Restores(p)
  BY <1>0, <1>3 DEF Removes, Restores, Unlink, RevertDep, DeleteLink, LockRemove, RunRetreat,
     Wipe, stashLockForRestore, Unstash, RunRestore, LockRestore, consumeSnapshotEntry,
     RecordFails, Clean, End, To, Rest
<1> QED
  BY <1>1, <1>2, <1>3 DEF Step

LEMMA BaseKept == Base /\ [Next]_vars => Base'
<1> SUFFICES ASSUME Base, [Next]_vars PROVE Base'
  OBVIOUS
<1>1. ASSUME NEW p \in Proc, UNCHANGED scene, Step(p)
      PROVE  Base'
  <2>1. CASE Comes(p) \/ Leaves(p)
    BY <1>1, <2>1, StartBase, GetDBBase, GetDBFailsBase, EndBase DEF Comes, Leaves, Exit, Stop
  <2>2. CASE Publishes(p)
    BY <1>1, <2>2, CheckBase, StoreBase, RecordBase, RelinkBase, TagBase DEF Publishes
  <2>3. CASE Collects(p)
    BY <1>1, <2>3, ScanBase, EvictBase, ForgetBase DEF Collects
  <2>4. CASE Adds(p)
    BY <1>1, <2>4, ResolveBase, LinkBase, LockAddBase, WriteBase, InsertProjectBase,
       InsertLinkBase DEF Adds
  <2>5. CASE Pulls(p)
    BY <1>1, <2>5, RunPullBase, PullRowBase, PullLockBase DEF Pulls
  <2>6. CASE Removes(p)
    BY <1>1, <2>6, UnlinkBase, RevertDepBase, DeleteLinkBase, LockRemoveBase, RunRetreatBase,
       WipeBase, StashBase, UnstashBase DEF Removes
  <2>7. CASE Restores(p)
    BY <1>1, <2>7, RunRestoreBase, LockRestoreBase, ConsumeBase, RecordFailsBase, CleanBase
    DEF Restores
  <2> QED
    BY <1>1, <2>1, <2>2, <2>3, <2>4, <2>5, <2>6, <2>7 DEF Step
<1>2. CASE UNCHANGED vars
  <2>1. /\ UNCHANGED <<scene, stored, channel, project, consumes, held, dep, lock, snap, disk,
                       was, holder, proc, row>>
    BY <1>2 DEF vars, row
  <2>2. Typed'
    BY <2>1 DEF Base, Typed, R!TypeOK
  <2> QED
    BY <2>1, <2>2 DEF Base, Placed, Holding, Spared, Busy, Is, Runs
<1> QED
  BY <1>1, <1>2, Steps

LEMMA Basis == Spec => []Base
<1>1. Base /\ [Next]_vars => Base'
  BY BaseKept
<1> QED
  BY <1>1, Initially, PTL DEF Spec

(* The records, the files and what each process has in memory are what     *)
(* their readers expect, in every scenario.                                *)
THEOREM TypeCorrect == Spec => []TypeOK
<1>1. Base => TypeOK
  BY DEF Base, Typed, TypeOK, Process, Pc
<1> QED
  BY <1>1, Basis, PTL

(* ADR-0006, in every scenario: publishing, tagging, collecting and        *)
(* pulling leave a pinned project's row, and its copy, where they are.     *)
THEOREM PinnedNeverMoved == Spec => PinnedStays
<1> DEFINE Stays ==
      \A p \in Proc :
          /\ proc[p].cmd \in Publishing \cup {"tag", "gc", "pull"}
          /\ row # None /\ row.pinned
          /\ proc'[p] # proc[p]
          => row' = row /\ disk' \in {disk, row.hash}
<1>1. Base /\ [Next]_vars => Stays
  <2> SUFFICES ASSUME Base, [Next]_vars, NEW p \in Proc,
                      proc[p].cmd \in Publishing \cup {"tag", "gc", "pull"},
                      row # None, row.pinned, proc'[p] # proc[p]
               PROVE  row' = row /\ disk' \in {disk, row.hash}
    OBVIOUS
  <2> USE Facts
  <2>1. Step(p)
    <3>1. PICK q \in Proc : Step(q)
      BY Steps DEF vars
    <3> QED
      BY <3>1, StepRests DEF Rest
  <2>2. proc[p] \in Process /\ proc[p].cmd # None
    BY DEF Base, Typed, Publishing, Command
  <2>3. CASE UNCHANGED db /\ UNCHANGED disk
    BY <2>3, Still
  <2>4. CASE Comes(p) \/ Leaves(p)
    BY <2>3, <2>4 DEF Comes, Leaves, Start, GetDB, GetDBFails, Exit, Stop, files
  <2>5. CASE Publishes(p)
    <3>1. CASE Record(p)
      <4>1. proc[p].build \in Hash /\ proc[p].tag \in Tag
        BY <2>2, <3>1 DEF Record, Base, Placed, Is, Process
      <4> QED
        BY <3>1, <4>1, RegistryTypes DEF Record, files, Base, Typed
    <3>2. CASE Relink(p)
      BY <3>2, Still DEF Relink
    <3>3. CASE RunTag(p)
      <4>1. \A t \in scene.tags : t \in Tag
        BY ProjectAssumption DEF Base, Typed, Scenarios
      <4>2. latest # None => latest \in Hash
        BY DEF latest, Base, Typed, R!TypeOK
      <4>3. ASSUME NEW t \in scene.tags, \/ latest # None /\ R!SetTag(Pkg, t, latest)
                                         \/ R!DeleteTag(Pkg, t)
            PROVE  row' = row
        BY <4>1, <4>2, <4>3, RegistryTypes DEF Base, Typed
      <4>4. row' = row
        BY <3>3, <4>3, Still DEF RunTag
      <4> QED
        BY <3>3, <4>4 DEF RunTag, files
    <3>4. CASE Check(p) \/ Store(p)
      BY <2>3, <3>4 DEF Check, Store, files
    <3> QED
      BY <2>5, <3>1, <3>2, <3>3, <3>4 DEF Publishes
  <2>6. CASE Collects(p)
    <3>1. CASE Forget(p)
      <4>1. proc[p].build \in Hash /\ row.hash # proc[p].build
        BY <3>1 DEF Forget, At, Base, Placed, Spared, Is
      <4> QED
        BY <3>1, <4>1, RegistryTypes DEF Forget, files, Base, Typed
    <3>2. CASE Scan(p) \/ Evict(p)
      BY <2>3, <3>2 DEF Scan, Evict, files
    <3> QED
      BY <2>6, <3>1, <3>2 DEF Collects
  <2>7. CASE Adds(p)
    <3>1. CASE Link(p)
      <4>1. proc[p].cmd # "pull"
        BY <3>1 DEF Link, Base, Spared, Is, Runs
      <4>2. proc[p].cmd \in Bringing
        BY <3>1 DEF Link, Base, Placed, Is
      <4> QED
        BY <4>1, <4>2 DEF Bringing, Add, Publishing
    <3> QED
      BY <2>7, <3>1 DEF Adds, Resolve, LockAdd, writeLnpmReference, InsertProject, InsertLink,
         At, Add, Publishing
  <2>8. CASE Pulls(p)
    <3>1. ~PullRow(p)
      BY DEF PullRow, At, Base, Spared, Is, Runs
    <3> QED
      BY <2>3, <2>8, <3>1 DEF Pulls, RunPull, PullLock, files
  <2>9. ~Removes(p)
    BY DEF Removes, Unlink, RevertDep, DeleteLink, LockRemove, RunRetreat, Wipe,
       stashLockForRestore, Unstash, At, Publishing
  <2>10. ~Restores(p)
    BY DEF Restores, RunRestore, LockRestore, consumeSnapshotEntry, RecordFails, Clean, At,
       Publishing
  <2> QED
    BY <2>1, <2>4, <2>5, <2>6, <2>7, <2>8, <2>9, <2>10 DEF Step
<1>2. Base /\ [Next]_vars => [Stays]_vars
  BY <1>1
<1> QED
  BY <1>2, Basis, PTL DEF Spec, PinnedStays

-----------------------------------------------------------------------------
(* Builds.                                                                 *)
LEMMA ServedStep ==
  ASSUME Base, Served, Careful(scene), NEW p \in Proc, Rest(p), UNCHANGED scene,
         held' = held \/ holder = p, Brought(p)', RowIsServed', Recorded'
  PROVE  Served'
<1> SUFFICES ASSUME NEW q \in Proc, q # p
             PROVE  Brought(q)'
  BY DEF Served
<1>1. proc'[q] = proc[q] /\ Brought(q) /\ Placed(q)
  BY DEF Rest, Served, Base
<1>2. CASE held' = held
  BY <1>1, <1>2 DEF Brought, Is
<1>3. CASE holder = p
  <2>1. ~Busy(q)
    BY <1>3, OnlyHolder
  <2> QED
    BY <1>1, <2>1 DEF Brought, Busy, Is, Runs, Placed, Bringing, Add, Publishing
<1> QED
  BY <1>2, <1>3

LEMMA QuietServed ==
  ASSUME Base, Served, Careful(scene), NEW p \in Proc, Rest(p), UNCHANGED scene,
         UNCHANGED <<db, held>>, ~Is(p, {"forget"}) \/ Faults, Brought(p)'
  PROVE  Served'
<1>1. row' = row /\ stored' = stored /\ held' = held /\ Faults' = Faults
  BY Still DEF Faults
<1>2. RowIsServed'
  BY <1>1 DEF Served, RowIsServed
<1>3. Recorded'
  <2> SUFFICES ASSUME ~Faults, NEW h \in Hash, Stored(h), held[h] = None
               PROVE  \E q \in Proc : Is(q, {"forget"})' /\ proc'[q].build = h
    BY <1>1 DEF Recorded, Stored, Faults
  <2>1. PICK q \in Proc : Is(q, {"forget"}) /\ proc[q].build = h
    BY DEF Served, Recorded, Faults
  <2>2. proc'[q] = proc[q]
    BY <2>1 DEF Rest
  <2> QED
    BY <2>1, <2>2 DEF Is
<1> QED
  BY <1>1, <1>2, <1>3, ServedStep

(* Where nothing fails, a record that is there is served to who has the    *)
(* database, unless that is a gc that is about to take it.                 *)
LEMMA StoredServed ==
  ASSUME Base, Served, Careful(scene), ~Faults, NEW p \in Proc, holder = p, ~Is(p, {"forget"}),
         NEW h \in Hash, Stored(h)
  PROVE  held[h] # None
<1> SUFFICES ASSUME held[h] = None PROVE FALSE
  OBVIOUS
<1>1. PICK q \in Proc : Is(q, {"forget"}) /\ proc[q].build = h
  BY DEF Served, Recorded, Faults
<1>2. Busy(q) /\ q # p
  BY <1>1 DEF Base, Placed, Busy, Is, Runs
<1> QED
  BY <1>2, OnlyHolder

LEMMA StoreServed ==
  ASSUME Base, Served, Careful(scene), NEW p \in Proc, Store(p), UNCHANGED scene
  PROVE  Served'
<1> USE Facts
<1>1. /\ GoesOn(p) /\ proc'[p].pc = "record" /\ proc[p].pc = "store" /\ UNCHANGED db
  BY Goes DEF Store, Pc, Base, Typed
<1>2. proc[p].build \in Hash /\ held \in [Hash -> {"served", None}] /\ Busy(p)
  BY <1>1 DEF Base, Typed, Placed, Is, Runs, Busy, Publishing
<1>3. /\ held'[proc[p].build] # None
      /\ \A h \in Hash : held[h] # None => held'[h] # None
  BY <1>2 DEF Store, B!Store
<1>4. row' = row /\ stored' = stored /\ (row # None => row.hash \in Hash)
  BY <1>1, Still DEF row, Base, Typed, R!TypeOK, R!Consumption
<1>5. RowIsServed'
  BY <1>3, <1>4 DEF Served, RowIsServed
<1>6. Recorded'
  <2>1. Is(p, {"store"})
    BY <1>1 DEF Is
  <2>2. ASSUME ~Faults, NEW h \in Hash, Stored(h)
        PROVE  held[h] # None
    BY <1>1, <1>2, <2>2, StoredServed DEF Base, Holding, Is
  <2> QED
    BY <1>3, <1>4, <2>2 DEF Recorded, Stored, Faults
<1>7. Brought(p)'
  BY <1>1, <1>3 DEF Brought, Is, GoesOn
<1> QED
  BY <1>1, <1>2, <1>5, <1>6, <1>7, ServedStep DEF GoesOn, Base, Holding

LEMMA RecordServed ==
  ASSUME Base, Served, Careful(scene), NEW p \in Proc, Record(p), UNCHANGED scene
  PROVE  Served'
<1> USE Facts
<1>1. /\ GoesOn(p) /\ proc[p].pc = "record" /\ proc'[p].pc \in {"relink", "exit"}
      /\ UNCHANGED held /\ R!Publish(Pkg, proc[p].build, proc[p].tag)
  BY Goes DEF Record, Pc, Base, Typed
<1>2. /\ proc[p].build \in Hash /\ proc[p].tag \in Tag /\ Busy(p)
      /\ held[proc[p].build] # None
  BY <1>1 DEF Base, Typed, Placed, Is, Runs, Busy, Process, Publishing, Served, Brought
<1>3. row' # row => row'.hash = proc[p].build
  BY <1>1, <1>2, RegistryTypes DEF Base, Typed
<1>4. RowIsServed'
  BY <1>1, <1>2, <1>3 DEF Served, RowIsServed
<1>5. Recorded'
  <2>1. ASSUME ~Faults, NEW h \in Hash, Stored(h)'
        PROVE  held[h] # None
    <3>1. h = proc[p].build \/ Stored(h)
      BY <1>1, <2>1 DEF R!Publish, Stored
    <3> QED
      BY <1>1, <1>2, <2>1, <3>1, StoredServed DEF Base, Holding, Is
  <2> QED
    BY <1>1, <2>1 DEF Recorded, Faults
<1>6. Brought(p)'
  BY <1>1 DEF Brought, Is
<1> QED
  BY <1>1, <1>4, <1>5, <1>6, ServedStep DEF GoesOn

LEMMA TagServed ==
  ASSUME Base, Served, Careful(scene), NEW p \in Proc, RunTag(p), UNCHANGED scene
  PROVE  Served'
<1> USE Facts
<1>1. /\ GoesOn(p) /\ proc[p].pc = "start" /\ proc[p].cmd = "tag" /\ proc'[p].pc = "exit"
      /\ UNCHANGED held
  BY Goes DEF RunTag, At, Pc, Base, Typed
<1>2. Busy(p) /\ ~Faults
  BY <1>1 DEF Base, Placed, Busy, Is, Runs, Careful, Faults, Command
<1>3. \A h \in Hash : Stored(h) => held[h] # None
  BY <1>1, <1>2, StoredServed DEF Base, Holding, Is
<1>4. \A t \in scene.tags : t \in Tag
  BY ProjectAssumption DEF Base, Typed, Scenarios
<1>5. latest # None => latest \in Hash
  BY DEF latest, Base, Typed, R!TypeOK
<1>6. stored' = stored /\ (row' # row => row'.hash \in Hash /\ Stored(row'.hash))
  <2>1. CASE UNCHANGED db
    BY <2>1, Still
  <2>2. ASSUME NEW t \in scene.tags, \/ latest # None /\ R!SetTag(Pkg, t, latest)
                                     \/ R!DeleteTag(Pkg, t)
        PROVE  stored' = stored /\ (row' # row => row'.hash \in Hash /\ Stored(row'.hash))
    BY <1>4, <1>5, <2>2, RegistryTypes DEF Base, Typed, R!SetTag, R!DeleteTag, Stored
  <2> QED
    BY <2>1, <2>2 DEF RunTag
<1>7. RowIsServed'
  BY <1>1, <1>3, <1>6 DEF Served, RowIsServed
<1>8. Recorded'
  BY <1>1, <1>3, <1>6 DEF Recorded, Stored
<1>9. Brought(p)'
  BY <1>1 DEF Brought, Is
<1> QED
  BY <1>1, <1>7, <1>8, <1>9, ServedStep DEF GoesOn

LEMMA EvictServed ==
  ASSUME Base, Served, Careful(scene), NEW p \in Proc, Evict(p), UNCHANGED scene
  PROVE  Served'
<1> USE Facts
<1>1. /\ proc[p].pc = "evict" /\ proc[p].cmd = "gc" /\ Rest(p) /\ row' = row /\ stored' = stored
      /\ proc'[p].pc \in {"evict", "exit", "forget"}
  BY EvictDoes DEF Turns
<1>2. Busy(p) /\ ~Is(p, {"forget"})
  BY <1>1 DEF Base, Placed, Busy, Is, Runs
<1>3. Brought(p)'
  BY <1>1 DEF Brought, Is
<1>4. CASE UNCHANGED held
  BY <1>1, <1>2, <1>3, <1>4, QuietServed DEF Evict
<1>5. CASE ~UNCHANGED held
  <2> DEFINE h == proc'[p].build
  <2>1. proc'[p].pc = "forget" /\ h \in proc[p].victims /\ B!Remove(h)
    BY <1>5, EvictDoes
  <2>2. h \in Hash /\ (row = None \/ row.hash # h)
    BY <1>1, <2>1 DEF Base, Typed, Process, Spared, Is, Runs
  <2>3. \A k \in Hash \ {h} : held'[k] = held[k]
    BY <2>1 DEF B!Remove, Base, Typed
  <2>4. row # None => row.hash \in Hash
    BY DEF row, Base, Typed, R!TypeOK, R!Consumption
  <2>5. RowIsServed'
    BY <1>1, <2>2, <2>3, <2>4 DEF Served, RowIsServed
  <2>6. Recorded'
    <3>1. ASSUME ~Faults, NEW k \in Hash, Stored(k)
          PROVE  held[k] # None
      BY <1>1, <1>2, <3>1, StoredServed DEF Base, Holding
    <3> QED
      BY <1>1, <2>1, <2>3, <3>1 DEF Recorded, Faults, Stored, Is
  <2> QED
    BY <1>1, <1>2, <1>3, <2>5, <2>6, ServedStep DEF Base, Holding
<1> QED
  BY <1>4, <1>5

LEMMA ForgetServed ==
  ASSUME Base, Served, Careful(scene), NEW p \in Proc, Forget(p), UNCHANGED scene
  PROVE  Served'
<1> USE Facts
<1>1. /\ GoesOn(p) /\ proc[p].pc = "forget" /\ proc'[p].pc = "evict" /\ proc[p].cmd = "gc"
      /\ UNCHANGED held /\ R!DeletePackage(Pkg, proc[p].build)
  BY Goes DEF Forget, At, Pc, Base, Typed
<1>2. proc[p].build \in Hash /\ Busy(p)
  BY <1>1 DEF Base, Placed, Busy, Is, Runs
<1>3. row' \in {row, None}
  BY <1>1, <1>2, RegistryTypes DEF Base, Typed
<1>4. \A h \in Hash : Stored(h)' => Stored(h) /\ h # proc[p].build
  BY <1>1 DEF R!DeletePackage, Stored
<1>5. RowIsServed'
  BY <1>1, <1>3 DEF Served, RowIsServed
<1>6. Recorded'
  <2> SUFFICES ASSUME ~Faults, NEW h \in Hash, Stored(h)', held[h] = None
               PROVE  FALSE
    BY <1>1 DEF Recorded, Faults
  <2>1. PICK q \in Proc : Is(q, {"forget"}) /\ proc[q].build = h
    BY <1>4 DEF Served, Recorded, Faults
  <2>2. q # p /\ Busy(q)
    BY <1>4, <2>1 DEF Base, Placed, Busy, Is, Runs
  <2> QED
    BY <1>2, <2>2, OnlyHolder DEF Base, Holding
<1>7. Brought(p)'
  BY <1>1 DEF Brought, Is
<1> QED
  BY <1>1, <1>5, <1>6, <1>7, ServedStep DEF GoesOn

(* A row is written by a command that brought its build.                   *)
LEMMA RowServed ==
  ASSUME Base, Served, Careful(scene), NEW p \in Proc, InsertLink(p) \/ PullRow(p),
         UNCHANGED scene
  PROVE  Served'
<1> USE Facts
<1>1. /\ GoesOn(p) /\ proc[p].pc = "row" /\ proc'[p].pc \in {"clean", "exit", "lock"}
      /\ proc[p].cmd \in Bringing /\ UNCHANGED held
      /\ proc'[p].pc = "lock" => proc[p].cmd = "pull"
      /\ proc[p].cmd = "pull" => PullRow(p)
  BY Goes DEF InsertLink, PullRow, At, Pc, Base, Typed, Bringing, Add
<1>2. /\ proc[p].build \in Hash /\ proc[p].tag \in Tag /\ Busy(p)
      /\ "kept" \notin proc[p].opts
      /\ "live" \in proc[p].opts => proc[p].cmd = "add-link"
  BY <1>1 DEF Base, Typed, Process, Placed, Busy, Is, Runs, Bringing, Add
<1>3. CASE UNCHANGED db
  <2>1. Brought(p)'
    BY <1>1, <1>2 DEF Served, Brought, Is, GoesOn, Bringing, Add
  <2>2. ~Is(p, {"forget"})
    BY <1>1 DEF Is
  <2> QED
    BY <1>1, <1>3, <2>1, <2>2, QuietServed DEF GoesOn
<1>4. CASE ~UNCHANGED db
  <2>1. \E t \in Tag, pin \in BOOLEAN : R!InsertLink(Project, Pkg, proc[p].build, t, pin)
    <3>1. CASE PullRow(p)
      <4>1. row # None /\ R!InsertLink(Project, Pkg, proc[p].build, row.tag, row.pinned)
        BY <1>4, <3>1 DEF PullRow
      <4>2. row.tag \in Tag /\ row.pinned \in BOOLEAN
        BY <4>1 DEF row, R!Consumption, Base, Typed, R!TypeOK
      <4> QED
        BY <4>1, <4>2, Zenon
    <3>2. CASE InsertLink(p)
      <4> DEFINE pin == "pinned" \in proc[p].opts
      <4>1. pin \in BOOLEAN
        OBVIOUS
      <4>2. R!InsertLink(Project, Pkg, proc[p].build, proc[p].tag, pin)
        BY <3>2 DEF InsertLink
      <4> HIDE DEF pin
      <4> QED
        BY <1>2, <4>1, <4>2, Zenon
    <3> QED
      BY <3>1, <3>2
  <2>2. PICK t \in Tag, pin \in BOOLEAN : R!InsertLink(Project, Pkg, proc[p].build, t, pin)
    BY <2>1
  <2>3. row' = [hash |-> proc[p].build, tag |-> t, pinned |-> pin]
    BY <1>2, <2>2, RegistryTypes DEF Base, Typed
  <2>4. stored' = stored /\ Stored(proc[p].build)
    BY <2>2 DEF R!InsertLink, Stored
  <2>5. held[proc[p].build] # None
    <3>1. CASE "live" \notin proc[p].opts
      BY <1>1, <1>2, <3>1 DEF Served, Brought, Is
    <3>2. CASE "live" \in proc[p].opts
      <4>1. ~Faults
        BY <1>2, <3>2 DEF Base, Placed, Careful, Faults, Command, Add
      <4> QED
        BY <1>1, <1>2, <2>4, <4>1, StoredServed DEF Base, Holding, Is
    <3> QED
      BY <3>1, <3>2
  <2>6. RowIsServed'
    BY <1>1, <2>3, <2>5 DEF RowIsServed
  <2>7. Recorded'
    <3>1. ASSUME ~Faults, NEW h \in Hash, Stored(h)
          PROVE  held[h] # None
      BY <1>1, <1>2, <3>1, StoredServed DEF Base, Holding, Is
    <3> QED
      BY <1>1, <2>4, <3>1 DEF Recorded, Faults, Stored
  <2>8. Brought(p)'
    BY <1>1, <1>2, <2>5 DEF Brought, Is, GoesOn
  <2> QED
    BY <1>1, <2>6, <2>7, <2>8, ServedStep DEF GoesOn
<1> QED
  BY <1>3, <1>4

(* What leaves the set of records alone and writes no row.                 *)
LEMMA OtherServed ==
  ASSUME Base, Served, Careful(scene), NEW p \in Proc,
         InsertProject(p) \/ DeleteLink(p), UNCHANGED scene
  PROVE  Served'
<1> USE Facts
<1>1. /\ GoesOn(p) /\ UNCHANGED held /\ proc[p].pc \in {"project", "row"}
      /\ \/ proc[p].cmd \in Add \cup {"restore"} /\ proc'[p].pc = "row" /\ proc[p].pc = "project"
         \/ proc[p].cmd \in {"remove", "retreat"} /\ proc'[p].pc \in {"lock", "wipe"}
  BY Goes DEF InsertProject, DeleteLink, At, Pc, Base, Typed
<1>2. row' \in {row, None} /\ stored' = stored
  <2>1. CASE UNCHANGED db
    BY <2>1, Still
  <2>2. CASE R!InsertProject(Project, NoDevice)
    BY <2>2, RegistryTypes DEF R!InsertProject, Base, Typed
  <2>3. CASE R!DeleteLink(Project, Pkg)
    BY <2>3, RegistryTypes DEF R!DeleteLink, Base, Typed
  <2> QED
    BY <2>1, <2>2, <2>3 DEF InsertProject, DeleteLink
<1>3. RowIsServed'
  BY <1>1, <1>2 DEF Served, RowIsServed
<1>4. Recorded'
  <2> SUFFICES ASSUME ~Faults, NEW h \in Hash, Stored(h), held[h] = None
               PROVE  \E q \in Proc : Is(q, {"forget"})' /\ proc'[q].build = h
    BY <1>1, <1>2 DEF Recorded, Stored, Faults
  <2>1. PICK q \in Proc : Is(q, {"forget"}) /\ proc[q].build = h
    BY DEF Served, Recorded, Faults
  <2>2. proc'[q] = proc[q]
    BY <1>1, <2>1 DEF GoesOn, Rest, Is
  <2> QED
    BY <2>1, <2>2 DEF Is
<1>5. Brought(p)'
  <2>1. CASE proc[p].pc = "project" /\ proc'[p].pc = "row"
    BY <1>1, <2>1 DEF Served, Brought, Is, GoesOn
  <2>2. CASE proc[p].cmd \in {"remove", "retreat"} /\ proc'[p].pc \in {"lock", "wipe"}
    BY <1>1, <2>2 DEF Brought, Is, GoesOn, Bringing, Add
  <2> QED
    BY <1>1, <2>1, <2>2
<1> QED
  BY <1>1, <1>3, <1>4, <1>5, ServedStep DEF GoesOn

-----------------------------------------------------------------------------
(* Steps that leave the registry and the builds alone.                     *)
Quietly(p) ==
    \/ Start(p) \/ GetDB(p) \/ GetDBFails(p) \/ Exit(p) \/ Stop(p)
    \/ Check(p) \/ Relink(p) \/ Scan(p)
    \/ Resolve(p) \/ Link(p) \/ LockAdd(p) \/ writeLnpmReference(p)
    \/ RunPull(p) \/ PullLock(p)
    \/ Unlink(p) \/ RevertDep(p) \/ LockRemove(p)
    \/ RunRetreat(p) \/ Wipe(p) \/ stashLockForRestore(p) \/ Unstash(p)
    \/ RunRestore(p) \/ LockRestore(p) \/ consumeSnapshotEntry(p)
    \/ RecordFails(p) \/ Clean(p)

LEMMA NotBringing ==
  ASSUME NEW p \in Proc,
         proc'[p].pc \notin {"record", "lock", "dep", "project", "row", "consume"}
  PROVE  Brought(p)'
  BY DEF Brought, Is

LEMMA ComesBrought ==
  ASSUME Base, NEW p \in Proc,
         Comes(p) \/ Leaves(p) \/ Check(p) \/ Relink(p) \/ Scan(p) \/ Resolve(p) \/ RunPull(p)
  PROVE  Brought(p)'
<1> USE Facts
<1>1. CASE End(p)
  <2>1. proc'[p].pc = "idle"
    BY <1>1, Ends, Fresh DEF Base
  <2> QED
    BY <2>1, NotBringing
<1>2. CASE Start(p) \/ Check(p) \/ Scan(p)
  BY <1>2, StartDoes, CheckDoes, ScanDoes, NotBringing
<1>3. CASE GetDB(p) \/ Relink(p)
  <2>1. proc'[p].pc \in {"start", "exit"}
    BY <1>3, Goes DEF GetDB, Relink, Pc, Base, Typed
  <2> QED
    BY <2>1, NotBringing
<1>4. CASE ~End(p) /\ (GetDBFails(p) \/ Resolve(p) \/ RunPull(p))
  <2>1. proc'[p].pc \in {"start", "link", "exit", "failed"}
    BY <1>4, GetDBFailsDoes, ResolveDoes, RunPullDoes
  <2> QED
    BY <2>1, NotBringing
<1> QED
  BY <1>1, <1>2, <1>3, <1>4 DEF Comes, Leaves, Exit, Stop

LEMMA AddsBrought ==
  ASSUME Base, Served, Careful(scene), NEW p \in Proc, UNCHANGED held,
         Link(p) \/ LockAdd(p) \/ writeLnpmReference(p) \/ PullLock(p) \/ LockRestore(p)
  PROVE  Brought(p)'
<1> USE Facts
<1>1. CASE Link(p)
  <2>1. CASE End(p)
    <3>1. proc'[p].pc = "idle"
      BY <2>1, Ends, Fresh DEF Base
    <3> QED
      BY <3>1 DEF Brought, Is
  <2>2. CASE ~End(p)
    <3>1. "live" \in proc[p].opts \/ held[proc[p].build] # None
      BY <1>1, <2>2 DEF Link
    <3>2. GoesOn(p) /\ proc'[p].pc \in {"lock", "row", "dep"}
      <4>1. proc[p].pc = "link"
        BY <1>1 DEF Link
      <4>2. proc[p].cmd \in Bringing
        BY <4>1 DEF Base, Placed, Is
      <4> QED
        BY <1>1, <2>2, <4>2, Goes DEF Link, Pc, Base, Typed, Bringing, Add
    <3> QED
      BY <3>1, <3>2 DEF Brought, Is, GoesOn
  <2> QED
    BY <2>1, <2>2
<1>2. CASE LockAdd(p) \/ writeLnpmReference(p)
  <2>1. GoesOn(p) /\ proc'[p].pc \in {"dep", "project", "lock"} /\ proc[p].pc \in {"lock", "dep"}
    BY <1>2, Goes DEF LockAdd, writeLnpmReference, At, Pc, Base, Typed
  <2> QED
    BY <2>1 DEF Served, Brought, Is, GoesOn
<1>3. CASE PullLock(p) \/ LockRestore(p)
  <2>1. /\ GoesOn(p) /\ proc'[p].pc \in {"exit", "failed", "consume"} /\ proc[p].pc = "lock"
    BY <1>3, Goes DEF PullLock, LockRestore, At, Pc, Base, Typed
  <2> QED
    BY <2>1 DEF Served, Brought, Is, GoesOn
<1> QED
  BY <1>1, <1>2, <1>3

LEMMA RemovesBrought ==
  ASSUME Base, Served, Careful(scene), NEW p \in Proc, UNCHANGED held,
         \/ Unlink(p) \/ RevertDep(p) \/ LockRemove(p) \/ RunRetreat(p) \/ Wipe(p)
         \/ stashLockForRestore(p) \/ Unstash(p)
  PROVE  Brought(p)'
<1> USE Facts
<1>1. proc[p] \in Process /\ proc \in [Proc -> Process] /\ proc[p].cmd \in {"remove", "retreat"}
  BY DEF Base, Typed, Unlink, RevertDep, LockRemove, RunRetreat, Wipe, stashLockForRestore,
     Unstash, At
<1>2. proc'[p].cmd \notin Bringing /\ proc'[p].pc # "record"
  <2>1. CASE Unlink(p)
    <3>1. ASSUME End(p)
          PROVE  proc'[p].cmd = None /\ proc'[p].pc = "idle"
      BY <3>1, Ends, Fresh DEF Base
    <3>2. None \notin Bringing
      BY DEF Bringing, Add, Command
    <3> QED
      BY <1>1, <2>1, <3>1, <3>2 DEF Unlink, At, Process, Bringing, Add
  <2>2. CASE ~Unlink(p)
    <3>1. GoesOn(p) /\ proc'[p].pc # "record"
      BY <1>1, <2>2, Goes DEF RevertDep, LockRemove, RunRetreat, Wipe, stashLockForRestore,
         Unstash, At, Pc
    <3> QED
      BY <1>1, <3>1 DEF GoesOn, Bringing, Add
  <2> QED
    BY <2>1, <2>2
<1> QED
  BY <1>2 DEF Brought, Is

LEMMA RestoresBrought ==
  ASSUME Base, Served, Careful(scene), NEW p \in Proc, UNCHANGED held,
         RunRestore(p) \/ consumeSnapshotEntry(p) \/ RecordFails(p) \/ Clean(p)
  PROVE  Brought(p)'
<1> USE Facts
<1>1. CASE RunRestore(p)
  BY <1>1, RunRestoreDoes DEF Brought, Is
<1>2. CASE consumeSnapshotEntry(p)
  <2>1. GoesOn(p) /\ proc'[p].pc \in {"clean", "project"} /\ proc[p].pc = "consume"
    BY <1>2, Goes DEF consumeSnapshotEntry, At, Pc, Base, Typed
  <2> QED
    BY <2>1 DEF Served, Brought, Is, GoesOn
<1>3. CASE RecordFails(p) \/ Clean(p)
  <2>1. proc'[p].pc \in {"failed", "exit"}
    BY <1>3, Goes DEF RecordFails, Clean, At, Pc, Base, Typed
  <2> QED
    BY <2>1 DEF Brought, Is
<1> QED
  BY <1>1, <1>2, <1>3

LEMMA ServedKept == Base /\ Served /\ [Next]_vars => Served'
<1> SUFFICES ASSUME Base, Served, [Next]_vars PROVE Served'
  OBVIOUS
<1>1. CASE UNCHANGED vars
  <2>1. /\ UNCHANGED <<scene, stored, held, proc, row>>
    BY <1>1 DEF vars, row
  <2> QED
    BY <2>1 DEF Served, Careful, RowIsServed, Recorded, Brought, Is, Stored
<1>2. ASSUME NEW p \in Proc, UNCHANGED scene, Step(p)
      PROVE  Served'
  <2> SUFFICES ASSUME Careful(scene) PROVE Served'
    BY <1>2 DEF Served, Careful
  <2>1. CASE Quietly(p)
    <3>1. UNCHANGED <<db, held>>
      BY <2>1 DEF Quietly, Start, GetDB, GetDBFails, Exit, Stop, Check, Relink, Scan, Resolve,
         Link, LockAdd, writeLnpmReference, RunPull, PullLock, Unlink, RevertDep, LockRemove,
         RunRetreat, Wipe, stashLockForRestore, Unstash, RunRestore, LockRestore,
         consumeSnapshotEntry, RecordFails, Clean
    <3>2. Brought(p)'
      BY <2>1, <3>1, ComesBrought, AddsBrought, RemovesBrought, RestoresBrought
      DEF Quietly, Comes, Leaves
    <3>3. ~Is(p, {"forget"}) \/ Faults
      <4> SUFFICES ASSUME proc[p].pc = "forget", ~Faults PROVE FALSE
        BY DEF Is
      <4>1. proc[p].cmd = "gc"
        BY DEF Base, Placed, Is, Runs
      <4> QED
        BY <2>1, <4>1, Facts DEF Quietly, Start, GetDB, GetDBFails, Exit, Stop, Check, Relink, Scan,
           Resolve, Link, LockAdd, writeLnpmReference, RunPull, PullLock, Unlink, RevertDep,
           LockRemove, RunRetreat, Wipe, stashLockForRestore, Unstash, RunRestore, LockRestore,
           consumeSnapshotEntry, RecordFails, Clean, At, Command
    <3> QED
      BY <1>2, <3>1, <3>2, <3>3, StepRests, QuietServed
  <2>2. CASE ~Quietly(p)
    <3>1. \/ Store(p) \/ Record(p) \/ RunTag(p) \/ Evict(p) \/ Forget(p)
          \/ InsertProject(p) \/ InsertLink(p) \/ PullRow(p) \/ DeleteLink(p)
      BY <1>2, <2>2 DEF Step, Quietly, Comes, Leaves, Publishes, Collects, Adds, Pulls, Removes,
         Restores
    <3> QED
      BY <1>2, <3>1, StoreServed, RecordServed, TagServed, EvictServed, ForgetServed, RowServed,
         OtherServed
  <2> QED
    BY <2>1, <2>2
<1> QED
  BY <1>1, <1>2, Steps

(* What a row names can be linked: publish stores before it records, gc    *)
(* spares what a row names, and only who has the database does either.     *)
(* Where a step may fail between a build's removal and its record's, tag   *)
(* and a live link, which ask the record alone, are left out: with them it *)
(* is not so.                                                              *)
THEOREM RowsServed ==
  ASSUME \A s \in Scenario : Careful(s)
  PROVE  Spec => []RowIsServed
<1>1. Init => Served
  <2> SUFFICES ASSUME Init PROVE Served
    OBVIOUS
  <2>1. row = None
    BY DEF Init, R!Init, R!NoConsumption, row
  <2>2. \A q \in Proc : proc[q].pc = "idle"
    BY Fresh DEF Init
  <2> QED
    BY <2>1, <2>2 DEF Init, Served, RowIsServed, Recorded, Stored, Brought, Is
<1>2. Base /\ Served => RowIsServed
  BY DEF Base, Typed, Served
<1> QED
  BY <1>1, <1>2, Basis, BaseKept, ServedKept, PTL DEF Spec

-----------------------------------------------------------------------------
(* What the commands do to the project's files.                            *)
Local == Add \cup {"pull", "remove", "retreat", "restore"}

LEMMA AddsDo ==
  ASSUME Base, NEW p \in Proc
  PROVE  /\ LockAdd(p) =>
               /\ GoesOn(p) /\ proc[p].pc = "lock" /\ proc[p].cmd \in Add
               /\ proc'[p].pc = IF proc[p].cmd = "add-pure" THEN "project" ELSE "dep"
               /\ UNCHANGED <<dep, snap, disk, was>>
               /\ Has(lock)' /\ lock'.hash = proc[p].build
               /\ (lock'.orig <=> (proc[p].cmd # "add-pure" /\ dep = "user") \/ HasOrig(lock))
         /\ writeLnpmReference(p) =>
               /\ GoesOn(p) /\ proc[p].pc = "dep"
               /\ \/ proc[p].cmd = "restore" /\ proc'[p].pc = "lock"
                  \/ proc[p].cmd \in Add /\ proc'[p].pc = "project"
               /\ dep' = "lnpm" /\ UNCHANGED <<lock, snap, disk, was>>
         /\ InsertProject(p) \/ InsertLink(p) =>
               /\ GoesOn(p) /\ proc[p].cmd \in Add \cup {"restore"}
               /\ proc[p].pc \in {"project", "row"}
               /\ \/ proc'[p].pc = "row" /\ proc[p].pc = "project"
                  \/ proc'[p].pc = "clean" /\ proc[p].cmd = "restore"
                  \/ proc'[p].pc = "exit"
               /\ UNCHANGED <<dep, lock, snap, disk, was>>
<1>1. ASSUME LockAdd(p)
      PROVE  /\ GoesOn(p) /\ proc[p].pc = "lock" /\ proc[p].cmd \in Add
             /\ proc'[p].pc = IF proc[p].cmd = "add-pure" THEN "project" ELSE "dep"
             /\ UNCHANGED <<dep, snap, disk, was>>
             /\ Has(lock)' /\ lock'.hash = proc[p].build
             /\ (lock'.orig <=> (proc[p].cmd # "add-pure" /\ dep = "user") \/ HasOrig(lock))
  <2> DEFINE o == (proc[p].cmd # "add-pure" /\ dep = "user") \/ HasOrig(lock)
             pin == "pinned" \in proc[p].opts
             next == IF proc[p].cmd = "add-pure" THEN "project" ELSE "dep"
  <2>1. /\ proc[p].pc = "lock" /\ proc[p].cmd \in Add /\ To(p, next)
        /\ UNCHANGED <<dep, snap, disk, was>>
        /\ lock' = [hash |-> proc[p].build, orig |-> o, pinned |-> pin]
    BY <1>1 DEF LockAdd, At
  <2>2. /\ o \in BOOLEAN /\ pin \in BOOLEAN /\ next \in Pc
        /\ (o <=> (proc[p].cmd # "add-pure" /\ dep = "user") \/ HasOrig(lock))
    BY DEF HasOrig, Has, Entry, Pc
  <2>3. proc[p].build \in Hash
    BY <2>1 DEF Base, Placed, Is, Bringing
  <2> HIDE DEF o, pin
  <2>4. Has(lock)' /\ lock'.hash = proc[p].build /\ lock'.orig = o
    BY <2>1, <2>2, <2>3 DEF Has, Entry
  <2>5. GoesOn(p) /\ proc'[p].pc = next
    BY <2>1, <2>2, Goes DEF Base, Typed
  <2> QED
    BY <2>1, <2>2, <2>4, <2>5
<1>2. ASSUME writeLnpmReference(p)
      PROVE  /\ GoesOn(p) /\ proc[p].pc = "dep"
             /\ \/ proc[p].cmd = "restore" /\ proc'[p].pc = "lock"
                \/ proc[p].cmd \in Add /\ proc'[p].pc = "project"
             /\ dep' = "lnpm" /\ UNCHANGED <<lock, snap, disk, was>>
  BY <1>2, Goes DEF writeLnpmReference, At, Pc, Base, Typed, Add
<1>3. ASSUME InsertProject(p) \/ InsertLink(p)
      PROVE  /\ GoesOn(p) /\ proc[p].cmd \in Add \cup {"restore"}
             /\ proc[p].pc \in {"project", "row"}
             /\ \/ proc'[p].pc = "row" /\ proc[p].pc = "project"
                \/ proc'[p].pc = "clean" /\ proc[p].cmd = "restore"
                \/ proc'[p].pc = "exit"
             /\ UNCHANGED <<dep, lock, snap, disk, was>>
  BY <1>3, Goes DEF InsertProject, InsertLink, At, Pc, Base, Typed, Add, files
<1> QED
  BY <1>1, <1>2, <1>3

LEMMA PullsDo ==
  ASSUME Base, NEW p \in Proc
  PROVE  /\ PullRow(p) =>
               /\ GoesOn(p) /\ proc[p].cmd = "pull" /\ proc[p].pc = "row" /\ proc'[p].pc = "lock"
               /\ UNCHANGED <<dep, lock, snap, disk, was>> /\ Followed' = Followed
         /\ PullLock(p) =>
               /\ GoesOn(p) /\ proc[p].cmd = "pull" /\ proc[p].pc = "lock"
               /\ proc'[p].pc \in {"exit", "failed"}
               /\ UNCHANGED <<dep, snap, disk, was>> /\ Followed' = Followed
               /\ Has(proc[p].seen) /\ Has(lock)' /\ lock'.hash = proc[p].build
               /\ lock'.orig = proc[p].seen.orig
<1> USE Facts
<1>1. ASSUME PullRow(p)
      PROVE  /\ GoesOn(p) /\ proc[p].cmd = "pull" /\ proc[p].pc = "row" /\ proc'[p].pc = "lock"
             /\ UNCHANGED <<dep, lock, snap, disk, was>> /\ Followed' = Followed
  <2>1. /\ GoesOn(p) /\ proc[p].cmd = "pull" /\ proc[p].pc = "row" /\ proc'[p].pc = "lock"
        /\ UNCHANGED <<dep, lock, snap, disk, was>>
        /\ \/ UNCHANGED db
           \/ row # None /\ R!InsertLink(Project, Pkg, proc[p].build, row.tag, row.pinned)
    BY <1>1, Goes DEF PullRow, At, files, Pc, Base, Typed
  <2>2. CASE UNCHANGED db
    BY <2>1, <2>2, Still DEF Followed
  <2>3. CASE row # None /\ R!InsertLink(Project, Pkg, proc[p].build, row.tag, row.pinned)
    <3>1. row.tag \in Tag /\ row.pinned \in BOOLEAN
      BY <2>3 DEF row, R!Consumption, Base, Typed, R!TypeOK
    <3>2. proc[p].build \in Hash
      BY <2>1 DEF Base, Placed, Is, Bringing
    <3>3. row' = [hash |-> proc[p].build, tag |-> row.tag, pinned |-> row.pinned]
      BY <2>3, <3>1, <3>2, RegistryTypes DEF Base, Typed
    <3>4. row' \in R!Consumption
      BY <3>1, <3>2, <3>3 DEF R!Consumption
    <3>5. channel' = channel
      BY <2>3 DEF R!InsertLink
    <3> QED
      BY <2>1, <2>3, <3>3, <3>4, <3>5 DEF Followed
  <2> QED
    BY <2>1, <2>2, <2>3
<1>2. ASSUME PullLock(p)
      PROVE  /\ GoesOn(p) /\ proc[p].cmd = "pull" /\ proc[p].pc = "lock"
             /\ proc'[p].pc \in {"exit", "failed"}
             /\ UNCHANGED <<dep, snap, disk, was>> /\ Followed' = Followed
             /\ Has(proc[p].seen) /\ Has(lock)' /\ lock'.hash = proc[p].build
             /\ lock'.orig = proc[p].seen.orig
  <2>1. /\ GoesOn(p) /\ proc[p].pc = "lock" /\ proc'[p].pc \in {"failed", "exit"}
        /\ proc[p].cmd = "pull" /\ lock' = [proc[p].seen EXCEPT !.hash = proc[p].build]
        /\ UNCHANGED <<dep, snap, disk, was, db>>
    BY <1>2, Goes DEF PullLock, At, Pc, Base, Typed
  <2>2. proc[p].build \in Hash /\ proc[p].seen \in Entry
    BY <2>1 DEF Base, Placed, Is, Runs, Bringing, Has
  <2>3. Followed' = Followed
    BY <2>1, Still DEF Followed
  <2> QED
    BY <2>1, <2>2, <2>3 DEF Entry, Has
<1> QED
  BY <1>1, <1>2

LEMMA RemovesDo ==
  ASSUME Base, NEW p \in Proc
  PROVE  /\ RevertDep(p) =>
               /\ GoesOn(p) /\ proc[p].cmd \in {"remove", "retreat"} /\ proc[p].pc = "dep"
               /\ proc'[p].pc = "row" /\ Has(proc[p].seen)
               /\ UNCHANGED <<lock, snap, disk, was>>
               /\ \/ dep' = Reverted(proc[p].seen.orig)
                  \/ proc[p].cmd = "retreat" /\ dep' = dep
         /\ DeleteLink(p) =>
               /\ GoesOn(p) /\ proc[p].pc = "row" /\ UNCHANGED <<dep, lock, snap, disk, was>>
               /\ \/ proc[p].cmd = "remove" /\ proc'[p].pc = "lock"
                  \/ proc[p].cmd = "retreat" /\ proc'[p].pc = "wipe"
         /\ LockRemove(p) =>
               /\ GoesOn(p) /\ proc[p].cmd = "remove" /\ proc[p].pc = "lock"
               /\ proc'[p].pc = "exit" /\ ~Has(lock)' /\ UNCHANGED <<dep, snap, disk, was>>
         /\ RunRetreat(p) =>
               /\ GoesOn(p) /\ proc[p].cmd = "retreat" /\ proc[p].pc = "start"
               /\ proc'[p].pc = IF Has(proc[p].seen) THEN "dep" ELSE "wipe"
               /\ UNCHANGED <<dep, lock, snap, disk, was>>
         /\ Wipe(p) =>
               /\ GoesOn(p) /\ proc[p].cmd = "retreat" /\ proc[p].pc = "wipe"
               /\ proc'[p].pc = "stash" /\ UNCHANGED <<dep, lock, snap>>
               /\ \/ ~(Alone /\ Has(proc[p].seen)) /\ was' = was
                  \/ Alone /\ Has(proc[p].seen) /\ was' = IF disk \in Hash THEN disk ELSE None
               /\ disk' = None \/ (Faults /\ disk' = disk)
         /\ Unstash(p) =>
               /\ GoesOn(p) /\ proc[p].cmd = "retreat" /\ proc[p].pc = "unstash"
               /\ proc'[p].pc = "exit" /\ UNCHANGED <<dep, snap, disk, was>>
               /\ lock' = None \/ (Faults /\ lock' = lock)
<1> USE Facts
<1>0. \A x \in Pc : To(p, x) => GoesOn(p) /\ proc'[p].pc = x
  BY Goes DEF Base, Typed
<1>1. ASSUME RevertDep(p)
      PROVE  /\ GoesOn(p) /\ proc[p].cmd \in {"remove", "retreat"} /\ proc[p].pc = "dep"
             /\ proc'[p].pc = "row" /\ Has(proc[p].seen)
             /\ UNCHANGED <<lock, snap, disk, was>>
             /\ \/ dep' = Reverted(proc[p].seen.orig)
                \/ proc[p].cmd = "retreat" /\ dep' = dep
  BY <1>0, <1>1 DEF RevertDep, At, Pc, Base, Placed, Is
<1>2. ASSUME DeleteLink(p)
      PROVE  /\ GoesOn(p) /\ proc[p].pc = "row" /\ UNCHANGED <<dep, lock, snap, disk, was>>
             /\ \/ proc[p].cmd = "remove" /\ proc'[p].pc = "lock"
                \/ proc[p].cmd = "retreat" /\ proc'[p].pc = "wipe"
  BY <1>0, <1>2 DEF DeleteLink, At, Pc, files
<1>3. ASSUME LockRemove(p)
      PROVE  /\ GoesOn(p) /\ proc[p].cmd = "remove" /\ proc[p].pc = "lock"
             /\ proc'[p].pc = "exit" /\ ~Has(lock)' /\ UNCHANGED <<dep, snap, disk, was>>
  <2>1. lock' \in {None, Blank}
    BY <1>3 DEF LockRemove
  <2> QED
    BY <1>0, <1>3, <2>1 DEF LockRemove, At, Pc, Has
<1>4. ASSUME RunRetreat(p)
      PROVE  /\ GoesOn(p) /\ proc[p].cmd = "retreat" /\ proc[p].pc = "start"
             /\ proc'[p].pc = IF Has(proc[p].seen) THEN "dep" ELSE "wipe"
             /\ UNCHANGED <<dep, lock, snap, disk, was>>
  BY <1>0, <1>4 DEF RunRetreat, At, Pc, files
<1>5. ASSUME Wipe(p)
      PROVE  /\ GoesOn(p) /\ proc[p].cmd = "retreat" /\ proc[p].pc = "wipe"
             /\ proc'[p].pc = "stash" /\ UNCHANGED <<dep, lock, snap>>
             /\ \/ ~(Alone /\ Has(proc[p].seen)) /\ was' = was
                \/ Alone /\ Has(proc[p].seen) /\ was' = IF disk \in Hash THEN disk ELSE None
             /\ disk' = None \/ (Faults /\ disk' = disk)
  <2>1. disk' = None \/ (Faults /\ disk' = disk)
    BY <1>5 DEF Wipe
  <2>2. \/ ~(Alone /\ Has(proc[p].seen)) /\ was' = was
        \/ Alone /\ Has(proc[p].seen) /\ was' = IF disk \in Hash THEN disk ELSE None
    BY <1>5 DEF Wipe
  <2>3. /\ proc[p].cmd = "retreat" /\ proc[p].pc = "wipe" /\ To(p, "stash")
        /\ UNCHANGED <<dep, lock, snap>>
    BY <1>5 DEF Wipe, At
  <2>4. GoesOn(p) /\ proc'[p].pc = "stash"
    BY <1>0, <2>3 DEF Pc
  <2> QED
    BY <2>1, <2>2, <2>3, <2>4
<1>6. ASSUME Unstash(p)
      PROVE  /\ GoesOn(p) /\ proc[p].cmd = "retreat" /\ proc[p].pc = "unstash"
             /\ proc'[p].pc = "exit" /\ UNCHANGED <<dep, snap, disk, was>>
             /\ lock' = None \/ (Faults /\ lock' = lock)
  <2>1. lock' = None \/ (Faults /\ lock' = lock)
    BY <1>6 DEF Unstash
  <2>2. proc[p].cmd = "retreat" /\ proc[p].pc = "unstash" /\ To(p, "exit")
        /\ UNCHANGED <<dep, snap, disk, was>>
    BY <1>6 DEF Unstash, At
  <2>3. GoesOn(p) /\ proc'[p].pc = "exit"
    BY <1>0, <2>2 DEF Pc
  <2> QED
    BY <2>1, <2>2, <2>3
<1> QED
  BY <1>1, <1>2, <1>3, <1>4, <1>5, <1>6

LEMMA RestoresDo ==
  ASSUME Base, NEW p \in Proc
  PROVE  /\ LockRestore(p) =>
               /\ GoesOn(p) /\ proc[p].cmd = "restore" /\ proc[p].pc = "lock"
               /\ proc'[p].pc = "consume" /\ UNCHANGED <<dep, snap, disk, was>>
               /\ Has(lock)' /\ lock'.hash = proc[p].build /\ lock'.orig = proc[p].orig
         /\ consumeSnapshotEntry(p) =>
               /\ GoesOn(p) /\ proc[p].cmd = "restore" /\ proc[p].pc = "consume"
               /\ proc'[p].pc \in {"clean", "project"} /\ UNCHANGED <<dep, lock, disk, was>>
               /\ snap' \in {Blank, snap}
         /\ RecordFails(p) =>
               /\ GoesOn(p) /\ proc[p].cmd = "restore" /\ proc'[p].pc = "failed"
               /\ UNCHANGED <<dep, lock, snap, disk, was>>
         /\ Clean(p) =>
               /\ GoesOn(p) /\ proc[p].cmd = "restore" /\ proc[p].pc = "clean"
               /\ proc'[p].pc = "exit" /\ UNCHANGED <<dep, lock, disk, was>>
               /\ snap' \in {None, snap}
<1>0. \A x \in Pc : To(p, x) => GoesOn(p) /\ proc'[p].pc = x
  BY Goes DEF Base, Typed
<1>1. ASSUME LockRestore(p)
      PROVE  /\ GoesOn(p) /\ proc[p].cmd = "restore" /\ proc[p].pc = "lock"
             /\ proc'[p].pc = "consume" /\ UNCHANGED <<dep, snap, disk, was>>
             /\ Has(lock)' /\ lock'.hash = proc[p].build /\ lock'.orig = proc[p].orig
  <2>1. /\ proc[p].cmd = "restore" /\ proc[p].pc = "lock" /\ proc[p] \in Process
    BY <1>1 DEF LockRestore, At, Base, Typed
  <2>2. proc[p].build \in Hash /\ proc[p].orig \in BOOLEAN
    BY <2>1 DEF Base, Placed, Is, Bringing, Process
  <2> QED
    BY <1>0, <1>1, <2>1, <2>2 DEF LockRestore, Pc, Has, Entry
<1>2. ASSUME consumeSnapshotEntry(p)
      PROVE  /\ GoesOn(p) /\ proc[p].cmd = "restore" /\ proc[p].pc = "consume"
             /\ proc'[p].pc \in {"clean", "project"} /\ UNCHANGED <<dep, lock, disk, was>>
             /\ snap' \in {Blank, snap}
  BY <1>0, <1>2 DEF consumeSnapshotEntry, At, Pc
<1>3. ASSUME RecordFails(p)
      PROVE  /\ GoesOn(p) /\ proc[p].cmd = "restore" /\ proc'[p].pc = "failed"
             /\ UNCHANGED <<dep, lock, snap, disk, was>>
  BY <1>0, <1>3 DEF RecordFails, Pc, files
<1>4. ASSUME Clean(p)
      PROVE  /\ GoesOn(p) /\ proc[p].cmd = "restore" /\ proc[p].pc = "clean"
             /\ proc'[p].pc = "exit" /\ UNCHANGED <<dep, lock, disk, was>>
             /\ snap' \in {None, snap}
  BY <1>0, <1>4 DEF Clean, At, Pc
<1> QED
  BY <1>1, <1>2, <1>3, <1>4

-----------------------------------------------------------------------------
(* One command at a time.                                                  *)
LEMMA SameCommand ==
  ASSUME Base, NEW p \in Proc, Step(p), ~Start(p)
  PROVE  proc[p].cmd # None /\ proc'[p].cmd \in {proc[p].cmd, None}
<1> USE Facts
<1>1. ASSUME proc[p].pc # "idle"
      PROVE  proc[p].cmd # None
  BY <1>1 DEF Base, Placed, Is
<1>2. ASSUME End(p)
      PROVE  proc'[p].cmd = None
  BY <1>2, Ends, Fresh DEF Base
<1>3. ASSUME GoesOn(p) \/ Turns(p)
      PROVE  proc'[p].cmd = proc[p].cmd
  BY <1>3 DEF GoesOn, Turns
<1>4. CASE GetDB(p) \/ GetDBFails(p)
  <2>1. proc[p].pc = "open"
    BY <1>4 DEF GetDB, GetDBFails
  <2>2. GetDB(p) => GoesOn(p)
    BY Goes DEF GetDB, Pc, Base, Typed
  <2> QED
    BY <1>1, <1>2, <1>3, <1>4, <2>1, <2>2, GetDBFailsDoes
<1>5. CASE Leaves(p)
  <2>1. proc[p].cmd # None
    BY <1>1, <1>5 DEF Leaves, Exit, Stop
  <2>2. End(p)
    BY <1>5 DEF Leaves, Exit, Stop
  <2> QED
    BY <1>2, <2>1, <2>2
<1>6. CASE Publishes(p) \/ Collects(p)
  <2>1. CASE Check(p) \/ Scan(p) \/ Evict(p)
    <3>1. Turns(p) /\ proc[p].pc \in {"start", "evict"}
      BY <2>1, CheckDoes, ScanDoes, EvictDoes
    <3> QED
      BY <1>1, <1>3, <3>1
  <2>2. CASE Store(p) \/ Record(p) \/ Relink(p) \/ RunTag(p) \/ Forget(p)
    <3>1. GoesOn(p) /\ proc[p].pc \in {"store", "record", "relink", "start", "forget"}
      BY <2>2, Goes DEF Store, Record, Relink, RunTag, Forget, At, Pc, Base, Typed
    <3> QED
      BY <1>1, <1>3, <3>1
  <2> QED
    BY <1>6, <2>1, <2>2 DEF Publishes, Collects
<1>7. CASE Adds(p) \/ Pulls(p)
  <2>1. proc[p].pc \in {"start", "link", "lock", "dep", "project", "row"}
    BY <1>7, ResolveDoes, LinkDoes, RunPullDoes, AddsDo, PullsDo DEF Adds, Pulls
  <2>2. End(p) \/ GoesOn(p) \/ Turns(p)
    BY <1>7, ResolveDoes, LinkDoes, RunPullDoes, AddsDo, PullsDo DEF Adds, Pulls
  <2> QED
    BY <1>1, <1>2, <1>3, <2>1, <2>2
<1>8. CASE Removes(p)
  <2>1. proc[p].pc \in {"start", "dep", "row", "lock", "wipe", "stash", "unstash"}
    BY <1>8, UnlinkDoes, StashDoes, RemovesDo DEF Removes
  <2>2. End(p) \/ GoesOn(p) \/ Turns(p)
    BY <1>8, UnlinkDoes, StashDoes, RemovesDo DEF Removes
  <2> QED
    BY <1>1, <1>2, <1>3, <2>1, <2>2
<1>9. CASE Restores(p)
  <2>1. proc[p].cmd = "restore"
    BY <1>9, RunRestoreDoes, RestoresDo DEF Restores
  <2>2. GoesOn(p) \/ Turns(p)
    BY <1>9, RunRestoreDoes, RestoresDo DEF Restores, Turns
  <2>3. "restore" # None
    BY DEF Command
  <2> QED
    BY <1>3, <2>1, <2>2, <2>3
<1> QED
  BY <1>4, <1>5, <1>6, <1>7, <1>8, <1>9 DEF Step, Comes

LEMMA OneKept ==
  ASSUME Base, OneAtATime, NEW p \in Proc, Step(p), UNCHANGED scene
  PROVE  OneAtATime'
<1> SUFFICES ASSUME Single, NEW q \in Proc, q # p, proc'[q].cmd # None, proc'[p].cmd # None
             PROVE  FALSE
  <2> SUFFICES ASSUME Single, NEW q \in Proc, NEW r \in Proc, q # r,
                      proc'[q].cmd # None, proc'[r].cmd # None
               PROVE  FALSE
    BY DEF OneAtATime, Single, Runs
  <2>1. q # p /\ r # p
    OBVIOUS
  <2>2. proc'[q] = proc[q] /\ proc'[r] = proc[r]
    BY <2>1, StepRests DEF Rest
  <2> QED
    BY <2>2 DEF OneAtATime, Runs
<1>1. proc'[q] = proc[q]
  BY StepRests DEF Rest
<1>2. CASE Start(p)
  <2> DEFINE S == {o \in Proc : proc[o].cmd # None}
  <2>1. Cardinality(S) < scene.atonce /\ scene.atonce \in Nat /\ scene.atonce <= 1
    BY <1>2, ProjectAssumption DEF Start, Base, Typed, Scenarios, Single
  <2>2. IsFiniteSet(S)
    BY ProjectAssumption, FS_Subset
  <2>3. Cardinality(S) \in Nat
    BY <2>2, FS_CardinalityType
  <2>4. Cardinality(S) = 0
    BY <2>1, <2>3
  <2>5. S = {}
    BY <2>2, <2>4, FS_EmptySet
  <2> QED
    BY <1>1, <2>5
<1>3. CASE ~Start(p)
  BY <1>1, <1>3, SameCommand DEF OneAtATime, Runs
<1> QED
  BY <1>2, <1>3

(* Beside the one that takes a step nobody runs.                           *)
LEMMA NobodyElse ==
  ASSUME Base, OneAtATime, Single, NEW p \in Proc, Step(p), UNCHANGED scene,
         NEW q \in Proc, q # p
  PROVE  proc[q].cmd = None /\ proc'[q].cmd = None
<1>1. proc'[q] = proc[q]
  BY StepRests DEF Rest
<1>2. OneAtATime'
  BY OneKept
<1>3. proc[p].cmd # None \/ proc'[p].cmd # None
  BY SameCommand, StartDoes, Facts
<1> QED
  BY <1>1, <1>2, <1>3 DEF OneAtATime, Runs, Single

(* Nothing is said of who does not touch the project's files.              *)
LEMMA Silent ==
  ASSUME NEW q \in Proc, proc[q].cmd \notin Local
  PROVE  Seen(q) /\ Saving(q) /\ Written(q) /\ Moving(q) /\ ~Between(q) /\ ~Stashing(q)
  BY DEF Local, Add, Seen, Saving, Written, Moving, Between, Stashing, Runs, Is

LEMMA SilentNext ==
  ASSUME NEW q \in Proc, proc'[q].cmd \notin Local
  PROVE  /\ Seen(q)' /\ Saving(q)' /\ Written(q)' /\ Moving(q)'
         /\ ~Between(q)' /\ ~Stashing(q)'
  BY DEF Local, Add, Seen, Saving, Written, Moving, Between, Stashing, Runs, Is

LEMMA NoneIsLocal == None \notin Local
  BY Facts DEF Local, Add, Command

(* What is not a command of the project's leaves its files alone, but for  *)
(* the copy that a publish relinks.                                        *)
LEMMA ForeignStep ==
  ASSUME Base, NEW p \in Proc, Publishes(p) \/ Collects(p)
  PROVE  /\ proc[p].cmd \notin Local /\ proc'[p].cmd \notin Local
         /\ UNCHANGED <<dep, lock, snap, was>>
         /\ disk' # disk => Relink(p)
<1> USE Facts
<1>1. proc[p].cmd \in Publishing \cup {"tag", "gc"}
  BY DEF Publishes, Collects, Check, Store, Record, Relink, RunTag, Scan, Evict, Forget, At,
     Base, Placed, Is
<1>2. proc[p].cmd \notin Local
  BY <1>1 DEF Publishing, Local, Add
<1>3. ~Start(p)
  <2>1. proc[p].cmd # None
    BY <1>1 DEF Publishing, Command
  <2> QED
    BY <2>1 DEF Start
<1>4. proc'[p].cmd \notin Local
  BY <1>2, <1>3, SameCommand, NoneIsLocal DEF Step
<1> QED
  BY <1>2, <1>4 DEF Publishes, Collects, Check, Store, Record, Relink, RunTag, Scan, Evict,
     Forget, files


(* What a command read stays so.                                           *)
LEMMA SeenEnds ==
  ASSUME Base, NEW p \in Proc, End(p)
  PROVE  /\ Seen(p)' /\ Saving(p)' /\ Written(p)' /\ Moving(p)'
         /\ ~Between(p)' /\ ~Stashing(p)'
<1>1. proc'[p].cmd \notin Local
  BY Ends, Fresh, NoneIsLocal DEF Base
<1> QED
  BY <1>1, SilentNext

LEMMA ComesSeen ==
  ASSUME Base, NEW p \in Proc, Seen(p), Comes(p) \/ Leaves(p)
  PROVE  Seen(p)'
<1> USE Facts
<1>1. CASE Start(p)
  <2>1. /\ UNCHANGED <<lock, snap>> /\ proc'[p].pc \in {"exit", "clean", "open"}
        /\ proc'[p].cmd = "retreat" => proc'[p].seen = lock
        /\ proc'[p].cmd = "restore" => /\ proc'[p].seen = snap
                                       /\ proc'[p].pc = "clean" => snap = Blank
    BY <1>1, StartDoes
  <2> QED
    BY <2>1 DEF Seen, Is, Runs, Has
<1>2. CASE GetDB(p)
  <2>1. /\ GoesOn(p) /\ proc[p].pc = "open" /\ proc'[p].pc = "start" /\ UNCHANGED <<lock, snap>>
    BY <1>2, Goes DEF GetDB, files, Pc, Base, Typed
  <2> QED
    BY <2>1 DEF Seen, Is, Runs, GoesOn
<1>3. CASE GetDBFails(p) /\ ~End(p)
  <2>1. /\ proc'[p].cmd = "retreat" /\ proc[p].cmd = "retreat" /\ proc[p].pc = "open"
        /\ proc'[p].pc = "start" /\ proc'[p].seen = proc[p].seen /\ lock' = lock
    BY <1>3, GetDBFailsDoes DEF Turns
  <2> QED
    BY <2>1 DEF Seen, Is, Runs
<1>4. CASE End(p)
  BY <1>4, SeenEnds
<1> QED
  BY <1>1, <1>2, <1>3, <1>4 DEF Comes, Leaves, Exit, Stop

LEMMA AddsSeen ==
  ASSUME Base, NEW p \in Proc, Seen(p), Adds(p) \/ Pulls(p)
  PROVE  Seen(p)'
<1> USE Facts
<1>1. CASE End(p)
  BY <1>1, SeenEnds
<1>2. ASSUME proc'[p].cmd \in Add
      PROVE  Seen(p)'
  BY <1>2 DEF Seen, Runs, Add
<1>3. CASE Resolve(p) /\ ~End(p)
  BY <1>2, <1>3, ResolveDoes DEF Turns
<1>4. CASE Link(p) /\ ~End(p)
  <2>1. /\ GoesOn(p) /\ UNCHANGED <<lock, snap>> /\ proc[p].pc = "link"
        /\ \/ proc[p].cmd \in Add /\ proc'[p].pc = "lock"
           \/ proc[p].cmd = "pull" /\ proc'[p].pc = "row"
           \/ proc[p].cmd = "restore" /\ proc'[p].pc = "dep"
    BY <1>4, LinkDoes
  <2> QED
    BY <1>2, <2>1 DEF Seen, Is, Runs, GoesOn, Has, HasOrig
<1>5. CASE LockAdd(p)
  BY <1>2, <1>5, AddsDo DEF GoesOn
<1>6. CASE writeLnpmReference(p)
  <2>1. /\ GoesOn(p) /\ UNCHANGED <<lock, snap>> /\ proc[p].pc = "dep"
        /\ \/ proc[p].cmd = "restore" /\ proc'[p].pc = "lock"
           \/ proc[p].cmd \in Add /\ proc'[p].pc = "project"
    BY <1>6, AddsDo
  <2> QED
    BY <1>2, <2>1 DEF Seen, Is, Runs, GoesOn, Has
<1>7. CASE InsertProject(p) \/ InsertLink(p)
  <2>1. /\ GoesOn(p) /\ UNCHANGED <<lock, snap>> /\ proc[p].cmd \in Add \cup {"restore"}
        /\ proc[p].pc \in {"project", "row"} /\ proc'[p].pc \in {"row", "clean", "exit"}
    BY <1>7, AddsDo
  <2> QED
    BY <1>2, <2>1 DEF Seen, Is, Runs, GoesOn, Has
<1>8. CASE RunPull(p) /\ ~End(p)
  <2>1. proc'[p].cmd = "pull" /\ proc'[p].seen = lock /\ lock' = lock
    BY <1>8, RunPullDoes DEF Turns
  <2> QED
    BY <2>1 DEF Seen, Is, Runs
<1>9. CASE PullRow(p)
  <2>1. /\ GoesOn(p) /\ proc[p].cmd = "pull" /\ proc[p].pc = "row" /\ proc'[p].pc = "lock"
        /\ lock' = lock
    BY <1>9, PullsDo
  <2> QED
    BY <2>1 DEF Seen, Is, Runs, GoesOn
<1>10. CASE PullLock(p)
  <2>1. GoesOn(p) /\ proc[p].cmd = "pull" /\ proc'[p].pc \in {"exit", "failed"}
    BY <1>10, PullsDo
  <2> QED
    BY <2>1 DEF Seen, Is, Runs, GoesOn
<1> QED
  BY <1>1, <1>3, <1>4, <1>5, <1>6, <1>7, <1>8, <1>9, <1>10 DEF Adds, Pulls

LEMMA RemovesSeen ==
  ASSUME Base, NEW p \in Proc, Seen(p), Removes(p)
  PROVE  Seen(p)'
<1>1. CASE End(p)
  BY <1>1, SeenEnds
<1>2. CASE Unlink(p) /\ ~End(p)
  <2>1. /\ proc'[p].cmd = "remove" /\ proc'[p].pc = "dep" /\ proc'[p].seen = lock /\ lock' = lock
    BY <1>2, UnlinkDoes DEF Turns
  <2> QED
    BY <2>1 DEF Seen, Is, Runs
<1>3. CASE RevertDep(p) \/ DeleteLink(p) \/ RunRetreat(p) \/ Wipe(p)
  <2>1. /\ GoesOn(p) /\ lock' = lock
        /\ \/ /\ proc[p].cmd = "remove" /\ proc[p].pc \in {"dep", "row"}
              /\ proc'[p].pc \in {"row", "lock"}
           \/ /\ proc[p].cmd = "retreat" /\ proc[p].pc \in {"dep", "row", "start", "wipe"}
              /\ proc'[p].pc \in {"row", "wipe", "dep", "stash"}
    BY <1>3, RemovesDo
  <2> QED
    BY <2>1 DEF Seen, Is, Runs, GoesOn
<1>4. CASE LockRemove(p) \/ stashLockForRestore(p) \/ Unstash(p)
  <2>1. /\ GoesOn(p) /\ proc[p].cmd \in {"remove", "retreat"}
        /\ proc'[p].pc \in {"exit", "unstash"}
    BY <1>4, RemovesDo, StashDoes
  <2> QED
    BY <2>1 DEF Seen, Is, Runs, GoesOn
<1> QED
  BY <1>1, <1>2, <1>3, <1>4 DEF Removes

LEMMA RestoresSeen ==
  ASSUME Base, NEW p \in Proc, Seen(p), Restores(p)
  PROVE  Seen(p)'
<1> USE Facts
<1>1. CASE RunRestore(p)
  <2>1. /\ proc'[p].cmd = "restore" /\ proc[p].cmd = "restore" /\ proc[p].pc = "start"
        /\ Has(proc[p].seen) /\ UNCHANGED <<lock, snap>> /\ proc'[p].seen = proc[p].seen
        /\ \/ Has(lock) /\ proc'[p].pc = "consume"
           \/ /\ ~Has(lock) /\ proc'[p].build = proc[p].seen.hash
              /\ proc'[p].pc \in {"link", "failed"}
    BY <1>1, RunRestoreDoes
  <2> QED
    BY <2>1 DEF Seen, Is, Runs, Has
<1>2. CASE LockRestore(p)
  <2>1. /\ GoesOn(p) /\ proc[p].cmd = "restore" /\ proc'[p].pc = "consume" /\ Has(lock)'
    BY <1>2, RestoresDo
  <2> QED
    BY <2>1 DEF Seen, Is, Runs, GoesOn
<1>3. CASE consumeSnapshotEntry(p)
  <2>1. /\ GoesOn(p) /\ proc[p].cmd = "restore" /\ proc[p].pc = "consume"
        /\ proc'[p].pc \in {"clean", "project"} /\ lock' = lock /\ snap' \in {Blank, snap}
    BY <1>3, RestoresDo
  <2> QED
    BY <2>1 DEF Seen, Is, Runs, GoesOn, Has
<1>4. CASE RecordFails(p) \/ Clean(p)
  <2>1. GoesOn(p) /\ proc[p].cmd = "restore" /\ proc'[p].pc \in {"exit", "failed"}
    BY <1>4, RestoresDo
  <2> QED
    BY <2>1 DEF Seen, Is, Runs, GoesOn
<1> QED
  BY <1>1, <1>2, <1>3, <1>4 DEF Restores

LEMMA ConsistentKept == Base /\ Consistent /\ [Next]_vars => Consistent'
<1> SUFFICES ASSUME Base, Consistent, [Next]_vars PROVE Consistent'
  OBVIOUS
<1>1. CASE UNCHANGED vars
  <2>1. UNCHANGED <<scene, lock, snap, proc>>
    BY <1>1 DEF vars
  <2> QED
    BY <2>1 DEF Consistent, OneAtATime, Single, Seen, Is, Runs, Has
<1>2. ASSUME NEW p \in Proc, UNCHANGED scene, Step(p)
      PROVE  Consistent'
  <2>1. OneAtATime'
    BY <1>2, OneKept DEF Consistent
  <2> SUFFICES ASSUME Single, NEW q \in Proc
               PROVE  Seen(q)'
    BY <1>2, <2>1 DEF Consistent, Single
  <2>2. CASE q # p
    BY <1>2, <2>2, NobodyElse, NoneIsLocal, SilentNext DEF Consistent
  <2>3. CASE q = p
    <3>1. Seen(p)
      BY DEF Consistent
    <3>2. CASE Publishes(p) \/ Collects(p)
      BY <2>3, <3>2, ForeignStep, SilentNext
    <3> QED
      BY <1>2, <2>3, <3>1, <3>2, ComesSeen, AddsSeen, RemovesSeen, RestoresSeen DEF Step
  <2> QED
    BY <2>2, <2>3
<1> QED
  BY <1>1, <1>2, Steps

LEMMA InitiallyIdle ==
  ASSUME Init
  PROVE  /\ Consistent /\ Kept /\ Right
         /\ \A q \in Proc : proc[q].cmd = None
<1> USE Facts
<1>1. lock = None /\ snap = None /\ ~Has(lock) /\ ~Has(snap)
  BY DEF Init
<1>2. \A q \in Proc : proc[q].cmd = None
  BY Fresh DEF Init
<1>3. Consistent
  BY <1>2, NoneIsLocal, Silent DEF Consistent, OneAtATime, Runs
<1>4. Kept
  BY <1>1, <1>2, NoneIsLocal, Silent DEF Kept, Saved, HasOrig
<1>5. Right
  BY <1>1, <1>2, NoneIsLocal, Silent DEF Right, OnDisk, Rebuildable
<1> QED
  BY <1>2, <1>3, <1>4, <1>5

(* A package that retreat took out of the project stays in the snapshot    *)
(* until lnpm.lock has it again, wherever a command stops, if nothing runs *)
(* beside a restore, which reads the snapshot before it has the database.  *)
THEOREM NothingIsForgotten ==
  ASSUME \A s \in Scenario : "restore" \in s.used => s.atonce <= 1
  PROVE  Spec => NothingForgotten
<1> DEFINE Stays == Has(snap) => Has(snap') \/ Has(lock')
<1>1. Base /\ Consistent /\ [Next]_vars => Stays
  <2> SUFFICES ASSUME Base, Consistent, [Next]_vars, Has(snap), ~Has(snap)', snap' # snap
               PROVE  Has(lock')
    BY DEF Has
  <2> USE Facts
  <2>1. PICK p \in Proc : Step(p)
    BY Steps DEF vars
  <2>2. CASE Removes(p)
    <3>1. stashLockForRestore(p)
      BY <2>2, UnlinkDoes, RemovesDo DEF Removes
    <3>2. snap' = Merged(proc[p].seen) /\ proc[p].seen \in LockFile /\ snap # None
      BY <3>1, StashDoes
    <3>3. Has(snap)'
      BY <3>2, Merging DEF Base, Typed, Has
    <3> QED
      BY <3>3
  <2>3. CASE Restores(p)
    <3>1. /\ proc[p].cmd = "restore" /\ proc[p].pc \in {"consume", "clean"} /\ lock' = lock
      BY <2>3, RunRestoreDoes, RestoresDo DEF Restores
    <3>2. Single
      BY <3>1 DEF Base, Typed, Placed, Command, Single
    <3>3. Has(lock)
      BY <3>1, <3>2 DEF Consistent, Seen, Is, Runs
    <3> QED
      BY <3>1, <3>3 DEF Has
  <2>4. CASE ~Removes(p) /\ ~Restores(p)
    <3>1. snap' = snap
      <4>1. CASE Comes(p) \/ Leaves(p)
        BY <4>1 DEF Comes, Leaves, Start, GetDB, GetDBFails, Exit, Stop, files
      <4>2. CASE Publishes(p) \/ Collects(p)
        BY <4>2, ForeignStep
      <4>3. CASE Adds(p) \/ Pulls(p)
        BY <4>3, ResolveDoes, LinkDoes, AddsDo, RunPullDoes, PullsDo DEF Adds, Pulls
      <4> QED
        BY <2>1, <2>4, <4>1, <4>2, <4>3 DEF Step
    <3> QED
      BY <3>1
  <2> QED
    BY <2>2, <2>3, <2>4
<1>2. Base /\ Consistent /\ [Next]_vars => [Stays]_vars
  BY <1>1
<1>3. Init => Consistent
  BY InitiallyIdle
<1> QED
  BY <1>2, <1>3, ConsistentKept, Basis, PTL DEF Spec, NothingForgotten

-----------------------------------------------------------------------------
(* The user's specifier.                                                   *)
LEMMA Reverting ==
  ASSUME NEW orig \in BOOLEAN, dep \in {"none", "user", "lnpm"}
  PROVE  /\ Reverted(orig) = "user" <=> (orig /\ dep # "none")
         /\ Reverted(orig) \in {"user", "none"}
  BY DEF Reverted

(* The specifier that an add or a restore writes over is in the lock file  *)
(* or in the snapshot.                                                     *)
LEMMA WrittenKept ==
  ASSUME Base, Consistent, Single, NEW p \in Proc, Written(p), Step(p)
  PROVE  Written(p)'
<1> USE Facts
<1> SUFFICES ASSUME proc'[p].pc = "dep", proc'[p].cmd \in Add
             PROVE  (Has(lock) /\ (dep = "user" => lock.orig))'
  BY DEF Written, Is
<1>0. proc'[p].cmd \in Local /\ proc'[p].cmd # None
  BY NoneIsLocal DEF Local
<1>1. CASE Comes(p) \/ Leaves(p)
  <2>1. CASE Start(p)
    BY <2>1, StartDoes
  <2>2. CASE GetDB(p)
    BY <2>2, Goes DEF GetDB, Pc, Base, Typed
  <2>3. CASE GetDBFails(p) /\ ~End(p)
    BY <2>3, GetDBFailsDoes
  <2>4. CASE End(p)
    BY <1>0, <2>4, Ends, Fresh DEF Base
  <2> QED
    BY <1>1, <2>1, <2>2, <2>3, <2>4 DEF Comes, Leaves, Exit, Stop
<1>2. CASE Publishes(p) \/ Collects(p)
  BY <1>0, <1>2, ForeignStep
<1>3. CASE Adds(p) \/ Pulls(p)
  <2>1. CASE End(p)
    BY <1>0, <2>1, Ends, Fresh DEF Base
  <2>2. CASE LockAdd(p)
    BY <2>2, AddsDo
  <2>3. CASE ~End(p) /\ ~LockAdd(p)
    <3>1. proc'[p].pc = "dep" => proc[p].cmd \notin Add
      BY <1>3, <2>3, ResolveDoes, LinkDoes, AddsDo, RunPullDoes, PullsDo DEF Adds, Pulls, Add
    <3>2. proc'[p].cmd = proc[p].cmd
      BY <1>3, <2>3, ResolveDoes, LinkDoes, AddsDo, RunPullDoes, PullsDo
      DEF Adds, Pulls, Turns, GoesOn
    <3> QED
      BY <3>1, <3>2
  <2> QED
    BY <2>1, <2>2, <2>3
<1>4. CASE Removes(p) \/ Restores(p)
  <2>1. proc[p].cmd \in {"remove", "retreat", "restore"}
    BY <1>4, UnlinkDoes, StashDoes, RemovesDo, RunRestoreDoes, RestoresDo DEF Removes, Restores
  <2>2. ~Start(p)
    <3>1. proc[p].cmd # None
      BY <2>1 DEF Command
    <3> QED
      BY <3>1 DEF Start
  <2> QED
    BY <1>0, <1>4, <2>1, <2>2, SameCommand DEF Step, Add
<1> QED
  BY <1>1, <1>2, <1>3, <1>4 DEF Step

(* A step that keeps the specifier, the lock entry and the snapshot.       *)
LEMMA SavedStill ==
  ASSUME Saved, UNCHANGED <<dep, lock, snap>>
  PROVE  Saved'
  BY DEF Saved, Has, HasOrig

LEMMA AddsSaved ==
  ASSUME Base, Consistent, Single, NEW p \in Proc, Adds(p) \/ Pulls(p),
         "add-pure" \notin scene.used, Saved, Saving(p)
  PROVE  Saved' /\ Saving(p)'
<1> USE Facts
<1>0. Seen(p)
  BY DEF Consistent
<1>1. ASSUME proc'[p].cmd \in Add \cup {"pull"}
      PROVE  Saving(p)'
  BY <1>1 DEF Saving, Runs, Add
<1>2. CASE End(p)
  <2>1. UNCHANGED <<dep, lock, snap>>
    BY <1>2, ResolveDoes, LinkDoes, AddsDo, RunPullDoes, PullsDo, Ends, Fresh DEF Adds, Pulls, Base
  <2> QED
    BY <1>2, <2>1, SavedStill, SeenEnds
<1>3. CASE (Resolve(p) \/ RunPull(p)) /\ ~End(p)
  BY <1>1, <1>3, ResolveDoes, RunPullDoes, SavedStill DEF Turns
<1>4. CASE Link(p) /\ ~End(p)
  <2>1. /\ GoesOn(p) /\ UNCHANGED <<dep, lock, snap>> /\ proc[p].pc = "link"
        /\ \/ proc[p].cmd \in Add /\ proc'[p].pc = "lock"
           \/ proc[p].cmd = "pull" /\ proc'[p].pc = "row"
           \/ proc[p].cmd = "restore" /\ proc'[p].pc = "dep"
    BY <1>4, LinkDoes
  <2>2. Saving(p)'
    BY <1>1, <2>1 DEF Saving, Is, Runs, GoesOn, Has, HasOrig
  <2> QED
    BY <2>1, <2>2, SavedStill
<1>5. CASE LockAdd(p)
  <2>1. /\ GoesOn(p) /\ proc[p].cmd \in Add /\ UNCHANGED <<dep, snap>> /\ Has(lock)'
        /\ (lock'.orig <=> (proc[p].cmd # "add-pure" /\ dep = "user") \/ HasOrig(lock))
    BY <1>5, AddsDo
  <2>2. proc[p].cmd # "add-pure"
    BY <2>1 DEF Base, Placed, Command, Add
  <2>3. Saved'
    BY <2>1, <2>2 DEF Saved, Has, HasOrig
  <2> QED
    BY <1>1, <2>1, <2>3 DEF GoesOn
<1>6. CASE writeLnpmReference(p)
  <2>1. /\ GoesOn(p) /\ dep' = "lnpm" /\ UNCHANGED <<lock, snap>> /\ proc[p].pc = "dep"
        /\ \/ proc[p].cmd = "restore" /\ proc'[p].pc = "lock"
           \/ proc[p].cmd \in Add /\ proc'[p].pc = "project"
    BY <1>6, AddsDo
  <2>2. Saved'
    BY <2>1 DEF Saved, Has, HasOrig
  <2>3. Saving(p)'
    BY <1>1, <2>1 DEF Saving, Is, Runs, GoesOn, Has, HasOrig
  <2> QED
    BY <2>2, <2>3
<1>7. CASE InsertProject(p) \/ InsertLink(p)
  <2>1. /\ GoesOn(p) /\ UNCHANGED <<dep, lock, snap>> /\ proc[p].cmd \in Add \cup {"restore"}
        /\ proc[p].pc \in {"project", "row"} /\ proc'[p].pc \in {"row", "clean", "exit"}
    BY <1>7, AddsDo
  <2>2. Saving(p)'
    BY <1>1, <2>1 DEF Saving, Is, Runs, GoesOn, Has, HasOrig
  <2> QED
    BY <2>1, <2>2, SavedStill
<1>8. CASE PullRow(p)
  BY <1>1, <1>8, PullsDo, SavedStill DEF GoesOn
<1>9. CASE PullLock(p)
  <2>1. /\ GoesOn(p) /\ proc[p].cmd = "pull" /\ proc[p].pc = "lock" /\ UNCHANGED <<dep, snap>>
        /\ Has(proc[p].seen) /\ Has(lock)' /\ lock'.orig = proc[p].seen.orig
    BY <1>9, PullsDo
  <2>2. proc[p].seen = lock
    BY <1>0, <2>1 DEF Seen, Is, Runs
  <2>3. Saved'
    BY <2>1, <2>2 DEF Saved, Has, HasOrig
  <2> QED
    BY <1>1, <2>1, <2>3 DEF GoesOn
<1> QED
  BY <1>2, <1>3, <1>4, <1>5, <1>6, <1>7, <1>8, <1>9 DEF Adds, Pulls

LEMMA RemovesSaved ==
  ASSUME Base, Consistent, Single, NEW p \in Proc, Removes(p), Saved, Saving(p)
  PROVE  Saved' /\ Saving(p)'
<1> USE Facts
<1>0. Seen(p) /\ lock \in LockFile /\ snap \in LockFile /\ dep \in {"none", "user", "lnpm"}
  BY DEF Consistent, Base, Typed
<1>1. CASE End(p)
  <2>1. UNCHANGED <<dep, lock, snap>>
    BY <1>1, UnlinkDoes, StashDoes, RemovesDo, Ends, Fresh DEF Removes, Base, GoesOn
  <2> QED
    BY <1>1, <2>1, SavedStill, SeenEnds
<1>2. CASE Unlink(p) /\ ~End(p)
  <2>1. proc'[p].cmd = "remove" /\ proc'[p].pc = "dep" /\ UNCHANGED <<dep, lock, snap>>
    BY <1>2, UnlinkDoes DEF Turns
  <2> QED
    BY <2>1, SavedStill DEF Saving, Is, Runs
<1>3. CASE RevertDep(p)
  <2>1. /\ GoesOn(p) /\ proc[p].cmd \in {"remove", "retreat"} /\ proc[p].pc = "dep"
        /\ proc'[p].pc = "row" /\ Has(proc[p].seen) /\ UNCHANGED <<lock, snap>>
        /\ \/ dep' = Reverted(proc[p].seen.orig)
           \/ proc[p].cmd = "retreat" /\ dep' = dep
    BY <1>3, RemovesDo
  <2>2. lock = proc[p].seen /\ Has(lock) /\ lock.orig \in BOOLEAN
    BY <1>0, <2>1 DEF Seen, Is, Runs, Has, Entry
  <2>3. \/ dep' = dep /\ proc[p].cmd = "retreat"
        \/ dep' \in {"user", "none"} /\ (dep' = "user" <=> lock.orig /\ dep # "none")
    BY <1>0, <2>1, <2>2, Reverting
  <2>4. Saved'
    BY <2>1, <2>2, <2>3 DEF Saved, Has, HasOrig
  <2>5. Saving(p)'
    BY <2>1, <2>2, <2>3 DEF Saved, Saving, Is, Runs, GoesOn, Has, HasOrig
  <2> QED
    BY <2>4, <2>5
<1>4. CASE DeleteLink(p) \/ RunRetreat(p) \/ Wipe(p)
  <2>1. /\ GoesOn(p) /\ UNCHANGED <<dep, lock, snap>>
        /\ \/ proc[p].cmd = "remove" /\ proc[p].pc = "row" /\ proc'[p].pc = "lock"
           \/ proc[p].cmd = "retreat" /\ proc'[p].pc \in {"wipe", "dep", "stash"}
    BY <1>4, RemovesDo
  <2>2. Saving(p)'
    BY <2>1 DEF Saving, Is, Runs, GoesOn, Has, HasOrig
  <2> QED
    BY <2>1, <2>2, SavedStill
<1>5. CASE LockRemove(p)
  <2>1. /\ GoesOn(p) /\ proc[p].cmd = "remove" /\ proc[p].pc = "lock" /\ proc'[p].pc = "exit"
        /\ ~Has(lock)' /\ UNCHANGED <<dep, snap>>
    BY <1>5, RemovesDo
  <2>2. Saved'
    BY <2>1 DEF Saved, Has, HasOrig
  <2>3. Saving(p)'
    BY <2>1 DEF Saving, Is, Runs, GoesOn
  <2> QED
    BY <2>2, <2>3
<1>6. CASE stashLockForRestore(p)
  <2>1. /\ GoesOn(p) /\ proc[p].pc = "stash" /\ proc[p].cmd = "retreat" /\ dep' = dep
        /\ proc[p].seen \in LockFile
        /\ \/ /\ proc'[p].pc = "exit" /\ snap' = lock /\ lock' = None
           \/ /\ proc'[p].pc = "unstash" /\ snap' = Merged(proc[p].seen) /\ lock' = lock
           \/ /\ proc'[p].pc = "exit" /\ lock' = lock /\ snap' = snap
    BY <1>6, StashDoes
  <2>2. proc[p].seen = lock
    BY <1>0, <2>1 DEF Seen, Is, Runs
  <2>3. CASE proc'[p].pc = "exit"
    <3>1. Saved'
      BY <2>1, <2>3 DEF Saved, Has, HasOrig
    <3>2. Saving(p)'
      BY <2>1, <2>3 DEF Saving, Is, Runs, GoesOn
    <3> QED
      BY <3>1, <3>2
  <2>4. CASE proc'[p].pc = "unstash"
    <3>1. /\ snap' = Merged(lock) /\ lock' = lock
          /\ Has(lock) => /\ Has(Merged(lock))
                          /\ (Merged(lock).orig <=> lock.orig \/ HasOrig(snap))
          /\ ~Has(lock) => Merged(lock) = snap
      BY <1>0, <2>1, <2>2, <2>4, Merging
    <3>2. Saved'
      BY <2>1, <3>1 DEF Saved, Has, HasOrig
    <3>3. HasOrig(lock)' => HasOrig(snap)'
      BY <3>1 DEF Has, HasOrig
    <3>4. Saving(p)'
      BY <2>1, <2>4, <3>3 DEF Saving, Is, Runs, GoesOn
    <3> QED
      BY <3>2, <3>4
  <2> QED
    BY <2>1, <2>3, <2>4
<1>7. CASE Unstash(p)
  <2>1. /\ GoesOn(p) /\ proc[p].cmd = "retreat" /\ proc'[p].pc = "exit"
        /\ UNCHANGED <<dep, snap>> /\ lock' \in {None, lock}
    BY <1>7, RemovesDo
  <2>2. Saved'
    BY <2>1 DEF Saved, Has, HasOrig
  <2>3. Saving(p)'
    BY <2>1 DEF Saving, Is, Runs, GoesOn
  <2> QED
    BY <2>2, <2>3
<1> QED
  BY <1>1, <1>2, <1>3, <1>4, <1>5, <1>6, <1>7 DEF Removes

LEMMA RestoresSaved ==
  ASSUME Base, Consistent, Single, NEW p \in Proc, Restores(p), Saved, Saving(p)
  PROVE  Saved' /\ Saving(p)'
<1> USE Facts
<1>0. Seen(p) /\ lock \in LockFile /\ snap \in LockFile /\ dep \in {"none", "user", "lnpm"}
  BY DEF Consistent, Base, Typed
<1>1. CASE RunRestore(p)
  <2>1. /\ proc'[p].cmd = "restore" /\ proc[p].cmd = "restore" /\ proc[p].pc = "start"
        /\ Has(proc[p].seen) /\ UNCHANGED <<dep, lock, snap>>
        /\ \/ proc'[p].pc = "consume" /\ proc'[p].opts = {"kept"}
           \/ /\ proc'[p].pc \in {"link", "failed"}
              /\ (proc'[p].orig <=> dep = "user" \/ proc[p].seen.orig)
    BY <1>1, RunRestoreDoes
  <2>2. proc[p].seen = snap
    BY <1>0, <2>1 DEF Seen, Is, Runs
  <2>3. Saving(p)'
    BY <2>1, <2>2 DEF Saved, Saving, Is, Runs, Has, HasOrig
  <2> QED
    BY <2>1, <2>3, SavedStill
<1>2. CASE LockRestore(p)
  <2>1. /\ GoesOn(p) /\ proc[p].cmd = "restore" /\ proc[p].pc = "lock" /\ proc'[p].pc = "consume"
        /\ UNCHANGED <<dep, snap>> /\ Has(lock)' /\ lock'.orig = proc[p].orig
    BY <1>2, RestoresDo
  <2>2. dep = "lnpm" /\ (proc[p].orig <=> HasOrig(snap))
    BY <2>1 DEF Saving, Is, Runs
  <2>3. Saved'
    BY <2>1, <2>2 DEF Saved, Has, HasOrig
  <2>4. Saving(p)'
    BY <2>1, <2>2 DEF Saving, Is, Runs, GoesOn, Has, HasOrig
  <2> QED
    BY <2>3, <2>4
<1>3. CASE consumeSnapshotEntry(p) \/ Clean(p)
  <2>1. /\ GoesOn(p) /\ proc[p].cmd = "restore" /\ proc[p].pc \in {"consume", "clean"}
        /\ proc'[p].pc \in {"clean", "project", "exit"} /\ UNCHANGED <<dep, lock>>
        /\ snap' \in {None, Blank, snap}
    BY <1>3, RestoresDo
  <2>2. Saved'
    BY <2>1 DEF Saved, Has, HasOrig
  <2>3. Saving(p)'
    BY <2>1 DEF Saving, Is, Runs, GoesOn, Has, HasOrig
  <2> QED
    BY <2>2, <2>3
<1>4. CASE RecordFails(p)
  <2>1. GoesOn(p) /\ proc'[p].pc = "failed" /\ UNCHANGED <<dep, lock, snap>>
    BY <1>4, RestoresDo
  <2> QED
    BY <2>1, SavedStill DEF Saving, Is, Runs, GoesOn
<1> QED
  BY <1>1, <1>2, <1>3, <1>4 DEF Restores

LEMMA ComesSaved ==
  ASSUME Base, NEW p \in Proc, Comes(p) \/ Leaves(p), Saved
  PROVE  Saved' /\ Saving(p)'
<1> USE Facts
<1>1. UNCHANGED <<dep, lock, snap>>
  BY DEF Comes, Leaves, Start, GetDB, GetDBFails, Exit, Stop, files
<1>2. Saving(p)'
  <2>1. CASE End(p)
    BY <2>1, SeenEnds
  <2>2. CASE Start(p)
    <3>1. /\ proc'[p].pc \in {"exit", "clean", "open"} /\ snap' = snap
          /\ proc'[p].pc = "clean" /\ proc'[p].cmd = "restore" => snap = Blank
      BY <2>2, StartDoes
    <3> QED
      BY <3>1 DEF Saving, Is, Runs, Has, HasOrig
  <2>3. CASE ~End(p) /\ (GetDB(p) \/ GetDBFails(p))
    <3>1. proc'[p].pc = "start"
      BY <2>3, GetDBFailsDoes, Goes DEF GetDB, Pc, Base, Typed
    <3> QED
      BY <3>1 DEF Saving, Is
  <2> QED
    BY <2>1, <2>2, <2>3 DEF Comes, Leaves, Exit, Stop
<1> QED
  BY <1>1, <1>2, SavedStill

LEMMA KeptKept == Base /\ Consistent /\ Kept /\ [Next]_vars => Kept'
<1> SUFFICES ASSUME Base, Consistent, Kept, [Next]_vars PROVE Kept'
  OBVIOUS
<1>1. CASE UNCHANGED vars
  <2>1. UNCHANGED <<scene, dep, lock, snap, proc>>
    BY <1>1 DEF vars
  <2> QED
    BY <2>1 DEF Kept, Single, Reversible, Saved, Saving, Written, Is, Runs, Has, HasOrig
<1>2. ASSUME NEW p \in Proc, UNCHANGED scene, Step(p)
      PROVE  Kept'
  <2> SUFFICES ASSUME Single
               PROVE  /\ \A q \in Proc : Written(q)'
                      /\ Reversible => Saved' /\ \A q \in Proc : Saving(q)'
    BY <1>2 DEF Kept, Single, Reversible
  <2>1. \A q \in Proc \ {p} : Written(q)' /\ Saving(q)'
    BY <1>2, NobodyElse, NoneIsLocal, SilentNext DEF Consistent
  <2>2. Written(p)'
    BY <1>2, WrittenKept DEF Kept
  <2>3. ASSUME Reversible
        PROVE  Saved' /\ Saving(p)'
    <3>1. Saved /\ Saving(p) /\ "add-pure" \notin scene.used
      BY <2>3 DEF Kept, Reversible
    <3>2. CASE Publishes(p) \/ Collects(p)
      BY <3>1, <3>2, ForeignStep, SilentNext, SavedStill
    <3> QED
      BY <1>2, <3>1, <3>2, AddsSaved, RemovesSaved, RestoresSaved, ComesSaved DEF Step
  <2> QED
    BY <2>1, <2>2, <2>3
<1> QED
  BY <1>1, <1>2, Steps

-----------------------------------------------------------------------------
(* The user's specifier, where commands run beside each other.             *)

(* What a step does to the files, to what its command has read and to what *)
(* it is about to write.                                                   *)
LEMMA Touches ==
  ASSUME Base, Watched(scene), NEW p \in Proc, Step(p)
  PROVE  /\ Reads(p)' => proc'[p].seen = lock \/ (Reads(p) /\ proc'[p].seen = proc[p].seen)
         /\ \/ LockAdd(p) \/ PullLock(p) \/ RevertDep(p) \/ LockRemove(p)
            \/ stashLockForRestore(p) \/ Unstash(p)
            \/ writeLnpmReference(p) /\ proc[p].cmd \in Add
            \/ /\ UNCHANGED <<dep, lock, snap>>
               /\ ~(proc'[p].pc = "unstash" /\ proc'[p].cmd = "retreat")
               /\ proc'[p].pc = "dep" => proc'[p].cmd \notin Add
               /\ proc'[p].pc \in {"row", "lock"} /\ proc'[p].cmd = "remove" =>
                     proc[p].pc \in {"row", "lock"} /\ proc[p].cmd = "remove"
<1> DEFINE Read == Reads(p)' => proc'[p].seen = lock \/ (Reads(p) /\ proc'[p].seen = proc[p].seen)
<1> USE Facts
<1>0. proc[p].cmd # "restore"
  BY DEF Watched, Base, Placed, Command
<1>1. CASE End(p)
  <2>1. proc'[p].cmd \notin Local /\ proc'[p].pc = "idle"
    BY <1>1, Ends, Fresh, NoneIsLocal DEF Base
  <2>2. Read
    BY <2>1 DEF Reads, Runs, Is, Local
  <2>3. UNCHANGED <<dep, lock, snap>>
    <3>1. proc'[p].pc = "idle" => ~LockAdd(p) /\ ~PullLock(p) /\ ~RevertDep(p) /\ ~LockRemove(p)
                     /\ ~stashLockForRestore(p) /\ ~Unstash(p) /\ ~writeLnpmReference(p)
                     /\ ~LockRestore(p) /\ ~consumeSnapshotEntry(p) /\ ~Clean(p)
      BY AddsDo, PullsDo, RemovesDo, StashDoes, RestoresDo
    <3>2. CASE Comes(p) \/ Leaves(p)
      BY <3>2, StartDoes, GetDBFailsDoes DEF Comes, Leaves, GetDB, Exit, Stop, files
    <3>3. CASE Publishes(p) \/ Collects(p)
      BY <3>3, ForeignStep
    <3>4. CASE Adds(p) \/ Pulls(p)
      BY <2>1, <3>1, <3>4, ResolveDoes, LinkDoes, AddsDo, RunPullDoes, PullsDo DEF Adds, Pulls
    <3>5. CASE Removes(p) \/ Restores(p)
      BY <2>1, <3>1, <3>5, UnlinkDoes, RemovesDo, RunRestoreDoes, RestoresDo DEF Removes, Restores
    <3> QED
      BY <3>2, <3>3, <3>4, <3>5 DEF Step
  <2> QED
    BY <2>1, <2>2, <2>3
<1>2. CASE (Comes(p) \/ Leaves(p)) /\ ~End(p)
  <2>1. CASE Start(p)
    <3>1. /\ UNCHANGED <<dep, lock, snap>> /\ proc'[p].pc \in {"exit", "clean", "open"}
          /\ proc'[p].cmd = "retreat" => proc'[p].seen = lock
      BY <2>1, StartDoes
    <3> QED
      BY <3>1 DEF Reads, Runs, Is
  <2>2. CASE GetDB(p)
    <3>1. GoesOn(p) /\ proc'[p].pc = "start" /\ UNCHANGED <<dep, lock, snap>>
      BY <2>2, Goes DEF GetDB, files, Pc, Base, Typed
    <3> QED
      BY <3>1 DEF Reads, Runs, Is, GoesOn
  <2>3. CASE GetDBFails(p)
    <3>1. /\ UNCHANGED <<dep, lock, snap>> /\ proc'[p].cmd = "retreat" /\ proc[p].cmd = "retreat"
          /\ proc'[p].pc = "start" /\ proc'[p].seen = proc[p].seen
      BY <1>2, <2>3, GetDBFailsDoes DEF Turns
    <3> QED
      BY <3>1 DEF Reads, Runs
  <2> QED
    BY <1>2, <2>1, <2>2, <2>3 DEF Comes, Leaves, Exit, Stop
<1>3. CASE Publishes(p) \/ Collects(p)
  <2>1. proc'[p].cmd \notin Local /\ UNCHANGED <<dep, lock, snap>>
    BY <1>3, ForeignStep
  <2> QED
    BY <2>1 DEF Reads, Runs, Local
<1>4. CASE (Adds(p) \/ Pulls(p)) /\ ~End(p)
  <2>1. CASE LockAdd(p) \/ (writeLnpmReference(p) /\ proc[p].cmd \in Add)
    <3>1. proc'[p].cmd \in Add
      BY <2>1, AddsDo DEF GoesOn
    <3> QED
      BY <2>1, <3>1 DEF Reads, Runs, Add
  <2>2. CASE PullLock(p)
    <3>1. proc'[p].cmd = "pull" /\ proc'[p].pc \in {"exit", "failed"}
      BY <2>2, PullsDo DEF GoesOn
    <3> QED
      BY <2>2, <3>1 DEF Reads, Runs, Is
  <2>3. CASE Resolve(p) \/ InsertProject(p) \/ InsertLink(p)
    <3>1. /\ proc'[p].cmd \in Add /\ UNCHANGED <<dep, lock, snap>>
          /\ proc'[p].pc \in {"link", "row", "exit", "clean"}
      BY <1>0, <1>4, <2>3, ResolveDoes, AddsDo DEF GoesOn, Turns
    <3> QED
      BY <3>1 DEF Reads, Runs, Add
  <2>4. CASE Link(p)
    <3>1. /\ GoesOn(p) /\ UNCHANGED <<dep, lock, snap>> /\ proc[p].pc = "link"
          /\ \/ proc[p].cmd \in Add /\ proc'[p].pc = "lock"
             \/ proc[p].cmd = "pull" /\ proc'[p].pc = "row"
      BY <1>0, <1>4, <2>4, LinkDoes
    <3> QED
      BY <3>1 DEF Reads, Runs, Is, GoesOn, Add
  <2>5. CASE RunPull(p)
    <3>1. /\ proc'[p].cmd = "pull" /\ UNCHANGED <<dep, lock, snap>> /\ proc'[p].seen = lock
          /\ proc'[p].pc \in {"exit", "failed", "link"}
      BY <1>4, <2>5, RunPullDoes DEF Turns
    <3> QED
      BY <3>1 DEF Add
  <2>6. CASE PullRow(p)
    <3>1. /\ GoesOn(p) /\ proc[p].cmd = "pull" /\ proc[p].pc = "row" /\ proc'[p].pc = "lock"
          /\ UNCHANGED <<dep, lock, snap>>
      BY <2>6, PullsDo
    <3> QED
      BY <3>1 DEF Reads, Runs, Is, GoesOn
  <2> QED
    BY <1>0, <1>4, <2>1, <2>2, <2>3, <2>4, <2>5, <2>6, AddsDo DEF Adds, Pulls
<1>5. CASE (Removes(p) \/ Restores(p)) /\ ~End(p)
  <2>1. Removes(p)
    BY <1>0, <1>5, RunRestoreDoes, RestoresDo DEF Restores
  <2>2. CASE Unlink(p)
    <3>1. /\ proc'[p].cmd = "remove" /\ UNCHANGED <<dep, lock, snap>> /\ proc'[p].seen = lock
          /\ proc'[p].pc = "dep"
      BY <1>5, <2>2, UnlinkDoes DEF Turns
    <3> QED
      BY <3>1 DEF Add
  <2>3. CASE RevertDep(p)
    <3>1. GoesOn(p) /\ proc'[p].pc = "row"
      BY <2>3, RemovesDo
    <3> QED
      BY <2>3, <3>1, RemovesDo DEF Reads, Runs, Is, GoesOn
  <2>4. CASE DeleteLink(p)
    <3>1. /\ GoesOn(p) /\ proc[p].pc = "row" /\ UNCHANGED <<dep, lock, snap>>
          /\ \/ proc[p].cmd = "remove" /\ proc'[p].pc = "lock"
             \/ proc[p].cmd = "retreat" /\ proc'[p].pc = "wipe"
      BY <2>4, RemovesDo
    <3> QED
      BY <3>1 DEF Reads, Runs, Is, GoesOn
  <2>5. CASE LockRemove(p)
    <3>1. GoesOn(p) /\ proc[p].cmd = "remove" /\ proc'[p].pc = "exit"
      BY <2>5, RemovesDo
    <3> QED
      BY <2>5, <3>1 DEF Reads, Runs, Is, GoesOn
  <2>6. CASE RunRetreat(p) \/ Wipe(p)
    <3>1. /\ GoesOn(p) /\ proc[p].cmd = "retreat" /\ proc'[p].pc \in {"dep", "wipe", "stash"}
          /\ UNCHANGED <<dep, lock, snap>>
      BY <2>6, RemovesDo
    <3> QED
      BY <3>1 DEF Reads, Runs, GoesOn, Add
  <2>7. CASE stashLockForRestore(p) \/ Unstash(p)
    <3>1. GoesOn(p) /\ proc[p].cmd = "retreat"
      BY <2>7, StashDoes, RemovesDo
    <3> QED
      BY <2>7, <3>1 DEF Reads, Runs, GoesOn
  <2> QED
    BY <2>1, <2>2, <2>3, <2>4, <2>5, <2>6, <2>7 DEF Removes
<1> QED
  BY <1>1, <1>2, <1>3, <1>4, <1>5 DEF Step


LEMMA UnsaidStays ==
  ASSUME Base, Watched(scene), Unsaid, NEW p \in Proc, Step(p)
  PROVE  Unsaid'
<1> USE Facts
<1>0. /\ lock \in LockFile /\ snap \in LockFile /\ dep \in {"none", "user", "lnpm"}
      /\ proc[p].seen \in LockFile /\ (Has(proc[p].seen) => proc[p].seen.orig \in BOOLEAN)
  BY DEF Base, Typed, Process, Has, Entry
<1>1. \A q \in Proc \ {p} : (Reads(q) => ~HasOrig(proc[q].seen))'
  BY StepRests DEF Unsaid, Rest, Reads, Runs, Is
<1>2. (Reads(p) => ~HasOrig(proc[p].seen))'
  BY Touches DEF Unsaid, HasOrig, Has
<1>3. dep' # "user" /\ ~HasOrig(lock)' /\ ~HasOrig(snap)'
  <2>1. CASE UNCHANGED <<dep, lock, snap>>
    BY <2>1 DEF Unsaid, HasOrig, Has
  <2>2. CASE LockAdd(p)
    BY <2>2, AddsDo DEF Unsaid, HasOrig, Has
  <2>3. CASE writeLnpmReference(p)
    BY <2>3, AddsDo DEF Unsaid, HasOrig, Has
  <2>4. CASE PullLock(p)
    <3>1. /\ proc[p].cmd = "pull" /\ proc[p].pc = "lock" /\ UNCHANGED <<dep, snap>>
          /\ Has(proc[p].seen) /\ lock'.orig = proc[p].seen.orig
      BY <2>4, PullsDo
    <3>2. ~HasOrig(proc[p].seen)
      BY <3>1 DEF Unsaid, Reads, Runs, Is
    <3> QED
      BY <3>1, <3>2 DEF Unsaid, HasOrig, Has
  <2>5. CASE RevertDep(p)
    <3>1. /\ proc[p].cmd \in {"remove", "retreat"} /\ proc[p].pc = "dep" /\ Has(proc[p].seen)
          /\ UNCHANGED <<lock, snap>> /\ (dep' = Reverted(proc[p].seen.orig) \/ dep' = dep)
      BY <2>5, RemovesDo
    <3>2. ~HasOrig(proc[p].seen)
      BY <3>1 DEF Unsaid, Reads, Runs, Is
    <3> QED
      BY <1>0, <3>1, <3>2, Reverting DEF Unsaid, HasOrig, Has
  <2>6. CASE LockRemove(p) \/ Unstash(p)
    BY <2>6, RemovesDo DEF Unsaid, HasOrig, Has
  <2>7. CASE stashLockForRestore(p)
    <3>1. /\ proc[p].cmd = "retreat" /\ dep' = dep /\ lock' \in {lock, None}
          /\ snap' \in {lock, Merged(proc[p].seen), snap}
      BY <2>7, StashDoes
    <3>2. ~HasOrig(proc[p].seen)
      BY <3>1 DEF Unsaid, Reads, Runs
    <3>3. ~HasOrig(Merged(proc[p].seen))
      BY <1>0, <3>2, Merging DEF Unsaid, HasOrig
    <3> QED
      BY <3>1, <3>3 DEF Unsaid, HasOrig, Has
  <2> QED
    BY <2>1, <2>2, <2>3, <2>4, <2>5, <2>6, <2>7, Touches
<1> QED
  BY <1>1, <1>2, <1>3 DEF Unsaid

(* Nothing but a restore takes an entry out of the snapshot.               *)
LEMMA SnapshotStays ==
  ASSUME Base, Watched(scene), HasOrig(snap), NEW p \in Proc, Step(p)
  PROVE  HasOrig(snap)'
<1> USE Facts
<1>1. CASE stashLockForRestore(p)
  <2>1. /\ proc[p].seen \in LockFile /\ snap \in LockFile
        /\ \/ snap = None
           \/ snap' = Merged(proc[p].seen)
           \/ snap' = snap
    BY <1>1, StashDoes DEF Base, Typed
  <2>2. HasOrig(Merged(proc[p].seen))
    BY <2>1, Merging DEF HasOrig
  <2> QED
    BY <2>1, <2>2 DEF HasOrig, Has
<1>2. CASE ~stashLockForRestore(p)
  <2>1. snap' = snap
    BY <1>2, Touches, AddsDo, PullsDo, RemovesDo
  <2> QED
    BY <2>1 DEF HasOrig, Has
<1> QED
  BY <1>1, <1>2

(* Who has the database is alone with it between two steps of an add or a  *)
(* remove.                                                                 *)
LEMMA Unshared ==
  ASSUME Base, NEW p \in Proc, NEW q \in Proc, q # p,
         proc[p].cmd \in Add \cup {"remove"}, proc[p].pc \in {"dep", "row", "lock"}
  PROVE  ~(proc[q].cmd \in Add \cup {"remove"} /\ proc[q].pc \in {"dep", "row", "lock"})
<1>1. \A r \in Proc : proc[r].cmd \in Add \cup {"remove"} /\ proc[r].pc \in {"dep", "row", "lock"}
                         => Busy(r)
  BY DEF Base, Placed, Busy, Runs, Is, Add
<1>2. holder = p
  BY <1>1 DEF Base, Holding
<1> QED
  BY <1>1, <1>2, OnlyHolder

LEMMA SaidStays ==
  ASSUME Base, Watched(scene), Said, NEW p \in Proc, Step(p)
  PROVE  HasOrig(snap)' \/ Said'
<1> USE Facts
<1>0. /\ lock \in LockFile /\ dep \in {"user", "lnpm"} /\ snap = None /\ Carries(p)
      /\ \A q \in Proc \ {p} : Carries(q) /\ proc'[q] = proc[q]
      /\ lock = None \/ HasOrig(lock)
  BY StepRests DEF Said, Base, Typed, Rest
<1>1. (Reads(p) /\ Has(proc[p].seen) => HasOrig(proc[p].seen))'
  BY <1>0, Touches DEF Carries, HasOrig, Has
<1>2. ASSUME NEW q \in Proc \ {p}, Has(lock) => Has(lock)', dep' = dep \/ dep' = "user"
      PROVE  Carries(q)'
  BY <1>0, <1>2 DEF Carries, Reads, Runs, Is, HasOrig, Has
<1>3. CASE /\ UNCHANGED <<dep, lock, snap>>
           /\ ~(proc'[p].pc = "unstash" /\ proc'[p].cmd = "retreat")
           /\ proc'[p].pc = "dep" => proc'[p].cmd \notin Add
           /\ proc'[p].pc \in {"row", "lock"} /\ proc'[p].cmd = "remove" =>
                 proc[p].pc \in {"row", "lock"} /\ proc[p].cmd = "remove"
  <2>1. Carries(p)'
    BY <1>0, <1>1, <1>3 DEF Carries, Runs, Is
  <2>2. \A q \in Proc \ {p} : Carries(q)'
    BY <1>2, <1>3 DEF Has
  <2> QED
    BY <1>3, <2>1, <2>2 DEF Said, HasOrig, Has
<1>4. CASE LockAdd(p)
  <2>1. /\ GoesOn(p) /\ proc[p].cmd \in Add /\ UNCHANGED <<dep, snap>> /\ Has(lock)'
        /\ (lock'.orig <=> (proc[p].cmd # "add-pure" /\ dep = "user") \/ HasOrig(lock))
    BY <1>4, AddsDo
  <2>2. proc[p].cmd # "add-pure"
    BY <2>1 DEF Watched, Base, Placed, Command, Add
  <2>3. HasOrig(lock)'
    BY <1>0, <2>1, <2>2 DEF Said, HasOrig, Has
  <2>4. Carries(p)'
    BY <1>1, <2>1 DEF Carries, Runs, Is, GoesOn, Add
  <2>5. \A q \in Proc \ {p} : Carries(q)'
    BY <1>2, <2>1
  <2> QED
    BY <1>0, <2>1, <2>3, <2>4, <2>5 DEF Said
<1>5. CASE writeLnpmReference(p) /\ proc[p].cmd \in Add
  <2>1. /\ GoesOn(p) /\ proc[p].pc = "dep" /\ proc'[p].pc = "project" /\ dep' = "lnpm"
        /\ UNCHANGED <<lock, snap>> /\ proc[p].cmd # "restore"
    BY <1>0, <1>5, AddsDo DEF Add
  <2>2. HasOrig(lock)
    BY <1>0, <1>5, <2>1 DEF Carries, Is
  <2>3. Carries(p)'
    BY <1>1, <2>1 DEF Carries, Is
  <2>4. ASSUME NEW q \in Proc \ {p}
        PROVE  Carries(q)'
    <3>1. ~(proc[q].cmd = "remove" /\ proc[q].pc \in {"row", "lock"})
      BY <1>5, <2>1, Unshared
    <3> QED
      BY <1>0, <2>1, <3>1 DEF Carries, Reads, Runs, Is, HasOrig, Has
  <2> QED
    BY <1>0, <2>1, <2>2, <2>3, <2>4 DEF Said, HasOrig, Has
<1>6. CASE PullLock(p)
  <2>1. /\ proc[p].cmd = "pull" /\ proc[p].pc = "lock" /\ UNCHANGED <<dep, snap>> /\ GoesOn(p)
        /\ Has(proc[p].seen) /\ Has(lock)' /\ lock'.orig = proc[p].seen.orig
    BY <1>6, PullsDo
  <2>2. HasOrig(lock)'
    BY <1>0, <2>1 DEF Carries, Reads, Runs, Is, HasOrig
  <2>3. Carries(p)'
    BY <1>1, <2>1 DEF Carries, Runs, Is, GoesOn, Add
  <2>4. \A q \in Proc \ {p} : Carries(q)'
    BY <1>2, <2>1
  <2> QED
    BY <1>0, <2>1, <2>2, <2>3, <2>4 DEF Said, HasOrig
<1>7. CASE RevertDep(p)
  <2>1. /\ GoesOn(p) /\ proc[p].cmd \in {"remove", "retreat"} /\ proc[p].pc = "dep"
        /\ proc'[p].pc = "row" /\ Has(proc[p].seen) /\ UNCHANGED <<lock, snap>>
        /\ \/ dep' = Reverted(proc[p].seen.orig)
           \/ proc[p].cmd = "retreat" /\ dep' = dep
    BY <1>7, RemovesDo
  <2>2. HasOrig(proc[p].seen)
    BY <1>0, <2>1 DEF Carries, Reads, Runs, Is
  <2>3. proc[p].seen.orig \in BOOLEAN
    BY <2>2 DEF HasOrig, Has, Entry
  <2>4. dep' = "user" \/ (proc[p].cmd = "retreat" /\ dep' = dep)
    BY <1>0, <2>1, <2>2, <2>3, Reverting DEF HasOrig
  <2>5. Carries(p)'
    BY <1>1, <2>1, <2>4 DEF Carries, Runs, Is, GoesOn
  <2>6. \A q \in Proc \ {p} : Carries(q)'
    BY <1>2, <2>1, <2>4 DEF Has
  <2> QED
    BY <1>0, <2>1, <2>4, <2>5, <2>6 DEF Said, HasOrig, Has
<1>8. CASE LockRemove(p)
  <2>1. /\ proc[p].cmd = "remove" /\ proc[p].pc = "lock" /\ proc'[p].pc = "exit"
        /\ UNCHANGED <<dep, snap>>
    BY <1>8, RemovesDo
  <2>2. "remove" \in scene.used
    BY <2>1 DEF Base, Placed, Command
  <2>3. lock' = None
    BY <1>8, <2>2 DEF LockRemove, Watched, Faults
  <2>4. dep = "user"
    BY <1>0, <2>1 DEF Carries, Runs, Is
  <2>5. Carries(p)'
    BY <1>1, <2>1 DEF Carries, Is
  <2>6. ASSUME NEW q \in Proc \ {p}
        PROVE  Carries(q)'
    <3>1. ~(proc[q].cmd \in Add /\ proc[q].pc = "dep")
      BY <2>1, Unshared
    <3> QED
      BY <1>0, <2>1, <2>4, <3>1 DEF Carries, Reads, Runs, Is, HasOrig, Has
  <2> QED
    BY <1>0, <2>1, <2>3, <2>4, <2>5, <2>6 DEF Said
<1>9. CASE stashLockForRestore(p)
  <2>1. /\ GoesOn(p) /\ proc[p].cmd = "retreat" /\ proc'[p].pc = "exit" /\ dep' = dep
        /\ \/ lock # None /\ snap' = lock
           \/ lock' = lock /\ snap' = snap
    BY <1>0, <1>9, StashDoes
  <2>2. CASE lock # None /\ snap' = lock
    BY <1>0, <2>2 DEF HasOrig, Has
  <2>3. CASE lock' = lock /\ snap' = snap
    <3>1. Carries(p)'
      BY <1>1, <2>1 DEF Carries, Is
    <3>2. \A q \in Proc \ {p} : Carries(q)'
      BY <1>2, <2>1, <2>3 DEF Has
    <3> QED
      BY <2>1, <2>3, <3>1, <3>2 DEF Said, HasOrig, Has
  <2> QED
    BY <2>1, <2>2, <2>3
<1>10. CASE Unstash(p)
  BY <1>0, <1>10, RemovesDo DEF Carries, Runs, Is
<1> QED
  BY <1>3, <1>4, <1>5, <1>6, <1>7, <1>8, <1>9, <1>10, Touches

LEMMA TrackedKept == Base /\ Tracked /\ [Next]_vars => Tracked'
<1> SUFFICES ASSUME Base, Tracked, [Next]_vars, Watched(scene)' PROVE (Unsaid \/ HasOrig(snap) \/ Said)'
  BY DEF Tracked
<1>1. CASE UNCHANGED vars
  <2>1. UNCHANGED <<scene, dep, lock, snap, proc>>
    BY <1>1 DEF vars
  <2> QED
    BY <2>1 DEF Tracked, Watched, Unsaid, Said, Carries, Reads, Is, Runs, Has, HasOrig
<1>2. ASSUME NEW p \in Proc, UNCHANGED scene, Step(p)
      PROVE  (Unsaid \/ HasOrig(snap) \/ Said)'
  <2>1. Watched(scene)
    BY <1>2 DEF Watched
  <2> QED
    BY <1>2, <2>1, UnsaidStays, SnapshotStays, SaidStays DEF Tracked
<1> QED
  BY <1>1, <1>2, Steps

LEMMA InitiallyTracked ==
  ASSUME Init
  PROVE  Tracked
<1> USE Facts
<1>1. /\ lock = None /\ snap = None /\ dep \in {"none", "user"}
      /\ \A q \in Proc : proc[q].cmd = None
  BY InitiallyIdle DEF Init
<1>2. \A q \in Proc : ~Reads(q) /\ Carries(q)
  BY <1>1 DEF Reads, Carries, Runs, Add, Command
<1> QED
  BY <1>1, <1>2 DEF Tracked, Unsaid, Said, HasOrig

-----------------------------------------------------------------------------
(* A restore lets a package go that was added again since the retreat.     *)
LetsGo == \E p \in Proc : proc[p].cmd = "restore" /\ "kept" \in proc[p].opts /\ lock' = lock

Additive(s) == "add-pure" \in s.used => s.used \cap {"remove", "retreat", "restore"} = {}

LEMMA KnownAlone ==
  ASSUME Base, Consistent, Kept, [Next]_vars, Single, Additive(scene), Known, ~LetsGo
  PROVE  Known'
<1> USE Facts
<1>0. /\ Single /\ lock \in LockFile /\ snap \in LockFile /\ dep \in {"none", "user", "lnpm"}
      /\ \A q \in Proc : Seen(q) /\ Written(q)
      /\ "add-pure" \notin scene.used =>
            Saved /\ \A q \in Proc : Saving(q)
  BY DEF Single, Base, Typed, Consistent, Kept, Reversible
<1>1. CASE UNCHANGED <<dep, lock, snap>>
  BY <1>1 DEF Known, Has, HasOrig
<1>2. ASSUME NEW p \in Proc, Step(p)
      PROVE  Known'
  <2>0. Seen(p) /\ Written(p)
    BY <1>0
  <2>1. CASE Comes(p) \/ Leaves(p)
    BY <1>1, <2>1 DEF Comes, Leaves, Start, GetDB, GetDBFails, Exit, Stop, files
  <2>2. CASE Publishes(p) \/ Collects(p)
    BY <1>1, <2>2, ForeignStep
  <2>3. CASE Adds(p) \/ Pulls(p)
    <3>1. CASE LockAdd(p)
      BY <3>1, AddsDo DEF Known, Has, HasOrig
    <3>2. CASE writeLnpmReference(p) /\ proc[p].cmd \in Add
      <4>1. proc[p].pc = "dep" /\ UNCHANGED <<lock, snap>>
        BY <3>2, AddsDo
      <4>2. Has(lock) /\ (dep = "user" => lock.orig)
        BY <2>0, <3>2, <4>1 DEF Written, Is
      <4> QED
        BY <4>1, <4>2 DEF Known, Has, HasOrig
    <3>3. CASE writeLnpmReference(p) /\ proc[p].cmd \notin Add
      <4>1. proc[p].pc = "dep" /\ UNCHANGED <<lock, snap>> /\ proc[p].cmd = "restore"
        BY <3>3, AddsDo
      <4>2. "add-pure" \notin scene.used
        BY <4>1 DEF Additive, Base, Typed, Placed, Command
      <4>3. Has(snap)
        BY <2>0, <4>1 DEF Seen, Is, Runs
      <4> QED
        BY <1>0, <4>1, <4>2, <4>3 DEF Known, Saved, Has, HasOrig
    <3>4. CASE PullLock(p)
      <4>1. /\ proc[p].cmd = "pull" /\ proc[p].pc = "lock" /\ UNCHANGED <<dep, snap>>
            /\ Has(lock)' /\ lock'.orig = proc[p].seen.orig
        BY <3>4, PullsDo
      <4>2. proc[p].seen = lock
        BY <2>0, <4>1 DEF Seen, Is, Runs
      <4> QED
        BY <4>1, <4>2 DEF Known, Has, HasOrig
    <3>5. CASE ~LockAdd(p) /\ ~writeLnpmReference(p) /\ ~PullLock(p)
      <4>1. UNCHANGED <<dep, lock, snap>>
        BY <2>3, <3>5, ResolveDoes, LinkDoes, AddsDo, RunPullDoes, PullsDo DEF Adds, Pulls
      <4> QED
        BY <1>1, <4>1
    <3> QED
      BY <3>1, <3>2, <3>3, <3>4, <3>5
  <2>4. CASE Removes(p) \/ Restores(p)
    <3>1. proc[p].cmd \in {"remove", "retreat", "restore"}
      BY <2>4, UnlinkDoes, StashDoes, RemovesDo, RunRestoreDoes, RestoresDo DEF Removes, Restores
    <3>2. "add-pure" \notin scene.used
      BY <3>1 DEF Additive, Base, Typed, Placed, Command
    <3>3. Saved /\ Saving(p)
      BY <1>0, <3>2
    <3>4. CASE RevertDep(p)
      <4>1. /\ proc[p].cmd \in {"remove", "retreat"} /\ proc[p].pc = "dep"
            /\ Has(proc[p].seen) /\ UNCHANGED <<lock, snap>>
            /\ \/ dep' = Reverted(proc[p].seen.orig)
               \/ proc[p].cmd = "retreat" /\ dep' = dep
        BY <3>4, RemovesDo
      <4>2. lock = proc[p].seen /\ Has(lock) /\ lock.orig \in BOOLEAN
        BY <2>0, <4>1 DEF Seen, Is, Runs, Has, Entry
      <4>3. dep = "user" => lock.orig
        BY <3>3, <4>2 DEF Saved
      <4> QED
        BY <4>1, <4>2, <4>3 DEF Known, Has, HasOrig
    <3>5. CASE LockRemove(p)
      <4>1. proc[p].cmd = "remove" /\ proc[p].pc = "lock" /\ UNCHANGED <<dep, snap>>
        BY <3>5, RemovesDo
      <4>2. HasOrig(lock) => dep = "user"
        BY <3>3, <4>1 DEF Saving, Is, Runs
      <4> QED
        BY <4>1, <4>2 DEF Known, Has, HasOrig
    <3>6. CASE stashLockForRestore(p)
      <4>1. /\ proc[p].pc = "stash" /\ proc[p].cmd = "retreat" /\ dep' = dep
            /\ proc[p].seen \in LockFile
            /\ \/ snap = None /\ snap' = lock
               \/ snap' = Merged(proc[p].seen) /\ lock' = lock
               \/ lock' = lock /\ snap' = snap
        BY <3>6, StashDoes
      <4>2. proc[p].seen = lock
        BY <2>0, <4>1 DEF Seen, Is, Runs
      <4>3. /\ Has(lock) => /\ Has(Merged(lock))
                            /\ (Merged(lock).orig <=> lock.orig \/ HasOrig(snap))
            /\ ~Has(lock) => Merged(lock) = snap
        BY <1>0, Merging
      <4> QED
        BY <4>1, <4>2, <4>3 DEF Known, Has, HasOrig
    <3>7. CASE Unstash(p)
      <4>1. /\ proc[p].cmd = "retreat" /\ proc[p].pc = "unstash" /\ UNCHANGED <<dep, snap>>
        BY <3>7, RemovesDo
      <4>2. HasOrig(lock) => HasOrig(snap)
        BY <3>3, <4>1 DEF Saving, Is, Runs
      <4> QED
        BY <4>1, <4>2 DEF Known, Has, HasOrig
    <3>8. CASE LockRestore(p)
      <4>1. proc[p].cmd = "restore" /\ proc[p].pc = "lock" /\ UNCHANGED <<dep, snap>>
        BY <3>8, RestoresDo
      <4>2. ~Has(lock)
        BY <2>0, <4>1 DEF Seen, Is, Runs
      <4> QED
        BY <4>1, <4>2 DEF Known, Has, HasOrig
    <3>9. CASE consumeSnapshotEntry(p) \/ Clean(p)
      <4>1. /\ proc[p].cmd = "restore" /\ proc[p].pc \in {"consume", "clean"}
            /\ UNCHANGED <<dep, lock>>
        BY <3>9, RestoresDo
      <4>2. HasOrig(snap) => HasOrig(lock)
        BY <3>3, <4>1 DEF LetsGo, Saving, Is, Runs
      <4> QED
        BY <4>1, <4>2 DEF Known, Has, HasOrig
    <3>10. CASE Unlink(p) \/ DeleteLink(p) \/ RunRetreat(p) \/ Wipe(p) \/ RunRestore(p)
                \/ RecordFails(p)
      BY <1>1, <3>10, UnlinkDoes, RemovesDo, RunRestoreDoes, RestoresDo
    <3> QED
      BY <2>4, <3>4, <3>5, <3>6, <3>7, <3>8, <3>9, <3>10 DEF Removes, Restores
  <2> QED
    BY <1>2, <2>1, <2>2, <2>3, <2>4 DEF Step
<1> QED
  BY <1>1, <1>2, Steps DEF vars

LEMMA KnownBesides ==
  ASSUME Base, Base', Tracked, [Next]_vars, Watched(scene), Known
  PROVE  Known'
<1> USE Facts
<1>1. Watched(scene)'
  BY Steps DEF vars, Watched
<1>2. HasOrig(snap) \/ Said
  BY DEF Tracked, Unsaid, Known
<1>3. HasOrig(snap)' \/ Said'
  <2>1. CASE UNCHANGED vars
    <3>1. UNCHANGED <<dep, lock, snap, proc>>
      BY <2>1 DEF vars
    <3> QED
      BY <1>2, <3>1 DEF Said, Carries, Reads, Is, Runs, Has, HasOrig
  <2>2. ASSUME NEW p \in Proc, Step(p)
        PROVE  HasOrig(snap)' \/ Said'
    BY <1>2, <2>2, SnapshotStays, SaidStays
  <2> QED
    BY <2>1, <2>2, Steps
<1>4. dep' \in {"none", "user", "lnpm"}
  BY DEF Base, Typed
<1> QED
  BY <1>3, <1>4 DEF Said, Known, HasOrig, Has

(* No step of any command, failed or cut short, destroys the last copy of  *)
(* the user's specifier, but for the restore that lets go a package that   *)
(* was added again; where commands run one at a time, with add --pure,     *)
(* whose entry records no specifier, only of what only adds; and where     *)
(* they run beside each other, a retreat without the database among them,  *)
(* if none restores, and none removes where a step may fail.               *)
THEOREM SpecifierKept ==
  ASSUME \A s \in Scenario : (s.atonce <= 1 /\ Additive(s)) \/ Watched(s)
  PROVE  Spec => SpecifierSurvives
<1>1. Base /\ Base' /\ Consistent /\ Kept /\ Tracked /\ [Next]_vars => (Known => Known') \/ LetsGo
  <2> SUFFICES ASSUME Base, Base', Consistent, Kept, Tracked, [Next]_vars, Known, ~LetsGo
               PROVE  Known'
    OBVIOUS
  <2>1. (Single /\ Additive(scene)) \/ Watched(scene)
    BY DEF Single, Base, Typed
  <2> QED
    BY <2>1, KnownAlone, KnownBesides
<1>2. Base /\ Base' /\ Consistent /\ Kept /\ Tracked /\ [Next]_vars =>
        [(Known => Known') \/ \E p \in Proc :
                                proc[p].cmd = "restore" /\ "kept" \in proc[p].opts /\ lock' = lock]_vars
  BY <1>1 DEF LetsGo
<1>3. Init => Consistent /\ Kept /\ Tracked
  BY InitiallyIdle, InitiallyTracked
<1> QED
  BY <1>2, <1>3, ConsistentKept, KeptKept, TrackedKept, Basis, PTL DEF Spec, SpecifierSurvives

-----------------------------------------------------------------------------
(* What is on the disk, where nothing fails and nothing is pushed.         *)
OnDiskOf(p) == Has(lock) => disk \in {"live", lock.hash} \/ Between(p)
RebuildableOf(p) == Has(snap) /\ was # None => snap.hash = was \/ Stashing(p)

(* Of one that runs alone: nobody else is between two steps.               *)
LEMMA OfOne ==
  ASSUME Base, Consistent, Right, Quiet, NEW p \in Proc, Step(p), UNCHANGED scene
  PROVE  OnDiskOf(p) /\ RebuildableOf(p) /\ Moving(p) /\ Seen(p) /\ Single /\ ~Faults
<1>1. Single /\ ~Faults
  BY DEF Quiet, Alone, Single, Faults
<1>2. \A q \in Proc \ {p} : ~Between(q) /\ ~Stashing(q)
  BY <1>1, NobodyElse, NoneIsLocal, Silent DEF Consistent
<1> QED
  BY <1>1, <1>2 DEF Right, Consistent, OnDisk, Rebuildable, OnDiskOf, RebuildableOf

LEMMA RightStep ==
  ASSUME Base, Consistent, Right, Quiet, NEW p \in Proc, Step(p), UNCHANGED scene,
         OnDiskOf(p)', RebuildableOf(p)', Moving(p)'
  PROVE  Right'
<1>1. Single
  BY DEF Quiet, Alone, Single
<1>2. \A q \in Proc \ {p} : Moving(q)'
  BY <1>1, NobodyElse, NoneIsLocal, SilentNext DEF Consistent
<1> QED
  BY <1>2 DEF Right, OnDisk, Rebuildable, OnDiskOf, RebuildableOf

(* A step that leaves the files alone, of one that claims nothing of them. *)
LEMMA SameFiles ==
  ASSUME NEW p \in Proc, UNCHANGED <<lock, snap, disk, was>>, OnDiskOf(p), RebuildableOf(p),
         Between(p) => Between(p)', Stashing(p) => Stashing(p)'
  PROVE  OnDiskOf(p)' /\ RebuildableOf(p)'
  BY DEF OnDiskOf, RebuildableOf, Has

LEMMA ComesRight ==
  ASSUME Base, Quiet, NEW p \in Proc, Comes(p) \/ Leaves(p), OnDiskOf(p), RebuildableOf(p), ~Faults
  PROVE  OnDiskOf(p)' /\ RebuildableOf(p)' /\ Moving(p)'
<1> USE Facts
<1>1. UNCHANGED <<lock, snap, disk, was>>
  BY DEF Comes, Leaves, Start, GetDB, GetDBFails, Exit, Stop, files
<1>2. ~Between(p) /\ ~Stashing(p)
  <2>1. proc[p].cmd = None \/ proc[p].pc \in {"open", "exit", "failed"}
    BY DEF Comes, Leaves, Start, GetDB, GetDBFails, Exit, Stop
  <2>2. CASE proc[p].cmd = None
    BY <2>2, NoneIsLocal, Silent
  <2>3. CASE proc[p].pc \in {"open", "exit", "failed"}
    BY <2>3 DEF Between, Stashing, Is
  <2> QED
    BY <2>1, <2>2, <2>3
<1>3. Moving(p)'
  <2>1. CASE End(p)
    BY <2>1, SeenEnds
  <2>2. CASE Start(p)
    <3>1. /\ proc'[p].pc \in {"exit", "clean", "open"}
          /\ proc'[p].cmd = "pull" => proc'[p].pc = "open"
      BY <2>2, StartDoes
    <3> QED
      BY <3>1 DEF Moving, Stashing, Is, Runs
  <2>3. CASE ~End(p) /\ (GetDB(p) \/ GetDBFails(p))
    <3>1. proc'[p].pc = "start"
      BY <2>3, GetDBFailsDoes, Goes DEF GetDB, Pc, Base, Typed
    <3> QED
      BY <3>1 DEF Moving, Stashing, Is
  <2> QED
    BY <2>1, <2>2, <2>3 DEF Comes, Leaves, Exit, Stop
<1> QED
  BY <1>1, <1>2, <1>3, SameFiles

LEMMA ForeignRight ==
  ASSUME Base, Quiet, NEW p \in Proc, Publishes(p) \/ Collects(p), OnDiskOf(p), RebuildableOf(p)
  PROVE  OnDiskOf(p)' /\ RebuildableOf(p)' /\ Moving(p)'
<1>1. /\ proc[p].cmd \notin Local /\ proc'[p].cmd \notin Local
      /\ UNCHANGED <<lock, snap, was>>
  BY ForeignStep
<1>2. ~Relink(p)
  <2> SUFFICES ASSUME proc[p].pc = "relink" PROVE FALSE
    BY DEF Relink
  <2>1. proc[p].cmd \in scene.used \cup {None} /\ proc[p].cmd \in {"publish-push", "push"}
    BY DEF Base, Placed, Is
  <2> QED
    BY <2>1, Facts DEF Quiet, Command, Publishing
<1>3. disk' = disk
  BY <1>2, ForeignStep
<1> QED
  BY <1>1, <1>3, Silent, SilentNext, SameFiles

LEMMA AddsRight ==
  ASSUME Base, Quiet, NEW p \in Proc, Adds(p), OnDiskOf(p), RebuildableOf(p), Moving(p), Seen(p)
  PROVE  OnDiskOf(p)' /\ RebuildableOf(p)' /\ Moving(p)'
<1> USE Facts
<1>1. CASE End(p)
  <2>1. UNCHANGED <<lock, snap, disk, was>> /\ ~Between(p) /\ ~Stashing(p)
    <3>1. proc'[p].cmd = None /\ ~GoesOn(p)
      <4>1. proc[p].pc # "idle"
        BY ResolveDoes, LinkDoes, AddsDo DEF Adds
      <4>2. proc[p].cmd # None /\ proc'[p].cmd = None
        BY <1>1, <4>1, Ends, Fresh DEF Base, Placed, Is
      <4> QED
        BY <4>2 DEF GoesOn
    <3>2. /\ UNCHANGED <<lock, snap, disk, was>> /\ proc[p].pc \in {"start", "link"}
      BY <3>1, ResolveDoes, LinkDoes, AddsDo DEF Adds
    <3> QED
      BY <3>2 DEF Between, Stashing, Is
  <2> QED
    BY <1>1, <2>1, SeenEnds, SameFiles
<1>2. CASE Resolve(p) /\ ~End(p)
  <2>1. /\ UNCHANGED <<lock, snap, disk, was>> /\ proc[p].pc = "start" /\ proc'[p].pc = "link"
        /\ proc'[p].cmd \in Add
    BY <1>2, ResolveDoes DEF Turns
  <2> QED
    BY <2>1, SameFiles DEF Between, Stashing, Moving, Is, Runs, Add
<1>3. CASE Link(p) /\ ~End(p)
  <2>1. /\ GoesOn(p) /\ UNCHANGED <<lock, snap, was>> /\ row' = row /\ proc[p].pc = "link"
        /\ disk' \in {"live", proc[p].build}
        /\ disk' = "live" => proc[p].cmd = "add-link"
        /\ \/ proc[p].cmd \in Add /\ proc'[p].pc = "lock"
           \/ proc[p].cmd = "pull" /\ proc'[p].pc = "row"
           \/ proc[p].cmd = "restore" /\ proc'[p].pc = "dep"
    BY <1>3, LinkDoes
  <2>2. channel' = channel
    BY <1>3 DEF Link, db
  <2>3. Followed' = Followed
    BY <2>1, <2>2 DEF Followed
  <2>4. OnDiskOf(p)'
    <3>1. proc[p].cmd # "restore" => Between(p)'
      BY <2>1 DEF Between, Is, Runs, GoesOn
    <3>2. proc[p].cmd = "restore" => ~Has(lock)
      BY <2>1 DEF Seen, Is, Runs
    <3> QED
      BY <2>1, <3>1, <3>2 DEF OnDiskOf, Has
  <2>5. RebuildableOf(p)'
    BY <2>1 DEF RebuildableOf, Stashing, Is, Has
  <2>6. Moving(p)'
    BY <2>1, <2>3 DEF Moving, Stashing, Is, Runs, GoesOn, Add
  <2> QED
    BY <2>4, <2>5, <2>6
<1>4. CASE LockAdd(p)
  <2>1. /\ GoesOn(p) /\ proc[p].pc = "lock" /\ proc[p].cmd \in Add
        /\ proc'[p].pc \in {"project", "dep"} /\ UNCHANGED <<snap, disk, was>>
        /\ Has(lock)' /\ lock'.hash = proc[p].build
    BY <1>4, AddsDo
  <2>2. disk \in {"live", proc[p].build}
    BY <2>1 DEF Moving, Is
  <2>3. OnDiskOf(p)'
    BY <2>1, <2>2 DEF OnDiskOf
  <2>4. RebuildableOf(p)'
    BY <2>1 DEF RebuildableOf, Stashing, Is, Has
  <2>5. Moving(p)'
    BY <2>1 DEF Moving, Stashing, Is, Runs, GoesOn, Add
  <2> QED
    BY <2>3, <2>4, <2>5
<1>5. CASE writeLnpmReference(p)
  <2>1. /\ GoesOn(p) /\ proc[p].pc = "dep" /\ UNCHANGED <<lock, snap, disk, was>>
        /\ \/ proc[p].cmd = "restore" /\ proc'[p].pc = "lock"
           \/ proc[p].cmd \in Add /\ proc'[p].pc = "project"
    BY <1>5, AddsDo
  <2>2. ~Between(p) /\ ~Stashing(p)
    BY <2>1 DEF Between, Stashing, Is, Runs, Add
  <2>3. Moving(p)'
    BY <2>1 DEF Moving, Stashing, Is, Runs, GoesOn, Add
  <2> QED
    BY <2>1, <2>2, <2>3, SameFiles
<1>6. CASE InsertProject(p) \/ InsertLink(p)
  <2>1. /\ GoesOn(p) /\ UNCHANGED <<lock, snap, disk, was>> /\ proc[p].cmd \in Add \cup {"restore"}
        /\ proc[p].pc \in {"project", "row"} /\ proc'[p].pc \in {"row", "clean", "exit"}
    BY <1>6, AddsDo
  <2>2. ~Between(p) /\ ~Stashing(p)
    BY <2>1 DEF Between, Stashing, Is, Runs, Add
  <2>3. Moving(p)'
    BY <2>1 DEF Moving, Stashing, Is, Runs, GoesOn, Add
  <2> QED
    BY <2>1, <2>2, <2>3, SameFiles
<1> QED
  BY <1>1, <1>2, <1>3, <1>4, <1>5, <1>6 DEF Adds

LEMMA PullsRight ==
  ASSUME Base, Quiet, NEW p \in Proc, Pulls(p), OnDiskOf(p), RebuildableOf(p), Moving(p), Seen(p)
  PROVE  OnDiskOf(p)' /\ RebuildableOf(p)' /\ Moving(p)'
<1> USE Facts
<1>1. CASE RunPull(p)
  <2>1. /\ UNCHANGED <<lock, snap, disk, was>> /\ proc[p].pc = "start" /\ proc[p].cmd = "pull"
        /\ Followed' = Followed
    BY <1>1, RunPullDoes DEF Followed
  <2>2. ~Between(p) /\ ~Stashing(p)
    BY <2>1 DEF Between, Stashing, Is
  <2>3. CASE End(p)
    BY <2>1, <2>2, <2>3, SeenEnds, SameFiles
  <2>4. CASE ~End(p)
    <3>1. /\ proc'[p].cmd = "pull" /\ Has(lock) /\ proc'[p].build = Followed
          /\ \/ proc'[p].pc = "exit" /\ proc'[p].opts = {"kept"}
             \/ proc'[p].pc = "failed"
             \/ proc'[p].pc = "exit" /\ disk # "live" /\ lock.hash = Followed
             \/ proc'[p].pc = "link"
      BY <1>1, <2>1, <2>4, RunPullDoes DEF Turns
    <3>2. disk \in {"live", lock.hash}
      BY <2>2, <3>1 DEF OnDiskOf
    <3>3. Has(lock)' /\ lock' = lock /\ disk' = disk
      BY <2>1, <3>1 DEF Has
    <3>4. Moving(p)'
      BY <2>1, <3>1, <3>2, <3>3 DEF Moving, Stashing, Is, Runs, Add
    <3> QED
      BY <2>1, <2>2, <3>4, SameFiles
  <2> QED
    BY <2>3, <2>4
<1>2. CASE PullRow(p)
  <2>1. /\ GoesOn(p) /\ proc[p].cmd = "pull" /\ proc[p].pc = "row" /\ proc'[p].pc = "lock"
        /\ UNCHANGED <<lock, snap, disk, was>> /\ Followed' = Followed
    BY <1>2, PullsDo
  <2>2. Between(p)' /\ ~Stashing(p)
    BY <2>1 DEF Between, Stashing, Is, Runs, GoesOn
  <2>3. Moving(p)'
    BY <2>1 DEF Moving, Stashing, Is, Runs, GoesOn, Add
  <2> QED
    BY <2>1, <2>2, <2>3, SameFiles
<1>3. CASE PullLock(p)
  <2>1. /\ GoesOn(p) /\ proc[p].cmd = "pull" /\ proc[p].pc = "lock"
        /\ proc'[p].pc \in {"exit", "failed"} /\ UNCHANGED <<snap, disk, was>>
        /\ Followed' = Followed /\ Has(lock)' /\ lock'.hash = proc[p].build
    BY <1>3, PullsDo
  <2>2. disk = proc[p].build /\ proc[p].build = Followed
    BY <2>1 DEF Moving, Is, Runs
  <2>3. OnDiskOf(p)'
    BY <2>1, <2>2 DEF OnDiskOf
  <2>4. RebuildableOf(p)'
    BY <2>1 DEF RebuildableOf, Stashing, Is, Has
  <2>5. Moving(p)'
    BY <2>1, <2>2 DEF Moving, Stashing, Is, Runs, GoesOn, Add
  <2> QED
    BY <2>3, <2>4, <2>5
<1> QED
  BY <1>1, <1>2, <1>3 DEF Pulls


LEMMA RemovesRight ==
  ASSUME Base, Quiet, NEW p \in Proc, Removes(p), OnDiskOf(p), RebuildableOf(p), Moving(p), Seen(p),
         ~Faults
  PROVE  OnDiskOf(p)' /\ RebuildableOf(p)' /\ Moving(p)'
<1> USE Facts
<1>0. Has(lock) => lock.hash \in Hash
  BY DEF Has, Entry
<1>1. CASE Unlink(p)
  <2>1. CASE End(p) /\ UNCHANGED disk
    <3>1. UNCHANGED <<lock, snap, disk, was>> /\ proc[p].pc = "start"
      BY <1>1, <2>1, UnlinkDoes
    <3> QED
      BY <2>1, <3>1, SeenEnds, SameFiles DEF Between, Stashing, Is
  <2>2. CASE ~(End(p) /\ UNCHANGED disk)
    <3>1. /\ proc'[p].cmd = "remove" /\ proc'[p].pc = "dep" /\ proc[p].pc = "start"
          /\ UNCHANGED <<lock, snap, was>>
      BY <1>1, <2>2, UnlinkDoes DEF Turns
    <3>2. OnDiskOf(p)'
      BY <3>1 DEF OnDiskOf, Between, Is, Runs
    <3>3. RebuildableOf(p)'
      BY <3>1 DEF RebuildableOf, Stashing, Is, Has
    <3>4. Moving(p)'
      BY <3>1 DEF Moving, Stashing, Is, Runs, Add
    <3> QED
      BY <3>2, <3>3, <3>4
  <2> QED
    BY <2>1, <2>2
<1>2. CASE RevertDep(p) \/ DeleteLink(p) \/ RunRetreat(p)
  <2>1. /\ GoesOn(p) /\ UNCHANGED <<lock, snap, disk, was>>
        /\ \/ proc[p].cmd = "remove" /\ proc[p].pc \in {"dep", "row"}
              /\ proc'[p].pc \in {"row", "lock"}
           \/ proc[p].cmd = "retreat" /\ proc[p].pc \in {"dep", "row", "start"}
              /\ proc'[p].pc \in {"row", "wipe", "dep"}
    BY <1>2, RemovesDo
  <2>2. Between(p) => Between(p)'
    BY <2>1 DEF Between, Is, Runs, GoesOn, Add
  <2>3. ~Stashing(p)
    BY <2>1 DEF Stashing, Is
  <2>4. Moving(p)'
    BY <2>1 DEF Moving, Stashing, Is, Runs, GoesOn, Add
  <2> QED
    BY <2>1, <2>2, <2>3, <2>4, SameFiles
<1>3. CASE LockRemove(p)
  <2>1. /\ GoesOn(p) /\ proc[p].cmd = "remove" /\ proc[p].pc = "lock"
        /\ proc'[p].pc = "exit" /\ ~Has(lock)' /\ UNCHANGED <<snap, was>>
    BY <1>3, RemovesDo
  <2>2. OnDiskOf(p)'
    BY <2>1 DEF OnDiskOf
  <2>3. RebuildableOf(p)'
    BY <2>1 DEF RebuildableOf, Stashing, Is, Has
  <2>4. Moving(p)'
    BY <2>1 DEF Moving, Stashing, Is, Runs, GoesOn, Add
  <2> QED
    BY <2>2, <2>3, <2>4
<1>4. CASE Wipe(p)
  <2>1. /\ GoesOn(p) /\ proc[p].cmd = "retreat" /\ proc[p].pc = "wipe"
        /\ proc'[p].pc = "stash" /\ UNCHANGED <<lock, snap>>
        /\ \/ ~Has(proc[p].seen) /\ was' = was
           \/ Has(proc[p].seen) /\ was' = IF disk \in Hash THEN disk ELSE None
    BY <1>4, RemovesDo DEF Quiet
  <2>2. lock = proc[p].seen
    BY <2>1 DEF Seen, Is, Runs
  <2>3. ~Between(p) /\ ~Stashing(p)
    BY <2>1 DEF Between, Stashing, Is, Runs, Add
  <2>4. Has(lock) => was' \in {None, lock.hash}
    BY <1>0, <2>1, <2>2, <2>3 DEF OnDiskOf
  <2>5. OnDiskOf(p)'
    BY <2>1 DEF OnDiskOf, Between, Is, Runs, GoesOn
  <2>6. RebuildableOf(p)'
    BY <2>1, <2>2, <2>3 DEF RebuildableOf, Stashing, Is, Runs, GoesOn, Has
  <2>7. Stashing(p)' => was' \in {None, proc'[p].seen.hash}
    BY <2>1, <2>2, <2>4 DEF Stashing, GoesOn, Has
  <2>8. Moving(p)'
    BY <2>1, <2>7 DEF Moving, Is, Runs, GoesOn, Add
  <2> QED
    BY <2>5, <2>6, <2>8
<1>5. CASE stashLockForRestore(p)
  <2>1. /\ GoesOn(p) /\ proc[p].pc = "stash" /\ proc[p].cmd = "retreat"
        /\ proc'[p].pc \in {"exit", "unstash"} /\ UNCHANGED <<disk, was>>
        /\ proc[p].seen \in LockFile
        /\ \/ /\ proc'[p].pc = "exit" /\ snap' = lock /\ lock' = None
           \/ /\ proc'[p].pc = "unstash" /\ snap' = Merged(proc[p].seen) /\ lock' = lock
           \/ /\ proc'[p].pc = "exit" /\ lock' = lock /\ snap' = snap /\ lock = None
    BY <1>5, StashDoes
  <2>2. lock = proc[p].seen
    BY <2>1 DEF Seen, Is, Runs
  <2>3. (Stashing(p) <=> Has(lock)) /\ (Has(lock) => was \in {None, lock.hash})
    BY <2>1, <2>2 DEF Moving, Stashing, Is, Runs
  <2>4. /\ Has(lock) => Merged(lock).hash = lock.hash
        /\ ~Has(lock) => Merged(lock) = snap
    BY <2>1, <2>2, Merging DEF Base, Typed
  <2>5. OnDiskOf(p)'
    BY <2>1 DEF OnDiskOf, Between, Is, Runs, GoesOn, Has
  <2>6. RebuildableOf(p)'
    BY <2>1, <2>2, <2>3, <2>4 DEF RebuildableOf, Has
  <2>7. Moving(p)'
    BY <2>1 DEF Moving, Stashing, Is, Runs, GoesOn, Add
  <2> QED
    BY <2>5, <2>6, <2>7
<1>6. CASE Unstash(p)
  <2>1. /\ GoesOn(p) /\ proc[p].cmd = "retreat" /\ proc[p].pc = "unstash"
        /\ proc'[p].pc = "exit" /\ UNCHANGED <<snap, was>> /\ lock' = None
    BY <1>6, RemovesDo
  <2>2. OnDiskOf(p)'
    BY <2>1 DEF OnDiskOf, Has
  <2>3. RebuildableOf(p)'
    BY <2>1 DEF RebuildableOf, Stashing, Is, Has
  <2>4. Moving(p)'
    BY <2>1 DEF Moving, Stashing, Is, Runs, GoesOn, Add
  <2> QED
    BY <2>2, <2>3, <2>4
<1> QED
  BY <1>1, <1>2, <1>3, <1>4, <1>5, <1>6 DEF Removes

LEMMA RestoresRight ==
  ASSUME Base, Quiet, NEW p \in Proc, Restores(p), OnDiskOf(p), RebuildableOf(p), Moving(p), Seen(p)
  PROVE  OnDiskOf(p)' /\ RebuildableOf(p)' /\ Moving(p)'
<1> USE Facts
<1>1. ~Between(p) /\ ~Stashing(p)
  <2>1. proc[p].cmd = "restore"
    BY RunRestoreDoes, RestoresDo DEF Restores
  <2> QED
    BY <2>1 DEF Between, Stashing, Runs, Add
<1>2. CASE RunRestore(p)
  <2>1. /\ proc'[p].cmd = "restore" /\ proc'[p].pc \in {"consume", "link", "failed"}
        /\ UNCHANGED <<lock, snap, disk, was>>
    BY <1>2, RunRestoreDoes
  <2>2. Moving(p)'
    BY <2>1 DEF Moving, Stashing, Is, Runs, Add
  <2> QED
    BY <1>1, <2>1, <2>2, SameFiles
<1>3. CASE LockRestore(p)
  <2>1. /\ GoesOn(p) /\ proc[p].cmd = "restore" /\ proc[p].pc = "lock"
        /\ proc'[p].pc = "consume" /\ UNCHANGED <<snap, disk, was>>
        /\ Has(lock)' /\ lock'.hash = proc[p].build
    BY <1>3, RestoresDo
  <2>2. disk = proc[p].build
    BY <2>1 DEF Moving, Is, Runs
  <2>3. OnDiskOf(p)'
    BY <2>1, <2>2 DEF OnDiskOf
  <2>4. RebuildableOf(p)'
    BY <1>1, <2>1 DEF RebuildableOf, Has
  <2>5. Moving(p)'
    BY <2>1 DEF Moving, Stashing, Is, Runs, GoesOn, Add
  <2> QED
    BY <2>3, <2>4, <2>5
<1>4. CASE consumeSnapshotEntry(p) \/ Clean(p) \/ RecordFails(p)
  <2>1. /\ GoesOn(p) /\ proc[p].cmd = "restore"
        /\ proc'[p].pc \in {"clean", "project", "exit", "failed"}
        /\ UNCHANGED <<lock, disk, was>> /\ snap' \in {None, Blank, snap}
    BY <1>4, RestoresDo
  <2>2. OnDiskOf(p)'
    BY <1>1, <2>1 DEF OnDiskOf, Has
  <2>3. RebuildableOf(p)'
    BY <1>1, <2>1 DEF RebuildableOf, Has
  <2>4. Moving(p)'
    BY <2>1 DEF Moving, Stashing, Is, Runs, GoesOn, Add
  <2> QED
    BY <2>2, <2>3, <2>4
<1> QED
  BY <1>2, <1>3, <1>4 DEF Restores

LEMMA RightKept == Base /\ Consistent /\ Right /\ [Next]_vars => Right'
<1> SUFFICES ASSUME Base, Consistent, Right, [Next]_vars PROVE Right'
  OBVIOUS
<1>1. CASE UNCHANGED vars
  <2>1. UNCHANGED <<scene, channel, lock, snap, disk, was, proc, row>>
    BY <1>1 DEF vars, row
  <2> QED
    BY <2>1 DEF Right, Quiet, Alone, OnDisk, Rebuildable, Moving, Between, Stashing, Followed,
       Is, Runs, Has
<1>2. ASSUME NEW p \in Proc, UNCHANGED scene, Step(p)
      PROVE  Right'
  <2> SUFFICES ASSUME Quiet PROVE Right'
    BY <1>2 DEF Right, Quiet, Alone
  <2>1. OnDiskOf(p) /\ RebuildableOf(p) /\ Moving(p) /\ Seen(p) /\ ~Faults
    BY <1>2, OfOne
  <2>2. OnDiskOf(p)' /\ RebuildableOf(p)' /\ Moving(p)'
    BY <1>2, <2>1, ComesRight, ForeignRight, AddsRight, PullsRight, RemovesRight, RestoresRight
    DEF Step
  <2> QED
    BY <1>2, <2>2, RightStep
<1> QED
  BY <1>1, <1>2, Steps

LEMMA RightThroughout == Spec => [](Base /\ Consistent /\ Right)
<1>1. Init => Consistent /\ Right
  BY InitiallyIdle
<1> QED
  BY <1>1, ConsistentKept, RightKept, Basis, PTL DEF Spec

(* Where no step fails, no command runs beside it and nothing pushes, a    *)
(* pull that found something to follow leaves the project with the build   *)
(* its channel names, and a lock file that says so.                        *)
THEOREM PullsAreCurrent ==
  ASSUME \A s \in Scenario :
            ~s.faults /\ s.atonce = 1 => s.used \cap {"publish-push", "push"} = {}
  PROVE  Spec => []PullMeansCurrent
<1>1. Base /\ Right => PullMeansCurrent
  <2> SUFFICES ASSUME Base, Right, NEW p \in Proc, Alone, At(p, {"pull"}, "exit"),
                      "kept" \notin proc[p].opts
               PROVE  /\ disk = channel[Pkg][IF row = None THEN Latest ELSE row.tag]
                      /\ Has(lock) /\ lock.hash = disk
    BY DEF PullMeansCurrent
  <2>1. Quiet
    BY DEF Base, Typed, Quiet, Alone
  <2>2. Moving(p)
    BY <2>1 DEF Right
  <2> QED
    BY <2>2 DEF Moving, At, Is, Runs, Followed
<1> QED
  BY <1>1, RightThroughout, PTL

(* Under the same conditions, restore links the build that the retreat     *)
(* took off the disk.                                                      *)
THEOREM RebuiltExactly ==
  ASSUME \A s \in Scenario :
            ~s.faults /\ s.atonce = 1 => s.used \cap {"publish-push", "push"} = {}
  PROVE  Spec => RestoreRebuildsExactly
<1> DEFINE Exactly ==
             \A p \in Proc :
                 Alone /\ At(p, {"restore"}, "link") /\ was # None => disk' \in {was, disk}
<1>1. Base /\ Consistent /\ Right /\ [Next]_vars => Exactly
  <2> SUFFICES ASSUME Base, Consistent, Right, [Next]_vars, NEW p \in Proc,
                      Alone, At(p, {"restore"}, "link"), was # None, disk' # disk
               PROVE  disk' = was
    OBVIOUS
  <2> USE Facts
  <2>1. Quiet
    BY DEF Base, Typed, Quiet, Alone
  <2>2. PICK q \in Proc : Step(q) /\ UNCHANGED scene
    BY Steps DEF vars
  <2>3. proc[p].cmd = "restore" /\ proc[p].pc = "link" /\ proc[p].cmd # None
    BY DEF At, Command
  <2>4. q = p
    BY <2>1, <2>2, <2>3, OfOne, NobodyElse DEF Consistent
  <2>5. RebuildableOf(p) /\ Seen(p)
    BY <2>1, <2>2, <2>4, OfOne
  <2>6. snap.hash = was /\ proc[p].build = snap.hash
    BY <2>3, <2>5 DEF RebuildableOf, Stashing, Seen, Is, Runs
  <2>7. Link(p)
    <3>1. ~Start(p)
      BY <2>3 DEF Start
    <3>2. ~(Publishes(p) \/ Collects(p))
      BY <2>3, ForeignStep DEF Local
    <3> QED
      BY <2>2, <2>3, <2>4, <3>1, <3>2, ResolveDoes, AddsDo, RunPullDoes, PullsDo, UnlinkDoes,
         StashDoes, RemovesDo, RunRestoreDoes, RestoresDo
      DEF Step, Comes, Leaves, GetDB, GetDBFails, Exit, Stop, files, Adds, Pulls, Removes,
         Restores
  <2>8. disk' = proc[p].build
    <3>1. "live" \notin proc[p].opts
      BY <2>3 DEF Base, Placed, Runs
    <3> QED
      BY <2>7, <3>1, LinkDoes
  <2> QED
    BY <2>6, <2>8
<1>2. Base /\ Consistent /\ Right /\ [Next]_vars => [Exactly]_vars
  BY <1>1
<1> QED
  BY <1>2, RightThroughout, PTL DEF Spec, RestoreRebuildsExactly

==============================================================================
