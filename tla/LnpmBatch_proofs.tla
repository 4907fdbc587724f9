--------------------------- MODULE LnpmBatch_proofs --------------------------
(* Proofs about LnpmBatch, for any packages, projects, builds and tags.    *)
EXTENDS LnpmBatch, TLAPS

(* What the variables hold.                                                *)
Entry == [hash : Hash, orig : BOOLEAN, pinned : BOOLEAN]
LockFile == [Pkg -> Entry \cup {None}]
Dep == [Field -> {"none", "user", "lnpm"}]
Adding == {"link", "read", "write", "project", "rows"}
Pushing == {"record", "find", "relink"}
Job == [pc : {"idle"} \cup Adding \cup Pushing, cmd : {None, "add", "push"},
        specs : SUBSET Pkg, at : Project \cup {None},
        dev : BOOLEAN, live : BOOLEAN, pure : BOOLEAN,
        todo : SUBSET (Pkg \cup Project), moving : SUBSET (Pkg \cup Project),
        failed : SUBSET (Pkg \cup Project),
        gone : SUBSET Pkg, new : SUBSET Pkg, lock : LockFile \cup {None},
        orig : SUBSET Pkg, dirty : BOOLEAN, want : [Pkg -> R!Consumption \cup {None}]]

Copies == [Project -> [Pkg -> Hash \cup {"live", None}]]
Typed ==
    /\ R!TypeOK
    /\ deps \in [Project -> [Pkg -> Dep]]
    /\ lock \in [Project -> LockFile]
    /\ disk \in Copies /\ aside \in Copies
    /\ job \in Job

(* Which command is at which step, and what its sets are to each other.    *)
Phases ==
    /\ job.pc \in Adding =>
          /\ job.cmd = "add" /\ job.at \in Project
          /\ job.todo \subseteq job.specs /\ job.failed \subseteq job.specs
          /\ job.gone \subseteq job.failed
    /\ job.pc = "link" => job.gone = {} /\ job.orig = {}
    /\ job.pc = "link" => \A x \in job.moving : x \in Pkg => job.want[x] # None
    /\ job.pc \in {"link", "read", "write"} => job.todo \cap job.failed = {}
    /\ job.pc \in {"read", "write"} => job.lock \in LockFile
    /\ job.pc = "rows" => \A x \in job.todo : job.want[x] # None
    /\ job.pc \in Pushing =>
          job.cmd = "push" /\ job.specs # {} /\ job.want[pushed] # None /\ ~job.live

(* What has not failed is on the disk once a goroutine is done with it.    *)
OnDisk(x) == disk[job.at][x] = IF job.live THEN "live" ELSE job.want[x].hash
Linked ==
    job.pc \in Adding =>
        \A x \in job.specs \ job.failed :
            (job.pc = "link" => x \notin job.todo) => job.want[x] # None /\ OnDisk(x)

(* Until the lock file is saved, it is what was loaded.                    *)
User(x) == Has(deps[job.at][x], "user")
Reading ==
    job.pc = "read" =>
        /\ job.lock = lock[job.at]
        /\ \A x \in Pkg : x \in job.new <=> lock[job.at][x] = None
        /\ job.pure => job.todo = {}
        /\ job.pure \/ \A x \in job.specs \ (job.failed \cup job.todo) : User(x) => x \in job.orig
        /\ \A x \in job.orig : User(x)

(* Then the file has an entry for whatever may be referred to, and the     *)
(* user's specifier of whatever may be rolled back is in package.json.     *)
Orig(x) == lock[job.at][x] # None /\ lock[job.at][x].orig
Writing ==
    job.pc = "write" =>
        /\ \A x \in Pkg : \/ job.lock[x] = lock[job.at][x]
                          \/ x \in job.gone \cap job.new /\ job.lock[x] = None
        /\ job.dirty \/ job.lock = lock[job.at]
        /\ \A x \in job.gone \cap job.new : job.lock[x] = None
        /\ \A x \in job.new : Has(deps[job.at][x], "lnpm") =>
                                x \in job.specs \ (job.failed \cup job.todo)
        /\ \A x \in job.todo : User(x) => Orig(x)
        /\ \A x \in job.new \cap (job.todo \cup job.gone) : Orig(x) => User(x)

(* What has not failed is in the files, and what was rolled back is not.   *)
InLock(x) == /\ lock[job.at][x] # None
             /\ lock[job.at][x].hash = job.want[x].hash
             /\ lock[job.at][x].pinned = job.want[x].pinned
InPackageJSON(x) == Has(deps[job.at][x], "lnpm") /\ Has(deps[job.at][x], "none")
InFiles ==
    /\ job.pc \in {"write", "project", "rows"} =>
          \A x \in job.specs \ job.failed :
              /\ InLock(x)
              /\ (job.pc = "write" => x \notin job.todo) => job.pure \/ InPackageJSON(x)
    /\ job.pc \in {"project", "rows"} => \A x \in job.gone \cap job.new : lock[job.at][x] = None

InRows ==
    job.pc = "rows" =>
        \A x \in job.specs \ (job.failed \cup job.todo) : consumes[job.at][x] = job.want[x]

(* A push still has to come to whoever is not on the build.                *)
OnBuild(q) == consumes[q][pushed] # None /\ consumes[q][pushed].hash = build
Reached ==
    job.pc = "relink" =>
        \A q \in Project :
            OnBuild(q) => q \in job.todo \cup job.failed \/ disk[q][pushed] \in {build, "live"}

(* A reference has a lock entry, which is what keeps rollBack away, and a  *)
(* copy, though perhaps one that is set aside.                             *)
HasCopy(q, x) == disk[q][x] # None \/ aside[q][x] # None
Referenced ==
    \A q \in Project, x \in Pkg : Has(deps[q][x], "lnpm") => lock[q][x] # None /\ HasCopy(q, x)

IInv == /\ Typed /\ Phases /\ Linked /\ Reading /\ Writing /\ InFiles /\ InRows /\ Reached
        /\ Referenced

-----------------------------------------------------------------------------
LEMMA Facts ==
    /\ Latest \in Tag /\ None \notin Hash /\ None \notin Tag /\ None # "live"
    /\ None \notin Entry /\ None \notin R!Consumption
    /\ Pkg \cap Project = {}
  BY BatchAssumption DEF Entry, R!Consumption

(* The registry's methods keep its types.                                  *)
LEMMA RegistryTypes ==
  ASSUME R!TypeOK
  PROVE  /\ \A x \in Pkg, h \in Hash, t \in Tag : R!Publish(x, h, t) => R!TypeOK'
         /\ \A q \in Project : R!InsertProject(q, NoDevice) => R!TypeOK'
         /\ \A q \in Project, x \in Pkg, h \in Hash, t \in Tag, pin \in BOOLEAN :
               R!InsertLink(q, x, h, t, pin) =>
                  /\ R!TypeOK'
                  /\ consumes'[q][x] = [hash |-> h, tag |-> t, pinned |-> pin]
                  /\ \A p \in Project, y \in Pkg :
                        p # q \/ y # x => consumes'[p][y] = consumes[p][y]
<1>1. ASSUME NEW x \in Pkg, NEW h \in Hash, NEW t \in Tag, R!Publish(x, h, t)
      PROVE  R!TypeOK'
  <2>1. stored' \subseteq Pkg \X Hash /\ project' = project
    BY <1>1 DEF R!Publish, R!TypeOK
  <2>2. channel' \in [Pkg -> [Tag -> Hash \cup {None}]]
    BY <1>1 DEF R!Publish, R!MoveChannel, R!TypeOK
  <2>3. consumes' = [q \in Project |-> [consumes[q] EXCEPT ![x] =
                       IF R!Follows(@, x, R!Moved(x, t)) THEN [@ EXCEPT !.hash = h] ELSE @]]
    BY <1>1 DEF R!Publish, R!MoveChannel
  <2>4. ASSUME NEW q \in Project
        PROVE  consumes'[q] \in [Pkg -> R!Consumption \cup {None}]
    <3>1. consumes[q] \in [Pkg -> R!Consumption \cup {None}]
      BY DEF R!TypeOK
    <3>2. R!Follows(consumes[q][x], x, R!Moved(x, t)) =>
             [consumes[q][x] EXCEPT !.hash = h] \in R!Consumption
      <4>1. SUFFICES ASSUME consumes[q][x] # None
                     PROVE  [consumes[q][x] EXCEPT !.hash = h] \in R!Consumption
        BY DEF R!Follows
      <4>2. consumes[q][x] \in R!Consumption
        BY <3>1, <4>1
      <4> QED
        BY <4>2 DEF R!Consumption
    <3> DEFINE c == IF R!Follows(consumes[q][x], x, R!Moved(x, t))
                    THEN [consumes[q][x] EXCEPT !.hash = h] ELSE consumes[q][x]
    <3>3. c \in R!Consumption \cup {None}
      BY <3>1, <3>2
    <3>4. consumes'[q] = [consumes[q] EXCEPT ![x] = c]
      BY <2>3
    <3> HIDE DEF c
    <3> QED
      BY <3>1, <3>3, <3>4
  <2>5. consumes' \in [Project -> [Pkg -> R!Consumption \cup {None}]]
    BY <2>3, <2>4
  <2> QED
    BY <2>1, <2>2, <2>5 DEF R!TypeOK
<1>2. ASSUME NEW q \in Project, R!InsertProject(q, NoDevice)
      PROVE  R!TypeOK'
  BY <1>2 DEF R!InsertProject, R!TypeOK
<1>3. ASSUME NEW q \in Project, NEW x \in Pkg, NEW h \in Hash, NEW t \in Tag,
             NEW pin \in BOOLEAN, R!InsertLink(q, x, h, t, pin)
      PROVE  /\ R!TypeOK'
             /\ consumes'[q][x] = [hash |-> h, tag |-> t, pinned |-> pin]
             /\ \A p \in Project, y \in Pkg :
                   p # q \/ y # x => consumes'[p][y] = consumes[p][y]
  <2> DEFINE c == [hash |-> h, tag |-> t, pinned |-> pin]
  <2>1. c \in R!Consumption
    BY DEF R!Consumption
  <2>2. consumes' = [consumes EXCEPT ![q][x] = c] /\ UNCHANGED <<stored, channel, project>>
    BY <1>3 DEF R!InsertLink
  <2> HIDE DEF c
  <2>3. consumes' \in [Project -> [Pkg -> R!Consumption \cup {None}]]
        /\ consumes'[q][x] = c
        /\ \A p \in Project, y \in Pkg : p # q \/ y # x => consumes'[p][y] = consumes[p][y]
    BY <2>1, <2>2 DEF R!TypeOK
  <2>4. R!TypeOK'
    BY <2>2, <2>3 DEF R!TypeOK
  <2> QED
    BY <2>3, <2>4 DEF c
<1> QED
  BY <1>1, <1>2, <1>3

LEMMA Fresh == Idle \in Job /\ Idle.pc = "idle"
  BY DEF Idle, Job

LEMMA NoDeps ==
    /\ NoDep \in Dep /\ ~Has(NoDep, "user") /\ ~Has(NoDep, "lnpm")
    /\ \A f \in Field, v \in {"user", "lnpm"} :
          LET d == [NoDep EXCEPT ![f] = v]
          IN  d \in Dep /\ Has(d, v) /\ Has(d, "none") /\ \A u \in {"user", "lnpm"} : Has(d, u) => u = v
  BY DEF NoDep, Dep, Has, Field

LEMMA Initially == Init => IInv
<1> SUFFICES ASSUME Init PROVE IInv
  OBVIOUS
<1> USE Facts, Fresh, NoDeps
<1>1. PICK h \in Hash, old \in SUBSET Project,
          user \in [Pkg -> {NoDep} \cup {[NoDep EXCEPT ![e] = "user"] : e \in Field}] :
          /\ stored = {<<x, h>> : x \in Pkg}
          /\ channel = [x \in Pkg |-> [t \in Tag |-> IF t = Latest THEN h ELSE None]]
          /\ project = [q \in Project |-> IF q \in old THEN NoDevice ELSE None]
          /\ deps = [q \in Project |-> IF q \notin old THEN user ELSE
                [x \in Pkg |-> [NoDep EXCEPT !["dependencies"] = "lnpm"]]]
          /\ lock = [q \in Project |-> [x \in Pkg |-> IF q \notin old THEN None ELSE
                [hash |-> h, orig |-> user[x] # NoDep, pinned |-> FALSE]]]
          /\ disk = [q \in Project |-> [x \in Pkg |-> IF q \in old THEN h ELSE None]]
          /\ aside = [q \in Project |-> [x \in Pkg |-> None]]
          /\ consumes = [q \in Project |-> [x \in Pkg |-> IF q \notin old THEN None ELSE
                [hash |-> h, tag |-> Latest, pinned |-> FALSE]]]
          /\ job = Idle
          /\ spent = 0
  BY Zenon DEF Init
<1>2. \A x \in Pkg : user[x] \in Dep /\ ~Has(user[x], "lnpm")
  <2> TAKE x \in Pkg
  <2>1. user[x] = NoDep \/ \E e \in Field : user[x] = [NoDep EXCEPT ![e] = "user"]
    BY <1>1
  <2> QED
    BY <2>1
<1>3. R!TypeOK
  BY <1>1 DEF R!TypeOK, R!Consumption
<1>4. deps \in [Project -> [Pkg -> Dep]]
  BY <1>1, <1>2 DEF Field
<1>5. lock \in [Project -> LockFile] /\ disk \in Copies /\ aside \in Copies
  BY <1>1 DEF LockFile, Entry, Copies
<1>6. Typed /\ job.pc = "idle"
  BY <1>1, <1>3, <1>4, <1>5 DEF Typed
<1>7. Phases /\ Linked /\ Reading /\ Writing /\ InFiles /\ InRows /\ Reached
  BY <1>6 DEF Phases, Linked, Reading, Writing, InFiles, InRows, Reached, Adding, Pushing
<1>8. Referenced
  <2> SUFFICES ASSUME NEW q \in Project, NEW x \in Pkg, Has(deps[q][x], "lnpm")
               PROVE  lock[q][x] # None /\ disk[q][x] # None
    BY DEF Referenced, HasCopy
  <2>1. q \in old
    BY <1>1, <1>2
  <2>2. lock[q][x] \in Entry /\ disk[q][x] = h
    BY <1>1, <2>1 DEF Entry
  <2> QED
    BY <2>2
<1> QED
  BY <1>6, <1>7, <1>8 DEF IInv

-----------------------------------------------------------------------------
(* A command that is over asks for nothing but types and Referenced.       *)
LEMMA Over ==
  ASSUME IInv, job' = Idle, UNCHANGED <<db, files>>
  PROVE  IInv'
<1> USE Fresh
<1>1. UNCHANGED <<stored, channel, project, consumes, deps, lock, disk, aside>>
  BY DEF db, files
<1>2. Typed' /\ job'.pc = "idle"
  BY <1>1 DEF IInv, Typed, R!TypeOK
<1>3. Phases' /\ Linked' /\ Reading' /\ Writing' /\ InFiles' /\ InRows' /\ Reached'
  BY <1>2 DEF Phases, Linked, Reading, Writing, InFiles, InRows, Reached, Adding, Pushing
<1>4. Referenced'
  BY <1>1 DEF IInv, Referenced, HasCopy
<1> QED
  BY <1>2, <1>3, <1>4 DEF IInv

(* What a step of an add has to show: nothing is said of a push.           *)
LEMMA AddStep ==
  ASSUME job'.pc \in Adding, Typed', Phases', Linked', Reading', Writing', InFiles', InRows',
         Referenced'
  PROVE  IInv'
<1>1. Reached'
  BY DEF Reached, Adding
<1> QED
  BY <1>1 DEF IInv

LEMMA StartsAdd ==
  ASSUME IInv, StartAdd
  PROVE  IInv'
<1> USE Facts
<1>1. PICK q \in Project, specs \in SUBSET Pkg, dev \in BOOLEAN, live \in BOOLEAN, pure \in BOOLEAN :
        job' = [Idle EXCEPT !.cmd = "add", !.pc = "link", !.at = q, !.specs = specs,
                            !.dev = dev, !.live = live, !.pure = pure, !.todo = specs]
  BY DEF StartAdd
<1>2. UNCHANGED <<stored, channel, project, consumes, deps, lock, disk, aside>>
  BY DEF StartAdd, db, files
<1>3. /\ job' \in Job /\ job'.pc = "link" /\ job'.cmd = "add" /\ job'.at = q
      /\ job'.specs = specs /\ job'.todo = specs /\ job'.failed = {} /\ job'.gone = {}
      /\ job'.orig = {} /\ job'.moving = {}
  BY <1>1 DEF Idle, Job, Adding
<1>4. Typed'
  BY <1>2, <1>3 DEF IInv, Typed, R!TypeOK
<1>5. Phases' /\ Linked' /\ Reading' /\ Writing' /\ InFiles' /\ InRows'
  BY <1>3 DEF Phases, Linked, Reading, Writing, InFiles, InRows, Adding, Pushing
<1>6. Referenced'
  BY <1>2 DEF IInv, Referenced, HasCopy
<1> QED
  BY <1>3, <1>4, <1>5, <1>6, AddStep DEF Adding

(* What is linked is some build.                                           *)
LEMMA Resolving ==
  ASSUME IInv, NEW x \in Pkg, NEW want \in resolveAddSpec(x)
  PROVE  want \in R!Consumption
<1>1. CASE \E t \in Tag : channel[x][t] # None /\
             want = [hash |-> channel[x][t], tag |-> t, pinned |-> FALSE]
  <2>1. \A t \in Tag : channel[x][t] # None => channel[x][t] \in Hash
    BY DEF IInv, Typed, R!TypeOK
  <2> QED
    BY <1>1, <2>1 DEF R!Consumption
<1>2. CASE \E h \in Hash : want = [hash |-> h, tag |-> Latest, pinned |-> TRUE]
  BY Facts, <1>2 DEF R!Consumption
<1> QED
  BY <1>1, <1>2 DEF resolveAddSpec

(* A rename touches one package in one project, and loses no copy.         *)
Renamed(i, q, x, want) ==
    /\ disk' \in Copies /\ aside' \in Copies
    /\ \A p \in Project, y \in Pkg : p # q \/ y # x => disk'[p][y] = disk[p][y]
    /\ \A p \in Project, y \in Pkg : HasCopy(p, y) => HasCopy(p, y)'
    /\ \/ job' = [job EXCEPT !.moving = @ \cup {i}, !.want[x] = want]
       \/ /\ job' = [job EXCEPT !.todo = @ \ {i}, !.moving = @ \ {i}, !.want[x] = want]
          /\ disk'[q][x] = IF job.live THEN "live" ELSE want.hash
       \/ Fail(i)

LEMMA Renames ==
  ASSUME IInv, NEW q \in Project, NEW x \in Pkg, NEW i \in Pkg \cup Project,
         NEW want \in R!Consumption, Relink(i, q, x, want)
  PROVE  Renamed(i, q, x, want)
<1> USE Facts
<1> DEFINE new == IF job.live THEN "live" ELSE want.hash
<1>1. new \in Hash \cup {"live"} /\ new # None
  BY DEF R!Consumption
<1>2. disk \in Copies /\ aside \in Copies
  BY DEF IInv, Typed
<1>3. PICK d \in Hash \cup {"live", None}, a \in Hash \cup {"live", None} :
        /\ disk' = [disk EXCEPT ![q][x] = d] /\ aside' = [aside EXCEPT ![q][x] = a]
        /\ HasCopy(q, x) => d # None \/ a # None
        /\ \/ job' = [job EXCEPT !.moving = @ \cup {i}, !.want[x] = want]
           \/ /\ job' = [job EXCEPT !.todo = @ \ {i}, !.moving = @ \ {i}, !.want[x] = want]
              /\ d = new
           \/ Fail(i)
  <2>1. disk[q][x] \in Hash \cup {"live", None} /\ aside[q][x] \in Hash \cup {"live", None}
    BY <1>2 DEF Copies
  <2> QED
    BY <1>1, <2>1 DEF Relink, HasCopy
<1> HIDE DEF new
<1>4. /\ disk' \in Copies /\ aside' \in Copies /\ disk'[q][x] = d /\ aside'[q][x] = a
      /\ \A p \in Project, y \in Pkg : p # q \/ y # x =>
            disk'[p][y] = disk[p][y] /\ aside'[p][y] = aside[p][y]
  BY <1>2, <1>3 DEF Copies
<1>5. \A p \in Project, y \in Pkg : HasCopy(p, y) => HasCopy(p, y)'
  BY <1>3, <1>4 DEF HasCopy
<1> QED
  BY <1>3, <1>4, <1>5 DEF new, Renamed

LEMMA Links ==
  ASSUME IInv, NEW x \in job.todo \cap Pkg, linkPackage(x)
  PROVE  IInv'
<1> USE Facts
<1>1. /\ job.pc = "link" /\ UNCHANGED <<stored, channel, project, consumes, deps, lock>>
      /\ job \in Job /\ job.at \in Project /\ job.cmd = "add"
      /\ job.todo \subseteq job.specs /\ job.failed \subseteq job.specs /\ job.gone = {}
      /\ job.orig = {} /\ job.todo \cap job.failed = {}
  BY DEF linkPackage, At, db, IInv, Typed, Phases, Adding
<1>2. PICK want \in R!Consumption \cup {None} :
        /\ disk' \in Copies /\ aside' \in Copies
        /\ \A p \in Project, y \in Pkg : p # job.at \/ y # x => disk'[p][y] = disk[p][y]
        /\ \A p \in Project, y \in Pkg : HasCopy(p, y) => HasCopy(p, y)'
        /\ \/ want # None /\ job' = [job EXCEPT !.moving = @ \cup {x}, !.want[x] = want]
           \/ /\ want # None
              /\ job' = [job EXCEPT !.todo = @ \ {x}, !.moving = @ \ {x}, !.want[x] = want]
              /\ disk'[job.at][x] = IF job.live THEN "live" ELSE want.hash
           \/ want = None /\ Fail(x)
  <2>1. CASE Fail(x) /\ UNCHANGED copies
    BY <2>1 DEF IInv, Typed, copies, HasCopy
  <2>2. ASSUME NEW want \in IF x \in job.moving THEN {job.want[x]} ELSE resolveAddSpec(x),
               Relink(x, job.at, x, want)
        PROVE  want \in R!Consumption
    <3>1. CASE x \in job.moving
      <4>1. job.want[x] # None
        BY <1>1, <3>1 DEF IInv, Phases
      <4> QED
        BY <1>1, <2>2, <3>1, <4>1 DEF Job
    <3>2. CASE x \notin job.moving
      BY <2>2, <3>2, Resolving
    <3> QED
      BY <3>1, <3>2
  <2>3. CASE \E want \in IF x \in job.moving THEN {job.want[x]} ELSE resolveAddSpec(x) :
                Relink(x, job.at, x, want)
    <3>1. PICK want \in R!Consumption : Relink(x, job.at, x, want)
      BY <2>2, <2>3
    <3>2. /\ disk' \in Copies /\ aside' \in Copies
          /\ \A p \in Project, y \in Pkg : p # job.at \/ y # x => disk'[p][y] = disk[p][y]
          /\ \A p \in Project, y \in Pkg : HasCopy(p, y) => HasCopy(p, y)'
          /\ \/ job' = [job EXCEPT !.moving = @ \cup {x}, !.want[x] = want]
             \/ /\ job' = [job EXCEPT !.todo = @ \ {x}, !.moving = @ \ {x}, !.want[x] = want]
                /\ disk'[job.at][x] = IF job.live THEN "live" ELSE want.hash
             \/ Fail(x)
      <4>1. PICK at \in Project : at = job.at
        BY <1>1
      <4>2. Relink(x, at, x, want)
        BY <3>1, <4>1 DEF Relink
      <4>3. Renamed(x, at, x, want)
        BY <4>2, Renames
      <4> QED
        BY <4>1, <4>3 DEF Renamed
    <3>3. CASE Fail(x)
      BY <3>2, <3>3
    <3>4. CASE ~Fail(x)
      BY <3>2, <3>4
    <3> QED
      BY <3>3, <3>4
  <2> QED
    BY <2>1, <2>3 DEF linkPackage
<1> DEFINE wants == [job.want EXCEPT ![x] = want]
<1>3. wants \in [Pkg -> R!Consumption \cup {None}] /\ wants[x] = want
      /\ \A y \in Pkg \ {x} : wants[y] = job.want[y]
  BY <1>1 DEF Job
<1>4. \/ want # None /\ job' = [job EXCEPT !.moving = @ \cup {x}, !.want = wants]
      \/ /\ want # None /\ job' = [job EXCEPT !.todo = @ \ {x}, !.moving = @ \ {x}, !.want = wants]
         /\ disk'[job.at][x] = IF job.live THEN "live" ELSE want.hash
      \/ /\ want = None
         /\ job' = [job EXCEPT !.todo = @ \ {x}, !.moving = @ \ {x}, !.failed = @ \cup {x},
                               !.want = wants]
  <2>1. want = None => wants = [y \in Pkg |-> IF y = x THEN None ELSE job.want[y]]
    BY <1>1 DEF Job
  <2> QED
    BY <1>2, <2>1 DEF Fail
<1> HIDE DEF wants
<1>5. PICK todo \in {job.todo, job.todo \ {x}}, moving \in {job.moving \cup {x}, job.moving \ {x}},
           failed \in {job.failed, job.failed \cup {x}} :
        /\ job' = [job EXCEPT !.todo = todo, !.moving = moving, !.failed = failed, !.want = wants]
        /\ x \in todo => x \notin failed
        /\ x \in moving => want # None
        /\ x \notin todo \cup failed =>
              want # None /\ disk'[job.at][x] = IF job.live THEN "live" ELSE want.hash
  <2>1. CASE want # None /\ job' = [job EXCEPT !.moving = @ \cup {x}, !.want = wants]
    <3>1. job' = [job EXCEPT !.todo = job.todo, !.moving = job.moving \cup {x},
                             !.failed = job.failed, !.want = wants]
      BY <1>1, <2>1 DEF Job
    <3> QED
      BY <1>1, <2>1, <3>1
  <2>2. CASE /\ want # None
             /\ job' = [job EXCEPT !.todo = @ \ {x}, !.moving = @ \ {x}, !.want = wants]
             /\ disk'[job.at][x] = IF job.live THEN "live" ELSE want.hash
    <3>1. job' = [job EXCEPT !.todo = job.todo \ {x}, !.moving = job.moving \ {x},
                             !.failed = job.failed, !.want = wants]
      BY <1>1, <2>2 DEF Job
    <3> QED
      BY <2>2, <3>1
  <2>3. CASE /\ want = None
             /\ job' = [job EXCEPT !.todo = @ \ {x}, !.moving = @ \ {x}, !.failed = @ \cup {x},
                                   !.want = wants]
    BY <2>3
  <2> QED
    BY <1>4, <2>1, <2>2, <2>3
<1>6. /\ job' \in Job /\ job'.pc = "link" /\ job'.cmd = "add" /\ job'.at = job.at
      /\ job'.specs = job.specs /\ job'.todo = todo /\ job'.failed = failed
      /\ job'.moving = moving
      /\ job'.gone = {} /\ job'.live = job.live /\ job'.want = wants /\ job'.orig = {}
  BY <1>1, <1>3, <1>5 DEF Job
<1>7. Typed'
  BY <1>1, <1>2, <1>6 DEF IInv, Typed, R!TypeOK
<1>8. Phases'
  <2>1. todo \subseteq job.specs /\ failed \subseteq job.specs /\ todo \cap failed = {}
    BY <1>1, <1>5
  <2>2. \A y \in moving : y \in Pkg => wants[y] # None
    BY <1>1, <1>3, <1>5 DEF IInv, Phases
  <2> QED
    BY <1>1, <1>6, <2>1, <2>2 DEF Phases, Adding, Pushing
<1>9. Reading' /\ Writing' /\ InFiles' /\ InRows'
  BY <1>6 DEF Reading, Writing, InFiles, InRows
<1>10. Linked'
  <2> SUFFICES ASSUME NEW y \in job.specs \ failed, y \notin todo
               PROVE  wants[y] # None
                      /\ disk'[job.at][y] = IF job.live THEN "live" ELSE wants[y].hash
    BY <1>6 DEF Linked, OnDisk
  <2>1. CASE y = x
    BY <1>3, <1>5, <2>1
  <2>2. CASE y # x
    <3>1. y \in Pkg /\ job.want[y] # None /\ OnDisk(y)
      BY <1>1, <1>5, <2>2 DEF IInv, Linked, Adding, Job
    <3> QED
      BY <1>1, <1>2, <1>3, <2>2, <3>1 DEF OnDisk
  <2> QED
    BY <2>1, <2>2
<1>11. Referenced'
  BY <1>1, <1>2 DEF IInv, Referenced
<1> QED
  BY <1>6, <1>7, <1>8, <1>9, <1>10, <1>11, AddStep DEF Adding

LEMMA Loads ==
  ASSUME IInv, Load
  PROVE  IInv'
<1> USE Facts
<1> DEFINE new == {x \in Pkg : lock[job.at][x] = None}
           l == lock[job.at]
           rest == IF job.pure THEN {} ELSE job.specs \ job.failed
<1>1. /\ job.pc = "link" /\ UNCHANGED <<stored, channel, project, consumes, deps, lock, disk, aside>>
      /\ job \in Job /\ job.at \in Project /\ job.cmd = "add" /\ job.todo = {}
      /\ job.failed \subseteq job.specs /\ job.gone = {} /\ job.orig = {}
      /\ l \in LockFile /\ rest \in SUBSET (Pkg \cup Project) /\ new \in SUBSET Pkg
  BY DEF Load, At, db, files, IInv, Typed, Phases, Adding, Job
<1>2. job' = [job EXCEPT !.pc = "read", !.lock = l, !.new = new, !.todo = rest]
  BY DEF Load
<1>3. (\A x \in Pkg : x \in new <=> l[x] = None) /\ rest \cap job.failed = {}
      /\ rest \subseteq job.specs
      /\ IF job.pure THEN rest = {} ELSE job.specs \ (job.failed \cup rest) = {}
  OBVIOUS
<1> HIDE DEF new, rest
<1>4. /\ job' \in Job /\ job'.pc = "read" /\ job'.cmd = "add" /\ job'.at = job.at
      /\ job'.specs = job.specs /\ job'.todo = rest /\ job'.failed = job.failed
      /\ job'.gone = {} /\ job'.live = job.live /\ job'.want = job.want
      /\ job'.lock = l /\ job'.new = new /\ job'.orig = {} /\ job'.pure = job.pure
  BY <1>1, <1>2 DEF Job, Adding
<1>5. Typed'
  BY <1>1, <1>4 DEF IInv, Typed, R!TypeOK
<1>6. Phases' /\ Writing' /\ InFiles' /\ InRows'
  BY <1>1, <1>3, <1>4 DEF Phases, Writing, InFiles, InRows, Adding, Pushing
<1>7. Linked'
  BY <1>1, <1>4 DEF IInv, Linked, OnDisk, Adding
<1>8. Reading'
  BY <1>1, <1>3, <1>4 DEF Reading, User
<1>9. Referenced'
  BY <1>1 DEF IInv, Referenced, HasCopy
<1> QED
  BY <1>4, <1>5, <1>6, <1>7, <1>8, <1>9, AddStep DEF Adding

(* Rolling a package back unlinks nothing that is referred to: it was new, *)
(* and package.json is not written for it yet.                             *)
LEMMA RollsBack ==
  ASSUME IInv, NEW x \in job.todo \cap Pkg, job.pc \in {"read", "write"}, rollBack(x),
         UNCHANGED <<stored, channel, project, consumes, deps, lock, aside>>
  PROVE  IInv'
<1> USE Facts
<1> DEFINE new == x \in job.new
           locks == [job.lock EXCEPT ![x] = IF new THEN None ELSE @]
           dirt == job.dirty \/ (new /\ At("write"))
           wants == [job.want EXCEPT ![x] = None]
<1>1. /\ job \in Job /\ job.at \in Project /\ job.cmd = "add" /\ job.lock \in LockFile
      /\ job.todo \subseteq job.specs /\ job.failed \subseteq job.specs
      /\ job.gone \subseteq job.failed /\ job.todo \cap job.failed = {}
      /\ lock[job.at] \in LockFile
  BY DEF IInv, Typed, Phases, Adding
<1>2. job' = [job EXCEPT !.todo = @ \ {x}, !.failed = @ \cup {x}, !.gone = @ \cup {x},
                         !.lock = locks, !.want = wants, !.dirty = dirt]
  BY DEF rollBack
<1>3. /\ locks \in LockFile /\ locks[x] = (IF new THEN None ELSE job.lock[x])
      /\ \A y \in Pkg \ {x} : locks[y] = job.lock[y]
      /\ ~new => locks = job.lock
  BY <1>1 DEF LockFile
<1>4. dirt \in BOOLEAN /\ (job.dirty => dirt) /\ (new /\ job.pc = "write" => dirt)
  BY <1>1 DEF At, Job
<1>14. wants \in [Pkg -> R!Consumption \cup {None}] /\ \A y \in Pkg \ {x} : wants[y] = job.want[y]
  BY <1>1 DEF Job
<1> HIDE DEF locks, dirt, wants
<1>5. /\ job' \in Job /\ job'.pc = job.pc /\ job'.cmd = "add" /\ job'.at = job.at
      /\ job'.specs = job.specs /\ job'.todo = job.todo \ {x}
      /\ job'.failed = job.failed \cup {x} /\ job'.gone = job.gone \cup {x}
      /\ job'.live = job.live /\ job'.pure = job.pure /\ job'.want = wants /\ job'.lock = locks
      /\ job'.new = job.new /\ job'.orig = job.orig /\ job'.dirty = dirt
  BY <1>1, <1>2, <1>3, <1>4, <1>14 DEF Job
<1>6. /\ disk' \in Copies
      /\ \A q \in Project, y \in Pkg :
            disk'[q][y] = disk[q][y] \/ (q = job.at /\ y = x /\ new)
  <2>1. disk' = disk \/ (new /\ disk' = [disk EXCEPT ![job.at][x] = None])
    BY DEF rollBack
  <2>2. disk \in Copies
    BY DEF IInv, Typed
  <2> QED
    BY <1>1, <2>1, <2>2 DEF Copies
<1>7. Typed'
  BY <1>5, <1>6 DEF IInv, Typed, R!TypeOK
<1>8. Phases'
  BY <1>1, <1>3, <1>5 DEF Phases, Adding, Pushing
<1>9. Linked'
  BY <1>1, <1>5, <1>6, <1>14 DEF IInv, Linked, OnDisk, Adding, Job
<1>10. Reading'
  <2> SUFFICES ASSUME job.pc = "read" PROVE Reading'
    BY <1>5 DEF Reading
  <2>1. locks = lock[job.at]
    <3>1. new => job.lock[x] = None
      BY DEF IInv, Reading
    <3>2. \A y \in Pkg : locks[y] = job.lock[y]
      BY <1>3, <3>1
    <3> QED
      BY <1>1, <1>3, <3>2 DEF IInv, Reading, LockFile
  <2> QED
    BY <1>1, <1>5, <2>1 DEF IInv, Reading, User
<1>11. Writing'
  <2> SUFFICES ASSUME job.pc = "write" PROVE Writing'
    BY <1>5 DEF Writing
  <2>1. \A y \in Pkg : \/ locks[y] = lock[job.at][y]
                       \/ y \in job'.gone \cap job.new /\ locks[y] = None
    BY <1>3, <1>5 DEF IInv, Writing
  <2>2. dirt \/ locks = lock[job.at]
    BY <1>3, <1>4 DEF IInv, Writing
  <2>3. \A y \in job'.gone \cap job.new : locks[y] = None
    BY <1>1, <1>3, <1>5 DEF IInv, Writing, Job
  <2>4. \A y \in job.new : Has(deps[job.at][y], "lnpm") =>
                             y \in job.specs \ (job'.failed \cup job'.todo)
    BY <1>5 DEF IInv, Writing
  <2>5. \A y \in job'.todo : User(y) => Orig(y)
    BY <1>5 DEF IInv, Writing
  <2>6. \A y \in job.new \cap (job'.todo \cup job'.gone) : Orig(y) => User(y)
    BY <1>5 DEF IInv, Writing
  <2> QED
    BY <1>5, <2>1, <2>2, <2>3, <2>4, <2>5, <2>6 DEF Writing, User, Orig
<1>12. InFiles' /\ InRows'
  BY <1>1, <1>5, <1>14 DEF Job, IInv, InFiles, InRows, InLock, InPackageJSON
<1>13. Referenced'
  <2>1. new => ~Has(deps[job.at][x], "lnpm")
    BY <1>1 DEF IInv, Reading, Writing, Referenced
  <2> QED
    BY <1>6, <2>1 DEF IInv, Referenced, HasCopy
<1> QED
  BY <1>5, <1>7, <1>8, <1>9, <1>10, <1>11, <1>12, <1>13, AddStep DEF Adding

LEMMA Reads ==
  ASSUME IInv, NEW x \in job.todo \cap Pkg, readPackageJSONDeps(x)
  PROVE  IInv'
<1> USE Facts
<1>1. job.pc = "read" /\ UNCHANGED <<stored, channel, project, consumes, deps, lock, aside>>
  BY DEF readPackageJSONDeps, At, db
<1>2. CASE rollBack(x)
  BY <1>1, <1>2, RollsBack
<1> DEFINE o == IF Has(deps[job.at][x], "user") THEN job.orig \cup {x} ELSE job.orig
<1>3. CASE job' = [job EXCEPT !.todo = @ \ {x}, !.orig = o] /\ UNCHANGED disk
  <2>1. /\ job \in Job /\ job.at \in Project /\ job.cmd = "add" /\ job.lock \in LockFile
        /\ job.todo \subseteq job.specs /\ job.failed \subseteq job.specs
        /\ job.gone \subseteq job.failed /\ job.todo \cap job.failed = {}
    BY <1>1 DEF IInv, Typed, Phases, Adding
  <2>2. o \in SUBSET Pkg /\ (User(x) => x \in o) /\ job.orig \subseteq o
        /\ (\A y \in o : y \in job.orig \/ User(y))
    BY <2>1 DEF User, Job
  <2> HIDE DEF o
  <2>3. /\ job' \in Job /\ job'.pc = "read" /\ job'.cmd = "add" /\ job'.at = job.at
        /\ job'.specs = job.specs /\ job'.todo = job.todo \ {x} /\ job'.failed = job.failed
        /\ job'.gone = job.gone /\ job'.live = job.live /\ job'.want = job.want
        /\ job'.lock = job.lock /\ job'.new = job.new /\ job'.orig = o /\ job'.pure = job.pure
    BY <1>1, <1>3, <2>1, <2>2 DEF Job
  <2>4. Typed'
    BY <1>1, <1>3, <2>3 DEF IInv, Typed, R!TypeOK
  <2>5. Phases' /\ Writing' /\ InFiles' /\ InRows'
    BY <2>1, <2>3 DEF Phases, Writing, InFiles, InRows, Adding, Pushing
  <2>6. Linked'
    BY <1>1, <1>3, <2>3 DEF IInv, Linked, OnDisk, Adding
  <2>7. Reading'
    BY <1>1, <2>2, <2>3 DEF IInv, Reading, User
  <2>8. Referenced'
    BY <1>1, <1>3 DEF IInv, Referenced, HasCopy
  <2> QED
    BY <2>3, <2>4, <2>5, <2>6, <2>7, <2>8, AddStep DEF Adding
<1> QED
  BY <1>2, <1>3 DEF readPackageJSONDeps

(* What is saved: an entry for whatever has not failed, with the user's    *)
(* specifier where there is one, and for the rest what was there.          *)
LEMMA Saving ==
  ASSUME IInv, job.pc = "read", job.todo = {}
  PROVE  /\ Entries \in LockFile
         /\ \A x \in Pkg \ (job.specs \ job.failed) : Entries[x] = lock[job.at][x]
         /\ \A x \in job.specs \ job.failed :
               /\ Entries[x] # None
               /\ Entries[x].hash = job.want[x].hash /\ Entries[x].pinned = job.want[x].pinned
               /\ Entries[x].orig <=> x \in job.orig \/ Orig(x)
<1> USE Facts
<1>1. /\ job \in Job /\ job.at \in Project /\ job.lock = lock[job.at] /\ job.lock \in LockFile
      /\ job.failed \subseteq job.specs
  BY DEF IInv, Typed, Phases, Adding, Reading
<1>2. ASSUME NEW x \in job.specs \ job.failed
      PROVE  /\ Entries[x] \in Entry
             /\ Entries[x].hash = job.want[x].hash /\ Entries[x].pinned = job.want[x].pinned
             /\ Entries[x].orig <=> x \in job.orig \/ Orig(x)
  <2> DEFINE o == x \in job.orig \/ (job.lock[x] # None /\ job.lock[x].orig)
  <2>1. x \in Pkg /\ job.want[x] # None
    BY <1>1 DEF IInv, Linked, Adding, Job
  <2>2. job.want[x] \in R!Consumption
    BY <1>1, <2>1 DEF Job
  <2>3. Entries[x] = [hash |-> job.want[x].hash, pinned |-> job.want[x].pinned, orig |-> o]
    BY <2>1 DEF Entries
  <2>4. o \in BOOLEAN /\ (o <=> x \in job.orig \/ Orig(x))
    BY <1>1 DEF Orig
  <2> HIDE DEF o
  <2> QED
    BY <2>2, <2>3, <2>4 DEF Entry, R!Consumption
<1>3. \A x \in Pkg \ (job.specs \ job.failed) : Entries[x] = lock[job.at][x]
  BY <1>1 DEF Entries
<1>4. \A x \in Pkg : Entries[x] \in Entry \cup {None}
  <2> TAKE x \in Pkg
  <2>1. lock[job.at][x] \in Entry \cup {None}
    BY <1>1 DEF LockFile
  <2> QED
    BY <1>2, <1>3, <2>1
<1>5. Entries \in LockFile
  BY <1>4 DEF Entries, LockFile
<1> QED
  BY <1>2, <1>3, <1>5

LEMMA Saves ==
  ASSUME IInv, LockSave
  PROVE  IInv'
<1> USE Facts
<1> DEFINE e == Entries
           rest == IF job.pure THEN {} ELSE job.specs \ job.failed
<1>1. /\ job.pc = "read" /\ UNCHANGED <<stored, channel, project, consumes, deps, disk, aside>>
      /\ job \in Job /\ job.at \in Project /\ job.cmd = "add" /\ job.todo = {}
      /\ job.failed \subseteq job.specs /\ job.gone \subseteq job.failed
      /\ lock[job.at] \in LockFile /\ rest \in SUBSET (Pkg \cup Project)
  BY DEF LockSave, At, db, copies, IInv, Typed, Phases, Adding, Job
<1>2. /\ e \in LockFile
      /\ \A x \in Pkg \ (job.specs \ job.failed) : e[x] = lock[job.at][x]
      /\ \A x \in job.specs \ job.failed :
            /\ e[x] # None
            /\ e[x].hash = job.want[x].hash /\ e[x].pinned = job.want[x].pinned
            /\ e[x].orig <=> x \in job.orig \/ Orig(x)
  BY <1>1, Saving
<1>3. lock' = [lock EXCEPT ![job.at] = e]
      /\ job' = [job EXCEPT !.pc = "write", !.todo = rest, !.orig = {}, !.lock = e]
  BY DEF LockSave
<1>4. /\ rest \cap job.failed = {} /\ rest \subseteq job.specs
      /\ job.pure \/ \A x \in job.specs \ job.failed : x \in rest
      /\ job.pure => rest = {}
  OBVIOUS
<1> HIDE DEF e
<1>5. /\ job' \in Job /\ job'.pc = "write" /\ job'.cmd = "add" /\ job'.at = job.at
      /\ job'.specs = job.specs /\ job'.todo = rest /\ job'.failed = job.failed
      /\ job'.gone = job.gone /\ job'.live = job.live /\ job'.want = job.want
      /\ job'.lock = e /\ job'.new = job.new /\ job'.pure = job.pure
  BY <1>1, <1>2, <1>3 DEF Job, Adding
<1>6. /\ lock' \in [Project -> LockFile] /\ lock'[job.at] = e
      /\ \A q \in Project \ {job.at} : lock'[q] = lock[q]
  BY <1>1, <1>2, <1>3 DEF IInv, Typed
<1>7. Typed'
  BY <1>1, <1>5, <1>6 DEF IInv, Typed, R!TypeOK
<1>8. Phases' /\ Reading' /\ InRows'
  BY <1>1, <1>2, <1>4, <1>5 DEF Phases, Reading, InRows, Adding, Pushing
<1>9. Linked'
  BY <1>1, <1>5 DEF IInv, Linked, OnDisk, Adding
<1>10. Writing'
  <2>1. \A x \in job.gone \cap job.new : e[x] = None
    BY <1>1, <1>2 DEF IInv, Reading, Job
  <2>2. \A x \in job.new : ~Has(deps[job.at][x], "lnpm")
    BY <1>1 DEF IInv, Reading, Referenced, Job
  <2>3. \A x \in rest : User(x) => e[x] # None /\ e[x].orig
    BY <1>1, <1>2 DEF IInv, Reading
  <2>4. ASSUME NEW x \in job.new \cap (rest \cup job.gone), e[x] # None, e[x].orig
        PROVE  User(x)
    <3>1. x \in job.orig \/ Orig(x)
      BY <1>1, <1>2, <2>1, <2>4
    <3>2. ~Orig(x)
      BY <1>1, <2>4 DEF IInv, Reading, Orig, Job
    <3> QED
      BY <1>1, <3>1, <3>2 DEF IInv, Reading
  <2> QED
    BY <1>1, <1>5, <1>6, <2>1, <2>2, <2>3, <2>4 DEF Writing, User, Orig
<1>11. InFiles'
  BY <1>2, <1>4, <1>5, <1>6 DEF InFiles, InLock
<1>12. Referenced'
  BY <1>1, <1>2, <1>6 DEF IInv, Referenced, HasCopy
<1> QED
  BY <1>5, <1>7, <1>8, <1>9, <1>10, <1>11, <1>12, AddStep DEF Adding

LEMMA WritesReference ==
  ASSUME IInv, NEW x \in job.todo \cap Pkg, writeLnpmReference(x)
  PROVE  IInv'
<1> USE Facts
<1>1. job.pc = "write" /\ UNCHANGED <<stored, channel, project, consumes, lock, aside>>
  BY DEF writeLnpmReference, At, db
<1>2. CASE rollBack(x) /\ UNCHANGED deps
  BY <1>1, <1>2, RollsBack
<1>3. CASE ~(rollBack(x) /\ UNCHANGED deps)
  <2>1. PICK f \in Field :
          /\ deps' = [deps EXCEPT ![job.at][x] = [NoDep EXCEPT ![f] = "lnpm"]]
          /\ job' = [job EXCEPT !.todo = @ \ {x}] /\ UNCHANGED disk
    BY <1>3 DEF writeLnpmReference, Field
  <2> DEFINE d == [NoDep EXCEPT ![f] = "lnpm"]
  <2>2. d \in Dep /\ Has(d, "lnpm") /\ Has(d, "none") /\ ~Has(d, "user")
    BY NoDeps
  <2> HIDE DEF d
  <2>3. /\ job \in Job /\ job.at \in Project /\ job.cmd = "add" /\ job.lock \in LockFile
        /\ job.todo \subseteq job.specs /\ job.failed \subseteq job.specs
        /\ job.gone \subseteq job.failed /\ job.todo \cap job.failed = {}
    BY <1>1 DEF IInv, Typed, Phases, Adding
  <2>4. /\ job' \in Job /\ job'.pc = "write" /\ job'.cmd = "add" /\ job'.at = job.at
        /\ job'.specs = job.specs /\ job'.todo = job.todo \ {x} /\ job'.failed = job.failed
        /\ job'.gone = job.gone /\ job'.live = job.live /\ job'.want = job.want
        /\ job'.lock = job.lock /\ job'.new = job.new /\ job'.dirty = job.dirty
        /\ job'.pure = job.pure
    BY <1>1, <2>1, <2>3 DEF Job
  <2>5. /\ deps' \in [Project -> [Pkg -> Dep]] /\ deps'[job.at][x] = d
        /\ \A q \in Project, y \in Pkg : q # job.at \/ y # x => deps'[q][y] = deps[q][y]
    BY <2>1, <2>2, <2>3 DEF d, IInv, Typed
  <2>6. Typed'
    BY <1>1, <2>1, <2>4, <2>5 DEF IInv, Typed, R!TypeOK
  <2>7. Phases' /\ Reading' /\ InRows'
    BY <2>3, <2>4 DEF Phases, Reading, InRows, Adding, Pushing
  <2>8. Linked'
    BY <1>1, <2>1, <2>3, <2>4 DEF IInv, Linked, OnDisk, Adding
  <2>9. Writing'
    <3>1. \A y \in job.new : Has(deps'[job.at][y], "lnpm") =>
                               y \in job.specs \ (job.failed \cup job'.todo)
      BY <1>1, <2>3, <2>4, <2>5 DEF IInv, Writing, Job
    <3>2. \A y \in job'.todo \cap Pkg : deps'[job.at][y] = deps[job.at][y]
      BY <2>3, <2>4, <2>5
    <3>3. \A y \in job.new \cap (job'.todo \cup job.gone) : deps'[job.at][y] = deps[job.at][y]
      BY <2>3, <2>4, <2>5 DEF Job
    <3>4. \A y \in job'.todo : y \in Pkg /\ y \in job.todo
      BY <2>3, <2>4 DEF Job
    <3> QED
      BY <1>1, <2>4, <3>1, <3>2, <3>3, <3>4 DEF IInv, Writing, User, Orig
  <2>10. InFiles'
    BY <1>1, <2>2, <2>3, <2>4, <2>5 DEF IInv, InFiles, InLock, InPackageJSON, Job
  <2>11. Referenced'
    <3>1. lock[job.at][x] # None /\ disk[job.at][x] # None
      <4>1. lock[job.at][x] # None /\ job.want[x] # None /\ OnDisk(x)
        BY <1>1, <2>3 DEF IInv, InFiles, InLock, Linked, Adding
      <4>2. job.want[x] \in R!Consumption
        BY <2>3, <4>1 DEF Job
      <4> QED
        BY <4>1, <4>2 DEF OnDisk, R!Consumption
    <3> QED
      BY <1>1, <2>1, <2>5, <3>1 DEF IInv, Referenced, HasCopy
  <2> QED
    BY <2>4, <2>6, <2>7, <2>8, <2>9, <2>10, <2>11, AddStep DEF Adding
<1> QED
  BY <1>2, <1>3

LEMMA WritesAgain ==
  ASSUME IInv, Written
  PROVE  IInv'
<1> USE Facts
<1> DEFINE l == IF job.dirty THEN job.lock ELSE lock[job.at]
<1>1. /\ job.pc = "write" /\ UNCHANGED <<stored, channel, project, consumes, deps, disk, aside>>
      /\ job \in Job /\ job.at \in Project /\ job.cmd = "add" /\ job.todo = {}
      /\ job.failed \subseteq job.specs /\ job.gone \subseteq job.failed
      /\ job.lock \in LockFile
  BY DEF Written, At, db, copies, IInv, Typed, Phases, Adding
<1>2. job' = [job EXCEPT !.pc = "project", !.lock = None, !.dev = FALSE, !.dirty = FALSE]
      /\ lock' = IF job.dirty THEN [lock EXCEPT ![job.at] = job.lock] ELSE lock
  BY DEF Written
<1>3. /\ job' \in Job /\ job'.pc = "project" /\ job'.cmd = "add" /\ job'.at = job.at
      /\ job'.specs = job.specs /\ job'.todo = {} /\ job'.failed = job.failed
      /\ job'.gone = job.gone /\ job'.live = job.live /\ job'.want = job.want
      /\ job'.new = job.new /\ job'.pure = job.pure
  BY <1>1, <1>2 DEF Job, Adding
<1>4. l = job.lock
  BY DEF IInv, Writing, At, Written
<1>5. /\ lock' \in [Project -> LockFile] /\ lock'[job.at] = job.lock
      /\ \A q \in Project \ {job.at} : lock'[q] = lock[q]
  BY <1>1, <1>2, <1>4 DEF IInv, Typed
<1>6. Typed'
  BY <1>1, <1>3, <1>5 DEF IInv, Typed, R!TypeOK
<1>7. Phases' /\ Reading' /\ Writing' /\ InRows'
  BY <1>1, <1>3 DEF Phases, Reading, Writing, InRows, Adding, Pushing
<1>8. Linked'
  BY <1>1, <1>3 DEF IInv, Linked, OnDisk, Adding
<1>9. InFiles'
  <2>1. \A x \in job.specs \ job.failed : job.lock[x] = lock[job.at][x]
    BY <1>1 DEF IInv, Writing, Job
  <2>2. \A x \in job.gone \cap job.new : job.lock[x] = None
    BY <1>1 DEF IInv, Writing
  <2> QED
    BY <1>1, <1>3, <1>5, <2>1, <2>2 DEF IInv, InFiles, InLock, InPackageJSON
<1>10. Referenced'
  <2>1. ASSUME NEW x \in Pkg, Has(deps[job.at][x], "lnpm")
        PROVE  job.lock[x] = lock[job.at][x]
    BY <1>1, <2>1 DEF IInv, Writing
  <2> QED
    BY <1>1, <1>5, <2>1 DEF IInv, Referenced, HasCopy
<1> QED
  BY <1>3, <1>6, <1>7, <1>8, <1>9, <1>10, AddStep DEF Adding

LEMMA InsertsProject ==
  ASSUME IInv, InsertProject
  PROVE  IInv'
<1> USE Facts
<1> DEFINE rest == job.specs \ job.failed
<1>1. /\ job.pc = "project" /\ UNCHANGED <<deps, lock, disk, aside>>
      /\ job \in Job /\ job.at \in Project /\ job.cmd = "add" /\ R!InsertProject(job.at, NoDevice)
      /\ job.failed \subseteq job.specs /\ job.gone \subseteq job.failed
      /\ rest \in SUBSET (Pkg \cup Project) /\ rest \subseteq job.specs
      /\ \A x \in rest : job.want[x] # None
  BY DEF InsertProject, At, files, IInv, Typed, Phases, Linked, Adding, Job
<1>2. job' = [job EXCEPT !.pc = "rows", !.todo = rest]
  BY DEF InsertProject, GoOn
<1>3. job.specs \ (job.failed \cup rest) = {}
  OBVIOUS
<1> HIDE DEF rest
<1>4. /\ job' \in Job /\ job'.pc = "rows" /\ job'.cmd = "add" /\ job'.at = job.at
      /\ job'.specs = job.specs /\ job'.todo = rest /\ job'.failed = job.failed
      /\ job'.gone = job.gone /\ job'.live = job.live /\ job'.want = job.want
      /\ job'.new = job.new /\ job'.pure = job.pure
  BY <1>1, <1>2 DEF Job, Adding
<1>5. Typed'
  BY <1>1, <1>4, RegistryTypes DEF IInv, Typed
<1>6. Phases' /\ Reading' /\ Writing' /\ InRows'
  BY <1>1, <1>3, <1>4 DEF Phases, Reading, Writing, InRows, Adding, Pushing
<1>7. Linked'
  BY <1>1, <1>4 DEF IInv, Linked, OnDisk, Adding
<1>8. InFiles'
  BY <1>1, <1>4 DEF IInv, InFiles, InLock, InPackageJSON
<1>9. Referenced'
  BY <1>1 DEF IInv, Referenced, HasCopy
<1> QED
  BY <1>4, <1>5, <1>6, <1>7, <1>8, <1>9, AddStep DEF Adding

LEMMA InsertsLink ==
  ASSUME IInv, NEW x \in job.todo \cap Pkg, InsertLink(x)
  PROVE  IInv'
<1> USE Facts
<1>1. /\ job.pc = "rows" /\ UNCHANGED <<deps, lock, disk, aside>>
      /\ job \in Job /\ job.at \in Project /\ job.cmd = "add"
      /\ job.todo \subseteq job.specs
      /\ job.failed \subseteq job.specs /\ job.gone \subseteq job.failed
  BY DEF InsertLink, At, files, IInv, Typed, Phases, Adding
<1>2. PICK new \in SUBSET Pkg, moving \in SUBSET (Pkg \cup Project),
           wants \in [Pkg -> R!Consumption \cup {None}] :
        /\ job' = [job EXCEPT !.todo = @ \ {x}, !.moving = moving, !.failed = @ \cup new,
                              !.want = wants]
        /\ new \subseteq job.specs
        /\ \A y \in Pkg : y # x => wants[y] = job.want[y]
        /\ \/ /\ new = {} /\ wants = job.want
              /\ R!InsertLink(job.at, x, job.want[x].hash, job.want[x].tag, job.want[x].pinned)
           \/ new = {x} /\ UNCHANGED db
  <2>1. CASE /\ job' = [job EXCEPT !.todo = @ \ {x}]
             /\ R!InsertLink(job.at, x, job.want[x].hash, job.want[x].tag, job.want[x].pinned)
    <3>1. job' = [job EXCEPT !.todo = @ \ {x}, !.moving = job.moving, !.failed = @ \cup {},
                             !.want = job.want]
      BY <1>1, <2>1 DEF Job
    <3> QED
      BY <1>1, <2>1, <3>1 DEF Job
  <2>2. CASE Fail(x) /\ UNCHANGED db
    <3> DEFINE w == [y \in Pkg |-> IF y = x THEN None ELSE job.want[y]]
    <3>1. w \in [Pkg -> R!Consumption \cup {None}]
      BY <1>1 DEF Job
    <3>2. job' = [job EXCEPT !.todo = @ \ {x}, !.moving = job.moving \ {x}, !.failed = @ \cup {x},
                             !.want = w]
      BY <2>2 DEF Fail
    <3>3. \A y \in Pkg : y # x => w[y] = job.want[y]
      OBVIOUS
    <3> HIDE DEF w
    <3> QED
      BY <1>1, <2>2, <3>1, <3>2, <3>3 DEF Job
  <2> QED
    BY <2>1, <2>2 DEF InsertLink
<1>3. /\ job' \in Job /\ job'.pc = "rows" /\ job'.cmd = "add" /\ job'.at = job.at
      /\ job'.specs = job.specs /\ job'.todo = job.todo \ {x}
      /\ job'.failed = job.failed \cup new
      /\ job'.gone = job.gone /\ job'.live = job.live /\ job'.want = wants
      /\ job'.new = job.new /\ job'.pure = job.pure
  BY <1>1, <1>2 DEF Job, Adding
<1>4. /\ R!TypeOK'
      /\ \A y \in job.specs : y # x => consumes'[job.at][y] = consumes[job.at][y]
      /\ x \notin job.failed \cup new => consumes'[job.at][x] = job.want[x]
  <2>1. CASE new = {x} /\ UNCHANGED db
    BY <1>2, <2>1 DEF db, R!TypeOK, IInv, Typed
  <2>2. CASE /\ new = {}
             /\ R!InsertLink(job.at, x, job.want[x].hash, job.want[x].tag, job.want[x].pinned)
    <3>1. job.want[x] \in R!Consumption
      BY <1>1 DEF IInv, Phases, Job
    <3>2. job.want[x].hash \in Hash /\ job.want[x].tag \in Tag /\ job.want[x].pinned \in BOOLEAN
          /\ job.want[x] = [hash |-> job.want[x].hash, tag |-> job.want[x].tag,
                            pinned |-> job.want[x].pinned]
      BY <3>1 DEF R!Consumption
    <3>3. /\ R!TypeOK'
          /\ consumes'[job.at][x] = [hash |-> job.want[x].hash, tag |-> job.want[x].tag,
                                     pinned |-> job.want[x].pinned]
          /\ \A p \in Project, y \in Pkg :
                p # job.at \/ y # x => consumes'[p][y] = consumes[p][y]
      BY <1>1, <2>2, <3>2, RegistryTypes DEF IInv, Typed
    <3> QED
      BY <1>1, <3>2, <3>3 DEF Job
  <2> QED
    BY <1>2, <2>1, <2>2
<1>5. Typed'
  BY <1>1, <1>3, <1>4 DEF IInv, Typed
<1>11. \A y \in job.specs \ (job.failed \cup new) : wants[y] = job.want[y]
  BY <1>1, <1>2 DEF Job
<1>6. Phases' /\ Reading' /\ Writing'
  <2>1. \A y \in job.todo \ {x} : wants[y] # None
    BY <1>1, <1>2 DEF IInv, Phases, Job
  <2> QED
    BY <1>1, <1>2, <1>3, <2>1 DEF Phases, Reading, Writing, Adding, Pushing
<1>7. InRows'
  BY <1>1, <1>2, <1>3, <1>4, <1>11 DEF IInv, InRows
<1>8. Linked'
  BY <1>1, <1>3, <1>11 DEF IInv, Linked, OnDisk, Adding
<1>9. InFiles'
  BY <1>1, <1>3, <1>11 DEF IInv, InFiles, InLock, InPackageJSON
<1>10. Referenced'
  BY <1>1 DEF IInv, Referenced, HasCopy
<1> QED
  BY <1>3, <1>5, <1>6, <1>7, <1>8, <1>9, <1>10, AddStep DEF Adding

-----------------------------------------------------------------------------
(* What a step of a push has to show: nothing is said of an add, and only  *)
(* the registry and the copies change.                                     *)
LEMMA PushStep ==
  ASSUME IInv, job'.pc \in Pushing, job' \in Job, UNCHANGED <<deps, lock>>, R!TypeOK',
         disk' \in Copies, aside' \in Copies,
         \A q \in Project, x \in Pkg : HasCopy(q, x) => HasCopy(q, x)',
         job'.cmd = "push", job'.specs # {}, job'.want[pushed'] # None, ~job'.live, Reached'
  PROVE  IInv'
<1>1. Typed'
  BY DEF IInv, Typed
<1>2. Phases' /\ Linked' /\ Reading' /\ Writing' /\ InFiles' /\ InRows'
  BY DEF Phases, Linked, Reading, Writing, InFiles, InRows, Adding, Pushing
<1>3. Referenced'
  BY DEF IInv, Referenced, HasCopy
<1> QED
  BY <1>1, <1>2, <1>3 DEF IInv

(* The package and the build of a push are settled when it starts.         *)
LEMMA Settled ==
  ASSUME IInv, job.pc \in Pushing
  PROVE  /\ pushed \in job.specs /\ pushed \in Pkg
         /\ job.want[pushed] \in R!Consumption /\ build \in Hash
         /\ job.want[pushed].tag \in Tag
         /\ UNCHANGED <<job.specs, job.want>> => UNCHANGED <<pushed, build>>
<1>1. job \in Job /\ job.specs # {} /\ job.want[pushed] # None
  BY DEF IInv, Typed, Phases
<1>2. pushed \in job.specs /\ pushed \in Pkg
  BY <1>1 DEF pushed, Job
<1>3. job.want[pushed] \in R!Consumption
  BY <1>1, <1>2 DEF Job
<1>4. build \in Hash /\ job.want[pushed].tag \in Tag
  BY <1>3 DEF build, R!Consumption
<1>5. ASSUME UNCHANGED <<job.specs, job.want>>
      PROVE  UNCHANGED <<pushed, build>>
  <2>1. pushed' = pushed
    BY <1>5 DEF pushed
  <2> QED
    BY <1>5, <2>1 DEF build
<1> QED
  BY <1>2, <1>3, <1>4, <1>5

LEMMA StartsPush ==
  ASSUME IInv, StartPush
  PROVE  IInv'
<1> USE Facts
<1>1. PICK x \in Pkg, h \in Hash, t \in Tag :
        job' = [Idle EXCEPT !.cmd = "push", !.pc = "record", !.specs = {x},
                   !.want[x] = [hash |-> h, tag |-> t, pinned |-> FALSE]]
  BY DEF StartPush
<1> DEFINE w == [hash |-> h, tag |-> t, pinned |-> FALSE]
           wants == [Idle.want EXCEPT ![x] = w]
<1>2. job' = [Idle EXCEPT !.cmd = "push", !.pc = "record", !.specs = {x}, !.want = wants]
  BY <1>1
<1>3. w \in R!Consumption
  BY DEF R!Consumption
<1> HIDE DEF w
<1>4. wants \in [Pkg -> R!Consumption \cup {None}] /\ wants[x] = w
  BY <1>3 DEF Idle
<1> HIDE DEF wants
<1>5. /\ job' \in Job /\ job'.pc = "record" /\ job'.cmd = "push" /\ job'.specs = {x}
      /\ job'.want = wants /\ ~job'.live
  BY <1>2, <1>4, Fresh DEF Job, Pushing, Idle
<1>6. pushed' = x
  BY <1>5 DEF pushed
<1>7. UNCHANGED <<stored, channel, project, consumes, deps, lock, disk, aside>>
  BY DEF StartPush, db, files
<1>8. R!TypeOK' /\ disk' \in Copies /\ aside' \in Copies
      /\ \A q \in Project, y \in Pkg : HasCopy(q, y) => HasCopy(q, y)'
  BY <1>7 DEF IInv, Typed, R!TypeOK, HasCopy
<1>9. Reached'
  BY <1>5 DEF Reached
<1> QED
  BY <1>3, <1>4, <1>5, <1>6, <1>7, <1>8, <1>9, PushStep DEF Pushing

LEMMA Records ==
  ASSUME IInv, Record
  PROVE  IInv'
<1> USE Facts
<1>1. /\ job.pc = "record" /\ UNCHANGED <<deps, lock, disk, aside>> /\ job \in Job
      /\ job' = [job EXCEPT !.pc = "find", !.todo = {}] /\ job.cmd = "push"
      /\ R!Publish(pushed, build, job.want[pushed].tag) /\ R!TypeOK
      /\ job.specs # {} /\ job.want[pushed] # None /\ ~job.live
  BY DEF Record, At, GoOn, files, IInv, Typed, Phases, Pushing
<1>2. /\ job' \in Job /\ job'.pc = "find" /\ job'.cmd = "push"
      /\ job'.specs = job.specs /\ job'.want = job.want /\ ~job'.live
  BY <1>1 DEF Job, Pushing
<1>3. pushed' = pushed /\ R!TypeOK'
  BY <1>1, <1>2, Settled, RegistryTypes DEF Pushing
<1>4. /\ disk' \in Copies /\ aside' \in Copies
      /\ \A q \in Project, y \in Pkg : HasCopy(q, y) => HasCopy(q, y)'
  BY <1>1 DEF IInv, Typed, HasCopy
<1>5. Reached'
  BY <1>2 DEF Reached
<1> QED
  BY <1>1, <1>2, <1>3, <1>4, <1>5, PushStep DEF Pushing

LEMMA Finds ==
  ASSUME IInv, GetProjectsForPackage
  PROVE  IInv'
<1> USE Facts
<1> DEFINE due == projectsToPush
<1>1. /\ job.pc = "find" /\ UNCHANGED <<stored, channel, project, consumes, deps, lock, disk, aside>>
      /\ job \in Job /\ job' = [job EXCEPT !.pc = "relink", !.todo = due]
      /\ job.cmd = "push" /\ job.specs # {} /\ job.want[pushed] # None /\ ~job.live
      /\ due \in SUBSET Project
      /\ \A q \in Project : q \in due <=> OnBuild(q)
  BY DEF GetProjectsForPackage, At, GoOn, db, files, IInv, Typed, Phases, Pushing,
         projectsToPush, OnBuild
<1> HIDE DEF due
<1>2. /\ job' \in Job /\ job'.pc = "relink" /\ job'.cmd = "push"
      /\ job'.specs = job.specs /\ job'.want = job.want /\ job'.todo = due /\ ~job'.live
  BY <1>1 DEF Job, Pushing
<1>3. pushed' = pushed /\ build' = build
  BY <1>1, <1>2, Settled DEF Pushing
<1>4. /\ R!TypeOK' /\ disk' \in Copies /\ aside' \in Copies
      /\ \A q \in Project, y \in Pkg : HasCopy(q, y) => HasCopy(q, y)'
  BY <1>1 DEF IInv, Typed, R!TypeOK, HasCopy
<1>5. Reached'
  BY <1>1, <1>2, <1>3 DEF Reached, OnBuild
<1> QED
  BY <1>1, <1>2, <1>3, <1>4, <1>5, PushStep DEF Pushing

LEMMA Relinks ==
  ASSUME IInv, NEW q \in Project, pushToProject(q)
  PROVE  IInv'
<1> USE Facts
<1>1. /\ job.pc = "relink" /\ UNCHANGED <<stored, channel, project, consumes, deps, lock>>
      /\ job \in Job /\ q \in job.todo /\ ~job.live
      /\ job.cmd = "push" /\ job.specs # {} /\ job.want[pushed] # None
  BY DEF pushToProject, At, db, IInv, Typed, Phases, Pushing
<1>2. pushed \in Pkg /\ build \in Hash /\ job.want[pushed] \in R!Consumption
  BY <1>1, Settled DEF Pushing
<1>3. q \notin Pkg /\ [job.want EXCEPT ![pushed] = job.want[pushed]] = job.want
      /\ [x \in Pkg |-> IF x = q THEN None ELSE job.want[x]] = job.want
  BY <1>1, <1>2 DEF Job
<1>9. ASSUME Relink(q, q, pushed, job.want[pushed])
      PROVE  /\ disk' \in Copies /\ aside' \in Copies
             /\ \A p \in Project, x \in Pkg : p # q \/ x # pushed => disk'[p][x] = disk[p][x]
             /\ \A p \in Project, x \in Pkg : HasCopy(p, x) => HasCopy(p, x)'
             /\ \/ job' = [job EXCEPT !.moving = @ \cup {q}, !.want[pushed] = job.want[pushed]]
                \/ /\ job' = [job EXCEPT !.todo = @ \ {q}, !.moving = @ \ {q},
                                         !.want[pushed] = job.want[pushed]]
                   /\ disk'[q][pushed] = IF job.live THEN "live" ELSE job.want[pushed].hash
                \/ Fail(q)
  <2>1. PICK y \in Pkg, want \in R!Consumption : y = pushed /\ want = job.want[pushed]
    BY <1>2
  <2>2. Relink(q, q, y, want)
    BY <1>9, <2>1 DEF Relink
  <2>3. Renamed(q, q, y, want)
    BY <2>2, Renames
  <2> QED
    BY <2>1, <2>3 DEF Renamed
<1>4. PICK todo \in {job.todo, job.todo \ {q}}, moving \in {job.moving, job.moving \cup {q}, job.moving \ {q}},
           failed \in {job.failed, job.failed \cup {q}} :
        /\ job' = [job EXCEPT !.todo = todo, !.moving = moving, !.failed = failed]
        /\ q \in todo \cup failed \/ disk'[q][pushed] \in {build, "live"}
        /\ disk' \in Copies /\ aside' \in Copies
        /\ \A p \in Project, x \in Pkg : p # q \/ x # pushed => disk'[p][x] = disk[p][x]
        /\ \A p \in Project, x \in Pkg : HasCopy(p, x) => HasCopy(p, x)'
  <2>1. CASE disk[q][pushed] = "live" /\ GoOn("relink", job.todo \ {q}) /\ UNCHANGED copies
    <3>1. job' = [job EXCEPT !.todo = job.todo \ {q}, !.moving = job.moving, !.failed = job.failed]
      BY <1>1, <2>1 DEF GoOn, Job
    <3> QED
      BY <2>1, <3>1 DEF copies, IInv, Typed, HasCopy
  <2>2. CASE Fail(q)
    <3>1. job' = [job EXCEPT !.todo = job.todo \ {q}, !.moving = job.moving \ {q},
                             !.failed = job.failed \cup {q}]
      BY <1>1, <1>3, <2>2 DEF Fail, Job
    <3>2. CASE UNCHANGED copies
      BY <3>1, <3>2 DEF copies, IInv, Typed, HasCopy
    <3>3. CASE Relink(q, q, pushed, job.want[pushed])
      <4>1. /\ disk' \in Copies /\ aside' \in Copies
            /\ \A p \in Project, x \in Pkg : p # q \/ x # pushed => disk'[p][x] = disk[p][x]
            /\ \A p \in Project, x \in Pkg : HasCopy(p, x) => HasCopy(p, x)'
        BY <1>9, <3>3
      <4> QED
        BY <3>1, <4>1
    <3> QED
      BY <2>2, <3>2, <3>3 DEF pushToProject, GoOn, copies
  <2>3. CASE Relink(q, q, pushed, job.want[pushed]) /\ ~Fail(q)
    <3>1. /\ disk' \in Copies /\ aside' \in Copies
          /\ \A p \in Project, x \in Pkg : p # q \/ x # pushed => disk'[p][x] = disk[p][x]
          /\ \A p \in Project, x \in Pkg : HasCopy(p, x) => HasCopy(p, x)'
          /\ \/ job' = [job EXCEPT !.moving = @ \cup {q}, !.want[pushed] = job.want[pushed]]
             \/ /\ job' = [job EXCEPT !.todo = @ \ {q}, !.moving = @ \ {q},
                                      !.want[pushed] = job.want[pushed]]
                /\ disk'[q][pushed] = IF job.live THEN "live" ELSE job.want[pushed].hash
      BY <1>9, <2>3
    <3>2. CASE job' = [job EXCEPT !.moving = @ \cup {q}, !.want[pushed] = job.want[pushed]]
      <4>1. job' = [job EXCEPT !.todo = job.todo, !.moving = job.moving \cup {q},
                               !.failed = job.failed]
        BY <1>1, <1>3, <3>2 DEF Job
      <4> QED
        BY <1>1, <3>1, <4>1
    <3>3. CASE /\ job' = [job EXCEPT !.todo = @ \ {q}, !.moving = @ \ {q},
                                     !.want[pushed] = job.want[pushed]]
               /\ disk'[q][pushed] = IF job.live THEN "live" ELSE job.want[pushed].hash
      <4>1. job' = [job EXCEPT !.todo = job.todo \ {q}, !.moving = job.moving \ {q},
                               !.failed = job.failed]
        BY <1>1, <1>3, <3>3 DEF Job
      <4> QED
        BY <1>1, <3>1, <3>3, <4>1 DEF build
    <3> QED
      BY <3>1, <3>2, <3>3
  <2> QED
    BY <2>1, <2>2, <2>3 DEF pushToProject
<1>5. /\ job' \in Job /\ job'.pc = "relink" /\ job'.cmd = "push"
      /\ job'.specs = job.specs /\ job'.want = job.want /\ ~job'.live
      /\ job'.todo = todo /\ job'.failed = failed
  BY <1>1, <1>4 DEF Job
<1>6. pushed' = pushed /\ build' = build
  BY <1>1, <1>5, Settled DEF Pushing
<1>7. R!TypeOK'
  BY <1>1 DEF IInv, Typed, R!TypeOK
<1>8. Reached'
  BY <1>1, <1>2, <1>4, <1>5, <1>6 DEF IInv, Reached, OnBuild
<1> QED
  BY <1>1, <1>4, <1>5, <1>6, <1>7, <1>8, PushStep DEF Pushing

-----------------------------------------------------------------------------
LEMMA Stepping == IInv /\ [Next]_vars => IInv'
<1> SUFFICES ASSUME IInv, [Next]_vars PROVE IInv'
  OBVIOUS
<1>1. CASE StartAdd
  BY <1>1, StartsAdd
<1>2. CASE Load
  BY <1>2, Loads
<1>3. CASE LockSave
  BY <1>3, Saves
<1>4. CASE Written
  BY <1>4, WritesAgain
<1>5. CASE InsertProject
  BY <1>5, InsertsProject
<1>6. ASSUME NEW x \in job.todo \cap Pkg,
             linkPackage(x) \/ readPackageJSONDeps(x) \/ writeLnpmReference(x) \/ InsertLink(x)
      PROVE  IInv'
  BY <1>6, Links, Reads, WritesReference, InsertsLink
<1>7. CASE StartPush
  BY <1>7, StartsPush
<1>8. CASE Record
  BY <1>8, Records
<1>9. CASE GetProjectsForPackage
  BY <1>9, Finds
<1>10. ASSUME NEW q \in Project, pushToProject(q)
       PROVE  IInv'
  BY <1>10, Relinks
<1>11. CASE Return \/ Kill
  BY <1>11, Over DEF Return, Kill
<1>12. CASE UNCHANGED vars
  <2>1. UNCHANGED <<stored, channel, project, consumes, deps, lock, disk, aside, job>>
    BY <1>12 DEF vars
  <2>2. pushed' = pushed /\ build' = build
    BY <2>1 DEF pushed, build
  <2>3. Typed' /\ Phases' /\ Linked' /\ Reading' /\ Writing'
    BY <2>1, <2>2 DEF IInv, Typed, R!TypeOK, Phases, Linked, OnDisk, Reading, User, Writing, Orig
  <2>4. InFiles' /\ InRows' /\ Reached' /\ Referenced'
    BY <2>1, <2>2 DEF IInv, InFiles, InLock, InPackageJSON, InRows, Reached, OnBuild, Referenced, HasCopy
  <2> QED
    BY <2>3, <2>4 DEF IInv
<1> QED
  BY <1>1, <1>2, <1>3, <1>4, <1>5, <1>6, <1>7, <1>8, <1>9, <1>10, <1>11, <1>12 DEF Next

LEMMA Invariance == Spec => []IInv
<1>1. Init => IInv
  BY Initially
<1>2. IInv /\ [Next]_vars => IInv'
  BY Stepping
<1> QED
  BY <1>1, <1>2, PTL DEF Spec

(* What an add does not report as failed is so on the disk, in lnpm.lock,  *)
(* in package.json and in the row, and what it rolled back has left no     *)
(* lock entry: RunAddMultiple, whatever fails on the way.                  *)
THEOREM ReportedTruthfully == Spec => []ReportIsTrue
<1>1. IInv => ReportIsTrue
  <2> SUFFICES ASSUME IInv, Done, job.cmd = "add"
               PROVE  /\ \A x \in job.specs \ job.failed : Added(job.at, x)
                      /\ \A x \in job.gone \cap job.new : lock[job.at][x] = None
    BY DEF ReportIsTrue
  <2>1. CASE job.pc = "link"
    BY <2>1 DEF IInv, Phases, Done, At
  <2>2. CASE job.pc = "rows"
    <3>1. \A x \in job.gone \cap job.new : lock[job.at][x] = None
      BY <2>2 DEF IInv, InFiles
    <3>2. ASSUME NEW x \in job.specs \ job.failed
          PROVE  Added(job.at, x)
      <4>1. OnDisk(x)
        BY <2>2 DEF IInv, Linked, Adding
      <4>2. InLock(x) /\ (job.pure \/ InPackageJSON(x))
        BY <2>2 DEF IInv, InFiles
      <4>3. consumes[job.at][x] = job.want[x]
        BY <2>2 DEF IInv, InRows, Done
      <4> QED
        BY <4>1, <4>2, <4>3 DEF Added, OnDisk, InLock, InPackageJSON
    <3> QED
      BY <3>1, <3>2
  <2>3. job.pc # "relink"
    BY DEF IInv, Phases, Pushing
  <2> QED
    BY <2>1, <2>2, <2>3 DEF Done, At
<1> QED
  BY <1>1, Invariance, PTL

(* What package.json points at is in place or set aside next to it, at     *)
(* every step of any adds and pushes, wherever they fail or are cut short, *)
(* between the two renames of a relink included.                           *)
THEOREM CopyKept == Spec => []ReferencedIsKept
<1>1. IInv => ReferencedIsKept
  BY DEF IInv, Referenced, HasCopy, ReferencedIsKept
<1> QED
  BY <1>1, Invariance, PTL

(* A push that ends names every project it did not bring to the build.     *)
THEOREM AllReached == Spec => []PushReachesAll
<1>1. IInv => PushReachesAll
  <2> SUFFICES ASSUME IInv, Done, job.cmd = "push", NEW q \in Project, OnBuild(q)
               PROVE  q \in job.failed \/ disk[q][pushed] \in {build, "live"}
    BY DEF PushReachesAll, OnBuild
  <2>1. job.pc = "relink"
    BY DEF Done, At, IInv, Phases, Adding
  <2> QED
    BY <2>1 DEF IInv, Reached, Done
<1> QED
  BY <1>1, Invariance, PTL

-----------------------------------------------------------------------------
(* What saving the lock file leaves of the specifiers it had.              *)
LEMMA SavingKeeps ==
  ASSUME IInv, LockSave, NEW q \in Project, NEW x \in Pkg, Known(q, x)
  PROVE  Known(q, x)'
<1>1. /\ job.pc = "read" /\ job.todo = {} /\ deps' = deps
      /\ lock' = [lock EXCEPT ![job.at] = Entries] /\ job.at \in Project
      /\ lock \in [Project -> LockFile]
  BY DEF LockSave, At, IInv, Typed, Phases, Adding
<1>2. CASE q = job.at /\ x \in job.specs \ job.failed
  <2>1. Entries[x] # None /\ (Entries[x].orig <=> x \in job.orig \/ Orig(x))
    BY <1>1, <1>2, Saving
  <2>2. lock'[q][x] = Entries[x]
    BY <1>1, <1>2
  <2>3. Has(deps[q][x], "user") \/ Orig(x)
    BY <1>2 DEF Known, Orig
  <2> QED
    BY <1>1, <2>1, <2>2, <2>3 DEF Known
<1>3. CASE q = job.at /\ x \notin job.specs \ job.failed
  <2>1. Entries[x] = lock[job.at][x]
    BY <1>1, <1>3, Saving
  <2> QED
    BY <1>1, <1>3, <2>1 DEF Known
<1>4. CASE q # job.at
  BY <1>1, <1>4 DEF Known
<1> QED
  BY <1>2, <1>3, <1>4

LEMMA WritingKeeps ==
  ASSUME IInv, NEW y \in job.todo \cap Pkg, writeLnpmReference(y),
         NEW q \in Project, NEW x \in Pkg, Known(q, x)
  PROVE  Known(q, x)'
<1>1. /\ job.pc = "write" /\ lock' = lock /\ job.at \in Project
      /\ deps \in [Project -> [Pkg -> Dep]]
  BY DEF writeLnpmReference, At, IInv, Typed, Phases, Adding
<1>2. CASE UNCHANGED deps
  BY <1>1, <1>2 DEF Known
<1>3. CASE \E f \in Field : deps' = [deps EXCEPT ![job.at][y] = [NoDep EXCEPT ![f] = "lnpm"]]
  <2>1. q # job.at \/ x # y => deps'[q][x] = deps[q][x]
    BY <1>1, <1>3
  <2>2. CASE q = job.at /\ x = y
    <3>1. Orig(x)
      BY <1>1, <2>2 DEF IInv, Writing, Known, User, Orig
    <3> QED
      BY <1>1, <2>2, <3>1 DEF Known, Orig
  <2> QED
    BY <1>1, <2>1, <2>2 DEF Known
<1> QED
  BY <1>2, <1>3 DEF writeLnpmReference, Field

LEMMA WrittenKeeps ==
  ASSUME IInv, Written, NEW q \in Project, NEW x \in Pkg, Known(q, x)
  PROVE  Known(q, x)'
<1>1. /\ job.pc = "write" /\ job.todo = {} /\ deps' = deps /\ job.at \in Project
      /\ lock \in [Project -> LockFile]
      /\ lock' = IF job.dirty THEN [lock EXCEPT ![job.at] = job.lock] ELSE lock
  BY DEF Written, At, IInv, Typed, Phases, Adding
<1>2. CASE ~job.dirty \/ q # job.at
  <2>1. lock'[q] = lock[q]
    BY <1>1, <1>2
  <2> QED
    BY <1>1, <2>1 DEF Known
<1>3. CASE job.dirty /\ q = job.at
  <2>1. lock'[q][x] = job.lock[x]
    BY <1>1, <1>3
  <2>2. job.lock[x] = lock[job.at][x] \/ x \in job.gone \cap job.new
    BY <1>1 DEF IInv, Writing
  <2>3. CASE x \in job.gone \cap job.new
    <3>1. Has(deps[q][x], "user")
      BY <1>1, <1>3, <2>3 DEF IInv, Writing, Known, Orig, User
    <3> QED
      BY <1>1, <3>1 DEF Known
  <2> QED
    BY <1>1, <1>3, <2>1, <2>2, <2>3 DEF Known
<1> QED
  BY <1>2, <1>3

(* The user's specifier is in package.json or in the saved lock file at    *)
(* every step: the ORDERING CONSTRAINT of add.go, kept for a whole batch   *)
(* though packages of it are rolled back between the two saves.            *)
THEOREM SpecifiersKept == Spec => SpecifiersSurvive
<1> DEFINE Keeps == \A q \in Project, x \in Pkg : Known(q, x) => Known(q, x)'
<1>1. IInv /\ [Next]_vars => Keeps
  <2> SUFFICES ASSUME IInv, [Next]_vars, NEW q \in Project, NEW x \in Pkg, Known(q, x)
               PROVE  Known(q, x)'
    OBVIOUS
  <2>1. CASE UNCHANGED <<deps, lock>>
    BY <2>1 DEF Known
  <2>2. CASE LockSave
    BY <2>2, SavingKeeps
  <2>3. CASE Written
    BY <2>3, WrittenKeeps
  <2>4. ASSUME NEW y \in job.todo \cap Pkg, writeLnpmReference(y)
        PROVE  Known(q, x)'
    BY <2>4, WritingKeeps
  <2>5. ASSUME NEW y \in job.todo \cap Pkg,
               linkPackage(y) \/ readPackageJSONDeps(y) \/ InsertLink(y)
        PROVE  UNCHANGED <<deps, lock>>
    BY <2>5 DEF linkPackage, readPackageJSONDeps, InsertLink, files
  <2>6. CASE \/ StartAdd \/ Load \/ InsertProject \/ StartPush \/ Record
             \/ GetProjectsForPackage \/ Return \/ Kill
    <3>1. UNCHANGED <<deps, lock>>
      BY <2>6 DEF StartAdd, Load, InsertProject, StartPush, Record, GetProjectsForPackage,
                  Return, Kill, files
    <3> QED
      BY <2>1, <3>1
  <2>7. CASE \E p \in Project : pushToProject(p)
    BY <2>1, <2>7 DEF pushToProject
  <2>8. CASE UNCHANGED vars
    BY <2>1, <2>8 DEF vars
  <2> QED
    BY <2>1, <2>2, <2>3, <2>4, <2>5, <2>6, <2>7, <2>8 DEF Next
<1>2. IInv /\ [Next]_vars => [Keeps]_vars
  BY <1>1
<1> QED
  BY <1>2, Invariance, PTL DEF Spec, SpecifiersSurvive

==============================================================================
