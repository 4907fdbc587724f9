------------------------------ MODULE LnpmReach ------------------------------
(***************************************************************************)
(* internal/cli/reachable.go and the commands built on it, gc and forget:  *)
(* telling a deleted project from one whose drive is not mounted, by the   *)
(* device number its record holds.  Both stat ENOENT.                      *)
(*                                                                         *)
(* Drives come and go at mount points while a gc is running: its lock is   *)
(* on the database.  One package; no build has a tag that would keep it.   *)
(***************************************************************************)
CONSTANTS
    Project, Build,
    Drive,     \* removable filesystems
    Mount,     \* where they are mounted
    Root,      \* the filesystem under everything
    Place,     \* Place[p]: the mount point project p is under, or Root
    Number,    \* device numbers
    NoDevice,  \* 0: not known
    Renumber,  \* whether a remount may take a number nothing had before
    None

Fs == Drive \cup {Root}
State == {"live", "gone", "unreachable"}
Seen == {"present", "missing"}

ASSUME ReachAssumption ==
    /\ Place \in [Project -> Mount \cup {Root}]
    /\ Root \notin Drive \cup Mount
    /\ Renumber \in BOOLEAN
    /\ {None, NoDevice} \cap (Build \cup Drive \cup Number) = {}
    /\ None # NoDevice
    /\ "plain" \notin Build
    /\ None \notin State \cup Seen \cup {"gc", "gc-dry", "forget"}

VARIABLES
    mounted,   \* mounted[m]: the drive at mount point m, or None
    number,    \* number[f]: what stat reports for filesystem f
    used,      \* the numbers handed out so far
    disk,      \* disk[f][p]: the directory at p's path on f: the build it
               \* consumes, "plain", or None when there is none
    device,    \* device[p]: the device in p's record, None without a record
    row,       \* row[p]: the build p's link names, or None
    stored,    \* the builds recorded and stored
    command,   \* the gc or forget that has the database, or None
    judged,    \* judged[p]: what it has made of p's directory: "present" and
               \* "missing" after the first stat, then one of State
    origin,    \* origin[p]: the filesystem device[p] was read from
    raced,     \* the projects whose two looks a mount came between
    blind      \* those judged gone because no device could be read

vars == <<mounted, number, used, disk, device, row, stored, command, judged, origin, raced, blind>>

Unjudged == [p \in Project |-> None]

TypeOK ==
    /\ mounted \in [Mount -> Drive \cup {None}]
    /\ number \in [Fs -> Number]
    /\ used \subseteq Number
    /\ disk \in [Fs -> [Project -> Build \cup {"plain", None}]]
    /\ device \in [Project -> Number \cup {NoDevice, None}]
    /\ row \in [Project -> Build \cup {None}]
    /\ stored \subseteq Build
    /\ command \in {None, "gc", "gc-dry", "forget"}
    /\ judged \in [Project -> State \cup Seen \cup {None}]
    /\ origin \in [Project -> Fs \cup {None}]
    /\ raced \subseteq Project /\ blind \subseteq Project
    /\ \A p \in Project : row[p] # None => device[p] # None /\ row[p] \in stored

(* A record may come from a release that recorded no device.               *)
Init ==
    /\ mounted = [m \in Mount |-> None]
    /\ number \in [Fs -> Number]
    /\ \A f, g \in Fs : f # g => number[f] # number[g]
    /\ used = {number[f] : f \in Fs}
    /\ disk = [f \in Fs |-> [p \in Project |-> None]]
    /\ device \in [Project -> {NoDevice, None}]
    /\ row = [p \in Project |-> None]
    /\ stored = {}
    /\ command = None
    /\ judged = Unjudged
    /\ origin = [p \in Project |-> None]
    /\ raced = {} /\ blind = {}

-----------------------------------------------------------------------------
(* The machine: drives and directories.                                    *)

(* The filesystem that answers for p's path.                               *)
FsOf(p) == IF Place[p] = Root \/ mounted[Place[p]] = None THEN Root ELSE mounted[Place[p]]
Stats(p) == disk[FsOf(p)][p] # None

(* The projects between the two looks.                                    *)
Looking == {p \in Project : judged[p] \in Seen}

Attach(d, m) ==
    /\ mounted[m] = None /\ \A k \in Mount : mounted[k] # d
    /\ raced' = raced \cup Looking
    /\ mounted' = [mounted EXCEPT ![m] = d]
    /\ \E n \in {number[d]} \cup (IF Renumber THEN Number \ used ELSE {}) :
          /\ number' = [number EXCEPT ![d] = n]
          /\ used' = used \cup {n}
    /\ UNCHANGED <<disk, device, row, stored, command, judged, origin, blind>>

Detach(m) ==
    /\ mounted[m] # None
    /\ raced' = raced \cup Looking
    /\ mounted' = [mounted EXCEPT ![m] = None]
    /\ UNCHANGED <<number, used, disk, device, row, stored, command, judged, origin, blind>>

MakeDirectory(p) ==
    /\ ~Stats(p)
    /\ disk' = [disk EXCEPT ![FsOf(p)][p] = "plain"]
    /\ UNCHANGED <<mounted, number, used, device, row, stored, command, judged, origin, raced, blind>>

DeleteDirectory(p) ==
    /\ Stats(p)
    /\ disk' = [disk EXCEPT ![FsOf(p)][p] = None]
    /\ UNCHANGED <<mounted, number, used, device, row, stored, command, judged, origin, raced, blind>>

-----------------------------------------------------------------------------
(* What puts records there: publish, and add or restore.                   *)

(* What it answers for a path on f: the number, or 0 when the read fails   *)
(* or the filesystem has none to give.                                     *)
DeviceIDOfPath(f) == {number[f], NoDevice}

(* A device that was read goes into p's record.  One that was not leaves   *)
(* it as it is, and a new record without.                                  *)
Observe(p, seen) ==
    IF seen # NoDevice
    THEN /\ device' = [device EXCEPT ![p] = seen]
         /\ origin' = [origin EXCEPT ![p] = FsOf(p)]
    ELSE /\ device' = [device EXCEPT ![p] = IF @ = None THEN NoDevice ELSE @]
         /\ UNCHANGED origin

Publish(b) ==
    /\ command = None
    /\ stored' = stored \cup {b}
    /\ UNCHANGED <<mounted, number, used, disk, device, row, command, judged, origin, raced, blind>>

Add(p, b) ==
    /\ command = None
    /\ b \in stored /\ Stats(p)
    /\ disk' = [disk EXCEPT ![FsOf(p)][p] = b]
    /\ \E seen \in DeviceIDOfPath(FsOf(p)) : Observe(p, seen)
    /\ row' = [row EXCEPT ![p] = b]
    /\ UNCHANGED <<mounted, number, used, stored, command, judged, raced, blind>>

-----------------------------------------------------------------------------
(* Judging a project directory.                                            *)

(* The mount point is there whether or not anything is mounted on it, so   *)
(* the nearest ancestor that stats is on the filesystem mounted there.     *)
nearestExistingAncestor(p) == FsOf(p)

(* A slip: the ancestor reachable, so the project is not there.            *)
classifyByAncestor(p, current) == IF judged[p] = "present" THEN "live" ELSE "gone"

(* A slip: a device that was never recorded compared all the same.         *)
classifyUnknown(p, current) ==
    IF judged[p] = "present" THEN "live"
    ELSE IF current # device[p] THEN "unreachable" ELSE "gone"

(* The verdict, given what the second look at the path read of its nearest *)
(* existing ancestor's device.  Without both devices there is no comparing *)
(* them, and a directory that does not stat is gone.                       *)
classifyProjectDir(p, current) ==
    IF judged[p] = "present" THEN "live"
    ELSE IF device[p] = NoDevice \/ current = NoDevice THEN "gone"
    ELSE IF current # device[p] THEN "unreachable"
    ELSE "gone"

RunGC(c) ==
    /\ command = None
    /\ command' = c
    /\ UNCHANGED <<mounted, number, used, disk, device, row, stored, judged, origin, raced, blind>>

(* One link of the scan: the first stat of its project's path.  One that   *)
(* fails with anything but ENOENT settles it.                              *)
ScanLink(p) ==
    /\ command \in {"gc", "gc-dry"}
    /\ row[p] # None /\ judged[p] = None
    /\ Looking = {}
    /\ \E seen \in {"live", IF Stats(p) THEN "present" ELSE "missing"} :
          judged' = [judged EXCEPT ![p] = seen]
    /\ UNCHANGED <<mounted, number, used, disk, device, row, stored, command, origin, raced, blind>>

(* Of a directory that was there it is the path itself that is looked at,  *)
(* on the same filesystem; and gc, but for a dry run, records the device   *)
(* it reads.  A record that cannot be written is a warning.                *)
Classify(p) ==
    /\ judged[p] \in Seen
    /\ \E current \in DeviceIDOfPath(nearestExistingAncestor(p)) :
          /\ judged' = [judged EXCEPT ![p] = classifyProjectDir(p, current)]
          /\ blind' = IF judged[p] = "missing" /\ current = NoDevice THEN blind \cup {p} ELSE blind
          /\ IF command = "gc" /\ judged[p] = "present" /\ Stats(p)
             THEN Observe(p, current)
             ELSE UNCHANGED <<device, origin>>
    /\ UNCHANGED <<mounted, number, used, disk, row, stored, command, raced>>

Scanned == \A p \in Project : row[p] # None => judged[p] \in State

(* validLinks counts the links that were not judged gone.                  *)
packagesToRemove ==
    {b \in stored : \A p \in Project : row[p] = b => judged[p] = "gone"}

(* --fix-links, when confirmed, deletes the rows judged gone; the removal  *)
(* of packages, confirmed or not, by age or not, takes their links along.  *)
Collect ==
    /\ command = "gc" /\ Scanned
    /\ \E victims \in SUBSET packagesToRemove, fixLinks \in BOOLEAN :
          /\ stored' = stored \ victims
          /\ row' = [p \in Project |-> IF row[p] \in victims \/ (fixLinks /\ judged[p] = "gone")
                                       THEN None ELSE row[p]]
    /\ command' = None /\ judged' = Unjudged /\ raced' = {} /\ blind' = {}
    /\ UNCHANGED <<mounted, number, used, disk, device, origin>>

(* A dry run ends, an error or an interrupt stops a gc or a forget.        *)
Quit ==
    /\ command # None
    /\ command' = None /\ judged' = Unjudged /\ raced' = {} /\ blind' = {}
    /\ UNCHANGED <<mounted, number, used, disk, device, row, stored, origin>>

(* forget goes on only for a recorded project whose path does not stat.    *)
RunForget(p) ==
    /\ command = None
    /\ device[p] # None /\ ~Stats(p)
    /\ command' = "forget"
    /\ judged' = [judged EXCEPT ![p] = "missing"]
    /\ UNCHANGED <<mounted, number, used, disk, device, row, stored, origin, raced, blind>>

(* A slip: the record deleted, its links left.                             *)
ForgetRecord(p) ==
    /\ command = "forget" /\ judged[p] \in State
    /\ device' = [device EXCEPT ![p] = None]
    /\ origin' = [origin EXCEPT ![p] = None]
    /\ command' = None /\ judged' = Unjudged /\ raced' = {} /\ blind' = {}
    /\ UNCHANGED <<mounted, number, used, disk, row, stored>>

(* On yes, the record and its links go.                                    *)
Forget(p) ==
    /\ command = "forget" /\ judged[p] \in State
    /\ device' = [device EXCEPT ![p] = None]
    /\ origin' = [origin EXCEPT ![p] = None]
    /\ row' = [row EXCEPT ![p] = None]
    /\ command' = None /\ judged' = Unjudged /\ raced' = {} /\ blind' = {}
    /\ UNCHANGED <<mounted, number, used, disk, stored>>

Next ==
    \/ \E d \in Drive, m \in Mount : Attach(d, m)
    \/ \E m \in Mount : Detach(m)
    \/ \E p \in Project : MakeDirectory(p) \/ DeleteDirectory(p)
    \/ \E b \in Build : Publish(b)
    \/ \E p \in Project, b \in Build : Add(p, b)
    \/ \E c \in {"gc", "gc-dry"} : RunGC(c)
    \/ \E p \in Project : ScanLink(p) \/ Classify(p) \/ RunForget(p) \/ Forget(p)
    \/ Collect \/ Quit

Spec == Init /\ [][Next]_vars

-----------------------------------------------------------------------------
(* #335: gc takes neither the link nor the build from a project directory  *)
(* that consumes it, on a drive that is mounted or on one that is not,     *)
(* whatever is mounted, renumbered or unmounted meanwhile.  The directory  *)
(* is the one the project's device was read from, once that has been.  The *)
(* code leaves two ways out, and these are all: a mount that comes between *)
(* the two looks at a path, and a path of which no device can be read now, *)
(* where "No comparison was possible" and gc judges as it did before #335. *)
ConsumedIsKept ==
    [][\A p \in Project \ (raced \cup blind) :
          /\ command = "gc" /\ row[p] # None
          /\ row'[p] = None \/ row[p] \notin stored'
          /\ origin[p] # None
          => disk[origin[p]][p] # row[p]]_vars

(* "skipping ... would stop gc collecting anything at all on every install *)
(* that upgrades": gc declines to judge a project only when what is        *)
(* mounted there is not what its record was made on, or has been given a   *)
(* number since that the record has not.                                   *)
SkippedIsAway ==
    [][\A p \in Project :
          judged[p] \in Seen /\ judged'[p] = "unreachable" =>
             device[p] \in used \ {number[FsOf(p)]}]_vars
=============================================================================
