---------------------------- MODULE LnpmRegistry ----------------------------
(***************************************************************************)
(* What internal/db promises to the commands, with no row ids, no indexes  *)
(* and no buckets: which builds of a package are stored, which build each  *)
(* channel (tag) of a package names, and which build of a package each     *)
(* project consumes, under which channel, and whether that is pinned.      *)
(*                                                                         *)
(* Each action is one method of *db.DB, that is one bolt transaction.      *)
(* LnpmDB is the detailed specification, and implements this one.          *)
(***************************************************************************)
CONSTANTS
    Name,     \* package names
    Hash,     \* content hashes
    Tag,      \* channels
    Latest,   \* db.DefaultTag
    Path,     \* project directories, as normalizePath returns them
    Device,   \* device numbers a filesystem can report
    NoDevice, \* device 0: none was ever observed
    None      \* no entry

VARIABLES
    stored,   \* the <<name, hash>> pairs that have a package record
    channel,  \* channel[n][t]: the hash tag t of package n names, or None
    project,  \* project[q]: the device recorded for project q, or None
    consumes  \* consumes[q][n]: the build of n that project q links, or None

vars == <<stored, channel, project, consumes>>

Consumption == [hash : Hash, tag : Tag, pinned : BOOLEAN]

TypeOK ==
    /\ stored \subseteq Name \X Hash
    /\ channel \in [Name -> [Tag -> Hash \cup {None}]]
    /\ project \in [Path -> Device \cup {NoDevice, None}]
    /\ consumes \in [Path -> [Name -> Consumption \cup {None}]]

NoChannel == [n \in Name |-> [t \in Tag |-> None]]
NoConsumption == [q \in Path |-> [n \in Name |-> None]]

(* An empty store, or the store of a release that had one build per name   *)
(* and no tags: the build is what `latest` means.                          *)
Init ==
    \/ /\ stored = {}
       /\ channel = NoChannel
       /\ project = [q \in Path |-> None]
       /\ consumes = NoConsumption
    \/ \E n \in Name, h \in Hash, q \in Path :
          /\ stored = {<<n, h>>}
          /\ channel = [NoChannel EXCEPT ![n][Latest] = h]
          /\ project = [[p \in Path |-> None] EXCEPT ![q] = NoDevice]
          /\ consumes = [NoConsumption EXCEPT ![q][n] =
                            [hash |-> h, tag |-> Latest, pinned |-> FALSE]]

(***************************************************************************)
(* Moving a channel onto a build moves every project that follows the      *)
(* channel and is on the build it named.  A pinned project follows none.   *)
(***************************************************************************)

(* The channels a tag operation moves: the one asked for, and `latest` too *)
(* when nothing was reachable by the bare name.                            *)
Moved(n, t) == {t} \cup (IF channel[n][Latest] = None THEN {Latest} ELSE {})

Follows(c, n, ts) ==
    c # None /\ ~c.pinned /\ c.tag \in ts /\ c.hash = channel[n][c.tag]

MoveChannel(n, t, h) ==
    /\ channel' = [channel EXCEPT ![n] =
                      [u \in Tag |-> IF u \in Moved(n, t) THEN h ELSE @[u]]]
    /\ consumes' = [q \in Path |-> [consumes[q] EXCEPT ![n] =
                      IF Follows(@, n, Moved(n, t)) THEN [@ EXCEPT !.hash = h]
                                                    ELSE @]]

Publish(n, h, t) ==
    /\ stored' = stored \cup {<<n, h>>}
    /\ MoveChannel(n, t, h)
    /\ UNCHANGED project

SetTag(n, t, h) ==
    /\ <<n, h>> \in stored
    /\ MoveChannel(n, t, h)
    /\ UNCHANGED <<stored, project>>

DeleteTag(n, t) ==
    /\ t # Latest
    /\ channel' = [channel EXCEPT ![n][t] = None]
    /\ UNCHANGED <<stored, project, consumes>>

(* Deleting a build takes every channel and every link that names it.      *)
DeletePackage(n, h) ==
    /\ <<n, h>> \in stored
    /\ stored' = stored \ {<<n, h>>}
    /\ channel' = [channel EXCEPT ![n] =
                      [t \in Tag |-> IF @[t] = h THEN None ELSE @[t]]]
    /\ consumes' = [q \in Path |-> [consumes[q] EXCEPT ![n] =
                      IF @ # None /\ @.hash = h THEN None ELSE @]]
    /\ UNCHANGED project

(* Recording a project never forgets a device that was once observed.      *)
InsertProject(q, observed) ==
    /\ project' = [project EXCEPT ![q] =
                      IF observed = NoDevice /\ @ # None THEN @ ELSE observed]
    /\ UNCHANGED <<stored, channel, consumes>>

SetProjectDevice(q, d) ==
    /\ project[q] # None
    /\ project' = [project EXCEPT ![q] = d]
    /\ UNCHANGED <<stored, channel, consumes>>

DeleteProject(q) ==
    /\ project[q] # None
    /\ project' = [project EXCEPT ![q] = None]
    /\ consumes' = [consumes EXCEPT ![q] = [n \in Name |-> None]]
    /\ UNCHANGED <<stored, channel>>

(* A project consumes at most one build of a name: the new one replaces    *)
(* whatever it consumed before.                                            *)
InsertLink(q, n, h, t, pinned) ==
    /\ project[q] # None
    /\ <<n, h>> \in stored
    /\ consumes' = [consumes EXCEPT ![q][n] =
                       [hash |-> h, tag |-> t, pinned |-> pinned]]
    /\ UNCHANGED <<stored, channel, project>>

DeleteLink(q, n) ==
    /\ consumes[q][n] # None
    /\ consumes' = [consumes EXCEPT ![q][n] = None]
    /\ UNCHANGED <<stored, channel, project>>

Next ==
    \/ \E n \in Name, h \in Hash, t \in Tag : Publish(n, h, t) \/ SetTag(n, t, h)
    \/ \E n \in Name, t \in Tag : DeleteTag(n, t)
    \/ \E n \in Name, h \in Hash : DeletePackage(n, h)
    \/ \E q \in Path, d \in Device \cup {NoDevice} : InsertProject(q, d)
    \/ \E q \in Path, d \in Device : SetProjectDevice(q, d)
    \/ \E q \in Path : DeleteProject(q)
    \/ \E q \in Path, n \in Name, h \in Hash, t \in Tag, p \in BOOLEAN :
          InsertLink(q, n, h, t, p)
    \/ \E q \in Path, n \in Name : DeleteLink(q, n)

Spec == Init /\ [][Next]_vars
=============================================================================
