----------------------------- MODULE LnpmStore -----------------------------
(***************************************************************************)
(* internal/store: the content-addressed store at ~/.lnpm/store, one       *)
(* directory <name>/<hash> per build, as the filesystem shows it between   *)
(* any two system calls of a publish, a gc or a store open, with crashes.  *)
(*                                                                         *)
(* A command takes bolt's exclusive file lock (db.GetDB) before it opens   *)
(* the store and holds it until its process ends.  A publish stores with   *)
(* several goroutines (publishAll), each copying from a source tree that   *)
(* anyone may edit meanwhile.  A file's content is the build it was copied *)
(* from.                                                                   *)
(***************************************************************************)
EXTENDS Naturals, FiniteSets

CONSTANTS
    Name, Hash,
    Passing,    \* states of a source tree that are edited again before a pack
    File,       \* the files of a build
    Worker,     \* goroutines of a publish
    Temp,       \* names os.MkdirTemp may return; bounds the leftovers
    Unreadable, \* packages whose directory cannot be listed
    SentinelMayFail, \* whether a store root may refuse a sentinel
    None

Command == {"publish", "gc"}
Entry == Name \X Hash
NoMarker == 0
Schema == 2     \* markerSchemaVersion

(* A directory: what each file holds, the schema of its completeness       *)
(* marker, whether write bits are off, and (for the properties) the major  *)
(* release whose write path made it: 1 had no markers, 3 wrote schema 1.   *)
Content == Hash \cup Passing
Dir == [files : [File -> Content \cup {None}], marker : {NoMarker, 1, Schema},
        sealed : BOOLEAN, by : {1, 3, 4}]

ASSUME StoreAssumption ==
    /\ File # {}
    /\ Unreadable \subseteq Name
    /\ SentinelMayFail \in BOOLEAN
    /\ None \notin Content \cup Temp \cup Entry \cup Dir \cup [File -> Content]

VARIABLES
    source,     \* source[n]: the build the source tree of n holds now
    entry,      \* entry[e]: the directory at <name>/<hash>
    temp,       \* temp[t]: a temp directory beside the entries
    decided,    \* .lnpm-markers-backfilled is there
    passed,     \* .lnpm-content-protected is there
    at,         \* at[c]: where command c is
    pass,       \* the backfill under way: entries still to mark, and marked
    job,        \* job[w]: what worker w is storing
    victim      \* the entry gc is deleting

vars == <<source, entry, temp, decided, passed, at, pass, job, victim>>

NoPass == [todo |-> {}, done |-> {}]
Idle == [pc |-> "idle", build |-> None, temp |-> None]

TypeOK ==
    /\ source \in [Name -> Content]
    /\ entry \in [Entry -> Dir \cup {None}]
    /\ temp \in [Temp -> Dir \cup {None}]
    /\ decided \in BOOLEAN /\ passed \in BOOLEAN
    /\ at \in [Command -> {"idle", "opening", "marking", "protecting", "open"}]
    /\ pass \in [todo : SUBSET Entry, done : SUBSET Entry]
    /\ job \in [Worker -> [pc : {"idle", "check", "copy", "mark", "rename"},
                           build : Entry \cup {None}, temp : Temp \cup {None}]]
    /\ victim \in Entry \cup {None}

Whole(d) == \A f \in File : d.files[f] # None
Empty(d) == d.marker = NoMarker /\ \A f \in File : d.files[f] = None

(* checkEntry: there, marked, and marked by this format.  The marker's     *)
(* hash is its directory's name: nothing here moves an entry.              *)
CheckComplete(d) == d # None /\ d.marker >= Schema

hasMarker(d) == d # None /\ d.marker # NoMarker

(* A store of an earlier release, or none.  Up to 1.x nothing was marked   *)
(* and an interrupted removal left a partial entry nobody could tell; 3.x  *)
(* wrote markers and removed them first.                                   *)
OldFiles(h) == [File -> {h, None}] \ {[f \in File |-> None]}
OldEntry(v, e) ==
    {None} \cup {d \in Dir : /\ d.by = v /\ ~d.sealed
                             /\ d.files \in OldFiles(e[2])
                             /\ d.marker = IF v = 3 /\ Whole(d) THEN 1 ELSE NoMarker}

Init ==
    /\ source \in [Name -> Content]
    /\ \E v \in {1, 3} :
          /\ entry \in {x \in [Entry -> UNION {OldEntry(v, e) : e \in Entry}] :
                           \A e \in Entry : x[e] \in OldEntry(v, e)}
          /\ decided = (v = 3 /\ \E e \in Entry : entry[e] # None)
    /\ passed = FALSE
    /\ temp = [t \in Temp |-> None]
    /\ at = [c \in Command |-> "idle"]
    /\ pass = NoPass
    /\ job = [w \in Worker |-> Idle]
    /\ victim = None

-----------------------------------------------------------------------------
(* A command and its lock.                                                 *)

(* A slip: the store opened without the database.                          *)
OpenUnlocked(c) ==
    /\ at[c] = "idle"
    /\ at' = [at EXCEPT ![c] = "opening"]
    /\ UNCHANGED <<source, entry, temp, decided, passed, pass, job, victim>>

GetDB(c) ==
    /\ \A d \in Command : at[d] = "idle"
    /\ at' = [at EXCEPT ![c] = "opening"]
    /\ UNCHANGED <<source, entry, temp, decided, passed, pass, job, victim>>

Exit(c) ==
    /\ at[c] = "open"
    /\ \A w \in Worker : job[w] = Idle
    /\ victim = None
    /\ at' = [at EXCEPT ![c] = "idle"]
    /\ UNCHANGED <<source, entry, temp, decided, passed, pass, job, victim>>

(* The process dies and the kernel drops its lock; its files stay.         *)
Crash(c) ==
    /\ at[c] # "idle"
    /\ at' = [at EXCEPT ![c] = "idle"]
    /\ pass' = NoPass
    /\ job' = IF c = "publish" THEN [w \in Worker |-> Idle] ELSE job
    /\ victim' = IF c = "gc" THEN None ELSE victim
    /\ UNCHANGED <<source, entry, temp, decided, passed>>

-----------------------------------------------------------------------------
(* store.New: backfillLegacyStore, then protectExistingEntries.            *)

Present == {e \in Entry : entry[e] # None}

(* What the scan of listEntries finds.                                     *)
listEntries == {e \in Present : e[1] \notin Unreadable}

(* A slip: a package that cannot be listed taken for one with no entries.  *)
unreadableSkipped == {}

unreadable == Unreadable \cap {e[1] : e \in Present}

(* Writing a sentinel may fail, and the failure is swallowed.              *)
Recorded == IF SentinelMayFail THEN BOOLEAN ELSE {TRUE}

(* Nothing is marked in a store where anything is marked already, or where *)
(* something could not be looked at.                                       *)
backfillLegacyStore(c) ==
    LET marked == \E e \in listEntries : hasMarker(entry[e])
        mark   == ~decided /\ ~marked /\ unreadable = {}
    IN  /\ at[c] = "opening"
        /\ pass' = IF mark THEN [todo |-> listEntries, done |-> {}] ELSE pass
        /\ decided' \in IF marked /\ ~decided THEN Recorded ELSE {decided}
        /\ at' = [at EXCEPT ![c] = IF mark THEN "marking" ELSE "protecting"]
        /\ UNCHANGED <<source, entry, temp, passed, job, victim>>

(* A slip: the next schema written before anything reads it.               *)
writeNextMarker(e) == entry' = [entry EXCEPT ![e].marker = Schema + 1]

writeMarker(e) == entry' = [entry EXCEPT ![e].marker = Schema]

BackfillMark(c) ==
    /\ at[c] = "marking"
    /\ \E e \in pass.todo \cap Present :
          /\ writeMarker(e)
          /\ pass' = [todo |-> pass.todo \ {e}, done |-> pass.done \cup {e}]
    /\ UNCHANGED <<source, temp, decided, passed, at, job, victim>>

(* A marker could not be written: the ones that were are removed again, as *)
(* far as that works, and no decision is recorded.                         *)
BackfillUndo(c) ==
    /\ at[c] = "marking" /\ pass.todo # {}
    /\ \E kept \in SUBSET pass.done :
          entry' = [e \in Entry |-> IF e \in (pass.done \ kept) \cap Present
                                    THEN [entry[e] EXCEPT !.marker = NoMarker]
                                    ELSE entry[e]]
    /\ pass' = NoPass
    /\ at' = [at EXCEPT ![c] = "protecting"]
    /\ UNCHANGED <<source, temp, decided, passed, job, victim>>

recordBackfillDecision(c) ==
    /\ at[c] = "marking" /\ pass.todo = {}
    /\ decided' \in Recorded
    /\ pass' = NoPass
    /\ at' = [at EXCEPT ![c] = "protecting"]
    /\ UNCHANGED <<source, entry, temp, passed, job, victim>>

(* Best effort, and recorded as done even when entries were missed.        *)
protectExistingEntries(c) ==
    /\ at[c] = "protecting"
    /\ \/ passed /\ UNCHANGED <<entry, passed>>
       \/ /\ ~passed
          /\ \E reached \in {{}, listEntries} :
                entry' = [e \in Entry |-> IF e \in reached
                                          THEN [entry[e] EXCEPT !.sealed = TRUE]
                                          ELSE entry[e]]
          /\ passed' \in Recorded
    /\ at' = [at EXCEPT ![c] = "open"]
    /\ UNCHANGED <<source, temp, decided, pass, job, victim>>

-----------------------------------------------------------------------------
(* Store: pack hashes the source, then the entry is built in a temp        *)
(* directory, sealed, marked and renamed into place.                       *)

Edit(n, h) ==
    /\ source[n] # h
    /\ source' = [source EXCEPT ![n] = h]
    /\ UNCHANGED <<entry, temp, decided, passed, at, pass, job, victim>>

Pack(w, n) ==
    /\ at["publish"] = "open" /\ job[w] = Idle /\ source[n] \in Hash
    /\ job' = [job EXCEPT ![w] = [pc |-> "check", build |-> <<n, source[n]>>, temp |-> None]]
    /\ UNCHANGED <<source, entry, temp, decided, passed, at, pass, victim>>

EmptyDir == [files |-> [f \in File |-> None], marker |-> NoMarker, sealed |-> FALSE, by |-> 4]

(* Skip what is stored already, else newTempDir.                           *)
CheckStored(w) ==
    /\ job[w].pc = "check"
    /\ \/ /\ CheckComplete(entry[job[w].build])
          /\ job' = [job EXCEPT ![w] = Idle]
          /\ UNCHANGED temp
       \/ /\ ~CheckComplete(entry[job[w].build])
          /\ \E t \in Temp : /\ temp[t] = None
                             /\ temp' = [temp EXCEPT ![t] = EmptyDir]
                             /\ job' = [job EXCEPT ![w].pc = "copy", ![w].temp = t]
    /\ UNCHANGED <<source, entry, decided, passed, at, pass, victim>>

(* The workers' parallel reflinks and copies, file by file.                *)
CopyFile(w, f) ==
    LET t == job[w].temp IN
    /\ job[w].pc = "copy" /\ temp[t].files[f] = None
    /\ temp' = [temp EXCEPT ![t].files[f] = source[job[w].build[1]]]
    /\ UNCHANGED <<source, entry, decided, passed, at, pass, job, victim>>

protectTree(w) ==
    LET t == job[w].temp IN
    /\ job[w].pc = "copy" /\ Whole(temp[t])
    /\ temp' = [temp EXCEPT ![t].sealed = TRUE]
    /\ job' = [job EXCEPT ![w].pc = "mark"]
    /\ UNCHANGED <<source, entry, decided, passed, at, pass, victim>>

MarkTemp(w) ==
    /\ job[w].pc = "mark"
    /\ temp' = [temp EXCEPT ![job[w].temp].marker = Schema]
    /\ job' = [job EXCEPT ![w].pc = "rename"]
    /\ UNCHANGED <<source, entry, decided, passed, at, pass, victim>>

(* Any of these fails: the deferred cleanup removes the temp directory.    *)
StoreFails(w) ==
    /\ job[w].pc \in {"copy", "mark"}
    /\ temp' = [temp EXCEPT ![job[w].temp] = None]
    /\ job' = [job EXCEPT ![w] = Idle]
    /\ UNCHANGED <<source, entry, decided, passed, at, pass, victim>>

(* A slip: the destination removed to make room for the rename.            *)
finalizeOver(w) ==
    LET e == job[w].build
        t == job[w].temp
    IN  /\ job[w].pc = "rename"
        /\ entry' = [entry EXCEPT ![e] = temp[t]]
        /\ temp' = [temp EXCEPT ![t] = None]
        /\ job' = [job EXCEPT ![w] = Idle]
        /\ UNCHANGED <<source, decided, passed, at, pass, victim>>

(* finalize.  rename(2) replaces nothing but an empty directory; when it   *)
(* fails an entry that is complete by now is as good, anything else is an  *)
(* error the user has to resolve, and either way the temp directory goes.  *)
finalize(w) ==
    LET e == job[w].build
        t == job[w].temp
    IN  /\ job[w].pc = "rename"
        /\ entry' = IF entry[e] = None \/ Empty(entry[e])
                    THEN [entry EXCEPT ![e] = temp[t]] ELSE entry
        /\ temp' = [temp EXCEPT ![t] = None]
        /\ job' = [job EXCEPT ![w] = Idle]
        /\ UNCHANGED <<source, decided, passed, at, pass, victim>>

(* What finalize's error asks for: the user deletes the directory in the   *)
(* way, by hand.                                                           *)
DeleteByHand(e) ==
    /\ entry[e] # None /\ ~CheckComplete(entry[e])
    /\ entry' = [entry EXCEPT ![e] = None]
    /\ UNCHANGED <<source, temp, decided, passed, at, pass, job, victim>>

-----------------------------------------------------------------------------
(* gc: RemoveEntry, marker first, then the tree; then the temp sweep.      *)

(* A slip: the marker left to the RemoveAll that takes the tree.           *)
RemoveMarkerLast(e) ==
    /\ at["gc"] = "open" /\ victim = None /\ entry[e] # None
    /\ victim' = e
    /\ UNCHANGED <<source, entry, temp, decided, passed, at, pass, job>>

RemoveMarker(e) ==
    /\ at["gc"] = "open" /\ victim = None /\ entry[e] # None
    /\ victim' = e
    /\ entry' = [entry EXCEPT ![e].marker = NoMarker]
    /\ UNCHANGED <<source, temp, decided, passed, at, pass, job>>

RemoveFile(f) ==
    /\ victim # None
    /\ entry[victim] # None /\ entry[victim].files[f] # None
    /\ entry' = [entry EXCEPT ![victim].files[f] = None]
    /\ UNCHANGED <<source, temp, decided, passed, at, pass, job, victim>>

RemoveDir ==
    /\ victim # None
    /\ entry[victim] # None => Empty(entry[victim])
    /\ entry' = [entry EXCEPT ![victim] = None]
    /\ victim' = None
    /\ UNCHANGED <<source, temp, decided, passed, at, pass, job>>

(* A permission error, a full disk: gc reports it and goes on.             *)
RemoveFails ==
    /\ victim # None
    /\ victim' = None
    /\ UNCHANGED <<source, entry, temp, decided, passed, at, pass, job>>

FindTempDirs == {t \in Temp : temp[t] # None}

reapTempDirs(t) ==
    /\ at["gc"] = "open" /\ victim = None /\ t \in FindTempDirs
    /\ temp' = [temp EXCEPT ![t] = None]
    /\ UNCHANGED <<source, entry, decided, passed, at, pass, job, victim>>

Next ==
    \/ \E c \in Command :
          \/ GetDB(c) \/ Exit(c) \/ Crash(c)
          \/ backfillLegacyStore(c) \/ BackfillMark(c) \/ BackfillUndo(c)
          \/ recordBackfillDecision(c) \/ protectExistingEntries(c)
    \/ \E n \in Name, h \in Content : Edit(n, h)
    \/ \E w \in Worker :
          \/ \E n \in Name : Pack(w, n)
          \/ CheckStored(w)
          \/ \E f \in File : CopyFile(w, f)
          \/ protectTree(w) \/ MarkTemp(w) \/ StoreFails(w) \/ finalize(w)
    \/ \E e \in Entry : DeleteByHand(e) \/ RemoveMarker(e)
    \/ \E f \in File : RemoveFile(f)
    \/ RemoveDir \/ RemoveFails
    \/ \E t \in Temp : reapTempDirs(t)

Spec == Init /\ [][Next]_vars

-----------------------------------------------------------------------------
(* What CheckComplete vouches for.                                         *)

(* An entry a read path accepts has every file of a build and no write     *)
(* bits: an entry that is being stored, or being removed, or whose store   *)
(* or removal was cut short anywhere, is refused.  1.x entries, which the  *)
(* backfill marks on trust, are the stated exception.                      *)
ServedIsWhole ==
    \A e \in Entry :
        CheckComplete(entry[e]) /\ entry[e].by # 1 => Whole(entry[e]) /\ entry[e].sealed

(* A store that has ever held a marker never comes to trust an entry that  *)
(* is there without one (#330): only gc, the user or a rename onto an      *)
(* empty directory resolves it.                                            *)
NoLaundering ==
    [][\A e \in Entry :
          /\ \E d \in Entry : hasMarker(entry[d]) /\ entry[d].by # 1
          /\ entry[e] # None /\ ~CheckComplete(entry[e]) /\ ~Empty(entry[e])
          => ~CheckComplete(entry'[e])]_vars

(* The sweep, whose only safeguard is the lock, takes no directory from    *)
(* under a goroutine that is filling it.                                   *)
WritersKeepTheirTemp ==
    \A w \in Worker :
        job[w].temp # None =>
            /\ temp[job[w].temp] # None
            /\ \A v \in Worker \ {w} : job[v].temp # job[w].temp

-----------------------------------------------------------------------------
(* The store every other component reads.  Entries taken over from 1.x are *)
(* served on trust, and promised nothing of.                               *)
Builds == INSTANCE LnpmBuilds WITH
    Content <- [File -> Content],
    held    <- [e \in Entry |-> IF CheckComplete(entry[e]) /\ entry[e].by # 1
                                THEN entry[e].files ELSE None]

(* A build is served whole from one step, unchanged, until one step.       *)
ImplementsBuilds == Builds!Spec
=============================================================================
