-------------------------- MODULE LnpmStore_proofs --------------------------
(* Proofs about LnpmStore, for any number of packages, builds, goroutines  *)
(* and temp names.                                                         *)
EXTENDS LnpmStore, TLAPS

(* One command at a time has the store, and what it was doing is known.    *)
Locked ==
    /\ \A c, d \in Command : at[c] # "idle" /\ at[d] # "idle" => c = d
    /\ \A w \in Worker : job[w] # Idle => at["publish"] = "open"
    /\ victim # None => /\ at["gc"] = "open"
                        /\ entry[victim] # None => entry[victim].marker = NoMarker

(* A goroutine past newTempDir has a directory of its own, which is sealed *)
(* before it is marked and marked before it is renamed.                    *)
Filling == {"copy", "mark", "rename"}
Filled(j) ==
    /\ j.pc # "idle" => j.build \in Entry
    /\ j.temp # None <=> j.pc \in Filling
    /\ j.temp # None => temp[j.temp] # None /\ temp[j.temp].by = 4
    /\ j.pc \in {"mark", "rename"} => Whole(temp[j.temp]) /\ temp[j.temp].sealed
    /\ j.pc = "rename" => temp[j.temp].marker = Schema
Apart == \A v, w \in Worker : v # w /\ job[w].temp # None => job[v].temp # job[w].temp
Writing == Apart /\ \A w \in Worker : Filled(job[w])

Old(e) == entry[e] # None => entry[e].by = 1
Listed(e) == e[1] \notin Unreadable

(* Until the backfill has decided, what can be listed is of 1.x or still   *)
(* has its marker, and a gc finds none of the latter: it would have        *)
(* decided.  So what the backfill marks is of 1.x.                         *)
Marking == \E c \in Command : at[c] = "marking"
Legacy ==
    /\ Marking => ~decided /\ \A e \in Entry : Old(e)
    /\ ~decided => \A e \in Entry : Listed(e) => Old(e) \/ hasMarker(entry[e])
    /\ ~decided /\ at["gc"] \in {"protecting", "open"} => \A e \in Entry : Listed(e) => Old(e)

Served == Legacy /\ ServedIsWhole

IInv == TypeOK /\ Locked /\ Writing /\ (~SentinelMayFail => Served)

-----------------------------------------------------------------------------
LEMMA Facts ==
    /\ None \notin Content /\ None \notin Temp /\ None \notin Entry /\ None \notin Dir
    /\ None \notin [File -> Content] /\ Hash \subseteq Content
    /\ Idle.pc = "idle" /\ Idle.build = None /\ Idle.temp = None
    /\ EmptyDir \in Dir /\ EmptyDir # None /\ EmptyDir.by = 4
<1>1. /\ None \notin Content /\ None \notin Temp /\ None \notin Entry /\ None \notin Dir
      /\ None \notin [File -> Content] /\ Hash \subseteq Content
  BY StoreAssumption DEF Content
<1>2. EmptyDir \in Dir /\ EmptyDir.by = 4
  BY DEF Dir, EmptyDir, NoMarker, Schema
<1> QED
  BY <1>1, <1>2 DEF Idle

LEMMA Initially == Init => IInv
<1> SUFFICES ASSUME Init PROVE IInv
  OBVIOUS
<1> USE Facts
<1>1. PICK v \in {1, 3} :
        /\ entry \in [Entry -> UNION {OldEntry(v, e) : e \in Entry}]
        /\ \A e \in Entry : entry[e] \in OldEntry(v, e)
        /\ decided = (v = 3 /\ \E e \in Entry : entry[e] # None)
  BY DEF Init
<1>2. \A e \in Entry : /\ entry[e] \in Dir \cup {None}
                       /\ entry[e] # None => entry[e].by = v /\ entry[e].marker \in {NoMarker, 1}
  BY <1>1 DEF OldEntry
<1>3. TypeOK
  <2>1. entry \in [Entry -> Dir \cup {None}]
    BY <1>1, <1>2
  <2>2. NoPass \in [todo : SUBSET Entry, done : SUBSET Entry]
    BY DEF NoPass
  <2>3. Idle \in [pc : {"idle", "check", "copy", "mark", "rename"},
                  build : Entry \cup {None}, temp : Temp \cup {None}]
    BY DEF Idle
  <2> QED
    BY <1>1, <2>1, <2>2, <2>3 DEF Init, TypeOK
<1>4. Locked /\ Writing
  BY DEF Init, Locked, Writing, Apart, Filled, Filling, Command
<1>5. Legacy
  BY <1>1, <1>2 DEF Init, Legacy, Marking, Old, Command
<1>6. ServedIsWhole
  BY <1>2 DEF ServedIsWhole, CheckComplete, NoMarker, Schema
<1> QED
  BY <1>3, <1>4, <1>5, <1>6 DEF IInv, Served

-----------------------------------------------------------------------------
(* What a step that leaves some of it alone preserves.                     *)

LEMMA WritingKept ==
  ASSUME IInv, UNCHANGED <<temp, job>>
  PROVE  Writing'
  BY DEF IInv, Writing, Apart, Filled, Filling, Whole

(* Entries go, or stay of the release that made them and marked if they    *)
(* were.                                                                   *)
LEMMA LegacyKept ==
  ASSUME Legacy, UNCHANGED decided, Marking' => Marking,
         at'["gc"] \in {"protecting", "open"} => at["gc"] \in {"protecting", "open"},
         \A e \in Entry : entry'[e] # None =>
            /\ entry[e] # None /\ entry'[e].by = entry[e].by
            /\ ~decided /\ Listed(e) /\ ~Old(e) /\ hasMarker(entry[e]) => hasMarker(entry'[e])
  PROVE  Legacy'
  BY DEF Legacy, Old, Listed, hasMarker

(* Nothing is marked that was not, and what is served keeps its files.     *)
LEMMA ServedKept ==
  ASSUME ServedIsWhole,
         \A e \in Entry : CheckComplete(entry'[e]) =>
            \/ entry'[e].by = 1
            \/ /\ CheckComplete(entry[e]) /\ entry'[e].by = entry[e].by
               /\ entry'[e].files = entry[e].files
               /\ entry[e].sealed => entry'[e].sealed
  PROVE  ServedIsWhole'
  BY DEF ServedIsWhole, Whole

-----------------------------------------------------------------------------
(* One step.  Commands come and go.                                        *)

LEMMA Coming ==
  ASSUME IInv, NEW c \in Command, GetDB(c) \/ Exit(c) \/ Crash(c)
  PROVE  IInv'
<1> USE Facts
<1>0. UNCHANGED <<source, entry, temp, decided, passed>>
  BY DEF GetDB, Exit, Crash
<1>1. /\ at' \in [Command -> {"idle", "opening", "marking", "protecting", "open"}]
      /\ \A d \in Command : d # c => at'[d] = at[d]
      /\ at'[c] \in {"idle", "opening"}
  BY DEF GetDB, Exit, Crash, IInv, TypeOK
<1>2. /\ \/ UNCHANGED <<pass, job, victim>>
         \/ /\ pass' = NoPass
            /\ job' = IF c = "publish" THEN [w \in Worker |-> Idle] ELSE job
            /\ victim' = IF c = "gc" THEN None ELSE victim
  BY DEF GetDB, Exit, Crash
<1>3. TypeOK'
  <2>1. NoPass \in [todo : SUBSET Entry, done : SUBSET Entry]
    BY DEF NoPass
  <2>2. Idle \in [pc : {"idle", "check", "copy", "mark", "rename"},
                  build : Entry \cup {None}, temp : Temp \cup {None}]
    BY DEF Idle
  <2> QED
    BY <1>0, <1>1, <1>2, <2>1, <2>2 DEF IInv, TypeOK
<1>4. Locked'
  <2>1. CASE GetDB(c)
    BY <1>0, <1>1, <2>1 DEF GetDB, IInv, Locked, Command
  <2>2. CASE Exit(c)
    BY <1>0, <2>2 DEF Exit, IInv, TypeOK, Locked, Command
  <2>3. CASE Crash(c)
    BY <1>0, <2>3 DEF Crash, IInv, TypeOK, Locked, Command
  <2> QED
    BY <2>1, <2>2, <2>3
<1>5. Writing'
  <2>1. CASE UNCHANGED job
    BY <1>0, <2>1, WritingKept
  <2>2. CASE job' = [w \in Worker |-> Idle]
    BY <2>2 DEF Writing, Apart, Filled, Filling
  <2> QED
    BY <1>2, <2>1, <2>2
<1>6. Legacy => Legacy'
  <2>1. Marking' => Marking
    BY <1>1 DEF Marking
  <2>2. at'["gc"] \in {"protecting", "open"} => at["gc"] \in {"protecting", "open"}
    BY <1>1 DEF Command
  <2> QED
    BY <1>0, <2>1, <2>2, LegacyKept
<1>7. ServedIsWhole => ServedIsWhole'
  BY <1>0, ServedKept
<1> QED
  BY <1>3, <1>4, <1>5, <1>6, <1>7 DEF IInv, Served

(* The backfill and the protection pass.                                   *)

(* The command that is opening is the only one, and nothing else goes on.  *)
LEMMA Opening ==
  ASSUME IInv, NEW c \in Command, at[c] \in {"opening", "marking", "protecting"}
  PROVE  /\ \A d \in Command : d # c => at[d] = "idle"
         /\ \A w \in Worker : job[w] = Idle
         /\ victim = None
  BY DEF IInv, Locked, Command

LEMMA OpeningLocked ==
  ASSUME IInv, NEW c \in Command, at[c] \in {"opening", "marking", "protecting"},
         UNCHANGED <<job, victim>>,
         \E pc : at' = [at EXCEPT ![c] = pc]
  PROVE  Locked'
  BY Opening DEF IInv, TypeOK, Locked

LEMMA Deciding ==
  ASSUME IInv, NEW c \in Command, backfillLegacyStore(c)
  PROVE  IInv'
<1> USE Facts
<1> DEFINE marked == \E e \in listEntries : hasMarker(entry[e])
           mark   == ~decided /\ ~marked /\ unreadable = {}
<1>0. UNCHANGED <<source, entry, temp, passed, job, victim>>
  BY DEF backfillLegacyStore
<1>1. /\ at[c] = "opening"
      /\ pass' = IF mark THEN [todo |-> listEntries, done |-> {}] ELSE pass
      /\ decided' \in IF marked /\ ~decided THEN Recorded ELSE {decided}
      /\ at' = [at EXCEPT ![c] = IF mark THEN "marking" ELSE "protecting"]
  BY DEF backfillLegacyStore
<1>2. listEntries \subseteq Entry
      /\ \A e \in Entry : e \in listEntries <=> entry[e] # None /\ Listed(e)
  BY DEF listEntries, Present, Listed
<1>3. \A d \in Command : d # c => at[d] = "idle"
  BY <1>1, Opening
<1>4. marked <=> \E e \in Entry : Listed(e) /\ hasMarker(entry[e])
  BY <1>2 DEF hasMarker
<1>5. unreadable = {} => \A e \in Entry : entry[e] # None => Listed(e)
  BY DEF unreadable, Present, Listed
<1> HIDE DEF marked, mark
<1>6. TypeOK'
  <2>1. pass' \in [todo : SUBSET Entry, done : SUBSET Entry]
    BY <1>1, <1>2 DEF IInv, TypeOK
  <2>2. decided' \in BOOLEAN
    BY <1>1 DEF IInv, TypeOK, Recorded
  <2>3. at' \in [Command -> {"idle", "opening", "marking", "protecting", "open"}]
    BY <1>1 DEF IInv, TypeOK
  <2> QED
    BY <1>0, <2>1, <2>2, <2>3 DEF IInv, TypeOK
<1>7. Locked'
  BY <1>0, <1>1, OpeningLocked
<1>8. Writing'
  BY <1>0, WritingKept
<1>9. ASSUME ~SentinelMayFail, Legacy
      PROVE  Legacy'
  <2>1. CASE marked
    BY <1>1, <1>3, <1>9, <2>1
       DEF Legacy, Marking, Recorded, Command, IInv, TypeOK, mark
  <2>2. CASE ~marked /\ decided
    BY <1>1, <1>3, <2>2 DEF Legacy, Marking, Command, IInv, TypeOK, mark
  <2>3. CASE ~marked /\ ~decided
    <3>1. decided' = decided
      BY <1>1, <2>3
    <3>2. \A e \in Entry : Listed(e) => Old(e)
      BY <1>4, <1>9, <2>3 DEF Legacy
    <3>3. Marking' => mark
      <4>1. CASE mark
        BY <4>1
      <4>2. CASE ~mark
        BY <1>1, <1>3, <4>2 DEF Marking, IInv, TypeOK
      <4> QED
        BY <4>1, <4>2
    <3>4. mark => \A e \in Entry : Old(e)
      BY <1>5, <3>2 DEF mark, Old
    <3> QED
      BY <1>0, <2>3, <3>1, <3>2, <3>3, <3>4 DEF Legacy, Old
  <2> QED
    BY <2>1, <2>2, <2>3 DEF IInv, TypeOK
<1>10. ServedIsWhole => ServedIsWhole'
  BY <1>0, ServedKept
<1> QED
  BY <1>6, <1>7, <1>8, <1>9, <1>10 DEF IInv, Served

LEMMA Marks ==
  ASSUME IInv, NEW c \in Command, BackfillMark(c)
  PROVE  IInv'
<1> USE Facts
<1>0. UNCHANGED <<source, temp, decided, passed, at, job, victim>> /\ at[c] = "marking"
  BY DEF BackfillMark
<1>1. PICK e \in pass.todo \cap Present :
        /\ entry' = [entry EXCEPT ![e].marker = Schema]
        /\ pass' = [todo |-> pass.todo \ {e}, done |-> pass.done \cup {e}]
  BY DEF BackfillMark, writeMarker
<1>2. e \in Entry /\ entry[e] \in Dir /\ entry[e] # None
  BY <1>1 DEF Present, IInv, TypeOK
<1>3. /\ entry' \in [Entry -> Dir \cup {None}]
      /\ \A x \in Entry : x # e => entry'[x] = entry[x]
      /\ entry'[e] \in Dir /\ entry'[e].marker = Schema
      /\ entry'[e].by = entry[e].by /\ entry'[e].files = entry[e].files
      /\ entry'[e].sealed = entry[e].sealed
  BY <1>1, <1>2 DEF IInv, TypeOK, Dir
<1>4. TypeOK'
  <2>1. pass' \in [todo : SUBSET Entry, done : SUBSET Entry]
    BY <1>1, <1>2 DEF IInv, TypeOK
  <2> QED
    BY <1>0, <1>3, <2>1 DEF IInv, TypeOK
<1>5. Locked'
  BY <1>0, Opening DEF IInv, Locked
<1>6. Writing'
  BY <1>0, WritingKept
<1>7. Legacy => Legacy' /\ entry'[e].by = 1
  <2> SUFFICES ASSUME Legacy PROVE Legacy' /\ entry'[e].by = 1
    OBVIOUS
  <2>1. ~decided /\ \A x \in Entry : Old(x)
    BY <1>0 DEF Legacy, Marking
  <2>2. \A x \in Entry : Old(x)'
    BY <1>2, <1>3, <2>1 DEF Old
  <2> QED
    BY <1>0, <1>2, <1>3, <2>1, <2>2 DEF Legacy, Old
<1>8. Served => ServedIsWhole'
  <2> SUFFICES ASSUME Served PROVE ServedIsWhole'
    OBVIOUS
  <2>1. \A x \in Entry : x # e => entry'[x] = entry[x]
    BY <1>3
  <2>2. entry'[e].by = 1
    BY <1>7 DEF Served
  <2> QED
    BY <2>1, <2>2, ServedKept DEF Served
<1> QED
  BY <1>4, <1>5, <1>6, <1>7, <1>8 DEF IInv, Served

LEMMA Unmarks ==
  ASSUME IInv, NEW c \in Command, BackfillUndo(c)
  PROVE  IInv'
<1> USE Facts
<1>0. /\ UNCHANGED <<source, temp, decided, passed, job, victim>> /\ pass' = NoPass
      /\ at[c] = "marking" /\ at' = [at EXCEPT ![c] = "protecting"]
  BY DEF BackfillUndo
<1>1. PICK kept \in SUBSET pass.done :
        entry' = [e \in Entry |-> IF e \in (pass.done \ kept) \cap Present
                                  THEN [entry[e] EXCEPT !.marker = NoMarker]
                                  ELSE entry[e]]
  BY DEF BackfillUndo
<1>2. \A e \in Entry : \/ entry'[e] = entry[e]
                       \/ /\ entry[e] \in Dir
                          /\ entry'[e] = [entry[e] EXCEPT !.marker = NoMarker]
  BY <1>1 DEF Present, IInv, TypeOK
<1>3. \A e \in Entry : /\ entry'[e] \in Dir \cup {None}
                       /\ \/ entry'[e] = entry[e]
                          \/ /\ entry[e] # None /\ entry'[e].marker = NoMarker
                             /\ entry'[e].by = entry[e].by
  <2> SUFFICES ASSUME NEW e \in Entry
               PROVE  /\ entry'[e] \in Dir \cup {None}
                      /\ \/ entry'[e] = entry[e]
                         \/ /\ entry[e] # None /\ entry'[e].marker = NoMarker
                            /\ entry'[e].by = entry[e].by
    OBVIOUS
  <2>1. CASE entry'[e] = entry[e]
    BY <2>1 DEF IInv, TypeOK
  <2>2. CASE entry[e] \in Dir /\ entry'[e] = [entry[e] EXCEPT !.marker = NoMarker]
    BY <2>2 DEF Dir
  <2> QED
    BY <1>2, <2>1, <2>2
<1>4. TypeOK'
  <2>1. pass' \in [todo : SUBSET Entry, done : SUBSET Entry]
    BY <1>0 DEF NoPass
  <2>2. entry' \in [Entry -> Dir \cup {None}]
    BY <1>1, <1>3
  <2> QED
    BY <1>0, <2>1, <2>2 DEF IInv, TypeOK
<1>5. Locked'
  BY <1>0, OpeningLocked
<1>6. Writing'
  BY <1>0, WritingKept
<1>7. Legacy => Legacy'
  <2> SUFFICES ASSUME Legacy PROVE Legacy'
    OBVIOUS
  <2>1. \A e \in Entry : Old(e)
    BY <1>0 DEF Legacy, Marking
  <2>2. \A e \in Entry : Old(e)'
    BY <1>3, <2>1 DEF Old
  <2>3. ~Marking'
    BY <1>0, Opening DEF Marking, IInv, TypeOK
  <2> QED
    BY <2>2, <2>3 DEF Legacy, Old
<1>8. ServedIsWhole => ServedIsWhole'
  <2>1. \A e \in Entry : CheckComplete(entry'[e]) => entry'[e] = entry[e]
    BY <1>3 DEF CheckComplete, NoMarker, Schema
  <2> QED
    BY <2>1, ServedKept
<1> QED
  BY <1>4, <1>5, <1>6, <1>7, <1>8 DEF IInv, Served

LEMMA Decided ==
  ASSUME IInv, NEW c \in Command, recordBackfillDecision(c)
  PROVE  IInv'
<1> USE Facts
<1>0. /\ UNCHANGED <<source, entry, temp, passed, job, victim>> /\ pass' = NoPass
      /\ at[c] = "marking" /\ at' = [at EXCEPT ![c] = "protecting"]
      /\ decided' \in Recorded
  BY DEF recordBackfillDecision
<1>1. TypeOK'
  <2>1. pass' \in [todo : SUBSET Entry, done : SUBSET Entry]
    BY <1>0 DEF NoPass
  <2> QED
    BY <1>0, <2>1 DEF IInv, TypeOK, Recorded
<1>2. Locked'
  BY <1>0, OpeningLocked
<1>3. Writing'
  BY <1>0, WritingKept
<1>4. ~SentinelMayFail => Legacy'
  <2>1. ~Marking'
    BY <1>0, Opening DEF Marking, IInv, TypeOK
  <2> QED
    BY <1>0, <2>1 DEF Legacy, Recorded
<1>5. ServedIsWhole => ServedIsWhole'
  BY <1>0, ServedKept
<1> QED
  BY <1>1, <1>2, <1>3, <1>4, <1>5 DEF IInv, Served

(* The protection pass takes write bits away and nothing else.             *)
LEMMA Protected ==
  ASSUME IInv, NEW c \in Command, protectExistingEntries(c)
  PROVE  /\ entry' \in [Entry -> Dir \cup {None}]
         /\ \A e \in Entry :
               \/ entry'[e] = entry[e]
               \/ /\ entry[e] \in Dir /\ entry'[e] \in Dir /\ entry'[e].sealed
                  /\ entry'[e].files = entry[e].files /\ entry'[e].marker = entry[e].marker
                  /\ entry'[e].by = entry[e].by
<1> USE Facts
<1>0. \/ entry' = entry
      \/ \E reached \in {{}, listEntries} :
            entry' = [e \in Entry |-> IF e \in reached
                                      THEN [entry[e] EXCEPT !.sealed = TRUE]
                                      ELSE entry[e]]
  BY DEF protectExistingEntries
<1>1. CASE entry' = entry
  BY <1>1 DEF IInv, TypeOK
<1>2. CASE entry' # entry
  <2>1. PICK reached \in {{}, listEntries} :
          entry' = [e \in Entry |-> IF e \in reached
                                    THEN [entry[e] EXCEPT !.sealed = TRUE]
                                    ELSE entry[e]]
    BY <1>0, <1>2
  <2>2. \A e \in Entry : e \in reached => entry[e] \in Dir
    BY <2>1 DEF listEntries, Present, IInv, TypeOK
  <2>3. \A d \in Dir : LET s == [d EXCEPT !.sealed = TRUE]
                       IN  /\ s \in Dir /\ s.sealed /\ s.files = d.files
                           /\ s.marker = d.marker /\ s.by = d.by
    BY DEF Dir
  <2>4. \A e \in Entry : \/ entry'[e] = entry[e]
                         \/ entry[e] \in Dir /\ entry'[e] = [entry[e] EXCEPT !.sealed = TRUE]
    BY <2>1, <2>2
  <2>5. \A e \in Entry : entry[e] \in Dir \cup {None}
    BY DEF IInv, TypeOK
  <2>6. \A e \in Entry : entry'[e] \in Dir \cup {None}
    BY <2>3, <2>4, <2>5
  <2> QED
    BY <2>1, <2>3, <2>4, <2>6
<1> QED
  BY <1>1, <1>2

LEMMA Protects ==
  ASSUME IInv, NEW c \in Command, protectExistingEntries(c)
  PROVE  IInv'
<1> USE Facts
<1>0. /\ UNCHANGED <<source, temp, decided, pass, job, victim>>
      /\ at[c] = "protecting" /\ at' = [at EXCEPT ![c] = "open"]
      /\ passed' \in BOOLEAN
  BY DEF protectExistingEntries, Recorded, IInv, TypeOK
<1>2. /\ entry' \in [Entry -> Dir \cup {None}]
      /\ \A e \in Entry :
            \/ entry'[e] = entry[e]
            \/ /\ entry[e] \in Dir /\ entry'[e] \in Dir /\ entry'[e].sealed
               /\ entry'[e].files = entry[e].files /\ entry'[e].marker = entry[e].marker
               /\ entry'[e].by = entry[e].by
  BY Protected
<1>3. TypeOK'
  BY <1>0, <1>2 DEF IInv, TypeOK
<1>4. Locked'
  BY <1>0, OpeningLocked
<1>5. Writing'
  BY <1>0, WritingKept
<1>6. Legacy => Legacy'
  <2>1. Marking' => Marking
    BY <1>0 DEF Marking, IInv, TypeOK
  <2>2. at'["gc"] \in {"protecting", "open"} => at["gc"] \in {"protecting", "open"}
    BY <1>0 DEF IInv, TypeOK, Command
  <2>3. \A e \in Entry : entry'[e] # None =>
            /\ entry[e] # None /\ entry'[e].by = entry[e].by
            /\ hasMarker(entry[e]) => hasMarker(entry'[e])
    BY <1>2 DEF hasMarker
  <2> QED
    BY <1>0, <2>1, <2>2, <2>3, LegacyKept
<1>7. ServedIsWhole => ServedIsWhole'
  <2>1. \A e \in Entry : CheckComplete(entry'[e]) =>
            /\ CheckComplete(entry[e]) /\ entry'[e].by = entry[e].by
            /\ entry'[e].files = entry[e].files
            /\ entry[e].sealed => entry'[e].sealed
    BY <1>2 DEF CheckComplete
  <2> QED
    BY <2>1, ServedKept
<1> QED
  BY <1>3, <1>4, <1>5, <1>6, <1>7 DEF IInv, Served

(* The goroutines of a publish.                                            *)

LEMMA Working ==
  ASSUME IInv, NEW w \in Worker, job[w].pc # "idle"
  PROVE  at["publish"] = "open" /\ at["gc"] = "idle" /\ victim = None /\ ~Marking
  BY Facts DEF IInv, Locked, Marking, Command

LEMMA EntriesAlone ==
  ASSUME IInv, UNCHANGED <<entry, decided, at>>
  PROVE  (Legacy => Legacy') /\ (ServedIsWhole => ServedIsWhole')
  BY DEF Legacy, Marking, Old, ServedIsWhole

(* A goroutine touches its own directory, or one that was not there.       *)
LEMMA OneWorker ==
  ASSUME IInv, NEW w \in Worker, NEW t \in Temp,
         temp[t] = None \/ job[w].temp = t,
         \A v \in Worker \ {w} : job'[v] = job[v],
         \A u \in Temp \ {t} : temp'[u] = temp[u],
         job'[w].temp \in {None, t},
         Filled(job[w])'
  PROVE  Writing'
<1> USE Facts
<1>1. \A v \in Worker : job[v].temp \in Temp \cup {None}
  BY DEF IInv, TypeOK
<1>2. \A v \in Worker \ {w} : job[v].temp # t
  BY <1>1 DEF IInv, Writing, Apart, Filled
<1>3. Apart'
  BY <1>1, <1>2 DEF IInv, Writing, Apart
<1>4. ASSUME NEW v \in Worker, v # w
      PROVE  Filled(job[v])'
  <2>1. job'[v] = job[v] /\ Filled(job[v])
    BY <1>4 DEF IInv, Writing
  <2>2. job[v].temp # None => temp'[job[v].temp] = temp[job[v].temp]
    BY <1>1, <1>2, <1>4
  <2>3. job[v].pc \in {"mark", "rename"} => job[v].temp # None
    BY <2>1 DEF Filled, Filling
  <2> QED
    BY <2>1, <2>2, <2>3 DEF Filled, Filling, Whole
<1> QED
  BY <1>3, <1>4 DEF Writing

Jobs == [pc : {"idle", "check", "copy", "mark", "rename"},
         build : Entry \cup {None}, temp : Temp \cup {None}]

LEMMA Edits ==
  ASSUME IInv, NEW n \in Name, NEW h \in Content, Edit(n, h)
  PROVE  IInv'
<1>1. TypeOK'
  BY DEF Edit, IInv, TypeOK
<1>2. Locked'
  BY DEF Edit, IInv, Locked
<1>3. Writing'
  BY WritingKept DEF Edit
<1> QED
  BY <1>1, <1>2, <1>3, EntriesAlone DEF Edit, IInv, Served

LEMMA Packs ==
  ASSUME IInv, NEW w \in Worker, NEW n \in Name, Pack(w, n)
  PROVE  IInv'
<1> USE Facts
<1>0. UNCHANGED <<source, entry, temp, decided, passed, at, pass, victim>>
      /\ at["publish"] = "open"
  BY DEF Pack
<1> DEFINE j == [pc |-> "check", build |-> <<n, source[n]>>, temp |-> None]
<1>1. job' = [job EXCEPT ![w] = j] /\ <<n, source[n]>> \in Entry
  BY DEF Pack, Entry
<1>2. j \in Jobs /\ j.pc = "check" /\ j.temp = None /\ j.build \in Entry
  BY <1>1 DEF Jobs
<1> HIDE DEF j
<1>3. TypeOK'
  BY <1>0, <1>1, <1>2 DEF IInv, TypeOK, Jobs
<1>4. Locked'
  BY <1>0 DEF IInv, Locked
<1>5. Writing'
  <2>1. Filled(job[w])'
    BY <1>1, <1>2 DEF Filled, Filling, IInv, TypeOK
  <2>2. Apart'
    BY <1>1, <1>2 DEF IInv, TypeOK, Writing, Apart
  <2>3. \A v \in Worker : v # w => Filled(job[v])'
    BY <1>0, <1>1 DEF IInv, TypeOK, Writing, Filled, Whole
  <2> QED
    BY <2>1, <2>2, <2>3 DEF Writing
<1> QED
  BY <1>0, <1>3, <1>4, <1>5, EntriesAlone DEF IInv, Served

LEMMA Checks ==
  ASSUME IInv, NEW w \in Worker, CheckStored(w)
  PROVE  IInv'
<1> USE Facts
<1>0. UNCHANGED <<source, entry, decided, passed, at, pass, victim>> /\ job[w].pc = "check"
  BY DEF CheckStored
<1>1. job[w] \in Jobs /\ job[w].build \in Entry /\ job[w].temp = None
  BY <1>0 DEF IInv, TypeOK, Jobs, Writing, Filled, Filling
<1>2. Locked'
  BY <1>0, Working DEF IInv, Locked
<1>3. CASE job' = [job EXCEPT ![w] = Idle] /\ UNCHANGED temp
  <2>1. TypeOK'
    BY <1>0, <1>3 DEF IInv, TypeOK, Idle
  <2>2. Writing'
    <3>1. \A v \in Worker : Filled(job[v])'
      BY <1>3 DEF IInv, TypeOK, Writing, Filled, Filling, Whole
    <3>2. Apart'
      BY <1>3 DEF IInv, TypeOK, Writing, Apart
    <3> QED
      BY <3>1, <3>2 DEF Writing
  <2> QED
    BY <1>0, <1>2, <2>1, <2>2, EntriesAlone DEF IInv, Served
<1>4. ASSUME NEW t \in Temp, temp[t] = None, temp' = [temp EXCEPT ![t] = EmptyDir],
             job' = [job EXCEPT ![w].pc = "copy", ![w].temp = t]
      PROVE  IInv'
  <2> DEFINE i == [job[w] EXCEPT !.pc = "copy"]
             j == [i EXCEPT !.temp = t]
  <2>1. job' = [job EXCEPT ![w] = j]
    BY <1>4
  <2>2. i \in Jobs /\ i.pc = "copy" /\ i.build = job[w].build
    BY <1>1 DEF Jobs
  <2> HIDE DEF i
  <2>3. j \in Jobs /\ j.pc = "copy" /\ j.build = job[w].build /\ j.temp = t
    BY <2>2 DEF Jobs
  <2> HIDE DEF j
  <2>4. TypeOK'
    <3>1. job' \in [Worker -> Jobs]
      BY <2>1, <2>3 DEF IInv, TypeOK, Jobs
    <3>2. temp' \in [Temp -> Dir \cup {None}]
      BY <1>4 DEF IInv, TypeOK
    <3> QED
      BY <1>0, <3>1, <3>2 DEF IInv, TypeOK, Jobs
  <2>5. job'[w] = j /\ temp'[t] = EmptyDir
    BY <1>4, <2>1 DEF IInv, TypeOK
  <2>6. Filled(job[w])'
    BY <1>1, <2>3, <2>5 DEF Filled, Filling
  <2>7. Writing'
    <3>1. \A v \in Worker \ {w} : job'[v] = job[v]
      BY <2>1 DEF IInv, TypeOK
    <3>2. \A u \in Temp \ {t} : temp'[u] = temp[u]
      BY <1>4 DEF IInv, TypeOK
    <3> QED
      BY <1>4, <2>3, <2>5, <2>6, <3>1, <3>2, OneWorker
  <2> QED
    BY <1>0, <1>2, <2>4, <2>7, EntriesAlone DEF IInv, Served
<1> QED
  BY <1>3, <1>4 DEF CheckStored

(* What CopyFile, protectTree, MarkTemp and StoreFails have in common.     *)
LEMMA InTemp ==
  ASSUME IInv, NEW w \in Worker, job[w].pc \in Filling,
         NEW j \in Jobs, job' = [job EXCEPT ![w] = j],
         j.temp = job[w].temp \/ j = Idle, j.build \in Entry \/ j = Idle,
         NEW d \in Dir \cup {None}, temp' = [temp EXCEPT ![job[w].temp] = d],
         j # Idle => /\ j.pc \in Filling /\ d # None /\ d.by = 4
                     /\ j.pc \in {"mark", "rename"} => Whole(d) /\ d.sealed
                     /\ j.pc = "rename" => d.marker = Schema,
         UNCHANGED <<source, entry, decided, passed, at, pass, victim>>
  PROVE  IInv'
<1> USE Facts
<1> DEFINE t == job[w].temp
<1>1. t \in Temp
  BY DEF IInv, TypeOK, Writing, Filled
<1>2. TypeOK'
  BY <1>1 DEF IInv, TypeOK, Jobs
<1>3. Locked'
  BY Working DEF IInv, TypeOK, Locked, Filling
<1>4. job'[w] = j /\ temp'[t] = d
  BY <1>1 DEF IInv, TypeOK
<1>5. Filled(job[w])'
  BY <1>1, <1>4 DEF Filled, Filling, Whole
<1>6. Writing'
  <2>1. \A v \in Worker \ {w} : job'[v] = job[v]
    BY DEF IInv, TypeOK
  <2>2. \A u \in Temp \ {t} : temp'[u] = temp[u]
    BY <1>1 DEF IInv, TypeOK
  <2> QED
    BY <1>1, <1>4, <1>5, <2>1, <2>2, OneWorker
<1> QED
  BY <1>2, <1>3, <1>6, EntriesAlone DEF IInv, Served

LEMMA Fills ==
  ASSUME IInv, NEW w \in Worker,
         \/ \E f \in File : CopyFile(w, f)
         \/ protectTree(w) \/ MarkTemp(w) \/ StoreFails(w)
  PROVE  IInv'
<1> USE Facts
<1> DEFINE t == job[w].temp
           d == temp[t]
<1>1. job[w].pc \in Filling
  BY DEF CopyFile, protectTree, MarkTemp, StoreFails, Filling
<1>2. job[w] \in Jobs /\ job[w].build \in Entry /\ t \in Temp /\ d \in Dir /\ d.by = 4
      /\ Filled(job[w])
  BY <1>1 DEF IInv, TypeOK, Jobs, Writing, Filled, Filling
<1>3. \A pc \in Filling : LET j == [job[w] EXCEPT !.pc = pc]
                          IN  /\ j \in Jobs /\ j.pc = pc /\ j.build = job[w].build
                              /\ j.temp = t /\ j # Idle
  BY <1>2 DEF Jobs, Filling
<1>4. ASSUME NEW f \in File, CopyFile(w, f)
      PROVE  IInv'
  <2> DEFINE c == source[job[w].build[1]]
             g == [d.files EXCEPT ![f] = c]
             k == [d EXCEPT !.files = g]
  <2>1. c \in Content
    BY <1>2 DEF Entry, IInv, TypeOK
  <2>2. temp' = [temp EXCEPT ![t] = k] /\ job[w].pc = "copy"
        /\ UNCHANGED <<source, entry, decided, passed, at, pass, job, victim>>
    BY <1>4 DEF CopyFile
  <2>3. g \in [File -> Content \cup {None}]
    BY <1>2, <2>1 DEF Dir
  <2> HIDE DEF g
  <2>4. k \in Dir /\ k.by = 4 /\ k # None
    BY <1>2, <2>3 DEF Dir
  <2> HIDE DEF k
  <2>5. job' = [job EXCEPT ![w] = job[w]]
    BY <2>2 DEF IInv, TypeOK
  <2> QED
    BY <1>1, <1>2, <2>2, <2>4, <2>5, InTemp
<1>5. CASE protectTree(w)
  <2> DEFINE k == [d EXCEPT !.sealed = TRUE]
             j == [job[w] EXCEPT !.pc = "mark"]
  <2>1. temp' = [temp EXCEPT ![t] = k] /\ job' = [job EXCEPT ![w] = j] /\ Whole(d)
        /\ UNCHANGED <<source, entry, decided, passed, at, pass, victim>>
    BY <1>5 DEF protectTree
  <2>2. k \in Dir /\ k.by = 4 /\ k.sealed /\ k.files = d.files
    BY <1>2 DEF Dir
  <2>3. j \in Jobs /\ j.pc = "mark" /\ j.build = job[w].build /\ j.temp = t
    BY <1>3 DEF Filling
  <2> HIDE DEF k, j
  <2>4. Whole(k)
    BY <2>1, <2>2 DEF Whole
  <2> QED
    BY <1>1, <1>2, <2>1, <2>2, <2>3, <2>4, InTemp DEF Filling
<1>6. CASE MarkTemp(w)
  <2> DEFINE k == [d EXCEPT !.marker = Schema]
             j == [job[w] EXCEPT !.pc = "rename"]
  <2>1. temp' = [temp EXCEPT ![t] = k] /\ job' = [job EXCEPT ![w] = j]
        /\ job[w].pc = "mark"
        /\ UNCHANGED <<source, entry, decided, passed, at, pass, victim>>
    BY <1>6 DEF MarkTemp
  <2>2. k \in Dir /\ k.by = 4 /\ k.sealed = d.sealed /\ k.files = d.files /\ k.marker = Schema
    BY <1>2 DEF Dir
  <2>3. j \in Jobs /\ j.pc = "rename" /\ j.build = job[w].build /\ j.temp = t
    BY <1>3 DEF Filling
  <2> HIDE DEF k, j
  <2>4. Whole(k) /\ k.sealed
    BY <1>2, <2>1, <2>2 DEF Whole, Filled
  <2> QED
    BY <1>1, <1>2, <2>1, <2>2, <2>3, <2>4, InTemp DEF Filling
<1>7. CASE StoreFails(w)
  <2>1. Idle \in Jobs
    BY DEF Idle, Jobs
  <2> QED
    BY <1>1, <1>7, <2>1, InTemp DEF StoreFails
<1> QED
  BY <1>4, <1>5, <1>6, <1>7

LEMMA Finalizes ==
  ASSUME IInv, NEW w \in Worker, finalize(w)
  PROVE  IInv'
<1> USE Facts
<1> DEFINE e == job[w].build
           t == job[w].temp
<1>0. UNCHANGED <<source, decided, passed, at, pass, victim>> /\ job[w].pc = "rename"
      /\ temp' = [temp EXCEPT ![t] = None] /\ job' = [job EXCEPT ![w] = Idle]
      /\ entry' = IF entry[e] = None \/ Empty(entry[e])
                  THEN [entry EXCEPT ![e] = temp[t]] ELSE entry
  BY DEF finalize
<1>1. /\ e \in Entry /\ t \in Temp /\ temp[t] \in Dir /\ temp[t].by = 4
      /\ Whole(temp[t]) /\ temp[t].sealed /\ temp[t].marker = Schema
  BY <1>0 DEF IInv, TypeOK, Writing, Filled, Filling
<1>2. at["publish"] = "open" /\ at["gc"] = "idle" /\ victim = None /\ ~Marking
  BY <1>0, Working
<1>3. \A x \in Entry : \/ entry'[x] = entry[x]
                       \/ entry'[x] = temp[t]
  BY <1>0, <1>1 DEF IInv, TypeOK
<1>4. TypeOK'
  BY <1>0, <1>1 DEF IInv, TypeOK, Idle
<1>5. Locked'
  BY <1>0, <1>2 DEF IInv, Locked
<1>6. Writing'
  <2>1. Filled(Idle)'
    BY DEF Filled, Filling
  <2>2. \A v \in Worker \ {w} : job'[v] = job[v]
    BY <1>0 DEF IInv, TypeOK
  <2>3. \A u \in Temp \ {t} : temp'[u] = temp[u]
    BY <1>0, <1>1 DEF IInv, TypeOK
  <2>4. job'[w] = Idle
    BY <1>0 DEF IInv, TypeOK
  <2>5. Filled(job[w])'
    BY <2>4 DEF Filled, Filling
  <2> QED
    BY <1>1, <2>2, <2>3, <2>4, <2>5, OneWorker
<1>7. Legacy => Legacy'
  <2> SUFFICES ASSUME Legacy PROVE Legacy'
    OBVIOUS
  <2>1. ~Marking' /\ at'["gc"] = "idle"
    BY <1>0, <1>2 DEF Marking
  <2>2. hasMarker(temp[t])
    BY <1>1 DEF hasMarker, NoMarker, Schema
  <2>3. ASSUME ~decided, NEW x \in Entry, Listed(x)
        PROVE  Old(x)' \/ hasMarker(entry'[x])
    BY <1>3, <2>2, <2>3 DEF Legacy, Old
  <2> QED
    BY <1>0, <2>1, <2>3 DEF Legacy, Listed
<1>8. ServedIsWhole => ServedIsWhole'
  BY <1>1, <1>3 DEF ServedIsWhole
<1> QED
  BY <1>4, <1>5, <1>6, <1>7, <1>8 DEF IInv, Served

(* gc, and the user.                                                       *)

LEMMA ByHand ==
  ASSUME IInv, NEW e \in Entry, DeleteByHand(e)
  PROVE  IInv'
<1> USE Facts
<1>0. UNCHANGED <<source, temp, decided, passed, at, pass, job, victim>>
      /\ entry' = [entry EXCEPT ![e] = None]
  BY DEF DeleteByHand
<1>1. \A x \in Entry : entry'[x] = IF x = e THEN None ELSE entry[x]
  BY <1>0 DEF IInv, TypeOK
<1>2. TypeOK'
  BY <1>0 DEF IInv, TypeOK
<1>3. Locked'
  BY <1>0, <1>1 DEF IInv, TypeOK, Locked
<1>4. Writing'
  BY <1>0, WritingKept
<1>5. Legacy => Legacy'
  BY <1>0, <1>1, LegacyKept DEF Marking
<1>6. ServedIsWhole => ServedIsWhole'
  BY <1>1, ServedKept DEF CheckComplete
<1> QED
  BY <1>2, <1>3, <1>4, <1>5, <1>6 DEF IInv, Served

(* Past its opening gc is alone, and what it meets unmarked, undecided, is *)
(* of 1.x.                                                                 *)
LEMMA Collecting ==
  ASSUME IInv, at["gc"] = "open"
  PROVE  (\A w \in Worker : job[w] = Idle) /\ ~Marking
  BY DEF IInv, Locked, Marking, Command

(* Entries lose their markers, then their files, then are gone.            *)
LEMMA Removing ==
  ASSUME IInv, at["gc"] = "open", NEW e \in Entry, NEW d \in Dir \cup {None},
         entry' = [entry EXCEPT ![e] = d],
         d # None => entry[e] # None /\ d.by = entry[e].by /\ d.marker = NoMarker,
         victim' \in {e, None},
         UNCHANGED <<source, temp, decided, passed, at, pass, job>>
  PROVE  IInv'
<1> USE Facts
<1>1. \A x \in Entry : entry'[x] = IF x = e THEN d ELSE entry[x]
  BY DEF IInv, TypeOK
<1>2. TypeOK'
  BY DEF IInv, TypeOK
<1>3. Locked'
  BY <1>1 DEF IInv, Locked
<1>4. Writing'
  BY WritingKept
<1>5. Legacy => Legacy'
  <2> SUFFICES ASSUME Legacy PROVE Legacy'
    OBVIOUS
  <2>1. ~decided => \A x \in Entry : Listed(x) => Old(x)
    BY DEF Legacy
  <2>2. ~decided => \A x \in Entry : Listed(x) => Old(x)'
    BY <1>1, <2>1 DEF Old
  <2>3. ~Marking'
    BY Collecting DEF Marking
  <2> QED
    BY <2>2, <2>3 DEF Legacy, Listed
<1>6. ServedIsWhole => ServedIsWhole'
  <2>1. \A x \in Entry : CheckComplete(entry'[x]) => entry'[x] = entry[x]
    BY <1>1 DEF CheckComplete, NoMarker, Schema
  <2> QED
    BY <2>1, ServedKept
<1> QED
  BY <1>2, <1>3, <1>4, <1>5, <1>6 DEF IInv, Served

LEMMA Collects ==
  ASSUME IInv,
         \/ \E e \in Entry : RemoveMarker(e)
         \/ \E f \in File : RemoveFile(f)
         \/ RemoveDir \/ RemoveFails
         \/ \E t \in Temp : reapTempDirs(t)
  PROVE  IInv'
<1> USE Facts
<1>1. ASSUME NEW e \in Entry, RemoveMarker(e)
      PROVE  IInv'
  <2> DEFINE d == [entry[e] EXCEPT !.marker = NoMarker]
  <2>1. entry[e] \in Dir /\ entry[e] # None
    BY <1>1 DEF RemoveMarker, IInv, TypeOK
  <2>2. d \in Dir /\ d.by = entry[e].by /\ d.marker = NoMarker
    BY <2>1 DEF Dir, NoMarker
  <2>3. entry' = [entry EXCEPT ![e] = d]
    BY <1>1 DEF RemoveMarker
  <2> HIDE DEF d
  <2> QED
    BY <1>1, <2>1, <2>2, <2>3, Removing DEF RemoveMarker
<1>2. ASSUME NEW f \in File, RemoveFile(f)
      PROVE  IInv'
  <2> DEFINE e == victim
             g == [entry[e].files EXCEPT ![f] = None]
             d == [entry[e] EXCEPT !.files = g]
  <2>1. e \in Entry /\ entry[e] \in Dir /\ entry[e] # None
        /\ entry[e].marker = NoMarker /\ at["gc"] = "open"
    BY <1>2 DEF RemoveFile, IInv, TypeOK, Locked
  <2>2. g \in [File -> Content \cup {None}]
    BY <2>1 DEF Dir
  <2>3. entry' = [entry EXCEPT ![e] = d]
    BY <1>2 DEF RemoveFile
  <2> HIDE DEF g
  <2>4. d \in Dir /\ d.by = entry[e].by /\ d.marker = NoMarker
    BY <2>1, <2>2 DEF Dir
  <2> HIDE DEF d
  <2> QED
    BY <1>2, <2>1, <2>3, <2>4, Removing DEF RemoveFile
<1>3. CASE RemoveDir
  <2>1. victim \in Entry /\ at["gc"] = "open"
    BY <1>3 DEF RemoveDir, IInv, TypeOK, Locked
  <2> QED
    BY <1>3, <2>1, Removing DEF RemoveDir
<1>4. CASE RemoveFails
  <2>1. TypeOK' /\ Locked'
    BY <1>4 DEF RemoveFails, IInv, TypeOK, Locked
  <2> QED
    BY <1>4, <2>1, WritingKept, EntriesAlone DEF RemoveFails, IInv, Served
<1>5. ASSUME NEW t \in Temp, reapTempDirs(t)
      PROVE  IInv'
  <2>1. TypeOK' /\ Locked'
    BY <1>5 DEF reapTempDirs, IInv, TypeOK, Locked
  <2>2. Writing'
    <3>1. \A w \in Worker : job'[w] = Idle
      BY <1>5, Collecting DEF reapTempDirs
    <3> QED
      BY <3>1 DEF Writing, Apart, Filled, Filling
  <2> QED
    BY <1>5, <2>1, <2>2, EntriesAlone DEF reapTempDirs, IInv, Served
<1> QED
  BY <1>1, <1>2, <1>3, <1>4, <1>5

LEMMA Invariance == IInv /\ [Next]_vars => IInv'
<1>1. ASSUME IInv, UNCHANGED vars
      PROVE  IInv'
  <2>1. TypeOK' /\ Locked'
    BY <1>1 DEF vars, IInv, TypeOK, Locked
  <2> QED
    BY <1>1, <2>1, WritingKept, EntriesAlone DEF vars, IInv, Served
<1>2. ASSUME IInv, Next
      PROVE  IInv'
  BY <1>2, Coming, Deciding, Marks, Unmarks, Decided, Protects, Edits, Packs, Checks, Fills,
     Finalizes, ByHand, Collects DEF Next
<1> QED
  BY <1>1, <1>2

-----------------------------------------------------------------------------
(* Types, for any instance.                                                *)
THEOREM TypeCorrect == Spec => []TypeOK
<1>1. IInv => TypeOK
  BY DEF IInv
<1> QED
  BY <1>1, Initially, Invariance, PTL DEF Spec

(* No sweep takes a directory from under a goroutine, and no two           *)
(* goroutines share one, however many there are: the database lock keeps   *)
(* gc away from them, and os.MkdirTemp from each other.                    *)
THEOREM Kept == Spec => []WritersKeepTheirTemp
<1>1. IInv => WritersKeepTheirTemp
  BY DEF IInv, Writing, Apart, Filled, WritersKeepTheirTemp
<1> QED
  BY <1>1, Initially, Invariance, PTL DEF Spec

(* What CheckComplete accepts is whole and sealed, unless a 1.x release    *)
(* left it, in every store whose root takes the backfill's sentinel.       *)
THEOREM WholeServed == ASSUME ~SentinelMayFail PROVE Spec => []ServedIsWhole
<1>1. IInv => ServedIsWhole
  BY DEF IInv, Served
<1> QED
  BY <1>1, Initially, Invariance, PTL DEF Spec

-----------------------------------------------------------------------------
(* What a step does to what is served.                                     *)

Serves(e) == CheckComplete(entry[e]) /\ entry[e].by # 1
Same(e) == (Serves(e)' <=> Serves(e)) /\ (Serves(e) => entry'[e].files = entry[e].files)
Trusted(e) == CheckComplete(entry[e]) \/ entry[e] = None \/ Empty(entry[e])

(* Nothing; a build more, whole; a build less.  And it comes to trust      *)
(* nothing that is there, but for a store that is all of 1.x.              *)
Serving ==
    \/ \A e \in Entry : Same(e)
    \/ \E e \in Entry : /\ \A x \in Entry \ {e} : Same(x)
                        /\ ~Serves(e) /\ Serves(e)' /\ entry'[e].files \in [File -> Content]
    \/ \E e \in Entry : /\ \A x \in Entry \ {e} : Same(x)
                        /\ Serves(e) /\ ~Serves(e)'
Trusting == \A e \in Entry : CheckComplete(entry'[e]) => Trusted(e) \/ \A x \in Entry : Old(x)

LEMMA EntryKept ==
  ASSUME UNCHANGED entry
  PROVE  Serving /\ Trusting
  BY DEF Serving, Same, Serves, Trusting, Trusted

(* An entry that is not marked by now is not served, whatever it was.      *)
LEMMA EntryUnmarked ==
  ASSUME IInv, NEW e \in Entry, NEW d \in Dir \cup {None}, d = None \/ d.marker = NoMarker,
         entry' = [entry EXCEPT ![e] = d]
  PROVE  Serving /\ Trusting
<1>1. \A x \in Entry : entry'[x] = IF x = e THEN d ELSE entry[x]
  BY DEF IInv, TypeOK
<1>2. ~CheckComplete(d)
  BY DEF CheckComplete, NoMarker, Schema
<1>3. \A x \in Entry \ {e} : Same(x)
  BY <1>1 DEF Same, Serves
<1>4. ~Serves(e)'
  BY <1>1, <1>2 DEF Serves
<1>5. Serving
  BY <1>3, <1>4 DEF Serving, Same
<1>6. Trusting
  BY <1>1, <1>2 DEF Trusting, Trusted
<1> QED
  BY <1>5, <1>6

LEMMA StepServing ==
  ASSUME IInv, ~SentinelMayFail, Next
  PROVE  Serving /\ Trusting
<1> USE Facts
<1>1. ASSUME NEW c \in Command,
             \/ GetDB(c) \/ Exit(c) \/ Crash(c)
             \/ backfillLegacyStore(c) \/ recordBackfillDecision(c)
      PROVE  Serving /\ Trusting
  BY <1>1, EntryKept
     DEF GetDB, Exit, Crash, backfillLegacyStore, recordBackfillDecision
<1>2. ASSUME NEW c \in Command, BackfillMark(c) \/ BackfillUndo(c)
      PROVE  Serving /\ Trusting
  <2>1. \A x \in Entry : Old(x)
    BY <1>2 DEF BackfillMark, BackfillUndo, IInv, Served, Legacy, Marking
  <2>2. IInv' /\ at[c] = "marking" /\ UNCHANGED decided
    BY <1>2, Marks, Unmarks DEF BackfillMark, BackfillUndo
  <2>3. \A x \in Entry : entry'[x] # None => entry'[x].by = 1
    <3>1. CASE BackfillMark(c)
      BY <1>2, <2>2, <3>1 DEF BackfillMark, IInv, Served, Legacy, Marking, Old
    <3>2. CASE BackfillUndo(c)
      <4>1. PICK kept \in SUBSET pass.done :
              entry' = [e \in Entry |-> IF e \in (pass.done \ kept) \cap Present
                                        THEN [entry[e] EXCEPT !.marker = NoMarker]
                                        ELSE entry[e]]
        BY <3>2 DEF BackfillUndo
      <4>2. \A x \in Entry : entry'[x] = entry[x] \/
               (entry[x] \in Dir /\ entry'[x] = [entry[x] EXCEPT !.marker = NoMarker])
        BY <4>1 DEF Present, IInv, TypeOK
      <4>3. \A r \in Dir : [r EXCEPT !.marker = NoMarker].by = r.by
        BY DEF Dir
      <4> QED
        BY <2>1, <4>2, <4>3 DEF Old
    <3> QED
      BY <1>2, <3>1, <3>2
  <2>4. \A x \in Entry : ~Serves(x) /\ ~Serves(x)'
    BY <2>1, <2>3 DEF Serves, Old, CheckComplete
  <2> QED
    BY <2>1, <2>4 DEF Serving, Same, Trusting
<1>3. ASSUME NEW c \in Command, protectExistingEntries(c)
      PROVE  Serving /\ Trusting
  <2>1. \A e \in Entry : /\ CheckComplete(entry'[e]) <=> CheckComplete(entry[e])
                         /\ CheckComplete(entry[e]) => /\ entry'[e].files = entry[e].files
                                                       /\ entry'[e].by = entry[e].by
    BY <1>3, Protected DEF CheckComplete
  <2> QED
    BY <2>1 DEF Serving, Same, Serves, Trusting, Trusted
<1>4. ASSUME NEW n \in Name, NEW h \in Content, Edit(n, h)
      PROVE  Serving /\ Trusting
  BY <1>4, EntryKept DEF Edit
<1>5. ASSUME NEW w \in Worker,
             \/ \E n \in Name : Pack(w, n)
             \/ \E f \in File : CopyFile(w, f)
             \/ CheckStored(w) \/ protectTree(w) \/ MarkTemp(w) \/ StoreFails(w)
      PROVE  Serving /\ Trusting
  BY <1>5, EntryKept DEF Pack, CopyFile, CheckStored, protectTree, MarkTemp, StoreFails
<1>6. ASSUME NEW w \in Worker, finalize(w)
      PROVE  Serving /\ Trusting
  <2>1. PICK e \in Entry, d \in Dir :
           /\ e = job[w].build /\ d = temp[job[w].temp]
           /\ d.by = 4 /\ Whole(d) /\ d.marker = Schema
    BY <1>6 DEF finalize, IInv, TypeOK, Writing, Filled, Filling
  <2>2. CASE entry[e] = None \/ Empty(entry[e])
    <3>1. \A x \in Entry : entry'[x] = IF x = e THEN d ELSE entry[x]
      BY <1>6, <2>1, <2>2 DEF finalize, IInv, TypeOK
    <3>2. \A x \in Entry \ {e} : Same(x)
      BY <3>1 DEF Same, Serves
    <3>3. ~Serves(e)
      BY <2>2 DEF Serves, CheckComplete, Empty, NoMarker, Schema
    <3>4. Serves(e)'
      BY <2>1, <3>1 DEF Serves, CheckComplete, Schema
    <3>5. entry'[e].files \in [File -> Content]
      BY <2>1, <3>1 DEF Dir, Whole
    <3>6. Trusting
      BY <2>2, <3>1 DEF Trusting, Trusted
    <3> QED
      BY <2>1, <3>2, <3>3, <3>4, <3>5, <3>6 DEF Serving
  <2>3. CASE ~(entry[e] = None \/ Empty(entry[e]))
    BY <1>6, <2>1, <2>3, EntryKept DEF finalize
  <2> QED
    BY <2>2, <2>3
<1>7. ASSUME NEW e \in Entry, DeleteByHand(e)
      PROVE  Serving /\ Trusting
  BY <1>7, EntryUnmarked DEF DeleteByHand
<1>8. ASSUME NEW e \in Entry, RemoveMarker(e)
      PROVE  Serving /\ Trusting
  <2> DEFINE d == [entry[e] EXCEPT !.marker = NoMarker]
  <2>1. entry[e] \in Dir
    BY <1>8 DEF RemoveMarker, IInv, TypeOK
  <2>2. d \in Dir /\ d.marker = NoMarker
    BY <2>1 DEF Dir, NoMarker
  <2>3. entry' = [entry EXCEPT ![e] = d]
    BY <1>8 DEF RemoveMarker
  <2> HIDE DEF d
  <2> QED
    BY <2>2, <2>3, EntryUnmarked
<1>9. ASSUME NEW f \in File, RemoveFile(f)
      PROVE  Serving /\ Trusting
  <2> DEFINE g == [entry[victim].files EXCEPT ![f] = None]
             d == [entry[victim] EXCEPT !.files = g]
  <2>1. victim \in Entry /\ entry[victim] \in Dir /\ entry[victim].marker = NoMarker
    BY <1>9 DEF RemoveFile, IInv, TypeOK, Locked
  <2>2. g \in [File -> Content \cup {None}]
    BY <2>1 DEF Dir
  <2>3. entry' = [entry EXCEPT ![victim] = d]
    BY <1>9 DEF RemoveFile
  <2> HIDE DEF g
  <2>4. d \in Dir /\ d.marker = NoMarker
    BY <2>1, <2>2 DEF Dir
  <2> HIDE DEF d
  <2> QED
    BY <2>1, <2>3, <2>4, EntryUnmarked
<1>10. CASE RemoveDir
  <2>1. victim \in Entry
    BY <1>10 DEF RemoveDir, IInv, TypeOK
  <2> QED
    BY <1>10, <2>1, EntryUnmarked DEF RemoveDir
<1>11. ASSUME RemoveFails \/ \E t \in Temp : reapTempDirs(t)
       PROVE  Serving /\ Trusting
  BY <1>11, EntryKept DEF RemoveFails, reapTempDirs
<1> QED
  BY <1>1, <1>2, <1>3, <1>4, <1>5, <1>6, <1>7, <1>8, <1>9, <1>10, <1>11 DEF Next

(* A store that has ever held a marker comes to trust nothing it finds.    *)
THEOREM NothingLaundered == ASSUME ~SentinelMayFail PROVE Spec => NoLaundering
<1>1. ASSUME IInv, [Next]_vars,
             NEW e \in Entry,
             \E d \in Entry : hasMarker(entry[d]) /\ entry[d].by # 1,
             entry[e] # None, ~CheckComplete(entry[e]), ~Empty(entry[e])
      PROVE  ~CheckComplete(entry'[e])
  <2>1. Trusting
    BY <1>1, StepServing, EntryKept DEF vars
  <2>2. ~\A x \in Entry : Old(x)
    BY <1>1 DEF Old, hasMarker
  <2> QED
    BY <1>1, <2>1, <2>2 DEF Trusting, Trusted
<1>2. IInv /\ [Next]_vars =>
        [\A e \in Entry :
            /\ \E d \in Entry : hasMarker(entry[d]) /\ entry[d].by # 1
            /\ entry[e] # None /\ ~CheckComplete(entry[e]) /\ ~Empty(entry[e])
            => ~CheckComplete(entry'[e])]_vars
  BY <1>1
<1> QED
  BY <1>2, Initially, Invariance, PTL DEF Spec, NoLaundering

-----------------------------------------------------------------------------
(* The store implements what its readers are promised.                     *)

heldMap == [e \in Entry |-> IF CheckComplete(entry[e]) /\ entry[e].by # 1
                            THEN entry[e].files ELSE None]

LEMMA InitImplements == Init => Builds!Init
<1> SUFFICES ASSUME Init PROVE Builds!Init
  OBVIOUS
<1>1. \A e \in Entry : ~CheckComplete(entry[e])
  BY DEF Init, OldEntry, CheckComplete, NoMarker, Schema
<1> QED
  BY <1>1 DEF Builds!Init

LEMMA StepImplements ==
  ASSUME IInv, ~SentinelMayFail, [Next]_vars
  PROVE  Builds!Next \/ UNCHANGED heldMap
<1> USE Facts
<1>1. Serving
  BY StepServing, EntryKept DEF vars
<1>2. \A x \in Entry : /\ heldMap[x] = IF Serves(x) THEN entry[x].files ELSE None
                       /\ heldMap'[x] = IF Serves(x)' THEN entry'[x].files ELSE None
  BY DEF heldMap, Serves
<1>3. \A x \in Entry : Same(x) => heldMap'[x] = heldMap[x]
  BY <1>2 DEF Same
<1>4. /\ heldMap = [x \in Entry |-> heldMap[x]]
      /\ heldMap' = [x \in Entry |-> heldMap'[x]]
  BY DEF heldMap
<1>5. ASSUME NEW e \in Entry, \A x \in Entry \ {e} : Same(x), NEW v, heldMap'[e] = v
      PROVE  heldMap' = [heldMap EXCEPT ![e] = v]
  BY <1>3, <1>4, <1>5
<1>6. \A e \in Entry : Serves(e) => heldMap[e] # None
  BY <1>2 DEF Serves, CheckComplete, IInv, TypeOK, ServedIsWhole, Served, Dir, Whole
<1>7. CASE \A e \in Entry : Same(e)
  BY <1>3, <1>4, <1>7
<1>8. ASSUME NEW e \in Entry, \A x \in Entry \ {e} : Same(x),
             ~Serves(e), Serves(e)', entry'[e].files \in [File -> Content]
      PROVE  Builds!Next
  <2>1. heldMap[e] = None /\ heldMap' = [heldMap EXCEPT ![e] = entry'[e].files]
    BY <1>2, <1>5, <1>8
  <2> QED
    BY <1>8, <2>1 DEF heldMap, Builds!Next, Builds!Store
<1>9. ASSUME NEW e \in Entry, \A x \in Entry \ {e} : Same(x), Serves(e), ~Serves(e)'
      PROVE  Builds!Next
  <2>1. heldMap[e] # None /\ heldMap' = [heldMap EXCEPT ![e] = None]
    BY <1>2, <1>5, <1>6, <1>9
  <2> QED
    BY <1>9, <2>1 DEF heldMap, Builds!Next, Builds!Remove
<1> QED
  BY <1>1, <1>7, <1>8, <1>9 DEF Serving

(* A build is served whole, from one step to one step, and never changes.  *)
THEOREM Implements == ASSUME ~SentinelMayFail PROVE Spec => ImplementsBuilds
<1>1. IInv /\ [Next]_vars => Builds!Next \/ UNCHANGED heldMap
  BY StepImplements
<1> QED
  BY <1>1, InitImplements, Initially, Invariance, PTL
     DEF Spec, ImplementsBuilds, Builds!Spec, heldMap
=============================================================================
