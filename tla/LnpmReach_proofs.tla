------------------------- MODULE LnpmReach_proofs --------------------------
(* Proofs about the judging of project directories, for any projects,      *)
(* builds, drives, mount points and device numbers.                        *)
EXTENDS LnpmReach, TLAPS

(* Every filesystem's number has been handed out, to it alone.             *)
Numbered ==
    /\ \A f \in Fs : number[f] \in used
    /\ \A f, g \in Fs : f # g => number[f] # number[g]

(* A device that was read from a filesystem is no other filesystem's, then *)
(* or ever after: numbers are not handed out twice.                        *)
Recorded ==
    \A p \in Project :
        /\ device[p] \in used \cup {NoDevice, None}
        /\ judged[p] # None => device[p] # None
        /\ origin[p] # None =>
              /\ device[p] \in used
              /\ \A f \in Fs : f # origin[p] => number[f] # device[p]

Unconsumed == {"plain", None}

(* Between its two looks, and until it acts on the verdict, gc is right    *)
(* about what a directory that it missed, or took for gone after comparing *)
(* its device, consumes.                                                   *)
Right ==
    /\ command = None => judged = Unjudged
    /\ \A p \in Project : p \notin raced =>
          /\ judged[p] = "missing" => disk[FsOf(p)][p] \in Unconsumed
          /\ judged[p] = "gone" /\ origin[p] # None /\ p \notin blind
                => disk[origin[p]][p] \in Unconsumed

IInv == TypeOK /\ Numbered /\ Recorded /\ Right

-----------------------------------------------------------------------------
LEMMA Distinct ==
    /\ None \notin Build /\ None \notin Drive /\ None \notin Number /\ NoDevice \notin Number
    /\ None # NoDevice /\ "plain" \notin Build /\ Root \notin Drive
    /\ Place \in [Project -> Mount \cup {Root}]
    /\ None \notin State /\ None \notin Seen /\ None \notin {"gc", "gc-dry", "forget"}
    /\ None \notin {"live", "gone", "unreachable"} /\ None \notin {"present", "missing"}
  BY ReachAssumption DEF State, Seen

LEMMA FsOfType ==
  ASSUME TypeOK, NEW p \in Project
  PROVE  FsOf(p) \in Fs
  BY Distinct DEF TypeOK, FsOf, Fs

(* What is read of a device is recorded of the filesystem it was read from.*)
LEMMA Observed ==
  ASSUME IInv, NEW q \in Project, NEW seen \in DeviceIDOfPath(FsOf(q)), Observe(q, seen)
  PROVE  /\ device' \in [Project -> Number \cup {NoDevice, None}]
         /\ origin' \in [Project -> Fs \cup {None}]
         /\ device'[q] # None
         /\ \A p \in Project : p # q => device'[p] = device[p] /\ origin'[p] = origin[p]
         /\ \A p \in Project : device[p] # None => device'[p] # None
         /\ \A p \in Project :
               /\ device'[p] \in used \cup {NoDevice, None}
               /\ origin'[p] # None =>
                     /\ device'[p] \in used
                     /\ \A f \in Fs : f # origin'[p] => number[f] # device'[p]
<1> USE Distinct
<1>1. /\ FsOf(q) \in Fs /\ number[FsOf(q)] \in Number
      /\ device \in [Project -> Number \cup {NoDevice, None}]
      /\ origin \in [Project -> Fs \cup {None}]
  BY FsOfType DEF IInv, TypeOK
<1>2. CASE seen # NoDevice
  <2>1. seen = number[FsOf(q)]
    BY <1>2 DEF DeviceIDOfPath
  <2>2. /\ device' = [device EXCEPT ![q] = seen]
        /\ origin' = [origin EXCEPT ![q] = FsOf(q)]
    BY <1>2 DEF Observe
  <2> QED
    BY <1>1, <2>1, <2>2 DEF IInv, Numbered, Recorded
<1>3. CASE seen = NoDevice
  <2>1. /\ device' = [device EXCEPT ![q] = IF @ = None THEN NoDevice ELSE @]
        /\ origin' = origin
    BY <1>3 DEF Observe
  <2>2. None \notin used /\ (origin[q] # None => device[q] # None)
    BY DEF IInv, TypeOK, Recorded
  <2>3. \A p \in Project : p # q => device'[p] = device[p]
    BY <1>1, <2>1
  <2>4. device'[q] = IF device[q] = None THEN NoDevice ELSE device[q]
    BY <1>1, <2>1
  <2> QED
    BY <1>1, <2>1, <2>2, <2>3, <2>4 DEF IInv, Recorded
<1> QED
  BY <1>2, <1>3

LEMMA InitInv == Init => IInv
<1> SUFFICES ASSUME Init PROVE IInv
  OBVIOUS
<1>1. TypeOK
  BY Distinct DEF Init, TypeOK, Unjudged, Fs, State, Seen
<1>2. Numbered
  BY DEF Init, Numbered
<1>3. Recorded
  BY Distinct DEF Init, Recorded, Unjudged
<1>4. Right
  BY Distinct DEF Init, Right, Unjudged, Unconsumed
<1> QED
  BY <1>1, <1>2, <1>3, <1>4 DEF IInv

-----------------------------------------------------------------------------
(* The steps, in groups that touch the same part of the state.             *)

LEMMA Mounting ==
  ASSUME IInv, (\E d \in Drive, m \in Mount : Attach(d, m)) \/ (\E m \in Mount : Detach(m))
  PROVE  IInv'
<1> USE Distinct
<1>0. /\ raced' = raced \cup Looking
      /\ UNCHANGED <<disk, device, row, stored, command, judged, origin, blind>>
  BY DEF Attach, Detach
<1>1. \/ UNCHANGED <<number, used>>
      \/ \E d \in Drive, n \in Number :
            /\ n = number[d] \/ n \notin used
            /\ number' = [number EXCEPT ![d] = n]
            /\ used' = used \cup {n}
  BY DEF Attach, Detach, IInv, TypeOK, Fs
<1>2. mounted' \in [Mount -> Drive \cup {None}]
  BY DEF Attach, Detach, IInv, TypeOK
<1>3. TypeOK'
  <2>1. number' \in [Fs -> Number] /\ used' \subseteq Number
    BY <1>1 DEF IInv, TypeOK, Fs
  <2>2. raced' \subseteq Project
    BY <1>0 DEF IInv, TypeOK, Looking
  <2> QED
    BY <1>0, <1>2, <2>1, <2>2 DEF IInv, TypeOK
<1>4. Numbered' /\ Recorded'
  <2>1. CASE UNCHANGED <<number, used>>
    BY <1>0, <2>1 DEF IInv, Numbered, Recorded
  <2>2. CASE \E d \in Drive, n \in Number :
                /\ n = number[d] \/ n \notin used
                /\ number' = [number EXCEPT ![d] = n]
                /\ used' = used \cup {n}
    <3>1. PICK d \in Drive, n \in Number :
              /\ n = number[d] \/ n \notin used
              /\ number' = [number EXCEPT ![d] = n]
              /\ used' = used \cup {n}
      BY <2>2
    <3>2. \A f \in Fs : number'[f] = IF f = d THEN n ELSE number[f]
      BY <3>1 DEF IInv, TypeOK
    <3>3. d \in Fs
      BY DEF Fs
    <3>4. Numbered'
      BY <3>1, <3>2, <3>3 DEF IInv, Numbered
    <3>5. Recorded'
      BY <1>0, <3>1, <3>2, <3>3 DEF IInv, Recorded
    <3> QED
      BY <3>4, <3>5
  <2> QED
    BY <1>1, <2>1, <2>2
<1>5. Right'
  <2> SUFFICES ASSUME NEW p \in Project, p \notin raced'
               PROVE  /\ judged'[p] = "missing" => disk'[FsOf(p)'][p] \in Unconsumed
                      /\ judged'[p] = "gone" /\ origin'[p] # None /\ p \notin blind'
                            => disk'[origin'[p]][p] \in Unconsumed
    BY <1>0 DEF IInv, Right, Unjudged, Unconsumed
  <2>1. p \notin raced /\ judged[p] # "missing"
    BY <1>0 DEF Looking, Seen
  <2> QED
    BY <1>0, <2>1 DEF IInv, Right
<1> QED
  BY <1>3, <1>4, <1>5 DEF IInv

LEMMA Directories ==
  ASSUME IInv, NEW q \in Project, MakeDirectory(q) \/ DeleteDirectory(q)
  PROVE  IInv'
<1> USE Distinct
<1>0. UNCHANGED <<mounted, number, used, device, row, stored, command, judged, origin, raced, blind>>
  BY DEF MakeDirectory, DeleteDirectory
<1>1. PICK v \in Unconsumed : disk' = [disk EXCEPT ![FsOf(q)][q] = v]
  BY DEF MakeDirectory, DeleteDirectory, Unconsumed
<1>2. FsOf(q) \in Fs
  BY FsOfType DEF IInv
<1>3. /\ disk' \in [Fs -> [Project -> Build \cup {"plain", None}]]
      /\ \A f \in Fs, p \in Project : disk'[f][p] \in {disk[f][p], v}
  BY <1>1, <1>2 DEF IInv, TypeOK, Unconsumed
<1>4. TypeOK' /\ Numbered' /\ Recorded'
  BY <1>0, <1>3 DEF IInv, TypeOK, Numbered, Recorded
<1>5. \A p \in Project : FsOf(p)' = FsOf(p) /\ FsOf(p) \in Fs
  BY <1>0, FsOfType DEF IInv, FsOf
<1>6. Right'
  BY <1>0, <1>1, <1>3, <1>5 DEF IInv, TypeOK, Right, Unconsumed, Unjudged
<1> QED
  BY <1>4, <1>6 DEF IInv

LEMMA Recording ==
  ASSUME IInv, NEW b \in Build, Publish(b) \/ \E p \in Project : Add(p, b)
  PROVE  IInv'
<1> USE Distinct
<1>1. CASE Publish(b)
  BY <1>1 DEF Publish, IInv, TypeOK, Numbered, Recorded, Right, FsOf, Unjudged
<1>2. CASE \E p \in Project : Add(p, b)
  <2>1. PICK p \in Project : Add(p, b)
    BY <1>2
  <2>2. FsOf(p) \in Fs
    BY FsOfType DEF IInv
  <2>3. /\ judged = Unjudged /\ judged' = Unjudged /\ command' = command
        /\ raced' = raced /\ blind' = blind
    BY <2>1 DEF Add, IInv, Right
  <2>4. disk' \in [Fs -> [Project -> Build \cup {"plain", None}]]
    BY <2>1, <2>2 DEF Add, IInv, TypeOK
  <2>5. /\ device' \in [Project -> Number \cup {NoDevice, None}]
        /\ origin' \in [Project -> Fs \cup {None}]
        /\ device'[p] # None /\ \A r \in Project : device[r] # None => device'[r] # None
    BY <2>1, <2>2, Observed DEF Add, IInv
  <2>6. TypeOK'
    BY <2>1, <2>3, <2>4, <2>5 DEF Add, IInv, TypeOK
  <2>7. Numbered' /\ Recorded'
    BY <2>1, <2>3, Observed DEF Add, IInv, Numbered, Recorded, Unjudged
  <2>8. Right'
    BY <2>3 DEF Right, Unjudged
  <2> QED
    BY <2>6, <2>7, <2>8 DEF IInv
<1> QED
  BY <1>1, <1>2

LEMMA Scanning ==
  ASSUME IInv, NEW q \in Project, ScanLink(q) \/ RunForget(q)
  PROVE  IInv'
<1> USE Distinct
<1>0. UNCHANGED <<mounted, number, used, disk, device, row, stored, origin, raced, blind>>
  BY DEF ScanLink, RunForget
<1>1. PICK seen \in {"live", "present", "missing"} :
        /\ judged' = [judged EXCEPT ![q] = seen]
        /\ seen = "missing" => ~Stats(q)
  BY DEF ScanLink, RunForget
<1>2. device[q] # None
  BY DEF ScanLink, RunForget, IInv, TypeOK
<1>3. command' \in {"gc", "gc-dry", "forget"}
  BY DEF ScanLink, RunForget
<1>4. TypeOK'
  BY <1>0, <1>1, <1>3 DEF IInv, TypeOK, State, Seen
<1>5. Numbered' /\ Recorded'
  BY <1>0, <1>1, <1>2 DEF IInv, TypeOK, Numbered, Recorded
<1>6. \A p \in Project : FsOf(p)' = FsOf(p)
  BY <1>0 DEF FsOf
<1>7. Right'
  BY <1>0, <1>1, <1>3, <1>6 DEF IInv, TypeOK, Right, Stats, Unconsumed
<1> QED
  BY <1>4, <1>5, <1>7 DEF IInv

LEMMA Judging ==
  ASSUME IInv, NEW q \in Project, Classify(q)
  PROVE  IInv'
<1> USE Distinct
<1>0. UNCHANGED <<mounted, number, used, disk, row, stored, command, raced>>
  BY DEF Classify
<1>1. PICK current \in DeviceIDOfPath(FsOf(q)) :
        /\ judged' = [judged EXCEPT ![q] = classifyProjectDir(q, current)]
        /\ blind' = IF judged[q] = "missing" /\ current = NoDevice THEN blind \cup {q} ELSE blind
        /\ IF command = "gc" /\ judged[q] = "present" /\ Stats(q)
           THEN Observe(q, current)
           ELSE UNCHANGED <<device, origin>>
  BY DEF Classify, nearestExistingAncestor
<1>2. judged[q] \in Seen /\ classifyProjectDir(q, current) \in State
  BY DEF Classify, classifyProjectDir, State
<1>3. device[q] # None /\ command # None
  BY <1>2 DEF IInv, Recorded, Right, Unjudged, Seen
<1>4. UNCHANGED <<device, origin>> \/ (judged[q] = "present" /\ Observe(q, current))
  BY <1>1
<1>5. /\ device' \in [Project -> Number \cup {NoDevice, None}]
      /\ origin' \in [Project -> Fs \cup {None}]
      /\ \A p \in Project : device[p] # None => device'[p] # None
      /\ \A p \in Project : p # q => device'[p] = device[p] /\ origin'[p] = origin[p]
      /\ \A p \in Project :
            /\ device'[p] \in used \cup {NoDevice, None}
            /\ origin'[p] # None =>
                  /\ device'[p] \in used
                  /\ \A f \in Fs : f # origin'[p] => number[f] # device'[p]
  <2>1. CASE UNCHANGED <<device, origin>>
    BY <2>1 DEF IInv, TypeOK, Recorded
  <2>2. CASE Observe(q, current)
    BY <2>2, Observed
  <2> QED
    BY <1>4, <2>1, <2>2
<1>6. TypeOK'
  <2>1. judged' \in [Project -> State \cup Seen \cup {None}] /\ blind' \subseteq Project
    BY <1>1, <1>2 DEF IInv, TypeOK
  <2> QED
    BY <1>0, <1>5, <2>1 DEF IInv, TypeOK
<1>7. Numbered' /\ Recorded'
  <2>1. \A p \in Project : p # q => judged'[p] = judged[p]
    BY <1>1 DEF IInv, TypeOK
  <2>2. \A p \in Project : judged'[p] # None => device'[p] # None
    BY <1>3, <1>5, <2>1 DEF IInv, Recorded
  <2> QED
    BY <1>0, <1>5, <2>2 DEF IInv, Numbered, Recorded
<1>8. \A p \in Project : FsOf(p)' = FsOf(p)
  BY <1>0 DEF FsOf
<1>9. ASSUME q \notin raced, q \notin blind', classifyProjectDir(q, current) = "gone", origin'[q] # None
      PROVE  disk[origin'[q]][q] \in Unconsumed
  <2>1. judged[q] = "missing" /\ UNCHANGED <<device, origin>>
    BY <1>2, <1>4, <1>9 DEF classifyProjectDir, Seen
  <2>2. current = number[FsOf(q)] /\ current # NoDevice
    BY <1>1, <1>9, <2>1 DEF DeviceIDOfPath
  <2>3. /\ device[q] \in used /\ device[q] # NoDevice
        /\ \A f \in Fs : f # origin[q] => number[f] # device[q]
    BY <1>9, <2>1 DEF IInv, TypeOK, Recorded
  <2>4. device[q] = number[FsOf(q)]
    BY <1>9, <2>1, <2>2, <2>3 DEF classifyProjectDir
  <2>5. origin[q] = FsOf(q)
    BY FsOfType, <2>3, <2>4 DEF IInv
  <2> QED
    BY <1>9, <2>1, <2>5 DEF IInv, Right
<1>10. Right'
  <2> SUFFICES ASSUME NEW p \in Project, p \notin raced
               PROVE  /\ judged'[p] = "missing" => disk[FsOf(p)][p] \in Unconsumed
                      /\ judged'[p] = "gone" /\ origin'[p] # None /\ p \notin blind'
                            => disk[origin'[p]][p] \in Unconsumed
    BY <1>0, <1>3, <1>8 DEF Right
  <2>1. CASE p = q
    BY <1>1, <1>2, <1>9, <2>1 DEF IInv, TypeOK, State
  <2>2. CASE p # q
    <3>1. judged'[p] = judged[p] /\ origin'[p] = origin[p] /\ (p \notin blind' => p \notin blind)
      BY <1>1, <1>5, <2>2 DEF IInv, TypeOK
    <3> QED
      BY <3>1 DEF IInv, Right
  <2> QED
    BY <2>1, <2>2
<1> QED
  BY <1>6, <1>7, <1>10 DEF IInv

LEMMA Ending ==
  ASSUME IInv,
         \/ Collect \/ Quit \/ \E p \in Project : Forget(p)
         \/ \E c \in {"gc", "gc-dry"} : RunGC(c)
  PROVE  IInv'
<1> USE Distinct
<1>1. CASE Collect
  <2>1. PICK victims \in SUBSET packagesToRemove, fixLinks \in BOOLEAN :
          /\ stored' = stored \ victims
          /\ row' = [p \in Project |-> IF row[p] \in victims \/ (fixLinks /\ judged[p] = "gone")
                                       THEN None ELSE row[p]]
    BY <1>1 DEF Collect
  <2>2. UNCHANGED <<mounted, number, used, disk, device, origin>>
        /\ command' = None /\ judged' = Unjudged /\ raced' = {} /\ blind' = {}
    BY <1>1 DEF Collect
  <2>3. row' \in [Project -> Build \cup {None}] /\ stored' \subseteq Build
    BY <2>1 DEF IInv, TypeOK
  <2>4. \A p \in Project : row'[p] # None => device[p] # None /\ row'[p] \in stored'
    BY <2>1 DEF IInv, TypeOK
  <2>5. TypeOK'
    BY <2>2, <2>3, <2>4 DEF IInv, TypeOK, Unjudged
  <2> QED
    BY <2>2, <2>5 DEF IInv, Numbered, Recorded, Right, Unjudged
<1>2. CASE Quit
  BY <1>2 DEF Quit, IInv, TypeOK, Numbered, Recorded, Right, Unjudged
<1>3. CASE \E p \in Project : Forget(p)
  <2>1. PICK p \in Project : Forget(p)
    BY <1>3
  <2>2. TypeOK'
    BY <2>1 DEF Forget, IInv, TypeOK, Unjudged
  <2>3. Numbered' /\ Right'
    BY <2>1 DEF Forget, IInv, Numbered, Right, Unjudged
  <2>4. Recorded'
    BY <2>1 DEF Forget, IInv, TypeOK, Recorded, Unjudged
  <2> QED
    BY <2>2, <2>3, <2>4 DEF IInv
<1>4. CASE \E c \in {"gc", "gc-dry"} : RunGC(c)
  BY <1>4 DEF RunGC, IInv, TypeOK, Numbered, Recorded, Right, Unjudged, FsOf
<1> QED
  BY <1>1, <1>2, <1>3, <1>4

LEMMA Invariance == Spec => []IInv
<1>1. IInv /\ [Next]_vars => IInv'
  <2> SUFFICES ASSUME IInv, [Next]_vars PROVE IInv'
    OBVIOUS
  <2>1. CASE Next
    BY <2>1, Mounting, Directories, Recording, Scanning, Judging, Ending DEF Next
  <2>2. CASE UNCHANGED vars
    BY <2>2 DEF vars, IInv, TypeOK, Numbered, Recorded, Right, FsOf, Unjudged
  <2> QED
    BY <2>1, <2>2
<1> QED
  BY InitInv, <1>1, PTL DEF Spec

-----------------------------------------------------------------------------
(* The records are well formed: a link names a stored build and belongs to *)
(* a recorded project, also while gc and forget take things away.          *)
THEOREM TypeCorrect == Spec => []TypeOK
<1>1. IInv => TypeOK
  BY DEF IInv
<1> QED
  BY <1>1, Invariance, PTL

(* #335: gc takes neither link nor build from a directory that consumes it *)
(* when it had both devices to compare and nothing was mounted between its *)
(* two looks, for any drives, mount points and numbers.                    *)
THEOREM Kept == Spec => ConsumedIsKept
<1>1. ASSUME IInv, [Next]_vars, NEW p \in Project, p \notin raced \cup blind,
             command = "gc", row[p] # None,
             row'[p] = None \/ row[p] \notin stored', origin[p] # None
      PROVE  disk[origin[p]][p] # row[p]
  <2>1. row[p] \in stored /\ row[p] \in Build
    BY <1>1 DEF IInv, TypeOK
  <2>2. Collect
    <3>1. ~ UNCHANGED <<row, stored>>
      BY <1>1, <2>1
    <3>2. \/ \E b \in Build : Publish(b)
          \/ \E q \in Project, b \in Build : Add(q, b)
          \/ \E q \in Project : Forget(q)
          \/ Collect
      BY <1>1, <3>1 DEF Next, vars, Attach, Detach, MakeDirectory, DeleteDirectory,
                        RunGC, ScanLink, Classify, RunForget, Quit
    <3> QED
      BY <1>1, <3>2, Distinct DEF Publish, Add, Forget
  <2>3. judged[p] = "gone"
    BY <1>1, <2>1, <2>2 DEF Collect, packagesToRemove
  <2>4. disk[origin[p]][p] \in Unconsumed
    BY <1>1, <2>3 DEF IInv, Right
  <2> QED
    BY <2>1, <2>4, Distinct DEF Unconsumed
<1>2. IInv /\ [Next]_vars =>
        [\A p \in Project \ (raced \cup blind) :
          /\ command = "gc" /\ row[p] # None
          /\ row'[p] = None \/ row[p] \notin stored'
          /\ origin[p] # None
          => disk[origin[p]][p] # row[p]]_vars
  BY <1>1
<1> QED
  BY <1>2, Invariance, PTL DEF Spec, ConsumedIsKept

(* gc gives up on a project only when its record's device is another one.  *)
THEOREM Away == Spec => SkippedIsAway
<1>1. ASSUME IInv, [Next]_vars, NEW p \in Project,
             judged[p] \in Seen, judged'[p] = "unreachable"
      PROVE  device[p] \in used \ {number[FsOf(p)]}
  <2>1. Classify(p)
    <3>1. judged[p] # "unreachable" /\ judged[p] # None
      BY <1>1, Distinct DEF Seen
    <3>2. judged' # judged /\ judged'[p] # None
      BY <1>1, <3>1, Distinct DEF State
    <3>3. PICK q \in Project : ScanLink(q) \/ Classify(q) \/ RunForget(q)
      BY <1>1, <3>2 DEF Next, vars, Attach, Detach, MakeDirectory, DeleteDirectory, Publish, Add,
                        RunGC, Forget, Collect, Quit, Unjudged
    <3>4. \E v : judged' = [judged EXCEPT ![q] = v] /\ (v = "unreachable" => Classify(q))
      BY <3>3 DEF ScanLink, Classify, RunForget
    <3> QED
      BY <1>1, <3>1, <3>4 DEF IInv, TypeOK
  <2>2. PICK current \in DeviceIDOfPath(FsOf(p)) : classifyProjectDir(p, current) = "unreachable"
    BY <1>1, <2>1 DEF Classify, nearestExistingAncestor, IInv, TypeOK
  <2>3. device[p] \notin {NoDevice, number[FsOf(p)]}
    BY <2>2 DEF classifyProjectDir, DeviceIDOfPath
  <2>4. device[p] # None
    BY <1>1, Distinct DEF IInv, Recorded, Seen
  <2> QED
    BY <1>1, <2>3, <2>4 DEF IInv, Recorded
<1>2. IInv /\ [Next]_vars =>
        [\A p \in Project :
          judged[p] \in Seen /\ judged'[p] = "unreachable" =>
             device[p] \in used \ {number[FsOf(p)]}]_vars
  BY <1>1
<1> QED
  BY <1>2, Invariance, PTL DEF Spec, SkippedIsAway
=============================================================================
