--------------------------- MODULE LnpmLink_proofs ---------------------------
(* Proofs about LnpmLink, for any builds, files, temp names and edits.     *)
EXTENDS LnpmLink, TLAPS

(* A command that links has the lock, and what its job names is there.     *)
Underway ==
    /\ job.pc # "idle" => at = "link" /\ job.want # None
    /\ job.pc \in {"scan", "verify", "mktemp"} => job.temp = None
    /\ job.pc \in {"scan", "verify", "build"} => job.want \in Build
    /\ job.pc \in {"build", "aside", "in", "rollback", "retire"} => job.temp \in Temp
    /\ job.pc \in {"build", "aside", "in", "rollback"} =>
          IF job.want = Live THEN temp[job.temp] = Live ELSE temp[job.temp] \in Dir
    /\ job.pc = "in" => tree = None
    /\ job.pc = "rollback" => old[job.temp] # None

(* A directory whose files, but for some, and whose manifest are a build's.*)
Describes(d, b, but) ==
    \A f \in File \ but :
        /\ d.files[f] = b[f]
        /\ d.manifest # None =>
              IF b[f] = None THEN d.manifest[f] = None ELSE d.manifest[f] \in {NoHash, b[f]}
Whole(d) == IsDir(d) => \E b \in Build : Describes(d, b, d.dirty)

(* The tree under construction, but for what someone touched, comes to be  *)
(* the build: what was found in place, what was verified, what was copied. *)
Untouched == File \ job.touched
Constructed ==
    /\ job.pc = "verify" =>
          \A f \in Untouched : /\ IsDir(tree)
                               /\ f \in job.present <=> tree.files[f] \in Content
                               /\ ~job.odd => tree.files[f] # Odd
    /\ job.pc \in {"scan", "mktemp", "build"} /\ job.want \in Build =>
          \A f \in job.reuse \ job.touched : IsDir(tree) /\ tree.files[f] = job.want[f]
    /\ job.pc = "build" =>
          /\ temp[job.temp].manifest = None
          /\ \A f \in File : job.want[f] = None => temp[job.temp].files[f] = None
          /\ \A f \in Untouched : temp[job.temp].files[f] \in {None, job.want[f]}
    /\ job.pc \in {"aside", "in", "rollback"} /\ job.want \in Build =>
          Describes(temp[job.temp], job.want, job.touched)

(* What comes back in a rollback is as whole as what is in place.          *)
Wholes == Whole(tree) /\ (job.pc \in {"in", "rollback"} => Whole(old[job.temp]))

(* From the swap on the package is what was asked for.                     *)
Linked ==
    IF job.want = Live THEN tree = Live \/ File \subseteq job.touched
    ELSE \A f \in Untouched : IsDir(tree) /\ tree.files[f] = job.want[f]
Finished ==
    /\ job.pc \in {"retire", "unnode", "node", "done"} => Linked
    /\ job.pc = "done" => node \/ Node \in job.touched

(* Where the package is that was linked before.                            *)
Replaced == IF job.want = Live THEN tree = Live ELSE IsDir(tree) /\ tree.files = job.want
Previous ==
    job.touched = {} =>
        /\ job.pc \in {"scan", "verify", "mktemp", "build", "aside"} => tree = job.prev
        /\ job.pc \in {"in", "rollback"} => old[job.temp] = job.prev
        /\ job.pc = "failed" => \/ tree = job.prev
                                \/ job.temp # None /\ old[job.temp] = job.prev
                                \/ Replaced

IInv == TypeOK /\ Underway /\ Constructed /\ Wholes /\ Finished /\ Previous

-----------------------------------------------------------------------------
LEMMA Facts ==
    /\ None \notin Content /\ Odd \notin Content /\ NoHash \notin Content
    /\ None # Live /\ None # Odd /\ None # NoHash /\ None \notin Temp
    /\ None \notin {"link", "remove", "gc"}
    /\ None \notin [File -> Content \cup {NoHash, None}]
    /\ Live \notin Build /\ None \notin Build /\ Live \notin Dir /\ None \notin Dir
    /\ File # {} /\ Build \subseteq [File -> Content \cup {None}] /\ Written \subseteq Held
  BY LinkAssumption

LEMMA Directories ==
    /\ \A d \in Dir : IsDir(d)
    /\ ~IsDir(None) /\ ~IsDir(Live)
    /\ EmptyDir \in Dir /\ EmptyDir.manifest = None /\ \A f \in File : EmptyDir.files[f] = None
    /\ \A b \in Build : FilesOf(b) \subseteq File
<1> USE Facts
<1>1. EmptyDir \in Dir /\ EmptyDir.manifest = None /\ \A f \in File : EmptyDir.files[f] = None
  BY DEF EmptyDir, Dir, Held
<1> QED
  BY <1>1 DEF IsDir, FilesOf

LEMMA NoJobs == NoJob \in Job /\ NoJob.pc = "idle" /\ NoJob.temp = None /\ NoJob.touched = {}
                /\ NoJob.reuse = {}
  BY DEF NoJob, Job, Pc

(* What the updates of a job leave, field by field.                        *)
LEMMA Steps ==
  ASSUME NEW j \in Job, NEW p \in Pc
  PROVE  LET k == [j EXCEPT !.pc = p]
         IN  /\ k \in Job /\ k.pc = p /\ k.want = j.want /\ k.temp = j.temp /\ k.prev = j.prev
             /\ k.touched = j.touched /\ k.reuse = j.reuse /\ k.present = j.present
             /\ k.odd = j.odd
  BY DEF Job

LEMMA Touches ==
  ASSUME NEW j \in Job, NEW s \in SUBSET (File \cup {Node})
  PROVE  LET k == [j EXCEPT !.touched = @ \cup s, !.prev = None]
         IN  /\ k \in Job /\ k.pc = j.pc /\ k.want = j.want /\ k.temp = j.temp
             /\ k.touched = j.touched \cup s /\ k.reuse = j.reuse /\ k.present = j.present
             /\ k.odd = j.odd
  BY DEF Job

-----------------------------------------------------------------------------
LEMMA Initially == Init => IInv
<1> SUFFICES ASSUME Init PROVE IInv
  OBVIOUS
<1> USE Facts, NoJobs, Directories
<1>1. TypeOK
  BY DEF Init, TypeOK
<1>2. Underway /\ Constructed /\ Finished /\ Previous
  BY DEF Init, Underway, Constructed, Finished, Previous
<1>3. Wholes
  BY DEF Init, Wholes, Whole
<1> QED
  BY <1>1, <1>2, <1>3 DEF IInv

(* A job that is over asks for nothing but that the package is whole.      *)
LEMMA JobOver ==
  ASSUME IInv, job' = NoJob, UNCHANGED <<tree, node, temp, old>>,
         at' \in {None, "link", "remove", "gc"}
  PROVE  IInv'
<1> USE Facts, NoJobs
<1>1. TypeOK'
  BY DEF IInv, TypeOK
<1>2. Underway' /\ Constructed' /\ Finished' /\ Previous'
  BY DEF Underway, Constructed, Finished, Previous
<1>3. Wholes'
  BY DEF IInv, Wholes, Whole
<1> QED
  BY <1>1, <1>2, <1>3 DEF IInv

LEMMA Idling ==
  ASSUME IInv, job.pc = "idle", UNCHANGED job, TypeOK', Whole(tree)'
  PROVE  IInv'
<1>1. Underway' /\ Constructed' /\ Finished' /\ Previous'
  BY DEF Underway, Constructed, Finished, Previous
<1>2. Wholes'
  BY DEF Wholes
<1> QED
  BY <1>1, <1>2 DEF IInv

LEMMA Coming ==
  ASSUME IInv, Exit \/ Crash \/ \E c \in {"link", "remove", "gc"} : GetDB(c)
  PROVE  IInv'
<1> USE Facts
<1>1. CASE Exit \/ Crash
  BY <1>1, JobOver DEF Exit, Crash
<1>2. ASSUME NEW c \in {"link", "remove", "gc"}, GetDB(c)
      PROVE  IInv'
  <2>1. job.pc = "idle"
    BY <1>2 DEF GetDB, IInv, Underway
  <2>2. TypeOK' /\ Whole(tree)'
    BY <1>2 DEF GetDB, IInv, TypeOK, Wholes, Whole
  <2> QED
    BY <1>2, <2>1, <2>2, Idling DEF GetDB
<1> QED
  BY <1>1, <1>2

(* remove and gc: no job is under way.                                     *)
LEMMA Removing ==
  ASSUME IInv, UnlinkFile \/ UnlinkTree \/ UnlinkNode \/ \E t \in Temp : Sweep(t)
  PROVE  IInv'
<1> USE Facts, Directories
<1>1. job.pc = "idle" /\ UNCHANGED <<job, at>>
  BY DEF UnlinkFile, UnlinkTree, UnlinkNode, Sweep, IInv, Underway
<1>2. CASE UnlinkFile
  <2>1. tree \in Dir
    BY <1>2 DEF UnlinkFile, IsDir, IInv, TypeOK
  <2>2. ASSUME NEW f \in File, tree' = [tree EXCEPT !.files[f] = None, !.dirty = @ \cup {f}]
        PROVE  tree' \in Dir /\ Whole(tree')
    <3>1. /\ tree' \in Dir /\ tree'.manifest = tree.manifest /\ tree'.dirty = tree.dirty \cup {f}
          /\ \A g \in File \ {f} : tree'.files[g] = tree.files[g]
      BY <2>1, <2>2 DEF Dir, Held
    <3> QED
      BY <2>1, <3>1 DEF IInv, Wholes, Whole, Describes
  <2>3. ASSUME tree' = [tree EXCEPT !.manifest = None]
        PROVE  tree' \in Dir /\ Whole(tree')
    <3>1. /\ tree' \in Dir /\ tree'.manifest = None /\ tree'.dirty = tree.dirty
          /\ tree'.files = tree.files
      BY <2>1, <2>3 DEF Dir
    <3> QED
      BY <2>1, <3>1 DEF IInv, Wholes, Whole, Describes
  <2>4. tree' \in Dir /\ Whole(tree')
    BY <1>2, <2>2, <2>3 DEF UnlinkFile, FilesOf
  <2>5. TypeOK' /\ Whole(tree)'
    BY <1>1, <1>2, <2>4 DEF UnlinkFile, IInv, TypeOK
  <2> QED
    BY <1>1, <2>5, Idling
<1>3. CASE UnlinkTree \/ UnlinkNode
  <2>1. TypeOK' /\ Whole(tree)'
    BY <1>1, <1>3 DEF UnlinkTree, UnlinkNode, IInv, TypeOK, Wholes, Whole
  <2> QED
    BY <1>1, <2>1, Idling
<1>4. ASSUME NEW t \in Temp, Sweep(t)
      PROVE  IInv'
  <2>1. TypeOK' /\ Whole(tree)'
    BY <1>1, <1>4 DEF Sweep, IInv, TypeOK, Wholes, Whole
  <2> QED
    BY <1>1, <2>1, Idling
<1> QED
  BY <1>2, <1>3, <1>4

-----------------------------------------------------------------------------
(* What others do to a project.                                            *)

(* A job that has been told of a change of the package or the node entry.  *)
LEMMA Telling ==
  ASSUME IInv, NEW s \in SUBSET (File \cup {Node}), s # {}, job' = Touched(s),
         UNCHANGED <<temp, old, at>>, tree' \in Dir \cup {Live, None}, node' \in BOOLEAN,
         Whole(tree'), job.pc = "in" => tree' = None,
         \/ UNCHANGED tree /\ (~node' => ~node \/ Node \in s)
         \/ File \subseteq s /\ UNCHANGED node
         \/ /\ \A f \in File \ s : IsDir(tree) /\ IsDir(tree') /\ tree'.files[f] = tree.files[f]
            /\ tree # Live /\ UNCHANGED node
  PROVE  IInv'
<1> USE Facts
<1>1. CASE job.pc = "idle"
  BY <1>1, Idling DEF Touched, IInv, TypeOK
<1>2. CASE job.pc # "idle"
  <2>1. /\ job' \in Job /\ job'.pc = job.pc /\ job'.want = job.want /\ job'.temp = job.temp
        /\ job'.touched = job.touched \cup s /\ job'.reuse = job.reuse
        /\ job'.present = job.present /\ job'.odd = job.odd
    BY <1>2, Touches DEF Touched, IInv, TypeOK
  <2>2. Untouched' \subseteq Untouched /\ Untouched' \cap s = {}
    BY <2>1 DEF Untouched
  <2>3. TypeOK'
    BY <2>1 DEF IInv, TypeOK
  <2>4. Underway'
    BY <2>1 DEF IInv, Underway
  <2>5. Constructed'
    <3>1. \A f \in Untouched' : /\ IsDir(tree) => IsDir(tree') /\ tree'.files[f] = tree.files[f]
                                /\ f \in Untouched
      BY <2>2 DEF Untouched
    <3>2. \A f \in job'.reuse \ job'.touched : f \in job.reuse \ job.touched /\ f \in Untouched'
      BY <2>1 DEF Untouched, IInv, TypeOK, Job
    <3>3. job.pc \in {"aside", "in", "rollback"} /\ job.want \in Build =>
            Describes(temp[job.temp], job.want, job'.touched)
      BY <2>1 DEF IInv, Constructed, Describes
    <3> QED
      BY <2>1, <3>1, <3>2, <3>3 DEF IInv, Constructed
  <2>6. Wholes'
    BY <2>1 DEF IInv, Wholes, Whole
  <2>7. Finished'
    <3>1. ASSUME Linked PROVE Linked'
      BY <2>1, <2>2, <3>1 DEF Linked, Untouched
    <3> QED
      BY <2>1, <3>1 DEF IInv, Finished
  <2>8. Previous'
    BY <2>1 DEF Previous
  <2> QED
    BY <2>3, <2>4, <2>5, <2>6, <2>7, <2>8 DEF IInv
<1> QED
  BY <1>1, <1>2

LEMMA Editing ==
  ASSUME IInv, Discard \/ \E f \in File, x \in Written : Touch(f, x)
  PROVE  IInv'
<1> USE Facts, Directories
<1>1. CASE Discard
  <2>1. Whole(tree') /\ tree' \in Dir \cup {Live, None} /\ node' \in BOOLEAN
        /\ (job.pc = "in" => tree' = None)
    <3>1. CASE tree' = None /\ UNCHANGED node
      BY <3>1 DEF IInv, TypeOK, Whole
    <3>2. CASE node' = FALSE /\ UNCHANGED tree
      BY <3>2 DEF IInv, TypeOK, Wholes, Underway
    <3> QED
      BY <1>1, <3>1, <3>2 DEF Discard
  <2>2. \/ job' = Touched(File) /\ UNCHANGED node
        \/ job' = Touched({Node}) /\ UNCHANGED tree
    BY <1>1 DEF Discard
  <2> QED
    BY <1>1, <2>1, <2>2, Telling DEF Discard
<1>2. ASSUME NEW f \in File, NEW x \in Written, Touch(f, x)
      PROVE  IInv'
  <2>1. tree \in Dir /\ x \in Held
    BY <1>2 DEF Touch, IsDir, IInv, TypeOK
  <2>2. /\ tree' \in Dir /\ tree'.manifest = tree.manifest /\ tree'.dirty = tree.dirty \cup {f}
        /\ \A g \in File \ {f} : tree'.files[g] = tree.files[g]
    BY <1>2, <2>1 DEF Touch, Dir
  <2>3. Whole(tree')
    BY <2>1, <2>2 DEF IInv, Wholes, Whole, Describes
  <2>4. job.pc # "in"
    BY <2>1 DEF IInv, Underway
  <2>5. job' = Touched({f}) /\ UNCHANGED <<node, temp, old, at>>
    BY <1>2 DEF Touch
  <2> QED
    BY <2>1, <2>2, <2>3, <2>4, <2>5, Telling DEF IInv, TypeOK
<1> QED
  BY <1>1, <1>2

-----------------------------------------------------------------------------
(* One step of a link, up to the swap.                                     *)

(* A step that changes the job and nothing else of what is in place.       *)
LEMMA Sets ==
  ASSUME IInv, UNCHANGED <<tree, node, old, at>>, job' \in Job,
         temp' \in [Temp -> Dir \cup {Live, None}],
         Underway', Constructed', Finished', Previous',
         job'.pc \notin {"in", "rollback"}
  PROVE  IInv'
<1>1. TypeOK'
  BY DEF IInv, TypeOK
<1>2. Wholes'
  BY DEF IInv, Wholes, Whole
<1> QED
  BY <1>1, <1>2 DEF IInv

LEMMA Starting ==
  ASSUME IInv, NEW w \in Build \cup {Live}, NEW h \in BOOLEAN, Start(w, h)
  PROVE  IInv'
<1> USE Facts
<1>1. UNCHANGED <<tree, node, temp, old, at>> /\ at = "link"
  BY DEF Start
<1> DEFINE p == IF w = Live THEN "mktemp" ELSE "scan"
<1>2. /\ job' \in Job /\ job'.pc = p /\ job'.want = w /\ job'.temp = None
      /\ job'.prev = tree /\ job'.touched = {} /\ job'.reuse = {}
  <2>1. p \in Pc /\ tree \in Dir \cup {Live, None}
    BY DEF Pc, IInv, TypeOK
  <2>2. job' = [NoJob EXCEPT !.pc = p, !.want = w, !.hashed = h, !.prev = tree]
    BY DEF Start
  <2> HIDE DEF p
  <2> QED
    BY <2>1, <2>2, Facts DEF Job, NoJob
<1>3. Underway' /\ Constructed' /\ Finished' /\ Previous'
  BY <1>1, <1>2 DEF Underway, Constructed, Finished, Previous
<1> QED
  BY <1>1, <1>2, <1>3, Sets DEF IInv, TypeOK

LEMMA Scanning ==
  ASSUME IInv, Scan
  PROVE  IInv'
<1> USE Facts, Directories
<1>1. UNCHANGED <<tree, node, temp, old, at>> /\ job.pc = "scan" /\ job \in Job
      /\ job.want \in Build /\ at = "link" /\ job.temp = None
  BY DEF Scan, IInv, TypeOK, Underway
<1>2. job.touched = {} => tree = job.prev
  BY <1>1 DEF IInv, Previous
<1>3. CASE readManifest = None
  <2>1. job' = [job EXCEPT !.pc = "mktemp"] /\ "mktemp" \in Pc
    BY <1>3 DEF Scan, Step, Pc
  <2>2. /\ job' \in Job /\ job'.pc = "mktemp" /\ job'.want = job.want /\ job'.temp = None
        /\ job'.prev = job.prev /\ job'.touched = job.touched /\ job'.reuse = job.reuse
    BY <1>1, <2>1, Steps
  <2>3. Underway' /\ Constructed' /\ Finished' /\ Previous'
    BY <1>1, <1>2, <2>2 DEF IInv, Underway, Constructed, Finished, Previous
  <2> QED
    BY <1>1, <2>2, <2>3, Sets DEF IInv, TypeOK
<1>4. CASE readManifest # None
  <2> DEFINE o == \E f \in File : tree.files[f] = Odd
  <2>1. PICK sameMode \in SUBSET File :
            job' = [job EXCEPT !.pc = "verify", !.present = scanLinked, !.odd = o,
                               !.reuse = reusableFiles(sameMode)]
    BY <1>4 DEF Scan
  <2>2. /\ scanLinked \subseteq File /\ reusableFiles(sameMode) \subseteq File
        /\ IsDir(tree) /\ "verify" \in Pc
    BY <1>4 DEF scanLinked, reusableFiles, readManifest, Pc
  <2>3. o \in BOOLEAN /\ (~o => \A f \in File : tree.files[f] # Odd)
    OBVIOUS
  <2> HIDE DEF o
  <2>4. /\ job' \in Job /\ job'.pc = "verify" /\ job'.want = job.want /\ job'.temp = None
        /\ job'.prev = job.prev /\ job'.touched = job.touched
        /\ job'.present = scanLinked /\ job'.odd = o
    BY <1>1, <2>1, <2>2, <2>3 DEF Job
  <2>5. Underway' /\ Finished' /\ Previous'
    BY <1>1, <1>2, <2>4 DEF Underway, Finished, Previous
  <2>6. Constructed'
    BY <1>1, <2>2, <2>3, <2>4 DEF Constructed, Untouched, scanLinked
  <2> QED
    BY <1>1, <2>4, <2>5, <2>6, Sets DEF IInv, TypeOK
<1> QED
  BY <1>3, <1>4

LEMMA Verifying ==
  ASSUME IInv, Verify
  PROVE  IInv'
<1> USE Facts, Directories
<1> DEFINE r == {f \in job.reuse : IsDir(tree) /\ tree.files[f] = job.want[f]}
           upToDate == r = FilesOf(job.want) /\ job.present = r /\ ~job.odd
           p == IF upToDate THEN "unnode" ELSE "mktemp"
<1>1. UNCHANGED <<tree, node, temp, old, at>> /\ job.pc = "verify" /\ job \in Job
      /\ job.want \in Build /\ at = "link" /\ job.temp = None
  BY DEF Verify, IInv, TypeOK, Underway
<1>2. job.touched = {} => tree = job.prev
  BY <1>1 DEF IInv, Previous
<1>3. job' = [job EXCEPT !.pc = p, !.present = {}, !.odd = FALSE, !.reuse = r]
  BY DEF Verify
<1>4. p \in Pc /\ r \in SUBSET File /\ p \in {"unnode", "mktemp"}
  BY <1>1 DEF Pc, Job
<1>5. \A f \in r : IsDir(tree) /\ tree.files[f] = job.want[f]
  OBVIOUS
<1>6. p = "unnode" => Linked
  <2> SUFFICES ASSUME upToDate, NEW f \in Untouched
               PROVE  IsDir(tree) /\ tree.files[f] = job.want[f]
    BY <1>1 DEF Linked
  <2>1. IsDir(tree) /\ (f \in job.present <=> tree.files[f] \in Content) /\ tree.files[f] # Odd
    BY <1>1 DEF IInv, Constructed
  <2>2. tree.files[f] \in Held
    BY <2>1 DEF IsDir, IInv, TypeOK, Dir, Untouched
  <2>3. CASE f \in r
    BY <2>3
  <2>4. CASE f \notin r
    BY <2>1, <2>2, <2>4 DEF FilesOf, Held, Untouched
  <2> QED
    BY <2>3, <2>4
<1> HIDE DEF r, p
<1>7. /\ job' \in Job /\ job'.pc = p /\ job'.want = job.want /\ job'.temp = None
      /\ job'.prev = job.prev /\ job'.touched = job.touched /\ job'.reuse = r
  BY <1>1, <1>3, <1>4 DEF Job
<1>8. Underway' /\ Constructed' /\ Previous'
  BY <1>1, <1>2, <1>4, <1>5, <1>7 DEF Underway, Constructed, Previous
<1>9. Finished'
  BY <1>1, <1>4, <1>6, <1>7 DEF Finished, Linked, Untouched
<1> QED
  BY <1>1, <1>4, <1>7, <1>8, <1>9, Sets DEF IInv, TypeOK

LEMMA Drawing ==
  ASSUME IInv, newTempDir
  PROVE  IInv'
<1> USE Facts, Directories
<1>1. UNCHANGED <<tree, node, old, at>> /\ job.pc = "mktemp" /\ job \in Job /\ at = "link"
      /\ job.want \in Build \cup {Live}
  BY DEF newTempDir, IInv, TypeOK, Underway, Job
<1>2. job.touched = {} => tree = job.prev
  BY <1>1 DEF IInv, Previous
<1> DEFINE d == IF job.want = Live THEN Live ELSE EmptyDir
           p == IF job.want = Live THEN "aside" ELSE "build"
<1>3. PICK t \in Temp :
        /\ temp' = [temp EXCEPT ![t] = d]
        /\ job' = [job EXCEPT !.temp = t, !.pc = p]
  BY DEF newTempDir
<1>4. p \in Pc /\ d \in Dir \cup {Live}
  BY DEF Pc
<1>5. temp' \in [Temp -> Dir \cup {Live, None}] /\ temp'[t] = d
  BY <1>3, <1>4 DEF IInv, TypeOK
<1>6. /\ job' \in Job /\ job'.pc = p /\ job'.want = job.want /\ job'.temp = t
      /\ job'.prev = job.prev /\ job'.touched = job.touched /\ job'.reuse = job.reuse
  <2> HIDE DEF p
  <2> QED
    BY <1>1, <1>3, <1>4 DEF Job
<1>7. Underway' /\ Finished' /\ Previous'
  BY <1>1, <1>2, <1>5, <1>6 DEF Underway, Finished, Previous
<1>8. Constructed'
  BY <1>1, <1>5, <1>6 DEF IInv, Constructed, Untouched
<1> QED
  BY <1>1, <1>5, <1>6, <1>7, <1>8, Sets

LEMMA Copying ==
  ASSUME IInv, NEW f \in File, LinkFile(f)
  PROVE  IInv'
<1> USE Facts, Directories
<1> DEFINE t == job.temp
           d == temp[t]
<1>1. /\ UNCHANGED <<tree, node, old, at, job>> /\ job.pc = "build" /\ f \in FilesOf(job.want)
      /\ job.want \in Build /\ t \in Temp /\ d \in Dir /\ at = "link"
  BY DEF LinkFile, IInv, Underway
<1> DEFINE carried == IF f \in job.reuse /\ IsDir(tree) THEN tree.files[f] ELSE None
<1>2. PICK x \in {carried, job.want[f]} \ {None} : temp' = [temp EXCEPT ![t].files[f] = x]
  BY DEF LinkFile
<1>3. job.want[f] \in Held /\ (IsDir(tree) => tree.files[f] \in Held)
  BY <1>1 DEF Held, IsDir, IInv, TypeOK, Dir
<1>4. x \in Held /\ (f \in Untouched => x = job.want[f])
  BY <1>1, <1>2, <1>3 DEF IInv, Constructed, Untouched
<1> DEFINE g == [d.files EXCEPT ![f] = x]
           k == [d EXCEPT !.files = g]
<1>5. temp' = [temp EXCEPT ![t] = k]
  BY <1>2
<1>6. g \in [File -> Held] /\ g[f] = x /\ \A e \in File \ {f} : g[e] = d.files[e]
  BY <1>1, <1>4 DEF Dir
<1> HIDE DEF g
<1>7. k \in Dir /\ k.files = g /\ k.manifest = d.manifest
  BY <1>1, <1>6 DEF Dir
<1> HIDE DEF k
<1>8. temp' \in [Temp -> Dir \cup {Live, None}] /\ temp'[t] = k
  BY <1>1, <1>5, <1>7 DEF IInv, TypeOK
<1>9. Underway' /\ Finished' /\ Previous'
  BY <1>1, <1>7, <1>8 DEF IInv, Underway, Finished, Previous
<1>10. Constructed'
  <2>1. \A e \in File : job.want[e] = None => k.files[e] = None
    BY <1>1, <1>6, <1>7 DEF IInv, Constructed, FilesOf
  <2>2. \A e \in Untouched : k.files[e] \in {None, job.want[e]}
    BY <1>1, <1>4, <1>6, <1>7 DEF IInv, Constructed, Untouched
  <2> QED
    BY <1>1, <1>7, <1>8, <2>1, <2>2 DEF IInv, Constructed, Untouched
<1> QED
  BY <1>1, <1>8, <1>9, <1>10, Sets DEF IInv, TypeOK

LEMMA Recording ==
  ASSUME IInv, writeManifest
  PROVE  IInv'
<1> USE Facts, Directories
<1> DEFINE t == job.temp
           d == temp[t]
           record == [f \in File |-> IF job.want[f] = None \/ job.hashed THEN job.want[f]
                                     ELSE NoHash]
<1>1. /\ UNCHANGED <<tree, node, old, at>> /\ job.pc = "build" /\ job \in Job
      /\ \A f \in FilesOf(job.want) : d.files[f] # None
      /\ job.want \in Build /\ t \in Temp /\ d \in Dir /\ at = "link"
  BY DEF writeManifest, IInv, Underway, TypeOK
<1>2. job.touched = {} => tree = job.prev
  BY <1>1 DEF IInv, Previous
<1>3. PICK m \in {None, record} : temp' = [temp EXCEPT ![t].manifest = m]
  BY DEF writeManifest
<1>4. record \in [File -> Content \cup {NoHash, None}]
  BY <1>1
<1>5. \A f \in File : IF job.want[f] = None THEN record[f] = None
                      ELSE record[f] \in {NoHash, job.want[f]}
  BY <1>1
<1> HIDE DEF record
<1> DEFINE k == [d EXCEPT !.manifest = m]
<1>6. temp' = [temp EXCEPT ![t] = k]
  BY <1>3
<1>7. k \in Dir /\ k.files = d.files /\ k.manifest = m
  BY <1>1, <1>4 DEF Dir
<1> HIDE DEF k
<1>8. temp' \in [Temp -> Dir \cup {Live, None}] /\ temp'[t] = k
  BY <1>1, <1>6, <1>7 DEF IInv, TypeOK
<1>9. /\ job' \in Job /\ job'.pc = "aside" /\ job'.want = job.want /\ job'.temp = t
      /\ job'.prev = job.prev /\ job'.touched = job.touched
  <2>1. job' = [job EXCEPT !.pc = "aside", !.reuse = {}, !.hashed = FALSE] /\ "aside" \in Pc
    BY DEF writeManifest, Pc
  <2> QED
    BY <1>1, <2>1 DEF Job
<1>10. Underway' /\ Finished' /\ Previous'
  BY <1>1, <1>2, <1>7, <1>8, <1>9 DEF Underway, Finished, Previous
<1>11. Describes(k, job.want, job.touched)
  <2> SUFFICES ASSUME NEW f \in File \ job.touched
               PROVE  /\ k.files[f] = job.want[f]
                      /\ k.manifest # None =>
                            IF job.want[f] = None THEN k.manifest[f] = None
                            ELSE k.manifest[f] \in {NoHash, job.want[f]}
    BY DEF Describes
  <2>1. d.files[f] = job.want[f]
    BY <1>1 DEF IInv, Constructed, Untouched, FilesOf
  <2> QED
    BY <1>3, <1>5, <1>7, <2>1
<1>12. Constructed'
  BY <1>8, <1>9, <1>11 DEF Constructed
<1> QED
  BY <1>1, <1>8, <1>9, <1>10, <1>12, Sets

LEMMA Failing ==
  ASSUME IInv, LinkFails
  PROVE  IInv'
<1> USE Facts
<1>1. UNCHANGED <<tree, node, old, at>> /\ job.pc \in {"mktemp", "build", "aside"}
      /\ job \in Job /\ at = "link" /\ job.want # None
  BY DEF LinkFails, IInv, Underway, TypeOK
<1>2. job.touched = {} => tree = job.prev
  BY <1>1 DEF IInv, Previous
<1>3. temp' \in [Temp -> Dir \cup {Live, None}]
  BY DEF LinkFails, IInv, TypeOK
<1>4. /\ job' \in Job /\ job'.pc = "failed" /\ job'.want = job.want /\ job'.temp = job.temp
      /\ job'.prev = job.prev /\ job'.touched = job.touched
  <2>1. job' = [job EXCEPT !.pc = "failed"] /\ "failed" \in Pc
    BY DEF LinkFails, Step, Pc
  <2> QED
    BY <1>1, <2>1, Steps
<1>5. Underway' /\ Constructed' /\ Finished' /\ Previous'
  BY <1>1, <1>2, <1>4 DEF Underway, Constructed, Finished, Previous
<1> QED
  BY <1>1, <1>3, <1>4, <1>5, Sets

-----------------------------------------------------------------------------
(* The swap, and the node_modules link.                                    *)

LEMMA SettingAside ==
  ASSUME IInv, RenameAside
  PROVE  IInv'
<1> USE Facts, Directories
<1> DEFINE t == job.temp
<1>1. /\ UNCHANGED <<node, temp, at>> /\ job.pc = "aside" /\ tree' = None
      /\ old' = [old EXCEPT ![t] = tree] /\ t \in Temp /\ job \in Job
  BY DEF RenameAside, IInv, TypeOK, Underway
<1>2. /\ job' \in Job /\ job'.pc = "in" /\ job'.want = job.want /\ job'.temp = t
      /\ job'.prev = job.prev /\ job'.touched = job.touched
  <2>1. job' = [job EXCEPT !.pc = "in"] /\ "in" \in Pc
    BY DEF RenameAside, Step, Pc
  <2> QED
    BY <1>1, <2>1, Steps
<1>3. old' \in [Temp -> Dir \cup {Live, None}] /\ old'[t] = tree
  BY <1>1 DEF IInv, TypeOK
<1>4. TypeOK'
  BY <1>1, <1>2, <1>3 DEF IInv, TypeOK
<1>5. Underway' /\ Finished' /\ Previous'
  BY <1>1, <1>2, <1>3 DEF IInv, Underway, Finished, Previous
<1>6. Constructed'
  BY <1>1, <1>2 DEF IInv, Constructed
<1>7. Wholes'
  BY <1>1, <1>2, <1>3 DEF IInv, Wholes, Whole
<1> QED
  BY <1>4, <1>5, <1>6, <1>7 DEF IInv

LEMMA ComingIn ==
  ASSUME IInv, RenameIn
  PROVE  IInv'
<1> USE Facts, Directories
<1> DEFINE t == job.temp
           new == temp[t]
           d == [new EXCEPT !.dirty = job.touched \cap File]
<1>1. /\ UNCHANGED <<node, old, at>> /\ job.pc = "in" /\ t \in Temp /\ job \in Job
      /\ temp' = [temp EXCEPT ![t] = None] /\ at = "link"
      /\ tree' = IF IsDir(new) THEN d ELSE new
  BY DEF RenameIn, IInv, TypeOK, Underway
<1>2. /\ job' \in Job /\ job'.pc = "retire" /\ job'.want = job.want /\ job'.temp = t
      /\ job'.touched = job.touched
  <2>1. job' = [job EXCEPT !.pc = "retire"] /\ "retire" \in Pc
    BY DEF RenameIn, Step, Pc
  <2> QED
    BY <1>1, <2>1, Steps
<1>3. \/ job.want = Live /\ tree' = Live
      \/ /\ job.want \in Build /\ new \in Dir /\ tree' = d
         /\ Describes(new, job.want, job.touched)
  <2>1. IF job.want = Live THEN new = Live ELSE job.want \in Build /\ new \in Dir
    BY <1>1 DEF IInv, Underway, Job
  <2>2. job.want \in Build => Describes(new, job.want, job.touched)
    BY <1>1 DEF IInv, Constructed
  <2> QED
    BY <1>1, <2>1, <2>2
<1>4. new \in Dir => /\ d \in Dir /\ d.files = new.files /\ d.manifest = new.manifest
                     /\ d.dirty = job.touched \cap File
  BY DEF Dir
<1> HIDE DEF d
<1>5. TypeOK'
  BY <1>1, <1>2, <1>3, <1>4 DEF IInv, TypeOK
<1>6. Underway' /\ Constructed' /\ Previous'
  BY <1>1, <1>2 DEF IInv, Underway, Constructed, Previous
<1>7. Finished'
  BY <1>2, <1>3, <1>4 DEF Finished, Linked, Describes, Untouched
<1>8. Wholes'
  BY <1>2, <1>3, <1>4 DEF Wholes, Whole, Describes
<1> QED
  BY <1>5, <1>6, <1>7, <1>8 DEF IInv

LEMMA NotComingIn ==
  ASSUME IInv, RenameInFails
  PROVE  IInv'
<1> USE Facts, Directories
<1> DEFINE t == job.temp
<1>1. /\ UNCHANGED <<tree, node, old, at>> /\ job.pc = "in" /\ t \in Temp /\ job \in Job
      /\ at = "link" /\ job.want # None
      /\ job.touched = {} => old[t] = job.prev
  BY DEF RenameInFails, IInv, TypeOK, Underway, Previous
<1>2. CASE old[t] # None
  <2>1. /\ job' \in Job /\ job'.pc = "rollback" /\ job'.want = job.want /\ job'.temp = t
        /\ job'.prev = job.prev /\ job'.touched = job.touched /\ UNCHANGED temp
    <3>1. job' = [job EXCEPT !.pc = "rollback"] /\ "rollback" \in Pc /\ UNCHANGED temp
      BY <1>2 DEF RenameInFails, Step, Pc
    <3> QED
      BY <1>1, <3>1, Steps
  <2>2. TypeOK' /\ Underway'
    BY <1>1, <1>2, <2>1 DEF IInv, TypeOK, Underway
  <2>3. Constructed' /\ Finished' /\ Previous'
    BY <1>1, <2>1 DEF IInv, Constructed, Finished, Previous
  <2>4. Wholes'
    BY <1>1, <2>1 DEF IInv, Wholes, Whole
  <2> QED
    BY <2>2, <2>3, <2>4 DEF IInv
<1>3. CASE old[t] = None
  <2>1. /\ job' \in Job /\ job'.pc = "failed" /\ job'.want = job.want /\ job'.temp = t
        /\ job'.prev = job.prev /\ job'.touched = job.touched
        /\ temp' = [temp EXCEPT ![t] = None]
    <3>1. job' = [job EXCEPT !.pc = "failed"] /\ "failed" \in Pc
          /\ temp' = [temp EXCEPT ![t] = None]
      BY <1>3 DEF RenameInFails, Step, Pc
    <3> QED
      BY <1>1, <3>1, Steps
  <2>2. temp' \in [Temp -> Dir \cup {Live, None}]
    BY <2>1 DEF IInv, TypeOK
  <2>3. Underway' /\ Constructed' /\ Finished' /\ Previous'
    BY <1>1, <2>1 DEF Underway, Constructed, Finished, Previous
  <2> QED
    BY <1>1, <2>1, <2>2, <2>3, Sets
<1> QED
  BY <1>2, <1>3

LEMMA RollingBack ==
  ASSUME IInv, Rollback
  PROVE  IInv'
<1> USE Facts, Directories
<1> DEFINE t == job.temp
<1>1. /\ UNCHANGED <<node, at>> /\ job.pc = "rollback" /\ t \in Temp /\ job \in Job
      /\ at = "link" /\ job.want # None /\ temp' = [temp EXCEPT ![t] = None]
      /\ job.touched = {} => old[t] = job.prev
      /\ Whole(old[t]) /\ Whole(tree)
  BY DEF Rollback, IInv, TypeOK, Underway, Previous, Wholes
<1>2. \/ tree' = old[t] /\ old' = [old EXCEPT ![t] = None]
      \/ UNCHANGED <<tree, old>>
  BY DEF Rollback
<1>3. /\ job' \in Job /\ job'.pc = "failed" /\ job'.want = job.want /\ job'.temp = t
      /\ job'.prev = job.prev /\ job'.touched = job.touched
  <2>1. job' = [job EXCEPT !.pc = "failed"] /\ "failed" \in Pc
    BY DEF Rollback, Step, Pc
  <2> QED
    BY <1>1, <2>1, Steps
<1>4. TypeOK'
  BY <1>1, <1>2, <1>3 DEF IInv, TypeOK
<1>5. Underway' /\ Constructed' /\ Finished'
  BY <1>1, <1>3 DEF Underway, Constructed, Finished
<1>6. Previous'
  BY <1>1, <1>2, <1>3 DEF Previous
<1>7. Wholes'
  BY <1>1, <1>2, <1>3 DEF Wholes, Whole
<1> QED
  BY <1>4, <1>5, <1>6, <1>7 DEF IInv

LEMMA Retiring ==
  ASSUME IInv, Retire
  PROVE  IInv'
<1> USE Facts, Directories
<1> DEFINE t == job.temp
<1>1. /\ UNCHANGED <<tree, node, temp, at>> /\ job.pc = "retire" /\ t \in Temp /\ job \in Job
      /\ at = "link" /\ job.want # None /\ Linked
  BY DEF Retire, IInv, TypeOK, Underway, Finished
<1>2. /\ job' \in Job /\ job'.pc \in {"retire", "unnode"} /\ job'.want = job.want
      /\ job'.temp = t /\ job'.touched = job.touched
  <2>1. CASE UNCHANGED job
    BY <1>1, <2>1
  <2>2. CASE job' = [job EXCEPT !.pc = "unnode"]
    BY <1>1, <2>2, Steps DEF Pc
  <2> QED
    BY <2>1, <2>2 DEF Retire, Step
<1>3. old' \in [Temp -> Dir \cup {Live, None}]
  <2>1. CASE old' = [old EXCEPT ![t] = None] \/ UNCHANGED old
    BY <2>1 DEF IInv, TypeOK
  <2>2. ASSUME IsDir(old[t]), NEW f \in File, old' = [old EXCEPT ![t].files[f] = None]
        PROVE  old' \in [Temp -> Dir \cup {Live, None}]
    <3>1. old[t] \in Dir
      BY <1>1, <2>2 DEF IsDir, IInv, TypeOK
    <3>2. [old[t] EXCEPT !.files[f] = None] \in Dir
      BY <3>1 DEF Dir, Held
    <3>3. old' = [old EXCEPT ![t] = [old[t] EXCEPT !.files[f] = None]]
      BY <2>2
    <3> HIDE DEF t
    <3> QED
      BY <3>2, <3>3 DEF IInv, TypeOK
  <2> QED
    BY <2>1, <2>2 DEF Retire, FilesOf
<1>4. TypeOK'
  BY <1>1, <1>2, <1>3 DEF IInv, TypeOK
<1>5. Underway' /\ Constructed' /\ Previous'
  BY <1>1, <1>2 DEF Underway, Constructed, Previous
<1>6. Finished'
  BY <1>1, <1>2 DEF Finished, Linked, Untouched
<1>7. Wholes'
  BY <1>1, <1>2 DEF IInv, Wholes, Whole
<1> QED
  BY <1>4, <1>5, <1>6, <1>7 DEF IInv

LEMMA LinkedMeansReplaced ==
  ASSUME IInv, Linked, job.want # None, job.touched = {}
  PROVE  Replaced
<1> USE Facts, Directories
<1>1. CASE job.want = Live
  BY <1>1 DEF Linked, Replaced
<1>2. CASE job.want # Live
  <2>1. job.want \in Build
    BY <1>2 DEF IInv, TypeOK, Job
  <2>2. \A f \in File : IsDir(tree) /\ tree.files[f] = job.want[f]
    BY <1>2 DEF Linked, Untouched
  <2>3. IsDir(tree)
    BY <2>2
  <2>4. tree.files \in [File -> Held] /\ job.want \in [File -> Content \cup {None}]
    BY <2>1, <2>3 DEF IsDir, IInv, TypeOK, Dir
  <2>5. tree.files = job.want
    BY <2>2, <2>4
  <2> QED
    BY <1>2, <2>3, <2>5 DEF Replaced
<1> QED
  BY <1>1, <1>2

LEMMA Relinking ==
  ASSUME IInv, RemoveNodeEntry \/ createNodeModulesSymlink
  PROVE  IInv'
<1> USE Facts
<1>1. /\ UNCHANGED <<tree, temp, old, at>> /\ job \in Job /\ at = "link" /\ job.want # None
      /\ Linked
  BY DEF RemoveNodeEntry, createNodeModulesSymlink, IInv, TypeOK, Underway, Finished
<1>2. PICK p \in {"node", "done", "failed"} :
        job' = [job EXCEPT !.pc = p] /\ (p = "done" => node' = TRUE)
  BY DEF RemoveNodeEntry, createNodeModulesSymlink, Step
<1>3. /\ job' \in Job /\ job'.pc = p /\ job'.want = job.want /\ job'.temp = job.temp
      /\ job'.prev = job.prev /\ job'.touched = job.touched
  <2>1. p \in Pc
    BY DEF Pc
  <2>2. job' = [job EXCEPT !.pc = p]
    BY <1>2
  <2> QED
    BY <1>1, <2>1, <2>2, Steps
<1>4. TypeOK'
  BY <1>1, <1>3 DEF RemoveNodeEntry, createNodeModulesSymlink, IInv, TypeOK
<1>5. Underway' /\ Constructed'
  BY <1>1, <1>2, <1>3 DEF Underway, Constructed
<1>6. Finished'
  BY <1>1, <1>2, <1>3 DEF Finished, Linked, Untouched
<1>7. Previous'
  <2>1. job.touched = {} => Replaced
    BY <1>1, LinkedMeansReplaced
  <2> QED
    BY <1>1, <1>2, <1>3, <2>1 DEF Previous, Replaced
<1>8. Wholes'
  BY <1>1, <1>2, <1>3 DEF IInv, Wholes, Whole
<1> QED
  BY <1>4, <1>5, <1>6, <1>7, <1>8 DEF IInv

-----------------------------------------------------------------------------
LEMMA Standing ==
  ASSUME IInv, UNCHANGED vars
  PROVE  IInv'
<1>1. UNCHANGED <<tree, node, temp, old, at, job>>
  BY DEF vars
<1>2. TypeOK' /\ Underway'
  BY <1>1 DEF IInv, TypeOK, Underway
<1>3. Constructed' /\ Wholes'
  BY <1>1 DEF IInv, Constructed, Wholes, Whole, Describes, Untouched
<1>4. Finished' /\ Previous'
  BY <1>1 DEF IInv, Finished, Linked, Untouched, Previous, Replaced
<1> QED
  BY <1>2, <1>3, <1>4 DEF IInv

LEMMA Stepping ==
  ASSUME IInv, [Next]_vars
  PROVE  IInv'
<1>1. CASE Exit \/ Crash \/ \E c \in {"link", "remove", "gc"} : GetDB(c)
  BY <1>1, Coming
<1>2. CASE Discard \/ \E f \in File, x \in Written : Touch(f, x)
  BY <1>2, Editing
<1>3. CASE \/ \E want \in Build, hashed \in BOOLEAN : Start(want, hashed)
           \/ Start(Live, FALSE)
  BY <1>3, Starting
<1>4. CASE Scan \/ Verify \/ newTempDir \/ writeManifest \/ LinkFails
  BY <1>4, Scanning, Verifying, Drawing, Recording, Failing
<1>5. CASE \E f \in File : LinkFile(f)
  BY <1>5, Copying
<1>6. CASE RenameAside \/ RenameIn \/ RenameInFails \/ Rollback \/ Retire
  BY <1>6, SettingAside, ComingIn, NotComingIn, RollingBack, Retiring
<1>7. CASE RemoveNodeEntry \/ createNodeModulesSymlink
  BY <1>7, Relinking
<1>8. CASE UnlinkFile \/ UnlinkTree \/ UnlinkNode \/ \E t \in Temp : Sweep(t)
  BY <1>8, Removing
<1>9. CASE UNCHANGED vars
  BY <1>9, Standing
<1> QED
  BY <1>1, <1>2, <1>3, <1>4, <1>5, <1>6, <1>7, <1>8, <1>9 DEF Next

LEMMA Invariance == Spec => []IInv
<1>1. Init => IInv
  BY Initially
<1>2. IInv /\ [Next]_vars => IInv'
  BY Stepping
<1> QED
  BY <1>1, <1>2, PTL DEF Spec

-----------------------------------------------------------------------------
(* Every variable keeps its type.                                          *)
THEOREM TypeCorrect == Spec => []TypeOK
<1>1. IInv => TypeOK
  BY DEF IInv
<1> QED
  BY <1>1, Invariance, PTL

(* A link that ends well leaves the files it was asked for, byte for byte  *)
(* though not mode for mode, whatever it found, reused or copied on the    *)
(* way, but for those that others wrote to meanwhile.                      *)
THEOREM Linking == Spec => []LinkedExactly
<1>1. IInv => LinkedExactly
  BY DEF IInv, Finished, Linked, Untouched, LinkedExactly
<1> QED
  BY <1>1, Invariance, PTL

(* A directory in place is one build's, with a manifest that says so, at   *)
(* every moment of every link, however it fails or crashes.                *)
THEOREM OneBuild == Spec => []NeverHalfLinked
<1>1. IInv => NeverHalfLinked
  BY DEF IInv, Wholes, Whole, Describes, NeverHalfLinked
<1> QED
  BY <1>1, Invariance, PTL

(* A link that fails or crashes leaves the package that was linked before, *)
(* in place or set aside, or its replacement.                              *)
THEOREM NothingLost == Spec => []PreviousSurvives
<1>1. ASSUME IInv PROVE PreviousSurvives
  <2> USE Facts
  <2>1. SweepSparesWriters
    BY <1>1 DEF IInv, Underway, SweepSparesWriters
  <2>2. ASSUME job.pc # "idle", job.touched = {}
        PROVE  \/ tree = job.prev
               \/ job.temp # None /\ old[job.temp] = job.prev
               \/ Replaced
    <3>1. job.pc \in Pc /\ job.want # None
      BY <1>1, <2>2 DEF IInv, TypeOK, Underway, Job
    <3>2. CASE job.pc \in {"retire", "unnode", "node", "done"}
      BY <1>1, <2>2, <3>1, <3>2, LinkedMeansReplaced DEF IInv, Finished
    <3>3. CASE job.pc \in {"scan", "verify", "mktemp", "build", "aside", "in", "rollback",
                           "failed"}
      BY <1>1, <2>2, <3>3 DEF IInv, Previous, Underway
    <3> QED
      BY <2>2, <3>1, <3>2, <3>3 DEF Pc
  <2> QED
    BY <2>1, <2>2 DEF PreviousSurvives, Replaced
<1> QED
  BY <1>1, Invariance, PTL

=============================================================================
