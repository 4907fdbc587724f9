------------------------------ MODULE LnpmLink ------------------------------
(***************************************************************************)
(* internal/link: how .lnpm/{package} and node_modules/{package} of one    *)
(* project change under Link, LinkSource and Unlink, with whoever builds   *)
(* in the project editing files meanwhile, crashes, and gc's sweep.  Links *)
(* of other packages and projects work on other paths, so one is modelled. *)
(*                                                                         *)
(* What a file holds stands for its bytes only.  A mode that a build gives *)
(* a file and the manifest does not record costs its reuse; the mode that  *)
(* a file has on disk is nowhere compared, so a chmod is not repaired.     *)
(* The store serves whole builds (LnpmBuilds).  .lnpm and node_modules are *)
(* directories: all three operations refuse to start otherwise.            *)
(***************************************************************************)

CONSTANTS
    File, Content,
    Build,    \* the builds that may be linked, files to content or None
    Temp,     \* names newTempDir may draw; bounds the leftovers
    Live,     \* a link to the package's source directory
    Odd,      \* anything but a regular file where a file should be
    NoHash,   \* a file whose caller knows no hash for it
    None,
    Written   \* what may be found in a file something else has written to

Held == Content \cup {Odd, None}
Node == "node_modules"    \* touched, among a project's files

(* A linked package: its files, its manifest (file to recorded hash), and, *)
(* for the properties, the files something else has written since.         *)
Dir == [files : [File -> Held],
        manifest : {None} \cup [File -> Content \cup {NoHash, None}],
        dirty : SUBSET File]

ASSUME LinkAssumption ==
    /\ Build \subseteq [File -> Content \cup {None}] /\ Build # {}
    /\ \A b \in Build : \E f \in File : b[f] # None
    /\ {Live, Odd, NoHash, None} \cap Content = {}
    /\ None \notin {"link", "remove", "gc"}
    /\ None \notin {Live, Odd, NoHash} \cup Temp \cup [File -> Content \cup {NoHash, None}]
    /\ {Live, None} \cap (Build \cup Dir) = {}
    /\ Written \subseteq Held

VARIABLES
    tree,   \* .lnpm/{package}
    node,   \* whether node_modules/{package} is the link into .lnpm
    temp,   \* temp[t]: .lnpm/.tmp-t
    old,    \* old[t]: .lnpm/.tmp-t.old
    at,     \* the command that holds the database lock
    job     \* the Link or LinkSource under way

vars == <<tree, node, temp, old, at, job>>

(* want, hashed: the arguments; present, reuse: what the scan and the      *)
(* verification found; temp: the temp entry; touched, prev: what anyone    *)
(* else wrote since the start and, while that is nothing, what was linked  *)
(* (for the properties).                                                   *)
NoJob == [pc |-> "idle", want |-> None, hashed |-> FALSE, present |-> {},
          odd |-> FALSE, reuse |-> {}, temp |-> None, prev |-> None, touched |-> {}]

Pc == {"idle", "scan", "verify", "mktemp", "build", "aside", "in", "rollback",
       "retire", "unnode", "node", "done", "failed"}

Job == [pc : Pc, want : Build \cup {Live, None}, hashed : BOOLEAN, present : SUBSET File,
        odd : BOOLEAN, reuse : SUBSET File, temp : Temp \cup {None},
        prev : Dir \cup {Live, None}, touched : SUBSET (File \cup {Node})]

TypeOK ==
    /\ tree \in Dir \cup {Live, None}
    /\ node \in BOOLEAN
    /\ temp \in [Temp -> Dir \cup {Live, None}]
    /\ old \in [Temp -> Dir \cup {Live, None}]
    /\ at \in {None, "link", "remove", "gc"}
    /\ job \in Job

Init ==
    /\ tree = None /\ node = FALSE
    /\ temp = [t \in Temp |-> None] /\ old = [t \in Temp |-> None]
    /\ at = None /\ job = NoJob

IsDir(x) == x \notin {Live, None}
FilesOf(b) == {f \in File : b[f] # None}

-----------------------------------------------------------------------------
(* Commands, and what else goes on in a project.                           *)

(* A slip: a command that does not wait for the lock.                      *)
GetDBAnyway(c) ==
    /\ at # c
    /\ at' = c
    /\ UNCHANGED <<tree, node, temp, old, job>>

GetDB(c) ==
    /\ at = None
    /\ at' = c
    /\ UNCHANGED <<tree, node, temp, old, job>>

Exit ==
    /\ at # None /\ job.pc \in {"idle", "done", "failed"}
    /\ at' = None /\ job' = NoJob
    /\ UNCHANGED <<tree, node, temp, old>>

Crash ==
    /\ at # None
    /\ at' = None /\ job' = NoJob
    /\ UNCHANGED <<tree, node, temp, old>>

Touched(s) == IF job.pc = "idle" THEN job
              ELSE [job EXCEPT !.touched = @ \cup s, !.prev = None]

(* A build, a clean script or an editor writes, deletes or replaces a      *)
(* file of the linked package, or adds one.                                *)
Touch(f, x) ==
    /\ IsDir(tree) /\ tree.files[f] # x
    /\ tree' = [tree EXCEPT !.files[f] = x, !.dirty = @ \cup {f}]
    /\ job' = Touched({f})
    /\ UNCHANGED <<node, temp, old, at>>

(* rm -rf .lnpm/{package}, an npm install over node_modules/{package}.     *)
Discard ==
    /\ \/ tree # None /\ tree' = None /\ job' = Touched(File) /\ UNCHANGED node
       \/ node /\ node' = FALSE /\ job' = Touched({Node}) /\ UNCHANGED tree
    /\ UNCHANGED <<temp, old, at>>

-----------------------------------------------------------------------------
(* Link and LinkSource up to the swap.                                     *)

Start(want, hashed) ==
    /\ at = "link" /\ job.pc \in {"idle", "done", "failed"}
    /\ job' = [NoJob EXCEPT !.pc = IF want = Live THEN "mktemp" ELSE "scan",
                            !.want = want, !.hashed = hashed, !.prev = tree]
    /\ UNCHANGED <<tree, node, temp, old, at>>

Step(pc) == [job EXCEPT !.pc = pc]

readManifest == IF IsDir(tree) THEN tree.manifest ELSE None

scanLinked == {f \in File : tree.files[f] \in Content}

(* sameMode: the files that are to have the mode the manifest records.     *)
reusableFiles(sameMode) == {f \in FilesOf(job.want) \cap scanLinked \cap sameMode :
                               job.hashed /\ readManifest[f] = job.want[f]}

(* The manifest and a listing of the directory give the candidates.        *)
Scan ==
    /\ job.pc = "scan"
    /\ IF readManifest = None THEN job' = Step("mktemp")
       ELSE \E sameMode \in SUBSET File :
               job' = [job EXCEPT !.pc = "verify",
                                  !.present = scanLinked,
                                  !.odd = \E f \in File : tree.files[f] = Odd,
                                  !.reuse = reusableFiles(sameMode)]
    /\ UNCHANGED <<tree, node, temp, old, at>>

(* A slip: the manifest believed.                                          *)
VerifyNothing ==
    LET reuse == job.reuse
        upToDate == reuse = FilesOf(job.want) /\ job.present = reuse /\ ~job.odd
    IN  /\ job.pc = "verify"
        /\ job' = [job EXCEPT !.pc = IF upToDate THEN "unnode" ELSE "mktemp",
                              !.present = {}, !.odd = FALSE, !.reuse = reuse]
        /\ UNCHANGED <<tree, node, temp, old, at>>

(* verifiedReusable: a candidate counts once its bytes, not its mode, have *)
(* been compared.  All there, and nothing else: only the node_modules link *)
(* is seen to.                                                             *)
Verify ==
    LET reuse == {f \in job.reuse : IsDir(tree) /\ tree.files[f] = job.want[f]}
        upToDate == reuse = FilesOf(job.want) /\ job.present = reuse /\ ~job.odd
    IN  /\ job.pc = "verify"
        /\ job' = [job EXCEPT !.pc = IF upToDate THEN "unnode" ELSE "mktemp",
                              !.present = {}, !.odd = FALSE, !.reuse = reuse]
        /\ UNCHANGED <<tree, node, temp, old, at>>

EmptyDir == [files |-> [f \in File |-> None], manifest |-> None, dirty |-> {}]

newTempDir ==
    /\ job.pc = "mktemp"
    /\ \E t \in Temp :
          /\ temp[t] = None /\ old[t] = None
          /\ temp' = [temp EXCEPT ![t] = IF job.want = Live THEN Live ELSE EmptyDir]
          /\ job' = [job EXCEPT !.temp = t,
                                !.pc = IF job.want = Live THEN "aside" ELSE "build"]
    /\ UNCHANGED <<tree, node, old, at>>

(* A worker carries a file over from the package in place, or, where it is *)
(* not wanted or cannot be, materialises it from the store.                *)
LinkFile(f) ==
    LET t == job.temp
        carried == IF f \in job.reuse /\ IsDir(tree) THEN tree.files[f] ELSE None
    IN  /\ job.pc = "build" /\ f \in FilesOf(job.want) /\ temp[t].files[f] = None
        /\ \E x \in {carried, job.want[f]} \ {None} :
              temp' = [temp EXCEPT ![t].files[f] = x]
        /\ UNCHANGED <<tree, node, old, at, job>>

(* A slip: the manifest written while workers are still at it.             *)
writeManifestEarly ==
    LET t == job.temp
        record == [f \in File |-> IF job.want[f] = None \/ job.hashed THEN job.want[f]
                                  ELSE NoHash]
    IN  /\ job.pc = "build"
        /\ \E m \in {None, record} : temp' = [temp EXCEPT ![t].manifest = m]
        /\ job' = [job EXCEPT !.pc = "aside", !.reuse = {}, !.hashed = FALSE]
        /\ UNCHANGED <<tree, node, old, at>>

(* A slip: what is on disk recorded, not what was asked for.               *)
writeManifestOfDisk ==
    LET t == job.temp IN
    /\ job.pc = "build"
    /\ \A f \in FilesOf(job.want) : temp[t].files[f] # None
    /\ temp' = [temp EXCEPT ![t].manifest = temp[t].files]
    /\ job' = [job EXCEPT !.pc = "aside", !.reuse = {}, !.hashed = FALSE]
    /\ UNCHANGED <<tree, node, old, at>>

(* Once all workers are done.  A manifest that cannot be written is done   *)
(* without.                                                                *)
writeManifest ==
    LET t == job.temp
        record == [f \in File |-> IF job.want[f] = None \/ job.hashed THEN job.want[f]
                                  ELSE NoHash]
    IN  /\ job.pc = "build"
        /\ \A f \in FilesOf(job.want) : temp[t].files[f] # None
        /\ \E m \in {None, record} : temp' = [temp EXCEPT ![t].manifest = m]
        /\ job' = [job EXCEPT !.pc = "aside", !.reuse = {}, !.hashed = FALSE]
        /\ UNCHANGED <<tree, node, old, at>>

(* No temp entry, no room, a file the store cannot give, a rename refused: *)
(* an error, and the deferred removal of the temp entry, which may fail.   *)
LinkFails ==
    /\ job.pc \in {"mktemp", "build", "aside"}
    /\ job' = Step("failed")
    /\ temp' \in IF job.temp = None THEN {temp}
                 ELSE {temp, [temp EXCEPT ![job.temp] = None]}
    /\ UNCHANGED <<tree, node, old, at>>

-----------------------------------------------------------------------------
(* The swap, and the node_modules link.                                    *)

(* A slip: the previous package removed, not set aside.                    *)
RemoveFirst ==
    /\ job.pc = "aside"
    /\ tree' = None
    /\ job' = Step("in")
    /\ UNCHANGED <<node, temp, old, at>>

RenameAside ==
    /\ job.pc = "aside"
    /\ old' = [old EXCEPT ![job.temp] = tree]
    /\ tree' = None
    /\ job' = Step("in")
    /\ UNCHANGED <<node, temp, at>>

RenameIn ==
    LET new == temp[job.temp] IN
    /\ job.pc = "in"
    /\ tree' = IF IsDir(new) THEN [new EXCEPT !.dirty = job.touched \cap File] ELSE new
    /\ temp' = [temp EXCEPT ![job.temp] = None]
    /\ job' = Step("retire")
    /\ UNCHANGED <<node, old, at>>

RenameInFails ==
    /\ job.pc = "in"
    /\ IF old[job.temp] # None
         THEN /\ job' = Step("rollback")
              /\ UNCHANGED temp
         ELSE /\ job' = Step("failed")
              /\ temp' = [temp EXCEPT ![job.temp] = None]
    /\ UNCHANGED <<tree, node, old, at>>

(* When the rollback fails too the previous package stays where it is.     *)
Rollback ==
    /\ job.pc = "rollback"
    /\ \/ /\ tree' = old[job.temp]
          /\ old' = [old EXCEPT ![job.temp] = None]
       \/ UNCHANGED <<tree, old>>
    /\ temp' = [temp EXCEPT ![job.temp] = None]
    /\ job' = Step("failed")
    /\ UNCHANGED <<node, at>>

(* RemoveAll of the retired package, file by file; its failure is ignored. *)
Retire ==
    LET t == job.temp IN
    /\ job.pc = "retire"
    /\ \/ /\ IsDir(old[t])
          /\ \E f \in FilesOf(old[t].files) : old' = [old EXCEPT ![t].files[f] = None]
          /\ UNCHANGED job
       \/ /\ IsDir(old[t]) => FilesOf(old[t].files) = {}
          /\ old' = [old EXCEPT ![t] = None]
          /\ job' = Step("unnode")
       \/ /\ UNCHANGED old
          /\ job' = Step("unnode")
    /\ UNCHANGED <<tree, node, temp, at>>

(* createNodeModulesSymlink: out with whatever is there, then the link.    *)
RemoveNodeEntry ==
    /\ job.pc = "unnode"
    /\ \/ node' = FALSE /\ job' = Step("node")
       \/ UNCHANGED node /\ job' = Step("failed")
    /\ UNCHANGED <<tree, temp, old, at>>

createNodeModulesSymlink ==
    /\ job.pc = "node"
    /\ \/ node' = TRUE /\ job' = Step("done")
       \/ UNCHANGED node /\ job' = Step("failed")
    /\ UNCHANGED <<tree, temp, old, at>>

-----------------------------------------------------------------------------
(* Unlink: RemoveAll of .lnpm/{package}, then the node_modules link.  An   *)
(* error or a crash stops it anywhere.                                     *)

UnlinkFile ==
    /\ at = "remove" /\ IsDir(tree)
    /\ \/ \E f \in FilesOf(tree.files) :
             tree' = [tree EXCEPT !.files[f] = None, !.dirty = @ \cup {f}]
       \/ /\ tree.manifest # None
          /\ tree' = [tree EXCEPT !.manifest = None]
    /\ UNCHANGED <<node, temp, old, at, job>>

UnlinkTree ==
    /\ at = "remove" /\ tree # None
    /\ IsDir(tree) => FilesOf(tree.files) = {} /\ tree.manifest = None
    /\ tree' = None
    /\ UNCHANGED <<node, temp, old, at, job>>

UnlinkNode ==
    /\ at = "remove" /\ tree = None /\ node
    /\ node' = FALSE
    /\ UNCHANGED <<tree, temp, old, at, job>>

FindTempEntries == {t \in Temp : temp[t] # None \/ old[t] # None}

(* gc removes what that lists, under the lock.                             *)
Sweep(t) ==
    /\ at = "gc" /\ t \in FindTempEntries
    /\ \/ temp[t] # None /\ temp' = [temp EXCEPT ![t] = None] /\ UNCHANGED old
       \/ old[t] # None /\ old' = [old EXCEPT ![t] = None] /\ UNCHANGED temp
    /\ UNCHANGED <<tree, node, at, job>>

Next ==
    \/ \E c \in {"link", "remove", "gc"} : GetDB(c)
    \/ Exit \/ Crash
    \/ \E f \in File, x \in Written : Touch(f, x)
    \/ Discard
    \/ \E want \in Build, hashed \in BOOLEAN : Start(want, hashed)
    \/ Start(Live, FALSE)
    \/ Scan \/ Verify \/ newTempDir \/ \E f \in File : LinkFile(f)
    \/ writeManifest \/ LinkFails
    \/ RenameAside \/ RenameIn \/ RenameInFails \/ Rollback \/ Retire
    \/ RemoveNodeEntry \/ createNodeModulesSymlink
    \/ UnlinkFile \/ UnlinkTree \/ UnlinkNode
    \/ \E t \in Temp : Sweep(t)

Spec == Init /\ [][Next]_vars

-----------------------------------------------------------------------------
(* "Relinking repairs a modification as well as a deletion": a Link that   *)
(* reports success leaves the files of the build with the bytes they have  *)
(* in it, none missing, none edited and none a stray, whatever the tree    *)
(* looked like when it started and however much of it was carried over or  *)
(* skipped.  Their modes are not spoken of: "a repair nobody asked for".   *)
(* What someone touches while it runs is out of its hands.                 *)
LinkedExactly ==
    job.pc = "done" =>
        /\ IF job.want = Live THEN tree = Live \/ File \subseteq job.touched
           ELSE \A f \in File \ job.touched : IsDir(tree) /\ tree.files[f] = job.want[f]
        /\ node \/ Node \in job.touched

(* Nobody building against the project ever sees a half-linked package:    *)
(* whenever .lnpm/{package} is a directory, the files nothing else wrote   *)
(* to (a remove included) are those of one build, and the manifest beside  *)
(* them describes that build.                                              *)
NeverHalfLinked ==
    IsDir(tree) =>
        \E b \in Build : \A f \in File \ tree.dirty :
            /\ tree.files[f] = b[f]
            /\ tree.manifest # None =>
                  IF b[f] = None THEN tree.manifest[f] = None
                  ELSE tree.manifest[f] \in {NoHash, b[f]}

(* FindTempEntries: "while that lock is held nothing found here can have a *)
(* live writer": a sweep takes neither the tree being built nor the        *)
(* package set aside from under a link.                                    *)
SweepSparesWriters ==
    /\ job.pc \in {"build", "aside", "in", "rollback"} => temp[job.temp] # None
    /\ job.pc = "rollback" => old[job.temp] # None

(* At every moment of a link, so wherever it fails or crashes, the package *)
(* that was linked is in place or set aside whole, or its replacement is   *)
(* in place; and no other command's sweep takes either away.               *)
PreviousSurvives ==
    /\ SweepSparesWriters
    /\ job.pc # "idle" /\ job.touched = {} =>
        \/ tree = job.prev
        \/ job.temp # None /\ old[job.temp] = job.prev
        \/ IF job.want = Live THEN tree = Live ELSE IsDir(tree) /\ tree.files = job.want

=============================================================================
