----------------------------- MODULE LnpmHooks -----------------------------
(***************************************************************************)
(* Commands that wait: for the database's file lock, for a script of the   *)
(* user's (a hook, or an npm lifecycle script) and, in publish --all, for  *)
(* their own goroutines.  A script may itself run lnpm, and waits for it,  *)
(* so a command can come to wait for a lock that only its own end frees.   *)
(*                                                                         *)
(* What a command does between two waits is LnpmProject's business: here   *)
(* it is one step, and a pack is one with the script before it.  Scripts   *)
(* are the user's; that each comes to an end when what it waits for has is *)
(* assumed.                                                                *)
(***************************************************************************)
EXTENDS Naturals, Sequences

CONSTANTS
    Proc,       \* slots for lnpm processes; bounds how deep scripts nest
    Shell,      \* the slots that typed commands take
    Worker,     \* goroutines of a publish --all
    Package,    \* packages of the workspace
    Typed,      \* the commands that are typed
    Scripted,   \* the commands that scripts run
    None

(* "other" stands for every command that opens the database and runs no    *)
(* script: pull, tag, gc, forget, restore, status.                         *)
Command == {"publish", "publish-all", "dry-run", "push", "add", "retreat", "other"}

ASSUME HooksAssumption ==
    /\ Typed \subseteq Command /\ Scripted \subseteq Command
    /\ Shell \subseteq Proc
    /\ Worker # {} /\ Package # {}
    /\ None \notin Proc \cup Package \cup Command

VARIABLES
    flock,      \* the process that has lnpm.db locked
    proc,       \* proc[p]: the process in slot p
    go          \* go[p][w]: its goroutines

vars == <<flock, proc, go>>

(* A slip: publish opens the database first, as push does.                 *)
PlanDatabaseFirst(c) ==
    CASE c \in {"publish", "publish-all"} -> <<"getdb", "hook", "write", "hook">>
      [] c = "dry-run" -> <<"hook">>
      [] c = "push" -> <<"getdb", "hook", "write">>
      [] c = "add" -> <<"getdb", "write", "hook">>
      [] OTHER -> <<"getdb", "write">>

(* What a command does for one package, in order.  publish runs what comes *)
(* before the pack without the database and post_publish with it; push     *)
(* opens it first; add's hook is the install of --install.                 *)
Plan(c) ==
    CASE c \in {"publish", "publish-all"} -> <<"hook", "getdb", "write", "hook">>
      [] c = "dry-run" -> <<"hook">>
      [] c = "push" -> <<"getdb", "hook", "write">>
      [] c = "add" -> <<"getdb", "write", "hook">>
      [] OTHER -> <<"getdb", "write">>

(* above: the commands whose scripts led to this one.  db: what sync.Once  *)
(* has made of GetDB in this process.                                      *)
Idle == [cmd |-> None, above |-> {}, db |-> "unopened",
         todo |-> {}, written |-> {}, ok |-> {}, failed |-> {}]
Parked == [step |-> 0, pkg |-> None, child |-> None]

TypeOK ==
    /\ flock \in Proc \cup {None}
    /\ proc \in [Proc -> [cmd : Command \cup {None}, above : SUBSET Proc,
                          db : {"unopened", "opening", "open", "failed"},
                          todo : SUBSET Package, written : SUBSET Package,
                          ok : SUBSET Package, failed : SUBSET Package]]
    /\ go \in [Proc -> [Worker -> [step : 0 .. 4, pkg : Package \cup {None},
                                   child : Proc \cup {None}]]]

Init ==
    /\ flock = None
    /\ proc = [p \in Proc |-> Idle]
    /\ go = [p \in Proc |-> [w \in Worker |-> Parked]]

Working(p, w) == go[p][w].step # 0
At(p, w, what) ==
    /\ Working(p, w) /\ go[p][w].child = None
    /\ Plan(proc[p].cmd)[go[p][w].step] = what

-----------------------------------------------------------------------------
(* Processes.                                                              *)

Jobs(c) == IF c = "publish-all" THEN Package ELSE {CHOOSE x \in Package : TRUE}

(* A slot can be taken when nobody is still to see that it ended.          *)
Free(p) == proc[p].cmd = None /\ \A q \in Proc, w \in Worker : go[q][w].child # p

Fresh(c, above) == [Idle EXCEPT !.cmd = c, !.above = above, !.todo = Jobs(c)]

Start(p) ==
    /\ p \in Shell /\ Free(p)
    /\ \E c \in Typed : proc' = [proc EXCEPT ![p] = Fresh(c, {})]
    /\ UNCHANGED <<flock, go>>

(* The process ends: the kernel drops its lock.  What its scripts started  *)
(* runs on, with nobody waiting for it.                                    *)
End(p) ==
    /\ proc' = [q \in Proc |->
                  IF q = p THEN Idle
                  ELSE IF p \in proc[q].above
                       THEN [proc[q] EXCEPT !.above = @ \ (proc[p].above \cup {p})]
                       ELSE proc[q]]
    /\ go' = [go EXCEPT ![p] = [w \in Worker |-> Parked]]
    /\ flock' = IF flock = p THEN None ELSE flock

(* wg.Wait has returned: an error unless as many succeeded as there are.   *)
Done(p) == proc[p].cmd # None /\ proc[p].todo = {} /\ \A w \in Worker : ~Working(p, w)

Exit(p) == Done(p) /\ End(p)

Kill(p) == proc[p].cmd # None /\ End(p)

-----------------------------------------------------------------------------
(* The database: bolt.Open polls the file lock for thirty seconds.         *)

Acquire(p) ==
    /\ proc[p].db = "opening" /\ flock = None
    /\ flock' = p
    /\ proc' = [proc EXCEPT ![p].db = "open"]
    /\ UNCHANGED go

(* A slip: no Timeout in bolt's options, which polls for ever.             *)
WaitForEver(p) ==
    /\ proc[p].db = "opening" /\ flock # None
    /\ UNCHANGED vars

(* initDB's error is kept for every later caller in the process.           *)
TimeOut(p) ==
    /\ proc[p].db = "opening" /\ flock # None
    /\ proc' = [proc EXCEPT ![p].db = "failed"]
    /\ UNCHANGED <<flock, go>>

(* Opened and closed again: a newer schema, a bucket that cannot be made.  *)
Refuse(p) ==
    /\ proc[p].db = "opening" /\ flock = None
    /\ proc' = [proc EXCEPT ![p].db = "failed"]
    /\ UNCHANGED <<flock, go>>

-----------------------------------------------------------------------------
(* A goroutine: it takes a package off the channel and goes through the    *)
(* plan.  A command of one package has one.                                *)

(* A slip: what a closed channel yields taken for a package.               *)
TakeUnchecked(p, w) ==
    /\ proc[p].cmd # None /\ ~Working(p, w)
    /\ \E x \in IF proc[p].todo = {} THEN {None} ELSE proc[p].todo :
          /\ go' = [go EXCEPT ![p][w] = [step |-> 1, pkg |-> x, child |-> None]]
          /\ proc' = [proc EXCEPT ![p].todo = @ \ {x}]
    /\ UNCHANGED flock

Take(p, w) ==
    /\ proc[p].cmd # None /\ ~Working(p, w)
    /\ \E x \in proc[p].todo :
          /\ go' = [go EXCEPT ![p][w] = [step |-> 1, pkg |-> x, child |-> None]]
          /\ proc' = [proc EXCEPT ![p].todo = @ \ {x}]
    /\ UNCHANGED flock

(* The package's result, sent on a channel that has room for all of them.  *)
Report(p, w, kind) ==
    /\ proc' = IF kind = "ok" THEN [proc EXCEPT ![p].ok = @ \cup {go[p][w].pkg}]
                              ELSE [proc EXCEPT ![p].failed = @ \cup {go[p][w].pkg}]
    /\ go' = [go EXCEPT ![p][w] = Parked]

(* A slip: the first failure ends the loop over the channel.               *)
FailAndLeave(p, w) ==
    /\ proc' = [proc EXCEPT ![p].failed = @ \cup {go[p][w].pkg}, ![p].todo = {}]
    /\ go' = [go EXCEPT ![p][w] = Parked]

Fail(p, w) == Report(p, w, "failed")

Advance(p, w) ==
    IF go[p][w].step < Len(Plan(proc[p].cmd))
      THEN go' = [go EXCEPT ![p][w].step = @ + 1, ![p][w].child = None] /\ UNCHANGED proc
      ELSE Report(p, w, "ok")

(* A script has ended, well or not.  A failed install is a warning.        *)
ScriptEnds(p, w) ==
    \/ Advance(p, w)
    \/ proc[p].cmd # "add" /\ Fail(p, w)

(* No script, --skip-hooks, or scripts that do not call lnpm.              *)
RunScript(p, w) ==
    /\ At(p, w, "hook")
    /\ ScriptEnds(p, w)
    /\ UNCHANGED flock

(* One that does.                                                          *)
RunLnpm(p, w) ==
    /\ At(p, w, "hook")
    /\ \E q \in Proc \ {p}, c \in Scripted :
          /\ Free(q)
          /\ proc' = [proc EXCEPT ![q] = Fresh(c, proc[p].above \cup {p})]
          /\ go' = [go EXCEPT ![p][w].child = q]
    /\ UNCHANGED flock

(* What lnpm returned is the script's to pass on or to ignore.             *)
LnpmReturns(p, w) ==
    /\ go[p][w].child # None /\ proc[go[p][w].child].cmd = None
    /\ ScriptEnds(p, w)
    /\ UNCHANGED flock

(* once.Do: the first caller opens, the others wait for what it gets.      *)
GetDB(p, w) ==
    /\ At(p, w, "getdb")
    /\ \/ /\ proc[p].db = "unopened"
          /\ proc' = [proc EXCEPT ![p].db = "opening"]
          /\ UNCHANGED go
       \/ proc[p].db = "open" /\ Advance(p, w)
       \/ proc[p].db = "failed" /\ IF proc[p].cmd = "retreat" THEN Advance(p, w) ELSE Fail(p, w)
    /\ UNCHANGED flock

(* Store and record, or whatever the command is for; the published set is  *)
(* unchanged when the tag names the content already, and post_publish is   *)
(* then passed over.                                                       *)
Write(p, w) ==
    LET x == go[p][w].pkg
        wrote == [proc EXCEPT ![p].written = @ \cup {x}]
    IN  /\ At(p, w, "write")
        /\ \/ /\ go[p][w].step < Len(Plan(proc[p].cmd))
              /\ proc' = wrote
              /\ go' = [go EXCEPT ![p][w].step = @ + 1]
           \/ /\ proc' = [wrote EXCEPT ![p].ok = @ \cup {x}]
              /\ go' = [go EXCEPT ![p][w] = Parked]
           \/ Fail(p, w)
    /\ UNCHANGED flock

Run(p, w) ==
    \/ Take(p, w) \/ RunScript(p, w) \/ RunLnpm(p, w) \/ LnpmReturns(p, w)
    \/ GetDB(p, w) \/ Write(p, w)

Open(p) == Acquire(p) \/ TimeOut(p)

(* What process p does by itself.                                          *)
Progress(p) == Exit(p) \/ Open(p) \/ \E w \in Worker : Run(p, w)

Next == \E p \in Proc : Progress(p) \/ Start(p) \/ Kill(p) \/ Refuse(p)

(* A process that is running keeps running, and the timer of bolt.Open     *)
(* runs out.  Nothing is asked of the order its goroutines run in, nor     *)
(* need anybody start a command, kill one, or be refused.                  *)
Fairness == \A p \in Proc : WF_vars(Progress(p))

Spec == Init /\ [][Next]_vars /\ Fairness

-----------------------------------------------------------------------------
(* Whatever runs beside it, whatever its scripts run, and whoever is       *)
(* killed, a command ends: openTimeout breaks the wait of a script for the *)
(* lock of the command that waits for the script.                          *)
EveryCommandEnds == \A p \in Proc : (proc[p].cmd # None) ~> (proc[p].cmd = None)

(* publishSingle opens the database after the scripts that build what it   *)
(* packs: an lnpm they run is never refused on account of the publish that *)
(* runs them.  (push and add run theirs with it open, post_publish is run  *)
(* so, and in publish --all a sibling may have opened it.)                 *)
PrePackScriptsMayRunLnpm ==
    [][\A p \in Proc :
          proc[p].db = "opening" /\ proc'[p].db = "failed" /\ flock \in proc[p].above =>
              \/ proc[flock].cmd \in {"push", "add", "publish-all"}
              \/ /\ proc[flock].cmd = "publish"
                 /\ \E w \in Worker : go[flock][w].pkg \in proc[flock].written]_vars

(* One package's failure stops no other, and "Published n/m" counts what   *)
(* it should: every package was tried, and one that counts is recorded.    *)
EveryPackageIsTried ==
    \A p \in Proc :
        Done(p) =>
            /\ proc[p].ok \cup proc[p].failed = Jobs(proc[p].cmd)
            /\ proc[p].ok \cap proc[p].failed = {}
            /\ proc[p].cmd # "dry-run" => proc[p].ok \subseteq proc[p].written
=============================================================================
