--------------------------- MODULE LnpmHooks_proofs ---------------------------
(***************************************************************************)
(* Proofs about LnpmHooks, for any number of processes, goroutines and     *)
(* packages, and whatever is typed and run by scripts.                     *)
(***************************************************************************)
EXTENDS LnpmHooks, TLAPS

Slot == [cmd : Command \cup {None}, above : SUBSET Proc,
         db : {"unopened", "opening", "open", "failed"},
         todo : SUBSET Package, written : SUBSET Package,
         ok : SUBSET Package, failed : SUBSET Package]
Goroutine == [step : 0 .. 4, pkg : Package \cup {None}, child : Proc \cup {None}]

(***************************************************************************)
(* What a process keeps account of.                                        *)
(***************************************************************************)
Step(p, w) == Plan(proc[p].cmd)[go[p][w].step]
PastWrite(p, w) == \E i \in 1 .. go[p][w].step - 1 : Plan(proc[p].cmd)[i] = "write"

(* A goroutine waits for the next package, or is somewhere in the plan of  *)
(* one that has no result yet.                                             *)
Underway(p, w) ==
    /\ proc[p].cmd # None
    /\ go[p][w].step \in 1 .. Len(Plan(proc[p].cmd))
    /\ go[p][w].pkg \in Jobs(proc[p].cmd) \ (proc[p].todo \cup proc[p].ok \cup proc[p].failed)
    /\ go[p][w].child # None => Step(p, w) = "hook"
    /\ PastWrite(p, w) => go[p][w].pkg \in proc[p].written
Going(p) == \A w \in Worker : go[p][w] = Parked \/ Underway(p, w)

(* No package is lost, and none is dealt with twice.                       *)
Accounted(p) ==
    proc[p].cmd # None =>
        \A x \in Jobs(proc[p].cmd) :
            \/ x \in proc[p].todo \cup proc[p].ok \cup proc[p].failed
            \/ \E w \in Worker : Working(p, w) /\ go[p][w].pkg = x
Within(p) ==
    proc[p].cmd # None =>
        proc[p].todo \cup proc[p].ok \cup proc[p].failed \subseteq Jobs(proc[p].cmd)
Apart(p) ==
    /\ proc[p].ok \cap proc[p].failed = {}
    /\ proc[p].todo \cap (proc[p].ok \cup proc[p].failed) = {}
    /\ \A v, w \in Worker :
          Working(p, v) /\ Working(p, w) /\ go[p][v].pkg = go[p][w].pkg => v = w

Recorded(p) == proc[p].cmd # "dry-run" => proc[p].ok \subseteq proc[p].written

(* Who has asked for the database: never a dry run, and publish only once  *)
(* the scripts before its pack are over.                                   *)
Opened(p) ==
    proc[p].db # "unopened" =>
        /\ proc[p].cmd \notin {None, "dry-run"}
        /\ proc[p].cmd = "publish" => proc[p].todo = {} /\ \A w \in Worker : go[p][w].step # 1

Own(p) == Going(p) /\ Accounted(p) /\ Within(p) /\ Apart(p) /\ Recorded(p) /\ Opened(p)

Locked == flock # None => proc[flock].db = "open"

(***************************************************************************)
(* Who waits for whom.  The commands above a process are alive, they are a *)
(* chain, and each has a goroutine that waits for the next one down.       *)
(***************************************************************************)
Alive(p) == \A f \in proc[p].above : proc[f].cmd # None /\ proc[p].cmd # None
Chain(p) ==
    \A d, f \in proc[p].above : d = f \/ d \in proc[f].above \/ f \in proc[d].above
Nested(p) == \A f \in proc[p].above : proc[f].above \subseteq proc[p].above
Awaited(p) ==
    \A f \in proc[p].above : \E w \in Worker :
        \/ go[f][w].child = p
        \/ go[f][w].child \in proc[p].above /\ f \in proc[go[f][w].child].above

Family == \A p \in Proc : Alive(p) /\ Chain(p) /\ Nested(p) /\ Awaited(p)

IInv == TypeOK /\ (\A p \in Proc : Own(p)) /\ Locked /\ Family
-----------------------------------------------------------------------------
(* The plans.                                                              *)

LEMMA Plans ==
  ASSUME NEW c \in Command, c # None
  PROVE  /\ Len(Plan(c)) \in 1 .. 4
         /\ \A i \in 1 .. Len(Plan(c)) :
              /\ Plan(c)[i] = "hook" => c \in {"publish", "publish-all", "dry-run", "push", "add"}
              /\ Plan(c)[i] = "getdb" => c # "dry-run" /\ (c = "publish" => i = 2)
              /\ c = "publish" /\ Plan(c)[i] = "hook" => i \in {1, 4}
              /\ i = Len(Plan(c)) /\ c # "dry-run" =>
                    Plan(c)[i] = "write" \/ \E j \in 1 .. i - 1 : Plan(c)[j] = "write"
         /\ c = "publish" => Plan(c)[3] = "write"
<1>1. CASE c \in {"publish", "publish-all"}
  <2>1. Plan(c) = <<"hook", "getdb", "write", "hook">>
    BY <1>1 DEF Plan
  <2> HIDE DEF Plan
  <2>2. Len(Plan(c)) = 4 /\ Plan(c)[1] = "hook" /\ Plan(c)[2] = "getdb" /\ Plan(c)[3] = "write"
        /\ Plan(c)[4] = "hook"
    BY <2>1
  <2> QED
    BY <1>1, <2>2
<1>2. CASE c = "dry-run"
  <2>1. Plan(c) = <<"hook">>
    BY <1>2 DEF Plan
  <2>2. Len(Plan(c)) = 1 /\ Plan(c)[1] = "hook"
    BY <2>1
  <2> QED
    BY <1>2, <2>2
<1>3. CASE c = "push"
  <2>1. Plan(c) = <<"getdb", "hook", "write">>
    BY <1>3 DEF Plan
  <2>2. Len(Plan(c)) = 3 /\ Plan(c)[1] = "getdb" /\ Plan(c)[2] = "hook" /\ Plan(c)[3] = "write"
    BY <2>1
  <2> QED
    BY <1>3, <2>2
<1>4. CASE c = "add"
  <2>1. Plan(c) = <<"getdb", "write", "hook">>
    BY <1>4 DEF Plan
  <2>2. Len(Plan(c)) = 3 /\ Plan(c)[1] = "getdb" /\ Plan(c)[2] = "write" /\ Plan(c)[3] = "hook"
    BY <2>1
  <2> QED
    BY <1>4, <2>2
<1>5. CASE c \in {"retreat", "other"}
  <2>1. Plan(c) = <<"getdb", "write">>
    BY <1>5 DEF Plan
  <2>2. Len(Plan(c)) = 2 /\ Plan(c)[1] = "getdb" /\ Plan(c)[2] = "write"
    BY <2>1
  <2> QED
    BY <1>5, <2>2
<1> QED
  BY <1>1, <1>2, <1>3, <1>4, <1>5 DEF Command

LEMMA Facts ==
    /\ None \notin Proc /\ None \notin Package /\ None \notin Command
    /\ \A c \in Command : Jobs(c) \subseteq Package
    /\ \A c \in Command \ {"publish-all"} : \A x, y \in Jobs(c) : x = y
    /\ Idle \in Slot /\ Parked \in Goroutine
    /\ "dry-run" # None /\ "publish" # None
<1>1. (CHOOSE x \in Package : TRUE) \in Package
  BY HooksAssumption
<1>2. \A c \in Command : Jobs(c) \subseteq Package
  BY <1>1 DEF Jobs
<1>3. None \notin Proc /\ None \notin Package /\ None \notin Command
  BY HooksAssumption
<1>4. \A c \in Command \ {"publish-all"} : \A x, y \in Jobs(c) : x = y
  BY DEF Jobs
<1>5. Idle \in Slot /\ Parked \in Goroutine
  BY DEF Idle, Parked, Slot, Goroutine
<1> QED
  BY <1>2, <1>3, <1>4, <1>5 DEF Command

-----------------------------------------------------------------------------
(* What a step of a goroutine does.                                        *)

Elsewhere(p) == flock' = flock /\ proc' = [proc EXCEPT ![p] = proc'[p]]
Besides(p, w) == Elsewhere(p) /\ go' = [go EXCEPT ![p][w] = go'[p][w]]

Took(p, w) ==
    /\ Besides(p, w) /\ proc[p].cmd # None /\ ~Working(p, w)
    /\ \E x \in proc[p].todo :
          /\ go'[p][w] = [step |-> 1, pkg |-> x, child |-> None]
          /\ proc'[p] = [proc[p] EXCEPT !.todo = @ \ {x}]
Moved(p, w) ==
    /\ Besides(p, w) /\ Working(p, w) /\ go[p][w].step < Len(Plan(proc[p].cmd))
    /\ go'[p][w] = [step |-> go[p][w].step + 1, pkg |-> go[p][w].pkg, child |-> None]
    /\ \/ proc'[p] = proc[p] /\ Step(p, w) # "write"
       \/ proc'[p] = [proc[p] EXCEPT !.written = @ \cup {go[p][w].pkg}]
Succeeded(p, w) ==
    /\ Besides(p, w) /\ Working(p, w) /\ go'[p][w] = Parked
    /\ \/ /\ proc'[p] = [proc[p] EXCEPT !.ok = @ \cup {go[p][w].pkg}]
          /\ proc[p].cmd # "dry-run" => go[p][w].pkg \in proc[p].written
       \/ proc'[p] = [proc[p] EXCEPT !.ok = @ \cup {go[p][w].pkg},
                                     !.written = @ \cup {go[p][w].pkg}]
Failed(p, w) ==
    /\ Besides(p, w) /\ Working(p, w) /\ go'[p][w] = Parked
    /\ proc'[p] = [proc[p] EXCEPT !.failed = @ \cup {go[p][w].pkg}]
Asked(p, w) ==
    /\ Elsewhere(p) /\ go' = go /\ Working(p, w) /\ Step(p, w) = "getdb"
    /\ proc[p].db = "unopened" /\ proc'[p] = [proc[p] EXCEPT !.db = "opening"]
Called(p, w, q, c) ==
    /\ flock' = flock /\ At(p, w, "hook") /\ Free(q)
    /\ proc' = [proc EXCEPT ![q] = Fresh(c, proc[p].above \cup {p})]
    /\ go' = [go EXCEPT ![p][w].child = q]

Does(p, w) ==
    \/ Took(p, w) \/ Moved(p, w) \/ Succeeded(p, w) \/ Failed(p, w) \/ Asked(p, w)
    \/ \E q \in Proc \ {p}, c \in Scripted : Called(p, w, q, c)

LEMMA Types ==
  TypeOK <=> /\ flock \in Proc \cup {None}
             /\ proc \in [Proc -> Slot]
             /\ go \in [Proc -> [Worker -> Goroutine]]
  BY DEF TypeOK, Slot, Goroutine

LEMMA Fails ==
  ASSUME TypeOK, NEW p \in Proc, NEW w \in Worker, Working(p, w), Fail(p, w), flock' = flock
  PROVE  Failed(p, w)
<1>1. proc \in [Proc -> Slot] /\ go \in [Proc -> [Worker -> Goroutine]]
  BY Types
<1>2. /\ proc' = [proc EXCEPT ![p].failed = @ \cup {go[p][w].pkg}]
      /\ go' = [go EXCEPT ![p][w] = Parked]
  BY DEF Fail, Report
<1>3. Besides(p, w) /\ go'[p][w] = Parked
  BY <1>1, <1>2 DEF Besides, Elsewhere
<1> QED
  BY <1>1, <1>2, <1>3 DEF Failed

LEMMA Stepped ==
  ASSUME NEW g \in Goroutine, NEW h, h = [g EXCEPT !.step = @ + 1, !.child = None]
  PROVE  h = [step |-> g.step + 1, pkg |-> g.pkg, child |-> None]
<1>1. DOMAIN h = {"step", "pkg", "child"}
  BY DEF Goroutine
<1>2. h.step = g.step + 1 /\ h.pkg = g.pkg /\ h.child = None
  BY DEF Goroutine
<1> QED
  BY <1>1, <1>2

LEMMA Advances ==
  ASSUME TypeOK, NEW p \in Proc, NEW w \in Worker, Going(p), Working(p, w), Advance(p, w),
         Step(p, w) # "write", flock' = flock
  PROVE  Moved(p, w) \/ Succeeded(p, w)
<1>1. proc \in [Proc -> Slot] /\ go \in [Proc -> [Worker -> Goroutine]]
  BY Types
<1>2. Underway(p, w) /\ proc[p].cmd \in Command /\ go[p][w].step \in 0 .. 4
  BY <1>1 DEF Going, Working, Parked, Underway, Slot, Goroutine
<1>3. CASE go[p][w].step < Len(Plan(proc[p].cmd))
  <2>1. go' = [go EXCEPT ![p][w].step = @ + 1, ![p][w].child = None] /\ proc' = proc
    BY <1>3 DEF Advance
  <2>2. go'[p][w] = [go[p][w] EXCEPT !.step = @ + 1, !.child = None]
    BY <1>1, <2>1
  <2>3. go'[p][w] = [step |-> go[p][w].step + 1, pkg |-> go[p][w].pkg, child |-> None]
    BY <1>1, <2>2, go[p][w] \in Goroutine, Stepped
  <2>4. Besides(p, w)
    BY <1>1, <2>1 DEF Besides, Elsewhere
  <2> QED
    BY <1>3, <2>1, <2>3, <2>4 DEF Moved
<1>4. CASE ~(go[p][w].step < Len(Plan(proc[p].cmd)))
  <2>1. Report(p, w, "ok")
    BY <1>4 DEF Advance
  <2>2. go' = [go EXCEPT ![p][w] = Parked]
    BY <2>1 DEF Report
  <2>3. proc' = [proc EXCEPT ![p].ok = @ \cup {go[p][w].pkg}]
    BY <2>1 DEF Report
  <2>4. proc'[p] = [proc[p] EXCEPT !.ok = @ \cup {go[p][w].pkg}]
    BY <1>1, <2>3
  <2>5. Besides(p, w)
    BY <1>1, <2>2, <2>3 DEF Besides, Elsewhere
  <2>6. go[p][w].step = Len(Plan(proc[p].cmd))
    BY <1>2, <1>4, Facts, Plans DEF Underway
  <2>7. proc[p].cmd # "dry-run" => go[p][w].pkg \in proc[p].written
    BY <1>2, <2>6, Facts, Plans DEF Underway, Step, PastWrite
  <2> QED
    BY <1>1, <2>2, <2>4, <2>5, <2>7 DEF Succeeded
<1> QED
  BY <1>3, <1>4

LEMMA Runs ==
  ASSUME TypeOK, NEW p \in Proc, NEW w \in Worker, Going(p), Run(p, w)
  PROVE  Does(p, w)
<1>1. proc \in [Proc -> Slot] /\ go \in [Proc -> [Worker -> Goroutine]]
  BY Types
<1>2. CASE Take(p, w)
  <2>1. PICK x \in proc[p].todo :
           /\ go' = [go EXCEPT ![p][w] = [step |-> 1, pkg |-> x, child |-> None]]
           /\ proc' = [proc EXCEPT ![p].todo = @ \ {x}]
    BY <1>2 DEF Take
  <2>2. Besides(p, w)
    BY <1>1, <1>2, <2>1 DEF Take, Besides, Elsewhere
  <2> QED
    BY <1>1, <1>2, <2>1, <2>2 DEF Take, Took, Does
<1>3. CASE RunScript(p, w)
  <2>1. Working(p, w) /\ Step(p, w) # "write" /\ flock' = flock
    BY <1>3 DEF RunScript, At, Step
  <2> QED
    BY <1>3, <2>1, Fails, Advances DEF RunScript, ScriptEnds, Does
<1>4. CASE RunLnpm(p, w)
  BY <1>4 DEF RunLnpm, Called, Does
<1>5. CASE LnpmReturns(p, w)
  <2>1. Underway(p, w)
    BY <1>5 DEF LnpmReturns, Going, Parked
  <2>2. Working(p, w) /\ Step(p, w) # "write" /\ flock' = flock
    BY <1>1, <1>5, <2>1, Facts, Plans DEF LnpmReturns, Underway, Working, Slot
  <2> QED
    BY <1>5, <2>2, Fails, Advances DEF LnpmReturns, ScriptEnds, Does
<1>6. CASE GetDB(p, w)
  <2>1. Working(p, w) /\ Step(p, w) = "getdb" /\ flock' = flock
    BY <1>6 DEF GetDB, At, Step
  <2>2. CASE proc[p].db = "unopened" /\ proc' = [proc EXCEPT ![p].db = "opening"] /\ go' = go
    <3>1. proc'[p] = [proc[p] EXCEPT !.db = "opening"] /\ Elsewhere(p)
      BY <1>1, <2>1, <2>2 DEF Elsewhere
    <3> QED
      BY <2>1, <2>2, <3>1 DEF Asked, Does
  <2>3. CASE Advance(p, w) \/ Fail(p, w)
    BY <2>1, <2>3, Fails, Advances DEF Does
  <2> QED
    BY <1>6, <2>2, <2>3 DEF GetDB
<1>7. CASE Write(p, w)
  <2> DEFINE wrote == [proc EXCEPT ![p].written = @ \cup {go[p][w].pkg}]
  <2>1. Working(p, w) /\ flock' = flock /\ go[p][w].child = None
    BY <1>7 DEF Write, At
  <2>2. CASE /\ go[p][w].step < Len(Plan(proc[p].cmd))
             /\ proc' = wrote
             /\ go' = [go EXCEPT ![p][w].step = @ + 1]
    <3>1. go'[p][w] = [step |-> go[p][w].step + 1, pkg |-> go[p][w].pkg, child |-> None]
      BY <1>1, <2>1, <2>2 DEF Goroutine
    <3>2. Besides(p, w) /\ proc'[p] = [proc[p] EXCEPT !.written = @ \cup {go[p][w].pkg}]
      BY <1>1, <2>1, <2>2 DEF Besides, Elsewhere
    <3> QED
      BY <2>1, <2>2, <3>1, <3>2 DEF Moved, Does
  <2>3. CASE proc' = [wrote EXCEPT ![p].ok = @ \cup {go[p][w].pkg}] /\ go' = [go EXCEPT ![p][w] = Parked]
    <3>1. proc'[p] = [proc[p] EXCEPT !.ok = @ \cup {go[p][w].pkg},
                                     !.written = @ \cup {go[p][w].pkg}]
      BY <1>1, <2>3 DEF Slot
    <3>2. Besides(p, w) /\ go'[p][w] = Parked
      BY <1>1, <2>1, <2>3 DEF Besides, Elsewhere
    <3> QED
      BY <2>1, <3>1, <3>2 DEF Succeeded, Does
  <2>4. CASE Fail(p, w)
    BY <2>1, <2>4, Fails DEF Does
  <2> QED
    BY <1>7, <2>2, <2>3, <2>4 DEF Write
<1> QED
  BY <1>2, <1>3, <1>4, <1>5, <1>6, <1>7 DEF Run

LEMMA Local ==
  ASSUME TypeOK, NEW p \in Proc, NEW w \in Worker, Besides(p, w)
  PROVE  /\ \A q \in Proc \ {p} : proc'[q] = proc[q] /\ go'[q] = go[q]
         /\ \A v \in Worker \ {w} : go'[p][v] = go[p][v]
         /\ proc'[p] \in Slot /\ go'[p][w] \in Goroutine => TypeOK'
<1>1. proc \in [Proc -> Slot] /\ go \in [Proc -> [Worker -> Goroutine]] /\ flock \in Proc \cup {None}
  BY Types
<1>2. /\ \A q \in Proc \ {p} : proc'[q] = proc[q] /\ go'[q] = go[q]
      /\ \A v \in Worker \ {w} : go'[p][v] = go[p][v]
  BY <1>1 DEF Besides, Elsewhere
<1>3. ASSUME proc'[p] \in Slot, go'[p][w] \in Goroutine
      PROVE  TypeOK'
  <2>1. proc' \in [Proc -> Slot]
    BY <1>1, <1>3 DEF Besides, Elsewhere
  <2>2. go' \in [Proc -> [Worker -> Goroutine]]
    BY <1>1, <1>3 DEF Besides
  <2> QED
    BY <1>1, <2>1, <2>2 DEF TypeOK, Slot, Goroutine, Besides, Elsewhere
<1> QED
  BY <1>2, <1>3

LEMMA RunTypes ==
  ASSUME TypeOK, NEW p \in Proc, NEW w \in Worker, Own(p), Does(p, w)
  PROVE  TypeOK'
<1>1. proc \in [Proc -> Slot] /\ go \in [Proc -> [Worker -> Goroutine]] /\ flock \in Proc \cup {None}
  BY Types
<1>2. proc[p] \in Slot /\ go[p][w] \in Goroutine
  BY <1>1
<1>3. Working(p, w) =>
        /\ Underway(p, w) /\ proc[p].cmd \in Command
        /\ go[p][w].pkg \in Package /\ Len(Plan(proc[p].cmd)) \in 1 .. 4
  <2>1. Working(p, w) => Underway(p, w)
    BY DEF Own, Going, Working, Parked
  <2>2. Underway(p, w) => proc[p].cmd \in Command
    BY <1>2 DEF Underway, Slot
  <2> QED
    BY <2>1, <2>2, Facts, Plans DEF Underway
<1>4. CASE Took(p, w)
  <2>1. PICK x \in proc[p].todo :
           /\ go'[p][w] = [step |-> 1, pkg |-> x, child |-> None]
           /\ proc'[p] = [proc[p] EXCEPT !.todo = @ \ {x}]
    BY <1>4 DEF Took
  <2>2. x \in Package
    BY <1>2 DEF Slot
  <2>3. go'[p][w] \in Goroutine
    BY <2>1, <2>2 DEF Goroutine
  <2>4. proc'[p] \in Slot
    BY <1>2, <2>1 DEF Slot
  <2> QED
    BY <1>4, <2>3, <2>4, Local DEF Took
<1>5. CASE Moved(p, w)
  <2>1. Working(p, w) /\ go[p][w].step < Len(Plan(proc[p].cmd))
    BY <1>5 DEF Moved
  <2>2. go[p][w].step \in 0 .. 4
    BY <1>2 DEF Goroutine
  <2>3. go[p][w].step + 1 \in 0 .. 4 /\ go[p][w].pkg \in Package
    <3>1. \A m \in 0 .. 4, n \in 1 .. 4 : m < n => m + 1 \in 0 .. 4
      OBVIOUS
    <3>2. Len(Plan(proc[p].cmd)) \in 1 .. 4 /\ go[p][w].pkg \in Package
      BY <1>3, <2>1
    <3> QED
      BY <2>1, <2>2, <3>1, <3>2
  <2>4. go'[p][w] \in Goroutine
    BY <2>3, <1>5 DEF Moved, Goroutine
  <2>5. proc'[p] \in Slot
    BY <1>2, <1>3, <1>5 DEF Moved, Slot
  <2> QED
    BY <1>5, <2>4, <2>5, Local DEF Moved
<1>6. CASE Succeeded(p, w)
  <2>1. [proc[p] EXCEPT !.ok = @ \cup {go[p][w].pkg}] \in Slot
    BY <1>2, <1>3, <1>6 DEF Succeeded, Slot
  <2>2. [proc[p] EXCEPT !.ok = @ \cup {go[p][w].pkg}, !.written = @ \cup {go[p][w].pkg}] \in Slot
    BY <1>2, <1>3, <1>6 DEF Succeeded, Slot
  <2> QED
    BY <1>6, <2>1, <2>2, Local, Facts DEF Succeeded
<1>7. CASE Failed(p, w)
  <2>1. proc'[p] \in Slot
    BY <1>2, <1>3, <1>7 DEF Failed, Slot
  <2> QED
    BY <1>7, <2>1, Local, Facts DEF Failed
<1>8. CASE Asked(p, w)
  <2>1. proc'[p] \in Slot
    BY <1>2, <1>8 DEF Asked, Slot
  <2>2. proc' \in [Proc -> Slot]
    BY <1>1, <1>8, <2>1 DEF Asked, Elsewhere
  <2>3. flock' \in Proc \cup {None} /\ go' \in [Proc -> [Worker -> Goroutine]]
    BY <1>1, <1>8 DEF Asked, Elsewhere
  <2> QED
    BY <2>2, <2>3 DEF TypeOK, Slot, Goroutine
<1>9. CASE \E q \in Proc \ {p}, c \in Scripted : Called(p, w, q, c)
  <2>1. PICK q \in Proc \ {p}, c \in Scripted : Called(p, w, q, c)
    BY <1>9
  <2>2. c \in Command /\ proc[p].above \cup {p} \in SUBSET Proc
    BY <1>2, HooksAssumption DEF Slot
  <2>3. Fresh(c, proc[p].above \cup {p}) \in Slot
    BY <2>2, Facts DEF Fresh, Idle, Slot
  <2>4. proc' \in [Proc -> Slot]
    BY <1>1, <2>1, <2>3 DEF Called
  <2>5. [go[p][w] EXCEPT !.child = q] \in Goroutine
    BY <1>2 DEF Goroutine
  <2>6. go' \in [Proc -> [Worker -> Goroutine]]
    BY <1>1, <2>1, <2>5 DEF Called
  <2>7. flock' \in Proc \cup {None}
    BY <1>1, <2>1 DEF Called
  <2> QED
    BY <2>4, <2>6, <2>7 DEF TypeOK, Slot, Goroutine
<1> QED
  BY <1>4, <1>5, <1>6, <1>7, <1>8, <1>9 DEF Does

-----------------------------------------------------------------------------
(* The accounts of the process whose goroutine takes the step.             *)

Book(p) == <<proc[p].cmd, proc[p].todo, proc[p].ok, proc[p].failed, proc[p].written, proc[p].db>>

LEMMA Untouched ==
  ASSUME NEW p \in Proc, Own(p), Book(p)' = Book(p), go'[p] = go[p]
  PROVE  Own(p)'
<1>1. /\ proc'[p].cmd = proc[p].cmd /\ proc'[p].todo = proc[p].todo /\ proc'[p].ok = proc[p].ok
      /\ proc'[p].failed = proc[p].failed /\ proc'[p].written = proc[p].written
      /\ proc'[p].db = proc[p].db
  BY DEF Book
<1>2. Going(p)'
  BY <1>1 DEF Own, Going, Underway, Step, PastWrite
<1>3. Accounted(p)' /\ Within(p)' /\ Apart(p)' /\ Recorded(p)' /\ Opened(p)'
  BY <1>1 DEF Own, Accounted, Within, Apart, Recorded, Opened, Working
<1> QED
  BY <1>2, <1>3 DEF Own

(* A goroutine keeps its place when another one moves.                     *)
LEMMA Sibling ==
  ASSUME NEW p \in Proc, NEW v \in Worker, go[p][v] = Parked \/ Underway(p, v),
         go'[p][v] = go[p][v], proc'[p].cmd = proc[p].cmd,
         proc[p].written \subseteq proc'[p].written,
         Working(p, v) => go[p][v].pkg \notin proc'[p].todo \cup proc'[p].ok \cup proc'[p].failed
  PROVE  go'[p][v] = Parked \/ Underway(p, v)'
<1>1. CASE go[p][v] = Parked
  BY <1>1
<1>2. CASE Underway(p, v) /\ Working(p, v)
  BY <1>2 DEF Underway, Step, PastWrite
<1>3. CASE Underway(p, v) /\ ~Working(p, v)
  BY <1>3, 0 \notin 1 .. Len(Plan(proc[p].cmd)) DEF Underway, Working
<1> QED
  BY <1>1, <1>2, <1>3

LEMMA TakeKeeps ==
  ASSUME TypeOK, NEW p \in Proc, NEW w \in Worker, Own(p), Took(p, w)
  PROVE  Own(p)'
<1>1. PICK x \in proc[p].todo :
         /\ go'[p][w] = [step |-> 1, pkg |-> x, child |-> None]
         /\ proc'[p] = [proc[p] EXCEPT !.todo = @ \ {x}]
  BY DEF Took
<1>2. proc[p] \in Slot /\ ~Working(p, w) /\ proc[p].cmd \in Command /\ proc[p].cmd # None
  BY Types DEF Took, Slot
<1>3. /\ proc'[p].cmd = proc[p].cmd /\ proc'[p].todo = proc[p].todo \ {x} /\ proc'[p].ok = proc[p].ok
      /\ proc'[p].failed = proc[p].failed /\ proc'[p].written = proc[p].written
      /\ proc'[p].db = proc[p].db
  BY <1>1, <1>2 DEF Slot
<1>4. \A v \in Worker \ {w} : go'[p][v] = go[p][v]
  BY Local DEF Took
<1>5. /\ go'[p][w].step = 1 /\ go'[p][w].pkg = x /\ go'[p][w].child = None
  BY <1>1
<1>6. \A v \in Worker : Working(p, v) =>
        go[p][v].pkg \in Jobs(proc[p].cmd) \ (proc[p].todo \cup proc[p].ok \cup proc[p].failed)
  BY DEF Own, Going, Working, Parked, Underway
<1>7. Going(p)'
  <2>1. Underway(p, w)'
    <3>1. x \in Jobs(proc[p].cmd) \ (proc'[p].todo \cup proc[p].ok \cup proc[p].failed)
      BY <1>2, <1>3 DEF Own, Within, Apart
    <3>2. 1 \in 1 .. Len(Plan(proc[p].cmd))
      BY <1>2, Plans
    <3>3. ~PastWrite(p, w)'
      BY <1>3, <1>5 DEF PastWrite
    <3> QED
      BY <1>2, <1>3, <1>5, <3>1, <3>2, <3>3 DEF Underway
  <2>2. ASSUME NEW v \in Worker \ {w}
        PROVE  go'[p][v] = Parked \/ Underway(p, v)'
    BY <1>3, <1>4, <1>6, Sibling DEF Own, Going
  <2> QED
    BY <2>1, <2>2 DEF Going
<1>8. Accounted(p)'
  <2> SUFFICES ASSUME NEW y \in Jobs(proc[p].cmd),
                      y \notin proc'[p].todo \cup proc[p].ok \cup proc[p].failed
               PROVE  \E v \in Worker : Working(p, v)' /\ go'[p][v].pkg = y
    BY <1>3 DEF Accounted
  <2>1. CASE y = x
    BY <1>5, <2>1 DEF Working
  <2>2. CASE y # x
    <3>1. PICK v \in Worker : Working(p, v) /\ go[p][v].pkg = y
      BY <1>2, <1>3, <2>2 DEF Own, Accounted
    <3> QED
      BY <1>2, <1>4, <3>1 DEF Working
  <2> QED
    BY <2>1, <2>2
<1>9. Within(p)' /\ Recorded(p)'
  BY <1>3 DEF Own, Within, Recorded
<1>10. Apart(p)'
  <2>1. \A u, v \in Worker \ {w} :
          Working(p, u)' /\ Working(p, v)' /\ go'[p][u].pkg = go'[p][v].pkg => u = v
    BY <1>4 DEF Own, Apart, Working
  <2>2. \A v \in Worker \ {w} : Working(p, v)' => go'[p][v].pkg # x
    BY <1>4, <1>6 DEF Working
  <2>3. /\ proc'[p].ok \cap proc'[p].failed = {}
        /\ proc'[p].todo \cap (proc'[p].ok \cup proc'[p].failed) = {}
    BY <1>3 DEF Own, Apart
  <2> QED
    BY <1>5, <2>1, <2>2, <2>3 DEF Apart
<1>11. Opened(p)'
  BY <1>3, <1>2 DEF Own, Opened
<1> QED
  BY <1>7, <1>8, <1>9, <1>10, <1>11 DEF Own

LEMMA MoveKeeps ==
  ASSUME TypeOK, NEW p \in Proc, NEW w \in Worker, Own(p), Moved(p, w)
  PROVE  Own(p)'
<1> DEFINE x == go[p][w].pkg
           k == go[p][w].step
<1>1. proc[p] \in Slot /\ go[p][w] \in Goroutine /\ Working(p, w) /\ k < Len(Plan(proc[p].cmd))
  BY Types DEF Moved
<1>2. /\ proc'[p].cmd = proc[p].cmd /\ proc'[p].todo = proc[p].todo /\ proc'[p].ok = proc[p].ok
      /\ proc'[p].failed = proc[p].failed /\ proc'[p].db = proc[p].db
      /\ proc[p].written \subseteq proc'[p].written
      /\ Step(p, w) = "write" => x \in proc'[p].written
  BY <1>1 DEF Moved, Slot
<1>3. \A v \in Worker \ {w} : go'[p][v] = go[p][v]
  BY Local DEF Moved
<1>4. go'[p][w].step = k + 1 /\ go'[p][w].pkg = x /\ go'[p][w].child = None
  BY DEF Moved
<1>5. \A v \in Worker : Working(p, v) =>
        go[p][v].pkg \in Jobs(proc[p].cmd) \ (proc[p].todo \cup proc[p].ok \cup proc[p].failed)
  BY DEF Own, Going, Working, Parked, Underway
<1>6. Underway(p, w) /\ k \in 0 .. 4 /\ k # 0
  BY <1>1 DEF Own, Going, Working, Parked, Goroutine
<1>7. proc[p].cmd \in Command /\ proc[p].cmd # None /\ Len(Plan(proc[p].cmd)) \in 1 .. 4
  BY <1>1, <1>6, Plans DEF Underway, Slot
<1>8. Going(p)'
  <2>1. Underway(p, w)'
    <3>1. k + 1 \in 1 .. Len(Plan(proc[p].cmd))
      <4>1. \A m \in 0 .. 4, n \in 1 .. 4 : m < n => m + 1 \in 1 .. n
        OBVIOUS
      <4> QED
        BY <1>1, <1>6, <1>7, <4>1
    <3>2. PastWrite(p, w)' => x \in proc'[p].written
      <4> SUFFICES ASSUME NEW i \in 1 .. k, Plan(proc[p].cmd)[i] = "write"
                   PROVE  x \in proc'[p].written
        BY <1>2, <1>4, <1>6 DEF PastWrite
      <4>1. CASE i = k
        BY <1>2, <4>1 DEF Step
      <4>2. CASE i # k
        <5>1. i \in 1 .. k - 1
          BY <1>6, <4>2
        <5> QED
          BY <1>2, <1>6, <5>1 DEF Underway, PastWrite
      <4> QED
        BY <4>1, <4>2
    <3> QED
      BY <1>2, <1>4, <1>5, <1>1, <1>7, <3>1, <3>2 DEF Underway
  <2>2. ASSUME NEW v \in Worker \ {w}
        PROVE  go'[p][v] = Parked \/ Underway(p, v)'
    BY <1>2, <1>3, <1>5, Sibling DEF Own, Going
  <2> QED
    BY <2>1, <2>2 DEF Going
<1>9. \A v \in Worker : (Working(p, v)' <=> Working(p, v)) /\ go'[p][v].pkg = go[p][v].pkg
  BY <1>1, <1>3, <1>4, <1>6 DEF Working
<1>10. Accounted(p)' /\ Within(p)' /\ Recorded(p)'
  BY <1>2, <1>9 DEF Own, Accounted, Within, Recorded
<1>11. Apart(p)'
  BY <1>2, <1>9 DEF Own, Apart
<1>12. Opened(p)'
  <2>1. \A v \in Worker : go[p][v].step # 1 => go'[p][v].step # 1
    BY <1>3, <1>4, <1>6
  <2> QED
    BY <1>2, <2>1 DEF Own, Opened
<1> QED
  BY <1>8, <1>10, <1>11, <1>12 DEF Own

LEMMA ReportKeeps ==
  ASSUME TypeOK, NEW p \in Proc, NEW w \in Worker, Own(p), Succeeded(p, w) \/ Failed(p, w)
  PROVE  Own(p)'
<1> DEFINE x == go[p][w].pkg
<1>1. proc[p] \in Slot /\ Working(p, w) /\ Besides(p, w) /\ go'[p][w] = Parked
  BY Types DEF Succeeded, Failed
<1>2. /\ proc'[p].cmd = proc[p].cmd /\ proc'[p].todo = proc[p].todo /\ proc'[p].db = proc[p].db
      /\ proc[p].written \subseteq proc'[p].written
      /\ \/ proc'[p].ok = proc[p].ok \cup {x} /\ proc'[p].failed = proc[p].failed
         \/ proc'[p].ok = proc[p].ok /\ proc'[p].failed = proc[p].failed \cup {x}
      /\ proc'[p].cmd # "dry-run" /\ proc'[p].ok # proc[p].ok => x \in proc'[p].written
  <2>1. CASE Succeeded(p, w)
    <3>1. CASE /\ proc'[p] = [proc[p] EXCEPT !.ok = @ \cup {x}]
               /\ proc[p].cmd # "dry-run" => x \in proc[p].written
      BY <1>1, <3>1 DEF Slot
    <3>2. CASE proc'[p] = [proc[p] EXCEPT !.ok = @ \cup {x}, !.written = @ \cup {x}]
      BY <1>1, <3>2 DEF Slot
    <3> QED
      BY <2>1, <3>1, <3>2 DEF Succeeded
  <2>2. CASE Failed(p, w)
    BY <1>1, <2>2 DEF Failed, Slot
  <2> QED
    BY <2>1, <2>2
<1>3. \A v \in Worker \ {w} : go'[p][v] = go[p][v]
  BY <1>1, Local
<1>4. \A v \in Worker : Working(p, v) =>
        go[p][v].pkg \in Jobs(proc[p].cmd) \ (proc[p].todo \cup proc[p].ok \cup proc[p].failed)
  BY DEF Own, Going, Working, Parked, Underway
<1>5. \A v \in Worker \ {w} : Working(p, v) => go[p][v].pkg # x
  BY <1>1 DEF Own, Apart
<1>6. Going(p)'
  <2>1. ASSUME NEW v \in Worker \ {w}
        PROVE  go'[p][v] = Parked \/ Underway(p, v)'
    BY <1>2, <1>3, <1>4, <1>5, Sibling DEF Own, Going
  <2> QED
    BY <1>1, <2>1 DEF Going
<1>7. ~Working(p, w)'
  BY <1>1 DEF Working, Parked
<1>8. \A v \in Worker \ {w} :
        (Working(p, v)' <=> Working(p, v)) /\ go'[p][v].pkg = go[p][v].pkg
  BY <1>3 DEF Working
<1>9. Accounted(p)'
  <2> SUFFICES ASSUME proc[p].cmd # None, NEW y \in Jobs(proc[p].cmd),
                      y \notin proc'[p].todo \cup proc'[p].ok \cup proc'[p].failed
               PROVE  \E v \in Worker : Working(p, v)' /\ go'[p][v].pkg = y
    BY <1>2 DEF Accounted
  <2>1. PICK v \in Worker : Working(p, v) /\ go[p][v].pkg = y
    BY <1>2 DEF Own, Accounted
  <2>2. v # w
    BY <1>2, <2>1
  <2> QED
    BY <1>8, <2>1, <2>2
<1>10. Within(p)'
  BY <1>1, <1>2, <1>4 DEF Own, Within
<1>11. Apart(p)'
  <2>1. /\ proc'[p].ok \cap proc'[p].failed = {}
        /\ proc'[p].todo \cap (proc'[p].ok \cup proc'[p].failed) = {}
    BY <1>1, <1>2, <1>4 DEF Own, Apart
  <2> QED
    BY <1>7, <1>8, <2>1 DEF Own, Apart
<1>12. Recorded(p)'
  BY <1>2 DEF Own, Recorded
<1>13. Opened(p)'
  <2>1. go'[p][w].step # 1
    BY <1>1 DEF Parked
  <2> QED
    BY <1>2, <1>3, <2>1 DEF Own, Opened
<1> QED
  BY <1>6, <1>9, <1>10, <1>11, <1>12, <1>13 DEF Own

LEMMA AskKeeps ==
  ASSUME TypeOK, NEW p \in Proc, NEW w \in Worker, Own(p), Asked(p, w)
  PROVE  Own(p)'
<1>1. proc[p] \in Slot /\ Working(p, w) /\ Step(p, w) = "getdb" /\ go' = go
  BY Types DEF Asked
<1>2. /\ proc'[p].cmd = proc[p].cmd /\ proc'[p].todo = proc[p].todo /\ proc'[p].ok = proc[p].ok
      /\ proc'[p].failed = proc[p].failed /\ proc'[p].written = proc[p].written
  BY <1>1 DEF Asked, Slot
<1>3. Underway(p, w) /\ proc[p].cmd \in Command
  BY <1>1 DEF Own, Going, Working, Parked, Underway, Slot
<1>4. Going(p)'
  BY <1>1, <1>2 DEF Own, Going, Underway, Step, PastWrite
<1>5. Accounted(p)' /\ Within(p)' /\ Apart(p)' /\ Recorded(p)'
  BY <1>1, <1>2 DEF Own, Accounted, Within, Apart, Recorded, Working
<1>6. Opened(p)'
  <2>1. proc[p].cmd # None /\ go[p][w].step \in 1 .. Len(Plan(proc[p].cmd))
    BY <1>3 DEF Underway
  <2>2. proc[p].cmd # "dry-run" /\ (proc[p].cmd = "publish" => go[p][w].step = 2)
    BY <1>1, <1>3, <2>1, Plans DEF Step
  <2>3. ASSUME proc[p].cmd = "publish"
        PROVE  proc[p].todo = {} /\ \A v \in Worker : go[p][v].step # 1
    <3>1. \A x, y \in Jobs(proc[p].cmd) : x = y
      BY <2>3, Facts DEF Command
    <3>2. go[p][w].pkg \in Jobs(proc[p].cmd) \ (proc[p].todo \cup proc[p].ok \cup proc[p].failed)
      BY <1>3 DEF Underway
    <3>3. proc[p].todo \subseteq Jobs(proc[p].cmd)
      BY <2>1 DEF Own, Within
    <3>4. ASSUME NEW v \in Worker, go[p][v].step = 1
          PROVE  FALSE
      <4>1. Working(p, v) /\ Underway(p, v)
        BY <3>4 DEF Own, Going, Working, Parked
      <4>2. go[p][v].pkg = go[p][w].pkg
        BY <3>1, <3>2, <4>1 DEF Underway
      <4> QED
        BY <1>1, <2>2, <2>3, <3>4, <4>1, <4>2 DEF Own, Apart
    <3> QED
      BY <3>1, <3>2, <3>3, <3>4
  <2> QED
    BY <1>1, <1>2, <2>1, <2>2, <2>3 DEF Opened
<1> QED
  BY <1>4, <1>5, <1>6 DEF Own

(* A command that begins, typed or run by a script.                        *)
LEMMA FreshKeeps ==
  ASSUME TypeOK, NEW p \in Proc, NEW c \in Command, NEW a \in SUBSET Proc,
         Own(p), proc[p].cmd = None, proc'[p] = Fresh(c, a), go'[p] = go[p]
  PROVE  Own(p)'
<1>1. /\ proc'[p].cmd = c /\ proc'[p].todo = Jobs(c) /\ proc'[p].ok = {} /\ proc'[p].failed = {}
      /\ proc'[p].db = "unopened"
  BY DEF Fresh, Idle
<1>2. \A w \in Worker : go'[p][w] = Parked /\ ~Working(p, w)'
  BY DEF Own, Going, Underway, Working, Parked
<1>3. Going(p)' /\ Opened(p)'
  BY <1>1, <1>2 DEF Going, Opened
<1>4. Accounted(p)' /\ Within(p)' /\ Apart(p)' /\ Recorded(p)'
  BY <1>1, <1>2 DEF Accounted, Within, Apart, Recorded
<1> QED
  BY <1>3, <1>4 DEF Own

LEMMA CallKeeps ==
  ASSUME TypeOK, NEW p \in Proc, NEW w \in Worker, Own(p),
         NEW q \in Proc \ {p}, NEW c \in Scripted, Called(p, w, q, c)
  PROVE  Own(p)'
<1>1. proc \in [Proc -> Slot] /\ go \in [Proc -> [Worker -> Goroutine]]
  BY Types
<1>2. proc'[p] = proc[p]
  BY <1>1 DEF Called
<1>3. /\ \A v \in Worker \ {w} : go'[p][v] = go[p][v]
      /\ go'[p][w] = [go[p][w] EXCEPT !.child = q]
  BY <1>1 DEF Called
<1>4. /\ go'[p][w].step = go[p][w].step /\ go'[p][w].pkg = go[p][w].pkg /\ go'[p][w].child = q
      /\ Working(p, w) /\ Step(p, w) = "hook" /\ go[p][w] \in Goroutine
  BY <1>1, <1>3 DEF Called, At, Step, Goroutine
<1>5. \A v \in Worker : go'[p][v].step = go[p][v].step /\ go'[p][v].pkg = go[p][v].pkg
  BY <1>3, <1>4
<1>6. Underway(p, w)'
  <2>1. Underway(p, w)
    BY <1>4 DEF Own, Going, Working, Parked
  <2> QED
    BY <1>2, <1>4, <2>1 DEF Underway, Step, PastWrite
<1>7. Going(p)'
  <2>1. \A v \in Worker \ {w} : go'[p][v] = Parked \/ Underway(p, v)'
    BY <1>2, <1>3 DEF Own, Going, Underway, Step, PastWrite
  <2> QED
    BY <1>6, <2>1 DEF Going
<1>8. Accounted(p)' /\ Within(p)' /\ Apart(p)' /\ Recorded(p)' /\ Opened(p)'
  BY <1>2, <1>5 DEF Own, Accounted, Within, Apart, Recorded, Opened, Working
<1> QED
  BY <1>7, <1>8 DEF Own

LEMMA EndKeeps ==
  ASSUME TypeOK, NEW p \in Proc, End(p), \A q \in Proc : Own(q)
  PROVE  TypeOK' /\ \A q \in Proc : Own(q)'
<1>1. /\ proc \in [Proc -> Slot] /\ go \in [Proc -> [Worker -> Goroutine]]
      /\ flock \in Proc \cup {None}
  BY Types
<1>2. ASSUME NEW q \in Proc
      PROVE  proc'[q] \in Slot /\ (q # p => Book(q)' = Book(q))
  <2>1. CASE q = p
    BY <2>1, Facts DEF End
  <2>2. CASE q # p /\ p \in proc[q].above
    <3>1. proc'[q] = [proc[q] EXCEPT !.above = @ \ (proc[p].above \cup {p})]
      BY <2>2 DEF End
    <3>2. proc[q] \in Slot
      BY <1>1
    <3> DEFINE s == proc[q].above \ (proc[p].above \cup {p})
    <3>3. [proc[q] EXCEPT !.above = s] \in Slot
      BY <3>2 DEF Slot
    <3>4. /\ proc'[q].cmd = proc[q].cmd /\ proc'[q].todo = proc[q].todo /\ proc'[q].ok = proc[q].ok
          /\ proc'[q].failed = proc[q].failed /\ proc'[q].written = proc[q].written
          /\ proc'[q].db = proc[q].db
      BY <3>1, <3>2 DEF Slot
    <3> QED
      BY <3>1, <3>3, <3>4 DEF Book
  <2>3. CASE q # p /\ p \notin proc[q].above
    BY <1>1, <2>3 DEF End, Book
  <2> QED
    BY <2>1, <2>2, <2>3
<1>3. TypeOK'
  <2>1. proc' \in [Proc -> Slot]
    BY <1>2 DEF End
  <2>2. go' \in [Proc -> [Worker -> Goroutine]]
    <3>1. [w \in Worker |-> Parked] \in [Worker -> Goroutine]
      BY Facts
    <3> QED
      BY <1>1, <3>1 DEF End
  <2>3. flock' \in Proc \cup {None}
    BY <1>1 DEF End
  <2> QED
    BY <2>1, <2>2, <2>3 DEF TypeOK, Slot, Goroutine
<1>4. ASSUME NEW q \in Proc, q # p
      PROVE  Own(q)'
  BY <1>1, <1>2, <1>4, Untouched DEF End
<1>5. Own(p)'
  <2>1. /\ proc'[p] = Idle /\ \A w \in Worker : go'[p][w] = Parked
    BY <1>1 DEF End
  <2> QED
    BY <2>1 DEF Own, Going, Accounted, Within, Apart, Recorded, Opened, Idle, Working, Parked
<1> QED
  BY <1>3, <1>4, <1>5

-----------------------------------------------------------------------------
(* Who waits for whom.                                                     *)

LEMMA AboveTypes ==
  ASSUME TypeOK
  PROVE  \A p \in Proc : proc[p].above \subseteq Proc
  BY Types DEF Slot

(* No wait changes but one whose child has ended.                          *)
Calm ==
    /\ \A q \in Proc : proc'[q].cmd = proc[q].cmd /\ proc'[q].above = proc[q].above
    /\ \A f \in Proc, v \in Worker :
          go[f][v].child \in Proc /\ proc[go[f][v].child].cmd # None =>
              go'[f][v].child = go[f][v].child

LEMMA CalmKeeps ==
  ASSUME TypeOK, Family, Calm
  PROVE  Family'
<1>1. \A q \in Proc : Alive(q)' /\ Chain(q)' /\ Nested(q)'
  BY AboveTypes DEF Family, Calm, Alive, Chain, Nested
<1>2. ASSUME NEW q \in Proc, NEW f \in proc[q].above
      PROVE  \E v \in Worker :
                 \/ go'[f][v].child = q
                 \/ go'[f][v].child \in proc[q].above /\ f \in proc[go'[f][v].child].above
  <2>1. f \in Proc /\ proc[q].cmd # None
    BY <1>2, AboveTypes DEF Family, Alive
  <2>2. PICK v \in Worker :
           \/ go[f][v].child = q
           \/ go[f][v].child \in proc[q].above /\ f \in proc[go[f][v].child].above
    BY <1>2 DEF Family, Awaited
  <2>3. go[f][v].child \in Proc /\ proc[go[f][v].child].cmd # None
    BY <2>1, <2>2, AboveTypes DEF Family, Alive
  <2> QED
    BY <2>1, <2>2, <2>3 DEF Calm
<1>3. \A q \in Proc : Awaited(q)'
  BY <1>2, AboveTypes DEF Calm, Awaited
<1> QED
  BY <1>1, <1>3 DEF Family

(* A goroutine that waits for an lnpm goes on when that one has ended.     *)
LEMMA RunsAgain ==
  ASSUME TypeOK, NEW p \in Proc, NEW w \in Worker, Own(p), Run(p, w)
  PROVE  go[p][w].child = None \/ proc[go[p][w].child].cmd = None
<1>1. Take(p, w) => go[p][w].child = None
  BY 0 \notin 1 .. Len(Plan(proc[p].cmd))
  DEF Take, Own, Going, Underway, Working, Parked
<1> QED
  BY <1>1 DEF Run, RunScript, RunLnpm, LnpmReturns, GetDB, Write, At

LEMMA RunIsCalm ==
  ASSUME TypeOK, NEW p \in Proc, NEW w \in Worker, Own(p), Run(p, w),
         Took(p, w) \/ Moved(p, w) \/ Succeeded(p, w) \/ Failed(p, w) \/ Asked(p, w)
  PROVE  Calm
<1>1. proc \in [Proc -> Slot] /\ proc[p] \in Slot
  BY Types
<1>2. Elsewhere(p) /\ proc'[p].cmd = proc[p].cmd /\ proc'[p].above = proc[p].above
  <2>1. CASE Took(p, w)
    BY <1>1, <2>1 DEF Took, Besides, Slot
  <2>2. CASE Moved(p, w)
    BY <1>1, <2>2 DEF Moved, Besides, Slot
  <2>3. CASE Succeeded(p, w)
    BY <1>1, <2>3 DEF Succeeded, Besides, Slot
  <2>4. CASE Failed(p, w)
    BY <1>1, <2>4 DEF Failed, Besides, Slot
  <2>5. CASE Asked(p, w)
    BY <1>1, <2>5 DEF Asked, Slot
  <2> QED
    BY <2>1, <2>2, <2>3, <2>4, <2>5
<1>3. \A q \in Proc : proc'[q].cmd = proc[q].cmd /\ proc'[q].above = proc[q].above
  BY <1>1, <1>2 DEF Elsewhere
<1>4. ASSUME NEW f \in Proc, NEW v \in Worker,
             go[f][v].child \in Proc, proc[go[f][v].child].cmd # None
      PROVE  go'[f][v].child = go[f][v].child
  <2>1. f # p \/ v # w
    BY <1>4, RunsAgain, Facts
  <2>2. Besides(p, w) \/ go' = go
    BY DEF Took, Moved, Succeeded, Failed, Asked
  <2> QED
    BY <2>1, <2>2, Local
<1> QED
  BY <1>3, <1>4 DEF Calm

(* A slot that is free is above nobody.                                    *)
LEMMA BeginKeeps ==
  ASSUME TypeOK, Family, NEW q \in Proc, proc[q].cmd = None, NEW c \in Command,
         proc' = [proc EXCEPT ![q] = Fresh(c, {})], go' = go
  PROVE  Family'
<1>1. \A p \in Proc : q \notin proc[p].above /\ p \notin proc[q].above
  BY DEF Family, Alive
<1>2. proc'[q].above = {} /\ proc'[q].cmd = c /\ c # None
  BY Types, Facts DEF Fresh, Idle
<1>3. \A p \in Proc \ {q} : proc'[p] = proc[p]
  BY Types
<1>4. \A p \in Proc : Alive(p)' /\ Chain(p)' /\ Nested(p)'
  BY <1>1, <1>2, <1>3, AboveTypes DEF Family, Alive, Chain, Nested
<1>5. ASSUME NEW p \in Proc \ {q}
      PROVE  Awaited(p)'
  BY <1>1, <1>3, AboveTypes DEF Family, Awaited
<1>6. Awaited(q)'
  BY <1>2 DEF Awaited
<1> QED
  BY <1>4, <1>5, <1>6 DEF Family

LEMMA CallWaits ==
  ASSUME TypeOK, Family, NEW p \in Proc, NEW w \in Worker, proc[p].cmd # None,
         NEW q \in Proc \ {p}, NEW c \in Scripted, Called(p, w, q, c)
  PROVE  Family'
<1>1. proc \in [Proc -> Slot] /\ go \in [Proc -> [Worker -> Goroutine]] /\ c \in Command
  BY Types, HooksAssumption
<1>2. \A r \in Proc : q \notin proc[r].above /\ r \notin proc[q].above
  BY DEF Called, Free, Family, Alive
<1>3. proc'[q].above = proc[p].above \cup {p} /\ proc'[q].cmd = c /\ c # None
  BY <1>1, Facts DEF Called, Fresh, Idle
<1>4. \A r \in Proc \ {q} : proc'[r] = proc[r]
  BY <1>1 DEF Called
<1>5. /\ go[p][w].child = None /\ go'[p][w].child = q
      /\ \A r \in Proc, v \in Worker : r # p \/ v # w => go'[r][v].child = go[r][v].child
  BY <1>1 DEF Called, At, Goroutine
<1>6. \A r \in Proc : Alive(r)'
  BY <1>2, <1>3, <1>4, AboveTypes DEF Family, Alive
<1>7. \A r \in Proc : Chain(r)' /\ Nested(r)'
  <2>1. \A r \in Proc \ {q} : Chain(r)' /\ Nested(r)'
    BY <1>2, <1>4, AboveTypes DEF Family, Chain, Nested
  <2>2. Chain(q)'
    BY <1>2, <1>3, <1>4, AboveTypes DEF Family, Chain
  <2>3. Nested(q)'
    BY <1>2, <1>3, <1>4, AboveTypes DEF Family, Nested
  <2> QED
    BY <2>1, <2>2, <2>3
<1>8. ASSUME NEW r \in Proc, NEW f \in proc[r].above
      PROVE  \E v \in Worker :
                 \/ go'[f][v].child = r
                 \/ go'[f][v].child \in proc[r].above /\ f \in proc[go'[f][v].child].above
  <2>1. PICK v \in Worker :
           \/ go[f][v].child = r
           \/ go[f][v].child \in proc[r].above /\ f \in proc[go[f][v].child].above
    BY <1>8 DEF Family, Awaited
  <2>2. f \in Proc /\ go[f][v].child \in Proc
    BY <1>8, <2>1, AboveTypes
  <2>3. go'[f][v].child = go[f][v].child
    BY <1>5, <2>2, Facts
  <2> QED
    BY <2>1, <2>3
<1>9. ASSUME NEW r \in Proc \ {q}
      PROVE  Awaited(r)'
  <2> SUFFICES ASSUME NEW f \in proc[r].above
               PROVE  \E v \in Worker :
                          \/ go'[f][v].child = r
                          \/ go'[f][v].child \in proc[r].above /\ f \in proc'[go'[f][v].child].above
    BY <1>4 DEF Awaited
  <2> QED
    BY <1>2, <1>4, <1>8, AboveTypes
<1>10. Awaited(q)'
  <2> SUFFICES ASSUME NEW f \in proc[p].above \cup {p}
               PROVE  \E v \in Worker :
                          \/ go'[f][v].child = q
                          \/ /\ go'[f][v].child \in proc[p].above \cup {p}
                             /\ f \in proc'[go'[f][v].child].above
    BY <1>3 DEF Awaited
  <2>1. CASE f = p
    BY <1>5, <2>1
  <2>2. CASE f \in proc[p].above
    BY <1>2, <1>4, <1>8, <2>2, AboveTypes
  <2> QED
    BY <2>1, <2>2
<1> QED
  BY <1>6, <1>7, <1>9, <1>10 DEF Family

(* Who ends takes those above it out of the sight of what its scripts      *)
(* started: they no longer wait for it.                                    *)
LEMMA EndFamily ==
  ASSUME TypeOK, Family, NEW x \in Proc, End(x)
  PROVE  Family'
<1> DEFINE Left(p) == IF p = x THEN {}
                      ELSE IF x \in proc[p].above THEN proc[p].above \ (proc[x].above \cup {x})
                      ELSE proc[p].above
<1>1. proc \in [Proc -> Slot] /\ go \in [Proc -> [Worker -> Goroutine]]
  BY Types
<1>2. \A p \in Proc : proc'[p].above = Left(p)
  BY <1>1 DEF End, Idle, Slot
<1>3. \A p \in Proc \ {x} : proc'[p].cmd = proc[p].cmd /\ go'[p] = go[p]
  BY <1>1 DEF End, Slot
<1>4. \A p \in Proc : Left(p) \subseteq proc[p].above /\ x \notin Left(p)
  OBVIOUS
<1> HIDE DEF Left
(* Between two that are left, nothing was taken away.                      *)
<1>5. ASSUME NEW p \in Proc, NEW d \in Left(p), NEW f \in proc[d].above, f \in Left(p)
      PROVE  f \in Left(d)
  <2>1. d \in Proc /\ d # x /\ p # x /\ f # x /\ d \in proc[p].above
    BY <1>4, <1>5, AboveTypes DEF Left
  <2>2. SUFFICES ASSUME x \in proc[d].above, f \in proc[x].above
                 PROVE  FALSE
    BY <2>1 DEF Left
  <2>3. x \in proc[p].above
    BY <2>1, <2>2 DEF Family, Nested
  <2> QED
    BY <1>5, <2>1, <2>2, <2>3 DEF Left
<1>6. \A p \in Proc : Alive(p)'
  <2>1. ASSUME NEW p \in Proc, NEW f \in Left(p)
        PROVE  proc'[f].cmd # None /\ proc'[p].cmd # None
    <3>1. f \in proc[p].above /\ f # x /\ p # x /\ f \in Proc
      BY <1>4, <2>1, AboveTypes DEF Left
    <3> QED
      BY <1>3, <3>1 DEF Family, Alive
  <2> QED
    BY <1>2, <2>1 DEF Alive
<1>7. \A p \in Proc : Chain(p)'
  <2>1. ASSUME NEW p \in Proc, NEW d \in Left(p), NEW f \in Left(p)
        PROVE  d = f \/ d \in Left(f) \/ f \in Left(d)
    BY <1>4, <1>5 DEF Family, Chain
  <2>2. \A p \in Proc : Left(p) \subseteq Proc
    BY <1>4, AboveTypes
  <2> QED
    BY <1>2, <2>1, <2>2 DEF Chain
<1>8. \A p \in Proc : Nested(p)'
  <2>1. ASSUME NEW p \in Proc, NEW d \in Left(p), NEW f \in Left(d)
        PROVE  f \in Left(p)
    <3>1. d \in proc[p].above /\ d \in Proc /\ d # x /\ p # x /\ f # x
      BY <1>4, AboveTypes DEF Left
    <3>2. f \in proc[d].above /\ f \in proc[p].above
      BY <1>4, <3>1, AboveTypes DEF Family, Nested
    <3>3. SUFFICES ASSUME x \in proc[p].above, f \in proc[x].above
                   PROVE  FALSE
      BY <3>1, <3>2 DEF Left
    <3>4. d \notin proc[x].above
      BY <2>1, <3>1, <3>3 DEF Left
    <3>5. x \in proc[d].above
      BY <3>1, <3>3, <3>4 DEF Family, Chain
    <3> QED
      BY <2>1, <3>1, <3>3, <3>5 DEF Left
  <2>2. \A p \in Proc : Left(p) \subseteq Proc
    BY <1>4, AboveTypes
  <2> QED
    BY <1>2, <2>1, <2>2 DEF Nested
<1>9. ASSUME NEW p \in Proc, NEW f \in Left(p)
      PROVE  \E v \in Worker :
                 \/ go'[f][v].child = p
                 \/ go'[f][v].child \in Left(p) /\ f \in Left(go'[f][v].child)
  <2>1. f \in proc[p].above /\ f \in Proc /\ f # x /\ p # x
    BY <1>4, AboveTypes DEF Left
  <2>2. PICK v \in Worker :
           \/ go[f][v].child = p
           \/ go[f][v].child \in proc[p].above /\ f \in proc[go[f][v].child].above
    BY <2>1 DEF Family, Awaited
  <2>3. go'[f] = go[f]
    BY <1>3, <2>1
  <2>4. ASSUME go[f][v].child # p
        PROVE  go[f][v].child \in Left(p)
    <3> DEFINE d == go[f][v].child
    <3>1. d \in proc[p].above /\ f \in proc[d].above /\ d \in Proc
      BY <2>2, <2>4, AboveTypes
    <3>2. ASSUME x \in proc[p].above, d \in proc[x].above \cup {x}
          PROVE  FALSE
      <4>1. f \in proc[x].above
        BY <3>1, <3>2 DEF Family, Nested
      <4> QED
        BY <2>1, <3>2, <4>1, <1>9 DEF Left
    <3> QED
      BY <2>1, <3>1, <3>2 DEF Left
  <2>5. go[f][v].child # p => f \in Left(go[f][v].child)
    BY <1>5, <1>9, <2>2, <2>4
  <2> QED
    BY <2>3, <2>4, <2>5
<1>10. \A p \in Proc : Awaited(p)'
  <2>1. \A p \in Proc : Left(p) \subseteq Proc
    BY <1>4, AboveTypes
  <2> QED
    BY <1>2, <1>9, <2>1 DEF Awaited
<1> QED
  BY <1>6, <1>7, <1>8, <1>10 DEF Family

-----------------------------------------------------------------------------
(* Every step keeps the invariant.                                         *)

LEMMA Initially == Init => IInv
<1> SUFFICES ASSUME Init PROVE IInv
  OBVIOUS
<1>1. /\ flock = None /\ \A p \in Proc : proc[p] = Idle /\ \A w \in Worker : go[p][w] = Parked
  BY DEF Init
<1>2. ASSUME NEW p \in Proc
      PROVE  /\ proc[p].cmd = None /\ proc[p].above = {} /\ proc[p].db = "unopened"
             /\ proc[p].todo = {} /\ proc[p].ok = {} /\ proc[p].failed = {}
  <2>1. proc[p] = Idle
    BY <1>1
  <2> QED
    BY <2>1 DEF Idle
<1>3. TypeOK
  BY Facts, Types DEF Init
<1>4. ASSUME NEW p \in Proc
      PROVE  Own(p)
  <2>1. \A w \in Worker : go[p][w] = Parked /\ ~Working(p, w)
    BY <1>1 DEF Working, Parked
  <2> QED
    BY <1>2, <2>1 DEF Own, Going, Accounted, Within, Apart, Recorded, Opened
<1>5. Family
  BY <1>2 DEF Family, Alive, Chain, Nested, Awaited
<1> QED
  BY <1>1, <1>3, <1>4, <1>5 DEF IInv, Locked

LEMMA RunKeeps ==
  ASSUME IInv, NEW p \in Proc, NEW w \in Worker, Run(p, w)
  PROVE  IInv'
<1>1. TypeOK /\ (\A q \in Proc : Own(q)) /\ Locked /\ Family
  BY DEF IInv
<1>2. Does(p, w) /\ TypeOK'
  BY <1>1, Runs, RunTypes DEF Own
<1>3. proc \in [Proc -> Slot] /\ go \in [Proc -> [Worker -> Goroutine]] /\ flock \in Proc \cup {None}
  BY <1>1, Types
<1>4. CASE Took(p, w) \/ Moved(p, w) \/ Succeeded(p, w) \/ Failed(p, w) \/ Asked(p, w)
  <2>1. Family'
    BY <1>1, <1>4, RunIsCalm, CalmKeeps
  <2>2. Own(p)'
    BY <1>1, <1>4, TakeKeeps, MoveKeeps, ReportKeeps, AskKeeps
  <2>3. Elsewhere(p) /\ \A q \in Proc \ {p} : go'[q] = go[q]
    BY <1>3, <1>4 DEF Took, Moved, Succeeded, Failed, Asked, Besides
  <2>4. \A q \in Proc \ {p} : Own(q)'
    BY <1>1, <1>3, <2>3, Untouched DEF Elsewhere, Book
  <2>5. proc[p].db = "open" => proc'[p].db = "open"
    BY <1>3, <1>4 DEF Took, Moved, Succeeded, Failed, Asked, Slot
  <2>6. Locked'
    BY <1>1, <1>3, <2>3, <2>5 DEF Locked, Elsewhere
  <2> QED
    BY <1>2, <2>1, <2>2, <2>4, <2>6 DEF IInv
<1>5. CASE \E q \in Proc \ {p}, c \in Scripted : Called(p, w, q, c)
  <2>1. PICK q \in Proc \ {p}, c \in Scripted : Called(p, w, q, c)
    BY <1>5
  <2>2. c \in Command /\ proc[p].above \cup {p} \in SUBSET Proc
    BY <1>1, AboveTypes, HooksAssumption
  <2>3. \A r \in Proc \ {p, q} : proc'[r] = proc[r] /\ go'[r] = go[r]
    BY <1>3, <2>1 DEF Called
  <2>4. /\ proc[q].cmd = None /\ proc'[q] = Fresh(c, proc[p].above \cup {p}) /\ go'[q] = go[q]
        /\ proc'[p] = proc[p] /\ flock' = flock
    BY <1>3, <2>1 DEF Called, Free
  <2>5. \A r \in Proc : Own(r)'
    <3>1. Own(p)'
      BY <1>1, <2>1, CallKeeps
    <3>2. Own(q)'
      BY <1>1, <2>2, <2>4, FreshKeeps
    <3>3. \A r \in Proc \ {p, q} : Own(r)'
      BY <1>1, <2>3, Untouched DEF Book
    <3> QED
      BY <3>1, <3>2, <3>3
  <2>6. proc[p].cmd # None
    BY <1>1, <2>1, 0 \notin 1 .. Len(Plan(proc[p].cmd))
    DEF Called, At, Own, Going, Working, Parked, Underway
  <2>7. Family'
    BY <1>1, <2>1, <2>6, CallWaits
  <2>8. Locked'
    BY <1>1, <1>3, <2>3, <2>4 DEF Locked, Own, Opened
  <2> QED
    BY <1>2, <2>5, <2>7, <2>8 DEF IInv
<1> QED
  BY <1>2, <1>4, <1>5 DEF Does

LEMMA OpenKeeps ==
  ASSUME IInv, NEW p \in Proc, Open(p) \/ Refuse(p)
  PROVE  IInv'
<1>1. TypeOK /\ (\A q \in Proc : Own(q)) /\ Locked /\ Family
  BY DEF IInv
<1>2. proc \in [Proc -> Slot] /\ go \in [Proc -> [Worker -> Goroutine]] /\ flock \in Proc \cup {None}
  BY <1>1, Types
<1>3. PICK d \in {"open", "failed"} :
         /\ proc[p].db = "opening" /\ proc' = [proc EXCEPT ![p].db = d] /\ go' = go
         /\ flock' = IF d = "open" THEN p ELSE flock
         /\ d = "open" => flock = None
  BY DEF Open, Refuse, Acquire, TimeOut
<1>4. /\ proc'[p].cmd = proc[p].cmd /\ proc'[p].todo = proc[p].todo /\ proc'[p].ok = proc[p].ok
      /\ proc'[p].failed = proc[p].failed /\ proc'[p].written = proc[p].written
      /\ proc'[p].above = proc[p].above /\ proc'[p].db = d
  BY <1>2, <1>3 DEF Slot
<1>5. \A q \in Proc \ {p} : proc'[q] = proc[q]
  BY <1>2, <1>3
<1>6. TypeOK'
  <2>1. [proc[p] EXCEPT !.db = d] \in Slot
    <3>1. proc[p] \in Slot /\ d \in {"unopened", "opening", "open", "failed"}
      BY <1>2
    <3> QED
      BY <3>1 DEF Slot
  <2>2. proc' \in [Proc -> Slot]
    BY <1>2, <1>3, <2>1
  <2> QED
    BY <1>2, <1>3, <2>2 DEF TypeOK, Slot, Goroutine
<1>7. Own(p)'
  <2>1. Going(p)'
    BY <1>1, <1>3, <1>4 DEF Own, Going, Underway, Step, PastWrite
  <2>2. Accounted(p)' /\ Within(p)' /\ Apart(p)' /\ Recorded(p)' /\ Opened(p)'
    BY <1>1, <1>3, <1>4 DEF Own, Accounted, Within, Apart, Recorded, Opened, Working
  <2> QED
    BY <2>1, <2>2 DEF Own
<1>8. \A q \in Proc \ {p} : Own(q)'
  BY <1>1, <1>3, <1>5, Untouched DEF Book
<1>9. Family'
  BY <1>1, <1>3, <1>4, <1>5, CalmKeeps DEF Calm
<1>10. Locked'
  BY <1>1, <1>2, <1>3, <1>4, <1>5 DEF Locked
<1> QED
  BY <1>6, <1>7, <1>8, <1>9, <1>10 DEF IInv

LEMMA StartKeeps ==
  ASSUME IInv, NEW p \in Proc, Start(p)
  PROVE  IInv'
<1>1. TypeOK /\ (\A q \in Proc : Own(q)) /\ Locked /\ Family
  BY DEF IInv
<1>2. proc \in [Proc -> Slot] /\ go \in [Proc -> [Worker -> Goroutine]] /\ flock \in Proc \cup {None}
  BY <1>1, Types
<1>3. PICK c \in Command : proc' = [proc EXCEPT ![p] = Fresh(c, {})]
  BY HooksAssumption DEF Start
<1>4. proc[p].cmd = None /\ go' = go /\ flock' = flock
  BY DEF Start, Free
<1>5. TypeOK'
  <2>1. Fresh(c, {}) \in Slot
    BY Facts DEF Fresh, Idle, Slot
  <2>2. proc' \in [Proc -> Slot]
    BY <1>2, <1>3, <2>1
  <2> QED
    BY <1>2, <1>4, <2>2 DEF TypeOK, Slot, Goroutine
<1>6. \A q \in Proc : Own(q)'
  <2>1. Own(p)'
    BY <1>1, <1>2, <1>3, <1>4, FreshKeeps
  <2>2. \A q \in Proc \ {p} : Own(q)'
    BY <1>1, <1>2, <1>3, <1>4, Untouched DEF Book
  <2> QED
    BY <2>1, <2>2
<1>7. Family'
  BY <1>1, <1>3, <1>4, BeginKeeps
<1>8. Locked'
  BY <1>1, <1>2, <1>3, <1>4 DEF Locked, Own, Opened
<1> QED
  BY <1>5, <1>6, <1>7, <1>8 DEF IInv

LEMMA StopKeeps ==
  ASSUME IInv, NEW p \in Proc, End(p)
  PROVE  IInv'
<1>1. TypeOK /\ (\A q \in Proc : Own(q)) /\ Locked /\ Family
  BY DEF IInv
<1>2. proc \in [Proc -> Slot] /\ flock \in Proc \cup {None}
  BY <1>1, Types
<1>3. \A q \in Proc \ {p} : proc'[q].db = proc[q].db
  BY <1>2 DEF End, Slot
<1>4. Locked'
  BY <1>1, <1>2, <1>3 DEF Locked, End
<1> QED
  BY <1>1, <1>4, EndKeeps, EndFamily DEF IInv

LEMMA StepKeeps == IInv /\ [Next]_vars => IInv'
<1> SUFFICES ASSUME IInv, [Next]_vars PROVE IInv'
  OBVIOUS
<1>1. CASE UNCHANGED vars
  <2>1. TypeOK' /\ Locked' /\ Family'
    BY <1>1 DEF vars, IInv, TypeOK, Locked, Family, Alive, Chain, Nested, Awaited
  <2>2. \A p \in Proc : Own(p)'
    BY <1>1, Untouched DEF vars, IInv, Book
  <2> QED
    BY <2>1, <2>2 DEF IInv
<1>2. ASSUME NEW p \in Proc, Progress(p) \/ Start(p) \/ Kill(p) \/ Refuse(p)
      PROVE  IInv'
  BY <1>2, RunKeeps, OpenKeeps, StartKeeps, StopKeeps DEF Progress, Exit, Kill
<1> QED
  BY <1>1, <1>2 DEF Next

LEMMA Throughout == Spec => []IInv
  BY Initially, StepKeeps, PTL DEF Spec

-----------------------------------------------------------------------------
(* The database's lock, what each process is doing and what its goroutines *)
(* are at are what their readers expect, however deep scripts nest.        *)
THEOREM TypeCorrect == Spec => []TypeOK
<1>1. IInv => TypeOK
  BY DEF IInv
<1> QED
  BY <1>1, Throughout, PTL

(* publish --all, with any number of goroutines and packages: when it has  *)
(* waited for them, every package has one result, success or failure, and  *)
(* no success is of a package that is not recorded.                        *)
THEOREM NoneIsPassedOver == Spec => []EveryPackageIsTried
<1>1. IInv => EveryPackageIsTried
  <2> SUFFICES ASSUME IInv, NEW p \in Proc, Done(p)
               PROVE  /\ proc[p].ok \cup proc[p].failed = Jobs(proc[p].cmd)
                      /\ proc[p].ok \cap proc[p].failed = {}
                      /\ proc[p].cmd # "dry-run" => proc[p].ok \subseteq proc[p].written
    BY DEF EveryPackageIsTried
  <2>1. proc[p].cmd # None /\ proc[p].todo = {} /\ Own(p)
    BY DEF Done, IInv
  <2>2. Jobs(proc[p].cmd) \subseteq proc[p].ok \cup proc[p].failed
    BY <2>1 DEF Done, Own, Accounted
  <2>3. proc[p].ok \cup proc[p].failed \subseteq Jobs(proc[p].cmd)
    BY <2>1 DEF Own, Within
  <2> QED
    BY <2>1, <2>2, <2>3 DEF Own, Apart, Recorded
<1> QED
  BY <1>1, Throughout, PTL

(* An lnpm that a script before publish's pack runs is not refused the     *)
(* database because of that publish, whatever else is running.             *)
THEOREM PackScriptsMayRunLnpm == Spec => PrePackScriptsMayRunLnpm
<1> DEFINE Excused ==
      \A p \in Proc :
          proc[p].db = "opening" /\ proc'[p].db = "failed" /\ flock \in proc[p].above =>
              \/ proc[flock].cmd \in {"push", "add", "publish-all"}
              \/ /\ proc[flock].cmd = "publish"
                 /\ \E w \in Worker : go[flock][w].pkg \in proc[flock].written
<1>1. IInv /\ [Next]_vars => Excused
  <2> SUFFICES ASSUME IInv, NEW p \in Proc, flock \in proc[p].above,
                      proc[flock].cmd \notin {"push", "add", "publish-all"}
               PROVE  /\ proc[flock].cmd = "publish"
                      /\ \E w \in Worker : go[flock][w].pkg \in proc[flock].written
    OBVIOUS
  <2>1. flock \in Proc /\ flock # None /\ proc[p].above \subseteq Proc
    BY AboveTypes, Facts DEF IInv
  <2>2. proc[flock].db = "open" /\ Own(flock)
    BY <2>1 DEF IInv, Locked
  <2>3. PICK w \in Worker : go[flock][w].child = p \/ go[flock][w].child \in proc[p].above
    BY DEF IInv, Family, Awaited
  <2>4. go[flock][w].child # None
    BY <2>1, <2>3, Facts
  <2>5. Underway(flock, w)
    BY <2>2, <2>4 DEF Own, Going, Parked
  <2>6. Step(flock, w) = "hook" /\ proc[flock].cmd \in Command /\ proc[flock].cmd # None
    BY <2>1, <2>4, <2>5, Types DEF IInv, Underway, Slot
  <2>7. proc[flock].cmd = "publish" /\ go[flock][w].step = 4
    BY <2>2, <2>5, <2>6, Plans DEF Own, Opened, Underway, Step
  <2>8. PastWrite(flock, w)
    BY <2>6, <2>7, Plans DEF PastWrite
  <2> QED
    BY <2>5, <2>7, <2>8 DEF Underway
<1> QED
  BY <1>1, Throughout, PTL DEF Spec, PrePackScriptsMayRunLnpm
=============================================================================
