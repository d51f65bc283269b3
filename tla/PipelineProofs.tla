---------------------------- MODULE PipelineProofs ----------------------------
(***************************************************************************)
(* Theorems about Pipeline, for any machines, releases, bounds and kills.  *)
(***************************************************************************)
EXTENDS Pipeline, WellFoundedInduction, TLAPS

-----------------------------------------------------------------------------
(* The inductive invariant.                                                *)

Names == {"build", "deliver", "plan", "apply", "checks"}
Executing == {"exec", "unlink", "note"}
Labels == Names \cup Executing \cup {"none", "next", "record", "fail", "rollback"}

\* The stages are finished in their order.
Orderly(r) ==
    /\ r.stage["deliver"] \in Finished => r.stage["build"] \in Finished
    /\ r.stage["plan"] \in Finished => r.stage["deliver"] \in Finished
    /\ r.stage["apply"] \in Finished => r.stage["plan"] \in Finished
    /\ r.stage["checks"] \in Finished => r.stage["apply"] \in Finished

\* A run has come to a stage.
AtWork(r, name) ==
    /\ name \in Names /\ r.stage[name] \notin Finished
    /\ name # "build" => r.stage["build"] \in Finished
    /\ name \notin {"build", "deliver"} => r.stage["deliver"] \in Finished
    /\ name \in {"apply", "checks"} => r.stage["plan"] \in Finished
    /\ name = "checks" => r.stage["apply"] \in Finished

\* A plan is of the image that was built and of the release that was approved.
Agreed(r, hash) ==
    /\ hash.release.image = r.built
    /\ r.approved \in {None, hash.release}

Worker == [pc : Labels, at : Machines \cup {None}, resuming : BOOLEAN,
           spec : Releases \cup {None}, image : Images \cup {None},
           trusts : BOOLEAN, plan : Hash \cup {None},
           why : {"apply", "resume", "rollback", None}, doing : Hash \cup {None},
           got : {"ready", "failed", "rejected", None},
           out : {"done", "skipped", "failed", None},
           final : {"failed", "rolled-back", None}]
Past == [undone : SUBSET Nat, moved : SUBSET Nat, rebuilt : SUBSET Nat,
         verified : SUBSET Releases]

Typed ==
    /\ declared \in Releases
    /\ images \in [Machines -> SUBSET Images]
    /\ registry \in SUBSET Images /\ receipt \in Images
    /\ cluster \in [runs : Releases \cup {Mixed}, version : Nat]
    /\ catalog \in SUBSET Releases
    /\ plans \in SUBSET [hash : Hash, mode : {"create", "reapply"}] /\ made \in Nat
    /\ history \in Seq(Entry)
    /\ journal \in Seq(Run)
    /\ proc \in Worker
    /\ faults \in 0 .. MaxFaults /\ kills \in 0 .. MaxKills
    /\ past \in Past

\* The history begins with the first release.
Rooted == Len(history) > 0 /\ history[1].plan = None /\ history[1].state = "ready"

\* Every run's stages are in order, its image and its plan are there once they were
\* made, the plan is what was approved, and it is ready when nothing is left.
Sound ==
    \A i \in DOMAIN journal :
        /\ Orderly(journal[i])
        /\ journal[i].stage["build"] \in Finished => journal[i].built # None
        /\ journal[i].stage["plan"] \in Finished <=> journal[i].plan # None
        /\ journal[i].plan # None => Agreed(journal[i], journal[i].plan)
        /\ journal[i].state = "ready" => journal[i].stage["checks"] \in Finished

\* Where the process is, what the newest run's stages say.
Placed ==
    proc.pc # "none" =>
        /\ Latest > 0 /\ run.state = "running"
        /\ proc.at \in Machines /\ proc.spec \in Releases
        /\ proc.pc \in Names => AtWork(run, proc.pc)
        /\ At("rollback") => AtWork(run, "checks")
        /\ At("record") => /\ \E name \in Names : AtWork(run, name)
                           /\ proc.out \in {"done", "skipped", "failed"}
        /\ proc.pc \in {"record", "fail"} /\ proc.out = "failed" =>
              proc.final \in {"failed", "rolled-back"}
        /\ At("fail") => proc.out = "failed"
        /\ proc.pc \in Executing =>
              /\ proc.doing \in Hash /\ proc.why \in {"apply", "resume", "rollback"}
              /\ AtWork(run, IF proc.why = "rollback" THEN "checks" ELSE "apply")
              /\ ~At("exec") => proc.got \in {"ready", "failed", "rejected"}

\* An image is the approved one unless a run was built again from another
\* declaration, in the journal and in the process, which has the run's image as
\* soon as it is built.
Original == \A i \in DOMAIN journal : journal[i].built # None =>
                journal[i].built = journal[i].spec.image \/ i \in past.rebuilt
Built == At("record") /\ proc.out # "failed"
Holding ==
    proc.pc # "none" =>
        /\ run.stage["build"] \in Finished => proc.image = run.built
        /\ Built => proc.image # None
        /\ proc.image # None => proc.image = run.spec.image \/ Latest \in past.rebuilt
        /\ proc.image = None =>
              proc.spec.image = run.spec.image \/ Latest \in past.rebuilt
        /\ ~proc.resuming =>
              proc.spec = run.spec /\ proc.image \in {None, run.spec.image}
        /\ run.stage["build"] \notin Finished /\ proc.image # None /\ ~Built =>
              proc.trusts

\* Until the plan stage: what the process planned is what was approved.
Planning ==
    proc.pc # "none" /\ run.stage["plan"] \notin Finished =>
        /\ ~proc.resuming /\ proc.plan = None => run.approved = None
        /\ proc.plan # None =>
              /\ run.approved \in {None, proc.plan.release}
              /\ ~proc.resuming => proc.plan.release = run.spec
              /\ proc.resuming => /\ run.stage["build"] \in Finished
                                 /\ proc.plan.release.image = proc.image
        /\ At("record") /\ AtWork(run, "plan") /\ proc.out # "failed" => proc.plan # None

\* Between build and delivery: the image is on this machine or delivered.
Here ==
    /\ proc.pc # "none" /\ ~proc.trusts /\ run.stage["deliver"] \notin Finished
    /\ run.stage["build"] \in Finished \/ Built
    => Reaches(proc.at, proc.image)

\* What the process executes has an entry, the newest and still running unless it
\* is resumed, and what the apply stage did became ready.
Readied(hash) ==
    \E j \in DOMAIN history : history[j].plan = hash /\ history[j].state = "ready"
Effects ==
    /\ proc.pc \in Executing =>
          /\ proc.why # "rollback" => proc.doing = run.plan
          /\ proc.why = "resume" =>
                \E j \in DOMAIN history : history[j].plan = proc.doing
          /\ proc.why # "resume" =>
                /\ history[Len(history)].plan = proc.doing
                /\ history[Len(history)].state = "running"
    /\ At("record") /\ AtWork(run, "apply") /\ proc.out = "done" => Readied(run.plan)
    /\ \A i \in DOMAIN journal :
          journal[i].stage["apply"] = "done" => Readied(journal[i].plan)

Inv ==
    /\ Typed /\ Rooted
    /\ Sound /\ Placed
    /\ Original /\ Holding
    /\ Planning /\ Here /\ Effects

-----------------------------------------------------------------------------
(* Lemmas about the helpers.                                               *)

\* LastOf finds the largest of some positions.
LEMMA LastIs ==
    ASSUME NEW n \in Nat, NEW S \in SUBSET (1 .. n), S # {}
    PROVE  LastOf(S) \in S /\ \A x \in S : x <= LastOf(S)
<1> DEFINE T == {n - x : x \in S}
           less == {p \in Nat \X Nat : p[1] < p[2]}
<1>1. IsWellFoundedOn(less, Nat)
  BY NatLessThanWellFounded DEF OpToRel
<1>2. T \subseteq Nat /\ T # {}
  <2>1. \A x \in S : n - x \in Nat
    OBVIOUS
  <2> QED
    BY <2>1
<1>3. PICK t \in T : \A y \in T : <<y, t>> \notin less
  BY <1>1, <1>2, WFMin
<1>4. \E x \in S : \A y \in S : y <= x
  <2>1. PICK x \in S : t = n - x
    OBVIOUS
  <2>2. ASSUME NEW y \in S PROVE y <= x
    <3>1. n - y \in T /\ n - y \in Nat /\ t \in Nat
      BY <1>2
    <3>2. ~(n - y < t)
      BY <3>1, <1>3
    <3> QED
      BY <2>1, <3>2
  <2> QED
    BY <2>2
<1> QED
  BY <1>4 DEF LastOf

\* The stage a run is at, and that it has one unless its checks are finished.
LEMMA CurrentIs ==
    ASSUME run \in Run, Orderly(run)
    PROVE  /\ \/ AtWork(run, "build") \/ AtWork(run, "deliver") \/ AtWork(run, "plan")
              \/ AtWork(run, "apply") \/ AtWork(run, "checks") \/ Unfinished = {}
           /\ Unfinished = {} => run.stage["checks"] \in Finished
           /\ \A name \in Names : AtWork(run, name) =>
                 Unfinished # {} /\ Current = name
<1>1. /\ Stages[1] = "build" /\ Stages[2] = "deliver" /\ Stages[3] = "plan"
      /\ Stages[4] = "apply" /\ Stages[5] = "checks"
  BY DEF Stages
<1>2. \A i \in Int : i \in 1 .. 5 <=> i \in {1, 2, 3, 4, 5}
  OBVIOUS
<1>3. \A i : i \in Unfinished <=> i \in {1, 2, 3, 4, 5} /\ run.stage[Stages[i]] \notin Finished
  BY <1>2 DEF Unfinished
<1>4. ASSUME NEW k \in {1, 2, 3, 4, 5}, k \in Unfinished,
             \A i \in {1, 2, 3, 4, 5} : i < k => i \notin Unfinished
      PROVE  Current = Stages[k]
  <2>1. \A j \in Unfinished : k <= j
    BY <1>3, <1>4
  <2>2. ASSUME NEW i \in Unfinished, \A j \in Unfinished : i <= j PROVE i = k
    BY <1>3, <1>4, <2>1, <2>2
  <2>3. (CHOOSE i \in Unfinished : \A j \in Unfinished : i <= j) = k
    BY <1>4, <2>1, <2>2
  <2> QED
    BY <2>3 DEF Current
<1>5. AtWork(run, "build") => 1 \in Unfinished /\ Current = "build"
  BY <1>1, <1>3, <1>4 DEF AtWork
<1>6. AtWork(run, "deliver") => 2 \in Unfinished /\ Current = "deliver"
  BY <1>1, <1>3, <1>4 DEF AtWork
<1>7. AtWork(run, "plan") => 3 \in Unfinished /\ Current = "plan"
  BY <1>1, <1>3, <1>4 DEF AtWork
<1>8. AtWork(run, "apply") => 4 \in Unfinished /\ Current = "apply"
  BY <1>1, <1>3, <1>4 DEF AtWork
<1>9. AtWork(run, "checks") => 5 \in Unfinished /\ Current = "checks"
  BY <1>1, <1>3, <1>4 DEF AtWork
<1>10. 5 \notin Unfinished => run.stage["checks"] \in Finished
  BY <1>1, <1>3
<1>11. \/ AtWork(run, "build") \/ AtWork(run, "deliver") \/ AtWork(run, "plan")
       \/ AtWork(run, "apply") \/ AtWork(run, "checks") \/ 5 \notin Unfinished
  BY <1>1, <1>3 DEF AtWork, Orderly, Names
<1>12. run.stage["checks"] \in Finished => Unfinished = {}
  BY <1>1, <1>3 DEF Orderly
<1>13. \A name \in Names : AtWork(run, name) => Unfinished # {} /\ Current = name
  BY <1>5, <1>6, <1>7, <1>8, <1>9 DEF Names
<1> QED
  BY <1>10, <1>11, <1>12, <1>13

\* Saving the newest run leaves the others.
LEMMA SetRunIs ==
    ASSUME journal \in Seq(Run), Latest > 0, NEW rec \in Run, SetRun(rec)
    PROVE  /\ journal' \in Seq(Run) /\ Latest' = Latest /\ run' = rec
           /\ DOMAIN journal' = DOMAIN journal /\ Latest \in DOMAIN journal
           /\ \A i \in DOMAIN journal : i # Latest => journal'[i] = journal[i]
  BY DEF SetRun, run, Latest

\* The newest run is a run.
LEMMA RunIs ==
    ASSUME journal \in Seq(Run), Latest > 0
    PROVE  run \in Run /\ Latest \in DOMAIN journal
  BY DEF run, Latest

\* What can be planned.
LEMMA PlanOfIs ==
    ASSUME Typed, NEW release \in Releases
    PROVE  PlanOf(release) \in Hash
  BY DEF PlanOf, Typed, Hash

\* What a process has built when it has come further.
LEMMA HoldsImage ==
    ASSUME Inv, proc.pc # "none", run.stage["build"] \in Finished
    PROVE  proc.image = run.built /\ proc.image \in Images
<1>1. proc.image = run.built /\ proc.image \in Images \cup {None}
  BY DEF Inv, Holding, Typed, Worker
<1>2. Latest \in DOMAIN journal
  BY RunIs DEF Inv, Placed, Typed
<1>3. run.built # None
  BY <1>2 DEF Inv, Sound, run
<1> QED
  BY <1>1, <1>3

LEMMA PlannedIs ==
    ASSUME Typed, NEW hash \in Hash, Planned(hash)
    PROVE  /\ catalog' \in SUBSET Releases
           /\ plans' \in SUBSET [hash : Hash, mode : {"create", "reapply"}]
           /\ made' \in Nat
<1>1. hash.release \in Releases
  BY DEF Hash
<1>2. catalog' \in SUBSET Releases
  BY <1>1 DEF Planned, Typed
<1>3. [hash |-> hash, mode |-> IF hash.release \in catalog THEN "reapply" ELSE "create"]
        \in [hash : Hash, mode : {"create", "reapply"}]
  OBVIOUS
<1>4. plans' \in SUBSET [hash : Hash, mode : {"create", "reapply"}]
  BY <1>3 DEF Planned, Typed
<1>5. made' \in Nat
  BY DEF Planned, Typed
<1> QED
  BY <1>2, <1>4, <1>5

LEMMA WantedIs ==
    ASSUME proc.image \in Images, proc.spec \in Releases
    PROVE  /\ Wanted \in Releases /\ Wanted.image = proc.image
           /\ proc.spec.image = proc.image => Wanted = proc.spec
<1>1. PICK r \in Releases : r.image = proc.image
  BY DEF Images
<1>2. [image |-> r.image, config |-> proc.spec.config] \in Releases
  BY <1>1, PipelineAssumption
<1>3. proc.spec = [image |-> proc.spec.image, config |-> proc.spec.config]
  BY PipelineAssumption
<1> QED
  BY <1>1, <1>2, <1>3 DEF Wanted

\* The history is never empty, so something was deployed last.
LEMMA HistoryIs ==
    ASSUME Typed, Rooted
    PROVE  /\ Len(history) \in Nat \ {0} /\ DOMAIN history = 1 .. Len(history)
           /\ Newest \in Entry
           /\ LastOf(ReadyAt) \in ReadyAt
           /\ \A i \in ReadyAt : i <= LastOf(ReadyAt)
           /\ \A i \in DOMAIN history : history[i] \in Entry
<1>1. /\ Len(history) \in Nat \ {0} /\ DOMAIN history = 1 .. Len(history)
      /\ \A i \in DOMAIN history : history[i] \in Entry
  BY DEF Typed, Rooted
<1>2. ReadyAt \in SUBSET (1 .. Len(history)) /\ 1 \in ReadyAt
  BY <1>1 DEF ReadyAt, Rooted
<1>3. LastOf(ReadyAt) \in ReadyAt /\ \A i \in ReadyAt : i <= LastOf(ReadyAt)
  BY <1>1, <1>2, LastIs
<1>4. Newest \in Entry
  BY <1>1 DEF Newest
<1> QED
  BY <1>1, <1>3, <1>4

LEMMA PreviousIs ==
    ASSUME Typed, Rooted, Previous # None
    PROVE  Previous \in Releases
<1>1. Deployed \in Releases
  BY HistoryIs DEF ReadyAt, Entry, Deployed
<1>2. CASE Others # {}
  <2>1. Others \in SUBSET (1 .. Len(history))
    BY HistoryIs DEF ReadyAt, Others
  <2>2. LastOf(Others) \in Others
    BY <1>2, <2>1, HistoryIs, LastIs
  <2>3. history[LastOf(Others)].release \in Releases
    BY <2>1, <2>2, HistoryIs DEF Entry
  <2> QED
    BY <1>1, <2>3 DEF Previous
<1>3. CASE Others = {}
  BY <1>1, <1>3 DEF Previous
<1> QED
  BY <1>2, <1>3

\* The entry of what is executed.
LEMMA ExecutionIs ==
    ASSUME Inv, proc.pc \in Executing
    PROVE  /\ Execution \in DOMAIN history /\ history[Execution] \in Entry
           /\ history[Execution].plan = proc.doing
           /\ proc.why # "resume" =>
                 Execution = Len(history) /\ history[Execution].state = "running"
<1> DEFINE S == {i \in DOMAIN history : history[i].plan = proc.doing}
<1>1. S \in SUBSET (1 .. Len(history)) /\ S # {}
  BY HistoryIs DEF Inv, Effects
<1>2. LastOf(S) \in S /\ \A x \in S : x <= LastOf(S)
  BY <1>1, LastIs, HistoryIs DEF Inv
<1>3. Execution = LastOf(S)
  BY DEF Execution
<1>4. proc.why # "resume" => Len(history) \in S /\ history[Len(history)].state = "running"
  BY HistoryIs DEF Inv, Effects
<1>5. proc.why # "resume" => Execution = Len(history)
  BY <1>1, <1>2, <1>3, <1>4, HistoryIs DEF Inv
<1> QED
  BY <1>2, <1>3, <1>4, <1>5, HistoryIs DEF Inv

\* A write is remembered in the entry, which stays what it is otherwise.
LEMMA RunsIs ==
    ASSUME Inv, proc.pc \in Executing, NEW content \in Releases \cup {Mixed}, Runs(content)
    PROVE  /\ cluster' \in [runs : Releases \cup {Mixed}, version : Nat]
           /\ history' \in Seq(Entry) /\ Len(history') = Len(history)
           /\ \A i \in DOMAIN history :
                 /\ history'[i].plan = history[i].plan
                 /\ history'[i].state = history[i].state
<1>1. Execution \in DOMAIN history /\ history[Execution] \in Entry
  BY ExecutionIs
<1>2. /\ cluster \in [runs : Releases \cup {Mixed}, version : Nat]
      /\ history \in Seq(Entry)
  BY DEF Inv, Typed
<1>3. CASE cluster.runs = content
  BY <1>2, <1>3 DEF Runs
<1>4. CASE cluster.runs # content
  <2>1. /\ cluster' = [runs |-> content, version |-> cluster.version + 1]
        /\ history' = [history EXCEPT ![Execution].version = cluster.version + 1]
    BY <1>4 DEF Runs
  <2>2. [history[Execution] EXCEPT !.version = cluster.version + 1] \in Entry
    <3>1. cluster.version + 1 \in Nat
      BY <1>2
    <3> HIDE DEF Execution
    <3> QED
      BY <1>1, <3>1 DEF Entry
  <2>3. cluster' \in [runs : Releases \cup {Mixed}, version : Nat]
    BY <1>2, <2>1
  <2>4. history' \in Seq(Entry) /\ Len(history') = Len(history)
    BY <1>1, <1>2, <2>1, <2>2
  <2>5. \A i \in DOMAIN history :
            /\ history'[i].plan = history[i].plan
            /\ history'[i].state = history[i].state
    <3> SUFFICES ASSUME NEW i \in DOMAIN history
                 PROVE  /\ history'[i].plan = history[i].plan
                        /\ history'[i].state = history[i].state
      OBVIOUS
    <3>1. history[i] \in Entry
      BY <1>2
    <3>2. history'[i] = IF i = Execution
                        THEN [history[Execution] EXCEPT !.version = cluster.version + 1]
                        ELSE history[i]
      BY <1>1, <1>2, <2>1
    <3> QED
      BY <3>1, <3>2 DEF Entry
  <2> QED
    BY <2>3, <2>4, <2>5
<1> QED
  BY <1>3, <1>4

-----------------------------------------------------------------------------
(* Every step keeps the types.                                             *)

LEMMA GotoIs ==
    ASSUME Typed, NEW pc \in Labels, Goto(pc)
    PROVE  proc' \in Worker
  BY DEF Goto, Typed, Worker

LEMMA OutcomeIs ==
    ASSUME Typed, NEW state \in {"done", "skipped", "failed"}, Outcome(state)
    PROVE  proc' \in Worker
  BY DEF Outcome, Typed, Worker, Labels

LEMMA WithIs ==
    ASSUME proc \in Worker, NEW image \in Images \cup {None},
           NEW state \in {"done", "skipped", "failed"}, With(image, state)
    PROVE  proc' \in Worker
  BY DEF With, Worker, Labels

LEMMA ReturnsIs ==
    ASSUME Typed, NEW state \in {"ready", "failed", "rejected"}, Returns(state)
    PROVE  proc' \in Worker
<1>1. PICK pc \in {"unlink", "note"} : proc' = [proc EXCEPT !.got = state, !.pc = pc]
  BY DEF Returns
<1>2. proc \in Worker
  BY DEF Typed
<1> QED
  BY <1>1, <1>2 DEF Worker, Labels, Executing

LEMMA IdleIs == Idle \in Worker
  BY DEF Idle, Worker, Labels

LEMMA StartIs ==
    ASSUME Typed, NEW hash \in Hash, NEW why \in {"apply", "resume", "rollback"},
           NEW mode \in {"create", "reapply"}, Start(hash, why, mode)
    PROVE  /\ proc' \in Worker /\ history' \in Seq(Entry)
           /\ Len(history') = Len(history) + 1
           /\ history'[Len(history')].plan = hash
           /\ history'[Len(history')].release = hash.release
           /\ history'[Len(history')].version = hash.base
           /\ history'[Len(history')].state = "running"
           /\ \A i \in DOMAIN history : i \in DOMAIN history' /\ history'[i] = history[i]
<1>1. proc' \in Worker
  BY DEF Start, Typed, Worker, Labels, Executing
<1> DEFINE new == [release |-> hash.release, plan |-> hash,
                   mode |-> mode, version |-> hash.base, state |-> "running"]
<1>2. hash.release \in Releases /\ hash.base \in Nat
  BY DEF Hash
<1>3. new \in Entry
  BY <1>2 DEF Entry
<1>6. /\ new.plan = hash /\ new.release = hash.release
      /\ new.version = hash.base /\ new.state = "running"
  OBVIOUS
<1>4. history' = Append(history, new) /\ history \in Seq(Entry)
  BY DEF Start, Typed
<1> HIDE DEF new
<1>5. /\ history' \in Seq(Entry) /\ Len(history') = Len(history) + 1
      /\ history'[Len(history')] = new
      /\ \A i \in DOMAIN history : i \in DOMAIN history' /\ history'[i] = history[i]
  BY <1>3, <1>4
<1> QED
  BY <1>1, <1>5, <1>6

LEMMA PeopleTyped ==
    ASSUME Inv, \/ \E r \in Releases : Edit(r)
                \/ EditByHand
    PROVE  Typed'
<1>1. CASE \E r \in Releases : Edit(r)
  BY <1>1 DEF Edit, Inv, Typed, stores, planned
<1>2. CASE EditByHand
  BY <1>2 DEF EditByHand, Inv, Typed, stores, planned
<1> QED
  BY <1>1, <1>2

\* What execute() has planned before it begins.
Shown(m) == Cached(m, declared.image) /\ declared.image \in registry

LEMMA BeginTyped ==
    ASSUME Inv, \/ \E m \in Machines : Execute(m) \/ Resume(m)
                \/ Kill
    PROVE  Typed'
<1>1. ASSUME NEW m \in Machines, Execute(m) PROVE Typed'
  <2> DEFINE new == [spec |-> declared,
                     approved |-> IF Shown(m) THEN declared ELSE None,
                     plan |-> None, built |-> None, passed |-> FALSE, state |-> "running",
                     stage |-> [s \in {Stages[i] : i \in 1 .. 5} |-> "pending"]]
  <2>1. declared \in Releases /\ PlanOf(declared) \in Hash
    BY PlanOfIs DEF Inv, Typed
  <2>2. {Stages[i] : i \in 1 .. 5} = {"build", "deliver", "plan", "apply", "checks"}
    <3>1. \A i \in Int : i \in 1 .. 5 <=> i \in {1, 2, 3, 4, 5}
      OBVIOUS
    <3> QED
      BY <3>1 DEF Stages
  <2>3. new \in Run
    BY <2>1, <2>2 DEF Run
  <2> HIDE DEF new
  <2>4. journal' \in Seq(Run)
    <3>1. journal' = Append(journal, new)
      BY <1>1 DEF Execute, Shown, new
    <3> QED
      BY <2>3, <3>1 DEF Inv, Typed
  <2>5. proc' \in Worker
    BY <1>1, <2>1 DEF Execute, Idle, Worker, Labels
  <2>6. /\ catalog' \in SUBSET Releases /\ made' \in Nat
        /\ plans' \in SUBSET [hash : Hash, mode : {"create", "reapply"}]
    BY <1>1, <2>1, PlannedIs DEF Execute, Inv, Typed, planned
  <2> QED
    BY <1>1, <2>4, <2>5, <2>6 DEF Execute, Inv, Typed, stores, bounds
<1>2. ASSUME NEW m \in Machines, Resume(m) PROVE Typed'
  <2>1. run \in Run /\ Latest \in Nat
    <3>1. journal \in Seq(Run) /\ Latest > 0
      BY <1>2 DEF Resume, Inv, Typed
    <3>2. Latest \in Nat
      BY <3>1 DEF Latest
    <3> QED
      BY <3>1, <3>2, RunIs
  <2> DEFINE rec == [run EXCEPT !.state = "running",
                        !.stage["build"] = IF Rebuilt(m) THEN "pending" ELSE @]
  <2>3. rec \in Run
    BY <2>1 DEF Run
  <2>4. journal' \in Seq(Run)
    BY <1>2, <2>3, SetRunIs DEF Resume, Inv, Typed
  <2>5. proc' \in Worker
    <3>1. run.built \in Images \cup {None} /\ declared \in Releases
      BY <2>1 DEF Run, Inv, Typed
    <3> DEFINE image == IF Rebuilt(m) THEN None ELSE run.built
               trusts == run.built # None /\ run.stage["build"] \notin Finished
    <3>2. image \in Images \cup {None} /\ trusts \in BOOLEAN
      BY <3>1
    <3>3. proc' = [Idle EXCEPT !.pc = "next", !.at = m, !.spec = declared,
                      !.resuming = TRUE, !.image = image, !.trusts = trusts]
      BY <1>2 DEF Resume
    <3> HIDE DEF image, trusts
    <3> QED
      BY <3>1, <3>2, <3>3 DEF Idle, Worker, Labels
  <2>6. past' \in Past
    <3>1. PICK moved \in SUBSET Nat, rebuilt \in SUBSET Nat :
              past' = [past EXCEPT !.moved = moved, !.rebuilt = rebuilt]
      <4>1. past.moved \in SUBSET Nat /\ past.rebuilt \in SUBSET Nat
        BY DEF Past, Inv, Typed
      <4>2. /\ past.moved \cup {Latest} \in SUBSET Nat
            /\ past.rebuilt \cup {Latest} \in SUBSET Nat
        BY <2>1, <4>1
      <4> QED
        BY <1>2, <4>1, <4>2 DEF Resume
    <3> QED
      BY <3>1 DEF Past, Inv, Typed
  <2> QED
    BY <1>2, <2>4, <2>5, <2>6 DEF Resume, Inv, Typed, stores, planned
<1>3. CASE Kill
  <2>1. kills' \in 0 .. MaxKills
    BY <1>3, PipelineAssumption DEF Kill, Inv, Typed
  <2> QED
    BY <1>3, <2>1, IdleIs DEF Kill, Inv, Typed, stores, planned
<1> QED
  BY <1>1, <1>2, <1>3

\* A run with new values is a run.
Changed(r, name, out, built, plan, passed) ==
    [r EXCEPT !.stage[name] = out, !.built = built, !.plan = plan, !.passed = passed]
LEMMA ChangedIs ==
    ASSUME NEW r \in Run, NEW name \in Names,
           NEW out \in {"pending", "running", "done", "skipped", "failed"},
           NEW built \in Images \cup {None}, NEW plan \in Hash \cup {None},
           NEW passed \in BOOLEAN
    PROVE  Changed(r, name, out, built, plan, passed) \in Run
  BY DEF Run, Names, Changed

LEMMA StageTyped ==
    ASSUME Inv, NextStage \/ EndRun \/ Record \/ FailRun
    PROVE  Typed'
<1>1. proc.pc # "none" /\ Latest > 0 /\ run \in Run /\ Orderly(run) /\ Latest \in DOMAIN journal
  BY RunIs DEF NextStage, EndRun, Record, FailRun, At, Inv, Placed, Sound, Typed, run
<1>2. CASE NextStage
  <2>1. Current \in Names
    BY <1>1, <1>2, CurrentIs DEF NextStage, Names
  <2>2. [run EXCEPT !.stage[Current] = "running"] \in Run
    BY <1>1, <2>1 DEF Run, Names
  <2>3. journal' \in Seq(Run)
    BY <1>1, <1>2, <2>2, SetRunIs DEF NextStage, Inv, Typed
  <2>4. proc' \in Worker
    BY <1>2, <2>1, GotoIs DEF NextStage, Labels, Inv
  <2> QED
    BY <1>2, <2>3, <2>4 DEF NextStage, Inv, Typed, stores, planned, bounds
<1>3. CASE EndRun
  <2>1. [run EXCEPT !.state = "ready"] \in Run
    BY <1>1 DEF Run
  <2>2. journal' \in Seq(Run)
    BY <1>1, <1>3, <2>1, SetRunIs DEF EndRun, Inv, Typed
  <2> QED
    BY <1>3, <2>2, IdleIs DEF EndRun, Inv, Typed, stores, planned, bounds
<1>4. CASE Record
  <2> DEFINE rec == [run EXCEPT !.stage[Current] = proc.out,
                        !.built = IF Current = "build" /\ ~(proc.out = "failed")
                                  THEN proc.image ELSE @,
                        !.plan = IF Current = "plan" /\ ~(proc.out = "failed")
                                 THEN proc.plan ELSE @,
                        !.passed = IF Current = "checks" THEN ~(proc.out = "failed") ELSE @]
  <2>1. Current \in Names /\ proc.out \in {"done", "skipped", "failed"}
    BY <1>1, <1>4, CurrentIs DEF Record, At, Inv, Placed, Typed, Worker, Names, AtWork
  <2>2. rec \in Run
    <3> DEFINE built == IF Current = "build" /\ ~(proc.out = "failed")
                        THEN proc.image ELSE run.built
               plan == IF Current = "plan" /\ ~(proc.out = "failed")
                       THEN proc.plan ELSE run.plan
               passed == IF Current = "checks" THEN ~(proc.out = "failed") ELSE run.passed
    <3>1. /\ proc.plan \in Hash \cup {None} /\ proc.image \in Images \cup {None}
          /\ run.built \in Images \cup {None} /\ run.plan \in Hash \cup {None}
          /\ run.passed \in BOOLEAN
      BY <1>1 DEF Inv, Typed, Worker, Run
    <3>2. built \in Images \cup {None} /\ plan \in Hash \cup {None} /\ passed \in BOOLEAN
      BY <3>1
    <3>3. rec = Changed(run, Current, proc.out, built, plan, passed)
      BY <1>1 DEF Run, Changed
    <3> HIDE DEF rec, built, plan, passed
    <3>4. /\ Current \in Names /\ run \in Run
          /\ proc.out \in {"pending", "running", "done", "skipped", "failed"}
      BY <1>1, <2>1
    <3> HIDE DEF run, Current, Names
    <3>5. Changed(run, Current, proc.out, built, plan, passed) \in Run
      BY <3>2, <3>4, ChangedIs
    <3> QED
      BY <3>3, <3>5
  <2>3. SetRun(rec)
    BY <1>4 DEF Record
  <2>4. journal' \in Seq(Run)
    BY <1>1, <2>2, <2>3, SetRunIs DEF Inv, Typed
  <2>5. proc' \in Worker
    BY <1>4, GotoIs DEF Record, Labels, Inv
  <2> QED
    BY <1>4, <2>4, <2>5 DEF Record, Inv, Typed, stores, planned, bounds
<1>5. CASE FailRun
  <2>1. proc.final \in {"failed", "rolled-back"}
    BY <1>5 DEF FailRun, At, Inv, Placed, Typed, Worker
  <2>2. [run EXCEPT !.state = proc.final] \in Run
    BY <1>1, <2>1 DEF Run
  <2>3. journal' \in Seq(Run)
    BY <1>1, <1>5, <2>2, SetRunIs DEF FailRun, Inv, Typed
  <2> QED
    BY <1>5, <2>3, IdleIs DEF FailRun, Inv, Typed, stores, planned, bounds
<1> QED
  BY <1>2, <1>3, <1>4, <1>5

LEMMA FaultyIs ==
    ASSUME Typed, Faulty \/ NoFault
    PROVE  faults' \in 0 .. MaxFaults
  BY PipelineAssumption DEF Faulty, NoFault, Typed

LEMMA EarlyTyped ==
    ASSUME Inv, StageFails \/ Build \/ Deliver \/ Plan
    PROVE  Typed'
<1>1. /\ Latest > 0 /\ run \in Run /\ proc.at \in Machines /\ proc.spec \in Releases
      /\ Typed
  BY RunIs DEF StageFails, Build, Deliver, Plan, At, Inv, Placed, Typed
<1>2. proc.spec.image \in Images /\ proc.image \in Images \cup {None} /\ proc \in Worker
  BY <1>1 DEF Images, Typed, Worker
<1>3. CASE StageFails
  BY <1>1, <1>3, OutcomeIs, FaultyIs DEF StageFails, Typed, stores, planned, bounds
<1>4. CASE Build
  <2>1. proc' \in Worker
    BY <1>2, <1>4, WithIs DEF Build
  <2>2. images' \in [Machines -> SUBSET Images] /\ registry' = registry /\ receipt' \in Images
    BY <1>1, <1>2, <1>4 DEF Build, Typed, stores
  <2> QED
    BY <1>1, <1>4, <2>1, <2>2 DEF Build, Typed, planned, bounds
<1>5. CASE Deliver
  <2>1. proc' \in Worker
    BY <1>1, <1>5, OutcomeIs DEF Deliver
  <2>2. registry' \in SUBSET Images
    BY <1>1, <1>5 DEF Deliver, Typed
  <2> QED
    BY <1>1, <1>5, <2>1, <2>2 DEF Deliver, Typed, planned, bounds
<1>6. CASE Plan
  <2>1. Wanted \in Releases /\ PlanOf(Wanted) \in Hash
    <3>1. run.stage["build"] \in Finished /\ proc.pc # "none"
      BY <1>6 DEF Plan, At, Inv, Placed, AtWork, Names
    <3> QED
      BY <1>1, <3>1, HoldsImage, WantedIs, PlanOfIs
  <2>2. /\ catalog' \in SUBSET Releases /\ made' \in Nat
        /\ plans' \in SUBSET [hash : Hash, mode : {"create", "reapply"}]
    BY <1>1, <1>6, <2>1, PlannedIs DEF Plan, planned, Typed
  <2>3. proc' \in Worker
    <3>1. CASE Outcome("done") \/ Outcome("failed")
      BY <1>1, <3>1, OutcomeIs
    <3>2. CASE proc' = [proc EXCEPT !.pc = "record", !.plan = PlanOf(Wanted), !.out = "done"]
      BY <1>1, <2>1, <3>2 DEF Typed, Worker, Labels
    <3> QED
      BY <1>6, <3>1, <3>2 DEF Plan
  <2> QED
    BY <1>1, <1>6, <2>2, <2>3 DEF Plan, Typed, stores, bounds
<1> QED
  BY <1>3, <1>4, <1>5, <1>6

LEMMA ApplyTyped ==
    ASSUME Inv, Apply
    PROVE  Typed'
<1> DEFINE now == IF proc.plan = None THEN PlanOf(Wanted) ELSE proc.plan
<1>1. /\ Latest > 0 /\ run \in Run /\ Latest \in DOMAIN journal
      /\ proc.spec \in Releases /\ Typed
      /\ AtWork(run, "apply")
  BY RunIs DEF Apply, At, Inv, Placed, Typed, Names
<1>2. run.plan \in Hash
  BY <1>1 DEF Inv, Sound, AtWork, run, Run
<1>3. Wanted \in Releases /\ now \in Hash
  <2>1. run.stage["build"] \in Finished /\ proc.pc # "none"
    BY <1>1 DEF Apply, At, AtWork
  <2> QED
    BY <1>1, <2>1, HoldsImage, WantedIs, PlanOfIs DEF Typed, Worker
<1>4. /\ catalog' \in SUBSET Releases /\ made' \in Nat
      /\ plans' \in SUBSET [hash : Hash, mode : {"create", "reapply"}]
  <2>1. IF proc.plan = None THEN Planned(now) ELSE UNCHANGED planned
    BY DEF Apply
  <2>2. CASE proc.plan = None
    BY <1>1, <1>3, <2>1, <2>2, PlannedIs
  <2>3. CASE proc.plan # None
    BY <1>1, <2>1, <2>3 DEF planned, Typed
  <2> QED
    BY <2>2, <2>3
<1>5. proc' \in Worker /\ history' \in Seq(Entry)
  <2>1. \/ (Outcome("skipped") \/ Outcome("done") \/ Outcome("failed")) /\ UNCHANGED history
        \/ /\ proc' = [proc EXCEPT !.pc = "exec", !.why = "resume",
                                   !.doing = run.plan, !.plan = now]
           /\ UNCHANGED history
        \/ \E p \in {q \in plans' : q.hash = run.plan} : Start(run.plan, "apply", p.mode)
    BY DEF Apply
  <2>2. CASE (Outcome("skipped") \/ Outcome("done") \/ Outcome("failed")) /\ UNCHANGED history
    BY <1>1, <2>2, OutcomeIs DEF Typed
  <2>3. CASE /\ proc' = [proc EXCEPT !.pc = "exec", !.why = "resume",
                                     !.doing = run.plan, !.plan = now]
             /\ UNCHANGED history
    <3> HIDE DEF now
    <3>1. proc \in Worker /\ history \in Seq(Entry)
      BY <1>1 DEF Typed
    <3>2. proc' \in Worker
      BY <1>2, <1>3, <2>3, <3>1 DEF Worker, Labels, Executing
    <3> QED
      BY <2>3, <3>1, <3>2
  <2>4. CASE \E p \in {q \in plans' : q.hash = run.plan} : Start(run.plan, "apply", p.mode)
    <3>1. PICK p \in plans' : Start(run.plan, "apply", p.mode)
      BY <2>4
    <3>2. p.mode \in {"create", "reapply"}
      BY <1>4
    <3> QED
      BY <1>1, <1>2, <3>1, <3>2, StartIs
  <2> QED
    BY <2>1, <2>2, <2>3, <2>4
<1> QED
  BY <1>1, <1>4, <1>5 DEF Apply, Typed, stores, bounds

LEMMA ExecutionTyped ==
    ASSUME Inv, \/ WriteSome \/ ExecutionReady \/ ExecutionFails
                \/ ExecutionRefused \/ ExecutionRejected
    PROVE  Typed'
<1>1. /\ At("exec") /\ proc.pc \in Executing /\ Typed
      /\ cluster \in [runs : Releases \cup {Mixed}, version : Nat]
      /\ proc.doing.release \in Releases
  <2>1. At("exec")
    BY DEF WriteSome, ExecutionReady, ExecutionFails, ExecutionRefused, ExecutionRejected
  <2>2. proc.doing \in Hash
    BY <2>1 DEF At, Inv, Placed, Executing
  <2> QED
    BY <2>1, <2>2 DEF At, Inv, Typed, Executing, Hash
<1>2. CASE WriteSome
  <2>1. Runs(Mixed)
    BY <1>2 DEF WriteSome
  <2>2. cluster' \in [runs : Releases \cup {Mixed}, version : Nat] /\ history' \in Seq(Entry)
    BY <1>1, <2>1, RunsIs
  <2> QED
    BY <1>1, <1>2, <2>2 DEF WriteSome, Typed, stores, planned, bounds
<1>3. CASE ExecutionReady
  <2>1. Runs(proc.doing.release)
    BY <1>3 DEF ExecutionReady
  <2>2. cluster' \in [runs : Releases \cup {Mixed}, version : Nat] /\ history' \in Seq(Entry)
    BY <1>1, <2>1, RunsIs
  <2> QED
    BY <1>1, <1>3, <2>2, ReturnsIs DEF ExecutionReady, Typed, stores, planned, bounds
<1>4. CASE ExecutionFails
  <2>1. PICK content \in {cluster.runs, proc.doing.release} : Runs(content)
    BY <1>4 DEF ExecutionFails
  <2>2. content \in Releases \cup {Mixed}
    BY <1>1
  <2>3. cluster' \in [runs : Releases \cup {Mixed}, version : Nat] /\ history' \in Seq(Entry)
    BY <1>1, <2>1, <2>2, RunsIs
  <2> QED
    BY <1>1, <1>4, <2>3, ReturnsIs, FaultyIs DEF ExecutionFails, Typed, stores, planned, bounds
<1>5. CASE ExecutionRefused
  <2>1. cluster' \in [runs : Releases \cup {Mixed}, version : Nat]
    BY <1>1, <1>5 DEF ExecutionRefused
  <2> QED
    BY <1>1, <1>5, <2>1, ReturnsIs DEF ExecutionRefused, Typed, stores, planned, bounds
<1>6. CASE ExecutionRejected
  BY <1>1, <1>6, ReturnsIs, FaultyIs DEF ExecutionRejected, Typed, stores, planned, bounds
<1> QED
  BY <1>2, <1>3, <1>4, <1>5, <1>6

\* What noting an execution does to the history.
LEMMA NoteIs ==
    ASSUME Inv, Note
    PROVE  /\ history' \in Seq(Entry)
           /\ \A i \in DOMAIN history :
                 /\ i \in DOMAIN history' /\ history'[i].plan = history[i].plan
                 /\ history[i].state = "ready" => history'[i].state = "ready"
           /\ proc.got = "ready" =>
                 \E j \in DOMAIN history' :
                     history'[j].plan = proc.doing /\ history'[j].state = "ready"
<1>1. /\ proc.pc \in Executing /\ Typed
      /\ proc.got \in {"ready", "failed", "rejected"}
      /\ history \in Seq(Entry)
  BY DEF Note, At, Executing, Inv, Placed, Typed, Worker
<1>2. /\ Execution \in DOMAIN history /\ history[Execution] \in Entry
      /\ history[Execution].plan = proc.doing
      /\ proc.why # "resume" =>
            Execution = Len(history) /\ history[Execution].state = "running"
  BY <1>1, ExecutionIs
<1> DEFINE new == [history[Execution] EXCEPT !.state = proc.got]
<1>3. new \in Entry /\ new.plan = proc.doing /\ new.state = proc.got
  <2> HIDE DEF Execution
  <2> QED
    BY <1>1, <1>2 DEF Entry
<1>4. CASE proc.why # "resume"
  <2>1. history' = [history EXCEPT ![Execution] = new]
    BY <1>4 DEF Note
  <2> HIDE DEF Execution, new
  <2> QED
    BY <1>1, <1>2, <1>3, <1>4, <2>1
<1>5. CASE proc.why = "resume" /\ proc.got = "rejected"
  BY <1>1, <1>5 DEF Note
<1>6. CASE proc.why = "resume" /\ proc.got # "rejected"
  <2>1. history' = Append(history, new)
    BY <1>6 DEF Note
  <2> HIDE DEF Execution, new
  <2>2. /\ history' \in Seq(Entry) /\ Len(history') = Len(history) + 1
        /\ Len(history') \in DOMAIN history' /\ history'[Len(history')] = new
        /\ \A i \in DOMAIN history : i \in DOMAIN history' /\ history'[i] = history[i]
    BY <1>1, <1>3, <2>1
  <2> QED
    BY <1>3, <2>2
<1> QED
  BY <1>4, <1>5, <1>6

LEMMA LateTyped ==
    ASSUME Inv, Unlink \/ Note \/ ChecksSkipped \/ ChecksPass \/ ChecksFail \/ Rollback
    PROVE  Typed'
<1>1. Typed /\ Rooted
  BY DEF Inv
<1>7. CASE Unlink
  <2>1. plans' \in SUBSET plans
    BY <1>7 DEF Unlink
  <2> QED
    BY <1>1, <1>7, <2>1, GotoIs DEF Unlink, Typed, stores, bounds, Labels, Executing
<1>2. CASE Note
  <2>2. proc' \in Worker
    <3>1. PICK out \in {"done", "failed"}, final \in {"failed", "rolled-back"} :
             proc' = [proc EXCEPT !.pc = "record", !.out = out, !.final = final]
      BY <1>2 DEF Note
    <3>2. proc \in Worker
      BY <1>1 DEF Typed
    <3> QED
      BY <3>1, <3>2 DEF Worker, Labels
  <2>3. history' \in Seq(Entry)
    BY <1>2, NoteIs
  <2> QED
    BY <1>1, <1>2, <2>2, <2>3 DEF Note, Typed, stores, planned, bounds
<1>3. CASE ChecksSkipped
  BY <1>1, <1>3, OutcomeIs DEF ChecksSkipped, Typed, stores, planned, bounds
<1>4. CASE ChecksPass
  <2>1. Deployed \in Releases
    <3>1. history[LastOf(ReadyAt)] \in Entry
      BY <1>1, HistoryIs DEF ReadyAt
    <3> QED
      BY <3>1 DEF Deployed, Entry
  <2>2. past' = [past EXCEPT !.verified = @ \cup {Deployed}]
    BY <1>4 DEF ChecksPass
  <2>3. past' \in Past
    BY <1>1, <2>1, <2>2 DEF Typed, Past
  <2> QED
    BY <1>1, <1>4, <2>3, OutcomeIs DEF ChecksPass, Typed, stores, planned, bounds
<1>5. CASE ChecksFail
  <2>1. proc' \in Worker
    BY <1>1, <1>5, OutcomeIs, GotoIs DEF ChecksFail, Labels
  <2>2. faults' \in 0 .. MaxFaults
    BY <1>1, <1>5, FaultyIs DEF ChecksFail
  <2> QED
    BY <1>1, <1>5, <2>1, <2>2 DEF ChecksFail, Typed, stores, planned, bounds
<1>6. CASE Rollback
  <2>1. CASE /\ Previous # None
             /\ Planned(PlanOf(Previous))
             /\ Start(PlanOf(Previous), "rollback", "reapply")
             /\ past' = [past EXCEPT !.undone = @ \cup {Latest}]
             /\ NoFault
    <3>1. PlanOf(Previous) \in Hash
      BY <1>1, <2>1, PreviousIs, PlanOfIs
    <3>2. /\ catalog' \in SUBSET Releases /\ made' \in Nat
          /\ plans' \in SUBSET [hash : Hash, mode : {"create", "reapply"}]
      BY <1>1, <2>1, <3>1, PlannedIs
    <3>3. proc' \in Worker /\ history' \in Seq(Entry)
      BY <1>1, <2>1, <3>1, StartIs
    <3>4. past' \in Past
      <4>1. Latest \in Nat
        BY <1>1 DEF Typed, Latest
      <4> QED
        BY <1>1, <2>1, <4>1 DEF Typed, Past
    <3> QED
      BY <1>1, <1>6, <2>1, <3>2, <3>3, <3>4, FaultyIs DEF Rollback, Typed, stores, bounds
  <2>2. CASE /\ IF Previous = None THEN NoFault ELSE Faulty
             /\ Outcome("failed")
             /\ UNCHANGED <<planned, history, past>>
    <3>1. faults' \in 0 .. MaxFaults
      BY <1>1, <2>2, FaultyIs
    <3> QED
      BY <1>1, <1>6, <2>2, <3>1, OutcomeIs DEF Rollback, Typed, stores, planned, bounds
  <2> QED
    BY <1>6, <2>1, <2>2 DEF Rollback
<1> QED
  BY <1>2, <1>3, <1>4, <1>5, <1>6, <1>7

LEMMA TypedStep ==
    ASSUME Inv, [Next]_vars
    PROVE  Typed'
<1>1. CASE UNCHANGED vars
  BY <1>1 DEF vars, Inv, Typed
<1>2. CASE Next
  BY <1>2, PeopleTyped, BeginTyped, StageTyped, EarlyTyped, ApplyTyped,
     ExecutionTyped, LateTyped DEF Next, Process
<1> QED
  BY <1>1, <1>2

-----------------------------------------------------------------------------
(* The history grows, and what became ready stays.                         *)

Grows ==
    \A i \in DOMAIN history :
        /\ i \in DOMAIN history' /\ history'[i].plan = history[i].plan
        /\ history[i].state = "ready" => history'[i].state = "ready"

LEMMA HistoryStep ==
    ASSUME Inv, [Next]_vars
    PROVE  Grows
<1>1. Typed /\ Rooted
  BY DEF Inv
<1>2. CASE UNCHANGED history
  BY <1>2 DEF Grows
<1>3. CASE Apply
  <2>1. \/ UNCHANGED history
        \/ \E p \in {q \in plans' : q.hash = run.plan} : Start(run.plan, "apply", p.mode)
    BY <1>3 DEF Apply
  <2>2. CASE \E p \in {q \in plans' : q.hash = run.plan} : Start(run.plan, "apply", p.mode)
    <3>1. PICK p \in plans' : Start(run.plan, "apply", p.mode)
      BY <2>2
    <3> DEFINE new == [release |-> run.plan.release, plan |-> run.plan,
                       mode |-> p.mode, version |-> run.plan.base, state |-> "running"]
    <3>2. history' = Append(history, new) /\ history \in Seq(Entry)
      BY <1>1, <3>1 DEF Start, Typed
    <3> HIDE DEF new
    <3> QED
      BY <3>2 DEF Grows
  <2> QED
    BY <1>2, <2>1, <2>2
<1>4. CASE Rollback
  <2>1. \/ UNCHANGED history
        \/ Previous # None /\ Start(PlanOf(Previous), "rollback", "reapply")
    BY <1>4 DEF Rollback
  <2>2. CASE Previous # None /\ Start(PlanOf(Previous), "rollback", "reapply")
    <3>1. PlanOf(Previous) \in Hash
      BY <1>1, <2>2, PreviousIs, PlanOfIs
    <3> QED
      BY <1>1, <2>2, <3>1, StartIs DEF Grows
  <2> QED
    BY <1>2, <2>1, <2>2
<1>5. CASE WriteSome \/ ExecutionReady \/ ExecutionFails
  <2>1. /\ proc.pc \in Executing /\ proc.doing.release \in Releases
        /\ cluster.runs \in Releases \cup {Mixed}
    BY <1>1, <1>5 DEF WriteSome, ExecutionReady, ExecutionFails, At, Executing, Inv,
                      Placed, Typed, Hash
  <2>2. \E content \in {Mixed, cluster.runs, proc.doing.release} : Runs(content)
    BY <1>5 DEF WriteSome, ExecutionReady, ExecutionFails
  <2>3. PICK content \in Releases \cup {Mixed} : Runs(content)
    BY <2>1, <2>2
  <2> QED
    BY <1>1, <2>1, <2>3, RunsIs DEF Grows, Typed
<1>6. CASE Note
  BY <1>6, NoteIs DEF Grows
<1>7. ASSUME NEW m \in Machines, Execute(m) \/ Resume(m) PROVE UNCHANGED history
  BY <1>7 DEF Execute, Resume
<1>8. ASSUME NEW r \in Releases, Edit(r) PROVE UNCHANGED history
  BY <1>8 DEF Edit
<1>9. CASE \/ NextStage \/ EndRun \/ Record \/ FailRun \/ StageFails \/ Build \/ Deliver \/ Plan
  BY <1>2, <1>9 DEF NextStage, EndRun, Record, FailRun, StageFails, Build, Deliver, Plan
<1>10. CASE \/ ExecutionRefused \/ ExecutionRejected \/ Unlink
            \/ ChecksSkipped \/ ChecksPass \/ ChecksFail \/ EditByHand \/ Kill
  BY <1>2, <1>10 DEF ExecutionRefused, ExecutionRejected, Unlink, ChecksSkipped, ChecksPass,
                     ChecksFail, EditByHand, Kill
<1>11. CASE UNCHANGED vars
  BY <1>2, <1>11 DEF vars
<1> QED
  BY <1>2, <1>3, <1>4, <1>5, <1>6, <1>7, <1>8, <1>9, <1>10, <1>11 DEF Next, Process

LEMMA RootedStep ==
    ASSUME Inv, [Next]_vars
    PROVE  Rooted'
<1>1. Grows /\ Typed'
  BY HistoryStep, TypedStep
<1>2. 1 \in DOMAIN history /\ Rooted
  BY HistoryIs DEF Inv
<1>3. 1 \in DOMAIN history' /\ history'[1].plan = None /\ history'[1].state = "ready"
  BY <1>1, <1>2 DEF Grows, Rooted
<1>4. Len(history') > 0
  BY <1>1, <1>3 DEF Typed
<1> QED
  BY <1>3, <1>4 DEF Rooted

\* What was ready for a plan stays so.
LEMMA ReadiedStays ==
    ASSUME Grows, NEW hash, Readied(hash)
    PROVE  Readied(hash)'
  BY DEF Grows, Readied

-----------------------------------------------------------------------------
(* The stages stay in order, and the plan the approved one.                *)

\* What Sound says of a run.
Fine(r) ==
    /\ Orderly(r)
    /\ r.stage["build"] \in Finished => r.built # None
    /\ r.stage["plan"] \in Finished <=> r.plan # None
    /\ r.plan # None => Agreed(r, r.plan)
    /\ r.state = "ready" => r.stage["checks"] \in Finished

LEMMA SoundIs == Sound <=> \A i \in DOMAIN journal : Fine(journal[i])
  BY DEF Sound, Fine

LEMMA SavedFine ==
    ASSUME Typed, Sound, Latest > 0, NEW rec \in Run, SetRun(rec), Fine(rec)
    PROVE  Sound'
<1>1. /\ DOMAIN journal' = DOMAIN journal /\ Latest \in DOMAIN journal /\ run' = rec
      /\ Latest' = Latest
      /\ \A i \in DOMAIN journal : i # Latest => journal'[i] = journal[i]
  BY SetRunIs DEF Typed
<1>2. journal'[Latest] = rec
  BY <1>1 DEF run
<1>3. \A i \in DOMAIN journal' : Fine(journal'[i])
  BY <1>1, <1>2, SoundIs
<1> QED
  BY <1>3 DEF Sound, Fine

\* Recording the end of a stage: which one, and what becomes of the run.
Recorded(name) ==
    LET failed == proc.out = "failed"
        rec == [run EXCEPT !.stage[name] = proc.out,
                   !.built = IF name = "build" /\ ~failed THEN proc.image ELSE @,
                   !.plan = IF name = "plan" /\ ~failed THEN proc.plan ELSE @,
                   !.passed = IF name = "checks" THEN ~failed ELSE @]
    IN  /\ AtWork(run, name) /\ run \in Run /\ rec \in Run
        /\ rec.stage = [run.stage EXCEPT ![name] = proc.out]
        /\ rec.spec = run.spec /\ rec.approved = run.approved
        /\ rec.built = IF name = "build" /\ ~failed THEN proc.image ELSE run.built
        /\ rec.plan = IF name = "plan" /\ ~failed THEN proc.plan ELSE run.plan
        /\ rec.passed = IF name = "checks" THEN ~failed ELSE run.passed
        /\ rec.state = run.state
        /\ proc.out \in {"done", "skipped", "failed"}
        /\ SetRun(rec) /\ Goto(IF failed THEN "fail" ELSE "next")

LEMMA RecordIs ==
    ASSUME Inv, Record
    PROVE  \E name \in Names : Recorded(name)
<1>1. /\ Latest > 0 /\ run \in Run /\ Orderly(run)
      /\ \E name \in Names : AtWork(run, name)
      /\ proc.out \in {"done", "skipped", "failed"}
      /\ proc.plan \in Hash \cup {None} /\ proc.image \in Images \cup {None}
  BY RunIs DEF Record, At, Inv, Placed, Sound, Typed, Worker, run
<1>2. PICK name \in Names : AtWork(run, name)
  BY <1>1
<1>3. Current = name
  BY <1>1, <1>2, CurrentIs
<1> DEFINE failed == proc.out = "failed"
           rec == [run EXCEPT !.stage[name] = proc.out,
                              !.built = IF name = "build" /\ ~failed THEN proc.image ELSE @,
                              !.plan = IF name = "plan" /\ ~failed THEN proc.plan ELSE @,
                              !.passed = IF name = "checks" THEN ~failed ELSE @]
<1>4. SetRun(rec) /\ Goto(IF failed THEN "fail" ELSE "next")
  BY <1>3 DEF Record
<1>5. rec \in Run
  <2> DEFINE built == IF name = "build" /\ ~failed THEN proc.image ELSE run.built
             plan == IF name = "plan" /\ ~failed THEN proc.plan ELSE run.plan
             passed == IF name = "checks" THEN ~failed ELSE run.passed
  <2>1. run.built \in Images \cup {None} /\ run.plan \in Hash \cup {None} /\ run.passed \in BOOLEAN
    BY <1>1 DEF Run
  <2>2. built \in Images \cup {None} /\ plan \in Hash \cup {None} /\ passed \in BOOLEAN
    BY <1>1, <2>1
  <2>3. rec = Changed(run, name, proc.out, built, plan, passed)
    BY <1>1 DEF Run, Changed
  <2> HIDE DEF rec, built, plan, passed
  <2>4. /\ name \in Names /\ run \in Run
        /\ proc.out \in {"pending", "running", "done", "skipped", "failed"}
    BY <1>1, <1>2
  <2> HIDE DEF run, Names
  <2>5. Changed(run, name, proc.out, built, plan, passed) \in Run
    BY <2>2, <2>4, ChangedIs
  <2> QED
    BY <2>3, <2>5
<1>6. /\ rec.stage = [run.stage EXCEPT ![name] = proc.out]
      /\ rec.spec = run.spec /\ rec.approved = run.approved
      /\ rec.built = IF name = "build" /\ ~failed THEN proc.image ELSE run.built
      /\ rec.plan = IF name = "plan" /\ ~failed THEN proc.plan ELSE run.plan
      /\ rec.passed = IF name = "checks" THEN ~failed ELSE run.passed
      /\ rec.state = run.state
  BY <1>1 DEF Run
<1>7. Recorded(name)
  BY <1>1, <1>2, <1>4, <1>5, <1>6 DEF Recorded
<1> QED
  BY <1>7

\* A stage that finishes is the next in order.
LEMMA FinishedInOrder ==
    ASSUME NEW r \in Run, Orderly(r), NEW name \in Names, AtWork(r, name),
           NEW s \in Run, NEW out \in {"done", "skipped", "failed", "running"},
           s.stage = [r.stage EXCEPT ![name] = out]
    PROVE  Orderly(s)
  BY DEF Run, Orderly, AtWork, Names, Finished

\* The next stage begins.
LEMMA NextStageIs ==
    ASSUME Inv, NextStage
    PROVE  \E name \in Names :
               LET rec == [run EXCEPT !.stage[name] = "running"]
               IN  /\ AtWork(run, name) /\ run \in Run /\ rec \in Run
                   /\ rec.stage = [run.stage EXCEPT ![name] = "running"]
                   /\ rec.spec = run.spec /\ rec.approved = run.approved
                   /\ rec.plan = run.plan /\ rec.built = run.built /\ rec.state = run.state /\ rec.passed = run.passed
                   /\ SetRun(rec) /\ Goto(name)
<1>1. /\ Latest > 0 /\ run \in Run /\ Orderly(run) /\ Unfinished # {}
  BY RunIs DEF NextStage, At, Inv, Placed, Sound, Typed, run
<1>2. PICK name \in Names : AtWork(run, name) /\ Current = name
  BY <1>1, CurrentIs DEF Names
<1> DEFINE rec == [run EXCEPT !.stage[name] = "running"]
<1>3. SetRun(rec) /\ Goto(name)
  BY <1>2 DEF NextStage
<1>4. rec \in Run
  BY <1>1, <1>2 DEF Run, Names
<1>5. /\ rec.stage = [run.stage EXCEPT ![name] = "running"]
      /\ rec.spec = run.spec /\ rec.approved = run.approved
      /\ rec.plan = run.plan /\ rec.built = run.built /\ rec.state = run.state /\ rec.passed = run.passed
  BY <1>1 DEF Run
<1> QED
  BY <1>1, <1>2, <1>3, <1>4, <1>5

\* A run begins with nothing done.
LEMMA ExecuteIs ==
    ASSUME Inv, NEW m \in Machines, Execute(m)
    PROVE  /\ Latest' = Latest + 1 /\ Latest' \in DOMAIN journal'
           /\ DOMAIN journal' = 1 .. Latest + 1 /\ DOMAIN journal = 1 .. Latest
           /\ \A i \in DOMAIN journal : journal'[i] = journal[i]
           /\ run' \in Run /\ run'.spec = declared /\ run'.plan = None /\ run'.built = None
           /\ run'.state = "running" /\ ~run'.passed
           /\ run'.approved = IF Shown(m) THEN declared ELSE None
           /\ \A name \in Names : run'.stage[name] = "pending"
<1> DEFINE new == [spec |-> declared,
                   approved |-> IF Shown(m) THEN declared ELSE None,
                   plan |-> None, built |-> None, passed |-> FALSE, state |-> "running",
                   stage |-> [s \in {Stages[i] : i \in 1 .. 5} |-> "pending"]]
<1>1. {Stages[i] : i \in 1 .. 5} = Names
  <2>1. \A i \in Int : i \in 1 .. 5 <=> i \in {1, 2, 3, 4, 5}
    OBVIOUS
  <2> QED
    BY <2>1 DEF Stages, Names
<1>2. declared \in Releases /\ journal \in Seq(Run)
  BY DEF Inv, Typed
<1>3. /\ new \in Run /\ \A name \in Names : new.stage[name] = "pending"
      /\ new.spec = declared /\ new.plan = None /\ new.built = None /\ new.state = "running" /\ ~new.passed
      /\ new.approved = IF Shown(m) THEN declared ELSE None
  BY <1>1, <1>2 DEF Run, Names
<1>4. journal' = Append(journal, new)
  BY DEF Execute, Shown
<1> HIDE DEF new
<1>5. /\ Latest' = Latest + 1 /\ Latest' \in DOMAIN journal'
      /\ DOMAIN journal' = 1 .. Latest + 1 /\ DOMAIN journal = 1 .. Latest
      /\ \A i \in DOMAIN journal : journal'[i] = journal[i]
      /\ journal'[Latest'] = new
  BY <1>2, <1>3, <1>4 DEF Latest
<1> QED
  BY <1>3, <1>5 DEF run

\* A resumed run is what it was, but for a build to be made again.
LEMMA ResumeIs ==
    ASSUME Inv, NEW m \in Machines, Resume(m)
    PROVE  \E rec \in Run :
               /\ SetRun(rec) /\ run \in Run /\ Latest > 0
               /\ rec.spec = run.spec /\ rec.approved = run.approved /\ rec.plan = run.plan
               /\ rec.passed = run.passed /\ rec.built = run.built
               /\ rec.state = "running"
               /\ rec.stage["build"] = IF Rebuilt(m) THEN "pending" ELSE run.stage["build"]
               /\ \A name \in Names \ {"build"} : rec.stage[name] = run.stage[name]
<1>1. Latest > 0 /\ run \in Run
  BY RunIs DEF Resume, Inv, Typed
<1> DEFINE state == IF Rebuilt(m) THEN "pending" ELSE run.stage["build"]
           rec == [run EXCEPT !.state = "running", !.stage["build"] = state]
<1>2. state \in {"pending", "running", "done", "skipped", "failed"}
  BY <1>1 DEF Run
<1>3. SetRun(rec)
  BY DEF Resume
<1> HIDE DEF state
<1>4. /\ rec \in Run
      /\ rec.spec = run.spec /\ rec.approved = run.approved /\ rec.plan = run.plan
      /\ rec.passed = run.passed /\ rec.built = run.built /\ rec.state = "running"
      /\ rec.stage["build"] = state
      /\ \A name \in Names \ {"build"} : rec.stage[name] = run.stage[name]
  BY <1>1, <1>2 DEF Run, Names
<1> QED
  BY <1>1, <1>3, <1>4 DEF state

\* Only these steps save the journal.
LEMMA JournalKept ==
    ASSUME [Next]_vars,
           ~(\E m \in Machines : Execute(m) \/ Resume(m)),
           ~NextStage, ~EndRun, ~Record, ~FailRun
    PROVE  UNCHANGED journal
<1>1. CASE UNCHANGED vars
  BY <1>1 DEF vars
<1>2. CASE StageFails \/ Build \/ Deliver \/ Plan \/ Apply
  BY <1>2 DEF StageFails, Build, Deliver, Plan, Apply
<1>3. CASE WriteSome \/ ExecutionReady \/ ExecutionFails \/ ExecutionRefused \/ ExecutionRejected
  BY <1>3 DEF WriteSome, ExecutionReady, ExecutionFails, ExecutionRefused, ExecutionRejected
<1>4. CASE Unlink \/ Note \/ ChecksSkipped \/ ChecksPass \/ ChecksFail \/ Rollback
  BY <1>4 DEF Unlink, Note, ChecksSkipped, ChecksPass, ChecksFail, Rollback
<1>5. CASE EditByHand \/ Kill \/ \E r \in Releases : Edit(r)
  BY <1>5 DEF EditByHand, Kill, Edit
<1> QED
  BY <1>1, <1>2, <1>3, <1>4, <1>5 DEF Next, Process

LEMMA SoundStep ==
    ASSUME Inv, [Next]_vars
    PROVE  Sound'
<1>1. Typed /\ Sound
  BY DEF Inv
<1>2. Latest > 0 => run \in Run /\ Fine(run)
  BY <1>1, RunIs, SoundIs DEF Typed, run
<1>3. ASSUME NEW m \in Machines, Execute(m) PROVE Sound'
  <2>1. Fine(run')
    BY <1>3, ExecuteIs DEF Fine, Orderly, Names, Finished
  <2>2. \A i \in DOMAIN journal' : i = Latest' \/ i \in DOMAIN journal
    <3>1. Latest \in Nat
      BY <1>1 DEF Typed, Latest
    <3> QED
      BY <1>3, <3>1, ExecuteIs
  <2>3. \A i \in DOMAIN journal' : Fine(journal'[i])
    BY <1>1, <1>3, <2>1, <2>2, ExecuteIs, SoundIs DEF run
  <2> QED
    BY <2>3 DEF Sound, Fine
<1>4. ASSUME NEW m \in Machines, Resume(m) PROVE Sound'
  <2>1. PICK rec \in Run :
            /\ SetRun(rec) /\ run \in Run /\ Latest > 0
            /\ rec.spec = run.spec /\ rec.approved = run.approved /\ rec.plan = run.plan
            /\ rec.state = "running" /\ rec.built = run.built
            /\ rec.stage["build"] = IF Rebuilt(m) THEN "pending" ELSE run.stage["build"]
            /\ \A name \in Names \ {"build"} : rec.stage[name] = run.stage[name]
    BY <1>4, ResumeIs
  <2>2. rec.stage["build"] # run.stage["build"] => run.stage["deliver"] \notin Finished
    BY <2>1 DEF Rebuilt
  <2>3. Orderly(rec)
    BY <1>2, <2>1, <2>2 DEF Fine, Orderly, Names
  <2>4. Fine(run) /\ "build" \in Names /\ "plan" \in Names
    BY <1>2, <2>1 DEF Names
  <2>5. rec.stage["build"] \in Finished => run.stage["build"] \in Finished
    BY <2>1 DEF Finished
  <2>6. rec.stage["plan"] = run.stage["plan"]
    BY <2>1 DEF Names
  <2>7. Fine(rec)
    BY <2>1, <2>3, <2>4, <2>5, <2>6 DEF Fine, Agreed
  <2> QED
    BY <1>1, <2>1, <2>7, SavedFine
<1>5. CASE NextStage
  <2>1. PICK name \in Names :
            LET rec == [run EXCEPT !.stage[name] = "running"]
            IN  /\ AtWork(run, name) /\ run \in Run /\ rec \in Run
                /\ rec.stage = [run.stage EXCEPT ![name] = "running"]
                /\ rec.spec = run.spec /\ rec.approved = run.approved
                /\ rec.plan = run.plan /\ rec.built = run.built /\ rec.state = run.state
                /\ SetRun(rec) /\ Goto(name)
    BY <1>5, NextStageIs
  <2> DEFINE rec == [run EXCEPT !.stage[name] = "running"]
  <2>2. Latest > 0 /\ run.state = "running"
    BY <1>5 DEF NextStage, At, Inv, Placed
  <2>3. Orderly(rec)
    BY <1>2, <2>1, <2>2, FinishedInOrder DEF Fine
  <2>4. /\ rec.stage["plan"] \in Finished <=> run.stage["plan"] \in Finished
        /\ rec.stage["build"] \in Finished => run.stage["build"] \in Finished
    BY <2>1 DEF Run, Finished, Names, AtWork
  <2> HIDE DEF rec
  <2>5. Fine(rec)
    BY <1>2, <2>1, <2>2, <2>3, <2>4 DEF Fine, Agreed, rec
  <2> QED
    BY <1>1, <2>1, <2>2, <2>5, SavedFine DEF rec
<1>6. CASE EndRun
  <2> DEFINE rec == [run EXCEPT !.state = "ready"]
  <2>1. /\ Latest > 0 /\ Unfinished = {} /\ SetRun(rec)
    BY <1>6 DEF EndRun, At, Inv, Placed
  <2>2. /\ rec \in Run /\ rec.stage = run.stage /\ rec.plan = run.plan /\ rec.built = run.built
        /\ rec.spec = run.spec /\ rec.approved = run.approved
    BY <1>2, <2>1 DEF Run
  <2>3. run.stage["checks"] \in Finished
    BY <1>2, <2>1, CurrentIs DEF Fine
  <2> HIDE DEF rec
  <2>4. Fine(rec)
    BY <1>2, <2>1, <2>2, <2>3 DEF Fine, Orderly, Agreed
  <2> QED
    BY <1>1, <2>1, <2>2, <2>4, SavedFine
<1>7. CASE Record
  <2>1. PICK name \in Names : Recorded(name)
    BY <1>7, RecordIs
  <2> DEFINE failed == proc.out = "failed"
             rec == [run EXCEPT !.stage[name] = proc.out,
                              !.built = IF name = "build" /\ ~failed THEN proc.image ELSE @,
                              !.plan = IF name = "plan" /\ ~failed THEN proc.plan ELSE @,
                              !.passed = IF name = "checks" THEN ~failed ELSE @]
  <2>2. /\ AtWork(run, name) /\ rec \in Run
        /\ rec.stage = [run.stage EXCEPT ![name] = proc.out]
        /\ rec.spec = run.spec /\ rec.approved = run.approved
        /\ rec.built = IF name = "build" /\ ~failed THEN proc.image ELSE run.built
        /\ rec.plan = IF name = "plan" /\ ~failed THEN proc.plan ELSE run.plan
        /\ rec.state = run.state
        /\ proc.out \in {"done", "skipped", "failed"}
        /\ SetRun(rec)
    BY <2>1 DEF Recorded
  <2> HIDE DEF rec
  <2>3. Latest > 0 /\ run.state = "running" /\ proc.pc = "record"
    BY <1>7 DEF Record, At, Inv, Placed
  <2>4. Orderly(rec)
    BY <1>2, <2>2, <2>3, FinishedInOrder DEF Fine
  <2>5. name = "plan" /\ ~failed => proc.plan # None /\ Agreed(run, proc.plan)
    <3> SUFFICES ASSUME name = "plan", ~failed
                 PROVE  proc.plan # None /\ Agreed(run, proc.plan)
      OBVIOUS
    <3>1. /\ run.stage["plan"] \notin Finished /\ run.stage["build"] \in Finished
          /\ AtWork(run, "plan") /\ proc.pc # "none"
      BY <2>2, <2>3 DEF AtWork
    <3>2. proc.image = run.built /\ run.built \in Images
      BY <3>1, HoldsImage
    <3>6. run.built # None
      BY <1>2, <2>3, <3>1 DEF Fine
    <3>3. /\ proc.plan # None /\ run.approved \in {None, proc.plan.release}
          /\ ~proc.resuming => proc.plan.release = run.spec
          /\ proc.resuming => proc.plan.release.image = proc.image
      BY <2>3, <3>1 DEF Inv, Planning, At
    <3>4. ~proc.resuming => proc.image \in {None, run.spec.image}
      BY <3>1 DEF Inv, Holding
    <3>5. proc.resuming \in BOOLEAN
      BY DEF Inv, Typed, Worker
    <3> QED
      BY <3>2, <3>3, <3>4, <3>5, <3>6 DEF Agreed
  <2>6. /\ rec.stage["plan"] \in Finished <=>
               run.stage["plan"] \in Finished \/ (name = "plan" /\ ~failed)
        /\ rec.stage["build"] \in Finished =>
               run.stage["build"] \in Finished \/ (name = "build" /\ ~failed)
    BY <1>2, <2>2, <2>3 DEF Run, Finished, Names, AtWork
  <2>7. Fine(run)
    BY <1>2, <2>3
  <2>8. name = "build" => run.plan = None
    BY <2>2, <2>7 DEF Fine, Orderly, AtWork
  <2>9. ~failed => proc.image # None
    BY <2>3 DEF Inv, Holding, Built, At
  <2>10. Fine(rec)
    <3>1. rec.stage["build"] \in Finished => rec.built # None
      BY <2>2, <2>6, <2>9, <2>7 DEF Fine
    <3>2. rec.stage["plan"] \in Finished <=> rec.plan # None
      BY <2>2, <2>5, <2>6, <2>7 DEF Fine
    <3>3. rec.plan # None => Agreed(rec, rec.plan)
      BY <2>2, <2>5, <2>8, <2>7 DEF Fine, Agreed
    <3>4. rec.state # "ready"
      BY <2>2, <2>3
    <3> QED
      BY <2>4, <3>1, <3>2, <3>3, <3>4 DEF Fine
  <2> QED
    BY <1>1, <2>2, <2>3, <2>10, SavedFine
<1>8. CASE FailRun
  <2> DEFINE rec == [run EXCEPT !.state = proc.final]
  <2>1. /\ Latest > 0 /\ SetRun(rec) /\ proc.final \in {"failed", "rolled-back"}
    BY <1>8 DEF FailRun, At, Inv, Placed, Typed, Worker
  <2>2. /\ rec \in Run /\ rec.stage = run.stage /\ rec.plan = run.plan /\ rec.built = run.built
        /\ rec.spec = run.spec /\ rec.approved = run.approved /\ rec.state # "ready"
    BY <1>2, <2>1 DEF Run
  <2> HIDE DEF rec
  <2>3. Fine(rec)
    BY <1>2, <2>1, <2>2 DEF Fine, Orderly, Agreed
  <2> QED
    BY <1>1, <2>1, <2>2, <2>3, SavedFine
<1>9. CASE UNCHANGED journal
  BY <1>1, <1>9 DEF Sound, Orderly, Agreed
<1> QED
  BY <1>3, <1>4, <1>5, <1>6, <1>7, <1>8, <1>9, JournalKept


-----------------------------------------------------------------------------
(* The process is where the newest run's stages say.                       *)

LEMMA RunKept ==
    ASSUME UNCHANGED journal
    PROVE  run' = run /\ Latest' = Latest
  BY DEF run, Latest

LEMMA PlacedStep ==
    ASSUME Inv, [Next]_vars
    PROVE  Placed'
<1>1. Typed /\ Sound /\ Placed
  BY DEF Inv
<1>2. Latest > 0 => run \in Run /\ Fine(run)
  BY <1>1, RunIs, SoundIs DEF Typed, run
<1>3. proc \in Worker
  BY <1>1 DEF Typed
<1>4. ASSUME NEW m \in Machines, Execute(m) PROVE Placed'
  <2>1. /\ proc'.pc = "next" /\ proc'.at = m /\ proc'.spec = declared
    BY <1>4 DEF Execute, Idle
  <2>2. Latest' > 0 /\ run'.state = "running"
    <3>1. Latest \in Nat
      BY <1>1 DEF Typed, Latest
    <3> QED
      BY <1>4, <3>1, ExecuteIs
  <2> QED
    BY <1>1, <2>1, <2>2 DEF Placed, At, Names, Executing, Typed
<1>5. ASSUME NEW m \in Machines, Resume(m) PROVE Placed'
  <2>1. /\ proc'.pc = "next" /\ proc'.at = m /\ proc'.spec = declared
    BY <1>5 DEF Resume, Idle
  <2>2. Latest' > 0 /\ run'.state = "running"
    BY <1>1, <1>5, ResumeIs, SetRunIs DEF Typed
  <2> QED
    BY <1>1, <2>1, <2>2 DEF Placed, At, Names, Executing, Typed
<1>6. CASE NextStage
  <2>1. PICK name \in Names :
            LET rec == [run EXCEPT !.stage[name] = "running"]
            IN  /\ AtWork(run, name) /\ run \in Run /\ rec \in Run
                /\ rec.stage = [run.stage EXCEPT ![name] = "running"]
                /\ rec.spec = run.spec /\ rec.approved = run.approved
                /\ rec.plan = run.plan /\ rec.built = run.built /\ rec.state = run.state
                /\ SetRun(rec) /\ Goto(name)
    BY <1>6, NextStageIs
  <2> DEFINE rec == [run EXCEPT !.stage[name] = "running"]
  <2>2. /\ Latest > 0 /\ run.state = "running"
        /\ proc.at \in Machines /\ proc.spec \in Releases
    BY <1>1, <1>6 DEF NextStage, At, Placed
  <2>3. Latest' = Latest /\ run' = rec
    BY <1>1, <2>1, <2>2, SetRunIs DEF Typed
  <2>4. AtWork(rec, name)
    BY <2>1 DEF AtWork, Run, Names, Finished
  <2>5. proc' = [proc EXCEPT !.pc = name]
    BY <2>1 DEF Goto
  <2>6. /\ proc'.pc = name /\ proc'.at = proc.at /\ proc'.spec = proc.spec
    BY <1>3, <2>5 DEF Worker
  <2> HIDE DEF rec
  <2> QED
    BY <2>1, <2>2, <2>3, <2>4, <2>6 DEF Placed, At, Names, Executing, rec
<1>7. CASE Record
  <2>1. PICK name \in Names : Recorded(name)
    BY <1>7, RecordIs
  <2>2. /\ Latest > 0 /\ run.state = "running" /\ proc.pc = "record"
        /\ proc.at \in Machines /\ proc.spec \in Releases
        /\ proc.out = "failed" => proc.final \in {"failed", "rolled-back"}
    BY <1>1, <1>7 DEF Record, At, Placed
  <2>3. Latest' = Latest /\ run'.state = "running"
    BY <1>1, <2>1, <2>2, SetRunIs DEF Typed, Recorded
  <2>4. proc' = [proc EXCEPT !.pc = IF proc.out = "failed" THEN "fail" ELSE "next"]
    BY <2>1 DEF Goto, Recorded
  <2>5. /\ proc'.pc = IF proc.out = "failed" THEN "fail" ELSE "next"
        /\ proc'.at = proc.at /\ proc'.spec = proc.spec
        /\ proc'.out = proc.out /\ proc'.final = proc.final
    BY <1>3, <2>4 DEF Worker
  <2> QED
    BY <2>2, <2>3, <2>5 DEF Placed, At, Names, Executing
<1>8. CASE EndRun \/ FailRun \/ Kill
  BY <1>8 DEF EndRun, FailRun, Kill, Idle, Placed
<1>9. CASE UNCHANGED <<journal, proc>>
  BY <1>1, <1>9, RunKept DEF Placed, At
<1>10. CASE StageFails \/ Build \/ Deliver \/ Plan
  <2>1. proc.pc \in Names /\ UNCHANGED journal
    BY <1>10 DEF StageFails, Build, Deliver, Plan, At, Names
  <2>2. /\ proc'.pc = "record" /\ proc'.at = proc.at /\ proc'.spec = proc.spec
        /\ proc'.out \in {"done", "skipped", "failed"}
        /\ proc'.out = "failed" => proc'.final = "failed"
    <3>1. CASE \/ Outcome("done") \/ Outcome("skipped") \/ Outcome("failed")
      BY <1>3, <3>1 DEF Outcome, Worker
    <3>2. CASE \/ With(proc.image, "skipped") \/ With(proc.spec.image, "skipped")
               \/ With(proc.spec.image, "done")
      BY <1>3, <3>2 DEF With, Worker
    <3>3. CASE proc' = [proc EXCEPT !.pc = "record", !.plan = PlanOf(Wanted), !.out = "done"]
      BY <1>3, <3>3 DEF Worker
    <3> QED
      BY <1>10, <3>1, <3>2, <3>3 DEF StageFails, Build, Deliver, Plan
  <2> QED
    BY <1>1, <2>1, <2>2, RunKept DEF Placed, At, Names, Executing
<1>11. CASE ChecksSkipped \/ ChecksPass
  <2>1. /\ proc.pc = "checks" /\ UNCHANGED journal
        /\ \E state \in {"done", "skipped"} : Outcome(state)
    BY <1>11 DEF ChecksSkipped, RunsChecks, ChecksPass, At
  <2>2. /\ proc'.pc = "record" /\ proc'.at = proc.at /\ proc'.spec = proc.spec
        /\ proc'.out \in {"done", "skipped"}
    BY <1>3, <2>1 DEF Outcome, Worker
  <2> QED
    BY <1>1, <2>1, <2>2, RunKept DEF Placed, At, Names, Executing
<1>12. CASE ChecksFail
  <2>1. /\ proc.pc = "checks" /\ UNCHANGED journal
        /\ Outcome("failed") \/ Goto("rollback")
    BY <1>12 DEF RunsChecks, ChecksFail, At
  <2>2. CASE Outcome("failed")
    <3>1. /\ proc'.pc = "record" /\ proc'.at = proc.at /\ proc'.spec = proc.spec
          /\ proc'.out = "failed" /\ proc'.final = "failed"
      BY <1>3, <2>2 DEF Outcome, Worker
    <3> QED
      BY <1>1, <2>1, <3>1, RunKept DEF Placed, At, Names, Executing
  <2>3. CASE Goto("rollback")
    <3>1. /\ proc'.pc = "rollback" /\ proc'.at = proc.at /\ proc'.spec = proc.spec
      BY <1>3, <2>3 DEF Goto, Worker
    <3> QED
      BY <1>1, <2>1, <3>1, RunKept DEF Placed, At, Names, Executing
  <2> QED
    BY <2>1, <2>2, <2>3
<1>13. CASE Apply
  <2> DEFINE now == IF proc.plan = None THEN PlanOf(Wanted) ELSE proc.plan
  <2>1. /\ proc.pc = "apply" /\ UNCHANGED journal
        /\ \/ \E state \in {"done", "skipped", "failed"} : Outcome(state)
           \/ proc' = [proc EXCEPT !.pc = "exec", !.why = "resume",
                                   !.doing = run.plan, !.plan = now]
           \/ \E p \in {q \in plans' : q.hash = run.plan} : Start(run.plan, "apply", p.mode)
    BY <1>13 DEF Apply, At
  <2>2. /\ proc'.at = proc.at /\ proc'.spec = proc.spec
        /\ \/ /\ proc'.pc = "record" /\ proc'.out \in {"done", "skipped", "failed"}
              /\ proc'.final = "failed"
           \/ /\ proc'.pc = "exec" /\ proc'.why \in {"apply", "resume"}
              /\ proc'.doing = run.plan
    <3> HIDE DEF now
    <3> QED
      BY <1>3, <2>1 DEF Outcome, Worker, Start
  <2>3. run.plan \in Hash
    BY <1>1, <1>2, <2>1 DEF Placed, Names, Fine, AtWork, Run
  <2> QED
    BY <1>1, <2>1, <2>2, <2>3, RunKept DEF Placed, At, Names, Executing
<1>14. CASE ExecutionReady \/ ExecutionFails \/ ExecutionRefused \/ ExecutionRejected
  <2>1. /\ proc.pc = "exec" /\ UNCHANGED journal
        /\ \E state \in {"ready", "failed", "rejected"} : Returns(state)
    BY <1>14 DEF ExecutionReady, ExecutionFails, ExecutionRefused, ExecutionRejected, At
  <2>2. /\ proc'.pc \in {"unlink", "note"} /\ proc'.at = proc.at /\ proc'.spec = proc.spec
        /\ proc'.why = proc.why /\ proc'.doing = proc.doing
        /\ proc'.got \in {"ready", "failed", "rejected"}
    BY <1>3, <2>1 DEF Returns, Worker
  <2> QED
    BY <1>1, <2>1, <2>2, RunKept DEF Placed, At, Names, Executing
<1>19. CASE Unlink
  <2>1. proc.pc = "unlink" /\ UNCHANGED journal /\ Goto("note")
    BY <1>19 DEF Unlink, At
  <2>2. /\ proc'.pc = "note" /\ proc'.at = proc.at /\ proc'.spec = proc.spec
        /\ proc'.why = proc.why /\ proc'.doing = proc.doing /\ proc'.got = proc.got
    BY <1>3, <2>1 DEF Goto, Worker
  <2> QED
    BY <1>1, <2>1, <2>2, RunKept DEF Placed, At, Names, Executing
<1>15. CASE Note
  <2>1. /\ proc.pc = "note" /\ UNCHANGED journal
        /\ \E out \in {"done", "failed"}, final \in {"failed", "rolled-back"} :
              proc' = [proc EXCEPT !.pc = "record", !.out = out, !.final = final]
    BY <1>15 DEF Note, At
  <2>2. /\ proc'.pc = "record" /\ proc'.at = proc.at /\ proc'.spec = proc.spec
        /\ proc'.out \in {"done", "failed"} /\ proc'.final \in {"failed", "rolled-back"}
    BY <1>3, <2>1 DEF Worker
  <2> QED
    BY <1>1, <2>1, <2>2, RunKept DEF Placed, At, Names, Executing
<1>16. CASE Rollback
  <2>1. /\ proc.pc = "rollback" /\ UNCHANGED journal
        /\ \/ Outcome("failed")
           \/ Previous # None /\ Start(PlanOf(Previous), "rollback", "reapply")
    BY <1>16 DEF Rollback, At
  <2>2. CASE Outcome("failed")
    <3>1. /\ proc'.pc = "record" /\ proc'.at = proc.at /\ proc'.spec = proc.spec
          /\ proc'.out = "failed" /\ proc'.final = "failed"
      BY <1>3, <2>2 DEF Outcome, Worker
    <3> QED
      BY <1>1, <2>1, <3>1, RunKept DEF Placed, At, Names, Executing
  <2>3. CASE Previous # None /\ Start(PlanOf(Previous), "rollback", "reapply")
    <3>1. PlanOf(Previous) \in Hash
      BY <1>1, <2>3, PreviousIs, PlanOfIs DEF Inv
    <3> DEFINE hash == PlanOf(Previous)
    <3>2. proc' = [proc EXCEPT !.pc = "exec", !.why = "rollback", !.doing = hash, !.plan = hash]
      BY <2>3 DEF Start
    <3> HIDE DEF hash
    <3>3. /\ proc'.pc = "exec" /\ proc'.at = proc.at /\ proc'.spec = proc.spec
          /\ proc'.why = "rollback" /\ proc'.doing = hash
      BY <1>3, <3>2 DEF Worker
    <3> QED
      BY <1>1, <2>1, <3>1, <3>3, RunKept DEF Placed, At, Names, Executing, hash
  <2> QED
    BY <2>1, <2>2, <2>3
<1>17. WriteSome \/ EditByHand \/ (\E r \in Releases : Edit(r)) => UNCHANGED <<journal, proc>>
  BY DEF WriteSome, EditByHand, Edit
<1>18. UNCHANGED vars => UNCHANGED <<journal, proc>>
  BY DEF vars
<1> QED
  BY <1>4, <1>5, <1>6, <1>7, <1>8, <1>9, <1>10, <1>11, <1>12, <1>13, <1>14, <1>15, <1>16,
     <1>17, <1>18, <1>19 DEF Next, Process

-----------------------------------------------------------------------------
(* What was planned is what was approved, and its image is at hand.        *)

\* A process keeps what it has read, built and planned.
Same ==
    /\ proc'.at = proc.at /\ proc'.resuming = proc.resuming /\ proc'.spec = proc.spec
    /\ proc'.image = proc.image /\ proc'.trusts = proc.trusts /\ proc'.plan = proc.plan

\* A stage returns: the process keeps the rest of what it holds.
LEMMA OutcomeKeeps ==
    ASSUME proc \in Worker, NEW state, Outcome(state)
    PROVE  /\ proc'.pc = "record" /\ proc'.out = state /\ proc'.final = "failed"
           /\ Same
  BY DEF Outcome, Worker, Same

LEMMA WithKeeps ==
    ASSUME proc \in Worker, NEW image, NEW state, With(image, state)
    PROVE  /\ proc'.pc = "record" /\ proc'.out = state /\ proc'.image = image
           /\ proc'.at = proc.at /\ proc'.plan = proc.plan /\ proc'.spec = proc.spec
           /\ proc'.resuming = proc.resuming /\ proc'.trusts = proc.trusts
  BY DEF With, Worker

\* Saving the newest run with one stage changed.
SavesStage(name, out) ==
    /\ AtWork(run, name) /\ run \in Run /\ run' \in Run /\ Latest' = Latest
    /\ run'.stage = [run.stage EXCEPT ![name] = out]
    /\ run'.spec = run.spec /\ run'.approved = run.approved
    /\ run'.built = IF name = "build" /\ out \notin {"failed", "running"}
                    THEN proc.image ELSE run.built
    /\ run'.plan = IF name = "plan" /\ out \notin {"failed", "running"}
                   THEN proc.plan ELSE run.plan
    /\ run'.passed = IF name = "checks" /\ out # "running" THEN out # "failed" ELSE run.passed
    /\ Latest \in DOMAIN journal /\ DOMAIN journal' = DOMAIN journal
    /\ \A i \in DOMAIN journal : i # Latest => journal'[i] = journal[i]
    /\ Same

LEMMA NextStageSaves ==
    ASSUME Inv, NextStage
    PROVE  \E name \in Names : SavesStage(name, "running") /\ proc'.pc = name
<1>1. PICK name \in Names :
          LET rec == [run EXCEPT !.stage[name] = "running"]
          IN  /\ AtWork(run, name) /\ run \in Run /\ rec \in Run
              /\ rec.stage = [run.stage EXCEPT ![name] = "running"]
              /\ rec.spec = run.spec /\ rec.approved = run.approved
              /\ rec.plan = run.plan /\ rec.built = run.built /\ rec.state = run.state /\ rec.passed = run.passed
              /\ SetRun(rec) /\ Goto(name)
  BY NextStageIs
<1> DEFINE rec == [run EXCEPT !.stage[name] = "running"]
<1>2. /\ rec \in Run /\ SetRun(rec) /\ run \in Run /\ AtWork(run, name)
      /\ rec.stage = [run.stage EXCEPT ![name] = "running"]
      /\ rec.spec = run.spec /\ rec.approved = run.approved /\ rec.plan = run.plan
      /\ rec.passed = run.passed /\ rec.built = run.built
  BY <1>1
<1>3. proc' = [proc EXCEPT !.pc = name]
  BY <1>1 DEF Goto
<1> HIDE DEF rec
<1>4. Latest > 0 /\ journal \in Seq(Run) /\ proc \in Worker
  BY DEF NextStage, At, Inv, Placed, Typed
<1>5. /\ Latest' = Latest /\ run' = rec /\ DOMAIN journal' = DOMAIN journal
      /\ Latest \in DOMAIN journal
      /\ \A i \in DOMAIN journal : i # Latest => journal'[i] = journal[i]
  BY <1>2, <1>4, SetRunIs
<1>6. proc'.pc = name /\ Same
  BY <1>3, <1>4 DEF Worker, Same
<1> QED
  BY <1>2, <1>5, <1>6 DEF SavesStage

LEMMA RecordSaves ==
    ASSUME Inv, Record
    PROVE  /\ proc'.pc \in {"next", "fail"}
           /\ proc.pc = "record" /\ proc.out \in {"done", "skipped", "failed"}
           /\ \E name \in Names : SavesStage(name, proc.out)
<1>1. PICK name \in Names : Recorded(name)
  BY RecordIs
<1> DEFINE failed == proc.out = "failed"
           rec == [run EXCEPT !.stage[name] = proc.out,
                              !.built = IF name = "build" /\ ~failed THEN proc.image ELSE @,
                              !.plan = IF name = "plan" /\ ~failed THEN proc.plan ELSE @,
                              !.passed = IF name = "checks" THEN ~failed ELSE @]
<1>2. /\ rec \in Run /\ SetRun(rec) /\ run \in Run /\ AtWork(run, name)
      /\ rec.stage = [run.stage EXCEPT ![name] = proc.out]
      /\ rec.spec = run.spec /\ rec.approved = run.approved
      /\ rec.built = IF name = "build" /\ ~failed THEN proc.image ELSE run.built
      /\ rec.plan = IF name = "plan" /\ ~failed THEN proc.plan ELSE run.plan
      /\ rec.passed = IF name = "checks" THEN ~failed ELSE run.passed
  BY <1>1 DEF Recorded
<1>3. /\ proc' = [proc EXCEPT !.pc = IF failed THEN "fail" ELSE "next"]
      /\ proc.out \in {"done", "skipped", "failed"}
  BY <1>1 DEF Goto, Recorded
<1> HIDE DEF rec
<1>4. Latest > 0 /\ journal \in Seq(Run) /\ proc \in Worker /\ proc.pc = "record"
  BY DEF Record, At, Inv, Placed, Typed
<1>5. /\ Latest' = Latest /\ run' = rec /\ DOMAIN journal' = DOMAIN journal
      /\ Latest \in DOMAIN journal
      /\ \A i \in DOMAIN journal : i # Latest => journal'[i] = journal[i]
  BY <1>2, <1>4, SetRunIs
<1>6. proc'.pc \in {"next", "fail"} /\ Same
  BY <1>3, <1>4 DEF Worker, Same
<1> QED
  BY <1>2, <1>3, <1>4, <1>5, <1>6 DEF SavesStage

\* The steps of the later stages, at which plan and delivery are finished.
LEMMA LaterIs ==
    ASSUME Inv,
           \/ Apply \/ WriteSome \/ ExecutionReady \/ ExecutionFails \/ ExecutionRefused
           \/ ExecutionRejected \/ Unlink \/ Note
           \/ ChecksSkipped \/ ChecksPass \/ ChecksFail \/ Rollback
    PROVE  /\ UNCHANGED journal /\ run' = run
           /\ run.stage["plan"] \in Finished /\ run.stage["deliver"] \in Finished
<1>1. UNCHANGED journal
  BY DEF Apply, WriteSome, ExecutionReady, ExecutionFails, ExecutionRefused,
         ExecutionRejected, Unlink, Note, ChecksSkipped, ChecksPass, ChecksFail, Rollback
<1>2. proc.pc \in {"apply", "exec", "unlink", "note", "checks", "rollback"}
  BY DEF Apply, WriteSome, ExecutionReady, ExecutionFails, ExecutionRefused,
         ExecutionRejected, Unlink, Note, ChecksSkipped, RunsChecks, ChecksPass, ChecksFail,
         Rollback, At
<1>3. AtWork(run, "apply") \/ AtWork(run, "checks")
  BY <1>2 DEF Inv, Placed, At, Names, Executing
<1> QED
  BY <1>1, <1>3, RunKept DEF AtWork

\* They keep what the process has read and built.
LEMMA LaterKeeps ==
    ASSUME Inv,
           \/ Apply \/ WriteSome \/ ExecutionReady \/ ExecutionFails \/ ExecutionRefused
           \/ ExecutionRejected \/ Unlink \/ Note
           \/ ChecksSkipped \/ ChecksPass \/ ChecksFail \/ Rollback
    PROVE  /\ proc.pc # "none" /\ proc'.image = proc.image
           /\ proc'.spec = proc.spec /\ proc'.resuming = proc.resuming
<1>1. proc \in Worker
  BY DEF Inv, Typed
<1>2. proc.pc \in {"apply", "exec", "unlink", "note", "checks", "rollback"}
  BY DEF Apply, WriteSome, ExecutionReady, ExecutionFails, ExecutionRefused,
         ExecutionRejected, Unlink, Note, ChecksSkipped, RunsChecks, ChecksPass, ChecksFail,
         Rollback, At
<1> DEFINE Kept == /\ proc'.image = proc.image
                   /\ proc'.spec = proc.spec /\ proc'.resuming = proc.resuming
<1>3. ASSUME NEW state, Outcome(state) PROVE Kept
  BY <1>1, <1>3 DEF Outcome, Worker
<1>4. ASSUME NEW state, Returns(state) PROVE Kept
  BY <1>1, <1>4 DEF Returns, Worker
<1>5. ASSUME NEW pc, Goto(pc) PROVE Kept
  BY <1>1, <1>5 DEF Goto, Worker
<1>6. ASSUME NEW hash, NEW why, NEW mode, Start(hash, why, mode) PROVE Kept
  BY <1>1, <1>6 DEF Start, Worker
<1>7. CASE Apply
  <2>1. ASSUME NEW now, proc' = [proc EXCEPT !.pc = "exec", !.why = "resume",
                                             !.doing = run.plan, !.plan = now]
        PROVE  Kept
    BY <1>1, <2>1 DEF Worker
  <2> DEFINE now == IF proc.plan = None THEN PlanOf(Wanted) ELSE proc.plan
  <2>2. \/ Outcome("skipped") \/ Outcome("done") \/ Outcome("failed")
        \/ proc' = [proc EXCEPT !.pc = "exec", !.why = "resume",
                                !.doing = run.plan, !.plan = now]
        \/ \E p \in {q \in plans' : q.hash = run.plan} : Start(run.plan, "apply", p.mode)
    BY <1>7 DEF Apply
  <2> HIDE DEF now, Kept
  <2>3. Kept
    BY <1>3, <1>6, <2>1, <2>2
  <2> QED
    BY <1>2, <2>3 DEF Kept
<1>8. CASE Note
  <2>1. \E out, final : proc' = [proc EXCEPT !.pc = "record", !.out = out, !.final = final]
    BY <1>8 DEF Note
  <2> QED
    BY <1>1, <1>2, <2>1 DEF Worker
<1>9. CASE WriteSome
  BY <1>2, <1>9 DEF WriteSome
<1>10. CASE \/ ExecutionReady \/ ExecutionFails \/ ExecutionRefused \/ ExecutionRejected
            \/ Unlink \/ ChecksSkipped \/ ChecksPass \/ ChecksFail \/ Rollback
  BY <1>2, <1>3, <1>4, <1>5, <1>6, <1>10
     DEF ExecutionReady, ExecutionFails, ExecutionRefused, ExecutionRejected, Unlink,
         ChecksSkipped, ChecksPass, ChecksFail, Rollback
<1> QED
  BY <1>7, <1>8, <1>9, <1>10

\* Only a resumption adds to the runs that were built again.
LEMMA RebuiltGrows ==
    ASSUME Inv, [Next]_vars
    PROVE  /\ past.rebuilt \subseteq past'.rebuilt
           /\ (\A m \in Machines : ~Resume(m)) => past'.rebuilt = past.rebuilt
<1>1. past \in Past
  BY DEF Inv, Typed
<1>2. ASSUME NEW m \in Machines, Resume(m) PROVE past.rebuilt \subseteq past'.rebuilt
  BY <1>1, <1>2 DEF Resume, Past
<1>3. CASE ChecksPass
  BY <1>1, <1>3 DEF ChecksPass, Past
<1>4. CASE Rollback
  BY <1>1, <1>4 DEF Rollback, Past
<1>5. CASE UNCHANGED past
  BY <1>5
<1>6. ASSUME NEW m \in Machines, Execute(m) PROVE UNCHANGED past
  BY <1>6 DEF Execute
<1>7. ASSUME NEW x \in Releases, Edit(x) PROVE UNCHANGED past
  BY <1>7 DEF Edit
<1>8. CASE NextStage \/ EndRun \/ Record \/ FailRun \/ StageFails \/ Build \/ Deliver \/ Plan
  BY <1>8 DEF NextStage, EndRun, Record, FailRun, StageFails, Build, Deliver, Plan
<1>9. CASE \/ Apply \/ WriteSome \/ ExecutionReady \/ ExecutionFails \/ ExecutionRefused
           \/ ExecutionRejected \/ Unlink \/ Note \/ ChecksSkipped \/ ChecksFail
  BY <1>9 DEF Apply, WriteSome, ExecutionReady, ExecutionFails, ExecutionRefused,
              ExecutionRejected, Unlink, Note, ChecksSkipped, ChecksFail
<1>10. CASE EditByHand \/ Kill \/ UNCHANGED vars
  BY <1>10 DEF EditByHand, Kill, vars
<1> QED
  BY <1>2, <1>3, <1>4, <1>5, <1>6, <1>7, <1>8, <1>9, <1>10 DEF Next, Process

LEMMA OriginalStep ==
    ASSUME Inv, [Next]_vars
    PROVE  Original'
<1>1. Typed /\ Placed /\ Original /\ Holding /\ past.rebuilt \subseteq past'.rebuilt
  BY RebuiltGrows DEF Inv
<1>2. CASE UNCHANGED journal
  BY <1>1, <1>2 DEF Original
<1>3. ASSUME NEW rec \in Run, SetRun(rec), Latest > 0, rec.spec = run.spec,
             rec.built # None => \/ rec.built = run.built
                                 \/ rec.built = run.spec.image
                                 \/ Latest \in past.rebuilt
      PROVE  Original'
  <2>1. /\ DOMAIN journal' = DOMAIN journal /\ Latest \in DOMAIN journal /\ run' = rec
        /\ Latest' = Latest
        /\ \A i \in DOMAIN journal : i # Latest => journal'[i] = journal[i]
    BY <1>1, <1>3, SetRunIs DEF Typed
  <2>2. journal'[Latest] = rec /\ journal[Latest] = run
    BY <2>1 DEF run
  <2>3. ASSUME NEW i \in DOMAIN journal', journal'[i].built # None
        PROVE  journal'[i].built = journal'[i].spec.image \/ i \in past'.rebuilt
    <3>1. CASE i = Latest
      BY <1>1, <1>3, <2>1, <2>2, <2>3, <3>1 DEF Original
    <3>2. CASE i # Latest
      BY <1>1, <2>1, <2>3, <3>2 DEF Original
    <3> QED
      BY <3>1, <3>2
  <2> QED
    BY <2>3 DEF Original
<1>4. ASSUME NEW m \in Machines, Execute(m) PROVE Original'
  <2>1. Latest \in Nat
    BY <1>1 DEF Typed, Latest
  <2>2. ASSUME NEW i \in DOMAIN journal', journal'[i].built # None
        PROVE  i \in DOMAIN journal /\ journal'[i] = journal[i]
    <3>1. i # Latest'
      BY <1>4, <2>2, ExecuteIs DEF run
    <3> QED
      BY <1>4, <2>1, <3>1, ExecuteIs
  <2> QED
    BY <1>1, <2>2 DEF Original
<1>5. ASSUME NEW m \in Machines, Resume(m) PROVE Original'
  <2>1. PICK rec \in Run :
            /\ SetRun(rec) /\ run \in Run /\ Latest > 0
            /\ rec.spec = run.spec /\ rec.built = run.built
    BY <1>5, ResumeIs
  <2> QED
    BY <1>3, <2>1
<1>6. CASE NextStage
  <2>1. PICK name \in Names :
            LET rec == [run EXCEPT !.stage[name] = "running"]
            IN  rec \in Run /\ rec.spec = run.spec /\ rec.built = run.built /\ SetRun(rec)
    BY <1>6, NextStageIs
  <2>2. Latest > 0
    BY <1>1, <1>6 DEF NextStage, At, Placed
  <2> QED
    BY <1>3, <2>1, <2>2
<1>7. CASE Record
  <2>1. PICK name \in Names : SavesStage(name, proc.out)
    BY <1>7, RecordSaves
  <2>2. /\ Latest \in DOMAIN journal /\ DOMAIN journal' = DOMAIN journal
        /\ \A i \in DOMAIN journal : i # Latest => journal'[i] = journal[i]
        /\ Latest' = Latest /\ run'.spec = run.spec
        /\ run'.built \in {run.built, proc.image}
    BY <2>1 DEF SavesStage
  <2>3. journal'[Latest] = run' /\ journal[Latest] = run
    BY <2>2 DEF run
  <2>4. proc.image # None => proc.image = run.spec.image \/ Latest \in past.rebuilt
    BY <1>1, <1>7 DEF Record, At, Holding
  <2>5. ASSUME NEW i \in DOMAIN journal', journal'[i].built # None
        PROVE  journal'[i].built = journal'[i].spec.image \/ i \in past'.rebuilt
    <3>1. CASE i = Latest
      BY <1>1, <2>2, <2>3, <2>4, <2>5, <3>1 DEF Original
    <3>2. CASE i # Latest
      BY <1>1, <2>2, <2>5, <3>2 DEF Original
    <3> QED
      BY <3>1, <3>2
  <2> QED
    BY <2>5 DEF Original
<1>8. CASE EndRun \/ FailRun
  <2>1. Latest > 0 /\ run \in Run
    BY <1>1, <1>8, RunIs DEF EndRun, FailRun, At, Placed, Typed
  <2>2. PICK state \in {"ready", "failed", "rolled-back"} : SetRun([run EXCEPT !.state = state])
    <3>1. FailRun => proc.final \in {"failed", "rolled-back"}
      BY <1>1 DEF FailRun, At, Placed
    <3> QED
      BY <1>8, <3>1 DEF EndRun, FailRun
  <2> DEFINE rec == [run EXCEPT !.state = state]
  <2>3. rec \in Run /\ rec.spec = run.spec /\ rec.built = run.built /\ SetRun(rec)
    BY <2>1, <2>2 DEF Run
  <2> HIDE DEF rec
  <2> QED
    BY <1>3, <2>1, <2>3
<1> QED
  BY <1>2, <1>4, <1>5, <1>6, <1>7, <1>8, JournalKept

LEMMA HoldingStep ==
    ASSUME Inv, [Next]_vars
    PROVE  Holding'
<1>1. /\ Typed /\ Placed /\ Original /\ Holding /\ proc \in Worker
      /\ past.rebuilt \subseteq past'.rebuilt
  BY RebuiltGrows DEF Inv, Typed
<1>2. ASSUME NEW m \in Machines, Execute(m) PROVE Holding'
  <2>1. /\ proc'.pc = "next" /\ ~proc'.resuming /\ proc'.spec = declared
        /\ proc'.image = None
    BY <1>2 DEF Execute, Idle
  <2>2. run'.spec = declared /\ run'.stage["build"] \notin Finished
    BY <1>2, ExecuteIs DEF Names, Finished
  <2> QED
    BY <2>1, <2>2 DEF Holding, Built, At
<1>3. ASSUME NEW m \in Machines, Resume(m) PROVE Holding'
  <2>1. PICK rec \in Run :
            /\ SetRun(rec) /\ run \in Run /\ Latest > 0
            /\ rec.spec = run.spec /\ rec.built = run.built
            /\ rec.stage["build"] = IF Rebuilt(m) THEN "pending" ELSE run.stage["build"]
    BY <1>3, ResumeIs
  <2>2. run' = rec /\ Latest' = Latest /\ Latest \in DOMAIN journal /\ journal[Latest] = run
    BY <1>1, <2>1, SetRunIs DEF Typed, run
  <2>3. /\ proc'.pc = "next" /\ proc'.resuming /\ proc'.spec = declared
        /\ proc'.image = IF Rebuilt(m) THEN None ELSE run.built
        /\ run.built # None /\ run.stage["build"] \notin Finished => proc'.trusts
    BY <1>3 DEF Resume, Idle
  <2>4. run.built # None => run.built = run.spec.image \/ Latest \in past.rebuilt
    BY <1>1, <2>2 DEF Original
  <2>5. Rebuilt(m) /\ declared.image # run.spec.image => Latest \in past'.rebuilt
    BY <1>1, <1>3 DEF Resume, Typed, Past
  <2>6. run.built = None => declared.image = run.spec.image
    BY <1>3 DEF Resume
  <2>7. Rebuilt(m) => rec.stage["build"] \notin Finished
    BY <2>1 DEF Finished
  <2> QED
    BY <1>1, <2>1, <2>2, <2>3, <2>4, <2>5, <2>6, <2>7 DEF Holding, Built, At
<1>4. CASE NextStage
  <2>1. PICK name \in Names : SavesStage(name, "running") /\ proc'.pc = name
    BY <1>4, NextStageSaves
  <2>2. /\ run'.stage["build"] \in Finished <=> run.stage["build"] \in Finished
        /\ run'.built = run.built /\ run'.spec = run.spec /\ Latest' = Latest
        /\ Same
    BY <2>1 DEF SavesStage, Run, AtWork, Names, Finished
  <2>3. proc.pc = "next" /\ proc'.pc \notin {"none", "record"}
    BY <1>4, <2>1 DEF NextStage, At, Names
  <2> QED
    BY <1>1, <2>2, <2>3 DEF Holding, Built, Same, At
<1>5. CASE Record
  <2>1. PICK name \in Names : SavesStage(name, proc.out)
    BY <1>5, RecordSaves
  <2>2. /\ proc.pc = "record" /\ proc'.pc \in {"next", "fail"}
        /\ proc.out \in {"done", "skipped", "failed"}
    BY <1>5, RecordSaves
  <2>3. Same /\ run'.spec = run.spec /\ Latest' = Latest
    BY <2>1 DEF SavesStage
  <2>4. CASE name = "build"
    <3>1. /\ run.stage["build"] \notin Finished
          /\ run'.stage["build"] \in Finished <=> proc.out # "failed"
          /\ proc.out # "failed" => run'.built = proc.image
      BY <2>1, <2>2, <2>4 DEF SavesStage, Run, AtWork, Names, Finished
    <3> QED
      BY <1>1, <2>2, <2>3, <3>1 DEF Holding, Built, Same, At
  <2>5. CASE name # "build"
    <3>1. /\ run.stage["build"] \in Finished /\ run'.stage["build"] = run.stage["build"]
          /\ run'.built = run.built
      BY <2>1, <2>5 DEF SavesStage, Run, AtWork, Names
    <3> QED
      BY <1>1, <2>2, <2>3, <3>1 DEF Holding, Built, Same, At
  <2> QED
    BY <2>4, <2>5
<1>6. CASE EndRun \/ FailRun \/ Kill
  BY <1>6 DEF EndRun, FailRun, Kill, Idle, Holding
<1>7. CASE Build
  <2>1. /\ proc.pc = "build" /\ run' = run /\ Latest' = Latest
        /\ proc.spec.image \in Images /\ run.stage["build"] \notin Finished
    <3>1. proc.pc = "build" /\ proc.spec \in Releases /\ AtWork(run, "build")
      BY <1>1, <1>7 DEF Build, At, Placed, Names
    <3> QED
      BY <1>7, <3>1, RunKept DEF Build, AtWork, Images
  <2>2. proc.spec.image # None
    BY <2>1, PipelineAssumption
  <2>3. PICK image : /\ \E state \in {"done", "skipped"} : With(image, state)
                     /\ image = IF proc.image # None THEN proc.image ELSE proc.spec.image
    BY <1>7 DEF Build
  <2>4. /\ proc'.pc = "record" /\ proc'.out # "failed" /\ proc'.image = image
        /\ proc'.spec = proc.spec /\ proc'.resuming = proc.resuming
    BY <1>1, <2>3, WithKeeps
  <2>5. /\ image # None
        /\ image = run.spec.image \/ Latest \in past.rebuilt
        /\ ~proc.resuming => proc.spec = run.spec /\ image = run.spec.image
    BY <1>1, <2>1, <2>2, <2>3 DEF Holding
  <2> QED
    BY <1>1, <2>1, <2>4, <2>5 DEF Holding, Built, At
<1>8. CASE StageFails \/ Deliver \/ Plan
  <2>1. /\ proc.pc \in {"build", "deliver", "plan"} /\ run' = run /\ Latest' = Latest
        /\ proc.pc \in {"deliver", "plan"} \/ Outcome("failed")
    BY <1>8, RunKept DEF StageFails, Deliver, Plan, At
  <2>2. /\ proc'.pc = "record" /\ proc'.spec = proc.spec /\ proc'.image = proc.image
        /\ proc'.resuming = proc.resuming /\ proc'.trusts = proc.trusts
    <3>1. \/ \E state \in {"done", "skipped", "failed"} : Outcome(state)
          \/ proc' = [proc EXCEPT !.pc = "record", !.plan = PlanOf(Wanted), !.out = "done"]
      BY <1>8 DEF StageFails, Deliver, Plan
    <3> QED
      BY <1>1, <3>1 DEF Outcome, Worker
  <2>3. CASE proc.pc \in {"deliver", "plan"}
    <3>1. run.stage["build"] \in Finished /\ proc.pc # "none"
      BY <1>1, <2>3 DEF Placed, AtWork, Names
    <3>2. proc.image \in Images /\ None \notin Images
      BY <3>1, HoldsImage, PipelineAssumption
    <3> QED
      BY <1>1, <2>1, <2>2, <3>1, <3>2 DEF Holding
  <2>4. CASE Outcome("failed")
    <3>1. proc'.out = "failed"
      BY <1>1, <2>4, OutcomeKeeps
    <3> QED
      BY <1>1, <2>1, <2>2, <3>1 DEF Holding, Built, At
  <2> QED
    BY <2>1, <2>3, <2>4
<1>9. CASE \/ Apply \/ WriteSome \/ ExecutionReady \/ ExecutionFails \/ ExecutionRefused
           \/ ExecutionRejected \/ Unlink \/ Note
           \/ ChecksSkipped \/ ChecksPass \/ ChecksFail \/ Rollback
  <2>1. /\ run' = run /\ Latest' = Latest
        /\ proc.pc # "none" /\ proc'.image = proc.image
        /\ proc'.spec = proc.spec /\ proc'.resuming = proc.resuming
    BY <1>9, LaterIs, LaterKeeps, RunKept
  <2>2. run.stage["build"] \in Finished
    <3>1. run.stage["deliver"] \in Finished /\ Latest \in DOMAIN journal
      BY <1>1, <1>9, <2>1, LaterIs, RunIs DEF Placed, Typed
    <3> QED
      BY <3>1 DEF Inv, Sound, Orderly, run
  <2>3. proc.image \in Images /\ None \notin Images
    BY <2>1, <2>2, HoldsImage, PipelineAssumption
  <2> QED
    BY <1>1, <2>1, <2>2, <2>3 DEF Holding
<1>10. CASE UNCHANGED <<journal, proc>>
  BY <1>1, <1>10, RunKept DEF Holding, Built, At
<1>11. EditByHand \/ (\E x \in Releases : Edit(x)) => UNCHANGED <<journal, proc>>
  BY DEF EditByHand, Edit
<1>12. UNCHANGED vars => UNCHANGED <<journal, proc>>
  BY DEF vars
<1> QED
  BY <1>2, <1>3, <1>4, <1>5, <1>6, <1>7, <1>8, <1>9, <1>10, <1>11, <1>12 DEF Next, Process

LEMMA PlanningStep ==
    ASSUME Inv, [Next]_vars
    PROVE  Planning'
<1>1. Typed /\ Placed /\ Planning /\ proc \in Worker
  BY DEF Inv, Typed
<1>2. ASSUME NEW m \in Machines, Execute(m) PROVE Planning'
  <2>1. /\ proc'.pc = "next" /\ ~proc'.resuming
        /\ proc'.plan = IF Shown(m) THEN PlanOf(declared) ELSE None
    BY <1>2 DEF Execute, Idle, Shown
  <2>2. PlanOf(declared) \in Hash /\ PlanOf(declared).release = declared
    BY <1>1, PlanOfIs DEF Typed, PlanOf
  <2>3. PlanOf(declared) # None
    BY <2>2, NoneIsNoHash
  <2> QED
    BY <1>2, <2>1, <2>2, <2>3, ExecuteIs DEF Planning, At
<1>3. ASSUME NEW m \in Machines, Resume(m) PROVE Planning'
  BY <1>3 DEF Resume, Idle, Planning, At
<1>4. CASE NextStage
  <2>1. PICK name \in Names : SavesStage(name, "running") /\ proc'.pc = name
    BY <1>4, NextStageSaves
  <2>2. /\ run'.stage["plan"] \notin Finished => run.stage["plan"] \notin Finished
        /\ run.stage["build"] \in Finished => run'.stage["build"] \in Finished
    BY <2>1 DEF SavesStage, Run, AtWork, Names
  <2>3. proc.pc # "none" /\ proc'.pc # "record"
    BY <1>4, <2>1 DEF NextStage, At, Names
  <2> QED
    BY <1>1, <2>1, <2>2, <2>3 DEF Planning, SavesStage, Same, At
<1>5. CASE Record
  <2>1. PICK name \in Names : SavesStage(name, proc.out)
    BY <1>5, RecordSaves
  <2>2. /\ run'.stage["plan"] \notin Finished => run.stage["plan"] \notin Finished
        /\ run.stage["build"] \in Finished => run'.stage["build"] \in Finished
    BY <2>1 DEF SavesStage, Run, AtWork, Names
  <2>3. proc.pc # "none" /\ proc'.pc # "record"
    BY <1>5, RecordSaves
  <2> QED
    BY <1>1, <2>1, <2>2, <2>3 DEF Planning, SavesStage, Same, At
<1>6. CASE EndRun \/ FailRun \/ Kill
  BY <1>6 DEF EndRun, FailRun, Kill, Idle, Planning
<1>13. CASE Build
  <2>1. /\ proc.pc = "build" /\ run' = run
        /\ run.stage["build"] \notin Finished
    BY <1>1, <1>13, RunKept DEF Build, At, Placed, AtWork, Names
  <2>2. /\ proc'.plan = proc.plan /\ proc'.resuming = proc.resuming
    BY <1>1, <1>13, WithKeeps DEF Build
  <2> QED
    BY <1>1, <2>1, <2>2 DEF Planning, AtWork
<1>7. CASE StageFails \/ Deliver
  <2>1. /\ UNCHANGED journal /\ proc.pc \in {"build", "deliver", "plan"}
        /\ \/ Outcome("failed")
           \/ proc.pc \in {"build", "deliver"} /\ (Outcome("done") \/ Outcome("skipped"))
    BY <1>7 DEF StageFails, Deliver, At
  <2>2. run' = run /\ AtWork(run, proc.pc)
    BY <1>1, <2>1, RunKept DEF Placed, Names
  <2>3. /\ Same
        /\ AtWork(run, "plan") => proc'.out = "failed"
    <3>1. AtWork(run, "plan") => proc.pc = "plan"
      BY <2>1, <2>2 DEF AtWork
    <3> QED
      BY <1>1, <2>1, <3>1, OutcomeKeeps
  <2> QED
    BY <1>1, <2>1, <2>2, <2>3 DEF Planning, Same, At
<1>8. CASE Plan
  <2>1. /\ At("plan") /\ UNCHANGED journal /\ run' = run
        /\ run \in Run /\ AtWork(run, "plan") /\ proc.spec \in Releases
    BY <1>1, <1>8, RunIs, RunKept DEF Plan, At, Placed, Names, Typed
  <2>2. /\ run.stage["plan"] \notin Finished /\ proc.pc # "none"
        /\ run.stage["build"] \in Finished
    BY <2>1 DEF AtWork, At
  <2>3. CASE proc.plan # None /\ ~proc.resuming
    <3>1. Outcome("done")
      BY <1>8, <2>3 DEF Plan
    <3> QED
      BY <1>1, <2>1, <2>2, <2>3, <3>1, OutcomeKeeps DEF Planning, Same, At
  <2>4. CASE ~(proc.plan # None /\ ~proc.resuming)
    <3> DEFINE hash == PlanOf(Wanted)
    <3>1. /\ hash \in Hash /\ hash.release = Wanted /\ Wanted.image = proc.image
          /\ proc.spec.image = proc.image => Wanted = proc.spec
      BY <1>1, <2>1, <2>2, HoldsImage, WantedIs, PlanOfIs DEF PlanOf
    <3>2. hash # None
      BY <3>1, NoneIsNoHash
    <3>3. IF proc.resuming /\ run.approved \notin {None, hash.release}
          THEN Outcome("failed")
          ELSE proc' = [proc EXCEPT !.pc = "record", !.plan = hash, !.out = "done"]
      BY <1>8, <2>4 DEF Plan
    <3>4. CASE proc.resuming /\ run.approved \notin {None, hash.release}
      BY <1>1, <2>1, <2>2, <3>3, <3>4, OutcomeKeeps DEF Planning, Same, At
    <3>5. CASE ~(proc.resuming /\ run.approved \notin {None, hash.release})
      <4>1. ~proc.resuming => run.approved = None
        BY <1>1, <2>2, <2>4 DEF Planning, Worker
      <4>2. run.approved \in {None, hash.release}
        BY <3>5, <4>1, <1>1 DEF Worker
      <4>4. ~proc.resuming => hash.release = run.spec
        <5>1. ~proc.resuming => proc.spec = run.spec /\ proc.image \in {None, run.spec.image}
          BY <2>2 DEF Inv, Holding
        <5>2. proc.image # None
          BY <2>2, HoldsImage, PipelineAssumption
        <5> QED
          BY <3>1, <5>1, <5>2
      <4> HIDE DEF hash
      <4>3. /\ proc'.plan = hash /\ proc'.image = proc.image
            /\ proc'.resuming = proc.resuming
        BY <1>1, <3>3, <3>5 DEF Worker
      <4> QED
        BY <2>1, <2>2, <3>1, <3>2, <4>2, <4>3, <4>4 DEF Planning
    <3> QED
      BY <3>4, <3>5
  <2> QED
    BY <2>3, <2>4
<1>9. CASE \/ Apply \/ WriteSome \/ ExecutionReady \/ ExecutionFails \/ ExecutionRefused
           \/ ExecutionRejected \/ Unlink \/ Note
           \/ ChecksSkipped \/ ChecksPass \/ ChecksFail \/ Rollback
  <2>1. run' = run /\ run.stage["plan"] \in Finished
    BY <1>9, LaterIs
  <2> QED
    BY <2>1 DEF Planning
<1>10. CASE UNCHANGED <<journal, proc>>
  BY <1>1, <1>10, RunKept DEF Planning, At
<1>11. EditByHand \/ (\E r \in Releases : Edit(r)) => UNCHANGED <<journal, proc>>
  BY DEF EditByHand, Edit
<1>12. UNCHANGED vars => UNCHANGED <<journal, proc>>
  BY DEF vars
<1> QED
  BY <1>2, <1>3, <1>4, <1>5, <1>6, <1>7, <1>8, <1>9, <1>10, <1>11, <1>12, <1>13
     DEF Next, Process

LEMMA HereStep ==
    ASSUME Inv, [Next]_vars
    PROVE  Here'
<1>1. /\ Typed /\ Placed /\ Here /\ proc \in Worker
      /\ images \in [Machines -> SUBSET Images]
  BY DEF Inv, Typed
<1>2. ASSUME NEW m \in Machines, Execute(m) PROVE Here'
  <2>1. proc'.pc = "next" /\ run'.stage["build"] = "pending"
    BY <1>2, ExecuteIs DEF Execute, Idle, Names
  <2> QED
    BY <2>1 DEF Here, Built, At, Finished
<1>3. ASSUME NEW m \in Machines, Resume(m) PROVE Here'
  <2>1. PICK rec \in Run :
            /\ SetRun(rec) /\ run \in Run /\ Latest > 0
            /\ rec.stage["build"] = IF Rebuilt(m) THEN "pending" ELSE run.stage["build"]
            /\ \A name \in Names \ {"build"} : rec.stage[name] = run.stage[name]
    BY <1>3, ResumeIs
  <2>2. /\ run' = rec /\ proc'.pc = "next" /\ proc'.at = m
        /\ proc'.image = IF Rebuilt(m) THEN None ELSE run.built
        /\ UNCHANGED <<images, registry>>
    BY <1>1, <1>3, <2>1, SetRunIs DEF Typed, Resume, Idle, stores
  <2> SUFFICES ASSUME run'.stage["deliver"] \notin Finished, run'.stage["build"] \in Finished
               PROVE  Reaches(m, proc'.image)
    BY <2>2 DEF Here, Built, At, Reaches
  <2>3. ~Rebuilt(m) /\ run.stage["build"] \in Finished /\ run.stage["deliver"] \notin Finished
    BY <2>1, <2>2 DEF Finished, Names
  <2> QED
    BY <2>2, <2>3 DEF Rebuilt
<1>4. CASE NextStage
  <2>1. PICK name \in Names : SavesStage(name, "running") /\ proc'.pc = name
    BY <1>4, NextStageSaves
  <2>2. /\ run'.stage["build"] \in Finished => run.stage["build"] \in Finished
        /\ run'.stage["deliver"] \notin Finished => run.stage["deliver"] \notin Finished
    BY <2>1 DEF SavesStage, Run, AtWork, Names, Finished
  <2>3. proc.pc # "none" /\ proc'.pc # "record" /\ UNCHANGED <<images, registry>>
    BY <1>4, <2>1 DEF NextStage, At, Names, stores
  <2> QED
    BY <1>1, <2>1, <2>2, <2>3 DEF Here, SavesStage, Same, Built, Reaches, At
<1>5. CASE Record
  <2>1. PICK name \in Names : SavesStage(name, proc.out)
    BY <1>5, RecordSaves
  <2>2. /\ run'.stage["build"] \in Finished =>
              run.stage["build"] \in Finished \/ proc.out # "failed"
        /\ run'.stage["deliver"] \notin Finished => run.stage["deliver"] \notin Finished
    BY <2>1 DEF SavesStage, Run, AtWork, Names, Finished
  <2>3. proc.pc = "record" /\ proc'.pc # "record" /\ UNCHANGED <<images, registry>>
    BY <1>5, RecordSaves DEF Record, stores
  <2> QED
    BY <1>1, <2>1, <2>2, <2>3 DEF Here, SavesStage, Same, Built, Reaches, At
<1>6. CASE EndRun \/ FailRun \/ Kill
  BY <1>6 DEF EndRun, FailRun, Kill, Idle, Here
<1>7. CASE Build
  <2>1. /\ proc.pc = "build" /\ UNCHANGED <<journal, registry>> /\ run' = run
        /\ proc.at \in Machines /\ run.stage["build"] \notin Finished
    BY <1>1, <1>7, RunKept DEF Build, Placed, At, AtWork, Names, stores
  <2>2. proc'.at = proc.at /\ proc'.trusts = proc.trusts
    BY <1>1, <1>7, WithKeeps DEF Build
  <2>3. CASE proc.image # None
    <3>1. proc.trusts
      BY <2>1, <2>3 DEF Inv, Holding, Built, At
    <3> QED
      BY <2>2, <3>1 DEF Here
  <2>4. CASE proc.image = None
    <3>1. proc'.image = proc.spec.image
      BY <1>1, <1>7, <2>4, WithKeeps DEF Build
    <3>2. CASE Cached(proc.at, proc.spec.image)
      BY <1>7, <2>2, <2>4, <3>1, <3>2 DEF Build, Cached, Reaches, Here, stores
    <3>3. CASE ~Cached(proc.at, proc.spec.image)
      <4>1. images' = [images EXCEPT ![proc.at] = @ \cup {proc.spec.image}]
        BY <1>7, <2>4, <3>3 DEF Build
      <4>2. proc.spec.image \in images'[proc.at]
        BY <1>1, <2>1, <4>1
      <4> QED
        BY <2>2, <3>1, <4>2 DEF Here, Reaches
    <3> QED
      BY <3>2, <3>3
  <2> QED
    BY <2>3, <2>4
<1>8. CASE Deliver \/ StageFails
  <2>1. /\ proc.pc \in {"build", "deliver", "plan"} /\ UNCHANGED <<journal, images>>
        /\ registry \subseteq registry' /\ run' = run /\ Same
        /\ proc.pc \in {"deliver", "plan"} \/ Outcome("failed")
    BY <1>1, <1>8, RunKept, OutcomeKeeps DEF Deliver, StageFails, At, stores
  <2>2. CASE proc.pc \in {"deliver", "plan"}
    <3>1. run.stage["build"] \in Finished
      BY <1>1, <2>2 DEF Placed, AtWork, Names
    <3> QED
      BY <1>1, <2>1, <2>2, <3>1 DEF Here, Same, Reaches
  <2>3. CASE Outcome("failed")
    <3>1. proc'.out = "failed"
      BY <1>1, <2>3, OutcomeKeeps
    <3> QED
      BY <1>1, <2>1, <3>1 DEF Here, Same, Reaches, Built, At
  <2> QED
    BY <2>1, <2>2, <2>3
<1>9. CASE Plan
  <2>1. run' = run /\ AtWork(run, "plan")
    BY <1>1, <1>9, RunKept DEF Plan, At, Placed, Names
  <2> QED
    BY <2>1 DEF Here, AtWork
<1>10. CASE \/ Apply \/ WriteSome \/ ExecutionReady \/ ExecutionFails \/ ExecutionRefused
            \/ ExecutionRejected \/ Unlink \/ Note
            \/ ChecksSkipped \/ ChecksPass \/ ChecksFail \/ Rollback
  <2>1. run' = run /\ run.stage["deliver"] \in Finished
    BY <1>10, LaterIs
  <2> QED
    BY <2>1 DEF Here
<1>11. CASE UNCHANGED <<journal, proc, images, registry>>
  BY <1>1, <1>11, RunKept DEF Here, Reaches, Built, At
<1>12. EditByHand \/ (\E r \in Releases : Edit(r)) =>
           UNCHANGED <<journal, proc, images, registry>>
  BY DEF EditByHand, Edit, stores
<1>13. UNCHANGED vars => UNCHANGED <<journal, proc, images, registry>>
  BY DEF vars
<1> QED
  BY <1>2, <1>3, <1>4, <1>5, <1>6, <1>7, <1>8, <1>9, <1>10, <1>11, <1>12, <1>13 DEF Next, Process

-----------------------------------------------------------------------------
(* What the apply stage did became ready.                                  *)

AllReadied ==
    \A i \in DOMAIN journal :
        journal[i].stage["apply"] = "done" => Readied(journal[i].plan)
RecordReadied ==
    At("record") /\ AtWork(run, "apply") /\ proc.out = "done" => Readied(run.plan)
Traced ==
    proc.pc \in Executing =>
        /\ proc.why # "rollback" => proc.doing = run.plan
        /\ proc.why = "resume" =>
              \E j \in DOMAIN history : history[j].plan = proc.doing
        /\ proc.why # "resume" =>
              /\ history[Len(history)].plan = proc.doing
              /\ history[Len(history)].state = "running"

ReadiedNext(hash) ==
    \E j \in DOMAIN history' : history'[j].plan = hash /\ history'[j].state = "ready"

LEMMA EffectsAre == Effects <=> Traced /\ RecordReadied /\ AllReadied
  BY DEF Effects, Traced, RecordReadied, AllReadied

LEMMA AllReadiedStep ==
    ASSUME Inv, [Next]_vars
    PROVE  AllReadied'
<1> SUFFICES \A i \in DOMAIN journal' :
                 journal'[i].stage["apply"] = "done" => ReadiedNext(journal'[i].plan)
  BY DEF AllReadied, Readied, ReadiedNext
<1>0. Latest > 0 => Orderly(run)
  BY RunIs DEF Inv, Sound, Typed, run
<1>1. Typed /\ Placed /\ AllReadied /\ RecordReadied /\ Grows
  BY EffectsAre, HistoryStep DEF Inv
<1>2. ASSUME NEW i \in DOMAIN journal, i \in DOMAIN journal',
             journal'[i].plan = journal[i].plan,
             journal'[i].stage["apply"] = journal[i].stage["apply"],
             journal'[i].stage["apply"] = "done"
      PROVE  ReadiedNext(journal'[i].plan)
  <2>1. Readied(journal[i].plan)
    BY <1>1, <1>2 DEF AllReadied
  <2> QED
    BY <1>1, <1>2, <2>1 DEF Readied, Grows, ReadiedNext
<1>3. ASSUME NEW m \in Machines, Execute(m)
      PROVE  \A i \in DOMAIN journal' :
                 journal'[i].stage["apply"] = "done" => ReadiedNext(journal'[i].plan)
  <2>1. ASSUME NEW i \in DOMAIN journal', journal'[i].stage["apply"] = "done"
        PROVE  i \in DOMAIN journal /\ journal'[i] = journal[i]
    <3>1. i # Latest'
      <4>1. run'.stage["apply"] = "pending"
        BY <1>3, ExecuteIs DEF Names
      <4> QED
        BY <2>1, <4>1 DEF run
    <3>2. Latest \in Nat
      BY <1>1 DEF Typed, Latest
    <3> QED
      BY <1>3, <3>1, <3>2, ExecuteIs
  <2> QED
    BY <1>2, <2>1
<1>4. ASSUME NEW m \in Machines, Resume(m)
      PROVE  \A i \in DOMAIN journal' :
                 journal'[i].stage["apply"] = "done" => ReadiedNext(journal'[i].plan)
  <2>1. PICK rec \in Run :
            /\ SetRun(rec) /\ run \in Run /\ Latest > 0
            /\ rec.spec = run.spec /\ rec.approved = run.approved /\ rec.plan = run.plan
            /\ rec.state = "running" /\ rec.built = run.built
            /\ rec.stage["build"] = IF Rebuilt(m) THEN "pending" ELSE run.stage["build"]
            /\ \A name \in Names \ {"build"} : rec.stage[name] = run.stage[name]
    BY <1>4, ResumeIs
  <2>2. /\ Latest' = Latest /\ run' = rec /\ DOMAIN journal' = DOMAIN journal
        /\ \A i \in DOMAIN journal : i # Latest => journal'[i] = journal[i]
    BY <1>1, <2>1, SetRunIs DEF Typed
  <2>3. journal'[Latest].plan = journal[Latest].plan
        /\ journal'[Latest].stage["apply"] = journal[Latest].stage["apply"]
    BY <2>1, <2>2 DEF run, Names
  <2> QED
    BY <1>2, <2>2, <2>3
<1>5. CASE NextStage
  <2>1. PICK name \in Names : SavesStage(name, "running")
    BY <1>5, NextStageSaves
  <2>2. run'.stage["apply"] = "done" =>
            run.stage["apply"] = "done" /\ run'.plan = run.plan
    <3>1. Orderly(run)
      BY <1>0, <1>1, <1>5 DEF NextStage, At, Placed
    <3> QED
      BY <2>1, <3>1 DEF SavesStage, Run, Names, AtWork, Finished, Orderly
  <2>3. journal'[Latest] = run' /\ journal[Latest] = run
    BY <2>1 DEF SavesStage, run
  <2>4. ASSUME NEW i \in DOMAIN journal', journal'[i].stage["apply"] = "done"
        PROVE  /\ i \in DOMAIN journal /\ journal'[i].plan = journal[i].plan
               /\ journal'[i].stage["apply"] = journal[i].stage["apply"]
    BY <2>1, <2>2, <2>3, <2>4 DEF SavesStage
  <2> QED
    BY <1>2, <2>4
<1>6. CASE Record
  <2>1. PICK name \in Names : SavesStage(name, proc.out)
    BY <1>6, RecordSaves
  <2>2. CASE name = "apply" /\ proc.out = "done"
    <3>1. Readied(run.plan) /\ run'.plan = run.plan
      BY <1>1, <1>6, <2>1, <2>2 DEF RecordReadied, Record, SavesStage
    <3>2. ReadiedNext(run.plan)
      BY <1>1, <3>1 DEF Readied, Grows, ReadiedNext
    <3>3. journal'[Latest] = run'
      BY <2>1 DEF SavesStage, run
    <3>4. ASSUME NEW i \in DOMAIN journal', journal'[i].stage["apply"] = "done"
          PROVE  ReadiedNext(journal'[i].plan)
      <4>1. CASE i = Latest
        BY <3>1, <3>2, <3>3, <4>1
      <4>2. CASE i # Latest
        BY <1>2, <2>1, <3>4, <4>2 DEF SavesStage
      <4> QED
        BY <4>1, <4>2
    <3> QED
      BY <3>4
  <2>3. CASE ~(name = "apply" /\ proc.out = "done")
    <3>1. run'.stage["apply"] = "done" =>
              run.stage["apply"] = "done" /\ run'.plan = run.plan
      <4>1. Orderly(run)
        BY <1>0, <1>1, <1>6 DEF Record, At, Placed
      <4> QED
        BY <2>1, <2>3, <4>1 DEF SavesStage, Run, Names, AtWork, Finished, Orderly
    <3>2. journal'[Latest] = run' /\ journal[Latest] = run
      BY <2>1 DEF SavesStage, run
    <3>3. ASSUME NEW i \in DOMAIN journal', journal'[i].stage["apply"] = "done"
          PROVE  /\ i \in DOMAIN journal /\ journal'[i].plan = journal[i].plan
                 /\ journal'[i].stage["apply"] = journal[i].stage["apply"]
      BY <2>1, <3>1, <3>2, <3>3 DEF SavesStage
    <3> QED
      BY <1>2, <3>3
  <2> QED
    BY <2>2, <2>3
<1>7. CASE EndRun \/ FailRun
  <2>1. Latest > 0 /\ journal \in Seq(Run) /\ run \in Run
    BY <1>1, <1>7, RunIs DEF EndRun, FailRun, At, Placed, Typed
  <2>2. \E state \in {"ready", "failed", "rolled-back"} : SetRun([run EXCEPT !.state = state])
    <3>1. FailRun => proc.final \in {"failed", "rolled-back"}
      BY <1>1 DEF FailRun, At, Placed
    <3> QED
      BY <1>7, <3>1 DEF EndRun, FailRun
  <2>3. PICK state \in {"ready", "failed", "rolled-back"} : SetRun([run EXCEPT !.state = state])
    BY <2>2
  <2> DEFINE rec == [run EXCEPT !.state = state]
  <2>4. rec \in Run /\ rec.stage = run.stage /\ rec.plan = run.plan /\ SetRun(rec)
    BY <2>1, <2>3 DEF Run
  <2> HIDE DEF rec
  <2>5. /\ Latest' = Latest /\ run' = rec /\ DOMAIN journal' = DOMAIN journal
        /\ \A i \in DOMAIN journal : i # Latest => journal'[i] = journal[i]
    BY <2>1, <2>4, SetRunIs
  <2>6. journal'[Latest].plan = journal[Latest].plan
        /\ journal'[Latest].stage["apply"] = journal[Latest].stage["apply"]
    BY <2>4, <2>5 DEF run
  <2> QED
    BY <1>2, <2>5, <2>6
<1>8. CASE UNCHANGED journal
  BY <1>2, <1>8
<1> QED
  BY <1>3, <1>4, <1>5, <1>6, <1>7, <1>8, JournalKept

LEMMA TracedStep ==
    ASSUME Inv, [Next]_vars
    PROVE  Traced'
<1>1. Typed /\ Rooted /\ Placed /\ Traced /\ proc \in Worker /\ Grows
  BY EffectsAre, HistoryStep DEF Inv, Typed
<1>2. CASE proc'.pc \notin Executing
  BY <1>2 DEF Traced
<1>3. CASE UNCHANGED <<journal, proc, history>>
  BY <1>1, <1>3, RunKept DEF Traced
<1>4. CASE Apply /\ proc'.pc \in Executing
  <2> DEFINE now == IF proc.plan = None THEN PlanOf(Wanted) ELSE proc.plan
  <2>1. run' = run /\ run.plan \in Hash
    <3>1. Latest > 0 /\ AtWork(run, "apply")
      BY <1>1, <1>4 DEF Apply, At, Placed, Names
    <3>2. run \in Run /\ run.plan # None
      BY <1>1, <3>1, RunIs DEF Inv, Sound, AtWork, Typed, run
    <3> QED
      BY <1>4, <3>2, LaterIs DEF Run
  <2>2. \/ /\ ApplyResumes /\ UNCHANGED history
           /\ proc' = [proc EXCEPT !.pc = "exec", !.why = "resume",
                                   !.doing = run.plan, !.plan = now]
        \/ \E p \in {q \in plans' : q.hash = run.plan} : Start(run.plan, "apply", p.mode)
    <3>1. ASSUME NEW state, Outcome(state) PROVE proc'.pc \notin Executing
      BY <1>1, <3>1, OutcomeKeeps DEF Executing
    <3> HIDE DEF now
    <3> QED
      BY <1>4, <3>1 DEF Apply, now
  <2>3. CASE /\ ApplyResumes /\ UNCHANGED history
             /\ proc' = [proc EXCEPT !.pc = "exec", !.why = "resume",
                                     !.doing = run.plan, !.plan = now]
    <3> HIDE DEF now
    <3>1. proc'.why = "resume" /\ proc'.doing = run.plan
      BY <1>1, <2>3 DEF Worker
    <3>2. Tried # {}
      BY <2>3 DEF ApplyResumes, Again
    <3>3. \E j \in DOMAIN history' : history'[j].plan = run.plan
      BY <2>3, <3>2 DEF Tried
    <3> QED
      BY <2>1, <3>1, <3>3 DEF Traced
  <2>4. CASE \E p \in {q \in plans' : q.hash = run.plan} : Start(run.plan, "apply", p.mode)
    <3>1. PICK p \in plans' : Start(run.plan, "apply", p.mode)
      BY <2>4
    <3>2. p.mode \in {"create", "reapply"}
      BY TypedStep DEF Typed
    <3>3. history'[Len(history')].plan = run.plan /\ history'[Len(history')].state = "running"
      BY <1>1, <2>1, <3>1, <3>2, StartIs
    <3>4. proc'.why = "apply" /\ proc'.doing = run.plan
      BY <1>1, <3>1 DEF Start, Worker
    <3> QED
      BY <2>1, <3>3, <3>4 DEF Traced
  <2> QED
    BY <2>2, <2>3, <2>4
<1>5. CASE Rollback /\ proc'.pc \in Executing
  <2>1. Previous # None /\ Start(PlanOf(Previous), "rollback", "reapply")
    BY <1>1, <1>5, OutcomeKeeps DEF Rollback, Executing
  <2> DEFINE hash == PlanOf(Previous)
  <2>2. hash \in Hash
    BY <1>1, <2>1, PreviousIs, PlanOfIs
  <2>3. history'[Len(history')].plan = hash /\ history'[Len(history')].state = "running"
    BY <1>1, <2>1, <2>2, StartIs
  <2>4. proc' = [proc EXCEPT !.pc = "exec", !.why = "rollback", !.doing = hash, !.plan = hash]
    BY <2>1 DEF Start
  <2> HIDE DEF hash
  <2>5. proc'.why = "rollback" /\ proc'.doing = hash
    BY <1>1, <2>4 DEF Worker
  <2> QED
    BY <2>3, <2>5 DEF Traced
<1>17. CASE Unlink
  <2>1. /\ proc.pc \in Executing /\ run' = run /\ UNCHANGED history
    BY <1>17, LaterIs DEF Unlink, At, Executing
  <2>2. /\ proc'.why = proc.why /\ proc'.doing = proc.doing
    BY <1>1, <1>17 DEF Unlink, Goto, Worker
  <2> QED
    BY <1>1, <2>1, <2>2 DEF Traced
<1>6. CASE WriteSome \/ ExecutionReady \/ ExecutionFails \/ ExecutionRefused \/ ExecutionRejected
  <2>1. /\ proc.pc \in Executing /\ run' = run /\ proc.doing.release \in Releases
        /\ cluster.runs \in Releases \cup {Mixed}
    <3>1. At("exec")
      BY <1>6 DEF WriteSome, ExecutionReady, ExecutionFails, ExecutionRefused, ExecutionRejected
    <3> QED
      BY <1>1, <1>6, <3>1, LaterIs DEF At, Executing, Placed, Typed, Hash
  <2>2. /\ proc'.why = proc.why /\ proc'.doing = proc.doing
    BY <1>1, <1>6 DEF WriteSome, ExecutionReady, ExecutionFails, ExecutionRefused,
                      ExecutionRejected, Returns, Worker
  <2>3. /\ Len(history') = Len(history)
        /\ \A i \in DOMAIN history :
              /\ i \in DOMAIN history' /\ history'[i].plan = history[i].plan
              /\ history'[i].state = history[i].state
    <3>1. \/ UNCHANGED history
          \/ \E content \in {Mixed, cluster.runs, proc.doing.release} : Runs(content)
      BY <1>6 DEF WriteSome, ExecutionReady, ExecutionFails, ExecutionRefused, ExecutionRejected
    <3>2. CASE UNCHANGED history
      BY <3>2
    <3>3. CASE \E content \in {Mixed, cluster.runs, proc.doing.release} : Runs(content)
      <4>1. PICK content \in Releases \cup {Mixed} : Runs(content)
        BY <2>1, <3>3
      <4>2. /\ history' \in Seq(Entry) /\ Len(history') = Len(history)
            /\ \A i \in DOMAIN history :
                  /\ history'[i].plan = history[i].plan
                  /\ history'[i].state = history[i].state
        BY <2>1, <4>1, RunsIs
      <4>3. DOMAIN history' = DOMAIN history
        BY <1>1, <4>2 DEF Typed
      <4> QED
        BY <4>2, <4>3
    <3> QED
      BY <3>1, <3>2, <3>3
  <2>4. Len(history) \in DOMAIN history
    BY <1>1, HistoryIs
  <2> QED
    BY <1>1, <2>1, <2>2, <2>3, <2>4 DEF Traced
<1>7. ASSUME NEW m \in Machines, Execute(m) \/ Resume(m) PROVE proc'.pc \notin Executing
  BY <1>7 DEF Execute, Resume, Idle, Executing
<1>8. NextStage => proc'.pc \notin Executing
  BY NextStageSaves DEF Executing, Names
<1>9. Record => proc'.pc \notin Executing
  BY RecordSaves DEF Executing
<1>10. EndRun \/ FailRun \/ Kill => proc'.pc \notin Executing
  BY DEF EndRun, FailRun, Kill, Idle, Executing
<1>11. StageFails \/ Build \/ Deliver \/ ChecksSkipped \/ ChecksPass => proc'.pc \notin Executing
  BY <1>1, OutcomeKeeps, WithKeeps
     DEF StageFails, Build, Deliver, ChecksSkipped, ChecksPass, Executing
<1>12. Plan => proc'.pc \notin Executing
  <2>1. Plan => \/ \E state : Outcome(state)
                \/ proc' = [proc EXCEPT !.pc = "record", !.plan = PlanOf(Wanted), !.out = "done"]
    BY DEF Plan
  <2> QED
    BY <1>1, <2>1, OutcomeKeeps DEF Worker, Executing
<1>13. ChecksFail => proc'.pc \notin Executing
  BY <1>1, OutcomeKeeps DEF ChecksFail, Goto, Worker, Executing
<1>14. Note => proc'.pc \notin Executing
  <2>1. Note => \E out, final : proc' = [proc EXCEPT !.pc = "record", !.out = out, !.final = final]
    BY DEF Note
  <2> QED
    BY <1>1, <2>1 DEF Worker, Executing
<1>15. EditByHand \/ (\E r \in Releases : Edit(r)) => UNCHANGED <<journal, proc, history>>
  BY DEF EditByHand, Edit
<1>16. UNCHANGED vars => UNCHANGED <<journal, proc, history>>
  BY DEF vars
<1> QED
  BY <1>2, <1>3, <1>4, <1>5, <1>6, <1>7, <1>8, <1>9, <1>10, <1>11, <1>12, <1>13, <1>14,
     <1>15, <1>16, <1>17 DEF Next, Process

LEMMA RecordReadiedStep ==
    ASSUME Inv, [Next]_vars
    PROVE  RecordReadied'
<1>1. /\ Typed /\ Rooted /\ Placed /\ Traced /\ RecordReadied /\ proc \in Worker
      /\ Grows
  BY EffectsAre, HistoryStep DEF Inv, Typed
<1>2. CASE proc'.pc # "record"
  BY <1>2 DEF RecordReadied, At
<1>3. CASE UNCHANGED <<journal, proc, history>>
  BY <1>1, <1>3, RunKept DEF RecordReadied, Readied, At
<1>4. CASE StageFails \/ Build \/ Deliver \/ Plan \/ ChecksSkipped \/ ChecksPass \/ ChecksFail
           \/ Rollback
  <2>1. /\ proc.pc \in {"build", "deliver", "plan", "checks", "rollback"}
        /\ UNCHANGED journal
    BY <1>4 DEF StageFails, Build, Deliver, Plan, ChecksSkipped, RunsChecks, ChecksPass,
                ChecksFail, Rollback, At
  <2>2. ~AtWork(run, "apply") /\ run' = run
    BY <1>1, <2>1, RunKept DEF Placed, At, Names, AtWork
  <2> QED
    BY <2>2 DEF RecordReadied
<1>5. CASE Apply
  <2>1. run' = run
    BY <1>5, LaterIs
  <2>2. proc'.pc = "record" /\ proc'.out = "done" => ApplyAlready /\ UNCHANGED history
    <3>1. ASSUME NEW state, Outcome(state) PROVE proc'.out = state
      BY <1>1, <3>1, OutcomeKeeps
    <3>2. ASSUME NEW hash, NEW why, NEW mode, Start(hash, why, mode) PROVE proc'.pc = "exec"
      BY <1>1, <3>2 DEF Start, Worker
    <3>3. ASSUME NEW now, proc' = [proc EXCEPT !.pc = "exec", !.why = "resume",
                                               !.doing = run.plan, !.plan = now]
          PROVE  proc'.pc = "exec"
      BY <1>1, <3>3 DEF Worker
    <3> DEFINE now == IF proc.plan = None THEN PlanOf(Wanted) ELSE proc.plan
    <3>4. \/ Outcome("skipped")
          \/ ApplyAlready /\ Outcome("done") /\ UNCHANGED history
          \/ proc' = [proc EXCEPT !.pc = "exec", !.why = "resume",
                                  !.doing = run.plan, !.plan = now]
          \/ Outcome("failed")
          \/ \E p \in {q \in plans' : q.hash = run.plan} : Start(run.plan, "apply", p.mode)
      BY <1>5 DEF Apply
    <3> HIDE DEF now
    <3> QED
      BY <3>1, <3>2, <3>3, <3>4
  <2>3. ApplyAlready => Readied(run.plan)
    BY DEF ApplyAlready, Attempts, Readied
  <2>4. proc'.pc = "record" /\ proc'.out = "done" =>
            \E j \in DOMAIN history' : history'[j].plan = run.plan /\ history'[j].state = "ready"
    BY <2>2, <2>3 DEF Readied
  <2> QED
    BY <2>1, <2>4 DEF RecordReadied, Readied, At
<1>6. CASE Note
  <2>1. run' = run /\ proc.pc \in Executing
    BY <1>6, LaterIs DEF Note, At, Executing
  <2>2. \E final :
            proc' = [proc EXCEPT !.pc = "record",
                !.out = IF proc.why # "rollback" /\ proc.got = "ready" THEN "done" ELSE "failed",
                !.final = final]
    BY <1>6 DEF Note
  <2>3. proc'.out = "done" => proc.why # "rollback" /\ proc.got = "ready"
    BY <1>1, <2>2 DEF Worker
  <2>4. proc'.out = "done" =>
            \E j \in DOMAIN history' : history'[j].plan = run.plan /\ history'[j].state = "ready"
    BY <1>1, <1>6, <2>1, <2>3, NoteIs DEF Traced
  <2> QED
    BY <2>1, <2>4 DEF RecordReadied, Readied
<1>7. ASSUME NEW m \in Machines, Execute(m) \/ Resume(m) PROVE proc'.pc # "record"
  BY <1>7 DEF Execute, Resume, Idle
<1>8. NextStage => proc'.pc # "record"
  BY NextStageSaves DEF Names
<1>9. Record => proc'.pc # "record"
  BY RecordSaves
<1>10. EndRun \/ FailRun \/ Kill => proc'.pc # "record"
  BY DEF EndRun, FailRun, Kill, Idle
<1>11. ExecutionReady \/ ExecutionFails \/ ExecutionRefused \/ ExecutionRejected \/ Unlink =>
           proc'.pc # "record"
  BY <1>1 DEF ExecutionReady, ExecutionFails, ExecutionRefused, ExecutionRejected,
              Unlink, Goto, Returns, Worker
<1>12. WriteSome => proc'.pc # "record"
  BY DEF WriteSome, At
<1>13. EditByHand \/ (\E r \in Releases : Edit(r)) => UNCHANGED <<journal, proc, history>>
  BY DEF EditByHand, Edit
<1>14. UNCHANGED vars => UNCHANGED <<journal, proc, history>>
  BY DEF vars
<1> QED
  BY <1>2, <1>3, <1>4, <1>5, <1>6, <1>7, <1>8, <1>9, <1>10, <1>11, <1>12, <1>13, <1>14
     DEF Next, Process

-----------------------------------------------------------------------------
(* The theorems.                                                           *)

LEMMA InitInv == Init => Inv
<1> SUFFICES ASSUME Init PROVE Inv
  OBVIOUS
<1> DEFINE first == [release |-> First, plan |-> None, mode |-> "create",
                     version |-> 0, state |-> "ready"]
<1>1. First \in Releases /\ MaxFaults \in Nat /\ MaxKills \in Nat
  BY PipelineAssumption
<1>2. first \in Entry
  BY <1>1 DEF Entry
<1>3. history = <<first>> /\ journal = <<>> /\ proc = Idle
  BY DEF Init
<1>4. history \in Seq(Entry) /\ Rooted
  <2>1. first.plan = None /\ first.state = "ready"
    OBVIOUS
  <2> HIDE DEF first
  <2> QED
    BY <1>2, <1>3, <2>1 DEF Rooted
<1>5. First.image \in Images
  BY <1>1 DEF Images
<1>6. Typed
  BY <1>1, <1>3, <1>4, <1>5, IdleIs DEF Init, Typed, Past
<1>7. proc.pc = "none"
  BY <1>3 DEF Idle
<1>8. Sound /\ Placed /\ Original /\ Holding /\ Planning /\ Here /\ Effects
  BY <1>3, <1>7 DEF Sound, Placed, Original, Holding, Planning, Here, Effects, Executing,
                    Built, At
<1> QED
  BY <1>4, <1>6, <1>8 DEF Inv

LEMMA InvStep == Inv /\ [Next]_vars => Inv'
<1> SUFFICES ASSUME Inv, [Next]_vars PROVE Inv'
  OBVIOUS
<1>1. Effects'
  BY TracedStep, RecordReadiedStep, AllReadiedStep
     DEF Effects, Traced, RecordReadied, AllReadied
<1> QED
  BY <1>1, TypedStep, RootedStep, SoundStep, PlacedStep, OriginalStep, HoldingStep,
     PlanningStep, HereStep DEF Inv

\* Every reachable state satisfies the invariant.
THEOREM Invariance == Spec => []Inv
  BY InitInv, InvStep, PTL DEF Spec

\* Every variable has its type, a finished plan stage has a plan, and a run is
\* ready only when all its stages are finished.
THEOREM TypeCorrect == Spec => []TypeOK
<1>1. Inv => TypeOK
  <2> SUFFICES ASSUME Inv PROVE TypeOK
    OBVIOUS
  <2>1. Typed /\ Sound /\ journal \in Seq(Run)
    BY DEF Inv, Typed
  <2>2. ASSUME NEW i \in DOMAIN journal
        PROVE  /\ journal[i].stage["plan"] \in Finished => journal[i].plan # None
               /\ journal[i].state = "ready" =>
                     \A s \in DOMAIN journal[i].stage : journal[i].stage[s] \in Finished
    <3>1. journal[i] \in Run
      BY <2>1
    <3>2. DOMAIN journal[i].stage = {"build", "deliver", "plan", "apply", "checks"}
      BY <3>1 DEF Run
    <3> QED
      BY <2>1, <3>2 DEF Sound, Orderly
  <2> QED
    BY <2>1, <2>2 DEF Typed, TypeOK, Worker, Images
<1> QED
  BY <1>1, Invariance, PTL

\* A run, whoever resumes it wherever and whatever was declared since, applies the
\* release its approval names and the image that it built last; and that is the one
\* approved unless the run was built again from another declaration.
THEOREM AppliesApproved == Spec => []ApprovedRelease
<1>1. Inv => ApprovedRelease
  <2> SUFFICES ASSUME Inv, At("exec"), proc.why # "rollback"
               PROVE  /\ Agreed(run, proc.doing)
                      /\ run.built = run.spec.image \/ Latest \in past.rebuilt
    BY DEF ApprovedRelease, Deploys, Agreed
  <2>1. /\ Latest > 0 /\ AtWork(run, "apply") /\ proc.doing = run.plan
        /\ Latest \in DOMAIN journal /\ journal[Latest] = run
    BY RunIs DEF Inv, Placed, Effects, At, Executing, Typed, run
  <2>2. run.plan # None /\ Agreed(run, run.plan) /\ run.built # None
    BY <2>1 DEF Inv, Sound, AtWork
  <2>3. run.built = run.spec.image \/ Latest \in past.rebuilt
    BY <2>1, <2>2 DEF Inv, Original
  <2> QED
    BY <2>1, <2>2, <2>3
<1> QED
  BY <1>1, Invariance, PTL

\* An apply stage is done only if an execution of the run's plan became ready,
\* whatever was killed in between.
THEOREM DoneByExecution == Spec => []DoneIsReady
<1>1. Inv => DoneIsReady
  BY DEF Inv, Effects, Readied, DoneIsReady
<1> QED
  BY <1>1, Invariance, PTL

\* A process comes to its delivery with the image at hand, also when the build
\* finished on another machine, unless it trusts that of a build to be done again.
THEOREM DeliversWhatIsHere == Spec => []DeliverableHere
<1>1. Inv => DeliverableHere
  BY DEF Inv, Here, Placed, AtWork, Names, At, DeliverableHere
<1> QED
  BY <1>1, Invariance, PTL
=============================================================================
