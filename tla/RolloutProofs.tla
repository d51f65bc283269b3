----------------------------- MODULE RolloutProofs -----------------------------
(***************************************************************************)
(* Where a run of Pipeline ends, and where its rollback leads: theorems    *)
(* that relate runs, executions and what runs by the versions of the       *)
(* cluster that plans and executions carry.                                *)
(***************************************************************************)
EXTENDS PipelineProofs

-----------------------------------------------------------------------------
(* What plans and executions say of each other.                            *)

\* What Sound leaves out of a run: its plan is set with its plan stage, and only
\* checks that ended well passed.
Proper(r) ==
    /\ r.plan # None => r.stage["plan"] \in Finished
    /\ r.stage["checks"] \in Finished => r.passed
    /\ r.passed => r.plan # None
Settled == \A i \in DOMAIN journal : Proper(journal[i])

\* An entry of the history is of its plan and never older than it or newer than
\* the cluster; what became ready became so in the order of the history, and runs
\* unless the cluster changed since.
Stamped ==
    /\ \A i \in DOMAIN history :
          /\ history[i].version <= cluster.version
          /\ history[i].plan # None =>
                /\ history[i].release = history[i].plan.release
                /\ history[i].plan.base <= history[i].version
    /\ \A i \in ReadyAt :
          /\ history[i].version = cluster.version => cluster.runs = history[i].release
          /\ \A k \in ReadyAt : i < k => history[i].version <= history[k].version

\* The entry of what is executed, and what it will be when it is ready.
Returned == {"unlink", "note"}
ToBeReady == proc.pc \in Returned /\ proc.got = "ready"
Stamping ==
    /\ At("exec") => history[Execution].state # "ready"
    /\ ToBeReady =>
          /\ \A i \in ReadyAt : history[i].version <= history[Execution].version
          /\ history[Execution].version = cluster.version =>
                cluster.runs = proc.doing.release

\* What a plan saw is what ran at its version.
SawRight(hash) ==
    /\ hash.base <= cluster.version
    /\ hash.base = cluster.version => hash.saw = cluster.runs
    /\ \A i \in ReadyAt : history[i].version = hash.base => history[i].release = hash.saw
    /\ ToBeReady /\ history[Execution].version = hash.base => proc.doing.release = hash.saw

\* Nothing of another plan became ready after a plan was made.
NothingSince(hash) ==
    \A i \in ReadyAt : history[i].plan = hash \/ history[i].version <= hash.base

Plans ==
    /\ proc.plan # None => SawRight(proc.plan)
    /\ Latest > 0 /\ run.plan # None => SawRight(run.plan)
    /\ proc.pc # "none" /\ run.stage["plan"] \notin Finished /\ proc.plan # None =>
          NothingSince(proc.plan)
    /\ Latest > 0 /\ run.plan # None /\ Latest \notin past.undone =>
          NothingSince(run.plan)

\* What goes back is a run that applied something.
Undoing ==
    /\ past.undone \cup past.moved \subseteq DOMAIN journal
    /\ past.rebuilt \subseteq past.moved
    /\ At("rollback") => run.stage["apply"] = "done"
    /\ proc.pc \in Executing /\ proc.why = "rollback" =>
          run.stage["apply"] = "done" /\ Latest \in past.undone

\* Unless it was resumed with another declaration, a run plans and applies what
\* was declared when it was approved.
Unmoved ==
    Latest > 0 /\ Latest \notin past.moved =>
        /\ run.plan # None => run.plan.release = run.spec
        /\ proc.pc # "none" => proc.spec = run.spec
        /\ proc.pc # "none" /\ proc.plan # None /\ run.stage["apply"] # "done" =>
              proc.plan.release = run.spec

\* A run that applied nothing found its release deployed, ready and running.
Found == Newest.state = "ready" /\ Newest.release = run.plan.release
Skipped ==
    /\ Latest > 0 /\ Latest \notin past.moved /\ run.stage["apply"] = "skipped" => Found
    /\ At("record") /\ AtWork(run, "apply") /\ proc.out = "skipped"
       /\ Latest \notin past.moved => Found
    /\ proc.pc # "none" /\ run.stage["apply"] = "skipped" /\ proc.plan # None =>
          proc.plan.saw = proc.plan.release
    /\ At("record") /\ AtWork(run, "apply") /\ proc.out = "skipped" /\ proc.plan # None =>
          proc.plan.saw = proc.plan.release

\* Checks passed for what was deployed.
Verified ==
    /\ \A i \in DOMAIN journal :
          /\ journal[i].passed /\ journal[i].plan # None
          /\ Straight(journal[i].plan.release)
          => journal[i].plan.release \in past.verified
    /\ At("record") /\ AtWork(run, "checks") /\ proc.out # "failed"
       /\ Straight(run.plan.release) => run.plan.release \in past.verified

\* No two plans are the same.
Numbered ==
    /\ \A i \in DOMAIN history : history[i].plan # None => history[i].plan.nth < made
    /\ proc.plan # None => proc.plan.nth < made
    /\ Latest > 0 /\ run.plan # None => run.plan.nth < made

\* A plan that nothing executed.
Unused(hash) == \A i \in DOMAIN history : history[i].plan # hash

\* Until it begins a rollback, what the newest run executed is the end of the
\* history, and once it became ready it is not executed again.
Topmost ==
    /\ proc.pc # "none" /\ proc.plan # None /\ run.stage["plan"] \notin Finished =>
          Unused(proc.plan)
    /\ proc.pc \in {"next", "build", "deliver", "plan", "apply"} /\ ~proc.resuming
       /\ run.plan # None /\ run.stage["apply"] \notin Finished => Unused(run.plan)
    /\ Latest > 0 /\ run.plan # None /\ Latest \notin past.undone =>
          \/ Unused(run.plan)
          \/ /\ Newest.plan = run.plan
             /\ Readied(run.plan) => Newest.state = "ready"
    /\ proc.pc \in Executing /\ proc.why # "rollback" /\ Latest \notin past.undone =>
          ~Readied(run.plan)

Deep ==
    /\ Settled
    /\ Stamped /\ Stamping /\ Plans
    /\ Undoing /\ Unmoved /\ Skipped /\ Verified
    /\ Numbered /\ Topmost


-----------------------------------------------------------------------------
(* What a step does to the cluster and the history.                        *)

\* An execution begins, with an entry of its own.
Begins(hash, why) ==
    \/ why = "apply" /\ At("apply") /\ hash = run.plan
    \/ /\ why = "rollback" /\ At("rollback") /\ Previous # None
       /\ hash = PlanOf(Previous) /\ made' = made + 1

\* It writes, and remembers the version it wrote.
Writes(content) ==
    /\ At("exec") /\ Untouched /\ Runs(content)
    /\ proc'.doing = proc.doing /\ proc'.pc \in Executing
    /\ proc'.pc \in Returned /\ proc'.got = "ready" => content = proc.doing.release

\* The history is not touched.
Spared ==
    /\ UNCHANGED history
    /\ cluster' = cluster \/ cluster'.version = cluster.version + 1

LEMMA ApplyCases ==
    ASSUME Inv, Apply
    PROVE  \/ UNCHANGED history /\ proc'.pc = "record"
           \/ /\ UNCHANGED history /\ LastOf(Tried) \notin Attempts("ready")
              /\ proc'.pc = "exec" /\ proc'.doing = run.plan /\ proc'.why = "resume"
           \/ \E mode \in {"create", "reapply"} : Start(run.plan, "apply", mode)
<1>1. proc \in Worker /\ plans' \in SUBSET [hash : Hash, mode : {"create", "reapply"}]
  BY ApplyTyped DEF Inv, Typed
<1>2. ASSUME NEW state, Outcome(state) PROVE proc'.pc = "record"
  BY <1>1, <1>2, OutcomeKeeps
<1> DEFINE now == IF proc.plan = None THEN PlanOf(Wanted) ELSE proc.plan
<1>3. \/ Outcome("skipped") /\ UNCHANGED history
      \/ Outcome("done") /\ UNCHANGED history
      \/ Outcome("failed") /\ UNCHANGED history
      \/ /\ ~ApplyAlready /\ ApplyResumes /\ Resumable /\ UNCHANGED history
         /\ proc' = [proc EXCEPT !.pc = "exec", !.why = "resume",
                                 !.doing = run.plan, !.plan = now]
      \/ \E p \in {q \in plans' : q.hash = run.plan} : Start(run.plan, "apply", p.mode)
  BY DEF Apply
<1> HIDE DEF now
<1>5. ASSUME ApplyResumes, ~ApplyAlready
      PROVE  LastOf(Tried) \notin Attempts("ready")
  <2>1. Again # {} /\ Again = Tried
    BY <1>5 DEF ApplyResumes, Again
  <2> QED
    BY <1>5, <2>1 DEF ApplyAlready
<1>6. ASSUME proc' = [proc EXCEPT !.pc = "exec", !.why = "resume",
                                  !.doing = run.plan, !.plan = now]
      PROVE  proc'.pc = "exec" /\ proc'.doing = run.plan /\ proc'.why = "resume"
  BY <1>1, <1>6 DEF Worker
<1>7. \A p \in {q \in plans' : q.hash = run.plan} : p.mode \in {"create", "reapply"}
  BY <1>1
<1> QED
  BY <1>2, <1>3, <1>5, <1>6, <1>7

\* An execution that came to its end goes on to be noted.
LEMMA ReturnsKeeps ==
    ASSUME proc \in Worker, NEW state, Returns(state)
    PROVE  /\ proc'.pc \in Returned /\ proc'.got = state /\ proc'.doing = proc.doing
           /\ proc'.why = proc.why /\ proc'.plan = proc.plan /\ proc'.spec = proc.spec
           /\ proc'.resuming = proc.resuming
<1>1. PICK pc \in Returned : proc' = [proc EXCEPT !.got = state, !.pc = pc]
  BY DEF Returns, Returned
<1> QED
  BY <1>1 DEF Worker

LEMMA StepCases ==
    ASSUME Inv, [Next]_vars
    PROVE  \/ Spared
           \/ /\ UNCHANGED cluster
              /\ \E hash \in Hash, why \in {"apply", "rollback"}, mode \in {"create", "reapply"} :
                    Begins(hash, why) /\ Start(hash, why, mode)
           \/ \E content \in Releases \cup {Mixed} : Writes(content)
           \/ Note
<1>1. /\ Typed /\ Rooted /\ proc \in Worker
      /\ cluster \in [runs : Releases \cup {Mixed}, version : Nat]
  BY DEF Inv, Typed
<1>2. CASE Apply
  <2>1. UNCHANGED cluster /\ At("apply") /\ run.plan \in Hash
    <3>1. Latest > 0 /\ AtWork(run, "apply")
      BY <1>2 DEF Inv, Apply, At, Placed, Names
    <3>2. run \in Run /\ run.plan # None
      BY <1>1, <3>1, RunIs DEF Inv, Sound, AtWork, Typed, run
    <3> QED
      BY <1>2, <3>2 DEF Apply, Run
  <2> QED
    BY <1>2, <2>1, ApplyCases DEF Begins, Spared
<1>3. CASE Rollback
  <2>1. UNCHANGED cluster /\ At("rollback")
    BY <1>3 DEF Rollback
  <2>2. CASE /\ Previous # None /\ Planned(PlanOf(Previous))
             /\ Start(PlanOf(Previous), "rollback", "reapply")
    <3>1. PlanOf(Previous) \in Hash
      BY <1>1, <2>2, PreviousIs, PlanOfIs
    <3>2. made' = made + 1
      BY <2>2 DEF Planned
    <3> QED
      BY <2>1, <2>2, <3>1, <3>2 DEF Begins
  <2>3. CASE UNCHANGED history
    BY <2>1, <2>3 DEF Spared
  <2> QED
    BY <1>3, <2>2, <2>3 DEF Rollback
<1>4. CASE WriteSome \/ ExecutionReady \/ ExecutionFails
  <2>1. At("exec") /\ Untouched /\ proc.doing.release \in Releases
    <3>1. At("exec") /\ Untouched
      BY <1>4 DEF WriteSome, ExecutionReady, ExecutionFails
    <3> QED
      BY <3>1 DEF At, Inv, Placed, Executing, Hash
  <2>2. CASE WriteSome
    <3>1. proc' = proc /\ Runs(Mixed)
      BY <2>2 DEF WriteSome
    <3> QED
      BY <2>1, <3>1 DEF Writes, At, Executing, Returned
  <2>3. CASE ExecutionReady
    <3>1. Returns("ready") /\ Runs(proc.doing.release)
      BY <2>3 DEF ExecutionReady
    <3>2. proc'.doing = proc.doing /\ proc'.pc \in Returned
      BY <1>1, <3>1, ReturnsKeeps
    <3> QED
      BY <2>1, <3>1, <3>2 DEF Writes, Executing, Returned
  <2>4. CASE ExecutionFails
    <3>1. /\ Returns("failed")
          /\ \E content \in {cluster.runs, proc.doing.release} : Runs(content)
      BY <2>4 DEF ExecutionFails
    <3>2. proc'.doing = proc.doing /\ proc'.pc \in Returned /\ proc'.got = "failed"
      BY <1>1, <3>1, ReturnsKeeps
    <3> QED
      BY <1>1, <2>1, <3>1, <3>2 DEF Writes, Executing, Returned
  <2> QED
    BY <1>4, <2>2, <2>3, <2>4
<1>5. CASE EditByHand \/ ExecutionRefused
  BY <1>1, <1>5 DEF EditByHand, ExecutionRefused, Spared
<1>6. CASE ExecutionRejected
  BY <1>6 DEF ExecutionRejected, Spared
<1>7. ASSUME NEW m \in Machines, Execute(m) \/ Resume(m) PROVE Spared
  BY <1>7 DEF Execute, Resume, Spared
<1>8. CASE NextStage \/ EndRun \/ Record \/ FailRun \/ StageFails
  BY <1>8 DEF NextStage, EndRun, Record, FailRun, StageFails, Spared
<1>9. CASE Build \/ Deliver \/ Plan
  BY <1>9 DEF Build, Deliver, Plan, Spared
<1>10. CASE Unlink \/ ChecksSkipped \/ ChecksPass \/ ChecksFail \/ Kill
  BY <1>10 DEF Unlink, ChecksSkipped, ChecksPass, ChecksFail, Kill, Spared
<1>11. CASE \E r \in Releases : Edit(r)
  BY <1>11 DEF Edit, Spared
<1>12. CASE UNCHANGED vars
  BY <1>12 DEF vars, Spared
<1> QED
  BY <1>2, <1>3, <1>4, <1>5, <1>6, <1>7, <1>8, <1>9, <1>10, <1>11, <1>12 DEF Next, Process

LEMMA RunsExactly ==
    ASSUME Inv, proc.pc \in Executing, NEW content \in Releases \cup {Mixed}, Runs(content)
    PROVE  /\ cluster'.runs = content /\ DOMAIN history' = DOMAIN history
           /\ \A i \in DOMAIN history : i # Execution => history'[i] = history[i]
           /\ history'[Execution].plan = history[Execution].plan
           /\ history'[Execution].release = history[Execution].release
           /\ history'[Execution].state = history[Execution].state
           /\ \/ cluster' = cluster /\ history' = history
              \/ /\ cluster'.version = cluster.version + 1
                 /\ history'[Execution].version = cluster.version + 1
<1>1. /\ Execution \in DOMAIN history /\ history[Execution] \in Entry
      /\ history \in Seq(Entry)
  BY ExecutionIs DEF Inv, Typed
<1>2. CASE cluster.runs = content
  BY <1>2 DEF Runs
<1>3. CASE cluster.runs # content
  <2>1. /\ cluster' = [runs |-> content, version |-> cluster.version + 1]
        /\ history' = [history EXCEPT ![Execution].version = cluster.version + 1]
    BY <1>3 DEF Runs
  <2> DEFINE e == Execution
             v == cluster.version + 1
  <2>2. cluster'.runs = content /\ cluster'.version = v
    BY <2>1
  <2>3. history' = [history EXCEPT ![e] = [history[e] EXCEPT !.version = v]]
    BY <1>1, <2>1
  <2>4. /\ [history[e] EXCEPT !.version = v].plan = history[e].plan
        /\ [history[e] EXCEPT !.version = v].release = history[e].release
        /\ [history[e] EXCEPT !.version = v].state = history[e].state
        /\ [history[e] EXCEPT !.version = v].version = v
    <3> HIDE DEF e, v
    <3> QED
      BY <1>1 DEF e, Entry
  <2>5. e \in DOMAIN history
    BY <1>1
  <2> HIDE DEF e, v
  <2>6. /\ DOMAIN history' = DOMAIN history
        /\ history'[e] = [history[e] EXCEPT !.version = v]
        /\ \A i \in DOMAIN history : i # e => history'[i] = history[i]
    BY <2>3, <2>5
  <2>7. /\ history'[e].plan = history[e].plan /\ history'[e].release = history[e].release
        /\ history'[e].state = history[e].state /\ history'[e].version = v
    BY <2>4, <2>6
  <2> QED
    BY <2>2, <2>6, <2>7 DEF e, v
<1> QED
  BY <1>2, <1>3

\* The entry of an execution stays the same entry.
LEMMA ExecutionStays ==
    ASSUME DOMAIN history' = DOMAIN history,
           \A i \in DOMAIN history : history'[i].plan = history[i].plan,
           proc'.doing = proc.doing
    PROVE  Execution' = Execution
<1>1. {i \in DOMAIN history' : history'[i].plan = proc'.doing}
        = {i \in DOMAIN history : history[i].plan = proc.doing}
  OBVIOUS
<1> QED
  BY <1>1 DEF Execution, LastOf

\* What ExecutionIs says, also of the next state.
EntryThere ==
    proc.pc \in Executing =>
        /\ Execution \in DOMAIN history /\ history[Execution].plan = proc.doing
        /\ proc.why # "resume" =>
              Execution = Len(history) /\ history[Execution].state = "running"

LEMMA EntryIsThere == Inv => EntryThere
  BY ExecutionIs DEF EntryThere

LEMMA EntryThereNext ==
    ASSUME Inv, [Next]_vars
    PROVE  Inv' /\ EntryThere'
  BY InvStep, EntryIsThere, PTL

\* What became ready stays as it is; another entry becomes ready only when the
\* end of its execution is noted, as the newest.
NewlyReady(i) ==
    /\ Note /\ ToBeReady /\ i = Len(history')
    /\ history'[i].plan = proc.doing /\ history'[i].release = history[Execution].release
    /\ history'[i].version = history[Execution].version
    /\ \A k \in ReadyAt : k < i

ReadyNext == {i \in DOMAIN history' : history'[i].state = "ready"}

LEMMA ReadyStep ==
    ASSUME Inv, Stamping, [Next]_vars
    PROVE  /\ \A i \in ReadyAt : i \in ReadyNext /\ history'[i] = history[i]
           /\ \A i \in ReadyNext : i \in ReadyAt \/ NewlyReady(i)
<1>1. /\ Typed /\ Rooted /\ history \in Seq(Entry) /\ Len(history) \in Nat
      /\ DOMAIN history = 1 .. Len(history)
  BY DEF Inv, Typed
<1>2. CASE Spared
  BY <1>2 DEF Spared, ReadyNext, ReadyAt
<1>3. ASSUME NEW hash \in Hash, NEW why \in {"apply", "rollback"},
             NEW mode \in {"create", "reapply"}, Start(hash, why, mode)
      PROVE  /\ \A i \in ReadyAt : i \in ReadyNext /\ history'[i] = history[i]
             /\ \A i \in ReadyNext : i \in ReadyAt
  <2>1. /\ history' \in Seq(Entry) /\ Len(history') = Len(history) + 1
        /\ history'[Len(history')].state = "running"
        /\ \A i \in DOMAIN history : i \in DOMAIN history' /\ history'[i] = history[i]
    BY <1>1, <1>3, StartIs
  <2>2. ASSUME NEW i \in ReadyNext PROVE i \in ReadyAt
    <3>1. i \in 1 .. Len(history) + 1 /\ i # Len(history')
      BY <2>1 DEF ReadyNext
    <3>2. i \in DOMAIN history
      BY <1>1, <2>1, <3>1
    <3> QED
      BY <2>1, <3>2 DEF ReadyNext, ReadyAt
  <2> QED
    BY <2>1, <2>2 DEF ReadyNext, ReadyAt
<1>4. ASSUME NEW content \in Releases \cup {Mixed}, Writes(content)
      PROVE  /\ \A i \in ReadyAt : i \in ReadyNext /\ history'[i] = history[i]
             /\ \A i \in ReadyNext : i \in ReadyAt
  <2>1. /\ proc.pc \in Executing /\ Runs(content) /\ history[Execution].state # "ready"
    BY <1>4 DEF Writes, At, Executing, Stamping
  <2>2. /\ DOMAIN history' = DOMAIN history
        /\ \A i \in DOMAIN history : i # Execution => history'[i] = history[i]
        /\ history'[Execution].state = history[Execution].state
    BY <2>1, RunsExactly
  <2> QED
    BY <2>1, <2>2 DEF ReadyNext, ReadyAt
<1>5. CASE Note
  <2>1. /\ proc.pc \in Executing /\ proc.got \in {"ready", "failed", "rejected"}
        /\ proc.why \in {"apply", "resume", "rollback"}
    BY <1>5 DEF Note, Inv, Placed, At, Executing
  <2> DEFINE e == Execution
             new == [history[e] EXCEPT !.state = proc.got]
  <2>2. /\ e \in DOMAIN history /\ history[e] \in Entry /\ history[e].plan = proc.doing
        /\ proc.why # "resume" => e = Len(history) /\ history[e].state = "running"
    BY <2>1, ExecutionIs
  <2>3. \/ /\ proc.why # "resume" /\ history' = [history EXCEPT ![e] = new]
        \/ history' = history
        \/ /\ proc.why = "resume" /\ history' = Append(history, new)
    BY <1>5, <2>2 DEF Note
  <2> HIDE DEF e
  <2>4. /\ new.plan = history[e].plan /\ new.release = history[e].release
        /\ new.version = history[e].version /\ new.state = proc.got
    BY <2>2 DEF Entry
  <2> HIDE DEF new
  <2>5. ASSUME NEW i, i \in ReadyNext, i = Len(history'), history'[i] = new,
               \A k \in ReadyAt : k < i
        PROVE  NewlyReady(i)
    <3>1. proc.got = "ready"
      BY <2>4, <2>5 DEF ReadyNext
    <3>2. ToBeReady
      BY <1>5, <3>1 DEF ToBeReady, Note, At, Returned
    <3> QED
      BY <1>5, <2>2, <2>4, <2>5, <3>2 DEF NewlyReady, e
  <2>6. CASE proc.why # "resume" /\ history' = [history EXCEPT ![e] = new]
    <3>1. /\ DOMAIN history' = DOMAIN history /\ Len(history') = Len(history)
          /\ history'[e] = new
          /\ \A i \in DOMAIN history : i # e => history'[i] = history[i]
      BY <1>1, <2>2, <2>6
    <3>2. e \notin ReadyAt /\ e = Len(history)
      BY <2>2, <2>6 DEF ReadyAt
    <3>3. \A k \in ReadyAt : k < e
      BY <1>1, <3>2 DEF ReadyAt
    <3>4. ASSUME NEW i \in ReadyNext PROVE i \in ReadyAt \/ NewlyReady(i)
      BY <2>5, <3>1, <3>2, <3>3, <3>4 DEF ReadyNext, ReadyAt
    <3> QED
      BY <3>1, <3>2, <3>4 DEF ReadyNext, ReadyAt
  <2>7. CASE history' = history
    BY <2>7 DEF ReadyNext, ReadyAt
  <2>8. CASE history' = Append(history, new)
    <3>1. /\ DOMAIN history' = 1 .. Len(history) + 1 /\ Len(history') = Len(history) + 1
          /\ history'[Len(history) + 1] = new
          /\ \A i \in DOMAIN history : history'[i] = history[i]
      BY <1>1, <2>8
    <3>2. \A k \in ReadyAt : k < Len(history) + 1
      BY <1>1 DEF ReadyAt
    <3>3. ASSUME NEW i \in ReadyNext PROVE i \in ReadyAt \/ NewlyReady(i)
      <4>1. CASE i = Len(history) + 1
        BY <2>5, <3>1, <3>2, <4>1
      <4>2. CASE i # Len(history) + 1
        <5>1. i \in DOMAIN history
          BY <1>1, <3>1, <4>2 DEF ReadyNext
        <5> QED
          BY <3>1, <5>1 DEF ReadyNext, ReadyAt
      <4> QED
        BY <4>1, <4>2
    <3>4. \A i \in DOMAIN history : i \in DOMAIN history'
      BY <1>1, <3>1
    <3> QED
      BY <3>1, <3>3, <3>4 DEF ReadyNext, ReadyAt
  <2> QED
    BY <2>3, <2>6, <2>7, <2>8
<1> QED
  BY <1>2, <1>3, <1>4, <1>5, StepCases

LEMMA ClusterStep ==
    ASSUME Inv, [Next]_vars
    PROVE  /\ cluster.version \in Nat /\ cluster'.version \in Nat
           /\ cluster' = cluster \/ cluster'.version = cluster.version + 1
<1>1. /\ cluster \in [runs : Releases \cup {Mixed}, version : Nat]
      /\ cluster' \in [runs : Releases \cup {Mixed}, version : Nat]
  BY TypedStep DEF Inv, Typed
<1>2. ASSUME NEW content \in Releases \cup {Mixed}, Writes(content)
      PROVE  cluster' = cluster \/ cluster'.version = cluster.version + 1
  BY <1>2, RunsExactly DEF Writes, At, Executing
<1>3. Note => cluster' = cluster
  BY DEF Note
<1> QED
  BY <1>1, <1>2, <1>3, StepCases DEF Spared

-----------------------------------------------------------------------------
(* Which step leads where.                                                 *)

Quiet == UNCHANGED <<history, journal, proc, past>>

\* The plan file of an execution goes.
Turns ==
    /\ At("unlink") /\ proc'.pc = "note" /\ proc'.got = proc.got
    /\ proc'.doing = proc.doing /\ proc'.why = proc.why
    /\ proc'.plan = proc.plan /\ proc'.spec = proc.spec
    /\ proc'.resuming = proc.resuming
    /\ UNCHANGED <<cluster, history, journal, past>>

Leading ==
    /\ proc'.pc = "exec" => Apply \/ Rollback
    /\ proc'.pc \in Returned /\ proc'.got = "ready" => ExecutionReady
    /\ proc'.pc \in Returned => At("exec") /\ proc'.why = proc.why /\ UNCHANGED <<journal, past>>
    /\ proc'.pc = "rollback" => ChecksFail
    /\ proc'.pc \in {"next", "build", "deliver", "plan", "apply"} =>
          \/ NextStage \/ Record
          \/ \E m \in Machines : Execute(m) \/ Resume(m)
    /\ proc'.pc = "record" =>
          \/ StageFails \/ Build \/ Deliver \/ Plan \/ Apply \/ Note
          \/ ChecksSkipped \/ ChecksPass \/ ChecksFail \/ Rollback

LEMMA PlaceStep ==
    ASSUME Inv, [Next]_vars
    PROVE  Quiet \/ WriteSome \/ Turns \/ Leading
<1>1. proc \in Worker
  BY DEF Inv, Typed
<1>2. (\E r \in Releases : Edit(r)) \/ EditByHand \/ UNCHANGED vars => Quiet
  BY DEF Edit, EditByHand, vars, Quiet
<1>3. NextStage => Leading
  BY NextStageSaves DEF Leading, Names, Returned
<1>4. Record => Leading
  BY RecordSaves DEF Leading, Returned
<1>5. EndRun \/ FailRun \/ Kill => Leading
  BY DEF EndRun, FailRun, Kill, Idle, Leading, Returned
<1>6. ASSUME NEW m \in Machines, Execute(m) \/ Resume(m) PROVE Leading
  BY <1>6 DEF Execute, Resume, Idle, Leading, Returned
<1>7. StageFails \/ Build \/ Deliver \/ ChecksSkipped \/ ChecksPass => Leading
  <2>1. ASSUME NEW state, Outcome(state) PROVE proc'.pc = "record"
    BY <1>1, <2>1, OutcomeKeeps
  <2>2. ASSUME NEW image, NEW state, With(image, state) PROVE proc'.pc = "record"
    BY <1>1, <2>2 DEF With, Worker
  <2> QED
    BY <2>1, <2>2 DEF StageFails, Build, Deliver, ChecksSkipped, ChecksPass, Leading, Returned
<1>8. Plan => Leading
  <2>1. Plan => \/ \E state : Outcome(state)
                \/ proc' = [proc EXCEPT !.pc = "record", !.plan = PlanOf(Wanted), !.out = "done"]
    BY DEF Plan
  <2>2. Plan => proc'.pc = "record"
    BY <1>1, <2>1, OutcomeKeeps DEF Worker
  <2> QED
    BY <2>2 DEF Leading, Returned
<1>9. Note => Leading
  <2>1. Note => proc'.pc = "record"
    BY <1>1 DEF Note, Worker
  <2> QED
    BY <2>1 DEF Leading, Returned
<1>10. ChecksFail => Leading
  <2>1. ChecksFail => proc'.pc \in {"record", "rollback"}
    BY <1>1, OutcomeKeeps DEF ChecksFail, Goto, Worker
  <2> QED
    BY <2>1 DEF Leading, Returned
<1>11. Apply => Leading
  <2>1. Apply => proc'.pc \in {"record", "exec"}
    BY <1>1, ApplyCases DEF Start, Worker
  <2> QED
    BY <2>1 DEF Leading, Returned
<1>12. Rollback => Leading
  <2>1. Rollback => proc'.pc \in {"record", "exec"}
    BY <1>1, OutcomeKeeps DEF Rollback, Start, Worker
  <2> QED
    BY <2>1 DEF Leading, Returned
<1>13. ExecutionReady => Leading
  <2>1. ExecutionReady => /\ proc'.pc \in Returned /\ proc'.why = proc.why
                          /\ At("exec") /\ UNCHANGED <<journal, past>>
    BY <1>1, ReturnsKeeps DEF ExecutionReady
  <2> QED
    BY <2>1 DEF Leading, Returned
<1>14. ExecutionFails \/ ExecutionRefused \/ ExecutionRejected => Leading
  <2>1. ExecutionFails \/ ExecutionRefused \/ ExecutionRejected =>
            /\ proc'.pc \in Returned /\ proc'.got # "ready" /\ proc'.why = proc.why
            /\ At("exec") /\ UNCHANGED <<journal, past>>
    BY <1>1, ReturnsKeeps DEF ExecutionFails, ExecutionRefused, ExecutionRejected
  <2> QED
    BY <2>1 DEF Leading, Returned
<1>15. Unlink => Turns
  BY <1>1 DEF Unlink, Goto, Turns, Worker
<1> QED
  BY <1>2, <1>3, <1>4, <1>5, <1>6, <1>7, <1>8, <1>9, <1>10, <1>11, <1>12, <1>13, <1>14,
     <1>15 DEF Next, Process

\* An execution that comes to be ready, or one that has been.
JustReady ==
    /\ At("exec") /\ Untouched /\ Runs(proc.doing.release)
    /\ proc'.doing = proc.doing /\ Execution' = Execution
    /\ cluster'.runs = proc.doing.release
    /\ history'[Execution].version = cluster'.version

ToBeReadyNext == proc'.pc \in Returned /\ proc'.got = "ready"

StillReady ==
    /\ ToBeReady /\ proc'.doing = proc.doing /\ Execution' = Execution
    /\ UNCHANGED <<history, journal, past>>

LEMMA ToBeReadyStep ==
    ASSUME Inv, [Next]_vars, ToBeReadyNext
    PROVE  \/ StillReady
           \/ JustReady
<1>1. proc \in Worker /\ history \in Seq(Entry)
  BY DEF Inv, Typed
<1>2. CASE Quiet
  BY <1>2, ExecutionStays DEF Quiet, ToBeReadyNext, ToBeReady, StillReady
<1>5. CASE Turns
  BY <1>5, ExecutionStays DEF Turns, ToBeReadyNext, ToBeReady, StillReady, At, Returned
<1>3. CASE ExecutionReady
  <2>1. /\ At("exec") /\ Untouched /\ proc'.doing = proc.doing /\ Runs(proc.doing.release)
    BY <1>1, <1>3, ReturnsKeeps DEF ExecutionReady
  <2>2. proc.pc \in Executing /\ proc.doing.release \in Releases
    BY <2>1 DEF At, Inv, Placed, Executing, Hash
  <2>3. /\ cluster'.runs = proc.doing.release /\ DOMAIN history' = DOMAIN history
        /\ \A i \in DOMAIN history : i # Execution => history'[i] = history[i]
        /\ history'[Execution].plan = history[Execution].plan
        /\ \/ cluster' = cluster /\ history' = history
           \/ /\ cluster'.version = cluster.version + 1
              /\ history'[Execution].version = cluster.version + 1
    BY <2>1, <2>2, RunsExactly
  <2>4. \A i \in DOMAIN history : history'[i].plan = history[i].plan
    BY <2>3
  <2>5. Execution' = Execution
    BY <2>1, <2>3, <2>4, ExecutionStays
  <2>6. history'[Execution].version = cluster'.version
    BY <2>1, <2>3 DEF Untouched
  <2> QED
    BY <2>1, <2>3, <2>5, <2>6 DEF JustReady
<1>4. ~WriteSome
  BY DEF WriteSome, ToBeReadyNext, At, Returned
<1> QED
  BY <1>2, <1>3, <1>4, <1>5, PlaceStep DEF Leading, ToBeReadyNext

-----------------------------------------------------------------------------
(* Versions in the history.                                                *)

\* Noting the end of an execution leaves of every entry what it ran and when.
LEMMA NoteEntries ==
    ASSUME Inv, Note, NEW i \in DOMAIN history'
    PROVE  \E j \in DOMAIN history :
              /\ history'[i].plan = history[j].plan
              /\ history'[i].release = history[j].release
              /\ history'[i].version = history[j].version
<1>1. proc.pc \in Executing /\ history \in Seq(Entry)
  BY DEF Note, At, Executing, Inv, Typed
<1> DEFINE e == Execution
           new == [history[e] EXCEPT !.state = proc.got]
<1>2. e \in DOMAIN history /\ history[e] \in Entry
  BY <1>1, ExecutionIs
<1>3. \/ history' = [history EXCEPT ![e] = new]
      \/ history' = history
      \/ history' = Append(history, new)
  BY <1>2 DEF Note
<1> HIDE DEF e
<1>4. /\ new.plan = history[e].plan /\ new.release = history[e].release
      /\ new.version = history[e].version
  BY <1>2 DEF Entry
<1> HIDE DEF new
<1>5. (i \in DOMAIN history /\ history'[i] = history[i]) \/ history'[i] = new
  BY <1>1, <1>2, <1>3
<1> QED
  BY <1>2, <1>4, <1>5

\* The entry that an execution adds.
LEMMA StartEntries ==
    ASSUME Inv, Stamped, Plans, NEW hash \in Hash, NEW why \in {"apply", "rollback"},
           NEW mode \in {"create", "reapply"}, Begins(hash, why), Start(hash, why, mode),
           NEW i \in DOMAIN history'
    PROVE  \/ i \in DOMAIN history /\ history'[i] = history[i]
           \/ /\ history'[i].plan = hash /\ history'[i].release = hash.release
              /\ history'[i].version = hash.base /\ hash.base <= cluster.version
<1>1. Typed /\ Rooted /\ Len(history) \in Nat /\ DOMAIN history = 1 .. Len(history)
  BY DEF Inv, Typed
<1>2. /\ history' \in Seq(Entry) /\ Len(history') = Len(history) + 1
      /\ history'[Len(history')].plan = hash
      /\ history'[Len(history')].release = hash.release
      /\ history'[Len(history')].version = hash.base
      /\ \A k \in DOMAIN history : k \in DOMAIN history' /\ history'[k] = history[k]
  BY <1>1, StartIs
<1>3. hash.base <= cluster.version
  <2>1. CASE hash = PlanOf(Previous)
    <3>1. hash.base = cluster.version /\ cluster.version \in Nat
      BY <1>1, <2>1 DEF PlanOf, Typed
    <3> QED
      BY <3>1
  <2>2. CASE At("apply") /\ hash = run.plan
    <3>1. Latest > 0 /\ hash # None
      BY <2>2, NoneIsNoHash DEF At, Inv, Placed
    <3> QED
      BY <2>2, <3>1 DEF Plans, SawRight
  <2> QED
    BY <2>1, <2>2 DEF Begins
<1>4. i \in DOMAIN history \/ i = Len(history')
  BY <1>1, <1>2
<1> QED
  BY <1>2, <1>3, <1>4

LEMMA EntriesStep ==
    ASSUME Inv, Stamped, Plans, [Next]_vars, NEW i \in DOMAIN history'
    PROVE  /\ history'[i].version <= cluster'.version
           /\ history'[i].plan # None =>
                 /\ history'[i].release = history'[i].plan.release
                 /\ history'[i].plan.base <= history'[i].version
<1>1. /\ Typed /\ Rooted /\ history' \in Seq(Entry)
      /\ \A k \in DOMAIN history : history[k] \in Entry
  BY TypedStep, HistoryIs DEF Inv, Typed
<1>2. /\ cluster.version \in Nat /\ cluster'.version \in Nat
      /\ cluster' = cluster \/ cluster'.version = cluster.version + 1
  BY ClusterStep
<1>3. \A k \in DOMAIN history :
         /\ history[k].version \in Nat
         /\ history[k].plan # None => history[k].plan.base \in Nat
  BY <1>1 DEF Entry, Hash
<1>4. ASSUME NEW j \in DOMAIN history, history'[i].plan = history[j].plan,
             history'[i].release = history[j].release,
             history'[i].version = history[j].version
      PROVE  /\ history'[i].version <= cluster'.version
             /\ history'[i].plan # None =>
                   /\ history'[i].release = history'[i].plan.release
                   /\ history'[i].plan.base <= history'[i].version
  <2>1. history[j].version <= cluster'.version
    BY <1>2, <1>3 DEF Stamped
  <2> QED
    BY <1>4, <2>1 DEF Stamped
<1>5. CASE Spared
  BY <1>4, <1>5 DEF Spared
<1>6. ASSUME NEW hash \in Hash, NEW why \in {"apply", "rollback"},
             NEW mode \in {"create", "reapply"}, Begins(hash, why),
             Start(hash, why, mode), UNCHANGED cluster
      PROVE  /\ history'[i].version <= cluster'.version
             /\ history'[i].plan # None =>
                   /\ history'[i].release = history'[i].plan.release
                   /\ history'[i].plan.base <= history'[i].version
  <2>1. \/ i \in DOMAIN history /\ history'[i] = history[i]
        \/ /\ history'[i].plan = hash /\ history'[i].release = hash.release
           /\ history'[i].version = hash.base /\ hash.base <= cluster.version
    BY <1>6, StartEntries
  <2>2. hash.base \in Nat
    BY DEF Hash
  <2> QED
    BY <1>4, <1>6, <2>1, <2>2
<1>7. ASSUME NEW content \in Releases \cup {Mixed}, Writes(content)
      PROVE  /\ history'[i].version <= cluster'.version
             /\ history'[i].plan # None =>
                   /\ history'[i].release = history'[i].plan.release
                   /\ history'[i].plan.base <= history'[i].version
  <2>1. proc.pc \in Executing /\ Runs(content)
    BY <1>7 DEF Writes, At, Executing
  <2>2. /\ DOMAIN history' = DOMAIN history
        /\ \A k \in DOMAIN history : k # Execution => history'[k] = history[k]
        /\ history'[Execution].plan = history[Execution].plan
        /\ history'[Execution].release = history[Execution].release
        /\ \/ cluster' = cluster /\ history' = history
           \/ /\ cluster'.version = cluster.version + 1
              /\ history'[Execution].version = cluster.version + 1
    BY <2>1, RunsExactly
  <2>3. CASE history'[i] = history[i]
    BY <1>4, <2>2, <2>3
  <2>4. CASE /\ i = Execution /\ cluster'.version = cluster.version + 1
             /\ history'[i].version = cluster.version + 1
    <3>1. i \in DOMAIN history /\ history[i].version <= cluster.version
      BY <2>2 DEF Stamped
    <3>2. history[i].plan # None =>
              /\ history[i].release = history[i].plan.release
              /\ history[i].plan.base <= cluster.version + 1
      BY <1>2, <1>3, <3>1 DEF Stamped
    <3> QED
      BY <1>2, <2>2, <2>4, <3>2
  <2> QED
    BY <2>2, <2>3, <2>4
<1>8. CASE Note
  BY <1>4, <1>8, NoteEntries
<1> QED
  BY <1>5, <1>6, <1>7, <1>8, StepCases

\* What is executed is the release of its plan.
LEMMA ReleaseIs ==
    ASSUME Inv, Stamped, proc.pc \in Executing
    PROVE  /\ Execution \in DOMAIN history /\ history[Execution].version \in Nat
           /\ history[Execution].release = proc.doing.release
<1>1. proc.doing # None
  BY NoneIsNoHash DEF Inv, Placed, Executing
<1> QED
  BY <1>1, ExecutionIs DEF Stamped, Entry

LEMMA StampedStep ==
    ASSUME Inv, Stamped, Stamping, Plans, [Next]_vars
    PROVE  Stamped'
<1>1. /\ cluster.version \in Nat /\ cluster'.version \in Nat
      /\ cluster' = cluster \/ cluster'.version = cluster.version + 1
  BY ClusterStep
<1>2. \A i \in ReadyAt : i \in DOMAIN history /\ history[i].version \in Nat
  BY HistoryIs DEF Inv, ReadyAt, Entry
<1>3. /\ \A i \in ReadyAt : i \in ReadyNext /\ history'[i] = history[i]
      /\ \A i \in ReadyNext : i \in ReadyAt \/ NewlyReady(i)
  BY ReadyStep
<1>4. ASSUME NEW i \in ReadyNext, NewlyReady(i)
      PROVE  /\ cluster' = cluster /\ i = Len(history')
             /\ history'[i].version = history[Execution].version
             /\ history[Execution].version \in Nat
             /\ \A k \in ReadyAt : k < i /\ history[k].version <= history'[i].version
             /\ history'[i].version = cluster.version => cluster.runs = history'[i].release
  <2>1. proc.pc \in Executing /\ ToBeReady /\ cluster' = cluster
    BY <1>4 DEF NewlyReady, Note, At, Executing
  <2> QED
    BY <1>4, <2>1, ReleaseIs DEF NewlyReady, Stamping
<1>5. ASSUME NEW i \in ReadyNext, history'[i].version = cluster'.version
      PROVE  cluster'.runs = history'[i].release
  <2>1. CASE NewlyReady(i)
    BY <1>4, <1>5, <2>1
  <2>2. CASE i \in ReadyAt
    <3>1. history[i].version <= cluster.version /\ history'[i] = history[i]
      BY <1>2, <1>3, <2>2 DEF Stamped
    <3>2. cluster' = cluster
      BY <1>1, <1>2, <1>5, <2>2, <3>1
    <3> QED
      BY <1>5, <2>2, <3>1, <3>2 DEF Stamped
  <2> QED
    BY <1>3, <2>1, <2>2
<1>6. ASSUME NEW i \in ReadyNext, NEW k \in ReadyNext, i < k
      PROVE  history'[i].version <= history'[k].version
  <2>0. i \in Int /\ k \in Int
    BY TypedStep DEF ReadyNext, Typed
  <2>1. CASE NewlyReady(k)
    <3>1. i \in ReadyAt
      BY <1>3, <1>4, <1>6, <2>0, <2>1
    <3> QED
      BY <1>3, <1>4, <2>1, <3>1
  <2>2. CASE k \in ReadyAt
    <3>1. i \in ReadyAt
      BY <1>3, <1>4, <1>6, <2>0, <2>2
    <3> QED
      BY <1>3, <1>6, <2>2, <3>1 DEF Stamped
  <2> QED
    BY <1>3, <2>1, <2>2
<1> QED
  BY <1>5, <1>6, EntriesStep DEF Stamped, ReadyAt, ReadyNext

LEMMA NotReadyStep ==
    ASSUME Inv, Stamping, [Next]_vars, proc'.pc = "exec"
    PROVE  history'[Execution'].state # "ready"
<1>1. proc \in Worker /\ EntryThere'
  BY EntryThereNext DEF Inv, Typed
<1>2. CASE Quiet
  <2>1. Execution' = Execution /\ At("exec")
    BY <1>2, ExecutionStays DEF Quiet, At
  <2> QED
    BY <1>2, <2>1 DEF Quiet, Stamping
<1>3. CASE WriteSome
  <2>1. proc.pc \in Executing /\ At("exec") /\ Runs(Mixed) /\ proc' = proc
    BY <1>3 DEF WriteSome, At, Executing
  <2>2. /\ DOMAIN history' = DOMAIN history
        /\ \A i \in DOMAIN history : i # Execution => history'[i] = history[i]
        /\ history'[Execution].plan = history[Execution].plan
        /\ history'[Execution].state = history[Execution].state
    BY <2>1, RunsExactly
  <2>3. Execution' = Execution
    <3>1. \A i \in DOMAIN history : history'[i].plan = history[i].plan
      BY <2>2
    <3> QED
      BY <2>1, <2>2, <3>1, ExecutionStays
  <2> QED
    BY <2>1, <2>2, <2>3 DEF Stamping
<1>4. ASSUME NEW hash, NEW why \in {"apply", "rollback"}, NEW mode, Start(hash, why, mode)
      PROVE  history'[Execution'].state # "ready"
  <2>1. proc'.pc = "exec" /\ proc'.why = why
    BY <1>1, <1>4 DEF Start, Worker
  <2>2. proc'.pc \in Executing /\ proc'.why # "resume"
    BY <2>1 DEF Executing
  <2>3. history'[Execution'].state = "running"
    BY <1>1, <2>2 DEF EntryThere
  <2> QED
    BY <2>3
<1>5. CASE Apply
  <2>1. CASE /\ UNCHANGED history /\ LastOf(Tried) \notin Attempts("ready")
             /\ proc'.doing = run.plan
    <3>1. {i \in DOMAIN history' : history'[i].plan = proc'.doing} = Tried
      BY <2>1 DEF Tried
    <3>2. Execution' = LastOf(Tried)
      BY <3>1 DEF Execution, LastOf
    <3>3. Execution' \in DOMAIN history' /\ history'[Execution'].plan = proc'.doing
      BY <1>1 DEF EntryThere, Executing
    <3> QED
      BY <2>1, <3>2, <3>3 DEF Attempts
  <2> QED
    BY <1>4, <1>5, <2>1, ApplyCases
<1>6. CASE Rollback
  <2>1. Start(PlanOf(Previous), "rollback", "reapply")
    BY <1>1, <1>6, OutcomeKeeps DEF Rollback
  <2> QED
    BY <1>4, <2>1
<1> QED
  BY <1>2, <1>3, <1>5, <1>6, PlaceStep DEF Leading, Turns

LEMMA ReadyVersionsStep ==
    ASSUME Inv, Stamped, Stamping, [Next]_vars, ToBeReadyNext
    PROVE  /\ \A i \in ReadyNext : history'[i].version <= history'[Execution'].version
           /\ history'[Execution'].version = cluster'.version =>
                 cluster'.runs = proc'.doing.release
<1>1. /\ cluster.version \in Nat /\ cluster'.version \in Nat
      /\ cluster' = cluster \/ cluster'.version = cluster.version + 1
  BY ClusterStep
<1>2. \A i \in ReadyAt : i \in DOMAIN history /\ history[i].version \in Nat
  BY HistoryIs DEF Inv, ReadyAt, Entry
<1>3. /\ \A i \in ReadyAt : i \in ReadyNext /\ history'[i] = history[i]
      /\ \A i \in ReadyNext : i \in ReadyAt \/ NewlyReady(i)
  BY ReadyStep
<1>4. CASE StillReady
  <2>1. ReadyNext = ReadyAt /\ history' = history /\ proc'.doing = proc.doing
    BY <1>4 DEF StillReady, ReadyNext, ReadyAt
  <2>2. Execution \in DOMAIN history /\ history[Execution].version \in Nat
    BY <1>4, ReleaseIs DEF StillReady, ToBeReady, Executing, Returned
  <2>3. history[Execution].version <= cluster.version
    BY <2>2 DEF Stamped
  <2> QED
    BY <1>1, <1>4, <2>1, <2>2, <2>3 DEF Stamping, StillReady
<1>5. CASE JustReady
  <2>1. ReadyNext \subseteq ReadyAt
    BY <1>3, <1>5 DEF JustReady, NewlyReady, Note, At
  <2>2. ASSUME NEW i \in ReadyNext PROVE history'[i].version <= cluster'.version
    <3>1. i \in ReadyAt /\ history'[i] = history[i]
      BY <1>3, <2>1
    <3>2. history[i].version <= cluster.version
      BY <1>2, <3>1 DEF Stamped
    <3> QED
      BY <1>1, <1>2, <3>1, <3>2
  <2> QED
    BY <1>5, <2>2 DEF JustReady
<1> QED
  BY <1>4, <1>5, ToBeReadyStep

LEMMA StampingStep ==
    ASSUME Inv, Stamped, Stamping, [Next]_vars
    PROVE  Stamping'
  BY NotReadyStep, ReadyVersionsStep
     DEF Stamping, ToBeReady, ToBeReadyNext, At, ReadyAt, ReadyNext

-----------------------------------------------------------------------------
(* What a plan saw.                                                        *)

\* A plan that is made now sees what runs.
LEMMA PlanSees ==
    ASSUME Inv, Stamped, Stamping, NEW release \in Releases
    PROVE  SawRight(PlanOf(release)) /\ NothingSince(PlanOf(release))
<1>1. /\ PlanOf(release).base = cluster.version /\ PlanOf(release).saw = cluster.runs
      /\ cluster.version \in Nat
  BY DEF PlanOf, Inv, Typed
<1>2. \A i \in ReadyAt : i \in DOMAIN history
  BY DEF ReadyAt
<1> HIDE DEF PlanOf
<1>3. SawRight(PlanOf(release))
  BY <1>1 DEF SawRight, Stamped, Stamping
<1>4. NothingSince(PlanOf(release))
  BY <1>1, <1>2 DEF NothingSince, Stamped
<1> QED
  BY <1>3, <1>4

\* What a plan saw stays what ran at its version.
SawRightNext(hash) ==
    /\ hash.base <= cluster'.version
    /\ hash.base = cluster'.version => hash.saw = cluster'.runs
    /\ \A i \in ReadyNext : history'[i].version = hash.base => history'[i].release = hash.saw
    /\ ToBeReadyNext /\ history'[Execution'].version = hash.base =>
          proc'.doing.release = hash.saw

LEMMA SawRightStays ==
    ASSUME Inv, Stamped, Stamping, [Next]_vars, NEW hash \in Hash, SawRight(hash)
    PROVE  SawRightNext(hash)
<1>1. /\ cluster.version \in Nat /\ cluster'.version \in Nat /\ hash.base \in Nat
      /\ cluster' = cluster \/ cluster'.version = cluster.version + 1
  BY ClusterStep DEF Hash
<1>2. /\ hash.base <= cluster'.version
      /\ hash.base = cluster'.version => hash.saw = cluster'.runs
  BY <1>1 DEF SawRight
<1>3. ASSUME NEW i \in ReadyNext, history'[i].version = hash.base
      PROVE  history'[i].release = hash.saw
  <2>1. CASE i \in ReadyAt
    BY <1>3, <2>1, ReadyStep DEF SawRight
  <2>2. CASE NewlyReady(i)
    <3>1. proc.pc \in Executing
      BY <2>2 DEF NewlyReady, ToBeReady, Returned, Executing
    <3> QED
      BY <1>3, <2>2, <3>1, ReleaseIs DEF NewlyReady, SawRight
  <2> QED
    BY <2>1, <2>2, ReadyStep
<1>4. ASSUME ToBeReadyNext, history'[Execution'].version = hash.base
      PROVE  proc'.doing.release = hash.saw
  <2>1. CASE StillReady
    BY <1>4, <2>1 DEF StillReady, SawRight
  <2>2. CASE JustReady
    BY <1>2, <1>4, <2>2 DEF JustReady
  <2> QED
    BY <1>4, <2>1, <2>2, ToBeReadyStep
<1> QED
  BY <1>2, <1>3, <1>4 DEF SawRightNext

-----------------------------------------------------------------------------
(* What a step does to the runs.                                           *)

Lasting == {"deliver", "plan", "apply", "checks"}

\* No stage of the newest run begins or ends.
RunKeeps ==
    /\ Latest' = Latest /\ DOMAIN journal' = DOMAIN journal
    /\ \A i \in DOMAIN journal : i # Latest => journal'[i] = journal[i]
    /\ Latest > 0 =>
          /\ Latest \in DOMAIN journal
          /\ run'.spec = run.spec /\ run'.plan = run.plan /\ run'.passed = run.passed
          /\ \A name \in Lasting : run'.stage[name] = run.stage[name]

LEMMA JournalStep ==
    ASSUME Inv, [Next]_vars
    PROVE  \/ \E m \in Machines : Execute(m)
           \/ RunKeeps
           \/ NextStage /\ \E name \in Names : SavesStage(name, "running")
           \/ /\ Record /\ proc.out \in {"done", "skipped", "failed"}
              /\ \E name \in Names : SavesStage(name, proc.out)
<1>1. journal \in Seq(Run)
  BY DEF Inv, Typed
<1>2. CASE UNCHANGED journal
  <2>1. Latest > 0 => Latest \in DOMAIN journal
    BY <1>1 DEF Latest
  <2> QED
    BY <1>2, <2>1, RunKept DEF RunKeeps
<1>3. ASSUME NEW m \in Machines, Resume(m) PROVE RunKeeps
  <2>1. PICK rec \in Run :
            /\ SetRun(rec) /\ run \in Run /\ Latest > 0
            /\ rec.spec = run.spec /\ rec.plan = run.plan /\ rec.passed = run.passed
            /\ \A name \in Names \ {"build"} : rec.stage[name] = run.stage[name]
    BY <1>3, ResumeIs
  <2>2. \A name \in Lasting : rec.stage[name] = run.stage[name]
    BY <2>1 DEF Lasting, Names
  <2> QED
    BY <1>1, <2>1, <2>2, SetRunIs DEF RunKeeps
<1>4. CASE EndRun \/ FailRun
  <2>1. /\ Latest > 0 /\ run \in Run
        /\ \E state \in {"ready", "failed", "rolled-back"} :
              SetRun([run EXCEPT !.state = state])
    <3>1. Latest > 0 /\ FailRun => proc.final \in {"failed", "rolled-back"}
      BY <1>4 DEF EndRun, FailRun, At, Inv, Placed
    <3> QED
      BY <1>1, <1>4, <3>1, RunIs DEF EndRun, FailRun, At, Inv, Placed
  <2>2. PICK state \in {"ready", "failed", "rolled-back"} :
            SetRun([run EXCEPT !.state = state])
    BY <2>1
  <2> DEFINE rec == [run EXCEPT !.state = state]
  <2>3. /\ rec \in Run /\ rec.spec = run.spec /\ rec.plan = run.plan
        /\ rec.passed = run.passed /\ rec.stage = run.stage
    BY <2>1 DEF Run
  <2>4. SetRun(rec)
    BY <2>2
  <2> HIDE DEF rec
  <2> QED
    BY <1>1, <2>1, <2>3, <2>4, SetRunIs DEF RunKeeps
<1>5. CASE NextStage
  BY <1>5, NextStageSaves
<1>6. CASE Record
  BY <1>6, RecordSaves
<1> QED
  BY <1>2, <1>3, <1>4, <1>5, <1>6, JournalKept

\* What Sound and Settled say of the newest run.
LEMMA NewestIs ==
    ASSUME Inv, Settled, Latest > 0
    PROVE  /\ run \in Run /\ Latest \in DOMAIN journal /\ Fine(run) /\ Proper(run)
  BY RunIs, SoundIs DEF Settled, Inv, Typed, run

LEMMA SettledStep ==
    ASSUME Inv, Settled, [Next]_vars
    PROVE  Settled'
<1>1. /\ \A i \in DOMAIN journal : Proper(journal[i])
      /\ Latest \in Nat /\ journal \in Seq(Run)
  BY DEF Settled, Inv, Typed, Latest
<1>2. ASSUME NEW m \in Machines, Execute(m)
      PROVE  \A i \in DOMAIN journal' : Proper(journal'[i])
  <2>1. /\ Latest' = Latest + 1 /\ DOMAIN journal' = 1 .. Latest + 1
        /\ DOMAIN journal = 1 .. Latest
        /\ \A i \in DOMAIN journal : journal'[i] = journal[i]
        /\ run'.plan = None /\ ~run'.passed
        /\ \A name \in Names : run'.stage[name] = "pending"
    BY <1>2, ExecuteIs
  <2>2. Proper(run')
    BY <2>1 DEF Proper, Names, Finished
  <2>3. \A i \in DOMAIN journal' : i = Latest' \/ i \in DOMAIN journal
    BY <1>1, <2>1
  <2> QED
    BY <1>1, <2>1, <2>2, <2>3 DEF run
<1>3. ASSUME RunKeeps PROVE \A i \in DOMAIN journal' : Proper(journal'[i])
  <2>1. ASSUME Latest > 0 PROVE Proper(run')
    BY <1>3, <2>1, NewestIs DEF RunKeeps, Proper, Lasting
  <2>2. ASSUME NEW i \in DOMAIN journal' PROVE Proper(journal'[i])
    <3>1. CASE i = Latest
      <4>1. Latest > 0
        BY <1>1, <1>3, <3>1 DEF RunKeeps
      <4> QED
        BY <1>3, <2>1, <3>1, <4>1 DEF RunKeeps, run
    <3> QED
      BY <1>1, <1>3, <3>1 DEF RunKeeps
  <2> QED
    BY <2>2
<1>4. ASSUME NEW name \in Names, NEW out \in {"done", "skipped", "failed", "running"},
             Latest > 0, SavesStage(name, out)
      PROVE  \A i \in DOMAIN journal' : Proper(journal'[i])
  <2>1. run \in Run /\ Fine(run) /\ Proper(run)
    BY <1>4, NewestIs
  <2>2. /\ run.stage[name] \notin Finished /\ name = "checks" => run.plan # None
        /\ name = "plan" => run.plan = None
    BY <1>4, <2>1 DEF SavesStage, AtWork, Fine, Proper
  <2>3. /\ run'.stage["plan"] = IF name = "plan" THEN out ELSE run.stage["plan"]
        /\ run'.stage["checks"] = IF name = "checks" THEN out ELSE run.stage["checks"]
    BY <1>4, <2>1 DEF SavesStage, Run, Names
  <2>4. Proper(run')
    BY <1>4, <2>1, <2>2, <2>3 DEF SavesStage, Proper, Finished
  <2>5. /\ run' = journal'[Latest] /\ DOMAIN journal' = DOMAIN journal
        /\ \A i \in DOMAIN journal : i # Latest => journal'[i] = journal[i]
    BY <1>4 DEF SavesStage, run
  <2>6. Proper(journal'[Latest])
    BY <2>4, <2>5
  <2> QED
    BY <1>1, <2>5, <2>6
<1>5. NextStage \/ Record => Latest > 0
  BY DEF NextStage, Record, At, Inv, Placed
<1>6. \A i \in DOMAIN journal' : Proper(journal'[i])
  BY <1>2, <1>3, <1>4, <1>5, JournalStep
<1> QED
  BY <1>6 DEF Settled

\* The newest run gets its plan once; other runs stay as they are.
LEMMA PlansKept ==
    ASSUME Inv, Settled, [Next]_vars, NEW i \in DOMAIN journal
    PROVE  /\ i \in DOMAIN journal'
           /\ journal[i].plan # None => journal'[i].plan = journal[i].plan
           /\ i # Latest => journal'[i] = journal[i]
<1>1. journal \in Seq(Run)
  BY DEF Inv, Typed
<1>2. ASSUME NEW m \in Machines, Execute(m)
      PROVE  i \in DOMAIN journal' /\ journal'[i] = journal[i]
  <2>1. Latest \in Nat /\ DOMAIN journal = 1 .. Latest
    BY <1>1 DEF Latest
  <2> QED
    BY <1>2, <2>1, ExecuteIs
<1>3. CASE RunKeeps
  <2>1. i = Latest => Latest > 0
    BY <1>1 DEF Latest
  <2> QED
    BY <1>3, <2>1 DEF RunKeeps, run
<1>4. ASSUME NEW name \in Names, NEW out, Latest > 0, SavesStage(name, out)
      PROVE  /\ i \in DOMAIN journal'
             /\ journal[i].plan # None => journal'[i].plan = journal[i].plan
             /\ i # Latest => journal'[i] = journal[i]
  <2>1. name = "plan" => run.plan = None
    BY <1>4, NewestIs DEF SavesStage, AtWork, Proper
  <2> QED
    BY <1>4, <2>1 DEF SavesStage, run
<1>5. NextStage \/ Record => Latest > 0
  BY DEF NextStage, Record, At, Inv, Placed
<1> QED
  BY <1>2, <1>3, <1>4, <1>5, JournalStep

\* What happened so far.
LEMMA PastStep ==
    ASSUME Inv, [Next]_vars
    PROVE  \/ past' = past
           \/ /\ ChecksPass /\ past'.undone = past.undone /\ past'.moved = past.moved
              /\ past'.rebuilt = past.rebuilt
              /\ past'.verified = past.verified \cup {Deployed}
           \/ /\ Rollback /\ Latest > 0 /\ past'.undone = past.undone \cup {Latest}
              /\ past'.moved = past.moved /\ past'.verified = past.verified
              /\ past'.rebuilt = past.rebuilt
           \/ \E m \in Machines :
                 /\ Resume(m) /\ Latest > 0 /\ past'.undone = past.undone
                 /\ past'.moved = IF declared = run.spec THEN past.moved
                                  ELSE past.moved \cup {Latest}
                 /\ past'.verified = past.verified
                 /\ past'.rebuilt = IF Rebuilt(m) /\ declared.image # run.spec.image
                                    THEN past.rebuilt \cup {Latest} ELSE past.rebuilt
<1>1. past \in Past
  BY DEF Inv, Typed
<1>2. CASE ChecksPass
  BY <1>1, <1>2 DEF ChecksPass, Past
<1>3. CASE Rollback
  <2>1. past' = past \/ past' = [past EXCEPT !.undone = @ \cup {Latest}]
    BY <1>3 DEF Rollback
  <2>2. Latest > 0
    BY <1>3 DEF Rollback, At, Inv, Placed
  <2> QED
    BY <1>1, <1>3, <2>1, <2>2 DEF Past
<1>4. ASSUME NEW m \in Machines, Resume(m)
      PROVE  /\ Resume(m) /\ Latest > 0 /\ past'.undone = past.undone
             /\ past'.moved = IF declared = run.spec THEN past.moved
                              ELSE past.moved \cup {Latest}
             /\ past'.verified = past.verified
             /\ past'.rebuilt = IF Rebuilt(m) /\ declared.image # run.spec.image
                                THEN past.rebuilt \cup {Latest} ELSE past.rebuilt
  <2> DEFINE moved == IF declared = run.spec THEN past.moved ELSE past.moved \cup {Latest}
             rebuilt == IF Rebuilt(m) /\ declared.image # run.spec.image
                        THEN past.rebuilt \cup {Latest} ELSE past.rebuilt
  <2>1. past' = [past EXCEPT !.moved = moved, !.rebuilt = rebuilt] /\ Latest > 0
    BY <1>1, <1>4 DEF Resume, Past
  <2> HIDE DEF moved, rebuilt
  <2>2. past'.moved = moved /\ past'.rebuilt = rebuilt
        /\ past'.undone = past.undone /\ past'.verified = past.verified
    BY <1>1, <2>1 DEF Past
  <2> QED
    BY <1>4, <2>1, <2>2 DEF moved, rebuilt
<1>5. ASSUME NEW m \in Machines, Execute(m) PROVE past' = past
  BY <1>5 DEF Execute
<1>6. CASE NextStage \/ EndRun \/ Record \/ FailRun \/ StageFails \/ Build \/ Deliver \/ Plan
  BY <1>6 DEF NextStage, EndRun, Record, FailRun, StageFails, Build, Deliver, Plan
<1>7. CASE Apply \/ WriteSome \/ ExecutionReady \/ ExecutionFails \/ ExecutionRefused
  BY <1>7 DEF Apply, WriteSome, ExecutionReady, ExecutionFails, ExecutionRefused
<1>8. CASE \/ ExecutionRejected \/ Unlink \/ Note \/ ChecksSkipped \/ ChecksFail \/ Kill
            \/ EditByHand
  BY <1>8 DEF ExecutionRejected, Unlink, Note, ChecksSkipped, ChecksFail, Kill, EditByHand
<1>9. CASE (\E r \in Releases : Edit(r)) \/ UNCHANGED vars
  BY <1>9 DEF Edit, vars
<1> QED
  BY <1>2, <1>3, <1>4, <1>5, <1>6, <1>7, <1>8, <1>9 DEF Next, Process

LEMMA PastGrows ==
    ASSUME Inv, [Next]_vars
    PROVE  /\ past.undone \subseteq past'.undone /\ past.moved \subseteq past'.moved
           /\ past.verified \subseteq past'.verified
  BY PastStep

\* A release that runs go straight for always was one.
StraightNext(release) ==
    \A i \in past'.undone \cup past'.moved :
        journal'[i].plan # None => journal'[i].plan.release # release

LEMMA StraightBefore ==
    ASSUME Inv, Settled, Undoing, [Next]_vars, NEW release, StraightNext(release)
    PROVE  Straight(release)
<1> SUFFICES ASSUME NEW i \in past.undone \cup past.moved, journal[i].plan # None
             PROVE  journal[i].plan.release # release
  BY DEF Straight
<1>1. i \in DOMAIN journal /\ i \in past'.undone \cup past'.moved
  BY PastGrows DEF Undoing
<1> QED
  BY <1>1, PlansKept DEF StraightNext

-----------------------------------------------------------------------------
(* The plans of the process and of the newest run.                         *)

\* Where a process that holds a plan has it from.
Carried ==
    /\ proc'.plan = proc.plan /\ proc'.spec = proc.spec
    /\ proc'.pc # "none" => proc.pc # "none"
MadeFor(release) ==
    release \in Releases /\ proc'.plan = PlanOf(release) /\ made' = made + 1

Held ==
    \/ proc'.plan = None /\ proc'.pc = "none"
    \/ Carried
    \/ \E m \in Machines :
          \/ Resume(m) /\ proc'.plan = None /\ proc'.spec = declared
          \/ Execute(m) /\ (proc'.plan = None \/ MadeFor(declared)) /\ proc'.spec = declared
    \/ (Plan \/ Apply) /\ MadeFor(Wanted) /\ proc'.spec = proc.spec
    \/ Apply /\ proc'.plan = run.plan /\ run.plan \in Hash /\ proc'.spec = proc.spec
    \/ Rollback /\ MadeFor(Previous) /\ proc'.spec = proc.spec

LEMMA HeldStep ==
    ASSUME Inv, [Next]_vars
    PROVE  Held
<1>1. proc \in Worker /\ declared \in Releases
  BY DEF Inv, Typed
<1>2. CASE Quiet \/ WriteSome
  BY <1>2 DEF Quiet, WriteSome, Held, Carried
<1>3. ASSUME NEW state, Outcome(state), proc.pc # "none" PROVE Carried
  BY <1>1, <1>3 DEF Outcome, Worker, Carried
<1>18. ASSUME NEW image, NEW state, With(image, state), proc.pc # "none" PROVE Carried
  BY <1>1, <1>18 DEF With, Worker, Carried
<1>4. CASE StageFails \/ Build \/ Deliver \/ ChecksSkipped \/ ChecksPass
  <2>1. (\E state : Outcome(state)) \/ \E image, state : With(image, state)
    BY <1>4 DEF StageFails, Build, Deliver, ChecksSkipped, ChecksPass
  <2>2. proc.pc # "none"
    BY <1>4 DEF StageFails, Build, Deliver, ChecksSkipped, ChecksPass, RunsChecks, At
  <2> QED
    BY <1>3, <1>18, <2>1, <2>2 DEF Held
<1>5. ASSUME NEW pc, Goto(pc), proc.pc # "none" PROVE Carried
  BY <1>1, <1>5 DEF Goto, Worker, Carried
<1>6. CASE NextStage \/ Record \/ Unlink \/ ChecksFail
  <2>1. (\E state : Outcome(state)) \/ (\E pc : Goto(pc))
    BY <1>6 DEF NextStage, Record, Unlink, ChecksFail
  <2>2. proc.pc # "none"
    BY <1>6 DEF NextStage, Record, Unlink, ChecksFail, RunsChecks, At
  <2> QED
    BY <1>3, <1>5, <2>1, <2>2 DEF Held
<1>7. CASE EndRun \/ FailRun \/ Kill
  BY <1>7 DEF EndRun, FailRun, Kill, Idle, Held
<1>8. ASSUME NEW m \in Machines, Resume(m) PROVE Held
  BY <1>8 DEF Resume, Idle, Held
<1>9. ASSUME NEW m \in Machines, Execute(m) PROVE Held
  <2>1. /\ \/ proc'.plan = None
           \/ proc'.plan = PlanOf(declared) /\ made' = made + 1
        /\ proc'.spec = declared
    BY <1>9 DEF Execute, Idle, Planned
  <2> QED
    BY <1>1, <1>9, <2>1 DEF Held, MadeFor
<1>10. CASE ExecutionReady \/ ExecutionFails \/ ExecutionRefused \/ ExecutionRejected
  <2>1. proc.pc # "none" /\ \E state : Returns(state)
    BY <1>10 DEF ExecutionReady, ExecutionFails, ExecutionRefused, ExecutionRejected, At
  <2> QED
    BY <1>1, <2>1, ReturnsKeeps DEF Carried, Held
<1>11. CASE Note
  <2>1. proc.pc # "none"
        /\ \E out, final : proc' = [proc EXCEPT !.pc = "record", !.out = out, !.final = final]
    BY <1>11 DEF Note, At
  <2> QED
    BY <1>1, <2>1 DEF Worker, Carried, Held
<1>12. ASSUME NEW hash, NEW why, NEW mode, Start(hash, why, mode)
       PROVE  proc'.plan = hash /\ proc'.spec = proc.spec
  BY <1>1, <1>12 DEF Start, Worker
<1>13. ASSUME Plan \/ Apply
       PROVE  Wanted \in Releases
  <2>1. proc.pc # "none" /\ proc.spec \in Releases /\ run.stage["build"] \in Finished
    BY <1>13 DEF Plan, Apply, At, Inv, Placed, Names, AtWork
  <2> QED
    BY <2>1, HoldsImage, WantedIs
<1>14. CASE Plan
  <2>1. \/ \E state : Outcome(state)
        \/ /\ proc' = [proc EXCEPT !.pc = "record", !.plan = PlanOf(Wanted), !.out = "done"]
           /\ made' = made + 1
    BY <1>14 DEF Plan, Planned
  <2>2. ASSUME proc' = [proc EXCEPT !.pc = "record", !.plan = PlanOf(Wanted), !.out = "done"]
        PROVE  proc'.plan = PlanOf(Wanted) /\ proc'.spec = proc.spec
    BY <1>1, <2>2 DEF Worker
  <2>3. proc.pc # "none"
    BY <1>14 DEF Plan, At
  <2> QED
    BY <1>3, <1>13, <1>14, <2>1, <2>2, <2>3 DEF Held, MadeFor
<1>15. CASE Apply
  <2> DEFINE now == IF proc.plan = None THEN PlanOf(Wanted) ELSE proc.plan
  <2>1. proc.pc # "none" /\ Latest > 0 /\ AtWork(run, "apply")
    BY <1>15 DEF Apply, At, Inv, Placed, Names
  <2>2. \/ \E state : Outcome(state)
        \/ proc' = [proc EXCEPT !.pc = "exec", !.why = "resume",
                                !.doing = run.plan, !.plan = now]
        \/ \E mode : Start(run.plan, "apply", mode)
    BY <1>15 DEF Apply
  <2>3. now = proc.plan \/ (now = PlanOf(Wanted) /\ made' = made + 1)
    BY <1>15 DEF Apply, Planned
  <2> HIDE DEF now
  <2>4. ASSUME proc' = [proc EXCEPT !.pc = "exec", !.why = "resume",
                                    !.doing = run.plan, !.plan = now]
        PROVE  Held
    <3>1. proc'.plan = now /\ proc'.spec = proc.spec
      BY <1>1, <2>4 DEF Worker
    <3> QED
      BY <1>13, <1>15, <2>1, <2>3, <3>1 DEF Held, MadeFor, Carried
  <2>5. run.plan \in Hash
    <3>1. run \in Run /\ run.plan # None
      BY <2>1, RunIs DEF Inv, Sound, AtWork, Typed, run
    <3> QED
      BY <3>1 DEF Run
  <2> QED
    BY <1>3, <1>12, <1>15, <2>1, <2>2, <2>4, <2>5 DEF Held
<1>16. CASE Rollback
  <2>1. CASE /\ Previous # None /\ Planned(PlanOf(Previous))
             /\ Start(PlanOf(Previous), "rollback", "reapply")
    <3>1. Previous \in Releases /\ made' = made + 1
      BY <2>1, PreviousIs DEF Inv, Planned
    <3> QED
      BY <1>12, <1>16, <2>1, <3>1 DEF Held, MadeFor
  <2>2. CASE Outcome("failed")
    BY <1>3, <1>16, <2>2 DEF Rollback, At, Held
  <2> QED
    BY <1>16, <2>1, <2>2 DEF Rollback
<1>17. (\E r \in Releases : Edit(r)) \/ EditByHand \/ UNCHANGED vars => Quiet
  BY DEF Edit, EditByHand, vars, Quiet
<1> QED
  BY <1>2, <1>4, <1>6, <1>7, <1>8, <1>9, <1>10, <1>11, <1>14, <1>15, <1>16, <1>17
     DEF Next, Process

\* The plan of the newest run is what it was, or the one the process made for it.
OwnPlan(hash) ==
    Latest > 0 /\ Latest' = Latest /\
        \/ hash = run.plan
        \/ /\ hash = proc.plan /\ At("record") /\ AtWork(run, "plan")
           /\ proc.out # "failed" /\ run.plan = None

LEMMA RunPlanStep ==
    ASSUME Inv, Settled, [Next]_vars, Latest' > 0, run'.plan # None
    PROVE  OwnPlan(run'.plan)
<1>1. ASSUME NEW m \in Machines, Execute(m) PROVE FALSE
  BY <1>1, ExecuteIs
<1>2. CASE RunKeeps
  BY <1>2 DEF RunKeeps, OwnPlan
<1>3. ASSUME NEW name \in Names, SavesStage(name, "running"), NextStage
      PROVE  OwnPlan(run'.plan)
  BY <1>3 DEF SavesStage, OwnPlan, NextStage, At, Inv, Placed
<1>4. ASSUME NEW name \in Names, SavesStage(name, proc.out), Record,
             proc.out \in {"done", "skipped", "failed"}
      PROVE  OwnPlan(run'.plan)
  <2>1. At("record") /\ Latest > 0
    BY <1>4 DEF Record, At, Inv, Placed
  <2>2. name = "plan" => run.plan = None
    BY <1>4, <2>1, NewestIs DEF SavesStage, AtWork, Proper
  <2> QED
    BY <1>4, <2>1, <2>2 DEF SavesStage, OwnPlan
<1> QED
  BY <1>1, <1>2, <1>3, <1>4, JournalStep

\* A stage that is not finished after a step, and belongs to a run at work, was
\* not finished before it.
LEMMA UnfinishedBefore ==
    ASSUME Inv, [Next]_vars, proc.pc # "none", NEW name \in Lasting,
           run'.stage[name] \notin Finished
    PROVE  run.stage[name] \notin Finished /\ Latest' = Latest
<1>1. Latest > 0
  BY DEF Inv, Placed
<1>2. ASSUME NEW m \in Machines, Execute(m) PROVE FALSE
  BY <1>2 DEF Execute, At
<1>3. ASSUME NEW s \in Names, NEW out, SavesStage(s, out)
      PROVE  run.stage[name] \notin Finished /\ Latest' = Latest
  BY <1>3 DEF SavesStage, AtWork, Run, Lasting, Names
<1> QED
  BY <1>1, <1>2, <1>3, JournalStep DEF RunKeeps

NothingSinceNext(hash) ==
    \A i \in ReadyNext : history'[i].plan = hash \/ history'[i].version <= hash.base

\* Nothing becomes ready but at the end of an execution.
LEMMA NothingNew ==
    ASSUME Inv, Stamping, [Next]_vars, ~Note, NEW hash, NothingSince(hash)
    PROVE  NothingSinceNext(hash)
  BY ReadyStep DEF NothingSince, NothingSinceNext, NewlyReady

LEMMA HeldSeesStep ==
    ASSUME Inv, Stamped, Stamping, Plans, [Next]_vars, proc'.plan # None
    PROVE  SawRightNext(proc'.plan)
<1>1. proc'.plan \in Hash
  BY TypedStep DEF Typed, Worker
<1>2. SawRight(proc'.plan)
  <2>1. CASE Carried
    BY <2>1 DEF Carried, Plans
  <2>2. ASSUME NEW release, MadeFor(release) PROVE SawRight(proc'.plan)
    BY <2>2, PlanSees DEF MadeFor
  <2>3. CASE Apply /\ proc'.plan = run.plan
    <3>1. Latest > 0
      BY <2>3 DEF Apply, At, Inv, Placed
    <3> QED
      BY <2>3, <3>1 DEF Plans
  <2> QED
    BY <2>1, <2>2, <2>3, HeldStep DEF Held
<1> QED
  BY <1>1, <1>2, SawRightStays

LEMMA RunSeesStep ==
    ASSUME Inv, Settled, Stamped, Stamping, Plans, [Next]_vars, Latest' > 0, run'.plan # None
    PROVE  SawRightNext(run'.plan)
<1>1. OwnPlan(run'.plan)
  BY RunPlanStep
<1>2. SawRight(run'.plan)
  BY <1>1 DEF OwnPlan, Plans
<1>3. run'.plan \in Hash
  <2>1. run \in Run /\ proc \in Worker
    BY <1>1, RunIs DEF OwnPlan, Inv, Typed
  <2> QED
    BY <1>1, <2>1 DEF OwnPlan, Run, Worker
<1> QED
  BY <1>2, <1>3, SawRightStays

LEMMA HeldSinceStep ==
    ASSUME Inv, Stamped, Stamping, Plans, [Next]_vars, proc'.pc # "none",
           run'.stage["plan"] \notin Finished, proc'.plan # None
    PROVE  NothingSinceNext(proc'.plan)
<1>1. ~Note /\ ~Rollback /\ ~Apply
  <2>1. Note \/ Rollback \/ Apply => run' = run /\ run.stage["plan"] \in Finished
    BY LaterIs
  <2> QED
    BY <2>1
<1>2. CASE Carried
  <2>1. proc.pc # "none" /\ proc.plan # None /\ proc'.plan = proc.plan
    BY <1>2 DEF Carried
  <2>2. run.stage["plan"] \notin Finished
    BY <2>1, UnfinishedBefore DEF Lasting
  <2> QED
    BY <1>1, <2>1, <2>2, NothingNew DEF Plans
<1>3. ASSUME NEW release, MadeFor(release) PROVE NothingSinceNext(proc'.plan)
  BY <1>1, <1>3, PlanSees, NothingNew DEF MadeFor
<1> QED
  BY <1>1, <1>2, <1>3, HeldStep DEF Held

LEMMA RunSinceStep ==
    ASSUME Inv, Settled, Stamped, Stamping, Plans, Undoing, [Next]_vars,
           Latest' > 0, run'.plan # None, Latest' \notin past'.undone
    PROVE  NothingSinceNext(run'.plan)
<1>1. OwnPlan(run'.plan) /\ Latest \notin past.undone
  BY RunPlanStep, PastGrows DEF OwnPlan
<1>2. NothingSince(run'.plan)
  <2>1. CASE run'.plan = run.plan
    BY <1>1, <2>1 DEF OwnPlan, Plans
  <2>2. CASE run'.plan = proc.plan /\ At("record") /\ AtWork(run, "plan")
    BY <2>2 DEF Plans, At, AtWork
  <2> QED
    BY <1>1, <2>1, <2>2 DEF OwnPlan
<1>3. CASE ~Note
  BY <1>2, <1>3, NothingNew
<1>4. CASE Note
  <2>1. run' = run /\ proc.pc \in Executing
    BY <1>4, LaterIs DEF Note, At, Executing
  <2>2. proc.why # "rollback"
    BY <1>1, <2>1 DEF Undoing
  <2>3. proc.doing = run.plan
    BY <2>1, <2>2 DEF Inv, Effects
  <2> QED
    BY <1>2, <2>1, <2>3, ReadyStep DEF NothingSince, NothingSinceNext, NewlyReady
<1> QED
  BY <1>3, <1>4

LEMMA PlansStep ==
    ASSUME Inv, Settled, Stamped, Stamping, Plans, Undoing, [Next]_vars
    PROVE  Plans'
<1>1. proc'.plan # None => SawRightNext(proc'.plan)
  BY HeldSeesStep
<1>2. Latest' > 0 /\ run'.plan # None => SawRightNext(run'.plan)
  BY RunSeesStep
<1>3. /\ proc'.pc # "none" /\ run'.stage["plan"] \notin Finished /\ proc'.plan # None =>
            NothingSinceNext(proc'.plan)
      /\ Latest' > 0 /\ run'.plan # None /\ Latest' \notin past'.undone =>
            NothingSinceNext(run'.plan)
  BY HeldSinceStep, RunSinceStep
<1>4. (proc'.plan # None => SawRight(proc.plan)')
      /\ (Latest' > 0 /\ run'.plan # None => SawRight(run.plan)')
  BY <1>1, <1>2 DEF SawRight, SawRightNext, ReadyAt, ReadyNext, ToBeReady, ToBeReadyNext, At
<1>5. (proc'.pc # "none" /\ run'.stage["plan"] \notin Finished /\ proc'.plan # None =>
            NothingSince(proc.plan)')
      /\ (Latest' > 0 /\ run'.plan # None /\ Latest' \notin past'.undone =>
            NothingSince(run.plan)')
  BY <1>3 DEF NothingSince, NothingSinceNext, ReadyAt, ReadyNext
<1> QED
  BY <1>4, <1>5 DEF Plans

-----------------------------------------------------------------------------
(* Runs that roll back, and runs that are resumed.                         *)

\* What is finished stays so while a process is at work.
LEMMA FinishedKept ==
    ASSUME Inv, [Next]_vars, proc.pc # "none", NEW name \in Lasting,
           run.stage[name] \in Finished
    PROVE  run'.stage[name] = run.stage[name] /\ Latest' = Latest
<1>1. Latest > 0
  BY DEF Inv, Placed
<1>2. ASSUME NEW m \in Machines, Execute(m) PROVE FALSE
  BY <1>2 DEF Execute, At
<1>3. ASSUME NEW s \in Names, NEW out, SavesStage(s, out)
      PROVE  run'.stage[name] = run.stage[name] /\ Latest' = Latest
  BY <1>3 DEF SavesStage, AtWork, Run, Lasting, Names
<1> QED
  BY <1>1, <1>2, <1>3, JournalStep DEF RunKeeps

\* A run keeps what it was started for.
LEMMA SpecKept ==
    ASSUME Inv, [Next]_vars
    PROVE  \/ \E m \in Machines : /\ Execute(m) /\ Latest' = Latest + 1 /\ run'.plan = None
                                  /\ run'.spec = declared
                                  /\ run'.stage["apply"] = "pending"
           \/ Latest' = Latest /\ (Latest > 0 => run'.spec = run.spec)
<1>1. ASSUME NEW m \in Machines, Execute(m)
      PROVE  /\ Latest' = Latest + 1 /\ run'.plan = None /\ run'.spec = declared
             /\ run'.stage["apply"] = "pending"
  BY <1>1, ExecuteIs DEF Names
<1> QED
  BY <1>1, JournalStep DEF RunKeeps, SavesStage

LEMMA UndoingStep ==
    ASSUME Inv, Settled, Undoing, [Next]_vars
    PROVE  Undoing'
<1>1. past'.undone \cup past'.moved \subseteq DOMAIN journal'
  <2>1. past'.undone \cup past'.moved \subseteq past.undone \cup past.moved \cup {Latest}
    BY PastStep
  <2>2. past'.undone \cup past'.moved \subseteq past.undone \cup past.moved \/ Latest > 0
    BY PastStep
  <2>3. Latest > 0 => Latest \in DOMAIN journal
    BY NewestIs
  <2>4. past'.undone \cup past'.moved \subseteq DOMAIN journal
    BY <2>1, <2>2, <2>3 DEF Undoing
  <2> QED
    BY <2>4, PlansKept
<1>6. past'.rebuilt \subseteq past'.moved
  BY PastStep DEF Undoing
<1>7. CASE Turns
  <2>1. /\ proc.pc \in Executing /\ proc'.pc # "rollback" /\ proc'.why = proc.why
        /\ UNCHANGED <<journal, past>>
    BY <1>7 DEF Turns, At, Executing
  <2> QED
    BY <1>1, <1>6, <2>1, RunKept DEF Undoing, At
<1>2. CASE Quiet
  BY <1>1, <1>6, <1>2, RunKept DEF Quiet, Undoing, At
<1>3. CASE WriteSome
  <2>1. UNCHANGED <<journal, proc, past>>
    BY <1>3 DEF WriteSome
  <2> QED
    BY <1>1, <1>6, <2>1, RunKept DEF Undoing, At
<1>4. ASSUME Leading, proc'.pc = "rollback" PROVE run'.stage["apply"] = "done"
  <2>1. ChecksFail /\ At("checks") /\ proc \in Worker
    BY <1>4 DEF Leading, ChecksFail, RunsChecks, Inv, Typed
  <2>2. ~Verifying
    BY <1>4, <2>1, OutcomeKeeps DEF ChecksFail
  <2>3. run' = run
    BY <2>1, LaterIs
  <2>4. run.stage["apply"] \in Finished
    BY <2>1 DEF At, Inv, Placed, Names, AtWork
  <2> QED
    BY <2>2, <2>3, <2>4 DEF Verifying, Finished
<1>5. ASSUME Leading, proc'.pc \in Executing, proc'.why = "rollback"
      PROVE  run'.stage["apply"] = "done" /\ Latest' \in past'.undone
  <2>1. CASE proc'.pc \in Returned
    <3>1. /\ proc.pc \in Executing /\ proc.why = "rollback" /\ UNCHANGED <<journal, past>>
      BY <1>5, <2>1 DEF Leading, At, Executing
    <3> QED
      BY <3>1, RunKept DEF Undoing
  <2>2. CASE Apply
    <3>1. proc \in Worker
      BY DEF Inv, Typed
    <3>2. proc'.pc = "record" \/ proc'.why \in {"resume", "apply"}
      BY <2>2, <3>1, ApplyCases DEF Start, Worker
    <3> QED
      BY <1>5, <3>2 DEF Executing
  <2>3. CASE Rollback /\ proc'.pc = "exec"
    <3>1. proc \in Worker /\ Latest > 0 /\ past \in Past
      BY <2>3 DEF Rollback, At, Inv, Placed, Typed
    <3>2. past' = [past EXCEPT !.undone = @ \cup {Latest}]
      BY <2>3, <3>1, OutcomeKeeps DEF Rollback
    <3>3. Latest \in past'.undone
      BY <3>1, <3>2 DEF Past
    <3>4. run' = run /\ Latest' = Latest
      BY <2>3, LaterIs, RunKept
    <3>5. run.stage["apply"] = "done"
      BY <2>3 DEF Rollback, Undoing
    <3> QED
      BY <3>3, <3>4, <3>5
  <2> QED
    BY <1>5, <2>1, <2>2, <2>3 DEF Leading, Executing, Returned
<1> QED
  BY <1>1, <1>2, <1>3, <1>4, <1>5, <1>6, <1>7, PlaceStep DEF Undoing, At

\* A process plans what the run was started for, unless the declaration changed.
LEMMA WantedIsSpec ==
    ASSUME Inv, Undoing, Unmoved, Plan \/ Apply, Latest \notin past.moved
    PROVE  Wanted = run.spec /\ UNCHANGED journal
<1>1. proc.pc # "none" /\ Latest > 0 /\ UNCHANGED journal
  BY DEF Plan, Apply, At, Inv, Placed
<1>2. proc.spec = run.spec
  BY <1>1 DEF Unmoved
<1>3. run.stage["build"] \in Finished /\ proc.spec \in Releases
  BY DEF Plan, Apply, At, Inv, Placed, Names, AtWork
<1>4. proc.image = run.built /\ proc.image \in Images
  BY <1>1, <1>3, HoldsImage
<1>5. run.built = run.spec.image
  <2>1. Latest \in DOMAIN journal /\ Latest \notin past.rebuilt
    BY <1>1, RunIs DEF Inv, Typed, Undoing
  <2>2. run.built # None
    BY <1>3, <2>1 DEF Inv, Sound, run
  <2> QED
    BY <2>1, <2>2 DEF Inv, Original, run
<1> QED
  BY <1>1, <1>2, <1>3, <1>4, <1>5, WantedIs

LEMMA UnmovedStep ==
    ASSUME Inv, Settled, Undoing, Unmoved, [Next]_vars
    PROVE  Unmoved'
<1> SUFFICES ASSUME Latest' > 0, Latest' \notin past'.moved
             PROVE  /\ run'.plan # None => run'.plan.release = run'.spec
                    /\ proc'.pc # "none" => proc'.spec = run'.spec
                    /\ proc'.pc # "none" /\ proc'.plan # None
                       /\ run'.stage["apply"] # "done" => proc'.plan.release = run'.spec
  BY DEF Unmoved
<1>1. Latest' = Latest => Latest \notin past.moved
  BY PastGrows
<1>2. ASSUME run'.plan # None PROVE run'.plan.release = run'.spec
  <2>1. OwnPlan(run'.plan)
    BY <1>2, RunPlanStep
  <2>2. Latest > 0 /\ Latest' = Latest /\ run'.spec = run.spec
    <3>1. Latest > 0 /\ Latest' = Latest
      BY <2>1 DEF OwnPlan
    <3> QED
      BY <1>2, <3>1, SpecKept
  <2>3. CASE run'.plan = run.plan
    BY <1>1, <1>2, <2>2, <2>3 DEF Unmoved
  <2>4. CASE run'.plan = proc.plan /\ At("record") /\ AtWork(run, "plan")
    <3>1. run.stage["apply"] # "done"
      BY <2>2, <2>4, NewestIs DEF AtWork, Fine, Orderly, Finished
    <3> QED
      BY <1>1, <1>2, <2>2, <2>4, <3>1 DEF Unmoved, At
  <2> QED
    BY <2>1, <2>3, <2>4 DEF OwnPlan
<1>3. ASSUME NEW m \in Machines, Resume(m)
      PROVE  Latest' = Latest /\ run'.spec = declared
  <2>1. /\ Latest > 0
        /\ past'.moved = IF declared = run.spec THEN past.moved ELSE past.moved \cup {Latest}
    BY <1>3 DEF Resume, Inv, Typed, Past
  <2>2. Latest' = Latest /\ run'.spec = run.spec
    <3>1. PICK rec \in Run : SetRun(rec) /\ rec.spec = run.spec
      BY <1>3, ResumeIs
    <3> QED
      BY <2>1, <3>1, SetRunIs DEF Inv, Typed
  <2> QED
    BY <2>1, <2>2
<1>4. ASSUME NEW m \in Machines, Execute(m)
      PROVE  run'.spec = declared
  BY <1>4, ExecuteIs
<1>5. ASSUME proc.pc # "none" PROVE Latest' = Latest /\ Latest > 0 /\ run'.spec = run.spec
  <2>1. Latest > 0
    BY <1>5 DEF Inv, Placed
  <2> QED
    BY <1>5, <2>1, SpecKept DEF Execute, At
<1>6. ASSUME Rollback \/ Plan \/ Apply PROVE proc.pc # "none"
  BY <1>6 DEF Rollback, Plan, Apply, At
<1>7. ASSUME proc'.pc # "none" PROVE proc'.spec = run'.spec
  <2>1. CASE proc.pc # "none" /\ proc'.spec = proc.spec
    BY <1>1, <1>5, <2>1 DEF Unmoved
  <2> QED
    BY <1>3, <1>4, <1>6, <1>7, <2>1, HeldStep DEF Held, Carried
<1>8. ASSUME proc'.pc # "none", proc'.plan # None, run'.stage["apply"] # "done"
      PROVE  proc'.plan.release = run'.spec
  <2>1. ASSUME NEW release, MadeFor(release) PROVE proc'.plan.release = release
    BY <2>1 DEF MadeFor, PlanOf
  <2>2. CASE Carried
    <3>1. proc.pc # "none" /\ proc'.plan = proc.plan
      BY <1>8, <2>2 DEF Carried
    <3>2. run.stage["apply"] # "done"
      BY <1>8, <3>1, FinishedKept DEF Lasting, Finished
    <3> QED
      BY <1>1, <1>5, <1>8, <3>1, <3>2 DEF Unmoved
  <2>3. CASE (Plan \/ Apply) /\ MadeFor(Wanted)
    BY <1>1, <1>5, <1>6, <2>1, <2>3, WantedIsSpec
  <2>4. CASE Apply /\ proc'.plan = run.plan
    BY <1>1, <1>5, <1>6, <1>8, <2>4 DEF Unmoved
  <2>5. CASE Rollback
    <3>1. run' = run /\ run.stage["apply"] = "done"
      BY <2>5, LaterIs DEF Rollback, Undoing
    <3> QED
      BY <1>8, <3>1
  <2> QED
    BY <1>4, <1>8, <2>1, <2>2, <2>3, <2>4, <2>5, HeldStep DEF Held
<1> QED
  BY <1>2, <1>7, <1>8

-----------------------------------------------------------------------------
(* Runs that applied nothing, and checks that passed.                      *)

\* Which steps end a stage well.
LEMMA EndsWell ==
    ASSUME Inv, [Next]_vars, proc'.pc = "record", proc'.out # "failed",
           NEW name \in {"apply", "checks"}, AtWork(run', name)
    PROVE  \/ Quiet
           \/ name = "apply" /\ Apply
           \/ name = "apply" /\ Note /\ proc'.out = "done"
           \/ name = "checks" /\ (ChecksSkipped \/ ChecksPass)
<1>1. proc \in Worker
  BY DEF Inv, Typed
<1>2. ~WriteSome
  BY DEF WriteSome, At
<1>9. ~Turns
  BY DEF Turns
<1>3. ~StageFails
  BY <1>1, OutcomeKeeps DEF StageFails
<1>4. ~Build /\ ~Deliver /\ ~Plan
  <2>1. ASSUME Build \/ Deliver \/ Plan PROVE FALSE
    <3>1. proc.pc \in {"build", "deliver", "plan"} /\ UNCHANGED journal
      BY <2>1 DEF Build, Deliver, Plan, At
    <3>2. AtWork(run, proc.pc) /\ run' = run
      BY <3>1, RunKept DEF Inv, Placed, Names
    <3> QED
      BY <3>1, <3>2 DEF AtWork
  <2> QED
    BY <2>1
<1>5. ~ChecksFail /\ ~Rollback
  <2>1. ChecksFail \/ Rollback => Outcome("failed") \/ proc'.pc # "record"
    BY <1>1 DEF ChecksFail, Goto, Rollback, Start, Worker
  <2> QED
    BY <1>1, <2>1, OutcomeKeeps
<1>6. ASSUME Apply PROVE name = "apply"
  <2>1. run' = run /\ AtWork(run, "apply")
    BY <1>6, LaterIs DEF Apply, At, Inv, Placed, Names
  <2> QED
    BY <2>1 DEF AtWork
<1>7. ASSUME ChecksSkipped \/ ChecksPass PROVE name = "checks"
  <2>1. run' = run /\ AtWork(run, "checks")
    BY <1>7, LaterIs DEF ChecksSkipped, RunsChecks, ChecksPass, At, Inv, Placed, Names
  <2> QED
    BY <2>1 DEF AtWork
<1>8. ASSUME Note PROVE name = "apply" /\ proc'.out = "done"
  <2>1. \E final :
            proc' = [proc EXCEPT !.pc = "record",
                !.out = IF proc.why # "rollback" /\ proc.got = "ready" THEN "done" ELSE "failed",
                !.final = final]
    BY <1>8 DEF Note
  <2>2. proc'.out = "done" /\ proc.why # "rollback"
    BY <1>1, <2>1 DEF Worker
  <2>3. run' = run /\ AtWork(run, "apply")
    BY <1>8, <2>2, LaterIs DEF Note, At, Inv, Placed, Executing
  <2> QED
    BY <2>2, <2>3 DEF AtWork
<1> QED
  BY <1>2, <1>3, <1>4, <1>5, <1>6, <1>7, <1>8, <1>9, PlaceStep DEF Leading

\* An apply stage is skipped when the release is deployed and runs.
LEMMA ApplySkips ==
    ASSUME Inv, Apply, proc'.pc = "record", proc'.out = "skipped"
    PROVE  /\ UNCHANGED history /\ proc'.plan = proc.plan
           /\ Unchanged(IF proc.plan = None THEN PlanOf(Wanted) ELSE proc.plan)
<1>1. proc \in Worker
  BY DEF Inv, Typed
<1> DEFINE now == IF proc.plan = None THEN PlanOf(Wanted) ELSE proc.plan
<1>2. \/ Unchanged(now) /\ Outcome("skipped") /\ UNCHANGED history
      \/ Outcome("done")
      \/ Outcome("failed")
      \/ proc' = [proc EXCEPT !.pc = "exec", !.why = "resume",
                              !.doing = run.plan, !.plan = now]
      \/ \E mode : Start(run.plan, "apply", mode)
  BY DEF Apply
<1> HIDE DEF now
<1>3. Unchanged(now) /\ Outcome("skipped") /\ UNCHANGED history
  <2>1. ASSUME NEW mode, Start(run.plan, "apply", mode) PROVE FALSE
    BY <1>1, <2>1 DEF Start, Worker
  <2>2. ASSUME proc' = [proc EXCEPT !.pc = "exec", !.why = "resume",
                                    !.doing = run.plan, !.plan = now]
        PROVE  FALSE
    BY <1>1, <2>2 DEF Worker
  <2> QED
    BY <1>1, <1>2, <2>1, <2>2, OutcomeKeeps
<1> QED
  BY <1>1, <1>3, OutcomeKeeps DEF now, Same

\* Nobody touches the history while a run that applied nothing is the newest.
LEMMA HistoryKept ==
    ASSUME Inv, Undoing, [Next]_vars, Latest > 0, run.stage["apply"] = "skipped"
    PROVE  UNCHANGED history
<1>1. proc.pc \notin Executing
  <2>1. ASSUME proc.pc \in Executing PROVE FALSE
    <3>1. proc.why # "rollback"
      BY <2>1 DEF Undoing
    <3> QED
      BY <2>1, <3>1 DEF Inv, Placed, AtWork, Finished, Executing
  <2> QED
    BY <2>1
<1>2. ~At("apply") /\ ~At("rollback")
  BY DEF At, Inv, Placed, Names, AtWork, Finished, Undoing
<1> QED
  BY <1>1, <1>2, StepCases DEF Spared, Begins, Writes, Note, At, Executing

\* The step that skips an apply stage, or one after it.
LEMMA FoundStep ==
    ASSUME Inv, Settled, Undoing, Unmoved, Skipped, [Next]_vars, Latest' > 0,
           Latest' \notin past'.moved,
           \/ run'.stage["apply"] = "skipped"
           \/ proc'.pc = "record" /\ AtWork(run', "apply") /\ proc'.out = "skipped"
    PROVE  /\ history'[Len(history')].state = "ready"
           /\ history'[Len(history')].release = run'.plan.release
<1>1. Latest' = Latest => Latest \notin past.moved
  BY PastGrows
<1>2. ASSUME Found, UNCHANGED history, run'.plan = run.plan
      PROVE  /\ history'[Len(history')].state = "ready"
             /\ history'[Len(history')].release = run'.plan.release
  BY <1>2 DEF Found, Newest
<1>3. CASE run'.stage["apply"] = "skipped"
  <2>1. ASSUME Latest > 0, Latest' = Latest, run.stage["apply"] = "skipped",
               run'.plan = run.plan
        PROVE  /\ history'[Len(history')].state = "ready"
               /\ history'[Len(history')].release = run'.plan.release
    BY <1>1, <1>2, <2>1, HistoryKept DEF Skipped
  <2>2. ASSUME NEW m \in Machines, Execute(m) PROVE FALSE
    BY <1>3, <2>2, ExecuteIs DEF Names
  <2>3. CASE RunKeeps
    BY <1>3, <2>1, <2>3 DEF RunKeeps, Lasting
  <2>4. ASSUME NEW name \in Names, Latest > 0,
               NEW out \in {"running", "done", "skipped", "failed"}, SavesStage(name, out),
               name # "apply" \/ out # "skipped"
        PROVE  /\ history'[Len(history')].state = "ready"
               /\ history'[Len(history')].release = run'.plan.release
    <3>1. run.stage["apply"] = "skipped" /\ Latest' = Latest
      BY <1>3, <2>4 DEF SavesStage, Run, Names
    <3>2. name # "plan"
      BY <2>4, <3>1, NewestIs DEF SavesStage, AtWork, Fine, Orderly, Finished
    <3>3. run'.plan = run.plan
      BY <2>4, <3>2 DEF SavesStage
    <3> QED
      BY <2>1, <2>4, <3>1, <3>3
  <2>5. ASSUME Record, SavesStage("apply", proc.out), proc.out = "skipped"
        PROVE  /\ history'[Len(history')].state = "ready"
               /\ history'[Len(history')].release = run'.plan.release
    <3>1. /\ At("record") /\ UNCHANGED history /\ AtWork(run, "apply")
          /\ run'.plan = run.plan /\ Latest' = Latest
      BY <2>5 DEF Record, SavesStage
    <3> QED
      BY <1>1, <1>2, <2>5, <3>1 DEF Skipped
  <2>6. NextStage \/ Record => Latest > 0
    BY DEF NextStage, Record, At, Inv, Placed
  <2> QED
    BY <2>2, <2>3, <2>4, <2>5, <2>6, JournalStep
<1>4. CASE proc'.pc = "record" /\ AtWork(run', "apply") /\ proc'.out = "skipped"
  <2>1. CASE Quiet
    <3>1. /\ run' = run /\ Latest' = Latest /\ proc' = proc /\ UNCHANGED history
      BY <2>1, RunKept DEF Quiet
    <3> QED
      BY <1>1, <1>2, <1>4, <3>1 DEF Skipped, At
  <2>2. CASE Apply
    <3> DEFINE now == IF proc.plan = None THEN PlanOf(Wanted) ELSE proc.plan
    <3>1. UNCHANGED history /\ Unchanged(now)
      BY <1>4, <2>2, ApplySkips
    <3>2. /\ run' = run /\ Latest' = Latest /\ Latest > 0 /\ AtWork(run, "apply")
          /\ proc.pc # "none"
      BY <2>2, LaterIs, RunKept DEF Apply, At, Inv, Placed, Names
    <3>3. run.plan.release = run.spec
      BY <1>1, <3>2, NewestIs DEF AtWork, Fine, Unmoved
    <3>4. now.release = run.spec
      <4>1. CASE proc.plan = None
        <5>1. now.release = Wanted
          BY <4>1 DEF PlanOf
        <5> QED
          BY <1>1, <2>2, <3>2, <5>1, WantedIsSpec
      <4>2. CASE proc.plan # None
        BY <1>1, <3>2, <4>2 DEF Unmoved, AtWork, Finished
      <4> QED
        BY <4>1, <4>2
    <3> HIDE DEF now
    <3> QED
      BY <3>1, <3>2, <3>3, <3>4 DEF Unchanged, Newest
  <2> QED
    BY <1>4, <2>1, <2>2, EndsWell
<1> QED
  BY <1>3, <1>4

\* The plan that a process holds then saw the release that it plans.
LEMMA SawItselfStep ==
    ASSUME Inv, Undoing, Skipped, [Next]_vars, proc'.pc # "none", proc'.plan # None,
           \/ run'.stage["apply"] = "skipped"
           \/ proc'.pc = "record" /\ AtWork(run', "apply") /\ proc'.out = "skipped"
    PROVE  proc'.plan.saw = proc'.plan.release
<1>1. CASE proc'.pc = "record" /\ AtWork(run', "apply") /\ proc'.out = "skipped"
  <2>1. CASE Quiet
    <3>1. run' = run /\ proc' = proc
      BY <2>1, RunKept DEF Quiet
    <3> QED
      BY <1>1, <3>1 DEF Skipped, At
  <2>2. CASE Apply
    BY <1>1, <2>2, ApplySkips DEF Unchanged
  <2> QED
    BY <1>1, <2>1, <2>2, EndsWell
<1>2. CASE run'.stage["apply"] = "skipped"
  <2>1. ASSUME NEW m \in Machines, Execute(m) PROVE FALSE
    BY <1>2, <2>1, ExecuteIs DEF Names
  <2>2. ~Plan /\ ~Apply
    <3>1. Plan \/ Apply => /\ run' = run /\ run.stage["apply"] \notin Finished
      <4>1. Plan \/ Apply => UNCHANGED journal /\ proc.pc \in {"plan", "apply"}
        BY DEF Plan, Apply, At
      <4>2. proc.pc \in {"plan", "apply"} =>
                Latest > 0 /\ AtWork(run, proc.pc)
        BY DEF Inv, Placed, Names
      <4>3. Latest > 0 => Orderly(run)
        BY RunIs DEF Inv, Sound, Typed, run
      <4> QED
        BY <4>1, <4>2, <4>3, RunKept DEF AtWork, Orderly
    <3> QED
      BY <1>2, <3>1 DEF Finished
  <2>3. ~Rollback
    BY <1>2, LaterIs DEF Rollback, Undoing
  <2>4. Carried /\ proc.pc # "none" /\ Latest > 0 /\ proc'.plan = proc.plan
    BY <2>1, <2>2, <2>3, HeldStep DEF Held, Carried, Inv, Placed
  <2>5. \/ run.stage["apply"] = "skipped"
        \/ At("record") /\ AtWork(run, "apply") /\ proc.out = "skipped"
    <3>1. ASSUME NEW name \in Names, NEW out, SavesStage(name, out)
          PROVE  \/ run.stage["apply"] = "skipped"
                 \/ name = "apply" /\ out = "skipped"
      BY <1>2, <3>1 DEF SavesStage, Run, Names
    <3>2. CASE RunKeeps
      BY <1>2, <2>4, <3>2 DEF RunKeeps, Lasting
    <3>3. ASSUME NEW name \in Names, SavesStage(name, "running")
          PROVE  run.stage["apply"] = "skipped"
      BY <3>1, <3>3
    <3>4. ASSUME NEW name \in Names, Record, SavesStage(name, proc.out)
          PROVE  \/ run.stage["apply"] = "skipped"
                 \/ At("record") /\ AtWork(run, "apply") /\ proc.out = "skipped"
      BY <3>1, <3>4 DEF Record, SavesStage
    <3> QED
      BY <2>1, <3>2, <3>3, <3>4, JournalStep
  <2> QED
    BY <2>4, <2>5 DEF Skipped
<1> QED
  BY <1>1, <1>2

LEMMA SkippedStep ==
    ASSUME Inv, Settled, Undoing, Unmoved, Skipped, [Next]_vars
    PROVE  Skipped'
<1>1. proc'.pc = "record" => Latest' > 0
  <2>1. Placed'
    BY PlacedStep
  <2> QED
    BY <2>1 DEF Placed
<1> QED
  BY <1>1, FoundStep, SawItselfStep DEF Skipped, Found, Newest, At

\* What the newest run applied, or found, is what was deployed last.
LEMMA DeployedIs ==
    ASSUME Inv, Settled, Stamped, Plans, Skipped, Latest > 0,
           run.stage["apply"] \in Finished, Latest \notin past.undone,
           run.stage["apply"] = "skipped" => Latest \notin past.moved
    PROVE  Deployed = run.plan.release
<1>1. /\ LastOf(ReadyAt) \in ReadyAt /\ \A i \in ReadyAt : i <= LastOf(ReadyAt)
      /\ Len(history) \in Nat \ {0} /\ DOMAIN history = 1 .. Len(history)
      /\ \A i \in DOMAIN history : history[i] \in Entry
  BY HistoryIs DEF Inv
<1>2. run \in Run /\ run.plan # None /\ run.plan \in Hash
  <2>1. run \in Run /\ run.plan # None
    BY NewestIs DEF Fine, Orderly
  <2> QED
    BY <2>1 DEF Run
<1> DEFINE last == LastOf(ReadyAt)
<1>3. CASE run.stage["apply"] = "skipped"
  <2>1. Newest.state = "ready" /\ Newest.release = run.plan.release
    BY <1>3 DEF Skipped, Found
  <2>2. Len(history) \in ReadyAt
    BY <1>1, <2>1 DEF Newest, ReadyAt
  <2>3. last \in ReadyAt /\ Len(history) <= last
    BY <1>1, <2>2
  <2> HIDE DEF last
  <2>4. last \in 1 .. Len(history) /\ Len(history) \in Nat
    BY <1>1, <2>3 DEF ReadyAt
  <2>5. last = Len(history)
    BY <2>3, <2>4
  <2> QED
    BY <2>1, <2>5 DEF Deployed, Newest, last
<1>4. CASE run.stage["apply"] = "done"
  <2>1. Readied(run.plan)
    BY <1>4, NewestIs DEF Inv, Effects, run
  <2>2. PICK j \in ReadyAt : history[j].plan = run.plan
    BY <2>1 DEF Readied, ReadyAt
  <2> HIDE DEF last
  <2>3. /\ last \in ReadyAt /\ j <= last /\ j \in 1 .. Len(history)
        /\ last \in 1 .. Len(history)
    BY <1>1, <2>2 DEF last, ReadyAt
  <2>4. history[j].release = run.plan.release /\ run.plan.base <= history[j].version
    BY <1>1, <1>2, <2>2, <2>3 DEF Stamped
  <2>5. history[last].release = run.plan.release
    <3>1. CASE history[last].plan = run.plan
      BY <1>1, <1>2, <2>3, <3>1 DEF Stamped
    <3>2. CASE history[last].plan # run.plan
      <4>1. /\ history[last].version \in Nat /\ history[j].version \in Nat
            /\ run.plan.base \in Nat
        BY <1>1, <1>2, <2>3 DEF Entry, Hash
      <4>2. history[last].version <= run.plan.base
        BY <1>2, <2>3, <3>2 DEF Plans, NothingSince
      <4>3. history[j].version <= history[last].version
        BY <2>2, <2>3, <3>2 DEF Stamped
      <4>4. history[j].version = run.plan.base /\ history[last].version = run.plan.base
        BY <2>4, <4>1, <4>2, <4>3
      <4> QED
        BY <1>2, <2>2, <2>3, <2>4, <4>4 DEF Plans, SawRight
    <3> QED
      BY <3>1, <3>2
  <2> QED
    BY <2>5 DEF Deployed, last
<1> QED
  BY <1>3, <1>4 DEF Finished

\* The release of the newest run, when runs go straight for it.
LEMMA StraightIs ==
    ASSUME Inv, Settled, Stamped, Plans, Skipped, Latest > 0,
           run.stage["apply"] \in Finished, Straight(run.plan.release)
    PROVE  /\ Deployed = run.plan.release
           /\ Latest \notin past.undone \cup past.moved
<1>1. run.plan # None
  BY NewestIs DEF Fine, Orderly
<1>2. Latest \notin past.undone \cup past.moved
  BY <1>1 DEF Straight, run
<1> QED
  BY <1>2, DeployedIs

LEMMA VerifiedStep ==
    ASSUME Inv, Settled, Stamped, Plans, Undoing, Skipped, Verified, [Next]_vars
    PROVE  Verified'
<1>1. past.verified \subseteq past'.verified
  BY PastGrows
<1>2. ASSUME NEW i \in DOMAIN journal, journal[i].passed, journal[i].plan # None,
             Straight(journal[i].plan.release)
      PROVE  journal[i].plan.release \in past'.verified
  BY <1>1, <1>2 DEF Verified
<1>3. ASSUME NEW i \in DOMAIN journal', journal'[i].passed, journal'[i].plan # None,
             StraightNext(journal'[i].plan.release)
      PROVE  journal'[i].plan.release \in past'.verified
  <2>1. Straight(journal'[i].plan.release)
    BY <1>3, StraightBefore
  <2>2. CASE i \in DOMAIN journal /\ journal'[i].plan = journal[i].plan /\ journal[i].passed
    BY <1>2, <1>3, <2>1, <2>2
  <2>3. ASSUME NEW m \in Machines, Execute(m), i \notin DOMAIN journal PROVE FALSE
    <3>1. Latest \in Nat
      BY DEF Inv, Typed, Latest
    <3>2. i = Latest' /\ ~run'.passed
      BY <2>3, <3>1, ExecuteIs
    <3> QED
      BY <1>3, <3>2 DEF run
  <2>4. ASSUME i = Latest, Latest > 0, Latest' = Latest, i \in DOMAIN journal,
               run'.passed = run.passed, run'.plan = run.plan
        PROVE  journal'[i].plan.release \in past'.verified
    <3>1. journal'[i].plan = journal[i].plan /\ journal[i].passed
      BY <1>3, <2>4 DEF run
    <3> QED
      BY <2>2, <2>4, <3>1
  <2>5. ASSUME NEW m \in Machines, Execute(m), i \in DOMAIN journal
        PROVE  journal'[i] = journal[i]
    BY <2>5, ExecuteIs
  <2>6. ASSUME i \in DOMAIN journal, i # Latest PROVE journal'[i] = journal[i]
    BY <2>6, PlansKept
  <2>7. CASE RunKeeps
    <3>1. i \in DOMAIN journal /\ (i = Latest => Latest > 0)
      BY <2>7 DEF RunKeeps, Inv, Typed, Latest
    <3> QED
      BY <1>3, <2>2, <2>4, <2>6, <2>7, <3>1 DEF RunKeeps
  <2>8. ASSUME NEW name \in Names, Latest > 0, SavesStage(name, "running")
        PROVE  journal'[i].plan.release \in past'.verified
    <3>1. /\ i \in DOMAIN journal /\ Latest' = Latest
          /\ run'.passed = run.passed /\ run'.plan = run.plan
      BY <2>8 DEF SavesStage
    <3> QED
      BY <1>3, <2>2, <2>4, <2>6, <2>8, <3>1
  <2>9. ASSUME NEW name \in Names, Record, SavesStage(name, proc.out)
        PROVE  journal'[i].plan.release \in past'.verified
    <3>1. /\ i \in DOMAIN journal /\ Latest' = Latest /\ At("record") /\ Latest > 0
          /\ AtWork(run, name)
      BY <2>9 DEF SavesStage, Record, At, Inv, Placed
    <3>2. CASE i # Latest
      BY <1>3, <2>2, <2>6, <3>1, <3>2
    <3>3. CASE i = Latest /\ name \notin {"plan", "checks"}
      BY <2>4, <2>9, <3>1, <3>3 DEF SavesStage
    <3>4. CASE i = Latest /\ name = "plan"
      <4>1. ~run.passed /\ run'.passed = run.passed
        BY <2>9, <3>1, <3>4, NewestIs DEF SavesStage, AtWork, Proper
      <4> QED
        BY <1>3, <3>1, <3>4, <4>1 DEF run
    <3>5. CASE i = Latest /\ name = "checks"
      <4>1. run'.passed /\ run' = journal'[i]
        BY <1>3, <3>1, <3>5 DEF run
      <4>2. proc.out # "failed" /\ run'.plan = run.plan
        <5>1. proc.out \in {"done", "skipped", "failed"}
          BY <3>1 DEF Inv, Placed, At
        <5> QED
          BY <2>9, <3>5, <4>1, <5>1 DEF SavesStage
      <4>3. run.plan.release \in past.verified
        BY <2>1, <3>1, <3>5, <4>1, <4>2 DEF Verified
      <4> QED
        BY <1>1, <4>1, <4>2, <4>3
    <3> QED
      BY <3>2, <3>3, <3>4, <3>5
  <2>10. NextStage => Latest > 0
    BY DEF NextStage, At, Inv, Placed
  <2> QED
    BY <1>3, <2>2, <2>3, <2>5, <2>7, <2>8, <2>9, <2>10, JournalStep
<1>4. ASSUME proc'.pc = "record", AtWork(run', "checks"), proc'.out # "failed",
             StraightNext(run'.plan.release)
      PROVE  run'.plan.release \in past'.verified
  <2>1. Straight(run'.plan.release)
    BY <1>4, StraightBefore
  <2>2. CASE Quiet
    <3>1. run' = run /\ proc' = proc
      BY <2>2, RunKept DEF Quiet
    <3> QED
      BY <1>1, <1>4, <2>1, <3>1 DEF Verified, At
  <2>3. CASE ChecksSkipped \/ ChecksPass
    <3>1. run' = run /\ Latest > 0 /\ AtWork(run, "checks")
      BY <2>3, LaterIs DEF ChecksSkipped, RunsChecks, ChecksPass, At, Inv, Placed, Names
    <3>2. CASE ChecksSkipped
      <4> DEFINE of == {i \in DOMAIN journal :
                          /\ journal[i].plan # None
                          /\ journal[i].plan.release = run.plan.release
                          /\ \/ journal[i].stage["checks"] = "failed"
                             \/ journal[i].stage["checks"] \in Finished}
      <4>1. of # {} /\ journal[LastOf(of)].passed
        BY <3>2 DEF ChecksSkipped, LastChecksPassed
      <4>2. Len(journal) \in Nat /\ of \in SUBSET (1 .. Len(journal))
        BY DEF Inv, Typed
      <4>3. LastOf(of) \in of
        BY <4>1, <4>2, LastIs
      <4>4. PICK i \in DOMAIN journal : /\ journal[i].plan # None /\ journal[i].passed
                                        /\ journal[i].plan.release = run.plan.release
        BY <4>1, <4>3
      <4> QED
        BY <1>2, <2>1, <3>1, <4>4
    <3>3. CASE ChecksPass
      <4>1. Deployed = run.plan.release
        BY <2>1, <3>1, StraightIs DEF AtWork
      <4>2. past'.verified = past.verified \cup {Deployed}
        BY <3>3 DEF ChecksPass, Inv, Typed, Past
      <4> QED
        BY <3>1, <4>1, <4>2
    <3> QED
      BY <2>3, <3>2, <3>3
  <2> QED
    BY <1>4, <2>2, <2>3, EndsWell
<1>5. ASSUME NEW i \in DOMAIN journal', journal'[i].passed, journal'[i].plan # None,
             Straight(journal[i].plan.release)'
      PROVE  journal'[i].plan.release \in past'.verified
  BY <1>3, <1>5 DEF Straight, StraightNext
<1>6. ASSUME proc'.pc = "record", AtWork(run', "checks"), proc'.out # "failed",
             Straight(run.plan.release)'
      PROVE  run'.plan.release \in past'.verified
  BY <1>4, <1>6 DEF Straight, StraightNext
<1> QED
  BY <1>5, <1>6 DEF Verified, At

-----------------------------------------------------------------------------
(* What the newest run executed is the end of the history.                 *)

\* Plans are numbered one after the other.
LEMMA MadeStep ==
    ASSUME Inv, [Next]_vars
    PROVE  made \in Nat /\ (made' = made \/ made' = made + 1)
<1>1. made \in Nat
  BY DEF Inv, Typed
<1>2. ASSUME UNCHANGED planned \/ \E hash : Planned(hash)
      PROVE  made' = made \/ made' = made + 1
  BY <1>2 DEF planned, Planned
<1>3. ASSUME NEW m \in Machines, Execute(m) \/ Resume(m)
      PROVE  UNCHANGED planned \/ \E hash : Planned(hash)
  BY <1>3 DEF Execute, Resume
<1>4. NextStage \/ EndRun \/ Record \/ FailRun \/ StageFails => UNCHANGED planned
  BY DEF NextStage, EndRun, Record, FailRun, StageFails
<1>5. Build \/ Deliver => UNCHANGED planned
  BY DEF Build, Deliver
<1>6. Plan => UNCHANGED planned \/ \E hash : Planned(hash)
  BY DEF Plan
<1>7. Apply => UNCHANGED planned \/ \E hash : Planned(hash)
  BY DEF Apply
<1>8. Rollback => UNCHANGED planned \/ \E hash : Planned(hash)
  BY DEF Rollback
<1>9. \/ WriteSome \/ ExecutionReady \/ ExecutionFails \/ ExecutionRefused \/ ExecutionRejected
      => UNCHANGED planned
  BY DEF WriteSome, ExecutionReady, ExecutionFails, ExecutionRefused, ExecutionRejected
<1>10. Note \/ ChecksSkipped \/ ChecksPass \/ ChecksFail \/ Kill \/ EditByHand => UNCHANGED planned
  BY DEF Note, ChecksSkipped, ChecksPass, ChecksFail, Kill, EditByHand
<1>11. Unlink => made' = made
  BY DEF Unlink
<1>12. (\E r \in Releases : Edit(r)) \/ UNCHANGED vars => UNCHANGED planned
  BY DEF Edit, vars, planned
<1> QED
  BY <1>1, <1>2, <1>3, <1>4, <1>5, <1>6, <1>7, <1>8, <1>9, <1>10, <1>11, <1>12
     DEF Next, Process

\* What an entry was made for does not change; a new one is of the run's plan, of
\* one that is resumed, or of a plan made now.
LEMMA EntryPlans ==
    ASSUME Inv, [Next]_vars, NEW i \in DOMAIN history'
    PROVE  \/ \E j \in DOMAIN history : history'[i].plan = history[j].plan
           \/ At("apply") /\ history'[i].plan = run.plan
           \/ history'[i].plan = PlanOf(Previous) /\ made' = made + 1
<1>1. Typed /\ Rooted /\ Len(history) \in Nat /\ DOMAIN history = 1 .. Len(history)
  BY DEF Inv, Typed
<1>2. CASE Spared
  BY <1>2 DEF Spared
<1>3. ASSUME NEW hash \in Hash, NEW why \in {"apply", "rollback"},
             NEW mode \in {"create", "reapply"}, Begins(hash, why), Start(hash, why, mode)
      PROVE  \/ \E j \in DOMAIN history : history'[i].plan = history[j].plan
             \/ At("apply") /\ history'[i].plan = run.plan
             \/ history'[i].plan = PlanOf(Previous) /\ made' = made + 1
  <2>1. /\ history' \in Seq(Entry) /\ Len(history') = Len(history) + 1
        /\ history'[Len(history')].plan = hash
        /\ \A k \in DOMAIN history : history'[k] = history[k]
    BY <1>1, <1>3, StartIs
  <2>2. i \in DOMAIN history \/ i = Len(history')
    BY <1>1, <2>1
  <2>3. CASE i \in DOMAIN history
    BY <2>1, <2>3
  <2>4. CASE i = Len(history')
    BY <1>3, <2>1, <2>4 DEF Begins
  <2> QED
    BY <2>2, <2>3, <2>4
<1>4. ASSUME NEW content \in Releases \cup {Mixed}, Writes(content)
      PROVE  \E j \in DOMAIN history : history'[i].plan = history[j].plan
  <2>1. proc.pc \in Executing /\ Runs(content)
    BY <1>4 DEF Writes, At, Executing
  <2>2. /\ DOMAIN history' = DOMAIN history
        /\ \A k \in DOMAIN history : k # Execution => history'[k] = history[k]
        /\ history'[Execution].plan = history[Execution].plan
    BY <2>1, RunsExactly
  <2> QED
    BY <2>2
<1>5. Note => \E j \in DOMAIN history : history'[i].plan = history[j].plan
  BY NoteEntries
<1> QED
  BY <1>2, <1>3, <1>4, <1>5, StepCases

LEMMA NumberedStep ==
    ASSUME Inv, Settled, Numbered, [Next]_vars
    PROVE  Numbered'
<1>1. made \in Nat /\ (made' = made \/ made' = made + 1)
  BY MadeStep
<1>2. \A release : PlanOf(release).nth = made
  BY DEF PlanOf
<1>3. /\ \A i \in DOMAIN history : history[i].plan # None => history[i].plan.nth \in Nat
      /\ proc.plan # None => proc.plan.nth \in Nat
      /\ Latest > 0 /\ run.plan # None => run.plan.nth \in Nat
  <2>1. \A i \in DOMAIN history : history[i] \in Entry
    BY DEF Inv, Typed
  <2>2. proc \in Worker /\ (Latest > 0 => run \in Run)
    BY RunIs DEF Inv, Typed
  <2> QED
    BY <2>1, <2>2 DEF Entry, Worker, Run, Hash
<1>4. At("apply") => Latest > 0
  BY DEF At, Inv, Placed
<1>5. ASSUME NEW i \in DOMAIN history', history'[i].plan # None
      PROVE  history'[i].plan.nth < made'
  <2>1. CASE \E j \in DOMAIN history : history'[i].plan = history[j].plan
    BY <1>1, <1>3, <1>5, <2>1 DEF Numbered
  <2>2. CASE At("apply") /\ history'[i].plan = run.plan
    BY <1>1, <1>3, <1>4, <1>5, <2>2 DEF Numbered
  <2>3. CASE history'[i].plan = PlanOf(Previous) /\ made' = made + 1
    BY <1>1, <1>2, <2>3
  <2> QED
    BY <2>1, <2>2, <2>3, EntryPlans
<1>6. ASSUME proc'.plan # None PROVE proc'.plan.nth < made'
  <2>1. CASE proc'.plan = proc.plan
    BY <1>1, <1>3, <1>6, <2>1 DEF Numbered
  <2>2. CASE Apply /\ proc'.plan = run.plan
    BY <1>1, <1>3, <1>4, <1>6, <2>2 DEF Numbered, Apply
  <2>3. ASSUME NEW release, MadeFor(release) PROVE proc'.plan.nth < made'
    BY <1>1, <1>2, <2>3 DEF MadeFor
  <2> QED
    BY <1>6, <2>1, <2>2, <2>3, HeldStep DEF Held, Carried
<1>7. ASSUME Latest' > 0, run'.plan # None PROVE run'.plan.nth < made'
  <2>1. OwnPlan(run'.plan)
    BY <1>7, RunPlanStep
  <2> QED
    BY <1>1, <1>3, <1>7, <2>1 DEF OwnPlan, Numbered
<1> QED
  BY <1>5, <1>6, <1>7 DEF Numbered

\* Only executions touch the history.
LEMMA HistoryRests ==
    ASSUME Inv, [Next]_vars, proc.pc \notin {"apply", "rollback", "exec", "note"}
    PROVE  UNCHANGED history
  BY StepCases DEF Spared, Begins, Writes, Note, At

\* A plan that a process holds before its plan stage is finished.
LEMMA HeldUnused ==
    ASSUME Inv, Numbered, Topmost, [Next]_vars, proc'.pc # "none", proc'.plan # None,
           run'.stage["plan"] \notin Finished
    PROVE  \A i \in DOMAIN history' : history'[i].plan # proc'.plan
<1>1. ~Note /\ ~Rollback /\ ~Apply
  <2>1. Note \/ Rollback \/ Apply => run' = run /\ run.stage["plan"] \in Finished
    BY LaterIs
  <2> QED
    BY <2>1
<1>2. UNCHANGED history
  <2>1. proc.pc # "none" => run.stage["plan"] \notin Finished
    BY UnfinishedBefore DEF Lasting
  <2>2. proc.pc \in {"apply", "rollback", "exec", "note"} => run.stage["plan"] \in Finished
    BY DEF Inv, Placed, At, Names, Executing, AtWork
  <2> QED
    BY <2>1, <2>2, HistoryRests
<1>3. CASE Carried
  <2>1. proc.pc # "none" /\ proc.plan # None /\ proc'.plan = proc.plan
    BY <1>3 DEF Carried
  <2>2. run.stage["plan"] \notin Finished
    BY <2>1, UnfinishedBefore DEF Lasting
  <2> QED
    BY <1>2, <2>1, <2>2 DEF Topmost, Unused
<1>4. ASSUME NEW release, MadeFor(release)
      PROVE  \A i \in DOMAIN history' : history'[i].plan # proc'.plan
  <2>1. proc'.plan.nth = made /\ proc'.plan # None /\ made \in Nat
    BY <1>4, MadeStep DEF MadeFor, PlanOf
  <2>2. \A i \in DOMAIN history : history[i].plan # None => history[i].plan.nth < made
    BY DEF Numbered
  <2>3. \A i \in DOMAIN history : history[i].plan # proc'.plan
    BY <2>1, <2>2
  <2> QED
    BY <1>2, <2>3
<1> QED
  BY <1>1, <1>3, <1>4, HeldStep DEF Held

\* The plan of a run that nobody resumed yet and whose apply stage is to come.
LEMMA RunUnused ==
    ASSUME Inv, Settled, Topmost, [Next]_vars,
           proc'.pc \in {"next", "build", "deliver", "plan", "apply"}, ~proc'.resuming,
           run'.plan # None, run'.stage["apply"] \notin Finished, Latest' > 0
    PROVE  \A i \in DOMAIN history' : history'[i].plan # run'.plan
<1>1. proc \in Worker
  BY DEF Inv, Typed
<1>2. OwnPlan(run'.plan)
  BY RunPlanStep
<1>3. CASE Quiet
  BY <1>3, RunKept DEF Quiet, Topmost, Unused
<1>4. ~WriteSome /\ ~Turns
  BY DEF WriteSome, At, Turns
<1>5. ASSUME NEW m \in Machines, Execute(m) \/ Resume(m) PROVE FALSE
  <2>1. ~Execute(m)
    BY ExecuteIs
  <2>2. ~Resume(m)
    BY DEF Resume, Idle
  <2> QED
    BY <1>5, <2>1, <2>2
<1>6. CASE NextStage
  <2>1. PICK name \in Names : SavesStage(name, "running")
    BY <1>6, NextStageSaves
  <2>2. /\ At("next") /\ UNCHANGED history /\ run'.plan = run.plan
        /\ proc'.resuming = proc.resuming
    BY <1>6, <2>1 DEF NextStage, SavesStage, Same
  <2>3. run.stage["apply"] \notin Finished
    BY <2>2, UnfinishedBefore DEF Lasting, At
  <2> QED
    BY <2>2, <2>3 DEF Topmost, Unused, At
<1>7. CASE Record
  <2>1. PICK name \in Names : SavesStage(name, proc.out)
    BY <1>7, RecordSaves
  <2>2. /\ At("record") /\ UNCHANGED history /\ Latest > 0
        /\ proc.out \in {"done", "skipped", "failed"}
    BY <1>7 DEF Record, At, Inv, Placed
  <2>3. proc.out # "failed"
    <3>1. Goto(IF proc.out = "failed" THEN "fail" ELSE "next")
      BY <1>7 DEF Record
    <3> QED
      BY <1>1, <3>1 DEF Goto, Worker
  <2>4. AtWork(run, name) /\ Fine(run) /\ Proper(run) /\ run \in Run
    BY <2>1, <2>2, NewestIs DEF SavesStage
  <2>5. run'.stage[name] = proc.out
    BY <2>1, <2>4 DEF SavesStage, Run, Names
  <2>6. name # "apply" /\ name # "checks"
    <3>1. name # "apply"
      BY <2>2, <2>3, <2>5 DEF Finished
    <3>2. run.stage["apply"] \notin Finished
      BY <2>2, UnfinishedBefore DEF Lasting, At
    <3> QED
      BY <2>4, <3>1, <3>2 DEF AtWork
  <2>7. name = "plan" /\ run'.plan = proc.plan
    BY <2>1, <2>4, <2>6 DEF SavesStage, AtWork, Proper, Fine, Orderly, Names
  <2>8. run.stage["plan"] \notin Finished /\ proc.plan # None
    BY <2>4, <2>7 DEF AtWork
  <2> QED
    BY <2>2, <2>7, <2>8 DEF Topmost, Unused, At
<1> QED
  BY <1>3, <1>4, <1>5, <1>6, <1>7, PlaceStep DEF Leading

\* An apply stage that executes has a plan that did not become ready.
LEMMA ApplyUnready ==
    ASSUME Inv, Topmost, Apply, proc'.pc = "exec", Latest \notin past.undone
    PROVE  ~Readied(run.plan)
<1>1. proc \in Worker /\ Latest > 0 /\ run.plan # None /\ At("apply") /\ AtWork(run, "apply")
  <2>1. proc \in Worker /\ Latest > 0 /\ At("apply") /\ AtWork(run, "apply")
    BY DEF Apply, At, Inv, Typed, Placed, Names
  <2> QED
    BY <2>1, RunIs DEF Inv, Sound, AtWork, Typed, run
<1>2. ~ApplyAlready
  BY <1>1, OutcomeKeeps DEF Apply
<1> SUFFICES ASSUME Readied(run.plan) PROVE FALSE
  OBVIOUS
<1>3. ~Unused(run.plan)
  BY DEF Readied, Unused
<1>4. proc.resuming
  BY <1>1, <1>3 DEF Topmost, At, AtWork
<1>5. Newest.plan = run.plan /\ Newest.state = "ready"
  BY <1>1, <1>3 DEF Topmost
<1>6. Len(history) \in Nat \ {0} /\ DOMAIN history = 1 .. Len(history)
  BY HistoryIs DEF Inv
<1>7. Len(history) \in Tried /\ Tried \in SUBSET (1 .. Len(history))
  BY <1>5, <1>6 DEF Tried, Newest
<1>8. LastOf(Tried) = Len(history)
  <2> DEFINE last == LastOf(Tried)
             len == Len(history)
  <2>1. last \in 1 .. len /\ len <= last /\ len \in Nat
    BY <1>6, <1>7, LastIs
  <2> HIDE DEF last, len
  <2>2. last = len
    BY <2>1
  <2> QED
    BY <2>2 DEF last, len
<1>9. Again = Tried /\ Again # {}
  BY <1>4, <1>7 DEF Again
<1>10. Len(history) \in Attempts("ready")
  BY <1>5, <1>6 DEF Attempts, Newest
<1> QED
  BY <1>2, <1>8, <1>9, <1>10 DEF ApplyAlready

\* What no execution of made ready, is not when none is noted.
LEMMA NothingReadied ==
    ASSUME Inv, Stamping, [Next]_vars, ~Note, NEW hash, ~Readied(hash)
    PROVE  ~ReadiedNext(hash)
<1>1. \A i \in ReadyNext : i \in ReadyAt /\ history'[i] = history[i]
  BY ReadyStep DEF NewlyReady
<1> QED
  BY <1>1 DEF ReadyNext, ReadyAt, Readied, ReadiedNext

LEMMA ExecutedUnready ==
    ASSUME Inv, Settled, Stamping, Undoing, Topmost, [Next]_vars, proc'.pc \in Executing,
           proc'.why # "rollback", Latest' \notin past'.undone
    PROVE  ~ReadiedNext(run'.plan)
<1>1. proc \in Worker /\ past.undone \subseteq past'.undone
  BY PastGrows DEF Inv, Typed
<1>2. ASSUME proc.pc \in Executing, proc'.why = proc.why, UNCHANGED journal, ~Note
      PROVE  ~ReadiedNext(run'.plan)
  <2>1. ~Readied(run.plan) /\ run' = run
    BY <1>1, <1>2, RunKept DEF Topmost
  <2> QED
    BY <1>2, <2>1, NothingReadied
<1>3. ~Note
  BY <1>1 DEF Note, Executing, Worker
<1>4. CASE Quiet
  BY <1>2, <1>3, <1>4 DEF Quiet
<1>5. CASE WriteSome
  BY <1>2, <1>3, <1>5 DEF WriteSome, At, Executing
<1>6. CASE Turns
  BY <1>2, <1>3, <1>6 DEF Turns, At, Executing
<1>7. CASE Leading /\ proc'.pc \in Returned
  BY <1>2, <1>3, <1>7 DEF Leading, At, Executing
<1>8. CASE Leading /\ proc'.pc = "exec"
  <2>1. CASE Apply
    <3>1. run' = run /\ Latest' = Latest
      BY <2>1, LaterIs, RunKept
    <3>2. ~Readied(run.plan)
      BY <1>1, <1>8, <2>1, <3>1, ApplyUnready
    <3> QED
      BY <1>3, <3>1, <3>2, NothingReadied
  <2>2. CASE Rollback
    <3>1. proc'.why = "rollback"
      BY <1>1, <1>8, <2>2, OutcomeKeeps DEF Rollback, Start, Worker
    <3> QED
      BY <3>1
  <2> QED
    BY <1>8, <2>1, <2>2 DEF Leading
<1> QED
  BY <1>4, <1>5, <1>6, <1>7, <1>8, PlaceStep DEF Executing, Returned

\* The plan of the newest run is unused or at the end of the history, in the next state.
RunTopmost ==
    \/ \A i \in DOMAIN history' : history'[i].plan # run'.plan
    \/ /\ history'[Len(history')].plan = run'.plan
       /\ ReadiedNext(run'.plan) => history'[Len(history')].state = "ready"

LEMMA RunTopmostStep ==
    ASSUME Inv, Settled, Stamping, Undoing, Topmost, [Next]_vars, Latest' > 0,
           run'.plan # None, Latest' \notin past'.undone
    PROVE  RunTopmost
<1>1. /\ proc \in Worker /\ past.undone \subseteq past'.undone /\ Typed /\ Rooted
      /\ Len(history) \in Nat \ {0} /\ DOMAIN history = 1 .. Len(history)
  BY PastGrows, HistoryIs DEF Inv, Typed
<1>2. OwnPlan(run'.plan)
  BY RunPlanStep
<1>3. CASE /\ run'.plan = proc.plan /\ At("record") /\ AtWork(run, "plan")
           /\ run.plan = None
  <2>1. UNCHANGED history
    BY <1>3, HistoryRests DEF At
  <2>2. run.stage["plan"] \notin Finished
    BY <1>3 DEF AtWork
  <2>3. Unused(proc.plan)
    BY <1>3, <2>2 DEF Topmost, At
  <2> QED
    BY <1>3, <2>1, <2>3 DEF Unused, RunTopmost
<1>4. ASSUME run'.plan = run.plan PROVE RunTopmost
  <2>1. /\ Latest > 0 /\ Latest' = Latest /\ Latest \notin past.undone
        /\ run.plan # None
    BY <1>1, <1>2, <1>4 DEF OwnPlan
  <2>2. \/ Unused(run.plan)
        \/ /\ Newest.plan = run.plan
           /\ Readied(run.plan) => Newest.state = "ready"
    BY <2>1 DEF Topmost
  <2>3. ASSUME DOMAIN history' = DOMAIN history, Len(history') = Len(history), ~Note,
               \A i \in DOMAIN history : history'[i].plan = history[i].plan
        PROVE  RunTopmost
    <3>1. CASE Unused(run.plan)
      BY <1>4, <2>3, <3>1 DEF Unused, RunTopmost
    <3>2. CASE /\ Newest.plan = run.plan
               /\ Readied(run.plan) => Newest.state = "ready"
      <4>1. history'[Len(history')].plan = run'.plan
        BY <1>1, <1>4, <2>3, <3>2 DEF Newest
      <4>2. ASSUME ReadiedNext(run'.plan)
            PROVE  history'[Len(history')].state = "ready"
        <5>1. Readied(run.plan)
          BY <1>4, <2>3, <4>2, NothingReadied
        <5>2. Len(history) \in ReadyAt
          BY <1>1, <3>2, <5>1 DEF ReadyAt, Newest
        <5>3. history'[Len(history)] = history[Len(history)]
          BY <5>2, ReadyStep
        <5> QED
          BY <2>3, <5>2, <5>3 DEF ReadyAt
      <4> QED
        BY <4>1, <4>2 DEF RunTopmost
    <3> QED
      BY <2>2, <3>1, <3>2
  <2>4. CASE Note
    <3>1. /\ proc.pc \in Executing /\ proc.got \in {"ready", "failed", "rejected"}
          /\ proc.why \in {"apply", "resume", "rollback"}
      BY <2>4 DEF Note, Inv, Placed, At, Executing
    <3>2. proc.why # "rollback"
      BY <2>1, <3>1 DEF Undoing
    <3>3. proc.doing = run.plan /\ ~Readied(run.plan)
      BY <2>1, <3>1, <3>2 DEF Topmost, Inv, Effects
    <3> DEFINE e == Execution
               new == [history[e] EXCEPT !.state = proc.got]
    <3>4. /\ e \in DOMAIN history /\ history[e] \in Entry /\ history[e].plan = run.plan
          /\ proc.why # "resume" => e = Len(history)
      BY <3>1, <3>3, ExecutionIs
    <3>5. \/ e = Len(history) /\ history' = [history EXCEPT ![e] = new]
          \/ history' = history
          \/ history' = Append(history, new)
      BY <2>4, <3>4 DEF Note
    <3>6. Newest.plan = run.plan
      BY <2>2, <3>4 DEF Unused
    <3> HIDE DEF e
    <3>7. new.plan = run.plan
      BY <3>4 DEF Entry
    <3> HIDE DEF new
    <3>8. history \in Seq(Entry)
      BY <1>1 DEF Typed
    <3>9. history'[Len(history')].plan = run'.plan
      BY <1>1, <1>4, <3>4, <3>5, <3>6, <3>7, <3>8 DEF Newest
    <3>10. ASSUME ReadiedNext(run'.plan)
           PROVE  history'[Len(history')].state = "ready"
      <4>1. PICK i \in ReadyNext : history'[i].plan = run.plan
        BY <1>4, <3>10 DEF ReadiedNext, ReadyNext
      <4>2. i \notin ReadyAt
        <5>1. \A k \in ReadyAt : history'[k] = history[k]
          BY ReadyStep
        <5> QED
          BY <3>3, <4>1, <5>1 DEF Readied, ReadyAt
      <4>3. i = Len(history')
        BY <4>1, <4>2, ReadyStep DEF NewlyReady
      <4> QED
        BY <4>1, <4>3 DEF ReadyNext
    <3> QED
      BY <3>9, <3>10 DEF RunTopmost
  <2>5. CASE Spared /\ ~Note
    BY <2>3, <2>5 DEF Spared
  <2>6. ASSUME NEW content \in Releases \cup {Mixed}, Writes(content)
        PROVE  RunTopmost
    <3>1. proc.pc \in Executing /\ Runs(content) /\ ~Note
      BY <2>6 DEF Writes, At, Executing, Note
    <3>2. /\ DOMAIN history' = DOMAIN history
          /\ \A k \in DOMAIN history : k # Execution => history'[k] = history[k]
          /\ history'[Execution].plan = history[Execution].plan
      BY <3>1, RunsExactly
    <3>3. Len(history') = Len(history)
      <4>1. Len(history') \in Nat /\ DOMAIN history' = 1 .. Len(history')
        BY TypedStep DEF Typed
      <4> QED
        BY <1>1, <3>2, <4>1
    <3> QED
      BY <2>3, <3>1, <3>2, <3>3
  <2>7. ASSUME NEW hash \in Hash, NEW why \in {"apply", "rollback"},
               NEW mode \in {"create", "reapply"}, Begins(hash, why),
               Start(hash, why, mode)
        PROVE  RunTopmost
    <3>1. /\ Len(history') = Len(history) + 1
          /\ history'[Len(history')].plan = hash
      BY <1>1, <2>7, StartIs
    <3>2. proc'.pc = "exec" /\ proc'.why = why
      BY <1>1, <2>7 DEF Start, Worker
    <3>3. CASE why = "rollback"
      <4>1. Latest' \in past'.undone
        BY <3>2, <3>3, UndoingStep DEF Undoing, Executing
      <4> QED
        BY <4>1
    <3>4. CASE why = "apply"
      <4>1. At("apply") /\ hash = run.plan
        BY <2>7, <3>4 DEF Begins
      <4>2. Apply /\ ~Note
        <5>1. ~Quiet /\ ~WriteSome /\ ~Turns
          BY <3>2, <4>1 DEF Quiet, WriteSome, Turns, At
        <5>2. ~Rollback /\ ~Note
          BY <4>1 DEF Rollback, Note, At
        <5> QED
          BY <3>2, <5>1, <5>2, PlaceStep DEF Leading
      <4>3. ~ReadiedNext(run.plan)
        BY <2>1, <3>2, <4>2, ApplyUnready, NothingReadied
      <4> QED
        BY <1>4, <3>1, <4>1, <4>3 DEF RunTopmost
    <3> QED
      BY <3>3, <3>4
  <2> QED
    BY <2>4, <2>5, <2>6, <2>7, StepCases
<1> QED
  BY <1>2, <1>3, <1>4 DEF OwnPlan

LEMMA TopmostStep ==
    ASSUME Inv, Settled, Stamping, Undoing, Numbered, Topmost, [Next]_vars
    PROVE  Topmost'
<1>1. proc'.pc # "none" => Latest' > 0
  BY PlacedStep DEF Placed
<1>2. proc'.pc # "none" /\ proc'.plan # None /\ run'.stage["plan"] \notin Finished =>
          \A i \in DOMAIN history' : history'[i].plan # proc'.plan
  BY HeldUnused
<1>3. proc'.pc \in {"next", "build", "deliver", "plan", "apply"} /\ ~proc'.resuming
      /\ run'.plan # None /\ run'.stage["apply"] \notin Finished =>
          \A i \in DOMAIN history' : history'[i].plan # run'.plan
  BY <1>1, RunUnused
<1>4. Latest' > 0 /\ run'.plan # None /\ Latest' \notin past'.undone => RunTopmost
  BY RunTopmostStep
<1>5. proc'.pc \in Executing /\ proc'.why # "rollback" /\ Latest' \notin past'.undone =>
          ~ReadiedNext(run'.plan)
  BY ExecutedUnready
<1> QED
  BY <1>2, <1>3, <1>4, <1>5 DEF Topmost, Unused, Readied, ReadiedNext, RunTopmost, Newest

-----------------------------------------------------------------------------
(* The theorems.                                                           *)

LEMMA InitDeep == Init => Deep
<1> SUFFICES ASSUME Init PROVE Deep
  OBVIOUS
<1>1. /\ journal = <<>> /\ Latest = 0 /\ proc.pc = "none" /\ proc.plan = None
      /\ past.undone = {} /\ past.moved = {} /\ past.rebuilt = {}
  BY DEF Init, Idle, Latest
<1>2. /\ history = <<[release |-> First, plan |-> None, mode |-> "create",
                      version |-> 0, state |-> "ready"]>>
      /\ cluster.runs = First /\ cluster.version = 0
  BY DEF Init
<1>3. /\ DOMAIN history = {1} /\ history[1].version = 0 /\ history[1].plan = None
      /\ history[1].release = First
  BY <1>2
<1>4. Settled /\ Undoing /\ Unmoved /\ Skipped /\ Verified
  BY <1>1 DEF Settled, Undoing, Unmoved, Skipped, Verified, At, Executing
<1>5. ReadyAt \subseteq {1}
  BY <1>3 DEF ReadyAt
<1>6. Stamped
  BY <1>2, <1>3, <1>5 DEF Stamped
<1>7. Stamping /\ Plans
  BY <1>1 DEF Stamping, ToBeReady, Returned, Plans, At
<1>8. Numbered /\ Topmost
  BY <1>1, <1>3 DEF Numbered, Topmost, Executing
<1> QED
  BY <1>4, <1>6, <1>7, <1>8 DEF Deep

\* Every reachable state satisfies both invariants.
THEOREM DeepInvariance == Spec => [](Inv /\ Deep)
<1>1. Init => Inv /\ Deep
  BY InitInv, InitDeep
<1>2. Inv /\ Deep /\ [Next]_vars => (Inv /\ Deep)'
  <2> SUFFICES ASSUME Inv, Deep, [Next]_vars PROVE Inv' /\ Deep'
    OBVIOUS
  <2> QED
    BY InvStep, SettledStep, StampedStep, StampingStep, PlansStep, UndoingStep,
       UnmovedStep, SkippedStep, VerifiedStep, NumberedStep, TopmostStep DEF Deep
<1> QED
  BY <1>1, <1>2, PTL DEF Spec

\* A run ends ready when its release is the last that was deployed, passed its checks
\* as such, and runs, if it applied nothing, unless somebody touched it: as long as no
\* run of the release began a rollback or was resumed with another declaration.
THEOREM EndsDeployed == Spec => ReadyIsDeployed
<1>1. ASSUME Inv, Deep, BecomesReady, Straight(run.plan.release)
      PROVE  /\ Deployed = run.plan.release
             /\ run.plan.release \in past.verified
             /\ Verifying => Newest.state = "ready"
             /\ Verifying /\ proc.plan # None /\ proc.plan.base = cluster.version =>
                   cluster.runs = run.plan.release
  <2>1. /\ At("next") /\ Unfinished = {} /\ proc.pc # "none" /\ Latest > 0
    BY <1>1 DEF BecomesReady, At, Inv, Placed
  <2>2. /\ run \in Run /\ Fine(run) /\ Proper(run) /\ Latest \in DOMAIN journal
    BY <1>1, <2>1, NewestIs DEF Deep
  <2>3. run.stage["checks"] \in Finished /\ run.passed /\ run.plan # None
        /\ run.stage["apply"] \in Finished
    BY <2>1, <2>2, CurrentIs DEF Fine, Orderly, Proper
  <2>4. Deployed = run.plan.release /\ Latest \notin past.undone \cup past.moved
    BY <1>1, <2>1, <2>3, StraightIs DEF Deep
  <2>5. run.plan.release \in past.verified
    BY <1>1, <2>2, <2>3 DEF Deep, Verified, run
  <2>6. Verifying => Newest.state = "ready"
    BY <1>1, <2>1, <2>4 DEF Deep, Skipped, Found, Verifying
  <2>7. ASSUME Verifying, proc.plan # None, proc.plan.base = cluster.version
        PROVE  cluster.runs = run.plan.release
    <3>1. proc.plan.saw = cluster.runs
      BY <1>1, <2>7 DEF Deep, Plans, SawRight
    <3>2. proc.plan.saw = proc.plan.release
      BY <1>1, <2>1, <2>7 DEF Deep, Skipped, Verifying
    <3>3. proc.plan.release = run.spec /\ run.plan.release = run.spec
      BY <1>1, <2>1, <2>3, <2>4, <2>7 DEF Deep, Unmoved, Verifying
    <3> QED
      BY <3>1, <3>2, <3>3
  <2> QED
    BY <2>4, <2>5, <2>6, <2>7
<1>2. Inv /\ Deep /\ [Next]_vars =>
          [BecomesReady /\ Straight(run.plan.release) =>
             /\ Deployed = run.plan.release
             /\ run.plan.release \in past.verified
             /\ Verifying => Newest.state = "ready"
             /\ Verifying /\ proc.plan # None /\ proc.plan.base = cluster.version =>
                   cluster.runs = run.plan.release]_vars
  BY <1>1
<1> QED
  BY <1>2, DeepInvariance, PTL DEF Spec, ReadyIsDeployed

\* The first rollback of a run leads to another release than the one whose checks
\* failed: what the run executed is then the end of the history, and ready.
THEOREM RollsBackFirst == Spec => FirstRollbackAway
<1>1. ASSUME Inv, Deep, [Next]_vars, Latest \notin past.undone,
             RollsBackTo(run.plan.release)
      PROVE  FALSE
  <2>1. At("rollback") /\ proc'.pc = "exec" /\ proc'.doing.release = run.plan.release
    BY <1>1 DEF RollsBackTo
  <2>2. Latest > 0 /\ run.stage["apply"] = "done"
    BY <1>1, <2>1 DEF Deep, Undoing, At, Inv, Placed
  <2>3. Deployed = run.plan.release /\ Newest.state = "ready"
    <3>1. Latest \in DOMAIN journal /\ journal[Latest] = run /\ Fine(run)
      BY <1>1, <2>2, NewestIs DEF Deep, run
    <3>2. Readied(run.plan) /\ run.plan # None
      BY <1>1, <2>2, <3>1 DEF Inv, Effects, Fine, Orderly, Finished
    <3>3. Newest.state = "ready"
      BY <1>1, <2>2, <3>2 DEF Deep, Topmost, Unused, Readied
    <3> QED
      BY <1>1, <2>2, <3>3, DeployedIs DEF Deep, Finished
  <2>4. Rollback
    <3>1. ~Quiet /\ ~WriteSome /\ ~Turns /\ ~Apply
      BY <2>1 DEF Quiet, WriteSome, Turns, Apply, At
    <3> QED
      BY <1>1, <2>1, <3>1, PlaceStep DEF Leading
  <2>5. proc \in Worker
    BY <1>1 DEF Inv, Typed
  <2>6. Previous # None /\ Start(PlanOf(Previous), "rollback", "reapply")
    BY <2>1, <2>4, <2>5, OutcomeKeeps DEF Rollback
  <2>7. proc'.doing.release = Previous
    <3>1. proc'.doing = PlanOf(Previous)
      BY <2>5, <2>6 DEF Start, Worker
    <3> QED
      BY <3>1 DEF PlanOf
  <2>8. Others # {} /\ Previous = history[LastOf(Others)].release
    BY <2>3, <2>6 DEF Previous
  <2>9. LastOf(Others) \in Others
    <3>1. Others \in SUBSET (1 .. Len(history)) /\ Len(history) \in Nat
      BY <1>1 DEF Others, ReadyAt, Inv, Typed
    <3> QED
      BY <2>8, <3>1, LastIs
  <2> QED
    BY <2>1, <2>3, <2>7, <2>8, <2>9 DEF Others
<1>2. Inv /\ Deep /\ [Next]_vars =>
          [Latest \notin past.undone => ~RollsBackTo(run.plan.release)]_vars
  BY <1>1
<1> QED
  BY <1>2, DeepInvariance, PTL DEF Spec, FirstRollbackAway
=============================================================================
