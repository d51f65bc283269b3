------------------------------- MODULE Pipeline -------------------------------
(***************************************************************************)
(* A deployment run (piceli/pipeline/runner.py) with its journal           *)
(* (pipeline/journal.py) and the release runner below it                   *)
(* (k8s/release_runner.py): build, deliver, plan, apply, checks, and the   *)
(* rollback when checks fail; killed and resumed, on another machine too.  *)
(*                                                                         *)
(* The state directory is shared and locked, so one process runs at a      *)
(* time.  An action is one effect outside the process or one save of the   *)
(* journal or the history.  A release is what its name hashes: an image    *)
(* and a configuration.  An image stands for the build plan it comes from. *)
(***************************************************************************)
EXTENDS Integers, Sequences, FiniteSets

CONSTANTS
    Machines,      \* where commands are run, each with its own images
    Releases,      \* what can be declared: records of an image and a config
    First,         \* the release deployed at the beginning
    None,          \* no machine, no plan, no release, no image
    Mixed,         \* what runs after a partial apply or an edit by hand
    RollsBack,     \* rollback_on_failed_checks
    MaxRuns,       \* bound: runs
    MaxResumes,    \* bound: resumes
    MaxEdits,      \* bound: edits by people, of the declaration or live objects
    MaxFaults,     \* bound: failing steps
    MaxKills       \* bound: kills

Images == {r.image : r \in Releases}

ASSUME PipelineAssumption ==
    /\ First \in Releases
    /\ \A r \in Releases : r = [image |-> r.image, config |-> r.config]
    /\ \A r, s \in Releases : [image |-> r.image, config |-> s.config] \in Releases
    /\ RollsBack \in BOOLEAN
    /\ None \notin Machines \cup Releases \cup Images /\ Mixed \notin Releases
    /\ {MaxRuns, MaxResumes, MaxEdits, MaxFaults, MaxKills} \subseteq Nat

VARIABLES
    declared,   \* what the sources and the definition say now
    images,     \* the images on each machine
    registry,   \* the images delivered
    receipt,    \* the image of the last build
    cluster,    \* what runs, and a version that each change increments
    catalog,    \* the releases planned at least once
    plans,      \* the plan files: hash and mode
    made,       \* the plans made so far
    history,    \* executions, oldest first
    journal,    \* runs, oldest first
    proc,       \* the process at work
    resumes, edits, faults, kills,
    past        \* what happened so far: see Init

vars == <<declared, images, registry, receipt, cluster, catalog, plans, made,
          history, journal, proc, resumes, edits, faults, kills, past>>
stores == <<images, registry, receipt>>
planned == <<catalog, plans, made>>
bounds == <<resumes, edits, kills>>

-----------------------------------------------------------------------------
(* Data.                                                                   *)

Stages == <<"build", "deliver", "plan", "apply", "checks">>
Finished == {"done", "skipped"}

\* A plan's hash: the release and the snapshot it was planned against.  No two
\* are the same, for the snapshot says when it was taken.
Hash == [release : Releases, base : Nat, saw : Releases \cup {Mixed}, nth : Nat]

ASSUME NoneIsNoHash == None \notin Hash

\* An execution; `version` is the cluster's as of its last write, which its
\* journal remembers.
Entry == [release : Releases, plan : Hash \cup {None},
          mode : {"create", "reapply"}, version : Nat,
          state : {"running", "ready", "failed", "rejected"}]

\* `spec` is what was declared when the run was approved, `approved` the release
\* the approval names (none when only a preview could be shown), `built` the
\* image that the build stage recorded last.
Run == [spec : Releases, approved : Releases \cup {None},
        plan : Hash \cup {None}, built : Images \cup {None}, passed : BOOLEAN,
        state : {"running", "ready", "failed", "rolled-back"},
        stage : [{"build", "deliver", "plan", "apply", "checks"} ->
                 {"pending", "running", "done", "skipped", "failed"}]]

\* A process: its machine, what was declared when it started, the image it works
\* with (none as long as its build is neither done nor taken for done), whether
\* it trusts that image, its plan, the execution it is at and what comes out.
Idle == [pc |-> "none", at |-> None, resuming |-> FALSE, spec |-> None,
         image |-> None, trusts |-> FALSE, plan |-> None, why |-> None, doing |-> None, got |-> None,
         out |-> None, final |-> None]

Init ==
    /\ declared \in Releases
    /\ images = [m \in Machines |-> {}]
    /\ registry = {First.image} /\ receipt = First.image
    /\ cluster = [runs |-> First, version |-> 0]
    /\ catalog = {First}
    /\ plans = {} /\ made = 0
    /\ history = <<[release |-> First, plan |-> None, mode |-> "create",
                    version |-> 0, state |-> "ready"]>>
    /\ journal = <<>>
    /\ proc = Idle
    /\ resumes = 0 /\ edits = 0 /\ faults = 0 /\ kills = 0
    \* Runs that began a rollback, runs resumed with another declaration, runs
    \* built again from another one, and the releases whose checks passed while
    \* they were the deployed ones.
    /\ past = [undone |-> {}, moved |-> {}, rebuilt |-> {}, verified |-> {}]

\* Every variable has its type; a finished plan stage has a plan, and a finished
\* run has no unfinished or failed stage.
TypeOK ==
    /\ declared \in Releases
    /\ images \in [Machines -> SUBSET Images]
    /\ registry \subseteq Images /\ receipt \in Images
    /\ cluster \in [runs : Releases \cup {Mixed}, version : Nat]
    /\ catalog \subseteq Releases
    /\ plans \subseteq [hash : Hash, mode : {"create", "reapply"}] /\ made \in Nat
    /\ history \in Seq(Entry)
    /\ journal \in Seq(Run)
    /\ \A i \in DOMAIN journal :
          /\ journal[i].stage["plan"] \in Finished => journal[i].plan # None
          /\ journal[i].state = "ready" =>
                \A s \in DOMAIN journal[i].stage : journal[i].stage[s] \in Finished
    /\ proc.at \in Machines \cup {None} /\ proc.plan \in Hash \cup {None}
    /\ faults \in 0 .. MaxFaults /\ kills \in 0 .. MaxKills

-----------------------------------------------------------------------------
(* Helpers.                                                                *)

At(pc) == proc.pc = pc
Goto(pc) == proc' = [proc EXCEPT !.pc = pc]
Faulty == faults < MaxFaults /\ faults' = faults + 1
NoFault == UNCHANGED faults

Latest == Len(journal)
run == journal[Latest]
SetRun(rec) == journal' = [journal EXCEPT ![Latest] = rec]

\* What a stage returns, or how it ends the run.
Outcome(state) == proc' = [proc EXCEPT !.pc = "record", !.out = state, !.final = "failed"]

\* ReleaseRunner.plan(): the plan of a release against what runs now is written
\* to a file; a release that is not in the catalog is created.
Planned(hash) ==
    /\ catalog' = catalog \cup {hash.release}
    /\ plans' = plans \cup {[hash |-> hash, mode |-> IF hash.release \in catalog
                                                     THEN "reapply" ELSE "create"]}
    /\ made' = made + 1
PlanOf(release) ==
    [release |-> release, base |-> cluster.version, saw |-> cluster.runs, nth |-> made]

\* What this process would deploy: the image it works with, the rest as declared
\* when it started.
Wanted == [image |-> proc.image, config |-> proc.spec.config]

\* Whether a machine needs no delivery from elsewhere: _image_here() or
\* _delivered_elsewhere().
Reaches(m, image) == image \in images[m] \cup registry

\* _cached_build(): the last build made the image, and it is within reach.
Cached(m, image) == receipt = image /\ Reaches(m, image)

Newest == history[Len(history)]

\* _History.deployed(), as a set of positions, and its last.
ReadyAt == {i \in DOMAIN history : history[i].state = "ready"}
LastOf(positions) == CHOOSE i \in positions : \A j \in positions : j <= i
Deployed == history[LastOf(ReadyAt)].release

\* Mutant: the newest of the ready releases, whatever runs.
PreviousIsLast == Deployed

\* _History.previous()
Others == {i \in ReadyAt : history[i].release # Deployed}
Previous ==
    IF Newest.state # "ready" THEN Deployed
    ELSE IF Others = {} THEN None ELSE history[LastOf(Others)].release

\* Mutant: a release that was deployed last is taken for unchanged though a
\* later execution failed.
UnchangedSince(hash) ==
    ReadyAt # {} /\ Deployed = hash.release

\* unchanged(): the release is the one deployed and ready, and the plan saw
\* nothing else running.
Unchanged(hash) ==
    /\ Newest.state = "ready"
    /\ Newest.release = hash.release
    /\ hash.saw = hash.release

\* Journal.last_checks(): the newest run of the release whose checks ended.
LastChecksPassed(release) ==
    LET of == {i \in DOMAIN journal :
                 /\ journal[i].plan # None /\ journal[i].plan.release = release
                 /\ \/ journal[i].stage["checks"] = "failed"
                    \/ journal[i].stage["checks"] \in Finished}
    IN  of # {} /\ journal[LastOf(of)].passed

-----------------------------------------------------------------------------
(* What people do.                                                         *)

\* The sources or the definition change.  A process read them when it started, so
\* a change while it works is the same as one after it.
Edit(release) ==
    /\ At("none") /\ edits < MaxEdits /\ release # declared
    /\ declared' = release
    /\ edits' = edits + 1
    /\ UNCHANGED <<stores, cluster, planned, history, journal, proc, resumes,
                   faults, kills, past>>

\* Somebody edits a live object.
EditByHand ==
    /\ edits < MaxEdits
    /\ edits' = edits + 1
    /\ cluster' = [runs |-> Mixed, version |-> cluster.version + 1]
    /\ UNCHANGED <<declared, stores, planned, history, journal, proc, resumes,
                   faults, kills, past>>

-----------------------------------------------------------------------------
(* A run begins: execute() and resume().                                   *)

\* plan() and execute(): the release is planned, and its name approved, if its
\* image is known and delivered; otherwise the approval is of a preview.
Execute(m) ==
    LET delivered == Cached(m, declared.image) /\ declared.image \in registry
        hash == PlanOf(declared)
    IN  /\ At("none") /\ Latest < MaxRuns
        /\ journal' = Append(journal,
              [spec |-> declared, approved |-> IF delivered THEN declared ELSE None,
               plan |-> None, built |-> None, passed |-> FALSE, state |-> "running",
               stage |-> [s \in {Stages[i] : i \in 1 .. 5} |-> "pending"]])
        /\ proc' = [Idle EXCEPT !.pc = "next", !.at = m, !.spec = declared,
                                !.plan = IF delivered THEN hash ELSE None]
        /\ IF delivered THEN Planned(hash) ELSE UNCHANGED planned
        /\ UNCHANGED <<declared, stores, cluster, history, bounds, faults, past>>

\* Mutant: a build that finished elsewhere is not built again.
RebuiltNever(m) == FALSE

\* _rebuild_missing(): the image of a finished build that was not delivered and is
\* not on this machine is built again.
Rebuilt(m) ==
    /\ run.stage["build"] \in Finished /\ run.stage["deliver"] \notin Finished
    /\ ~Reaches(m, run.built)

\* resume(), with _restore(): an image that the run recorded is taken as it is, and
\* otherwise what is declared must be what was approved.  Nothing is compared for
\* an image that is to be built again.
Resume(m) ==
    /\ At("none") /\ resumes < MaxResumes
    /\ Latest > 0 /\ run.state \notin {"ready", "rolled-back"}
    /\ run.built # None \/ declared.image = run.spec.image
    /\ SetRun([run EXCEPT !.state = "running",
                          !.stage["build"] = IF Rebuilt(m) THEN "pending" ELSE @])
    /\ proc' = [Idle EXCEPT !.pc = "next", !.at = m, !.spec = declared,
                  !.resuming = TRUE,
                  !.image = IF Rebuilt(m) THEN None ELSE run.built,
                  !.trusts = run.built # None /\ run.stage["build"] \notin Finished]
    /\ resumes' = resumes + 1
    /\ past' = [past EXCEPT
          !.moved = IF declared = run.spec THEN @ ELSE @ \cup {Latest},
          !.rebuilt = IF Rebuilt(m) /\ declared.image # run.spec.image
                      THEN @ \cup {Latest} ELSE @]
    /\ UNCHANGED <<declared, stores, cluster, planned, history, edits, kills,
                   faults>>

-----------------------------------------------------------------------------
(* The stages, one after the other: _continue().                           *)

\* Mutant: the stages stop one before the last.
UnfinishedButLast == {i \in 1 .. 4 : run.stage[Stages[i]] \notin Finished}

Unfinished == {i \in 1 .. 5 : run.stage[Stages[i]] \notin Finished}

\* The stage at work: the first that is not finished.
Current == Stages[CHOOSE i \in Unfinished : \A j \in Unfinished : i <= j]

NextStage ==
    /\ At("next") /\ Unfinished # {}
    /\ SetRun([run EXCEPT !.stage[Current] = "running"])
    /\ Goto(Current)
    /\ UNCHANGED <<declared, stores, cluster, planned, history, bounds, faults, past>>

EndRun ==
    /\ At("next") /\ Unfinished = {}
    /\ SetRun([run EXCEPT !.state = "ready"])
    /\ proc' = Idle
    /\ UNCHANGED <<declared, stores, cluster, planned, history, bounds, faults, past>>

\* set_stage() with what the stage returned or raised.
Record ==
    LET name == Current
        failed == proc.out = "failed"
    IN  /\ At("record")
        /\ SetRun([run EXCEPT !.stage[name] = proc.out,
                      !.built = IF name = "build" /\ ~failed THEN proc.image ELSE @,
                      !.plan = IF name = "plan" /\ ~failed THEN proc.plan ELSE @,
                      !.passed = IF name = "checks" THEN ~failed ELSE @])
        /\ Goto(IF failed THEN "fail" ELSE "next")
        /\ UNCHANGED <<declared, stores, cluster, planned, history, bounds,
                       faults, past>>

\* set_state() after a failed stage.
FailRun ==
    /\ At("fail")
    /\ SetRun([run EXCEPT !.state = proc.final])
    /\ proc' = Idle
    /\ UNCHANGED <<declared, stores, cluster, planned, history, bounds, faults, past>>

\* A stage raises before it has any effect.
StageFails ==
    /\ proc.pc \in {"build", "deliver", "plan"}
    /\ Faulty
    /\ Outcome("failed")
    /\ UNCHANGED <<declared, stores, cluster, planned, history, journal, bounds, past>>

\* What a stage does with an image of the process.
With(image, state) ==
    proc' = [proc EXCEPT !.pc = "record", !.image = image, !.out = state]

\* _run_build(): nothing to do for an image the process has, or one that is cached;
\* otherwise what is declared is built.
Build ==
    /\ At("build")
    /\ IF proc.image # None THEN With(proc.image, "skipped") /\ UNCHANGED stores
       ELSE IF Cached(proc.at, proc.spec.image)
       THEN With(proc.spec.image, "skipped") /\ UNCHANGED stores
       ELSE /\ With(proc.spec.image, "done")
            /\ images' = [images EXCEPT ![proc.at] = @ \cup {proc.spec.image}]
            /\ receipt' = proc.spec.image
            /\ UNCHANGED registry
    /\ UNCHANGED <<declared, cluster, planned, history, journal, bounds, faults, past>>

\* _run_deliver(): from this machine to the registry, unless it is there.
Deliver ==
    /\ At("deliver")
    /\ IF proc.image \in registry THEN Outcome("skipped") /\ UNCHANGED registry
       ELSE IF proc.image \in images[proc.at]
       THEN Outcome("done") /\ registry' = registry \cup {proc.image}
       ELSE Outcome("failed") /\ UNCHANGED registry
    /\ UNCHANGED <<declared, images, receipt, cluster, planned, history, journal,
                   bounds, faults, past>>

\* Mutant: a resumed run plans whatever is declared now.
PlanAnything ==
    /\ At("plan")
    /\ LET hash == PlanOf(Wanted)
       IN  /\ Planned(hash)
           /\ proc' = [proc EXCEPT !.pc = "record", !.plan = hash, !.out = "done"]
    /\ UNCHANGED <<declared, stores, cluster, history, journal, bounds, faults, past>>

\* _run_plan(): a resumed run plans again, and refuses a release other than the
\* approved one, if the approval named one.
Plan ==
    /\ At("plan")
    /\ IF proc.plan # None /\ ~proc.resuming
       THEN Outcome("done") /\ UNCHANGED planned
       ELSE LET hash == PlanOf(Wanted)
            IN  /\ Planned(hash)
                /\ IF proc.resuming /\ run.approved \notin {None, hash.release}
                   THEN Outcome("failed")
                   ELSE proc' = [proc EXCEPT !.pc = "record", !.plan = hash,
                                             !.out = "done"]
    /\ UNCHANGED <<declared, stores, cluster, history, journal, bounds, faults, past>>

-----------------------------------------------------------------------------
(* The apply stage and the execution: _run_apply(), ReleaseRunner.apply()   *)
(* and .resume().                                                          *)

\* Mutant: an execution of the plan that exists is enough.
AttemptsAnyState(state) ==
    {i \in DOMAIN history : history[i].plan = run.plan}

\* The executions of the run's plan that are in a state.
Attempts(state) ==
    {i \in DOMAIN history : history[i].plan = run.plan /\ history[i].state = state}
Tried == {i \in DOMAIN history : history[i].plan = run.plan}

\* The execution of a plan starts; a running entry is appended to the history.
Start(hash, why, mode) ==
    /\ history' = Append(history, [release |-> hash.release, plan |-> hash,
                                   mode |-> mode, version |-> hash.base,
                                   state |-> "running"])
    /\ proc' = [proc EXCEPT !.pc = "exec", !.why = why, !.doing = hash, !.plan = hash]

\* What a resumed run does about the last execution it finds.
Again == IF proc.resuming THEN Tried ELSE {}
ApplyAlready == Again # {} /\ LastOf(Again) \in Attempts("ready")
ApplyResumes ==
    /\ Again # {} /\ history[LastOf(Again)].mode = "create"
    /\ history[LastOf(Again)].state # "rejected"

\* ReleaseRunner.resume() takes the newest execution of the release, which must be
\* one that created it.
Resumable ==
    LET of == {i \in DOMAIN history : history[i].release = run.plan.release}
    IN  history[LastOf(of)].mode = "create"

\* A process that has no plan yet makes one, to see whether it changes anything.
Apply ==
    LET now == IF proc.plan = None THEN PlanOf(Wanted) ELSE proc.plan
        file == {p \in plans' : p.hash = run.plan}
    IN  /\ At("apply")
        /\ IF proc.plan = None THEN Planned(now) ELSE UNCHANGED planned
        /\ \/ Unchanged(now) /\ Outcome("skipped") /\ UNCHANGED history
           \/ ~Unchanged(now) /\ ApplyAlready /\ Outcome("done") /\ UNCHANGED history
           \/ /\ ~Unchanged(now) /\ ~ApplyAlready /\ ApplyResumes
              /\ IF Resumable
                 THEN proc' = [proc EXCEPT !.pc = "exec", !.why = "resume",
                                           !.doing = run.plan, !.plan = now]
                 ELSE Outcome("failed")
              /\ UNCHANGED history
           \/ /\ ~Unchanged(now) /\ ~ApplyAlready /\ ~ApplyResumes
              /\ file = {} /\ Outcome("failed") /\ UNCHANGED history
           \/ /\ ~Unchanged(now) /\ ~ApplyAlready /\ ~ApplyResumes
              /\ \E p \in file : Start(run.plan, "apply", p.mode)
        /\ UNCHANGED <<declared, stores, cluster, journal, bounds, faults, past>>

\* The executor writes row by row and refuses a row that changed since the plan,
\* unless by its own write.
Execution == LastOf({i \in DOMAIN history : history[i].plan = proc.doing})
Untouched == cluster.version = history[Execution].version
Runs(content) ==
    IF cluster.runs = content THEN UNCHANGED <<cluster, history>>
    ELSE /\ cluster' = [runs |-> content, version |-> cluster.version + 1]
         /\ history' = [history EXCEPT ![Execution].version = cluster.version + 1]

\* The plan file of an execution that ran, a resumed one excepted, is to go.
Returns(state) ==
    proc' = [proc EXCEPT !.got = state,
                !.pc = IF proc.why = "resume" \/ state = "rejected"
                       THEN "note" ELSE "unlink"]

WriteSome ==
    /\ At("exec") /\ Untouched /\ cluster.runs \notin {Mixed, proc.doing.release}
    /\ Runs(Mixed)
    /\ UNCHANGED <<declared, stores, planned, journal, proc, bounds, faults, past>>

ExecutionReady ==
    /\ At("exec") /\ Untouched
    /\ Runs(proc.doing.release)
    /\ Returns("ready")
    /\ UNCHANGED <<declared, stores, planned, journal, bounds, faults, past>>

\* Everything is written and does not become ready, or a write fails.
ExecutionFails ==
    /\ At("exec") /\ Untouched
    /\ Faulty
    /\ \E content \in {cluster.runs, proc.doing.release} : Runs(content)
    /\ Returns("failed")
    /\ UNCHANGED <<declared, stores, planned, journal, bounds, past>>

\* A row that changed, before or after others were written.
ExecutionRefused ==
    /\ At("exec") /\ ~Untouched
    /\ \/ UNCHANGED cluster
       \/ cluster' = [runs |-> Mixed, version |-> cluster.version + 1]
    /\ Returns("failed")
    /\ UNCHANGED <<declared, stores, planned, history, journal, bounds, faults, past>>

\* The execution is not even begun: its authorization expired.
ExecutionRejected ==
    /\ At("exec")
    /\ Faulty
    /\ Returns("rejected")
    /\ UNCHANGED <<declared, stores, cluster, planned, history, journal, bounds, past>>

Unlink ==
    /\ At("unlink")
    /\ plans' = {p \in plans : p.hash # proc.doing}
    /\ Goto("note")
    /\ UNCHANGED <<declared, stores, cluster, catalog, made, history, journal,
                   bounds, faults, past>>

\* The history after an execution, and what the stage returns: a resumed
\* execution is appended, any other is updated.
Note ==
    LET rejected == proc.got = "rejected"
    IN  /\ At("note")
        /\ history' = IF proc.why # "resume"
                      THEN [history EXCEPT ![Execution].state = proc.got]
                      ELSE IF rejected THEN history
                      ELSE Append(history, [history[Execution] EXCEPT !.state = proc.got])
        /\ proc' = [proc EXCEPT !.pc = "record",
              !.out = IF proc.why # "rollback" /\ proc.got = "ready" THEN "done" ELSE "failed",
              !.final = IF proc.why = "rollback" /\ proc.got = "ready"
                        THEN "rolled-back" ELSE "failed"]
        /\ UNCHANGED <<declared, stores, cluster, planned, journal, bounds, faults, past>>

-----------------------------------------------------------------------------
(* The checks stage: _run_checks() and _rollback().                        *)

Verifying == run.stage["apply"] = "skipped"
ChecksSkipped ==
    /\ At("checks")
    /\ Verifying /\ LastChecksPassed(run.plan.release)
    /\ Outcome("skipped")
    /\ UNCHANGED <<declared, stores, cluster, planned, history, journal, bounds,
                   faults, past>>

RunsChecks == At("checks") /\ ~(Verifying /\ LastChecksPassed(run.plan.release))

ChecksPass ==
    /\ RunsChecks
    /\ Outcome("done")
    /\ past' = [past EXCEPT !.verified = @ \cup {Deployed}]
    /\ UNCHANGED <<declared, stores, cluster, planned, history, journal, bounds, faults>>

\* They fail: a release this run did not roll out stays.
ChecksFail ==
    /\ RunsChecks
    /\ IF cluster.runs = run.plan.release THEN Faulty ELSE NoFault
    /\ IF Verifying \/ ~RollsBack THEN Outcome("failed") ELSE Goto("rollback")
    /\ UNCHANGED <<declared, stores, cluster, planned, history, journal, bounds, past>>

\* _rollback_to_previous(): the release before is planned and applied.
Rollback ==
    /\ At("rollback")
    /\ \/ /\ Previous # None
          /\ Planned(PlanOf(Previous))
          /\ Start(PlanOf(Previous), "rollback", "reapply")
          /\ past' = [past EXCEPT !.undone = @ \cup {Latest}]
          /\ NoFault
       \/ /\ IF Previous = None THEN NoFault ELSE Faulty
          /\ Outcome("failed")
          /\ UNCHANGED <<planned, history, past>>
    /\ UNCHANGED <<declared, stores, cluster, journal, bounds>>

\* The process is killed.
Kill ==
    /\ proc.pc # "none"
    /\ kills < MaxKills
    /\ kills' = kills + 1
    /\ proc' = Idle
    /\ UNCHANGED <<declared, stores, cluster, planned, history, journal, resumes,
                   edits, faults, past>>

-----------------------------------------------------------------------------
Process ==
    \/ NextStage \/ EndRun \/ Record \/ FailRun \/ StageFails
    \/ Build \/ Deliver \/ Plan \/ Apply
    \/ WriteSome \/ ExecutionReady \/ ExecutionFails \/ ExecutionRefused
    \/ ExecutionRejected \/ Unlink \/ Note
    \/ ChecksSkipped \/ ChecksPass \/ ChecksFail \/ Rollback

Next ==
    \/ Process
    \/ \E m \in Machines : Execute(m) \/ Resume(m)
    \/ \E r \in Releases : Edit(r)
    \/ EditByHand \/ Kill

Spec == Init /\ [][Next]_vars

-----------------------------------------------------------------------------
(* What a run promises.                                                    *)

Deploys == At("exec") /\ proc.why # "rollback"

\* A run, whoever resumes it wherever and whatever was declared since, applies
\* the release its approval names.  If it names none, because the image was not
\* delivered yet, it applies the image that it built last, and that is the one
\* approved unless the run was built again from another declaration.
ApprovedRelease ==
    Deploys => /\ run.approved \in {None, proc.doing.release}
               /\ proc.doing.release.image = run.built
               /\ proc.doing.release.image = run.spec.image \/ Latest \in past.rebuilt

\* No effect is skipped: an apply stage is done only if an execution of the
\* run's plan became ready, whatever was killed in between.
DoneIsReady ==
    \A i \in DOMAIN journal :
        journal[i].stage["apply"] = "done" =>
            \E j \in DOMAIN history :
                history[j].plan = journal[i].plan /\ history[j].state = "ready"

\* A process never comes to its delivery without the image: it is on the machine
\* that delivers, or in the registry, also when the build finished elsewhere.  As
\* long as it does not trust the image of a build that was to be done again.
DeliverableHere == At("deliver") /\ ~proc.trusts => Reaches(proc.at, proc.image)

BecomesReady == At("next") /\ Unfinished = {} /\ proc'.pc = "none" /\ journal' # journal

\* Whether no run of the release began a rollback and was resumed after it, or
\* was resumed with another declaration.
Straight(release) ==
    \A i \in past.undone \cup past.moved :
        journal[i].plan # None => journal[i].plan.release # release

\* A run ends ready when its release is the last that was deployed, and passed its
\* checks as such; if it applied nothing, no execution failed after that one, and
\* that release runs, unless somebody touched it since it was looked at.  As long
\* as runs of it go Straight.
ReadyIsDeployed ==
    [][BecomesReady /\ Straight(run.plan.release) =>
          /\ Deployed = run.plan.release
          /\ run.plan.release \in past.verified
          /\ Verifying => Newest.state = "ready"
          /\ Verifying /\ proc.plan # None /\ proc.plan.base = cluster.version =>
                cluster.runs = run.plan.release]_vars

RollsBackTo(release) == At("rollback") /\ proc'.pc = "exec" /\ proc'.doing.release = release

\* A run whose checks fail goes back to another release than the one that failed
\* them.
RollsBackAway == [][~RollsBackTo(run.plan.release)]_vars

\* The same for the first rollback of a run.
FirstRollbackAway ==
    [][Latest \notin past.undone => ~RollsBackTo(run.plan.release)]_vars
=============================================================================
