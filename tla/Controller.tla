------------------------------ MODULE Controller ------------------------------
(***************************************************************************)
(* The GitOps controller (piceli/gitops/controller.py) with what it calls  *)
(* for an environment (env_up, env_down, env_stop of envs/ops.py, reached  *)
(* through gitops/ports.py).                                               *)
(*                                                                         *)
(* The controller polls a Git remote, reads requests from an inbox, keeps  *)
(* a record per environment in memory and works on one environment at a    *)
(* time.  Its state is saved as a whole, atomically.  An action is one     *)
(* call to the outside (Git, inbox, cluster, state file) with the local    *)
(* code around it.  People push, delete branches, tag, approve, promote,   *)
(* sync and deploy by hand whenever they like.                             *)
(*                                                                         *)
(* The hash of a plan covers what the commit declares (its workload and    *)
(* its checks) and the changes that lead there from what runs.             *)
(***************************************************************************)
EXTENDS Integers

CONSTANTS
    Branches,     \* branches that get an environment of their own
    Main,         \* the fixed environment: deploys tags and promotions
    Contents,     \* what a commit declares: records of a workload and checks
    None,         \* no record, no commit, no hash, nothing runs
    Before,       \* the workload that runs in Main before the first poll
    Mixed,        \* the workload that runs after a partial apply
    ByPolicy,     \* APPROVE_POLICY, the approval that is no hash
    PolicyEnvs,   \* environments covered by the owner's policy
    Routine,      \* workloads whose plans are inside that policy
    IdleStop,     \* branch environments are stopped when idle
    MaxAttempts,  \* config.max_attempts
    MaxPushes,    \* bound: commits, branch deletions and tags
    MaxRequests,  \* bound: requests sent
    MaxTroubles   \* bound: failing calls, kills and deployments by hand

Envs == Branches \cup {Main}
Workloads == {x.workload : x \in Contents}

ASSUME ControllerAssumption ==
    /\ Main \notin Branches
    /\ PolicyEnvs \subseteq Envs /\ Routine \subseteq Workloads
    /\ Before \in Workloads /\ Mixed \notin Workloads
    /\ IdleStop \in BOOLEAN
    /\ MaxAttempts \in Nat \ {0}
    /\ {MaxPushes, MaxRequests, MaxTroubles} \subseteq Nat

VARIABLES
    git,      \* the remote: each branch's head, the newest tag
    pushes,   \* commits, deletions and tags so far
    inbox,    \* requests waiting for the controller
    sent,     \* requests sent so far
    live,     \* what runs in each environment
    disk,     \* state.json
    mem,      \* the same in memory
    ctl,      \* the controller's control state
    troubles,
    past      \* what happened so far: see PastInit

vars == <<git, pushes, inbox, sent, live, disk, mem, ctl,
          troubles, past>>
people == <<pushes, sent>>
world == <<git, inbox, live>>

-----------------------------------------------------------------------------
(* Data.                                                                   *)

\* A commit: its number, so that a revert is a commit of its own.
Commit == [id : 1 .. MaxPushes, is : Contents]

\* What env_plan hashes: the declared content and the difference to what runs.
PlanHash(commit, runs) ==
    [is |-> commit.is, from |-> runs.workload, up |-> runs.up]

Hash == [is : Contents, from : Workloads \cup {None, Mixed}, up : BOOLEAN]

Runs == [workload : Workloads \cup {None, Mixed},
         checked : Contents \cup {None},  \* the checks last passed, with what
         up : BOOLEAN]
Nothing == [workload |-> None, checked |-> None, up |-> TRUE]

Request == [kind : {"approve"}, env : Envs, arg : Hash]
      \cup [kind : {"promote"}, env : Branches, arg : Commit]
      \cup [kind : {"sync"}, env : Envs, arg : {None}]

\* A record of state.json; `waits` stands for a next_attempt_at ahead.
Record == [commit : Commit, deployed : Commit \cup {None},
           deployedHash : Hash \cup {None},
           state : {"pending", "retrying", "approval-required", "deployed",
                    "failed", "deleting", "stopped"},
           attempts : Nat, waits : BOOLEAN,
           plan : Hash \cup {None}, approved : Hash \cup {None}]

\* What stands for no record, commit or approval is none of them.
ASSUME NamesAreNoValues ==
    /\ None \notin Record /\ None \notin Commit /\ None \notin Hash
    /\ ByPolicy \notin Hash \cup {None}

State == [envs : [Envs -> Record \cup {None}], seen : 0 .. MaxPushes,
          baseline : BOOLEAN]

Fresh == [envs |-> [e \in Envs |-> None], seen |-> 0, baseline |-> FALSE]

Idle == [pc |-> "poll", refs |-> None, got |-> {}, handled |-> {},
         due |-> {}, idle |-> {}, env |-> None, approve |-> None, hash |-> None,
         again |-> FALSE]

\* The hashes each environment showed and the owner approved; and, for the
\* properties only, the approved plan whose release runs, the requests acted on
\* since the last save, whether one of them was lost, and whether a kill ever
\* hit the controller between an effect and its save.
PastInit == [asked |-> {}, approved |-> {}, owner |-> [e \in Envs |-> None],
              unsaved |-> {}, lost |-> FALSE, torn |-> FALSE]

Init ==
    /\ git = [head |-> [b \in Branches |-> None], tag |-> [id |-> 0, commit |-> None]]
    /\ pushes = 0
    /\ inbox = {}
    /\ sent = 0
    /\ live = [e \in Envs |-> IF e = Main THEN [Nothing EXCEPT !.workload = Before]
                                           ELSE Nothing]
    /\ disk = Fresh
    /\ mem = Fresh
    /\ ctl = Idle
    /\ troubles = 0
    /\ past = PastInit

\* Every variable has its type; a record being deleted, retried or waiting for
\* an approval carries what that state needs.
TypeOK ==
    /\ git \in [head : [Branches -> Commit \cup {None}],
                tag : [id : 0 .. MaxPushes, commit : Commit \cup {None}]]
    /\ pushes \in 0 .. MaxPushes /\ sent \in 0 .. MaxRequests
    /\ inbox \subseteq Request
    /\ live \in [Envs -> Runs]
    /\ \A s \in {disk, mem} :
          /\ s \in State
          /\ \A e \in Envs : s.envs[e] # None =>
                /\ (s.envs[e].state = "approval-required") => s.envs[e].plan # None
                /\ (s.envs[e].state = "retrying") => s.envs[e].attempts > 0
                /\ (s.envs[e].state = "deleting") => e # Main
    /\ ctl.got \cup ctl.handled \subseteq Request
    /\ ctl.due \subseteq Envs /\ ctl.idle \subseteq Branches
    /\ ctl.env \in Envs \cup {None}
    /\ troubles \in 0 .. MaxTroubles

-----------------------------------------------------------------------------
(* Helpers.                                                                *)

At(pc) == ctl.pc = pc
Goto(pc) == ctl' = [ctl EXCEPT !.pc = pc]
Faulty == troubles < MaxTroubles /\ troubles' = troubles + 1
NoFault == UNCHANGED troubles
Env == ctl.env
Rec == mem.envs[Env]

\* save_state: the whole state, atomically.
Save(state) ==
    /\ disk' = state
    /\ past' = [past EXCEPT !.unsaved = {}]
SetRec(e, rec) == mem' = [mem EXCEPT !.envs[e] = rec]

\* _want: a record that asks for another commit; what is deployed is kept.
Wanted(rec, commit) ==
    IF rec # None /\ rec.commit = commit /\ rec.state # "deleting" THEN rec
    ELSE [commit |-> commit,
          deployed |-> IF rec = None THEN None ELSE rec.deployed,
          deployedHash |-> IF rec = None THEN None ELSE rec.deployedHash,
          state |-> "pending", attempts |-> 0, waits |-> FALSE,
          plan |-> None, approved |-> None]

\* _desired: the record of a branch that is gone.
Doomed(rec) ==
    IF rec = None \/ rec.state = "deleting" THEN rec
    ELSE [rec EXCEPT !.state = "deleting", !.attempts = 0, !.waits = FALSE]

\* Mutant: a failed step leaves the plan approved before in place.
FailedKept(rec, rolledBack) ==
    LET final == rec.state # "deleting"
                 /\ (rolledBack \/ rec.attempts + 1 >= MaxAttempts)
    IN  [rec EXCEPT !.attempts = @ + 1, !.waits = ~final,
                    !.state = IF final THEN "failed"
                              ELSE IF @ = "deleting" THEN @ ELSE "retrying"]

\* _fail, for a step that may be tried again and for one that was rolled back.
Failed(rec, rolledBack) ==
    LET final == rec.state # "deleting"
                 /\ (rolledBack \/ rec.attempts + 1 >= MaxAttempts)
    IN  [rec EXCEPT !.deployedHash = None, !.attempts = @ + 1, !.waits = ~final,
                    !.state = IF final THEN "failed"
                              ELSE IF @ = "deleting" THEN @ ELSE "retrying"]

\* _outcome for a deployed environment: what the owner approved is remembered.
Deployed(rec) ==
    [rec EXCEPT !.state = "deployed", !.deployed = rec.commit, !.attempts = 0,
                !.waits = FALSE, !.plan = None, !.approved = None,
                !.deployedHash = rec.approved]

\* Mutant: the hash to approve is not recorded.
AsksUnnamed(rec, hash) ==
    [rec EXCEPT !.state = "approval-required", !.approved = None, !.waits = FALSE]

\* _outcome for a plan that waits for the owner.
Asks(rec, hash) ==
    [rec EXCEPT !.state = "approval-required", !.plan = hash,
                !.approved = None, !.waits = FALSE]

\* _degraded: failing checks on a release that did not change.
Degraded(rec) == [Deployed(rec) EXCEPT !.deployedHash = None]

\* replan_stale's fallback.
Fallback(e) == IF e \in PolicyEnvs THEN ByPolicy ELSE None
Within(hash) == hash.is.workload \in Routine

-----------------------------------------------------------------------------
(* What people do.                                                         *)

NewCommit(content) == [id |-> pushes + 1, is |-> content]
Pushed == pushes < MaxPushes /\ pushes' = pushes + 1

\* A push to a branch, its deletion, and a tag on a new or a pushed commit.
Push(b, content) ==
    /\ Pushed
    /\ git' = [git EXCEPT !.head[b] = NewCommit(content)]
    /\ UNCHANGED <<inbox, sent, live, disk, mem, ctl, troubles, past>>

DeleteBranch(b) ==
    /\ git.head[b] # None
    /\ Pushed
    /\ git' = [git EXCEPT !.head[b] = None]
    /\ UNCHANGED <<inbox, sent, live, disk, mem, ctl, troubles, past>>

Tag(commit) ==
    /\ Pushed
    /\ git' = [git EXCEPT !.tag = [id |-> pushes + 1, commit |-> commit]]
    /\ UNCHANGED <<inbox, sent, live, disk, mem, ctl, troubles, past>>

Send(request) ==
    /\ sent < MaxRequests
    /\ sent' = sent + 1
    /\ inbox' = inbox \cup {request}
    /\ UNCHANGED <<git, pushes, live, disk, mem, ctl, troubles>>

\* piceli gitops approve, with a hash that the environment once showed.
Approve(e, hash) ==
    /\ <<e, hash>> \in past.asked
    /\ Send([kind |-> "approve", env |-> e, arg |-> hash])
    /\ past' = [past EXCEPT !.approved = @ \cup {<<e, hash>>}]

Promote(b, commit) ==
    Send([kind |-> "promote", env |-> b, arg |-> commit]) /\ UNCHANGED past

Sync(e) == Send([kind |-> "sync", env |-> e, arg |-> None]) /\ UNCHANGED past

\* Somebody deploys to an environment with piceli itself.
DeployByHand(e, workload) ==
    /\ Faulty
    /\ live[e].workload # None
    /\ live' = [live EXCEPT ![e] = [workload |-> workload, checked |-> None, up |-> TRUE]]
    /\ UNCHANGED <<git, inbox, people, disk, mem, ctl, past>>

\* A retry falls due.
Due(rec) == IF rec = None THEN None ELSE [rec EXCEPT !.waits = FALSE]
RetryDue(e) ==
    /\ \E s \in {mem, disk} : s.envs[e] # None /\ s.envs[e].waits
    /\ mem' = [mem EXCEPT !.envs[e] = Due(@)]
    /\ disk' = [disk EXCEPT !.envs[e] = Due(@)]
    /\ UNCHANGED <<world, people, ctl, troubles, past>>

-----------------------------------------------------------------------------
(* A poll: poll_once.                                                      *)

\* source.ls_remote(), or a failure of it that ends the poll.
LsRemote ==
    /\ At("poll")
    /\ \/ /\ ctl' = [ctl EXCEPT !.pc = "read", !.refs = git]
          /\ NoFault
          /\ UNCHANGED <<disk, past>>
       \/ Faulty /\ Save(mem) /\ UNCHANGED ctl
    /\ UNCHANGED <<world, people, mem>>

\* channel.requests(), or a failure of it that leaves them for the next poll.
ReadRequests ==
    /\ At("read")
    /\ \/ /\ ctl' = [ctl EXCEPT !.got = inbox,
                                !.pc = IF inbox = {} THEN "desire" ELSE "handle"]
          /\ NoFault
       \/ Faulty /\ Goto("desire")
    /\ UNCHANGED <<world, people, disk, mem, past>>

\* The records after a request was acted on, the same when it is rejected.
Approved(envs, r) ==
    IF envs[r.env] # None /\ envs[r.env].state = "approval-required"
                          /\ envs[r.env].plan = r.arg
    THEN [envs EXCEPT ![r.env].state = "pending", ![r.env].approved = r.arg,
                      ![r.env].attempts = 0, ![r.env].waits = FALSE]
    ELSE envs

Synced(envs, r) ==
    IF envs[r.env] # None /\ envs[r.env].state # "deleting"
    THEN [envs EXCEPT ![r.env].state = "pending", ![r.env].attempts = 0,
                      ![r.env].waits = FALSE]
    ELSE envs

\* A commit can be promoted if the controller saw it on that branch.
Promoted(envs, r) ==
    LET rec == envs[r.env]
        known == {ctl.refs.head[r.env]}
                 \cup IF rec = None THEN {} ELSE {rec.commit, rec.deployed}
    IN  IF r.arg \in known THEN [envs EXCEPT ![Main] = Wanted(@, r.arg)] ELSE envs

\* Requests are handled in the order of their keys, which are digests.
Handle(r) ==
    /\ At("handle")
    /\ r \in ctl.got
    /\ mem' = [mem EXCEPT !.envs = CASE r.kind = "approve" -> Approved(@, r)
                                     [] r.kind = "sync" -> Synced(@, r)
                                     [] r.kind = "promote" -> Promoted(@, r)]
    /\ ctl' = [ctl EXCEPT !.got = @ \ {r}, !.handled = @ \cup {r},
                          !.pc = IF ctl.got = {r} THEN "remove" ELSE @]
    /\ past' = [past EXCEPT !.unsaved =
                    IF mem' = mem THEN @ ELSE @ \cup {r}]
    /\ UNCHANGED <<world, people, disk, troubles>>

\* channel.remove_requests(): a failure leaves them in the inbox.
RemoveRequests ==
    /\ At("remove")
    /\ \/ inbox' = inbox \ ctl.handled /\ NoFault
       \/ Faulty /\ UNCHANGED inbox
    /\ ctl' = [ctl EXCEPT !.pc = "desire", !.handled = {}]
    /\ UNCHANGED <<git, live, people, disk, mem, past>>

\* Mutant: a step to try again never falls due.
DueOfFirstTries(envs) ==
    {e \in Envs : envs[e] # None /\ ~envs[e].waits
                    /\ envs[e].state \in {"pending", "deleting"}}

\* _due and _idle.  How long ago a branch was pushed is left open.
DueOf(envs) ==
    {e \in Envs : envs[e] # None /\ ~envs[e].waits
                    /\ envs[e].state \in {"pending", "retrying", "deleting"}}
IdleOf(envs) ==
    {b \in Branches : IdleStop /\ envs[b] # None /\ ~envs[b].waits
                        /\ envs[b].state = "deployed"}

\* _desired: pushes, the newest tag, branches that are gone.
DesiredState ==
    LET tagged == mem.baseline /\ ctl.refs.tag.id > mem.seen
        rec(e) == IF e = Main
                  THEN IF tagged THEN Wanted(mem.envs[e], ctl.refs.tag.commit)
                                 ELSE mem.envs[e]
                  ELSE IF ctl.refs.head[e] # None
                       THEN Wanted(mem.envs[e], ctl.refs.head[e])
                       ELSE Doomed(mem.envs[e])
    IN  [envs |-> [e \in Envs |-> rec(e)], seen |-> ctl.refs.tag.id, baseline |-> TRUE]

\* Mutant: nothing is saved before the steps.
DesireUnsaved ==
    /\ At("desire")
    /\ mem' = DesiredState
    /\ \E stops \in SUBSET IdleOf(mem'.envs) :
          LET due == DueOf(mem'.envs)
          IN  ctl' = IF due \cup stops = {} THEN Idle
                     ELSE [ctl EXCEPT !.pc = "fetch", !.due = due, !.idle = stops]
    /\ UNCHANGED <<world, people, disk, troubles, past>>

\* _desired and the save after it; what is due and idle is decided here.
Desire ==
    /\ At("desire")
    /\ mem' = DesiredState
    /\ Save(mem')
    /\ \E stops \in SUBSET IdleOf(mem'.envs) :
          LET due == DueOf(mem'.envs)
          IN  ctl' = IF due \cup stops = {} THEN Idle
                     ELSE [ctl EXCEPT !.pc = "fetch", !.due = due, !.idle = stops]
    /\ UNCHANGED <<world, people, troubles>>

\* source.fetch(), or a failure of it that ends the poll.
Fetch ==
    /\ At("fetch")
    /\ \/ Goto("pick") /\ NoFault /\ UNCHANGED <<disk, past>>
       \/ Faulty /\ Save(mem) /\ ctl' = Idle
    /\ UNCHANGED <<world, people, mem>>

\* The next step: teardowns first, then deploys, then idle stops.
First(due) ==
    LET doomed == {e \in due : mem.envs[e].state = "deleting"}
    IN  IF doomed # {} THEN doomed ELSE due

PickStep ==
    /\ At("pick")
    /\ \E e \in IF ctl.due # {} THEN First(ctl.due) ELSE ctl.idle :
          LET rec == mem.envs[e]
          IN  ctl' = [ctl EXCEPT
                 !.env = e, !.due = @ \ {e},
                 !.idle = IF ctl.due # {} THEN @ ELSE @ \ {e},
                 !.approve = IF rec.approved # None THEN rec.approved ELSE Fallback(e),
                 !.pc = IF ctl.due = {} THEN "stop"
                        ELSE IF rec.state = "deleting" THEN "down" ELSE "plan"]
    /\ Save(mem)
    /\ UNCHANGED <<world, people, mem, troubles>>

\* The poll is over; the next one starts.
EndPoll ==
    /\ At("pick")
    /\ ctl.due \cup ctl.idle = {}
    /\ Save(mem)
    /\ ctl' = Idle
    /\ UNCHANGED <<world, people, mem, troubles>>

\* The end of a step: its save, whatever came of it.
SaveStep ==
    /\ At("save")
    /\ Save(mem)
    /\ ctl' = [ctl EXCEPT !.pc = "pick", !.env = None, !.approve = None,
                         !.hash = None, !.again = FALSE]
    /\ UNCHANGED <<world, people, mem, troubles>>

-----------------------------------------------------------------------------
(* The steps: _deploy with env_up, _teardown with env_down, _stop.          *)

Fail(rolledBack) == SetRec(Env, Failed(Rec, rolledBack))
EndStep == Goto("save")
Hashes(approval) == approval \notin {None, ByPolicy}

\* Checkout, loading, build or planning raises: nothing runs differently.
PrepareFails ==
    /\ At("plan")
    /\ Faulty
    /\ Fail(FALSE) /\ EndStep
    /\ UNCHANGED <<world, people, disk, past>>

\* env_up returns approval-required; a hash once approved for the running
\* release is tried again with that approval (_approved_before).
Ask(hash) ==
    /\ SetRec(Env, Asks(Rec, hash)) /\ EndStep
    /\ past' = [past EXCEPT !.asked = @ \cup {<<Env, hash>>}]

PlanAsks ==
    LET hash == PlanHash(Rec.commit, live[Env])
    IN  /\ At("plan")
        /\ \/ ctl.approve = None
           \/ ctl.approve = ByPolicy /\ ~Within(hash)
        /\ IF Rec.deployedHash = hash
           THEN /\ ctl' = [ctl EXCEPT !.approve = hash, !.again = TRUE]
                /\ UNCHANGED <<mem, past>>
           ELSE Ask(hash)
        /\ UNCHANGED <<world, people, disk, troubles>>

\* The approval is for another plan: it is dropped and the environment planned
\* again (replan_stale), or the first answer stands (_approved_before).
PlanStale ==
    /\ At("plan")
    /\ Hashes(ctl.approve)
    /\ ctl.approve # PlanHash(Rec.commit, live[Env])
    /\ IF ctl.again THEN Ask(ctl.approve)
       ELSE /\ ctl' = [ctl EXCEPT !.approve = Fallback(Env)]
            /\ SetRec(Env, [Rec EXCEPT !.approved = None])
            /\ UNCHANGED past
    /\ UNCHANGED <<world, people, disk, troubles>>

\* Mutant: an approval is taken for any plan of the environment.
PlanAcceptedAny ==
    LET hash == PlanHash(Rec.commit, live[Env])
    IN  /\ At("plan")
        /\ \/ Hashes(ctl.approve)
           \/ ctl.approve = ByPolicy /\ Within(hash)
        /\ ctl' = [ctl EXCEPT !.pc = "apply", !.hash = hash]
        /\ UNCHANGED <<world, people, disk, mem, troubles, past>>

\* The approval covers the plan, which is carried out next.
PlanAccepted ==
    LET hash == PlanHash(Rec.commit, live[Env])
    IN  /\ At("plan")
        /\ \/ ctl.approve = hash
           \/ ctl.approve = ByPolicy /\ Within(hash)
        /\ ctl' = [ctl EXCEPT !.pc = "apply", !.hash = hash]
        /\ UNCHANGED <<world, people, disk, mem, troubles, past>>

Run(runs) == live' = [live EXCEPT ![Env] = runs]

\* The release of which plan runs now, if the owner approved it.
Owner(hash) == past' = [past EXCEPT !.owner[Env] = hash]
OwnersPlan == IF Hashes(ctl.approve) THEN ctl.hash ELSE None

\* The record of a deployment; one approved before is approved again.
DeployedNow ==
    SetRec(Env, Deployed(IF ctl.again THEN [Rec EXCEPT !.approved = ctl.approve]
                                      ELSE Rec))

Wants == Rec.commit.is
Same == live[Env].workload = Wants.workload /\ live[Env].up
Stale == ctl.hash # PlanHash(Rec.commit, live[Env])

\* Everything is applied and the checks pass; a release that does not change
\* only has its checks run.
ApplyOk ==
    /\ At("apply") /\ ~Stale
    /\ Run([workload |-> Wants.workload, checked |-> Wants, up |-> TRUE])
    /\ DeployedNow /\ EndStep
    /\ Owner(OwnersPlan)
    /\ UNCHANGED <<git, inbox, people, disk, troubles>>

\* Objects changed since they were planned (a deployment by hand): the rows
\* that changed are refused, others may be written before.
ApplyRefused ==
    /\ At("apply") /\ Stale
    /\ \/ UNCHANGED live
       \/ Run([workload |-> Mixed, checked |-> None, up |-> TRUE])
    /\ Fail(FALSE) /\ EndStep
    /\ Owner(None)
    /\ UNCHANGED <<git, inbox, people, disk, troubles>>

\* The apply stops before its first write or half way.
ApplyFails ==
    /\ At("apply") /\ ~Stale /\ ~Same
    /\ Faulty
    /\ \/ UNCHANGED live
       \/ Run([workload |-> Mixed, checked |-> None, up |-> TRUE])
    /\ Fail(FALSE) /\ EndStep
    /\ Owner(None)
    /\ UNCHANGED <<git, inbox, people, disk>>

\* Checks fail after an apply, which is rolled back if there is a release to
\* go back to; or on a release that did not change, which stays.
ChecksFail ==
    /\ At("apply") /\ ~Stale
    /\ Faulty
    /\ IF Same
       THEN /\ live[Env].checked # Wants
            /\ SetRec(Env, Degraded(Rec))
            /\ UNCHANGED live
       ELSE LET back == live[Env].workload \in Workloads
            IN  /\ Fail(back)
                /\ IF back THEN Run([live[Env] EXCEPT !.up = TRUE])
                   ELSE Run([workload |-> Wants.workload, checked |-> None, up |-> TRUE])
    /\ EndStep
    /\ Owner(None)
    /\ UNCHANGED <<git, inbox, people, disk>>

\* Mutant: the record is forgotten though the teardown failed.
TearDownOnce ==
    /\ At("down")
    /\ \/ Run(Nothing) /\ NoFault
       \/ Faulty /\ UNCHANGED live
    /\ SetRec(Env, None)
    /\ EndStep
    /\ Owner(None)
    /\ UNCHANGED <<git, inbox, people, disk>>

\* env_down, then the record and its local state are forgotten.
TearDown ==
    /\ At("down")
    /\ \/ /\ Run(Nothing)
          /\ SetRec(Env, None)
          /\ NoFault
       \/ Faulty /\ Fail(FALSE) /\ UNCHANGED live
    /\ EndStep
    /\ Owner(None)
    /\ UNCHANGED <<git, inbox, people, disk>>

\* env_stop: an idle environment is scaled to zero, or that fails and is tried
\* again later.
Stop ==
    /\ At("stop")
    /\ \/ /\ Run([live[Env] EXCEPT !.up = FALSE])
          /\ SetRec(Env, [Rec EXCEPT !.state = "stopped", !.deployedHash = None,
                                     !.attempts = 0, !.waits = FALSE])
          /\ Owner(None)
          /\ NoFault
       \/ /\ Faulty
          /\ SetRec(Env, [Rec EXCEPT !.attempts = @ + 1, !.waits = TRUE])
          /\ UNCHANGED <<live, past>>
    /\ EndStep
    /\ UNCHANGED <<git, inbox, people, disk>>

\* The controller is killed and started again with what it had saved.  A kill
\* during an apply leaves it half done.
Crash ==
    /\ Faulty
    /\ ~At("poll")
    /\ mem' = disk
    /\ ctl' = Idle
    /\ \/ UNCHANGED live
       \/ At("apply") /\ ~Same /\ Run([workload |-> Mixed, checked |-> None, up |-> TRUE])
    /\ past' = [past EXCEPT !.unsaved = {},
                            !.lost = @ \/ past.unsaved \ inbox # {},
                            !.torn = @ \/ At("save") \/ live' # live
                                       \/ (At("desire") /\ past.unsaved # {})]
    /\ UNCHANGED <<git, inbox, people, disk>>

-----------------------------------------------------------------------------
Controller ==
    \/ LsRemote \/ ReadRequests \/ (\E r \in ctl.got : Handle(r)) \/ RemoveRequests
    \/ Desire \/ Fetch \/ PickStep \/ EndPoll \/ SaveStep
    \/ PrepareFails \/ PlanAsks \/ PlanStale \/ PlanAccepted
    \/ ApplyOk \/ ApplyRefused \/ ApplyFails \/ ChecksFail \/ TearDown \/ Stop

\* The commits people can name: those of the heads, the tag and the records.
Known == ({git.head[b] : b \in Branches} \cup {git.tag.commit}
          \cup {mem.envs[e].commit : e \in {x \in Envs : mem.envs[x] # None}}) \ {None}

People ==
    \/ \E b \in Branches : DeleteBranch(b) \/ \E x \in Contents : Push(b, x)
    \/ \E c \in Known \cup {NewCommit(x) : x \in Contents} : Tag(c)
    \/ \E pair \in past.asked : Approve(pair[1], pair[2])
    \/ \E b \in Branches, c \in Known : Promote(b, c)
    \/ \E e \in Envs : Sync(e) \/ \E w \in Workloads : DeployByHand(e, w)

Next == Controller \/ People \/ (\E e \in Envs : RetryDue(e)) \/ Crash

\* The controller's process runs (its Deployment restarts it) and time passes.
Fairness == WF_vars(Controller) /\ \A e \in Envs : WF_vars(RetryDue(e))

Spec == Init /\ [][Next]_vars /\ Fairness

-----------------------------------------------------------------------------
(* What the controller promises.                                           *)

Applies == At("apply") /\ ctl'.pc # "apply" /\ live' # live

\* What is applied is inside the owner's policy, or is the plan whose hash the
\* owner approved for that environment, against what ran at that moment;
\* whatever was pushed, promoted, deployed by hand or killed since.
NothingUnapproved ==
    [][Applies /\ live'[Env].workload = Wants.workload =>
          LET hash == PlanHash(Rec.commit, live[Env])
          IN  \/ <<Env, hash>> \in past.approved
              \/ Env \in PolicyEnvs /\ Within(hash)]_vars

\* What is applied without asking again is the approved plan of the release that
\* the controller deployed last: not an older approved plan, nor any plan after
\* a failed step, failed checks or an idle stop.  A kill between an effect and
\* its save leaves the record of an earlier release, and is excluded.
AsksAgain ==
    At("apply") /\ ctl.again /\ ~past.torn => past.owner[Env] = ctl.hash

\* The controller removes a request once it handled it: what a removed request
\* asked for is not forgotten, unless a kill hits the controller after it acted
\* on requests and before the save that follows.
RequestsKeptUntorn == past.lost => past.torn

\* No branch's environment runs without a record of it: no teardown is forgotten.
NoOrphans ==
    \A e \in Branches : live[e] # Nothing => disk.envs[e] # None

\* In the end each branch's last push is deployed, has failed, waits for the
\* owner or was stopped, and a deleted branch's environment is gone.
Quiet == {"deployed", "failed", "approval-required", "stopped"}
Settled(e) ==
    LET rec == disk.envs[e]
    IN  IF e # Main /\ git.head[e] = None THEN rec = None /\ live[e] = Nothing
        ELSE /\ (e # Main) => rec # None /\ rec.commit = git.head[e]
             /\ (rec # None) => rec.state \in Quiet
Settles == <>[](inbox = {} /\ \A e \in Envs : Settled(e))
=============================================================================
