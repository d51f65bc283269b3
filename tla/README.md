# Verification of piceli

TLA+ models, TLC runs and TLAPS proofs for the parts of piceli whose
correctness depends on order: several runners that share a release, a
deployment that is killed, cancelled and resumed while others write to the
cluster, processes that coordinate over nothing but files, a controller and a
host agent that go on from what they last saved. The models are
translated from the source under `src/`; `PROJECT.json` maps each definition
to the lines it stands for.

## The system and its components

piceli builds and deploys applications to Kubernetes from typed Python
definitions. A *plan* compares declared objects with a snapshot of the
cluster; the *executor* carries it out and writes a *journal*; a *pipeline*
runs a release's stages around it; the *state store* shares journals and run
records between the machines that deploy a release. On top of that a *train*
merges and promotes branches one run after the other, and a *GitOps
controller* does unattended what the command line does by hand.

| Component | State | Operations | Talks to |
|---|---|---|---|
| Shared state (`piceli/state`) | Lease, head Secret, chunk Secrets; working copy and marker on each machine | acquire, renew, release, pull, push, checkpoint, session | API server; every command that writes runs in a session |
| Executor and journal (`k8s/ops/executor.py`, `execution_journal.py`, `kubernetes_provider.py`) | execution and its rows (SQLite), objects in the cluster | run, resume, cancel, compensate | API server; guarded and checkpointed by the session |
| Train queue (`train/queue.py`, `train/state.py`) | request files in `waiting`, `running`, `done`; the lock file | enqueue, claim, update, finish, release, cancel, requeue_stale, drain | other processes, through the file system only |
| Train engine (`train/engine.py`) | candidate branch, run records | merge, check, promote | git, pipeline; runs under the train's lock |
| GitOps controller (`gitops/`) | a record per environment (commit, plan, approval, attempts), the inbox | poll, requests, desired, step, teardown, idle stop, recover | git remote, environments, a request channel |
| Environments (`envs/ops.py`) | the namespaces of branches | up, down, stop | pipeline, cluster; called by the controller |
| Pipeline (`pipeline/runner.py`, `journal.py`) | run journal: stages, plan, what was approved | execute, resume, rollback | release runner, builders, checks, session |
| Release runner (`k8s/release_runner.py`) | plan files, history of executions, catalog of releases | plan, apply, resume, previous | executor; called by the pipeline |
| Planning (`k8s/ops/plan.py`, `discovery.py`) | none | plan as a function of a snapshot | executor |
| Secret versions | versions of generated secrets | promote, retire | executor |
| Infra controllers, build service | machines, builds, claims | reconcile, claim, heartbeat | remote hosts |
| Host agent (`hosts/agent.py`) | `state.json`: current, previous, hold, pending attempt, bad builds; the host's profile, boot entry and store | poll, pin, unpin, rollback, deploy, recover, prune | the cache of published builds, the machine it runs on |
| Heavy-work lock (`maintenance/heavy.py`) | flock and holder file | acquire, release, status | other processes |
| Artifact retention | references in journals, images | mark, sweep | journals, registry |
| Restore points, checks, dev pods, UI service | records of each | sequences of the above | the above |
| Typed apps, templates, bundles, code generation, command line | none of their own | conversions | everything |

What makes them hard, and what makes them correct:

- **Shared state.** Two runners race for a lock whose expiry is a matter of
  clocks; replies get lost after the request took effect; a writer dies
  between any two requests and leaves objects under the names the next writer
  wants. Correct: fences are unique, only the lock holder commits, the
  committed generation can always be read, no pull mixes two generations, what
  a command was told is saved stays saved.
- **Executor.** The outcome of a request may be unknown, and the object may
  be touched by controllers and people at any time. Correct: a write is not
  planned again once it took effect, other writers' content is neither
  overwritten nor undone, what was compensated is not in effect, cancellation
  bounds what can still happen, deletes keep their place in the plan, "ready" is
  claimed on one's own object only.
- **Train queue.** Moves between directories are not one operation, and a
  process may die inside one. Correct: a request is never lost, never served by
  two processes, never left waiting when everybody has gone home, never run
  again after it was finished or cancelled.
- **Pipeline.** A run is killed between an effect and its record, and resumed
  on another machine, with another declaration, against a cluster somebody
  edited. Correct: the release that an approval names is what is applied, no
  stage counts as done that is not, a run that ends ready deployed and checked
  what it names, failed checks lead back to another release.
- **GitOps controller.** It acts on environments from a record it saves once
  per step, while people push, delete, tag, approve and deploy by hand.
  Correct: nothing is applied without an approval for that plan, requests are
  acted on, no environment outlives its branch, everything settles.
- **Host agent.** Activation may kill the agent itself, and the host may
  reboot on whatever its boot entry names. Correct: the host ends on, and
  boots, what passed its checks; what failed is not tried again; pruning
  spares what a rollback needs; in the end the newest build runs.

`PROJECT.json` lists every component with its status and every hazard at its
line.

## Modules

| Module | Models | Lines of code it stands for |
|---|---|---|
| `ReleaseState` | what the shared state promises: one value, written by the lock's owner, that only grows | abstract |
| `StateStore` | `state/cluster.py`, `backend.py`, `snapshot.py` | Lease, head, chunks, sessions |
| `StateStoreProofs` | theorems about the lock and the head of `StateStore` | |
| `SnapshotProofs` | theorems about its contents, on top of `StateStoreProofs` | |
| `Executor` | `k8s/ops/executor.py`, the journal states, `KubernetesProvider`'s writes; the API server as an external part | run, resume, cancel, compensate |
| `ExecutorProofs` | theorems about `Executor` | |
| `TrainQueue` | `train/queue.py`, `state.py`, `cli/train.py`, `cli/trains.py` | queue, lock, commands |
| `TrainQueueProofs` | theorems about `TrainQueue` | |
| `Controller` | `gitops/controller.py`, `recovery.py`, `state.py`, and `envs/ops.py` as it calls them | polls, requests, steps, teardown |
| `ControllerProofs` | theorems about `Controller` | |
| `Pipeline` | `pipeline/runner.py`, `journal.py`, and `k8s/release_runner.py` as it calls it | runs, resumes, rollbacks |
| `PipelineProofs` | theorems about what one run promises | |
| `RolloutProofs` | theorems about the history of releases, on top of `PipelineProofs` | |
| `HostAgent` | `hosts/agent.py` | polls and commands of one host |
| `HostAgentProofs` | theorems about `HostAgent` | |
| `MCStateStore`, `MCExecutor`, `MCTrainQueue`, `MCController`, `MCPipeline`, `MCHostAgent` | constants for TLC | |

Names follow the source. Each module has one action per request to the
outside or per file operation, with the local code that leads to it. Mutated
forms of a definition stand before it and are marked `Mutant:`; nothing refers
to them, and replacing the definition by one of them breaks the property it is
listed with in `PROJECT.json`.

### StateStore

`lease` is the Lease object (`holderIdentity`, `leaseTransitions`, and whether
`renewTime + leaseDurationSeconds` is still ahead), `head` the manifest in the
head Secret, `chunks` the chunk Secrets, `copy` and `mark` each machine's
working copy and marker file, `proc` the process that runs a session there.
The directory lock admits one process per working copy, so a runner has one.
`proc.pc` says which request comes next; `proc.phase` where in `session()` the
process is, which decides what an error leads to (`Raised`).

- A snapshot is the set of edits in it; an edit stands for any journal commit
  or saved record. The digest of a snapshot is the snapshot. A chunk is a
  record of its name (generation, index) and of the snapshot it was cut from.
- A read followed by a write under the read's `resourceVersion` that is
  retried on a conflict (renew, acquire, release, `_delete`) takes effect at
  the write and is one action. The head's read and its compare-and-swap, with
  the chunks in between, are separate.
- A session's checkpoints are the forced ones. The throttled ones push the
  same content earlier or do nothing.
- `Lapse` is the passing of a lease duration without a renewal. It may happen
  at any moment, except as `Timely` says.
- Faults: a request fails without effect (`Unavailable`), it takes effect and
  the reply is lost (`ReplyLost`), the heartbeat cannot reach the server
  (`BeatTimedOut`), the process is killed (`Crash`), at the labels in
  `CrashPoints`.

### Executor

`plan` is a sequence of rows, each with an operation and whether its readiness
is deferred. Any sequence is a plan: prunes come behind everything else, the
deletes of swapped access companions before it (`plan.py` puts them first), and
a deleted workload may be deferred like any other (`_first_consumer_refs`).
`obj` is each row's object on the server: identity, version, whether the fields
are owned by piceli, whether it carries the row's operation id, one of three
contents (`old` is what the plan saw, `new` what it declares, `foreign`
anything else), and whether it is being deleted or ready. `row` and `exec` are
the journal. `net` holds requests on their way, which arrive in any order, also
after their sender gave up or died.

- One action is a read with the journal write it leads to. Recording an intent
  and handing the request to the network are one action: dying between the two
  looks like a request that the network dropped, which `Dropped` covers. The
  guard (`_guard`, which finds a cancellation) is an action of its own before
  each request, so a cancellation fits in between.
- `Settles`: a request arrives within `write_settle_seconds` or never. This is
  what `_unwritten`'s "certainly never landed" rests on.
- `Compensate` reads everything at once, refuses what is not as the receipts say,
  and `Undo` sends one request per row, last row first, under the receipt's
  version. It asks nobody for cancellation, and an execution whose compensation
  was cut short keeps the state it had, as in the code. It undoes creations and
  applies; an adoption that is not a takeover, a replace and a delete stay in
  effect. Retained kinds, takeovers and objects with descendants are not in the
  plans.
- Other writers change an object, delete it, or create one; controllers write
  statuses; the garbage collector finishes deletions.

### TrainQueue

`waiting`, `running` and `done` map each request to its file: missing, or
naming a process or none. `flock` is the kernel's lock, `named` the pid in the
lock file; they are different on purpose, since the code asks for the second.
A process is one command: `piceli train`, `piceli train --queue` or `piceli
train-queue --drain`, then `drain()`.

- `update()`'s read and rewrite are one action, as are `cancel`'s rename and
  rewrite (nobody reads what the rewrite adds).
- `requeue_stale` lists and asks for each pid in turn; the model asks for all at
  once. While moves are not overtaken a kill in between has the same result as
  one before the listing.
- The run of a train is one step: it ends, or raises and ends the command.
- Process ids are not reused and two writers do not share a `.partial` file.
- `Prompt`: a process inside a move, which is two file operations with no wait
  between them, is not overtaken by another process's action. A kill may
  still hit it there.

### Controller

`git` is the remote (each branch's head, the newest tag), `inbox` the request
channel, `live` what runs in each environment, `disk` and `mem` the
controller's state on disk and in memory, `ctl` where it is. `Main` is a fixed
environment that deploys tags and promotions; the others belong to branches.

- An action is one call to the outside with the local code around it: listing
  refs (`Poll`), reading the inbox, handling it (`Desire`), removing what was
  handled, planning, applying, tearing down, stopping, saving. The state is
  saved as a whole, so a kill loses everything since the last save.
- `env_up` is two steps, the plan and its application. An application may be
  refused (another plan than the approved one), fail partway (`Mixed` runs)
  or be followed by failing checks.
- A plan's hash covers what the commit declares and what runs, and no versions
  of objects, as the code's does.
- `RetryDue` is the passing of a backoff.

### Pipeline

`declared` is what the definition says now, `images` the images on each
machine, `registry` the delivered ones, `receipt` the image of the last build
(its file is in the shared state directory), `cluster` what runs with a version
that each change increments, `journal` the runs, `plans`, `history` and `catalog`
what the release runner keeps. `made` numbers the plans: the hash of a plan
covers when its snapshot was taken, so no two are the same. One process runs at a time: the state directory is
shared through a session of the state store, whose lock is what `StateStore`
is about; here the journal is the committed one.

- The stages are build, deliver, plan, apply and checks. Each stage is an
  effect followed by its record, with a kill in between.
- A release is an image and a configuration; an image stands for the build plan
  it comes from. The first declaration may be any release.
- A resumed process takes an image that its run recorded as it is, without a look
  at the machine (`proc.image`, and `proc.trusts` if the build stage is still to be
  done), and builds again, from what is declared now, an image whose build is
  finished and which is neither here nor delivered (`Rebuilt`). Only an image that
  the run never recorded is compared with the approved one.
- An execution of a plan is abstracted to what `Executor` shows of it: it
  writes some rows (`Mixed` runs), becomes ready, fails, or is refused because
  an object changed since it was planned.
- The plan file of an execution goes (`Unlink`) before the history says how it
  ended (`Note`), with a kill in between.
- `past` is for the properties: which runs began a rollback, which were resumed
  after the declaration changed, which were built again from another image, which
  releases passed their checks.

### HostAgent

`refs` holds the pointers of the cache: the followed ref's with its date, and
each tag's date. A pointer is dated after the one it replaces, and pointers of
the same build may have any dates (`dev/nix.py` stamps the tag's before the
branch's). `host` is what runs, what was booted, the boot entry, the
generations of the profile and the store, `disk` and `mem` the agent's
`state.json` and its copy in memory, `proc` the run at work. A run holds a lock
file, so there is one at a time.

- An action is one command on the host with the saves around it: fetching,
  activating (`switch-to-configuration test`), the checks, the profile, the
  boot entry, deleting generations, collecting the store, and each step of a
  rollback. A command that fails may have had its effect.
- `Mark` and `ChecksPass` are the two saves before activation and before the boot
  step; `Finish` the one at the end. A kill or a reboot loses what is in memory.
- A build whose checks fail always is in `Broken`; other checks may fail too.
- An attempt carries the date of the pointer that it came from: the followed
  ref's for a poll, the tag's for a pin. `bad` keeps, per build, the date of the
  last attempt that failed or was refused, written over whatever was there.

## The runs

| Run | Instance | Shows |
|---|---|---|
| `state_store` | 2 runners, 1 edit beyond the initial state, 2 lock transitions, snapshots of 1 or 2 chunks, 1 fault, 1 kill; `Timely`, no kill inside `unpack` | `Readable`, `AckedKept`, `NoMixedRead`, `FencesUnique`, `OnlyHolderCommits`; the store implements `ReleaseState` |
| `state_store_any_timing` | 2 runners, 2 edits, sessions open until the first lock transition, no fault, no kill; leases lapse at any moment | `HeadNeverGoesBack`; every operation ends (`OperationsEnd`) |
| `executor` | 4 plans of 2 or 3 rows with every operation, 3 processes in turn, 1 foreign write, 1 extra status write, 2 faults | `JournalTrue`, `ForeignKept`, `CancelStops`, `DeletesInPlace`, `ReadyIsOurs` |
| `train_queue` | 3 processes, 3 requests, 2 kills; `Prompt` | `NeverLost`, `Served`, `OneServer`, `RunningIsServed`, `NeverAgain` |
| `controller` | 1 branch and the fixed environment, 2 contents, 2 pushes, 1 request, 2 troubles (failing calls, kills, deployments by hand), 2 attempts | `NothingUnapproved`, `AsksAgain`, `NoOrphans`, `RequestsKeptUntorn`, `Settles` |
| `pipeline` | 2 machines, 4 releases (2 images, 2 configurations), 2 runs with 2 resumes, 1 edit (of the declaration or by hand), 1 fault, 1 kill | `ApprovedRelease`, `DoneIsReady`, `DeliverableHere`, `ReadyIsDeployed`, `FirstRollbackAway` |
| `host_agent` | 3 builds, one broken, one tagged, 2 dates per pointer, 2 commands and 2 troubles (failing steps, kills, reboots, switches by hand), 3 of these together, 2 generations kept | `EndsOnChecked`, `BootsOnChecked`, `TargetsKept`, `HeldRuns`, `BadNotRetried`, `Follows` |
| `live_chunk_replaced` | 2 runners, 2 edits, no fault, no kill; not `Timely` | violation of `Readable` |
| `torn_unpack` | 1 runner, 2 edits, 3 lock transitions, 1 kill, anywhere; `Timely` | violation of `AckedKept` |
| `request_lost` | without `Prompt` | violation of `NeverLost` |
| `rolled_forward` | 1 run, 1 resume, 1 edit, 3 faults | violation of `RollsBackAway` |
| `half_undone` | no commands, 2 troubles | violation of `BootsWhatRuns` |

### Why these bounds

- *State store.* `MaxTransitions` keeps new sessions from opening, not those
  that are open from taking the lock: with 1, both runners may still acquire it
  one after the other. Two lock transitions are a takeover and everything an old
  holder can still do to a new one. Two chunk counts that alternate make each
  push replace a longer generation by a shorter one or the reverse, so leftover
  chunks, the sweep and `Taken` names all occur; `MaxChunks = 2` is reached.
  One fault and one kill together give a session that failed, one that died
  and one that finds what both left. The run at any timing is there for
  runners that are suspended and wake at the wrong moment, so it drops faults
  and kills; the theorems on fences and on the head cover them at any timing.
- *Executor.* The plans put every operation first and last, a deferred claim
  before its consumer and before a prune, the delete of a swapped companion
  before an adoption, and deletes behind immediate and deferred rows and
  deletes. Three processes allow a resume of a resume, a compensation of a
  compensation that was cut short, and a resume after one. Two faults allow a
  lost answer followed by a kill.
- *Train queue.* Three processes are a server, one that comes while it
  serves, and one that comes while it stops. Three requests let the oldest and
  a later one be in different directories with a third still to come. Two
  kills allow a dead server and a dead successor.
- *Controller.* Two pushes are a change and its revert, a push and a deletion,
  or a commit and a tag of it. Of the 2 troubles any two may meet: a failed
  teardown and a kill, two failures in a row (with `MaxAttempts = 2` a record
  gives up), a deployment by hand between a plan and its approval.
- *Pipeline.* Two runs are a release and its successor, each resumed after a
  fault or a kill, on either machine. The release declared at the beginning is any
  of the four, so the one edit is a change on top of a first declaration that
  differs from what runs in image, configuration or both, or a change of the
  cluster. With two resumes the chain that matters most is within the bounds:
  built on one machine, resumed on the other with the build stage reset and cut
  short, resumed again. The theorems cover every number of edits.
- *HostAgent.* Two dates per pointer let a build be published again after it
  failed, be replaced while it is on trial, and have a tag that is older or newer
  than its branch pointer. Two commands are a pin and its end, or a pin over a pin.
  Two troubles are a failing step and a kill in its rollback, or a kill and a
  reboot before recovery. Three events together (`MaxEvents`) are a pin over a
  pin that fails, or one command with two troubles anywhere in it. `Keep = 2` is the least the code allows; a third
  generation comes from a switch by hand, a pin or a rollback.

The passing runs have between 10^5 and 2.3 million states; the largest are
`pipeline` (2 276 118), `executor` (1 874 442) and `host_agent` (715 616).

Processes, runners and machines are symmetric: they are compared for equality
only. Runs with a liveness property use no symmetry.

`CHECK_DEADLOCK FALSE` is set throughout: each behaviour ends once its bounds
are used up, and a command line that nobody calls does nothing.

### Fairness

- `state_store_any_timing`: `WF(Step(r))` for each runner. `Step` holds what the
  interpreter does by itself within an operation, requests included, which
  return or raise because the client has timeouts. Opening a session, editing,
  ending a command, faults, lapses and kills are not fair.
- `controller`: `WF(Controller)`, the controller's own steps, since its
  Deployment restarts it and its calls have deadlines, and `WF(RetryDue(e))`,
  since time passes. What people do is not fair.
- `host_agent`: `WF(Poll)`, since a systemd timer starts polls, and `WF(Agent)`,
  since every command of a run has a time limit.

### What the assumptions hide, and what happens without them

`Timely`, `CrashPoints`, `Prompt` and `Settles` (of `Executor`) are not
guaranteed by the code; they say how long something takes compared with
something else. The passing runs show what holds when they hold. Other
properties name the case they exclude. The violation runs show behaviours of
the code against which a comment or a document speaks:

1. **`live_chunk_replaced`.** A suspended runner whose generation number was
   committed by someone else meanwhile finds its chunk name taken and deletes
   the object as garbage, though the head names it. The release cannot be read
   until someone repairs it.
2. **`torn_unpack`.** The process dies between the removal of the working
   copy's files and the writing of new ones while its marker is current. The
   next writing session takes the truncated copy for newer local state and
   pushes it.
3. **`request_lost`.** `release` and `requeue_stale` write the waiting file and
   then unlink the running one. A server that claims the waiting file in
   between renames it onto the running path, and the unlink removes it.
4. **`rolled_forward`.** The rollback of a run fails, the run is resumed, its
   checks fail again, and "the previous release" is now looked up in a history
   whose newest entry is the failed rollback: it is the release whose checks
   failed.
5. **`half_undone`.** The agent dies in a rollback between the activation of the
   previous system and its boot entry. The next run finds the previous system
   running, needs no rollback, and the boot entry stays on the bad build.

Each is recorded under `findings` with the line it contradicts. The models have
more behaviours that a property excludes by name, without a run of their own:

- Without `Timely`, a runner suspended between its last proof of the lease and
  its head update commits although another has taken the lock over and not
  written yet (`OnlyHolderCommits`). The newer holder builds on that
  generation; `HeadNeverGoesBack` holds throughout.
- A runner whose head update succeeded and whose reply was lost keeps the
  marker of the generation before: what it writes afterwards does not count as
  unsynced.
- Without `Prompt`, a request looks stale between the rename that claims it and
  its signature, and another server puts it back and claims it (`OneServer`).
- A controller killed after it deployed and before it saved still has the
  hash of the plan before, which it then applies without asking when a tag goes
  back to that release's content (`AsksAgain` excludes kills there). Killed
  between the removal of a request and the next save, it has lost the request
  (`RequestsKeptUntorn`).
- A run approved while its images were not delivered was shown a preview, and
  its approval names no release: resumed after the definition changed it plans
  and applies the changed one. Its image is the approved one, except when the run is
  built again on another machine: `_rebuild_missing` says "same approved build
  plan" (`runner.py:1715-1720`), but `_restore` compares build plans only for a
  build without output (`1678-1688`), so what is declared now is built and applied.
  `ApprovedRelease` holds such a run to the image it built last.
- A build stage that `_rebuild_missing` reset to pending and that a kill then
  left there is not built by the next resume: `_restore` marks the recorded image
  as cached (`1679-1682`), `_rebuild_missing` looks at finished build stages only,
  and `_run_build` does not look at the machine for what is cached (`1933-1936`).
  The run comes to its delivery without the image and fails there, however often
  it is resumed on that machine. `DeliverableHere` excludes processes that trust
  the journal this way (`proc.trusts`).
- A run resumed after its rollback began may pass its checks the second time
  and end ready although the release before it runs (`Straight` in
  `ReadyIsDeployed`). A kill between the end of the apply and its record makes
  the resumed run skip the apply, and a run that skipped it never rolls back.
- A failed pin writes the date of its tag over its build's mark, also when that is
  older than the failed publication the mark was made of (`agent.py:1336-1338`,
  `1560-1563`). The next poll of the branch pointer of that build then takes it for
  newer than its mark and activates it again, though `docs/nix_hosts.md:425-427`
  says a bad build "is not tried again until a newer pointer for it".
  `BadNotRetried` excludes builds of which an older attempt failed since.
- The pending attempt of the host agent stays on disk while it prunes: a kill
  there undoes a deployment whose checks passed, and brings back a state whose
  previous system may have been collected (`torn` in `TargetsKept`).

## What is proved

The theorems hold for every set of runners, processes, machines, releases or
builds, every plan, and every value of the bounds. They rest on the named
assumptions on the constants (`StoreAssumption`, `ExecutorAssumption`,
`QueueAssumption`, `ControllerAssumption`, `PipelineAssumption`,
`AgentAssumption`, and `NoneIsNoAttempt`, `NoneIsNoHash`, `NamesAreNoValues`,
which say that a value that stands for "none" is not one of the others), which
TLC evaluates in the runs. Where a
theorem needs one of the timing assumptions above, its statement has it as a
hypothesis.

Each proof follows one scheme: a helper's effect as lemmas, an inductive
invariant in named parts, one lemma per part and group of actions, the
property from the parts. The invariants were checked with TLC before they
were proved. They mostly say what a label of the control state already
implies about the data.

**`StateStoreProofs`** (the lock and the head)

- `TypeCorrect`: `TypeOK`, with one step per action over lemmas on what a
  helper does to a process.
- `FencesAreUnique`: `FencesUnique`, without timing assumptions. It is inductive
  on top of `TypeOK`: a fence is taken by incrementing the transition count it
  is compared with.
- `HeadMonotone`: `HeadNeverGoesBack`, without timing assumptions. Needs
  `PushInv`: the head a push read carries no newer fence than its own, from
  the moment `ReadHead` compared them. Then the compare-and-swap can only
  replace a head with an older or equal fence.
- `HolderCommits`: `OnlyHolderCommits` if `Timely`. Needs `LockInv`: a runner
  inside a push holds the lease, live. `Timely` keeps the lease from lapsing in
  the window, so nobody can take it over there.

**`SnapshotProofs`** (the contents; `Timely`, and no kill at `"rewrite"`)

- `AlwaysReadable`, `AckedIsKept`, `ReadsUnmixed`: `Readable`, `AckedKept`,
  `NoMixedRead` from one invariant, `ContentInv`. It says which chunks the head
  needs, which names a push under way owns and which leftovers may be in their
  way, what a reader has put together so far, and that a working copy under a
  current marker holds what that generation held. `live_chunk_replaced` and
  `torn_unpack` show that neither hypothesis can be dropped: without `Timely`
  the head's chunks are not safe, without the other an empty copy passes for
  newer state. (`Readable` and `NoMixedRead` alone need the first only; they
  share the invariant, so they are stated with both.)
- `StoreImplements`: `ImplementsReleaseState`. Initial states map to initial
  states, and each step either changes nothing of the abstract value, or is the
  owner's write of a value that contains the old one.

**`ExecutorProofs`** (any plan, any number of faults and processes)

- `TypeCorrect`: `TypeOK`, with `Placed`: a process works on a row of its plan.
- `LeavesForeign`: `ForeignKept`, however late requests are. From `Versions`: each
  version that the process, the journal or a request carries is one at which the
  object had content known to the plan, so a request that the server accepts
  cannot hit anything else.
- `CancelHolds`: `CancelStops`, however late requests are. From `Stopped`: what may
  still take effect was on the network, or past its last guard, at the
  cancellation.
- `JournalIsTrue`, `ReadyByWriting`, if `Settles`: `JournalTrue` (whose clause on
  compensation is about creations and applies, the rows that are undone),
  `ReadyIsOurs`. From
  `Journaled`: what each journal state says about what has landed and what may
  still be on its way. That an unknown outcome is settled before a row is planned
  again is where `Settles` enters.
- `DeletesKeepPlace`, if `Settles`: `DeletesInPlace`, for plans in any order. From
  `Walk`: a run that comes to a row has every row before it ready, or deferred and
  noted, and one that comes to a delete has no deferred row left, also when the
  rows were made ready by an execution that was resumed. That prunes come last and
  deletes of swapped companions first is what the planner does; the theorem says
  that the executor keeps to it.

**`TrainQueueProofs`** (all under `Prompt`)

- `NothingLost`: `NeverLost`. Inductive invariant `Typed /\ Kept` with the
  property itself: while a process is between the two operations of a move, the
  file it wrote is still there, so the unlink leaves a copy. That is where
  `Prompt` enters.
- `ServedByOne`, `RunningServed`, `TypeCorrect`: from one invariant,
  `ServeInv`. It says who is entitled to a request: a process that serves one
  has signed its running file (`Signs`), a running file that names a live
  process is that process's (`Shown`), what is in a server's list or hand when
  it starts a move is really there (`Claims`, `Stale`, `Started`), an unsigned
  running file belongs to at most one process inside a claim (`Unsigned`,
  `Apart`), at most one process is inside a move (`OneMove`), an idle process
  has nothing in hand (`FreeHands`), and only enqueued requests have files
  (`Asked`). None of the three properties is inductive alone: that a stale
  file may be put back follows from the signature having been written before
  anyone else could look.
- `NotRunAgain`: `NeverAgain`, from `Once`: a request has one file, unless a
  process is between the two operations of a move or was killed there (`Torn`,
  `Apiece`).
- `AllServed`: `Served`, from `Watched`: whatever waits or was left half served
  while somebody is still there is in the sight of a process that holds the
  train's lock or has yet to look (`Holders`, `Fallen`, `Attended`). This is the
  argument that the gap between a server's last look at the queue and the
  release of its lock leaves nothing behind.

**`PipelineProofs`** (what one run promises)

- `TypeCorrect`, `AppliesApproved`, `DoneByExecution`, `DeliversWhatIsHere`: `TypeOK`,
  `ApprovedRelease`, `DoneIsReady`, `DeliverableHere`, from `Inv`: the stages of a
  run are finished in order and each has left what the next needs (`Sound`); at
  each label the run is at the stage that label belongs to (`Placed`, `Planning`);
  an image is the approved one unless the run was built again from another
  declaration, in the journal (`Original`) and in the process (`Holding`); between
  build and delivery it is on this machine or in the registry, for a process that
  does not trust the journal (`Here`); an apply that is done has a ready execution
  of its plan (`Effects`).

**`RolloutProofs`** (the history of releases)

- `EndsDeployed`, `RollsBackFirst`: `ReadyIsDeployed`, `FirstRollbackAway`, from `Inv`
  and `Deep`. The cluster's version orders plans and executions (`Stamped`,
  `Stamping`): a plan made at the current version saw what runs, and nothing was
  deployed since. From that, a run that found its release unchanged found the
  one that is deployed (`Skipped`, `Unmoved`), and what passed its checks was
  deployed when it did (`Verified`). `Undoing` says what a rollback under way
  goes back from.
- For the first rollback: plans are numbered (`Numbered`), so the plan of a new run
  has no execution yet, and until the run begins a rollback what it executed is the
  end of the history; once that became ready it is not executed again (`Topmost`).
  The newest entry is therefore the ready one whose checks failed, and
  `_History.previous()` returns a release that differs from it. `rolled_forward`
  shows that the second rollback of a run has no such guarantee.

**`HostAgentProofs`** (any builds and bounds, any `Keep` of at least 2)

- `TypeCorrect`, `NeededIsKept`, `RunsChecked`, `BootsChecked`, `HeldIsRun`, `FailedIsLeft`:
  `TypeOK`, `TargetsKept`, `EndsOnChecked`, `BootsOnChecked`, `HeldRuns`,
  `BadNotRetried`. The invariant says which generation roots what (`Rooted`,
  `PreviousKept`), which systems passed their checks at each label (`Checked`),
  that a hold follows what runs until a deployment is complete (`Follow`), and
  that a build's mark is as new as its last failure or is still to be made of it,
  unless an older failure came after (`Marked`).
- `BootsRun`: between runs the boot entry and the running system differ only after
  a failed rollback, a switch by hand, or a run that was cut short inside a
  rollback. It is the complement of `half_undone`: nothing else parts them.

**`ControllerProofs`** (any branches, contents, policy and bounds)

- `TypeCorrect`, `AppliesApproved`, `AsksUnlessDeployed`, `RequestsAreKept`,
  `LeavesNoOrphan`: `TypeOK`, `NothingUnapproved`, `AsksAgain`,
  `RequestsKeptUntorn`, `NoOrphans`, from one invariant. An approval that was sent,
  or that a record holds, was given for that environment (`Vouched`, `Sound`), and
  so was the one in hand while planning, which covers what is then applied
  (`Entitled`). What a record remembers as approved is the plan of the release
  deployed last, on disk from the end of a step on (`Remembered`): a kill at
  "save" breaks exactly this, which is why `AsksAgain` excludes it. What runs has
  a record in memory and on disk (`Recorded`). A request that was acted on is in
  the inbox until one step before the save (`Unsaved`).

**Checked by TLC only.** The liveness properties (`OperationsEnd`, `Settles`,
`Follows`): the prover does not handle fairness. Every safety property of a
passing run is proved.

## Not modelled

- Status views and `describe_lock`, `pending`, `position`, `find`: they change
  nothing.
- In the executor: forced takeovers, adoption of metadata alone, identical
  retained objects, diagnosis texts, journal compaction, the
  import of older journals.
- In the controller: environments that follow another's commit, build receipts,
  the sweep of local directories, published status.
- In the pipeline: the inputs, prerollout and backup stages, `--until` and
  `--reapply`, the policy, interruptions that the process still records,
  releases deployed without a pipeline, their checks and rollback.
- In the host agent: service mode and a change of scope, refusals of older tags
  and of replayed pointers by a poll, status and reports.
- Clock skew between machines, except that a lease may lapse whenever `Timely`
  lets it.
- The contents of snapshots, manifests, requests and archives.
- Components listed as `not_modelled`, with the reason in `PROJECT.json`:
  conversions, presentation and I/O for good, the others until the plan gets
  to them.

## Plan

Done: `StateStore` with `ReleaseState`, `Executor`, `TrainQueue`, `Controller`,
`Pipeline`, `HostAgent`, their runs, and the theorems on all their safety
properties. Next, in this order:

1. The composition of `Pipeline` with `ReleaseState` (its journal and history as
   the value that a session commits), with a kill before the commit.
2. **`HeavyLock`**, **`Operations`**, **`Builders`**, the infra controllers: one
   module each; an abstract mutex that `HeavyLock` and the train's lock both
   implement.
3. **`PlanOrder`**: the order of a plan's rows as an operator, compared with a
   reference definition on all small inputs, to go with `DeletesInPlace`: prunes
   behind what replaces them, deletes of swapped companions before everything.
4. **Retention**, **secret versions**, **train engine**.
