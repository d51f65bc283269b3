------------------------------- MODULE Executor -------------------------------
(***************************************************************************)
(* One execution of a deployment plan (piceli/k8s/ops/executor.py) and its *)
(* journal (execution_journal.py), against an API server that other        *)
(* writers use too.                                                        *)
(*                                                                         *)
(* The plan is a sequence of rows, one object each.  A process walks them  *)
(* in order: it reads the object, checks it against what the plan saw,     *)
(* records an intent, sends the request, records what came of it and waits *)
(* until the object is ready.  The process may die anywhere, an answer may *)
(* be lost and the request still arrive later, somebody may cancel, and    *)
(* other writers may change, delete or create the objects in between; a    *)
(* later process resumes from the journal, or undoes what it records.      *)
(*                                                                         *)
(* Each action is one read of the cluster or one answer together with the  *)
(* journal write that follows it.  Recording an intent and handing the     *)
(* request to the network are one action: a process that dies between the  *)
(* two behaves as one whose request the network dropped.                   *)
(***************************************************************************)
EXTENDS Integers, Sequences, FiniteSets

CONSTANTS
    Plans,        \* the plans to execute: sequences of [op, deferred]
    MaxAttempts,  \* PRECONDITION_ATTEMPTS
    Settles,      \* a request arrives within write_settle_seconds or never
    MaxRuns,      \* bound: processes that start, resume or undo the execution
    MaxForeign,   \* bound: writes by others
    MaxNoise,     \* bound: status writes by controllers beyond the needed ones
    MaxFaults     \* bound: killed processes, lost answers, failed reads

Ops == {"create", "apply", "adopt", "replace", "delete", "noop"}
Actions == [op : Ops, deferred : BOOLEAN]

ASSUME ExecutorAssumption ==
    /\ Plans \subseteq Seq(Actions)
    /\ MaxAttempts \in Nat \ {0}
    /\ Settles \in BOOLEAN
    /\ {MaxRuns, MaxForeign, MaxNoise, MaxFaults} \subseteq Nat

VARIABLES
    plan,
    obj,      \* each row's object on the API server; uid = 0: absent
    net,      \* requests on their way to the API server
    row,      \* the journal's actions
    exec,     \* the journal's execution: state, cancelled
    proc,     \* the process that runs the execution
    landed,   \* writes of each row in effect (not undone by a later delete)
    open,     \* row and verb of the requests under way when it was cancelled
    used      \* runs, foreign writes, noise and faults so far

vars == <<plan, obj, net, row, exec, proc, landed, open, used>>
server == <<obj, landed, open>>
journal == <<row, exec>>

Rows == DOMAIN plan
Contents == {"old", "new", "foreign"}   \* "new" is what the plan declares

Verbs == {"create", "patch", "delete"}

Object == [uid : Nat, rv : Nat, owned : BOOLEAN,
           op : BOOLEAN, undone : BOOLEAN,       \* whose operation id it carries
           content : Contents, dying : BOOLEAN, ready : BOOLEAN]
Request == [row : Rows, verb : Verbs,
            uid : Nat, rv : Nat, undo : BOOLEAN, awaited : BOOLEAN]
Row == [state : {"pending", "failed", "intent", "applied", "ready",
                 "compensating", "compensated"},
        uid : Nat, rv : Nat,                         \* "before"
        phase : {"none", "deleting", "deleted"},     \* of a replace
        got : Nat, gotRv : Nat]                      \* the receipt
Execution == [state : {"pending", "ready", "failed", "blocked", "cancelled",
                       "compensated"},               \* -with-retention
              cancelled : BOOLEAN]
Labels == {"idle", "row", "look", "intend", "send", "await", "answered", "again",
           "gone", "recreate", "redelete", "ready", "settle",
           "undo", "undoing", "reversed"}
Process == [pc : Labels, i : Nat, seen : Object, tries : Nat,
            resumed : BOOLEAN, ok : BOOLEAN, late : SUBSET Rows]

\* Objects, requests and journal rows have their shapes, and an execution ends
\* under one of the names that _run(), cancel() and _compensate() write.
TypeOK ==
    /\ plan \in Plans
    /\ obj \in [Rows -> Object]
    /\ net \subseteq Request
    /\ row \in [Rows -> Row]
    /\ exec \in Execution
    /\ proc \in Process
    /\ landed \in [Rows -> Nat]
    /\ open \subseteq Rows \X Verbs
    /\ used \in [runs : 0 .. MaxRuns, foreign : 0 .. MaxForeign,
                 noise : 0 .. MaxNoise, faults : 0 .. MaxFaults]

Absent == [uid |-> 0, rv |-> 0, owned |-> FALSE, op |-> FALSE, undone |-> FALSE,
           content |-> "old", dying |-> FALSE, ready |-> FALSE]

\* What the plan's snapshot observed of an action's object.
Observed(op) ==
    IF op = "create" THEN Absent
    ELSE [Absent EXCEPT !.uid = 1, !.rv = 1, !.ready = TRUE,
                        !.owned = op \notin {"adopt", "replace"},
                        !.content = IF op = "noop" THEN "new" ELSE "old"]
Baseline(i) == Observed(plan[i].op)

Idle == [pc |-> "idle", i |-> 0, seen |-> Absent, tries |-> 0,
         resumed |-> FALSE, ok |-> FALSE, late |-> {}]
Untouched == [state |-> "pending", uid |-> 0, rv |-> 0, phase |-> "none",
              got |-> 0, gotRv |-> 0]

Init ==
    /\ plan \in Plans
    /\ obj = [i \in Rows |-> Baseline(i)]
    /\ net = {}
    /\ row = [i \in Rows |-> Untouched]
    /\ exec = [state |-> "pending", cancelled |-> FALSE]
    /\ proc = Idle
    /\ landed = [i \in Rows |-> 0]
    /\ open = {}
    /\ used = [runs |-> 0, foreign |-> 0, noise |-> 0, faults |-> 0]

-----------------------------------------------------------------------------
(* How the process moves on.                                               *)

I == proc.i
Op == plan[I].op
Current == obj[I]          \* provider.get(identity)

At(pc) == proc.pc = pc
Goto(pc) == proc' = [proc EXCEPT !.pc = pc]

\* A ProviderError ends the run; the row keeps the state the journal has.
Stop(state) == proc' = Idle /\ exec' = [exec EXCEPT !.state = state]

\* _guard(): asked at the loop's head, before an intent and at every poll.
Guard == ~exec.cancelled

\* A row is applied: a deferred one is waited for later, the others now.
Wait ==
    IF plan[I].deferred
    THEN proc' = [Idle EXCEPT !.pc = "row", !.i = I + 1, !.late = proc.late \cup {I}]
    ELSE proc' = [Idle EXCEPT !.pc = "ready", !.i = I, !.late = proc.late]

Applied(o) ==
    /\ row' = [row EXCEPT ![I].state = "applied", ![I].got = o.uid, ![I].gotRv = o.rv]
    /\ Wait
    /\ UNCHANGED exec

Failed ==
    /\ row' = [row EXCEPT ![I].state = "failed"]
    /\ Stop("failed")

\* Mutant: an unknown outcome is recorded under another name.
BlockedMisnamed == Stop("ambiguous") /\ UNCHANGED row

\* Blocked: the outcome is unknown, so the row stays an intent.
Blocked == Stop("blocked") /\ UNCHANGED row

Send(verb, o, p) ==
    /\ net' = net \cup {[row |-> I, verb |-> verb, uid |-> o.uid, rv |-> o.rv,
                         undo |-> FALSE, awaited |-> TRUE]}
    /\ proc' = [p EXCEPT !.pc = "await", !.i = I]

Quiet == UNCHANGED <<plan, server, used>>

-----------------------------------------------------------------------------
(* The run.                                                                *)

\* run(resume=...): journal.start, then journal.resume.  The journal's lock
\* admits one process.
Begin ==
    /\ At("idle")
    /\ used.runs < MaxRuns
    /\ used' = [used EXCEPT !.runs = @ + 1]
    /\ exec' = [state |-> "pending", cancelled |-> FALSE]
    /\ open' = {}
    /\ proc' = [Idle EXCEPT !.pc = "row", !.i = 1]
    /\ UNCHANGED <<plan, obj, net, row, landed>>

Reversing == {"compensating", "compensated"}

InPlan == At("row") /\ I \in Rows /\ Guard

\* Mutant: a delete does not wait for the deferred rows.
DueAtOnce == InPlan

\* A delete waits until every deferred row before it is ready too.
Due == InPlan /\ (Op = "delete" => proc.late = {})

SettleFirst ==
    /\ \/ InPlan /\ ~Due
       \/ At("row") /\ I \notin Rows /\ proc.late # {}
    /\ Goto("settle")
    /\ UNCHANGED <<net, journal>> /\ Quiet

EnterRow ==
    /\ Due
    /\ row[I].state \notin Reversing \cup {"intent"}
    /\ IF row[I].state \in {"pending", "failed"} THEN Goto("look") ELSE Wait
    /\ UNCHANGED <<net, journal>> /\ Quiet

\* An execution that is being undone does not go on.
EnterUndone ==
    /\ Due
    /\ row[I].state \in Reversing
    /\ Stop("failed")
    /\ UNCHANGED <<net, row>> /\ Quiet

\* _unwritten(): the request had its time to arrive and the object is as it
\* was recorded before the write, so the row is planned again.
Unwritten ==
    /\ Op \notin {"adopt", "replace"}   \* the others note when they were sent
    /\ Settles => ~ \E q \in net : q.row = I
    /\ IF row[I].uid = 0
       THEN Op = "create" /\ Current.uid = 0
       ELSE Current.uid = row[I].uid /\ Current.rv = row[I].rv

Replan ==
    /\ Due
    /\ row[I].state = "intent"
    /\ Unwritten
    /\ Goto("look")
    /\ UNCHANGED <<net, journal>> /\ Quiet

\* _check_current(): the object is still the one the plan was made for.
CheckCurrent(o) ==
    IF Op = "create" THEN o.uid = 0
    ELSE /\ o.uid = Baseline(I).uid
         /\ o.content = Baseline(I).content
         /\ Op \notin {"adopt", "replace"} => o.owned

Look ==
    /\ At("look")
    /\ \/ /\ ~CheckCurrent(Current)
          /\ Stop("failed") /\ UNCHANGED row
       \/ /\ CheckCurrent(Current) /\ Op = "noop"
          /\ Applied(Current)
       \/ /\ CheckCurrent(Current) /\ Op # "noop"
          /\ proc' = [proc EXCEPT !.pc = "intend", !.seen = Current]
          /\ UNCHANGED journal
    /\ UNCHANGED net /\ Quiet

\* status_only_change(): only bookkeeping moved the version.
StatusOnly(before, after) ==
    /\ after.uid # 0 /\ after.uid = before.uid
    /\ after.owned = before.owned
    /\ after.content = before.content

\* The server's dry run, which every write but a pruning delete goes through.
DryRun ==
    CASE Op = "delete" -> TRUE
      [] Op = "create" -> Current.uid = 0
      [] Op = "apply"  -> StatusOnly(proc.seen, Current)
      [] OTHER -> Current.uid = proc.seen.uid /\ Current.rv = proc.seen.rv

Verb == CASE Op = "create" -> "create"
          [] Op \in {"delete", "replace"} -> "delete"
          [] OTHER -> "patch"

\* The dry run, then the guard: the last time anyone asks before the write.
Intend ==
    /\ At("intend")
    /\ IF DryRun
       THEN Guard /\ Goto("send") /\ UNCHANGED exec
       ELSE Stop("failed")
    /\ UNCHANGED <<row, net>> /\ Quiet

\* journal.record(intent), then the request.
SendIntent ==
    /\ At("send")
    /\ row' = [row EXCEPT ![I] =
           [Untouched EXCEPT !.state = "intent",
                             !.uid = proc.seen.uid, !.rv = proc.seen.rv,
                             !.phase = IF Op = "replace" THEN "deleting" ELSE "none"]]
    /\ Send(Verb, proc.seen, proc)
    /\ UNCHANGED exec /\ Quiet

\* The first half of a replace was sent: the delete of the observed object.
Deleting == Op = "replace" /\ row[I].uid = proc.seen.uid

\* The answer arrived.  A refusal is definite: nothing was written.
Answered ==
    /\ At("answered")
    /\ \/ /\ proc.ok /\ Deleting
          /\ row' = [row EXCEPT ![I].phase = IF proc.resumed THEN @ ELSE "deleted"]
          /\ Goto("gone") /\ UNCHANGED exec
       \/ /\ proc.ok /\ ~Deleting
          /\ Applied(proc.seen)
       \/ /\ ~proc.ok /\ Op = "apply" /\ proc.tries + 1 < MaxAttempts
          /\ Goto("again") /\ UNCHANGED journal
       \/ /\ ~proc.ok /\ Op = "replace" /\ (~Deleting \/ proc.resumed)
          /\ Blocked
       \/ /\ ~proc.ok
          /\ Op = "apply" => proc.tries + 1 >= MaxAttempts
          /\ Op = "replace" => Deleting /\ ~proc.resumed
          /\ Failed
    /\ UNCHANGED net /\ Quiet

\* Mutant: the patch is sent again whatever changed the object.
AgainBlind ==
    /\ At("again")
    /\ Send("patch", Current, [proc EXCEPT !.tries = @ + 1])
    /\ UNCHANGED journal /\ Quiet

\* update_owned(): the same patch again at the version a status write made.
Again ==
    /\ At("again")
    /\ IF StatusOnly(proc.seen, Current)
       THEN /\ Send("patch", Current, [proc EXCEPT !.tries = @ + 1])
            /\ UNCHANGED journal
       ELSE Failed /\ UNCHANGED net
    /\ Quiet

\* Mutant: the wait for the deleted object does not ask for cancellation.
GoneUnguarded ==
    /\ At("gone")
    /\ \/ /\ Current.uid = 0
          /\ Goto("recreate") /\ UNCHANGED journal
       \/ /\ Current.uid \notin {0, row[I].uid}
          /\ Blocked
    /\ UNCHANGED net /\ Quiet

\* _create_replacement(): wait until the deleted object is gone, then create.
Gone ==
    /\ At("gone") /\ Guard
    /\ \/ /\ Current.uid = 0
          /\ Goto("recreate") /\ UNCHANGED journal
       \/ /\ Current.uid \notin {0, row[I].uid}
          /\ Blocked
    /\ UNCHANGED net /\ Quiet

Recreate ==
    /\ At("recreate")
    /\ Send("create", Absent, [proc EXCEPT !.seen = Absent])
    /\ UNCHANGED journal /\ Quiet

-----------------------------------------------------------------------------
(* Resuming a row whose write may or may not have landed.                  *)

Resume(o) == At("row") /\ Due /\ row[I].state = "intent" /\ Op = o

\* _reconcile() of a delete: gone, or on its way out.
Terminating == Current.uid = Baseline(I).uid /\ Current.dying

ReconcileDelete ==
    /\ Resume("delete")
    /\ IF Current.uid = 0 \/ Terminating
       THEN Applied(Current)
       ELSE Blocked
    /\ UNCHANGED net /\ Quiet

\* What proves that this row's write is what the object holds: the operation
\* id, or for an update of an owned object its content alone.
WrittenByRow ==
    /\ Current.uid # 0
    /\ Current.owned
    /\ Op # "apply" => Current.op
    /\ Op \in {"apply", "adopt"} => Current.uid = Baseline(I).uid
    /\ Current.content = "new"

ReconcileWrite ==
    /\ \E o \in {"create", "apply", "adopt"} : Resume(o)
    /\ IF WrittenByRow THEN Applied(Current) ELSE Blocked
    /\ UNCHANGED net /\ Quiet

\* _resume_replace(): delete again what is certainly untouched, wait for what
\* is going, keep what this row created, and stop at anything else.
ResumeReplace ==
    /\ Resume("replace")
    /\ \/ /\ Current.uid \notin {0, row[I].uid}
          /\ IF WrittenByRow THEN Applied(Current) ELSE Blocked
       \/ /\ Current.uid = 0 \/ (Current.uid = row[I].uid /\ Current.dying)
          /\ Goto("gone") /\ UNCHANGED journal
       \/ /\ Current.uid = row[I].uid /\ ~Current.dying
          /\ row[I].phase = "deleting" /\ Current.rv = row[I].rv
          /\ proc' = [proc EXCEPT !.pc = "redelete", !.seen = Current,
                                  !.resumed = TRUE]
          /\ UNCHANGED journal
       \/ /\ Current.uid = row[I].uid /\ ~Current.dying
          /\ row[I].phase # "deleting" \/ Current.rv # row[I].rv
          /\ Blocked
    /\ UNCHANGED net /\ Quiet

Redelete ==
    /\ At("redelete")
    /\ Send("delete", proc.seen, proc)
    /\ UNCHANGED journal /\ Quiet

-----------------------------------------------------------------------------
(* Readiness.                                                              *)

\* Mutant: any object of that name will do.
VerifyExists(i) == plan[i].op # "delete" => obj[i].uid # 0

\* _verify_receipt(): the object is still the one the row wrote.
VerifyReceipt(i) ==
    IF plan[i].op = "delete"
    THEN obj[i].uid = 0 \/ (obj[i].uid = Baseline(i).uid /\ obj[i].dying)
    ELSE /\ obj[i].uid = row[i].got
         /\ obj[i].content = "new"
         /\ obj[i].owned
         /\ plan[i].op \notin {"noop", "apply"} => obj[i].op

IsReady(i) == IF plan[i].op = "delete" THEN obj[i].uid = 0 ELSE obj[i].ready

\* One poll of _ready() for row i; a row that is not ready is polled again.
Poll(i, next) ==
    /\ Guard
    /\ \/ /\ ~VerifyReceipt(i)
          /\ Stop("failed") /\ UNCHANGED row
       \/ /\ VerifyReceipt(i) /\ IsReady(i)
          /\ row' = [row EXCEPT ![i].state = "ready",
                                ![i].gotRv = IF obj[i].uid = 0 THEN @ ELSE obj[i].rv]
          /\ proc' = next
          /\ UNCHANGED exec
    /\ UNCHANGED net /\ Quiet

Ready == At("ready") /\ Poll(I, [proc EXCEPT !.pc = "row", !.i = I + 1])

\* settle_deferred(): the rows whose readiness was put off.
Settle ==
    /\ At("settle")
    /\ \E i \in proc.late :
           LET rest == proc.late \ {i}
           IN  Poll(i, [proc EXCEPT !.late = rest,
                                    !.pc = IF rest = {} THEN "row" ELSE @])

Finish ==
    /\ At("row") /\ I \notin Rows /\ proc.late = {}
    /\ Stop("ready")
    /\ UNCHANGED <<net, row>> /\ Quiet

-----------------------------------------------------------------------------
(* compensate(): what the journal's receipts name is undone, last row      *)
(* first.  An object that was deleted or replaced stays so, and one that   *)
(* was adopted stays adopted.                                              *)

Undoable == {i \in Rows : /\ plan[i].op \in {"create", "apply"}
                          /\ row[i].state \notin {"pending", "failed", "compensated"}}

\* The object is as its receipt says, to the version.
Undisturbed(i) ==
    /\ VerifyReceipt(i)
    /\ obj[i].owned /\ obj[i].rv = row[i].gotRv

\* An interrupted undo had its effect.
Reversed(i) ==
    \/ plan[i].op = "create" /\ obj[i].uid = 0
    \/ /\ obj[i].owned /\ obj[i].undone /\ obj[i].uid = row[i].got
       /\ obj[i].content = Baseline(i).content

\* One discovery of everything.  Anything that is not as the journal says
\* refuses the whole compensation.  The row that an earlier one stopped at is
\* the last of them, and comes first.
CompensateRows(rows) ==
    /\ At("idle")
    /\ used.runs < MaxRuns
    /\ used' = [used EXCEPT !.runs = @ + 1]
    /\ LET begun == {i \in rows : row[i].state = "compensating"}
       IN  /\ \A i \in begun : Reversed(i)
           /\ \A i \in rows \ begun : Undisturbed(i)
           /\ row' = [i \in Rows |-> IF i \in begun
                                     THEN [row[i] EXCEPT !.state = "compensated"]
                                     ELSE row[i]]
           /\ proc' = [Idle EXCEPT !.pc = "undo", !.late = rows \ begun]
    /\ UNCHANGED <<plan, server, net, exec>>

\* Mutant: a row whose write may be on its way is passed over.
CompensateAround == CompensateRows({i \in Undoable : row[i].state # "intent"})

\* A row whose outcome is unknown refuses it too.
Compensate ==
    /\ \A i \in Rows : row[i].state # "intent"
    /\ CompensateRows(Undoable)

\* journal.record(compensating), then the request at the receipt's version.
Undo ==
    /\ At("undo")
    /\ \E i \in proc.late :
          /\ \A j \in proc.late : j <= i
          /\ row' = [row EXCEPT ![i].state = "compensating"]
          /\ net' = net \cup {[row |-> i, uid |-> row[i].got, rv |-> row[i].gotRv,
                               verb |-> IF plan[i].op = "create" THEN "delete" ELSE "patch",
                               undo |-> TRUE, awaited |-> TRUE]}
          /\ proc' = [proc EXCEPT !.pc = "undoing", !.i = i, !.late = @ \ {i}]
    /\ UNCHANGED exec /\ Quiet

\* A refusal ends the process; the execution keeps its state.
UndoAnswered ==
    /\ At("reversed")
    /\ IF proc.ok
       THEN /\ row' = [row EXCEPT ![I].state = "compensated"]
            /\ Goto("undo")
       ELSE proc' = Idle /\ UNCHANGED row
    /\ UNCHANGED <<net, exec>> /\ Quiet

FinishUndo ==
    /\ At("undo") /\ proc.late = {}
    /\ Stop("compensated")
    /\ UNCHANGED <<net, row>> /\ Quiet

-----------------------------------------------------------------------------
(* Cancellation.                                                           *)

\* Requests that are on their way, or that the process sends without asking
\* again: past its guard, or as a refused patch that it repeats.
UnderWay ==
    {<<q.row, q.verb>> : q \in net}
        \cup (CASE At("send") -> {<<I, Verb>>}
                [] At("recreate") -> {<<I, "create">>}
                [] At("redelete") -> {<<I, "delete">>}
                [] proc.pc \in {"answered", "again"} /\ Op = "apply" ->
                       {<<I, "patch">>}
                [] OTHER -> {})

\* cancel(), from any process, whatever the execution's state.
Cancel ==
    /\ ~exec.cancelled
    /\ exec' = [state |-> "cancelled", cancelled |-> TRUE]
    /\ open' = UnderWay
    /\ UNCHANGED <<plan, obj, net, row, proc, landed, used>>

\* The guard finds the cancellation.
Cancelled ==
    /\ \/ proc.pc \in {"gone", "ready", "settle"}
       \/ At("row") /\ I \in Rows
       \/ At("intend") /\ DryRun
    /\ ~Guard
    /\ Stop("cancelled")
    /\ UNCHANGED <<net, row>> /\ Quiet

-----------------------------------------------------------------------------
(* Faults of the process and of the network.                               *)

Fault ==
    /\ used.faults < MaxFaults
    /\ used' = [used EXCEPT !.faults = @ + 1]
    /\ UNCHANGED <<plan, server>>

Orphaned == {[q EXCEPT !.awaited = FALSE] : q \in net}

\* No answer in time: the request may still arrive.
TimedOut ==
    /\ Fault
    /\ \/ At("await") /\ Blocked
       \/ At("undoing") /\ proc' = Idle /\ UNCHANGED journal
    /\ net' = Orphaned

\* A read failed, the deadline or the authorization ended, or the object did
\* not become ready; after the delete of a replace that is ambiguous.
GaveUp ==
    /\ Fault
    /\ \/ /\ proc.pc \in {"row", "look", "intend", "gone", "ready", "settle"}
          /\ Stop(IF At("gone") THEN "blocked" ELSE "failed")
       \/ At("undo") /\ proc' = Idle /\ UNCHANGED exec
    /\ UNCHANGED <<net, row>>

Killed ==
    /\ Fault
    /\ ~At("idle")
    /\ proc' = Idle
    /\ net' = Orphaned
    /\ UNCHANGED journal

\* An orphaned request is dropped by the network.
Dropped(q) ==
    /\ ~q.awaited
    /\ net' = net \ {q}
    /\ UNCHANGED <<proc, journal>> /\ Quiet

-----------------------------------------------------------------------------
(* The API server (external) and its other clients.                        *)

Accepts(q) ==
    IF q.verb = "create" THEN obj[q.row].uid = 0
    ELSE obj[q.row].uid = q.uid /\ obj[q.row].rv = q.rv

\* The object a request leaves behind.
Written(q) ==
    LET o == obj[q.row] IN
    CASE q.verb = "create" ->
           [uid |-> o.rv + 1, rv |-> o.rv + 1, owned |-> TRUE, op |-> TRUE,
            undone |-> FALSE, content |-> "new", dying |-> FALSE, ready |-> FALSE]
      [] q.verb = "patch" /\ q.undo ->
           [o EXCEPT !.rv = @ + 1, !.content = Baseline(q.row).content,
                     !.op = FALSE, !.undone = TRUE, !.ready = FALSE]
      [] q.verb = "patch" /\ ~q.undo ->
           [o EXCEPT !.rv = @ + 1, !.owned = TRUE, !.content = "new",
                     !.op = @ \/ plan[q.row].op = "adopt", !.ready = FALSE]
      [] OTHER -> [o EXCEPT !.rv = @ + 1, !.dying = TRUE]

\* A request arrives; whoever still waits for it gets the answer.
Arrives(q) ==
    /\ net' = net \ {q}
    /\ IF Accepts(q)
       THEN /\ obj' = [obj EXCEPT ![q.row] = Written(q)]
            /\ landed' = [landed EXCEPT ![q.row] = IF q.undo THEN 0 ELSE @ + 1]
            /\ UNCHANGED open
       ELSE UNCHANGED server
    /\ proc' = IF ~q.awaited THEN proc
               ELSE [proc EXCEPT !.pc = IF q.undo THEN "reversed" ELSE "answered",
                                 !.ok = Accepts(q),
                                 !.seen = IF Accepts(q) /\ ~q.undo /\ q.verb # "delete"
                                          THEN Written(q) ELSE @]
    /\ UNCHANGED <<plan, journal, used>>

\* The garbage collector finishes a delete.
Collected(i) ==
    /\ obj[i].dying
    /\ obj' = [obj EXCEPT ![i] = [Absent EXCEPT !.rv = obj[i].rv]]
    /\ UNCHANGED <<plan, net, journal, proc, landed, open, used>>

\* A controller writes the status: the object becomes ready, or just newer.
StatusWritten(i) ==
    /\ obj[i].uid # 0
    /\ \/ ~obj[i].ready /\ UNCHANGED used
       \/ /\ obj[i].ready /\ used.noise < MaxNoise
          /\ used' = [used EXCEPT !.noise = @ + 1]
    /\ obj' = [obj EXCEPT ![i].ready = TRUE, ![i].rv = @ + 1]
    /\ UNCHANGED <<plan, net, journal, proc, landed, open>>

\* Another writer: changes the object, deletes it, or creates one.
Foreign(i) ==
    /\ used.foreign < MaxForeign
    /\ used' = [used EXCEPT !.foreign = @ + 1]
    /\ \/ /\ obj[i].uid # 0
          /\ \E c \in {"foreign", "new"} :
                 obj' = [obj EXCEPT ![i].content = c, ![i].rv = @ + 1]
          /\ UNCHANGED landed
       \/ /\ obj[i].uid # 0
          /\ obj' = [obj EXCEPT ![i] = [Absent EXCEPT !.rv = obj[i].rv]]
          /\ landed' = [landed EXCEPT ![i] = IF obj[i].op THEN 0 ELSE @]
       \/ /\ obj[i].uid = 0
          /\ obj' = [obj EXCEPT ![i] =
                 [Absent EXCEPT !.uid = obj[i].rv + 1, !.rv = obj[i].rv + 1,
                                !.content = "foreign"]]
          /\ UNCHANGED landed
    /\ UNCHANGED <<plan, net, journal, proc, open>>

Run ==
    \/ SettleFirst \/ EnterRow \/ EnterUndone \/ Replan \/ Look \/ Intend \/ SendIntent
    \/ Answered \/ Again \/ Gone \/ Recreate
    \/ ReconcileDelete \/ ReconcileWrite \/ ResumeReplace \/ Redelete
    \/ Ready \/ Settle \/ Finish \/ Cancelled
    \/ Undo \/ UndoAnswered \/ FinishUndo

Environment ==
    \/ \E q \in net : Arrives(q) \/ Dropped(q)
    \/ \E i \in Rows : Collected(i) \/ StatusWritten(i) \/ Foreign(i)

Next == Begin \/ Compensate \/ Run \/ Cancel \/ TimedOut \/ GaveUp \/ Killed \/ Environment

Spec == Init /\ [][Next]_vars

-----------------------------------------------------------------------------
(* What an execution promises.                                             *)

\* What the journal says of its writes is true, whatever is late or cut short.
\* A row that a later run would plan again from scratch was never written: none
\* of its requests is on its way or has taken effect (_run 1769-1840).  Nothing
\* but its undo can still take effect for a row that is being undone.  And once an
\* execution is compensated, nothing that it created or applied is in effect.
JournalTrue ==
    \A i \in Rows :
        /\ row[i].state \in {"pending", "failed"} =>
              landed[i] = 0 /\ \A q \in net : q.row # i
        /\ row[i].state \in Reversing =>
              \A q \in net : q.row = i /\ Accepts(q) => q.undo
        /\ exec.state = "compensated" /\ plan[i].op \in {"create", "apply"} =>
              landed[i] = 0

\* No request, of a run or of its undoing, ever changes or removes what somebody
\* else wrote after the plan was made: other content than the plan saw or
\* declares is left alone.
Lands(q) == q \notin net' /\ obj'[q.row] # obj[q.row]
ForeignKept ==
    [][\A q \in net :
          Lands(q) => obj[q.row].uid = 0 \/ obj[q.row].content # "foreign"]_vars

\* Deletes keep their place in the plan, over any crash, late request and
\* resumption.  One takes effect only when every row before it is ready, so a
\* pruned object, which is planned behind all that the release needs, keeps
\* serving until its replacement does.  And nothing behind a delete that is not
\* deferred takes effect before its object is gone: an access companion that
\* becomes another kind is planned first, so the two never hold one name.
Before(i, j) == plan[j].op = "delete" \/ (plan[i].op = "delete" /\ ~plan[i].deferred)
DeletesInPlace ==
    [][\A i, j \in Rows :
          i < j /\ landed'[j] > landed[j] /\ Before(i, j) => row[i].state = "ready"]_vars

\* After a cancellation nothing takes effect but what was already on its way
\* or past its last guard: at most the one request the process was about to
\* make, or the patch again that a status write refused.
Effect(i) == IF obj[i].uid = 0 THEN "create"
             ELSE IF obj'[i].dying THEN "delete" ELSE "patch"
CancelStops ==
    [][\A i \in Rows :
          exec.cancelled /\ landed'[i] > landed[i] => <<i, Effect(i)>> \in open]_vars

\* A row is only called ready on the strength of its own write: not because
\* somebody else produced an object of that name.
ReadyIsOurs ==
    [][\A i \in Rows :
          row'[i].state = "ready" /\ row[i].state # "ready"
          /\ plan[i].op \in {"create", "adopt", "replace"}
            => landed[i] > 0 /\ obj[i].op /\ obj[i].content = "new"]_vars
=============================================================================
