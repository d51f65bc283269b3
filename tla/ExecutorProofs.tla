---------------------------- MODULE ExecutorProofs ----------------------------
(***************************************************************************)
(* Theorems about Executor, for any plans, runs, faults and other writers. *)
(***************************************************************************)
EXTENDS Executor, TLAPS

USE DEF Object, Row, Execution, Contents

-----------------------------------------------------------------------------
(* The inductive invariant.                                                *)

\* The labels at which the process works on a row, and those of a run.
Working == {"look", "intend", "send", "await", "answered", "again", "gone",
            "recreate", "redelete", "ready", "undoing", "reversed"}
Going == {"row", "look", "intend", "send", "await", "answered", "again", "gone",
          "recreate", "redelete", "ready", "settle"}
Undoes == {"create", "apply"}   \* what compensate() undoes

\* A process waits for the one request that it sent.
Placed ==
    /\ proc.pc \in Working => I \in Rows
    /\ \A q \in net : q.awaited =>
          I = q.row /\ proc.pc = IF q.undo THEN "undoing" ELSE "await"
    /\ \A q1, q2 \in net : q1.awaited /\ q2.awaited => q1 = q2

Typed == TypeOK /\ Placed

-----------------------------------------------------------------------------
(* Types.                                                                  *)

\* The rows are those of a sequence of actions.
LEMMA PlanFacts ==
    ASSUME plan \in Plans
    PROVE  /\ plan \in Seq(Actions) /\ Rows = 1 .. Len(plan) /\ Len(plan) \in Nat
           /\ Rows \subseteq Nat
           /\ \A i \in Rows : plan[i] \in Actions /\ plan[i].op \in Ops
                              /\ plan[i].deferred \in BOOLEAN
<1>1. plan \in Seq(Actions)
  BY ExecutorAssumption
<1>2. Rows = 1 .. Len(plan) /\ Len(plan) \in Nat
  BY <1>1 DEF Rows
<1>3. \A i \in Rows : plan[i] \in Actions
  BY <1>1, <1>2
<1> QED
  BY <1>1, <1>2, <1>3, ExecutorAssumption DEF Rows, Actions

\* An absent object and an observed one are objects.
LEMMA ObservedType ==
    /\ Absent \in Object /\ Idle \in Process /\ Untouched \in Row
    /\ \A op \in Ops : Observed(op) \in Object
<1>1. Absent \in Object
  BY DEF Absent
<1>2. Idle \in Process
  BY <1>1 DEF Idle, Process, Labels
<1>3. Untouched \in Row
  BY DEF Untouched
<1>4. ASSUME NEW op \in Ops PROVE Observed(op) \in Object
  BY DEF Observed, Absent
<1> QED
  BY <1>1, <1>2, <1>3, <1>4

\* Every variable starts with its type (Executor's Init).
LEMMA InitTyped == Init => Typed
<1> SUFFICES ASSUME Init PROVE Typed
  OBVIOUS
<1>1. plan \in Plans
  BY DEF Init
<1>2. obj \in [Rows -> Object]
  BY <1>1, PlanFacts, ObservedType DEF Init, Baseline
<1>3. row \in [Rows -> Row]
  BY ObservedType DEF Init
<1>4. proc \in Process
  BY ObservedType DEF Init, Idle, Process
<1>5. used \in [runs : 0 .. MaxRuns, foreign : 0 .. MaxForeign,
                noise : 0 .. MaxNoise, faults : 0 .. MaxFaults]
  BY ExecutorAssumption DEF Init
<1>6. net \subseteq Request /\ exec \in Execution /\ landed \in [Rows -> Nat]
        /\ open \subseteq Rows \X Verbs
  BY DEF Init
<1>7. Placed
  BY DEF Init, Idle, Placed, Working
<1> QED
  BY <1>1, <1>2, <1>3, <1>4, <1>5, <1>6, <1>7 DEF Typed, TypeOK

\* What a typed state gives.
LEMMA Fields ==
    ASSUME TypeOK
    PROVE  /\ proc \in Process /\ proc.pc \in Labels /\ proc.i \in Nat
           /\ proc.seen \in Object /\ proc.tries \in Nat /\ proc.resumed \in BOOLEAN
           /\ proc.ok \in BOOLEAN /\ proc.late \in SUBSET Rows
           /\ exec \in Execution /\ plan \in Plans /\ net \subseteq Request
           /\ row \in [Rows -> Row] /\ landed \in [Rows -> Nat]
           /\ obj \in [Rows -> Object] /\ open \subseteq Rows \X Verbs
           /\ \A i \in Rows :
                 /\ obj[i] \in Object /\ row[i] \in Row /\ landed[i] \in Nat
                 /\ Baseline(i) \in Object
           /\ \A q \in net :
                 /\ q.row \in Rows /\ q.verb \in Verbs /\ q.uid \in Nat /\ q.rv \in Nat
                 /\ q.undo \in BOOLEAN /\ q.awaited \in BOOLEAN
  BY PlanFacts, ObservedType DEF TypeOK, Process, Request, Baseline

\* A process that moves on, keeps what it saw or remembers a row is a process.
LEMMA ProcType ==
    ASSUME TypeOK, NEW l \in Labels, NEW n \in Nat, NEW o \in Object,
           NEW t \in Nat, NEW b \in BOOLEAN, NEW s \in SUBSET Rows
    PROVE  /\ [proc EXCEPT !.pc = l] \in Process
           /\ [Idle EXCEPT !.pc = l, !.i = n, !.late = s] \in Process
           /\ [Idle EXCEPT !.pc = l, !.i = n] \in Process
           /\ [Idle EXCEPT !.pc = l, !.late = s] \in Process
           /\ [proc EXCEPT !.pc = l, !.seen = o] \in Process
           /\ [proc EXCEPT !.pc = l, !.seen = o, !.resumed = b] \in Process
           /\ [proc EXCEPT !.pc = l, !.ok = b, !.seen = o] \in Process
           /\ [proc EXCEPT !.pc = l, !.i = n] \in Process
           /\ [proc EXCEPT !.tries = t] \in Process
           /\ [proc EXCEPT !.seen = o] \in Process
           /\ [proc EXCEPT !.late = s, !.pc = l] \in Process
           /\ [proc EXCEPT !.pc = l, !.i = n, !.late = s] \in Process
<1>p. proc \in Process /\ Idle \in Process
  BY Fields, ObservedType
<1>1. /\ [Idle EXCEPT !.pc = l, !.i = n, !.late = s] \in Process
      /\ [Idle EXCEPT !.pc = l, !.i = n] \in Process
      /\ [Idle EXCEPT !.pc = l, !.late = s] \in Process
  BY <1>p DEF Process
<1>2. [proc EXCEPT !.pc = l] \in Process
  BY <1>p DEF Process
<1>3. [proc EXCEPT !.pc = l, !.seen = o] \in Process
  BY <1>p DEF Process
<1>4. [proc EXCEPT !.pc = l, !.seen = o, !.resumed = b] \in Process
  BY <1>p DEF Process
<1>5. [proc EXCEPT !.pc = l, !.ok = b, !.seen = o] \in Process
  BY <1>p DEF Process
<1>6. [proc EXCEPT !.pc = l, !.i = n] \in Process
  BY <1>p DEF Process
<1>7. [proc EXCEPT !.tries = t] \in Process
  BY <1>p DEF Process
<1>8. [proc EXCEPT !.seen = o] \in Process
  BY <1>p DEF Process
<1>9. [proc EXCEPT !.late = s, !.pc = l] \in Process
  BY <1>p DEF Process
<1>10. [proc EXCEPT !.pc = l, !.i = n, !.late = s] \in Process
  BY <1>p DEF Process
<1> QED
  BY <1>1, <1>2, <1>3, <1>4, <1>5, <1>6, <1>7, <1>8, <1>9, <1>10

\* Sending from a typed process.
LEMMA SendType ==
    ASSUME TypeOK, I \in Rows, NEW verb \in Verbs, NEW o \in Object,
           NEW p \in Process, p.i = I, Send(verb, o, p)
    PROVE  proc' \in Process /\ net' \subseteq Request
<1>1. [row |-> I, verb |-> verb, uid |-> o.uid, rv |-> o.rv,
       undo |-> FALSE, awaited |-> TRUE] \in Request
  BY DEF Request
<1>2. [p EXCEPT !.pc = "await", !.i = I] \in Process
  BY Fields DEF Process, Labels
<1> QED
  BY <1>1, <1>2, Fields DEF Send

\* A row that was waited for keeps the process typed.
LEMMA WaitType == ASSUME TypeOK, I \in Rows, Wait PROVE proc' \in Process
<1>1. {"row", "ready"} \subseteq Labels /\ I \in Nat /\ I + 1 \in Nat
        /\ proc.late \cup {I} \in SUBSET Rows /\ proc.late \in SUBSET Rows
  BY Fields DEF Labels, I
<1>2. [Idle EXCEPT !.pc = "row", !.i = I + 1, !.late = proc.late \cup {I}] \in Process
  BY <1>1, ObservedType DEF Process
<1>3. [Idle EXCEPT !.pc = "ready", !.i = I, !.late = proc.late] \in Process
  BY <1>1, ObservedType DEF Process
<1> QED
  BY <1>2, <1>3 DEF Wait

\* What the rows of the journal become is typed.
LEMMA RowType ==
    ASSUME TypeOK, NEW i \in Rows, NEW u \in Nat, NEW v \in Nat
    PROVE  /\ [row EXCEPT ![i].state = "applied", ![i].got = u, ![i].gotRv = v]
                  \in [Rows -> Row]
           /\ [row EXCEPT ![i].state = "failed"] \in [Rows -> Row]
           /\ [row EXCEPT ![i].state = "compensating"] \in [Rows -> Row]
           /\ [row EXCEPT ![i].state = "compensated"] \in [Rows -> Row]
           /\ [row EXCEPT ![i].state = "ready", ![i].gotRv = v] \in [Rows -> Row]
           /\ [row EXCEPT ![i].phase = "deleted"] \in [Rows -> Row]
           /\ \A x \in {"deleting", "none"} :
                 [row EXCEPT ![i] = [Untouched EXCEPT !.state = "intent", !.uid = u,
                                                      !.rv = v, !.phase = x]]
                    \in [Rows -> Row]
<1>1. row \in [Rows -> Row] /\ row[i] \in Row
  BY Fields
<1>2. [row[i] EXCEPT !.state = "applied", !.got = u, !.gotRv = v] \in Row
  BY <1>1
<1>3. \A s \in {"failed", "compensating", "compensated"} : [row[i] EXCEPT !.state = s] \in Row
  BY <1>1
<1>4. [row[i] EXCEPT !.state = "ready", !.gotRv = v] \in Row
  BY <1>1
<1>5. [row[i] EXCEPT !.phase = "deleted"] \in Row
  BY <1>1
<1>6. \A x \in {"deleting", "none"} :
         [Untouched EXCEPT !.state = "intent", !.uid = u, !.rv = v, !.phase = x] \in Row
  BY ObservedType
<1> QED
  BY <1>1, <1>2, <1>3, <1>4, <1>5, <1>6

\* Applied, Failed and Stop keep the journal and the process typed.
LEMMA OutcomeType ==
    ASSUME TypeOK
    PROVE  /\ \A o \in Object : I \in Rows /\ Applied(o) =>
                 row' \in [Rows -> Row] /\ proc' \in Process /\ exec' \in Execution
           /\ I \in Rows /\ Failed =>
                 row' \in [Rows -> Row] /\ proc' \in Process /\ exec' \in Execution
           /\ \A s \in {"ready", "failed", "blocked", "cancelled", "compensated"} :
                 Stop(s) => proc' \in Process /\ exec' \in Execution
<1>1. ASSUME NEW o \in Object, I \in Rows, Applied(o)
      PROVE  row' \in [Rows -> Row] /\ proc' \in Process /\ exec' \in Execution
  BY <1>1, WaitType, RowType, Fields DEF Applied
<1>2. ASSUME NEW s \in {"ready", "failed", "blocked", "cancelled", "compensated"}, Stop(s)
      PROVE  proc' \in Process /\ exec' \in Execution
  BY <1>2, Fields, ObservedType DEF Stop
<1>3. ASSUME I \in Rows, Failed
      PROVE  row' \in [Rows -> Row] /\ proc' \in Process /\ exec' \in Execution
  BY <1>2, <1>3, RowType DEF Failed
<1> QED
  BY <1>1, <1>2, <1>3

\* What the process does keeps the journal, the process and the requests typed.
LEMMA RunType ==
    ASSUME Typed, Run
    PROVE  /\ proc' \in Process /\ row' \in [Rows -> Row]
           /\ exec' \in Execution /\ net' \subseteq Request
<1>t. /\ TypeOK /\ proc \in Process /\ proc.i \in Nat /\ proc.late \in SUBSET Rows
      /\ row \in [Rows -> Row] /\ exec \in Execution /\ net \subseteq Request
      /\ proc.seen \in Object /\ proc.tries \in Nat
      /\ \A i \in Rows : obj[i] \in Object
      /\ Idle \in Process /\ Absent \in Object
  BY Fields, ObservedType DEF Typed
<1>w. proc.pc \in Working => I \in Rows
  BY DEF Typed, Placed
<1>g. ASSUME NEW l \in Labels, Goto(l) PROVE proc' \in Process
  BY <1>g, <1>t DEF Goto, Process
<1>l. Labels = {"idle", "row", "look", "intend", "send", "await", "answered", "again",
                "gone", "recreate", "redelete", "ready", "settle",
                "undo", "undoing", "reversed"}
  BY DEF Labels
<1>s. ASSUME NEW s \in {"ready", "failed", "blocked", "cancelled", "compensated"}, Stop(s)
      PROVE  proc' \in Process /\ exec' \in Execution
  BY <1>s, <1>t, OutcomeType
<1>d. ASSUME Due PROVE I \in Rows
  BY <1>d DEF Due, InPlan
<1>a. ASSUME NEW o \in Object, I \in Rows, Applied(o)
      PROVE  proc' \in Process /\ row' \in [Rows -> Row] /\ exec' \in Execution
  BY <1>a, <1>t, OutcomeType
<1>b. ASSUME Blocked PROVE proc' \in Process /\ row' \in [Rows -> Row] /\ exec' \in Execution
  BY <1>b, <1>s, <1>t DEF Blocked
<1>f. ASSUME I \in Rows, Failed
      PROVE  proc' \in Process /\ row' \in [Rows -> Row] /\ exec' \in Execution
  BY <1>f, <1>t, OutcomeType
<1> USE DEF journal, At
<1>1. CASE SettleFirst \/ Replan \/ EnterRow
  BY <1>1, <1>t, <1>g, <1>l, <1>d, WaitType DEF SettleFirst, Replan, EnterRow
<1>2. CASE EnterUndone \/ Finish \/ Cancelled \/ FinishUndo
  BY <1>2, <1>t, <1>s DEF EnterUndone, Finish, Cancelled, FinishUndo
<1>3. CASE Look
  <2>1. I \in Rows /\ Current \in Object
    BY <1>3, <1>w, <1>t DEF Look, Working, Current
  <2>2. [proc EXCEPT !.pc = "intend", !.seen = Current] \in Process
    BY <1>t, <1>l, <2>1 DEF Process
  <2> QED
    BY <1>3, <1>t, <1>s, <1>a, <2>1, <2>2 DEF Look
<1>4. CASE Intend
  BY <1>4, <1>t, <1>g, <1>s, <1>l DEF Intend
<1>5. CASE SendIntent
  <2>1. I \in Rows /\ proc.i = I /\ Verb \in Verbs /\ proc.seen.uid \in Nat
          /\ proc.seen.rv \in Nat
    BY <1>5, <1>w, <1>t DEF SendIntent, Working, I, Verb, Verbs
  <2>2. row' \in [Rows -> Row]
    BY <1>5, <1>t, <2>1, RowType DEF SendIntent
  <2> QED
    BY <1>5, <1>t, <2>1, <2>2, SendType DEF SendIntent
<1>6. CASE Answered
  <2>1. I \in Rows
    BY <1>6, <1>w DEF Answered, Working
  <2>2. ASSUME row' = [row EXCEPT ![I].phase = IF proc.resumed THEN @ ELSE "deleted"]
        PROVE  row' \in [Rows -> Row]
    <3>1. CASE proc.resumed
      <4>1. row' = row
        BY <1>t, <2>1, <2>2, <3>1
      <4> QED
        BY <1>t, <4>1
    <3>2. CASE ~proc.resumed
      BY <1>t, <2>1, <2>2, <3>2, RowType
    <3> QED
      BY <3>1, <3>2
  <2> QED
    BY <1>6, <1>t, <1>g, <1>a, <1>b, <1>f, <1>l, <2>1, <2>2 DEF Answered
<1>7. CASE Again
  <2>1. I \in Rows /\ Current \in Object /\ "patch" \in Verbs
    BY <1>7, <1>w, <1>t DEF Again, Working, Current, Verbs
  <2>2. [proc EXCEPT !.tries = @ + 1] \in Process /\ [proc EXCEPT !.tries = @ + 1].i = I
    BY <1>t DEF Process, I
  <2> QED
    BY <1>7, <1>t, <1>f, <2>1, <2>2, SendType DEF Again
<1>8. CASE Gone
  BY <1>8, <1>t, <1>g, <1>b, <1>l DEF Gone
<1>9. CASE Recreate
  <2>1. I \in Rows /\ "create" \in Verbs
    BY <1>9, <1>w DEF Recreate, Working, Verbs
  <2>2. [proc EXCEPT !.seen = Absent] \in Process /\ [proc EXCEPT !.seen = Absent].i = I
    BY <1>t DEF Process, I
  <2> QED
    BY <1>9, <1>t, <2>1, <2>2, SendType DEF Recreate
<1>10. CASE ReconcileDelete \/ ReconcileWrite
  <2>1. I \in Rows /\ Current \in Object
    BY <1>10, <1>d, <1>t DEF ReconcileDelete, ReconcileWrite, Resume, Current
  <2> QED
    BY <1>10, <1>t, <1>a, <1>b, <2>1 DEF ReconcileDelete, ReconcileWrite
<1>11. CASE ResumeReplace
  <2>1. I \in Rows /\ Current \in Object
    BY <1>11, <1>d, <1>t DEF ResumeReplace, Resume, Current
  <2>2. [proc EXCEPT !.pc = "redelete", !.seen = Current, !.resumed = TRUE] \in Process
    BY <1>t, <1>l, <2>1 DEF Process
  <2> QED
    BY <1>11, <1>t, <1>a, <1>b, <1>g, <1>l, <2>1, <2>2 DEF ResumeReplace
<1>12. CASE Redelete
  <2>1. I \in Rows /\ "delete" \in Verbs /\ proc.i = I
    BY <1>12, <1>w DEF Redelete, Working, Verbs, I
  <2> QED
    BY <1>12, <1>t, <2>1, SendType DEF Redelete
<1>13. ASSUME NEW i \in Rows, NEW next \in Process, Poll(i, next)
       PROVE  /\ proc' \in Process /\ row' \in [Rows -> Row]
              /\ exec' \in Execution /\ net' \subseteq Request
  <2> DEFINE v == IF obj[i].uid = 0 THEN row[i].gotRv ELSE obj[i].rv
  <2>1. v \in Nat
    BY <1>t
  <2>2. \/ Stop("failed") /\ UNCHANGED row
        \/ /\ row' = [row EXCEPT ![i].state = "ready", ![i].gotRv = v]
           /\ proc' = next /\ UNCHANGED exec
    BY <1>13, <1>t DEF Poll
  <2> HIDE DEF v
  <2>3. [row EXCEPT ![i].state = "ready", ![i].gotRv = v] \in [Rows -> Row]
    BY <1>t, <2>1, RowType
  <2> QED
    BY <1>13, <1>t, <1>s, <2>2, <2>3 DEF Poll
<1>14. CASE Ready
  <2>1. I \in Rows /\ I + 1 \in Nat
    BY <1>14, <1>w, <1>t DEF Ready, Working, I
  <2>2. [proc EXCEPT !.pc = "row", !.i = I + 1] \in Process
    BY <1>t, <1>l, <2>1 DEF Process
  <2> QED
    BY <1>14, <1>13, <2>1, <2>2 DEF Ready
<1>15. CASE Settle
  <2>1. PICK i \in proc.late :
           Poll(i, [proc EXCEPT !.late = proc.late \ {i},
                                !.pc = IF proc.late \ {i} = {} THEN "row" ELSE @])
    BY <1>15 DEF Settle
  <2>2. [proc EXCEPT !.late = proc.late \ {i},
                     !.pc = IF proc.late \ {i} = {} THEN "row" ELSE @] \in Process
    BY <1>t, <1>l DEF Process
  <2> QED
    BY <1>t, <1>13, <2>1, <2>2
<1>16. CASE Undo
  <2>1. PICK i \in proc.late :
          /\ row' = [row EXCEPT ![i].state = "compensating"]
          /\ net' = net \cup {[row |-> i, uid |-> row[i].got, rv |-> row[i].gotRv,
                               verb |-> IF plan[i].op = "create" THEN "delete" ELSE "patch",
                               undo |-> TRUE, awaited |-> TRUE]}
          /\ proc' = [proc EXCEPT !.pc = "undoing", !.i = i, !.late = @ \ {i}]
          /\ exec' = exec
    BY <1>16 DEF Undo
  <2>2. i \in Rows /\ i \in Nat /\ row[i].got \in Nat /\ row[i].gotRv \in Nat
    BY <1>t, PlanFacts, Fields
  <2>3. proc' \in Process
    BY <1>t, <1>l, <2>1, <2>2 DEF Process
  <2>4. [row |-> i, uid |-> row[i].got, rv |-> row[i].gotRv,
         verb |-> IF plan[i].op = "create" THEN "delete" ELSE "patch",
         undo |-> TRUE, awaited |-> TRUE] \in Request
    BY <2>2 DEF Request, Verbs
  <2>5. net' \subseteq Request
    BY <1>t, <2>1, <2>4
  <2>6. row' \in [Rows -> Row]
    BY <1>t, <2>1, <2>2, RowType
  <2> QED
    BY <1>t, <2>1, <2>3, <2>5, <2>6
<1>17. CASE UndoAnswered
  <2>1. I \in Rows
    BY <1>17, <1>w DEF UndoAnswered, Working
  <2>2. [row EXCEPT ![I].state = "compensated"] \in [Rows -> Row]
    BY <1>t, <2>1, RowType, Fields
  <2> QED
    BY <1>17, <1>t, <1>g, <1>l, <2>2 DEF UndoAnswered
<1> QED
  BY <1>1, <1>2, <1>3, <1>4, <1>5, <1>6, <1>7, <1>8, <1>9, <1>10, <1>11, <1>12,
     <1>14, <1>15, <1>16, <1>17 DEF Run

\* A run's own steps leave the cluster, the cancellation and the bounds alone.
LEMMA RunFrame == ASSUME Run PROVE UNCHANGED <<plan, obj, landed, open, used>>
<1> USE DEF Quiet, server
<1>1. CASE SettleFirst \/ EnterRow \/ EnterUndone \/ Replan \/ Look \/ Intend \/ SendIntent
  BY <1>1 DEF SettleFirst, EnterRow, EnterUndone, Replan, Look, Intend, SendIntent
<1>2. CASE Answered \/ Again \/ Gone \/ Recreate \/ Redelete
  BY <1>2 DEF Answered, Again, Gone, Recreate, Redelete
<1>3. CASE ReconcileDelete \/ ReconcileWrite \/ ResumeReplace
  BY <1>3 DEF ReconcileDelete, ReconcileWrite, ResumeReplace
<1>4. CASE Ready \/ Settle \/ Finish \/ Cancelled
  BY <1>4 DEF Ready, Settle, Finish, Cancelled, Poll
<1>5. CASE Undo \/ UndoAnswered \/ FinishUndo
  BY <1>5 DEF Undo, UndoAnswered, FinishUndo
<1> QED
  BY <1>1, <1>2, <1>3, <1>4, <1>5 DEF Run

\* What a request writes is an object.
LEMMA WrittenType ==
    ASSUME TypeOK, NEW q \in net PROVE Written(q) \in Object
<1>1. /\ obj[q.row] \in Object /\ Baseline(q.row) \in Object
      /\ plan[q.row].op \in Ops
  BY Fields, PlanFacts DEF TypeOK
<1>2. obj[q.row].rv + 1 \in Nat /\ obj[q.row].op \in BOOLEAN
  BY <1>1
<1> DEFINE o == obj[q.row]
           b == o.op \/ plan[q.row].op = "adopt"
<1>3. b \in BOOLEAN
  OBVIOUS
<1> HIDE DEF b
<1>4. /\ [uid |-> o.rv + 1, rv |-> o.rv + 1, owned |-> TRUE, op |-> TRUE,
          undone |-> FALSE, content |-> "new", dying |-> FALSE, ready |-> FALSE] \in Object
      /\ [o EXCEPT !.rv = @ + 1, !.dying = TRUE] \in Object
  BY <1>1, <1>2
<1>5. [o EXCEPT !.rv = @ + 1, !.content = Baseline(q.row).content,
                !.op = FALSE, !.undone = TRUE, !.ready = FALSE] \in Object
  BY <1>1, <1>2
<1>6. [o EXCEPT !.rv = @ + 1, !.owned = TRUE, !.content = "new",
                !.op = b, !.ready = FALSE] \in Object
  BY <1>1, <1>2, <1>3
<1> QED
  BY <1>4, <1>5, <1>6 DEF Written, b

\* Requests that nobody waits for any more.
LEMMA OrphanedType == ASSUME net \subseteq Request PROVE Orphaned \subseteq Request
  BY DEF Orphaned, Request

\* Every step keeps every variable's type.
LEMMA TypeStep == Typed /\ [Next]_vars => TypeOK'
<1> SUFFICES ASSUME Typed, [Next]_vars PROVE TypeOK'
  OBVIOUS
<1>t. /\ TypeOK /\ proc \in Process /\ row \in [Rows -> Row] /\ exec \in Execution
      /\ net \subseteq Request /\ plan \in Plans /\ Rows \subseteq Nat
      /\ landed \in [Rows -> Nat] /\ obj \in [Rows -> Object]
      /\ open \subseteq Rows \X Verbs /\ Idle \in Process
      /\ \A i \in Rows : obj[i] \in Object
      /\ used \in [runs : 0 .. MaxRuns, foreign : 0 .. MaxForeign,
                   noise : 0 .. MaxNoise, faults : 0 .. MaxFaults]
  BY Fields, PlanFacts, ObservedType DEF Typed, TypeOK
<1> DEFINE Rest == /\ plan' = plan /\ proc' \in Process /\ row' \in [Rows -> Row]
                   /\ exec' \in Execution /\ net' \subseteq Request
           Cluster == /\ landed' \in [Rows -> Nat] /\ obj' \in [Rows -> Object]
                      /\ open' \subseteq Rows \X Verbs
           Bounds == used' \in [runs : 0 .. MaxRuns, foreign : 0 .. MaxForeign,
                                noise : 0 .. MaxNoise, faults : 0 .. MaxFaults]
<1>z. ASSUME Rest, Cluster, Bounds PROVE TypeOK'
  BY <1>z, <1>t DEF TypeOK, Rows, Request, Process
<1>u. /\ used.runs < MaxRuns /\ used' = [used EXCEPT !.runs = @ + 1] => Bounds
      /\ used.faults < MaxFaults /\ used' = [used EXCEPT !.faults = @ + 1] => Bounds
      /\ used.noise < MaxNoise /\ used' = [used EXCEPT !.noise = @ + 1] => Bounds
      /\ used.foreign < MaxForeign /\ used' = [used EXCEPT !.foreign = @ + 1] => Bounds
      /\ used' = used => Bounds
  <2>1. /\ used.runs \in 0 .. MaxRuns /\ used.faults \in 0 .. MaxFaults
        /\ used.noise \in 0 .. MaxNoise /\ used.foreign \in 0 .. MaxForeign
        /\ MaxRuns \in Nat /\ MaxFaults \in Nat /\ MaxNoise \in Nat /\ MaxForeign \in Nat
    BY <1>t, ExecutorAssumption
  <2>2. /\ used.runs < MaxRuns => used.runs + 1 \in 0 .. MaxRuns
        /\ used.faults < MaxFaults => used.faults + 1 \in 0 .. MaxFaults
        /\ used.noise < MaxNoise => used.noise + 1 \in 0 .. MaxNoise
        /\ used.foreign < MaxForeign => used.foreign + 1 \in 0 .. MaxForeign
    BY <2>1
  <2> QED
    BY <1>t, <2>2
<1> HIDE DEF Bounds
<1>1. CASE UNCHANGED vars
  BY <1>1, <1>t, <1>u, <1>z DEF vars
<1>2. CASE Run
  <2>1. Rest
    BY <1>2, RunType, RunFrame
  <2> QED
    BY <1>2, <1>t, <1>u, <1>z, <2>1, RunFrame
<1>3. CASE Begin
  <2>1. proc' \in Process
    BY <1>3, <1>t DEF Begin, Process, Labels
  <2>2. exec' \in Execution
    BY <1>3 DEF Begin
  <2> QED
    BY <1>3, <1>t, <1>u, <1>z, <2>1, <2>2 DEF Begin
<1>4. CASE Compensate
  <2> DEFINE begun == {i \in Undoable : row[i].state = "compensating"}
  <2>1. /\ proc' = [Idle EXCEPT !.pc = "undo", !.late = Undoable \ begun]
        /\ row' = [i \in Rows |-> IF i \in begun
                                  THEN [row[i] EXCEPT !.state = "compensated"]
                                  ELSE row[i]]
        /\ UNCHANGED <<plan, obj, landed, open, net, exec>> /\ Bounds
    BY <1>4, <1>u DEF Compensate, CompensateRows, server
  <2>2. Undoable \ begun \in SUBSET Rows
    BY DEF Undoable
  <2>3. proc' \in Process
    BY <1>t, <2>1, <2>2 DEF Process, Labels
  <2>4. \A i \in Rows : row[i] \in Row /\ [row[i] EXCEPT !.state = "compensated"] \in Row
    BY <1>t
  <2>5. row' \in [Rows -> Row]
    BY <2>1, <2>4
  <2> QED
    BY <1>t, <1>z, <2>1, <2>3, <2>5
<1>5. CASE Cancel
  <2>1. exec' \in Execution
    BY <1>5 DEF Cancel
  <2>2. \A q \in net : <<q.row, q.verb>> \in Rows \X Verbs
    BY <1>t, Fields
  <2>3. Verb \in Verbs /\ {"create", "patch", "delete"} = Verbs
    BY DEF Verb, Verbs
  <2>4. proc.pc \in Working => I \in Rows
    BY DEF Typed, Placed
  <2>5. UnderWay \subseteq Rows \X Verbs
    <3>1. {<<q.row, q.verb>> : q \in net} \subseteq Rows \X Verbs
      BY <2>2
    <3>2. (CASE At("send") -> {<<I, Verb>>}
             [] At("recreate") -> {<<I, "create">>}
             [] At("redelete") -> {<<I, "delete">>}
             [] proc.pc \in {"answered", "again"} /\ Op = "apply" -> {<<I, "patch">>}
             [] OTHER -> {}) \subseteq Rows \X Verbs
      BY <2>3, <2>4 DEF At, Working
    <3> QED
      BY <3>1, <3>2 DEF UnderWay
  <2> QED
    BY <1>5, <1>t, <1>u, <1>z, <2>1, <2>5 DEF Cancel
<1>6. CASE TimedOut \/ GaveUp \/ Killed
  <2>1. proc' = Idle /\ row' = row /\ UNCHANGED <<plan, obj, landed, open>> /\ Bounds
    BY <1>6, <1>u DEF TimedOut, GaveUp, Killed, Fault, Blocked, Stop, journal, server
  <2>2. net' \subseteq Request
    BY <1>6, <1>t, OrphanedType DEF TimedOut, GaveUp, Killed
  <2>3. exec' \in Execution
    BY <1>6, <1>t DEF TimedOut, GaveUp, Killed, Blocked, Stop, journal
  <2> QED
    BY <1>t, <1>z, <2>1, <2>2, <2>3
<1>7. ASSUME NEW q \in net, Arrives(q) PROVE TypeOK'
  <2>0. q.row \in Rows /\ landed[q.row] \in Nat
    BY <1>t, Fields
  <2>1. Written(q) \in Object /\ q.row \in Rows /\ landed[q.row] + 1 \in Nat
    BY <1>t, <2>0, WrittenType
  <2>2. obj' \in [Rows -> Object]
    BY <1>7, <1>t, <2>1 DEF Arrives, server
  <2>3. landed' \in [Rows -> Nat]
    BY <1>7, <1>t, <2>1 DEF Arrives, server
  <2>4. Accepts(q) \in BOOLEAN
    BY DEF Accepts
  <2>5. proc' \in Process
    <3> DEFINE l == IF q.undo THEN "reversed" ELSE "answered"
               o == IF Accepts(q) /\ ~q.undo /\ q.verb # "delete" THEN Written(q)
                    ELSE proc.seen
    <3>1. l \in Labels /\ o \in Object
      BY <1>t, <2>1, Fields DEF Labels
    <3>2. proc' = proc \/ proc' = [proc EXCEPT !.pc = l, !.ok = Accepts(q), !.seen = o]
      BY <1>7, <1>t DEF Arrives, Process
    <3> HIDE DEF l, o
    <3> QED
      BY <1>t, <2>4, <3>1, <3>2 DEF Process
  <2> QED
    BY <1>7, <1>t, <1>u, <1>z, <2>2, <2>3, <2>5 DEF Arrives, server, journal
<1>8. ASSUME NEW q \in net, Dropped(q) PROVE TypeOK'
  BY <1>8, <1>t, <1>u, <1>z DEF Dropped, Quiet, server, journal
<1>9. ASSUME NEW i \in Rows, Collected(i) \/ StatusWritten(i) \/ Foreign(i) PROVE TypeOK'
  <2>1. obj[i] \in Object /\ obj[i].rv \in Nat /\ obj[i].rv + 1 \in Nat /\ Absent \in Object
    BY <1>t, ObservedType
  <2>2. /\ [Absent EXCEPT !.rv = obj[i].rv] \in Object
        /\ [obj[i] EXCEPT !.ready = TRUE, !.rv = @ + 1] \in Object
        /\ \A c \in Contents : [obj[i] EXCEPT !.content = c, !.rv = @ + 1] \in Object
        /\ [Absent EXCEPT !.uid = obj[i].rv + 1, !.rv = obj[i].rv + 1,
                          !.content = "foreign"] \in Object
    BY <2>1
  <2>3. obj' \in [Rows -> Object]
    <3>1. CASE Collected(i)
      BY <3>1, <1>t, <2>2 DEF Collected
    <3>2. CASE StatusWritten(i)
      BY <3>2, <1>t, <2>2 DEF StatusWritten
    <3>3. CASE Foreign(i)
      <4>1. ASSUME NEW c \in {"foreign", "new"}
            PROVE  [obj EXCEPT ![i].content = c, ![i].rv = @ + 1] \in [Rows -> Object]
        <5>1. [obj[i] EXCEPT !.content = c, !.rv = @ + 1] \in Object /\ c \in Contents
          BY <2>2
        <5>2. [obj EXCEPT ![i] = [obj[i] EXCEPT !.content = c, !.rv = @ + 1]]
                 \in [Rows -> Object]
          BY <1>t, <5>1
        <5>3. [obj EXCEPT ![i].content = c, ![i].rv = @ + 1]
                 = [obj EXCEPT ![i] = [obj[i] EXCEPT !.content = c, !.rv = @ + 1]]
          BY <1>t
        <5> QED
          BY <5>2, <5>3
      <4>2. [obj EXCEPT ![i] = [Absent EXCEPT !.rv = obj[i].rv]] \in [Rows -> Object]
        BY <1>t, <2>2
      <4>3. [obj EXCEPT ![i] = [Absent EXCEPT !.uid = obj[i].rv + 1, !.rv = obj[i].rv + 1,
                                              !.content = "foreign"]] \in [Rows -> Object]
        BY <1>t, <2>2
      <4> QED
        <5> DEFINE A == \E c \in {"foreign", "new"} :
                           obj' = [obj EXCEPT ![i].content = c, ![i].rv = @ + 1]
                   B == obj' = [obj EXCEPT ![i] = [Absent EXCEPT !.rv = obj[i].rv]]
                   C == obj' = [obj EXCEPT ![i] =
                                   [Absent EXCEPT !.uid = obj[i].rv + 1, !.rv = obj[i].rv + 1,
                                                  !.content = "foreign"]]
        <5>1. ASSUME A PROVE obj' \in [Rows -> Object]
          <6>1. PICK c \in {"foreign", "new"} :
                   obj' = [obj EXCEPT ![i].content = c, ![i].rv = @ + 1]
            BY <5>1
          <6>2. [obj EXCEPT ![i].content = c, ![i].rv = @ + 1] \in [Rows -> Object]
            BY <4>1
          <6> QED
            BY <6>1, <6>2, Zenon
        <5>2. B => obj' \in [Rows -> Object]
          BY <4>2
        <5>3. C => obj' \in [Rows -> Object]
          BY <4>3
        <5>4. A \/ B \/ C
          BY <3>3, Zenon DEF Foreign
        <5> HIDE DEF A, B, C
        <5> QED
          BY <5>1, <5>2, <5>3, <5>4, Zenon
    <3> QED
      BY <1>9, <3>1, <3>2, <3>3
  <2>4. landed' \in [Rows -> Nat]
    BY <1>9, <1>t DEF Collected, StatusWritten, Foreign
  <2>5. Bounds
    BY <1>9, <1>u DEF Collected, StatusWritten, Foreign
  <2> QED
    BY <1>9, <1>t, <1>z, <2>3, <2>4, <2>5 DEF Collected, StatusWritten, Foreign, journal
<1> QED
  BY <1>1, <1>2, <1>3, <1>4, <1>5, <1>6, <1>7, <1>8, <1>9 DEF Next, Environment

-----------------------------------------------------------------------------
(* The steps of the process, field by field: what the invariant's parts    *)
(* need to know of them.                                                   *)

Kept == row' = row /\ net' = net /\ exec' = exec
Still == proc'.i = proc.i /\ proc'.late = proc.late
Same == Still /\ proc'.seen = proc.seen /\ proc'.ok = proc.ok
              /\ proc'.resumed = proc.resumed

\* The row of the journal that a step writes; the others stay.
Writes(i, s) ==
    /\ i \in Rows /\ row'[i].state = s
    /\ row'[i].uid = row[i].uid /\ row'[i].rv = row[i].rv
    /\ \A j \in Rows \ {i} : row'[j] = row[j]

\* The process waits for no answer.
Silent == proc.pc \notin {"await", "undoing"}

\* The process ends, and the row keeps its state.
Halts ==
    /\ proc' = Idle /\ row' = row
    /\ net' = Orphaned \/ (net' = net /\ Silent)
    /\ exec'.cancelled = exec.cancelled
    /\ exec' = exec \/ exec'.state # "compensated"

\* The row failed for good: a refusal.
Refused ==
    /\ \/ At("answered") /\ ~proc.ok /\ (Op = "replace" => Deleting /\ ~proc.resumed)
       \/ At("again")
    /\ Writes(I, "failed")
    /\ proc' = Idle /\ net' = net
    /\ exec'.cancelled = exec.cancelled /\ exec'.state # "compensated"

\* The process goes on, and only its label changes.
Turns ==
    /\ Kept /\ Same
    /\ \/ At("row") /\ proc'.pc = "settle"
       \/ /\ At("row") /\ Due /\ proc'.pc = "look" /\ I \in Rows
          /\ \/ row[I].state \in {"pending", "failed"}
             \/ row[I].state = "intent" /\ Unwritten
       \/ At("intend") /\ proc'.pc = "send" /\ Guard
       \/ At("answered") /\ proc'.pc = "again" /\ ~proc.ok /\ Op = "apply"
       \/ At("gone") /\ proc'.pc = "recreate" /\ Guard /\ Current.uid = 0
       \/ /\ At("row") /\ Due /\ proc'.pc = "gone" /\ I \in Rows
          /\ row[I].state = "intent" /\ Op = "replace"

\* It takes what it sees as the object to write to.
Observes ==
    /\ Kept /\ Still /\ proc'.seen = Current
    /\ \/ At("look") /\ proc'.pc = "intend" /\ Op # "noop" /\ CheckCurrent(Current)
       \/ /\ At("row") /\ Due /\ proc'.pc = "redelete" /\ proc'.resumed
          /\ I \in Rows /\ row[I].state = "intent" /\ Op = "replace"
          /\ Current.uid = row[I].uid /\ Current.rv = row[I].rv /\ Guard

\* A row whose effect is known is waited for, now or with the deferred ones.
Waited ==
    \/ /\ plan[I].deferred /\ proc'.pc = "row" /\ proc'.i = I + 1
       /\ proc'.late = proc.late \cup {I}
    \/ /\ ~plan[I].deferred /\ proc'.pc = "ready" /\ proc'.i = I
       /\ proc'.late = proc.late

Passes ==
    /\ At("row") /\ Due /\ I \in Rows /\ row[I].state \in {"applied", "ready"}
    /\ Kept /\ Waited

Records(o) ==
    /\ o \in Object
    /\ \/ At("look") /\ Op = "noop" /\ o = Current
       \/ At("answered") /\ proc.ok /\ ~Deleting /\ o = proc.seen
       \/ /\ At("row") /\ Due /\ row[I].state = "intent" /\ o = Current
          /\ \/ Op = "delete" /\ (o.uid = 0 \/ Terminating)
             \/ Op \in {"create", "apply", "adopt", "replace"} /\ WrittenByRow
    /\ Writes(I, "applied")
    /\ row'[I].got = o.uid /\ row'[I].gotRv = o.rv
    /\ net' = net /\ exec' = exec
    /\ Waited

\* The answer to the first half of a replace.
Deleted ==
    /\ At("answered") /\ proc.ok /\ Deleting
    /\ Writes(I, row[I].state)
    /\ Op = "replace"
    /\ net' = net /\ exec' = exec
    /\ Same /\ proc'.pc = "gone"

\* A request leaves; it is for the row the process is at.
Sends(verb, o) ==
    /\ I \in Rows
    /\ net' = net \cup {[row |-> I, verb |-> verb, uid |-> o.uid, rv |-> o.rv,
                         undo |-> FALSE, awaited |-> TRUE]}
    /\ Still /\ proc'.pc = "await" /\ exec' = exec /\ proc'.resumed = proc.resumed

Intends ==
    /\ At("send") /\ Sends(Verb, proc.seen) /\ proc'.seen = proc.seen
    /\ row'[I].state = "intent"
    /\ row'[I].uid = proc.seen.uid /\ row'[I].rv = proc.seen.rv
    /\ \A j \in Rows \ {I} : row'[j] = row[j]

Resends ==
    /\ row' = row
    /\ \/ /\ At("again") /\ Sends("patch", Current) /\ proc'.seen = proc.seen
          /\ StatusOnly(proc.seen, Current)
       \/ At("recreate") /\ Sends("create", Absent) /\ proc'.seen = Absent
       \/ At("redelete") /\ Sends("delete", proc.seen) /\ proc'.seen = proc.seen

\* One poll found the row ready.
Readies(i) ==
    /\ \/ /\ At("ready") /\ i = I /\ proc'.pc = "row" /\ proc'.i = I + 1
          /\ proc'.late = proc.late
       \/ /\ At("settle") /\ i \in proc.late /\ proc'.i = I
          /\ proc'.late = proc.late \ {i}
          /\ proc'.pc = IF proc'.late = {} THEN "row" ELSE "settle"
    /\ VerifyReceipt(i) /\ IsReady(i) /\ Guard
    /\ Writes(i, "ready") /\ row'[i].got = row[i].got
    /\ row'[i].gotRv = IF obj[i].uid = 0 THEN row[i].gotRv ELSE obj[i].rv
    /\ net' = net /\ exec' = exec

\* The steps of an undoing.
Undoing(i) ==
    /\ At("undo") /\ i \in proc.late
    /\ Writes(i, "compensating")
    /\ row'[i].got = row[i].got /\ row'[i].gotRv = row[i].gotRv
    /\ net' = net \cup {[row |-> i, uid |-> row[i].got, rv |-> row[i].gotRv,
                         verb |-> IF plan[i].op = "create" THEN "delete" ELSE "patch",
                         undo |-> TRUE, awaited |-> TRUE]}
    /\ proc'.pc = "undoing" /\ proc'.i = i /\ proc'.late = proc.late \ {i}
    /\ exec' = exec

Undone ==
    /\ At("reversed") /\ proc.ok
    /\ Writes(I, "compensated")
    /\ Same /\ proc'.pc = "undo" /\ net' = net /\ exec' = exec

UndoEnds ==
    /\ At("undo") /\ proc.late = {}
    /\ proc' = Idle /\ row' = row /\ net' = net
    /\ exec'.state = "compensated" /\ exec'.cancelled = exec.cancelled

Steps ==
    \/ Halts \/ Refused \/ Turns \/ Observes \/ Passes
    \/ \E o \in Object : Records(o)
    \/ Deleted \/ Intends \/ Resends
    \/ \E i \in Rows : Readies(i) \/ Undoing(i)
    \/ Undone \/ UndoEnds

\* The process starts from rest.
Begins ==
    /\ At("idle") /\ proc'.pc = "row" /\ proc'.i = 1 /\ proc'.late = {}
    /\ row' = row /\ net' = net
    /\ exec' = [state |-> "pending", cancelled |-> FALSE]

\* A compensation starts: rows whose undoing had its effect are closed.
Starts ==
    /\ At("idle") /\ proc'.pc = "undo" /\ proc'.i = 0
    /\ proc'.late = {i \in Undoable : row[i].state # "compensating"}
    /\ \A i \in Rows : row[i].state # "intent"
    /\ \A i \in proc'.late : Undisturbed(i)
    /\ \A i \in Rows :
          IF i \in Undoable /\ row[i].state = "compensating"
          THEN row'[i].state = "compensated" /\ Reversed(i)
          ELSE row'[i] = row[i]
    /\ net' = net /\ exec' = exec

\* Wait is Waited.
LEMMA WaitFields == ASSUME TypeOK, I \in Rows, Wait PROVE Waited
<1>1. CASE plan[I].deferred
  <2>1. proc' = [Idle EXCEPT !.pc = "row", !.i = I + 1, !.late = proc.late \cup {I}]
    BY <1>1 DEF Wait
  <2> QED
    BY <1>1, <2>1 DEF Waited, Idle
<1>2. CASE ~plan[I].deferred
  <2>1. proc' = [Idle EXCEPT !.pc = "ready", !.i = I, !.late = proc.late]
    BY <1>2 DEF Wait
  <2> QED
    BY <1>2, <2>1 DEF Waited, Idle
<1> QED
  BY <1>1, <1>2

\* Applied records what is known of the row.
LEMMA AppliedFields ==
    ASSUME TypeOK, I \in Rows, NEW o \in Object, Applied(o)
    PROVE  /\ Writes(I, "applied") /\ row'[I].got = o.uid /\ row'[I].gotRv = o.rv
           /\ exec' = exec /\ Waited
<1>1. row \in [Rows -> Row] /\ row[I] \in Row
  BY Fields
<1>2. row' = [row EXCEPT ![I].state = "applied", ![I].got = o.uid, ![I].gotRv = o.rv]
  BY DEF Applied
<1>3. Writes(I, "applied") /\ row'[I].got = o.uid /\ row'[I].gotRv = o.rv
  BY <1>1, <1>2 DEF Writes
<1> QED
  BY <1>3, WaitFields DEF Applied

\* Stop and Blocked end the process.
LEMMA StopFields ==
    ASSUME TypeOK, net' = Orphaned \/ (net' = net /\ Silent)
    PROVE  /\ \A s \in {"ready", "failed", "blocked", "cancelled"} :
                 Stop(s) /\ row' = row => Halts
           /\ Blocked => Halts
           /\ proc' = Idle /\ row' = row /\ exec' = exec => Halts
<1>1. exec \in Execution
  BY Fields
<1>2. ASSUME NEW s \in {"ready", "failed", "blocked", "cancelled"}, Stop(s), row' = row
      PROVE  Halts
  BY <1>1, <1>2 DEF Stop, Halts
<1> QED
  BY <1>2 DEF Halts, Blocked

LEMMA FailedFields ==
    ASSUME TypeOK, I \in Rows, Failed
    PROVE  /\ Writes(I, "failed") /\ proc' = Idle
           /\ exec'.cancelled = exec.cancelled /\ exec'.state # "compensated"
<1>1. row \in [Rows -> Row] /\ row[I] \in Row /\ exec \in Execution
  BY Fields
<1>2. row' = [row EXCEPT ![I].state = "failed"] /\ Stop("failed")
  BY DEF Failed
<1>3. Writes(I, "failed")
  BY <1>1, <1>2 DEF Writes
<1> QED
  BY <1>1, <1>2, <1>3 DEF Stop

\* Goto changes the label and nothing else.
LEMMA GotoFields == ASSUME TypeOK, NEW l, Goto(l) PROVE Same /\ proc'.pc = l
  BY Fields DEF Goto, Process, Same, Still

\* A request for row I.
LEMMA SendFields ==
    ASSUME TypeOK, I \in Rows, NEW verb, NEW o, NEW p \in Process,
           Send(verb, o, p), p.late = proc.late, p.resumed = proc.resumed, exec' = exec
    PROVE  Sends(verb, o) /\ proc'.seen = p.seen
  BY Fields DEF Send, Sends, Process, Still, I

\* A poll finds a row ready, or ends the process.
LEMMA PollFields ==
    ASSUME TypeOK, NEW i \in Rows, NEW next, Poll(i, next), Silent
    PROVE  \/ Halts
           \/ /\ VerifyReceipt(i) /\ IsReady(i) /\ Guard
              /\ Writes(i, "ready") /\ row'[i].got = row[i].got
              /\ row'[i].gotRv = IF obj[i].uid = 0 THEN row[i].gotRv ELSE obj[i].rv
              /\ net' = net /\ exec' = exec /\ proc' = next
<1>1. row \in [Rows -> Row] /\ row[i] \in Row /\ net' = net /\ Guard
  BY Fields DEF Poll
<1>2. CASE Stop("failed") /\ row' = row
  BY <1>1, <1>2, StopFields
<1>3. CASE /\ VerifyReceipt(i) /\ IsReady(i)
           /\ row' = [row EXCEPT ![i].state = "ready",
                                 ![i].gotRv = IF obj[i].uid = 0 THEN @ ELSE obj[i].rv]
           /\ proc' = next /\ exec' = exec
  <2> DEFINE v == IF obj[i].uid = 0 THEN row[i].gotRv ELSE obj[i].rv
  <2>1. row' = [row EXCEPT ![i].state = "ready", ![i].gotRv = v]
    BY <1>1, <1>3
  <2> HIDE DEF v
  <2>2. Writes(i, "ready") /\ row'[i].got = row[i].got /\ row'[i].gotRv = v
    BY <1>1, <2>1 DEF Writes
  <2> QED
    BY <1>1, <1>3, <2>2 DEF v
<1> QED
  BY <1>2, <1>3 DEF Poll
\* Every step of the process is one of these.
LEMMA RunSteps == ASSUME Typed, Run PROVE Steps
<1>t. /\ TypeOK /\ proc \in Process /\ proc.i \in Nat /\ proc.late \in SUBSET Rows
      /\ row \in [Rows -> Row] /\ exec \in Execution
      /\ proc.seen \in Object /\ proc.tries \in Nat
      /\ \A i \in Rows : obj[i] \in Object
      /\ Idle \in Process /\ Absent \in Object
  BY Fields, ObservedType DEF Typed
<1>w. proc.pc \in Working => I \in Rows
  BY DEF Typed, Placed
<1>q. ASSUME NEW l \in Labels \ {"await", "undoing"}, At(l) PROVE Silent
  BY <1>q DEF At, Silent
<1>l. Labels = {"idle", "row", "look", "intend", "send", "await", "answered", "again",
                "gone", "recreate", "redelete", "ready", "settle",
                "undo", "undoing", "reversed"}
  BY DEF Labels
<1>d. ASSUME Due PROVE I \in Rows /\ At("row") /\ Guard
  BY <1>d DEF Due, InPlan
<1>g. ASSUME NEW l, Goto(l) PROVE Same /\ proc'.pc = l
  BY <1>g, <1>t, GotoFields
<1>s. ASSUME net' = net, Silent, NEW s \in {"ready", "failed", "blocked", "cancelled"}, Stop(s),
             row' = row
      PROVE  Halts
  BY <1>s, <1>t, StopFields
<1>b. ASSUME net' = net, Silent, Blocked PROVE Halts
  BY <1>b, <1>t, StopFields
<1>1. CASE SettleFirst
  <2>1. Kept /\ Goto("settle") /\ At("row")
    BY <1>1 DEF SettleFirst, Kept, journal, InPlan
  <2> QED
    BY <1>g, <2>1 DEF Steps, Turns
<1>2. CASE EnterRow \/ Replan
  <2>1. Kept /\ Due /\ I \in Rows /\ At("row")
    BY <1>2, <1>d DEF EnterRow, Replan, Kept, journal
  <2>2. CASE Goto("look") /\ row[I].state \in {"pending", "failed"}
    BY <1>g, <2>1, <2>2 DEF Steps, Turns
  <2>3. CASE Goto("look") /\ row[I].state = "intent" /\ Unwritten
    BY <1>g, <2>1, <2>3 DEF Steps, Turns
  <2>4. CASE Wait /\ row[I].state \in {"applied", "ready"}
    <3>1. Waited
      BY <1>t, <2>1, <2>4, WaitFields
    <3> QED
      BY <2>1, <2>4, <3>1 DEF Steps, Passes
  <2>5. \/ Goto("look") /\ row[I].state \in {"pending", "failed"}
        \/ Goto("look") /\ row[I].state = "intent" /\ Unwritten
        \/ Wait /\ row[I].state \in {"applied", "ready"}
    <3>1. row[I].state \in {"pending", "failed", "intent", "applied", "ready",
                            "compensating", "compensated"}
      BY <1>t, <2>1
    <3> QED
      BY <1>2, <3>1 DEF EnterRow, Replan, Reversing
  <2> QED
    BY <2>2, <2>3, <2>4, <2>5
<1>3. CASE EnterUndone \/ Finish \/ Cancelled
  <2>1. Silent
    BY <1>3, <1>q, <1>l DEF EnterUndone, Finish, Cancelled, Due, InPlan, At, Silent
  <2> QED
    BY <1>3, <1>s, <2>1 DEF EnterUndone, Finish, Cancelled, Steps
<1>4. CASE Look
  <2>0. I \in Rows /\ At("look") /\ net' = net /\ Current \in Object
    BY <1>4, <1>w, <1>t DEF Look, At, Working, Current
  <2>1. CASE Stop("failed") /\ row' = row
    BY <1>s, <1>q, <1>l, <2>0, <2>1 DEF Steps
  <2>2. CASE Op = "noop" /\ Applied(Current)
    <3>1. Records(Current)
      BY <1>t, <2>0, <2>2, AppliedFields DEF Records
    <3> QED
      BY <2>0, <3>1 DEF Steps
  <2>3. CASE /\ CheckCurrent(Current) /\ Op # "noop"
             /\ proc' = [proc EXCEPT !.pc = "intend", !.seen = Current]
             /\ UNCHANGED journal
    <3>1. Kept /\ Still /\ proc'.seen = Current /\ proc'.pc = "intend"
      BY <1>t, <2>0, <2>3 DEF Kept, journal, Still, Process
    <3> QED
      BY <2>0, <2>3, <3>1 DEF Steps, Observes
  <2> QED
    BY <1>4, <2>1, <2>2, <2>3 DEF Look
<1>5. CASE Intend
  <2>1. CASE Stop("failed")
    BY <1>5, <1>s, <1>q, <1>l, <2>1 DEF Intend, Steps
  <2>2. CASE Guard /\ Goto("send") /\ UNCHANGED exec
    <3>1. Kept /\ At("intend")
      BY <1>5, <2>2 DEF Intend, Kept
    <3> QED
      BY <1>g, <2>2, <3>1 DEF Steps, Turns
  <2> QED
    BY <1>5, <2>1, <2>2 DEF Intend
<1>6. CASE SendIntent
  <2>0. I \in Rows /\ At("send") /\ exec' = exec /\ Send(Verb, proc.seen, proc)
    BY <1>6, <1>w DEF SendIntent, At, Working
  <2>1. Sends(Verb, proc.seen) /\ proc'.seen = proc.seen
    BY <1>t, <2>0, SendFields
  <2>2. /\ row'[I].state = "intent"
        /\ row'[I].uid = proc.seen.uid /\ row'[I].rv = proc.seen.rv
        /\ \A j \in Rows \ {I} : row'[j] = row[j]
    BY <1>6, <1>t, <2>0 DEF SendIntent, Untouched
  <2> QED
    BY <2>0, <2>1, <2>2 DEF Steps, Intends
<1>7. CASE Answered
  <2>0. I \in Rows /\ At("answered") /\ net' = net
    BY <1>7, <1>w DEF Answered, At, Working
  <2>1. CASE /\ proc.ok /\ Deleting
             /\ row' = [row EXCEPT ![I].phase = IF proc.resumed THEN @ ELSE "deleted"]
             /\ Goto("gone") /\ UNCHANGED exec
    <3>1. Writes(I, row[I].state)
      BY <1>t, <2>0, <2>1 DEF Writes
    <3> QED
      BY <1>g, <2>0, <2>1, <3>1 DEF Steps, Deleted, Deleting
  <2>2. CASE proc.ok /\ ~Deleting /\ Applied(proc.seen)
    <3>1. Records(proc.seen)
      BY <1>t, <2>0, <2>2, AppliedFields DEF Records
    <3> QED
      BY <1>t, <3>1 DEF Steps
  <2>3. CASE ~proc.ok /\ Op = "apply" /\ Goto("again") /\ UNCHANGED journal
    BY <1>g, <2>0, <2>3 DEF Steps, Turns, Kept, journal
  <2>4. CASE Blocked
    BY <1>b, <1>q, <1>l, <2>0, <2>4 DEF Steps
  <2>5. CASE ~proc.ok /\ (Op = "replace" => Deleting /\ ~proc.resumed) /\ Failed
    BY <1>t, <2>0, <2>5, FailedFields DEF Steps, Refused
  <2> QED
    BY <1>7, <2>1, <2>2, <2>3, <2>4, <2>5 DEF Answered
<1>8. CASE Again
  <2>0. I \in Rows /\ At("again") /\ Current \in Object
    BY <1>8, <1>t, <1>w DEF Again, At, Working, Current
  <2>1. CASE /\ StatusOnly(proc.seen, Current)
             /\ Send("patch", Current, [proc EXCEPT !.tries = @ + 1])
             /\ UNCHANGED journal
    <3> DEFINE p == [proc EXCEPT !.tries = @ + 1]
    <3>1. /\ p \in Process /\ p.late = proc.late /\ p.seen = proc.seen
          /\ p.resumed = proc.resumed
      BY <1>t DEF Process
    <3>3. Send("patch", Current, p) /\ row' = row /\ exec' = exec
      BY <2>1 DEF journal
    <3> HIDE DEF p
    <3>2. Sends("patch", Current) /\ proc'.seen = proc.seen /\ row' = row
      BY <1>t, <2>0, <3>1, <3>3, SendFields
    <3> QED
      BY <2>0, <2>1, <3>2 DEF Steps, Resends
  <2>2. CASE Failed /\ net' = net
    BY <1>t, <2>0, <2>2, FailedFields DEF Steps, Refused
  <2> QED
    BY <1>8, <2>1, <2>2 DEF Again
<1>9. CASE Gone
  <2>1. CASE Current.uid = 0 /\ Goto("recreate") /\ UNCHANGED journal
    BY <1>9, <1>g, <2>1 DEF Gone, Steps, Turns, Kept, journal
  <2>2. CASE Blocked
    BY <1>9, <1>b, <1>q, <1>l, <2>2 DEF Gone, Steps
  <2> QED
    BY <1>9, <2>1, <2>2 DEF Gone
<1>10. CASE Recreate
  <2>0. I \in Rows /\ At("recreate") /\ row' = row /\ exec' = exec
    BY <1>10, <1>w DEF Recreate, At, Working, journal
  <2> DEFINE p == [proc EXCEPT !.seen = Absent]
  <2>1. /\ p \in Process /\ p.late = proc.late /\ p.seen = Absent
        /\ p.resumed = proc.resumed
    BY <1>t DEF Process
  <2>3. Send("create", Absent, p)
    BY <1>10 DEF Recreate
  <2> HIDE DEF p
  <2>2. Sends("create", Absent) /\ proc'.seen = Absent
    BY <1>t, <2>0, <2>1, <2>3, SendFields
  <2> QED
    BY <2>0, <2>2 DEF Steps, Resends
<1>11. CASE ReconcileDelete \/ ReconcileWrite
  <2>0. /\ I \in Rows /\ At("row") /\ Due /\ row[I].state = "intent" /\ net' = net
        /\ Current \in Object
    BY <1>11, <1>t, <1>d DEF ReconcileDelete, ReconcileWrite, Resume, Current
  <2>1. CASE Blocked
    BY <1>b, <1>q, <1>l, <2>0, <2>1 DEF Steps
  <2>2. ASSUME Applied(Current),
               \/ Op = "delete" /\ (Current.uid = 0 \/ Terminating)
               \/ Op \in {"create", "apply", "adopt"} /\ WrittenByRow
        PROVE  Steps
    <3>1. Records(Current)
      BY <1>t, <2>0, <2>2, AppliedFields DEF Records
    <3> QED
      BY <2>0, <3>1 DEF Steps
  <2> QED
    BY <1>11, <2>1, <2>2 DEF ReconcileDelete, ReconcileWrite, Resume
<1>12. CASE ResumeReplace
  <2>0. /\ I \in Rows /\ At("row") /\ Due /\ row[I].state = "intent" /\ net' = net
        /\ Current \in Object /\ Op = "replace" /\ Guard
    BY <1>12, <1>t, <1>d DEF ResumeReplace, Resume, Current
  <2>1. CASE Blocked
    BY <1>b, <1>q, <1>l, <2>0, <2>1 DEF Steps
  <2>2. CASE WrittenByRow /\ Applied(Current)
    <3>1. Records(Current)
      BY <1>t, <2>0, <2>2, AppliedFields DEF Records
    <3> QED
      BY <2>0, <3>1 DEF Steps
  <2>3. CASE Goto("gone") /\ UNCHANGED journal
    BY <1>g, <2>0, <2>3 DEF Steps, Turns, Kept, journal
  <2>4. CASE /\ Current.uid = row[I].uid /\ Current.rv = row[I].rv
             /\ proc' = [proc EXCEPT !.pc = "redelete", !.seen = Current, !.resumed = TRUE]
             /\ UNCHANGED journal
    <3>1. /\ Kept /\ Still /\ proc'.seen = Current /\ proc'.pc = "redelete"
          /\ proc'.resumed
      BY <1>t, <2>0, <2>4 DEF Kept, journal, Still, Process
    <3> QED
      BY <2>0, <2>4, <3>1 DEF Steps, Observes
  <2> QED
    BY <1>12, <2>1, <2>2, <2>3, <2>4 DEF ResumeReplace
<1>13. CASE Redelete
  <2>0. I \in Rows /\ At("redelete") /\ row' = row /\ exec' = exec
    BY <1>13, <1>w DEF Redelete, At, Working, journal
  <2>1. Sends("delete", proc.seen) /\ proc'.seen = proc.seen
    BY <1>13, <1>t, <2>0, SendFields DEF Redelete
  <2> QED
    BY <2>0, <2>1 DEF Steps, Resends
<1>14. CASE Ready
  <2>0. I \in Rows /\ At("ready") /\ Poll(I, [proc EXCEPT !.pc = "row", !.i = I + 1])
    BY <1>14, <1>w DEF Ready, At, Working
  <2> DEFINE p == [proc EXCEPT !.pc = "row", !.i = I + 1]
  <2>1. p.pc = "row" /\ p.i = I + 1 /\ p.late = proc.late
    BY <1>t DEF Process
  <2> HIDE DEF p
  <2>2. Halts \/ Readies(I)
    BY <1>t, <1>q, <1>l, <2>0, <2>1, PollFields DEF Readies, p
  <2> QED
    BY <2>0, <2>2 DEF Steps
<1>15. CASE Settle
  <2>1. PICK i \in proc.late :
           Poll(i, [proc EXCEPT !.late = proc.late \ {i},
                                !.pc = IF proc.late \ {i} = {} THEN "row" ELSE @])
    BY <1>15 DEF Settle
  <2> DEFINE p == [proc EXCEPT !.late = proc.late \ {i},
                               !.pc = IF proc.late \ {i} = {} THEN "row" ELSE @]
  <2>2. /\ p.late = proc.late \ {i} /\ p.i = I /\ i \in Rows /\ At("settle")
        /\ p.pc = IF proc.late \ {i} = {} THEN "row" ELSE "settle"
    BY <1>15, <1>t DEF Process, I, Settle, At
  <2>3. Poll(i, p)
    BY <2>1
  <2> HIDE DEF p
  <2>4. Halts \/ Readies(i)
    BY <1>t, <1>q, <1>l, <2>2, <2>3, PollFields DEF Readies
  <2> QED
    BY <2>2, <2>4 DEF Steps
<1>16. CASE Undo
  <2>1. PICK i \in proc.late :
          /\ row' = [row EXCEPT ![i].state = "compensating"]
          /\ net' = net \cup {[row |-> i, uid |-> row[i].got, rv |-> row[i].gotRv,
                               verb |-> IF plan[i].op = "create" THEN "delete" ELSE "patch",
                               undo |-> TRUE, awaited |-> TRUE]}
          /\ proc' = [proc EXCEPT !.pc = "undoing", !.i = i, !.late = @ \ {i}]
          /\ exec' = exec /\ At("undo")
    BY <1>16 DEF Undo
  <2>2. i \in Rows /\ row[i] \in Row
    BY <1>t
  <2>3. /\ Writes(i, "compensating")
        /\ row'[i].got = row[i].got /\ row'[i].gotRv = row[i].gotRv
    BY <1>t, <2>1, <2>2 DEF Writes
  <2>4. proc'.pc = "undoing" /\ proc'.i = i /\ proc'.late = proc.late \ {i}
    BY <1>t, <2>1 DEF Process
  <2>5. Undoing(i)
    BY <2>1, <2>3, <2>4 DEF Undoing
  <2> QED
    BY <2>2, <2>5 DEF Steps
<1>17. CASE UndoAnswered
  <2>0. I \in Rows /\ At("reversed") /\ net' = net /\ exec' = exec
    BY <1>17, <1>w DEF UndoAnswered, At, Working
  <2>1. CASE proc.ok /\ row' = [row EXCEPT ![I].state = "compensated"] /\ Goto("undo")
    <3>1. Writes(I, "compensated")
      BY <1>t, <2>0, <2>1 DEF Writes
    <3> QED
      BY <1>g, <2>0, <2>1, <3>1 DEF Steps, Undone
  <2>2. CASE proc' = Idle /\ row' = row
    BY <2>0, <2>2 DEF Steps, Halts, Silent, At
  <2> QED
    BY <1>17, <2>1, <2>2 DEF UndoAnswered
<1>18. CASE FinishUndo
  <2>1. /\ At("undo") /\ proc.late = {} /\ proc' = Idle /\ row' = row /\ net' = net
        /\ exec' = [exec EXCEPT !.state = "compensated"]
    BY <1>18 DEF FinishUndo, Stop
  <2>2. exec'.state = "compensated" /\ exec'.cancelled = exec.cancelled
    BY <1>t, <2>1
  <2> QED
    BY <2>1, <2>2 DEF Steps, UndoEnds
<1> QED
  BY <1>1, <1>2, <1>3, <1>4, <1>5, <1>6, <1>7, <1>8, <1>9, <1>10, <1>11, <1>12,
     <1>13, <1>14, <1>15, <1>16, <1>17, <1>18 DEF Run
-----------------------------------------------------------------------------
(* The steps of everybody else, field by field.                            *)

Cancels ==
    /\ exec'.state = "cancelled" /\ exec'.cancelled /\ open' = UnderWay
    /\ UNCHANGED <<plan, obj, net, row, proc, landed>>

\* The object that a request leaves, field by field.
Wrote(q) ==
    LET o == obj[q.row]
        n == obj'[q.row]
    IN  /\ n.rv = o.rv + 1
        /\ q.verb = "create" => /\ n.uid = o.rv + 1 /\ n.owned /\ n.op /\ ~n.undone
                                /\ n.content = "new" /\ ~n.dying
        /\ q.verb # "create" => n.uid = o.uid
        /\ q.verb = "patch" /\ q.undo => /\ n.content = Baseline(q.row).content /\ ~n.op
                                         /\ n.undone /\ n.dying = o.dying
        /\ q.verb = "patch" /\ ~q.undo => /\ n.content = "new" /\ n.owned
                                          /\ n.op = (o.op \/ plan[q.row].op = "adopt")
                                          /\ n.undone = o.undone /\ n.dying = o.dying
        /\ q.verb = "delete" => /\ n.dying /\ n.op = o.op /\ n.undone = o.undone
                                /\ n.content = o.content

Arrival(q) ==
    /\ net' = net \ {q}
    /\ UNCHANGED <<plan, row, exec, open>>
    /\ \A j \in Rows \ {q.row} : obj'[j] = obj[j] /\ landed'[j] = landed[j]
    /\ IF Accepts(q)
       THEN Wrote(q) /\ landed'[q.row] = IF q.undo THEN 0 ELSE landed[q.row] + 1
       ELSE obj' = obj /\ landed' = landed
    /\ ~q.awaited => proc' = proc
    /\ q.awaited => /\ Still /\ proc'.resumed = proc.resumed
                    /\ proc'.pc = IF q.undo THEN "reversed" ELSE "answered"
                    /\ proc'.ok = Accepts(q)
                    /\ proc'.seen = IF Accepts(q) /\ ~q.undo /\ q.verb # "delete"
                                    THEN obj'[q.row] ELSE proc.seen

Drops(q) ==
    /\ ~q.awaited /\ net' = net \ {q}
    /\ UNCHANGED <<plan, obj, landed, open, row, exec, proc>>

\* What controllers and other writers do to an object.
Outside(i) ==
    /\ UNCHANGED <<plan, net, row, exec, proc, open>>
    /\ \A j \in Rows \ {i} : obj'[j] = obj[j] /\ landed'[j] = landed[j]
    /\ \/ /\ obj'[i].uid = 0 /\ obj'[i].rv = obj[i].rv
          /\ ~obj'[i].op /\ ~obj'[i].undone /\ ~obj'[i].dying
          /\ \/ obj[i].dying /\ landed'[i] = landed[i]
             \/ landed'[i] = IF obj[i].op THEN 0 ELSE landed[i]
       \/ /\ obj[i].uid # 0 /\ obj'[i].uid = obj[i].uid /\ obj'[i].rv = obj[i].rv + 1
          /\ obj'[i].op = obj[i].op /\ obj'[i].undone = obj[i].undone
          /\ obj'[i].dying = obj[i].dying
          /\ landed'[i] = landed[i]
       \/ /\ obj[i].uid = 0
          /\ obj'[i].uid = obj[i].rv + 1 /\ obj'[i].rv = obj[i].rv + 1
          /\ ~obj'[i].op /\ ~obj'[i].undone /\ ~obj'[i].dying
          /\ landed'[i] = landed[i]

\* Compensate, flat.
LEMMA CompensateFields ==
    ASSUME Typed, Compensate
    PROVE  Starts /\ UNCHANGED <<plan, obj, landed, open>>
<1> DEFINE begun == {i \in Undoable : row[i].state = "compensating"}
<1>t. Idle \in Process /\ row \in [Rows -> Row] /\ Undoable \subseteq Rows
  BY Fields, ObservedType DEF Typed, Undoable
<1>1. /\ At("idle") /\ proc' = [Idle EXCEPT !.pc = "undo", !.late = Undoable \ begun]
      /\ \A i \in begun : Reversed(i)
      /\ \A i \in Undoable \ begun : Undisturbed(i)
      /\ row' = [i \in Rows |-> IF i \in begun
                                THEN [row[i] EXCEPT !.state = "compensated"]
                                ELSE row[i]]
      /\ UNCHANGED <<plan, obj, landed, open, net, exec>>
      /\ \A i \in Rows : row[i].state # "intent"
  BY DEF Compensate, CompensateRows, server
<1>2. proc'.pc = "undo" /\ proc'.i = 0 /\ proc'.late = Undoable \ begun
  BY <1>t, <1>1 DEF Idle
<1>3. \A i \in Rows :
          IF i \in Undoable /\ row[i].state = "compensating"
          THEN row'[i].state = "compensated" /\ Reversed(i)
          ELSE row'[i] = row[i]
  <2> TAKE i \in Rows
  <2>1. CASE i \in begun
    <3>1. row'[i] = [row[i] EXCEPT !.state = "compensated"] /\ row[i] \in Row
      BY <1>t, <1>1, <2>1
    <3>2. row'[i].state = "compensated"
      BY <3>1
    <3> QED
      BY <1>1, <2>1, <3>2
  <2>2. CASE i \notin begun
    BY <1>1, <2>2
  <2> QED
    BY <2>1, <2>2
<1>4. Undoable \ begun = {i \in Undoable : row[i].state # "compensating"}
  OBVIOUS
<1> QED
  BY <1>1, <1>2, <1>3, <1>4 DEF Starts

\* What a request leaves behind, flat.
LEMMA ArrivalFields ==
    ASSUME Typed, NEW q \in net, Arrives(q) PROVE Arrival(q)
<1>t. /\ proc \in Process /\ obj \in [Rows -> Object] /\ landed \in [Rows -> Nat]
      /\ q.row \in Rows /\ q.verb \in Verbs /\ q.undo \in BOOLEAN /\ q.awaited \in BOOLEAN
      /\ obj[q.row] \in Object /\ Written(q) \in Object
      /\ Baseline(q.row) \in Object
  BY Fields, WrittenType DEF Typed
<1> DEFINE o == obj[q.row]
           n == Written(q)
<1>1. q.verb = "create" => /\ n.rv = o.rv + 1 /\ n.uid = o.rv + 1 /\ n.owned /\ n.op
                           /\ ~n.undone /\ n.content = "new" /\ ~n.dying
  BY <1>t DEF Written
<1>2. q.verb = "patch" /\ q.undo =>
        /\ n.rv = o.rv + 1 /\ n.uid = o.uid /\ n.content = Baseline(q.row).content /\ ~n.op
        /\ n.undone /\ n.dying = o.dying
  <2>1. ASSUME q.verb = "patch" /\ q.undo
        PROVE  n = [o EXCEPT !.rv = @ + 1, !.content = Baseline(q.row).content,
                             !.op = FALSE, !.undone = TRUE, !.ready = FALSE]
    BY <2>1 DEF Written
  <2> QED
    BY <1>t, <2>1
<1>3. q.verb = "patch" /\ ~q.undo =>
        /\ n.rv = o.rv + 1 /\ n.uid = o.uid /\ n.content = "new" /\ n.owned
        /\ n.op = (o.op \/ plan[q.row].op = "adopt")
        /\ n.undone = o.undone /\ n.dying = o.dying
  <2> DEFINE b == o.op \/ plan[q.row].op = "adopt"
  <2>1. ASSUME q.verb = "patch" /\ ~q.undo
        PROVE  n = [o EXCEPT !.rv = @ + 1, !.owned = TRUE, !.content = "new",
                             !.op = b, !.ready = FALSE]
    BY <2>1 DEF Written
  <2> HIDE DEF b
  <2>2. q.verb = "patch" /\ ~q.undo =>
          /\ n.rv = o.rv + 1 /\ n.uid = o.uid /\ n.content = "new" /\ n.owned /\ n.op = b
          /\ n.undone = o.undone /\ n.dying = o.dying
    BY <1>t, <2>1
  <2> QED
    BY <2>2 DEF b
<1>4. q.verb = "delete" => /\ n.rv = o.rv + 1 /\ n.uid = o.uid /\ n.dying /\ n.op = o.op
                           /\ n.undone = o.undone /\ n.content = o.content
  <2>1. ASSUME q.verb = "delete" PROVE n = [o EXCEPT !.rv = @ + 1, !.dying = TRUE]
    BY <2>1 DEF Written
  <2> QED
    BY <1>t, <2>1
<1>5. /\ UNCHANGED <<plan, row, exec, open>> /\ net' = net \ {q}
      /\ Accepts(q) => obj' = [obj EXCEPT ![q.row] = n]
      /\ Accepts(q) => landed' = [landed EXCEPT ![q.row] = IF q.undo THEN 0 ELSE @ + 1]
      /\ ~Accepts(q) => obj' = obj /\ landed' = landed
  BY DEF Arrives, server, journal
<1> HIDE DEF n
<1>6. /\ \A j \in Rows \ {q.row} : obj'[j] = obj[j] /\ landed'[j] = landed[j]
      /\ Accepts(q) => obj'[q.row] = n
      /\ Accepts(q) => landed'[q.row] = IF q.undo THEN 0 ELSE landed[q.row] + 1
  BY <1>t, <1>5
<1>7. Accepts(q) => Wrote(q)
  <2>1. q.verb \in {"create", "patch", "delete"}
    BY <1>t DEF Verbs
  <2> QED
    BY <1>t, <1>1, <1>2, <1>3, <1>4, <1>6, <2>1 DEF Wrote
<1>8. /\ ~q.awaited => proc' = proc
      /\ q.awaited => /\ Still /\ proc'.resumed = proc.resumed
                      /\ proc'.pc = IF q.undo THEN "reversed" ELSE "answered"
                      /\ proc'.ok = Accepts(q)
                      /\ proc'.seen = IF Accepts(q) /\ ~q.undo /\ q.verb # "delete"
                                      THEN n ELSE proc.seen
  <2> DEFINE x == IF Accepts(q) /\ ~q.undo /\ q.verb # "delete" THEN n ELSE proc.seen
             a == Accepts(q)
             l == IF q.undo THEN "reversed" ELSE "answered"
  <2>1. /\ ~q.awaited => proc' = proc
        /\ q.awaited => proc' = [proc EXCEPT !.pc = l, !.ok = a, !.seen = x]
    BY <1>t DEF Arrives, Process, n
  <2> HIDE DEF x, a, l
  <2>2. q.awaited => /\ Still /\ proc'.resumed = proc.resumed
                     /\ proc'.pc = l /\ proc'.ok = a /\ proc'.seen = x
    BY <1>t, <2>1 DEF Process, Still
  <2> QED
    BY <2>1, <2>2 DEF x, a, l
<1> QED
  BY <1>5, <1>6, <1>7, <1>8 DEF Arrival

\* The other writers, flat.
LEMMA OutsideFields ==
    ASSUME Typed, NEW i \in Rows, Collected(i) \/ StatusWritten(i) \/ Foreign(i)
    PROVE  Outside(i)
<1>t. obj \in [Rows -> Object] /\ landed \in [Rows -> Nat] /\ obj[i] \in Object
        /\ Absent \in Object
  BY Fields, ObservedType DEF Typed
<1>0. UNCHANGED <<plan, net, row, exec, proc, open>>
  BY DEF Collected, StatusWritten, Foreign, journal
<1>1. ASSUME obj' = [obj EXCEPT ![i] = [Absent EXCEPT !.rv = obj[i].rv]]
      PROVE  /\ obj'[i].uid = 0 /\ obj'[i].rv = obj[i].rv
             /\ ~obj'[i].op /\ ~obj'[i].undone /\ ~obj'[i].dying
             /\ \A j \in Rows \ {i} : obj'[j] = obj[j]
  <2>1. obj'[i] = [Absent EXCEPT !.rv = obj[i].rv] /\ \A j \in Rows \ {i} : obj'[j] = obj[j]
    BY <1>t, <1>1
  <2> QED
    BY <2>1 DEF Absent
<1>2. CASE Collected(i)
  BY <1>t, <1>0, <1>1, <1>2 DEF Collected, Outside
<1>3. CASE StatusWritten(i)
  <2>1. obj' = [obj EXCEPT ![i].ready = TRUE, ![i].rv = @ + 1] /\ landed' = landed
          /\ obj[i].uid # 0
    BY <1>3 DEF StatusWritten
  <2>2. /\ obj'[i].uid = obj[i].uid /\ obj'[i].rv = obj[i].rv + 1
        /\ obj'[i].op = obj[i].op /\ obj'[i].undone = obj[i].undone
        /\ obj'[i].dying = obj[i].dying
        /\ \A j \in Rows \ {i} : obj'[j] = obj[j]
    BY <1>t, <2>1
  <2> QED
    BY <1>0, <2>1, <2>2 DEF Outside
<1>4. CASE Foreign(i)
  <2> DEFINE A == /\ obj[i].uid # 0
                  /\ \E c \in {"foreign", "new"} :
                        obj' = [obj EXCEPT ![i].content = c, ![i].rv = @ + 1]
                  /\ landed' = landed
             B == /\ obj' = [obj EXCEPT ![i] = [Absent EXCEPT !.rv = obj[i].rv]]
                  /\ landed' = [landed EXCEPT ![i] = IF obj[i].op THEN 0 ELSE @]
             C == /\ obj[i].uid = 0
                  /\ obj' = [obj EXCEPT ![i] =
                                [Absent EXCEPT !.uid = obj[i].rv + 1, !.rv = obj[i].rv + 1,
                                               !.content = "foreign"]]
                  /\ landed' = landed
  <2>1. ASSUME A PROVE Outside(i)
    <3>1. PICK c \in {"foreign", "new"} :
             obj' = [obj EXCEPT ![i].content = c, ![i].rv = @ + 1]
      BY <2>1
    <3>2. /\ obj'[i].uid = obj[i].uid /\ obj'[i].rv = obj[i].rv + 1
          /\ obj'[i].op = obj[i].op /\ obj'[i].undone = obj[i].undone
          /\ obj'[i].dying = obj[i].dying
          /\ \A j \in Rows \ {i} : obj'[j] = obj[j]
      BY <1>t, <3>1
    <3> QED
      BY <1>0, <2>1, <3>2 DEF Outside
  <2>2. ASSUME B PROVE Outside(i)
    <3>1. landed'[i] = (IF obj[i].op THEN 0 ELSE landed[i])
            /\ \A j \in Rows \ {i} : landed'[j] = landed[j]
      BY <1>t, <2>2
    <3> QED
      BY <1>0, <1>1, <2>2, <3>1 DEF Outside
  <2>3. ASSUME C PROVE Outside(i)
    <3>1. /\ obj'[i] = [Absent EXCEPT !.uid = obj[i].rv + 1, !.rv = obj[i].rv + 1,
                                      !.content = "foreign"]
          /\ \A j \in Rows \ {i} : obj'[j] = obj[j]
      BY <1>t, <2>3
    <3>2. /\ obj'[i].uid = obj[i].rv + 1 /\ obj'[i].rv = obj[i].rv + 1
          /\ ~obj'[i].op /\ ~obj'[i].undone /\ ~obj'[i].dying
      BY <3>1 DEF Absent
    <3> QED
      BY <1>0, <2>3, <3>1, <3>2 DEF Outside
  <2>4. A \/ B \/ C
    BY <1>4, Zenon DEF Foreign
  <2> HIDE DEF A, B, C
  <2> QED
    BY <2>1, <2>2, <2>3, <2>4, Zenon
<1> QED
  BY <1>2, <1>3, <1>4

\* Every step is one of these.
LEMMA NextSteps ==
    ASSUME Typed, [Next]_vars
    PROVE  \/ UNCHANGED vars
           \/ (Steps \/ Starts) /\ UNCHANGED <<plan, obj, landed, open>>
           \/ Begins /\ UNCHANGED <<plan, obj, landed>> /\ open' = {}
           \/ Cancels
           \/ \E q \in net : Arrival(q) \/ Drops(q)
           \/ \E i \in Rows : Outside(i)
<1>t. TypeOK
  BY DEF Typed
<1>1. CASE Run
  BY <1>1, RunSteps, RunFrame
<1>2. CASE Compensate
  BY <1>2, CompensateFields
<1>3. CASE Begin
  <2>1. /\ proc' = [Idle EXCEPT !.pc = "row", !.i = 1] /\ At("idle") /\ open' = {}
        /\ exec' = [state |-> "pending", cancelled |-> FALSE]
        /\ UNCHANGED <<plan, obj, net, row, landed>>
    BY <1>3 DEF Begin
  <2>2. proc'.pc = "row" /\ proc'.i = 1 /\ proc'.late = {}
    BY <2>1, ObservedType DEF Idle
  <2> QED
    BY <2>1, <2>2 DEF Begins
<1>4. CASE Cancel
  BY <1>4 DEF Cancel, Cancels
<1>5. CASE TimedOut \/ GaveUp \/ Killed
  <2>1. UNCHANGED <<plan, obj, landed, open>> /\ (net' = Orphaned \/ (net' = net /\ Silent))
    BY <1>5 DEF TimedOut, GaveUp, Killed, Fault, server, Silent, At
  <2>2. \/ Blocked
        \/ proc' = Idle /\ row' = row /\ exec' = exec
        \/ (Stop("blocked") \/ Stop("failed")) /\ row' = row
    BY <1>5 DEF TimedOut, GaveUp, Killed, journal
  <2>3. Halts
    BY <1>t, <2>1, <2>2, StopFields
  <2> QED
    BY <2>1, <2>3 DEF Steps
<1>6. ASSUME NEW q \in net, Arrives(q) PROVE Arrival(q)
  BY <1>6, ArrivalFields
<1>7. ASSUME NEW q \in net, Dropped(q) PROVE Drops(q)
  BY <1>7 DEF Dropped, Drops, Quiet, server, journal
<1>8. ASSUME NEW i \in Rows, Collected(i) \/ StatusWritten(i) \/ Foreign(i) PROVE Outside(i)
  BY <1>8, OutsideFields
<1> QED
  BY <1>1, <1>2, <1>3, <1>4, <1>5, <1>6, <1>7, <1>8 DEF Next, Environment
-----------------------------------------------------------------------------
(* Type correctness.                                                       *)

\* A process waits for its own request alone, and every step keeps it so.
LEMMA PlacedStep == ASSUME Typed, [Next]_vars PROVE Placed'
<1>t. /\ Placed /\ proc \in Process /\ proc.late \subseteq Rows /\ Idle \in Process
      /\ Idle.pc = "idle" /\ net \subseteq Request
  BY Fields, ObservedType DEF Typed, Idle
<1>o. \A q \in Orphaned : ~q.awaited
  BY <1>t DEF Orphaned, Request
<1> USE DEF Placed, I, At
<1>1. CASE UNCHANGED vars
  <2>1. plan' = plan /\ proc' = proc /\ net' = net
    BY <1>1 DEF vars
  <2> QED
    BY <1>t, <2>1 DEF Rows
<1>2. ASSUME Steps, UNCHANGED <<plan, obj, landed, open>> PROVE Placed'
  <2>r. Rows' = Rows
    BY <1>2 DEF Rows
  <2>1. CASE Halts
    BY <1>t, <1>o, <2>r, <2>1 DEF Halts, Silent, Working
  <2>2. CASE Refused
    BY <1>t, <2>r, <2>2 DEF Refused, Working
  <2>3. CASE Turns
    BY <1>t, <2>r, <2>3 DEF Turns, Kept, Same, Still, Working
  <2>4. CASE Observes
    BY <1>t, <2>r, <2>4 DEF Observes, Kept, Still, Working
  <2>5. CASE Passes
    BY <1>t, <2>r, <2>5 DEF Passes, Kept, Waited, Working
  <2>6. ASSUME NEW o \in Object, Records(o) PROVE Placed'
    <3>1. I \in Rows /\ Waited /\ net' = net /\ proc.pc \notin {"await", "undoing"}
      BY <2>6 DEF Records, Writes
    <3> QED
      BY <1>t, <2>r, <3>1 DEF Waited, Working
  <2>7. CASE Deleted
    BY <1>t, <2>r, <2>7 DEF Deleted, Same, Still, Working
  <2>8. ASSUME NEW verb, NEW o, Sends(verb, o), proc.pc \notin {"await", "undoing"}
        PROVE  Placed'
    <3> DEFINE r == [row |-> I, verb |-> verb, uid |-> o.uid, rv |-> o.rv,
                     undo |-> FALSE, awaited |-> TRUE]
    <3>1. /\ I \in Rows /\ net' = net \cup {r} /\ proc'.i = proc.i /\ proc'.pc = "await"
          /\ r.row = I /\ ~r.undo /\ \A q \in net : ~q.awaited
      BY <1>t, <2>8 DEF Sends, Still
    <3> HIDE DEF r
    <3> QED
      BY <2>r, <3>1 DEF Working
  <2>9. CASE Intends \/ Resends
    <3>1. proc.pc \notin {"await", "undoing"} /\ \E verb, o : Sends(verb, o)
      BY <2>9 DEF Intends, Resends
    <3> QED
      BY <2>8, <3>1
  <2>10. ASSUME NEW i \in Rows, Readies(i) PROVE Placed'
    <3>1. net' = net /\ proc.pc \notin {"await", "undoing"} /\ proc'.pc \in {"row", "settle"}
      BY <2>10 DEF Readies
    <3> QED
      BY <1>t, <2>r, <3>1 DEF Working
  <2>11. ASSUME NEW i \in Rows, Undoing(i) PROVE Placed'
    <3> DEFINE r == [row |-> i, uid |-> row[i].got, rv |-> row[i].gotRv,
                     verb |-> IF plan[i].op = "create" THEN "delete" ELSE "patch",
                     undo |-> TRUE, awaited |-> TRUE]
    <3>1. /\ net' = net \cup {r} /\ proc'.i = i /\ proc'.pc = "undoing"
          /\ r.row = i /\ r.undo /\ \A q \in net : ~q.awaited
      BY <1>t, <2>11 DEF Undoing
    <3> HIDE DEF r
    <3> QED
      BY <2>r, <3>1 DEF Working
  <2>12. CASE Undone \/ UndoEnds
    BY <1>t, <2>r, <2>12 DEF Undone, UndoEnds, Same, Still, Working
  <2> QED
    BY <1>2, <2>1, <2>2, <2>3, <2>4, <2>5, <2>6, <2>7, <2>9, <2>10, <2>11, <2>12 DEF Steps
<1>3. CASE (Starts \/ Begins) /\ UNCHANGED <<plan, obj, landed>>
  <2>1. proc.pc = "idle" /\ proc'.pc \in {"row", "undo"} /\ net' = net
    BY <1>3 DEF Starts, Begins
  <2> QED
    BY <1>t, <1>3, <2>1 DEF Working, Rows
<1>4. CASE Cancels
  BY <1>t, <1>4 DEF Cancels, Rows
<1>5. ASSUME NEW q \in net, Arrival(q) PROVE Placed'
  <2>1. /\ plan' = plan /\ net' = net \ {q} /\ (~q.awaited => proc' = proc)
        /\ q.awaited => proc'.i = proc.i
    BY <1>5 DEF Arrival, Still
  <2>2. q.row \in Rows
    BY Fields DEF Typed
  <2> QED
    BY <1>t, <2>1, <2>2 DEF Rows
<1>6. ASSUME NEW q \in net, Drops(q) PROVE Placed'
  BY <1>t, <1>6 DEF Drops, Rows
<1>7. ASSUME NEW i \in Rows, Outside(i) PROVE Placed'
  BY <1>t, <1>7 DEF Outside, Rows
<1> QED
  BY <1>1, <1>2, <1>3, <1>4, <1>5, <1>6, <1>7, NextSteps

\* Every variable keeps its type, a process works on a row of its plan and
\* waits for at most one request, its own; an execution ends under one of the
\* names that _run(), cancel() and _compensate() write.
THEOREM TypeCorrect == Spec => []TypeOK
<1>1. Init => Typed
  BY InitTyped
<1>2. Typed /\ [Next]_vars => Typed'
  BY TypeStep, PlacedStep DEF Typed
<1>3. Typed => TypeOK
  BY DEF Typed
<1> QED
  BY <1>1, <1>2, <1>3, PTL DEF Spec
-----------------------------------------------------------------------------
(* Versions: every version that the process, the journal or a request      *)
(* names is one at which the object had content that the plan knows.       *)

Matches(o, uid, rv) == o.uid = uid /\ o.rv = rv
Knows(o, uid, rv, c) ==
    /\ uid # 0 /\ uid <= rv /\ rv <= o.rv
    /\ Matches(o, uid, rv) => o.content = c

\* The verb that a row, or its undoing, sends.
VerbOf(q) ==
    LET op == plan[q.row].op IN
    CASE q.verb = "create" -> ~q.undo /\ op \in {"create", "replace"}
      [] q.verb = "patch" -> op \in {"apply", "adopt"}
      [] OTHER -> IF q.undo THEN op = "create" ELSE op \in {"delete", "replace"}

Objects ==
    \A i \in Rows :
       /\ obj[i].uid <= obj[i].rv
       /\ obj[i].op => obj[i].uid # 0
       /\ plan[i].op \in {"apply", "adopt", "noop"} => ~obj[i].dying

Requests ==
    \A q \in net :
       /\ VerbOf(q)
       /\ q.verb # "create" =>
             Knows(obj[q.row], q.uid, q.rv, IF q.undo THEN "new" ELSE "old")

\* What the process has seen of its row's object.
Seeing ==
    /\ proc.pc \in {"intend", "send"} =>
          /\ Op # "noop"
          /\ Op # "create" =>
                proc.seen.uid = 1 /\ Knows(obj[I], proc.seen.uid, proc.seen.rv, "old")
          /\ Op = "create" => proc.seen.uid = 0
    /\ /\ \/ proc.pc \in {"intend", "send", "await", "again"}
          \/ proc.pc = "answered" /\ ~proc.ok
       /\ Op = "apply"
       => proc.seen.content = "old" /\ proc.seen.uid = 1
    /\ proc.pc = "redelete" =>
          proc.resumed /\ Knows(obj[I], proc.seen.uid, proc.seen.rv, "old")
    /\ proc.pc = "answered" /\ proc.ok /\ Op \in Undoes =>
          Knows(obj[I], proc.seen.uid, proc.seen.rv, "new")
    /\ proc.pc = "again" => Op = "apply"
    /\ proc.pc \in {"gone", "recreate", "redelete"} => Op = "replace"
    /\ proc.pc \in {"await", "answered"} => Op # "noop"

\* What the journal has recorded of them.
Recorded ==
    \A i \in Rows :
       /\ row[i].state = "intent" /\ plan[i].op # "create" =>
             row[i].uid = 1 /\ Knows(obj[i], row[i].uid, row[i].rv, "old")
       /\ row[i].state = "intent" /\ plan[i].op = "create" => row[i].uid = 0
       /\ row[i].state \in {"applied", "ready"} /\ plan[i].op \in Undoes =>
             Knows(obj[i], row[i].got, row[i].gotRv, "new")

\* The journal's state of the rows that the process is busy with.
States ==
    /\ proc.pc \in {"await", "answered", "again", "gone", "recreate", "redelete"} =>
          row[I].state = "intent"
    /\ proc.pc \in {"look", "intend", "send"} =>
          row[I].state \in {"pending", "failed", "intent"}
    /\ proc.pc = "ready" => row[I].state \in {"applied", "ready"}
    /\ proc.pc \in {"undoing", "reversed"} => row[I].state = "compensating"
    /\ \A i \in proc.late :
          /\ row[i].state \in {"applied", "ready"}
          /\ proc.pc \in {"undo", "undoing", "reversed"} => plan[i].op \in Undoes

Versions == Typed /\ Objects /\ Requests /\ Seeing /\ Recorded /\ States

\* An object is what it was, or gone, or has a newer version.
Adv(o, n) == n = o \/ (n.rv >= o.rv /\ (n.uid = 0 \/ n.rv > o.rv))

LEMMA KnowsKept ==
    ASSUME NEW o \in Object, NEW n \in Object, Adv(o, n),
           NEW u \in Nat, NEW v \in Nat, NEW c, Knows(o, u, v, c)
    PROVE  Knows(n, u, v, c)
  BY DEF Adv, Knows, Matches

\* Whatever happens, every object advances, and the plan stays.
LEMMA Advances ==
    ASSUME Typed, [Next]_vars
    PROVE  /\ plan' = plan /\ Rows' = Rows
           /\ \A i \in Rows : obj'[i] \in Object /\ Adv(obj[i], obj'[i])
<1>t. /\ \A i \in Rows : obj[i] \in Object
      /\ \A q \in net : q.verb \in {"create", "patch", "delete"} /\ q.row \in Rows
  BY Fields DEF Typed, Verbs
<1>1. plan' = plan /\ Rows' = Rows
  BY NextSteps DEF vars, Rows, Begins, Cancels, Arrival, Drops, Outside
<1>2. \A i \in Rows : obj'[i] \in Object
  <2>1. obj' \in [Rows -> Object]
    BY <1>1, TypeStep DEF TypeOK
  <2> QED
    BY <2>1
<1>3. ASSUME NEW i \in Rows PROVE Adv(obj[i], obj'[i])
  <2>1. ASSUME NEW q \in net, Arrival(q) PROVE Adv(obj[i], obj'[i])
    <3>1. CASE i # q.row \/ ~Accepts(q)
      BY <2>1, <3>1, <1>t DEF Arrival, Adv
    <3>2. CASE i = q.row /\ Accepts(q)
      <4>1. obj'[i].rv = obj[i].rv + 1
        BY <2>1, <3>2 DEF Arrival, Wrote
      <4> QED
        BY <4>1, <1>t DEF Adv
    <3> QED
      BY <3>1, <3>2
  <2>2. ASSUME NEW j \in Rows, Outside(j) PROVE Adv(obj[i], obj'[i])
    <3>1. CASE i # j
      BY <2>2, <3>1 DEF Outside, Adv
    <3>2. CASE i = j
      BY <2>2, <3>2, <1>t DEF Outside, Adv
    <3> QED
      BY <3>1, <3>2
  <2>3. CASE obj' = obj
    BY <2>3 DEF Adv
  <2> QED
    BY <2>1, <2>2, <2>3, NextSteps DEF vars, Begins, Cancels, Drops
<1> QED
  BY <1>1, <1>2, <1>3

\* What the plan saw of a row.
LEMMA BaselineFacts ==
    ASSUME TypeOK, NEW i \in Rows
    PROVE  /\ plan[i].op = "create" => Baseline(i).uid = 0
           /\ plan[i].op # "create" => Baseline(i).uid = 1
           /\ plan[i].op # "noop" => Baseline(i).content = "old"
           /\ Baseline(i).uid <= Baseline(i).rv
           /\ ~Baseline(i).op /\ ~Baseline(i).undone /\ ~Baseline(i).dying
           /\ plan[i].op \in Ops
<1>1. plan[i].op \in Ops
  BY PlanFacts DEF TypeOK
<1> QED
  BY <1>1 DEF Baseline, Observed, Absent, Ops

\* The request that a step sends.
LEMMA SentFields ==
    ASSUME Typed, NEW verb, NEW o, Sends(verb, o)
    PROVE  \E r : /\ net' = net \cup {r}
                  /\ r.row = I /\ r.verb = verb /\ r.uid = o.uid /\ r.rv = o.rv
                  /\ ~r.undo /\ r.awaited
<1> DEFINE r == [row |-> I, verb |-> verb, uid |-> o.uid, rv |-> o.rv,
                 undo |-> FALSE, awaited |-> TRUE]
<1>1. /\ net' = net \cup {r}
      /\ r.row = I /\ r.verb = verb /\ r.uid = o.uid /\ r.rv = o.rv /\ ~r.undo /\ r.awaited
  BY DEF Sends
<1> HIDE DEF r
<1> QED
  BY <1>1

LEMMA UndoFields ==
    ASSUME Typed, NEW i, Undoing(i)
    PROVE  \E r : /\ net' = net \cup {r}
                  /\ r.row = i /\ r.uid = row[i].got /\ r.rv = row[i].gotRv
                  /\ r.verb = IF plan[i].op = "create" THEN "delete" ELSE "patch"
                  /\ r.undo /\ r.awaited
<1> DEFINE r == [row |-> i, uid |-> row[i].got, rv |-> row[i].gotRv,
                 verb |-> IF plan[i].op = "create" THEN "delete" ELSE "patch",
                 undo |-> TRUE, awaited |-> TRUE]
<1>1. /\ net' = net \cup {r}
      /\ r.row = i /\ r.uid = row[i].got /\ r.rv = row[i].gotRv
      /\ r.verb = IF plan[i].op = "create" THEN "delete" ELSE "patch"
      /\ r.undo /\ r.awaited
  BY DEF Undoing
<1> HIDE DEF r
<1> QED
  BY <1>1

\* An orphaned request is the request that it was.
LEMMA OrphanFields ==
    ASSUME Typed, NEW q \in Orphaned
    PROVE  \E p \in net : /\ q.row = p.row /\ q.verb = p.verb /\ q.uid = p.uid
                          /\ q.rv = p.rv /\ q.undo = p.undo /\ ~q.awaited
<1>1. PICK p \in net : q = [p EXCEPT !.awaited = FALSE]
  BY DEF Orphaned
<1>2. p \in Request
  BY Fields DEF Typed
<1>3. /\ q.row = p.row /\ q.verb = p.verb /\ q.uid = p.uid
      /\ q.rv = p.rv /\ q.undo = p.undo /\ ~q.awaited
  BY <1>1, <1>2 DEF Request
<1> QED
  BY <1>3

\* Where the requests of the next state come from.
LEMMA NetSteps ==
    ASSUME Typed, [Next]_vars, NEW q \in net'
    PROVE  \/ q \in net
           \/ \E p \in net : /\ q.row = p.row /\ q.verb = p.verb /\ q.uid = p.uid
                             /\ q.rv = p.rv /\ q.undo = p.undo /\ ~q.awaited
           \/ /\ Intends /\ q.row = I /\ q.verb = Verb
              /\ q.uid = proc.seen.uid /\ q.rv = proc.seen.rv /\ ~q.undo /\ q.awaited
           \/ /\ Resends /\ q.row = I /\ ~q.undo /\ q.awaited
              /\ \/ /\ At("again") /\ q.verb = "patch" /\ StatusOnly(proc.seen, Current)
                    /\ q.uid = Current.uid /\ q.rv = Current.rv
                 \/ /\ At("recreate") /\ q.verb = "create"
                 \/ /\ At("redelete") /\ q.verb = "delete"
                    /\ q.uid = proc.seen.uid /\ q.rv = proc.seen.rv
           \/ \E i \in Rows :
                 /\ Undoing(i) /\ q.row = i /\ q.uid = row[i].got /\ q.rv = row[i].gotRv
                 /\ q.verb = IF plan[i].op = "create" THEN "delete" ELSE "patch"
                 /\ q.undo /\ q.awaited
<1>1. CASE net' = net
  BY <1>1
<1>2. CASE net' = Orphaned
  BY <1>2, OrphanFields
<1>3. CASE Intends
  BY <1>3, SentFields DEF Intends
<1>4. CASE Resends
  BY <1>4, SentFields DEF Resends
<1>5. ASSUME NEW i \in Rows, Undoing(i) PROVE q \in net \/ (
                 /\ Undoing(i) /\ q.row = i /\ q.uid = row[i].got /\ q.rv = row[i].gotRv
                 /\ q.verb = IF plan[i].op = "create" THEN "delete" ELSE "patch"
                 /\ q.undo /\ q.awaited)
  BY <1>5, UndoFields
<1>6. ASSUME NEW p \in net, Arrival(p) \/ Drops(p) PROVE q \in net
  BY <1>6 DEF Arrival, Drops
<1>7. ASSUME Steps
      PROVE  \/ net' = net \/ net' = Orphaned \/ Intends \/ Resends
             \/ \E i \in Rows : Undoing(i)
  BY <1>7 DEF Steps, Halts, Refused, Turns, Observes, Kept, Passes, Records, Deleted,
              Readies, Undone, UndoEnds
<1> QED
  BY <1>1, <1>2, <1>3, <1>4, <1>5, <1>6, <1>7, NextSteps
     DEF vars, Starts, Begins, Cancels, Outside
\* The facts of a typed state that the steps below keep using.
LEMMA VersionFacts ==
    ASSUME Versions
    PROVE  /\ \A i \in Rows :
                 /\ obj[i] \in Object /\ row[i] \in Row /\ plan[i].op \in Ops
                 /\ row[i].uid \in Nat /\ row[i].rv \in Nat
                 /\ row[i].got \in Nat /\ row[i].gotRv \in Nat
           /\ proc.seen \in Object /\ proc.seen.uid \in Nat /\ proc.seen.rv \in Nat
           /\ proc.late \subseteq Rows /\ proc.ok \in BOOLEAN
           /\ proc.pc \in Working => I \in Rows
           /\ \A q \in net : q.row \in Rows /\ q.uid \in Nat /\ q.rv \in Nat
                             /\ q.verb \in {"create", "patch", "delete"}
                             /\ q.undo \in BOOLEAN /\ q.awaited \in BOOLEAN
           /\ \A q \in net : q.awaited =>
                 I = q.row /\ proc.pc = IF q.undo THEN "undoing" ELSE "await"
<1>1. TypeOK /\ Placed
  BY DEF Versions, Typed
<1>2. \A i \in Rows : plan[i].op \in Ops /\ row[i] \in Row
  BY <1>1, PlanFacts, Fields DEF TypeOK
<1> QED
  BY <1>1, <1>2, Fields DEF Verbs, Placed

LEMMA ObjectsStep == ASSUME Versions, [Next]_vars PROVE Objects'
<1>t. Typed /\ Objects /\ Requests
  BY DEF Versions
<1>a. /\ plan' = plan /\ Rows' = Rows
      /\ \A i \in Rows : obj[i] \in Object /\ obj'[i] \in Object
  BY <1>t, Advances, VersionFacts
<1> SUFFICES ASSUME NEW i \in Rows
             PROVE  /\ obj'[i].uid <= obj'[i].rv
                    /\ obj'[i].op => obj'[i].uid # 0
                    /\ plan[i].op \in {"apply", "adopt", "noop"} => ~obj'[i].dying
  BY <1>a DEF Objects
<1> DEFINE Good == /\ obj'[i].uid <= obj'[i].rv
                   /\ obj'[i].op => obj'[i].uid # 0
                   /\ plan[i].op \in {"apply", "adopt", "noop"} => ~obj'[i].dying
<1>0. CASE obj'[i] = obj[i]
  BY <1>0, <1>t DEF Objects
<1>1. ASSUME NEW q \in net, Arrival(q) PROVE Good
  <2>1. CASE i # q.row \/ ~Accepts(q)
    BY <1>0, <1>1, <2>1 DEF Arrival
  <2>2. CASE i = q.row /\ Accepts(q)
    <3>1. Wrote(q) /\ VerbOf(q) /\ q.verb \in {"create", "patch", "delete"}
            /\ q.undo \in BOOLEAN
      BY <1>1, <1>t, <2>2, VersionFacts DEF Arrival, Requests
    <3>2. CASE q.verb = "create"
      BY <1>a, <2>2, <3>1, <3>2 DEF Wrote, VerbOf
    <3>3. CASE q.verb # "create"
      <4>1. obj[i].uid = q.uid /\ q.uid # 0
        BY <1>t, <2>2, <3>3 DEF Accepts, Requests, Knows
      <4>2. obj'[i].uid = obj[i].uid /\ obj'[i].rv = obj[i].rv + 1
        BY <2>2, <3>1, <3>3 DEF Wrote
      <4>3. plan[i].op \in {"apply", "adopt", "noop"} => ~obj'[i].dying
        BY <1>t, <2>2, <3>1, <3>3 DEF Wrote, VerbOf, Objects
      <4> QED
        BY <1>a, <1>t, <4>1, <4>2, <4>3 DEF Objects
    <3> QED
      BY <3>2, <3>3
  <2> QED
    BY <2>1, <2>2
<1>2. ASSUME NEW j \in Rows, Outside(j) PROVE Good
  <2>1. CASE i # j
    BY <1>0, <1>2, <2>1 DEF Outside
  <2>2. CASE i = j
    BY <1>2, <1>a, <1>t, <2>2 DEF Outside, Objects
  <2> QED
    BY <2>1, <2>2
<1> QED
  BY <1>0, <1>1, <1>2, <1>t, NextSteps DEF vars, Begins, Cancels, Drops

LEMMA RequestsStep == ASSUME Versions, [Next]_vars PROVE Requests'
<1>t. Typed /\ Objects /\ Requests /\ Seeing /\ States /\ Recorded
  BY DEF Versions
<1>a. /\ plan' = plan
      /\ \A i \in Rows : obj[i] \in Object /\ obj'[i] \in Object /\ Adv(obj[i], obj'[i])
  BY <1>t, Advances, VersionFacts
<1>k. ASSUME NEW q, q.row \in Rows, q.uid \in Nat, q.rv \in Nat,
             VerbOf(q),
             q.verb # "create" =>
                Knows(obj[q.row], q.uid, q.rv, IF q.undo THEN "new" ELSE "old")
      PROVE  /\ VerbOf(q)'
             /\ q.verb # "create" =>
                   Knows(obj'[q.row], q.uid, q.rv, IF q.undo THEN "new" ELSE "old")
  BY <1>a, <1>k, KnowsKept DEF VerbOf
<1> SUFFICES ASSUME NEW q \in net'
             PROVE  /\ VerbOf(q)'
                    /\ q.verb # "create" =>
                          Knows(obj'[q.row], q.uid, q.rv, IF q.undo THEN "new" ELSE "old")
  BY DEF Requests
<1>1. CASE q \in net
  BY <1>1, <1>k, <1>t, VersionFacts DEF Requests
<1>2. ASSUME NEW p \in net, q.row = p.row, q.verb = p.verb, q.uid = p.uid, q.rv = p.rv,
             q.undo = p.undo
      PROVE  VerbOf(q) /\ (q.verb # "create" =>
                   Knows(obj[q.row], q.uid, q.rv, IF q.undo THEN "new" ELSE "old"))
             /\ q.row \in Rows /\ q.uid \in Nat /\ q.rv \in Nat
  BY <1>2, <1>t, VersionFacts DEF Requests, VerbOf
<1>3. ASSUME Intends, q.row = I, q.verb = Verb, q.uid = proc.seen.uid, q.rv = proc.seen.rv,
             ~q.undo
      PROVE  VerbOf(q) /\ (q.verb # "create" =>
                   Knows(obj[q.row], q.uid, q.rv, IF q.undo THEN "new" ELSE "old"))
             /\ q.row \in Rows /\ q.uid \in Nat /\ q.rv \in Nat
  <2>1. I \in Rows /\ proc.pc = "send" /\ plan[I].op \in Ops
    BY <1>3, VersionFacts DEF Intends, Sends, At
  <2>2. Op # "noop" /\ (Op # "create" => Knows(obj[I], proc.seen.uid, proc.seen.rv, "old"))
    BY <1>t, <2>1 DEF Seeing
  <2>3. VerbOf(q) /\ (q.verb # "create" => Op # "create")
    BY <1>3, <2>1, <2>2 DEF VerbOf, Verb, Op, Ops
  <2> QED
    BY <1>3, <2>1, <2>2, <2>3, VersionFacts
<1>4. ASSUME Resends, q.row = I, ~q.undo,
             \/ /\ At("again") /\ q.verb = "patch" /\ StatusOnly(proc.seen, Current)
                /\ q.uid = Current.uid /\ q.rv = Current.rv
             \/ /\ At("redelete") /\ q.verb = "delete"
                /\ q.uid = proc.seen.uid /\ q.rv = proc.seen.rv
      PROVE  VerbOf(q) /\ (q.verb # "create" =>
                   Knows(obj[q.row], q.uid, q.rv, IF q.undo THEN "new" ELSE "old"))
             /\ q.row \in Rows /\ q.uid \in Nat /\ q.rv \in Nat
  <2>1. I \in Rows /\ plan[I].op \in Ops
    BY <1>4, VersionFacts DEF Resends, Sends
  <2>2. CASE At("again")
    <3>1. Op = "apply" /\ proc.seen.content = "old" /\ proc.seen.uid = 1
            /\ q.verb = "patch" /\ StatusOnly(proc.seen, Current)
            /\ q.uid = Current.uid /\ q.rv = Current.rv
      BY <1>4, <1>t, <2>2 DEF Seeing, At
    <3>2. Knows(obj[I], Current.uid, Current.rv, "old") /\ Current.uid \in Nat
            /\ Current.rv \in Nat
      BY <1>t, <1>a, <2>1, <3>1 DEF StatusOnly, Current, Knows, Matches, Objects
    <3> QED
      BY <1>4, <2>1, <3>1, <3>2 DEF VerbOf, Op
  <2>3. CASE At("redelete")
    <3>1. Op = "replace" /\ Knows(obj[I], proc.seen.uid, proc.seen.rv, "old")
            /\ q.verb = "delete" /\ q.uid = proc.seen.uid /\ q.rv = proc.seen.rv
      BY <1>4, <1>t, <2>3 DEF Seeing, At
    <3> QED
      BY <1>4, <2>1, <3>1, VersionFacts DEF VerbOf, Op
  <2> QED
    BY <1>4, <2>2, <2>3
<1>5. ASSUME Resends, q.row = I, ~q.undo, At("recreate"), q.verb = "create"
      PROVE  VerbOf(q)'
  BY <1>5, <1>t, <1>a DEF Seeing, At, VerbOf, Op
<1>6. ASSUME NEW i \in Rows, Undoing(i), q.row = i, q.uid = row[i].got, q.rv = row[i].gotRv,
             q.verb = IF plan[i].op = "create" THEN "delete" ELSE "patch", q.undo
      PROVE  VerbOf(q) /\ (q.verb # "create" =>
                   Knows(obj[q.row], q.uid, q.rv, IF q.undo THEN "new" ELSE "old"))
             /\ q.row \in Rows /\ q.uid \in Nat /\ q.rv \in Nat
  <2>1. row[i].state \in {"applied", "ready"} /\ plan[i].op \in Undoes
    BY <1>6, <1>t DEF Undoing, States, At
  <2>2. Knows(obj[i], row[i].got, row[i].gotRv, "new")
    BY <1>t, <2>1 DEF Recorded
  <2> QED
    BY <1>6, <2>1, <2>2, VersionFacts DEF VerbOf, Undoes
<1> QED
  BY <1>1, <1>2, <1>3, <1>4, <1>5, <1>6, <1>k, <1>t, NetSteps
LEMMA StatesStep == ASSUME Versions, [Next]_vars PROVE States'
<1>t. Typed /\ Seeing /\ States
  BY DEF Versions
<1>a. plan' = plan /\ Rows' = Rows
  BY <1>t, Advances
<1>v. /\ proc.late \subseteq Rows /\ (proc.pc \in Working => I \in Rows)
      /\ \A i \in Rows : row[i].state \in {"pending", "failed", "intent", "applied", "ready",
                                           "compensating", "compensated"}
      /\ \A q \in net : q.awaited => I = q.row /\ proc.pc = IF q.undo THEN "undoing" ELSE "await"
  BY VersionFacts
<1> USE DEF States, I, At
<1>1. CASE row' = row /\ proc' = Idle
  BY <1>1 DEF Idle
<1>2. CASE row' = row /\ proc' = proc
  BY <1>2, <1>t, <1>a
<1>3. CASE Refused
  BY <1>3 DEF Refused, Idle
<1>4. CASE Turns
  BY <1>4, <1>t, <1>a, <1>v DEF Turns, Kept, Same, Still, Working
<1>5. CASE Observes
  BY <1>5, <1>t, <1>a, <1>v DEF Observes, Kept, Still, Working
<1>6. CASE Passes
  BY <1>6, <1>t, <1>a DEF Passes, Kept, Waited
<1>7. ASSUME NEW o \in Object, Records(o) PROVE States'
  <2>1. /\ Writes(proc.i, "applied") /\ Waited
        /\ proc.pc \in {"look", "answered", "row"}
    BY <1>7 DEF Records
  <2>2. \A i \in proc.late \cup {proc.i} : row'[i].state \in {"applied", "ready"}
    BY <1>t, <1>v, <2>1 DEF Writes
  <2>3. proc'.pc \in {"row", "ready"} /\ proc'.late \subseteq proc.late \cup {proc.i}
          /\ (proc'.pc = "ready" => proc'.i = proc.i)
    BY <2>1 DEF Waited
  <2> QED
    BY <2>2, <2>3
<1>8. CASE Deleted
  <2>1. /\ Writes(proc.i, row[proc.i].state) /\ proc'.pc = "gone" /\ proc'.i = proc.i
        /\ proc'.late = proc.late /\ proc.pc = "answered"
    BY <1>8 DEF Deleted, Same, Still
  <2>2. \A i \in Rows : row'[i].state = row[i].state
    BY <2>1 DEF Writes
  <2> QED
    BY <1>t, <1>v, <1>a, <2>1, <2>2 DEF Working
<1>9. CASE Intends
  <2>1. /\ proc.pc = "send" /\ proc'.pc = "await" /\ proc'.i = proc.i
        /\ proc'.late = proc.late /\ row'[proc.i].state = "intent"
        /\ \A j \in Rows \ {proc.i} : row'[j] = row[j]
    BY <1>9 DEF Intends, Sends, Still
  <2> QED
    BY <1>t, <1>v, <1>a, <2>1
<1>10. CASE Resends
  BY <1>10, <1>t, <1>a DEF Resends, Sends, Still
<1>11. ASSUME NEW i \in Rows, Readies(i) PROVE States'
  <2>1. /\ Writes(i, "ready") /\ proc'.pc \in {"row", "settle"}
        /\ proc'.late \subseteq proc.late
    BY <1>11 DEF Readies
  <2> QED
    BY <1>t, <1>v, <2>1 DEF Writes
<1>12. ASSUME NEW i \in Rows, Undoing(i) PROVE States'
  <2>1. /\ Writes(i, "compensating") /\ proc'.pc = "undoing" /\ proc'.i = i
        /\ proc'.late = proc.late \ {i} /\ proc.pc = "undo"
    BY <1>12 DEF Undoing
  <2> QED
    BY <1>t, <1>v, <1>a, <2>1 DEF Writes
<1>13. CASE Undone
  <2>1. /\ Writes(proc.i, "compensated") /\ proc'.pc = "undo" /\ proc'.i = proc.i
        /\ proc'.late = proc.late /\ proc.pc = "reversed"
    BY <1>13 DEF Undone, Same, Still
  <2> QED
    BY <1>t, <1>v, <1>a, <2>1 DEF Writes
<1>14. CASE Starts
  <2>1. /\ proc'.pc = "undo" /\ proc'.late = {i \in Undoable : row[i].state # "compensating"}
        /\ \A i \in Rows : row[i].state # "intent"
        /\ \A i \in Rows : ~(i \in Undoable /\ row[i].state = "compensating") => row'[i] = row[i]
    BY <1>14 DEF Starts
  <2>2. ASSUME NEW i \in proc'.late
        PROVE  row'[i].state \in {"applied", "ready"} /\ plan[i].op \in Undoes
    <3>1. i \in Rows /\ plan[i].op \in Ops
      BY <2>1, VersionFacts DEF Undoable
    <3> QED
      BY <1>v, <2>1, <3>1 DEF Undoable, Undoes, Ops
  <2> QED
    BY <1>a, <2>1, <2>2
<1>15. CASE Begins
  BY <1>15 DEF Begins
<1>16. ASSUME NEW q \in net, Arrival(q) PROVE States'
  <2>1. CASE ~q.awaited
    BY <1>2, <1>16, <2>1 DEF Arrival
  <2>2. CASE q.awaited
    <3>1. /\ row' = row /\ proc'.i = proc.i /\ proc'.late = proc.late
          /\ proc'.pc = IF q.undo THEN "reversed" ELSE "answered"
          /\ proc.pc = IF q.undo THEN "undoing" ELSE "await"
      BY <1>16, <1>v, <2>2 DEF Arrival, Still
    <3> QED
      BY <1>t, <1>a, <3>1
  <2> QED
    BY <2>1, <2>2, VersionFacts
<1>17. ASSUME Steps PROVE States'
  BY <1>17, <1>1, <1>3, <1>4, <1>5, <1>6, <1>7, <1>8, <1>9, <1>10, <1>11, <1>12, <1>13
     DEF Steps, Halts, UndoEnds
<1> QED
  BY <1>2, <1>14, <1>15, <1>16, <1>17, <1>t, NextSteps DEF vars, Cancels, Drops, Outside

LEMMA SeeingStep == ASSUME Versions, [Next]_vars PROVE Seeing'
<1>t. Typed /\ Objects /\ Requests /\ Seeing /\ States /\ Recorded /\ TypeOK
  BY DEF Versions, Typed
<1>a. /\ plan' = plan /\ Rows' = Rows
      /\ \A i \in Rows : obj[i] \in Object /\ obj'[i] \in Object /\ Adv(obj[i], obj'[i])
  BY <1>t, Advances, VersionFacts
<1>v. /\ proc.seen \in Object /\ proc.seen.uid \in Nat /\ proc.seen.rv \in Nat
      /\ (proc.pc \in Working => I \in Rows)
      /\ \A q \in net : q.awaited => I = q.row /\ proc.pc = IF q.undo THEN "undoing" ELSE "await"
  BY VersionFacts
<1>k. ASSUME I \in Rows, NEW c, Knows(obj[I], proc.seen.uid, proc.seen.rv, c)
      PROVE  Knows(obj'[I], proc.seen.uid, proc.seen.rv, c)
  BY <1>k, <1>a, <1>v, KnowsKept
<1> USE DEF I, At, Op
<1>1. CASE proc'.pc \in {"idle", "row", "settle", "look", "undo", "undoing", "reversed", "ready"}
  BY <1>1 DEF Seeing
<1>2. CASE proc' = proc
  <2>1. proc.pc \in {"intend", "send", "redelete", "answered"} => I \in Rows
    BY <1>v DEF Working
  <2> QED
    BY <1>2, <1>t, <1>a, <1>k, <2>1 DEF Seeing
<1>3. CASE Turns
  <2>1. CASE proc'.pc = "send"
    <3>1. /\ proc.pc = "intend" /\ proc'.i = proc.i /\ proc'.seen = proc.seen
          /\ I \in Rows
      BY <1>3, <1>v, <2>1 DEF Turns, Same, Still, Working
    <3> QED
      BY <1>t, <1>a, <1>k, <2>1, <3>1 DEF Seeing
  <2>2. CASE proc'.pc = "again"
    <3>1. /\ proc.pc = "answered" /\ proc'.i = proc.i /\ proc'.seen = proc.seen
          /\ ~proc.ok /\ Op = "apply"
      BY <1>3, <2>2 DEF Turns, Same, Still
    <3> QED
      BY <1>t, <1>a, <2>2, <3>1 DEF Seeing
  <2>3. CASE proc'.pc = "recreate" \/ proc'.pc = "gone"
    <3>1. proc'.i = proc.i /\ Op = "replace"
      BY <1>3, <1>t, <2>3 DEF Turns, Same, Still, Seeing
    <3> QED
      BY <1>a, <2>3, <3>1 DEF Seeing
  <2> QED
    BY <1>3, <1>1, <2>1, <2>2, <2>3 DEF Turns
<1>4. CASE Observes
  <2>1. CASE proc'.pc = "intend"
    <3>1. /\ proc'.i = proc.i /\ proc'.seen = obj[I] /\ I \in Rows /\ Op # "noop"
          /\ CheckCurrent(obj[I])
      BY <1>4, <1>v, <2>1 DEF Observes, Still, Current, Working
    <3>2. Op # "create" => obj[I].uid = 1 /\ obj[I].content = "old"
      BY <1>t, <3>1, BaselineFacts DEF CheckCurrent
    <3>3. Op = "create" => obj[I].uid = 0
      BY <3>1 DEF CheckCurrent
    <3>4. Op # "create" => Knows(obj[I], obj[I].uid, obj[I].rv, "old")
      BY <1>t, <1>a, <3>1, <3>2 DEF Knows, Objects
    <3>5. Op # "create" => Knows(obj'[I], obj[I].uid, obj[I].rv, "old")
      BY <1>a, <3>1, <3>4, KnowsKept
    <3> QED
      BY <1>a, <2>1, <3>1, <3>2, <3>3, <3>5 DEF Seeing
  <2>2. CASE proc'.pc = "redelete"
    <3>1. /\ proc'.i = proc.i /\ proc'.seen = obj[I] /\ I \in Rows /\ Op = "replace"
          /\ proc'.resumed /\ row[I].state = "intent"
          /\ obj[I].uid = row[I].uid /\ obj[I].rv = row[I].rv
      BY <1>4, <2>2 DEF Observes, Still, Current
    <3>2. Knows(obj[I], obj[I].uid, obj[I].rv, "old")
      BY <1>t, <3>1 DEF Recorded
    <3>3. Knows(obj'[I], obj[I].uid, obj[I].rv, "old")
      BY <1>a, <3>1, <3>2, KnowsKept
    <3> QED
      BY <1>a, <2>2, <3>1, <3>3 DEF Seeing
  <2> QED
    BY <1>4, <2>1, <2>2 DEF Observes
<1>5. CASE Deleted
  <2>1. proc'.pc = "gone" /\ proc'.i = proc.i /\ Op = "replace"
    BY <1>5 DEF Deleted, Same, Still
  <2> QED
    BY <1>a, <2>1 DEF Seeing
<1>6. CASE Intends
  <2>1. proc'.pc = "await" /\ proc'.i = proc.i /\ proc'.seen = proc.seen /\ proc.pc = "send"
    BY <1>6 DEF Intends, Sends, Still
  <2> QED
    BY <1>a, <1>t, <2>1 DEF Seeing
<1>7. CASE Resends
  <2>1. /\ proc'.pc = "await" /\ proc'.i = proc.i
        /\ \/ proc.pc = "again" /\ proc'.seen = proc.seen
           \/ proc.pc \in {"recreate", "redelete"}
    BY <1>7 DEF Resends, Sends, Still
  <2> QED
    BY <1>a, <1>t, <2>1 DEF Seeing
<1>8. ASSUME NEW q \in net, Arrival(q) PROVE Seeing'
  <2>1. CASE ~q.awaited
    BY <1>2, <1>8, <2>1 DEF Arrival
  <2>2. CASE q.awaited /\ q.undo
    BY <1>1, <1>8, <2>2 DEF Arrival
  <2>3. CASE q.awaited /\ ~q.undo
    <3>1. /\ proc'.i = proc.i /\ proc'.pc = "answered" /\ proc.pc = "await" /\ q.row = I
          /\ I \in Rows /\ proc'.ok = Accepts(q) /\ q.verb \in {"create", "patch", "delete"}
          /\ proc'.seen = IF Accepts(q) /\ q.verb # "delete" THEN obj'[I] ELSE proc.seen
      BY <1>8, <1>v, <2>3, VersionFacts DEF Arrival, Still, Working
    <3>2. CASE ~Accepts(q)
      BY <1>t, <1>a, <3>1, <3>2 DEF Seeing
    <3>3. CASE Accepts(q) /\ Op \in Undoes
      <4>1. q.verb # "delete" /\ VerbOf(q)
        BY <1>t, <2>3, <3>1, <3>3 DEF Requests, VerbOf, Undoes
      <4>2. obj'[I].content = "new" /\ obj'[I].uid # 0
        <5>1. Wrote(q)
          BY <1>8, <3>3 DEF Arrival
        <5>2. q.verb = "patch" => obj[I].uid = q.uid /\ q.uid # 0
          BY <1>t, <3>1, <3>3 DEF Accepts, Requests, Knows
        <5> QED
          BY <1>a, <2>3, <3>1, <4>1, <5>1, <5>2 DEF Wrote
      <4>3. obj'[I].uid <= obj'[I].rv
        BY <1>a, <3>1, ObjectsStep DEF Objects
      <4>4. proc'.seen = obj'[I]
        BY <3>1, <3>3, <4>1
      <4>5. Knows(obj'[I], proc'.seen.uid, proc'.seen.rv, "new")
        BY <1>a, <3>1, <4>2, <4>3, <4>4 DEF Knows
      <4> QED
        BY <1>t, <1>a, <3>1, <3>3, <4>5 DEF Seeing
    <3>4. CASE Accepts(q) /\ Op \notin Undoes
      BY <1>t, <1>a, <3>1, <3>4 DEF Seeing, Undoes
    <3> QED
      BY <3>2, <3>3, <3>4
  <2> QED
    BY <2>1, <2>2, <2>3, VersionFacts
<1>9. ASSUME Steps PROVE Seeing'
  <2>1. CASE Halts \/ Refused \/ Passes \/ Undone \/ UndoEnds
    BY <1>1, <2>1 DEF Halts, Refused, Passes, Waited, Undone, UndoEnds, Idle
  <2>2. ASSUME NEW o \in Object, Records(o) PROVE Seeing'
    BY <1>1, <2>2 DEF Records, Waited
  <2>3. ASSUME NEW i \in Rows, Readies(i) \/ Undoing(i) PROVE Seeing'
    BY <1>1, <2>3 DEF Readies, Undoing
  <2> QED
    BY <1>9, <1>3, <1>4, <1>5, <1>6, <1>7, <2>1, <2>2, <2>3 DEF Steps
<1> QED
  BY <1>1, <1>2, <1>8, <1>9, <1>t, NextSteps
     DEF vars, Starts, Begins, Cancels, Drops, Outside
LEMMA RecordedStep == ASSUME Versions, [Next]_vars PROVE Recorded'
<1>t. Typed /\ Objects /\ Seeing /\ States /\ Recorded /\ TypeOK
  BY DEF Versions, Typed
<1>a. /\ plan' = plan /\ Rows' = Rows
      /\ \A i \in Rows : obj[i] \in Object /\ obj'[i] \in Object /\ Adv(obj[i], obj'[i])
  BY <1>t, Advances, VersionFacts
<1>v. /\ proc.seen \in Object /\ proc.seen.uid \in Nat /\ proc.seen.rv \in Nat
      /\ proc.late \subseteq Rows /\ (proc.pc \in Working => I \in Rows)
      /\ \A i \in Rows : row[i].uid \in Nat /\ row[i].rv \in Nat
                         /\ row[i].got \in Nat /\ row[i].gotRv \in Nat
  BY VersionFacts
<1> DEFINE Good(i, r, o) ==
              /\ r.state = "intent" /\ plan[i].op # "create" =>
                    r.uid = 1 /\ Knows(o, r.uid, r.rv, "old")
              /\ r.state = "intent" /\ plan[i].op = "create" => r.uid = 0
              /\ r.state \in {"applied", "ready"} /\ plan[i].op \in Undoes =>
                    Knows(o, r.got, r.gotRv, "new")
<1>k. ASSUME NEW i \in Rows, row'[i] = row[i] PROVE Good(i, row'[i], obj'[i])
  <2>1. \A u, v \in Nat : \A c : Knows(obj[i], u, v, c) => Knows(obj'[i], u, v, c)
    BY <1>a, KnowsKept
  <2>2. Good(i, row[i], obj[i])
    BY <1>t DEF Recorded
  <2> QED
    BY <1>k, <1>v, <2>1, <2>2
<1>z. ASSUME \A i \in Rows : Good(i, row'[i], obj'[i]) PROVE Recorded'
  BY <1>z, <1>a DEF Recorded
<1> USE DEF I, At, Op
<1>1. CASE row' = row
  BY <1>1, <1>k, <1>z
<1>w. ASSUME NEW i \in Rows, \A j \in Rows \ {i} : row'[j] = row[j],
             Good(i, row'[i], obj'[i])
      PROVE  Recorded'
  <2> HIDE DEF Good
  <2> QED
    BY <1>w, <1>k, <1>z
<1>2. ASSUME NEW i \in Rows,
             Writes(i, "failed") \/ Writes(i, "compensating") \/ Writes(i, "compensated")
      PROVE  Recorded'
  <2>1. Good(i, row'[i], obj'[i])
    BY <1>2 DEF Writes
  <2> QED
    BY <1>2, <1>w, <2>1 DEF Writes
<1>3. ASSUME NEW o \in Object, Records(o), UNCHANGED obj PROVE Recorded'
  <2>1. /\ proc.i \in Rows /\ row'[proc.i].state = "applied" /\ row'[proc.i].got = o.uid
        /\ row'[proc.i].gotRv = o.rv
        /\ \A j \in Rows \ {proc.i} : row'[j] = row[j]
    BY <1>3 DEF Records, Writes
  <2>2. ASSUME Op \in Undoes PROVE Knows(obj[proc.i], o.uid, o.rv, "new")
    <3>1. CASE At("answered") /\ proc.ok /\ o = proc.seen
      BY <1>t, <2>2, <3>1 DEF Seeing
    <3>2. CASE o = Current /\ WrittenByRow
      BY <1>t, <1>a, <2>1, <3>2 DEF WrittenByRow, Current, Knows, Matches, Objects
    <3> QED
      BY <1>3, <2>2, <3>1, <3>2 DEF Records, Undoes
  <2>3. Good(proc.i, row'[proc.i], obj'[proc.i])
    BY <1>3, <2>1, <2>2
  <2> HIDE DEF Good
  <2> QED
    BY <1>w, <2>1, <2>3
<1>4. CASE Deleted
  <2>1. /\ proc.i \in Rows /\ Writes(proc.i, row[proc.i].state) /\ row[proc.i].state = "intent"
        /\ plan[proc.i].op = "replace"
    BY <1>4, <1>t DEF Deleted, Writes, States
  <2>2. Good(proc.i, row'[proc.i], obj'[proc.i])
    <3>1. row[proc.i].uid = 1 /\ Knows(obj[proc.i], row[proc.i].uid, row[proc.i].rv, "old")
      BY <1>t, <2>1 DEF Recorded
    <3>2. Knows(obj'[proc.i], row[proc.i].uid, row[proc.i].rv, "old")
      BY <1>a, <1>v, <2>1, <3>1, KnowsKept
    <3> QED
      BY <2>1, <3>1, <3>2 DEF Writes
  <2> HIDE DEF Good
  <2> QED
    BY <1>w, <2>1, <2>2 DEF Writes
<1>5. CASE Intends
  <2>1. /\ proc.i \in Rows /\ row'[proc.i].state = "intent" /\ proc.pc = "send"
        /\ row'[proc.i].uid = proc.seen.uid /\ row'[proc.i].rv = proc.seen.rv
        /\ \A j \in Rows \ {proc.i} : row'[j] = row[j]
    BY <1>5 DEF Intends, Sends
  <2>2. Good(proc.i, row'[proc.i], obj'[proc.i])
    <3>1. /\ Op # "create" =>
                proc.seen.uid = 1 /\ Knows(obj[proc.i], proc.seen.uid, proc.seen.rv, "old")
          /\ Op = "create" => proc.seen.uid = 0
      BY <1>t, <2>1 DEF Seeing
    <3>2. Op # "create" => Knows(obj'[proc.i], proc.seen.uid, proc.seen.rv, "old")
      BY <1>a, <1>v, <2>1, <3>1, KnowsKept
    <3> QED
      BY <2>1, <3>1, <3>2
  <2> HIDE DEF Good
  <2> QED
    BY <1>w, <2>1, <2>2
<1>6. ASSUME NEW i \in Rows, Readies(i), UNCHANGED obj PROVE Recorded'
  <2>1. /\ Writes(i, "ready") /\ row'[i].got = row[i].got
        /\ row'[i].gotRv = IF obj[i].uid = 0 THEN row[i].gotRv ELSE obj[i].rv
        /\ VerifyReceipt(i)
    BY <1>6 DEF Readies
  <2>2. ASSUME plan[i].op \in Undoes PROVE Knows(obj'[i], row'[i].got, row'[i].gotRv, "new")
    <3>1. row[i].state \in {"applied", "ready"}
      BY <1>6, <1>t DEF Readies, States
    <3>2. Knows(obj[i], row[i].got, row[i].gotRv, "new")
      BY <1>t, <2>2, <3>1 DEF Recorded
    <3>3. obj[i].uid = row[i].got /\ obj[i].content = "new"
      BY <2>1, <2>2 DEF VerifyReceipt, Undoes
    <3>4. obj'[i] = obj[i] /\ obj[i].uid # 0 /\ row'[i].gotRv = obj[i].rv
      BY <1>6, <2>1, <3>2, <3>3 DEF Knows
    <3> QED
      BY <1>t, <1>a, <2>1, <3>3, <3>4 DEF Knows, Matches, Objects
  <2>3. Good(i, row'[i], obj'[i])
    BY <2>1, <2>2 DEF Writes
  <2> HIDE DEF Good
  <2> QED
    BY <1>w, <2>1, <2>3 DEF Writes
<1>7. CASE Starts
  <2>1. ASSUME NEW i \in Rows PROVE Good(i, row'[i], obj'[i])
    <3>1. row'[i] = row[i] \/ row'[i].state = "compensated"
      BY <1>7 DEF Starts
    <3> QED
      BY <1>k, <3>1
  <2> HIDE DEF Good
  <2> QED
    BY <1>z, <2>1
<1>8. ASSUME Steps, UNCHANGED obj PROVE Recorded'
  <2>1. CASE Halts \/ Turns \/ Observes \/ Passes \/ Resends \/ UndoEnds
    BY <1>1, <2>1 DEF Halts, Turns, Observes, Passes, Kept, Resends, UndoEnds
  <2>2. CASE Refused \/ Undone
    BY <1>2, <2>2 DEF Refused, Undone, Writes
  <2>3. ASSUME NEW i \in Rows, Undoing(i) PROVE Recorded'
    BY <1>2, <2>3 DEF Undoing
  <2> QED
    BY <1>3, <1>4, <1>5, <1>6, <1>8, <2>1, <2>2, <2>3 DEF Steps
<1> QED
  BY <1>1, <1>7, <1>8, <1>t, NextSteps
     DEF vars, Begins, Cancels, Drops, Outside, Arrival

\* At the start nothing is recorded, seen or sent.
LEMMA InitVersions == Init => Versions
<1> SUFFICES ASSUME Init PROVE Versions
  OBVIOUS
<1>1. Typed /\ TypeOK
  BY InitTyped DEF Typed
<1>2. /\ obj = [i \in Rows |-> Baseline(i)] /\ net = {} /\ proc = Idle
      /\ row = [i \in Rows |-> Untouched]
  BY DEF Init
<1>3. Objects
  <2>1. ASSUME NEW i \in Rows
        PROVE  /\ obj[i].uid <= obj[i].rv /\ ~obj[i].op /\ ~obj[i].dying
    BY <1>1, <1>2, BaselineFacts
  <2> QED
    BY <2>1 DEF Objects
<1>4. Requests
  BY <1>2 DEF Requests
<1>5. proc.pc = "idle" /\ proc.late = {}
  BY <1>2 DEF Idle
<1>6. Seeing
  BY <1>5 DEF Seeing
<1>7. States
  BY <1>5 DEF States
<1>8. \A i \in Rows : row[i].state = "pending"
  BY <1>2 DEF Untouched
<1>9. Recorded
  BY <1>8 DEF Recorded
<1> QED
  BY <1>1, <1>3, <1>4, <1>6, <1>7, <1>9 DEF Versions

LEMMA VersionsStep == Versions /\ [Next]_vars => Versions'
  BY TypeStep, PlacedStep, ObjectsStep, RequestsStep, SeeingStep, RecordedStep, StatesStep
     DEF Versions, Typed

\* No request, of a run or of its undoing, ever changes or removes what somebody
\* else wrote after the plan was made (_check_current, the preconditions of
\* update_owned and of compensate).  Nothing is assumed of how late a request
\* may arrive.
THEOREM LeavesForeign == Spec => ForeignKept
<1>1. ASSUME Versions, [Next]_vars, NEW q \in net, Lands(q)
      PROVE  obj[q.row].uid = 0 \/ obj[q.row].content # "foreign"
  <2>1. Typed /\ Requests /\ q.row \in Rows
    BY <1>1, VersionFacts DEF Versions
  <2>2. q \notin net' /\ obj'[q.row] # obj[q.row]
    BY <1>1 DEF Lands
  <2>3. Arrival(q)
    <3>1. ASSUME NEW p \in net, Arrival(p) PROVE p = q
      BY <2>2, <3>1 DEF Arrival
    <3>2. \/ obj' = obj
          \/ \E p \in net : Arrival(p)
          \/ \E i \in Rows : Outside(i) /\ net' = net
      BY <1>1, <2>1, NextSteps DEF vars, Begins, Cancels, Drops, Outside
    <3> QED
      BY <2>2, <3>1, <3>2
  <2>4. Accepts(q)
    BY <2>2, <2>3 DEF Arrival
  <2> QED
    BY <2>1, <2>4 DEF Accepts, Requests, Knows, Matches
<1>2. Versions /\ [Next]_vars =>
        [\A q \in net : Lands(q) => obj[q.row].uid = 0 \/ obj[q.row].content # "foreign"]_vars
  BY <1>1
<1> QED
  BY <1>2, InitVersions, VersionsStep, PTL DEF Spec, ForeignKept
-----------------------------------------------------------------------------
(* Effects: what the journal says of a row against the writes of that row  *)
(* that are in effect or on their way.                                     *)

\* Nothing of a row is in effect or on its way.
Fresh(i) == landed[i] = 0 /\ \A q \in net : q.row # i

\* The row's first request, or the repetition of a refused one.
First == Op # "replace" \/ (Deleting /\ ~proc.resumed)

\* Where the process is about to write, or is told that nothing was written,
\* nothing was.
Unstarted ==
    /\ \A i \in Rows : row[i].state \in {"pending", "failed"} => Fresh(i)
    /\ proc.pc \in {"look", "intend", "send", "again"} => Fresh(I)
    /\ proc.pc = "await" /\ First =>
          landed[I] = 0 /\ \A q \in net : q.row = I => q.awaited
    /\ proc.pc = "answered" /\ First =>
          (\A q \in net : q.row # I) /\ (~proc.ok => landed[I] = 0)
    /\ \A q1, q2 \in net :
          q1.row = q2.row /\ plan[q1.row].op # "replace" /\ ~q1.undo /\ ~q2.undo => q1 = q2

\* What an object shows of the writes in effect.
Effects ==
    \A i \in Rows :
       /\ obj[i].op => landed[i] # 0 \/ row[i].state \in Reversing
       /\ obj[i].undone => row[i].state \in Reversing /\ landed[i] = 0
       /\ row[i].state = "compensated" => landed[i] = 0
       /\ plan[i].op = "create" /\ landed[i] # 0 => obj[i].op /\ ~obj[i].dying
       /\ plan[i].op = "delete" /\ obj[i].dying => landed[i] # 0
       /\ plan[i].op # "create" /\ row[i].state = "intent" /\ landed[i] # 0 =>
             ~Matches(obj[i], row[i].uid, row[i].rv)

\* What it shows of a request that is still on its way; once the row is more
\* than an intent, that request will be refused.
Unsent ==
    \A q \in net : ~q.undo /\ plan[q.row].op # "replace" =>
       /\ plan[q.row].op = "create" => ~obj[q.row].op
       /\ plan[q.row].op = "delete" /\ obj[q.row].uid = q.uid => ~obj[q.row].dying
       /\ row[q.row].state # "intent" =>
             q.verb # "create" /\ ~Matches(obj[q.row], q.uid, q.rv)

\* An undoing undoes what it can undo, and all of it.
Undos ==
    /\ \A i \in Rows : row[i].state \in Reversing => plan[i].op \in Undoes
    /\ \A q \in net : q.undo => row[q.row].state \in Reversing
    /\ proc.pc = "reversed" /\ proc.ok => landed[I] = 0
    /\ proc.pc \in {"undo", "undoing", "reversed"} =>
          /\ \A i \in Rows : row[i].state # "intent"
          /\ \A i \in Rows : plan[i].op \in Undoes =>
                \/ row[i].state \in {"pending", "failed", "compensated"}
                \/ i \in proc.late
                \/ proc.pc # "undo" /\ i = I
    /\ exec.state = "compensated" =>
          /\ proc.pc \in {"idle", "undo"} /\ proc.late = {}
          /\ \A i \in Rows : plan[i].op \in Undoes =>
                row[i].state \in {"pending", "failed", "compensated"}

Journaled == Versions /\ Unstarted /\ Effects /\ Unsent /\ Undos

\* How the journal's row changes; the cluster does not change with it.
LEMMA RowSteps ==
    ASSUME Versions, [Next]_vars, NEW i \in Rows
    PROVE  \/ row'[i] = row[i]
           \/ /\ obj' = obj /\ landed' = landed
              /\ \/ Refused /\ i = I /\ row'[i].state = "failed" /\ row[i].state = "intent"
                 \/ /\ \E o \in Object : Records(o)
                    /\ i = I /\ row'[i].state = "applied"
                    /\ row[i].state \in {"pending", "failed", "intent"}
                 \/ /\ Deleted /\ i = I /\ row'[i].state = "intent" /\ row[i].state = "intent"
                    /\ row'[i].uid = row[i].uid /\ row'[i].rv = row[i].rv
                 \/ /\ Intends /\ i = I /\ row'[i].state = "intent"
                    /\ row[i].state \in {"pending", "failed", "intent"}
                 \/ /\ Readies(i) /\ row'[i].state = "ready"
                    /\ row[i].state \in {"applied", "ready"}
                 \/ /\ Undoing(i) /\ row'[i].state = "compensating"
                    /\ row[i].state \in {"applied", "ready"} /\ plan[i].op \in Undoes
                 \/ /\ Undone /\ i = I /\ row'[i].state = "compensated"
                    /\ row[i].state = "compensating"
                 \/ /\ Starts /\ i \in Undoable /\ row'[i].state = "compensated"
                    /\ row[i].state = "compensating" /\ Reversed(i)

<1>t. Typed /\ Seeing /\ States
  BY DEF Versions
<1>v. /\ proc.late \subseteq Rows /\ (proc.pc \in Working => I \in Rows)
  BY VersionFacts
<1> USE DEF I, At
<1>1. ASSUME Steps, row'[i] # row[i]
      PROVE  \/ Refused /\ i = I /\ row'[i].state = "failed" /\ row[i].state = "intent"
             \/ /\ \E o \in Object : Records(o)
                /\ i = I /\ row'[i].state = "applied"
                /\ row[i].state \in {"pending", "failed", "intent"}
             \/ /\ Deleted /\ i = I /\ row'[i].state = "intent" /\ row[i].state = "intent"
                /\ row'[i].uid = row[i].uid /\ row'[i].rv = row[i].rv
             \/ /\ Intends /\ i = I /\ row'[i].state = "intent"
                /\ row[i].state \in {"pending", "failed", "intent"}
             \/ /\ Readies(i) /\ row'[i].state = "ready"
                /\ row[i].state \in {"applied", "ready"}
             \/ /\ Undoing(i) /\ row'[i].state = "compensating"
                /\ row[i].state \in {"applied", "ready"} /\ plan[i].op \in Undoes
             \/ /\ Undone /\ i = I /\ row'[i].state = "compensated"
                /\ row[i].state = "compensating"
  <2>1. CASE Halts \/ Turns \/ Observes \/ Passes \/ Resends \/ UndoEnds
    BY <1>1, <2>1 DEF Halts, Turns, Observes, Passes, Kept, Resends, UndoEnds
  <2>2. CASE Refused
    BY <1>1, <1>t, <2>2 DEF Refused, Writes, States
  <2>3. ASSUME NEW o \in Object, Records(o)
        PROVE  i = I /\ row'[i].state = "applied"
               /\ row[i].state \in {"pending", "failed", "intent"}
    BY <1>1, <1>t, <2>3 DEF Records, Writes, States
  <2>4. CASE Deleted
    BY <1>1, <1>t, <2>4 DEF Deleted, Writes, States
  <2>5. CASE Intends
    BY <1>1, <1>t, <2>5 DEF Intends, Sends, States
  <2>6. ASSUME NEW j \in Rows, Readies(j)
        PROVE  j = i /\ row'[i].state = "ready" /\ row[i].state \in {"applied", "ready"}
    BY <1>1, <1>t, <2>6 DEF Readies, Writes, States
  <2>7. ASSUME NEW j \in Rows, Undoing(j)
        PROVE  j = i /\ row'[i].state = "compensating"
               /\ row[i].state \in {"applied", "ready"} /\ plan[i].op \in Undoes
    BY <1>1, <1>t, <2>7 DEF Undoing, Writes, States
  <2>8. CASE Undone
    BY <1>1, <1>t, <2>8 DEF Undone, Writes, States
  <2> QED
    BY <1>1, <2>1, <2>2, <2>3, <2>4, <2>5, <2>6, <2>7, <2>8 DEF Steps
<1>2. ASSUME Starts, row'[i] # row[i]
      PROVE  i \in Undoable /\ row'[i].state = "compensated"
             /\ row[i].state = "compensating" /\ Reversed(i)
  BY <1>2 DEF Starts
<1>3. \/ row' = row
      \/ (Steps \/ Starts) /\ obj' = obj /\ landed' = landed
  BY <1>t, NextSteps DEF vars, Begins, Cancels, Drops, Outside, Arrival
<1> QED
  BY <1>1, <1>2, <1>3

\* How a row's object and the writes in effect change; the journal does not
\* change with them.
LEMMA ObjectSteps ==
    ASSUME Versions, [Next]_vars, NEW i \in Rows
    PROVE  \/ obj'[i] = obj[i] /\ landed'[i] = landed[i]
           \/ /\ row' = row /\ exec' = exec
              /\ \/ \E q \in net :
                       /\ Arrival(q) /\ q.row = i /\ Accepts(q) /\ Wrote(q)
                       /\ landed'[i] = IF q.undo THEN 0 ELSE landed[i] + 1
                 \/ Outside(i)
<1>t. Typed
  BY DEF Versions
<1>1. ASSUME NEW q \in net, Arrival(q)
      PROVE  \/ obj'[i] = obj[i] /\ landed'[i] = landed[i]
             \/ /\ row' = row /\ exec' = exec /\ q.row = i /\ Accepts(q) /\ Wrote(q)
                /\ landed'[i] = IF q.undo THEN 0 ELSE landed[i] + 1
  BY <1>1 DEF Arrival
<1>2. ASSUME NEW j \in Rows, Outside(j)
      PROVE  \/ obj'[i] = obj[i] /\ landed'[i] = landed[i]
             \/ row' = row /\ exec' = exec /\ i = j
  BY <1>2 DEF Outside
<1> QED
  BY <1>1, <1>2, <1>t, NextSteps DEF vars, Begins, Cancels, Drops

\* A row that is fresh stays so until a request of its own is sent.
LEMMA FreshKept ==
    ASSUME Versions, [Next]_vars, NEW i \in Rows, Fresh(i),
           Intends \/ Resends => I # i, ~Undoing(i)
    PROVE  Fresh(i)'
<1>t. Typed /\ landed[i] \in Nat
  BY Fields DEF Versions, Typed
<1>1. landed'[i] = 0
  BY <1>t, ObjectSteps DEF Fresh, Outside
<1>2. \A q \in net' : q.row # i
  BY <1>t, NetSteps DEF Fresh
<1> QED
  BY <1>1, <1>2 DEF Fresh
\* The kinds of changes to the requests under way.
LEMMA NetKinds ==
    ASSUME Typed, [Next]_vars
    PROVE  net' \subseteq net \/ net' = Orphaned \/ Intends \/ Resends
           \/ \E i \in Rows : Undoing(i)
<1>1. ASSUME Steps
      PROVE  net' = net \/ net' = Orphaned \/ Intends \/ Resends
             \/ \E i \in Rows : Undoing(i)
  BY <1>1 DEF Steps, Halts, Refused, Turns, Observes, Kept, Passes, Records, Deleted,
              Readies, Undone, UndoEnds
<1> QED
  BY <1>1, NextSteps DEF vars, Starts, Begins, Cancels, Outside, Arrival, Drops

\* A row that is planned again, or that failed, was never written.
LEMMA PendingFresh ==
    ASSUME Settles = TRUE, Journaled, [Next]_vars, NEW i \in Rows,
           row'[i].state \in {"pending", "failed"}
    PROVE  Fresh(i)'
<1>t. Versions /\ Unstarted /\ States /\ Seeing
  BY DEF Journaled, Versions
<1>1. CASE row'[i] = row[i]
  <2>1. Fresh(i)
    BY <1>1, <1>t DEF Unstarted
  <2>2. Intends \/ Resends => I # i
    <3>1. ASSUME Intends, I = i PROVE FALSE
      <4>1. row'[i].state = "intent"
        BY <3>1 DEF Intends
      <4> QED
        BY <4>1
    <3>2. ASSUME Resends, I = i PROVE FALSE
      <4>1. row[i].state = "intent"
        BY <1>t, <3>2 DEF Resends, States, At
      <4> QED
        BY <1>1, <4>1
    <3> QED
      BY <3>1, <3>2
  <2>3. ~Undoing(i)
    BY DEF Undoing, Writes
  <2> QED
    BY <1>t, <2>1, <2>2, <2>3, FreshKept
<1>2. CASE row'[i] # row[i]
  <2>1. Refused /\ i = I /\ row[i].state = "intent"
    BY <1>t, <1>2, RowSteps
  <2>2. Fresh(i)
    BY <1>t, <2>1 DEF Refused, Unstarted, First, At, Fresh
  <2>3. ~Intends /\ ~Resends /\ ~Undoing(i)
    BY <2>1 DEF Refused, Intends, Resends, Undoing, At
  <2> QED
    BY <1>t, <2>2, <2>3, FreshKept
<1> QED
  BY <1>1, <1>2

\* No row is about to be written, or written again, that was written before.
LEMMA WriterFresh ==
    ASSUME Settles = TRUE, Journaled, [Next]_vars,
           proc'.pc \in {"look", "intend", "send", "again"}
    PROVE  Fresh(I)'
<1>t. /\ Versions /\ Typed /\ Unstarted /\ Effects /\ States /\ Seeing /\ Recorded /\ Objects
      /\ (proc.pc \in Working => I \in Rows)
  BY VersionFacts DEF Journaled, Versions
<1>a. plan' = plan /\ Rows' = Rows
  BY <1>t, Advances
<1> USE DEF I, At, Op
<1>k. ASSUME proc.i \in Rows, Fresh(proc.i), proc'.i = proc.i,
             proc'.pc \in {"look", "intend", "send", "again"}
      PROVE  Fresh(I)'
  <2>1. ~Intends /\ ~Resends /\ ~Undoing(proc.i)
    BY <1>k DEF Intends, Resends, Sends, Undoing
  <2>2. ASSUME NEW i \in Rows, i = proc.i PROVE Fresh(i)'
    BY <1>k, <1>t, <2>1, <2>2, FreshKept
  <2> QED
    BY <1>k, <2>2 DEF Fresh
<1>1. CASE proc' = proc
  BY <1>1, <1>k, <1>t DEF Unstarted, Working
<1>2. CASE Turns
  <2>1. proc'.i = proc.i
    BY <1>2 DEF Turns, Same, Still
  <2>2. CASE proc'.pc = "look"
    <3>1. I \in Rows
      BY <1>2, <2>2 DEF Turns
    <3>2. CASE row[I].state \in {"pending", "failed"}
      BY <1>t, <1>k, <2>1, <2>2, <3>1, <3>2 DEF Unstarted
    <3>3. CASE row[I].state = "intent" /\ Unwritten
      <4>1. \A q \in net : q.row # I
        BY <3>3 DEF Unwritten
      <4>2. landed[I] = 0
        <5>1. CASE row[I].uid = 0
          <6>1. Op = "create" /\ obj[I].uid = 0
            BY <3>3, <5>1 DEF Unwritten, Current
          <6> QED
            BY <1>t, <3>1, <6>1 DEF Effects, Objects
        <5>2. CASE row[I].uid # 0
          <6>1. obj[I].uid = row[I].uid /\ obj[I].rv = row[I].rv
            BY <3>3, <5>2 DEF Unwritten, Current
          <6>2. Op # "create"
            BY <1>t, <3>1, <3>3, <5>2 DEF Recorded
          <6> QED
            BY <1>t, <3>1, <3>3, <6>1, <6>2 DEF Effects, Matches
        <5> QED
          BY <5>1, <5>2
      <4> QED
        BY <1>k, <2>1, <2>2, <3>1, <4>1, <4>2 DEF Fresh
    <3> QED
      BY <1>2, <2>2, <3>2, <3>3 DEF Turns
  <2>3. CASE proc'.pc = "send"
    <3>1. proc.pc = "intend"
      BY <1>2, <2>3 DEF Turns
    <3> QED
      BY <1>t, <1>k, <2>1, <2>3, <3>1 DEF Unstarted, Working
  <2>4. CASE proc'.pc = "again"
    <3>1. proc.pc = "answered" /\ ~proc.ok /\ Op = "apply" /\ I \in Rows
      BY <1>2, <1>t, <2>4 DEF Turns, Working
    <3>2. Fresh(I)
      BY <1>t, <3>1 DEF Unstarted, First, Fresh
    <3> QED
      BY <1>k, <2>1, <2>4, <3>1, <3>2
  <2> QED
    BY <1>2, <2>2, <2>3, <2>4 DEF Turns
<1>3. CASE Observes
  <2>1. proc.pc = "look" /\ proc'.i = proc.i
    BY <1>3 DEF Observes, Still
  <2> QED
    BY <1>t, <1>k, <2>1 DEF Unstarted, Working
<1>4. ASSUME NEW q \in net, Arrival(q) PROVE Fresh(I)'
  <2>1. ~q.awaited
    BY <1>4, VersionFacts, <1>t DEF Arrival
  <2> QED
    BY <1>1, <1>4, <2>1 DEF Arrival
<1>5. ASSUME Steps PROVE Fresh(I)'
  <2>1. ~Halts /\ ~Refused /\ ~Passes /\ ~Deleted /\ ~Intends /\ ~Resends /\ ~Undone /\ ~UndoEnds
    BY ObservedType DEF Halts, Refused, Passes, Waited, Deleted, Intends, Resends, Sends,
                        Undone, UndoEnds, Idle
  <2>2. ~(\E o \in Object : Records(o)) /\ ~(\E i \in Rows : Readies(i) \/ Undoing(i))
    BY DEF Records, Waited, Readies, Undoing
  <2> QED
    BY <1>2, <1>3, <1>5, <2>1, <2>2 DEF Steps
<1> QED
  BY <1>1, <1>4, <1>5, <1>t, NextSteps DEF vars, Starts, Begins, Cancels, Drops, Outside
\* While the first request of a row is awaited it is the row's only one.
LEMMA AwaitFresh ==
    ASSUME Journaled, [Next]_vars, proc'.pc = "await", First'
    PROVE  landed'[proc'.i] = 0 /\ \A q \in net' : q.row = proc'.i => q.awaited
<1>t. /\ Versions /\ Typed /\ Unstarted /\ States /\ Seeing /\ Recorded
      /\ (proc.pc \in Working => I \in Rows)
      /\ \A q \in net : q.awaited => I = q.row /\ proc.pc = IF q.undo THEN "undoing" ELSE "await"
  BY VersionFacts DEF Journaled, Versions
<1>a. plan' = plan /\ Rows' = Rows
  BY <1>t, Advances
<1> USE DEF I, At, Op
<1>1. CASE Intends
  <2>1. /\ proc.pc = "send" /\ proc'.i = proc.i /\ I \in Rows
        /\ \E verb, o : Sends(verb, o)
    BY <1>1 DEF Intends, Sends, Still
  <2>2. Fresh(I)
    BY <1>t, <2>1 DEF Unstarted
  <2>3. landed'[I] = 0
    <3>1. row'[I].state = "intent"
      BY <1>1 DEF Intends
    <3>2. landed[I] \in Nat
      BY <1>t, <2>1, Fields DEF Typed
    <3> QED
      BY <1>t, <2>1, <2>2, <3>2, ObjectSteps DEF Fresh, Outside
  <2>4. \A q \in net' : q.row = I => q.awaited
    BY <1>t, <2>1, <2>2, SentFields DEF Fresh
  <2> QED
    BY <2>1, <2>3, <2>4
<1>2. CASE Resends
  <2>1. I \in Rows /\ proc'.i = proc.i /\ row' = row /\ \E verb, o : Sends(verb, o)
    BY <1>2 DEF Resends, Sends, Still
  <2>2. proc.pc = "again"
    <3>1. CASE proc.pc = "recreate"
      <4>1. proc'.seen = Absent /\ Op = "replace" /\ row[I].uid = 1
        BY <1>t, <1>2, <2>1, <3>1 DEF Resends, Seeing, States, Recorded
      <4> QED
        BY <1>a, <2>1, <4>1 DEF First, Deleting, Absent
    <3>2. CASE proc.pc = "redelete"
      <4>1. proc'.resumed = proc.resumed /\ proc.resumed /\ Op = "replace"
        BY <1>t, <1>2, <3>2 DEF Resends, Sends, Seeing
      <4> QED
        BY <1>a, <2>1, <4>1 DEF First
    <3> QED
      BY <1>2, <3>1, <3>2 DEF Resends
  <2>3. Fresh(I)
    BY <1>t, <2>2 DEF Unstarted
  <2>4. landed[I] \in Nat /\ landed'[I] = 0
    <3>1. landed[I] \in Nat
      BY <1>t, <2>1, Fields DEF Typed
    <3> QED
      BY <1>t, <2>1, <2>3, <3>1, ObjectSteps DEF Fresh, Outside
  <2>5. \A q \in net' : q.row = I => q.awaited
    BY <1>t, <2>1, <2>3, SentFields DEF Fresh
  <2> QED
    BY <2>1, <2>4, <2>5
<1>3. ASSUME proc' = proc, net' \subseteq net, row' = row
      PROVE  landed'[proc'.i] = 0 /\ \A q \in net' : q.row = proc'.i => q.awaited
  <2>1. proc.pc = "await" /\ First /\ I \in Rows /\ landed[I] \in Nat
    <3>1. proc.pc = "await" /\ First
      BY <1>3, <1>a DEF First, Deleting
    <3> QED
      BY <1>t, <3>1, Fields DEF Typed, Working
  <2>2. landed[I] = 0 /\ \A q \in net : q.row = I => q.awaited
    BY <1>t, <2>1 DEF Unstarted
  <2>3. landed'[I] = 0
    <3>1. ASSUME NEW q \in net, Arrival(q) PROVE q.row # I \/ ~Accepts(q)
      <4>1. ~q.awaited
        BY <1>3, <1>t, <2>1, <3>1 DEF Arrival
      <4> QED
        BY <2>2, <4>1
    <3> QED
      BY <1>t, <2>1, <2>2, <3>1, ObjectSteps DEF Outside
  <2> QED
    BY <1>3, <2>2, <2>3
<1>4. CASE Steps \/ Starts \/ Begins
  <2>1. ~Starts /\ ~Begins /\ ~Halts /\ ~Refused /\ ~Turns /\ ~Observes /\ ~Passes /\ ~Deleted
    BY DEF Starts, Begins, Halts, Refused, Turns, Observes, Passes, Waited, Deleted, Idle
  <2>2. ~Undone /\ ~UndoEnds /\ ~(\E o \in Object : Records(o))
          /\ ~(\E i \in Rows : Readies(i) \/ Undoing(i))
    BY DEF Records, Waited, Readies, Undoing, Undone, UndoEnds, Idle
  <2> QED
    BY <1>1, <1>2, <1>4, <2>1, <2>2 DEF Steps
<1>5. ASSUME NEW q \in net, Arrival(q)
      PROVE  landed'[proc'.i] = 0 /\ \A p \in net' : p.row = proc'.i => p.awaited
  <2>1. proc' = proc /\ net' \subseteq net /\ row' = row
    BY <1>5, VersionFacts, <1>t DEF Arrival
  <2> QED
    BY <1>3, <2>1
<1> QED
  BY <1>3, <1>4, <1>5, <1>t, NextSteps DEF vars, Cancels, Drops, Outside

\* And when it is answered there is none, and nothing was written if it was refused.
LEMMA AnsweredFresh ==
    ASSUME Journaled, [Next]_vars, proc'.pc = "answered", First'
    PROVE  (\A q \in net' : q.row # proc'.i) /\ (~proc'.ok => landed'[proc'.i] = 0)
<1>t. /\ Versions /\ Typed /\ Unstarted /\ States /\ Seeing /\ Recorded /\ Requests /\ Placed
      /\ (proc.pc \in Working => I \in Rows)
      /\ \A q \in net : q.awaited => I = q.row /\ proc.pc = IF q.undo THEN "undoing" ELSE "await"
  BY VersionFacts DEF Journaled, Versions, Typed
<1>a. plan' = plan /\ Rows' = Rows
  BY <1>t, Advances
<1> USE DEF I, At, Op
<1>1. ASSUME proc' = proc, net' \subseteq net, row' = row
      PROVE  (\A q \in net' : q.row # proc'.i) /\ (~proc'.ok => landed'[proc'.i] = 0)
  <2>1. proc.pc = "answered" /\ First /\ I \in Rows /\ landed[I] \in Nat
    <3>1. proc.pc = "answered" /\ First
      BY <1>1, <1>a DEF First, Deleting
    <3> QED
      BY <1>t, <3>1, Fields DEF Typed, Working
  <2>2. (\A q \in net : q.row # I) /\ (~proc.ok => landed[I] = 0)
    BY <1>t, <2>1 DEF Unstarted
  <2>3. landed[I] = 0 => landed'[I] = 0
    BY <1>t, <2>1, <2>2, ObjectSteps DEF Outside
  <2> QED
    BY <1>1, <2>2, <2>3
<1>2. ASSUME NEW q \in net, Arrival(q), q.awaited
      PROVE  (\A p \in net' : p.row # proc'.i) /\ (~proc'.ok => landed'[proc'.i] = 0)
  <2>1. /\ proc'.i = proc.i /\ row' = row /\ net' = net \ {q} /\ ~q.undo
        /\ proc'.resumed = proc.resumed /\ proc'.ok = Accepts(q)
        /\ q.row = I /\ proc.pc = "await" /\ I \in Rows
        /\ proc'.seen = IF Accepts(q) /\ q.verb # "delete" THEN obj'[I] ELSE proc.seen
        /\ ~Accepts(q) => landed' = landed
    BY <1>2, <1>t DEF Arrival, Still, Working
  <2>2. First
    <3>1. CASE Accepts(q) /\ q.verb # "delete" /\ Op = "replace"
      <4>1. q.verb = "create"
        BY <1>t, <2>1, <3>1, VersionFacts DEF Requests, VerbOf
      <4>2. row[I].state = "intent"
        BY <1>t, <2>1 DEF States
      <4>3. row[I].uid = 1 /\ row[I].uid <= row[I].rv /\ row[I].rv <= obj[I].rv
              /\ row[I].rv \in Nat /\ obj[I].rv \in Nat
        BY <1>t, <2>1, <3>1, <4>2, VersionFacts DEF Recorded, Knows
      <4>4. obj'[I].uid = obj[I].rv + 1
        BY <1>2, <2>1, <3>1, <4>1 DEF Arrival, Wrote
      <4>5. obj'[I].uid # row[I].uid
        BY <4>3, <4>4
      <4> QED
        BY <1>a, <2>1, <3>1, <4>5 DEF First, Deleting
    <3>2. CASE ~(Accepts(q) /\ q.verb # "delete") \/ Op # "replace"
      BY <1>a, <2>1, <3>2 DEF First, Deleting
    <3> QED
      BY <3>1, <3>2
  <2>3. landed[I] = 0 /\ \A p \in net : p.row = I => p.awaited
    BY <1>t, <2>1, <2>2 DEF Unstarted
  <2>4. \A p \in net' : p.row # I
    BY <1>2, <1>t, <2>1, <2>3 DEF Placed
  <2> QED
    BY <2>1, <2>3, <2>4
<1>3. CASE Steps \/ Starts \/ Begins
  <2>1. ~Starts /\ ~Begins /\ ~Halts /\ ~Refused /\ ~Turns /\ ~Observes /\ ~Passes /\ ~Deleted
    BY DEF Starts, Begins, Halts, Refused, Turns, Observes, Passes, Waited, Deleted, Idle
  <2>2. ~Undone /\ ~UndoEnds /\ ~(\E o \in Object : Records(o))
          /\ ~(\E i \in Rows : Readies(i) \/ Undoing(i)) /\ ~Intends /\ ~Resends
    BY DEF Records, Waited, Readies, Undoing, Undone, UndoEnds, Idle, Intends, Resends, Sends
  <2> QED
    BY <1>3, <2>1, <2>2 DEF Steps
<1>4. ASSUME NEW q \in net, Arrival(q), ~q.awaited
      PROVE  (\A p \in net' : p.row # proc'.i) /\ (~proc'.ok => landed'[proc'.i] = 0)
  BY <1>1, <1>4 DEF Arrival
<1> QED
  BY <1>1, <1>2, <1>3, <1>4, <1>t, NextSteps DEF vars, Cancels, Drops, Outside

\* At most one request of a row that is not a replace is on its way.
LEMMA SingleRequest ==
    ASSUME Journaled, [Next]_vars, NEW q1 \in net', NEW q2 \in net',
           q1.row = q2.row, plan[q1.row].op # "replace", ~q1.undo, ~q2.undo
    PROVE  q1 = q2
<1>t. Versions /\ Typed /\ Unstarted /\ Seeing /\ net \subseteq Request
  BY Fields DEF Journaled, Versions, Typed
<1>1. CASE net' \subseteq net
  BY <1>1, <1>t DEF Unstarted
<1>2. CASE net' = Orphaned
  <2>1. PICK p1 \in net : q1 = [p1 EXCEPT !.awaited = FALSE]
    BY <1>2 DEF Orphaned
  <2>2. PICK p2 \in net : q2 = [p2 EXCEPT !.awaited = FALSE]
    BY <1>2 DEF Orphaned
  <2>3. p1 \in Request /\ p2 \in Request
    BY <1>t
  <2>4. p1.row = q1.row /\ p2.row = q2.row /\ p1.undo = q1.undo /\ p2.undo = q2.undo
    BY <2>1, <2>2, <2>3 DEF Request
  <2>5. p1 = p2
    BY <1>t, <2>4 DEF Unstarted
  <2> QED
    BY <2>1, <2>2, <2>5
<1>3. ASSUME Intends \/ Resends PROVE q1 = q2
  <2>1. PICK verb, o : Sends(verb, o)
    BY <1>3 DEF Intends, Resends
  <2>2. PICK r : net' = net \cup {r} /\ r.row = I
    BY <1>t, <2>1, SentFields
  <2>3. CASE q1.row = I
    <3>1. Op # "replace"
      BY <2>3 DEF Op
    <3>2. proc.pc \in {"send", "again"}
      BY <1>3, <1>t, <3>1 DEF Intends, Resends, At, Seeing
    <3>3. \A q \in net : q.row # I
      BY <1>t, <3>2 DEF Unstarted, Fresh
    <3> QED
      BY <2>2, <2>3, <3>3
  <2>4. CASE q1.row # I
    BY <1>t, <2>2, <2>4 DEF Unstarted
  <2> QED
    BY <2>3, <2>4
<1>4. ASSUME NEW i \in Rows, Undoing(i) PROVE q1 = q2
  <2>1. PICK r : net' = net \cup {r} /\ r.undo
    BY <1>4, <1>t, UndoFields
  <2> QED
    BY <1>t, <2>1 DEF Unstarted
<1> QED
  BY <1>1, <1>2, <1>3, <1>4, <1>t, NetKinds

LEMMA UnstartedStep ==
    ASSUME Settles = TRUE, Journaled, [Next]_vars PROVE Unstarted'
<1>a. plan' = plan /\ Rows' = Rows
  BY Advances DEF Journaled, Versions
<1>1. \A i \in Rows : row'[i].state \in {"pending", "failed"} => Fresh(i)'
  BY PendingFresh
<1>2. proc'.pc \in {"look", "intend", "send", "again"} => Fresh(I)'
  BY WriterFresh
<1>3. proc'.pc = "await" /\ First' =>
          landed'[proc'.i] = 0 /\ \A q \in net' : q.row = proc'.i => q.awaited
  BY AwaitFresh
<1>4. proc'.pc = "answered" /\ First' =>
          (\A q \in net' : q.row # proc'.i) /\ (~proc'.ok => landed'[proc'.i] = 0)
  BY AnsweredFresh
<1>5. \A q1, q2 \in net' :
          q1.row = q2.row /\ plan[q1.row].op # "replace" /\ ~q1.undo /\ ~q2.undo => q1 = q2
  BY SingleRequest
<1> QED
  BY <1>a, <1>1, <1>2, <1>3, <1>4, <1>5 DEF Unstarted, I
\* A request that would be accepted is for an intent, or undoes.
LEMMA AcceptedFor ==
    ASSUME Journaled, NEW q \in net, Accepts(q)
    PROVE  /\ q.row \in Rows
           /\ ~q.undo /\ plan[q.row].op # "replace" => row[q.row].state = "intent"
           /\ q.undo => row[q.row].state \in Reversing /\ plan[q.row].op \in Undoes
           /\ row[q.row].state \in Reversing => q.undo
<1>1. Unsent /\ Undos /\ q.row \in Rows /\ q.undo \in BOOLEAN
  BY VersionFacts DEF Journaled
<1>2. ~q.undo /\ plan[q.row].op # "replace" => row[q.row].state = "intent"
  BY <1>1 DEF Unsent, Accepts, Matches
<1>3. row[q.row].state \in Reversing => plan[q.row].op \in Undoes
  BY <1>1 DEF Undos
<1>4. row[q.row].state = "intent" => row[q.row].state \notin Reversing
  BY DEF Reversing
<1> QED
  BY <1>1, <1>2, <1>3, <1>4 DEF Undos, Undoes

LEMMA EffectsStep == ASSUME Journaled, [Next]_vars PROVE Effects'
<1>t. /\ Versions /\ Typed /\ Effects /\ Undos /\ Unstarted /\ Objects /\ Recorded /\ Requests
  BY DEF Journaled, Versions
<1>a. plan' = plan /\ Rows' = Rows
  BY <1>t, Advances
<1> SUFFICES ASSUME NEW i \in Rows
             PROVE  /\ obj'[i].op => landed'[i] # 0 \/ row'[i].state \in Reversing
                    /\ obj'[i].undone => row'[i].state \in Reversing /\ landed'[i] = 0
                    /\ row'[i].state = "compensated" => landed'[i] = 0
                    /\ plan[i].op = "create" /\ landed'[i] # 0 => obj'[i].op /\ ~obj'[i].dying
                    /\ plan[i].op = "delete" /\ obj'[i].dying => landed'[i] # 0
                    /\ plan[i].op # "create" /\ row'[i].state = "intent" /\ landed'[i] # 0 =>
                          ~Matches(obj'[i], row'[i].uid, row'[i].rv)
  BY <1>a DEF Effects, Reversing
<1> DEFINE Good(s, o, l) ==
              /\ o.op => l # 0 \/ s \in Reversing
              /\ o.undone => s \in Reversing /\ l = 0
              /\ s = "compensated" => l = 0
              /\ plan[i].op = "create" /\ l # 0 => o.op /\ ~o.dying
              /\ plan[i].op = "delete" /\ o.dying => l # 0
           Newer(r, o, l) ==
              plan[i].op # "create" /\ r.state = "intent" /\ l # 0 => ~Matches(o, r.uid, r.rv)
<1>0. Good(row[i].state, obj[i], landed[i]) /\ Newer(row[i], obj[i], landed[i])
  BY <1>t DEF Effects
<1>i. /\ obj[i] \in Object /\ landed[i] \in Nat /\ row[i] \in Row
      /\ obj[i].uid <= obj[i].rv /\ (obj[i].op => obj[i].uid # 0)
      /\ plan[i].op # "create" /\ row[i].state = "intent" =>
            row[i].uid = 1 /\ 1 <= row[i].rv /\ row[i].rv <= obj[i].rv
      /\ obj[i].rv \in Nat /\ row[i].rv \in Nat /\ row[i].uid \in Nat
  <2>1. obj[i] \in Object /\ landed[i] \in Nat /\ row[i] \in Row
    BY <1>t, Fields DEF Typed
  <2> QED
    BY <1>t, <2>1 DEF Objects, Recorded, Knows
<1>1. CASE row'[i] = row[i]
  <2>1. CASE obj'[i] = obj[i] /\ landed'[i] = landed[i]
    BY <1>0, <1>1, <2>1
  <2>2. ASSUME NEW q \in net, q.row = i, Accepts(q), Wrote(q),
               landed'[i] = IF q.undo THEN 0 ELSE landed[i] + 1
        PROVE  Good(row[i].state, obj'[i], landed'[i]) /\ Newer(row[i], obj'[i], landed'[i])
    <3>1. /\ q.verb \in {"create", "patch", "delete"} /\ q.undo \in BOOLEAN /\ VerbOf(q)
          /\ ~q.undo /\ plan[i].op # "replace" => row[i].state = "intent"
          /\ q.undo => row[i].state \in Reversing /\ plan[i].op \in Undoes
          /\ row[i].state \in Reversing => q.undo
      BY <1>t, <2>2, AcceptedFor, VersionFacts DEF Requests
    <3>2. CASE q.undo
      <4>1. landed'[i] = 0 /\ row[i].state \in Reversing /\ plan[i].op # "delete"
        BY <2>2, <3>1, <3>2 DEF Undoes
      <4> QED
        BY <4>1
    <3>3. CASE ~q.undo
      <4>1. landed'[i] = landed[i] + 1 /\ landed'[i] # 0 /\ row[i].state \notin Reversing
        BY <1>i, <2>2, <3>1, <3>3
      <4>2. ~obj'[i].undone
        BY <1>0, <2>2, <3>1, <3>3, <4>1 DEF Wrote
      <4>3. plan[i].op = "create" => obj'[i].op /\ ~obj'[i].dying
        BY <2>2, <3>1, <3>3 DEF Wrote, VerbOf
      <4>4. row[i].state # "compensated"
        BY <4>1 DEF Reversing
      <4>5. Good(row[i].state, obj'[i], landed'[i])
        BY <4>1, <4>2, <4>3, <4>4
      <4>6. obj'[i].rv = obj[i].rv + 1
        BY <2>2 DEF Wrote
      <4>7. Newer(row[i], obj'[i], landed'[i])
        BY <1>i, <4>6 DEF Matches
      <4> QED
        BY <4>5, <4>7
    <3> QED
      BY <3>1, <3>2, <3>3
  <2>3. ASSUME Outside(i)
        PROVE  Good(row[i].state, obj'[i], landed'[i]) /\ Newer(row[i], obj'[i], landed'[i])
    <3>1. CASE /\ obj'[i].uid = 0 /\ obj'[i].rv = obj[i].rv
               /\ ~obj'[i].op /\ ~obj'[i].undone /\ ~obj'[i].dying
               /\ \/ obj[i].dying /\ landed'[i] = landed[i]
                  \/ landed'[i] = IF obj[i].op THEN 0 ELSE landed[i]
      BY <1>0, <1>i, <3>1 DEF Matches
    <3>2. CASE /\ obj'[i].rv = obj[i].rv + 1
               /\ obj'[i].op = obj[i].op /\ obj'[i].undone = obj[i].undone
               /\ obj'[i].dying = obj[i].dying
               /\ landed'[i] = landed[i]
      BY <1>0, <1>i, <3>2 DEF Matches
    <3>3. CASE /\ obj[i].uid = 0 /\ obj'[i].rv = obj[i].rv + 1
               /\ ~obj'[i].op /\ ~obj'[i].undone /\ ~obj'[i].dying
               /\ landed'[i] = landed[i]
      BY <1>0, <1>i, <3>3 DEF Matches
    <3> QED
      BY <2>3, <3>1, <3>2, <3>3 DEF Outside
  <2>4. Good(row[i].state, obj'[i], landed'[i]) /\ Newer(row[i], obj'[i], landed'[i])
    <3> HIDE DEF Good, Newer
    <3> QED
      BY <1>0, <1>t, <2>2, <2>3, ObjectSteps
  <2> QED
    BY <1>1, <2>4
<1>2. CASE row'[i] # row[i]
  <2>1. obj'[i] = obj[i] /\ landed'[i] = landed[i]
    BY <1>t, <1>2, RowSteps
  <2>3. CASE row'[i].state = "compensated"
    <3>1. row[i].state = "compensating" /\ ((Undone /\ i = I) \/ Reversed(i))
      BY <1>t, <1>2, <2>3, RowSteps
    <3>2. landed[i] = 0
      <4>1. CASE Undone /\ i = I
        BY <1>t, <4>1 DEF Undone, Undos, At
      <4>2. CASE Reversed(i)
        BY <1>0, <1>i, <4>2 DEF Reversed
      <4> QED
        BY <3>1, <4>1, <4>2
    <3> QED
      BY <1>0, <2>1, <2>3, <3>1, <3>2 DEF Reversing
  <2>4. CASE row'[i].state # "compensated"
    <3>1. row[i].state \in Reversing => row'[i].state \in Reversing
      BY <1>t, <1>2, RowSteps DEF Reversing
    <3>2. Good(row'[i].state, obj'[i], landed'[i])
      BY <1>0, <2>1, <2>4, <3>1
    <3>3. ASSUME row'[i].state = "intent" PROVE Newer(row'[i], obj'[i], landed'[i])
      <4>1. \/ Intends /\ i = I
            \/ row[i].state = "intent" /\ row'[i].uid = row[i].uid /\ row'[i].rv = row[i].rv
        BY <1>t, <1>2, <3>3, RowSteps
      <4>2. CASE Intends /\ i = I
        BY <1>t, <2>1, <4>2 DEF Intends, At, Unstarted, Fresh
      <4> QED
        BY <1>0, <2>1, <4>1, <4>2
    <3> QED
      BY <3>2, <3>3
  <2> QED
    BY <2>3, <2>4
<1> QED
  BY <1>1, <1>2
LEMMA UnsentStep == ASSUME Journaled, [Next]_vars PROVE Unsent'
<1>t. /\ Versions /\ Typed /\ TypeOK /\ Effects /\ Undos /\ Unstarted /\ Unsent /\ Objects
      /\ Recorded /\ Requests /\ States /\ Seeing /\ (proc.pc \in Working => I \in Rows)
  BY VersionFacts DEF Journaled, Versions, Typed
<1>a. plan' = plan /\ Rows' = Rows
  BY <1>t, Advances
<1> DEFINE Good(q, r, o) ==
              /\ plan[q.row].op = "create" => ~o.op
              /\ plan[q.row].op = "delete" /\ o.uid = q.uid => ~o.dying
              /\ r.state # "intent" => q.verb # "create" /\ ~Matches(o, q.uid, q.rv)
<1> SUFFICES ASSUME NEW q \in net', ~q.undo, plan[q.row].op # "replace"
             PROVE  Good(q, row'[q.row], obj'[q.row])
  BY <1>a DEF Unsent
\* A request that stays on its way.
<1>1. ASSUME NEW p \in net, ~p.undo, plan[p.row].op # "replace", ~Arrival(p)
      PROVE  Good(p, row'[p.row], obj'[p.row])
  <2> DEFINE i == p.row
  <2>0. /\ i \in Rows /\ p.uid \in Nat /\ p.rv \in Nat /\ VerbOf(p)
        /\ p.verb \in {"create", "patch", "delete"}
        /\ p.verb # "create" => p.uid # 0 /\ p.rv <= obj[i].rv
                                /\ (Matches(obj[i], p.uid, p.rv) => obj[i].content = "old")
        /\ Good(p, row[i], obj[i])
        /\ obj[i] \in Object /\ obj[i].rv \in Nat /\ plan[i].op \in Ops
    BY <1>t, <1>1, VersionFacts DEF Requests, Knows, Unsent
  <2>1. CASE obj'[i] = obj[i] /\ row'[i] = row[i]
    BY <2>0, <2>1
  <2>2. ASSUME NEW x \in net, Arrival(x), x.row = i, Accepts(x), Wrote(x), row' = row
        PROVE  Good(p, row'[i], obj'[i])
    <3>1. x.undo
      <4>1. ASSUME ~x.undo PROVE FALSE
        <5>1. x = p
          BY <1>t, <1>1, <2>2, <4>1 DEF Unstarted
        <5> QED
          BY <1>1, <2>2, <5>1
      <4> QED
        BY <4>1
    <3>2. row[i].state \in Reversing /\ plan[i].op \in Undoes
      BY <2>2, <3>1, AcceptedFor
    <3>3. p.verb # "create"
      BY <2>0, <3>2 DEF Reversing
    <3>4. plan[i].op \notin {"create", "delete"}
      BY <1>1, <2>0, <3>2, <3>3 DEF VerbOf, Undoes
    <3>5. obj'[i].rv = obj[i].rv + 1
      BY <2>2 DEF Wrote
    <3> QED
      BY <2>0, <3>3, <3>4, <3>5 DEF Matches
  <2>3. ASSUME Outside(i), row' = row PROVE Good(p, row'[i], obj'[i])
    <3>1. CASE obj'[i].uid = 0 /\ ~obj'[i].op /\ ~obj'[i].dying
      BY <2>0, <2>3, <3>1 DEF Matches
    <3>2. CASE /\ obj'[i].uid = obj[i].uid /\ obj'[i].rv = obj[i].rv + 1
               /\ obj'[i].op = obj[i].op /\ obj'[i].dying = obj[i].dying
      BY <2>0, <2>3, <3>2 DEF Matches
    <3>3. CASE obj'[i].rv = obj[i].rv + 1 /\ ~obj'[i].op /\ ~obj'[i].dying
      BY <2>0, <2>3, <3>3 DEF Matches
    <3> QED
      BY <2>3, <3>1, <3>2, <3>3 DEF Outside
  <2>4. ASSUME obj'[i] = obj[i], row[i].state = "intent", row'[i].state # "intent"
        PROVE  Good(p, row'[i], obj'[i])
    <3>1. i = I /\ (Refused \/ \E o \in Object : Records(o))
      BY <1>t, <2>0, <2>4, RowSteps
    <3>2. CASE Refused
      BY <1>t, <1>1, <3>1, <3>2 DEF Refused, Unstarted, First, Fresh, At, Op
    <3>3. ASSUME NEW o \in Object, Records(o) PROVE Good(p, row'[i], obj'[i])
      <4>1. CASE At("look") \/ At("answered")
        BY <1>t, <1>1, <3>1, <3>3, <4>1 DEF Records, Unstarted, First, Fresh, At, Op
      <4>2. CASE Op = "delete" /\ (Current.uid = 0 \/ Terminating)
        <5>1. p.verb # "create"
          BY <2>0, <3>1, <4>2 DEF VerbOf, Op
        <5>2. ~Matches(obj[i], p.uid, p.rv)
          BY <2>0, <3>1, <4>2, <5>1 DEF Matches, Current, Terminating, Op
        <5> QED
          BY <2>0, <2>4, <5>1, <5>2
      <4>3. CASE WrittenByRow
        <5>1. obj[i].content = "new" /\ (Op # "apply" => obj[i].op)
          BY <3>1, <4>3 DEF WrittenByRow, Current
        <5>2. Op # "create"
          BY <2>0, <3>1, <5>1 DEF Op
        <5>3. p.verb # "create"
          BY <1>1, <2>0, <3>1, <5>2 DEF VerbOf, Op
        <5>4. ~Matches(obj[i], p.uid, p.rv)
          BY <2>0, <5>1, <5>3
        <5> QED
          BY <2>0, <2>4, <5>3, <5>4
      <4> QED
        BY <3>3, <4>1, <4>2, <4>3 DEF Records
    <3> QED
      BY <3>1, <3>2, <3>3
  <2>5. ASSUME obj'[i] = obj[i], row[i].state # "intent" \/ row'[i].state = "intent"
        PROVE  Good(p, row'[i], obj'[i])
    BY <2>0, <2>5
  <2>6. \/ obj'[i] = obj[i]
        \/ Outside(i) /\ row' = row
        \/ \E x \in net : Arrival(x) /\ x.row = i /\ Accepts(x) /\ Wrote(x) /\ row' = row
    BY <1>t, <2>0, ObjectSteps
  <2> HIDE DEF Good, i
  <2>7. Good(p, row'[i], obj'[i])
    BY <2>2, <2>3, <2>4, <2>5, <2>6
  <2> QED
    BY <2>7 DEF i
<1>2. CASE q \in net
  <2>1. ~Arrival(q)
    BY DEF Arrival
  <2> HIDE DEF Good
  <2> QED
    BY <1>1, <1>2, <2>1
<1>3. ASSUME q \notin net, NEW p \in net, q.row = p.row, q.verb = p.verb, q.uid = p.uid,
             q.rv = p.rv, q.undo = p.undo
      PROVE  Good(q, row'[q.row], obj'[q.row])
  <2>1. ~Arrival(p)
    BY <1>3 DEF Arrival
  <2>2. Good(p, row'[p.row], obj'[p.row])
    <3> HIDE DEF Good
    <3> QED
      BY <1>1, <1>3, <2>1
  <2> QED
    BY <1>3, <2>2
<1>4. ASSUME Intends, q.row = I PROVE Good(q, row'[q.row], obj'[q.row])
  <2>1. I \in Rows /\ row'[I].state = "intent" /\ proc.pc = "send"
    BY <1>4 DEF Intends, Sends, At
  <2>2. landed[I] = 0 /\ row[I].state \in {"pending", "failed", "intent"}
    BY <1>t, <2>1 DEF Unstarted, Fresh, States
  <2>3. obj'[I] = obj[I]
    <3>1. CASE row'[I] # row[I]
      BY <1>t, <2>1, <3>1, RowSteps
    <3>2. CASE row'[I] = row[I]
      BY <1>t, <1>4, NextSteps, <2>1 DEF vars, Begins, Cancels, Arrival, Drops, Outside,
         Intends, Sends, Working
    <3> QED
      BY <3>1, <3>2
  <2> QED
    BY <1>t, <1>4, <2>1, <2>2, <2>3 DEF Effects, Reversing
<1>5. ASSUME Resends, q.row = I PROVE Good(q, row'[q.row], obj'[q.row])
  <2>1. I \in Rows /\ row'[I].state = "intent" /\ Op = "apply"
    <3>1. I \in Rows /\ row' = row /\ (At("again") \/ At("recreate") \/ At("redelete"))
      BY <1>5 DEF Resends, Sends
    <3> QED
      BY <1>t, <1>5, <3>1 DEF States, Seeing, At, Op
  <2> QED
    BY <1>5, <2>1 DEF Op
<1> QED
  BY <1>2, <1>3, <1>4, <1>5, <1>t, NetSteps
LEMMA UndosStep == ASSUME Journaled, [Next]_vars PROVE Undos'
<1>t. /\ Versions /\ Typed /\ Undos /\ States /\ proc.late \subseteq Rows
      /\ (proc.pc \in Working => I \in Rows)
      /\ \A i \in Rows : row[i].state \in {"pending", "failed", "intent", "applied", "ready",
                                           "compensating", "compensated"}
      /\ \A i \in Rows : plan[i].op \in Ops /\ landed[i] \in Nat
      /\ \A q \in net : /\ q.row \in Rows /\ q.undo \in BOOLEAN /\ q.awaited \in BOOLEAN
                        /\ q.awaited => I = q.row
                              /\ proc.pc = IF q.undo THEN "undoing" ELSE "await"
  <2>1. Versions /\ Undos /\ TypeOK
    BY DEF Journaled, Versions, Typed
  <2> QED
    BY <2>1, VersionFacts, Fields DEF Versions
<1>a. plan' = plan /\ Rows' = Rows
  BY <1>t, Advances
<1> USE DEF I, At
<1>1. ASSUME NEW i \in Rows, row'[i].state \in Reversing PROVE plan[i].op \in Undoes
  <2>1. row[i].state \in Reversing \/ plan[i].op \in Undoes
    BY <1>t, <1>1, RowSteps DEF Reversing
  <2> QED
    BY <1>t, <2>1 DEF Undos
<1>2. ASSUME NEW i \in Rows, row[i].state \in Reversing PROVE row'[i].state \in Reversing
  BY <1>t, <1>2, RowSteps DEF Reversing
<1>3. ASSUME NEW q \in net', q.undo PROVE q.row \in Rows /\ row'[q.row].state \in Reversing
  <2>1. CASE q \in net \/ \E p \in net : q.row = p.row /\ q.undo = p.undo
    BY <1>t, <1>2, <1>3, <2>1 DEF Undos
  <2>2. ASSUME NEW i \in Rows, Undoing(i), q.row = i
        PROVE  q.row \in Rows /\ row'[q.row].state \in Reversing
    BY <2>2 DEF Undoing, Writes, Reversing
  <2> QED
    BY <1>t, <1>3, <2>1, <2>2, NetSteps
<1>4. ASSUME proc'.pc = "reversed", proc'.ok PROVE landed'[proc'.i] = 0
  <2>1. ASSUME NEW q \in net, Arrival(q), q.awaited PROVE landed'[proc'.i] = 0
    BY <1>t, <1>4, <2>1 DEF Arrival, Still
  <2>2. ASSUME proc' = proc PROVE landed'[proc'.i] = 0
    <3>1. I \in Rows /\ landed[I] = 0 /\ row[I].state \in Reversing
      BY <1>t, <1>4, <2>2 DEF Undos, Working, States, Reversing
    <3>2. ASSUME NEW q \in net, q.row = I, Accepts(q) PROVE q.undo
      BY <3>1, <3>2, AcceptedFor
    <3>3. landed'[I] = 0
      BY <1>t, <3>1, <3>2, ObjectSteps DEF Outside
    <3> QED
      BY <2>2, <3>3
  <2>3. ~Steps /\ ~Starts /\ ~Begins
    <3>1. ~Starts /\ ~Begins /\ ~Halts /\ ~Refused /\ ~Turns /\ ~Observes /\ ~Passes /\ ~Deleted
      BY <1>4 DEF Starts, Begins, Halts, Refused, Turns, Observes, Passes, Waited, Deleted, Idle
    <3>2. ~Undone /\ ~UndoEnds /\ ~(\E o \in Object : Records(o))
            /\ ~(\E i \in Rows : Readies(i) \/ Undoing(i)) /\ ~Intends /\ ~Resends
      BY <1>4 DEF Records, Waited, Readies, Undoing, Undone, UndoEnds, Idle, Intends, Resends,
                  Sends
    <3> QED
      BY <3>1, <3>2 DEF Steps
  <2>4. ASSUME NEW q \in net, Arrival(q), ~q.awaited PROVE landed'[proc'.i] = 0
    BY <2>2, <2>4 DEF Arrival
  <2> QED
    BY <1>t, <2>1, <2>2, <2>3, <2>4, NextSteps DEF vars, Cancels, Drops, Outside
<1>5. ASSUME proc'.pc \in {"undo", "undoing", "reversed"}
      PROVE  /\ \A i \in Rows : row'[i].state # "intent"
             /\ \A i \in Rows : plan[i].op \in Undoes =>
                   \/ row'[i].state \in {"pending", "failed", "compensated"}
                   \/ i \in proc'.late
                   \/ proc'.pc # "undo" /\ i = proc'.i
  <2> DEFINE Good == /\ \A i \in Rows : row'[i].state # "intent"
                     /\ \A i \in Rows : plan[i].op \in Undoes =>
                           \/ row'[i].state \in {"pending", "failed", "compensated"}
                           \/ i \in proc'.late
                           \/ proc'.pc # "undo" /\ i = proc'.i
  <2>1. CASE row' = row /\ proc' = proc
    BY <1>t, <1>5, <2>1 DEF Undos
  <2>2. CASE Starts
    <3>1. /\ proc'.late = {i \in Undoable : row[i].state # "compensating"}
          /\ \A i \in Rows : row[i].state # "intent"
          /\ \A i \in Rows :
                IF i \in Undoable /\ row[i].state = "compensating"
                THEN row'[i].state = "compensated" ELSE row'[i] = row[i]
      BY <2>2 DEF Starts
    <3>2. ASSUME NEW i \in Rows, plan[i].op \in Undoes
          PROVE  i \in Undoable \/ row[i].state \in {"pending", "failed", "compensated"}
      BY <1>t, <3>2 DEF Undoable, Undoes
    <3>3. \A i \in Rows : row'[i].state # "intent"
      BY <3>1
    <3>4. \A i \in Rows : plan[i].op \in Undoes =>
             row'[i].state \in {"pending", "failed", "compensated"} \/ i \in proc'.late
      BY <3>1, <3>2
    <3> QED
      BY <3>3, <3>4
  <2>3. ASSUME NEW i \in Rows, Undoing(i) PROVE Good
    <3>1. /\ Writes(i, "compensating") /\ proc'.pc = "undoing" /\ proc'.i = i
          /\ proc'.late = proc.late \ {i} /\ proc.pc = "undo"
      BY <2>3 DEF Undoing
    <3> QED
      BY <1>t, <3>1 DEF Undos, Writes
  <2>4. CASE Undone
    <3>1. /\ Writes(proc.i, "compensated") /\ proc'.pc = "undo" /\ proc'.i = proc.i
          /\ proc'.late = proc.late /\ proc.pc = "reversed"
      BY <2>4 DEF Undone, Same, Still
    <3> QED
      BY <1>t, <3>1 DEF Undos, Writes
  <2>5. ASSUME NEW q \in net, Arrival(q) PROVE Good
    <3>1. CASE ~q.awaited
      BY <2>1, <2>5, <3>1 DEF Arrival
    <3>2. CASE q.awaited
      <4>1. /\ proc'.pc = "reversed" /\ proc.pc = "undoing" /\ proc'.i = proc.i
            /\ proc'.late = proc.late /\ row' = row
        BY <1>t, <1>5, <2>5, <3>2 DEF Arrival, Still
      <4> QED
        BY <1>t, <4>1 DEF Undos
    <3> QED
      BY <1>t, <3>1, <3>2
  <2>6. ASSUME Steps PROVE Good
    <3>1. ~Halts /\ ~Refused /\ ~Turns /\ ~Observes /\ ~Passes /\ ~Deleted /\ ~UndoEnds
      BY <1>5 DEF Halts, Refused, Turns, Observes, Passes, Waited, Deleted, UndoEnds, Idle
    <3>2. ~(\E o \in Object : Records(o)) /\ ~(\E i \in Rows : Readies(i))
            /\ ~Intends /\ ~Resends
      BY <1>5 DEF Records, Waited, Readies, Intends, Resends, Sends
    <3> QED
      BY <2>3, <2>4, <2>6, <3>1, <3>2 DEF Steps
  <2>7. ~Begins
    BY <1>5 DEF Begins
  <2>8. \/ row' = row /\ proc' = proc
        \/ Starts \/ Steps \/ Begins \/ \E q \in net : Arrival(q)
    BY <1>t, NextSteps DEF vars, Cancels, Drops, Outside
  <2> HIDE DEF Good
  <2>9. Good
    <3>1. CASE row' = row /\ proc' = proc
      BY <2>1, <3>1 DEF Good
    <3>2. CASE Starts
      BY <2>2, <3>2 DEF Good
    <3> QED
      BY <2>3, <2>5, <2>6, <2>7, <2>8, <3>1, <3>2
  <2> QED
    BY <2>9 DEF Good
<1>6. ASSUME exec'.state = "compensated"
      PROVE  /\ proc'.pc \in {"idle", "undo"} /\ proc'.late = {}
             /\ \A i \in Rows : plan[i].op \in Undoes =>
                   row'[i].state \in {"pending", "failed", "compensated"}
  <2>1. CASE exec' = exec
    <3>1. /\ proc.pc \in {"idle", "undo"} /\ proc.late = {}
          /\ \A i \in Rows : plan[i].op \in Undoes =>
                row[i].state \in {"pending", "failed", "compensated"}
      BY <1>t, <1>6, <2>1 DEF Undos
    <3>2. CASE row' = row /\ (proc' = proc \/ proc' = Idle)
      BY <3>1, <3>2 DEF Idle
    <3>3. CASE Starts
      <4>1. /\ proc'.late = {i \in Undoable : row[i].state # "compensating"}
            /\ \A i \in Rows :
                  IF i \in Undoable /\ row[i].state = "compensating"
                  THEN row'[i].state = "compensated" ELSE row'[i] = row[i]
            /\ proc'.pc = "undo"
        BY <3>3 DEF Starts
      <4>2. \A i \in Undoable : plan[i].op \in Undoes
                                /\ row[i].state \notin {"pending", "failed", "compensated"}
                                /\ i \in Rows
        BY <1>t DEF Undoable, Undoes, Ops
      <4> QED
        BY <3>1, <4>1, <4>2
    <3>4. CASE Steps
      <4>1. ~Refused /\ ~Turns /\ ~Observes /\ ~Passes /\ ~Deleted /\ ~Undone
        BY <3>1 DEF Refused, Turns, Observes, Passes, Deleted, Undone
      <4>2. ~(\E o \in Object : Records(o)) /\ ~(\E i \in Rows : Readies(i) \/ Undoing(i))
              /\ ~Intends /\ ~Resends
        BY <3>1 DEF Records, Readies, Undoing, Intends, Resends
      <4>3. Halts \/ UndoEnds
        BY <3>4, <4>1, <4>2 DEF Steps
      <4> QED
        BY <3>2, <4>3 DEF Halts, UndoEnds
    <3>5. ~Begins
      BY <1>6 DEF Begins
    <3>6. ASSUME NEW q \in net, Arrival(q) PROVE row' = row /\ proc' = proc
      BY <1>t, <3>1, <3>6 DEF Arrival
    <3> QED
      BY <1>t, <3>2, <3>3, <3>4, <3>5, <3>6, NextSteps DEF vars, Cancels, Drops, Outside
  <2>2. CASE exec' # exec
    <3>1. UndoEnds
      <4>1. ~Begins /\ ~Cancels
        BY <1>6 DEF Begins, Cancels
      <4>2. Steps
        BY <1>t, <2>2, <4>1, NextSteps DEF vars, Starts, Drops, Outside, Arrival
      <4>3. ~Halts /\ ~Refused
        BY <1>6, <2>2 DEF Halts, Refused
      <4>4. ~Turns /\ ~Observes /\ ~Passes /\ ~Deleted /\ ~Undone /\ ~Intends /\ ~Resends
        BY <2>2 DEF Turns, Observes, Passes, Kept, Deleted, Undone, Intends, Resends, Sends
      <4>5. ~(\E o \in Object : Records(o)) /\ ~(\E i \in Rows : Readies(i) \/ Undoing(i))
        BY <2>2 DEF Records, Readies, Undoing
      <4> QED
        BY <4>2, <4>3, <4>4, <4>5 DEF Steps
    <3>2. proc.pc = "undo" /\ proc.late = {} /\ proc' = Idle /\ row' = row
      BY <3>1 DEF UndoEnds
    <3> QED
      BY <1>t, <3>2 DEF Undos, Idle
  <2> QED
    BY <2>1, <2>2
<1> QED
  BY <1>a, <1>1, <1>3, <1>4, <1>5, <1>6 DEF Undos, Reversing

LEMMA JournaledStep == Settles = TRUE /\ Journaled /\ [Next]_vars => Journaled'
  BY VersionsStep, UnstartedStep, EffectsStep, UnsentStep, UndosStep DEF Journaled

LEMMA InitJournaled == Init => Journaled
<1> SUFFICES ASSUME Init PROVE Journaled
  OBVIOUS
<1>1. Versions /\ TypeOK
  BY InitVersions DEF Versions, Typed
<1>2. /\ obj = [i \in Rows |-> Baseline(i)] /\ net = {} /\ proc = Idle
      /\ row = [i \in Rows |-> Untouched] /\ landed = [i \in Rows |-> 0]
      /\ exec.state = "pending"
  BY DEF Init
<1>3. proc.pc = "idle" /\ proc.late = {}
  BY <1>2 DEF Idle
<1>4. \A i \in Rows : row[i].state = "pending" /\ landed[i] = 0 /\ ~obj[i].op
                      /\ ~obj[i].undone /\ ~obj[i].dying
  BY <1>1, <1>2, BaselineFacts DEF Untouched
<1>5. Unstarted
  BY <1>2, <1>3, <1>4 DEF Unstarted, Fresh
<1>6. Effects
  BY <1>4 DEF Effects
<1>7. Unsent
  BY <1>2 DEF Unsent
<1>8. Undos
  BY <1>2, <1>3, <1>4 DEF Undos, Reversing
<1> QED
  BY <1>1, <1>5, <1>6, <1>7, <1>8 DEF Journaled

\* What the journal says of its writes is true, whatever is late, lost or cut
\* short: a row that a later run plans again was never written, nothing but its
\* undo takes effect for a row that is being undone, and a compensated execution
\* leaves nothing in effect that it can undo (_run, _unwritten, _compensate).
\* It is assumed that a request arrives within write_settle_seconds or never.
THEOREM JournalIsTrue == ASSUME Settles = TRUE PROVE Spec => []JournalTrue
<1>1. Journaled => JournalTrue
  <2> SUFFICES ASSUME Journaled, NEW i \in Rows
               PROVE  /\ row[i].state \in {"pending", "failed"} =>
                            landed[i] = 0 /\ \A q \in net : q.row # i
                      /\ row[i].state \in Reversing =>
                            \A q \in net : q.row = i /\ Accepts(q) => q.undo
                      /\ exec.state = "compensated" /\ plan[i].op \in {"create", "apply"}
                            => landed[i] = 0
    BY DEF JournalTrue
  <2>1. Unstarted /\ Effects /\ Undos
    BY DEF Journaled
  <2>2. row[i].state \in {"pending", "failed"} => landed[i] = 0 /\ \A q \in net : q.row # i
    BY <2>1 DEF Unstarted, Fresh
  <2>3. row[i].state \in Reversing => \A q \in net : q.row = i /\ Accepts(q) => q.undo
    BY AcceptedFor
  <2>4. exec.state = "compensated" /\ plan[i].op \in {"create", "apply"}
          => landed[i] = 0
    BY <2>1, <2>2 DEF Undos, Undoes, Effects
  <2> QED
    BY <2>2, <2>3, <2>4
<1> QED
  BY <1>1, InitJournaled, JournaledStep, PTL DEF Spec

\* A row is called ready on the strength of its own write, never because
\* somebody else produced an object of that name (_verify_receipt).
THEOREM ReadyByWriting == ASSUME Settles = TRUE PROVE Spec => ReadyIsOurs
<1>1. ASSUME Journaled, [Next]_vars, NEW i \in Rows,
             row'[i].state = "ready", row[i].state # "ready",
             plan[i].op \in {"create", "adopt", "replace"}
      PROVE  landed[i] > 0 /\ obj[i].op /\ obj[i].content = "new"
  <2>1. Versions /\ Effects /\ landed[i] \in Nat
    BY <1>1, Fields DEF Journaled, Versions, Typed
  <2>2. Readies(i) /\ row[i].state \in {"applied", "ready"}
    BY <1>1, <2>1, RowSteps
  <2>3. obj[i].op /\ obj[i].content = "new"
    BY <1>1, <2>2 DEF Readies, VerifyReceipt
  <2>4. landed[i] # 0
    BY <2>1, <2>2, <2>3 DEF Effects, Reversing
  <2> QED
    BY <2>1, <2>3, <2>4
<1>2. Journaled /\ [Next]_vars =>
        [\A i \in Rows :
          row'[i].state = "ready" /\ row[i].state # "ready"
          /\ plan[i].op \in {"create", "adopt", "replace"}
            => landed[i] > 0 /\ obj[i].op /\ obj[i].content = "new"]_vars
  BY <1>1
<1> QED
  BY <1>2, InitJournaled, JournaledStep, PTL DEF Spec, ReadyIsOurs
-----------------------------------------------------------------------------
(* Order: a delete waits for every row before it, and the rows behind one  *)
(* that is not deferred wait for it.                                       *)

IsReadyBefore(i) == \A j \in Rows : j < i => row[j].state = "ready"
DeletedBefore(i) ==
    \A j \in Rows : j < i /\ plan[j].op = "delete" /\ ~plan[j].deferred =>
        row[j].state = "ready"

\* How far the walk over the rows has come.
Walk ==
    /\ proc.pc \in Going => \A j \in Rows : j < I =>
           row[j].state = "ready" \/ (j \in proc.late /\ plan[j].deferred)
    /\ proc.pc \in {"look", "intend", "send"} /\ Op = "delete" => IsReadyBefore(I)
    /\ \A i \in Rows : plan[i].op = "delete" /\ row[i].state = "intent" => IsReadyBefore(i)
    /\ \A q \in net : ~q.undo => DeletedBefore(q.row)

\* A row that is ready stays so unless it is undone, and a delete is never undone.
LEMMA ReadyKept ==
    ASSUME Versions, [Next]_vars, NEW j \in Rows, row[j].state = "ready",
           plan[j].op = "delete" \/ ~Undoing(j)
    PROVE  row'[j].state = "ready"
<1>1. ~Undoing(j)
  <2>1. proc.pc = "undo" /\ j \in proc.late => plan[j].op \in Undoes
    BY DEF Versions, States
  <2> QED
    BY <2>1 DEF Undoing, Undoes, At
<1> QED
  BY <1>1, RowSteps

LEMMA WalkStep == ASSUME Journaled, Walk, [Next]_vars PROVE Walk'
<1>t. /\ Versions /\ Typed /\ Undos /\ States /\ Seeing /\ proc.late \subseteq Rows
      /\ (proc.pc \in Working => I \in Rows) /\ Rows \subseteq Nat /\ proc.i \in Nat
      /\ \A i \in Rows : plan[i].deferred \in BOOLEAN
      /\ \A q \in net : q.row \in Rows /\ q.undo \in BOOLEAN /\ q.awaited \in BOOLEAN
      /\ \A q \in net : q.awaited => I = q.row /\ proc.pc = IF q.undo THEN "undoing" ELSE "await"
  <2>1. Versions /\ Undos /\ TypeOK
    BY DEF Journaled, Versions, Typed
  <2>2. /\ Rows \subseteq Nat /\ \A i \in Rows : plan[i].deferred \in BOOLEAN
    BY <2>1, PlanFacts DEF TypeOK
  <2> QED
    BY <2>1, <2>2, VersionFacts, Fields DEF Versions
<1>a. plan' = plan /\ Rows' = Rows
  BY <1>t, Advances
<1> USE DEF I, At, Op
\* Every row before the one that the process is at is ready or waited for.
<1>1. ASSUME proc'.pc \in Going, NEW j \in Rows, j < proc'.i
      PROVE  row'[j].state = "ready" \/ (j \in proc'.late /\ plan[j].deferred)
  <2> DEFINE Good == row'[j].state = "ready" \/ (j \in proc'.late /\ plan[j].deferred)
  <2>1. ASSUME proc.pc \in Going, proc'.i = proc.i, proc'.late = proc.late, row'[j] = row[j]
        PROVE  Good
    BY <1>1, <2>1 DEF Walk
  <2>2. ASSUME Begins PROVE Good
    BY <1>1, <1>t, <2>2, PlanFacts DEF Begins, Typed, TypeOK
  <2>3. ASSUME Turns \/ Observes \/ Resends PROVE Good
    BY <2>1, <2>3 DEF Turns, Observes, Resends, Sends, Kept, Same, Still, Going
  <2>4. ASSUME Passes PROVE Good
    BY <1>1, <1>t, <2>4 DEF Passes, Kept, Waited, Walk, Going
  <2>5. ASSUME NEW o \in Object, Records(o) PROVE Good
    <3>1. /\ \A k \in Rows \ {proc.i} : row'[k] = row[k]
          /\ Waited /\ proc.pc \in Going
      BY <2>5 DEF Records, Writes, Going
    <3> QED
      BY <1>1, <1>t, <3>1 DEF Waited, Walk
  <2>6. ASSUME Deleted \/ Intends PROVE Good
    <3>1. /\ \A k \in Rows \ {proc.i} : row'[k] = row[k]
          /\ proc.pc \in Going /\ proc'.i = proc.i /\ proc'.late = proc.late
      BY <2>6 DEF Deleted, Intends, Sends, Writes, Same, Still, Going
    <3> QED
      BY <1>1, <1>t, <2>1, <3>1
  <2>7. ASSUME NEW i \in Rows, Readies(i) PROVE Good
    <3>1. /\ \A k \in Rows \ {i} : row'[k] = row[k]
          /\ row'[i].state = "ready" /\ proc.pc \in Going
          /\ \/ i = proc.i /\ proc'.i = proc.i + 1 /\ proc'.late = proc.late
             \/ proc'.i = proc.i /\ proc'.late = proc.late \ {i}
      BY <2>7 DEF Readies, Writes, Going
    <3> QED
      BY <1>1, <1>t, <3>1 DEF Walk
  <2>8. ASSUME NEW q \in net, Arrival(q) PROVE Good
    <3>1. CASE ~q.awaited
      BY <1>1, <2>1, <2>8, <3>1 DEF Arrival
    <3>2. CASE q.awaited
      <4>1. proc.pc = "await" /\ proc'.i = proc.i /\ proc'.late = proc.late /\ row' = row
        BY <1>1, <1>t, <2>8, <3>2 DEF Arrival, Still, Going
      <4> QED
        BY <2>1, <4>1 DEF Going
    <3> QED
      BY <1>t, <3>1, <3>2
  <2>9. ~Starts /\ ~Halts /\ ~Refused /\ ~Undone /\ ~UndoEnds
          /\ ~(\E i \in Rows : Undoing(i))
    BY <1>1 DEF Starts, Halts, Refused, Undone, UndoEnds, Undoing, Idle, Going
  <2>10. ASSUME row' = row /\ proc' = proc PROVE Good
    BY <1>1, <2>1, <2>10
  <2>11. ASSUME Steps PROVE Good
    <3> HIDE DEF Good
    <3> QED
      BY <2>3, <2>4, <2>5, <2>6, <2>7, <2>9, <2>11 DEF Steps
  <2> HIDE DEF Good
  <2>12. Good
    BY <2>2, <2>8, <2>9, <2>10, <2>11, <1>t, NextSteps DEF vars, Cancels, Drops, Outside
  <2> QED
    BY <2>12 DEF Good
\* A row that is ready stays so while a row is an intent or is about to be one.
<1>2. ASSUME NEW i \in Rows, row[i].state = "intent" \/ proc.pc \in Going,
             NEW n \in Nat, IsReadyBefore(n), NEW j \in Rows, j < n
      PROVE  row'[j].state = "ready"
  <2>1. proc.pc # "undo"
    BY <1>2, <1>t DEF Undos, Going
  <2>2. ~Undoing(j)
    BY <2>1 DEF Undoing
  <2> QED
    BY <1>t, <1>2, <2>2, ReadyKept DEF IsReadyBefore
\* A delete is planned to be sent when all before it are ready.
<1>3. ASSUME proc'.pc \in {"look", "intend", "send"}, plan[proc'.i].op = "delete",
             NEW j \in Rows, j < proc'.i
      PROVE  row'[j].state = "ready"
  <2>1. CASE proc' = proc /\ row' = row
    BY <1>3, <1>a, <2>1 DEF Walk, IsReadyBefore
  <2>2. CASE Turns \/ Observes
    <3>1. proc'.i = proc.i /\ row' = row
      BY <2>2 DEF Turns, Observes, Same, Still, Kept
    <3>2. CASE proc.pc \in {"look", "intend"}
      BY <1>3, <1>a, <3>1, <3>2 DEF Walk, IsReadyBefore
    <3>3. CASE proc.pc = "row" /\ Due /\ proc.i \in Rows
      <4>1. proc.late = {}
        BY <1>3, <3>1, <3>3 DEF Due
      <4> QED
        BY <1>3, <3>1, <3>3, <4>1 DEF Walk, Going
    <3> QED
      BY <1>3, <2>2, <3>2, <3>3 DEF Turns, Observes
  <2>3. ASSUME NEW q \in net, Arrival(q) PROVE proc' = proc /\ row' = row
    BY <1>3, <1>t, <2>3 DEF Arrival
  <2>4. ~Starts /\ ~Begins /\ ~Halts /\ ~Refused /\ ~Passes /\ ~Deleted /\ ~Intends /\ ~Resends
    BY <1>3 DEF Starts, Begins, Halts, Refused, Passes, Waited, Deleted, Intends, Resends,
                Sends, Idle
  <2>5. ~(\E o \in Object : Records(o)) /\ ~(\E i \in Rows : Readies(i) \/ Undoing(i))
          /\ ~Undone /\ ~UndoEnds
    BY <1>3 DEF Records, Waited, Readies, Undoing, Undone, UndoEnds, Idle
  <2>6. Steps => Turns \/ Observes
    BY <2>4, <2>5 DEF Steps
  <2> QED
    BY <2>1, <2>2, <2>3, <2>4, <2>6, <1>t, NextSteps DEF vars, Cancels, Drops, Outside
<1>4. ASSUME NEW i \in Rows, plan[i].op = "delete", row'[i].state = "intent",
             NEW j \in Rows, j < i
      PROVE  row'[j].state = "ready"
  <2>1. CASE row[i].state = "intent"
    BY <1>2, <1>4, <1>t, <2>1 DEF Walk
  <2>2. CASE row[i].state # "intent"
    <3>1. Intends /\ i = proc.i
      BY <1>t, <1>4, <2>2, RowSteps
    <3>2. IsReadyBefore(i) /\ proc.pc \in Going
      BY <1>4, <3>1 DEF Intends, Walk, Going
    <3> QED
      BY <1>2, <1>4, <1>t, <3>2
  <2> QED
    BY <2>1, <2>2
\* A request leaves behind the deletes that were planned before it.
<1>5. ASSUME NEW q \in net', ~q.undo, NEW j \in Rows, j < q.row,
             plan[j].op = "delete", ~plan[j].deferred
      PROVE  row'[j].state = "ready"
  <2>1. CASE q \in net \/ \E p \in net : q.row = p.row /\ q.undo = p.undo
    BY <1>5, <2>1 , <1>t, ReadyKept DEF Walk, DeletedBefore
  <2>2. CASE q.row = I /\ (Intends \/ Resends)
    <3>1. proc.pc \in Going
      BY <2>2 DEF Intends, Resends, Going
    <3> QED
      BY <1>5, <1>t, <2>2, <3>1, ReadyKept DEF Walk
  <2> QED
    BY <1>5, <1>t, <2>1, <2>2, NetSteps
<1>6. \A i \in Rows : plan[i].op = "delete" /\ row'[i].state = "intent" =>
          \A j \in Rows : j < i => row'[j].state = "ready"
  BY <1>4
<1> QED
  BY <1>a, <1>1, <1>3, <1>5, <1>6 DEF Walk, IsReadyBefore, DeletedBefore

\* Deletes keep their place: a pruned object goes only after every row planned
\* before it is ready, deferred ones included (settle_deferred), and what is
\* planned behind a delete that is not deferred, as the companion of another
\* kind that takes its name, waits for it (the walk of _run), over any crash,
\* late request and resumption.
THEOREM DeletesKeepPlace == ASSUME Settles = TRUE PROVE Spec => DeletesInPlace
<1> DEFINE Inv == Journaled /\ Walk
<1>1. Init => Inv
  <2> SUFFICES ASSUME Init PROVE Inv
    OBVIOUS
  <2>1. proc.pc = "idle" /\ net = {} /\ \A i \in Rows : row[i].state = "pending"
    BY DEF Init, Idle, Untouched
  <2> QED
    BY <2>1, InitJournaled DEF Walk, Going
<1>2. Inv /\ [Next]_vars => Inv'
  BY JournaledStep, WalkStep
<1>3. ASSUME Inv, [Next]_vars, NEW i \in Rows, NEW j \in Rows, i < j,
             landed'[j] > landed[j], Before(i, j)
      PROVE  row[i].state = "ready"
  <2>1. Versions /\ landed[j] \in Nat
    BY <1>3, Fields DEF Journaled, Versions, Typed
  <2>2. PICK q \in net : /\ q.row = j /\ Accepts(q)
                         /\ landed'[j] = IF q.undo THEN 0 ELSE landed[j] + 1
    BY <1>3, <2>1, ObjectSteps DEF Outside
  <2>3. ~q.undo
    BY <1>3, <2>1, <2>2, VersionFacts
  <2>4. CASE plan[j].op = "delete"
    <3>1. row[j].state = "intent"
      BY <1>3, <2>2, <2>3, <2>4, AcceptedFor
    <3> QED
      BY <1>3, <2>4, <3>1 DEF Walk, IsReadyBefore
  <2>5. CASE plan[i].op = "delete" /\ ~plan[i].deferred
    BY <1>3, <2>2, <2>3, <2>5 DEF Walk, DeletedBefore
  <2> QED
    BY <1>3, <2>4, <2>5 DEF Before
<1>4. Inv /\ [Next]_vars =>
        [\A i, j \in Rows :
          i < j /\ landed'[j] > landed[j] /\ Before(i, j) => row[i].state = "ready"]_vars
  BY <1>3
<1> QED
  BY <1>1, <1>2, <1>4, PTL DEF Spec, DeletesInPlace

-----------------------------------------------------------------------------
(* Cancellation.                                                           *)

\* Whatever can still be written was under way when somebody cancelled.
Stopped ==
    exec.cancelled =>
       /\ \A q \in net : ~q.undo => <<q.row, q.verb>> \in open
       /\ At("send") => <<I, Verb>> \in open
       /\ At("recreate") => <<I, "create">> \in open
       /\ At("redelete") => <<I, "delete">> \in open
       /\ proc.pc \in {"answered", "again"} /\ Op = "apply" => <<I, "patch">> \in open

LEMMA StoppedStep == ASSUME Versions, Stopped, [Next]_vars PROVE Stopped'
<1>t. /\ Typed /\ Seeing /\ Requests
      /\ \A q \in net : q.undo \in BOOLEAN /\ q.awaited \in BOOLEAN
                        /\ q.verb \in {"create", "patch", "delete"}
      /\ \A q \in net : q.awaited => I = q.row /\ proc.pc = IF q.undo THEN "undoing" ELSE "await"
  BY VersionFacts DEF Versions
<1>a. plan' = plan
  BY <1>t, Advances
<1> USE DEF I, At, Op
<1>1. CASE Begins
  BY <1>1 DEF Begins, Stopped
<1>2. CASE Cancels
  <2>1. /\ \A q \in net : <<q.row, q.verb>> \in UnderWay
        /\ At("send") => <<I, Verb>> \in UnderWay
        /\ At("recreate") => <<I, "create">> \in UnderWay
        /\ At("redelete") => <<I, "delete">> \in UnderWay
        /\ proc.pc \in {"answered", "again"} /\ Op = "apply" => <<I, "patch">> \in UnderWay
    BY DEF UnderWay
  <2> QED
    BY <1>2, <1>a, <2>1 DEF Cancels, Stopped, Verb
\* Otherwise nothing new is under way.
<1>3. ASSUME open' = open, exec'.cancelled = exec.cancelled, exec.cancelled,
             Steps \/ Starts \/ (row' = row /\ exec' = exec /\ ~Begins)
      PROVE  Stopped'
  <2>s. /\ \A q \in net : ~q.undo => <<q.row, q.verb>> \in open
        /\ At("send") => <<I, Verb>> \in open
        /\ At("recreate") => <<I, "create">> \in open
        /\ At("redelete") => <<I, "delete">> \in open
        /\ proc.pc \in {"answered", "again"} /\ Op = "apply" => <<I, "patch">> \in open
    BY <1>3 DEF Stopped
  <2>1. ASSUME NEW q \in net', ~q.undo PROVE <<q.row, q.verb>> \in open
    <3>1. CASE q \in net \/ \E p \in net : q.row = p.row /\ q.verb = p.verb /\ q.undo = p.undo
      BY <2>s, <2>1, <3>1
    <3>2. CASE Intends /\ q.row = I /\ q.verb = Verb
      BY <2>s, <3>2 DEF Intends
    <3>3. CASE q.row = I /\ (\/ At("again") /\ q.verb = "patch"
                             \/ At("recreate") /\ q.verb = "create"
                             \/ At("redelete") /\ q.verb = "delete")
      BY <2>s, <1>t, <3>3 DEF Seeing
    <3> QED
      BY <1>t, <2>1, <3>1, <3>2, <3>3, NetSteps
  <2> DEFINE Good == /\ proc'.pc = "send" => <<proc'.i, Verb'>> \in open
                     /\ proc'.pc = "recreate" => <<proc'.i, "create">> \in open
                     /\ proc'.pc = "redelete" => <<proc'.i, "delete">> \in open
                     /\ proc'.pc \in {"answered", "again"} /\ plan[proc'.i].op = "apply" =>
                           <<proc'.i, "patch">> \in open
  <2>2. ASSUME proc' = proc PROVE Good
    BY <1>a, <2>s, <2>2 DEF Verb
  <2>3. ASSUME Turns \/ Observes PROVE Good
    <3>1. ~Guard
      BY <1>3 DEF Guard
    <3>2. proc'.i = proc.i
      BY <2>3 DEF Turns, Observes, Same, Still
    <3>3. ~Due
      BY <3>1 DEF Due, InPlan
    <3>4. proc'.pc \in {"settle", "again", "intend"}
      BY <2>3, <3>1, <3>3 DEF Turns, Observes
    <3>5. proc'.pc = "again" => proc.pc = "answered" /\ Op = "apply"
      BY <2>3, <3>1, <3>3 DEF Turns, Observes
    <3> QED
      BY <2>s, <3>2, <3>4, <3>5
  <2>4. ASSUME NEW q \in net, Arrival(q) PROVE Good
    <3>1. CASE ~q.awaited
      BY <2>2, <2>4, <3>1 DEF Arrival
    <3>2. CASE q.awaited
      <4>1. /\ proc'.i = proc.i /\ proc'.pc = IF q.undo THEN "reversed" ELSE "answered"
            /\ q.row = proc.i
        BY <1>t, <2>4, <3>2 DEF Arrival, Still
      <4>2. ~q.undo /\ plan[proc.i].op = "apply" => q.verb = "patch"
        BY <1>t, <4>1 DEF Requests, VerbOf
      <4> QED
        BY <1>t, <2>s, <4>1, <4>2
    <3> QED
      BY <1>t, <3>1, <3>2
  <2>5. ASSUME proc'.pc \notin {"send", "recreate", "redelete", "answered", "again"} PROVE Good
    BY <2>5
  <2>6. Steps => \/ Turns \/ Observes
                 \/ proc'.pc \notin {"send", "recreate", "redelete", "answered", "again"}
    <3>1. Halts \/ Refused \/ Passes \/ Deleted \/ Intends \/ Resends \/ Undone \/ UndoEnds
          => proc'.pc \notin {"send", "recreate", "redelete", "answered", "again"}
      BY DEF Halts, Refused, Passes, Waited, Deleted, Intends, Resends, Sends,
             Undone, UndoEnds, Idle
    <3>2. (\E o \in Object : Records(o)) \/ (\E i \in Rows : Readies(i) \/ Undoing(i))
          => proc'.pc \notin {"send", "recreate", "redelete", "answered", "again"}
      BY DEF Records, Waited, Readies, Undoing
    <3> QED
      BY <3>1, <3>2 DEF Steps
  <2>7. Starts => proc'.pc = "undo"
    BY DEF Starts
  <2>8. \/ Steps \/ Starts \/ proc' = proc \/ \E q \in net : Arrival(q)
    BY <1>t, <1>3, NextSteps DEF vars, Cancels, Drops, Outside
  <2> HIDE DEF Good
  <2>9. Good
    BY <2>2, <2>3, <2>4, <2>5, <2>6, <2>7, <2>8
  <2> QED
    BY <1>3, <1>a, <2>1, <2>9 DEF Stopped, Good
<1>4. ~exec'.cancelled => Stopped'
  BY DEF Stopped
<1>5. \/ Begins \/ Cancels
      \/ /\ open' = open /\ exec'.cancelled = exec.cancelled
         /\ Steps \/ Starts \/ (row' = row /\ exec' = exec /\ ~Begins)
  <2>1. Steps \/ Starts => exec'.cancelled = exec.cancelled
    <3>1. Halts \/ Refused \/ Turns \/ Observes \/ Passes \/ Deleted \/ Intends \/ Resends
          \/ Undone \/ UndoEnds \/ Starts => exec'.cancelled = exec.cancelled
      BY DEF Halts, Refused, Turns, Observes, Kept, Passes, Deleted, Intends, Resends, Sends,
             Undone, UndoEnds, Starts
    <3>2. (\E o \in Object : Records(o)) \/ (\E i \in Rows : Readies(i) \/ Undoing(i))
          => exec'.cancelled = exec.cancelled
      BY DEF Records, Readies, Undoing
    <3> QED
      BY <3>1, <3>2 DEF Steps
  <2> QED
    BY <1>t, <2>1, NextSteps DEF vars, Drops, Outside, Arrival
<1> QED
  BY <1>1, <1>2, <1>3, <1>4, <1>5

\* After a cancellation nothing takes effect but what was on its way or past its
\* last guard when cancel() was called, however late it arrives and whoever
\* resumes (_guard).
THEOREM CancelHolds == Spec => CancelStops
<1> DEFINE Inv == Versions /\ Stopped
<1>1. Init => Inv
  BY InitVersions DEF Init, Stopped
<1>2. Inv /\ [Next]_vars => Inv'
  BY VersionsStep, StoppedStep
<1>3. ASSUME Inv, [Next]_vars, NEW i \in Rows, exec.cancelled, landed'[i] > landed[i]
      PROVE  <<i, Effect(i)>> \in open
  <2>1. Typed /\ Objects /\ Requests /\ landed[i] \in Nat
    BY <1>3, Fields DEF Versions, Typed
  <2>2. PICK q \in net : /\ q.row = i /\ Accepts(q) /\ Wrote(q)
                         /\ landed'[i] = IF q.undo THEN 0 ELSE landed[i] + 1
    BY <1>3, <2>1, ObjectSteps DEF Outside
  <2>3. ~q.undo /\ q.verb \in {"create", "patch", "delete"} /\ VerbOf(q)
    BY <1>3, <2>1, <2>2, VersionFacts DEF Requests
  <2>4. <<i, q.verb>> \in open
    BY <1>3, <2>2, <2>3 DEF Stopped
  <2>5. q.verb = "create" => obj[i].uid = 0
    BY <2>2 DEF Accepts
  <2>6. q.verb # "create" => obj[i].uid # 0
    BY <2>1, <2>2 DEF Accepts, Requests, Knows
  <2>7. q.verb = "delete" => obj'[i].dying
    BY <2>2 DEF Wrote
  <2>8. q.verb = "patch" => ~obj'[i].dying
    BY <1>3, <2>1, <2>2, <2>3 DEF Wrote, VerbOf, Objects
  <2> QED
    BY <2>3, <2>4, <2>5, <2>6, <2>7, <2>8 DEF Effect
<1>4. Inv /\ [Next]_vars =>
        [\A i \in Rows :
          exec.cancelled /\ landed'[i] > landed[i] => <<i, Effect(i)>> \in open]_vars
  BY <1>3
<1> QED
  BY <1>1, <1>2, <1>4, PTL DEF Spec, CancelStops
=============================================================================
