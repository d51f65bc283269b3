--------------------------- MODULE TrainQueueProofs ---------------------------
(***************************************************************************)
(* Theorems about TrainQueue, for any processes, requests and kills.       *)
(***************************************************************************)
EXTENDS TrainQueue, TLAPS

Process == [pc : Labels, req : 0 .. MaxRequests, todo : SUBSET Requests,
            quits : BOOLEAN]

\* The program labels, spelled out.
LEMMA LabelsAre ==
    Labels = {"off", "check", "stale", "look", "list", "claim", "prepare",
              "lock", "name", "run", "unname", "unlock", "finish",
              "requeue", "requeued", "claimed", "back", "backed", "finished",
              "exit", "raised", "killed", "torn"}
  BY DEF Labels, Moving, Ended

\* Labels at which the process has a request in hand.
InHand == {"requeued", "claimed", "prepare", "finish", "finished", "back", "backed"}

\* Typed files, and a request in hand where the code has one.
Files == {waiting, running, done} \subseteq [Requests -> File]
InHandInv == \A p \in Procs : proc[p].pc \in InHand => proc[p].req # 0
Typed ==
    /\ Files
    /\ proc \in [Procs -> Process]
    /\ InHandInv
    /\ flock \in Procs \cup {NoProc}
    /\ named \in Procs \cup {NoProc}
    /\ asked \in 0 .. MaxRequests
    /\ kills \in 0 .. MaxKills

\* What a typed process gives.
LEMMA ProcFields ==
    ASSUME Typed, NEW p \in Procs
    PROVE  /\ proc[p] \in Process
           /\ proc[p].pc \in Labels
           /\ proc[p].req \in 0 .. MaxRequests
           /\ proc[p].todo \in SUBSET Requests
           /\ proc[p].pc \in InHand => proc[p].req \in Requests
<1>1. proc[p] \in Process
  BY DEF Typed
<1>2. /\ proc[p].pc \in Labels /\ proc[p].req \in 0 .. MaxRequests
      /\ proc[p].todo \in SUBSET Requests
  BY <1>1 DEF Process
<1>3. proc[p].req # 0 => proc[p].req \in Requests
  BY <1>2, QueueAssumption DEF Requests
<1> QED
  BY <1>1, <1>2, <1>3 DEF Typed, InHandInv

\* What one step of a process does to the processes: it moves only itself,
\* to a typed state, and takes a request in hand only when it has one.
LEMMA ProcStep ==
    ASSUME Typed, NEW p \in Procs, Start(p) \/ Step(p)
    PROVE  /\ proc' \in [Procs -> Process]
           /\ \A q \in Procs \ {p} : proc'[q] = proc[q]
           /\ proc'[p].pc \in InHand => proc'[p].req # 0
<1>1. SUFFICES ASSUME TRUE
               PROVE  \E x \in Process : /\ proc' = [proc EXCEPT ![p] = x]
                                         /\ x.pc \in InHand => x.req # 0
  BY DEF Typed
<1>p. proc[p] \in Process /\ proc[p].req \in 0 .. MaxRequests
  BY ProcFields
<1>z. 0 \in 0 .. MaxRequests
  BY QueueAssumption
<1>2. ASSUME NEW l \in Labels \ InHand, Goto(p, l)
      PROVE  \E x \in Process : /\ proc' = [proc EXCEPT ![p] = x]
                                /\ x.pc \in InHand => x.req # 0
  <2> DEFINE x == [proc[p] EXCEPT !.pc = l]
  <2>1. x \in Process /\ x.pc = l
    BY <1>p DEF Process
  <2> QED
    BY <1>2, <2>1 DEF Goto
<1>3. ASSUME NEW l \in Labels, Goto(p, l), proc[p].req # 0
      PROVE  \E x \in Process : /\ proc' = [proc EXCEPT ![p] = x]
                                /\ x.pc \in InHand => x.req # 0
  <2> DEFINE x == [proc[p] EXCEPT !.pc = l]
  <2>1. x \in Process /\ x.req = proc[p].req
    BY <1>p DEF Process
  <2> QED
    BY <1>3, <2>1 DEF Goto
<1>4. CASE Start(p) \/ CheckOwner(p) \/ LookOwner(p) \/ NameOwner(p)
             \/ ClearOwner(p) \/ TakeLock(p)
  BY <1>4, <1>2, LabelsAre
     DEF Start, CheckOwner, LookOwner, NameOwner, ClearOwner, TakeLock, InHand
<1>5. CASE SignClaim(p) \/ Prepare(p) \/ Finish(p) \/ Release(p)
             \/ UnlinkReleased(p)
  <2>1. proc[p].req # 0
    BY <1>5
       DEF SignClaim, Prepare, Finish, Release, UnlinkReleased, At, Typed,
           InHandInv, InHand
  <2> QED
    BY <1>5, <2>1, <1>3, LabelsAre
       DEF SignClaim, Prepare, Finish, Release, UnlinkReleased
<1>6. CASE TrainBusy(p)
  BY <1>6, <1>2, <1>3, LabelsAre DEF TrainBusy, InHand
<1>7. CASE Unlock(p)
  BY <1>7, <1>2, <1>3, LabelsAre DEF Unlock, OrRaise, InHand
<1>8. CASE RunEnds(p)
  <2>1. PICK quits \in BOOLEAN :
            proc' = [proc EXCEPT ![p].pc = "unname", ![p].quits = quits]
    BY <1>8 DEF RunEnds
  <2> DEFINE x == [proc[p] EXCEPT !.pc = "unname", !.quits = quits]
  <2>2. x \in Process /\ x.pc = "unname"
    BY <1>p, LabelsAre DEF Process
  <2> QED
    BY <2>1, <2>2 DEF InHand
<1>9. CASE ListStale(p)
  <2> DEFINE x == [proc[p] EXCEPT !.pc = "requeue",
                       !.todo = {r \in Present(running) : ~Live(running[r])}]
  <2>1. x \in Process /\ x.pc = "requeue"
    BY <1>p, LabelsAre DEF Process, Present
  <2> QED
    BY <1>9, <2>1 DEF ListStale, InHand
<1>10. CASE ListWaiting(p)
  <2> DEFINE x == [proc[p] EXCEPT !.pc = "claim", !.todo = Present(waiting)]
  <2>1. x \in Process /\ x.pc = "claim"
    BY <1>p, LabelsAre DEF Process, Present
  <2> QED
    BY <1>10, <2>1 DEF ListWaiting, InHand
<1>11. CASE UnlinkStale(p)
  <2> DEFINE x == [proc[p] EXCEPT !.pc = "requeue", !.req = 0]
  <2>1. x \in Process /\ x.pc = "requeue"
    BY <1>p, <1>z, LabelsAre DEF Process
  <2>2. proc' = [proc EXCEPT ![p] = x]
    BY <1>11, <1>p DEF UnlinkStale, Typed
  <2> HIDE DEF x
  <2> QED
    BY <2>1, <2>2 DEF InHand
<1>12. CASE UnlinkFinished(p)
  <2> DEFINE x == [proc[p] EXCEPT !.pc = OrRaise(p, "look"), !.req = 0]
  <2>1. x \in Process /\ x.pc \in {"raised", "look"}
    BY <1>p, <1>z, LabelsAre DEF Process, OrRaise
  <2>2. proc' = [proc EXCEPT ![p] = x]
    BY <1>12, <1>p DEF UnlinkFinished, Typed
  <2> HIDE DEF x
  <2> QED
    BY <2>1, <2>2 DEF InHand
<1>13. CASE Requeue(p)
  <2>1. CASE Goto(p, "look")
    BY <2>1, <1>2, LabelsAre DEF InHand
  <2>2. ASSUME NEW r \in Oldest(proc[p].todo),
               proc' = [proc EXCEPT ![p].pc = "requeued", ![p].req = r,
                                    ![p].todo = @ \ {r}]
        PROVE  \E x \in Process : /\ proc' = [proc EXCEPT ![p] = x]
                                  /\ x.pc \in InHand => x.req # 0
    <3> DEFINE x == [proc[p] EXCEPT !.pc = "requeued", !.req = r, !.todo = @ \ {r}]
    <3>1. r \in 1 .. MaxRequests
      BY ProcFields DEF Oldest, Requests
    <3>2. r \in 0 .. MaxRequests /\ r # 0
      BY <3>1, QueueAssumption
    <3>3. x \in Process /\ x.req = r
      BY <1>p, <3>2, LabelsAre DEF Process
    <3> QED
      BY <2>2, <3>2, <3>3
  <2> QED
    BY <1>13, <2>1, <2>2 DEF Requeue
<1>14. CASE Claim(p)
  <2>1. CASE Goto(p, "exit")
    BY <2>1, <1>2, LabelsAre DEF InHand
  <2>2. ASSUME NEW r \in Oldest(proc[p].todo),
               proc' = [proc EXCEPT ![p].pc = "claimed", ![p].req = r,
                                    ![p].todo = {}]
        PROVE  \E x \in Process : /\ proc' = [proc EXCEPT ![p] = x]
                                  /\ x.pc \in InHand => x.req # 0
    <3> DEFINE x == [proc[p] EXCEPT !.pc = "claimed", !.req = r, !.todo = {}]
    <3>1. r \in 1 .. MaxRequests
      BY ProcFields DEF Oldest, Requests
    <3>2. r \in 0 .. MaxRequests /\ r # 0
      BY <3>1, QueueAssumption
    <3>3. x \in Process /\ x.req = r
      BY <1>p, <3>2, LabelsAre DEF Process
    <3> QED
      BY <2>2, <3>2, <3>3
  <2>3. ASSUME NEW r \in Oldest(proc[p].todo), At(p, "claim"),
               proc' = [proc EXCEPT ![p].todo = @ \ {r}]
        PROVE  \E x \in Process : /\ proc' = [proc EXCEPT ![p] = x]
                                  /\ x.pc \in InHand => x.req # 0
    <3> DEFINE x == [proc[p] EXCEPT !.todo = @ \ {r}]
    <3>1. x \in Process /\ x.pc = "claim"
      BY <1>p, <2>3 DEF Process, At
    <3> QED
      BY <2>3, <3>1 DEF InHand
  <2> QED
    BY <1>14, <2>1, <2>2, <2>3 DEF Claim
<1> QED
  BY <1>4, <1>5, <1>6, <1>7, <1>8, <1>9, <1>10, <1>11, <1>12, <1>13, <1>14
     DEF Step

\* What update() does to the files after a claim.
LEMMA SignCases ==
    ASSUME NEW p \in Procs, SignClaim(p)
    PROVE  LET r == proc[p].req IN
           \/ Exists(waiting, r) /\ waiting' = Signed(waiting, p)
                /\ UNCHANGED <<running, done>>
           \/ ~Exists(waiting, r) /\ Exists(running, r)
                /\ running' = Signed(running, p) /\ UNCHANGED <<waiting, done>>
           \/ Exists(done, r) /\ ~Exists(running, r)
                /\ done' = Signed(done, p) /\ UNCHANGED <<waiting, running>>
           \/ Lost(r) /\ UNCHANGED files
<1> DEFINE r == proc[p].req
<1>1. CASE Exists(waiting, r)
  <2>1. ~Lost(r)
    BY <1>1 DEF Lost
  <2> QED
    BY <1>1, <2>1 DEF SignClaim
<1>2. CASE ~Exists(waiting, r) /\ Exists(running, r)
  <2>1. ~Lost(r)
    BY <1>2 DEF Lost
  <2> QED
    BY <1>2, <2>1 DEF SignClaim
<1>3. CASE ~Exists(waiting, r) /\ ~Exists(running, r) /\ Exists(done, r)
  <2>1. ~Lost(r)
    BY <1>3 DEF Lost
  <2> QED
    BY <1>3, <2>1 DEF SignClaim
<1>4. CASE ~Exists(waiting, r) /\ ~Exists(running, r) /\ ~Exists(done, r)
  <2>1. Lost(r)
    BY <1>4 DEF Lost
  <2> QED
    BY <1>4, <2>1 DEF SignClaim
<1> QED
  BY <1>1, <1>2, <1>3, <1>4

\* What a step does to the files, the lock and the counters is typed.
LEMMA RestStep ==
    ASSUME Typed, NEW p \in Procs, Start(p) \/ Step(p)
    PROVE  /\ Files'
           /\ flock' \in Procs \cup {NoProc} /\ named' \in Procs \cup {NoProc}
           /\ asked' \in 0 .. MaxRequests /\ kills' = kills
<1>f. /\ waiting \in [Requests -> File] /\ running \in [Requests -> File]
      /\ done \in [Requests -> File]
  BY DEF Typed, Files
<1>l. /\ flock \in Procs \cup {NoProc} /\ named \in Procs \cup {NoProc}
      /\ asked \in 0 .. MaxRequests
  BY DEF Typed
<1>s. SUFFICES ASSUME TRUE
               PROVE  /\ waiting' \in [Requests -> File]
                      /\ running' \in [Requests -> File]
                      /\ done' \in [Requests -> File]
                      /\ flock' \in Procs \cup {NoProc}
                      /\ named' \in Procs \cup {NoProc}
                      /\ asked' \in 0 .. MaxRequests /\ kills' = kills
  BY DEF Files
<1>1. CASE Start(p)
  <2>1. asked < MaxRequests => asked + 1 \in 0 .. MaxRequests
    BY <1>l, QueueAssumption
  <2> QED
    BY <1>1, <1>f, <1>l, <2>1 DEF Start, lock, File
<1>2. CASE CheckOwner(p) \/ LookOwner(p) \/ ListStale(p) \/ ListWaiting(p)
             \/ Prepare(p) \/ TrainBusy(p) \/ RunEnds(p)
  BY <1>2, <1>f, <1>l
     DEF CheckOwner, LookOwner, ListStale, ListWaiting, Prepare, TrainBusy,
         RunEnds, files, lock
<1>3. CASE TakeLock(p) \/ NameOwner(p) \/ ClearOwner(p) \/ Unlock(p)
  BY <1>3, <1>f, <1>l DEF TakeLock, NameOwner, ClearOwner, Unlock, files
<1>4. CASE Requeue(p) \/ UnlinkStale(p) \/ UnlinkFinished(p) \/ UnlinkReleased(p)
             \/ Release(p) \/ Finish(p)
  BY <1>4, <1>f, <1>l
     DEF Requeue, UnlinkStale, UnlinkFinished, UnlinkReleased, Release, Finish,
         lock, File
<1>5. CASE Claim(p)
  <2>1. UNCHANGED <<lock, asked, kills>>
    BY <1>5 DEF Claim
  <2>2. ASSUME NEW r \in Oldest(proc[p].todo),
               running' = [running EXCEPT ![r] = waiting[r]],
               waiting' = [waiting EXCEPT ![r] = Missing], UNCHANGED done
        PROVE  /\ waiting' \in [Requests -> File] /\ running' \in [Requests -> File]
               /\ done' \in [Requests -> File]
    <3>1. r \in Requests
      BY ProcFields DEF Oldest
    <3>2. waiting[r] \in File /\ Missing \in File
      BY <1>f, <3>1 DEF File
    <3> QED
      BY <1>f, <2>2, <3>2
  <2>3. ASSUME UNCHANGED files
        PROVE  /\ waiting' \in [Requests -> File] /\ running' \in [Requests -> File]
               /\ done' \in [Requests -> File]
    BY <2>3, <1>f DEF files
  <2>4. /\ waiting' \in [Requests -> File] /\ running' \in [Requests -> File]
        /\ done' \in [Requests -> File]
    BY <1>5, <2>2, <2>3 DEF Claim
  <2> QED
    BY <1>l, <2>1, <2>4 DEF lock
<1>6. CASE SignClaim(p)
  <2>1. \/ waiting' = Signed(waiting, p) /\ UNCHANGED <<running, done>>
        \/ running' = Signed(running, p) /\ UNCHANGED <<waiting, done>>
        \/ done' = Signed(done, p) /\ UNCHANGED <<waiting, running>>
        \/ UNCHANGED files
    BY <1>6, SignCases
  <2>2. UNCHANGED <<lock, asked, kills>>
    BY <1>6 DEF SignClaim
  <2>3. /\ Signed(waiting, p) \in [Requests -> File]
        /\ Signed(running, p) \in [Requests -> File]
        /\ Signed(done, p) \in [Requests -> File]
    BY <1>f DEF Signed, File
  <2> QED
    BY <2>1, <2>2, <2>3, <1>f, <1>l DEF files, lock
<1> QED
  BY <1>1, <1>2, <1>3, <1>4, <1>5, <1>6 DEF Step

\* A kill: the dead process is at a label of its own.
LEMMA KillStep ==
    ASSUME Typed, NEW p \in Procs, Kill(p)
    PROVE  /\ Typed'
           /\ UNCHANGED files
           /\ \A q \in Procs \ {p} : proc'[q] = proc[q]
           /\ proc'[p].pc \in {"killed", "torn"}
<1> DEFINE l == IF proc[p].pc \in Moving THEN "torn" ELSE "killed"
           x == [proc[p] EXCEPT !.pc = l]
<1>1. proc' = [proc EXCEPT ![p] = x] /\ UNCHANGED files /\ UNCHANGED <<named, asked>>
  BY DEF Kill, Goto
<1>2. x \in Process /\ x.pc \in {"killed", "torn"}
  BY ProcFields, LabelsAre DEF Process
<1>3. proc' \in [Procs -> Process]
  BY <1>1, <1>2 DEF Typed
<1>4. proc'[p] = x /\ \A q \in Procs \ {p} : proc'[q] = proc[q]
  BY <1>1 DEF Typed
<1>5. InHandInv'
  BY <1>2, <1>4 DEF Typed, InHandInv, InHand
<1>6. flock' \in Procs \cup {NoProc} /\ kills' \in 0 .. MaxKills
  BY QueueAssumption DEF Kill, Typed
<1> QED
  BY <1>1, <1>2, <1>3, <1>4, <1>5, <1>6 DEF Typed, Files, files

\* Every step keeps files, processes, lock and counters typed.
LEMMA TypedStep == Typed /\ [Next]_vars => Typed'
<1> SUFFICES ASSUME Typed, [Next]_vars PROVE Typed'
  OBVIOUS
<1>1. CASE UNCHANGED vars
  BY <1>1 DEF vars, Typed, Files, InHandInv
<1>2. ASSUME NEW p \in Procs, Start(p) \/ Step(p) PROVE Typed'
  <2>1. InHandInv'
    BY <1>2, ProcStep DEF Typed, InHandInv
  <2> QED
    BY <1>2, <2>1, ProcStep, RestStep DEF Typed
<1>3. ASSUME NEW r \in Requests, Cancel(r) PROVE Typed'
  BY <1>3 DEF Cancel, Typed, Files, InHandInv, lock, File
<1> QED
  BY <1>1, <1>2, <1>3, KillStep DEF Next

\* Every variable starts typed.
LEMMA TypedInit == Init => Typed
<1> SUFFICES ASSUME Init PROVE Typed
  OBVIOUS
<1>1. proc \in [Procs -> Process]
  BY LabelsAre, QueueAssumption DEF Init, Process
<1>2. InHandInv
  BY DEF Init, InHandInv, InHand
<1>3. Files
  BY DEF Init, Files, File
<1> QED
  BY <1>1, <1>2, <1>3, QueueAssumption DEF Init, Typed

-----------------------------------------------------------------------------
(* Nothing is lost, when moves are not overtaken: a kill may hit one.      *)

\* The copy a move has written is there while the other is removed.
Kept ==
    \A p \in Procs :
        /\ proc[p].pc \in {"requeued", "backed"} => Exists(waiting, proc[p].req)
        /\ proc[p].pc = "finished" => Exists(done, proc[p].req)

\* A step of a process puts it at a second half of a move only by a first.
LEMMA Halves ==
    ASSUME Typed, NEW p \in Procs, Start(p) \/ Step(p)
    PROVE  /\ proc'[p].pc = "requeued" => Requeue(p)
           /\ proc'[p].pc = "backed" => Release(p)
           /\ proc'[p].pc = "finished" => Finish(p)
<1>p. proc \in [Procs -> Process] /\ proc[p] \in Process
  BY ProcFields DEF Typed
<1>0. \A l : Goto(p, l) => proc'[p].pc = l
  BY <1>p DEF Goto, Process
<1>1. CASE Start(p) \/ CheckOwner(p) \/ LookOwner(p) \/ NameOwner(p)
             \/ ClearOwner(p) \/ TakeLock(p) \/ SignClaim(p) \/ Prepare(p)
  BY <1>1, <1>0
     DEF Start, CheckOwner, LookOwner, NameOwner, ClearOwner, TakeLock,
         SignClaim, Prepare
<1>2. CASE TrainBusy(p) \/ Unlock(p) \/ UnlinkReleased(p)
  BY <1>2, <1>0 DEF TrainBusy, Unlock, UnlinkReleased, OrRaise
<1>3. CASE ListStale(p) \/ ListWaiting(p) \/ UnlinkStale(p) \/ UnlinkFinished(p)
             \/ RunEnds(p)
  BY <1>3, <1>p
     DEF ListStale, ListWaiting, UnlinkStale, UnlinkFinished, RunEnds, OrRaise,
         Process
<1>4. CASE Claim(p)
  <2>1. ASSUME NEW r, proc' = [proc EXCEPT ![p].todo = @ \ {r}], At(p, "claim")
        PROVE  proc'[p].pc = "claim"
    BY <2>1, <1>p DEF Process, At
  <2>2. ASSUME NEW r, proc' = [proc EXCEPT ![p].pc = "claimed", ![p].req = r,
                                           ![p].todo = {}]
        PROVE  proc'[p].pc = "claimed"
    BY <2>2, <1>p DEF Process
  <2> QED
    BY <1>4, <1>0, <2>1, <2>2 DEF Claim
<1>5. CASE Requeue(p)
  <2>1. CASE Goto(p, "look")
    BY <2>1, <1>0
  <2>2. ASSUME NEW r, proc' = [proc EXCEPT ![p].pc = "requeued", ![p].req = r,
                                           ![p].todo = @ \ {r}]
        PROVE  proc'[p].pc = "requeued"
    BY <2>2, <1>p DEF Process
  <2> QED
    BY <1>5, <2>1, <2>2 DEF Requeue
<1>6. CASE Finish(p)
  BY <1>6, <1>0 DEF Finish
<1>7. CASE Release(p)
  <2>1. proc'[p].pc \in {"exit", "backed"}
    BY <1>7, <1>0 DEF Release
  <2> QED
    BY <1>7, <2>1
<1> QED
  BY <1>1, <1>2, <1>3, <1>4, <1>5, <1>6, <1>7 DEF Step

\* Every step keeps the copies that moves in progress have written.
LEMMA KeptStep ==
    ASSUME Prompt = TRUE
    PROVE  Typed /\ Kept /\ [Next]_vars => Kept'
<1> SUFFICES ASSUME Typed, Kept, [Next]_vars PROVE Kept'
  OBVIOUS
<1>f. /\ waiting \in [Requests -> File] /\ done \in [Requests -> File]
      /\ NoPid # Missing
  BY QueueAssumption DEF Typed, Files
<1>1. CASE UNCHANGED vars
  BY <1>1 DEF vars, Kept, Exists
<1>2. ASSUME NEW p \in Procs, Undisturbed({p}), Start(p) \/ Step(p) PROVE Kept'
  <2>1. \A q \in Procs \ {p} : proc'[q].pc \notin Moving
    BY <1>2, ProcStep DEF Undisturbed
  <2>2. ASSUME proc'[p].pc = "requeued" PROVE Exists(waiting, proc[p].req)'
    <3>1. PICK r \in Oldest(proc[p].todo) :
              /\ waiting' = [waiting EXCEPT ![r] = NoPid]
              /\ proc' = [proc EXCEPT ![p].pc = "requeued", ![p].req = r,
                                      ![p].todo = @ \ {r}]
      <4>1. Requeue(p)
        BY <1>2, <2>2, Halves
      <4>2. Goto(p, "look") => proc'[p].pc = "look"
        BY DEF Goto, Typed, Process
      <4> QED
        BY <2>2, <4>1, <4>2 DEF Requeue
    <3>2. r \in Requests
      BY ProcFields DEF Oldest
    <3>3. proc'[p].req = r
      BY <3>1 DEF Typed, Process
    <3> QED
      BY <1>f, <3>1, <3>2, <3>3 DEF Exists
  <2>3. ASSUME proc'[p].pc = "backed" PROVE Exists(waiting, proc[p].req)'
    <3>1. Release(p) /\ proc[p].req \in Requests
      <4>1. Release(p)
        BY <1>2, <2>3, Halves
      <4> QED
        BY <4>1, ProcFields DEF Release, At, InHand
    <3>2. proc'[p].req = proc[p].req
      BY <3>1 DEF Release, Goto, Typed, Process
    <3>3. Goto(p, "exit") => proc'[p].pc = "exit"
      BY DEF Goto, Typed, Process
    <3> QED
      BY <1>f, <2>3, <3>1, <3>2, <3>3 DEF Release, Exists
  <2>4. ASSUME proc'[p].pc = "finished" PROVE Exists(done, proc[p].req)'
    <3>1. Finish(p) /\ proc[p].req \in Requests
      <4>1. Finish(p)
        BY <1>2, <2>4, Halves
      <4> QED
        BY <4>1, ProcFields DEF Finish, At, InHand
    <3>2. proc'[p].req = proc[p].req
      BY <3>1 DEF Finish, Goto, Typed, Process
    <3> QED
      BY <1>f, <3>1, <3>2 DEF Finish, Exists
  <2> QED
    BY <2>1, <2>2, <2>3, <2>4 DEF Kept, Moving
<1>3. ASSUME NEW p \in Procs, Kill(p) PROVE Kept'
  BY <1>3, KillStep DEF Kept, files, Exists
<1>4. ASSUME NEW r \in Requests, Undisturbed({}), Cancel(r) PROVE Kept'
  BY <1>4 DEF Undisturbed, Cancel, Kept, Moving
<1> QED
  BY <1>1, <1>2, <1>3, <1>4 DEF Next

\* A step of a process keeps every request that was queued in a directory.
LEMMA LostStep ==
    ASSUME Typed, Kept, NEW p \in Procs, Step(p), NEW r \in Requests, ~Lost(r)
    PROVE  ~Lost(r)'
<1>f. /\ waiting \in [Requests -> File] /\ running \in [Requests -> File]
      /\ done \in [Requests -> File] /\ NoPid # Missing /\ p # Missing
  BY QueueAssumption DEF Typed, Files
<1>1. CASE CheckOwner(p) \/ LookOwner(p) \/ ListStale(p) \/ ListWaiting(p)
             \/ Prepare(p) \/ TrainBusy(p) \/ RunEnds(p) \/ TakeLock(p)
             \/ NameOwner(p) \/ ClearOwner(p) \/ Unlock(p)
  <2>1. UNCHANGED files
    BY <1>1
       DEF CheckOwner, LookOwner, ListStale, ListWaiting, Prepare, TrainBusy,
           RunEnds, TakeLock, NameOwner, ClearOwner, Unlock
  <2> QED
    BY <2>1 DEF files, Lost, Exists
<1>2. CASE Requeue(p) \/ Release(p) \/ Finish(p)
  BY <1>2, <1>f DEF Requeue, Release, Finish, Lost, Exists
<1>3. CASE UnlinkStale(p) \/ UnlinkReleased(p)
  <2>1. Exists(waiting, proc[p].req) /\ waiting' = waiting
    BY <1>3 DEF UnlinkStale, UnlinkReleased, At, Kept
  <2>2. r # proc[p].req => running'[r] = running[r] /\ done' = done
    BY <1>3, <1>f DEF UnlinkStale, UnlinkReleased
  <2> QED
    BY <2>1, <2>2 DEF Lost, Exists
<1>4. CASE UnlinkFinished(p)
  <2>1. Exists(done, proc[p].req) /\ done' = done /\ waiting' = waiting
    BY <1>4 DEF UnlinkFinished, At, Kept
  <2>2. r # proc[p].req => running'[r] = running[r]
    BY <1>4, <1>f DEF UnlinkFinished
  <2> QED
    BY <2>1, <2>2 DEF Lost, Exists
<1>5. CASE Claim(p)
  <2>1. ASSUME NEW x \in Requests, Exists(waiting, x),
               running' = [running EXCEPT ![x] = waiting[x]],
               waiting' = [waiting EXCEPT ![x] = Missing], UNCHANGED done
        PROVE  ~Lost(r)'
    BY <2>1, <1>f DEF Lost, Exists
  <2>2. \A x \in Oldest(proc[p].todo) : x \in Requests
    BY ProcFields DEF Oldest
  <2>3. CASE UNCHANGED files
    BY <2>3 DEF files, Lost, Exists
  <2> QED
    BY <1>5, <2>1, <2>2, <2>3 DEF Claim
<1>6. CASE SignClaim(p)
  <2>1. \A x \in Requests : /\ Exists(waiting, x) => Signed(waiting, p)[x] # Missing
                            /\ Exists(running, x) => Signed(running, p)[x] # Missing
                            /\ Exists(done, x) => Signed(done, p)[x] # Missing
    BY <1>f DEF Signed, Exists
  <2>2. \/ waiting' = Signed(waiting, p) /\ UNCHANGED <<running, done>>
        \/ running' = Signed(running, p) /\ UNCHANGED <<waiting, done>>
        \/ done' = Signed(done, p) /\ UNCHANGED <<waiting, running>>
        \/ UNCHANGED files
    BY <1>6, SignCases
  <2> QED
    BY <2>1, <2>2 DEF files, Lost, Exists
<1> QED
  BY <1>1, <1>2, <1>3, <1>4, <1>5, <1>6 DEF Step

\* A queued request is always in some directory, wherever processes are
\* killed, as long as no process acts inside another's move.
THEOREM NothingLost ==
    ASSUME Prompt = TRUE PROVE Spec => []NeverLost
<1>1. Init => Kept /\ NeverLost
  <2> SUFFICES ASSUME Init PROVE Kept /\ NeverLost
    OBVIOUS
  <2>1. Kept
    BY DEF Init, Kept
  <2>2. 1 .. asked = {}
    BY DEF Init
  <2> QED
    BY <2>1, <2>2 DEF NeverLost
<1>2. Typed /\ Kept /\ NeverLost /\ [Next]_vars => NeverLost'
  <2> SUFFICES ASSUME Typed, Kept, NeverLost, [Next]_vars,
                      NEW r \in 1 .. asked'
               PROVE  ~Lost(r)'
    BY DEF NeverLost
  <2>f. /\ waiting \in [Requests -> File] /\ NoPid # Missing
        /\ asked \in 0 .. MaxRequests /\ MaxRequests \in Nat
    BY QueueAssumption DEF Typed, Files
  <2>1. CASE UNCHANGED vars
    BY <2>1 DEF vars, NeverLost, Lost, Exists
  <2>2. ASSUME NEW p \in Procs, Start(p) PROVE ~Lost(r)'
    <3>1. CASE asked' = asked /\ waiting' = waiting
      BY <2>2, <3>1 DEF Start, NeverLost, Lost, Exists
    <3>2. CASE /\ asked < MaxRequests /\ asked' = asked + 1
               /\ waiting' = [waiting EXCEPT ![asked + 1] = NoPid]
      <4>1. r \in Requests /\ (r = asked + 1 \/ r \in 1 .. asked)
        BY <2>f, <3>2 DEF Requests
      <4>2. CASE r = asked + 1
        BY <2>f, <3>2, <4>1, <4>2 DEF Lost, Exists
      <4>3. CASE r # asked + 1
        <5>1. ~Lost(r) /\ waiting'[r] = waiting[r]
          BY <2>f, <3>2, <4>1, <4>3 DEF NeverLost
        <5> QED
          BY <2>2, <5>1 DEF Start, Lost, Exists
      <4> QED
        BY <4>2, <4>3
    <3> QED
      BY <2>2, <3>1, <3>2 DEF Start
  <2>3. ASSUME asked' = asked PROVE r \in Requests /\ ~Lost(r)
    BY <2>f, <2>3 DEF NeverLost, Requests
  <2>4. ASSUME NEW p \in Procs, Step(p) PROVE ~Lost(r)'
    <3>1. asked' = asked
      BY <2>4
         DEF Step, CheckOwner, ListStale, Requeue, UnlinkStale, LookOwner,
             ListWaiting, Claim, SignClaim, Prepare, TakeLock, TrainBusy,
             NameOwner, RunEnds, ClearOwner, Unlock, Finish, UnlinkFinished,
             Release, UnlinkReleased
    <3> QED
      BY <2>3, <2>4, <3>1, LostStep
  <2>5. ASSUME NEW p \in Procs, Kill(p) PROVE ~Lost(r)'
    BY <2>3, <2>5 DEF Kill, files, Lost, Exists
  <2>6. ASSUME NEW x \in Requests, Cancel(x) PROVE ~Lost(r)'
    <3>1. ~Lost(r) /\ done \in [Requests -> File] /\ r \in Requests
      BY <2>3, <2>6 DEF Cancel, Typed, Files
    <3> QED
      BY <2>f, <2>6, <3>1 DEF Cancel, Lost, Exists
  <2> QED
    BY <2>1, <2>2, <2>4, <2>5, <2>6 DEF Next
<1> QED
  BY <1>1, <1>2, TypedInit, TypedStep, KeptStep, PTL DEF Spec

-----------------------------------------------------------------------------
(* One server per request, when moves are not overtaken.                   *)

\* Labels at which a process with a request serves it, its pid in the file.
Signing == {"prepare", "lock", "name", "run", "unname", "unlock", "finish",
            "finished", "back", "backed"}
\* Labels at which a process has no request.
Free == {"off", "check", "stale", "look", "list", "claim", "requeue"}

Signs == \A p \in Procs :
    proc[p].pc \in Signing /\ proc[p].req # 0 => running[proc[p].req] = p
Shown == \A r \in Requests : Live(running[r]) =>
    proc[running[r]].req = r /\ proc[running[r]].pc \in Signing
Claims == \A p \in Procs : proc[p].pc = "claimed" =>
    running[proc[p].req] = NoPid /\ ~Exists(waiting, proc[p].req)
Unsigned == \A r \in Requests : {waiting[r], done[r]} \subseteq {Missing, NoPid}
Apart == \A r \in Requests : Exists(waiting, r) /\ Live(running[r]) =>
    proc[running[r]].pc = "backed"
Stale == \A p \in Procs :
    /\ proc[p].pc \in {"requeue", "requeued"} =>
          \A r \in proc[p].todo : ~Live(running[r]) /\ r <= asked
    /\ proc[p].pc = "requeued" =>
          ~Live(running[proc[p].req]) /\ proc[p].req <= asked
Started == \A r \in Requests :
    running[r] \in Procs => proc[running[r]].pc # "off"
OneMove == \A p, q \in Procs :
    proc[p].pc \in Moving /\ proc[q].pc \in Moving => p = q
FreeHands == \A p \in Procs : proc[p].pc \in Free => proc[p].req = 0
Asked == \A r \in Requests :
    Exists(running, r) \/ Exists(waiting, r) => r <= asked

ServeInv == /\ Signs /\ Shown /\ Claims /\ Unsigned /\ Apart /\ Stale
            /\ Started /\ OneMove /\ FreeHands /\ Asked

\* Every live process, spelled out by its label.
LEMMA LiveIs == \A p \in Procs :
    Live(p) <=> proc[p].pc \notin {"off", "exit", "raised", "killed", "torn"}
  BY DEF Live, Ended

\* Only pids are live: neither an absent file nor one that names nobody.
LEMMA DeadNames == ~Live(Missing) /\ ~Live(NoPid)
  BY QueueAssumption DEF Live

\* Who is live after a step of p, in terms of labels.
LEMMA LiveNext == \A q \in Procs :
    Live(q)' <=> proc'[q].pc \notin {"off", "exit", "raised", "killed", "torn"}
  BY DEF Live, Ended

\* What is known of p before any step of its own.
Alone(p) == /\ \A q \in Procs \ {p} : proc'[q] = proc[q] /\ proc[q].pc \notin Moving
            /\ Live(p) \/ proc[p].pc = "off"

\* A step that keeps what the files say of who serves keeps who serves what: it
\* moves one process between labels at which it serves its request, or between
\* others, and may write a request nobody serves to waiting.
LEMMA QuietStep ==
    ASSUME Typed, ServeInv, NEW p \in Procs, Alone(p),
           proc[p].pc # "backed",
           proc'[p].pc \notin {"off", "claimed", "requeued", "backed"},
           proc'[p].pc = "requeue" =>
               \A r \in proc'[p].todo : ~Live(running[r])' /\ r <= asked',
           proc'[p].req = proc[p].req,
           proc[p].req # 0 => proc[p].pc \in Signing /\ proc'[p].pc \in Signing,
           UNCHANGED running,
           \A r \in Requests :
               r <= asked => r <= asked',
           \A r \in Requests : Exists(waiting', r) =>
               Exists(waiting, r) \/ (~Live(running[r]) /\ r <= asked'),
           \A r \in Requests : {waiting'[r], done'[r]} \subseteq {Missing, NoPid}
    PROVE  ServeInv'
<1>s. Signing \cap Free = {} /\ \A r \in Requests : r # 0
  BY QueueAssumption DEF Signing, Free, Requests
<1>r. \A r \in Requests : running[r] \in Procs \cup {Missing, NoPid}
  BY DEF Typed, Files, File
<1>m. {"claimed", "requeue", "requeued", "backed"} \subseteq Moving
  BY DEF Moving
<1>1. Signs'
  BY DEF ServeInv, Signs, Alone
<1>2. \A r \in Requests : Live(running[r])' => Live(running[r])
  <2> SUFFICES ASSUME NEW r \in Requests, Live(running[r])' PROVE Live(running[r])
    OBVIOUS
  <2>1. running[r] \in Procs
    BY <1>r, QueueAssumption DEF Live
  <2>2. CASE running[r] = p
    BY <2>1, <2>2 DEF ServeInv, Started, Alone
  <2>3. CASE running[r] # p
    BY <2>1, <2>3 DEF Alone, Live
  <2> QED
    BY <2>2, <2>3
<1>3. Shown'
  BY <1>2, <1>r, <1>s, DeadNames DEF ServeInv, Shown, Alone
<1>4. Claims'
  BY <1>m DEF ServeInv, Claims, Alone, Exists
<1>5. Unsigned'
  BY DEF ServeInv, Unsigned
<1>6. Apart'
  BY <1>2, <1>r, <1>m, DeadNames DEF ServeInv, Apart, Alone, Exists
<1>7. Stale'
  BY <1>m DEF Stale, Alone
<1>8. Started'
  BY DEF ServeInv, Started, Alone
<1>9. OneMove'
  BY DEF OneMove, Alone
<1>10. FreeHands'
  BY <1>s DEF ServeInv, FreeHands, Alone
<1>11. Asked'
  BY DEF ServeInv, Asked, Exists
<1> QED
  BY <1>1, <1>3, <1>4, <1>5, <1>6, <1>7, <1>8, <1>9, <1>10, <1>11 DEF ServeInv

\* A step that changes the files of one request x, which no other live process
\* serves, keeps who serves what.
LEMMA MoveStep ==
    ASSUME Typed, ServeInv, NEW p \in Procs, Alone(p), Live(p),
           NEW x \in Requests, x <= asked, asked' = asked,
           \A r \in Requests \ {x} :
               waiting'[r] = waiting[r] /\ running'[r] = running[r],
           \A r \in Requests : {waiting'[r], done'[r]} \subseteq {Missing, NoPid},
           \A q \in Procs \ {p} : Live(q) => running[x] # q /\ running'[x] # q,
           running'[x] \in {running[x], waiting[x], Missing, p},
           proc[p].pc \in Signing => proc[p].req = x,
           proc'[p].pc # "off",
           proc'[p].pc \in Signing => proc'[p].req = x /\ running'[x] = p,
           running'[x] = p /\ Live(p)' => proc'[p].pc \in Signing,
           proc'[p].pc = "claimed" =>
               proc'[p].req = x /\ running'[x] = NoPid /\ waiting'[x] = Missing,
           waiting'[x] # Missing /\ running'[x] = p => proc'[p].pc = "backed",
           proc'[p].pc \in {"requeue", "requeued"} =>
               /\ running'[x] # p
               /\ \A r \in proc'[p].todo : ~Live(running[r]) /\ r <= asked,
           proc'[p].pc = "requeued" => proc'[p].req = x,
           proc'[p].pc \in Free => proc'[p].req = 0,
           proc'[p].todo \subseteq Requests
    PROVE  ServeInv'
<1>s. Signing \cap Free = {} /\ (\A r \in Requests : r # 0) /\ Signing \subseteq Labels
  BY QueueAssumption, LabelsAre DEF Signing, Free, Requests
<1>r. \A r \in Requests : /\ running[r] \in Procs \cup {Missing, NoPid}
                          /\ waiting[r] \in Procs \cup {Missing, NoPid}
  BY DEF Typed, Files, File
<1>u. waiting[x] \in {Missing, NoPid}
  BY DEF ServeInv, Unsigned
<1>m. {"claimed", "requeue", "requeued", "backed"} \subseteq Moving
  BY DEF Moving
<1>v. running'[x] \in Procs \cup {Missing, NoPid} /\ NoPid \notin Procs /\ Missing \notin Procs
  BY <1>r, QueueAssumption
<1>l. \A q \in Procs \ {p} : Live(q)' <=> Live(q)
  BY LiveIs, LiveNext DEF Alone
<1>n. ~Live(Missing)' /\ ~Live(NoPid)'
  BY QueueAssumption DEF Live
<1>a. \A r \in Requests \ {x} : running[r] # p
  <2> SUFFICES ASSUME NEW r \in Requests \ {x}, running[r] = p PROVE FALSE
    OBVIOUS
  <2>1. proc[p].req = r /\ proc[p].pc \in Signing
    BY DEF ServeInv, Shown
  <2> QED
    BY <2>1
<1>1. Signs'
  <2>1. ASSUME NEW q \in Procs \ {p}, proc[q].pc \in Signing, proc[q].req # 0
        PROVE  proc[q].req \in Requests \ {x} /\ running[proc[q].req] = q
    <3>1. proc[q].req \in Requests
      BY <2>1, ProcFields, QueueAssumption DEF Requests
    <3>2. running[proc[q].req] = q
      BY <2>1 DEF ServeInv, Signs
    <3>3. Live(q)
      BY <2>1, LiveIs DEF Signing
    <3> QED
      BY <3>1, <3>2, <3>3
  <2> QED
    BY <2>1 DEF Signs, Alone
<1>b. \A r \in Requests \ {x} : Live(running[r])' => Live(running[r]) /\ running[r] \in Procs \ {p}
  BY <1>a, <1>l, <1>n, <1>r
<1>c. Live(running[x])' => running'[x] = p
  BY <1>l, <1>n, <1>v
<1>3. Shown'
  BY <1>b, <1>c DEF ServeInv, Shown, Alone
<1>4. Claims'
  BY <1>m, <1>v DEF Claims, Alone, Exists
<1>5. Unsigned'
  BY DEF Unsigned
<1>6. Apart'
  BY <1>b, <1>c DEF ServeInv, Apart, Alone, Exists
<1>7. Stale'
  <2>1. ~Live(running[x])' \/ running'[x] = p
    BY <1>c
  <2>2. ASSUME proc'[p].pc \in {"requeue", "requeued"}
        PROVE  \A r \in proc'[p].todo : ~Live(running[r])' /\ r <= asked'
    BY <2>1, <2>2, <1>b
  <2>3. proc'[p].pc = "requeued" =>
            ~Live(running[proc[p].req])' /\ (proc[p].req <= asked)'
    BY <2>1
  <2> QED
    BY <2>2, <2>3, <1>m DEF Stale, Alone
<1>8. Started'
  <2> SUFFICES ASSUME NEW r \in Requests, running'[r] \in Procs
               PROVE  proc'[running'[r]].pc # "off"
    BY DEF Started
  <2>1. CASE running'[r] = p
    BY <2>1
  <2>2. CASE running'[r] # p
    <3>1. running'[r] = running[r]
      BY <1>u, <1>v, <2>2
    <3> QED
      BY <2>2, <3>1 DEF ServeInv, Started, Alone
  <2> QED
    BY <2>1, <2>2
<1>9. OneMove'
  BY DEF OneMove, Alone
<1>10. FreeHands'
  BY DEF ServeInv, FreeHands, Alone
<1>11. Asked'
  BY DEF ServeInv, Asked, Exists
<1> QED
  BY <1>1, <1>3, <1>4, <1>5, <1>6, <1>7, <1>8, <1>9, <1>10, <1>11 DEF ServeInv

\* What Goto leaves of the process.
LEMMA Went ==
    ASSUME Typed, NEW p \in Procs, NEW l, Goto(p, l)
    PROVE  /\ proc'[p].pc = l /\ proc'[p].req = proc[p].req
           /\ proc'[p].todo = proc[p].todo
  BY ProcFields DEF Goto, Typed, Process

\* A process that may step does so alone when moves are not overtaken.
LEMMA StepsAlone ==
    ASSUME Prompt = TRUE, Typed, NEW p \in Procs, Undisturbed({p}),
           Start(p) \/ Step(p)
    PROVE  Alone(p)
<1>1. \A q \in Procs \ {p} : proc[q].pc \notin Moving
  BY DEF Undisturbed
<1>2. Start(p) => proc[p].pc = "off"
  BY DEF Start, At
<1>3. Step(p) => Live(p)
  BY LiveIs
     DEF Step, CheckOwner, ListStale, Requeue, UnlinkStale, LookOwner,
         ListWaiting, Claim, SignClaim, Prepare, TakeLock, TrainBusy, NameOwner,
         RunEnds, ClearOwner, Unlock, Finish, UnlinkFinished, Release,
         UnlinkReleased, At
<1> QED
  BY <1>1, <1>2, <1>3, ProcStep DEF Alone

\* Starting, and the enqueue that may come with it, keeps who serves what.
LEMMA StartServes ==
    ASSUME Typed, ServeInv, NEW p \in Procs, Alone(p), Start(p)
    PROVE  ServeInv'
<1>1. proc[p].pc = "off" /\ proc[p].req = 0 /\ UNCHANGED <<running, done>>
  BY DEF Start, At, ServeInv, FreeHands, Free
<1>2. /\ proc'[p].pc \in {"lock", "check", "stale"} /\ proc'[p].req = 0
  BY <1>1, Went DEF Start
<1>f. /\ waiting \in [Requests -> File] /\ asked \in 0 .. MaxRequests
      /\ MaxRequests \in Nat /\ Requests \subseteq Nat
  BY QueueAssumption DEF Typed, Files, Requests
<1>u. \A r \in Requests : {waiting[r], done[r]} \subseteq {Missing, NoPid}
  BY DEF ServeInv, Unsigned
<1>3. CASE waiting' = waiting /\ asked' = asked
  BY <1>1, <1>2, <1>3, <1>u, QuietStep DEF Exists
<1>4. CASE /\ asked < MaxRequests /\ asked' = asked + 1
           /\ waiting' = [waiting EXCEPT ![asked + 1] = NoPid]
  <2>1. asked + 1 \in Requests
    BY <1>f, <1>4 DEF Requests
  <2>2. ~Live(running[asked + 1])
    <3>1. ~(asked + 1 <= asked)
      BY <1>f
    <3> QED
      BY <2>1, <3>1, DeadNames DEF ServeInv, Asked, Exists
  <2>3. \A r \in Requests : r <= asked => r <= asked'
    BY <1>f, <1>4
  <2>4. \A r \in Requests : Exists(waiting', r) =>
            Exists(waiting, r) \/ (~Live(running[r]) /\ r <= asked')
    BY <1>f, <1>4, <2>1, <2>2 DEF Exists
  <2>5. \A r \in Requests : {waiting'[r], done'[r]} \subseteq {Missing, NoPid}
    BY <1>f, <1>1, <1>4, <1>u, <2>1
  <2> QED
    BY <1>1, <1>2, <2>3, <2>4, <2>5, QuietStep
<1> QED
  BY <1>3, <1>4 DEF Start

\* The steps that change no file, and the one that only writes done.
LEMMA QuietSteps ==
    ASSUME Typed, ServeInv, NEW p \in Procs, Alone(p),
           \/ CheckOwner(p) \/ ListStale(p) \/ LookOwner(p) \/ ListWaiting(p)
           \/ Prepare(p) \/ TakeLock(p) \/ TrainBusy(p) \/ NameOwner(p)
           \/ RunEnds(p) \/ ClearOwner(p) \/ Unlock(p) \/ Finish(p)
           \/ Requeue(p) /\ UNCHANGED waiting /\ proc[p].todo = {}
           \/ Claim(p) /\ UNCHANGED files
    PROVE  ServeInv'
<1>u. \A r \in Requests : {waiting[r], done[r]} \subseteq {Missing, NoPid}
  BY DEF ServeInv, Unsigned
<1>p. /\ proc \in [Procs -> Process] /\ proc[p] \in Process
      /\ proc[p].req \in 0 .. MaxRequests /\ MaxRequests \in Nat
      /\ NoPid # Missing
  BY ProcFields, QueueAssumption DEF Typed
<1>q. proc[p].pc \in Free => proc[p].req = 0
  BY DEF ServeInv, FreeHands
<1>1. CASE \/ CheckOwner(p) \/ LookOwner(p)
           \/ Requeue(p) /\ UNCHANGED waiting /\ proc[p].todo = {}
  <2>1. /\ proc[p].pc \in {"check", "look", "requeue"} /\ proc[p].req = 0
        /\ UNCHANGED <<files, asked>>
    BY <1>1, <1>q DEF CheckOwner, LookOwner, Requeue, At, Free, files
  <2>2. proc'[p].pc \in {"exit", "stale", "list", "look"} /\ proc'[p].req = 0
    BY <1>1, <2>1, Went DEF CheckOwner, LookOwner, Requeue, Oldest
  <2> QED
    BY <1>u, <2>1, <2>2, QuietStep DEF files, Exists
<1>2. CASE ListStale(p)
  <2>1. /\ proc[p].pc = "stale" /\ proc[p].req = 0 /\ UNCHANGED <<files, asked>>
    BY <1>2, <1>q DEF ListStale, At, Free, files
  <2>2. /\ proc'[p].pc = "requeue" /\ proc'[p].req = 0
        /\ proc'[p].todo = {r \in Present(running) : ~Live(running[r])}
    BY <1>2, <1>p, <2>1 DEF ListStale, Process
  <2>3. \A r \in proc'[p].todo : ~Live(running[r])' /\ r <= asked'
    <3> SUFFICES ASSUME NEW r \in proc'[p].todo
                 PROVE  ~Live(running[r])' /\ r <= asked'
      OBVIOUS
    <3>1. r \in Requests /\ Exists(running, r) /\ ~Live(running[r])
      BY <2>2 DEF Present
    <3>2. proc'[p].pc = "requeue" /\ proc[p].pc = "stale"
      BY <2>1, <2>2
    <3>3. running[r] # p
      BY <3>1, <3>2, LiveIs
    <3> QED
      BY <2>1, <3>1, <3>3 DEF ServeInv, Asked, Alone, Live, files
  <2> QED
    BY <1>u, <2>1, <2>2, <2>3, QuietStep DEF files, Exists
<1>3. CASE ListWaiting(p) \/ (Claim(p) /\ UNCHANGED files)
  <2>1. /\ proc[p].pc \in {"list", "claim"} /\ proc[p].req = 0
        /\ UNCHANGED <<files, asked>>
    BY <1>3, <1>q DEF ListWaiting, Claim, At, Free, files
  <2>2. proc'[p].pc \in {"claim", "exit"} /\ proc'[p].req = 0
    <3>1. CASE ListWaiting(p)
      BY <1>p, <2>1, <3>1 DEF ListWaiting, Process
    <3>2. CASE Claim(p) /\ proc[p].todo = {}
      BY <2>1, <3>2, Went DEF Claim, Oldest
    <3>3. CASE Claim(p) /\ UNCHANGED files /\ proc[p].todo # {}
      <4>1. PICK r \in Oldest(proc[p].todo) :
               IF Exists(waiting, r) THEN waiting' = [waiting EXCEPT ![r] = Missing]
               ELSE proc' = [proc EXCEPT ![p].todo = @ \ {r}]
        BY <3>3 DEF Claim
      <4>2. r \in Requests /\ waiting \in [Requests -> File]
        BY <4>1, ProcFields DEF Typed, Files, Oldest
      <4>3. ~Exists(waiting, r)
        BY <3>3, <4>1, <4>2 DEF Exists, files
      <4>4. proc[p].pc = "claim"
        BY <3>3 DEF Claim, At
      <4> QED
        BY <1>p, <2>1, <4>1, <4>3, <4>4 DEF Process
    <3> QED
      BY <1>3, <3>1, <3>2, <3>3
  <2> QED
    BY <1>u, <2>1, <2>2, QuietStep DEF files, Exists
<1>4. CASE Prepare(p)
  <2>1. /\ proc[p].pc = "prepare" /\ proc[p].req \in Requests
        /\ UNCHANGED <<files, asked>>
    BY <1>4, ProcFields DEF Prepare, At, InHand, files
  <2>2. running[proc[p].req] = p /\ p # Missing
    BY <2>1, QueueAssumption DEF ServeInv, Signs, Signing, Requests
  <2>3. ~Lost(proc[p].req)
    BY <2>2 DEF Lost, Exists
  <2>4. /\ proc'[p].pc \in {"finish", "lock"} /\ proc'[p].req = proc[p].req
    BY <1>4, <2>3, Went DEF Prepare
  <2> QED
    BY <1>u, <2>1, <2>4, QuietStep DEF files, Exists, Signing
<1>5. CASE \/ TakeLock(p) \/ TrainBusy(p) \/ NameOwner(p) \/ ClearOwner(p)
           \/ Unlock(p)
  <2>1. /\ proc[p].pc \in {"lock", "name", "unname", "unlock"}
        /\ UNCHANGED <<files, asked>>
    BY <1>5 DEF TakeLock, TrainBusy, NameOwner, ClearOwner, Unlock, At, files
  <2>2. /\ proc'[p].req = proc[p].req
        /\ \/ proc'[p].pc \in {"name", "run", "unlock", "back", "finish"}
           \/ proc[p].req = 0 /\ proc'[p].pc \in {"exit", "raised", "stale"}
    BY <1>5, Went
       DEF TakeLock, TrainBusy, NameOwner, ClearOwner, Unlock, OrRaise
  <2> QED
    BY <1>u, <2>1, <2>2, QuietStep DEF files, Exists, Signing
<1>6. CASE RunEnds(p)
  <2>1. proc[p].pc = "run" /\ UNCHANGED <<files, asked>>
    BY <1>6 DEF RunEnds, At, files
  <2>2. proc'[p].pc = "unname" /\ proc'[p].req = proc[p].req
    BY <1>6, <1>p DEF RunEnds, Process
  <2> QED
    BY <1>u, <2>1, <2>2, QuietStep DEF files, Exists, Signing
<1>7. CASE Finish(p)
  <2>1. /\ proc[p].pc = "finish" /\ UNCHANGED <<waiting, running, asked>>
        /\ proc[p].req \in Requests /\ done \in [Requests -> File]
        /\ done' = [done EXCEPT ![proc[p].req] = NoPid]
    BY <1>7, ProcFields DEF Finish, At, InHand, Typed, Files
  <2>2. proc'[p].pc = "finished" /\ proc'[p].req = proc[p].req
    BY <1>7, Went DEF Finish
  <2>3. \A r \in Requests : {waiting'[r], done'[r]} \subseteq {Missing, NoPid}
    BY <1>u, <2>1
  <2> QED
    BY <2>1, <2>2, <2>3, QuietStep DEF Exists, Signing
<1> QED
  BY <1>1, <1>2, <1>3, <1>4, <1>5, <1>6, <1>7

\* Putting a request back in waiting, unlinking it from running, and claiming
\* it: the steps that change the files of a request.
LEMMA MoveSteps ==
    ASSUME Typed, ServeInv, NEW p \in Procs, Alone(p),
           \/ Requeue(p) /\ proc[p].todo # {}
           \/ UnlinkStale(p)
           \/ Claim(p) /\ ~UNCHANGED files
           \/ SignClaim(p) \/ UnlinkFinished(p) \/ Release(p) \/ UnlinkReleased(p)
    PROVE  ServeInv'
<1>u. \A r \in Requests : {waiting[r], done[r]} \subseteq {Missing, NoPid}
  BY DEF ServeInv, Unsigned
<1>p. /\ proc \in [Procs -> Process] /\ proc[p] \in Process
      /\ proc[p].req \in 0 .. MaxRequests /\ MaxRequests \in Nat
      /\ proc[p].todo \in SUBSET Requests
      /\ NoPid # Missing /\ 0 \notin Requests
      /\ \A q \in Procs : q # Missing /\ q # NoPid
  BY ProcFields, QueueAssumption DEF Typed, Requests
<1>f. /\ waiting \in [Requests -> File] /\ running \in [Requests -> File]
      /\ done \in [Requests -> File]
  BY DEF Typed, Files
<1>q. proc[p].pc \in Free => proc[p].req = 0
  BY DEF ServeInv, FreeHands
<1>s. Signing \cap Free = {}
  BY DEF Signing, Free
<1>a. \A r \in Requests : Exists(running, r) \/ Exists(waiting, r) => r <= asked
  BY DEF ServeInv, Asked
<1>g. \A r \in Requests : proc[p].pc \in Signing /\ proc[p].req = r => running[r] = p
  BY <1>p DEF ServeInv, Signs
<1>1. CASE Requeue(p) /\ proc[p].todo # {}
  <2>1. PICK r \in Oldest(proc[p].todo) :
           /\ waiting' = [waiting EXCEPT ![r] = NoPid]
           /\ proc' = [proc EXCEPT ![p].pc = "requeued", ![p].req = r,
                                   ![p].todo = @ \ {r}]
    BY <1>1 DEF Requeue
  <2>2. /\ proc[p].pc = "requeue" /\ UNCHANGED <<running, done, asked>>
        /\ r \in Requests /\ r \in proc[p].todo
    BY <1>1, <1>p, <2>1 DEF Requeue, At, Oldest
  <2>3. /\ proc'[p].pc = "requeued" /\ proc'[p].req = r
        /\ proc'[p].todo = proc[p].todo \ {r}
    BY <1>p, <2>1 DEF Process
  <2>4. \A x \in proc[p].todo : ~Live(running[x]) /\ x <= asked
    BY <2>2 DEF ServeInv, Stale
  <2>5. Live(p)
    BY <2>2, LiveIs
  <2> QED
    BY <1>u, <1>p, <1>f, <2>1, <2>2, <2>3, <2>4, <2>5, MoveStep
       DEF Signing, Free
<1>2. CASE UnlinkStale(p)
  <2> DEFINE x == proc[p].req
  <2>1. /\ proc[p].pc = "requeued" /\ UNCHANGED <<waiting, done, asked>>
        /\ x \in Requests /\ running' = [running EXCEPT ![x] = Missing]
    BY <1>2, ProcFields DEF UnlinkStale, At, InHand
  <2>2. /\ proc'[p].pc = "requeue" /\ proc'[p].req = 0
        /\ proc'[p].todo = proc[p].todo
    BY <1>2, <1>p DEF UnlinkStale, Process
  <2>3. /\ ~Live(running[x]) /\ x <= asked
        /\ \A r \in proc[p].todo : ~Live(running[r]) /\ r <= asked
    BY <2>1 DEF ServeInv, Stale
  <2>4. Live(p)
    BY <2>1, LiveIs
  <2> QED
    <3>1. \A r \in Requests \ {x} : running'[r] = running[r]
      BY <1>f, <2>1
    <3>2. running'[x] = Missing
      BY <1>f, <2>1
    <3>3. \A r \in proc'[p].todo : ~Live(running[r]) /\ r <= asked
      BY <2>2, <2>3
    <3> QED
      BY <1>u, <1>p, <2>1, <2>2, <2>3, <2>4, <3>1, <3>2, <3>3, MoveStep
         DEF Signing, Free
<1>3. CASE Claim(p) /\ ~UNCHANGED files
  <2>1. PICK r \in Oldest(proc[p].todo) :
           /\ Exists(waiting, r)
           /\ running' = [running EXCEPT ![r] = waiting[r]]
           /\ waiting' = [waiting EXCEPT ![r] = Missing]
           /\ proc' = [proc EXCEPT ![p].pc = "claimed", ![p].req = r,
                                   ![p].todo = {}]
           /\ UNCHANGED done
    BY <1>3 DEF Claim
  <2>2. /\ proc[p].pc = "claim" /\ UNCHANGED <<done, asked>> /\ r \in Requests
    BY <1>3, <1>p, <2>1 DEF Claim, At, Oldest
  <2>3. /\ proc'[p].pc = "claimed" /\ proc'[p].req = r /\ proc'[p].todo = {}
    BY <1>p, <2>1 DEF Process
  <2>4. ~Live(running[r])
    <3> SUFFICES ASSUME Live(running[r]) PROVE FALSE
      OBVIOUS
    <3>1. proc[running[r]].pc = "backed" /\ running[r] \in Procs
      BY <2>1, <2>2 DEF ServeInv, Apart, Live
    <3> QED
      BY <2>2, <3>1 DEF Alone, Moving
  <2>5. Live(p) /\ r <= asked /\ waiting[r] = NoPid
    BY <1>a, <1>u, <2>1, <2>2, LiveIs DEF Exists
  <2>6. \A q \in Procs : q # NoPid
    BY QueueAssumption
  <2> QED
    BY <1>u, <1>p, <1>f, <2>1, <2>2, <2>3, <2>4, <2>5, <2>6, MoveStep
       DEF Signing, Free
<1>4. CASE SignClaim(p)
  <2> DEFINE x == proc[p].req
  <2>1. /\ proc[p].pc = "claimed" /\ x \in Requests /\ UNCHANGED asked
    BY <1>4, ProcFields DEF SignClaim, At, InHand
  <2>2. running[x] = NoPid /\ ~Exists(waiting, x)
    BY <2>1 DEF ServeInv, Claims
  <2>3. running' = Signed(running, p) /\ UNCHANGED <<waiting, done>> /\ ~Lost(x)
    BY <1>4, <1>p, <2>2, SignCases DEF Exists, Lost
  <2>4. /\ proc'[p].pc = "prepare" /\ proc'[p].req = x
    BY <1>4, <2>3, Went DEF SignClaim
  <2>5. Live(p) /\ x <= asked /\ proc'[p].todo = proc[p].todo
    BY <1>4, <1>a, <1>p, <2>1, <2>2, LiveIs, Went DEF Exists, SignClaim
  <2>6. \A q \in Procs : q # NoPid
    BY QueueAssumption
  <2>7. /\ running'[x] = p /\ waiting'[x] = Missing
        /\ \A r \in Requests \ {x} : running'[r] = running[r]
    BY <1>f, <2>1, <2>2, <2>3 DEF Signed, Exists
  <2> QED
    BY <1>u, <1>p, <2>1, <2>2, <2>3, <2>4, <2>5, <2>6, <2>7, MoveStep
       DEF Signing, Free
<1>5. CASE UnlinkFinished(p) \/ UnlinkReleased(p)
  <2> DEFINE x == proc[p].req
  <2>1. /\ proc[p].pc \in {"finished", "backed"} /\ UNCHANGED <<waiting, done, asked>>
        /\ x \in Requests /\ running' = [running EXCEPT ![x] = Missing]
    BY <1>5, ProcFields DEF UnlinkFinished, UnlinkReleased, At, InHand
  <2>2. /\ proc'[p].pc \in {"look", "raised", "exit"}
        /\ proc'[p].pc = "look" => proc'[p].req = 0
        /\ proc'[p].todo = proc[p].todo
    <3>1. CASE UnlinkFinished(p)
      BY <1>p, <3>1 DEF UnlinkFinished, OrRaise, Process
    <3>2. CASE UnlinkReleased(p)
      BY <3>2, Went DEF UnlinkReleased
    <3> QED
      BY <1>5, <3>1, <3>2
  <2>3. Live(p) /\ running[x] = p /\ x <= asked
    BY <1>a, <1>g, <1>p, <2>1, LiveIs DEF Exists, Signing
  <2> QED
    BY <1>u, <1>p, <1>f, <2>1, <2>2, <2>3, MoveStep DEF Signing, Free
<1>6. CASE Release(p)
  <2> DEFINE x == proc[p].req
  <2>1. /\ proc[p].pc = "back" /\ UNCHANGED <<running, done, asked>> /\ x \in Requests
    BY <1>6, <1>p, ProcFields DEF Release, At, InHand
  <2>2. Live(p) /\ running[x] = p /\ x <= asked
    BY <1>a, <1>g, <1>p, <2>1, LiveIs DEF Exists, Signing
  <2>3. waiting' = [waiting EXCEPT ![x] = NoPid] /\ Goto(p, "backed")
    BY <1>6, <1>p, <2>2 DEF Release, Exists
  <2>4. /\ proc'[p].pc = "backed" /\ proc'[p].req = x
        /\ proc'[p].todo = proc[p].todo
    BY <2>3, Went
  <2> QED
    BY <1>u, <1>p, <1>f, <2>1, <2>2, <2>3, <2>4, MoveStep DEF Signing, Free
<1> QED
  BY <1>1, <1>2, <1>3, <1>4, <1>5, <1>6

\* A killed process serves nothing; what it held stays for others to find.
LEMMA KillServes ==
    ASSUME Typed, ServeInv, NEW p \in Procs, Kill(p)
    PROVE  ServeInv'
<1>1. /\ UNCHANGED <<waiting, running, done, asked>>
      /\ \A q \in Procs \ {p} : proc'[q] = proc[q]
      /\ proc'[p].pc \in {"killed", "torn"}
  BY KillStep DEF Kill, files
<1>r. \A r \in Requests : running[r] \in Procs \cup {Missing, NoPid}
  BY DEF Typed, Files, File
<1>2. \A r \in Requests :
         Live(running[r])' => Live(running[r]) /\ running[r] \in Procs \ {p}
  <2>1. ~Live(p)'
    BY <1>1, LiveNext
  <2> QED
    BY <1>1, <1>r, <2>1, QueueAssumption DEF Live
<1>3. Signs' /\ Claims' /\ Started' /\ FreeHands'
  BY <1>1 DEF ServeInv, Signs, Claims, Started, FreeHands, Signing, Free, Exists
<1>4. Shown'
  BY <1>1, <1>2 DEF ServeInv, Shown
<1>5. Unsigned' /\ Asked'
  BY <1>1 DEF ServeInv, Unsigned, Asked, Exists
<1>6. Apart'
  BY <1>1, <1>2 DEF ServeInv, Apart, Exists
<1>7. Stale'
  <2> SUFFICES ASSUME NEW q \in Procs \ {p}, proc[q].pc \in {"requeue", "requeued"}
               PROVE  /\ \A r \in proc[q].todo : ~Live(running[r])' /\ r <= asked
                      /\ proc[q].pc = "requeued" =>
                            ~Live(running[proc[q].req])' /\ proc[q].req <= asked
    BY <1>1 DEF Stale
  <2>1. proc[q].todo \subseteq Requests
    BY ProcFields
  <2>2. proc[q].pc = "requeued" => proc[q].req \in Requests
    BY ProcFields DEF InHand
  <2>3. /\ \A r \in proc[q].todo : ~Live(running[r]) /\ r <= asked
        /\ proc[q].pc = "requeued" =>
              ~Live(running[proc[q].req]) /\ proc[q].req <= asked
    BY DEF ServeInv, Stale
  <2>4. ASSUME NEW r \in proc[q].todo PROVE ~Live(running[r])' /\ r <= asked
    BY <1>2, <2>1, <2>3
  <2>5. ASSUME proc[q].pc = "requeued"
        PROVE  ~Live(running[proc[q].req])' /\ proc[q].req <= asked
    <3>1. ~Live(running[proc[q].req])
      BY <2>3, <2>5
    <3>2. proc'[q] = proc[q] /\ running' = running
      BY <1>1
    <3> QED
      BY <1>1, <2>2, <2>3, <2>5, <3>1, <3>2, LiveIs, LiveNext DEF Live
  <2> QED
    BY <2>4, <2>5
<1>8. OneMove'
  BY <1>1 DEF ServeInv, OneMove, Moving
<1> QED
  BY <1>3, <1>4, <1>5, <1>6, <1>7, <1>8 DEF ServeInv

\* Cancelling a waiting request while nobody moves one.
LEMMA CancelServes ==
    ASSUME Typed, ServeInv, NEW x \in Requests, Cancel(x) PROVE ServeInv'
<1>1. /\ UNCHANGED <<running, proc, asked>>
      /\ waiting \in [Requests -> File] /\ done \in [Requests -> File]
      /\ done' = [done EXCEPT ![x] = waiting[x]]
      /\ waiting' = [waiting EXCEPT ![x] = Missing]
  BY DEF Cancel, Typed, Files
<1>2. \A r \in Requests : waiting'[r] \in {waiting[r], Missing}
  BY <1>1
<1>3. Unsigned'
  BY <1>1 DEF ServeInv, Unsigned
<1>4. Claims' /\ Apart' /\ Asked'
  <2>1. Apart' /\ Asked'
    BY <1>1, <1>2 DEF ServeInv, Apart, Asked, Exists, Live
  <2>2. \A q \in Procs : proc[q].pc = "claimed" => proc[q].req \in Requests
    BY ProcFields DEF InHand
  <2>3. Claims'
    BY <1>1, <1>2, <2>2 DEF ServeInv, Claims, Exists
  <2> QED
    BY <2>1, <2>3
<1>5. Signs' /\ Shown' /\ Stale' /\ Started' /\ OneMove' /\ FreeHands'
  BY <1>1 DEF ServeInv, Signs, Shown, Stale, Started, OneMove, FreeHands, Live
<1> QED
  BY <1>3, <1>4, <1>5 DEF ServeInv

\* Who serves what is kept by every step of the system.
LEMMA ServeStep ==
    ASSUME Prompt = TRUE PROVE Typed /\ ServeInv /\ [Next]_vars => ServeInv'
<1> SUFFICES ASSUME Typed, ServeInv, [Next]_vars PROVE ServeInv'
  OBVIOUS
<1>1. CASE UNCHANGED vars
  BY <1>1
     DEF vars, ServeInv, Signs, Shown, Claims, Unsigned, Apart, Stale, Started,
         OneMove, FreeHands, Asked, Exists, Live
<1>2. ASSUME NEW p \in Procs, Undisturbed({p}), Start(p) PROVE ServeInv'
  BY <1>2, StepsAlone, StartServes
<1>3. ASSUME NEW p \in Procs, Undisturbed({p}), Step(p) PROVE ServeInv'
  <2>1. Alone(p)
    BY <1>3, StepsAlone
  <2>2. Requeue(p) => (UNCHANGED waiting /\ proc[p].todo = {}) \/ proc[p].todo # {}
    BY DEF Requeue, Oldest
  <2> QED
    BY <1>3, <2>1, <2>2, QuietSteps, MoveSteps DEF Step
<1>4. ASSUME NEW p \in Procs, Kill(p) PROVE ServeInv'
  BY <1>4, KillServes
<1>5. ASSUME NEW r \in Requests, Cancel(r) PROVE ServeInv'
  BY <1>5, CancelServes
<1> QED
  BY <1>1, <1>2, <1>3, <1>4, <1>5 DEF Next

\* Initially no process runs and no request exists.
LEMMA ServeInit == Init => ServeInv
<1> SUFFICES ASSUME Init PROVE ServeInv
  OBVIOUS
<1>1. /\ \A r \in Requests : waiting[r] = Missing /\ running[r] = Missing
                             /\ done[r] = Missing
      /\ \A p \in Procs : proc[p].pc = "off" /\ proc[p].req = 0
      /\ Missing \notin Procs
  BY QueueAssumption DEF Init
<1>2. Shown /\ Unsigned /\ Apart /\ Started /\ Asked
  BY <1>1, DeadNames DEF Shown, Unsigned, Apart, Started, Asked, Exists
<1>3. Signs /\ Claims /\ Stale /\ OneMove /\ FreeHands
  BY <1>1 DEF Signs, Claims, Stale, OneMove, FreeHands, Signing, Moving
<1> QED
  BY <1>2, <1>3 DEF ServeInv

\* Exactly one process claims a request (queue.py's promise): when no process
\* is overtaken inside a move, whatever is killed wherever, no two live
\* processes serve one request.
THEOREM ServedByOne ==
    ASSUME Prompt = TRUE PROVE Spec => []OneServer
<1>1. Typed /\ ServeInv => OneServer
  <2> SUFFICES ASSUME Typed, ServeInv, NEW p \in Procs, NEW q \in Procs, p # q,
                      Serving(p) # 0, Serving(q) = Serving(p)
               PROVE  FALSE
    BY DEF OneServer
  <2>1. ASSUME NEW z \in Procs, Serving(z) # 0
        PROVE  /\ proc[z].req = Serving(z)
               /\ proc[z].pc \in Signing \cup {"claimed"}
    <3>1. Live(z) /\ proc[z].pc \notin {"requeued", "backed"} /\ proc[z].req = Serving(z)
      BY <2>1 DEF Serving
    <3>2. proc[z].pc \notin Free
      BY <2>1, <3>1 DEF ServeInv, FreeHands
    <3>3. proc[z].pc \in Labels
      BY ProcFields
    <3> QED
      BY <3>1, <3>2, <3>3, LabelsAre, LiveIs DEF Free, Signing
  <2>2. /\ proc[p].req = proc[q].req /\ proc[p].req # 0
        /\ proc[p].pc \in Signing \cup {"claimed"}
        /\ proc[q].pc \in Signing \cup {"claimed"}
    BY <2>1
  <2>3. ASSUME NEW z \in Procs, proc[z].req = proc[p].req
        PROVE  /\ proc[z].pc \in Signing => running[proc[p].req] = z
               /\ proc[z].pc = "claimed" => running[proc[p].req] = NoPid
    BY <2>2, <2>3 DEF ServeInv, Signs, Claims
  <2>4. NoPid \notin Procs
    BY QueueAssumption
  <2>5. ~(proc[p].pc = "claimed" /\ proc[q].pc = "claimed")
    BY DEF ServeInv, OneMove, Moving
  <2> QED
    BY <2>2, <2>3, <2>4, <2>5
<1> QED
  BY <1>1, TypedInit, TypedStep, ServeInit, ServeStep, PTL DEF Spec

\* What running/ shows is true: the live process a request names serves that
\* request, so what is put back as stale is served by nobody.
THEOREM RunningServed ==
    ASSUME Prompt = TRUE PROVE Spec => []RunningIsServed
<1>1. ServeInv => RunningIsServed
  BY DEF ServeInv, Shown, RunningIsServed
<1> QED
  BY <1>1, TypedInit, TypedStep, ServeInit, ServeStep, PTL DEF Spec

\* Every variable keeps its type; a finished request names no process.
THEOREM TypeCorrect ==
    ASSUME Prompt = TRUE PROVE Spec => []TypeOK
<1>1. Typed /\ ServeInv => TypeOK
  <2> SUFFICES ASSUME Typed, ServeInv PROVE TypeOK
    OBVIOUS
  <2>1. done \in [Requests -> {Missing, NoPid}]
    BY DEF Typed, Files, ServeInv, Unsigned
  <2> QED
    BY <2>1 DEF Typed, Files, TypeOK, Process
<1> QED
  BY <1>1, TypedInit, TypedStep, ServeInit, ServeStep, PTL DEF Spec

-----------------------------------------------------------------------------
(* A finished request is not run again, unless a move was cut in half.      *)

Torn == \E q \in Procs : At(q, "torn")

\* A request is in one directory, but inside a move; what a server puts back was
\* not finished.
Apiece ==
    /\ \A r \in Requests : Exists(done, r) => r <= asked /\ ~Exists(waiting, r)
    /\ \A r \in Requests : Exists(running, r) /\ Exists(done, r) =>
           \E p \in Procs : At(p, "finished") /\ proc[p].req = r
    /\ \A r \in Requests : Exists(running, r) /\ Exists(waiting, r) =>
           \E p \in Procs : proc[p].pc \in {"requeued", "backed"} /\ proc[p].req = r
    /\ \A p \in Procs : proc[p].pc \in {"requeue", "requeued"} =>
           \A r \in proc[p].todo : ~Exists(done, r)
Once == Torn \/ Apiece


\* What a step does to its process, where it does more than go elsewhere.
LEMMA Shapes ==
    ASSUME Typed, NEW p \in Procs
    PROVE  /\ ListStale(p) => /\ proc'[p].pc = "requeue" /\ proc'[p].req = proc[p].req
                              /\ proc'[p].todo = {r \in Present(running) : ~Live(running[r])}
           /\ ListWaiting(p) => /\ proc'[p].pc = "claim" /\ proc'[p].req = proc[p].req
                                /\ proc'[p].todo = Present(waiting)
           /\ RunEnds(p) => proc'[p].pc = "unname" /\ proc'[p].req = proc[p].req
           /\ UnlinkStale(p) => /\ proc'[p].pc = "requeue" /\ proc'[p].req = 0
                                /\ proc'[p].todo = proc[p].todo
           /\ UnlinkFinished(p) => proc'[p].pc = OrRaise(p, "look") /\ proc'[p].req = 0
<1>1. proc \in [Procs -> Process] /\ proc[p] \in Process
  BY ProcFields DEF Typed
<1>2. CASE ListStale(p)
  BY <1>1, <1>2 DEF ListStale, Process, ListWaiting, RunEnds, UnlinkStale, UnlinkFinished, At
<1>3. CASE ListWaiting(p)
  BY <1>1, <1>3 DEF ListStale, Process, ListWaiting, RunEnds, UnlinkStale, UnlinkFinished, At
<1>4. CASE RunEnds(p)
  BY <1>1, <1>4 DEF ListStale, Process, ListWaiting, RunEnds, UnlinkStale, UnlinkFinished, At
<1>5. CASE UnlinkStale(p)
  BY <1>1, <1>5 DEF ListStale, Process, ListWaiting, RunEnds, UnlinkStale, UnlinkFinished, At
<1>6. CASE UnlinkFinished(p)
  BY <1>1, <1>6 DEF ListStale, Process, ListWaiting, RunEnds, UnlinkStale, UnlinkFinished, At
<1> QED
  BY <1>2, <1>3, <1>4, <1>5, <1>6

\* What striking a request off a listing does to the process.
LEMMA Struck ==
    ASSUME Typed, NEW p \in Procs, NEW r,
           proc' = [proc EXCEPT ![p].todo = @ \ {r}]
    PROVE  /\ proc'[p].pc = proc[p].pc /\ proc'[p].req = proc[p].req
           /\ proc'[p].todo = proc[p].todo \ {r}
  BY ProcFields DEF Typed, Process

\* A process that was killed, or raised, stays where it fell.
LEMMA FallenStay ==
    ASSUME Prompt = TRUE, Typed, [Next]_vars,
           NEW q \in Procs, proc[q].pc \in {"killed", "torn", "raised"}
    PROVE  proc'[q] = proc[q]
<1>1. ASSUME NEW p \in Procs, Undisturbed({p}), Start(p) \/ Step(p) PROVE p # q
  BY <1>1, StepsAlone, LiveIs DEF Alone
<1>2. ASSUME NEW p \in Procs, Kill(p) PROVE p # q
  BY <1>2, LiveIs DEF Kill
<1> QED
  BY <1>1, <1>2, ProcStep, KillStep DEF Next, vars, Cancel

\* Between moves a request is in one directory at most.
LEMMA OneCopy ==
    ASSUME Apiece, \A p \in Procs : proc[p].pc \notin Moving
    PROVE  \A r \in Requests : /\ Exists(done, r) => ~Exists(running, r)
                               /\ Exists(running, r) => ~Exists(waiting, r)
  BY DEF Apiece, At, Moving

\* A step that keeps which files there are.
LEMMA ApieceKept ==
    ASSUME Typed, Apiece, NEW p \in Procs, Alone(p), asked' = asked,
           \A r \in Requests : /\ Exists(waiting, r)' <=> Exists(waiting, r)
                               /\ Exists(running, r)' <=> Exists(running, r)
                               /\ Exists(done, r)' <=> Exists(done, r),
           proc[p].pc \notin {"requeued", "backed", "finished"},
           proc'[p].pc \in {"requeue", "requeued"} =>
               \A r \in proc'[p].todo : r \in Requests /\ ~Exists(done, r)
    PROVE  Apiece'
<1>1. \A q \in Procs \ {p} : proc'[q] = proc[q]
  BY DEF Alone
<1>2. \A r \in Requests : Exists(done, r)' => (r <= asked /\ ~Exists(waiting, r))'
  BY DEF Apiece
<1>3. \A r \in Requests : (Exists(running, r) /\ Exists(done, r))' =>
          \E q \in Procs : (At(q, "finished") /\ proc[q].req = r)'
  BY <1>1 DEF Apiece, At
<1>4. \A r \in Requests : (Exists(running, r) /\ Exists(waiting, r))' =>
          \E q \in Procs : (proc[q].pc \in {"requeued", "backed"} /\ proc[q].req = r)'
  BY <1>1 DEF Apiece
<1>5. \A q \in Procs : proc'[q].pc \in {"requeue", "requeued"} =>
          \A r \in proc'[q].todo : ~Exists(done, r)'
  <2>1. ASSUME NEW q \in Procs \ {p}, proc'[q].pc \in {"requeue", "requeued"},
               NEW r \in proc'[q].todo
        PROVE  ~Exists(done, r)'
    <3>1. r \in Requests /\ ~Exists(done, r)
      BY <1>1, <2>1, ProcFields DEF Apiece
    <3> QED
      BY <3>1
  <2> QED
    BY <2>1
<1> QED
  BY <1>2, <1>3, <1>4, <1>5 DEF Apiece

\* The steps that move no file.
LEMMA ApieceQuiet ==
    ASSUME Typed, ServeInv, Apiece, NEW p \in Procs, Alone(p),
           \/ CheckOwner(p) \/ ListStale(p) \/ LookOwner(p) \/ ListWaiting(p)
           \/ Prepare(p) \/ TakeLock(p) \/ TrainBusy(p) \/ NameOwner(p)
           \/ RunEnds(p) \/ ClearOwner(p) \/ Unlock(p) \/ SignClaim(p)
    PROVE  Apiece'
<1>1. CASE SignClaim(p)
  <2>1. /\ proc[p].pc = "claimed" /\ proc[p].req \in Requests
        /\ running[proc[p].req] = NoPid /\ ~Exists(waiting, proc[p].req)
    BY <1>1, ProcFields DEF SignClaim, At, InHand, ServeInv, Claims
  <2>2. Exists(running, proc[p].req) /\ ~Lost(proc[p].req)
    BY <2>1, QueueAssumption DEF Exists, Lost
  <2>3. /\ running' = [running EXCEPT ![proc[p].req] = p]
        /\ UNCHANGED <<waiting, done, asked>> /\ Goto(p, "prepare")
    BY <1>1, <2>1, <2>2 DEF SignClaim, Signed
  <2>4. \A r \in Requests : Exists(running, r)' <=> Exists(running, r)
    BY <2>2, <2>3, QueueAssumption DEF Exists, Typed, Files
  <2>5. proc'[p].pc = "prepare"
    BY <2>3, Went
  <2> QED
    BY <2>1, <2>3, <2>4, <2>5, ApieceKept DEF Exists
<1>2. CASE ListStale(p)
  <2>1. /\ proc[p].pc = "stale" /\ UNCHANGED <<files, asked>>
        /\ proc'[p].todo = {r \in Present(running) : ~Live(running[r])}
    BY <1>2, Shapes DEF ListStale, At
  <2>2. \A q \in Procs : proc[q].pc \notin Moving
    BY <2>1 DEF Alone, Moving
  <2>3. \A r \in proc'[p].todo : r \in Requests /\ ~Exists(done, r)
    BY <2>1, <2>2, OneCopy DEF Present
  <2> QED
    BY <2>1, <2>3, ApieceKept DEF files, Exists
<1>3. CASE \/ CheckOwner(p) \/ LookOwner(p) \/ ListWaiting(p) \/ Prepare(p)
           \/ TakeLock(p) \/ TrainBusy(p) \/ NameOwner(p) \/ RunEnds(p)
           \/ ClearOwner(p) \/ Unlock(p)
  <2>1. UNCHANGED <<files, asked>>
    BY <1>3 DEF CheckOwner, LookOwner, ListWaiting, Prepare, TakeLock, TrainBusy,
                NameOwner, RunEnds, ClearOwner, Unlock, files
  <2>2. proc[p].pc \notin {"requeued", "backed", "finished"}
    BY <1>3 DEF CheckOwner, LookOwner, ListWaiting, Prepare, TakeLock, TrainBusy,
                NameOwner, RunEnds, ClearOwner, Unlock, At
  <2>3. proc'[p].pc \notin {"requeue", "requeued"}
    <3>1. CASE ListWaiting(p) \/ RunEnds(p)
      BY <3>1, Shapes
    <3> QED
      BY <1>3, <3>1, Went DEF CheckOwner, LookOwner, Prepare, TakeLock, TrainBusy,
                              NameOwner, ClearOwner, Unlock, OrRaise
  <2> QED
    BY <2>1, <2>2, <2>3, ApieceKept DEF files, Exists
<1> QED
  BY <1>1, <1>2, <1>3

\* A step that changes the files of one request.
LEMMA ApieceMoved ==
    ASSUME Typed, Apiece, NEW p \in Procs, Alone(p), NEW x \in Requests,
           \A r \in Requests : r <= asked => r <= asked',
           \A r \in Requests \ {x} : /\ Exists(waiting', r) <=> Exists(waiting, r)
                                     /\ Exists(running', r) <=> Exists(running, r)
                                     /\ Exists(done', r) <=> Exists(done, r),
           proc[p].pc \in {"requeued", "backed", "finished"} => proc[p].req = x,
           Exists(done', x) => x <= asked' /\ ~Exists(waiting', x),
           Exists(running', x) /\ Exists(done', x) =>
               proc'[p].pc = "finished" /\ proc'[p].req = x,
           Exists(running', x) /\ Exists(waiting', x) =>
               proc'[p].pc \in {"requeued", "backed"} /\ proc'[p].req = x,
           proc'[p].pc \in {"requeue", "requeued"} =>
               \A r \in proc'[p].todo : ~Exists(done', r)
    PROVE  Apiece'
<1>1. \A q \in Procs \ {p} : proc'[q] = proc[q] /\ proc[q].pc \notin Moving
  BY DEF Alone
<1>2. \A r \in Requests : Exists(done', r) => r <= asked' /\ ~Exists(waiting', r)
  BY DEF Apiece
<1>3. \A r \in Requests : Exists(running', r) /\ Exists(done', r) =>
          \E q \in Procs : (At(q, "finished") /\ proc[q].req = r)'
  BY <1>1 DEF Apiece, At, Moving
<1>4. \A r \in Requests : Exists(running', r) /\ Exists(waiting', r) =>
          \E q \in Procs : (proc[q].pc \in {"requeued", "backed"} /\ proc[q].req = r)'
  BY <1>1 DEF Apiece, Moving
<1>5. \A q \in Procs : proc'[q].pc \in {"requeue", "requeued"} =>
          \A r \in proc'[q].todo : ~Exists(done', r)
  BY <1>1 DEF Moving
<1> QED
  BY <1>2, <1>3, <1>4, <1>5 DEF Apiece

\* Starting, and the enqueue that may come with it.
LEMMA ApieceStart ==
    ASSUME Typed, ServeInv, Apiece, NEW p \in Procs, Alone(p), Start(p)
    PROVE  Apiece'
<1>1. proc[p].pc = "off" /\ UNCHANGED <<running, done>>
  BY DEF Start, At
<1>2. proc'[p].pc \in {"lock", "check", "stale"}
  BY Went DEF Start
<1>f. /\ waiting \in [Requests -> File] /\ asked \in 0 .. MaxRequests
      /\ MaxRequests \in Nat /\ Requests \subseteq Nat
  BY QueueAssumption DEF Typed, Files, Requests
<1>3. CASE waiting' = waiting /\ asked' = asked
  BY <1>1, <1>2, <1>3, ApieceKept DEF Exists
<1>4. CASE /\ asked < MaxRequests /\ asked' = asked + 1
           /\ waiting' = [waiting EXCEPT ![asked + 1] = NoPid]
  <2>1. asked + 1 \in Requests
    BY <1>f, <1>4 DEF Requests
  <2>2. \A r \in Requests : r <= asked => r <= asked'
    BY <1>f, <1>4
  <2>3. ~Exists(done', asked + 1) /\ ~Exists(running', asked + 1)
    BY <1>f, <1>1, <2>1 DEF Apiece, ServeInv, Asked, Exists
  <2>4. \A r \in Requests \ {asked + 1} :
           /\ Exists(waiting', r) <=> Exists(waiting, r)
           /\ Exists(running', r) <=> Exists(running, r)
           /\ Exists(done', r) <=> Exists(done, r)
    BY <1>f, <1>1, <1>4 DEF Exists
  <2> QED
    BY <1>1, <1>2, <2>1, <2>2, <2>3, <2>4, ApieceMoved
<1> QED
  BY <1>3, <1>4 DEF Start

\* The steps that move a request from one directory to another.
LEMMA ApieceMoves ==
    ASSUME Typed, ServeInv, Apiece, NEW p \in Procs, Alone(p),
           \/ Requeue(p) \/ UnlinkStale(p) \/ Claim(p) \/ Finish(p)
           \/ UnlinkFinished(p) \/ Release(p) \/ UnlinkReleased(p)
    PROVE  Apiece'
<1>f. /\ waiting \in [Requests -> File] /\ running \in [Requests -> File]
      /\ done \in [Requests -> File] /\ NoPid # Missing
      /\ proc[p].todo \subseteq Requests
      /\ proc[p].pc \in InHand => proc[p].req \in Requests
  BY ProcFields, QueueAssumption DEF Typed, Files
<1>1. CASE UnlinkStale(p) \/ UnlinkFinished(p) \/ UnlinkReleased(p)
  <2>1. /\ proc[p].pc \in {"requeued", "finished", "backed"} /\ proc[p].req \in Requests
        /\ running' = [running EXCEPT ![proc[p].req] = Missing]
        /\ UNCHANGED <<waiting, done, asked>>
    BY <1>1, <1>f DEF UnlinkStale, UnlinkFinished, UnlinkReleased, At, InHand
  <2>2. ~Exists(running', proc[p].req)
    BY <1>f, <2>1 DEF Exists
  <2>3. \A r \in Requests \ {proc[p].req} : Exists(running', r) <=> Exists(running, r)
    BY <1>f, <2>1 DEF Exists
  <2>4. proc'[p].pc \in {"requeue", "requeued"} =>
            \A r \in proc'[p].todo : ~Exists(done', r)
    <3>1. CASE UnlinkStale(p)
      <4>1. proc[p].pc = "requeued" /\ proc'[p].todo = proc[p].todo
        BY <3>1, Shapes DEF UnlinkStale, At
      <4> QED
        BY <2>1, <4>1 DEF Apiece, Exists
    <3>2. CASE UnlinkFinished(p)
      BY <3>2, Shapes DEF OrRaise
    <3>3. CASE UnlinkReleased(p)
      BY <3>3, Went DEF UnlinkReleased
    <3> QED
      BY <1>1, <3>1, <3>2, <3>3
  <2>5. Exists(done', proc[p].req) =>
            (proc[p].req <= asked /\ ~Exists(waiting, proc[p].req))
    BY <2>1 DEF Apiece, Exists
  <2> QED
    BY <2>1, <2>2, <2>3, <2>4, <2>5, ApieceMoved DEF Exists
<1>2. CASE Finish(p)
  <2>1. /\ proc[p].pc = "finish" /\ proc[p].req \in Requests
        /\ done' = [done EXCEPT ![proc[p].req] = NoPid]
        /\ UNCHANGED <<waiting, running, asked>>
    BY <1>2, <1>f DEF Finish, At, InHand
  <2>2. proc'[p].pc = "finished" /\ proc'[p].req = proc[p].req
    BY <1>2, Went DEF Finish
  <2>3. running[proc[p].req] = p
    BY <2>1, QueueAssumption DEF ServeInv, Signs, Signing, Requests
  <2>4. Exists(running, proc[p].req)
    BY <2>3, QueueAssumption DEF Exists
  <2>5. ~Exists(waiting, proc[p].req) /\ proc[p].req <= asked
    BY <2>1, <2>4, OneCopy DEF Alone, Moving, ServeInv, Asked
  <2>6. \A r \in Requests \ {proc[p].req} : Exists(done', r) <=> Exists(done, r)
    BY <1>f, <2>1 DEF Exists
  <2> QED
    BY <2>1, <2>2, <2>5, <2>6, ApieceMoved DEF Exists
<1>3. CASE Release(p)
  <2>1. /\ proc[p].pc = "back" /\ proc[p].req \in Requests
        /\ UNCHANGED <<running, done, asked>>
    BY <1>3, <1>f DEF Release, At, InHand
  <2>2. CASE ~Exists(running, proc[p].req)
    <3>1. waiting' = waiting /\ proc'[p].pc = "exit"
      BY <1>3, <2>2, Went DEF Release
    <3> QED
      BY <2>1, <3>1, ApieceKept DEF Exists
  <2>3. CASE Exists(running, proc[p].req)
    <3>1. /\ waiting' = [waiting EXCEPT ![proc[p].req] = NoPid]
          /\ proc'[p].pc = "backed" /\ proc'[p].req = proc[p].req
      BY <1>3, <2>3, Went DEF Release
    <3>2. ~Exists(done, proc[p].req)
      BY <2>1, <2>3 DEF Apiece, Alone, At, Moving
    <3>3. \A r \in Requests \ {proc[p].req} : Exists(waiting', r) <=> Exists(waiting, r)
      BY <1>f, <3>1 DEF Exists
    <3> QED
      BY <2>1, <3>1, <3>2, <3>3, ApieceMoved DEF Exists
  <2> QED
    BY <2>2, <2>3
<1>4. CASE Requeue(p)
  <2>1. /\ proc[p].pc = "requeue" /\ UNCHANGED <<running, done, asked>>
        /\ \A r \in proc[p].todo : ~Exists(done, r)
    <3>1. UNCHANGED <<running, done, asked>>
      BY <1>4, Zenon DEF Requeue
    <3>2. proc[p].pc = "requeue"
      BY <1>4, Zenon DEF Requeue, At
    <3> QED
      BY <3>1, <3>2 DEF Apiece
  <2>2. CASE Goto(p, "look") /\ waiting' = waiting
    BY <2>1, <2>2, Went, ApieceKept DEF Exists
  <2>3. ASSUME NEW x \in Oldest(proc[p].todo), waiting' = [waiting EXCEPT ![x] = NoPid],
               proc' = [proc EXCEPT ![p].pc = "requeued", ![p].req = x, ![p].todo = @ \ {x}]
        PROVE  Apiece'
    <3>1. x \in Requests /\ x \in proc[p].todo
      BY <1>f DEF Oldest
    <3>2. /\ proc'[p].pc = "requeued" /\ proc'[p].req = x
          /\ proc'[p].todo = proc[p].todo \ {x}
      BY <2>3, ProcFields DEF Typed, Process
    <3>3. \A r \in Requests \ {x} : Exists(waiting', r) <=> Exists(waiting, r)
      BY <1>f, <2>3, <3>1 DEF Exists
    <3>4. ~Exists(done', x)
      BY <2>1, <3>1 DEF Exists
    <3>5. \A r \in proc'[p].todo : ~Exists(done', r)
      BY <2>1, <3>2 DEF Exists
    <3> QED
      BY <2>1, <3>1, <3>2, <3>3, <3>4, <3>5, ApieceMoved DEF Exists
  <2> QED
    BY <1>4, <2>2, <2>3, Zenon DEF Requeue
<1>5. CASE Claim(p)
  <2>1. proc[p].pc = "claim" /\ asked' = asked
    BY <1>5, Zenon DEF Claim, At
  <2>2. CASE Goto(p, "exit") /\ UNCHANGED files
    BY <2>1, <2>2, Went, ApieceKept DEF Exists, files
  <2>3. ASSUME NEW r, proc' = [proc EXCEPT ![p].todo = @ \ {r}], UNCHANGED files
        PROVE  Apiece'
    <3>1. proc'[p].pc = "claim"
      BY <2>1, <2>3, Struck
    <3>2. UNCHANGED files
      BY <2>3
    <3> QED
      BY <2>1, <3>1, <3>2, ApieceKept DEF Exists, files
  <2>4. ASSUME NEW x \in Oldest(proc[p].todo), Exists(waiting, x),
               running' = [running EXCEPT ![x] = waiting[x]],
               waiting' = [waiting EXCEPT ![x] = Missing], UNCHANGED done,
               proc' = [proc EXCEPT ![p].pc = "claimed", ![p].req = x, ![p].todo = {}]
        PROVE  Apiece'
    <3>1. x \in Requests
      BY <1>f DEF Oldest
    <3>2. proc'[p].pc = "claimed"
      BY <2>4, ProcFields DEF Typed, Process
    <3>3. \A r \in Requests \ {x} : /\ Exists(waiting', r) <=> Exists(waiting, r)
                                    /\ Exists(running', r) <=> Exists(running, r)
                                    /\ Exists(done', r) <=> Exists(done, r)
      BY <1>f, <2>4, <3>1 DEF Exists
    <3>4. ~Exists(done', x) /\ ~Exists(waiting', x)
      BY <1>f, <2>4, <3>1 DEF Apiece, Exists
    <3> QED
      BY <2>1, <3>1, <3>2, <3>3, <3>4, ApieceMoved
  <2> QED
    BY <1>5, <2>2, <2>3, <2>4, Zenon DEF Claim
<1> QED
  BY <1>1, <1>2, <1>3, <1>4, <1>5

\* Cancelling, a kill, and doing nothing.
LEMMA ApieceOther ==
    ASSUME Prompt = TRUE, Typed, ServeInv, Apiece,
           \/ UNCHANGED vars
           \/ Undisturbed({}) /\ \E r \in Requests : Cancel(r)
           \/ \E p \in Procs : Kill(p) /\ proc[p].pc \notin Moving
    PROVE  Apiece'
<1>1. CASE UNCHANGED vars
  BY <1>1 DEF vars, Apiece, At, Exists
<1>2. ASSUME Undisturbed({}), NEW x \in Requests, Cancel(x) PROVE Apiece'
  <2>1. /\ UNCHANGED <<running, proc, asked>> /\ Exists(waiting, x)
        /\ waiting \in [Requests -> File] /\ done \in [Requests -> File]
        /\ done' = [done EXCEPT ![x] = waiting[x]]
        /\ waiting' = [waiting EXCEPT ![x] = Missing]
    BY <1>2 DEF Cancel, Typed, Files
  <2>2. \A p \in Procs : proc[p].pc \notin Moving
    BY <1>2 DEF Undisturbed
  <2>3. \A r \in Requests \ {x} : Exists(done', r) <=> Exists(done, r)
    BY <2>1 DEF Exists
  <2>4. \A r \in Requests : Exists(waiting', r) <=> r # x /\ Exists(waiting, r)
    BY <2>1 DEF Exists
  <2>5. Exists(done', x) /\ ~Exists(running, x)
    BY <2>1, <2>2, OneCopy DEF Exists
  <2>6. \A r \in Requests : Exists(done', r) => r <= asked' /\ ~Exists(waiting', r)
    <3>1. x <= asked
      BY <2>1 DEF ServeInv, Asked
    <3> QED
      BY <2>1, <2>3, <2>4, <3>1 DEF Apiece
  <2>7. \A r \in Requests : ~(Exists(running', r) /\ Exists(done', r))
                            /\ ~(Exists(running', r) /\ Exists(waiting', r))
    BY <2>1, <2>2, <2>3, <2>4, <2>5, OneCopy DEF Exists
  <2>8. \A p \in Procs : proc'[p].pc \notin {"requeue", "requeued"}
    BY <2>1, <2>2 DEF Moving
  <2> QED
    BY <2>6, <2>7, <2>8 DEF Apiece
<1>3. ASSUME NEW p \in Procs, Kill(p), proc[p].pc \notin Moving PROVE Apiece'
  <2>1. /\ UNCHANGED <<waiting, running, done, asked>>
        /\ \A q \in Procs \ {p} : proc'[q] = proc[q]
        /\ proc'[p].pc \in {"killed", "torn"}
    BY <1>3, KillStep DEF Kill, files
  <2> QED
    BY <1>3, <2>1 DEF Apiece, At, Exists, Moving
<1> QED
  BY <1>1, <1>2, <1>3

LEMMA OnceStep ==
    ASSUME Prompt = TRUE, Typed, ServeInv, Once, [Next]_vars PROVE Once'
<1>1. Torn => Torn'
  BY FallenStay DEF Torn, At
<1>2. ASSUME Apiece, NEW p \in Procs, Undisturbed({p}), Start(p) \/ Step(p) PROVE Apiece'
  <2>1. Alone(p)
    BY <1>2, StepsAlone
  <2> QED
    BY <1>2, <2>1, ApieceStart, ApieceQuiet, ApieceMoves DEF Step
<1>3. ASSUME NEW p \in Procs, Kill(p), proc[p].pc \in Moving PROVE Torn'
  BY <1>3, ProcFields DEF Kill, Goto, Torn, At, Typed, Process
<1> QED
  BY <1>1, <1>2, <1>3, ApieceOther DEF Once, Next

\* A request that was served or cancelled is not run again, unless a kill hit a
\* process in the middle of a move and left two copies (claim, finish, cancel).
THEOREM NotRunAgain ==
    ASSUME Prompt = TRUE PROVE Spec => NeverAgain
<1> DEFINE Fine == \A p \in Procs : At(p, "lock") /\ proc'[p].pc = "name" /\ proc[p].req # 0
                       => \/ ~Exists(done, proc[p].req)
                          \/ \E q \in Procs : At(q, "torn")
<1>1. Init => Once
  BY DEF Init, Once, Apiece, Exists
<1>2. Typed /\ ServeInv /\ Once /\ [Next]_vars => [Fine]_vars
  <2> SUFFICES ASSUME Typed, ServeInv, Apiece, Next, NEW p \in Procs, At(p, "lock"),
                      proc'[p].pc = "name", proc[p].req # 0
               PROVE  ~Exists(done, proc[p].req)
    BY DEF Once, Torn
  <2>1. Undisturbed({p}) /\ (Start(p) \/ Step(p))
    <3>1. ASSUME NEW q \in Procs, Kill(q) PROVE FALSE
      BY <3>1, KillStep DEF At
    <3>2. ASSUME NEW r \in Requests, Cancel(r) PROVE FALSE
      BY <3>2 DEF Cancel, At
    <3>3. ASSUME NEW q \in Procs \ {p}, Start(q) \/ Step(q) PROVE FALSE
      BY <3>3, ProcStep DEF At
    <3> QED
      BY <3>1, <3>2, <3>3 DEF Next
  <2>2. \A q \in Procs : proc[q].pc \notin Moving
    BY <2>1 DEF Undisturbed, At, Moving
  <2>3. proc[p].req \in Requests
    BY ProcFields, QueueAssumption DEF Requests
  <2>4. Exists(running, proc[p].req)
    BY QueueAssumption DEF ServeInv, Signs, Signing, At, Exists
  <2> QED
    BY <2>2, <2>3, <2>4, OneCopy
<1> QED
  BY <1>1, <1>2, OnceStep, TypedInit, TypedStep, ServeInit, ServeStep, PTL DEF Spec, NeverAgain

-----------------------------------------------------------------------------
(* Nothing waits when everybody went home.                                 *)

\* Labels at which a process holds the train's lock, and those from which it
\* comes to list the queue.
Locked == {"name", "run", "unname", "unlock"}
Looping == {"check", "stale", "requeue", "requeued", "look", "list", "claimed",
            "prepare", "lock", "finish", "finished"} \cup Locked

\* The lock is held where the code holds it, and its file names who runs.
Holders ==
    /\ \A p \in Procs : proc[p].pc \in Locked => flock = p
    /\ flock # NoProc => proc[flock].pc \in Locked
    /\ named # NoProc => proc[named].pc \in {"run", "unname"} \cup Ended

\* A running request is in somebody's hands; a waiting one will be listed by
\* somebody, or is.  Who puts one back was refused by a process that will.
Fallen == \E p \in Procs : proc[p].pc \in {"killed", "torn", "raised"}
Looks(p, r) == proc[p].pc \in Looping \/ (At(p, "claim") /\ r \in proc[p].todo)
Attended ==
    /\ \A r \in Requests : Exists(running, r) =>
           \E p \in Procs : proc[p].req = r /\ proc[p].pc \in Signing \cup {"claimed"}
    /\ \A r \in Requests : Exists(waiting, r) => \E p \in Procs : Looks(p, r)
    /\ \A p \in Procs : proc[p].pc \in {"back", "backed"} => flock # NoProc
Watched == Holders /\ (Fallen \/ Attended)

\* The steps that leave the lock alone, and how one of them may end up: with
\* labels at which nobody holds it.
LEMMA Unlocked ==
    ASSUME Typed, NEW p \in Procs,
           \/ Start(p) \/ CheckOwner(p) \/ ListStale(p) \/ Requeue(p) \/ UnlinkStale(p)
           \/ LookOwner(p) \/ ListWaiting(p) \/ Claim(p) \/ SignClaim(p) \/ Prepare(p)
           \/ TrainBusy(p) \/ Finish(p) \/ UnlinkFinished(p) \/ Release(p)
           \/ UnlinkReleased(p)
    PROVE  /\ UNCHANGED lock
           /\ proc[p].pc \notin Locked \cup {"killed", "torn", "raised", "exit"}
           /\ proc'[p].pc \notin Locked
<1>1. CASE \/ Start(p) \/ CheckOwner(p) \/ LookOwner(p) \/ SignClaim(p) \/ Prepare(p)
           \/ TrainBusy(p) \/ Finish(p) \/ Release(p) \/ UnlinkReleased(p)
  <2>1. UNCHANGED lock
    BY <1>1 DEF Start, CheckOwner, LookOwner, SignClaim, Prepare, TrainBusy, Finish,
                Release, UnlinkReleased, lock
  <2>2. proc[p].pc \notin Locked \cup {"killed", "torn", "raised", "exit"}
    BY <1>1 DEF Start, CheckOwner, LookOwner, SignClaim, Prepare, TrainBusy, Finish,
                Release, UnlinkReleased, At, Locked
  <2>3. proc'[p].pc \notin Locked
    <3>1. CASE SignClaim(p) \/ Prepare(p)
      <4>1. Goto(p, "raised") \/ Goto(p, "prepare") \/ Goto(p, "lock") \/ Goto(p, "finish")
        BY <3>1 DEF SignClaim, Prepare
      <4> QED
        BY <4>1, Went DEF Locked
    <3>2. CASE Start(p) \/ CheckOwner(p) \/ LookOwner(p) \/ TrainBusy(p)
      BY <3>2, Went DEF Start, CheckOwner, LookOwner, TrainBusy, Locked
    <3>3. CASE Finish(p) \/ Release(p) \/ UnlinkReleased(p)
      BY <3>3, Went DEF Finish, Release, UnlinkReleased, Locked
    <3> QED
      BY <1>1, <3>1, <3>2, <3>3
  <2> QED
    BY <2>1, <2>2, <2>3
<1>2. CASE ListStale(p) \/ UnlinkStale(p) \/ ListWaiting(p) \/ UnlinkFinished(p)
  <2>1. UNCHANGED lock
    BY <1>2 DEF ListStale, UnlinkStale, ListWaiting, UnlinkFinished, lock
  <2>2. proc[p].pc \notin Locked \cup {"killed", "torn", "raised", "exit"}
    BY <1>2 DEF ListStale, UnlinkStale, ListWaiting, UnlinkFinished, At, Locked
  <2>3. proc'[p].pc \notin Locked
    BY <1>2, Shapes DEF Locked, OrRaise
  <2> QED
    BY <2>1, <2>2, <2>3
<1>3. CASE Requeue(p)
  <2>1. UNCHANGED lock /\ proc[p].pc = "requeue"
    BY <1>3, Zenon DEF Requeue, At
  <2>2. CASE Goto(p, "look")
    BY <2>1, <2>2, Went DEF Locked
  <2>3. ASSUME NEW x, proc' = [proc EXCEPT ![p].pc = "requeued", ![p].req = x,
                                           ![p].todo = @ \ {x}]
        PROVE  proc'[p].pc = "requeued"
    BY <2>3, ProcFields DEF Typed, Process
  <2>4. proc'[p].pc \in {"look", "requeued"}
    <3>1. Goto(p, "look") => proc'[p].pc = "look"
      BY Went
    <3> QED
      BY <1>3, <2>3, <3>1, Zenon DEF Requeue
  <2> QED
    BY <2>1, <2>4 DEF Locked
<1>4. CASE Claim(p)
  <2>1. UNCHANGED lock /\ proc[p].pc = "claim"
    BY <1>4, Zenon DEF Claim, At
  <2>2. ASSUME NEW x, proc' = [proc EXCEPT ![p].pc = "claimed", ![p].req = x, ![p].todo = {}]
        PROVE  proc'[p].pc = "claimed"
    BY <2>2, ProcFields DEF Typed, Process
  <2>3. ASSUME NEW x, proc' = [proc EXCEPT ![p].todo = @ \ {x}]
        PROVE  proc'[p].pc = "claim"
    BY <2>1, <2>3, Struck
  <2>4. proc'[p].pc \in {"exit", "claimed", "claim"}
    <3>1. Goto(p, "exit") => proc'[p].pc = "exit"
      BY Went
    <3> QED
      BY <1>4, <2>2, <2>3, <3>1, Zenon DEF Claim
  <2> QED
    BY <2>1, <2>4 DEF Locked
<1> QED
  BY <1>1, <1>2, <1>3, <1>4

LEMMA HoldersStep == ASSUME Prompt = TRUE, Typed, Holders, [Next]_vars PROVE Holders'
<1>f. flock \in Procs \cup {NoProc} /\ named \in Procs \cup {NoProc} /\ NoProc \notin Procs
  BY QueueAssumption DEF Typed
<1>1. CASE UNCHANGED vars
  BY <1>1 DEF vars, Holders
<1>2. ASSUME NEW p \in Procs, Start(p) \/ Step(p) PROVE Holders'
  <2>1. \A q \in Procs \ {p} : proc'[q] = proc[q]
    BY <1>2, ProcStep
  <2>2. CASE /\ UNCHANGED lock /\ proc'[p].pc \notin Locked
             /\ proc[p].pc \notin Locked \cup {"killed", "torn", "raised", "exit"}
    BY <1>f, <2>1, <2>2 DEF Holders, lock, Locked, Ended
  <2>3. CASE TakeLock(p)
    <3>1. flock = NoProc /\ flock' = p /\ named' = named /\ proc[p].pc = "lock"
      BY <2>3 DEF TakeLock, At
    <3>2. proc'[p].pc = "name"
      BY <2>3, Went DEF TakeLock
    <3> QED
      BY <1>f, <2>1, <3>1, <3>2 DEF Holders, Locked, Ended
  <2>4. CASE NameOwner(p)
    <3>1. flock' = flock /\ named' = p /\ proc[p].pc = "name"
      BY <2>4 DEF NameOwner, At
    <3>2. proc'[p].pc = "run"
      BY <2>4, Went DEF NameOwner
    <3> QED
      BY <1>f, <2>1, <3>1, <3>2 DEF Holders, Locked, Ended
  <2>5. CASE RunEnds(p)
    <3>1. flock' = flock /\ named' = named /\ proc[p].pc = "run"
      BY <2>5 DEF RunEnds, At, lock
    <3>2. proc'[p].pc = "unname"
      BY <2>5, Shapes
    <3> QED
      BY <1>f, <2>1, <3>1, <3>2 DEF Holders, Locked, Ended
  <2>6. CASE ClearOwner(p)
    <3>1. flock' = flock /\ named' = NoProc /\ proc[p].pc = "unname"
      BY <2>6 DEF ClearOwner, At
    <3>2. proc'[p].pc = "unlock"
      BY <2>6, Went DEF ClearOwner
    <3> QED
      BY <1>f, <2>1, <3>1, <3>2 DEF Holders, Locked, Ended
  <2>7. CASE Unlock(p)
    <3>1. flock' = NoProc /\ named' = named /\ proc[p].pc = "unlock"
      BY <2>7 DEF Unlock, At
    <3>2. proc'[p].pc \in {"raised", "stale", "finish"}
      BY <2>7, Went DEF Unlock, OrRaise
    <3> QED
      BY <1>f, <2>1, <3>1, <3>2 DEF Holders, Locked, Ended
  <2> QED
    BY <1>2, <2>2, <2>3, <2>4, <2>5, <2>6, <2>7, Unlocked DEF Step
<1>3. ASSUME NEW p \in Procs, Kill(p) PROVE Holders'
  <2>1. /\ flock' = (IF flock = p THEN NoProc ELSE flock) /\ named' = named
        /\ \A q \in Procs \ {p} : proc'[q] = proc[q]
        /\ proc'[p].pc \in {"killed", "torn"}
    BY <1>3, KillStep DEF Kill
  <2> QED
    BY <1>f, <2>1 DEF Holders, Locked, Ended
<1>4. ASSUME NEW r \in Requests, Cancel(r) PROVE Holders'
  BY <1>4 DEF Cancel, Holders, lock
<1> QED
  BY <1>1, <1>2, <1>3, <1>4 DEF Next

Hand(p, r) == proc[p].req = r /\ proc[p].pc \in Signing \cup {"claimed"}
Others(p) == \E q \in Procs \ {p} : proc[q].pc \in Looping

\* What a step of one process owes to the requests.
LEMMA Attends ==
    ASSUME Typed, Attended, NEW p \in Procs, Alone(p),
           \A r \in Requests : Exists(running', r) =>
               Hand(p, r)' \/ (Exists(running, r) /\ ~Hand(p, r)),
           \A r \in Requests : Exists(waiting', r) =>
               Looks(p, r)' \/ Others(p) \/ (Exists(waiting, r) /\ ~Looks(p, r)),
           proc'[p].pc \in {"back", "backed"} => flock' # NoProc
    PROVE  Attended'
<1>1. \A q \in Procs \ {p} : proc'[q] = proc[q] /\ proc[q].pc \notin Moving
  BY DEF Alone
<1>2. ASSUME NEW r \in Requests, Exists(running', r)
      PROVE  \E q \in Procs : Hand(q, r)'
  <2>1. CASE Exists(running, r) /\ ~Hand(p, r)
    <3>1. PICK q \in Procs : Hand(q, r)
      BY <2>1 DEF Attended, Hand
    <3>2. q # p /\ Hand(q, r)'
      BY <1>1, <2>1, <3>1 DEF Hand
    <3> QED
      BY <3>2
  <2> QED
    BY <1>2, <2>1
<1>3. ASSUME NEW r \in Requests, Exists(waiting', r)
      PROVE  \E q \in Procs : Looks(q, r)'
  <2>1. CASE Exists(waiting, r) /\ ~Looks(p, r)
    <3>1. PICK q \in Procs : Looks(q, r)
      BY <2>1 DEF Attended
    <3>2. q # p /\ Looks(q, r)'
      BY <1>1, <2>1, <3>1 DEF Looks, At
    <3> QED
      BY <3>2
  <2>2. CASE Others(p)
    BY <1>1, <2>2 DEF Others, Looks
  <2> QED
    BY <1>3, <2>1, <2>2
<1>4. \A q \in Procs : proc'[q].pc \in {"back", "backed"} => flock' # NoProc
  BY <1>1 DEF Moving
<1> QED
  BY <1>2, <1>3, <1>4 DEF Attended, Hand

\* Who is refused, or goes home, leaves the queue to who runs the train.
LEMMA Busy ==
    ASSUME Typed, Holders, NEW p \in Procs, proc[p].pc \notin Locked,
           flock # NoProc \/ Owned
    PROVE  Others(p)
<1>1. CASE flock # NoProc
  BY <1>1 DEF Typed, Holders, Others, Looping
<1>2. CASE Owned
  <2>1. named \in Procs /\ named # NoProc /\ proc[named].pc \notin Ended
    BY <1>2, QueueAssumption DEF Owned, Live
  <2> QED
    BY <2>1 DEF Holders, Others, Looping, Locked
<1> QED
  BY <1>1, <1>2

\* A process that goes on looking with the same request in hand.
LEMMA AttendsOn ==
    ASSUME Typed, Attended, NEW p \in Procs, Alone(p), UNCHANGED <<waiting, running>>,
           proc'[p].req = proc[p].req,
           proc[p].pc \in Signing \cup {"claimed"} /\ proc[p].req # 0 =>
               proc'[p].pc \in Signing \cup {"claimed"},
           proc'[p].pc \in Looping \/ Others(p),
           proc'[p].pc \in {"back", "backed"} => flock' # NoProc
    PROVE  Attended'
<1>1. \A r \in Requests : r # 0
  BY QueueAssumption DEF Requests
<1> QED
  BY <1>1, Attends DEF Exists, Hand, Looks

\* The steps that leave the files as they are.
LEMMA AttendsQuiet ==
    ASSUME Typed, ServeInv, Holders, Attended, NEW p \in Procs, Alone(p),
           \/ CheckOwner(p) \/ ListStale(p) \/ LookOwner(p) \/ ListWaiting(p)
           \/ Prepare(p) \/ TakeLock(p) \/ TrainBusy(p) \/ NameOwner(p)
           \/ RunEnds(p) \/ ClearOwner(p) \/ Unlock(p) \/ Finish(p)
    PROVE  Attended' \/ proc'[p].pc = "raised"
<1>1. CASE CheckOwner(p) \/ LookOwner(p)
  <2>1. /\ proc[p].pc \in {"check", "look"} /\ UNCHANGED <<waiting, running>>
        /\ \/ Owned \/ Goto(p, "stale") \/ Goto(p, "list")
        /\ Goto(p, "exit") \/ Goto(p, "stale") \/ Goto(p, "list")
    BY <1>1 DEF CheckOwner, LookOwner, At, files
  <2>2. /\ proc'[p].pc \in {"stale", "list"} \/ Owned
        /\ proc'[p].pc \in {"stale", "list", "exit"} /\ proc'[p].req = proc[p].req
    BY <2>1, Went
  <2>3. Owned => Others(p)
    BY <2>1, Busy DEF Locked
  <2> QED
    BY <2>1, <2>2, <2>3, AttendsOn DEF Looping, Signing
<1>2. CASE ListStale(p)
  <2>1. /\ proc[p].pc = "stale" /\ UNCHANGED <<waiting, running>>
        /\ proc'[p].pc = "requeue" /\ proc'[p].req = proc[p].req
    BY <1>2, Shapes DEF ListStale, At, files
  <2> QED
    BY <2>1, AttendsOn DEF Looping, Signing
<1>3. CASE ListWaiting(p)
  <2>1. /\ proc[p].pc = "list" /\ UNCHANGED <<waiting, running>>
        /\ proc'[p].pc = "claim" /\ proc'[p].req = proc[p].req
        /\ proc'[p].todo = Present(waiting)
    BY <1>3, Shapes DEF ListWaiting, At, files
  <2>2. \A r \in Requests : Exists(waiting', r) => Looks(p, r)'
    BY <2>1 DEF Looks, At, Present, Exists
  <2>3. \A r \in Requests : ~Hand(p, r)
    BY <2>1 DEF Hand, Signing
  <2> QED
    BY <2>1, <2>2, <2>3, Attends DEF Exists
<1>4. CASE Prepare(p)
  <2>1. proc[p].pc = "prepare" /\ UNCHANGED <<waiting, running>>
    BY <1>4 DEF Prepare, At, files
  <2>2. Goto(p, "finish") \/ Goto(p, "raised") \/ Goto(p, "lock")
    BY <1>4 DEF Prepare
  <2>3. proc'[p].pc \in {"finish", "raised", "lock"} /\ proc'[p].req = proc[p].req
    BY <2>2, Went
  <2> QED
    BY <2>1, <2>3, AttendsOn DEF Looping, Signing
<1>5. CASE TrainBusy(p)
  <2>1. /\ proc[p].pc = "lock" /\ UNCHANGED <<waiting, running>>
        /\ flock # NoProc /\ flock' = flock
    BY <1>5 DEF TrainBusy, At, files, lock
  <2>2. /\ proc'[p].req = proc[p].req
        /\ proc'[p].pc = IF proc[p].req = 0 THEN "exit" ELSE "back"
    BY <1>5, Went DEF TrainBusy
  <2>3. Others(p)
    BY <2>1, Busy DEF Locked
  <2> QED
    BY <2>1, <2>2, <2>3, AttendsOn DEF Signing
<1>6. CASE TakeLock(p) \/ NameOwner(p) \/ ClearOwner(p) \/ Finish(p)
  <2>1. proc[p].pc \in {"lock", "name", "unname", "finish"} /\ UNCHANGED <<waiting, running>>
    BY <1>6 DEF TakeLock, NameOwner, ClearOwner, Finish, At, files
  <2>2. /\ proc'[p].pc \in {"name", "run", "unlock", "finished"}
        /\ proc'[p].req = proc[p].req
    BY <1>6, Went DEF TakeLock, NameOwner, ClearOwner, Finish
  <2> QED
    BY <2>1, <2>2, AttendsOn DEF Looping, Locked, Signing
<1>7. CASE RunEnds(p)
  <2>1. /\ proc[p].pc = "run" /\ UNCHANGED <<waiting, running>>
        /\ proc'[p].pc = "unname" /\ proc'[p].req = proc[p].req
    BY <1>7, Shapes DEF RunEnds, At, files
  <2> QED
    BY <2>1, AttendsOn DEF Looping, Locked, Signing
<1>8. CASE Unlock(p)
  <2>1. proc[p].pc = "unlock" /\ UNCHANGED <<waiting, running>>
    BY <1>8 DEF Unlock, At, files
  <2>2. /\ proc'[p].req = proc[p].req
        /\ \/ proc[p].req = 0 /\ proc'[p].pc \in {"raised", "stale"}
           \/ proc'[p].pc = "finish"
    BY <1>8, Went DEF Unlock, OrRaise
  <2> QED
    BY <2>1, <2>2, AttendsOn DEF Looping, Signing
<1> QED
  BY <1>1, <1>2, <1>3, <1>4, <1>5, <1>6, <1>7, <1>8

\* The steps that move files.
LEMMA AttendsMoves ==
    ASSUME Typed, ServeInv, Holders, Attended, NEW p \in Procs, Alone(p),
           \/ Start(p) \/ Requeue(p) \/ UnlinkStale(p) \/ Claim(p) \/ SignClaim(p)
           \/ UnlinkFinished(p) \/ Release(p) \/ UnlinkReleased(p)
    PROVE  Attended' \/ proc'[p].pc = "raised"
<1>f. /\ waiting \in [Requests -> File] /\ running \in [Requests -> File]
      /\ NoPid # Missing /\ proc[p].todo \subseteq Requests
      /\ proc[p].pc \in InHand => proc[p].req \in Requests
  BY ProcFields, QueueAssumption DEF Typed, Files
<1>1. CASE Start(p)
  <2>1. proc[p].pc = "off" /\ UNCHANGED running
    BY <1>1 DEF Start, At
  <2>2. proc'[p].pc \in {"lock", "check", "stale"}
    BY <1>1, Went DEF Start
  <2>3. \A r \in Requests : Looks(p, r)' /\ ~Hand(p, r)
    BY <2>1, <2>2 DEF Looks, Looping, Hand, Signing
  <2> QED
    BY <2>1, <2>2, <2>3, Attends
<1>2. CASE UnlinkStale(p) \/ UnlinkFinished(p) \/ UnlinkReleased(p)
  <2>1. /\ proc[p].pc \in {"requeued", "finished", "backed"} /\ proc[p].req \in Requests
        /\ running' = [running EXCEPT ![proc[p].req] = Missing]
        /\ UNCHANGED waiting
    BY <1>2, <1>f DEF UnlinkStale, UnlinkFinished, UnlinkReleased, At, InHand
  <2>2. \A r \in Requests : Exists(running', r) => Exists(running, r) /\ ~Hand(p, r)
    BY <1>f, <2>1 DEF Exists, Hand
  <2>3. proc'[p].pc = "raised" \/ (proc'[p].pc \in {"requeue", "look"})
        \/ (proc[p].pc = "backed" /\ proc'[p].pc = "exit")
    <3>1. CASE UnlinkStale(p) \/ UnlinkFinished(p)
      BY <3>1, Shapes DEF OrRaise
    <3>2. CASE UnlinkReleased(p)
      BY <3>2, Went DEF UnlinkReleased, At
    <3> QED
      BY <1>2, <3>1, <3>2
  <2>4. CASE proc'[p].pc \in {"requeue", "look"}
    BY <2>1, <2>2, <2>4, Attends DEF Looks, Looping
  <2>5. CASE proc[p].pc = "backed" /\ proc'[p].pc = "exit"
    <3>1. \A r \in Requests : ~Looks(p, r)
      BY <2>5 DEF Looks, Looping, Locked, At
    <3> QED
      BY <2>1, <2>2, <2>5, <3>1, Attends DEF Exists
  <2> QED
    BY <2>3, <2>4, <2>5
<1>3. CASE Release(p)
  <2>1. /\ proc[p].pc = "back" /\ UNCHANGED <<running, flock>> /\ flock # NoProc
    BY <1>3 DEF Release, At, lock, Attended
  <2>2. Others(p)
    BY <2>1, Busy DEF Locked
  <2>3. CASE ~Exists(running, proc[p].req)
    <3>1. proc'[p].pc = "exit"
      BY <1>3, <2>3, Went DEF Release
    <3>2. \A r \in Requests : Exists(running', r) => Exists(running, r) /\ ~Hand(p, r)
      BY <2>1, <2>3 DEF Hand, Exists
    <3> QED
      BY <2>2, <3>1, <3>2, Attends
  <2>4. CASE Exists(running, proc[p].req)
    <3>1. proc'[p].pc = "backed" /\ proc'[p].req = proc[p].req
      BY <1>3, <2>4, Went DEF Release
    <3>2. \A r \in Requests : Exists(running', r) =>
              Hand(p, r)' \/ (Exists(running, r) /\ ~Hand(p, r))
      BY <2>1, <3>1 DEF Hand, Signing, Exists
    <3> QED
      BY <2>1, <2>2, <3>1, <3>2, Attends
  <2> QED
    BY <2>3, <2>4
<1>4. CASE SignClaim(p)
  <2>1. /\ proc[p].pc = "claimed" /\ proc[p].req \in Requests
        /\ running[proc[p].req] = NoPid /\ ~Exists(waiting, proc[p].req)
    BY <1>4, ProcFields DEF SignClaim, At, InHand, ServeInv, Claims
  <2>2. Exists(running, proc[p].req) /\ ~Lost(proc[p].req)
    BY <2>1, QueueAssumption DEF Exists, Lost
  <2>3. /\ running' = [running EXCEPT ![proc[p].req] = p]
        /\ UNCHANGED waiting /\ Goto(p, "prepare")
    BY <1>4, <2>1, <2>2 DEF SignClaim, Signed
  <2>4. proc'[p].pc = "prepare" /\ proc'[p].req = proc[p].req
    BY <2>3, Went
  <2>5. \A r \in Requests : Exists(running', r) =>
            Hand(p, r)' \/ (Exists(running, r) /\ ~Hand(p, r))
    BY <1>f, <2>3, <2>4 DEF Hand, Signing, Exists
  <2> QED
    BY <2>4, <2>5, Attends DEF Looks, Looping
<1>5. CASE Requeue(p)
  <2>1. proc[p].pc = "requeue" /\ UNCHANGED running
    BY <1>5, Zenon DEF Requeue, At
  <2>2. ASSUME NEW x, proc' = [proc EXCEPT ![p].pc = "requeued", ![p].req = x,
                                           ![p].todo = @ \ {x}]
        PROVE  proc'[p].pc = "requeued"
    BY <2>2, ProcFields DEF Typed, Process
  <2>3. proc'[p].pc \in {"look", "requeued"}
    <3>1. Goto(p, "look") => proc'[p].pc = "look"
      BY Went
    <3> QED
      BY <1>5, <2>2, <3>1, Zenon DEF Requeue
  <2>4. \A r \in Requests : Looks(p, r)' /\ ~Hand(p, r)
    BY <2>1, <2>3 DEF Looks, Looping, Hand, Signing
  <2> QED
    BY <2>1, <2>3, <2>4, Attends
<1>6. CASE Claim(p)
  <2>1. proc[p].pc = "claim"
    BY <1>6, Zenon DEF Claim, At
  <2>2. \A r \in Requests : ~Hand(p, r)
    BY <2>1 DEF Hand, Signing
  <2>3. CASE proc[p].todo = {} /\ Goto(p, "exit") /\ UNCHANGED files
    <3>1. proc'[p].pc = "exit" /\ UNCHANGED <<waiting, running>>
      BY <2>3, Went DEF files
    <3>2. \A r \in Requests : ~Looks(p, r)
      BY <2>1, <2>3 DEF Looks, Looping, Locked
    <3> QED
      BY <2>2, <3>1, <3>2, Attends DEF Exists
  <2>4. ASSUME NEW x, ~Exists(waiting, x), proc' = [proc EXCEPT ![p].todo = @ \ {x}],
               UNCHANGED files
        PROVE  Attended'
    <3>1. proc'[p].pc = "claim" /\ proc'[p].todo = proc[p].todo \ {x}
      BY <2>1, <2>4, Struck
    <3>2. UNCHANGED <<waiting, running>> /\ ~Exists(waiting, x)
      BY <2>4 DEF files
    <3>3. \A r \in Requests : Exists(waiting', r) =>
              Looks(p, r)' \/ (Exists(waiting, r) /\ ~Looks(p, r))
      BY <2>1, <3>1, <3>2 DEF Looks, At, Looping, Locked, Exists
    <3>4. \A r \in Requests : Exists(running', r) => Exists(running, r) /\ ~Hand(p, r)
      BY <2>2, <3>2 DEF Exists
    <3>5. proc'[p].pc \notin {"back", "backed"}
      BY <3>1
    <3> QED
      BY <3>3, <3>4, <3>5, Attends
  <2>5. ASSUME NEW x \in Oldest(proc[p].todo), running' = [running EXCEPT ![x] = waiting[x]],
               proc' = [proc EXCEPT ![p].pc = "claimed", ![p].req = x, ![p].todo = {}]
        PROVE  Attended'
    <3>1. proc'[p].pc = "claimed" /\ proc'[p].req = x
      BY <2>5, ProcFields DEF Typed, Process
    <3>2. x \in Requests
      BY <1>f DEF Oldest
    <3>3. \A r \in Requests : Exists(running', r) => Hand(p, r)' \/ Exists(running, r)
      BY <1>f, <2>5, <3>1, <3>2 DEF Hand, Exists
    <3>4. \A r \in Requests : Looks(p, r)'
      BY <3>1 DEF Looks, Looping
    <3>5. proc'[p].pc \notin {"back", "backed"}
      BY <3>1
    <3> QED
      BY <2>2, <3>3, <3>4, <3>5, Attends
  <2> QED
    BY <1>6, <2>3, <2>4, <2>5, Zenon DEF Claim
<1> QED
  BY <1>1, <1>2, <1>3, <1>4, <1>5, <1>6

LEMMA WatchedStep ==
    ASSUME Prompt = TRUE, Typed, ServeInv, Watched, [Next]_vars PROVE Watched'
<1>1. Holders'
  BY HoldersStep DEF Watched
<1>2. Fallen => Fallen'
  BY FallenStay DEF Fallen
<1>3. ASSUME Attended, NEW p \in Procs, Undisturbed({p}), Start(p) \/ Step(p)
      PROVE  Attended' \/ Fallen'
  <2>1. Alone(p)
    BY <1>3, StepsAlone
  <2>2. Attended' \/ proc'[p].pc = "raised"
    BY <1>3, <2>1, AttendsQuiet, AttendsMoves DEF Step, Watched
  <2> QED
    BY <2>2 DEF Fallen
<1>4. ASSUME NEW p \in Procs, Kill(p) PROVE Fallen'
  BY <1>4, KillStep DEF Fallen
<1>5. ASSUME Attended, NEW x \in Requests, Cancel(x) PROVE Attended'
  <2>1. /\ UNCHANGED <<running, proc, lock>> /\ waiting \in [Requests -> File]
        /\ waiting' = [waiting EXCEPT ![x] = Missing]
    BY <1>5 DEF Cancel, Typed, Files
  <2>2. \A r \in Requests : Exists(waiting', r) => Exists(waiting, r)
    BY <2>1 DEF Exists
  <2> QED
    BY <1>5, <2>1, <2>2 DEF Attended, Exists, Looks, At, lock
<1>6. CASE UNCHANGED vars
  BY <1>6 DEF vars, Watched, Holders, Fallen, Attended, Looks, At, Exists
<1> QED
  BY <1>1, <1>2, <1>3, <1>4, <1>5, <1>6 DEF Watched, Next

\* Once every process went home of its own accord nothing waits and nothing is
\* left half served: who leaves a request behind leaves it to somebody who will
\* list the queue again (_queued_run, drain, release).
THEOREM AllServed ==
    ASSUME Prompt = TRUE PROVE Spec => []Served
<1>1. Init => Watched
  <2> SUFFICES ASSUME Init PROVE Watched
    OBVIOUS
  <2>1. /\ \A p \in Procs : proc[p].pc = "off"
        /\ \A r \in Requests : ~Exists(waiting, r) /\ ~Exists(running, r)
        /\ flock = NoProc /\ named = NoProc
    BY DEF Init, Exists
  <2> QED
    BY <2>1 DEF Watched, Holders, Attended, Locked
<1>2. Watched => Served
  <2> SUFFICES ASSUME Watched, \A p \in Procs : proc[p].pc \in {"off", "exit"}
               PROVE  Present(waiting) \cup Present(running) = {}
    BY DEF Served
  <2>1. Attended
    BY DEF Watched, Fallen
  <2>2. \A r \in Requests : ~Exists(waiting, r) /\ ~Exists(running, r)
    BY <2>1 DEF Attended, Looks, Looping, Locked, Signing, At
  <2> QED
    BY <2>2 DEF Present
<1> QED
  BY <1>1, <1>2, WatchedStep, TypedInit, TypedStep, ServeInit, ServeStep, PTL DEF Spec
=============================================================================
