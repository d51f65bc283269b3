-------------------------- MODULE StateStoreProofs --------------------------
(***************************************************************************)
(* Theorems about StateStore, for any runners, chunk counts and bounds.    *)
(***************************************************************************)
EXTENDS StateStore, TLAPS

USE DEF Lease, Manifest, Marker, Chunk

\* The program labels, spelled out.
LEMMA LabelsAre ==
    Labels = {"idle", "acquire", "work", "failed", "checkpoint", "release",
              "pull", "parts", "clear", "rewrite", "mark",
              "head", "chunk", "replace", "recreate", "fence", "commit",
              "forget", "sweep"}
  BY DEF Labels, PullLabels, PushWindow, AfterCommit

\* What each helper does to a process keeps it a process.
LEMMA IdleType == Idle \in Process
  BY LabelsAre, StoreAssumption DEF Idle, Process, NoHead, Phases, Snapshots

\* A raised error leaves a typed process.
LEMMA RaisedType == ASSUME NEW p \in Process PROVE Raised(p) \in Process
  BY LabelsAre DEF Raised, Process, NoHead, Phases, Snapshots

\* An operation that returned leaves a typed process.
LEMMA ResumedType == ASSUME NEW p \in Process PROVE Resumed(p) \in Process
  BY LabelsAre DEF Resumed, Process, NoHead, Phases, Snapshots

\* Replacing one runner's process keeps the function typed.
LEMMA ProcSet ==
    ASSUME NEW f \in [Runners -> Process], NEW r \in Runners, NEW p \in Process
    PROVE  [f EXCEPT ![r] = p] \in [Runners -> Process]
  OBVIOUS

\* Every variable starts with its type (StateStore's Init).
THEOREM InitType == Init => TypeOK
<1> SUFFICES ASSUME Init PROVE TypeOK
  OBVIOUS
<1>1. proc \in [Runners -> Process]
  BY IdleType DEF Init
<1>2. copy \in [Runners -> Snapshots]
  BY StoreAssumption DEF Init, Snapshots, Edits
<1>3. lease \in Lease /\ head \in Manifest /\ chunks \subseteq Chunk
  BY DEF Init, NoHead, Snapshots
<1>4. mark \in [Runners -> Marker]
  BY DEF Init, NoMark, Snapshots
<1>5. edits \in Edits /\ acked \in Snapshots /\ faults \in 0..MaxFaults
        /\ crashes \in 0..MaxCrashes
  BY StoreAssumption DEF Init, Edits, Snapshots
<1> QED
  BY <1>1, <1>2, <1>3, <1>4, <1>5 DEF TypeOK

\* Moving to another label keeps the processes typed.
LEMMA GotoType ==
    ASSUME proc \in [Runners -> Process], NEW r \in Runners, NEW l \in Labels,
           Goto(r, l)
    PROVE  proc' \in [Runners -> Process]
<1>1. [proc[r] EXCEPT !.pc = l] \in Process
  BY DEF Process
<1> QED
  BY <1>1, ProcSet DEF Goto

\* Raising an error, with or without the lock lost, keeps them typed.
LEMMA RaiseType ==
    ASSUME proc \in [Runners -> Process], NEW r \in Runners,
           Raise(r) \/ RaiseLost(r)
    PROVE  proc' \in [Runners -> Process]
<1>1. [proc[r] EXCEPT !.lost = TRUE] \in Process
  BY DEF Process
<1>2. Raised(proc[r]) \in Process /\ Raised([proc[r] EXCEPT !.lost = TRUE]) \in Process
  BY <1>1, RaisedType
<1> QED
  BY <1>2, ProcSet DEF Raise, RaiseLost

\* Returning from an operation keeps them typed.
LEMMA ResumeType ==
    ASSUME proc \in [Runners -> Process], NEW r \in Runners, Resume(r)
    PROVE  proc' \in [Runners -> Process]
  BY ResumedType, ProcSet DEF Resume

\* What a typed process and a typed working copy give.
LEMMA ProcFields ==
    ASSUME TypeOK, NEW r \in Runners
    PROVE  /\ proc[r] \in Process
           /\ proc[r].fence \in Nat /\ proc[r].idx \in Nat /\ proc[r].tries \in Nat
           /\ proc[r].base \in Manifest
           /\ proc[r].base.gen \in Nat /\ proc[r].base.n \in Nat
           /\ proc[r].base.fence \in Nat /\ proc[r].base.sha \in Snapshots
           /\ copy[r] \in Snapshots
           /\ ChunkCount[copy[r]] \in Nat \ {0}
<1>1. proc[r] \in Process /\ copy[r] \in Snapshots
  BY DEF TypeOK
<1>2. ChunkCount[copy[r]] \in Nat \ {0}
  BY <1>1, StoreAssumption
<1>3. proc[r].base \in Manifest /\ proc[r].fence \in Nat
        /\ proc[r].idx \in Nat /\ proc[r].tries \in Nat
  BY <1>1 DEF Process
<1>4. proc[r].base.gen \in Nat /\ proc[r].base.n \in Nat
        /\ proc[r].base.fence \in Nat /\ proc[r].base.sha \in Snapshots
  BY <1>3
<1> QED
  BY <1>1, <1>2, <1>3, <1>4

\* What push() and the lock write is typed: chunk, head, generation, Lease.
LEMMA NewType ==
    ASSUME TypeOK, NEW r \in Runners
    PROVE  /\ NewChunk(r) \in Chunk /\ NewHead(r) \in Manifest
           /\ NewGen(r) \in Nat
           /\ Renewed \in Lease /\ LeaseTakenBy(r) \in Lease
           /\ LeaseFreedBy(r) \in Lease
<1>1. NewGen(r) \in Nat
  BY ProcFields DEF NewGen
<1>2. NewChunk(r) \in Chunk /\ NewHead(r) \in Manifest
  BY <1>1, ProcFields DEF NewChunk, NewHead
<1>3. lease \in Lease
  BY DEF TypeOK
<1>4. Renewed \in Lease
  BY <1>3 DEF Renewed
<1>5. LeaseTakenBy(r) \in Lease
  BY <1>3 DEF LeaseTakenBy
<1>6. LeaseFreedBy(r) \in Lease
  <2>1. [lease EXCEPT !.holder = NoRunner, !.live = FALSE] \in Lease
    BY <1>3
  <2> QED
    BY <1>3, <2>1 DEF LeaseFreedBy
<1> QED
  BY <1>1, <1>2, <1>4, <1>5, <1>6

\* Every action keeps each runner's process typed, one step per action.
LEMMA ProcStep ==
    ASSUME TypeOK, NEW r \in Runners, Action(r)
    PROVE  proc' \in [Runners -> Process]
<1>p. proc \in [Runners -> Process]
  BY DEF TypeOK
<1>q. proc[r] \in Process /\ proc[r].idx \in Nat /\ proc[r].tries \in Nat
        /\ proc[r].idx + 1 \in Nat /\ proc[r].tries + 1 \in Nat
        /\ proc[r].base \in Manifest /\ ChunkCount[copy[r]] \in Nat
  BY ProcFields
<1>n. head \in Manifest /\ lease.trans + 1 \in Nat
  BY DEF TypeOK
<1> USE LabelsAre DEF Phases
<1>1. CASE OpenSession(r)
  <2>1. [proc[r] EXCEPT !.pc = "acquire", !.phase = "opening"] \in Process
    BY <1>q DEF Process
  <2>2. [proc[r] EXCEPT !.pc = "pull", !.phase = "reading"] \in Process
    BY <1>q DEF Process
  <2> QED
    BY <1>1, <1>p, <2>1, <2>2, ProcSet DEF OpenSession
<1>2. CASE Edit(r) \/ RecordFailure(r)
  BY <1>2, <1>p, GotoType DEF Edit, RecordFailure, EditCopy
<1>3. CASE EndCommand(r)
  <2>1. [proc[r] EXCEPT !.pc = "checkpoint", !.phase = "closing"] \in Process
    BY <1>q DEF Process
  <2> QED
    BY <1>3, <1>p, <2>1, ProcSet DEF EndCommand
<1>4. CASE Acquire(r)
  <2>1. [proc[r] EXCEPT !.pc = "pull", !.fence = lease.trans + 1] \in Process
    BY <1>q, <1>n DEF Process
  <2> QED
    BY <1>4, <1>p, <2>1, ProcSet DEF Acquire
<1>5. CASE AcquireRefused(r) \/ CheckpointRefused(r)
  BY <1>5, <1>p, RaiseType DEF AcquireRefused, CheckpointRefused
<1>6. CASE Release(r) \/ Crash(r)
  BY <1>6, <1>p, IdleType, ProcSet DEF Release, Crash
<1>7. CASE Pull(r)
  <2>1. [proc[r] EXCEPT !.pc = "parts", !.base = head, !.idx = 0, !.good = TRUE]
            \in Process
    BY <1>q, <1>n DEF Process
  <2> QED
    BY <1>7, <1>p, <2>1, ProcSet, GotoType, ResumeType DEF Pull
<1>8. CASE ReadPart(r)
  <2> DEFINE p == proc[r]
             wanted == [gen |-> p.base.gen, idx |-> p.idx, of |-> p.base.sha]
             next == [p EXCEPT !.good = @ /\ wanted \in Stored(p.base.gen, p.idx),
                               !.idx = @ + 1]
  <2>1. next \in Process
    <3> DEFINE ok == p.good /\ wanted \in Stored(p.base.gen, p.idx)
    <3>1. ok \in BOOLEAN
      OBVIOUS
    <3> HIDE DEF ok
    <3>2. [p EXCEPT !.good = ok, !.idx = p.idx + 1] \in Process
      BY <1>q, <3>1 DEF Process
    <3> QED
      BY <3>2 DEF ok
  <2>2. Pulled(next, r) \in Process
    <3> HIDE DEF next
    <3>1. \A l \in Labels : [next EXCEPT !.pc = l] \in Process
      BY <2>1 DEF Process
    <3> QED
      BY <2>1, <3>1, RaisedType DEF Pulled
  <2>3. [p EXCEPT !.pc = "pull", !.tries = @ + 1] \in Process
    BY <1>q DEF Process
  <2>4. \/ proc' = [proc EXCEPT ![r] = next]
        \/ proc' = [proc EXCEPT ![r] = Pulled(next, r)]
        \/ proc' = [proc EXCEPT ![r] = [p EXCEPT !.pc = "pull", !.tries = @ + 1]]
        \/ Raise(r)
    BY <1>8, <1>p, Zenon DEF ReadPart
  <2> HIDE DEF next
  <2> QED
    BY <1>p, <2>1, <2>2, <2>3, <2>4, ProcSet, RaiseType
<1>9. CASE Clear(r) \/ Rewrite(r)
  BY <1>9, <1>p, GotoType DEF Clear, Rewrite
<1>10. CASE Mark(r)
  BY <1>10, <1>p, RaiseType, ResumeType DEF Mark
<1>11. CASE Checkpoint(r)
  BY <1>11, <1>p, GotoType, ResumeType DEF Checkpoint
<1>12. CASE ReadHead(r)
  <2>1. [proc[r] EXCEPT !.pc = "chunk", !.base = head, !.idx = 0] \in Process
    BY <1>q, <1>n DEF Process
  <2> QED
    BY <1>12, <1>p, <2>1, ProcSet, RaiseType, ResumeType DEF ReadHead, Pushed
<1>13. ASSUME ChunkWritten(r) PROVE proc' \in [Runners -> Process]
  <2>1. [proc[r] EXCEPT !.pc = "chunk", !.idx = @ + 1] \in Process
    BY <1>q DEF Process
  <2>2. [proc[r] EXCEPT !.pc = "fence", !.idx = 0] \in Process
    BY <1>q DEF Process
  <2> QED
    BY <1>13, <1>p, <2>1, <2>2, ProcSet DEF ChunkWritten
<1>14. CASE CreateChunk(r) \/ ReplaceChunk(r) \/ RecreateChunk(r)
  BY <1>14, <1>p, <1>13, GotoType, RaiseType
     DEF CreateChunk, ReplaceChunk, RecreateChunk
<1>15. CASE FenceCommit(r) \/ CommitHead(r)
  BY <1>15, <1>p, GotoType, RaiseType DEF FenceCommit, CommitHead
<1>16. [proc[r] EXCEPT !.idx = @ + 1] \in Process
  BY <1>q DEF Process
<1>17. CASE ForgetChunk(r)
  <2>1. [proc[r] EXCEPT !.pc = "sweep", !.idx = ChunkCount[copy[r]]] \in Process
    BY <1>q DEF Process
  <2> QED
    BY <1>17, <1>p, <1>16, <2>1, ProcSet DEF ForgetChunk
<1>18. CASE SweepStray(r)
  BY <1>18, <1>p, <1>16, ProcSet, ResumeType DEF SweepStray, Pushed
<1>19. CASE Beat(r) \/ BeatTimedOut(r)
  <2>1. [proc[r] EXCEPT !.lost = TRUE] \in Process
    BY <1>q DEF Process
  <2> QED
    BY <1>19, <1>p, <2>1, ProcSet DEF Beat, BeatTimedOut
<1>20. CASE Unavailable(r)
  BY <1>20, <1>p, <1>16, ProcSet, RaiseType, IdleType DEF Unavailable
<1>21. CASE ReplyLost(r)
  BY <1>21, <1>p, RaiseType DEF ReplyLost
<1> QED
  BY <1>1, <1>2, <1>3, <1>4, <1>5, <1>6, <1>7, <1>8, <1>9, <1>10, <1>11,
     <1>12, <1>14, <1>15, <1>17, <1>18, <1>19, <1>20, <1>21 DEF Action, Step

\* Every action keeps everything else typed.
LEMMA RestStep ==
    ASSUME TypeOK, NEW r \in Runners, Action(r)
    PROVE  /\ lease' \in Lease /\ head' \in Manifest /\ chunks' \subseteq Chunk
           /\ copy' \in [Runners -> Snapshots] /\ mark' \in [Runners -> Marker]
           /\ edits' \in Edits /\ acked' \in Snapshots
           /\ faults' \in 0 .. MaxFaults /\ crashes' \in 0 .. MaxCrashes
<1>t. /\ lease \in Lease /\ head \in Manifest /\ chunks \subseteq Chunk
      /\ copy \in [Runners -> Snapshots] /\ mark \in [Runners -> Marker]
      /\ edits \in Edits /\ acked \in Snapshots
      /\ faults \in 0 .. MaxFaults /\ crashes \in 0 .. MaxCrashes
  BY DEF TypeOK
<1>n. /\ NewChunk(r) \in Chunk /\ NewHead(r) \in Manifest
      /\ Renewed \in Lease /\ LeaseTakenBy(r) \in Lease /\ LeaseFreedBy(r) \in Lease
      /\ proc[r].base \in Manifest /\ proc[r].base.sha \in Snapshots
  BY NewType, ProcFields
<1>m. ASSUME NEW m \in Manifest, MarkAs(r, m) PROVE mark' \in [Runners -> Marker]
  BY <1>t, <1>m DEF MarkAs
<1>a. ASSUME NEW m \in Manifest, acked' = acked \cup m.sha PROVE acked' \in Snapshots
  BY <1>t, <1>a DEF Snapshots
<1>f. ASSUME Fault PROVE /\ faults' \in 0 .. MaxFaults
                         /\ edits' = edits /\ acked' = acked /\ crashes' = crashes
  BY <1>t, <1>f, StoreAssumption DEF Fault
<1> USE DEF cluster, disk, history
<1>1. CASE OpenSession(r) \/ EndCommand(r) \/ AcquireRefused(r) \/ Pull(r)
             \/ ReadPart(r) \/ CheckpointRefused(r)
  BY <1>1, <1>t
     DEF OpenSession, EndCommand, AcquireRefused, Pull, ReadPart, CheckpointRefused
<1>2. CASE Edit(r) \/ RecordFailure(r)
  <2>1. EditCopy(r)
    BY <1>2 DEF Edit, RecordFailure
  <2>2. edits' \in Edits
    BY <2>1, <1>t, StoreAssumption DEF EditCopy, Edits
  <2>3. copy[r] \cup {edits + 1} \in Snapshots
    BY <2>1, <2>2, <1>t DEF EditCopy, Snapshots
  <2> QED
    BY <2>1, <2>2, <2>3, <1>t DEF EditCopy
<1>3. CASE Acquire(r) \/ Checkpoint(r) \/ Release(r) \/ FenceCommit(r) \/ Beat(r)
  BY <1>3, <1>t, <1>n DEF Acquire, Checkpoint, Release, FenceCommit, Beat
<1>4. CASE Clear(r) \/ Rewrite(r)
  BY <1>4, <1>t, <1>n DEF Clear, Rewrite, Snapshots
<1>5. CASE Mark(r)
  BY <1>5, <1>t, <1>n, <1>m DEF Mark
<1>6. CASE ReadHead(r)
  BY <1>6, <1>t, <1>m, <1>a DEF ReadHead, Pushed
<1>7. CASE CreateChunk(r) \/ ReplaceChunk(r) \/ RecreateChunk(r) \/ ForgetChunk(r)
  BY <1>7, <1>t, <1>n DEF CreateChunk, ReplaceChunk, RecreateChunk, ForgetChunk
<1>8. CASE CommitHead(r)
  BY <1>8, <1>t, <1>n DEF CommitHead
<1>9. CASE SweepStray(r)
  BY <1>9, <1>t, <1>n, <1>m, <1>a DEF SweepStray, Pushed
<1>10. CASE BeatTimedOut(r)
  BY <1>10, <1>t, StoreAssumption DEF BeatTimedOut
<1>11. CASE Unavailable(r)
  BY <1>11, <1>t, <1>f DEF Unavailable
<1>12. CASE ReplyLost(r)
  BY <1>12, <1>t, <1>n, <1>f DEF ReplyLost
<1>13. CASE Crash(r)
  BY <1>13, <1>t, StoreAssumption DEF Crash
<1> QED
  BY <1>1, <1>2, <1>3, <1>4, <1>5, <1>6, <1>7, <1>8, <1>9, <1>10, <1>11,
     <1>12, <1>13 DEF Action, Step

\* Every variable keeps its type (StateStore's Init and Next).
THEOREM TypeCorrect == Spec => []TypeOK
<1>1. TypeOK /\ [Next]_vars => TypeOK'
  <2> SUFFICES ASSUME TypeOK, [Next]_vars PROVE TypeOK'
    OBVIOUS
  <2>1. CASE Lapse
    BY <2>1 DEF Lapse, TypeOK, disk, history
  <2>2. CASE UNCHANGED vars
    BY <2>2 DEF vars, TypeOK
  <2>3. CASE Next /\ ~Lapse
    BY <2>3, ProcStep, RestStep DEF Next, TypeOK
  <2> QED
    BY <2>1, <2>2, <2>3
<1> QED
  BY <1>1, InitType, PTL DEF Spec

-----------------------------------------------------------------------------
(* Fences.  A runner's fence only changes when it acquires the lock or when *)
(* its session ends, and the commit window keeps what ReadHead checked.    *)

CommitWindow == {"chunk", "replace", "recreate", "fence", "commit"}

\* An acquisition that took effect.
Takes(r) == /\ ~Held
            /\ lease' = LeaseTakenBy(r)

\* What one action of a runner does to its fence, its label and its base.
LEMMA Moves ==
    ASSUME TypeOK, NEW r \in Runners, Action(r)
    PROVE  /\ \A q \in Runners \ {r} : proc'[q] = proc[q]
           /\ \/ proc'[r].fence \in {proc[r].fence, 0}
              \/ /\ Takes(r) /\ proc'[r].fence = lease.trans + 1
                 /\ proc'[r].pc = "pull"
           /\ proc'[r].pc \in PushWindow =>
                 /\ proc'[r].fence = proc[r].fence
                 /\ \/ proc[r].pc \in PushWindow
                    \/ Fenced(r) /\ lease' = Renewed
           /\ proc'[r].pc \in CommitWindow =>
                 /\ \/ proc[r].pc \in CommitWindow /\ proc'[r].base = proc[r].base
                    \/ /\ proc[r].pc = "head" /\ proc'[r].base = head
                       /\ head.fence <= proc[r].fence
<1>p. proc \in [Runners -> Process] /\ proc[r] \in Process
  BY DEF TypeOK
<1>0. \A x : proc' = [proc EXCEPT ![r] = x] =>
         proc'[r] = x /\ \A q \in Runners \ {r} : proc'[q] = proc[q]
  BY <1>p
<1> DEFINE Same == /\ \A q \in Runners \ {r} : proc'[q] = proc[q]
                   /\ proc'[r].fence = proc[r].fence
                   /\ proc'[r].pc \notin PushWindow
<1>w. PushWindow = CommitWindow \cup {"head"}
  BY DEF PushWindow, CommitWindow
<1>1. Raised(proc[r]).fence = proc[r].fence
        /\ Raised([proc[r] EXCEPT !.lost = TRUE]).fence = proc[r].fence
        /\ Raised(proc[r]).pc \notin PushWindow
        /\ Raised([proc[r] EXCEPT !.lost = TRUE]).pc \notin PushWindow
  BY <1>p DEF Raised, PushWindow, Process
<1>2. Resumed(proc[r]).fence = proc[r].fence /\ Resumed(proc[r]).pc \notin PushWindow
  BY <1>p DEF Resumed, PushWindow, Process
<1>3. ASSUME Raise(r) \/ RaiseLost(r) \/ Resume(r) PROVE Same
  BY <1>3, <1>0, <1>1, <1>2 DEF Raise, RaiseLost, Resume
<1>4. ASSUME NEW l \in Labels \ PushWindow, Goto(r, l) PROVE Same
  BY <1>4, <1>p DEF Goto, Process
<1> DEFINE Stays == /\ \A q \in Runners \ {r} : proc'[q] = proc[q]
                    /\ proc'[r].fence = proc[r].fence
                    /\ proc[r].pc \in CommitWindow
                    /\ proc'[r].base = proc[r].base
<1>5. ASSUME NEW l \in CommitWindow, Goto(r, l), proc[r].pc \in CommitWindow
      PROVE  Stays
  BY <1>5, <1>p, LabelsAre DEF Goto, Process, CommitWindow
<1>6. ASSUME ChunkWritten(r), proc[r].pc \in CommitWindow PROVE Stays
  BY <1>6, <1>p DEF ChunkWritten, Process, CommitWindow
<1>7. ASSUME proc' = [proc EXCEPT ![r].idx = @ + 1], proc[r].pc \notin PushWindow
      PROVE  Same
  BY <1>7, <1>p DEF Process
<1>8. ASSUME proc' = [proc EXCEPT ![r] = Idle]
      PROVE  /\ \A q \in Runners \ {r} : proc'[q] = proc[q]
             /\ proc'[r].fence = 0 /\ proc'[r].pc \notin PushWindow
  BY <1>8, <1>p DEF Idle, PushWindow
<1>9. UNCHANGED proc /\ proc[r].pc \in CommitWindow => Stays
  OBVIOUS
<1> USE LabelsAre, <1>w
<1>10. CASE OpenSession(r) \/ EndCommand(r)
  BY <1>10, <1>p DEF OpenSession, EndCommand, CommitWindow, Process
<1>11. CASE Edit(r) \/ RecordFailure(r) \/ Clear(r) \/ Rewrite(r)
  <2>1. Goto(r, "checkpoint") \/ Goto(r, "rewrite") \/ Goto(r, "mark")
    BY <1>11 DEF Edit, RecordFailure, EditCopy, Clear, Rewrite
  <2>2. Same
    BY <2>1, <1>4 DEF CommitWindow
  <2> QED
    BY <2>2
<1>12. CASE Acquire(r)
  BY <1>12, <1>p DEF Acquire, Takes, CommitWindow, Process
<1>13. CASE AcquireRefused(r) \/ CheckpointRefused(r) \/ Mark(r)
  <2>1. Same
    BY <1>13, <1>3 DEF AcquireRefused, CheckpointRefused, Mark
  <2> QED
    BY <2>1
<1>14. CASE Release(r) \/ Crash(r)
  BY <1>14, <1>8 DEF Release, Crash
<1>15. CASE Pull(r)
  <2>1. CASE Goto(r, "checkpoint") \/ Goto(r, "release") \/ Resume(r)
    <3>1. Same
      BY <2>1, <1>3, <1>4 DEF CommitWindow
    <3> QED
      BY <3>1
  <2>2. CASE proc' = [proc EXCEPT ![r].pc = "parts", ![r].base = head,
                                  ![r].idx = 0, ![r].good = TRUE]
    BY <2>2, <1>p DEF CommitWindow, Process
  <2> QED
    BY <1>15, <2>1, <2>2 DEF Pull
<1>16. CASE ReadPart(r)
  <2> DEFINE p == proc[r]
             wanted == [gen |-> p.base.gen, idx |-> p.idx, of |-> p.base.sha]
             ok == p.good /\ wanted \in Stored(p.base.gen, p.idx)
             next == [p EXCEPT !.good = ok, !.idx = @ + 1]
             again == [p EXCEPT !.pc = "pull", !.tries = @ + 1]
  <2>1. \/ proc' = [proc EXCEPT ![r] = next]
        \/ proc' = [proc EXCEPT ![r] = Pulled(next, r)]
        \/ proc' = [proc EXCEPT ![r] = again]
        \/ Raise(r)
    BY <1>16, <1>p, Zenon DEF ReadPart
  <2>2. p.pc = "parts"
    BY <1>16 DEF ReadPart, At
  <2> HIDE DEF ok
  <2>3. next.fence = p.fence /\ next.pc = "parts"
    BY <2>2, <1>p DEF Process
  <2>4. again.fence = p.fence /\ again.pc = "pull"
    BY <1>p DEF Process
  <2>n. next = [next EXCEPT !.pc = "parts"]
    BY <2>3, <1>p DEF Process
  <2>5. Pulled(next, r).fence = p.fence /\ Pulled(next, r).pc \notin PushWindow
    BY <2>3, <1>p DEF Pulled, Raised, CommitWindow, Process
  <2>6. Same
    BY <2>1, <2>3, <2>4, <2>5, <1>0, <1>3 DEF CommitWindow
  <2> QED
    BY <2>6
<1>17. CASE Checkpoint(r)
  <2>1. CASE Goto(r, "head")
    BY <1>17, <2>1, <1>p DEF Checkpoint, Goto, CommitWindow, Process
  <2>2. CASE Resume(r)
    <3>1. Same
      BY <2>2, <1>3
    <3> QED
      BY <3>1
  <2> QED
    BY <1>17, <2>1, <2>2 DEF Checkpoint
<1>18. CASE ReadHead(r)
  <2>1. CASE RaiseLost(r) \/ Raise(r) \/ Resume(r)
    <3>1. Same
      BY <2>1, <1>3
    <3> QED
      BY <3>1
  <2>2. CASE /\ head.fence <= proc[r].fence
             /\ proc' = [proc EXCEPT ![r].pc = "chunk", ![r].base = head,
                                     ![r].idx = 0]
    BY <1>18, <2>2, <1>p DEF ReadHead, At, Process, CommitWindow
  <2> QED
    BY <1>18, <2>1, <2>2 DEF ReadHead, Pushed
<1>19. CASE CreateChunk(r) \/ ReplaceChunk(r) \/ RecreateChunk(r)
             \/ FenceCommit(r) \/ CommitHead(r)
  <2>1. proc[r].pc \in CommitWindow
    BY <1>19 DEF CreateChunk, ReplaceChunk, RecreateChunk, FenceCommit, CommitHead,
                 At, CommitWindow
  <2>2. \/ Goto(r, "replace") \/ Goto(r, "recreate") \/ Goto(r, "commit")
        \/ Goto(r, "forget") \/ ChunkWritten(r) \/ Raise(r) \/ RaiseLost(r)
    BY <1>19 DEF CreateChunk, ReplaceChunk, RecreateChunk, FenceCommit, CommitHead
  <2>3. Same \/ Stays
    BY <2>1, <2>2, <1>3, <1>4, <1>5, <1>6 DEF CommitWindow
  <2> QED
    BY <2>3
<1>20. CASE ForgetChunk(r) \/ SweepStray(r)
  <2>1. proc[r].pc \notin PushWindow
    BY <1>20 DEF ForgetChunk, SweepStray, At, CommitWindow
  <2>2. CASE proc' = [proc EXCEPT ![r].pc = "sweep",
                                  ![r].idx = ChunkCount[copy[r]]]
    BY <2>2, <1>p DEF Process, CommitWindow
  <2>3. CASE proc' = [proc EXCEPT ![r].idx = @ + 1] \/ Resume(r)
    <3>1. Same
      BY <2>1, <2>3, <1>3, <1>7
    <3> QED
      BY <3>1
  <2> QED
    BY <1>20, <2>2, <2>3 DEF ForgetChunk, SweepStray, Pushed
<1>21. CASE Beat(r) \/ BeatTimedOut(r)
  <2>1. CASE UNCHANGED proc
    BY <2>1
  <2>2. CASE proc' = [proc EXCEPT ![r].lost = TRUE]
    BY <2>2, <1>p DEF Process
  <2> QED
    BY <1>21, <2>1, <2>2 DEF Beat, BeatTimedOut
<1>22. CASE Unavailable(r)
  <2>1. CASE Raise(r)
    <3>1. Same
      BY <2>1, <1>3
    <3> QED
      BY <3>1
  <2>2. CASE proc' = [proc EXCEPT ![r].idx = @ + 1] /\ proc[r].pc \notin PushWindow
    <3>1. Same
      BY <2>2, <1>7
    <3> QED
      BY <3>1
  <2>3. CASE proc' = [proc EXCEPT ![r] = Idle]
    BY <2>3, <1>8
  <2> QED
    BY <1>22, <2>1, <2>2, <2>3 DEF Unavailable, At, CommitWindow
<1>23. CASE ReplyLost(r)
  <2>1. Same
    BY <1>23, <1>3 DEF ReplyLost
  <2> QED
    BY <2>1
<1> QED
  BY <1>10, <1>11, <1>12, <1>13, <1>14, <1>15, <1>16, <1>17, <1>18, <1>19,
     <1>20, <1>21, <1>22, <1>23 DEF Action, Step

\* What an action does to the Lease and to the head.
LEMMA ClusterMoves ==
    ASSUME TypeOK, NEW r \in Runners, Action(r)
    PROVE  /\ \/ lease' = lease
              \/ Ours(r) /\ lease' = Renewed
              \/ Takes(r)
              \/ lease' = LeaseFreedBy(r) /\ proc' = [proc EXCEPT ![r] = Idle]
           /\ \/ head' = head
              \/ /\ proc[r].pc = "commit" /\ head = proc[r].base
                 /\ head' = NewHead(r) /\ lease' = lease
<1> USE DEF Action, Step, At, cluster, Takes, Fenced
<1>1. CASE OpenSession(r) \/ Edit(r) \/ RecordFailure(r) \/ EndCommand(r)
  BY <1>1 DEF OpenSession, Edit, RecordFailure, EditCopy, EndCommand
<1>2. CASE Acquire(r) \/ AcquireRefused(r) \/ Release(r)
  BY <1>2 DEF Acquire, AcquireRefused, Release
<1>3. CASE Pull(r) \/ ReadPart(r) \/ Clear(r) \/ Rewrite(r) \/ Mark(r)
  BY <1>3 DEF Pull, ReadPart, Clear, Rewrite, Mark
<1>4. CASE Checkpoint(r) \/ CheckpointRefused(r)
  BY <1>4 DEF Checkpoint, CheckpointRefused
<1>5. CASE ReadHead(r) \/ CreateChunk(r) \/ ReplaceChunk(r) \/ RecreateChunk(r)
             \/ FenceCommit(r) \/ CommitHead(r) \/ ForgetChunk(r) \/ SweepStray(r)
  BY <1>5 DEF ReadHead, CreateChunk, ReplaceChunk, RecreateChunk, FenceCommit,
              CommitHead, ForgetChunk, SweepStray, Pushed
<1>6. CASE Beat(r) \/ BeatTimedOut(r)
  BY <1>6 DEF Beat, BeatTimedOut
<1>7. CASE Unavailable(r) \/ ReplyLost(r) \/ Crash(r)
  BY <1>7 DEF Unavailable, ReplyLost, Crash
<1> QED
  BY <1>1, <1>2, <1>3, <1>4, <1>5, <1>6, <1>7

\* The Leases and the head that the operations write, field by field.
LEMMA LeaseOps ==
    ASSUME TypeOK, NEW r \in Runners
    PROVE  /\ LeaseTakenBy(r).trans = lease.trans + 1
           /\ LeaseTakenBy(r).holder = r
           /\ Renewed.trans = lease.trans /\ Renewed.holder = lease.holder
           /\ Renewed.live = TRUE
           /\ LeaseFreedBy(r).trans = lease.trans
           /\ lease.holder # r => LeaseFreedBy(r) = lease
           /\ NewHead(r).fence = proc[r].fence
           /\ NewHead(r).gen = proc[r].base.gen + 1
           /\ lease.trans \in Nat /\ head.fence \in Nat
           /\ \A q \in Runners : proc[q].fence \in Nat
  BY ProcFields
     DEF TypeOK, LeaseTakenBy, Renewed, LeaseFreedBy, NewHead, NewGen

\* What holds of fences and of pushes, whatever the timing.
PushInv ==
    \A r \in Runners : proc[r].pc \in CommitWindow =>
        proc[r].base.fence <= proc[r].fence

\* Every step keeps fences unique and reached by the Lease.
LEMMA FenceStep ==
    TypeOK /\ FencesUnique /\ [Next]_vars => FencesUnique'
<1> SUFFICES ASSUME TypeOK, FencesUnique, [Next]_vars PROVE FencesUnique'
  OBVIOUS
<1>1. CASE UNCHANGED vars
  BY <1>1 DEF vars, FencesUnique
<1>2. CASE Lapse
  BY <1>2 DEF Lapse, FencesUnique, TypeOK
<1>3. ASSUME NEW r \in Runners, Action(r) PROVE FencesUnique'
  <2>0. /\ lease.trans \in Nat /\ head.fence \in Nat
        /\ \A q \in Runners : proc[q].fence \in Nat /\ proc[q].fence <= lease.trans
        /\ head.fence <= lease.trans
    BY LeaseOps DEF FencesUnique
  <2>1. \/ lease'.trans = lease.trans
        \/ lease'.trans = lease.trans + 1 /\ Takes(r)
    <3>1. CASE Takes(r)
      BY <3>1, LeaseOps DEF Takes
    <3>2. CASE lease' \in {lease, Renewed, LeaseFreedBy(r)}
      BY <3>2, LeaseOps
    <3> QED
      BY <1>3, <3>1, <3>2, ClusterMoves
  <2>2. head'.fence <= lease'.trans
    <3>1. head'.fence <= lease.trans /\ head'.fence \in Nat
      <4>1. CASE head' = head
        BY <2>0, <4>1
      <4>2. CASE head' = NewHead(r)
        BY <2>0, <4>2, LeaseOps
      <4> QED
        BY <1>3, <4>1, <4>2, ClusterMoves
    <3> QED
      BY <2>0, <2>1, <3>1
  <2>3. \A q \in Runners \ {r} : proc'[q] = proc[q]
    BY <1>3, Moves
  <2>4. CASE proc'[r].fence \in {proc[r].fence, 0}
    BY <2>0, <2>1, <2>2, <2>3, <2>4 DEF FencesUnique
  <2>5. CASE Takes(r) /\ proc'[r].fence = lease.trans + 1
    <3>1. lease'.trans = lease.trans + 1
      BY <2>5, LeaseOps DEF Takes
    <3>2. \A q \in Runners \ {r} : proc'[q].fence < proc'[r].fence
      BY <2>0, <2>3, <2>5
    <3>3. \A q \in Runners : proc'[q].fence <= lease'.trans
      BY <2>0, <2>3, <2>5, <3>1
    <3> QED
      BY <2>0, <2>2, <2>3, <3>2, <3>3 DEF FencesUnique
  <2> QED
    BY <1>3, <2>4, <2>5, Moves
<1> QED
  BY <1>1, <1>2, <1>3 DEF Next

\* Every step keeps the base of a push no newer than its fence.
LEMMA PushStep == TypeOK /\ PushInv /\ [Next]_vars => PushInv'
<1> SUFFICES ASSUME TypeOK, PushInv, [Next]_vars PROVE PushInv'
  OBVIOUS
<1>1. CASE UNCHANGED vars \/ Lapse
  BY <1>1 DEF vars, Lapse, PushInv
<1>2. ASSUME NEW r \in Runners, Action(r) PROVE PushInv'
  <2>1. PushWindow = CommitWindow \cup {"head"}
    BY DEF PushWindow, CommitWindow
  <2> QED
    BY <1>2, <2>1, Moves, LeaseOps DEF PushInv
<1> QED
  BY <1>1, <1>2 DEF Next

\* A transition count is handed out once, and never exceeds the Lease's.
THEOREM FencesAreUnique == Spec => []FencesUnique
<1>1. Init => FencesUnique
  BY DEF Init, FencesUnique, Idle, NoHead
<1> QED
  BY <1>1, FenceStep, TypeCorrect, PTL DEF Spec

\* The head's generation and fence never go back, however slow a writer is.
THEOREM HeadMonotone == Spec => HeadNeverGoesBack
<1>1. Init => PushInv
  BY DEF Init, PushInv, Idle, CommitWindow
<1>2. TypeOK /\ PushInv /\ [Next]_vars
        => [head' # head => head'.gen = head.gen + 1 /\ head'.fence >= head.fence]_vars
  <2> SUFFICES ASSUME TypeOK, PushInv, Next, head' # head
               PROVE  head'.gen = head.gen + 1 /\ head'.fence >= head.fence
    BY DEF vars
  <2>1. PICK r \in Runners : Action(r)
    BY DEF Next, Lapse
  <2>2. proc[r].pc = "commit" /\ head = proc[r].base /\ head' = NewHead(r)
    BY <2>1, ClusterMoves
  <2> QED
    BY <2>2, LeaseOps DEF PushInv, CommitWindow
<1> QED
  BY <1>1, <1>2, PushStep, TypeCorrect, PTL DEF Spec, HeadNeverGoesBack

-----------------------------------------------------------------------------
(* The lock, when every push ends before its lease lapses.                 *)

\* A runner inside a push holds a lease that nobody may take.
LockInv ==
    \A r \in Runners : proc[r].pc \in PushWindow => Ours(r) /\ lease.live

\* Every step keeps a runner inside a push on a lease it holds.
LEMMA LockStep ==
    ASSUME Timely = TRUE
    PROVE  TypeOK /\ LockInv /\ [Next]_vars => LockInv'
<1> SUFFICES ASSUME TypeOK, LockInv, [Next]_vars PROVE LockInv'
  OBVIOUS
<1>1. CASE UNCHANGED vars
  BY <1>1 DEF vars, LockInv, Ours
<1>2. CASE Lapse
  BY <1>2 DEF Lapse, LockInv, Ours
<1>3. ASSUME NEW r \in Runners, Action(r), NEW q \in Runners,
             proc'[q].pc \in PushWindow
      PROVE  Ours(q)' /\ lease'.live
  <2>1. proc'[q].fence = proc[q].fence
    BY <1>3, Moves
  <2>2. CASE proc[q].pc \in PushWindow
    <3>1. Ours(q) /\ lease.live /\ Held
      BY <2>2, StoreAssumption DEF LockInv, Ours, Held
    <3>2. CASE lease' = lease \/ lease' = Renewed
      BY <2>1, <3>1, <3>2, LeaseOps DEF Ours
    <3>3. CASE Takes(r)
      BY <3>1, <3>3 DEF Takes
    <3>4. CASE lease' = LeaseFreedBy(r) /\ proc' = [proc EXCEPT ![r] = Idle]
      <4>1. q # r
        BY <1>3, <3>4 DEF TypeOK, Idle, PushWindow
      <4> QED
        BY <2>1, <3>1, <3>4, <4>1, LeaseOps DEF Ours
    <3> QED
      BY <1>3, <3>2, <3>3, <3>4, ClusterMoves
  <2>3. CASE proc[q].pc \notin PushWindow
    <3>1. q = r /\ Fenced(r) /\ lease' = Renewed
      BY <1>3, <2>3, Moves
    <3> QED
      BY <2>1, <3>1, LeaseOps DEF Ours, Fenced
  <2> QED
    BY <2>2, <2>3
<1> QED
  BY <1>1, <1>2, <1>3 DEF Next, LockInv

\* With timely pushes, only the runner that the Lease names commits.
THEOREM HolderCommits ==
    ASSUME Timely = TRUE PROVE Spec => OnlyHolderCommits
<1>1. Init => LockInv
  BY DEF Init, LockInv, Idle, PushWindow
<1>2. TypeOK /\ LockInv /\ [Next]_vars
        => [head' # head => /\ lease.holder # NoRunner
                            /\ lease.trans = head'.fence
                            /\ Ours(lease.holder)]_vars
  <2> SUFFICES ASSUME TypeOK, LockInv, Next, head' # head
               PROVE  /\ lease.holder # NoRunner
                      /\ lease.trans = head'.fence
                      /\ Ours(lease.holder)
    BY DEF vars
  <2>1. PICK r \in Runners : Action(r)
    BY DEF Next, Lapse
  <2>2. proc[r].pc = "commit" /\ head' = NewHead(r)
    BY <2>1, ClusterMoves
  <2>3. Ours(r)
    BY <2>2 DEF LockInv, PushWindow
  <2> QED
    BY <2>2, <2>3, LeaseOps, StoreAssumption DEF Ours
<1> QED
  BY <1>1, <1>2, LockStep, TypeCorrect, PTL DEF Spec, OnlyHolderCommits

=============================================================================
