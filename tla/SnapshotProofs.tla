--------------------------- MODULE SnapshotProofs ---------------------------
(***************************************************************************)
(* Theorems about what the shared state holds (StateStore): a generation   *)
(* can be read at any moment, nothing a command was told of is lost, and   *)
(* the store implements ReleaseState.  They hold when no push outlives its *)
(* lease; without that, a live generation's chunks can be replaced.        *)
(***************************************************************************)
EXTENDS StateStoreProofs

USE DEF Lease, Manifest, Marker, Chunk

-----------------------------------------------------------------------------
(* The inductive invariant.                                                *)

Pulling == {"parts", "clear", "rewrite", "mark"}
Synced == {"work", "failed", "checkpoint"} \cup PushWindow \cup AfterCommit

\* The first n chunks of a snapshot are stored, and under their names nothing else.
Piece(gen, i, sha) == [gen |-> gen, idx |-> i, of |-> sha]
Whole(cs, gen, n, sha) ==
    /\ \A i \in Nat : i < n => Piece(gen, i, sha) \in cs
    /\ \A c \in cs : c.gen = gen /\ c.idx < n => c.of = sha

\* The head's generation is whole and has every edit that a command was told of.
HeadInv ==
    /\ head.gen = 0 => head.n = 0 /\ head.sha = {}
    /\ head.gen # 0 => head.n # 0
    /\ Whole(chunks, head.gen, head.n, head.sha)
    /\ acked \subseteq head.sha

\* How many chunks of its generation a writer has stored.
Ready(r) ==
    IF proc[r].pc \in {"fence", "commit"} THEN ChunkCount[copy[r]] ELSE proc[r].idx

\* A writer builds the generation after the head's, alone; after its commit it
\* deletes chunks that the head does not name, whoever wrote since.
Writer(r) ==
    /\ proc[r].pc \in CommitWindow =>
          proc[r].base = head /\ Whole(chunks, NewGen(r), Ready(r), copy[r])
    /\ proc[r].pc \in {"chunk", "replace", "recreate"} =>
          proc[r].idx < ChunkCount[copy[r]]
    /\ proc[r].pc \in AfterCommit =>
          /\ NewGen(r) <= head.gen
          /\ NewGen(r) = head.gen => head.n = ChunkCount[copy[r]]
          /\ copy[r] \subseteq head.sha
    /\ proc[r].pc = "sweep" => proc[r].idx >= ChunkCount[copy[r]]

\* A reader finds of its manifest's chunks the right ones or none; with the lock
\* the manifest is still the head's.
Reader(r) ==
    LET base == proc[r].base IN
    /\ proc[r].pc \in PullLabels \cup {"acquire"} => proc[r].phase # "open"
    /\ proc[r].pc \in Pulling =>
          /\ mark[r].sha \subseteq base.sha /\ base.sha \subseteq head.sha
          /\ Ours(r) => base = head
    /\ proc[r].pc = "parts" =>
          /\ proc[r].good /\ proc[r].idx < base.n
          /\ base.gen <= head.gen /\ (base.gen = head.gen => base = head)
          /\ \A c \in chunks : c.gen = base.gen /\ c.idx < base.n => c.of = base.sha

\* A working copy has what its marker names, but while unpack() rewrites it; the
\* lock's owner, once it pulled, has what the head has.
Copied(r) ==
    /\ mark[r].sha \subseteq head.sha
    /\ proc[r].pc # "rewrite" => mark[r].sha \subseteq copy[r]
    /\ proc[r].pc = "mark" => proc[r].base.sha \subseteq copy[r]
    /\ Ours(r) /\ proc[r].pc \in Synced => head.sha \subseteq copy[r]

ContentInv == HeadInv /\ \A r \in Runners : Writer(r) /\ Reader(r) /\ Copied(r)

-----------------------------------------------------------------------------
(* Chunks.                                                                 *)

\* A chunk of another generation changes nothing of a whole one.
LEMMA WholeBeside ==
    ASSUME NEW cs, NEW gen, NEW n, NEW sha, Whole(cs, gen, n, sha),
           NEW new, new.gen # gen
    PROVE  Whole(cs \cup {new}, gen, n, sha)
  BY DEF Whole

\* The next chunk of a generation, where there was none.
LEMMA WholeNext ==
    ASSUME NEW cs \in SUBSET Chunk, NEW gen \in Nat, NEW n \in Nat, NEW sha \in Snapshots,
           Whole(cs, gen, n, sha), \A c \in cs : ~(c.gen = gen /\ c.idx = n)
    PROVE  Whole(cs \cup {Piece(gen, n, sha)}, gen, n + 1, sha)
<1> DEFINE new == Piece(gen, n, sha)
<1>1. new.gen = gen /\ new.idx = n /\ new.of = sha
  BY DEF Piece
<1>2. ASSUME NEW i \in Nat, i < n + 1 PROVE Piece(gen, i, sha) \in cs \cup {new}
  BY <1>2 DEF Whole
<1>3. ASSUME NEW c \in cs, c.gen = gen, c.idx < n + 1 PROVE c.of = sha
  <2>1. c.idx \in Nat
    OBVIOUS
  <2> QED
    BY <1>3, <2>1 DEF Whole
<1> HIDE DEF new
<1> QED
  BY <1>1, <1>2, <1>3 DEF Whole, new

\* Chunks of another name can be deleted.
LEMMA WholeWithout ==
    ASSUME NEW cs \in SUBSET Chunk, NEW gen \in Nat, NEW n \in Nat, NEW sha \in Snapshots,
           Whole(cs, gen, n, sha), NEW g \in Nat, NEW i \in Nat, g # gen \/ i >= n
    PROVE  Whole(cs \ {c \in cs : c.gen = g /\ c.idx = i}, gen, n, sha)
<1>1. ASSUME NEW j \in Nat, j < n
      PROVE  Piece(gen, j, sha) \in cs \ {c \in cs : c.gen = g /\ c.idx = i}
  <2>1. Piece(gen, j, sha).gen = gen /\ Piece(gen, j, sha).idx = j
    BY DEF Piece
  <2>2. Piece(gen, j, sha) \in cs
    BY <1>1 DEF Whole
  <2> QED
    BY <1>1, <2>1, <2>2
<1> QED
  BY <1>1 DEF Whole

\* None of no chunks is missing, nor wrong.
LEMMA WholeNone ==
    ASSUME NEW cs \in SUBSET Chunk, NEW gen, NEW sha PROVE Whole(cs, gen, 0, sha)
  BY DEF Whole

-----------------------------------------------------------------------------
(* What each action does, field by field.                                  *)

\* Whatever a runner does, the other runners' processes and files stay.
Alone(r) ==
    \A q \in Runners \ {r} :
        proc'[q] = proc[q] /\ copy'[q] = copy[q] /\ mark'[q] = mark[q]

Others(r) == \A q \in Runners \ {r} : proc'[q] = proc[q]

\* What Goto, Raise, Resume and the end of a process do to its fields.
LEMMA ProcMoves ==
    ASSUME TypeOK, NEW r \in Runners
    PROVE  /\ \A l : Goto(r, l) =>
                 /\ Others(r) /\ proc'[r].pc = l /\ proc'[r].phase = proc[r].phase
                 /\ proc'[r].base = proc[r].base /\ proc'[r].idx = proc[r].idx
                 /\ proc'[r].good = proc[r].good
           /\ Raise(r) \/ RaiseLost(r) =>
                 /\ Others(r) /\ proc'[r].phase = proc[r].phase
                 /\ proc'[r].pc = IF proc[r].phase = "open" THEN "failed" ELSE "release"
           /\ Resume(r) =>
                 /\ Others(r) /\ proc'[r].pc \in {"release", "work"}
           /\ proc' = [proc EXCEPT ![r] = Idle] => Others(r) /\ proc'[r].pc = "idle"
<1>p. proc \in [Runners -> Process] /\ proc[r] \in Process
  BY DEF TypeOK
<1>1. ASSUME NEW l, Goto(r, l)
      PROVE  /\ Others(r) /\ proc'[r].pc = l /\ proc'[r].phase = proc[r].phase
             /\ proc'[r].base = proc[r].base /\ proc'[r].idx = proc[r].idx
             /\ proc'[r].good = proc[r].good
  BY <1>1, <1>p DEF Goto, Others, Process
<1>2. ASSUME Raise(r) \/ RaiseLost(r)
      PROVE  /\ Others(r) /\ proc'[r].phase = proc[r].phase
             /\ proc'[r].pc = IF proc[r].phase = "open" THEN "failed" ELSE "release"
  <2>1. PICK p \in {proc[r], [proc[r] EXCEPT !.lost = TRUE]} :
           proc' = [proc EXCEPT ![r] = Raised(p)]
    BY <1>2 DEF Raise, RaiseLost
  <2>2. p \in Process /\ p.phase = proc[r].phase
    BY <1>p DEF Process
  <2>3. /\ Raised(p).phase = p.phase
        /\ Raised(p).pc = IF p.phase = "open" THEN "failed" ELSE "release"
    BY <2>2 DEF Raised, Process
  <2> QED
    BY <1>p, <2>1, <2>2, <2>3 DEF Others
<1>3. ASSUME Resume(r) PROVE Others(r) /\ proc'[r].pc \in {"release", "work"}
  <2>1. Resumed(proc[r]).pc \in {"release", "work"}
    BY <1>p DEF Resumed, Process
  <2> QED
    BY <1>3, <1>p, <2>1 DEF Resume, Others
<1>4. ASSUME proc' = [proc EXCEPT ![r] = Idle] PROVE Others(r) /\ proc'[r].pc = "idle"
  BY <1>4, <1>p DEF Idle, Others
<1> QED
  BY <1>1, <1>2, <1>3, <1>4

\* A step within the local code: nothing is written, the process goes from one
\* label to another.  Fields are those that the invariant speaks of.
Same(r) ==
    /\ proc'[r].phase = proc[r].phase /\ proc'[r].base = proc[r].base
    /\ proc'[r].idx = proc[r].idx /\ proc'[r].good = proc[r].good

\* Leaving an operation, or the session.
Leaves(r) ==
    \/ proc'[r].pc = "idle" /\ proc[r].pc # "rewrite"
    \/ proc'[r].pc = "acquire" /\ proc[r].pc = "idle" /\ proc'[r].phase # "open"
    \/ /\ proc'[r].pc = "pull" /\ proc'[r].phase # "open"
       /\ proc[r].pc \in {"idle"}
    \/ /\ proc'[r].pc = "pull" /\ proc'[r].phase = proc[r].phase
       /\ proc[r].pc \in {"acquire", "parts"}
    \/ /\ proc'[r].pc \in {"failed", "release"}
       /\ proc'[r].pc = IF proc[r].phase = "open" THEN "failed" ELSE "release"
       /\ proc[r].pc \in Labels \ {"idle", "rewrite", "clear", "mark", "work", "failed",
                                   "release"}
    \/ proc'[r].pc = "release" /\ proc[r].pc = "pull" /\ head.gen = 0
    \/ /\ proc'[r].pc \in {"work", "release"}
       /\ proc[r].pc = "checkpoint" \/ (proc[r].pc = "pull" /\ head.gen = 0)

\* Inside a session.
Opens(r) ==
    \/ /\ proc'[r].pc = "checkpoint"
       /\ \/ proc[r].pc \in {"work", "failed"}
          \/ proc[r].pc = "pull" /\ head.gen = 0
          \/ proc[r].pc = "parts" /\ mark[r].sha = proc[r].base.sha
    \/ /\ proc[r].pc = "pull" /\ proc'[r].pc = "parts" /\ head.gen # 0
       /\ proc'[r].base = head /\ proc'[r].idx = 0 /\ proc'[r].good
       /\ proc'[r].phase = proc[r].phase
    \/ /\ proc[r].pc = "parts" /\ proc'[r].pc = "parts"
       /\ proc'[r].base = proc[r].base /\ proc'[r].phase = proc[r].phase
       /\ proc'[r].idx = proc[r].idx + 1 /\ proc[r].idx + 1 < proc[r].base.n
       /\ Stored(proc[r].base.gen, proc[r].idx) # {}
       /\ proc'[r].good <=>
             proc[r].good /\ Piece(proc[r].base.gen, proc[r].idx, proc[r].base.sha)
                                 \in Stored(proc[r].base.gen, proc[r].idx)
    \/ /\ proc[r].pc = "parts" /\ proc'[r].base = proc[r].base
       /\ proc'[r].phase = proc[r].phase
       /\ \/ proc'[r].pc = "clear"
          \/ proc'[r].pc = "mark" /\ mark[r].sha = proc[r].base.sha
    \/ proc[r].pc = "checkpoint" /\ proc'[r].pc = "head"
    \/ /\ proc[r].pc = "head" /\ proc'[r].pc = "chunk"
       /\ proc'[r].base = head /\ proc'[r].idx = 0

\* Inside a push.
Pushes(r) ==
    \/ proc[r].pc = "chunk" /\ proc'[r].pc = "replace" /\ Same(r)
    \/ proc[r].pc = "fence" /\ proc'[r].pc = "commit" /\ Same(r)
    \/ /\ proc[r].pc = "forget" /\ proc'[r].pc = "forget"
       /\ proc'[r].base = proc[r].base
    \/ /\ proc[r].pc = "forget" /\ proc'[r].pc = "sweep"
       /\ proc'[r].base = proc[r].base /\ proc'[r].idx = ChunkCount[copy[r]]
    \/ /\ proc[r].pc = "sweep" /\ proc'[r].pc = "sweep"
       /\ proc'[r].base = proc[r].base /\ proc'[r].idx = proc[r].idx + 1
    \/ proc'[r].pc = proc[r].pc /\ Same(r)

Still(r) ==
    /\ Others(r) /\ UNCHANGED <<head, chunks, copy, mark, acked>>
    /\ Leaves(r) \/ Opens(r) \/ Pushes(r)

\* unpack(), and the marker after it.
Unpacks(r) ==
    /\ Alone(r) /\ UNCHANGED <<head, chunks, acked>>
    /\ \/ /\ proc[r].pc = "clear" /\ proc'[r].pc = "rewrite" /\ Same(r)
          /\ copy'[r] = {} /\ UNCHANGED mark
       \/ /\ proc[r].pc = "rewrite" /\ proc'[r].pc = "mark" /\ Same(r)
          /\ copy'[r] = proc[r].base.sha /\ UNCHANGED mark
       \/ /\ proc[r].pc = "mark" /\ proc'[r].pc \in {"work", "release", "failed"}
          /\ proc'[r].pc = "failed" => proc[r].phase = "open"
          /\ mark'[r].sha = proc[r].base.sha /\ UNCHANGED copy

\* The command changes its working copy.
Changes(r) ==
    /\ Alone(r) /\ UNCHANGED <<head, chunks, acked, mark>>
    /\ proc[r].pc \in {"work", "failed"} /\ proc'[r].pc = "checkpoint"
    /\ copy[r] \subseteq copy'[r]

\* A push returns to its caller.
Returns(r) ==
    /\ Alone(r) /\ UNCHANGED <<head, chunks, copy>>
    /\ proc[r].pc \in {"head", "sweep"} /\ proc'[r].pc \in {"work", "release"}
    /\ proc[r].pc = "head" => head.sha = copy[r]
    /\ mark'[r].sha = copy[r] /\ acked' = acked \cup copy[r]

\* A chunk of the next generation is written, or what was there is deleted.
Builds(r) ==
    /\ Alone(r) /\ UNCHANGED <<head, copy, mark, acked>>
    /\ \/ /\ proc[r].pc \in {"chunk", "recreate"} /\ ~Taken(r)
          /\ chunks' = chunks \cup {NewChunk(r)}
          /\ \/ proc'[r].pc \in {"failed", "release"}
             \/ /\ proc'[r].base = proc[r].base
                /\ \/ /\ proc'[r].pc = "chunk" /\ proc'[r].idx = proc[r].idx + 1
                      /\ proc[r].idx + 1 < ChunkCount[copy[r]]
                   \/ proc'[r].pc = "fence" /\ proc[r].idx + 1 >= ChunkCount[copy[r]]
       \/ /\ proc[r].pc = "replace"
          /\ chunks' = chunks \ Stored(NewGen(r), proc[r].idx)
          /\ \/ proc'[r].pc \in {"failed", "release"}
             \/ proc'[r].pc = "recreate" /\ Same(r)

\* The head is written.
Commits(r) ==
    /\ Alone(r) /\ UNCHANGED <<chunks, copy, mark, acked>>
    /\ proc[r].pc = "commit" /\ head = proc[r].base /\ head' = NewHead(r)
    /\ \/ proc'[r].pc \in {"failed", "release"}
       \/ proc'[r].pc = "forget" /\ Same(r)

\* Chunks that the head does not name are deleted.
Deletes(r) ==
    /\ Alone(r) /\ UNCHANGED <<head, copy, mark, acked>>
    /\ proc[r].pc \in AfterCommit /\ proc'[r].pc = proc[r].pc
    /\ proc'[r].base = proc[r].base /\ proc'[r].idx = proc[r].idx + 1
    /\ \/ proc[r].pc = "forget" /\ chunks' = chunks \ Stored(proc[r].base.gen, proc[r].idx)
       \/ proc[r].pc = "sweep" /\ chunks' = chunks \ Stored(NewGen(r), proc[r].idx)

\* Opening, ending and the lock: nothing of the state is written.
LEMMA SessionIs ==
    ASSUME TypeOK, "rewrite" \notin CrashPoints, NEW r \in Runners,
           \/ OpenSession(r) \/ EndCommand(r) \/ Acquire(r) \/ AcquireRefused(r)
           \/ Release(r) \/ Crash(r) \/ Beat(r) \/ BeatTimedOut(r)
           \/ Checkpoint(r) \/ CheckpointRefused(r) \/ FenceCommit(r)
    PROVE  Still(r)
<1>p. proc \in [Runners -> Process] /\ proc[r] \in Process /\ proc[r].pc \in Labels
  BY DEF TypeOK, Process
<1> USE DEF Still, Leaves, Opens, Pushes, Same, Others, At, cluster, disk, history
<1>1. CASE OpenSession(r)
  BY <1>1, <1>p DEF OpenSession, Process
<1>2. CASE EndCommand(r)
  BY <1>2, <1>p DEF EndCommand, Process
<1>3. CASE Acquire(r)
  BY <1>3, <1>p DEF Acquire, Process
<1>4. CASE AcquireRefused(r)
  BY <1>4, <1>p, ProcMoves, LabelsAre DEF AcquireRefused
<1>5. CASE Release(r) \/ Crash(r)
  BY <1>5, <1>p, ProcMoves DEF Release, Crash
<1>6. CASE Beat(r) \/ BeatTimedOut(r)
  BY <1>6, <1>p DEF Beat, BeatTimedOut, Process
<1>7. CASE Checkpoint(r)
  BY <1>7, <1>p, ProcMoves DEF Checkpoint
<1>8. CASE CheckpointRefused(r)
  BY <1>8, <1>p, ProcMoves, LabelsAre DEF CheckpointRefused
<1>9. CASE FenceCommit(r)
  BY <1>9, <1>p, ProcMoves, LabelsAre DEF FenceCommit
<1> QED
  BY <1>1, <1>2, <1>3, <1>4, <1>5, <1>6, <1>7, <1>8, <1>9

\* Reading the head's name and its chunks writes nothing.
LEMMA PullIs ==
    ASSUME TypeOK, NEW r \in Runners, Pull(r)
    PROVE  Still(r)
<1>p. proc \in [Runners -> Process] /\ proc[r] \in Process
  BY DEF TypeOK
<1> USE DEF Still, Leaves, Opens, Others, At, cluster, disk, history
<1>1. CASE /\ head.gen # 0
           /\ proc' = [proc EXCEPT ![r].pc = "parts", ![r].base = head,
                                   ![r].idx = 0, ![r].good = TRUE]
  BY Pull(r), <1>1, <1>p DEF Pull, Process
<1>2. CASE head.gen = 0
  BY Pull(r), <1>2, <1>p, ProcMoves DEF Pull
<1> QED
  BY Pull(r), <1>1, <1>2 DEF Pull

\* The last part of a pull decides what wins, and writes nothing either.
LEMMA ReadPartIs ==
    ASSUME TypeOK, NEW r \in Runners, ReadPart(r)
    PROVE  Still(r)
<1> DEFINE p == proc[r]
           wanted == [gen |-> p.base.gen, idx |-> p.idx, of |-> p.base.sha]
           ok == p.good /\ wanted \in Stored(p.base.gen, p.idx)
           next == [p EXCEPT !.good = ok, !.idx = @ + 1]
           again == [p EXCEPT !.pc = "pull", !.tries = @ + 1]
<1>p. proc \in [Runners -> Process] /\ proc[r] \in Process
  BY DEF TypeOK
<1>1. /\ \/ /\ Stored(p.base.gen, p.idx) # {} /\ p.idx + 1 < p.base.n
            /\ proc' = [proc EXCEPT ![r] = next]
         \/ proc' = [proc EXCEPT ![r] = Pulled(next, r)]
         \/ proc' = [proc EXCEPT ![r] = again]
         \/ Raise(r)
      /\ UNCHANGED <<head, chunks, copy, mark, acked>> /\ p.pc = "parts"
  BY ReadPart(r), <1>p, Zenon DEF ReadPart, At, cluster, disk, history
<1>w. wanted = Piece(p.base.gen, p.idx, p.base.sha)
  BY DEF Piece
<1>o. ok \in BOOLEAN /\ (ok <=> p.good /\ wanted \in Stored(p.base.gen, p.idx))
  OBVIOUS
<1> HIDE DEF ok, wanted
<1>2. /\ next.pc = "parts" /\ next.phase = p.phase /\ next.base = p.base
      /\ next.idx = p.idx + 1 /\ next.good = ok
      /\ \A l : [next EXCEPT !.pc = l].pc = l /\ [next EXCEPT !.pc = l].phase = p.phase
                /\ [next EXCEPT !.pc = l].base = p.base
  BY <1>1, <1>p DEF Process
<1>3. /\ Raised(next).phase = p.phase
      /\ Raised(next).pc = IF p.phase = "open" THEN "failed" ELSE "release"
  BY <1>2, <1>p DEF Raised, Process
<1>4. again.pc = "pull" /\ again.phase = p.phase
  BY <1>p DEF Process
<1>5. Ahead(r, next.base) => mark[r].sha = p.base.sha
  BY <1>2 DEF Ahead
<1> HIDE DEF next, again
<1>6. /\ Pulled(next, r).phase = p.phase
      /\ \/ Pulled(next, r).pc = IF p.phase = "open" THEN "failed" ELSE "release"
         \/ Pulled(next, r).pc = "clear" /\ Pulled(next, r).base = p.base
         \/ Pulled(next, r).pc = "checkpoint" /\ mark[r].sha = p.base.sha
         \/ /\ Pulled(next, r).pc = "mark" /\ Pulled(next, r).base = p.base
            /\ mark[r].sha = p.base.sha
  BY <1>2, <1>3, <1>5 DEF Pulled
<1> HIDE DEF p
<1>7. \A x : proc' = [proc EXCEPT ![r] = x] => proc'[r] = x /\ Others(r)
  BY <1>p DEF Others
<1> USE DEF p
<1>8. CASE /\ Stored(p.base.gen, p.idx) # {} /\ p.idx + 1 < p.base.n
           /\ proc' = [proc EXCEPT ![r] = next]
  <2>1. Opens(r)
    BY <1>1, <1>2, <1>7, <1>8, <1>o, <1>w DEF Opens
  <2> QED
    BY <1>1, <1>7, <1>8, <2>1 DEF Still
<1>9. CASE proc' = [proc EXCEPT ![r] = Pulled(next, r)]
  <2>1. Leaves(r) \/ Opens(r)
    BY <1>1, <1>6, <1>7, <1>9, LabelsAre DEF Leaves, Opens
  <2> QED
    BY <1>1, <1>7, <1>9, <2>1 DEF Still
<1>10. CASE proc' = [proc EXCEPT ![r] = again]
  <2>1. Leaves(r)
    BY <1>1, <1>4, <1>7, <1>10 DEF Leaves
  <2> QED
    BY <1>1, <1>7, <1>10, <2>1 DEF Still
<1>11. CASE Raise(r)
  <2>1. Leaves(r) /\ Others(r)
    BY <1>1, <1>11, ProcMoves, LabelsAre DEF Leaves
  <2> QED
    BY <1>1, <2>1 DEF Still
<1> QED
  BY <1>1, <1>8, <1>9, <1>10, <1>11

\* What Others leaves out of a runner's own file.
LEMMA OwnFiles ==
    ASSUME TypeOK, NEW r \in Runners, Others(r)
    PROVE  /\ UNCHANGED <<copy, mark>> => Alone(r)
           /\ \A x : copy' = [copy EXCEPT ![r] = x] /\ UNCHANGED mark =>
                 Alone(r) /\ copy'[r] = x
           /\ \A m : MarkAs(r, m) /\ UNCHANGED copy =>
                 Alone(r) /\ mark'[r].sha = m.sha
  BY DEF TypeOK, Others, Alone, MarkAs

\* unpack() and the marker touch the working copy alone.
LEMMA UnpackIs ==
    ASSUME TypeOK, NEW r \in Runners, Clear(r) \/ Rewrite(r) \/ Mark(r)
    PROVE  Unpacks(r)
<1> USE DEF Unpacks, Same, At, cluster, history
<1>1. CASE Clear(r)
  BY <1>1, ProcMoves, OwnFiles DEF Clear
<1>2. CASE Rewrite(r)
  BY <1>2, ProcMoves, OwnFiles DEF Rewrite
<1>3. CASE Mark(r)
  <2>1. /\ Others(r) /\ proc'[r].pc \in {"work", "release", "failed"}
        /\ proc'[r].pc = "failed" => proc[r].phase = "open"
    BY <1>3, ProcMoves DEF Mark
  <2> QED
    BY <1>3, <2>1, OwnFiles DEF Mark
<1> QED
  BY <1>1, <1>2, <1>3

\* An edit only adds.
LEMMA EditIs ==
    ASSUME TypeOK, NEW r \in Runners, Edit(r) \/ RecordFailure(r)
    PROVE  Changes(r)
<1>1. EditCopy(r) /\ proc[r].pc \in {"work", "failed"}
  BY DEF Edit, RecordFailure, At
<1>2. Others(r) /\ proc'[r].pc = "checkpoint"
  BY <1>1, ProcMoves DEF EditCopy
<1>3. Alone(r) /\ copy'[r] = copy[r] \cup {edits + 1}
  BY <1>1, <1>2, OwnFiles DEF EditCopy
<1> QED
  BY <1>1, <1>2, <1>3 DEF Changes, EditCopy, cluster

\* A push that returned: the marker and the acknowledgement are its manifest's.
LEMMA PushedIs ==
    ASSUME TypeOK, NEW r \in Runners, NEW m, Pushed(r, m), UNCHANGED chunks,
           m.sha = copy[r], proc[r].pc \in {"head", "sweep"},
           proc[r].pc = "head" => head.sha = copy[r]
    PROVE  Returns(r)
<1>1. Others(r) /\ proc'[r].pc \in {"release", "work"}
  BY ProcMoves DEF Pushed
<1>2. Alone(r) /\ mark'[r].sha = copy[r]
  BY <1>1, OwnFiles DEF Pushed
<1> QED
  BY <1>1, <1>2 DEF Returns, Pushed

\* push() reads the head: it starts a generation, returns or raises.
LEMMA ReadHeadIs ==
    ASSUME TypeOK, NEW r \in Runners, ReadHead(r)
    PROVE  Still(r) \/ Returns(r)
<1>p. proc \in [Runners -> Process] /\ proc[r] \in Process /\ proc[r].pc = "head"
  BY DEF TypeOK, ReadHead, At
<1>1. CASE Pushed(r, head) /\ head.sha = copy[r] /\ UNCHANGED chunks
  BY <1>1, <1>p, PushedIs
<1>2. CASE (Raise(r) \/ RaiseLost(r)) /\ UNCHANGED <<cluster, disk, history>>
  BY <1>2, <1>p, ProcMoves, LabelsAre DEF Still, Leaves, cluster, disk, history
<1>3. CASE /\ proc' = [proc EXCEPT ![r].pc = "chunk", ![r].base = head, ![r].idx = 0]
           /\ ChunkCount[copy[r]] <= MaxChunks
           /\ UNCHANGED <<cluster, disk, history>>
  BY <1>3, <1>p DEF Still, Opens, Others, Process, cluster, disk, history
<1> QED
  BY <1>1, <1>2, <1>3, ProcFields, StoreAssumption, ReadHead(r) DEF ReadHead

\* Storing the chunk moves the writer to the next one, or to the fence.
LEMMA ChunkWrittenIs ==
    ASSUME TypeOK, NEW r \in Runners, ChunkWritten(r)
    PROVE  /\ Others(r) /\ proc'[r].base = proc[r].base
           /\ \/ /\ proc'[r].pc = "chunk" /\ proc'[r].idx = proc[r].idx + 1
                 /\ proc[r].idx + 1 < ChunkCount[copy[r]]
              \/ proc'[r].pc = "fence" /\ proc[r].idx + 1 >= ChunkCount[copy[r]]
  BY ProcFields DEF TypeOK, ChunkWritten, Others, Process

\* The chunks of the next generation: written, replaced, or in the way.
LEMMA BuildIs ==
    ASSUME TypeOK, NEW r \in Runners,
           CreateChunk(r) \/ ReplaceChunk(r) \/ RecreateChunk(r)
    PROVE  Still(r) \/ Builds(r)
<1> USE DEF At, cluster, disk, history
<1>1. CASE CreateChunk(r)
  <2>1. CASE Taken(r)
    BY <1>1, <2>1, ProcMoves DEF CreateChunk, Still, Pushes, Same
  <2>2. CASE ~Taken(r)
    BY <1>1, <2>2, ChunkWrittenIs, OwnFiles DEF CreateChunk, Builds
  <2> QED
    BY <2>1, <2>2
<1>2. CASE ReplaceChunk(r)
  BY <1>2, ProcMoves, OwnFiles DEF ReplaceChunk, Builds, Same
<1>3. CASE RecreateChunk(r)
  <2>1. CASE Taken(r)
    BY <1>3, <2>1, ProcMoves, LabelsAre DEF RecreateChunk, Still, Leaves
  <2>2. CASE ~Taken(r)
    BY <1>3, <2>2, ChunkWrittenIs, OwnFiles DEF RecreateChunk, Builds
  <2> QED
    BY <2>1, <2>2
<1> QED
  BY <1>1, <1>2, <1>3

\* The head is written, or another writer was first.
LEMMA CommitIs ==
    ASSUME TypeOK, NEW r \in Runners, CommitHead(r)
    PROVE  Still(r) \/ Commits(r)
<1> USE DEF At, cluster, disk, history
<1>1. CASE head = proc[r].base
  BY <1>1, CommitHead(r), ProcMoves, OwnFiles DEF CommitHead, Commits, Same
<1>2. CASE head # proc[r].base
  BY <1>2, CommitHead(r), ProcMoves, LabelsAre DEF CommitHead, Still, Leaves
<1> QED
  BY <1>1, <1>2

\* One chunk further.
LEMMA IdxMoves ==
    ASSUME TypeOK, NEW r \in Runners, proc' = [proc EXCEPT ![r].idx = @ + 1]
    PROVE  /\ Others(r) /\ proc'[r].pc = proc[r].pc /\ proc'[r].base = proc[r].base
           /\ proc'[r].idx = proc[r].idx + 1 /\ proc'[r].phase = proc[r].phase
  BY DEF TypeOK, Others, Process

\* After the commit the chunks of the old generation and strays go.
LEMMA CleanIs ==
    ASSUME TypeOK, NEW r \in Runners, ForgetChunk(r) \/ SweepStray(r)
    PROVE  Still(r) \/ Deletes(r) \/ Returns(r)
<1>p. proc \in [Runners -> Process] /\ proc[r] \in Process
  BY DEF TypeOK
<1> USE DEF At, AfterCommit, cluster, disk, history
<1>1. CASE ForgetChunk(r)
  <2>1. CASE proc[r].idx < proc[r].base.n
    BY <1>1, <2>1, IdxMoves, OwnFiles DEF ForgetChunk, Deletes
  <2>2. CASE ~(proc[r].idx < proc[r].base.n)
    BY <1>1, <2>2, <1>p DEF ForgetChunk, Still, Pushes, Others, Process
  <2> QED
    BY <2>1, <2>2
<1>2. CASE SweepStray(r)
  <2>1. CASE Pushed(r, NewHead(r)) /\ UNCHANGED chunks
    <3>1. NewHead(r).sha = copy[r]
      BY DEF NewHead
    <3>2. proc[r].pc = "sweep"
      BY <1>2 DEF SweepStray
    <3> QED
      BY <2>1, <3>1, <3>2, PushedIs
  <2>2. CASE /\ chunks' = chunks \ Stored(NewGen(r), proc[r].idx)
             /\ proc' = [proc EXCEPT ![r].idx = @ + 1]
             /\ UNCHANGED <<lease, head, disk, history>>
    BY <1>2, <2>2, IdxMoves, OwnFiles DEF SweepStray, Deletes
  <2> QED
    BY <1>2, <2>1, <2>2 DEF SweepStray
<1> QED
  BY <1>1, <1>2

\* A failed request writes nothing.
LEMMA UnavailableIs ==
    ASSUME TypeOK, NEW r \in Runners, Unavailable(r)
    PROVE  Still(r)
<1>1. UNCHANGED <<head, chunks, copy, mark, acked>>
  BY DEF Unavailable, Fault, cluster, disk
<1> USE DEF At
<1>2. CASE /\ proc[r].pc \in {"acquire", "pull", "parts", "checkpoint"}
                               \cup PushWindow \cup {"sweep"}
           /\ Raise(r)
  BY <1>1, <1>2, ProcMoves, LabelsAre DEF Still, Leaves, PushWindow
<1>3. CASE proc[r].pc \in AfterCommit /\ proc' = [proc EXCEPT ![r].idx = @ + 1]
  BY <1>1, <1>3, IdxMoves DEF Still, Pushes, AfterCommit
<1>4. CASE At(r, "release") /\ proc' = [proc EXCEPT ![r] = Idle]
  BY <1>1, <1>4, ProcMoves DEF Still, Leaves
<1> QED
  BY <1>2, <1>3, <1>4, Unavailable(r) DEF Unavailable, AfterCommit

\* A request whose reply was lost did what it does, and its caller raises.
LEMMA ReplyLostIs ==
    ASSUME TypeOK, NEW r \in Runners, ReplyLost(r)
    PROVE  Still(r) \/ Builds(r) \/ Commits(r)
<1>1. /\ UNCHANGED <<copy, mark, acked>> /\ Others(r) /\ Alone(r)
      /\ proc'[r].pc = IF proc[r].phase = "open" THEN "failed" ELSE "release"
  BY ReplyLost(r), ProcMoves, OwnFiles DEF ReplyLost, Fault, disk
<1> USE DEF At
<1>2. CASE /\ proc[r].pc \in {"acquire", "checkpoint", "fence"}
           /\ UNCHANGED <<head, chunks>>
  BY <1>1, <1>2, LabelsAre DEF Still, Leaves
<1>3. CASE /\ proc[r].pc \in {"chunk", "recreate"} /\ ~Taken(r)
           /\ chunks' = chunks \cup {NewChunk(r)} /\ UNCHANGED <<lease, head>>
  BY <1>1, <1>3 DEF Builds
<1>4. CASE /\ At(r, "replace") /\ UNCHANGED <<lease, head>>
           /\ chunks' = chunks \ Stored(NewGen(r), proc[r].idx)
  BY <1>1, <1>4 DEF Builds
<1>5. CASE /\ At(r, "commit") /\ head = proc[r].base
           /\ head' = NewHead(r) /\ UNCHANGED <<lease, chunks>>
  BY <1>1, <1>5 DEF Commits
<1> QED
  BY <1>2, <1>3, <1>4, <1>5, ReplyLost(r) DEF ReplyLost

\* Every action, by what it does to the state.
LEMMA ActionIs ==
    ASSUME TypeOK, "rewrite" \notin CrashPoints, NEW r \in Runners, Action(r)
    PROVE  \/ Still(r) \/ Unpacks(r) \/ Changes(r) \/ Returns(r)
           \/ Builds(r) \/ Commits(r) \/ Deletes(r)
  BY SessionIs, PullIs, ReadPartIs, UnpackIs, EditIs, ReadHeadIs, BuildIs, CommitIs,
     CleanIs, UnavailableIs, ReplyLostIs DEF Action, Step

-----------------------------------------------------------------------------
(* Every step keeps the invariant, when pushes are timely.                 *)

\* Only an acquisition makes a runner the Lease's owner, and it pulls first.
LEMMA OursMoves ==
    ASSUME TypeOK, FencesUnique, NEW r \in Runners, Action(r), NEW q \in Runners, Ours(q)'
    PROVE  Ours(q) \/ (q = r /\ proc'[q].pc = "pull")
<1>1. /\ \A p \in Runners : proc[p].fence \in Nat /\ proc[p].fence <= lease.trans
      /\ lease.trans \in Nat
  BY LeaseOps DEF FencesUnique
<1>2. proc'[q].fence # 0 /\ lease'.holder = q /\ lease'.trans = proc'[q].fence
  BY DEF Ours
<1>3. CASE lease'.trans = lease.trans /\ lease'.holder \in {lease.holder, NoRunner}
  <2>1. proc'[q].fence = proc[q].fence \/ proc'[q].fence = lease.trans + 1
    BY <1>2, Moves
  <2>2. proc'[q].fence = proc[q].fence
    BY <1>1, <1>2, <1>3, <2>1
  <2> QED
    BY <1>2, <1>3, <2>2, StoreAssumption DEF Ours
<1>4. CASE Takes(r)
  <2>1. q = r /\ proc'[q].fence = lease.trans + 1
    BY <1>2, <1>4, LeaseOps DEF Takes
  <2>2. proc'[q].fence # proc[q].fence /\ proc'[q].fence # 0
    BY <1>1, <2>1
  <2> QED
    BY <2>1, <2>2, Moves
<1>5. LeaseFreedBy(r).holder \in {lease.holder, NoRunner}
  BY DEF LeaseFreedBy, TypeOK
<1> QED
  BY <1>3, <1>4, <1>5, ClusterMoves, LeaseOps

\* A runner of a push and no other is the owner: so one of them writes at a time.
LEMMA OneWriter ==
    ASSUME LockInv, NEW r \in Runners, proc[r].pc \in CommitWindow
    PROVE  /\ Ours(r)
           /\ \A q \in Runners \ {r} : ~Ours(q) /\ proc[q].pc \notin CommitWindow
<1>1. \A q \in Runners : proc[q].pc \in CommitWindow => Ours(q)
  BY DEF LockInv, PushWindow, CommitWindow
<1> QED
  BY <1>1 DEF Ours

\* The four ways in which a step changes what is stored.
Keeps == UNCHANGED <<head, chunks>>

Adds(r) ==
    /\ UNCHANGED head /\ proc[r].pc \in {"chunk", "recreate"} /\ ~Taken(r)
    /\ chunks' = chunks \cup {NewChunk(r)}

Drops(r) ==
    /\ UNCHANGED head /\ proc[r].pc = "replace"
    /\ chunks' = chunks \ Stored(NewGen(r), proc[r].idx)

Heads(r) ==
    /\ UNCHANGED chunks /\ proc[r].pc = "commit" /\ head = proc[r].base
    /\ head' = NewHead(r)

Cleans ==
    /\ UNCHANGED head
    /\ \E g \in Nat, i \in Nat :
          /\ g <= head.gen /\ (g = head.gen => i >= head.n)
          /\ chunks' = chunks \ Stored(g, i)

\* An action writes the store in one of these ways, if at all.
LEMMA StoreMoves ==
    ASSUME TypeOK, NEW r \in Runners, Writer(r),
           \/ Still(r) \/ Unpacks(r) \/ Changes(r) \/ Returns(r)
           \/ Builds(r) \/ Commits(r) \/ Deletes(r)
    PROVE  Alone(r) /\ (Keeps \/ Adds(r) \/ Drops(r) \/ Heads(r) \/ Cleans)
<1>1. CASE Still(r)
  BY <1>1, OwnFiles DEF Still, Keeps
<1>2. CASE Unpacks(r) \/ Changes(r) \/ Returns(r)
  BY <1>2 DEF Unpacks, Changes, Returns, Keeps
<1>3. CASE Builds(r)
  BY <1>3 DEF Builds, Adds, Drops
<1>4. CASE Commits(r)
  BY <1>4 DEF Commits, Heads
<1>5. CASE Deletes(r)
  <2>1. /\ proc[r].base.gen \in Nat /\ proc[r].idx \in Nat /\ head.gen \in Nat
        /\ NewGen(r) = proc[r].base.gen + 1
    BY ProcFields DEF NewGen, TypeOK
  <2>2. /\ NewGen(r) <= head.gen
        /\ NewGen(r) = head.gen => head.n = ChunkCount[copy[r]]
    BY <1>5 DEF Writer, Deletes
  <2>3. CASE proc[r].pc = "forget"
    <3>1. chunks' = chunks \ Stored(proc[r].base.gen, proc[r].idx) /\ head' = head
      BY <1>5, <2>3 DEF Deletes
    <3> QED
      BY <1>5, <2>1, <2>2, <3>1 DEF Cleans, Deletes
  <2>4. CASE proc[r].pc = "sweep"
    <3>1. chunks' = chunks \ Stored(NewGen(r), proc[r].idx) /\ head' = head
      BY <1>5, <2>4 DEF Deletes
    <3>2. proc[r].idx >= ChunkCount[copy[r]]
      BY <2>4 DEF Writer
    <3> QED
      BY <1>5, <2>1, <2>2, <3>1, <3>2 DEF Cleans, Deletes
  <2> QED
    BY <1>5, <2>3, <2>4 DEF Deletes, AfterCommit
<1> QED
  BY <1>1, <1>2, <1>3, <1>4, <1>5

\* The shape of what the invariant relates.
LEMMA Shapes ==
    ASSUME TypeOK
    PROVE  /\ head.gen \in Nat /\ head.n \in Nat /\ head.sha \in Snapshots
           /\ chunks \in SUBSET Chunk
           /\ \A r \in Runners :
                 /\ proc[r].base.gen \in Nat /\ proc[r].base.n \in Nat
                 /\ proc[r].base.sha \in Snapshots /\ proc[r].idx \in Nat
                 /\ copy[r] \in Snapshots /\ ChunkCount[copy[r]] \in Nat \ {0}
                 /\ NewGen(r) = proc[r].base.gen + 1
                 /\ NewHead(r).gen = NewGen(r) /\ NewHead(r).sha = copy[r]
                 /\ NewHead(r).n = ChunkCount[copy[r]]
                 /\ NewChunk(r) = Piece(NewGen(r), proc[r].idx, copy[r])
                 /\ NewChunk(r).gen = NewGen(r)
  BY ProcFields DEF TypeOK, NewGen, NewHead, NewChunk, Piece

\* The head's generation stays whole, and keeps what was acknowledged.
LEMMA HeadKept ==
    ASSUME TypeOK, HeadInv, NEW r \in Runners, Writer(r), Copied(r),
           proc[r].pc \in CommitWindow => Ours(r), acked' \subseteq head.sha,
           Keeps \/ Adds(r) \/ Drops(r) \/ Heads(r) \/ Cleans
    PROVE  HeadInv'
<1>s. /\ head.gen \in Nat /\ head.n \in Nat /\ head.sha \in Snapshots
      /\ chunks \in SUBSET Chunk /\ proc[r].idx \in Nat
      /\ ChunkCount[copy[r]] \in Nat \ {0}
      /\ NewGen(r) = proc[r].base.gen + 1 /\ NewChunk(r).gen = NewGen(r)
      /\ NewHead(r).gen = NewGen(r) /\ NewHead(r).sha = copy[r]
      /\ NewHead(r).n = ChunkCount[copy[r]]
  BY Shapes
<1>h. /\ head.gen = 0 => head.n = 0 /\ head.sha = {}
      /\ head.gen # 0 => head.n # 0
      /\ Whole(chunks, head.gen, head.n, head.sha)
  BY DEF HeadInv
<1>w. proc[r].pc \in CommitWindow =>
          /\ NewGen(r) = head.gen + 1 /\ Whole(chunks, NewGen(r), Ready(r), copy[r])
  BY <1>s DEF Writer
<1>1. CASE UNCHANGED head /\ Whole(chunks', head.gen, head.n, head.sha)
  BY <1>1, <1>h DEF HeadInv
<1>2. CASE Keeps
  BY <1>1, <1>2, <1>h DEF Keeps
<1>3. CASE Adds(r)
  <2>1. NewChunk(r).gen # head.gen
    BY <1>3, <1>s, <1>w DEF Adds, CommitWindow
  <2> QED
    BY <1>1, <1>3, <1>h, <2>1, WholeBeside DEF Adds
<1>4. CASE Drops(r)
  <2>1. NewGen(r) # head.gen /\ NewGen(r) \in Nat
    BY <1>4, <1>s, <1>w DEF Drops, CommitWindow
  <2>2. Whole(chunks \ Stored(NewGen(r), proc[r].idx), head.gen, head.n, head.sha)
    BY <1>s, <1>h, <2>1, WholeWithout DEF Stored
  <2> QED
    BY <1>1, <1>4, <2>2 DEF Drops
<1>5. CASE Heads(r)
  <2>1. NewGen(r) = head.gen + 1 /\ Whole(chunks, NewGen(r), ChunkCount[copy[r]], copy[r])
    BY <1>5, <1>w DEF Heads, CommitWindow, Ready
  <2>2. head.sha \subseteq copy[r]
    BY <1>5 DEF Heads, Copied, CommitWindow, Synced, PushWindow
  <2>3. head' = NewHead(r) /\ chunks' = chunks
    BY <1>5 DEF Heads
  <2> QED
    BY <1>s, <2>1, <2>2, <2>3 DEF HeadInv
<1>6. CASE Cleans
  <2>1. PICK g \in Nat, i \in Nat :
           /\ g <= head.gen /\ (g = head.gen => i >= head.n)
           /\ chunks' = chunks \ Stored(g, i)
    BY <1>6 DEF Cleans
  <2>2. Whole(chunks \ Stored(g, i), head.gen, head.n, head.sha)
    BY <1>s, <1>h, <2>1, WholeWithout DEF Stored
  <2> QED
    BY <1>1, <1>6, <2>1, <2>2 DEF Cleans
<1> QED
  BY <1>2, <1>3, <1>4, <1>5, <1>6

\* Nothing a runner does breaks what another one relies on.
LEMMA OthersKept ==
    ASSUME TypeOK, ContentInv, LockInv, FencesUnique,
           NEW r \in Runners, Action(r), Alone(r),
           Keeps \/ Adds(r) \/ Drops(r) \/ Heads(r) \/ Cleans,
           NEW q \in Runners, q # r
    PROVE  Writer(q)' /\ Reader(q)' /\ Copied(q)'
<1>q. /\ proc'[q] = proc[q] /\ copy'[q] = copy[q] /\ mark'[q] = mark[q]
      /\ NewGen(q)' = NewGen(q) /\ Ready(q)' = Ready(q)
  BY DEF Alone, NewGen, Ready
<1>o. Ours(q)' => Ours(q)
  BY OursMoves
<1>i. Writer(q) /\ Reader(q) /\ Copied(q) /\ Writer(r) /\ Copied(r)
  BY DEF ContentInv
<1>s. /\ head.gen \in Nat /\ head.n \in Nat /\ chunks \in SUBSET Chunk
      /\ proc[r].idx \in Nat /\ proc[q].idx \in Nat /\ ChunkCount[copy[q]] \in Nat
      /\ proc[q].base.gen \in Nat /\ NewGen(q) = proc[q].base.gen + 1
      /\ NewGen(r) = proc[r].base.gen + 1 /\ NewChunk(r).gen = NewGen(r)
      /\ NewHead(r).gen = NewGen(r) /\ NewHead(r).sha = copy[r]
      /\ copy[q] \in Snapshots
  BY Shapes
<1>w. proc[r].pc \in CommitWindow =>
          /\ NewGen(r) = head.gen + 1 /\ ~Ours(q) /\ proc[q].pc \notin CommitWindow
          /\ head.sha \subseteq copy[r]
  BY <1>s, <1>i, OneWriter DEF Writer, Copied, Synced, PushWindow, CommitWindow
<1>d. CommitWindow \cap AfterCommit = {} /\ "sweep" \in AfterCommit
        /\ "sweep" \notin CommitWindow
  BY DEF CommitWindow, AfterCommit
<1>1. CASE Keeps
  BY <1>1, <1>q, <1>o, <1>i DEF Keeps, Writer, Reader, Copied
<1>2. CASE Adds(r)
  <2>1. /\ head' = head /\ chunks' = chunks \cup {NewChunk(r)}
        /\ NewChunk(r).gen = head.gen + 1 /\ proc[q].pc \notin CommitWindow
    BY <1>2, <1>s, <1>w DEF Adds, CommitWindow
  <2>2. Writer(q)'
    BY <1>q, <1>i, <2>1 DEF Writer, CommitWindow
  <2>3. Reader(q)'
    BY <1>q, <1>o, <1>i, <1>s, <2>1 DEF Reader
  <2>4. Copied(q)'
    BY <1>q, <1>o, <1>i, <2>1 DEF Copied
  <2> QED
    BY <2>2, <2>3, <2>4
<1>3. CASE Drops(r)
  <2>1. head' = head /\ chunks' \subseteq chunks /\ proc[q].pc \notin CommitWindow
    BY <1>3, <1>w DEF Drops, CommitWindow
  <2>2. Writer(q)'
    BY <1>q, <1>i, <2>1 DEF Writer, CommitWindow
  <2>3. Reader(q)'
    BY <1>q, <1>o, <1>i, <2>1 DEF Reader
  <2>4. Copied(q)'
    BY <1>q, <1>o, <1>i, <2>1 DEF Copied
  <2> QED
    BY <2>2, <2>3, <2>4
<1>4. CASE Heads(r)
  <2>1. /\ head'.gen = head.gen + 1 /\ head'.sha = copy[r] /\ chunks' = chunks
        /\ head.sha \subseteq head'.sha
        /\ proc[q].pc \notin CommitWindow /\ ~Ours(q)'
    BY <1>4, <1>s, <1>w, <1>o DEF Heads, CommitWindow
  <2>2. Writer(q)'
    <3>1. proc[q].pc \in AfterCommit => NewGen(q) <= head.gen /\ copy[q] \subseteq head.sha
      BY <1>i DEF Writer
    <3>2. proc[q].pc \in AfterCommit =>
              /\ NewGen(q) <= head'.gen /\ NewGen(q) # head'.gen
              /\ copy[q] \subseteq head'.sha
      BY <1>s, <2>1, <3>1
    <3>3. proc[q].pc = "sweep" => proc[q].idx >= ChunkCount[copy[q]]
      BY <1>i DEF Writer
    <3> QED
      BY <1>q, <2>1, <3>2, <3>3 DEF Writer, CommitWindow
  <2>3. Reader(q)'
    <3>1. proc[q].pc = "parts" => proc[q].base.gen <= head'.gen /\ proc[q].base.gen # head'.gen
      BY <1>i, <1>s, <2>1 DEF Reader
    <3> QED
      BY <1>q, <1>i, <2>1, <3>1 DEF Reader
  <2>4. Copied(q)'
    BY <1>q, <1>i, <2>1 DEF Copied
  <2> QED
    BY <2>2, <2>3, <2>4
<1>5. CASE Cleans
  <2>1. PICK g \in Nat, i \in Nat :
           /\ g <= head.gen /\ (g = head.gen => i >= head.n)
           /\ chunks' = chunks \ Stored(g, i)
    BY <1>5 DEF Cleans
  <2>2. head' = head /\ chunks' \subseteq chunks
    BY <1>5, <2>1 DEF Cleans
  <2>3. Writer(q)'
    <3>1. proc[q].pc \in CommitWindow => Whole(chunks', NewGen(q), Ready(q), copy[q])
      <4> SUFFICES ASSUME proc[q].pc \in CommitWindow
                   PROVE  Whole(chunks \ Stored(g, i), NewGen(q), Ready(q), copy[q])
        BY <2>1
      <4>1. /\ proc[q].base = head /\ Whole(chunks, NewGen(q), Ready(q), copy[q])
            /\ NewGen(q) \in Nat /\ g # NewGen(q) /\ Ready(q) \in Nat
        BY <1>i, <1>s, <2>1 DEF Writer, Ready
      <4> QED
        BY <1>s, <4>1, WholeWithout DEF Stored
    <3> QED
      BY <1>q, <1>i, <2>2, <3>1 DEF Writer
  <2>4. Reader(q)'
    BY <1>q, <1>o, <1>i, <2>2 DEF Reader
  <2>5. Copied(q)'
    BY <1>q, <1>o, <1>i, <2>2 DEF Copied
  <2> QED
    BY <2>3, <2>4, <2>5
<1> QED
  BY <1>1, <1>2, <1>3, <1>4, <1>5

\* The runner's own part, when nothing is written.
LEMMA StillKept ==
    ASSUME TypeOK, ContentInv, LockInv, FencesUnique,
           NEW r \in Runners, Action(r), Still(r)
    PROVE  Writer(r)' /\ Reader(r)' /\ Copied(r)'
<1> DEFINE p == proc[r]
           n == proc'[r]
<1>o. Ours(r)' => Ours(r) \/ n.pc = "pull"
  BY OursMoves
<1>u. /\ head' = head /\ chunks' = chunks /\ copy'[r] = copy[r] /\ mark'[r] = mark[r]
      /\ NewGen(r) = p.base.gen + 1 /\ NewGen(r)' = n.base.gen + 1
      /\ Ready(r) = IF p.pc \in {"fence", "commit"} THEN ChunkCount[copy[r]] ELSE p.idx
      /\ Ready(r)' = IF n.pc \in {"fence", "commit"} THEN ChunkCount[copy[r]] ELSE n.idx
  BY DEF Still, NewGen, Ready
<1>t. /\ head.gen \in Nat /\ head.n \in Nat /\ chunks \in SUBSET Chunk
      /\ p.idx \in Nat /\ p.base.gen \in Nat /\ p.base.n \in Nat
      /\ ChunkCount[copy[r]] \in Nat \ {0} /\ copy[r] \in Snapshots /\ p.pc \in Labels
  BY Shapes DEF TypeOK, Process
<1>h. /\ head.gen = 0 => head.n = 0 /\ head.sha = {}
      /\ head.gen # 0 => head.n # 0
      /\ Whole(chunks, head.gen, head.n, head.sha)
  BY DEF ContentInv, HeadInv
<1>w. Writer(r)
  BY DEF ContentInv
<1>r. Reader(r)
  BY DEF ContentInv
<1>c. Copied(r)
  BY DEF ContentInv
<1>m. Leaves(r) \/ Opens(r) \/ Pushes(r)
  BY DEF Still
<1>l. /\ PullLabels = {"pull", "parts", "clear", "rewrite", "mark"}
      /\ Pulling = {"parts", "clear", "rewrite", "mark"}
      /\ CommitWindow = {"chunk", "replace", "recreate", "fence", "commit"}
      /\ AfterCommit = {"forget", "sweep"}
      /\ Synced = {"work", "failed", "checkpoint", "head", "chunk", "replace",
                   "recreate", "fence", "commit", "forget", "sweep"}
  BY DEF PullLabels, Pulling, CommitWindow, AfterCommit, Synced, PushWindow
<1>1. CASE Leaves(r)
  <2>1. /\ n.pc \in {"idle", "acquire", "pull", "failed", "release", "work"}
        /\ p.pc # "rewrite"
        /\ n.pc \in {"acquire", "pull"} => n.phase # "open"
        /\ n.pc \in {"work", "failed"} => p.pc \in Synced \/ head.gen = 0
    BY <1>1, <1>l, <1>r, <1>t, LabelsAre DEF Leaves, Reader
  <2>2. Writer(r)'
    BY <2>1, <1>l DEF Writer
  <2>3. Reader(r)'
    BY <2>1, <1>l DEF Reader
  <2>4. Copied(r)'
    BY <2>1, <1>l, <1>o, <1>u, <1>h, <1>c DEF Copied
  <2> QED
    BY <2>2, <2>3, <2>4
<1>2. CASE Opens(r)
  <2>1. CASE /\ n.pc = "checkpoint"
             /\ \/ p.pc \in {"work", "failed"}
                \/ p.pc = "pull" /\ head.gen = 0
                \/ p.pc = "parts" /\ mark[r].sha = p.base.sha
    <3>1. Writer(r)' /\ Reader(r)'
      BY <2>1, <1>l DEF Writer, Reader
    <3>2. Copied(r)'
      BY <2>1, <1>l, <1>o, <1>u, <1>h, <1>c, <1>r DEF Copied, Reader
    <3> QED
      BY <3>1, <3>2
  <2>2. CASE /\ p.pc = "pull" /\ n.pc = "parts" /\ head.gen # 0
             /\ n.base = head /\ n.idx = 0 /\ n.good /\ n.phase = p.phase
    <3>1. Writer(r)'
      BY <2>2, <1>l DEF Writer
    <3>2. Reader(r)'
      <4>1. n.phase # "open" /\ mark[r].sha \subseteq head.sha /\ 0 < head.n
        BY <2>2, <1>l, <1>r, <1>c, <1>h, <1>t DEF Reader, Copied
      <4> QED
        BY <2>2, <4>1, <1>l, <1>u, <1>h, <1>t DEF Reader, Whole
    <3>3. Copied(r)'
      BY <2>2, <1>l, <1>u, <1>c DEF Copied
    <3> QED
      BY <3>1, <3>2, <3>3
  <2>3. CASE /\ p.pc = "parts" /\ n.pc = "parts"
             /\ n.base = p.base /\ n.phase = p.phase
             /\ n.idx = p.idx + 1 /\ p.idx + 1 < p.base.n
             /\ Stored(p.base.gen, p.idx) # {}
             /\ n.good <=> p.good /\ Piece(p.base.gen, p.idx, p.base.sha)
                                       \in Stored(p.base.gen, p.idx)
    <3>1. Writer(r)'
      BY <2>3, <1>l DEF Writer
    <3>2. n.good
      <4>1. PICK c \in Stored(p.base.gen, p.idx) : TRUE
        BY <2>3
      <4>2. /\ c \in Chunk /\ c \in chunks /\ c.gen = p.base.gen /\ c.idx = p.idx
        BY <1>t DEF Stored
      <4>3. p.good /\ c.of = p.base.sha
        BY <2>3, <4>2, <1>r, <1>t DEF Reader
      <4>4. c = Piece(p.base.gen, p.idx, p.base.sha)
        BY <4>2, <4>3 DEF Piece
      <4> QED
        BY <2>3, <4>1, <4>3, <4>4
    <3>3. Reader(r)'
      BY <2>3, <3>2, <1>l, <1>o, <1>u, <1>r DEF Reader
    <3>4. Copied(r)'
      BY <2>3, <1>l, <1>u, <1>c DEF Copied
    <3> QED
      BY <3>1, <3>3, <3>4
  <2>4. CASE /\ p.pc = "parts" /\ n.base = p.base /\ n.phase = p.phase
             /\ \/ n.pc = "clear"
                \/ n.pc = "mark" /\ mark[r].sha = p.base.sha
    <3>1. Writer(r)'
      BY <2>4, <1>l DEF Writer
    <3>2. Reader(r)'
      BY <2>4, <1>l, <1>o, <1>u, <1>r DEF Reader
    <3>3. Copied(r)'
      BY <2>4, <1>l, <1>u, <1>c DEF Copied
    <3> QED
      BY <3>1, <3>2, <3>3
  <2>5. CASE p.pc = "checkpoint" /\ n.pc = "head"
    <3>1. Writer(r)' /\ Reader(r)'
      BY <2>5, <1>l DEF Writer, Reader
    <3>2. Copied(r)'
      BY <2>5, <1>l, <1>o, <1>u, <1>c DEF Copied
    <3> QED
      BY <3>1, <3>2
  <2>6. CASE p.pc = "head" /\ n.pc = "chunk" /\ n.base = head /\ n.idx = 0
    <3>1. Whole(chunks, head.gen + 1, 0, copy[r])
      BY <1>t, WholeNone
    <3>2. Writer(r)'
      BY <2>6, <3>1, <1>l, <1>u, <1>t DEF Writer
    <3>3. Reader(r)'
      BY <2>6, <1>l DEF Reader
    <3>4. Copied(r)'
      BY <2>6, <1>l, <1>o, <1>u, <1>c DEF Copied
    <3> QED
      BY <3>2, <3>3, <3>4
  <2> QED
    BY <1>2, <2>1, <2>2, <2>3, <2>4, <2>5, <2>6 DEF Opens
<1>3. CASE Pushes(r)
  <2>1. CASE p.pc = "chunk" /\ n.pc = "replace" /\ Same(r)
    <3>1. Writer(r)'
      BY <2>1, <1>l, <1>u, <1>w DEF Writer, Same
    <3>2. Reader(r)' /\ Copied(r)'
      BY <2>1, <1>l, <1>o, <1>u, <1>c DEF Reader, Copied
    <3> QED
      BY <3>1, <3>2
  <2>2. CASE p.pc = "fence" /\ n.pc = "commit" /\ Same(r)
    <3>1. Writer(r)'
      BY <2>2, <1>l, <1>u, <1>w DEF Writer, Same
    <3>2. Reader(r)' /\ Copied(r)'
      BY <2>2, <1>l, <1>o, <1>u, <1>c DEF Reader, Copied
    <3> QED
      BY <3>1, <3>2
  <2>3. CASE /\ p.pc \in AfterCommit /\ n.pc \in AfterCommit /\ n.base = p.base
             /\ n.pc = "sweep" => n.idx >= ChunkCount[copy[r]]
    <3>1. Writer(r)'
      BY <2>3, <1>l, <1>u, <1>w DEF Writer
    <3>2. Reader(r)' /\ Copied(r)'
      BY <2>3, <1>l, <1>o, <1>u, <1>c DEF Reader, Copied
    <3> QED
      BY <3>1, <3>2
  <2>4. CASE n.pc = p.pc /\ Same(r)
    <3>1. Writer(r)'
      BY <2>4, <1>l, <1>u, <1>w DEF Writer, Same
    <3>2. Reader(r)'
      BY <2>4, <1>l, <1>o, <1>u, <1>r DEF Reader, Same
    <3>3. Copied(r)'
      BY <2>4, <1>l, <1>o, <1>u, <1>c DEF Copied, Same
    <3> QED
      BY <3>1, <3>2, <3>3
  <2>5. p.pc = "sweep" => p.idx >= ChunkCount[copy[r]]
    BY <1>w DEF Writer
  <2> QED
    BY <1>3, <1>l, <1>t, <2>1, <2>2, <2>3, <2>4, <2>5 DEF Pushes
<1> QED
  BY <1>m, <1>1, <1>2, <1>3

\* The runner's own part, when its working copy or its marker is written.
LEMMA FilesKept ==
    ASSUME TypeOK, ContentInv, LockInv, FencesUnique,
           NEW r \in Runners, Action(r), Unpacks(r) \/ Changes(r) \/ Returns(r)
    PROVE  /\ Writer(r)' /\ Reader(r)' /\ Copied(r)'
           /\ acked' \subseteq head.sha
<1> DEFINE p == proc[r]
           n == proc'[r]
<1>o. Ours(r)' => Ours(r) \/ n.pc = "pull"
  BY OursMoves
<1>u. head' = head /\ chunks' = chunks
  BY DEF Unpacks, Changes, Returns
<1>a. acked \subseteq head.sha
  BY DEF ContentInv, HeadInv
<1>w. Writer(r)
  BY DEF ContentInv
<1>r. Reader(r)
  BY DEF ContentInv
<1>c. Copied(r)
  BY DEF ContentInv
<1>l. /\ PullLabels = {"pull", "parts", "clear", "rewrite", "mark"}
      /\ Pulling = {"parts", "clear", "rewrite", "mark"}
      /\ CommitWindow = {"chunk", "replace", "recreate", "fence", "commit"}
      /\ AfterCommit = {"forget", "sweep"}
      /\ Synced = {"work", "failed", "checkpoint", "head", "chunk", "replace",
                   "recreate", "fence", "commit", "forget", "sweep"}
  BY DEF PullLabels, Pulling, CommitWindow, AfterCommit, Synced, PushWindow
<1>1. CASE Unpacks(r)
  <2>1. acked' = acked
    BY <1>1 DEF Unpacks
  <2>2. CASE /\ p.pc = "clear" /\ n.pc = "rewrite" /\ Same(r)
             /\ copy'[r] = {} /\ UNCHANGED mark
    <3>1. Writer(r)'
      BY <2>2, <1>l DEF Writer
    <3>2. Reader(r)'
      BY <2>2, <1>l, <1>o, <1>u, <1>r DEF Reader, Same
    <3>3. Copied(r)'
      BY <2>2, <1>l, <1>u, <1>c DEF Copied
    <3> QED
      BY <2>1, <3>1, <3>2, <3>3, <1>a
  <2>3. CASE /\ p.pc = "rewrite" /\ n.pc = "mark" /\ Same(r)
             /\ copy'[r] = p.base.sha /\ UNCHANGED mark
    <3>1. Writer(r)'
      BY <2>3, <1>l DEF Writer
    <3>2. Reader(r)'
      BY <2>3, <1>l, <1>o, <1>u, <1>r DEF Reader, Same
    <3>3. Copied(r)'
      BY <2>3, <1>l, <1>u, <1>c, <1>r DEF Copied, Reader, Same
    <3> QED
      BY <2>1, <3>1, <3>2, <3>3, <1>a
  <2>4. CASE /\ p.pc = "mark" /\ n.pc \in {"work", "release", "failed"}
             /\ n.pc = "failed" => p.phase = "open"
             /\ mark'[r].sha = p.base.sha /\ UNCHANGED copy
    <3>1. n.pc \in {"work", "release"}
      BY <2>4, <1>l, <1>r DEF Reader
    <3>2. Writer(r)' /\ Reader(r)'
      BY <3>1, <1>l DEF Writer, Reader
    <3>3. Copied(r)'
      BY <2>4, <3>1, <1>l, <1>o, <1>u, <1>c, <1>r DEF Copied, Reader
    <3> QED
      BY <2>1, <3>2, <3>3, <1>a
  <2> QED
    BY <1>1, <2>2, <2>3, <2>4 DEF Unpacks
<1>2. CASE Changes(r)
  <2>1. /\ n.pc = "checkpoint" /\ p.pc \in {"work", "failed"} /\ mark' = mark
        /\ copy[r] \subseteq copy'[r] /\ acked' = acked
    BY <1>2 DEF Changes
  <2>2. Writer(r)' /\ Reader(r)'
    BY <2>1, <1>l DEF Writer, Reader
  <2>3. Copied(r)'
    BY <2>1, <1>l, <1>o, <1>u, <1>c DEF Copied
  <2> QED
    BY <2>1, <2>2, <2>3, <1>a
<1>3. CASE Returns(r)
  <2>1. /\ n.pc \in {"work", "release"} /\ p.pc \in {"head", "sweep"} /\ copy' = copy
        /\ mark'[r].sha = copy[r] /\ acked' = acked \cup copy[r]
        /\ p.pc = "head" => head.sha = copy[r]
    BY <1>3 DEF Returns
  <2>2. copy[r] \subseteq head.sha
    BY <2>1, <1>l, <1>w DEF Writer
  <2>3. Writer(r)' /\ Reader(r)'
    BY <2>1, <1>l DEF Writer, Reader
  <2>4. Copied(r)'
    BY <2>1, <2>2, <1>l, <1>o, <1>u, <1>c DEF Copied
  <2> QED
    BY <2>1, <2>2, <2>3, <2>4, <1>a
<1> QED
  BY <1>1, <1>2, <1>3

\* The runner's own part, when it writes or deletes chunks.
LEMMA ChunksKept ==
    ASSUME TypeOK, ContentInv, LockInv, FencesUnique,
           NEW r \in Runners, Action(r), Builds(r) \/ Deletes(r)
    PROVE  Writer(r)' /\ Reader(r)' /\ Copied(r)'
<1> DEFINE p == proc[r]
           n == proc'[r]
<1>o. Ours(r)' => Ours(r) \/ n.pc = "pull"
  BY OursMoves
<1>u. /\ head' = head /\ copy'[r] = copy[r] /\ mark'[r] = mark[r]
      /\ NewGen(r) = p.base.gen + 1 /\ NewGen(r)' = n.base.gen + 1
      /\ Ready(r) = IF p.pc \in {"fence", "commit"} THEN ChunkCount[copy[r]] ELSE p.idx
      /\ Ready(r)' = IF n.pc \in {"fence", "commit"} THEN ChunkCount[copy[r]] ELSE n.idx
  BY DEF Builds, Deletes, NewGen, Ready
<1>t. /\ chunks \in SUBSET Chunk /\ p.idx \in Nat /\ p.base.gen \in Nat
      /\ ChunkCount[copy[r]] \in Nat \ {0} /\ copy[r] \in Snapshots
      /\ NewChunk(r) = Piece(NewGen(r), p.idx, copy[r]) /\ NewGen(r) \in Nat
  BY Shapes
<1>w. Writer(r)
  BY DEF ContentInv
<1>c. Copied(r)
  BY DEF ContentInv
<1>l. /\ PullLabels = {"pull", "parts", "clear", "rewrite", "mark"}
      /\ Pulling = {"parts", "clear", "rewrite", "mark"}
      /\ CommitWindow = {"chunk", "replace", "recreate", "fence", "commit"}
      /\ AfterCommit = {"forget", "sweep"}
      /\ Synced = {"work", "failed", "checkpoint", "head", "chunk", "replace",
                   "recreate", "fence", "commit", "forget", "sweep"}
  BY DEF PullLabels, Pulling, CommitWindow, AfterCommit, Synced, PushWindow
<1>1. /\ n.pc \in {"failed", "release", "chunk", "fence", "recreate", "forget", "sweep"}
      /\ p.pc \in {"chunk", "recreate", "replace", "forget", "sweep"}
  BY <1>l DEF Builds, Deletes
<1>2. Reader(r)'
  BY <1>1, <1>l DEF Reader
<1>3. Copied(r)'
  BY <1>1, <1>l, <1>o, <1>u, <1>c DEF Copied
<1>4. Writer(r)'
  <2>1. CASE n.pc \in {"failed", "release"}
    BY <2>1, <1>l DEF Writer
  <2>2. CASE /\ p.pc \in {"chunk", "recreate"} /\ ~Taken(r)
             /\ chunks' = chunks \cup {NewChunk(r)} /\ n.base = p.base
             /\ \/ /\ n.pc = "chunk" /\ n.idx = p.idx + 1
                   /\ p.idx + 1 < ChunkCount[copy[r]]
                \/ n.pc = "fence" /\ p.idx + 1 >= ChunkCount[copy[r]]
    <3>1. p.base = head /\ Whole(chunks, NewGen(r), p.idx, copy[r])
            /\ p.idx < ChunkCount[copy[r]]
      BY <2>2, <1>l, <1>u, <1>w DEF Writer
    <3>2. \A c \in chunks : ~(c.gen = NewGen(r) /\ c.idx = p.idx)
      BY <2>2 DEF Taken, Stored
    <3>3. Whole(chunks', NewGen(r), p.idx + 1, copy[r])
      BY <2>2, <3>1, <3>2, <1>t, WholeNext
    <3>4. Ready(r)' = p.idx + 1 /\ NewGen(r)' = NewGen(r)
      BY <2>2, <3>1, <1>t, <1>u
    <3> QED
      BY <2>2, <3>1, <3>3, <3>4, <1>l, <1>u DEF Writer
  <2>3. CASE /\ p.pc = "replace" /\ n.pc = "recreate" /\ Same(r)
             /\ chunks' = chunks \ Stored(NewGen(r), p.idx)
    <3>1. p.base = head /\ Whole(chunks, NewGen(r), p.idx, copy[r])
            /\ p.idx < ChunkCount[copy[r]]
      BY <2>3, <1>l, <1>u, <1>w DEF Writer
    <3>2. Whole(chunks \ Stored(NewGen(r), p.idx), NewGen(r), p.idx, copy[r])
      BY <3>1, <1>t, WholeWithout DEF Stored
    <3>3. Ready(r)' = p.idx /\ NewGen(r)' = NewGen(r)
      BY <2>3, <1>u DEF Same
    <3> QED
      BY <2>3, <3>1, <3>2, <3>3, <1>l, <1>u DEF Writer, Same
  <2>4. CASE Deletes(r)
    <3>1. /\ n.pc = p.pc /\ p.pc \in AfterCommit /\ n.base = p.base
          /\ n.idx = p.idx + 1
      BY <2>4 DEF Deletes
    <3> QED
      BY <3>1, <1>l, <1>t, <1>u, <1>w DEF Writer
  <2> QED
    BY <2>1, <2>2, <2>3, <2>4 DEF Builds
<1> QED
  BY <1>2, <1>3, <1>4

\* The runner's own part, when it writes the head.
LEMMA CommitKept ==
    ASSUME TypeOK, ContentInv, LockInv, FencesUnique,
           NEW r \in Runners, Action(r), Commits(r)
    PROVE  Writer(r)' /\ Reader(r)' /\ Copied(r)'
<1>1. /\ proc[r].pc = "commit" /\ head'.gen = NewGen(r) /\ head'.sha = copy[r]
      /\ head'.n = ChunkCount[copy[r]] /\ NewGen(r) \in Nat
      /\ copy'[r] = copy[r] /\ mark'[r] = mark[r]
  BY Shapes DEF Commits, Alone
<1>2. \/ proc'[r].pc \in {"failed", "release"}
      \/ proc'[r].pc = "forget" /\ NewGen(r)' = NewGen(r)
  BY DEF Commits, Same, NewGen
<1>3. Copied(r)
  BY DEF ContentInv
<1>4. /\ PullLabels = {"pull", "parts", "clear", "rewrite", "mark"}
      /\ Pulling = {"parts", "clear", "rewrite", "mark"}
      /\ CommitWindow = {"chunk", "replace", "recreate", "fence", "commit"}
      /\ AfterCommit = {"forget", "sweep"}
  BY DEF PullLabels, Pulling, CommitWindow, AfterCommit
<1>5. Writer(r)'
  BY <1>1, <1>2, <1>4 DEF Writer
<1>6. Reader(r)'
  BY <1>2, <1>4 DEF Reader
<1>7. Copied(r)'
  BY <1>1, <1>2, <1>3 DEF Copied
<1> QED
  BY <1>5, <1>6, <1>7

\* Every step keeps what the store holds.
LEMMA ContentStep ==
    ASSUME Timely = TRUE, "rewrite" \notin CrashPoints
    PROVE  TypeOK /\ LockInv /\ FencesUnique /\ ContentInv /\ [Next]_vars => ContentInv'
<1> SUFFICES ASSUME TypeOK, LockInv, FencesUnique, ContentInv, [Next]_vars
             PROVE  ContentInv'
  OBVIOUS
<1>1. CASE UNCHANGED vars \/ Lapse
  <2>1. /\ UNCHANGED <<head, chunks, proc, copy, mark, acked>>
        /\ lease'.holder = lease.holder /\ lease'.trans = lease.trans
    BY <1>1 DEF vars, Lapse, disk, history, TypeOK
  <2>2. \A r \in Runners : Ours(r)' = Ours(r)
    BY <2>1 DEF Ours
  <2>3. HeadInv'
    BY <2>1 DEF ContentInv, HeadInv
  <2>4. ASSUME NEW r \in Runners PROVE Writer(r)' /\ Reader(r)' /\ Copied(r)'
    <3>1. Writer(r) /\ Reader(r) /\ Copied(r)
      BY DEF ContentInv
    <3>2. Writer(r)'
      BY <3>1, <2>1 DEF Writer, Ready, NewGen
    <3>3. Reader(r)' /\ Copied(r)'
      BY <3>1, <2>1, <2>2 DEF Reader, Copied
    <3> QED
      BY <3>2, <3>3
  <2> QED
    BY <2>3, <2>4 DEF ContentInv
<1>2. ASSUME NEW r \in Runners, Action(r) PROVE ContentInv'
  <2>1. \/ Still(r) \/ Unpacks(r) \/ Changes(r) \/ Returns(r)
        \/ Builds(r) \/ Commits(r) \/ Deletes(r)
    BY <1>2, ActionIs
  <2>2. HeadInv /\ Writer(r) /\ Copied(r) /\ acked \subseteq head.sha
    BY DEF ContentInv, HeadInv
  <2>3. Alone(r) /\ (Keeps \/ Adds(r) \/ Drops(r) \/ Heads(r) \/ Cleans)
    BY <2>1, <2>2, StoreMoves
  <2>4. Writer(r)' /\ Reader(r)' /\ Copied(r)'
    BY <1>2, <2>1, StillKept, FilesKept, ChunksKept, CommitKept
  <2>5. acked' \subseteq head.sha
    <3>1. CASE Unpacks(r) \/ Changes(r) \/ Returns(r)
      BY <1>2, <3>1, FilesKept
    <3>2. CASE Still(r) \/ Builds(r) \/ Commits(r) \/ Deletes(r)
      BY <2>2, <3>2 DEF Still, Builds, Commits, Deletes
    <3> QED
      BY <2>1, <3>1, <3>2
  <2>6. proc[r].pc \in CommitWindow => Ours(r)
    BY OneWriter
  <2>7. HeadInv'
    BY <2>2, <2>3, <2>5, <2>6, HeadKept
  <2>8. \A q \in Runners \ {r} : Writer(q)' /\ Reader(q)' /\ Copied(q)'
    BY <1>2, <2>3, OthersKept
  <2> QED
    BY <2>4, <2>7, <2>8 DEF ContentInv
<1> QED
  BY <1>1, <1>2 DEF Next

\* Nothing is stored, and nobody runs.
LEMMA ContentInit == Init => ContentInv
<1> SUFFICES ASSUME Init PROVE ContentInv
  OBVIOUS
<1>1. head = NoHead /\ chunks = {} /\ acked = {}
      /\ \A r \in Runners : proc[r] = Idle /\ mark[r] = NoMark
  BY DEF Init
<1>2. HeadInv
  BY <1>1 DEF HeadInv, NoHead, Whole
<1>3. ASSUME NEW r \in Runners PROVE Writer(r) /\ Reader(r) /\ Copied(r)
  BY <1>1 DEF Writer, Reader, Copied, Idle, NoMark, CommitWindow, AfterCommit,
              PullLabels, Pulling, Synced, PushWindow
<1> QED
  BY <1>2, <1>3 DEF ContentInv

\* The lock, the fences and the content together, under the two assumptions.
LEMMA ContentHolds ==
    ASSUME Timely = TRUE, "rewrite" \notin CrashPoints
    PROVE  Spec => [](TypeOK /\ LockInv /\ FencesUnique /\ ContentInv)
<1>1. Init => LockInv
  BY DEF Init, LockInv, Idle, PushWindow
<1> QED
  BY <1>1, LockStep, ContentInit, ContentStep, TypeCorrect, FencesAreUnique, PTL DEF Spec

\* What the invariant says of the head, in StateStore's words.
LEMMA ReadableNow == ASSUME TypeOK, ContentInv PROVE Readable
<1> SUFFICES ASSUME NEW i \in 0 .. head.n - 1
             PROVE  Stored(head.gen, i) = {Piece(head.gen, i, head.sha)}
  BY DEF Readable, Piece
<1>1. i \in Nat /\ i < head.n /\ head.gen \in Nat /\ chunks \in SUBSET Chunk
  BY Shapes
<1>2. Whole(chunks, head.gen, head.n, head.sha)
  BY DEF ContentInv, HeadInv
<1>3. Piece(head.gen, i, head.sha) \in Stored(head.gen, i)
  BY <1>1, <1>2 DEF Whole, Stored, Piece
<1>4. ASSUME NEW c \in Stored(head.gen, i) PROVE c = Piece(head.gen, i, head.sha)
  <2>1. c \in Chunk /\ c.gen = head.gen /\ c.idx = i /\ c.of = head.sha
    BY <1>1, <1>2 DEF Whole, Stored
  <2> QED
    BY <2>1 DEF Piece
<1> QED
  BY <1>3, <1>4

\* The generation that the head names can be read at any moment, with every
\* chunk it promises: also in the middle of a push, or after a writer was killed
\* anywhere in one (push, _create_chunk, _sweep).
THEOREM AlwaysReadable ==
    ASSUME Timely = TRUE, "rewrite" \notin CrashPoints PROVE Spec => []Readable
<1>1. TypeOK /\ ContentInv => Readable
  BY ReadableNow
<1> QED
  BY <1>1, ContentHolds, PTL

\* What a command was told is stored stays in the state, whoever writes next
\* (checkpoint's acknowledgement against the pulls and pushes of other runners).
THEOREM AckedIsKept ==
    ASSUME Timely = TRUE, "rewrite" \notin CrashPoints PROVE Spec => []AckedKept
<1>1. ContentInv => AckedKept
  BY DEF ContentInv, HeadInv, AckedKept
<1> QED
  BY <1>1, ContentHolds, PTL

\* A pull never puts chunks of two writers together, also the pull of a command
\* that only reads and holds no lock.
THEOREM ReadsUnmixed ==
    ASSUME Timely = TRUE, "rewrite" \notin CrashPoints PROVE Spec => []NoMixedRead
<1>1. ASSUME TypeOK, ContentInv PROVE NoMixedRead
  <2> SUFFICES ASSUME NEW r \in Runners, At(r, "parts")
               PROVE  /\ proc[r].good
                      /\ \A c \in Stored(proc[r].base.gen, proc[r].idx) :
                             c.of = proc[r].base.sha
    BY DEF NoMixedRead
  <2>1. Reader(r) /\ proc[r].pc = "parts"
    BY <1>1 DEF ContentInv, At
  <2> QED
    BY <1>1, <2>1 DEF Reader, Stored
<1> QED
  BY <1>1, ContentHolds, PTL

\* The store implements ReleaseState: one value per release, replaced as a whole,
\* by the lock's owner alone, that only grows.
THEOREM StoreImplements ==
    ASSUME Timely = TRUE, "rewrite" \notin CrashPoints
    PROVE  Spec => ImplementsReleaseState
<1> DEFINE Inv == TypeOK /\ LockInv /\ FencesUnique /\ ContentInv
<1>1. Init => Abstract!Init
  <2> SUFFICES ASSUME Init PROVE Abstract!Init
    OBVIOUS
  <2>1. head = NoHead /\ lease = [holder |-> NoRunner, trans |-> 0, live |-> FALSE]
    BY DEF Init
  <2>2. TypeOK /\ ContentInv
    BY InitType, ContentInit
  <2>3. Assembled = {}
    BY <2>1, <2>2, ReadableNow DEF Assembled, NoHead
  <2> QED
    BY <2>1, <2>3 DEF Abstract!Init, NoHead
<1>2. Inv /\ Inv' /\ [Next]_vars => [Abstract!Next]_(Abstract!vars)
  <2> SUFFICES ASSUME Inv, Inv', [Next]_vars PROVE [Abstract!Next]_(Abstract!vars)
    OBVIOUS
  <2>1. Assembled = head.sha /\ Assembled' = head'.sha
    <3>1. Readable /\ Readable'
      BY ReadableNow, PTL
    <3> QED
      BY <3>1 DEF Assembled
  <2>2. CASE UNCHANGED vars \/ Lapse
    BY <2>1, <2>2 DEF vars, Lapse, TypeOK, Abstract!vars
  <2>3. ASSUME NEW r \in Runners, Action(r) PROVE [Abstract!Next]_(Abstract!vars)
    <3>1. CASE head' # head
      <4>1. /\ proc[r].pc = "commit" /\ head = proc[r].base
            /\ head' = NewHead(r) /\ lease' = lease
        BY <2>3, <3>1, ClusterMoves
      <4>2. Ours(r) /\ head.sha \subseteq copy[r]
        BY <4>1, OneWriter DEF ContentInv, Copied, CommitWindow, Synced, PushWindow
      <4>3. head'.gen = head.gen + 1 /\ head'.sha = copy[r] /\ copy[r] \in SUBSET Edits
        BY <4>1, Shapes DEF Snapshots
      <4> QED
        BY <2>1, <4>1, <4>2, <4>3 DEF Abstract!Next, Abstract!Write, Ours
    <3>2. CASE head' = head /\ Takes(r)
      BY <2>1, <3>2, LeaseOps DEF Takes, Abstract!Next, Abstract!Take
    <3>3. CASE head' = head /\ lease' \in {lease, Renewed}
      BY <2>1, <3>3, LeaseOps DEF Abstract!vars
    <3>4. CASE head' = head /\ lease' = LeaseFreedBy(r)
      <4>1. CASE LeaseFreedBy(r) = lease
        BY <2>1, <3>4, <4>1 DEF Abstract!vars
      <4>2. CASE LeaseFreedBy(r) # lease
        <5>1. lease.holder = r /\ lease'.holder = NoRunner /\ lease'.trans = lease.trans
          BY <3>4, <4>2 DEF LeaseFreedBy, TypeOK
        <5> QED
          BY <2>1, <3>4, <5>1 DEF Abstract!Next, Abstract!Free
      <4> QED
        BY <4>1, <4>2
    <3> QED
      BY <2>3, <3>1, <3>2, <3>3, <3>4, ClusterMoves
  <2> QED
    BY <2>2, <2>3 DEF Next
<1> QED
  BY <1>1, <1>2, ContentHolds, PTL DEF Spec, ImplementsReleaseState, Abstract!Spec
=============================================================================
