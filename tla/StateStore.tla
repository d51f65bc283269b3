----------------------------- MODULE StateStore -----------------------------
(***************************************************************************)
(* The shared deployment state of one release (piceli/state): a Lease that *)
(* is the release lock, a head Secret that names the current generation,   *)
(* chunk Secrets that hold it, and the sessions that runners open on it.   *)
(*                                                                         *)
(* Each action is one request to the API server together with the local    *)
(* code that leads to it; between two actions of a runner any other runner *)
(* may act, the lease may lapse and the runner's process may die.  Where   *)
(* the code reads an object and then writes it under that read's           *)
(* resourceVersion and retries on a conflict (renew, acquire, release,     *)
(* _delete), the pair takes effect at the write, so it is one action.  The *)
(* head is different: it is read early in a push and compared much later.  *)
(*                                                                         *)
(* Time is the bit lease.live: Lapse is "a lease duration passed without a *)
(* renewal".  A snapshot is the set of edits it contains; its SHA-256 is   *)
(* the set itself, and chunk idx of a snapshot is a record naming both.    *)
(***************************************************************************)
EXTENDS Integers, FiniteSets

CONSTANTS
    Runners,        \* machines, each with one working copy (directory_lock)
    NoRunner,       \* holderIdentity of a freed lease
    ChunkCount,     \* chunks that each snapshot is cut into
    MaxChunks,      \* MAX_CHUNKS
    PullTries,      \* attempts of pull()
    Timely,         \* a live runner ends its push before its lease lapses
    CrashPoints,    \* labels at which a runner's process may be killed
    MaxEdits,       \* bound: edits made during the behaviour
    MaxTransitions, \* bound: no writing session opens after that many
    MaxFaults,      \* bound: requests that fail or whose reply is lost
    MaxCrashes      \* bound: killed processes

Edits == 0 .. MaxEdits     \* edit 0: state from before the cluster backend
Snapshots == SUBSET Edits

\* What the runner does next.  The labels of a push, from its first fencing
\* renewal to its commit, are the window in which its lease must not lapse.
PullLabels  == {"pull", "parts", "clear", "rewrite", "mark"}
PushWindow  == {"head", "chunk", "replace", "recreate", "fence", "commit"}
AfterCommit == {"forget", "sweep"}
Labels == {"idle", "acquire", "work", "failed", "checkpoint", "release"}
            \cup PullLabels \cup PushWindow \cup AfterCommit

ASSUME StoreAssumption ==
    /\ NoRunner \notin Runners
    /\ MaxEdits \in Nat /\ MaxTransitions \in Nat
    /\ MaxFaults \in Nat /\ MaxCrashes \in Nat
    /\ MaxChunks \in Nat \ {0} /\ PullTries \in Nat \ {0}
    /\ Timely \in BOOLEAN
    /\ CrashPoints \subseteq Labels
    /\ ChunkCount \in [Snapshots -> Nat \ {0}]

VARIABLES
    lease,    \* the Lease: holder, trans (leaseTransitions), live
    head,     \* the head Secret's manifest; gen = 0 when there is none
    chunks,   \* the chunk Secrets
    proc,     \* each runner's process: ClusterStore and session() state
    copy,     \* each runner's working copy (state_dir), survives its process
    mark,     \* each runner's marker file MARKER, survives its process
    edits,    \* edits made so far
    acked,    \* edits in a push that returned to its caller
    faults, crashes

vars == <<lease, head, chunks, proc, copy, mark, edits, acked, faults, crashes>>
cluster == <<lease, head, chunks>>
disk == <<copy, mark>>
history == <<edits, acked, faults, crashes>>

NoHead == [gen |-> 0, n |-> 0, sha |-> {}, fence |-> 0]
NoMark == [gen |-> 0, sha |-> {}]

Idle == [pc |-> "idle", phase |-> "closed", fence |-> 0, lost |-> FALSE,
         base |-> NoHead, idx |-> 0, good |-> TRUE, tries |-> 0]

Lease    == [holder : Runners \cup {NoRunner}, trans : Nat, live : BOOLEAN]
Manifest == [gen : Nat, n : Nat, sha : Snapshots, fence : Nat]
Marker   == [gen : Nat, sha : Snapshots]
Chunk    == [gen : Nat, idx : Nat, of : Snapshots]
Phases   == {"closed", "reading", "opening", "open", "closing"}
Process  == [pc : Labels, phase : Phases, fence : Nat, lost : BOOLEAN,
             base : Manifest, idx : Nat, good : BOOLEAN, tries : Nat]

\* Every object, session and file has its shape.  A marker keeps only the
\* generation and digest of what was synced, never the whole manifest (_mark).
TypeOK ==
    /\ lease \in Lease
    /\ head \in Manifest
    /\ chunks \subseteq Chunk
    /\ proc \in [Runners -> Process]
    /\ copy \in [Runners -> Snapshots]
    /\ mark \in [Runners -> Marker]
    /\ edits \in Edits
    /\ acked \in Snapshots
    /\ faults \in 0 .. MaxFaults
    /\ crashes \in 0 .. MaxCrashes

\* At most one runner starts with a state directory from the local backend.
Init ==
    /\ lease = [holder |-> NoRunner, trans |-> 0, live |-> FALSE]
    /\ head = NoHead
    /\ chunks = {}
    /\ proc = [r \in Runners |-> Idle]
    /\ \E r \in Runners, old \in {{}, {0}} :
           copy = [q \in Runners |-> IF q = r THEN old ELSE {}]
    /\ mark = [r \in Runners |-> NoMark]
    /\ edits = 0
    /\ acked = {}
    /\ faults = 0
    /\ crashes = 0

-----------------------------------------------------------------------------
(* How a runner's process moves on.                                        *)

At(r, label) == proc[r].pc = label
Goto(r, label) == proc' = [proc EXCEPT ![r].pc = label]

\* A StateError leaves the operation: a session being opened is closed, an
\* open one goes to its caller's exception handler, a closing one releases.
Raised(p) == [p EXCEPT !.pc = IF p.phase = "open" THEN "failed" ELSE "release",
                       !.base = NoHead, !.idx = 0, !.good = TRUE, !.tries = 0]
Raise(r) == proc' = [proc EXCEPT ![r] = Raised(@)]
RaiseLost(r) == proc' = [proc EXCEPT ![r] = Raised([@ EXCEPT !.lost = TRUE])]

\* A checkpoint or the opening push returned, or the session is now open.
Resumed(p) == [p EXCEPT !.pc = IF p.phase = "closing" THEN "release" ELSE "work",
                        !.phase = IF p.phase = "closing" THEN @ ELSE "open",
                        !.base = NoHead, !.idx = 0, !.good = TRUE, !.tries = 0]
Resume(r) == proc' = [proc EXCEPT ![r] = Resumed(@)]

\* Mutant: the marker keeps the whole manifest.
MarkWhole(r, m) == mark' = [mark EXCEPT ![r] = m]

MarkAs(r, m) == mark' = [mark EXCEPT ![r] = [gen |-> m.gen, sha |-> m.sha]]

-----------------------------------------------------------------------------
(* The lock.                                                               *)

\* session(): take the directory lock, then acquire the lease to write, or
\* only refresh the working copy.
OpenSession(r) ==
    /\ At(r, "idle")
    /\ \/ /\ lease.trans < MaxTransitions
          /\ proc' = [proc EXCEPT ![r].pc = "acquire", ![r].phase = "opening"]
       \/ proc' = [proc EXCEPT ![r].pc = "pull", ![r].phase = "reading"]
    /\ UNCHANGED <<cluster, disk, history>>

Held == lease.holder # NoRunner /\ lease.live

\* Mutant: a takeover is not counted.
LeaseTakenUncounted(r) == [lease EXCEPT !.holder = r, !.live = TRUE]

LeaseTakenBy(r) == [holder |-> r, trans |-> lease.trans + 1, live |-> TRUE]

\* acquire(): take a free or a stale lease; the fence is its transition count.
Acquire(r) ==
    /\ At(r, "acquire")
    /\ ~Held
    /\ lease' = LeaseTakenBy(r)
    /\ proc' = [proc EXCEPT ![r].pc = "pull", ![r].fence = lease.trans + 1]
    /\ UNCHANGED <<head, chunks, disk, history>>

\* Mutant: a held lock is polled for ever instead of refused.
AcquirePolls(r) == At(r, "acquire") /\ Held /\ UNCHANGED vars

AcquireRefused(r) ==
    /\ At(r, "acquire")
    /\ Held
    /\ Raise(r)
    /\ UNCHANGED <<cluster, disk, history>>

\* The lease still names this runner's acquisition.
Ours(r) ==
    /\ proc[r].fence # 0
    /\ lease.holder = r
    /\ lease.trans = proc[r].fence

\* renew(): a lease that lapsed but that nobody took over is renewed too.
Renewed == [lease EXCEPT !.live = TRUE]
\* Mutant: the fence only asks whether the heartbeat recorded a loss.
FencedByHeartbeat(r) == ~proc[r].lost

Fenced(r) == ~proc[r].lost /\ Ours(r)

\* One beat of the heartbeat thread.  The mutex keeps it out of a push and of
\* acquire and release.
Beating(r) ==
    /\ proc[r].phase \in {"opening", "open", "closing"}
    /\ proc[r].fence # 0
    /\ ~proc[r].lost

Beat(r) ==
    /\ Beating(r)
    /\ proc[r].pc \in PullLabels \cup {"work", "failed", "checkpoint"}
    /\ IF Ours(r)
       THEN lease' = Renewed /\ UNCHANGED proc
       ELSE proc' = [proc EXCEPT ![r].lost = TRUE] /\ UNCHANGED lease
    /\ UNCHANGED <<head, chunks, disk, history>>

\* The heartbeat could not reach the API server for a whole lease duration.
BeatTimedOut(r) ==
    /\ Beating(r)
    /\ ~(Ours(r) /\ lease.live)
    /\ faults < MaxFaults
    /\ proc' = [proc EXCEPT ![r].lost = TRUE]
    /\ faults' = faults + 1
    /\ UNCHANGED <<cluster, disk, edits, acked, crashes>>

\* release() compares the holder only, and does nothing once the lock is lost.
LeaseFreedBy(r) ==
    IF proc[r].fence # 0 /\ ~proc[r].lost /\ lease.holder = r
    THEN [lease EXCEPT !.holder = NoRunner, !.live = FALSE]
    ELSE lease

Release(r) ==
    /\ At(r, "release")
    /\ lease' = LeaseFreedBy(r)
    /\ proc' = [proc EXCEPT ![r] = Idle]
    /\ UNCHANGED <<head, chunks, disk, history>>

\* A lease duration passes without a renewal.  With Timely, a runner between
\* the first fencing renewal of a push and its commit is never that slow.
Lapse ==
    /\ Held
    /\ Timely => ~ \E r \in Runners : Ours(r) /\ proc[r].pc \in PushWindow
    /\ lease' = [lease EXCEPT !.live = FALSE]
    /\ UNCHANGED <<head, chunks, proc, disk, history>>

-----------------------------------------------------------------------------
(* Opening a session: pull the snapshot into the working copy.             *)

\* Mutant: whatever generation the marker names.
AheadOfAny(r, m) == copy[r] # m.sha

\* The working copy changed on top of the generation it last synced.
Ahead(r, m) ==
    /\ mark[r] = [gen |-> m.gen, sha |-> m.sha]
    /\ copy[r] # m.sha

Pull(r) ==
    /\ At(r, "pull")
    /\ \/ /\ head.gen # 0
          /\ proc' = [proc EXCEPT ![r].pc = "parts", ![r].base = head,
                                  ![r].idx = 0, ![r].good = TRUE]
       \/ /\ head.gen = 0 /\ proc[r].phase = "opening" /\ copy[r] # {}
          /\ Goto(r, "checkpoint")   \* the local state moves to the cluster
       \/ /\ head.gen = 0 /\ proc[r].phase = "opening" /\ copy[r] = {}
          /\ Resume(r)
       \/ /\ head.gen = 0 /\ proc[r].phase = "reading"
          /\ Goto(r, "release")
    /\ UNCHANGED <<cluster, disk, history>>

\* Every chunk was read: verify the digest, then decide what wins.
Pulled(p, r) ==
    CASE ~p.good -> Raised(p)
      [] p.good /\ ~Ahead(r, p.base) -> [p EXCEPT !.pc = "clear"]
      [] p.good /\ Ahead(r, p.base) /\ p.phase = "opening" ->
             [p EXCEPT !.pc = "checkpoint"]
      [] OTHER -> [p EXCEPT !.pc = "mark"]

Stored(gen, idx) == {c \in chunks : c.gen = gen /\ c.idx = idx}

ReadPart(r) ==
    LET p == proc[r]
        found == Stored(p.base.gen, p.idx)
        wanted == [gen |-> p.base.gen, idx |-> p.idx, of |-> p.base.sha]
        next == [p EXCEPT !.good = @ /\ wanted \in found, !.idx = @ + 1]
    IN  /\ At(r, "parts")
        /\ \/ /\ found # {} /\ p.idx + 1 < p.base.n
              /\ proc' = [proc EXCEPT ![r] = next]
           \/ /\ found # {} /\ p.idx + 1 >= p.base.n
              /\ proc' = [proc EXCEPT ![r] = Pulled(next, r)]
           \/ /\ found = {} /\ p.tries + 1 < PullTries
              /\ proc' = [proc EXCEPT ![r].pc = "pull", ![r].tries = @ + 1]
           \/ /\ found = {} /\ p.tries + 1 >= PullTries
              /\ Raise(r)
        /\ UNCHANGED <<cluster, disk, history>>

\* unpack(): remove every durable file, then write the snapshot's.
Clear(r) ==
    /\ At(r, "clear")
    /\ copy' = [copy EXCEPT ![r] = {}]
    /\ Goto(r, "rewrite")
    /\ UNCHANGED <<cluster, mark, history>>

Rewrite(r) ==
    /\ At(r, "rewrite")
    /\ copy' = [copy EXCEPT ![r] = proc[r].base.sha]
    /\ Goto(r, "mark")
    /\ UNCHANGED <<cluster, mark, history>>

Mark(r) ==
    /\ At(r, "mark")
    /\ MarkAs(r, proc[r].base)
    /\ IF proc[r].phase = "reading" THEN Raise(r) ELSE Resume(r)
    /\ UNCHANGED <<cluster, copy, history>>

-----------------------------------------------------------------------------
(* An open session: the command edits the working copy (a journal commit,  *)
(* a saved run record) and writes every edit through before it goes on.    *)

EditCopy(r) ==
    /\ edits < MaxEdits
    /\ edits' = edits + 1
    /\ copy' = [copy EXCEPT ![r] = @ \cup {edits + 1}]
    /\ Goto(r, "checkpoint")
    /\ UNCHANGED <<cluster, mark, acked, faults, crashes>>

Edit(r) == At(r, "work") /\ EditCopy(r)

\* A failed stage is recorded in the run journal, which checkpoints again.
RecordFailure(r) == At(r, "failed") /\ EditCopy(r)

\* The command ends: the final, forced checkpoint, whatever the outcome.
EndCommand(r) ==
    /\ proc[r].pc \in {"work", "failed"}
    /\ proc' = [proc EXCEPT ![r].pc = "checkpoint", ![r].phase = "closing"]
    /\ UNCHANGED <<cluster, disk, history>>

\* checkpoint(): the lock is proved first; an unchanged copy is not pushed.
\* In the opening phase this is the first renew() of session()'s own push.
Unchanged(r) ==
    /\ proc[r].phase # "opening"
    /\ mark[r].gen # 0
    /\ mark[r].sha = copy[r]

Checkpoint(r) ==
    /\ At(r, "checkpoint")
    /\ Fenced(r)
    /\ lease' = Renewed
    /\ IF Unchanged(r) THEN Resume(r) ELSE Goto(r, "head")
    /\ UNCHANGED <<head, chunks, disk, history>>

CheckpointRefused(r) ==
    /\ At(r, "checkpoint")
    /\ ~Fenced(r)
    /\ RaiseLost(r)
    /\ UNCHANGED <<cluster, disk, history>>

-----------------------------------------------------------------------------
(* push(): new chunks, the fence again, the head, then the old chunks.     *)

Pushed(r, m) ==
    /\ Resume(r)
    /\ MarkAs(r, m)
    /\ acked' = acked \cup m.sha
    /\ UNCHANGED <<lease, head, copy, edits, faults, crashes>>

ReadHead(r) ==
    /\ At(r, "head")
    /\ \/ /\ head.fence > proc[r].fence      \* a newer lock holder wrote it
          /\ RaiseLost(r)
          /\ UNCHANGED <<cluster, disk, history>>
       \/ /\ head.fence <= proc[r].fence
          /\ head.gen # 0 /\ head.sha = copy[r]
          /\ Pushed(r, head)
          /\ UNCHANGED chunks
       \/ /\ head.fence <= proc[r].fence
          /\ head.gen = 0 \/ head.sha # copy[r]
          /\ IF ChunkCount[copy[r]] > MaxChunks
             THEN Raise(r)
             ELSE proc' = [proc EXCEPT ![r].pc = "chunk", ![r].base = head,
                                       ![r].idx = 0]
          /\ UNCHANGED <<cluster, disk, history>>

\* Mutant: a push reuses the generation it replaces.
SameGen(r) == IF proc[r].base.gen = 0 THEN 1 ELSE proc[r].base.gen

NewGen(r) == proc[r].base.gen + 1
NewChunk(r) == [gen |-> NewGen(r), idx |-> proc[r].idx, of |-> copy[r]]
NewHead(r) == [gen |-> NewGen(r), n |-> ChunkCount[copy[r]], sha |-> copy[r],
               fence |-> proc[r].fence]

Taken(r) == Stored(NewGen(r), proc[r].idx) # {}

ChunkWritten(r) ==
    IF proc[r].idx + 1 < ChunkCount[copy[r]]
    THEN proc' = [proc EXCEPT ![r].pc = "chunk", ![r].idx = @ + 1]
    ELSE proc' = [proc EXCEPT ![r].pc = "fence", ![r].idx = 0]

\* _create_chunk(): POST; on a conflict delete what is there and POST again.
CreateChunk(r) ==
    /\ At(r, "chunk")
    /\ IF Taken(r)
       THEN Goto(r, "replace") /\ UNCHANGED chunks
       ELSE ChunkWritten(r) /\ chunks' = chunks \cup {NewChunk(r)}
    /\ UNCHANGED <<lease, head, disk, history>>

ReplaceChunk(r) ==
    /\ At(r, "replace")
    /\ chunks' = chunks \ Stored(NewGen(r), proc[r].idx)
    /\ Goto(r, "recreate")
    /\ UNCHANGED <<lease, head, disk, history>>

RecreateChunk(r) ==
    /\ At(r, "recreate")
    /\ IF Taken(r)
       THEN Raise(r) /\ UNCHANGED chunks
       ELSE ChunkWritten(r) /\ chunks' = chunks \cup {NewChunk(r)}
    /\ UNCHANGED <<lease, head, disk, history>>

\* The fence, right before the commit point.
FenceCommit(r) ==
    /\ At(r, "fence")
    /\ IF Fenced(r)
       THEN lease' = Renewed /\ Goto(r, "commit")
       ELSE RaiseLost(r) /\ UNCHANGED lease
    /\ UNCHANGED <<head, chunks, disk, history>>

\* Mutant: the head is written without comparing its version.
CommitHeadBlind(r) ==
    /\ At(r, "commit")
    /\ head' = NewHead(r)
    /\ Goto(r, "forget")
    /\ UNCHANGED <<lease, chunks, disk, history>>

\* The head is written under the version read before the chunks were.  Every
\* write of it starts a new generation, so the version is the manifest.
CommitHead(r) ==
    /\ At(r, "commit")
    /\ IF head = proc[r].base
       THEN head' = NewHead(r) /\ Goto(r, "forget")
       ELSE RaiseLost(r) /\ UNCHANGED head
    /\ UNCHANGED <<lease, chunks, disk, history>>

\* Mutant: the sweep starts at the last chunk just written.
ForgetChunkThenLast(r) ==
    /\ At(r, "forget")
    /\ IF proc[r].idx < proc[r].base.n
       THEN /\ chunks' = chunks \ Stored(proc[r].base.gen, proc[r].idx)
            /\ proc' = [proc EXCEPT ![r].idx = @ + 1]
       ELSE /\ proc' = [proc EXCEPT ![r].pc = "sweep",
                                    ![r].idx = ChunkCount[copy[r]] - 1]
            /\ UNCHANGED chunks
    /\ UNCHANGED <<lease, head, disk, history>>

\* The chunks of the generation that was replaced.
ForgetChunk(r) ==
    /\ At(r, "forget")
    /\ IF proc[r].idx < proc[r].base.n
       THEN /\ chunks' = chunks \ Stored(proc[r].base.gen, proc[r].idx)
            /\ proc' = [proc EXCEPT ![r].idx = @ + 1]
       ELSE /\ proc' = [proc EXCEPT ![r].pc = "sweep",
                                    ![r].idx = ChunkCount[copy[r]]]
            /\ UNCHANGED chunks
    /\ UNCHANGED <<lease, head, disk, history>>

\* Leftovers of a writer that died before its head update, up to the first gap.
SweepStray(r) ==
    /\ At(r, "sweep")
    /\ IF Taken(r) /\ proc[r].idx < ChunkCount[copy[r]] + MaxChunks
       THEN /\ chunks' = chunks \ Stored(NewGen(r), proc[r].idx)
            /\ proc' = [proc EXCEPT ![r].idx = @ + 1]
            /\ UNCHANGED <<lease, head, disk, history>>
       ELSE Pushed(r, NewHead(r)) /\ UNCHANGED chunks

-----------------------------------------------------------------------------
(* Requests that fail, replies that are lost, processes that die.          *)

Fault == faults < MaxFaults /\ faults' = faults + 1
                            /\ UNCHANGED <<edits, acked, crashes>>

\* No reply and no effect.  _forget swallows it, every other caller raises.
Unavailable(r) ==
    /\ Fault
    /\ \/ /\ proc[r].pc \in {"acquire", "pull", "parts", "checkpoint"}
                              \cup PushWindow \cup {"sweep"}
          /\ Raise(r)
       \/ /\ At(r, "forget") /\ proc[r].idx < proc[r].base.n
          /\ proc' = [proc EXCEPT ![r].idx = @ + 1]
       \/ /\ At(r, "sweep") /\ Taken(r)
          /\ proc' = [proc EXCEPT ![r].idx = @ + 1]
       \/ /\ At(r, "release")
          /\ proc' = [proc EXCEPT ![r] = Idle]
    /\ UNCHANGED <<cluster, disk>>

\* The request took effect but its caller saw an error.
ReplyLost(r) ==
    /\ Fault
    /\ Raise(r)
    /\ \/ /\ At(r, "acquire") /\ ~Held
          /\ lease' = LeaseTakenBy(r) /\ UNCHANGED <<head, chunks>>
       \/ /\ proc[r].pc \in {"checkpoint", "fence"} /\ Fenced(r)
          /\ lease' = Renewed /\ UNCHANGED <<head, chunks>>
       \/ /\ proc[r].pc \in {"chunk", "recreate"} /\ ~Taken(r)
          /\ chunks' = chunks \cup {NewChunk(r)} /\ UNCHANGED <<lease, head>>
       \/ /\ At(r, "replace")
          /\ chunks' = chunks \ Stored(NewGen(r), proc[r].idx)
          /\ UNCHANGED <<lease, head>>
       \/ /\ At(r, "commit") /\ head = proc[r].base
          /\ head' = NewHead(r) /\ UNCHANGED <<lease, chunks>>
    /\ UNCHANGED disk

Crash(r) ==
    /\ proc[r].pc \in CrashPoints \ {"idle"}
    /\ crashes < MaxCrashes
    /\ crashes' = crashes + 1
    /\ proc' = [proc EXCEPT ![r] = Idle]
    /\ UNCHANGED <<cluster, disk, edits, acked, faults>>

\* What the process does of itself while its command runs.
Step(r) ==
    \/ Acquire(r) \/ AcquireRefused(r) \/ Release(r)
    \/ Pull(r) \/ ReadPart(r) \/ Clear(r) \/ Rewrite(r) \/ Mark(r)
    \/ Checkpoint(r) \/ CheckpointRefused(r)
    \/ ReadHead(r) \/ CreateChunk(r) \/ ReplaceChunk(r) \/ RecreateChunk(r)
    \/ FenceCommit(r) \/ CommitHead(r) \/ ForgetChunk(r) \/ SweepStray(r)

Action(r) ==
    \/ OpenSession(r) \/ Edit(r) \/ RecordFailure(r) \/ EndCommand(r)
    \/ Step(r)
    \/ Beat(r) \/ BeatTimedOut(r)
    \/ Unavailable(r) \/ ReplyLost(r) \/ Crash(r)

Next == Lapse \/ \E r \in Runners : Action(r)

Spec == Init /\ [][Next]_vars

\* The interpreter keeps running a live process.
FairSpec == Spec /\ \A r \in Runners : WF_vars(Step(r))

-----------------------------------------------------------------------------
(* What the shared state promises.                                         *)

\* The head never goes back: each write of it starts the next generation and
\* carries a fence no older than the one it replaces, so once a newer lock
\* holder has written, a woken older one never does (push, lines 547-637).
\* This needs no timing assumption.
HeadNeverGoesBack ==
    [][head' # head => /\ head'.gen = head.gen + 1
                       /\ head'.fence >= head.fence]_vars

\* A transition count is handed out once: no two live sessions ever hold the
\* same fence, and none holds one the Lease has not reached, whatever the
\* order of takeovers, lost replies and restarts (acquire, lines 312-377).
FencesUnique ==
    /\ head.fence <= lease.trans
    /\ \A r \in Runners :
          /\ proc[r].fence <= lease.trans
          /\ \A q \in Runners \ {r} :
                proc[r].fence # 0 => proc[q].fence # proc[r].fence

\* Every chunk the head names is stored and holds what its digest says: a
\* pull at any moment, also in the middle of a push or after a writer died
\* anywhere in one, can assemble the committed snapshot.
Readable ==
    \A i \in 0 .. head.n - 1 :
        Stored(head.gen, i) = {[gen |-> head.gen, idx |-> i, of |-> head.sha]}

\* A write that a command was told succeeded is in the state every later
\* command starts from, whoever wrote since.
AckedKept == acked \subseteq head.sha

\* Only the runner whose acquisition the Lease names commits a generation.
OnlyHolderCommits ==
    [][head' # head => /\ lease.holder # NoRunner
                       /\ lease.trans = head'.fence
                       /\ Ours(lease.holder)]_vars

\* A pull, with or without the lock, never assembles chunks of two writers:
\* what it finds under a name of its manifest is what the manifest promised.
NoMixedRead ==
    \A r \in Runners : At(r, "parts") =>
        /\ proc[r].good
        /\ \A c \in Stored(proc[r].base.gen, proc[r].idx) :
               c.of = proc[r].base.sha

\* Every operation of a live process ends, in success or in an error: a pull
\* whose chunks stay missing gives up, a push never waits for another runner.
OperationsEnd ==
    \A r \in Runners :
        proc[r].pc \notin {"idle", "work", "failed"}
            ~> proc[r].pc \in {"idle", "work", "failed"}

\* The abstract release state: one value, written by the lock's owner alone.
Assembled ==
    IF Readable THEN head.sha ELSE {-1}

Abstract == INSTANCE ReleaseState WITH
    owner <- lease.holder, term <- lease.trans,
    value <- Assembled, version <- head.gen, Entries <- Edits
ImplementsReleaseState == Abstract!Spec
=============================================================================
