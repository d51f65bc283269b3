------------------------------ MODULE TrainQueue ------------------------------
(***************************************************************************)
(* The queue of one train (piceli/train/queue.py), the train's lock        *)
(* (train/state.py) and the commands that run and serve the train          *)
(* (k8s/cli/train.py, trains.py).                                          *)
(*                                                                         *)
(* A request is a file in queue/waiting, queue/running or queue/done.      *)
(* Nobody but the file system coordinates the processes: they move files   *)
(* with rename, or by writing one and unlinking the other, and take an     *)
(* flock that the kernel drops when its holder dies.  An action is one     *)
(* such file operation together with the reading it follows from.          *)
(*                                                                         *)
(* With Prompt, a process inside a move (a few system calls) is not        *)
(* overtaken by another process; a kill may still hit it there.            *)
(***************************************************************************)
EXTENDS Integers

CONSTANTS
    Procs,        \* processes, each one command; its name is its pid
    NoProc,       \* the lock is free, its file empty
    Missing,      \* no such file
    NoPid,        \* a file whose body names no process
    Prompt,       \* moves are not overtaken
    MaxRequests,  \* bound: requests enqueued
    MaxKills      \* bound: killed processes

ASSUME QueueAssumption ==
    /\ NoProc \notin Procs
    /\ Missing \notin Procs /\ NoPid \notin Procs /\ Missing # NoPid
    /\ Prompt \in BOOLEAN
    /\ MaxRequests \in Nat /\ MaxKills \in Nat

VARIABLES
    waiting, running, done,  \* each request's file: Missing, or the pid in it
    flock,     \* who holds the flock of the train's lock file
    named,     \* the pid written in the lock file
    proc,      \* the processes
    asked,     \* requests enqueued so far; ids are ordered by time
    kills

vars == <<waiting, running, done, flock, named, proc, asked, kills>>
files == <<waiting, running, done>>
lock == <<flock, named>>

Requests == 1 .. MaxRequests
File == Procs \cup {Missing, NoPid}

\* Labels inside a move from one directory to another.
Moving == {"requeue", "requeued", "claimed", "back", "backed", "finished"}
Ended == {"exit", "raised", "killed", "torn"}
Labels == {"off", "check", "stale", "look", "list", "claim", "prepare", "lock",
           "name", "run", "unname", "unlock", "finish"} \cup Moving \cup Ended

\* Every file and process has its shape, and what finish() writes to done names
\* no process: a finished request can never be taken for one being served.
TypeOK ==
    /\ {waiting, running, done} \subseteq [Requests -> File]
    /\ Prompt => done \in [Requests -> {Missing, NoPid}]
    /\ flock \in Procs \cup {NoProc}
    /\ named \in Procs \cup {NoProc}
    /\ proc \in [Procs -> [pc : Labels, req : 0 .. MaxRequests,
                           todo : SUBSET Requests, quits : BOOLEAN]]
    /\ asked \in 0 .. MaxRequests
    /\ kills \in 0 .. MaxKills

Init ==
    /\ waiting = [r \in Requests |-> Missing]
    /\ running = waiting
    /\ done = waiting
    /\ flock = NoProc
    /\ named = NoProc
    /\ proc = [p \in Procs |-> [pc |-> "off", req |-> 0, todo |-> {},
                                quits |-> FALSE]]
    /\ asked = 0
    /\ kills = 0

-----------------------------------------------------------------------------
Exists(dir, r) == dir[r] # Missing
Present(dir) == {r \in Requests : Exists(dir, r)}
Oldest(S) == {r \in S : \A q \in S : r <= q}

\* _alive(): the process of a pid still runs.
Live(pid) == pid \in Procs /\ proc[pid].pc \notin Ended \cup {"off"}

\* owner(): a live process is named in the lock file.  Never takes the lock.
Owned == Live(named)

At(p, pc) == proc[p].pc = pc
Goto(p, pc) == proc' = [proc EXCEPT ![p].pc = pc]

\* The process ends, or goes on to the next label, as its run was aborted.
OrRaise(p, pc) == IF proc[p].quits THEN "raised" ELSE pc

-----------------------------------------------------------------------------
(* The commands.                                                           *)

\* piceli train, piceli train --queue (which writes its request before it
\* asks whether the train is busy) and piceli train-queue --drain.
Start(p) ==
    /\ At(p, "off")
    /\ \/ Goto(p, "lock") /\ UNCHANGED <<waiting, asked>>
       \/ /\ asked < MaxRequests
          /\ asked' = asked + 1
          /\ waiting' = [waiting EXCEPT ![asked + 1] = NoPid]
          /\ Goto(p, "check")
       \/ Goto(p, "stale") /\ UNCHANGED <<waiting, asked>>
    /\ UNCHANGED <<running, done, lock, kills>>

\* _queued_run(): leave the request to whoever runs the train, or serve.
CheckOwner(p) ==
    /\ At(p, "check")
    /\ Goto(p, IF Owned THEN "exit" ELSE "stale")
    /\ UNCHANGED <<files, lock, asked, kills>>

-----------------------------------------------------------------------------
(* drain(): put stale requests back, then serve until the queue is empty.  *)

\* Mutant: every running request is put back.
ListEveryRunning(p) ==
    /\ At(p, "stale")
    /\ proc' = [proc EXCEPT ![p].pc = "requeue", ![p].todo = Present(running)]
    /\ UNCHANGED <<files, lock, asked, kills>>

\* requeue_stale(): the running requests whose process died.  The code asks for
\* each one in turn; nobody else moves meanwhile with Prompt, so a process that
\* is killed in between might as well have been killed before the listing.
ListStale(p) ==
    /\ At(p, "stale")
    /\ proc' = [proc EXCEPT ![p].pc = "requeue",
                            ![p].todo = {r \in Present(running) : ~Live(running[r])}]
    /\ UNCHANGED <<files, lock, asked, kills>>

Requeue(p) ==
    /\ At(p, "requeue")
    /\ \/ /\ proc[p].todo = {}
          /\ Goto(p, "look") /\ UNCHANGED waiting
       \/ \E r \in Oldest(proc[p].todo) :
             /\ waiting' = [waiting EXCEPT ![r] = NoPid]
             /\ proc' = [proc EXCEPT ![p].pc = "requeued", ![p].req = r,
                                     ![p].todo = @ \ {r}]
    /\ UNCHANGED <<running, done, lock, asked, kills>>

UnlinkStale(p) ==
    /\ At(p, "requeued")
    /\ running' = [running EXCEPT ![proc[p].req] = Missing]
    /\ proc' = [proc EXCEPT ![p].pc = "requeue", ![p].req = 0]
    /\ UNCHANGED <<waiting, done, lock, asked, kills>>

LookOwner(p) ==
    /\ At(p, "look")
    /\ Goto(p, IF Owned THEN "exit" ELSE "list")
    /\ UNCHANGED <<files, lock, asked, kills>>

ListWaiting(p) ==
    /\ At(p, "list")
    /\ proc' = [proc EXCEPT ![p].pc = "claim", ![p].todo = Present(waiting)]
    /\ UNCHANGED <<files, lock, asked, kills>>

\* claim(): rename the oldest listed request that is still there.
Claim(p) ==
    /\ At(p, "claim")
    /\ \/ /\ proc[p].todo = {}
          /\ Goto(p, "exit") /\ UNCHANGED files
       \/ \E r \in Oldest(proc[p].todo) :
             IF Exists(waiting, r)
             THEN /\ running' = [running EXCEPT ![r] = waiting[r]]
                  /\ waiting' = [waiting EXCEPT ![r] = Missing]
                  /\ proc' = [proc EXCEPT ![p].pc = "claimed", ![p].req = r,
                                          ![p].todo = {}]
                  /\ UNCHANGED done
             ELSE /\ proc' = [proc EXCEPT ![p].todo = @ \ {r}]
                  /\ UNCHANGED files
    /\ UNCHANGED <<lock, asked, kills>>

\* update(): rewrites the request's file in the first directory that has it.
Lost(r) == \A dir \in {waiting, running, done} : ~Exists(dir, r)
Signed(dir, p) == [dir EXCEPT ![proc[p].req] = p]

SignClaim(p) ==
    LET r == proc[p].req IN
    /\ At(p, "claimed")
    /\ Goto(p, IF Lost(r) THEN "raised" ELSE "prepare")
    /\ CASE Exists(waiting, r) ->
              waiting' = Signed(waiting, p) /\ UNCHANGED <<running, done>>
         [] ~Exists(waiting, r) /\ Exists(running, r) ->
              running' = Signed(running, p) /\ UNCHANGED <<waiting, done>>
         [] ~Exists(waiting, r) /\ ~Exists(running, r) /\ Exists(done, r) ->
              done' = Signed(done, p) /\ UNCHANGED <<waiting, running>>
         [] Lost(r) -> UNCHANGED files
    /\ UNCHANGED <<lock, asked, kills>>

\* build() and prepare(): refused, or ready to run; update(run=...).
Prepare(p) ==
    /\ At(p, "prepare")
    /\ \/ Goto(p, "finish")
       \/ Goto(p, IF Lost(proc[p].req) THEN "raised" ELSE "lock")
    /\ UNCHANGED <<files, lock, asked, kills>>

-----------------------------------------------------------------------------
(* TrainRun.run() under the train's lock: a request's, or the command's    *)
(* own (req = 0), after which the command serves the queue.                *)

TakeLock(p) ==
    /\ At(p, "lock")
    /\ flock = NoProc
    /\ flock' = p
    /\ Goto(p, "name")
    /\ UNCHANGED <<files, named, asked, kills>>

TrainBusy(p) ==
    /\ At(p, "lock")
    /\ flock # NoProc
    /\ Goto(p, IF proc[p].req = 0 THEN "exit" ELSE "back")
    /\ UNCHANGED <<files, lock, asked, kills>>

NameOwner(p) ==
    /\ At(p, "name")
    /\ named' = p
    /\ Goto(p, "run")
    /\ UNCHANGED <<files, flock, asked, kills>>

\* The run ends, in an exception that ends the whole command if it quits.
RunEnds(p) ==
    /\ At(p, "run")
    /\ \E quits \in BOOLEAN :
           proc' = [proc EXCEPT ![p].pc = "unname", ![p].quits = quits]
    /\ UNCHANGED <<files, lock, asked, kills>>

ClearOwner(p) ==
    /\ At(p, "unname")
    /\ named' = NoProc
    /\ Goto(p, "unlock")
    /\ UNCHANGED <<files, flock, asked, kills>>

Unlock(p) ==
    /\ At(p, "unlock")
    /\ flock' = NoProc
    /\ Goto(p, IF proc[p].req = 0 THEN OrRaise(p, "stale") ELSE "finish")
    /\ UNCHANGED <<files, named, asked, kills>>

\* Mutant: the finished request still names its process.
FinishSigned(p) ==
    /\ At(p, "finish")
    /\ done' = Signed(done, p)
    /\ Goto(p, "finished")
    /\ UNCHANGED <<waiting, running, lock, asked, kills>>

\* finish(): write the request to done, then unlink it from running.
Finish(p) ==
    /\ At(p, "finish")
    /\ done' = [done EXCEPT ![proc[p].req] = NoPid]
    /\ Goto(p, "finished")
    /\ UNCHANGED <<waiting, running, lock, asked, kills>>

\* Mutant: the served request stays in running.
FinishedKept(p) ==
    /\ At(p, "finished")
    /\ proc' = [proc EXCEPT ![p].pc = OrRaise(p, "look"), ![p].req = 0]
    /\ UNCHANGED <<files, lock, asked, kills>>

\* Mutant: one request is served, then the process ends.
FinishedOne(p) ==
    /\ At(p, "finished")
    /\ running' = [running EXCEPT ![proc[p].req] = Missing]
    /\ proc' = [proc EXCEPT ![p].pc = OrRaise(p, "exit"), ![p].req = 0]
    /\ UNCHANGED <<waiting, done, lock, asked, kills>>

UnlinkFinished(p) ==
    /\ At(p, "finished")
    /\ running' = [running EXCEPT ![proc[p].req] = Missing]
    /\ proc' = [proc EXCEPT ![p].pc = OrRaise(p, "look"), ![p].req = 0]
    /\ UNCHANGED <<waiting, done, lock, asked, kills>>

\* Mutant: the claimed request is unlinked and not written back.
ReleaseDrops(p) ==
    /\ At(p, "back")
    /\ running' = [running EXCEPT ![proc[p].req] = Missing]
    /\ Goto(p, "backed")
    /\ UNCHANGED <<waiting, done, lock, asked, kills>>

\* release(): the train was busy; its holder serves the request.
Release(p) ==
    /\ At(p, "back")
    /\ IF Exists(running, proc[p].req)
       THEN /\ waiting' = [waiting EXCEPT ![proc[p].req] = NoPid]
            /\ Goto(p, "backed")
       ELSE Goto(p, "exit") /\ UNCHANGED waiting
    /\ UNCHANGED <<running, done, lock, asked, kills>>

UnlinkReleased(p) ==
    /\ At(p, "backed")
    /\ running' = [running EXCEPT ![proc[p].req] = Missing]
    /\ Goto(p, "exit")
    /\ UNCHANGED <<waiting, done, lock, asked, kills>>

-----------------------------------------------------------------------------
\* With Prompt nobody acts while another process is inside a move.
Undisturbed(mine) == Prompt => \A q \in Procs \ mine : proc[q].pc \notin Moving

\* Mutant: cancelling copies the request.
CancelCopies(r) ==
    /\ Exists(waiting, r)
    /\ done' = [done EXCEPT ![r] = waiting[r]]
    /\ UNCHANGED <<waiting, running, lock, proc, asked, kills>>

\* cancel(): the rename decides; what is written after it nobody reads.
Cancel(r) ==
    /\ Exists(waiting, r)
    /\ done' = [done EXCEPT ![r] = waiting[r]]
    /\ waiting' = [waiting EXCEPT ![r] = Missing]
    /\ UNCHANGED <<running, lock, proc, asked, kills>>

\* The kernel drops the flock; the lock file keeps the dead pid.
Kill(p) ==
    /\ Live(p)
    /\ kills < MaxKills
    /\ kills' = kills + 1
    /\ flock' = IF flock = p THEN NoProc ELSE flock
    /\ Goto(p, IF proc[p].pc \in Moving THEN "torn" ELSE "killed")
    /\ UNCHANGED <<files, named, asked>>

Step(p) ==
    \/ CheckOwner(p)
    \/ ListStale(p) \/ Requeue(p) \/ UnlinkStale(p)
    \/ LookOwner(p) \/ ListWaiting(p) \/ Claim(p) \/ SignClaim(p) \/ Prepare(p)
    \/ TakeLock(p) \/ TrainBusy(p) \/ NameOwner(p) \/ RunEnds(p)
    \/ ClearOwner(p) \/ Unlock(p)
    \/ Finish(p) \/ UnlinkFinished(p) \/ Release(p) \/ UnlinkReleased(p)

Next ==
    \/ \E p \in Procs : Undisturbed({p}) /\ (Start(p) \/ Step(p))
    \/ \E p \in Procs : Kill(p)
    \/ Undisturbed({}) /\ \E r \in Requests : Cancel(r)

Spec == Init /\ [][Next]_vars

-----------------------------------------------------------------------------
(* What the queue promises.                                                *)

\* A request, once queued, is in some directory, wherever processes die:
\* every move writes the new file before it removes the old one.
NeverLost == \A r \in 1 .. asked : ~Lost(r)

\* Either the server sees the request, or its writer sees a free train and
\* serves it: once every process went home of its own accord, nothing waits.
Served ==
    (\A p \in Procs : proc[p].pc \in {"off", "exit"})
        => Present(waiting) \cup Present(running) = {}

Serving(p) ==
    IF Live(p) /\ proc[p].pc \notin {"requeued", "backed"} THEN proc[p].req ELSE 0

\* Exactly one process claims a request: no two live processes serve it.
OneServer ==
    \A p, q \in Procs : p # q /\ Serving(p) # 0 => Serving(q) # Serving(p)

\* A request that was served or cancelled is not run (again), unless a kill
\* hit a process in the middle of a move and left two copies behind.
NeverAgain ==
    [][\A p \in Procs : At(p, "lock") /\ proc'[p].pc = "name" /\ proc[p].req # 0
          => \/ ~Exists(done, proc[p].req)
             \/ \E q \in Procs : At(q, "torn")]_vars

\* A request shown as running is being served by the process it names, or is
\* stale: its process is dead, and the next server puts it back.
RunningIsServed ==
    \A r \in Requests : Live(running[r]) => proc[running[r]].req = r
=============================================================================
