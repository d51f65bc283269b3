------------------------------- MODULE HostAgent -------------------------------
(***************************************************************************)
(* The agent of a NixOS host (piceli/hosts/agent.py) that follows a ref:   *)
(* polls, pins, rollbacks; activation, checks, the boot entry; recovery of *)
(* an attempt that a kill or a reboot cut short; pruning of generations.   *)
(*                                                                         *)
(* A run of the agent holds a lock, so there is one at a time.  It reads   *)
(* state.json once and works on a copy in memory, which it writes whole at *)
(* a few places.  An action is one effect on the host with the saves and   *)
(* the decisions around it.  A build is its commit and its store path.     *)
(***************************************************************************)
EXTENDS Integers, Sequences, SequencesExt, FiniteSetsExt

CONSTANTS
    Builds,        \* the builds of the host's system
    First,         \* the one that runs at the beginning
    Broken,        \* the builds whose checks always fail
    Tagged,        \* the builds that have a tag
    None,          \* no build, no attempt
    Keep,          \* generations to keep
    MaxPublish,    \* bound: dates of a pointer
    MaxCommands,   \* bound: pin, unpin and rollback
    MaxTroubles,   \* bound: failing steps, kills, reboots, switches by hand
    MaxEvents      \* bound: commands and troubles together

ASSUME AgentAssumption ==
    /\ First \in Builds /\ Broken \subseteq Builds \ {First}
    /\ Tagged \subseteq Builds
    /\ None \notin Builds
    /\ Keep \in Nat /\ Keep >= 2
    /\ {MaxPublish, MaxCommands, MaxTroubles, MaxEvents} \subseteq Nat

VARIABLES
    refs,      \* the followed ref's pointer and its date; the tags' dates
    host,      \* what runs, what was booted, boot entry, generations, store
    disk,      \* state.json
    mem,       \* the agent's copy of it
    proc,      \* the agent's run
    commands, troubles,
    past       \* what happened so far: see Init

vars == <<refs, host, disk, mem, proc, commands, troubles, past>>

-----------------------------------------------------------------------------
(* Data.                                                                   *)

\* An attempt: what is deployed over what, when it was published, whether its
\* boot step started, and who asked for it.
Attempt == [build : Builds, from : Builds, at : Nat, booting : BOOLEAN,
            trigger : {"poll", "pin", "rollback"}]

ASSUME NoneIsNoAttempt == None \notin Attempt

State == [current : Builds \cup {None}, previous : Builds \cup {None},
          hold : Builds \cup {None}, pending : Attempt \cup {None},
          bad : [Builds -> Nat]]
Fresh == [current |-> None, previous |-> None, hold |-> None, pending |-> None,
          bad |-> [b \in Builds |-> 0]]

Idle == [pc |-> "idle", does |-> None, pin |-> None, attempt |-> None,
         recovers |-> FALSE]

Init ==
    /\ refs = [head |-> None, at |-> 0, tags |-> [b \in Tagged |-> 0]]
    /\ host = [running |-> First, booted |-> First, entry |-> First,
               gens |-> <<First>>, store |-> {First}]
    /\ disk = Fresh /\ mem = Fresh /\ proc = Idle
    /\ commands = 0 /\ troubles = 0
    \* The systems that passed their checks or that somebody switched to; the
    \* newest publication of each build whose activation or checks failed or were
    \* cut short, and the builds of which an older one failed since; whether a
    \* rollback failed, or a run was cut short after its boot step, or in a
    \* rollback before the boot entry was back; whether somebody switched by hand.
    /\ past = [checked |-> {First}, failed |-> [b \in Builds |-> 0], older |-> {},
               stuck |-> FALSE, torn |-> FALSE, half |-> FALSE, byHand |-> FALSE]

\* Every variable has its type, the profile has a generation, and an attempt
\* goes from one system to another.
TypeOK ==
    /\ refs \in [head : Builds \cup {None}, at : 0 .. MaxPublish,
                tags : [Tagged -> 0 .. MaxPublish]]
    /\ host.running \in Builds /\ host.booted \in Builds /\ host.entry \in Builds
    /\ host.gens \in Seq(Builds) /\ host.gens # <<>>
    /\ host.store \subseteq Builds
    /\ disk \in State /\ mem \in State
    /\ \A state \in {disk, mem} :
          state.pending # None => state.pending.from # state.pending.build
    /\ proc.attempt \in Attempt \cup {None}
    /\ troubles \in 0 .. MaxTroubles

-----------------------------------------------------------------------------
(* Helpers.                                                                *)

At(pc) == proc.pc = pc
Goto(pc) == proc' = [proc EXCEPT !.pc = pc]
Faulty ==
    /\ troubles < MaxTroubles /\ commands + troubles < MaxEvents
    /\ troubles' = troubles + 1
NoFault == UNCHANGED troubles
Job == proc.attempt

\* Mutant: an older mark does for the publication it was made of.
BadBefore(b) == mem.bad[b] > refs.at

\* _bad(): the pointer that a poll found is no newer than the build's mark.
Bad(b) == refs.at <= mem.bad[b]

\* The state with an attempt marked bad, whatever the mark was; a rollback marks
\* nothing.
WithBad(state, job) ==
    IF job.trigger = "rollback" THEN state
    ELSE [state EXCEPT !.bad[job.build] = job.at]

\* What past remembers of an attempt that did not end well, and of one whose
\* build was refused.
Failing(job) ==
    IF job.trigger = "rollback" THEN past
    ELSE IF job.at < past.failed[job.build]
    THEN [past EXCEPT !.older = @ \cup {job.build}]
    ELSE [past EXCEPT !.failed[job.build] = job.at, !.older = @ \ {job.build}]
Refusing(job) ==
    [past EXCEPT !.older = @ \cup {b \in {job.build} : job.at < past.failed[b]}]

\* nix-env --set: the newest generation again, or a new one.
SetProfile(gens, b) == IF Last(gens) = b THEN gens ELSE Append(gens, b)

\* Mutant: the newest generations and nothing else.
PrunedNewest(gens) == SubSeq(gens, Max({1, Len(gens) - Keep + 1}), Len(gens))

\* _plan_prune(): the newest generations, and the last one of each system of
\* the state that is not among them.
Pruned(gens) ==
    LET newest == {i \in DOMAIN gens : i > Len(gens) - Keep}
        systems == {mem.current, mem.previous, mem.hold}
                       \ {gens[i] : i \in newest}
        protected == {Max({i \in DOMAIN gens : gens[i] = b}) :
                         b \in systems \cap {gens[i] : i \in DOMAIN gens}}
        kept == newest \cup protected
    IN  [n \in 1 .. Cardinality(kept) |->
            gens[CHOOSE i \in kept : Cardinality({j \in kept : j <= i}) = n]]

\* What nix-store --gc leaves.
Roots == {host.running, host.booted} \cup {host.gens[i] : i \in DOMAIN host.gens}

-----------------------------------------------------------------------------
(* What happens to the host.                                               *)

\* A build becomes the followed ref's, maybe again, or a tag's.  A pointer is
\* always dated after the one it replaces, whatever the other pointers' dates.
Publish(b) ==
    /\ \/ \E date \in refs.at + 1 .. MaxPublish :
              refs' = [refs EXCEPT !.at = date, !.head = b]
       \/ /\ b \in Tagged
          /\ \E date \in refs.tags[b] + 1 .. MaxPublish :
                 refs' = [refs EXCEPT !.tags[b] = date]
    /\ UNCHANGED <<host, disk, mem, proc, commands, troubles, past>>

\* nixos-rebuild switch.
SwitchByHand(b) ==
    /\ Faulty /\ b # host.running
    /\ host' = [host EXCEPT !.running = b, !.entry = b, !.store = @ \cup {b},
                            !.gens = SetProfile(@, b)]
    /\ past' = [past EXCEPT !.checked = @ \cup {b}, !.byHand = TRUE]
    /\ UNCHANGED <<refs, disk, mem, proc, commands>>

\* The run ends wherever it is; what it did not save is gone.
Dies ==
    /\ proc' = Idle /\ mem' = Fresh
    /\ past' = [(IF disk.pending # None THEN Failing(disk.pending) ELSE past)
                   EXCEPT !.torn = @ \/ proc.pc \in {"prune", "collect", "finish"},
                          !.half = @ \/ proc.pc \in {"undoProfile", "undoEntry"}]

Kill ==
    /\ Faulty /\ ~At("idle")
    /\ Dies
    /\ UNCHANGED <<refs, host, disk, commands>>

Reboot ==
    /\ Faulty
    /\ host' = [host EXCEPT !.running = host.entry, !.booted = host.entry]
    /\ Dies
    /\ UNCHANGED <<refs, disk, commands>>

-----------------------------------------------------------------------------
(* A run begins: _load(), then what it was called for.                     *)

\* _load(): a pending attempt is undone first, if it runs.
Load(does, b) ==
    LET left == disk.pending
    IN  /\ At("idle")
        /\ mem' = disk
        /\ proc' = [pc |-> IF left = None THEN "decide"
                           ELSE IF host.running = left.build THEN "undo" ELSE "undone",
                    does |-> does, pin |-> b, attempt |-> left,
                    recovers |-> left # None]
        /\ UNCHANGED <<refs, host, disk, troubles, past>>

Poll == Load("poll", None) /\ UNCHANGED commands
Command ==
    /\ commands < MaxCommands /\ commands + troubles < MaxEvents
    /\ commands' = commands + 1
    /\ \/ \E b \in Tagged : refs.tags[b] > 0 /\ Load("pin", b)
       \/ Load("unpin", None)
       \/ Load("rollback", None)

\* The date of the pointer that named the build: the followed ref's or the tag's.
PublishedAt(b) == CASE proc.does = "poll" -> refs.at
                    [] proc.does = "pin" -> refs.tags[b]
                    [] OTHER -> 0

\* Mutant: the attempt goes back to what state.json calls the previous system.
AttemptFromPrevious(b) ==
    [build |-> b, from |-> mem.previous, at |-> PublishedAt(b), booting |-> FALSE,
     trigger |-> proc.does]

\* deploy() of a build over what runs.
AttemptOf(b) ==
    [build |-> b, from |-> host.running, at |-> PublishedAt(b), booting |-> FALSE,
     trigger |-> proc.does]

\* What a run deploys, if anything.
Wanted ==
    CASE proc.does = "poll" /\ mem.hold = None /\ refs.head # None ->
            IF Bad(refs.head) THEN {} ELSE {refs.head} \ {host.running}
      [] proc.does = "pin" -> {proc.pin} \ {host.running}
      [] proc.does = "rollback" -> ({mem.previous} \cap host.store) \ {host.running}
      [] OTHER -> {}

\* Mutant: a pin holds before it is deployed.
HoldAtOnce ==
    CASE proc.does = "unpin" -> None
      [] proc.does = "pin" -> proc.pin
      [] OTHER -> mem.hold

\* The hold of a run that deploys nothing.
Hold ==
    CASE proc.does = "unpin" -> None
      [] proc.does = "pin" /\ proc.pin = host.running -> proc.pin
      [] OTHER -> mem.hold

\* run_once() and control(): whatever runs is the current system.
Decide ==
    /\ At("decide")
    /\ mem' = [mem EXCEPT !.current = host.running, !.hold = Hold]
    /\ \/ Wanted = {} /\ Goto("finish")
       \/ \E b \in Wanted :
            proc' = [proc EXCEPT !.attempt = AttemptOf(b), !.recovers = FALSE,
                                 !.pc = IF proc.does = "rollback" THEN "mark" ELSE "fetch"]
    /\ UNCHANGED <<refs, host, disk, commands, troubles, past>>

-----------------------------------------------------------------------------
(* deploy().                                                               *)

\* The stages verify and realise; a build whose signatures or digests do not
\* match is refused and bad, one that cannot be fetched is not.
Fetch ==
    /\ At("fetch")
    /\ disk' = mem
    /\ \/ /\ host' = [host EXCEPT !.store = @ \cup {Job.build}]
          /\ Goto("mark") /\ NoFault /\ UNCHANGED <<mem, past>>
       \/ /\ Faulty /\ Goto("finish") /\ UNCHANGED host
          /\ \/ UNCHANGED <<mem, past>>
             \/ mem' = WithBad(mem, Job) /\ past' = Refusing(Job)
    /\ UNCHANGED <<refs, commands>>

\* Mutant: the pending attempt is kept in memory.
MarkInMemory ==
    /\ At("mark")
    /\ mem' = [mem EXCEPT !.pending = Job]
    /\ disk' = mem
    /\ Goto("activate")
    /\ UNCHANGED <<refs, host, commands, troubles, past>>

\* The pending attempt is on disk before the activation.
Mark ==
    /\ At("mark")
    /\ mem' = [mem EXCEPT !.pending = Job]
    /\ disk' = mem'
    /\ Goto("activate")
    /\ UNCHANGED <<refs, host, commands, troubles, past>>

\* A step of the deployment fails, with or without its effect.
StepFails(with) ==
    /\ Faulty
    /\ host' \in {host, with}
    /\ Goto("undo")
    /\ past' = Failing(Job)
    /\ UNCHANGED <<disk, mem>>

\* Mutant: the activation is a switch, which moves the boot entry at once.
ActivateSwitches ==
    LET with == [host EXCEPT !.running = Job.build, !.entry = Job.build]
    IN  /\ At("activate")
        /\ \/ host' = with /\ Goto("checks") /\ NoFault /\ UNCHANGED <<disk, mem, past>>
           \/ StepFails(with)
        /\ UNCHANGED <<refs, commands>>

\* activate(): switch-to-configuration test.
Activate ==
    LET with == [host EXCEPT !.running = Job.build]
    IN  /\ At("activate")
        /\ \/ host' = with /\ Goto("checks") /\ NoFault /\ UNCHANGED <<disk, mem, past>>
           \/ StepFails(with)
        /\ UNCHANGED <<refs, commands>>

\* The checks pass, and the attempt is saved as one that changes the boot entry.
ChecksPass ==
    /\ At("checks") /\ Job.build \notin Broken
    /\ mem' = [mem EXCEPT !.pending.booting = TRUE]
    /\ disk' = mem'
    /\ proc' = [proc EXCEPT !.pc = "profile", !.attempt.booting = TRUE]
    /\ past' = [past EXCEPT !.checked = @ \cup {Job.build}]
    /\ UNCHANGED <<refs, host, commands, troubles>>

ChecksFail ==
    /\ At("checks")
    /\ IF Job.build \in Broken THEN NoFault ELSE Faulty
    /\ Goto("undo")
    /\ past' = Failing(Job)
    /\ UNCHANGED <<refs, host, disk, mem, commands>>

\* make_default(): the profile, then the boot entry.
Profile ==
    LET with == [host EXCEPT !.gens = SetProfile(@, Job.build)]
    IN  /\ At("profile")
        /\ \/ host' = with /\ Goto("entry") /\ NoFault /\ UNCHANGED <<disk, mem, past>>
           \/ StepFails(with)
        /\ UNCHANGED <<refs, commands>>

\* The deployment is complete, in memory.
Entry ==
    LET with == [host EXCEPT !.entry = Job.build]
    IN  /\ At("entry")
        /\ \/ /\ host' = with /\ Goto("prune") /\ NoFault
              /\ mem' = [mem EXCEPT !.previous = mem.current, !.current = Job.build,
                                    !.pending = None]
              /\ UNCHANGED <<disk, past>>
           \/ StepFails(with)
        /\ UNCHANGED <<refs, commands>>

\* prune(): generations, then the store; a failure changes nothing else.
Prune ==
    /\ At("prune")
    /\ Goto("collect")
    /\ \/ host' = [host EXCEPT !.gens = Pruned(@)] /\ NoFault
       \/ Faulty /\ UNCHANGED host
    /\ UNCHANGED <<refs, disk, mem, commands, past>>

\* Then a pin or a rollback holds what it deployed.
Collect ==
    /\ At("collect")
    /\ Goto("finish")
    /\ mem' = IF proc.does = "poll" THEN mem ELSE [mem EXCEPT !.hold = mem.current]
    /\ \/ host' = [host EXCEPT !.store = Roots] /\ NoFault
       \/ Faulty /\ UNCHANGED host
    /\ UNCHANGED <<refs, disk, commands, past>>

\* _finish()
Finish ==
    /\ At("finish")
    /\ disk' = mem
    /\ mem' = Fresh /\ proc' = Idle
    /\ UNCHANGED <<refs, host, commands, troubles, past>>

-----------------------------------------------------------------------------
(* _rollback(), of a failed attempt or of one that was cut short.          *)

\* One of its steps: a failure ends it, with or without the step's effect.
UndoStep(with, next) ==
    /\ \/ host' = with /\ Goto(next) /\ NoFault /\ UNCHANGED past
       \/ /\ Faulty /\ host' \in {host, with} /\ Goto("undone")
          /\ past' = [past EXCEPT !.stuck = TRUE]
    /\ UNCHANGED <<refs, disk, mem, commands>>

Undo ==
    /\ At("undo")
    /\ IF Job.from \in host.store
       THEN UndoStep([host EXCEPT !.running = Job.from],
                     IF Job.booting THEN "undoProfile" ELSE "undone")
       ELSE /\ Goto("undone")
            /\ past' = [past EXCEPT !.stuck = TRUE]
            /\ UNCHANGED <<refs, host, disk, mem, commands, troubles>>
UndoProfile ==
    /\ At("undoProfile")
    /\ UndoStep([host EXCEPT !.gens = SetProfile(@, Job.from)], "undoEntry")
UndoEntry ==
    /\ At("undoEntry")
    /\ UndoStep([host EXCEPT !.entry = Job.from], "undone")

\* Mutant: a run that was cut short is undone, and its build is tried again.
UndoneUnmarked ==
    /\ At("undone")
    /\ mem' = [(IF proc.recovers THEN mem ELSE WithBad(mem, Job)) EXCEPT !.pending = None]
    /\ IF proc.recovers THEN disk' = mem' /\ Goto("decide")
       ELSE UNCHANGED disk /\ Goto("finish")
    /\ UNCHANGED <<refs, host, commands, troubles, past>>

\* The build is bad and nothing is pending; _recover() saves that and goes on.
Undone ==
    /\ At("undone")
    /\ mem' = [WithBad(mem, Job) EXCEPT !.pending = None]
    /\ IF proc.recovers THEN disk' = mem' /\ Goto("decide")
       ELSE UNCHANGED disk /\ Goto("finish")
    /\ UNCHANGED <<refs, host, commands, troubles, past>>

-----------------------------------------------------------------------------
Agent ==
    \/ Decide \/ Fetch \/ Mark \/ Activate \/ ChecksPass \/ ChecksFail
    \/ Profile \/ Entry \/ Prune \/ Collect \/ Finish
    \/ Undo \/ UndoProfile \/ UndoEntry \/ Undone

Next ==
    \/ Agent \/ Poll \/ Command
    \/ \E b \in Builds : Publish(b) \/ SwitchByHand(b)
    \/ Kill \/ Reboot

\* The timer starts polls, and a run goes on: every command it starts has a
\* time limit.
Spec == Init /\ [][Next]_vars /\ WF_vars(Agent) /\ WF_vars(Poll)

-----------------------------------------------------------------------------
(* What the agent promises.                                                *)

Quiet == At("idle") /\ disk.pending = None

\* Between runs, with no attempt to recover, the host runs a system that passed
\* its checks, wherever a run was cut short, if no rollback failed.
EndsOnChecked == Quiet /\ ~past.stuck => host.running \in past.checked

\* A reboot, at any moment, comes up on a system that passed its checks and is
\* in the store.
BootsOnChecked ==
    ~past.stuck => host.entry \in past.checked /\ host.entry \in host.store

\* Between runs, with no attempt to recover, the host boots what it runs, if no
\* rollback failed: a rollback takes the boot entry back too.
BootsWhatRuns == Quiet /\ ~past.stuck /\ ~past.byHand => host.entry = host.running

\* Pruning spares what may still be needed: the system that a pending attempt
\* goes back to and, unless a run was cut short between its boot step and its
\* last save, the one that a rollback goes back to.
TargetsKept ==
    At("idle") /\ ~past.stuck =>
        /\ disk.pending # None => disk.pending.from \in host.store
        /\ Quiet /\ ~past.torn => disk.previous \in host.store \cup {None}

\* Whatever was pinned or rolled back to is what runs, also after a later pin
\* that failed or was cut short, if its rollback was not.
HeldRuns ==
    Quiet /\ ~past.stuck /\ ~past.half /\ ~past.byHand => disk.hold \in {None, host.running}

\* A poll never tries a publication again that failed or was cut short, unless
\* an older one of the same build failed or was refused since: the mark is then
\* that one's (_bad; 1336-1338 and 1560-1563 overwrite it).
BadNotRetried ==
    [][At("activate") /\ Job.trigger = "poll" /\ ~At("activate")'
          => \/ Job.at > past.failed[Job.build]
             \/ Job.build \in past.older
             \/ proc'.pc = "idle"]_vars

\* In the end nothing is pending, and the host runs the newest build, unless
\* that failed or another is held.
Follows ==
    <>[](/\ disk.pending = None
         /\ \/ disk.hold # None \/ refs.head \in {None, host.running}
            \/ refs.at <= disk.bad[refs.head])
=============================================================================
