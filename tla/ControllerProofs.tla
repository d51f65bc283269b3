--------------------------- MODULE ControllerProofs ---------------------------
(***************************************************************************)
(* Theorems about Controller, for any branches, contents, policy and       *)
(* bounds, whatever people do and whenever the controller is killed.       *)
(***************************************************************************)
EXTENDS Controller, TLAPS

-----------------------------------------------------------------------------
(* The inductive invariant.                                                *)

Listing == {"read", "handle", "remove", "desire"}   \* works on ctl.refs
Planning == {"plan", "apply"}                       \* works with an approval
InStep == Planning \cup {"down", "stop"}            \* works on Env's record
Labels == Listing \cup InStep \cup {"poll", "fetch", "pick", "save"}

Git == [head : [Branches -> Commit \cup {None}],
        tag : [id : 0 .. MaxPushes, commit : Commit \cup {None}]]
Ctl == [pc : Labels, refs : Git \cup {None},
        got : SUBSET Request, handled : SUBSET Request,
        due : SUBSET Envs, idle : SUBSET Branches, env : Envs \cup {None},
        approve : Hash \cup {None, ByPolicy}, hash : Hash \cup {None}, again : BOOLEAN]
Past == [asked : SUBSET (Envs \X Hash), approved : SUBSET (Envs \X Hash),
         owner : [Envs -> Hash \cup {None}], unsaved : SUBSET Request,
         lost : BOOLEAN, torn : BOOLEAN]

\* A record of an environment: what its state needs, and that its approvals are
\* among those the owner gave for it.
Given(e, hash, approved) == hash # None => <<e, hash>> \in approved
Sound(e, rec, approved) ==
    /\ rec \in Record
    /\ rec.state = "approval-required" => rec.plan # None
    /\ rec.state = "retrying" => rec.attempts > 0
    /\ rec.state = "deleting" => e # Main
    /\ Given(e, rec.approved, approved)
    /\ Given(e, rec.deployedHash, approved)
Records(envs, approved) ==
    \A e \in Envs : envs[e] = None \/ Sound(e, envs[e], approved)

\* A tag has a commit.
Tagged(refs) == refs.tag.id > 0 => refs.tag.commit # None

Typed ==
    /\ git \in Git /\ Tagged(git)
    /\ pushes \in 0 .. MaxPushes /\ sent \in 0 .. MaxRequests
    /\ inbox \in SUBSET Request
    /\ live \in [Envs -> Runs]
    /\ mem \in State /\ Records(mem.envs, past.approved)
    /\ disk \in State /\ Records(disk.envs, past.approved)
    /\ ctl \in Ctl
    /\ troubles \in 0 .. MaxTroubles
    /\ past \in Past

\* An approval that was sent was given.
Vouched ==
    \A r \in inbox \cup ctl.got :
        r.kind = "approve" => <<r.env, r.arg>> \in past.approved

\* What the controller has in hand where it is.
Placed ==
    /\ ctl.pc \in Listing => ctl.refs \in Git /\ Tagged(ctl.refs)
    /\ ctl.pc \in InStep \cup {"save"} => Env \in Envs \ (ctl.due \cup ctl.idle)
    /\ ctl.pc \in InStep => Rec # None
    /\ ctl.due \cap ctl.idle = {}
    /\ \A e \in ctl.due \cup ctl.idle : mem.envs[e] # None

\* An approval covers a plan by its hash, the policy what is within it.
Covers(approve, hash) ==
    \/ approve = hash
    \/ approve = ByPolicy /\ Within(hash)

\* The approval of a step is the owner's for that environment, or the policy's;
\* unless the environment showed a plan that was approved before, it is that of
\* the record; and what is applied is what it covers.
Entitled ==
    /\ ctl.again => ctl.pc \in Planning \cup {"save"}
    /\ ctl.pc \in Planning =>
          /\ ctl.approve \in Hash => <<Env, ctl.approve>> \in past.approved
          /\ ctl.approve = ByPolicy => Env \in PolicyEnvs
          /\ IF ctl.again
             THEN ctl.approve \in Hash /\ ctl.approve = Rec.deployedHash
             ELSE Rec.approved = IF ctl.approve \in Hash THEN ctl.approve ELSE None
    /\ At("apply") => ctl.hash \in Hash /\ Covers(ctl.approve, ctl.hash)

\* A plan that a record remembers as approved is that of the release which was
\* deployed last, on disk from the end of a step on.
Owned(envs) ==
    \A e \in Envs : envs[e] # None /\ envs[e].deployedHash # None =>
        past.owner[e] = envs[e].deployedHash
Remembered ==
    ~past.torn => Owned(mem.envs) /\ (~At("save") => Owned(disk.envs))

\* What runs has a record in memory, and what has one there has one on disk.
Recorded ==
    \A e \in Branches : /\ live[e] # Nothing => mem.envs[e] # None
                        /\ mem.envs[e] # None => disk.envs[e] # None

\* A request that was acted on is in the inbox until it is removed, between
\* which and the save there is one step.
Unsaved ==
    /\ past.unsaved # {} => ctl.pc \in {"handle", "remove", "desire"}
    /\ ctl.pc \in {"poll", "read"} => ctl.handled = {}
    /\ ctl.pc \in {"handle", "remove"} =>
          ctl.got \cup ctl.handled \subseteq inbox /\ past.unsaved \subseteq ctl.handled
    /\ past.lost => past.torn

Inv == Typed /\ Vouched /\ Placed /\ Entitled /\ Remembered /\ Recorded /\ Unsaved

-----------------------------------------------------------------------------
(* Records.                                                                *)

\* What a record and its fields are.
LEMMA RecordFields ==
    ASSUME NEW e, NEW rec, NEW approved, Sound(e, rec, approved)
    PROVE  /\ rec \in Record /\ rec # None
           /\ rec.commit \in Commit /\ rec.commit # None
           /\ rec.deployed \in Commit \cup {None}
           /\ rec.deployedHash \in Hash \cup {None}
           /\ rec.attempts \in Nat /\ rec.waits \in BOOLEAN
           /\ rec.plan \in Hash \cup {None} /\ rec.approved \in Hash \cup {None}
           /\ rec.state \in {"pending", "retrying", "approval-required", "deployed",
                             "failed", "deleting", "stopped"}
           /\ rec.state = "approval-required" => rec.plan # None
           /\ rec.state = "retrying" => rec.attempts > 0
           /\ rec.state = "deleting" => e # Main
           /\ Given(e, rec.approved, approved)
           /\ Given(e, rec.deployedHash, approved)
  BY NamesAreNoValues DEF Sound, Record

\* A record that asks for a commit remembers what was deployed.
LEMMA WantedSound ==
    ASSUME NEW e, NEW rec, NEW approved, NEW commit \in Commit,
           rec = None \/ Sound(e, rec, approved)
    PROVE  /\ Sound(e, Wanted(rec, commit), approved)
           /\ Wanted(rec, commit).deployedHash \in
                 {None, IF rec = None THEN None ELSE rec.deployedHash}
<1>1. CASE rec = None
  BY <1>1, NamesAreNoValues DEF Wanted, Sound, Record, Given
<1>2. CASE Sound(e, rec, approved)
  BY <1>2, RecordFields, NamesAreNoValues DEF Wanted, Sound, Record, Given
<1> QED
  BY <1>1, <1>2

LEMMA DoomedSound ==
    ASSUME NEW e, e # Main, NEW rec, NEW approved, rec = None \/ Sound(e, rec, approved)
    PROVE  /\ Doomed(rec) = None <=> rec = None
           /\ rec # None => /\ Sound(e, Doomed(rec), approved)
                            /\ Doomed(rec).deployedHash = rec.deployedHash
<1>1. CASE rec = None
  BY <1>1 DEF Doomed
<1>2. CASE Sound(e, rec, approved)
  <2>0. /\ rec \in Record /\ rec # None /\ rec.commit \in Commit
        /\ rec.approved \in Hash \cup {None} /\ rec.plan \in Hash \cup {None}
        /\ rec.deployedHash \in Hash \cup {None} /\ rec.attempts \in Nat
    BY <1>2, RecordFields
  <2>1. Doomed(rec) \in Record /\ Doomed(rec).state = "deleting"
        /\ Doomed(rec).approved = rec.approved /\ Doomed(rec).deployedHash = rec.deployedHash
    BY <2>0 DEF Doomed, Record
  <2> QED
    BY <1>2, <2>1, RecordFields, NamesAreNoValues DEF Sound
<1> QED
  BY <1>1, <1>2

\* A failed step is tried again or given up; its approval before is forgotten.
LEMMA FailedSound ==
    ASSUME NEW e, NEW rec, NEW approved, Sound(e, rec, approved), NEW back \in BOOLEAN
    PROVE  Sound(e, Failed(rec, back), approved) /\ Failed(rec, back).deployedHash = None
<1> DEFINE final == rec.state # "deleting" /\ (back \/ rec.attempts + 1 >= MaxAttempts)
           state == IF final THEN "failed"
                    ELSE IF rec.state = "deleting" THEN rec.state ELSE "retrying"
<1>1. Failed(rec, back) = [rec EXCEPT !.deployedHash = None, !.attempts = rec.attempts + 1,
                                      !.waits = ~final, !.state = state]
  BY DEF Failed
<1>2. final \in BOOLEAN /\ state \in {"failed", "deleting", "retrying"}
      /\ (state = "deleting" => rec.state = "deleting")
  OBVIOUS
<1>3. rec.attempts + 1 \in Nat /\ rec.attempts + 1 > 0
  BY RecordFields
<1> HIDE DEF final, state
<1>4. /\ Failed(rec, back) \in Record
      /\ Failed(rec, back).attempts = rec.attempts + 1
      /\ Failed(rec, back).state = state
      /\ Failed(rec, back).approved = rec.approved
      /\ Failed(rec, back).deployedHash = None
  BY <1>1, <1>2, <1>3, RecordFields DEF Record
<1> QED
  BY <1>2, <1>3, <1>4, RecordFields DEF Sound, Given

LEMMA DeployedSound ==
    ASSUME NEW e, NEW rec, NEW approved, Sound(e, rec, approved)
    PROVE  /\ Sound(e, Deployed(rec), approved)
           /\ Deployed(rec).deployedHash = rec.approved
           /\ Sound(e, Degraded(rec), approved) /\ Degraded(rec).deployedHash = None
<1>0. /\ rec \in Record /\ rec # None /\ rec.commit \in Commit
      /\ rec.approved \in Hash \cup {None} /\ rec.plan \in Hash \cup {None}
      /\ rec.deployedHash \in Hash \cup {None} /\ rec.attempts \in Nat
  BY RecordFields
<1>1. Deployed(rec) \in Record /\ Degraded(rec) \in Record
  BY <1>0 DEF Deployed, Degraded, Record
<1>2. /\ Deployed(rec).deployedHash = rec.approved /\ Deployed(rec).approved = None
      /\ Degraded(rec).deployedHash = None /\ Degraded(rec).approved = None
      /\ Deployed(rec).state = "deployed" /\ Degraded(rec).state = "deployed"
  BY RecordFields DEF Deployed, Degraded, Record
<1> QED
  BY <1>1, <1>2, RecordFields DEF Sound, Given

LEMMA AsksSound ==
    ASSUME NEW e, NEW rec, NEW approved, Sound(e, rec, approved), NEW hash \in Hash
    PROVE  /\ Sound(e, Asks(rec, hash), approved)
           /\ Asks(rec, hash).deployedHash = rec.deployedHash
<1>0. /\ rec \in Record /\ rec # None /\ rec.commit \in Commit
      /\ rec.approved \in Hash \cup {None} /\ rec.plan \in Hash \cup {None}
      /\ rec.deployedHash \in Hash \cup {None} /\ rec.attempts \in Nat
  BY RecordFields
<1>1. /\ Asks(rec, hash) \in Record
      /\ Asks(rec, hash).deployedHash = rec.deployedHash
      /\ Asks(rec, hash).approved = None /\ Asks(rec, hash).plan = hash
      /\ Asks(rec, hash).state = "approval-required"
  BY <1>0 DEF Asks, Record
<1> QED
  BY <1>1, RecordFields, NamesAreNoValues DEF Sound, Given

\* A backoff that ends.
LEMMA DueSound ==
    ASSUME NEW e, NEW rec, NEW approved, rec = None \/ Sound(e, rec, approved)
    PROVE  /\ Due(rec) = None <=> rec = None
           /\ rec # None => /\ Sound(e, Due(rec), approved)
                            /\ Due(rec).deployedHash = rec.deployedHash
                            /\ Due(rec).approved = rec.approved
<1>1. CASE rec = None
  BY <1>1 DEF Due
<1>2. CASE Sound(e, rec, approved)
  <2>0. /\ rec \in Record /\ rec # None /\ rec.commit \in Commit
        /\ rec.approved \in Hash \cup {None} /\ rec.plan \in Hash \cup {None}
        /\ rec.deployedHash \in Hash \cup {None} /\ rec.attempts \in Nat
    BY <1>2, RecordFields
  <2>1. /\ Due(rec) \in Record /\ Due(rec).state = rec.state /\ Due(rec).plan = rec.plan
        /\ Due(rec).attempts = rec.attempts
        /\ Due(rec).approved = rec.approved /\ Due(rec).deployedHash = rec.deployedHash
    BY <2>0 DEF Due, Record
  <2> QED
    BY <1>2, <2>1, RecordFields, NamesAreNoValues DEF Sound
<1> QED
  BY <1>1, <1>2

-----------------------------------------------------------------------------
(* What a step on an environment changes.                                  *)

LEMMA TypedFields ==
    ASSUME Typed
    PROVE  /\ mem.envs \in [Envs -> Record \cup {None}]
           /\ mem.seen \in 0 .. MaxPushes /\ mem.baseline \in BOOLEAN
           /\ disk.envs \in [Envs -> Record \cup {None}]
           /\ \A e \in Envs : /\ mem.envs[e] = None \/ Sound(e, mem.envs[e], past.approved)
                              /\ disk.envs[e] = None \/ Sound(e, disk.envs[e], past.approved)
           /\ past.owner \in [Envs -> Hash \cup {None}]
           /\ past.asked \subseteq Envs \X Hash /\ past.approved \subseteq Envs \X Hash
           /\ past.unsaved \in SUBSET Request
           /\ past.lost \in BOOLEAN /\ past.torn \in BOOLEAN
  BY DEF Typed, Records, State, Past

LEMMA CtlFields ==
    ASSUME Typed
    PROVE  /\ ctl.pc \in Labels /\ ctl.refs \in Git \cup {None}
           /\ ctl.got \in SUBSET Request /\ ctl.handled \in SUBSET Request
           /\ ctl.due \in SUBSET Envs /\ ctl.idle \in SUBSET Branches
           /\ ctl.env \in Envs \cup {None} /\ ctl.approve \in Hash \cup {None, ByPolicy}
           /\ ctl.hash \in Hash \cup {None} /\ ctl.again \in BOOLEAN
  BY DEF Typed, Ctl

LEMMA RecIs ==
    ASSUME Typed, Placed, ctl.pc \in InStep
    PROVE  Env \in Envs /\ Rec # None /\ Sound(Env, Rec, past.approved)
  BY TypedFields DEF Placed, Env, Rec

LEMMA SetRecIs ==
    ASSUME Typed, Env \in Envs, NEW rec, rec = None \/ Sound(Env, rec, past.approved),
           SetRec(Env, rec)
    PROVE  /\ mem' \in State
           /\ mem'.envs[Env] = rec
           /\ \A e \in Envs \ {Env} : mem'.envs[e] = mem.envs[e]
<1>1. rec \in Record \cup {None}
  BY DEF Sound
<1>2. mem \in State /\ mem' = [mem EXCEPT !.envs = [mem.envs EXCEPT ![Env] = rec]]
  BY DEF Typed, SetRec
<1>3. [mem.envs EXCEPT ![Env] = rec] \in [Envs -> Record \cup {None}]
  BY <1>1, TypedFields
<1>4. mem' \in State /\ mem'.envs = [mem.envs EXCEPT ![Env] = rec]
  BY <1>2, <1>3 DEF State
<1> QED
  BY <1>4, TypedFields

LEMMA OwnerIs ==
    ASSUME Typed, Env \in Envs, NEW hash \in Hash \cup {None}, Owner(hash)
    PROVE  /\ past' \in Past
           /\ past'.approved = past.approved /\ past'.unsaved = past.unsaved
           /\ past'.lost = past.lost /\ past'.torn = past.torn
           /\ past'.owner[Env] = hash
           /\ \A e \in Envs \ {Env} : past'.owner[e] = past.owner[e]
<1>1. past \in Past /\ past' = [past EXCEPT !.owner = [past.owner EXCEPT ![Env] = hash]]
  BY DEF Typed, Owner
<1>2. [past.owner EXCEPT ![Env] = hash] \in [Envs -> Hash \cup {None}]
  BY TypedFields
<1> QED
  BY <1>1, <1>2, TypedFields DEF Past

\* What runs, in terms of its fields.
LEMMA RunsAre ==
    ASSUME NEW runs \in Runs
    PROVE  /\ runs.workload \in Workloads \cup {None, Mixed}
           /\ runs.checked \in Contents \cup {None} /\ runs.up \in BOOLEAN
           /\ \A up \in BOOLEAN : [runs EXCEPT !.up = up] \in Runs
  BY DEF Runs

LEMMA CommitIs ==
    ASSUME NEW commit \in Commit
    PROVE  commit.is \in Contents /\ commit.is.workload \in Workloads
  BY DEF Commit, Workloads

LEMMA HashIs ==
    ASSUME NEW commit \in Commit, NEW runs \in Runs
    PROVE  PlanHash(commit, runs) \in Hash
  BY RunsAre, CommitIs DEF PlanHash, Hash

\* A step works on its environment: what it leaves alone, and what it leaves.
Worked ==
    /\ ctl.pc \in InStep
    /\ UNCHANGED <<git, inbox, people, disk>>
    /\ mem' \in State /\ live' \in [Envs -> Runs] /\ past' \in Past
    /\ troubles' \in 0 .. MaxTroubles
    /\ past'.approved = past.approved /\ past'.unsaved = past.unsaved
    /\ past'.lost = past.lost /\ past'.torn = past.torn
    /\ \A e \in Envs \ {Env} : /\ mem'.envs[e] = mem.envs[e]
                               /\ live'[e] = live[e]
                               /\ past'.owner[e] = past.owner[e]
    /\ mem'.envs[Env] = None \/ Sound(Env, mem'.envs[Env], past.approved)

\* It ends: without a record nothing runs, and an approved plan that its record
\* remembers is that of the release which runs.
Ended ==
    /\ ctl' = [ctl EXCEPT !.pc = "save"]
    /\ mem'.envs[Env] = None => live'[Env] = Nothing
    /\ ~past.torn /\ mem'.envs[Env] # None /\ mem'.envs[Env].deployedHash # None =>
          past'.owner[Env] = mem'.envs[Env].deployedHash

\* Or it has planned, or will plan again, with another approval.
Planned ==
    /\ At("plan")
    /\ ctl' \in Ctl /\ ctl'.pc \in Planning
    /\ ctl'.due = ctl.due /\ ctl'.idle = ctl.idle /\ ctl'.env = ctl.env
    /\ ctl'.got = ctl.got /\ ctl'.handled = ctl.handled
    /\ UNCHANGED live /\ past'.owner = past.owner
    /\ mem'.envs[Env] # None /\ mem'.envs[Env].deployedHash = Rec.deployedHash
    /\ Entitled'

\* A step that fails, in an environment that runs what it ran or something else.
LEMMA Fails ==
    ASSUME Typed, Placed, ctl.pc \in InStep, NEW back \in BOOLEAN, Fail(back), EndStep,
           Owner(None), UNCHANGED <<git, inbox, people, disk>>, troubles' \in 0 .. MaxTroubles,
           \/ UNCHANGED live
           \/ \E runs \in Runs : Run(runs)
    PROVE  Worked /\ Ended
<1>1. Env \in Envs /\ Rec # None /\ Sound(Env, Rec, past.approved)
  BY RecIs
<1>2. /\ mem' \in State /\ mem'.envs[Env] = Failed(Rec, back)
      /\ \A e \in Envs \ {Env} : mem'.envs[e] = mem.envs[e]
  BY <1>1, FailedSound, SetRecIs DEF Fail
<1>3. live' \in [Envs -> Runs] /\ \A e \in Envs \ {Env} : live'[e] = live[e]
  BY <1>1 DEF Typed, Run
<1>4. Sound(Env, Failed(Rec, back), past.approved) /\ Failed(Rec, back).deployedHash = None
  BY <1>1, FailedSound
<1>5. ctl' = [ctl EXCEPT !.pc = "save"]
  BY DEF EndStep, Goto
<1>6. Worked
  BY <1>1, <1>2, <1>3, <1>4, OwnerIs DEF Worked
<1> QED
  BY <1>2, <1>4, <1>5, <1>6, RecordFields DEF Ended

LEMMA PrepareFailsStep ==
    ASSUME Inv, PrepareFails PROVE Worked /\ Ended
<1>1. Typed /\ Placed /\ ctl.pc \in InStep /\ At("plan")
  BY DEF Inv, PrepareFails, At, InStep, Planning
<1>2. Env \in Envs /\ Rec # None /\ Sound(Env, Rec, past.approved)
  BY <1>1, RecIs
<1>3. /\ mem' \in State /\ mem'.envs[Env] = Failed(Rec, FALSE)
      /\ \A e \in Envs \ {Env} : mem'.envs[e] = mem.envs[e]
  BY <1>1, <1>2, FailedSound, SetRecIs DEF PrepareFails, Fail
<1>4. Sound(Env, Failed(Rec, FALSE), past.approved) /\ Failed(Rec, FALSE).deployedHash = None
  BY <1>2, FailedSound
<1>5. UNCHANGED <<git, inbox, people, disk, live, past>> /\ ctl' = [ctl EXCEPT !.pc = "save"]
  BY DEF PrepareFails, world, EndStep, Goto
<1>6. troubles' \in 0 .. MaxTroubles
  BY <1>1, ControllerAssumption DEF PrepareFails, Faulty, Typed
<1>7. Worked
  BY <1>1, <1>2, <1>3, <1>4, <1>5, <1>6 DEF Worked, Typed
<1> QED
  BY <1>3, <1>4, <1>5, <1>7, RecordFields DEF Ended

\* The environment asks its owner for an approval.
LEMMA AskStep ==
    ASSUME Inv, At("plan"), NEW hash \in Hash, Ask(hash),
           UNCHANGED <<git, inbox, people, disk, live, troubles>>
    PROVE  Worked /\ Ended
<1>1. Typed /\ Placed /\ Remembered /\ ctl.pc \in InStep
  BY DEF Inv, At, InStep, Planning
<1>2. Env \in Envs /\ Rec # None /\ Sound(Env, Rec, past.approved)
  BY <1>1, RecIs
<1>3. Sound(Env, Asks(Rec, hash), past.approved) /\ Asks(Rec, hash).deployedHash = Rec.deployedHash
  BY <1>2, AsksSound
<1>4. /\ mem' \in State /\ mem'.envs[Env] = Asks(Rec, hash)
      /\ \A e \in Envs \ {Env} : mem'.envs[e] = mem.envs[e]
  BY <1>1, <1>2, <1>3, SetRecIs DEF Ask
<1>5. past \in Past /\ past' = [past EXCEPT !.asked = past.asked \cup {<<Env, hash>>}]
  BY <1>1 DEF Ask, Typed
<1>6. past.asked \cup {<<Env, hash>>} \subseteq Envs \X Hash
  BY <1>1, <1>2, TypedFields
<1>7. /\ past' \in Past
      /\ past'.approved = past.approved /\ past'.unsaved = past.unsaved
      /\ past'.lost = past.lost /\ past'.torn = past.torn /\ past'.owner = past.owner
  BY <1>5, <1>6 DEF Past
<1>8. ctl' = [ctl EXCEPT !.pc = "save"]
  BY DEF Ask, EndStep, Goto
<1>9. Worked
  BY <1>1, <1>2, <1>3, <1>4, <1>7 DEF Worked, Typed
<1>10. ~past.torn /\ Rec.deployedHash # None => past.owner[Env] = Rec.deployedHash
  BY <1>1, <1>2 DEF Remembered, Owned, Rec
<1> QED
  BY <1>2, <1>3, <1>4, <1>7, <1>8, <1>9, <1>10, RecordFields DEF Ended

\* The plan of the step, when there is one to make.
LEMMA PlanIs ==
    ASSUME Typed, Placed, ctl.pc \in InStep
    PROVE  /\ Env \in Envs /\ Rec # None /\ Sound(Env, Rec, past.approved)
           /\ live[Env] \in Runs
           /\ Rec.commit \in Commit /\ PlanHash(Rec.commit, live[Env]) \in Hash
           /\ Rec.deployedHash \in Hash \cup {None} /\ Rec.approved \in Hash \cup {None}
           /\ Given(Env, Rec.deployedHash, past.approved)
           /\ Given(Env, Rec.approved, past.approved)
<1>1. Env \in Envs /\ Rec # None /\ Sound(Env, Rec, past.approved)
  BY RecIs
<1>2. live[Env] \in Runs
  BY <1>1 DEF Typed
<1> QED
  BY <1>1, <1>2, RecordFields, HashIs

\* Planning goes on without a change of anything but the controller.
LEMMA PlansOn ==
    ASSUME Inv, At("plan"), UNCHANGED <<world, people, disk, mem, troubles, past>>,
           NEW approve \in Hash \cup {None, ByPolicy}, NEW again \in BOOLEAN,
           NEW hash \in Hash \cup {None}, NEW pc \in Planning,
           ctl' = [ctl EXCEPT !.approve = approve, !.again = again, !.hash = hash, !.pc = pc],
           approve \in Hash => <<Env, approve>> \in past.approved,
           approve = ByPolicy => Env \in PolicyEnvs,
           again => approve \in Hash /\ approve = Rec.deployedHash,
           ~again => Rec.approved = IF approve \in Hash THEN approve ELSE None,
           pc = "apply" => hash \in Hash /\ Covers(approve, hash)
    PROVE  Worked /\ Planned
<1>1. Typed /\ Placed /\ ctl.pc \in InStep /\ ctl \in Ctl
  BY DEF Inv, At, InStep, Planning, Typed
<1>2. Env \in Envs /\ Rec # None /\ Sound(Env, Rec, past.approved)
  BY <1>1, PlanIs
<1>3. Worked
  BY <1>1, <1>2 DEF Worked, Typed, world, Rec
<1>4. pc \in Labels
  BY DEF Planning, Labels, InStep
<1>5. /\ ctl' \in Ctl /\ ctl'.pc = pc /\ ctl'.approve = approve
      /\ ctl'.again = again /\ ctl'.hash = hash
      /\ ctl'.due = ctl.due /\ ctl'.idle = ctl.idle /\ ctl'.env = ctl.env
      /\ ctl'.got = ctl.got /\ ctl'.handled = ctl.handled
  BY <1>1, <1>4 DEF Ctl
<1>6. Entitled'
  BY <1>5, <1>1 DEF Entitled, Env, Rec, At
<1> QED
  BY <1>2, <1>3, <1>5, <1>6 DEF Planned, world, Rec

LEMMA PlanAsksStep == ASSUME Inv, PlanAsks PROVE Worked /\ (Ended \/ Planned)
<1> DEFINE hash == PlanHash(Rec.commit, live[Env])
<1>1. Typed /\ Placed /\ Entitled /\ ctl.pc \in InStep /\ At("plan")
  BY DEF Inv, PlanAsks, At, InStep, Planning
<1>2. hash \in Hash /\ Given(Env, Rec.deployedHash, past.approved) /\ Env \in Envs
  BY <1>1, PlanIs
<1>3. UNCHANGED <<git, inbox, people, disk, live, troubles>>
  BY DEF PlanAsks, world
<1>4. CASE Rec.deployedHash = hash
  <2>1. ctl' = [ctl EXCEPT !.approve = hash, !.again = TRUE] /\ UNCHANGED <<mem, past>>
    BY <1>4 DEF PlanAsks
  <2>2. ctl' = [ctl EXCEPT !.approve = hash, !.again = TRUE, !.hash = ctl.hash, !.pc = "plan"]
    BY <2>1, <1>1 DEF Typed, Ctl, At
  <2>3. <<Env, hash>> \in past.approved
    BY <1>2, <1>4, NamesAreNoValues DEF Given
  <2>4. ctl.hash \in Hash \cup {None} /\ "plan" \in Planning
    BY <1>1, CtlFields DEF Planning
  <2> HIDE DEF hash
  <2>5. hash # ByPolicy
    BY <1>2, NamesAreNoValues
  <2>6. "plan" = "apply" => ctl.hash \in Hash /\ Covers(hash, ctl.hash)
    OBVIOUS
  <2>7. UNCHANGED <<world, people, disk, mem, troubles, past>>
    BY <1>3, <2>1 DEF world
  <2> QED
    BY <1>1, <1>2, <1>4, <2>2, <2>3, <2>4, <2>5, <2>6, <2>7, PlansOn
<1>5. CASE Rec.deployedHash # hash
  <2>1. Ask(hash)
    BY <1>5 DEF PlanAsks
  <2> QED
    BY <1>1, <1>2, <1>3, <2>1, AskStep
<1> QED
  BY <1>4, <1>5

LEMMA PlanStaleStep == ASSUME Inv, PlanStale PROVE Worked /\ (Ended \/ Planned)
<1>1. Typed /\ Placed /\ Entitled /\ ctl.pc \in InStep /\ At("plan") /\ ctl \in Ctl
  BY DEF Inv, PlanStale, At, InStep, Planning, Typed
<1>2. ctl.approve \in Hash
  BY <1>1, CtlFields DEF PlanStale, Hashes
<1>3. UNCHANGED <<git, inbox, people, disk, live, troubles>>
  BY DEF PlanStale, world
<1>4. CASE ctl.again
  BY <1>1, <1>2, <1>3, <1>4, AskStep DEF PlanStale
<1>5. CASE ~ctl.again
  <2>1. /\ ctl' = [ctl EXCEPT !.approve = Fallback(Env)]
        /\ SetRec(Env, [Rec EXCEPT !.approved = None]) /\ UNCHANGED past
    BY <1>5 DEF PlanStale
  <2>2. Env \in Envs /\ Rec # None /\ Sound(Env, Rec, past.approved)
    BY <1>1, PlanIs
  <2> DEFINE rec == [Rec EXCEPT !.approved = None]
  <2>3. Rec \in Record
    BY <2>2 DEF Sound
  <2>4. /\ rec \in Record /\ rec.approved = None /\ rec.state = Rec.state
        /\ rec.plan = Rec.plan /\ rec.attempts = Rec.attempts
        /\ rec.deployedHash = Rec.deployedHash
    BY <2>3 DEF Record
  <2>5. SetRec(Env, rec)
    BY <2>1
  <2> HIDE DEF rec
  <2>6. Sound(Env, rec, past.approved)
    BY <2>2, <2>4, RecordFields DEF Sound, Given
  <2>7. /\ mem' \in State /\ mem'.envs[Env] = rec
        /\ \A e \in Envs \ {Env} : mem'.envs[e] = mem.envs[e]
    BY <1>1, <2>2, <2>5, <2>6, SetRecIs
  <2>8. Worked
    BY <1>1, <1>3, <2>1, <2>2, <2>6, <2>7 DEF Worked, Typed
  <2>9. Fallback(Env) \in {None, ByPolicy} /\ (Fallback(Env) = ByPolicy => Env \in PolicyEnvs)
    BY NamesAreNoValues DEF Fallback
  <2>10. Fallback(Env) \notin Hash
    BY <2>9, NamesAreNoValues
  <2>11. /\ ctl' \in Ctl /\ ctl'.pc = "plan" /\ ctl'.approve = Fallback(Env)
         /\ ctl'.again = FALSE
         /\ ctl'.due = ctl.due /\ ctl'.idle = ctl.idle /\ ctl'.env = ctl.env
         /\ ctl'.got = ctl.got /\ ctl'.handled = ctl.handled
    BY <1>1, <1>5, <2>1, <2>9 DEF Ctl, At
  <2>12. Entitled'
    BY <2>4, <2>7, <2>9, <2>10, <2>11 DEF Entitled, Env, Rec, At, Planning
  <2>13. rec # None
    BY <2>6, RecordFields
  <2> QED
    BY <1>1, <1>3, <2>1, <2>4, <2>7, <2>8, <2>11, <2>12, <2>13 DEF Planned, Planning, At
<1> QED
  BY <1>4, <1>5

LEMMA PlanAcceptedStep == ASSUME Inv, PlanAccepted PROVE Worked /\ Planned
<1> DEFINE hash == PlanHash(Rec.commit, live[Env])
<1>1. Typed /\ Placed /\ Entitled /\ ctl.pc \in InStep /\ At("plan") /\ ctl \in Ctl
  BY DEF Inv, PlanAccepted, At, InStep, Planning, Typed
<1>2. hash \in Hash /\ Env \in Envs
  BY <1>1, PlanIs
<1>3. /\ UNCHANGED <<world, people, disk, mem, troubles, past>>
      /\ Covers(ctl.approve, hash)
      /\ ctl' = [ctl EXCEPT !.pc = "apply", !.hash = hash]
  BY DEF PlanAccepted, Covers
<1> HIDE DEF hash
<1>4. ctl' = [ctl EXCEPT !.approve = ctl.approve, !.again = ctl.again, !.hash = hash, !.pc = "apply"]
  BY <1>1, <1>3 DEF Ctl
<1>5. "apply" \in Planning /\ ctl.pc \in Planning
  BY <1>1 DEF Planning, At
<1>6. /\ ctl.approve \in Hash \cup {None, ByPolicy} /\ ctl.again \in BOOLEAN
      /\ ctl.approve \in Hash => <<Env, ctl.approve>> \in past.approved
      /\ ctl.approve = ByPolicy => Env \in PolicyEnvs
      /\ ctl.again => ctl.approve \in Hash /\ ctl.approve = Rec.deployedHash
      /\ ~ctl.again => Rec.approved = IF ctl.approve \in Hash THEN ctl.approve ELSE None
  BY <1>1, <1>5, CtlFields DEF Entitled
<1> QED
  BY <1>1, <1>2, <1>3, <1>4, <1>5, <1>6, PlansOn

LEMMA ApplyOkStep == ASSUME Inv, ApplyOk PROVE Worked /\ Ended
<1>1. Typed /\ Placed /\ Entitled /\ ctl.pc \in InStep /\ At("apply") /\ ctl.pc \in Planning
  BY DEF Inv, ApplyOk, At, InStep, Planning
<1>2. /\ Env \in Envs /\ Rec # None /\ Sound(Env, Rec, past.approved)
      /\ Rec.commit \in Commit /\ Rec.approved \in Hash \cup {None}
  BY <1>1, PlanIs
<1> DEFINE runs == [workload |-> Wants.workload, checked |-> Wants, up |-> TRUE]
           base == IF ctl.again THEN [Rec EXCEPT !.approved = ctl.approve] ELSE Rec
<1>3. runs \in Runs
  BY <1>2, CommitIs DEF Runs, Wants
<1>4. /\ ctl.approve \in Hash \cup {None, ByPolicy} /\ ctl.hash \in Hash
      /\ Covers(ctl.approve, ctl.hash)
      /\ ctl.approve \in Hash => <<Env, ctl.approve>> \in past.approved
      /\ ctl.again => ctl.approve \in Hash
      /\ ~ctl.again => Rec.approved = IF ctl.approve \in Hash THEN ctl.approve ELSE None
  BY <1>1, CtlFields DEF Entitled
<1>5. OwnersPlan = IF ctl.approve \in Hash THEN ctl.hash ELSE None
  BY <1>4, NamesAreNoValues DEF OwnersPlan, Hashes
<1>6. Sound(Env, base, past.approved)
      /\ base.approved = IF ctl.approve \in Hash THEN ctl.approve ELSE None
  <2>1. CASE ~ctl.again
    BY <2>1, <1>2, <1>4
  <2>2. CASE ctl.again
    <3>1. Rec \in Record
      BY <1>2 DEF Sound
    <3>2. base = [Rec EXCEPT !.approved = ctl.approve] /\ ctl.approve \in Hash
      BY <2>2, <1>4
    <3>3. /\ base \in Record /\ base.approved = ctl.approve /\ base.state = Rec.state
          /\ base.plan = Rec.plan /\ base.attempts = Rec.attempts
          /\ base.deployedHash = Rec.deployedHash
      BY <3>1, <3>2 DEF Record
    <3> HIDE DEF base
    <3> QED
      BY <1>2, <1>4, <3>2, <3>3, RecordFields DEF Sound, Given
  <2> QED
    BY <2>1, <2>2
<1>7. SetRec(Env, Deployed(base)) /\ Run(runs) /\ Owner(OwnersPlan)
      /\ UNCHANGED <<git, inbox, people, disk, troubles>>
      /\ ctl' = [ctl EXCEPT !.pc = "save"]
  BY DEF ApplyOk, DeployedNow, EndStep, Goto
<1> HIDE DEF base, runs
<1>8. Sound(Env, Deployed(base), past.approved) /\ Deployed(base).deployedHash = base.approved
  BY <1>6, DeployedSound
<1>9. /\ mem' \in State /\ mem'.envs[Env] = Deployed(base)
      /\ \A e \in Envs \ {Env} : mem'.envs[e] = mem.envs[e]
  BY <1>1, <1>2, <1>7, <1>8, SetRecIs
<1>10. live' \in [Envs -> Runs] /\ \A e \in Envs \ {Env} : live'[e] = live[e]
  BY <1>1, <1>2, <1>3, <1>7 DEF Typed, Run
<1>11. OwnersPlan \in Hash \cup {None}
  BY <1>4, <1>5
<1>12. Worked
  BY <1>1, <1>2, <1>7, <1>8, <1>9, <1>10, <1>11, OwnerIs DEF Worked, Typed
<1>13. ctl.approve \in Hash => ctl.hash = ctl.approve
  BY <1>4, NamesAreNoValues DEF Covers
<1>14. past'.owner[Env] = OwnersPlan
  BY <1>1, <1>2, <1>7, <1>11, OwnerIs
<1> QED
  BY <1>5, <1>6, <1>7, <1>8, <1>9, <1>12, <1>13, <1>14, RecordFields DEF Ended

\* Half of a release, or none.
LEMMA Partly == [workload |-> Mixed, checked |-> None, up |-> TRUE] \in Runs
  BY DEF Runs

LEMMA ApplyRefusedStep == ASSUME Inv, ApplyRefused PROVE Worked /\ Ended
<1>1. Typed /\ Placed /\ ctl.pc \in InStep /\ troubles' \in 0 .. MaxTroubles
  BY DEF Inv, ApplyRefused, At, InStep, Planning, Typed
<1>2. \/ UNCHANGED live
      \/ \E runs \in Runs : Run(runs)
  BY Partly DEF ApplyRefused
<1>3. /\ Fail(FALSE) /\ EndStep /\ Owner(None)
      /\ UNCHANGED <<git, inbox, people, disk>>
  BY DEF ApplyRefused
<1> QED
  BY <1>1, <1>2, <1>3, Fails

LEMMA ApplyFailsStep == ASSUME Inv, ApplyFails PROVE Worked /\ Ended
<1>1. Typed /\ Placed /\ ctl.pc \in InStep
  BY DEF Inv, ApplyFails, At, InStep, Planning
<1>2. \/ UNCHANGED live
      \/ \E runs \in Runs : Run(runs)
  BY Partly DEF ApplyFails
<1>3. /\ Fail(FALSE) /\ EndStep /\ Owner(None)
      /\ UNCHANGED <<git, inbox, people, disk>>
  BY DEF ApplyFails
<1>4. troubles' \in 0 .. MaxTroubles
  BY <1>1, ControllerAssumption DEF ApplyFails, Faulty, Typed
<1> QED
  BY <1>1, <1>2, <1>3, <1>4, Fails

LEMMA ChecksFailStep == ASSUME Inv, ChecksFail PROVE Worked /\ Ended
<1>1. Typed /\ Placed /\ ctl.pc \in InStep
  BY DEF Inv, ChecksFail, At, InStep, Planning
<1>2. /\ EndStep /\ Owner(None) /\ UNCHANGED <<git, inbox, people, disk>>
  BY DEF ChecksFail
<1>3. troubles' \in 0 .. MaxTroubles
  BY <1>1, ControllerAssumption DEF ChecksFail, Faulty, Typed
<1>4. /\ Env \in Envs /\ Rec # None /\ Sound(Env, Rec, past.approved)
      /\ live[Env] \in Runs /\ Rec.commit \in Commit
  BY <1>1, PlanIs
<1>5. CASE Same
  <2>1. SetRec(Env, Degraded(Rec)) /\ UNCHANGED live
    BY <1>5 DEF ChecksFail
  <2>2. Sound(Env, Degraded(Rec), past.approved) /\ Degraded(Rec).deployedHash = None
    BY <1>4, DeployedSound
  <2>3. /\ mem' \in State /\ mem'.envs[Env] = Degraded(Rec)
        /\ \A e \in Envs \ {Env} : mem'.envs[e] = mem.envs[e]
    BY <1>1, <1>4, <2>1, <2>2, SetRecIs
  <2>4. Worked
    BY <1>1, <1>2, <1>3, <1>4, <2>1, <2>2, <2>3, OwnerIs DEF Worked, Typed
  <2> QED
    BY <1>2, <2>2, <2>3, <2>4, RecordFields DEF Ended, EndStep, Goto
<1>6. CASE ~Same
  <2> DEFINE back == live[Env].workload \in Workloads
             runs == IF back THEN [live[Env] EXCEPT !.up = TRUE]
                     ELSE [workload |-> Wants.workload, checked |-> None, up |-> TRUE]
  <2>1. Fail(back) /\ Run(runs) /\ back \in BOOLEAN
    BY <1>6 DEF ChecksFail
  <2>2. [workload |-> Wants.workload, checked |-> None, up |-> TRUE] \in Runs
    BY <1>4, CommitIs DEF Runs, Wants
  <2>3. runs \in Runs
    BY <1>4, <2>2, RunsAre
  <2> HIDE DEF back, runs
  <2> QED
    BY <1>1, <1>2, <1>3, <2>1, <2>3, Fails
<1> QED
  BY <1>5, <1>6

LEMMA TearDownStep == ASSUME Inv, TearDown PROVE Worked /\ Ended
<1>1. Typed /\ Placed /\ ctl.pc \in InStep
  BY DEF Inv, TearDown, At, InStep, Planning
<1>2. /\ EndStep /\ Owner(None) /\ UNCHANGED <<git, inbox, people, disk>>
  BY DEF TearDown
<1>3. troubles' \in 0 .. MaxTroubles
  <2>1. NoFault \/ Faulty
    BY DEF TearDown
  <2> QED
    BY <1>1, <2>1, ControllerAssumption DEF Faulty, NoFault, Typed
<1>4. Env \in Envs
  BY <1>1, PlanIs
<1>5. CASE Run(Nothing) /\ SetRec(Env, None)
  <2>1. /\ mem' \in State /\ mem'.envs[Env] = None
        /\ \A e \in Envs \ {Env} : mem'.envs[e] = mem.envs[e]
    BY <1>1, <1>4, <1>5, SetRecIs
  <2>2. Nothing \in Runs
    BY DEF Nothing, Runs
  <2>3. /\ live' \in [Envs -> Runs] /\ live'[Env] = Nothing
        /\ \A e \in Envs \ {Env} : live'[e] = live[e]
    BY <1>1, <1>4, <1>5, <2>2 DEF Run, Typed
  <2>4. Worked
    BY <1>1, <1>2, <1>3, <1>4, <2>1, <2>3, OwnerIs DEF Worked
  <2> QED
    BY <1>2, <2>1, <2>3, <2>4 DEF Ended, EndStep, Goto
<1>6. CASE Fail(FALSE) /\ UNCHANGED live
  BY <1>1, <1>2, <1>3, <1>6, Fails
<1> QED
  BY <1>5, <1>6 DEF TearDown

LEMMA StopStep == ASSUME Inv, Stop PROVE Worked /\ Ended
<1>1. Typed /\ Placed /\ Remembered /\ ctl.pc \in InStep
  BY DEF Inv, Stop, At, InStep, Planning
<1>2. /\ ctl' = [ctl EXCEPT !.pc = "save"] /\ UNCHANGED <<git, inbox, people, disk>>
  BY DEF Stop, EndStep, Goto
<1>3. troubles' \in 0 .. MaxTroubles
  BY <1>1, ControllerAssumption DEF Stop, Faulty, NoFault, Typed
<1>4. /\ Env \in Envs /\ Rec # None /\ Sound(Env, Rec, past.approved) /\ live[Env] \in Runs
  BY <1>1, PlanIs
<1>5. Rec \in Record
  BY <1>4 DEF Sound
<1>6. CASE /\ Run([live[Env] EXCEPT !.up = FALSE]) /\ Owner(None)
           /\ SetRec(Env, [Rec EXCEPT !.state = "stopped", !.deployedHash = None,
                                      !.attempts = 0, !.waits = FALSE])
  <2> DEFINE rec == [Rec EXCEPT !.state = "stopped", !.deployedHash = None,
                                !.attempts = 0, !.waits = FALSE]
  <2>1. /\ rec \in Record /\ rec.state = "stopped" /\ rec.deployedHash = None
        /\ rec.approved = Rec.approved
    BY <1>5 DEF Record
  <2>2. SetRec(Env, rec)
    BY <1>6
  <2> HIDE DEF rec
  <2>3. Sound(Env, rec, past.approved)
    BY <1>4, <2>1, RecordFields DEF Sound, Given
  <2>4. /\ mem' \in State /\ mem'.envs[Env] = rec
        /\ \A e \in Envs \ {Env} : mem'.envs[e] = mem.envs[e]
    BY <1>1, <1>4, <2>2, <2>3, SetRecIs
  <2>5. [live[Env] EXCEPT !.up = FALSE] \in Runs
    BY <1>4, RunsAre
  <2>6. live' \in [Envs -> Runs] /\ \A e \in Envs \ {Env} : live'[e] = live[e]
    BY <1>1, <1>4, <1>6, <2>5 DEF Run, Typed
  <2>7. Worked
    BY <1>1, <1>2, <1>3, <1>4, <1>6, <2>3, <2>4, <2>6, OwnerIs DEF Worked
  <2> QED
    BY <1>2, <2>1, <2>3, <2>4, <2>7, RecordFields DEF Ended
<1>7. CASE /\ SetRec(Env, [Rec EXCEPT !.attempts = @ + 1, !.waits = TRUE])
           /\ UNCHANGED <<live, past>>
  <2> DEFINE rec == [Rec EXCEPT !.attempts = Rec.attempts + 1, !.waits = TRUE]
  <2>1. Rec.attempts \in Nat /\ Rec.attempts + 1 \in Nat /\ Rec.attempts + 1 > 0
    BY <1>4, RecordFields
  <2>2. /\ rec \in Record /\ rec.state = Rec.state /\ rec.deployedHash = Rec.deployedHash
        /\ rec.approved = Rec.approved /\ rec.plan = Rec.plan
        /\ rec.attempts = Rec.attempts + 1
    BY <1>5, <2>1 DEF Record
  <2>3. SetRec(Env, rec)
    BY <1>7
  <2> HIDE DEF rec
  <2>4. Sound(Env, rec, past.approved)
    BY <1>4, <2>1, <2>2, RecordFields DEF Sound, Given
  <2>5. /\ mem' \in State /\ mem'.envs[Env] = rec
        /\ \A e \in Envs \ {Env} : mem'.envs[e] = mem.envs[e]
    BY <1>1, <1>4, <2>3, <2>4, SetRecIs
  <2>6. Worked
    BY <1>1, <1>2, <1>3, <1>4, <1>7, <2>4, <2>5 DEF Worked, Typed
  <2>7. ~past.torn /\ Rec.deployedHash # None => past.owner[Env] = Rec.deployedHash
    BY <1>1, <1>4 DEF Remembered, Owned, Rec
  <2> QED
    BY <1>2, <1>4, <1>7, <2>2, <2>4, <2>5, <2>6, <2>7, RecordFields DEF Ended
<1> QED
  BY <1>6, <1>7 DEF Stop

\* A step of the controller on an environment.
Steps ==
    \/ PrepareFails \/ PlanAsks \/ PlanStale \/ PlanAccepted
    \/ ApplyOk \/ ApplyRefused \/ ApplyFails \/ ChecksFail \/ TearDown \/ Stop

LEMMA StepsWork == Inv /\ Steps => Worked /\ (Ended \/ Planned)
  BY PrepareFailsStep, PlanAsksStep, PlanStaleStep, PlanAcceptedStep, ApplyOkStep,
     ApplyRefusedStep, ApplyFailsStep, ChecksFailStep, TearDownStep, StopStep DEF Steps

-----------------------------------------------------------------------------
(* The invariant along the steps on an environment.                        *)

LEMMA WorkedTyped ==
    ASSUME Inv, Worked, ctl' \in Ctl PROVE Typed'
<1>1. Typed /\ Placed /\ Env \in Envs
  BY RecIs DEF Inv, Worked
<1>2. Records(mem'.envs, past'.approved)
  BY <1>1, TypedFields DEF Worked, Records
<1>3. Records(disk'.envs, past'.approved)
  BY <1>1 DEF Worked, Typed
<1> QED
  BY <1>1, <1>2, <1>3 DEF Worked, Typed, people

LEMMA EndedIs ==
    ASSUME Typed, Ended
    PROVE  /\ ctl' \in Ctl /\ ctl'.pc = "save"
           /\ ctl'.got = ctl.got /\ ctl'.handled = ctl.handled /\ ctl'.refs = ctl.refs
           /\ ctl'.due = ctl.due /\ ctl'.idle = ctl.idle /\ ctl'.env = ctl.env
           /\ ctl'.again = ctl.again
  BY DEF Typed, Ended, Ctl, Labels, Listing, InStep, Planning

LEMMA WorkedInv == Inv /\ Worked /\ (Ended \/ Planned) => Inv'
<1> SUFFICES ASSUME Inv, Worked, Ended \/ Planned PROVE Inv'
  OBVIOUS
<1>1. Typed /\ Placed /\ Env \in Envs /\ ctl.pc \in InStep /\ Rec # None
  BY RecIs DEF Inv, Worked
<1>2. /\ ctl' \in Ctl /\ ctl'.pc \in Planning \cup {"save"}
      /\ ctl'.due = ctl.due /\ ctl'.idle = ctl.idle /\ ctl'.env = ctl.env
      /\ ctl'.got = ctl.got /\ ctl'.handled = ctl.handled
  BY <1>1, EndedIs DEF Planned
<1>3. Typed'
  BY <1>2, WorkedTyped
<1>4. Vouched'
  BY <1>2 DEF Inv, Vouched, Worked
<1>5. ctl.pc \in {"plan", "apply", "down", "stop"}
  BY <1>1 DEF InStep, Planning
<1>6. Entitled'
  <2>1. CASE Ended
    BY <1>1, <2>1, EndedIs DEF Entitled, Planning, At
  <2> QED
    BY <2>1 DEF Planned
<1>7. Placed'
  <2>1. Env' = Env /\ Env \notin ctl.due \cup ctl.idle
    BY <1>1, <1>2 DEF Placed, Env
  <2>2. ctl'.pc \notin Listing
    BY <1>2 DEF Planning, Listing
  <2>3. ctl.due \cup ctl.idle \subseteq Envs
    BY <1>1, CtlFields DEF Envs
  <2>4. \A e \in ctl'.due \cup ctl'.idle : mem'.envs[e] # None
    BY <1>1, <1>2, <2>1, <2>3 DEF Placed, Worked
  <2>5. ctl'.pc \in InStep => Rec' # None
    <3>1. CASE Ended
      BY <1>1, <3>1, EndedIs DEF InStep, Planning
    <3>2. CASE Planned
      BY <3>2, <2>1 DEF Planned, Rec
    <3> QED
      BY <3>1, <3>2
  <2> QED
    BY <1>1, <1>2, <2>1, <2>2, <2>4, <2>5 DEF Placed
<1>8. Remembered'
  <2> SUFFICES ASSUME ~past.torn PROVE Owned(mem.envs)' /\ (~At("save") => Owned(disk.envs))'
    BY DEF Remembered, Worked
  <2>1. Owned(mem.envs) /\ Owned(disk.envs)
    BY <1>5 DEF Inv, Remembered, At
  <2>2. ASSUME NEW e \in Envs, mem'.envs[e] # None, mem'.envs[e].deployedHash # None
        PROVE  past'.owner[e] = mem'.envs[e].deployedHash
    <3>1. CASE e # Env
      BY <2>1, <2>2, <3>1 DEF Owned, Worked
    <3>2. CASE e = Env /\ Ended
      BY <2>2, <3>2 DEF Ended
    <3>3. CASE e = Env /\ Planned
      BY <2>1, <2>2, <3>3, <1>1 DEF Owned, Planned, Rec
    <3> QED
      BY <3>1, <3>2, <3>3
  <2>3. Owned(mem.envs)'
    BY <2>2 DEF Owned
  <2>4. CASE Ended
    BY <1>1, <2>3, <2>4, EndedIs DEF At
  <2>5. CASE Planned
    BY <2>1, <2>3, <2>5 DEF Owned, Planned, Worked
  <2> QED
    BY <2>4, <2>5
<1>9. Recorded'
  <2> SUFFICES ASSUME NEW e \in Branches
               PROVE  /\ live'[e] # Nothing => mem'.envs[e] # None
                      /\ mem'.envs[e] # None => disk'.envs[e] # None
    BY DEF Recorded
  <2>1. e \in Envs /\ Recorded
    BY DEF Envs, Inv
  <2>2. CASE e # Env
    BY <2>1, <2>2 DEF Recorded, Worked
  <2>3. CASE e = Env
    <3>1. disk'.envs[e] # None
      BY <1>1, <2>1, <2>3 DEF Recorded, Worked, Rec
    <3> QED
      BY <3>1, <2>3 DEF Ended, Planned
  <2> QED
    BY <2>2, <2>3
<1>10. Unsaved'
  <2>1. past.unsaved = {} /\ (past.lost => past.torn)
    BY <1>5 DEF Inv, Unsaved
  <2> QED
    BY <1>2, <2>1 DEF Unsaved, Worked, Planning
<1> QED
  BY <1>3, <1>4, <1>6, <1>7, <1>8, <1>9, <1>10 DEF Inv

-----------------------------------------------------------------------------
(* The invariant along what others do.                                     *)

\* More approvals leave a record sound.
LEMMA SoundMore ==
    ASSUME NEW approved, NEW more, approved \subseteq more, NEW envs, Records(envs, approved)
    PROVE  Records(envs, more)
  BY DEF Records, Sound, Given

\* What people do leaves the controller alone, sends approvals that were given,
\* and starts nothing where nothing runs.
Meanwhile ==
    /\ UNCHANGED <<disk, mem, ctl>>
    /\ git' \in Git /\ Tagged(git')
    /\ pushes' \in 0 .. MaxPushes /\ sent' \in 0 .. MaxRequests
    /\ inbox' \in SUBSET Request /\ inbox \subseteq inbox'
    /\ live' \in [Envs -> Runs]
    /\ \A e \in Envs : live'[e] # Nothing => live[e] # Nothing
    /\ troubles' \in 0 .. MaxTroubles
    /\ past' \in Past /\ past.approved \subseteq past'.approved
    /\ past'.owner = past.owner /\ past'.unsaved = past.unsaved
    /\ past'.lost = past.lost /\ past'.torn = past.torn
    /\ \A r \in inbox' \ inbox :
          r.kind = "approve" => <<r.env, r.arg>> \in past'.approved

LEMMA MeanwhileInv == Inv /\ Meanwhile => Inv'
<1> SUFFICES ASSUME Inv, Meanwhile PROVE Inv'
  OBVIOUS
<1>1. Typed'
  BY SoundMore DEF Inv, Typed, Meanwhile
<1>2. Vouched'
  BY DEF Inv, Vouched, Meanwhile
<1>3. Placed'
  BY DEF Inv, Placed, Meanwhile, Env, Rec
<1>4. Entitled'
  BY DEF Inv, Entitled, Meanwhile, Env, Rec, At
<1>5. Remembered'
  BY DEF Inv, Remembered, Owned, Meanwhile, At
<1>6. Recorded'
  BY DEF Inv, Recorded, Meanwhile, Envs
<1>7. Unsaved'
  BY DEF Inv, Unsaved, Meanwhile
<1> QED
  BY <1>1, <1>2, <1>3, <1>4, <1>5, <1>6, <1>7 DEF Inv

\* A commit in hand.
LEMMA NewCommitIs ==
    ASSUME Typed, pushes < MaxPushes, NEW content \in Contents
    PROVE  NewCommit(content) \in Commit /\ pushes + 1 \in 0 .. MaxPushes /\ pushes + 1 > 0
<1>1. pushes \in 0 .. MaxPushes /\ MaxPushes \in Nat
  BY ControllerAssumption DEF Typed
<1>2. pushes + 1 \in 1 .. MaxPushes
  BY <1>1
<1> QED
  BY <1>1, <1>2 DEF NewCommit, Commit

LEMMA KnownIs == ASSUME Typed PROVE Known \subseteq Commit
<1> SUFFICES ASSUME NEW c \in Known PROVE c \in Commit
  OBVIOUS
<1>1. c # None
  BY DEF Known
<1>2. CASE \E b \in Branches : c = git.head[b]
  BY <1>1, <1>2 DEF Typed, Git
<1>3. CASE c = git.tag.commit
  BY <1>1, <1>3 DEF Typed, Git
<1>4. CASE \E e \in Envs : mem.envs[e] # None /\ c = mem.envs[e].commit
  BY <1>4, TypedFields, RecordFields
<1> QED
  BY <1>1, <1>2, <1>3, <1>4 DEF Known

LEMMA GitMoves ==
    ASSUME Inv, Pushed, UNCHANGED <<inbox, sent, live, disk, mem, ctl, troubles, past>>,
           git' \in Git, Tagged(git')
    PROVE  Inv'
<1>1. pushes' \in 0 .. MaxPushes
  BY ControllerAssumption DEF Inv, Typed, Pushed
<1>2. Meanwhile
  BY <1>1 DEF Inv, Typed, Meanwhile
<1> QED
  BY <1>2, MeanwhileInv

LEMMA PushInv ==
    ASSUME Inv, NEW b \in Branches, NEW x \in Contents, Push(b, x) PROVE Inv'
<1>1. Typed /\ Pushed /\ NewCommit(x) \in Commit
  BY NewCommitIs DEF Inv, Push, Pushed
<1>2. git' \in Git /\ Tagged(git')
  <2>1. git \in Git /\ Tagged(git) /\ git' = [git EXCEPT !.head = [git.head EXCEPT ![b] = NewCommit(x)]]
    BY <1>1 DEF Typed, Push
  <2>2. [git.head EXCEPT ![b] = NewCommit(x)] \in [Branches -> Commit \cup {None}]
    BY <1>1, <2>1 DEF Git
  <2> QED
    BY <2>1, <2>2 DEF Git, Tagged
<1> QED
  BY <1>1, <1>2, GitMoves DEF Push

LEMMA DeleteInv ==
    ASSUME Inv, NEW b \in Branches, DeleteBranch(b) PROVE Inv'
<1>1. git' \in Git /\ Tagged(git')
  <2>1. git \in Git /\ Tagged(git) /\ git' = [git EXCEPT !.head = [git.head EXCEPT ![b] = None]]
    BY DEF Inv, Typed, DeleteBranch
  <2>2. [git.head EXCEPT ![b] = None] \in [Branches -> Commit \cup {None}]
    BY <2>1 DEF Git
  <2> QED
    BY <2>1, <2>2 DEF Git, Tagged
<1> QED
  BY <1>1, GitMoves DEF DeleteBranch

LEMMA TagInv ==
    ASSUME Inv, NEW c \in Known \cup {NewCommit(x) : x \in Contents}, Tag(c) PROVE Inv'
<1>1. Typed /\ Pushed /\ pushes < MaxPushes /\ c \in Commit
  BY NewCommitIs, KnownIs DEF Inv, Tag, Pushed
<1>2. pushes + 1 \in 0 .. MaxPushes
  BY <1>1, ControllerAssumption DEF Typed
<1>3. git' \in Git /\ Tagged(git')
  BY <1>1, <1>2, NamesAreNoValues DEF Typed, Tag, Git, Tagged
<1> QED
  BY <1>1, <1>3, GitMoves DEF Tag

LEMMA SendInv ==
    ASSUME Inv, NEW request \in Request, Send(request), past' \in Past,
           past.approved \subseteq past'.approved, past'.owner = past.owner,
           past'.unsaved = past.unsaved, past'.lost = past.lost, past'.torn = past.torn,
           request.kind = "approve" => <<request.env, request.arg>> \in past'.approved
    PROVE  Inv'
<1>1. sent' \in 0 .. MaxRequests
  BY ControllerAssumption DEF Inv, Typed, Send
<1>2. Meanwhile
  BY <1>1 DEF Inv, Typed, Meanwhile, Send
<1> QED
  BY <1>2, MeanwhileInv

LEMMA ApproveInv ==
    ASSUME Inv, NEW pair \in past.asked, Approve(pair[1], pair[2]) PROVE Inv'
<1>1. pair \in Envs \X Hash /\ past \in Past
  BY TypedFields DEF Inv, Typed
<1> DEFINE request == [kind |-> "approve", env |-> pair[1], arg |-> pair[2]]
<1>2. request \in Request /\ request.env = pair[1] /\ request.arg = pair[2]
  BY <1>1 DEF Request
<1>3. Send(request) /\ past' = [past EXCEPT !.approved = past.approved \cup {<<pair[1], pair[2]>>}]
  BY DEF Approve
<1>4. past.approved \cup {<<pair[1], pair[2]>>} \subseteq Envs \X Hash
  BY <1>1, TypedFields DEF Inv
<1>5. /\ past' \in Past /\ past.approved \subseteq past'.approved
      /\ <<pair[1], pair[2]>> \in past'.approved
      /\ past'.owner = past.owner /\ past'.unsaved = past.unsaved
      /\ past'.lost = past.lost /\ past'.torn = past.torn
  BY <1>1, <1>3, <1>4 DEF Past
<1> HIDE DEF request
<1> QED
  BY <1>2, <1>3, <1>5, SendInv

LEMMA PromoteInv ==
    ASSUME Inv, NEW b \in Branches, NEW c \in Known, Promote(b, c) PROVE Inv'
<1> DEFINE request == [kind |-> "promote", env |-> b, arg |-> c]
<1>1. request \in Request /\ request.kind # "approve"
  BY KnownIs DEF Inv, Request
<1>2. Send(request) /\ past' = past /\ past \in Past
  BY DEF Promote, Inv, Typed
<1> HIDE DEF request
<1> QED
  BY <1>1, <1>2, SendInv

LEMMA SyncInv ==
    ASSUME Inv, NEW e \in Envs, Sync(e) PROVE Inv'
<1> DEFINE request == [kind |-> "sync", env |-> e, arg |-> None]
<1>1. request \in Request /\ request.kind # "approve"
  BY DEF Request
<1>2. Send(request) /\ past' = past /\ past \in Past
  BY DEF Sync, Inv, Typed
<1> HIDE DEF request
<1> QED
  BY <1>1, <1>2, SendInv

LEMMA ByHandInv ==
    ASSUME Inv, NEW e \in Envs, NEW w \in Workloads, DeployByHand(e, w) PROVE Inv'
<1>1. [workload |-> w, checked |-> None, up |-> TRUE] \in Runs
  BY DEF Runs
<1>2. live' \in [Envs -> Runs]
  BY <1>1 DEF DeployByHand, Inv, Typed
<1>3. \A x \in Envs : live'[x] # Nothing => live[x] # Nothing
  <2>1. live[e] # Nothing
    BY DEF DeployByHand, Nothing
  <2>2. \A x \in Envs \ {e} : live'[x] = live[x]
    BY DEF DeployByHand, Inv, Typed
  <2> QED
    BY <2>1, <2>2
<1>4. troubles' \in 0 .. MaxTroubles
  BY ControllerAssumption DEF DeployByHand, Faulty, Inv, Typed
<1>5. Meanwhile
  BY <1>2, <1>3, <1>4 DEF Inv, Typed, Meanwhile, DeployByHand, people
<1> QED
  BY <1>5, MeanwhileInv

LEMMA PeopleInv == Inv /\ People => Inv'
  BY PushInv, DeleteInv, TagInv, ApproveInv, PromoteInv, SyncInv, ByHandInv DEF People

-----------------------------------------------------------------------------
(* The invariant along a poll.                                             *)

\* Records that were revised: none is gone, and what they remember as approved
\* they remembered before.
Revised(envs, new) ==
    \A e \in Envs :
        /\ new[e] = None \/ Sound(e, new[e], past.approved)
        /\ envs[e] # None => new[e] # None
        /\ new[e] # None /\ new[e].deployedHash # None =>
              envs[e] # None /\ new[e].deployedHash = envs[e].deployedHash

LEMMA RevisedOwned ==
    ASSUME NEW envs, NEW new, Revised(envs, new), Owned(envs) PROVE Owned(new)
  BY DEF Revised, Owned

LEMMA IdleIs ==
    /\ Idle \in Ctl /\ Idle.pc = "poll" /\ Idle.got = {} /\ Idle.handled = {}
    /\ Idle.due = {} /\ Idle.idle = {} /\ Idle.again = FALSE
  BY DEF Idle, Ctl, Labels, Listing, InStep, Planning

LEMMA SaveIs ==
    ASSUME Typed, NEW state, Save(state)
    PROVE  /\ disk' = state /\ past' \in Past /\ past'.unsaved = {}
           /\ past'.approved = past.approved /\ past'.owner = past.owner
           /\ past'.lost = past.lost /\ past'.torn = past.torn
  BY DEF Typed, Save, Past

\* The controller polls or saves: its records stay, on disk they are those of
\* before or those in memory, which they are at the end of a step.
Polled ==
    /\ UNCHANGED <<git, live, people, mem>>
    /\ inbox' \in SUBSET inbox
    /\ disk' = mem \/ (disk' = disk /\ ~At("save"))
    /\ past' \in Past /\ past'.approved = past.approved /\ past'.owner = past.owner
    /\ past'.lost = past.lost /\ past'.torn = past.torn
    /\ troubles' \in 0 .. MaxTroubles
    /\ ctl' \in Ctl /\ ctl'.pc # "save"
    /\ ctl'.got \subseteq ctl.got \cup inbox'

LEMMA PolledInv == Inv /\ Polled /\ Placed' /\ Entitled' /\ Unsaved' => Inv'
<1> SUFFICES ASSUME Inv, Polled, Placed', Entitled', Unsaved' PROVE Inv'
  OBVIOUS
<1>1. Typed'
  BY DEF Inv, Typed, Polled, people
<1>2. Vouched'
  BY DEF Inv, Vouched, Polled
<1>3. Remembered'
  BY DEF Inv, Remembered, Owned, Polled, At
<1>4. Recorded'
  BY DEF Inv, Recorded, Polled
<1> QED
  BY <1>1, <1>2, <1>3, <1>4 DEF Inv

LEMMA FaultyOrNot ==
    ASSUME Inv, Faulty \/ NoFault PROVE troubles' \in 0 .. MaxTroubles
  BY ControllerAssumption DEF Inv, Typed, Faulty, NoFault

\* The poll is over, its records saved.
LEMMA OverInv ==
    ASSUME Inv, ctl' = Idle, Save(mem), UNCHANGED <<world, people, mem>>,
           Faulty \/ NoFault
    PROVE  Inv'
<1>1. Typed /\ (past.lost => past.torn)
  BY DEF Inv, Unsaved
<1>2. Polled
  BY <1>1, IdleIs, SaveIs, FaultyOrNot DEF Polled, world
<1>3. Placed' /\ Entitled'
  BY IdleIs DEF Placed, Entitled, At, Listing, InStep, Planning
<1>4. Unsaved'
  BY <1>1, IdleIs, SaveIs DEF Unsaved
<1> QED
  BY <1>2, <1>3, <1>4, PolledInv

LEMMA LsRemoteInv == Inv /\ LsRemote => Inv'
<1> SUFFICES ASSUME Inv, LsRemote PROVE Inv'
  OBVIOUS
<1>1. /\ Typed /\ Placed /\ Entitled /\ Unsaved /\ ctl.pc = "poll" /\ ctl \in Ctl
      /\ git \in Git /\ Tagged(git)
  BY DEF Inv, LsRemote, At, Typed
<1>2. /\ UNCHANGED <<git, inbox, live, people, mem>> /\ troubles' \in 0 .. MaxTroubles
  BY FaultyOrNot DEF LsRemote, world
<1>3. CASE ctl' = [ctl EXCEPT !.pc = "read", !.refs = git] /\ UNCHANGED <<disk, past>>
  <2>1. /\ ctl' \in Ctl /\ ctl'.pc = "read" /\ ctl'.refs = git
        /\ ctl'.got = ctl.got /\ ctl'.handled = ctl.handled
        /\ ctl'.due = ctl.due /\ ctl'.idle = ctl.idle /\ ctl'.again = ctl.again
    BY <1>1, <1>3 DEF Ctl, Labels, Listing
  <2>2. Polled
    BY <1>1, <1>2, <1>3, <2>1 DEF Polled, At, Typed
  <2>3. Placed' /\ Entitled'
    BY <1>1, <1>2, <2>1 DEF Placed, Entitled, At, Listing, InStep, Planning
  <2>4. Unsaved'
    BY <1>1, <1>3, <2>1 DEF Unsaved
  <2> QED
    BY <2>2, <2>3, <2>4, PolledInv
<1>4. CASE Save(mem) /\ UNCHANGED ctl
  <2>1. Polled
    BY <1>1, <1>2, <1>4, SaveIs DEF Polled
  <2>2. Placed' /\ Entitled'
    BY <1>1, <1>2, <1>4 DEF Placed, Entitled, At, Listing, InStep, Planning
  <2>3. Unsaved'
    BY <1>1, <1>4, SaveIs DEF Unsaved
  <2> QED
    BY <2>1, <2>2, <2>3, PolledInv
<1> QED
  BY <1>3, <1>4 DEF LsRemote

LEMMA ReadRequestsInv == Inv /\ ReadRequests => Inv'
<1> SUFFICES ASSUME Inv, ReadRequests PROVE Inv'
  OBVIOUS
<1>1. /\ Typed /\ Placed /\ Entitled /\ Unsaved /\ ctl.pc = "read" /\ ctl \in Ctl
      /\ inbox \in SUBSET Request
  BY DEF Inv, ReadRequests, At, Typed
<1>2. /\ UNCHANGED <<git, inbox, live, people, mem, disk, past>>
      /\ troubles' \in 0 .. MaxTroubles
  BY FaultyOrNot DEF ReadRequests, world
<1>3. PICK pc \in {"desire", "handle"}, got \in {inbox, ctl.got} :
         /\ ctl' = [ctl EXCEPT !.got = got, !.pc = pc]
         /\ pc = "handle" => got = inbox
  <2>1. CASE ctl' = [ctl EXCEPT !.got = inbox, !.pc = IF inbox = {} THEN "desire" ELSE "handle"]
    BY <2>1
  <2>2. CASE Goto("desire")
    <3>1. ctl' = [ctl EXCEPT !.got = ctl.got, !.pc = "desire"]
      BY <1>1, <2>2 DEF Goto, Ctl
    <3> QED
      BY <3>1
  <2> QED
    BY <2>1, <2>2 DEF ReadRequests
<1>4. /\ ctl' \in Ctl /\ ctl'.pc = pc /\ ctl'.refs = ctl.refs
      /\ ctl'.got = got /\ ctl'.handled = ctl.handled
      /\ ctl'.due = ctl.due /\ ctl'.idle = ctl.idle /\ ctl'.again = ctl.again
  BY <1>1, <1>3 DEF Ctl, Labels, Listing
<1>5. Polled
  BY <1>1, <1>2, <1>3, <1>4 DEF Polled, At, Typed
<1>6. Placed' /\ Entitled'
  BY <1>1, <1>2, <1>4 DEF Placed, Entitled, At, Listing, InStep, Planning
<1>7. Unsaved'
  BY <1>1, <1>2, <1>3, <1>4 DEF Unsaved
<1> QED
  BY <1>5, <1>6, <1>7, PolledInv

LEMMA RemoveRequestsInv == Inv /\ RemoveRequests => Inv'
<1> SUFFICES ASSUME Inv, RemoveRequests PROVE Inv'
  OBVIOUS
<1>1. /\ Typed /\ Placed /\ Entitled /\ Unsaved /\ ctl.pc = "remove" /\ ctl \in Ctl
  BY DEF Inv, RemoveRequests, At, Typed
<1>2. /\ UNCHANGED <<git, live, people, mem, disk, past>> /\ inbox' \in SUBSET inbox
      /\ troubles' \in 0 .. MaxTroubles
  BY FaultyOrNot DEF RemoveRequests
<1>3. /\ ctl' \in Ctl /\ ctl'.pc = "desire" /\ ctl'.refs = ctl.refs
      /\ ctl'.got = ctl.got /\ ctl'.handled = {}
      /\ ctl'.due = ctl.due /\ ctl'.idle = ctl.idle /\ ctl'.again = ctl.again
  BY <1>1 DEF RemoveRequests, Ctl, Labels, Listing
<1>4. Polled
  BY <1>1, <1>2, <1>3 DEF Polled, At, Typed
<1>5. Placed' /\ Entitled'
  BY <1>1, <1>2, <1>3 DEF Placed, Entitled, At, Listing, InStep, Planning
<1>6. Unsaved'
  BY <1>1, <1>2, <1>3 DEF Unsaved
<1> QED
  BY <1>4, <1>5, <1>6, PolledInv

LEMMA FetchInv == Inv /\ Fetch => Inv'
<1> SUFFICES ASSUME Inv, Fetch PROVE Inv'
  OBVIOUS
<1>1. CASE Save(mem) /\ ctl' = Idle /\ Faulty
  BY <1>1, OverInv DEF Fetch
<1>2. CASE Goto("pick") /\ NoFault /\ UNCHANGED <<disk, past>>
  <2>1. /\ Typed /\ Placed /\ Entitled /\ Unsaved /\ ctl.pc = "fetch" /\ ctl \in Ctl
    BY DEF Inv, Fetch, At, Typed
  <2>2. /\ ctl' \in Ctl /\ ctl'.pc = "pick" /\ ctl'.got = ctl.got
        /\ ctl'.due = ctl.due /\ ctl'.idle = ctl.idle /\ ctl'.again = ctl.again
    BY <1>2, <2>1 DEF Goto, Ctl, Labels
  <2>3. UNCHANGED <<git, inbox, live, people, mem>> /\ troubles' \in 0 .. MaxTroubles
    BY <1>2, FaultyOrNot DEF Fetch, world
  <2>4. Polled
    BY <1>2, <2>1, <2>2, <2>3 DEF Polled, At, Typed
  <2>5. Placed' /\ Entitled'
    BY <2>1, <2>2, <2>3 DEF Placed, Entitled, At, Listing, InStep, Planning
  <2>6. Unsaved'
    BY <1>2, <2>1, <2>2 DEF Unsaved
  <2> QED
    BY <2>4, <2>5, <2>6, PolledInv
<1> QED
  BY <1>1, <1>2 DEF Fetch

LEMMA EndPollInv == Inv /\ EndPoll => Inv'
  BY OverInv DEF EndPoll, NoFault

LEMMA SaveStepInv == Inv /\ SaveStep => Inv'
<1> SUFFICES ASSUME Inv, SaveStep PROVE Inv'
  OBVIOUS
<1>1. /\ Typed /\ Placed /\ Unsaved /\ ctl \in Ctl
  BY DEF Inv, Typed
<1>2. /\ ctl' \in Ctl /\ ctl'.pc = "pick" /\ ctl'.got = ctl.got
      /\ ctl'.due = ctl.due /\ ctl'.idle = ctl.idle /\ ctl'.again = FALSE
  BY <1>1 DEF SaveStep, Ctl, Labels
<1>3. Save(mem) /\ UNCHANGED <<git, inbox, live, people, mem, troubles>>
  BY DEF SaveStep, world
<1>4. Polled
  BY <1>1, <1>2, <1>3, SaveIs DEF Polled, Typed
<1>5. Placed' /\ Entitled'
  BY <1>1, <1>2, <1>3 DEF Placed, Entitled, At, Listing, InStep, Planning
<1>6. Unsaved'
  BY <1>1, <1>2, <1>3, SaveIs DEF Unsaved
<1> QED
  BY <1>4, <1>5, <1>6, PolledInv

LEMMA PickStepInv == Inv /\ PickStep => Inv'
<1> SUFFICES ASSUME Inv, PickStep PROVE Inv'
  OBVIOUS
<1>1. /\ Typed /\ Placed /\ Entitled /\ Unsaved /\ ctl.pc = "pick" /\ ctl \in Ctl
  BY DEF Inv, PickStep, At, Typed
<1>2. /\ ctl.due \in SUBSET Envs /\ ctl.idle \in SUBSET Branches /\ Branches \subseteq Envs
      /\ ctl.due \cap ctl.idle = {} /\ ctl.again = FALSE
      /\ \A e \in ctl.due \cup ctl.idle : mem.envs[e] # None
  BY <1>1, CtlFields DEF Placed, Entitled, Envs, Planning
<1>3. PICK e \in IF ctl.due # {} THEN First(ctl.due) ELSE ctl.idle :
         ctl' = [ctl EXCEPT
            !.env = e, !.due = ctl.due \ {e},
            !.idle = IF ctl.due # {} THEN ctl.idle ELSE ctl.idle \ {e},
            !.approve = IF mem.envs[e].approved # None THEN mem.envs[e].approved ELSE Fallback(e),
            !.pc = IF ctl.due = {} THEN "stop"
                   ELSE IF mem.envs[e].state = "deleting" THEN "down" ELSE "plan"]
  BY DEF PickStep
<1>4. Save(mem) /\ UNCHANGED <<git, inbox, live, people, mem, troubles>>
  BY DEF PickStep, world
<1>5. e \in ctl.due \cup ctl.idle /\ (ctl.due # {} => e \in ctl.due)
  BY <1>3 DEF First
<1>6. /\ e \in Envs /\ mem.envs[e] # None /\ Sound(e, mem.envs[e], past.approved)
  BY <1>1, <1>2, <1>5, TypedFields
<1> DEFINE approve == IF mem.envs[e].approved # None THEN mem.envs[e].approved ELSE Fallback(e)
           pc == IF ctl.due = {} THEN "stop"
                 ELSE IF mem.envs[e].state = "deleting" THEN "down" ELSE "plan"
           due == ctl.due \ {e}
           idle == IF ctl.due # {} THEN ctl.idle ELSE ctl.idle \ {e}
<1>7. Fallback(e) \in {None, ByPolicy} /\ (Fallback(e) = ByPolicy => e \in PolicyEnvs)
  BY NamesAreNoValues DEF Fallback
<1>8. /\ approve \in Hash \cup {None, ByPolicy}
      /\ approve \in Hash => <<e, approve>> \in past.approved
      /\ approve = ByPolicy => e \in PolicyEnvs
      /\ mem.envs[e].approved = IF approve \in Hash THEN approve ELSE None
  <2>1. /\ mem.envs[e].approved \in Hash \cup {None}
        /\ Given(e, mem.envs[e].approved, past.approved)
    BY <1>6, RecordFields
  <2>2. CASE mem.envs[e].approved = None
    BY <2>2, <1>7, NamesAreNoValues
  <2>3. CASE mem.envs[e].approved # None
    BY <2>1, <2>3, NamesAreNoValues DEF Given
  <2> QED
    BY <2>2, <2>3
<1>9. pc \in {"stop", "down", "plan"}
  OBVIOUS
<1>10. /\ due \in SUBSET Envs /\ idle \in SUBSET Branches /\ e \notin due \cup idle
       /\ due \subseteq ctl.due /\ idle \subseteq ctl.idle
  BY <1>2, <1>5
<1>11. ctl' = [ctl EXCEPT !.env = e, !.due = due, !.idle = idle, !.approve = approve, !.pc = pc]
  BY <1>3
<1> HIDE DEF approve, pc, due, idle
<1>12. /\ ctl' \in Ctl /\ ctl'.pc = pc /\ ctl'.env = e /\ ctl'.due = due /\ ctl'.idle = idle
       /\ ctl'.approve = approve /\ ctl'.again = FALSE /\ ctl'.got = ctl.got
  BY <1>1, <1>2, <1>6, <1>8, <1>9, <1>10, <1>11 DEF Ctl, Labels, InStep, Planning
<1>13. Polled
  BY <1>1, <1>4, <1>9, <1>12, SaveIs DEF Polled, Typed
<1>14. Placed'
  BY <1>1, <1>2, <1>4, <1>6, <1>9, <1>10, <1>12 DEF Placed, Env, Rec, Listing
<1>15. Entitled'
  BY <1>1, <1>4, <1>8, <1>9, <1>12, SaveIs DEF Entitled, Env, Rec, At
<1>16. Unsaved'
  BY <1>1, <1>4, <1>9, <1>12, SaveIs DEF Unsaved
<1> QED
  BY <1>13, <1>14, <1>15, <1>16, PolledInv

\* What a request makes of the records.
LEMMA ApprovedRevises ==
    ASSUME Inv, NEW r \in ctl.got, r.kind = "approve"
    PROVE  /\ Approved(mem.envs, r) \in [Envs -> Record \cup {None}]
           /\ Revised(mem.envs, Approved(mem.envs, r))
           /\ \A e \in Envs : mem.envs[e] = None => Approved(mem.envs, r)[e] = None
<1>1. Typed /\ <<r.env, r.arg>> \in past.approved
  BY DEF Inv, Vouched
<1>2. r.env \in Envs /\ r.arg \in Hash
  BY <1>1, TypedFields
<1> DEFINE rec == mem.envs[r.env]
           new == [rec EXCEPT !.state = "pending", !.approved = r.arg,
                              !.attempts = 0, !.waits = FALSE]
<1>3. /\ mem.envs \in [Envs -> Record \cup {None}]
      /\ \A e \in Envs : mem.envs[e] = None \/ Sound(e, mem.envs[e], past.approved)
  BY <1>1, TypedFields
<1>4. CASE Approved(mem.envs, r) = mem.envs
  BY <1>3, <1>4 DEF Revised
<1>5. CASE rec # None /\ Approved(mem.envs, r) = [mem.envs EXCEPT ![r.env] = new]
  <2>1. rec \in Record /\ Sound(r.env, rec, past.approved)
    BY <1>2, <1>3, <1>5 DEF Sound
  <2>2. /\ new \in Record /\ new.state = "pending" /\ new.approved = r.arg
        /\ new.deployedHash = rec.deployedHash
    BY <1>2, <2>1 DEF Record
  <2> HIDE DEF new
  <2>3. Sound(r.env, new, past.approved) /\ new # None
    BY <1>1, <2>1, <2>2, RecordFields, NamesAreNoValues DEF Sound, Given
  <2> QED
    BY <1>2, <1>3, <1>5, <2>2, <2>3 DEF Revised
<1>6. Approved(mem.envs, r) = IF rec # None /\ rec.state = "approval-required" /\ rec.plan = r.arg
                             THEN [mem.envs EXCEPT ![r.env] = new] ELSE mem.envs
  BY <1>2, <1>3 DEF Approved
<1> QED
  BY <1>4, <1>5, <1>6

LEMMA SyncedRevises ==
    ASSUME Inv, NEW r \in ctl.got, r.kind = "sync"
    PROVE  /\ Synced(mem.envs, r) \in [Envs -> Record \cup {None}]
           /\ Revised(mem.envs, Synced(mem.envs, r))
           /\ \A e \in Envs : mem.envs[e] = None => Synced(mem.envs, r)[e] = None
<1>1. Typed /\ r \in Request
  BY CtlFields DEF Inv
<1>2. r.env \in Envs
  BY <1>1 DEF Request, Envs
<1> DEFINE rec == mem.envs[r.env]
           new == [rec EXCEPT !.state = "pending", !.attempts = 0, !.waits = FALSE]
<1>3. /\ mem.envs \in [Envs -> Record \cup {None}]
      /\ \A e \in Envs : mem.envs[e] = None \/ Sound(e, mem.envs[e], past.approved)
  BY <1>1, TypedFields
<1>4. CASE Synced(mem.envs, r) = mem.envs
  BY <1>3, <1>4 DEF Revised
<1>5. CASE rec # None /\ Synced(mem.envs, r) = [mem.envs EXCEPT ![r.env] = new]
  <2>1. rec \in Record /\ Sound(r.env, rec, past.approved)
    BY <1>2, <1>3, <1>5 DEF Sound
  <2>2. /\ new \in Record /\ new.state = "pending" /\ new.approved = rec.approved
        /\ new.deployedHash = rec.deployedHash
    BY <2>1 DEF Record
  <2> HIDE DEF new
  <2>3. Sound(r.env, new, past.approved) /\ new # None
    BY <2>1, <2>2, RecordFields, NamesAreNoValues DEF Sound
  <2> QED
    BY <1>2, <1>3, <1>5, <2>2, <2>3 DEF Revised
<1>6. Synced(mem.envs, r) = IF rec # None /\ rec.state # "deleting"
                           THEN [mem.envs EXCEPT ![r.env] = new] ELSE mem.envs
  BY <1>2, <1>3 DEF Synced
<1> QED
  BY <1>4, <1>5, <1>6

LEMMA PromotedRevises ==
    ASSUME Inv, NEW r \in ctl.got, r.kind = "promote"
    PROVE  /\ Promoted(mem.envs, r) \in [Envs -> Record \cup {None}]
           /\ Revised(mem.envs, Promoted(mem.envs, r))
           /\ \A e \in Branches : Promoted(mem.envs, r)[e] = mem.envs[e]
<1>1. Typed /\ r \in Request
  BY CtlFields DEF Inv
<1>2. r.arg \in Commit /\ Main \in Envs /\ Main \notin Branches /\ Branches \subseteq Envs
  BY <1>1, ControllerAssumption DEF Request, Envs
<1>3. /\ mem.envs \in [Envs -> Record \cup {None}]
      /\ \A e \in Envs : mem.envs[e] = None \/ Sound(e, mem.envs[e], past.approved)
  BY <1>1, TypedFields
<1> DEFINE new == Wanted(mem.envs[Main], r.arg)
<1>4. /\ Sound(Main, new, past.approved)
      /\ new.deployedHash \in
            {None, IF mem.envs[Main] = None THEN None ELSE mem.envs[Main].deployedHash}
  BY <1>2, <1>3, WantedSound
<1>5. Promoted(mem.envs, r) \in {mem.envs, [mem.envs EXCEPT ![Main] = new]}
  BY DEF Promoted
<1> HIDE DEF new
<1>6. new # None /\ new \in Record
  BY <1>4, NamesAreNoValues DEF Sound
<1> QED
  BY <1>2, <1>3, <1>4, <1>5, <1>6 DEF Revised

LEMMA HandleRevises ==
    ASSUME Inv, NEW r \in ctl.got, Handle(r)
    PROVE  /\ mem' \in State /\ Revised(mem.envs, mem'.envs)
           /\ \A e \in Branches : mem'.envs[e] # None => mem.envs[e] # None
<1> DEFINE envs == CASE r.kind = "approve" -> Approved(mem.envs, r)
                     [] r.kind = "sync" -> Synced(mem.envs, r)
                     [] r.kind = "promote" -> Promoted(mem.envs, r)
<1>1. mem' = [mem EXCEPT !.envs = envs] /\ Typed /\ mem \in State
  BY DEF Handle, Inv, Typed
<1>2. r.kind \in {"approve", "sync", "promote"}
  BY <1>1, CtlFields DEF Request
<1>3. envs \in [Envs -> Record \cup {None}] /\ Revised(mem.envs, envs)
  BY <1>2, ApprovedRevises, SyncedRevises, PromotedRevises
<1>4. ASSUME NEW e \in Branches, mem.envs[e] = None PROVE envs[e] = None
  <2>1. mem.envs \in [Envs -> Record \cup {None}] /\ e \in Envs
    BY <1>1, TypedFields DEF Envs
  <2>2. CASE r.kind = "promote"
    BY <1>4, <2>2, PromotedRevises
  <2>3. CASE r.kind = "approve"
    <3>1. envs = Approved(mem.envs, r)
      BY <2>3
    <3> QED
      BY <1>4, <2>1, <2>3, <3>1, ApprovedRevises
  <2>4. CASE r.kind = "sync"
    <3>1. envs = Synced(mem.envs, r)
      BY <2>4
    <3> QED
      BY <1>4, <2>1, <2>4, <3>1, SyncedRevises
  <2> QED
    BY <1>2, <2>2, <2>3, <2>4
<1> HIDE DEF envs
<1>5. mem' \in State /\ mem'.envs = envs
  BY <1>1, <1>3 DEF State
<1> QED
  BY <1>3, <1>4, <1>5

LEMMA HandleInv == ASSUME Inv, NEW r \in ctl.got, Handle(r) PROVE Inv'
<1>1. /\ Typed /\ Placed /\ Entitled /\ Remembered /\ Recorded /\ Unsaved /\ Vouched
      /\ ctl.pc = "handle" /\ ctl \in Ctl /\ past \in Past
  BY DEF Inv, Handle, At, Typed
<1>2. /\ mem' \in State /\ Revised(mem.envs, mem'.envs)
      /\ \A e \in Branches : mem'.envs[e] # None => mem.envs[e] # None
  BY HandleRevises
<1>3. UNCHANGED <<git, inbox, live, people, disk, troubles>>
  BY DEF Handle, world
<1>4. PICK pc \in {"handle", "remove"} :
         ctl' = [ctl EXCEPT !.got = ctl.got \ {r}, !.handled = ctl.handled \cup {r}, !.pc = pc]
  BY <1>1 DEF Handle
<1>5. /\ ctl.got \in SUBSET Request /\ ctl.handled \in SUBSET Request /\ r \in Request
      /\ ctl.due \cup ctl.idle \subseteq Envs
  BY <1>1, CtlFields DEF Envs
<1>6. /\ ctl' \in Ctl /\ ctl'.pc = pc /\ ctl'.refs = ctl.refs
      /\ ctl'.got = ctl.got \ {r} /\ ctl'.handled = ctl.handled \cup {r}
      /\ ctl'.due = ctl.due /\ ctl'.idle = ctl.idle /\ ctl'.again = ctl.again
  BY <1>1, <1>4, <1>5 DEF Ctl, Labels, Listing
<1>7. PICK unsaved \in {past.unsaved, past.unsaved \cup {r}} :
         past' = [past EXCEPT !.unsaved = unsaved]
  <2> DEFINE unsaved == IF mem' = mem THEN past.unsaved ELSE past.unsaved \cup {r}
  <2>1. past' = [past EXCEPT !.unsaved = unsaved]
    BY DEF Handle
  <2>2. unsaved \in {past.unsaved, past.unsaved \cup {r}}
    OBVIOUS
  <2> HIDE DEF unsaved
  <2> QED
    BY <2>1, <2>2
<1>8. /\ past' \in Past /\ past'.unsaved = unsaved
      /\ past'.approved = past.approved /\ past'.owner = past.owner
      /\ past'.lost = past.lost /\ past'.torn = past.torn
  BY <1>1, <1>5, <1>7 DEF Past
<1>9. Typed'
  BY <1>1, <1>2, <1>3, <1>6, <1>8 DEF Typed, Records, Revised, people
<1>10. Vouched'
  BY <1>1, <1>3, <1>6, <1>8 DEF Vouched
<1>11. Placed'
  BY <1>1, <1>2, <1>5, <1>6 DEF Placed, Revised, Listing, InStep, Planning
<1>12. Entitled'
  BY <1>1, <1>6 DEF Entitled, At, Planning
<1>13. Remembered'
  <2> SUFFICES ASSUME ~past.torn PROVE Owned(mem.envs)' /\ Owned(disk.envs)'
    BY <1>8 DEF Remembered
  <2>1. Owned(mem.envs) /\ Owned(disk.envs)
    BY <1>1 DEF Remembered, At
  <2>2. Owned(mem'.envs)
    BY <1>2, <2>1, RevisedOwned
  <2> QED
    BY <1>3, <1>8, <2>1, <2>2 DEF Owned
<1>14. Recorded'
  BY <1>1, <1>2, <1>3 DEF Recorded, Revised, Envs
<1>15. Unsaved'
  BY <1>1, <1>3, <1>6, <1>8 DEF Unsaved
<1> QED
  BY <1>9, <1>10, <1>11, <1>12, <1>13, <1>14, <1>15 DEF Inv

\* What the controller wants of each environment, from the refs it listed.
LEMMA DesiredRevises ==
    ASSUME Inv, At("desire")
    PROVE  DesiredState \in State /\ Revised(mem.envs, DesiredState.envs)
<1> DEFINE tagged == mem.baseline /\ ctl.refs.tag.id > mem.seen
           rec(e) == IF e = Main
                     THEN IF tagged THEN Wanted(mem.envs[e], ctl.refs.tag.commit)
                                    ELSE mem.envs[e]
                     ELSE IF ctl.refs.head[e] # None
                          THEN Wanted(mem.envs[e], ctl.refs.head[e])
                          ELSE Doomed(mem.envs[e])
           Good(e) == /\ rec(e) = None \/ Sound(e, rec(e), past.approved)
                      /\ mem.envs[e] # None => rec(e) # None
                      /\ rec(e) # None /\ rec(e).deployedHash # None =>
                            mem.envs[e] # None /\ rec(e).deployedHash = mem.envs[e].deployedHash
<1>1. /\ Typed /\ ctl.refs \in Git /\ Tagged(ctl.refs)
  BY DEF Inv, Placed, At, Listing
<1>2. /\ mem.envs \in [Envs -> Record \cup {None}] /\ mem.seen \in 0 .. MaxPushes
      /\ \A e \in Envs : mem.envs[e] = None \/ Sound(e, mem.envs[e], past.approved)
  BY <1>1, TypedFields
<1>3. /\ ctl.refs.head \in [Branches -> Commit \cup {None}]
      /\ ctl.refs.tag.id \in 0 .. MaxPushes /\ ctl.refs.tag.commit \in Commit \cup {None}
  BY <1>1 DEF Git
<1>4. tagged => ctl.refs.tag.commit \in Commit
  BY <1>1, <1>2, <1>3, ControllerAssumption DEF Tagged
<1>5. ASSUME NEW e \in Envs PROVE Good(e)
  <2> DEFINE Asked(c) == Wanted(mem.envs[e], c)
  <2>1. ASSUME NEW c \in Commit
        PROVE  /\ Sound(e, Asked(c), past.approved) /\ Asked(c) # None
               /\ Asked(c).deployedHash # None =>
                     mem.envs[e] # None /\ Asked(c).deployedHash = mem.envs[e].deployedHash
    <3>1. /\ Sound(e, Asked(c), past.approved)
          /\ Asked(c).deployedHash \in
                {None, IF mem.envs[e] = None THEN None ELSE mem.envs[e].deployedHash}
      BY <1>2, <2>1, WantedSound
    <3> HIDE DEF Asked
    <3> QED
      BY <3>1, RecordFields
  <2>2. CASE rec(e) = mem.envs[e]
    BY <1>2, <2>2
  <2>3. ASSUME NEW c \in Commit, rec(e) = Asked(c) PROVE Good(e)
    BY <2>1, <2>3
  <2>4. CASE e # Main /\ rec(e) = Doomed(mem.envs[e])
    <3>1. /\ Doomed(mem.envs[e]) = None <=> mem.envs[e] = None
          /\ mem.envs[e] # None =>
                /\ Sound(e, Doomed(mem.envs[e]), past.approved)
                /\ Doomed(mem.envs[e]).deployedHash = mem.envs[e].deployedHash
      BY <1>2, <2>4, DoomedSound
    <3> QED
      BY <2>4, <3>1
  <2>5. \/ rec(e) = mem.envs[e]
        \/ \E c \in Commit : rec(e) = Asked(c)
        \/ e # Main /\ rec(e) = Doomed(mem.envs[e])
    BY <1>3, <1>4 DEF Envs
  <2> HIDE DEF rec, Good, Asked
  <2> QED
    BY <2>2, <2>3, <2>4, <2>5
<1>6. \A e \in Envs : rec(e) \in Record \cup {None}
  BY <1>5 DEF Sound
<1>7. DesiredState = [envs |-> [e \in Envs |-> rec(e)], seen |-> ctl.refs.tag.id, baseline |-> TRUE]
  BY DEF DesiredState
<1> HIDE DEF rec
<1>8. DesiredState \in State /\ DesiredState.envs = [e \in Envs |-> rec(e)]
  BY <1>3, <1>6, <1>7 DEF State
<1> QED
  BY <1>5, <1>8 DEF Revised

LEMMA DesireInv == Inv /\ Desire => Inv'
<1> SUFFICES ASSUME Inv, Desire PROVE Inv'
  OBVIOUS
<1>1. /\ Typed /\ Placed /\ Entitled /\ Remembered /\ Recorded /\ Unsaved /\ Vouched
      /\ ctl.pc = "desire" /\ ctl \in Ctl
  BY DEF Inv, Desire, At, Typed
<1>2. mem' \in State /\ Revised(mem.envs, mem'.envs)
  BY DesiredRevises DEF Desire
<1>3. UNCHANGED <<git, inbox, live, people, troubles>>
  BY DEF Desire, world
<1>4. /\ disk' = mem' /\ past' \in Past /\ past'.unsaved = {}
      /\ past'.approved = past.approved /\ past'.owner = past.owner
      /\ past'.lost = past.lost /\ past'.torn = past.torn
  BY <1>1, SaveIs DEF Desire
<1>5. /\ DueOf(mem'.envs) \in SUBSET Envs
      /\ IdleOf(mem'.envs) \in SUBSET Branches
      /\ DueOf(mem'.envs) \cap IdleOf(mem'.envs) = {}
      /\ \A e \in DueOf(mem'.envs) \cup IdleOf(mem'.envs) : mem'.envs[e] # None
  BY DEF DueOf, IdleOf
<1>6. /\ ctl' \in Ctl /\ ctl'.pc \in {"poll", "fetch"} /\ ctl'.again = FALSE
      /\ ctl'.got \subseteq ctl.got
      /\ ctl'.pc = "poll" => ctl'.handled = {}
      /\ ctl'.due \subseteq DueOf(mem'.envs) /\ ctl'.idle \subseteq IdleOf(mem'.envs)
  <2>1. CASE ctl' = Idle
    BY <2>1, IdleIs
  <2>2. ASSUME NEW stops \in SUBSET IdleOf(mem'.envs),
               ctl' = [ctl EXCEPT !.pc = "fetch", !.due = DueOf(mem'.envs), !.idle = stops]
        PROVE  /\ ctl' \in Ctl /\ ctl'.pc = "fetch" /\ ctl'.again = FALSE /\ ctl'.got = ctl.got
               /\ ctl'.due = DueOf(mem'.envs) /\ ctl'.idle = stops
    <3>1. ctl.again = FALSE /\ stops \in SUBSET Branches
      BY <1>1, <1>5, <2>2, CtlFields DEF Entitled, Planning
    <3> QED
      BY <1>1, <1>5, <2>2, <3>1 DEF Ctl, Labels
  <2> QED
    BY <2>1, <2>2 DEF Desire
<1>7. Typed'
  BY <1>1, <1>2, <1>3, <1>4, <1>6 DEF Typed, Records, Revised, people
<1>8. Vouched'
  BY <1>1, <1>3, <1>4, <1>6 DEF Vouched
<1>9. Placed'
  BY <1>5, <1>6 DEF Placed, Listing, InStep, Planning
<1>10. Entitled'
  BY <1>6 DEF Entitled, At, Planning
<1>11. Remembered'
  <2> SUFFICES ASSUME ~past.torn PROVE Owned(mem.envs)' /\ Owned(disk.envs)'
    BY <1>4 DEF Remembered
  <2>1. Owned(mem'.envs)
    BY <1>1, <1>2, RevisedOwned DEF Remembered
  <2> QED
    BY <1>4, <2>1 DEF Owned
<1>12. Recorded'
  BY <1>1, <1>2, <1>3, <1>4 DEF Recorded, Revised, Envs
<1>13. Unsaved'
  BY <1>1, <1>4, <1>6 DEF Unsaved
<1> QED
  BY <1>7, <1>8, <1>9, <1>10, <1>11, <1>12, <1>13 DEF Inv

\* A backoff ends, in memory and on disk.
LEMMA DueRevises ==
    ASSUME Inv, NEW e \in Envs, NEW state \in State, NEW next,
           Records(state.envs, past.approved), next = [state EXCEPT !.envs[e] = Due(@)]
    PROVE  /\ next \in State /\ Revised(state.envs, next.envs)
           /\ next.envs = [state.envs EXCEPT ![e] = Due(state.envs[e])]
<1>1. state.envs \in [Envs -> Record \cup {None}]
  BY DEF State
<1>2. next = [state EXCEPT !.envs = [state.envs EXCEPT ![e] = Due(state.envs[e])]]
  OBVIOUS
<1>3. state.envs[e] = None \/ Sound(e, state.envs[e], past.approved)
  BY DEF Records
<1>4. /\ Due(state.envs[e]) = None <=> state.envs[e] = None
      /\ state.envs[e] # None =>
            /\ Sound(e, Due(state.envs[e]), past.approved)
            /\ Due(state.envs[e]).deployedHash = state.envs[e].deployedHash
            /\ Due(state.envs[e]).approved = state.envs[e].approved
  BY <1>3, DueSound
<1>5. Due(state.envs[e]) \in Record \cup {None}
  BY <1>3, <1>4 DEF Sound
<1>6. next \in State /\ next.envs = [state.envs EXCEPT ![e] = Due(state.envs[e])]
  BY <1>1, <1>2, <1>5 DEF State
<1> QED
  BY <1>1, <1>4, <1>6 DEF Records, Revised

LEMMA RetryDueInv == ASSUME Inv, NEW e \in Envs, RetryDue(e) PROVE Inv'
<1>1. /\ Typed /\ Placed /\ Entitled /\ Remembered /\ Recorded /\ Unsaved /\ Vouched
  BY DEF Inv
<1>2. UNCHANGED <<git, inbox, live, people, ctl, troubles, past>>
  BY DEF RetryDue, world
<1>3. /\ mem' \in State /\ Revised(mem.envs, mem'.envs)
      /\ \A x \in Envs : mem.envs[x] = None => mem'.envs[x] = None
      /\ \A x \in Envs : mem.envs[x] # None =>
            /\ mem'.envs[x].approved = mem.envs[x].approved
            /\ mem'.envs[x].deployedHash = mem.envs[x].deployedHash
  <2>1. /\ mem \in State /\ Records(mem.envs, past.approved)
        /\ mem' = [mem EXCEPT !.envs[e] = Due(@)]
    BY <1>1 DEF RetryDue, Typed
  <2>2. mem' \in State /\ Revised(mem.envs, mem'.envs)
    BY <2>1, DueRevises
  <2>3. mem'.envs = [mem.envs EXCEPT ![e] = Due(mem.envs[e])]
    BY <2>1, DueRevises
  <2>4. /\ mem.envs \in [Envs -> Record \cup {None}]
        /\ mem.envs[e] = None \/ Sound(e, mem.envs[e], past.approved)
    BY <1>1, TypedFields
  <2>5. /\ Due(mem.envs[e]) = None <=> mem.envs[e] = None
        /\ mem.envs[e] # None =>
              /\ Due(mem.envs[e]).approved = mem.envs[e].approved
              /\ Due(mem.envs[e]).deployedHash = mem.envs[e].deployedHash
    BY <2>4, DueSound
  <2> QED
    BY <2>2, <2>3, <2>4, <2>5
<1>4. disk' \in State /\ Revised(disk.envs, disk'.envs)
  BY <1>1, DueRevises DEF RetryDue, Typed
<1>5. Typed'
  BY <1>1, <1>2, <1>3, <1>4 DEF Typed, Records, Revised, people
<1>6. Vouched'
  BY <1>1, <1>2 DEF Vouched
<1>7. Placed'
  <2>1. ctl.due \cup ctl.idle \subseteq Envs
    BY <1>1, CtlFields DEF Envs
  <2> QED
    BY <1>1, <1>2, <1>3, <2>1 DEF Placed, Revised, Env, Rec
<1>8. Entitled'
  <2>1. ctl.pc \in Planning => Env \in Envs /\ Rec # None
    BY <1>1, RecIs DEF InStep
  <2>2. ctl.pc \in Planning =>
           Rec'.approved = Rec.approved /\ Rec'.deployedHash = Rec.deployedHash
    BY <1>2, <1>3, <2>1 DEF Env, Rec
  <2> QED
    BY <1>1, <1>2, <2>2 DEF Entitled, Env, At
<1>9. Remembered'
  BY <1>1, <1>2, <1>3, <1>4, RevisedOwned DEF Remembered, Owned, At, Revised
<1>10. Recorded'
  BY <1>1, <1>2, <1>3, <1>4 DEF Recorded, Revised, Envs
<1>11. Unsaved'
  BY <1>1, <1>2 DEF Unsaved
<1> QED
  BY <1>5, <1>6, <1>7, <1>8, <1>9, <1>10, <1>11 DEF Inv

LEMMA CrashInv == Inv /\ Crash => Inv'
<1> SUFFICES ASSUME Inv, Crash PROVE Inv'
  OBVIOUS
<1>1. /\ Typed /\ Placed /\ Remembered /\ Recorded /\ Unsaved /\ Vouched
  BY DEF Inv
<1>2. /\ mem' = disk /\ ctl' = Idle /\ UNCHANGED <<git, inbox, people, disk>>
  BY DEF Crash
<1>3. troubles' \in 0 .. MaxTroubles
  BY FaultyOrNot DEF Crash
<1>4. /\ live' \in [Envs -> Runs]
      /\ \A e \in Branches : live'[e] # Nothing => mem.envs[e] # None
  <2>1. CASE UNCHANGED live
    BY <1>1, <2>1 DEF Typed, Recorded
  <2>2. CASE At("apply") /\ Run([workload |-> Mixed, checked |-> None, up |-> TRUE])
    <3>1. Env \in Envs /\ Rec # None
      BY <1>1, <2>2, RecIs DEF At, InStep, Planning
    <3> QED
      BY <1>1, <2>2, <3>1, Partly DEF Typed, Recorded, Run, Rec, Envs
  <2> QED
    BY <2>1, <2>2 DEF Crash
<1> DEFINE lost == past.lost \/ past.unsaved \ inbox # {}
           torn == \/ past.torn \/ At("save") \/ live' # live
                   \/ (At("desire") /\ past.unsaved # {})
<1>5. past' = [past EXCEPT !.unsaved = {}, !.lost = lost, !.torn = torn]
  BY DEF Crash
<1>6. lost \in BOOLEAN /\ torn \in BOOLEAN
  BY <1>1, TypedFields
<1>7. lost => torn
  <2>1. CASE past.lost
    BY <1>1, <2>1 DEF Unsaved
  <2>2. CASE past.unsaved \ inbox # {}
    BY <1>1, <2>2 DEF Unsaved, At
  <2> QED
    BY <2>1, <2>2
<1>8. ~torn => ~past.torn /\ ~At("save")
  OBVIOUS
<1> HIDE DEF lost, torn
<1>9. /\ past' \in Past /\ past'.unsaved = {} /\ past'.lost = lost /\ past'.torn = torn
      /\ past'.approved = past.approved /\ past'.owner = past.owner
  BY <1>1, <1>5, <1>6 DEF Typed, Past
<1>10. Typed'
  BY <1>1, <1>2, <1>3, <1>4, <1>9, IdleIs DEF Typed, people
<1>11. Vouched'
  BY <1>1, <1>2, <1>9, IdleIs DEF Vouched
<1>12. Placed' /\ Entitled'
  BY <1>2, IdleIs DEF Placed, Entitled, At, Listing, InStep, Planning
<1>13. Remembered'
  BY <1>1, <1>2, <1>8, <1>9 DEF Remembered, Owned
<1>14. Recorded'
  BY <1>1, <1>2, <1>4 DEF Recorded
<1>15. Unsaved'
  BY <1>2, <1>7, <1>9, IdleIs DEF Unsaved
<1> QED
  BY <1>10, <1>11, <1>12, <1>13, <1>14, <1>15 DEF Inv

LEMMA InitInv == Init => Inv
<1> SUFFICES ASSUME Init PROVE Inv
  OBVIOUS
<1>1. {MaxPushes, MaxRequests, MaxTroubles} \subseteq Nat
  BY ControllerAssumption
<1>2. /\ ctl = Idle /\ disk = Fresh /\ mem = Fresh /\ past = PastInit
      /\ inbox = {} /\ pushes = 0 /\ sent = 0 /\ troubles = 0
  BY DEF Init
<1>3. /\ git \in Git /\ git.tag.id = 0
  BY <1>1 DEF Init, Git
<1>4. live \in [Envs -> Runs] /\ \A e \in Branches : live[e] = Nothing
  <2>1. Nothing \in Runs /\ [Nothing EXCEPT !.workload = Before] \in Runs
    BY ControllerAssumption DEF Nothing, Runs
  <2> QED
    BY <2>1, ControllerAssumption DEF Init, Envs
<1>5. Fresh \in State /\ \A e \in Envs : Fresh.envs[e] = None
  BY <1>1 DEF Fresh, State
<1>6. /\ PastInit \in Past /\ PastInit.unsaved = {} /\ PastInit.lost = FALSE
  BY DEF PastInit, Past
<1>7. Typed
  BY <1>1, <1>2, <1>3, <1>4, <1>5, <1>6, IdleIs DEF Typed, Records, Tagged
<1>8. Vouched /\ Placed /\ Entitled
  BY <1>2, IdleIs DEF Vouched, Placed, Entitled, At, Listing, InStep, Planning
<1>9. Remembered /\ Recorded /\ Unsaved
  BY <1>2, <1>4, <1>5, <1>6, IdleIs DEF Remembered, Owned, Recorded, Unsaved, Envs
<1> QED
  BY <1>7, <1>8, <1>9 DEF Inv

LEMMA NextInv == Inv /\ [Next]_vars => Inv'
<1> SUFFICES ASSUME Inv, [Next]_vars PROVE Inv'
  OBVIOUS
<1>1. CASE UNCHANGED vars
  <2>1. /\ UNCHANGED <<git, inbox, live, people, disk, mem, ctl, troubles, past>>
    BY <1>1 DEF vars, people
  <2>2. Meanwhile
    BY <2>1 DEF Inv, Typed, Meanwhile, people
  <2> QED
    BY <2>2, MeanwhileInv
<1>2. CASE Steps
  BY <1>2, StepsWork, WorkedInv
<1>3. CASE \/ LsRemote \/ ReadRequests \/ (\E r \in ctl.got : Handle(r)) \/ RemoveRequests
           \/ Desire \/ Fetch \/ PickStep \/ EndPoll \/ SaveStep
  BY <1>3, LsRemoteInv, ReadRequestsInv, HandleInv, RemoveRequestsInv, DesireInv, FetchInv,
     PickStepInv, EndPollInv, SaveStepInv
<1>4. CASE People
  BY <1>4, PeopleInv
<1>5. CASE \E e \in Envs : RetryDue(e)
  BY <1>5, RetryDueInv
<1>6. CASE Crash
  BY <1>6, CrashInv
<1> QED
  BY <1>1, <1>2, <1>3, <1>4, <1>5, <1>6 DEF Next, Controller, Steps

-----------------------------------------------------------------------------
(* What the controller promises.                                           *)

THEOREM Invariance == Spec => []Inv
  BY InitInv, NextInv, PTL DEF Spec

\* Every variable has its type; a record being deleted, retried or waiting for an
\* approval carries what that state needs (_fail, _outcome, _desired).
THEOREM TypeCorrect == Spec => []TypeOK
<1>1. Inv => TypeOK
  <2> SUFFICES ASSUME Typed PROVE TypeOK
    BY DEF Inv
  <2>1. ASSUME NEW s \in {disk, mem}
        PROVE  /\ s \in State
               /\ \A e \in Envs : s.envs[e] # None =>
                     /\ (s.envs[e].state = "approval-required") => s.envs[e].plan # None
                     /\ (s.envs[e].state = "retrying") => s.envs[e].attempts > 0
                     /\ (s.envs[e].state = "deleting") => e # Main
    BY DEF Typed, Records, Sound
  <2>2. /\ ctl.got \cup ctl.handled \subseteq Request
        /\ ctl.due \subseteq Envs /\ ctl.idle \subseteq Branches
        /\ ctl.env \in Envs \cup {None}
    BY CtlFields
  <2> QED
    BY <2>1, <2>2 DEF Typed, TypeOK, Git
<1> QED
  BY <1>1, Invariance, PTL

\* No branch's environment runs without a record on disk: a teardown that failed,
\* or was cut short by a kill, is tried again.
THEOREM LeavesNoOrphan == Spec => []NoOrphans
<1>1. Inv => NoOrphans
  BY DEF Inv, Recorded, NoOrphans
<1> QED
  BY <1>1, Invariance, PTL

\* What is applied without asking again is the approved plan of the release that
\* was deployed last, unless a kill came between an effect and its save.
THEOREM AsksUnlessDeployed == Spec => []AsksAgain
<1>1. Inv => AsksAgain
  <2> SUFFICES ASSUME Inv, At("apply"), ctl.again, ~past.torn
               PROVE  past.owner[Env] = ctl.hash
    BY DEF AsksAgain
  <2>1. Typed /\ Placed /\ Entitled /\ Remembered /\ ctl.pc \in Planning /\ ctl.pc \in InStep
    BY DEF Inv, At, Planning, InStep
  <2>2. Env \in Envs /\ Rec # None
    BY <2>1, RecIs
  <2>3. /\ ctl.approve \in Hash /\ ctl.approve = Rec.deployedHash
        /\ Covers(ctl.approve, ctl.hash)
    BY <2>1 DEF Entitled
  <2>4. ctl.hash = Rec.deployedHash /\ Rec.deployedHash # None
    BY <2>3, NamesAreNoValues DEF Covers
  <2> QED
    BY <2>1, <2>2, <2>4 DEF Remembered, Owned, Rec
<1> QED
  BY <1>1, Invariance, PTL

\* A request that was removed from the inbox is not forgotten, unless a kill hits
\* the controller between the removal and the save that follows.
THEOREM RequestsAreKept == Spec => []RequestsKeptUntorn
<1>1. Inv => RequestsKeptUntorn
  BY DEF Inv, Unsaved, RequestsKeptUntorn
<1> QED
  BY <1>1, Invariance, PTL

\* What is applied is inside the owner's policy, or is the plan whose hash the
\* owner approved for that environment against what ran at that moment.
THEOREM AppliesApproved == Spec => NothingUnapproved
<1> DEFINE Allowed == LET hash == PlanHash(Rec.commit, live[Env])
                      IN  \/ <<Env, hash>> \in past.approved
                          \/ Env \in PolicyEnvs /\ Within(hash)
<1>1. ASSUME Inv, Next, Applies, live'[Env].workload = Wants.workload
      PROVE  Allowed
  <2> DEFINE hash == PlanHash(Rec.commit, live[Env])
  <2>1. Typed /\ Placed /\ Entitled /\ ctl.pc \in Planning /\ ctl.pc \in InStep /\ At("apply")
    BY <1>1 DEF Inv, Applies, At, Planning, InStep
  <2>2. /\ Env \in Envs /\ Rec.commit \in Commit /\ live[Env] \in Runs
    BY <2>1, PlanIs
  <2>3. ctl'.pc # "apply" /\ live' # live
    BY <1>1 DEF Applies
  <2>4. live'[Env].workload # Mixed
    BY <1>1, <2>2, CommitIs, ControllerAssumption DEF Wants
  <2>5. ~Run([workload |-> Mixed, checked |-> None, up |-> TRUE])
    BY <2>1, <2>2, <2>4 DEF Run, Typed
  <2>6. ApplyOk \/ ChecksFail
    <3>1. ~People /\ \A e \in Envs : ~RetryDue(e)
      BY <2>1, <2>3 DEF People, DeleteBranch, Push, Tag, Approve, Promote, Sync, Send,
                        DeployByHand, RetryDue, world, At
    <3>2. ~Crash /\ ~ApplyRefused /\ ~ApplyFails
      BY <2>3, <2>5 DEF Crash, ApplyRefused, ApplyFails
    <3>3. Controller
      BY <1>1, <3>1, <3>2 DEF Next
    <3> QED
      BY <2>1, <3>2, <3>3 DEF Controller, LsRemote, ReadRequests, Handle, RemoveRequests,
           Desire, Fetch, PickStep, EndPoll, SaveStep, PrepareFails, PlanAsks, PlanStale,
           PlanAccepted, TearDown, Stop, At
  <2>7. ctl.hash = hash
    BY <2>6 DEF ApplyOk, ChecksFail, Stale
  <2>8. /\ ctl.hash \in Hash /\ Covers(ctl.approve, ctl.hash)
        /\ ctl.approve \in Hash => <<Env, ctl.approve>> \in past.approved
        /\ ctl.approve = ByPolicy => Env \in PolicyEnvs
    BY <2>1 DEF Entitled
  <2> HIDE DEF hash
  <2>9. <<Env, hash>> \in past.approved \/ (Env \in PolicyEnvs /\ Within(hash))
    BY <2>7, <2>8 DEF Covers
  <2> QED
    BY <2>9 DEF hash
<1>2. Inv /\ [Next]_vars =>
         (Applies /\ live'[Env].workload = Wants.workload => Allowed)
  <2>1. ASSUME UNCHANGED vars PROVE ~Applies
    BY <2>1 DEF vars, Applies
  <2> QED
    BY <1>1, <2>1
<1> QED
  BY <1>2, Invariance, PTL DEF Spec, NothingUnapproved
=============================================================================
