---------------------------- MODULE HostAgentProofs ----------------------------
(***************************************************************************)
(* Theorems about HostAgent, for any builds, bounds, kills and reboots.    *)
(***************************************************************************)
EXTENDS HostAgent, FiniteSetTheorems, FunctionTheorems, WellFoundedInduction, TLAPS

\* The systems of a profile, and the two newest: Keep is at least 2, so that
\* pruning spares those.
Systems(gens) == {gens[i] : i \in DOMAIN gens}
Newest(gens) == {gens[i] : i \in {j \in DOMAIN gens : j > Len(gens) - 2}}

-----------------------------------------------------------------------------
(* The inductive invariant.                                                *)

\* Where the attempt in hand is also pending, and what undoes it.
Deploying == {"activate", "checks", "profile", "entry"}
Undoing == {"undo", "undoProfile", "undoEntry", "undone"}
InJob == Deploying \cup Undoing
Labels == InJob \cup {"idle", "decide", "fetch", "mark", "prune", "collect", "finish"}

Proper(attempt) == attempt # None => attempt.from # attempt.build

Refs == [head : Builds \cup {None}, at : 0 .. MaxPublish,
         tags : [Tagged -> 0 .. MaxPublish]]
Host == [running : Builds, booted : Builds, entry : Builds, gens : Seq(Builds),
         store : SUBSET Builds]
Run == [pc : Labels, does : {"poll", "pin", "unpin", "rollback", None},
        pin : Builds \cup {None}, attempt : Attempt \cup {None}, recovers : BOOLEAN]
Past == [checked : SUBSET Builds, failed : [Builds -> Nat],
         older : SUBSET Builds, stuck : BOOLEAN, torn : BOOLEAN, half : BOOLEAN, byHand : BOOLEAN]
Pinned == ~At("idle") /\ proc.does = "pin" => proc.pin \in Tagged
Typed ==
    /\ refs \in Refs
    /\ host \in Host
    /\ host.gens # <<>>
    /\ disk \in State /\ mem \in State
    /\ proc \in Run
    /\ Pinned
    /\ troubles \in 0 .. MaxTroubles
    /\ past \in Past

\* What the run has in hand, on disk and in memory at each place.
Placed ==
    /\ Proper(disk.pending) /\ Proper(mem.pending) /\ Proper(Job)
    /\ At("idle") => mem = Fresh
    /\ At("decide") => mem = disk
    /\ proc.pc \in {"decide", "fetch", "mark"} => disk.pending = None
    /\ proc.pc \in {"decide", "fetch", "mark", "prune", "collect", "finish"} =>
          mem.pending = None
    /\ proc.pc \in InJob => mem.pending = Job
    /\ proc.pc \in InJob \cup {"prune", "collect"} => disk.pending = Job
    /\ proc.pc \in InJob \cup {"fetch", "mark", "prune", "collect"} => Job # None
    /\ proc.pc \in {"fetch", "mark", "activate", "checks"} => ~Job.booting
    /\ proc.pc \in {"profile", "entry", "undoProfile", "undoEntry", "prune", "collect"} =>
          Job.booting
    /\ proc.pc \in {"fetch", "mark"} \cup Deploying => mem.current = Job.from
    /\ proc.pc \in {"prune", "collect"} =>
          mem.current = Job.build /\ mem.previous = Job.from

\* Where the systems in use are: the profile's are in the store, and so is what
\* is being deployed or gone back to; what boots and what an attempt goes back
\* to are in the profile; what runs is too, unless it is being tried.
Rooted ==
    /\ Systems(host.gens) \subseteq host.store
    /\ proc.pc \in {"mark"} \cup Deploying => Job.build \in host.store
    /\ proc.pc \in {"undoProfile", "undoEntry"} => Job.from \in host.store
    /\ proc.pc \in {"checks", "profile"} =>
          host.running \in {Job.build, Last(host.gens)}
    /\ proc.pc \in {"entry", "prune"} =>
          /\ Job.build \in Systems(host.gens)
          /\ host.running \in {Job.build} \cup Newest(host.gens)
    /\ At("prune") => host.entry \in {Job.build} \cup Newest(host.gens)
    /\ ~past.stuck =>
          /\ host.entry \in Systems(host.gens)
          /\ disk.pending # None => disk.pending.from \in Systems(host.gens)
          /\ proc.pc \in {"fetch", "mark"} => Job.from \in Systems(host.gens)
          /\ \/ host.running \in Systems(host.gens)
             \/ /\ proc.pc \in {"idle", "checks", "profile", "undo"}
                /\ disk.pending # None /\ host.running = disk.pending.build

\* What rollback would go back to is in the profile.
PreviousKept ==
    ~past.stuck /\ ~past.torn =>
        /\ mem.previous \in Systems(host.gens) \cup {None}
        /\ proc.pc \notin {"prune", "collect", "finish"} =>
              disk.previous \in Systems(host.gens) \cup {None}

\* What boots, what an attempt goes back to and what runs, unless it is being
\* tried, passed its checks.
Checked ==
    /\ proc.pc \in {"profile", "entry"} => Job.build \in past.checked
    /\ ~past.stuck =>
          /\ host.entry \in past.checked
          /\ disk.pending # None => disk.pending.from \in past.checked
          /\ proc.pc \in {"fetch", "mark"} => Job.from \in past.checked
          /\ \/ host.running \in past.checked
             \/ /\ proc.pc \in {"idle", "checks", "undo"}
                /\ disk.pending # None /\ host.running = disk.pending.build

\* With nobody else and no lost rollback: what boots and what runs is one side
\* of the pending attempt or the other, and what is held is where it goes back to.
Steady == ~past.stuck /\ ~past.half /\ ~past.byHand
Follow ==
    /\ /\ proc.does = "poll"
       /\ proc.pc \in {"fetch", "mark"} \cup Deploying \cup {"prune", "collect"}
       => mem.hold = None
    /\ Steady =>
        /\ disk.pending = None =>
              host.entry = host.running /\ disk.hold \in {None, host.running}
        /\ disk.pending # None =>
              LET job == disk.pending
              IN  /\ disk.hold \in {None, job.from}
                  /\ host.running \in {job.from, job.build}
                  /\ host.entry \in {job.from} \cup (IF job.booting THEN {job.build} ELSE {})
                  /\ host.running = job.from /\ host.entry # job.from =>
                        proc.pc \in {"undoProfile", "undoEntry"}
        /\ proc.pc \in {"fetch", "mark"} \cup InJob => mem.hold \in {None, Job.from}
        /\ proc.pc \in {"fetch", "mark", "undoProfile", "undoEntry", "undone"} =>
              host.running = Job.from
        /\ proc.pc \in {"checks", "profile", "entry", "prune", "collect"} =>
              host.running = Job.build
        /\ proc.pc \in {"prune", "collect"} => host.entry = Job.build
        /\ At("finish") => host.entry = host.running /\ mem.hold \in {None, host.running}

\* A publication that failed is marked, or the attempt that failed is there to
\* be marked, unless an older one of the same build moved the mark back since; and
\* what a poll deploys is newer than its build's last failure.
Covers(job, b) == job # None /\ job.trigger # "rollback" /\ job.build = b
Marked ==
    /\ \A b \in Builds \ past.older :
          /\ past.failed[b] <= disk.bad[b] \/ Covers(disk.pending, b)
          /\ ~At("idle") =>
                past.failed[b] <= mem.bad[b] \/ (proc.pc \in Undoing /\ Covers(Job, b))
          /\ proc.pc \in Undoing \cup {"idle"} /\ Covers(disk.pending, b) =>
                past.failed[b] <= disk.pending.at
    /\ proc.pc \in {"fetch", "mark", "activate"} /\ Job.trigger = "poll" =>
          Job.build \in past.older \/ past.failed[Job.build] < Job.at

-----------------------------------------------------------------------------
(* Lemmas on data.                                                         *)

\* A non-empty set of bounded naturals has its maximum.
LEMMA MaxIs ==
    ASSUME NEW n \in Nat, NEW S \in SUBSET (0 .. n), S # {}
    PROVE  Max(S) \in S /\ \A x \in S : x <= Max(S)
<1> DEFINE T == {n - x : x \in S}
           less == {p \in Nat \X Nat : p[1] < p[2]}
<1>1. IsWellFoundedOn(less, Nat)
  BY NatLessThanWellFounded DEF OpToRel
<1>2. T \subseteq Nat /\ T # {}
  <2>1. \A x \in S : n - x \in Nat
    OBVIOUS
  <2> QED
    BY <2>1
<1>3. PICK t \in T : \A y \in T : <<y, t>> \notin less
  BY <1>1, <1>2, WFMin
<1>4. \E x \in S : \A y \in S : x >= y
  <2>1. PICK x \in S : t = n - x
    OBVIOUS
  <2>2. ASSUME NEW y \in S PROVE x >= y
    <3>1. n - y \in T /\ n - y \in Nat /\ t \in Nat
      BY <1>2
    <3>2. ~(n - y < t)
      BY <3>1, <1>3
    <3> QED
      BY <2>1, <3>2
  <2> QED
    BY <2>2
<1>5. Max(S) \in S /\ \A y \in S : Max(S) >= y
  BY <1>4 DEF Max
<1> QED
  BY <1>5

\* A profile set to a system has it as its newest generation, beside the others.
LEMMA SetProfileIs ==
    ASSUME NEW gens \in Seq(Builds), gens # <<>>, NEW b \in Builds
    PROVE  /\ SetProfile(gens, b) \in Seq(Builds) /\ SetProfile(gens, b) # <<>>
           /\ Systems(SetProfile(gens, b)) = Systems(gens) \cup {b}
           /\ Last(SetProfile(gens, b)) = b
           /\ {b, Last(gens)} \subseteq Newest(SetProfile(gens, b))
<1> DEFINE more == Append(gens, b)
<1>1. Len(gens) \in Nat \ {0} /\ DOMAIN gens = 1 .. Len(gens)
      /\ gens \in [1 .. Len(gens) -> Builds]
  OBVIOUS
<1>2. Last(gens) = gens[Len(gens)] /\ Len(gens) \in DOMAIN gens
  BY <1>1 DEF Last
<1>3. CASE Last(gens) = b
  <2>1. SetProfile(gens, b) = gens
    BY <1>3 DEF SetProfile
  <2>2. Len(gens) \in {j \in DOMAIN gens : j > Len(gens) - 2}
    BY <1>1
  <2>3. b \in Systems(gens) /\ b \in Newest(gens)
    BY <1>2, <1>3, <2>2 DEF Systems, Newest
  <2> QED
    BY <1>3, <2>1, <2>3
<1>4. CASE Last(gens) # b
  <2>1. SetProfile(gens, b) = more
    BY <1>4 DEF SetProfile
  <2>2. /\ more \in Seq(Builds) /\ Len(more) = Len(gens) + 1 /\ more # <<>>
        /\ DOMAIN more = 1 .. Len(gens) + 1
        /\ more[Len(gens) + 1] = b
        /\ \A i \in 1 .. Len(gens) : more[i] = gens[i]
    BY <1>1
  <2>3. Systems(more) = Systems(gens) \cup {b}
    <3>1. ASSUME NEW x \in Systems(more) PROVE x \in Systems(gens) \cup {b}
      BY <1>1, <2>2, <3>1 DEF Systems
    <3>2. ASSUME NEW x \in Systems(gens) \cup {b} PROVE x \in Systems(more)
      BY <1>1, <2>2, <3>2 DEF Systems
    <3> QED
      BY <3>1, <3>2
  <2>4. Last(more) = b
    BY <2>2 DEF Last
  <2>5. b \in Newest(more)
    BY <1>1, <2>2 DEF Newest
  <2>6. gens[Len(gens)] \in Newest(more)
    <3> HIDE DEF more
    <3>1. Len(gens) \in DOMAIN more /\ Len(gens) > Len(more) - 2
      BY <1>1, <2>2
    <3>2. more[Len(gens)] = gens[Len(gens)]
      BY <1>1, <2>2
    <3> QED
      BY <3>1, <3>2 DEF Newest
  <2> QED
    BY <1>2, <2>1, <2>2, <2>3, <2>4, <2>5, <2>6
<1> QED
  BY <1>3, <1>4

\* The members of a finite set of naturals, in order: every rank is taken.
LEMMA RankedIs ==
    ASSUME NEW n \in Nat, NEW K \in SUBSET (1 .. n)
    PROVE  LET rank(i) == Cardinality({j \in K : j <= i}) IN
           /\ Cardinality(K) \in Nat
           /\ K # {} => Cardinality(K) # 0
           /\ \A i \in K : rank(i) \in 1 .. Cardinality(K)
           /\ \A i, j \in K : rank(i) = rank(j) => i = j
           /\ \A m \in 1 .. Cardinality(K) : \E i \in K : rank(i) = m
<1> DEFINE rank(i) == Cardinality({j \in K : j <= i})
           f == [i \in K |-> rank(i)]
           N == Cardinality(K)
<1>1. IsFiniteSet(K) /\ N \in Nat /\ (K # {} => N # 0)
  <2>1. IsFiniteSet(1 .. n)
    BY FS_Interval
  <2>2. IsFiniteSet(K)
    BY <2>1, FS_Subset
  <2> QED
    BY <2>2, FS_CardinalityType, FS_EmptySet
<1>2. ASSUME NEW i \in Nat
      PROVE IsFiniteSet({j \in K : j <= i}) /\ rank(i) \in Nat /\ rank(i) <= N
  BY <1>1, FS_Subset, FS_CardinalityType
<1>3. ASSUME NEW i \in K PROVE rank(i) \in 1 .. N
  <2>1. i \in Nat /\ {j \in K : j <= i} # {}
    OBVIOUS
  <2>2. rank(i) # 0
    BY <1>2, <2>1, FS_EmptySet
  <2> QED
    BY <1>1, <1>2, <2>1, <2>2
<1>4. ASSUME NEW i \in K, NEW j \in K, i < j PROVE rank(i) # rank(j)
  <2> DEFINE A == {k \in K : k <= i}
             B == {k \in K : k <= j}
  <2>0. i \in Nat /\ j \in Nat /\ \A k \in K : k \in Nat
    OBVIOUS
  <2>1. A \subseteq B /\ j \in B /\ j \notin A
    <3>1. \A k \in K : k <= i => k <= j
      BY <1>4, <2>0
    <3>2. j <= j /\ ~(j <= i)
      BY <1>4, <2>0
    <3> QED
      BY <3>1, <3>2
  <2>2. IsFiniteSet(B)
    BY <1>2, <2>0
  <2>3. Cardinality(B) = Cardinality(A) => B = A
    BY <2>1, <2>2, FS_Subset
  <2> QED
    BY <2>1, <2>3
<1>5. \A i, j \in K : rank(i) = rank(j) => i = j
  <2> SUFFICES ASSUME NEW i \in K, NEW j \in K, rank(i) = rank(j), i # j PROVE FALSE
    OBVIOUS
  <2>1. i < j \/ j < i
    OBVIOUS
  <2> QED
    BY <1>4, <2>1
<1>6. \A m \in 1 .. N : \E i \in K : rank(i) = m
  <2>1. f \in [K -> 1 .. N]
    BY <1>3
  <2>2. f \in Injection(K, 1 .. N)
    <3>1. \A i, j \in K : f[i] = f[j] => i = j
      BY <1>5
    <3> QED
      BY <2>1, <3>1, Fun_IsInj
  <2>3. IsFiniteSet(1 .. N) /\ Cardinality(1 .. N) = N
    BY <1>1, FS_Interval
  <2>4. f \in Surjection(K, 1 .. N)
    BY <2>2, <2>3, FS_Injection
  <2>5. \A m \in 1 .. N : \E i \in K : f[i] = m
    BY <2>4 DEF Surjection
  <2> QED
    BY <2>5
<1> QED
  BY <1>1, <1>3, <1>5, <1>6

\* Pruning keeps the two newest systems, and what the state names.
LEMMA PrunedIs ==
    ASSUME NEW gens \in Seq(Builds), gens # <<>>
    PROVE  /\ Pruned(gens) \in Seq(Builds) /\ Pruned(gens) # <<>>
           /\ Systems(Pruned(gens)) \subseteq Systems(gens)
           /\ Newest(gens) \subseteq Systems(Pruned(gens))
           /\ {mem.current, mem.previous, mem.hold} \cap Systems(gens)
                 \subseteq Systems(Pruned(gens))
<1> DEFINE dom == DOMAIN gens
           newest == {i \in dom : i > Len(gens) - Keep}
           systems == {mem.current, mem.previous, mem.hold} \ {gens[i] : i \in newest}
           last(b) == Max({i \in dom : gens[i] = b})
           protected == {last(b) : b \in systems \cap {gens[i] : i \in dom}}
           kept == newest \cup protected
           rank(i) == Cardinality({j \in kept : j <= i})
           N == Cardinality(kept)
           at(n) == CHOOSE i \in kept : rank(i) = n
           pruned == [n \in 1 .. N |-> gens[at(n)]]
<1>0. Pruned(gens) = pruned
  BY DEF Pruned
<1>1. Len(gens) \in Nat \ {0} /\ dom = 1 .. Len(gens) /\ \A i \in dom : gens[i] \in Builds
  OBVIOUS
<1>k. Keep \in Nat /\ Keep >= 2
  BY AgentAssumption
<1>2. ASSUME NEW b \in {gens[i] : i \in dom}
      PROVE  last(b) \in dom /\ gens[last(b)] = b
  <2> DEFINE I == {i \in dom : gens[i] = b}
  <2>1. I # {} /\ I \subseteq 0 .. Len(gens) /\ Len(gens) \in Nat
    BY <1>1
  <2>2. Max(I) \in I
    BY <2>1, MaxIs
  <2> QED
    BY <2>2
<1>3. kept \in SUBSET (1 .. Len(gens))
  BY <1>1, <1>2
<1>4. Len(gens) \in kept
  BY <1>1, <1>k
<1> HIDE DEF kept, at
<1>5. /\ N \in Nat /\ N # 0
      /\ \A i \in kept : rank(i) \in 1 .. N
      /\ \A i, j \in kept : rank(i) = rank(j) => i = j
      /\ \A m \in 1 .. N : \E i \in kept : rank(i) = m
  BY <1>1, <1>3, <1>4, RankedIs
<1>6. ASSUME NEW m \in 1 .. N PROVE at(m) \in kept /\ rank(at(m)) = m
  BY <1>5 DEF at
<1>7. ASSUME NEW i \in kept PROVE at(rank(i)) = i
  BY <1>5, <1>6
<1>8. Systems(pruned) = {gens[i] : i \in kept}
  <2>1. DOMAIN pruned = 1 .. N /\ \A m \in 1 .. N : pruned[m] = gens[at(m)]
    OBVIOUS
  <2>2. ASSUME NEW x \in Systems(pruned) PROVE x \in {gens[i] : i \in kept}
    BY <1>6, <2>1 DEF Systems
  <2>3. ASSUME NEW i \in kept PROVE gens[i] \in Systems(pruned)
    <3>1. rank(i) \in 1 .. N /\ pruned[rank(i)] = gens[i]
      BY <1>5, <1>7
    <3> QED
      BY <2>1, <3>1 DEF Systems
  <2> QED
    BY <2>2, <2>3
<1>9. pruned \in Seq(Builds) /\ pruned # <<>>
  <2>1. \A m \in 1 .. N : gens[at(m)] \in Builds
    BY <1>1, <1>3, <1>6
  <2>2. pruned \in [1 .. N -> Builds]
    BY <2>1
  <2>3. pruned \in Seq(Builds) /\ Len(pruned) = N
    BY <1>5, <2>2
  <2> QED
    BY <1>5, <2>3
<1>10. Newest(gens) \subseteq {gens[i] : i \in newest}
  BY <1>1, <1>k DEF Newest
<1>11. newest \subseteq kept /\ protected \subseteq kept
  BY DEF kept
<1>12. ASSUME NEW b \in {mem.current, mem.previous, mem.hold} \cap Systems(gens)
       PROVE  b \in {gens[i] : i \in kept}
  <2>1. CASE b \in {gens[i] : i \in newest}
    BY <1>11, <2>1
  <2>2. CASE b \notin {gens[i] : i \in newest}
    <3>1. b \in systems /\ b \in {gens[i] : i \in dom}
      BY <2>2 DEF Systems
    <3>2. last(b) \in kept /\ gens[last(b)] = b
      BY <1>2, <1>11, <3>1
    <3> QED
      BY <3>2
  <2> QED
    BY <2>1, <2>2
<1>13. {gens[i] : i \in kept} \subseteq Systems(gens)
  BY <1>1, <1>3 DEF Systems
<1> QED
  BY <1>0, <1>8, <1>9, <1>10, <1>11, <1>12, <1>13

\* The state with an attempt marked: only its mark changes.
LEMMA WithBadIs ==
    ASSUME NEW state \in State, NEW job \in Attempt
    PROVE  LET marked == WithBad(state, job) IN
           /\ marked \in State
           /\ marked.current = state.current /\ marked.previous = state.previous
           /\ marked.hold = state.hold /\ marked.pending = state.pending
           /\ \A b \in Builds :
                 marked.bad[b] = IF job.trigger # "rollback" /\ b = job.build
                                 THEN job.at ELSE state.bad[b]
<1>1. job.build \in Builds /\ job.at \in Nat
  BY DEF Attempt
<1>2. state.bad \in [Builds -> Nat]
  BY DEF State
<1>3. CASE job.trigger = "rollback"
  BY <1>3 DEF WithBad
<1>4. CASE job.trigger # "rollback"
  <2>1. WithBad(state, job) = [state EXCEPT !.bad = [@ EXCEPT ![job.build] = job.at]]
    BY <1>4 DEF WithBad
  <2>2. [state.bad EXCEPT ![job.build] = job.at] \in [Builds -> Nat]
    BY <1>1, <1>2
  <2> QED
    BY <1>1, <1>2, <1>4, <2>1, <2>2 DEF State
<1> QED
  BY <1>3, <1>4

\* What past remembers of a failed attempt: its failure, or that it was of an
\* older publication than its build's last failure.
LEMMA FailingIs ==
    ASSUME Typed, NEW job \in Attempt
    PROVE  LET after == Failing(job) IN
           /\ after \in Past
           /\ after.checked = past.checked /\ after.stuck = past.stuck
           /\ after.torn = past.torn /\ after.half = past.half
           /\ after.byHand = past.byHand
           /\ \A b \in Builds :
                 IF job.trigger # "rollback" /\ b = job.build
                 THEN b \in after.older \/ after.failed[b] = job.at
                 ELSE /\ after.failed[b] = past.failed[b]
                      /\ b \in after.older <=> b \in past.older
<1>1. job.build \in Builds /\ job.at \in Nat
  BY DEF Attempt
<1>2. past \in Past
  BY DEF Typed
<1>3. CASE job.trigger = "rollback"
  BY <1>2, <1>3 DEF Failing, Past
<1>4. CASE job.trigger # "rollback" /\ job.at < past.failed[job.build]
  <2>1. Failing(job) = [past EXCEPT !.older = past.older \cup {job.build}]
    BY <1>4 DEF Failing
  <2> QED
    BY <1>1, <1>2, <1>4, <2>1 DEF Past
<1>5. CASE job.trigger # "rollback" /\ ~(job.at < past.failed[job.build])
  <2> DEFINE failed == [past.failed EXCEPT ![job.build] = job.at]
             older == past.older \ {job.build}
  <2>1. Failing(job) = [past EXCEPT !.failed = failed, !.older = older]
    BY <1>5 DEF Failing
  <2>2. /\ failed \in [Builds -> Nat] /\ older \in SUBSET Builds
        /\ \A b \in Builds : failed[b] = IF b = job.build THEN job.at ELSE past.failed[b]
        /\ \A b \in Builds : b # job.build => (b \in older <=> b \in past.older)
    BY <1>1, <1>2 DEF Past
  <2> HIDE DEF failed, older
  <2> QED
    BY <1>1, <1>2, <1>5, <2>1, <2>2 DEF Past
<1> QED
  BY <1>3, <1>4, <1>5

\* And of one whose build was refused.
LEMMA RefusingIs ==
    ASSUME Typed, NEW job \in Attempt
    PROVE  LET after == Refusing(job) IN
           /\ after \in Past
           /\ after.checked = past.checked /\ after.stuck = past.stuck
           /\ after.torn = past.torn /\ after.half = past.half
           /\ after.byHand = past.byHand /\ after.failed = past.failed
           /\ past.older \subseteq after.older
           /\ job.build \in after.older \/ past.failed[job.build] <= job.at
<1>1. job.build \in Builds /\ job.at \in Nat
  BY DEF Attempt
<1>2. past \in Past /\ past.failed \in [Builds -> Nat]
  BY DEF Typed, Past
<1> DEFINE older == past.older \cup {b \in {job.build} : job.at < past.failed[b]}
<1>3. Refusing(job) = [past EXCEPT !.older = older]
  BY DEF Refusing
<1>4. older \in SUBSET Builds /\ past.older \subseteq older
  BY <1>1, <1>2 DEF Past
<1>5. job.build \in older \/ past.failed[job.build] <= job.at
  BY <1>1, <1>2
<1> HIDE DEF older
<1> QED
  BY <1>2, <1>3, <1>4, <1>5 DEF Past

\* A publication keeps the dates typed.
LEMMA PublishIs ==
    ASSUME Typed, NEW b \in Builds, Publish(b)
    PROVE  refs' \in Refs
<1>1. refs \in Refs /\ MaxPublish \in Nat
  BY AgentAssumption DEF Typed
<1>2. ASSUME NEW date \in refs.at + 1 .. MaxPublish,
             refs' = [refs EXCEPT !.at = date, !.head = b]
      PROVE  refs' \in Refs
  <2>1. date \in 0 .. MaxPublish
    BY <1>1, <1>2 DEF Refs
  <2> QED
    BY <1>1, <1>2, <2>1 DEF Refs
<1>3. ASSUME b \in Tagged, NEW date \in refs.tags[b] + 1 .. MaxPublish,
             refs' = [refs EXCEPT !.tags[b] = date]
      PROVE  refs' \in Refs
  <2>1. refs.tags \in [Tagged -> 0 .. MaxPublish]
    BY <1>1 DEF Refs
  <2>2. date \in 0 .. MaxPublish
    BY <1>1, <1>3, <2>1
  <2>3. [refs.tags EXCEPT ![b] = date] \in [Tagged -> 0 .. MaxPublish]
    BY <2>1, <2>2
  <2>4. refs' = [refs EXCEPT !.tags = [refs.tags EXCEPT ![b] = date]]
    BY <1>3
  <2> QED
    BY <1>1, <2>3, <2>4 DEF Refs
<1> QED
  BY <1>2, <1>3 DEF Publish

-----------------------------------------------------------------------------
(* Types.                                                                  *)

\* What a run may want to deploy: builds other than the one that runs.
LEMMA WantedIs ==
    ASSUME Typed, At("decide"), NEW b \in Wanted
    PROVE  /\ b \in Builds /\ b # host.running
           /\ proc.does \in {"poll", "pin", "rollback"}
           /\ proc.does = "poll" => /\ mem.hold = None
                                    /\ b = refs.head /\ mem.bad[b] < refs.at
           /\ proc.does = "pin" => b \in Tagged
           /\ proc.does = "rollback" => b \in host.store
<1>1. /\ refs.head \in Builds \cup {None} /\ refs.at \in 0 .. MaxPublish
      /\ mem.bad \in [Builds -> Nat] /\ host.store \subseteq Builds
      /\ MaxPublish \in Nat /\ Tagged \subseteq Builds
      /\ proc.does = "pin" => proc.pin \in Tagged
  BY AgentAssumption DEF Typed, State, Refs, Host, Run, Pinned, At
<1>2. CASE proc.does = "poll" /\ mem.hold = None /\ refs.head # None
  <2>1. ~Bad(refs.head) /\ b = refs.head /\ b # host.running
    BY <1>2 DEF Wanted
  <2>2. refs.at \in Nat /\ mem.bad[b] \in Nat
    BY <1>1, <1>2, <2>1
  <2> QED
    BY <1>1, <1>2, <2>1, <2>2 DEF Bad
<1>3. CASE proc.does = "pin"
  BY <1>1, <1>3 DEF Wanted
<1>4. CASE proc.does = "rollback"
  BY <1>1, <1>4 DEF Wanted
<1> QED
  BY <1>2, <1>3, <1>4 DEF Wanted

\* What it deploys is an attempt over what runs.
LEMMA AttemptTyped ==
    ASSUME Typed, At("decide"), NEW b \in Wanted
    PROVE  AttemptOf(b) \in Attempt /\ (proc.does = "poll" => AttemptOf(b).at = refs.at)
<1>1. /\ b \in Builds /\ proc.does \in {"poll", "pin", "rollback"}
      /\ proc.does = "pin" => b \in Tagged
  BY WantedIs
<1>2. /\ host.running \in Builds /\ refs.at \in Nat
      /\ refs.tags \in [Tagged -> 0 .. MaxPublish] /\ MaxPublish \in Nat
  BY AgentAssumption DEF Typed, Host, Refs
<1>3. PublishedAt(b) \in Nat /\ (proc.does = "poll" => PublishedAt(b) = refs.at)
  <2>1. CASE proc.does = "poll"
    BY <1>2, <2>1 DEF PublishedAt
  <2>2. CASE proc.does = "pin"
    BY <1>1, <1>2, <2>2 DEF PublishedAt
  <2>3. CASE proc.does = "rollback"
    BY <2>3 DEF PublishedAt
  <2> QED
    BY <1>1, <2>1, <2>2, <2>3
<1> QED
  BY <1>1, <1>2, <1>3 DEF AttemptOf, Attempt

\* A run begins typed.
LEMMA LoadTyped ==
    ASSUME Typed, NEW does \in {"poll", "pin", "unpin", "rollback"},
           NEW b \in Builds \cup {None}, does = "pin" => b \in Tagged, Load(does, b)
    PROVE  Typed'
<1>1. /\ UNCHANGED <<refs, host, disk, troubles, past>> /\ mem' = disk
      /\ proc' = [pc |-> IF disk.pending = None THEN "decide"
                         ELSE IF host.running = disk.pending.build THEN "undo" ELSE "undone",
                  does |-> does, pin |-> b, attempt |-> disk.pending,
                  recovers |-> disk.pending # None]
  BY DEF Load
<1>2. disk.pending \in Attempt \cup {None}
  BY DEF Typed, State
<1>3. proc' \in Run
  BY <1>1, <1>2 DEF Run, Labels, InJob, Undoing
<1>4. Pinned'
  BY <1>1 DEF Pinned
<1> QED
  BY <1>1, <1>3, <1>4 DEF Typed

\* A deployment's step that fails leaves the host as it was or with its effect.
LEMMA StepFailsIs ==
    ASSUME Typed, Job \in Attempt, NEW with \in Host, StepFails(with)
    PROVE  /\ host' \in {host, with} /\ proc' = [proc EXCEPT !.pc = "undo"]
           /\ past' = Failing(Job) /\ past' \in Past
           /\ UNCHANGED <<disk, mem>> /\ troubles' \in 0 .. MaxTroubles
<1>1. troubles \in 0 .. MaxTroubles /\ MaxTroubles \in Nat
  BY AgentAssumption DEF Typed
<1> QED
  BY <1>1, FailingIs DEF StepFails, Goto, Faulty

\* A process that goes to a place stays typed.
LEMMA GotoTyped ==
    ASSUME Typed, ~At("idle"), NEW pc \in Labels, Goto(pc)
    PROVE  proc' \in Run /\ Pinned' /\ \A place : At(place)' <=> place = pc
  BY DEF Typed, Pinned, Goto, Run, At

\* What a step does to each variable is typed, for each part of the agent.
LEMMA FetchTyped == ASSUME Typed, Placed, Decide \/ Fetch \/ Mark PROVE Typed'
<1>t. /\ refs \in Refs /\ host \in Host /\ host.gens # <<>> /\ disk \in State
      /\ mem \in State /\ proc \in Run /\ past \in Past
      /\ troubles \in 0 .. MaxTroubles /\ MaxTroubles \in Nat
  BY AgentAssumption DEF Typed
<1>1. CASE Decide
  <2>1. mem' = [mem EXCEPT !.current = host.running, !.hold = Hold]
    BY <1>1 DEF Decide
  <2>2. Hold \in Builds \cup {None}
    BY <1>1, <1>t DEF Hold, State, Run, Decide, At, Typed
  <2>3. mem' \in State
    BY <1>t, <2>1, <2>2 DEF State, Host
  <2>4. ASSUME NEW b \in Wanted,
               proc' = [proc EXCEPT !.attempt = AttemptOf(b), !.recovers = FALSE,
                           !.pc = IF proc.does = "rollback" THEN "mark" ELSE "fetch"]
        PROVE  proc' \in Run /\ Pinned'
    <3>1. AttemptOf(b) \in Attempt
      BY <1>1, AttemptTyped DEF Decide
    <3>2. proc' \in Run /\ proc'.does = proc.does /\ proc'.pin = proc.pin
      BY <1>t, <2>4, <3>1 DEF Run, Labels, InJob
    <3> QED
      BY <1>1, <3>2 DEF Typed, Pinned, Decide, At
  <2>5. proc' \in Run /\ Pinned'
    <3>1. Goto("finish") => proc' \in Run /\ Pinned'
      BY <1>1, GotoTyped DEF Labels, Decide, At
    <3> QED
      BY <1>1, <2>4, <3>1 DEF Decide
  <2> QED
    BY <1>1, <1>t, <2>3, <2>5 DEF Typed, Decide
<1>2. CASE Fetch
  <2>1. Job \in Attempt
    BY <1>2, <1>t DEF Fetch, At, Placed, Run, Job
  <2>2. /\ proc' \in Run /\ Pinned'
    BY <1>2, GotoTyped DEF Fetch, Labels, InJob, Deploying, At
  <2>3. host' \in Host /\ host'.gens = host.gens
    BY <1>2, <1>t, <2>1 DEF Fetch, Host, Attempt
  <2>4. disk' \in State /\ mem' \in State
    BY <1>2, <1>t, <2>1, WithBadIs DEF Fetch
  <2>5. troubles' \in 0 .. MaxTroubles
    BY <1>2, <1>t DEF Fetch, Faulty, NoFault
  <2>6. past' \in Past
    BY <1>2, <1>t, <2>1, RefusingIs DEF Fetch
  <2> QED
    BY <1>2, <1>t, <2>2, <2>3, <2>4, <2>5, <2>6 DEF Typed, Fetch
<1>3. CASE Mark
  <2>1. Job \in Attempt
    BY <1>3, <1>t DEF Mark, At, Placed, Run, Job
  <2>2. proc' \in Run /\ Pinned'
    BY <1>3, GotoTyped DEF Mark, Labels, InJob, Deploying, At
  <2>3. mem' \in State /\ disk' = mem'
    BY <1>3, <1>t, <2>1 DEF Mark, State
  <2> QED
    BY <1>3, <1>t, <2>2, <2>3 DEF Typed, Mark
<1> QED
  BY <1>1, <1>2, <1>3

\* A deployment's steps keep everything typed, whether they fail or not.
LEMMA DeployTyped ==
    ASSUME Typed, Placed,
           Activate \/ ChecksPass \/ ChecksFail \/ Profile \/ Entry
    PROVE  Typed'
<1>t. /\ refs \in Refs /\ host \in Host /\ host.gens # <<>> /\ disk \in State
      /\ mem \in State /\ proc \in Run /\ past \in Past
      /\ troubles \in 0 .. MaxTroubles /\ MaxTroubles \in Nat
  BY AgentAssumption DEF Typed
<1>j. Job \in Attempt /\ Job.build \in Builds /\ mem.pending = Job
  <2>1. Job \in Attempt /\ mem.pending = Job
    BY <1>t
       DEF Activate, ChecksPass, ChecksFail, Profile, Entry, At, Placed, Run, Job,
           InJob, Deploying
  <2> QED
    BY <2>1 DEF Attempt
<1>g. \A place \in Labels : Goto(place) => proc' \in Run /\ Pinned'
  BY GotoTyped DEF Activate, ChecksPass, ChecksFail, Profile, Entry, At
<1>l. {"undo", "checks", "profile", "entry", "prune"} \subseteq Labels
  BY DEF Labels, InJob, Deploying, Undoing
<1>s. ASSUME NEW with \in Host, with.gens # <<>>, StepFails(with), UNCHANGED <<refs, commands>>
      PROVE  Typed'
  BY <1>s, <1>t, <1>j, <1>g, <1>l, StepFailsIs DEF Typed, StepFails
<1>1. CASE Activate
  <2> DEFINE with == [host EXCEPT !.running = Job.build]
  <2>1. with \in Host /\ with.gens = host.gens
    BY <1>t, <1>j DEF Host
  <2>2. UNCHANGED <<refs, commands>>
    BY <1>1 DEF Activate
  <2>3. CASE StepFails(with)
    BY <1>s, <1>t, <2>1, <2>2, <2>3
  <2>4. CASE host' = with /\ Goto("checks") /\ NoFault /\ UNCHANGED <<disk, mem, past>>
    BY <1>t, <1>g, <1>l, <2>1, <2>2, <2>4 DEF Typed, NoFault
  <2> QED
    BY <1>1, <2>3, <2>4 DEF Activate
<1>2. CASE ChecksPass
  <2>1. /\ mem' = [mem EXCEPT !.pending = [Job EXCEPT !.booting = TRUE]]
        /\ proc' = [proc EXCEPT !.pc = "profile", !.attempt = [Job EXCEPT !.booting = TRUE]]
    BY <1>2, <1>j DEF ChecksPass, Job
  <2>2. [Job EXCEPT !.booting = TRUE] \in Attempt
    BY <1>j DEF Attempt
  <2>3. mem' \in State
    BY <1>t, <2>1, <2>2 DEF State
  <2>4. proc' \in Run /\ Pinned'
    <3>1. proc' \in Run /\ proc'.does = proc.does /\ proc'.pin = proc.pin
      BY <1>t, <1>l, <2>1, <2>2 DEF Run
    <3> QED
      BY <1>2, <3>1 DEF Typed, Pinned, ChecksPass, At
  <2>5. past' \in Past
    BY <1>2, <1>t, <1>j DEF ChecksPass, Past
  <2> QED
    BY <1>2, <1>t, <2>3, <2>4, <2>5 DEF Typed, ChecksPass
<1>3. CASE ChecksFail
  <2>1. past' \in Past /\ troubles' \in 0 .. MaxTroubles
    BY <1>3, <1>t, <1>j, FailingIs DEF ChecksFail, Faulty, NoFault
  <2> QED
    BY <1>3, <1>t, <1>g, <1>l, <2>1 DEF Typed, ChecksFail
<1>4. CASE Profile
  <2> DEFINE with == [host EXCEPT !.gens = SetProfile(@, Job.build)]
  <2>1. with \in Host /\ with.gens # <<>>
    BY <1>t, <1>j, SetProfileIs DEF Host
  <2>2. UNCHANGED <<refs, commands>>
    BY <1>4 DEF Profile
  <2>3. CASE StepFails(with)
    BY <1>s, <2>1, <2>2, <2>3
  <2>4. CASE host' = with /\ Goto("entry") /\ NoFault /\ UNCHANGED <<disk, mem, past>>
    BY <1>t, <1>g, <1>l, <2>1, <2>2, <2>4 DEF Typed, NoFault
  <2> QED
    BY <1>4, <2>3, <2>4 DEF Profile
<1>5. CASE Entry
  <2> DEFINE with == [host EXCEPT !.entry = Job.build]
  <2>1. with \in Host /\ with.gens = host.gens
    BY <1>t, <1>j DEF Host
  <2>2. UNCHANGED <<refs, commands>>
    BY <1>5 DEF Entry
  <2>3. CASE StepFails(with)
    BY <1>s, <1>t, <2>1, <2>2, <2>3
  <2>4. CASE /\ host' = with /\ Goto("prune") /\ NoFault
             /\ mem' = [mem EXCEPT !.previous = mem.current, !.current = Job.build,
                                   !.pending = None]
             /\ UNCHANGED <<disk, past>>
    <3>1. mem' \in State
      BY <1>t, <1>j, <2>4 DEF State
    <3> QED
      BY <1>t, <1>g, <1>l, <2>1, <2>2, <2>4, <3>1 DEF Typed, NoFault
  <2> QED
    BY <1>5, <2>3, <2>4 DEF Entry
<1> QED
  BY <1>1, <1>2, <1>3, <1>4, <1>5

\* A run that forgets what it knew is typed.
LEMMA FreshTyped == Fresh \in State /\ Idle \in Run /\ Idle.pc = "idle"
  BY DEF Fresh, Idle, State, Run, Labels

\* So do the steps that end a run.
LEMMA EndTyped == ASSUME Typed, Prune \/ Collect \/ Finish PROVE Typed'
<1>t. /\ refs \in Refs /\ host \in Host /\ host.gens # <<>> /\ disk \in State
      /\ mem \in State /\ proc \in Run /\ past \in Past
      /\ troubles \in 0 .. MaxTroubles /\ MaxTroubles \in Nat
  BY AgentAssumption DEF Typed
<1>g. \A place \in Labels : Goto(place) => proc' \in Run /\ Pinned'
  BY GotoTyped DEF Prune, Collect, Finish, At
<1>l. {"collect", "finish"} \subseteq Labels
  BY DEF Labels
<1>1. CASE Prune
  <2>1. Pruned(host.gens) \in Seq(Builds) /\ Pruned(host.gens) # <<>>
    BY <1>t, PrunedIs DEF Host
  <2>2. host' \in Host /\ host'.gens # <<>>
    BY <1>1, <1>t, <2>1 DEF Prune, Host
  <2>3. troubles' \in 0 .. MaxTroubles
    BY <1>1, <1>t DEF Prune, Faulty, NoFault
  <2> QED
    BY <1>1, <1>t, <1>g, <1>l, <2>2, <2>3 DEF Typed, Prune
<1>2. CASE Collect
  <2>1. Roots \subseteq Builds
    BY <1>t DEF Roots, Host
  <2>2. host' \in Host /\ host'.gens = host.gens
    BY <1>2, <1>t, <2>1 DEF Collect, Host
  <2>3. mem' \in State
    BY <1>2, <1>t DEF Collect, State
  <2>4. troubles' \in 0 .. MaxTroubles
    BY <1>2, <1>t DEF Collect, Faulty, NoFault
  <2> QED
    BY <1>2, <1>t, <1>g, <1>l, <2>2, <2>3, <2>4 DEF Typed, Collect
<1>3. CASE Finish
  BY <1>3, <1>t, FreshTyped DEF Typed, Finish, Pinned, At
<1> QED
  BY <1>1, <1>2, <1>3

\* A step of a rollback: done, or failed with or without its effect.
LEMMA UndoStepTyped ==
    ASSUME Typed, ~At("idle"), NEW with \in Host, with.gens # <<>>,
           NEW next \in Labels, UndoStep(with, next)
    PROVE  Typed'
<1>t. /\ refs \in Refs /\ host \in Host /\ host.gens # <<>> /\ disk \in State
      /\ mem \in State /\ proc \in Run /\ past \in Past
      /\ troubles \in 0 .. MaxTroubles /\ MaxTroubles \in Nat
  BY AgentAssumption DEF Typed
<1>1. proc' \in Run /\ Pinned'
  <2>1. "undone" \in Labels
    BY DEF Labels, InJob, Undoing
  <2> QED
    BY <2>1, GotoTyped DEF UndoStep
<1>2. past' \in Past
  BY <1>t DEF UndoStep, Past
<1> QED
  BY <1>t, <1>1, <1>2 DEF Typed, UndoStep, Faulty, NoFault

\* A rollback keeps everything typed.
LEMMA UndoTyped ==
    ASSUME Typed, Placed, Undo \/ UndoProfile \/ UndoEntry \/ Undone PROVE Typed'
<1>t. /\ refs \in Refs /\ host \in Host /\ host.gens # <<>> /\ disk \in State
      /\ mem \in State /\ proc \in Run /\ past \in Past
      /\ troubles \in 0 .. MaxTroubles /\ MaxTroubles \in Nat
  BY AgentAssumption DEF Typed
<1>i. ~At("idle")
  BY DEF Undo, UndoProfile, UndoEntry, Undone, At
<1>j. Job \in Attempt /\ Job.from \in Builds
  <2>1. Job \in Attempt
    BY <1>t
       DEF Undo, UndoProfile, UndoEntry, Undone, At, Placed, Run, Job, InJob, Undoing
  <2> QED
    BY <2>1 DEF Attempt
<1>l. {"undoProfile", "undoEntry", "undone", "finish"} \subseteq Labels
  BY DEF Labels, InJob, Undoing
<1>g. \A place \in Labels : Goto(place) => proc' \in Run /\ Pinned'
  BY GotoTyped DEF Undo, UndoProfile, UndoEntry, Undone, At
<1>1. CASE Undo
  <2>1. CASE UndoStep([host EXCEPT !.running = Job.from],
                      IF Job.booting THEN "undoProfile" ELSE "undone")
    <3> DEFINE with == [host EXCEPT !.running = Job.from]
               next == IF Job.booting THEN "undoProfile" ELSE "undone"
    <3>1. with \in Host /\ with.gens # <<>> /\ next \in Labels
      BY <1>t, <1>j, <1>l DEF Host
    <3>2. UndoStep(with, next)
      BY <2>1
    <3> HIDE DEF with, next
    <3> QED
      BY <1>i, <3>1, <3>2, UndoStepTyped
  <2>2. CASE /\ Goto("undone") /\ past' = [past EXCEPT !.stuck = TRUE]
             /\ UNCHANGED <<refs, host, disk, mem, commands, troubles>>
    <3>1. past' \in Past
      BY <1>t, <2>2 DEF Past
    <3> QED
      BY <1>t, <1>g, <1>l, <2>2, <3>1 DEF Typed
  <2> QED
    BY <1>1, <2>1, <2>2 DEF Undo
<1>2. CASE UndoProfile
  <2> DEFINE with == [host EXCEPT !.gens = SetProfile(@, Job.from)]
  <2>1. with \in Host /\ with.gens # <<>>
    BY <1>t, <1>j, SetProfileIs DEF Host
  <2>2. UndoStep(with, "undoEntry")
    BY <1>2 DEF UndoProfile
  <2> HIDE DEF with
  <2> QED
    BY <1>i, <1>l, <2>1, <2>2, UndoStepTyped
<1>3. CASE UndoEntry
  <2> DEFINE with == [host EXCEPT !.entry = Job.from]
  <2>1. with \in Host /\ with.gens # <<>>
    BY <1>t, <1>j DEF Host
  <2>2. UndoStep(with, "undone")
    BY <1>3 DEF UndoEntry
  <2> HIDE DEF with
  <2> QED
    BY <1>i, <1>l, <2>1, <2>2, UndoStepTyped
<1>4. CASE Undone
  <2>1. mem' \in State
    BY <1>4, <1>t, <1>j, WithBadIs DEF Undone, State
  <2>2. disk' \in State
    BY <1>4, <1>t, <2>1 DEF Undone
  <2>3. CASE Goto("finish")
    BY <1>4, <1>t, <1>g, <1>l, <2>1, <2>2, <2>3 DEF Typed, Undone
  <2>4. CASE Goto("decide")
    <3>1. proc' \in Run /\ proc'.does = proc.does /\ proc'.pin = proc.pin
      BY <1>t, <2>4 DEF Goto, Run, Labels
    <3> QED
      BY <1>4, <1>i, <1>t, <2>1, <2>2, <3>1 DEF Typed, Undone, Pinned
  <2> QED
    BY <1>4, <2>3, <2>4 DEF Undone
<1> QED
  BY <1>1, <1>2, <1>3, <1>4

\* A run cut short: what past remembers, and nothing else of it is left.
LEMMA DiesIs ==
    ASSUME Typed, Dies
    PROVE  /\ proc' = Idle /\ mem' = Fresh /\ past' \in Past
           /\ past'.checked = past.checked /\ past'.stuck = past.stuck
           /\ past'.byHand = past.byHand
           /\ past'.torn <=> past.torn \/ proc.pc \in {"prune", "collect", "finish"}
           /\ past'.half <=> past.half \/ proc.pc \in {"undoProfile", "undoEntry"}
           /\ \A b \in Builds :
                 IF Covers(disk.pending, b)
                 THEN b \in past'.older \/ past'.failed[b] = disk.pending.at
                 ELSE /\ past'.failed[b] = past.failed[b]
                      /\ b \in past'.older <=> b \in past.older
<1> DEFINE before == IF disk.pending # None THEN Failing(disk.pending) ELSE past
<1>1. past \in Past /\ disk.pending \in Attempt \cup {None}
  BY DEF Typed, State
<1>2. /\ before \in Past
      /\ before.checked = past.checked /\ before.stuck = past.stuck
      /\ before.torn = past.torn /\ before.half = past.half
      /\ before.byHand = past.byHand
      /\ \A b \in Builds :
            IF Covers(disk.pending, b)
            THEN b \in before.older \/ before.failed[b] = disk.pending.at
            ELSE /\ before.failed[b] = past.failed[b]
                 /\ b \in before.older <=> b \in past.older
  <2>1. CASE disk.pending = None
    BY <1>1, <2>1 DEF Covers
  <2>2. CASE disk.pending # None
    BY <1>1, <2>2, FailingIs DEF Covers
  <2> QED
    BY <2>1, <2>2
<1>3. past' = [before EXCEPT
                  !.torn = @ \/ proc.pc \in {"prune", "collect", "finish"},
                  !.half = @ \/ proc.pc \in {"undoProfile", "undoEntry"}]
  BY DEF Dies
<1> HIDE DEF before
<1>4. /\ past'.checked = before.checked /\ past'.stuck = before.stuck
      /\ past'.byHand = before.byHand /\ past'.failed = before.failed
      /\ past'.older = before.older
      /\ past'.torn = (before.torn \/ proc.pc \in {"prune", "collect", "finish"})
      /\ past'.half = (before.half \/ proc.pc \in {"undoProfile", "undoEntry"})
      /\ past' \in Past
  BY <1>2, <1>3 DEF Past
<1>5. proc' = Idle /\ mem' = Fresh
  BY DEF Dies
<1> QED
  BY <1>2, <1>4, <1>5

\* What happens to the host keeps everything typed.
LEMMA WorldTyped ==
    ASSUME Typed,
           \/ \E b \in Builds : Publish(b) \/ SwitchByHand(b)
           \/ Kill \/ Reboot
    PROVE  Typed'
<1>t. /\ refs \in Refs /\ host \in Host /\ host.gens # <<>> /\ disk \in State
      /\ mem \in State /\ proc \in Run /\ past \in Past
      /\ troubles \in 0 .. MaxTroubles /\ MaxTroubles \in Nat
  BY AgentAssumption DEF Typed
<1>f. Faulty => troubles' \in 0 .. MaxTroubles
  BY <1>t DEF Faulty
<1>1. ASSUME NEW b \in Builds, Publish(b) PROVE Typed'
  BY <1>1, <1>t, PublishIs DEF Typed, Publish, Pinned, At
<1>2. ASSUME NEW b \in Builds, SwitchByHand(b) PROVE Typed'
  <2>1. host' \in Host /\ host'.gens # <<>>
    BY <1>2, <1>t, SetProfileIs DEF SwitchByHand, Host
  <2>2. past' \in Past
    BY <1>2, <1>t DEF SwitchByHand, Past
  <2>3. troubles' \in 0 .. MaxTroubles
    BY <1>2, <1>f DEF SwitchByHand
  <2> QED
    BY <1>2, <1>t, <2>1, <2>2, <2>3 DEF Typed, SwitchByHand, Pinned, At
<1>3. CASE Kill \/ Reboot
  <2>1. Dies /\ UNCHANGED <<refs, disk>> /\ host' \in Host /\ host'.gens = host.gens
    BY <1>3, <1>t DEF Kill, Reboot, Host
  <2>2. troubles' \in 0 .. MaxTroubles
    BY <1>3, <1>f DEF Kill, Reboot
  <2> QED
    BY <1>t, <2>1, <2>2, DiesIs, FreshTyped DEF Typed, Pinned, At
<1> QED
  BY <1>1, <1>2, <1>3

\* Every step keeps every variable typed.
LEMMA TypedStep == Typed /\ Placed /\ [Next]_vars => Typed'
<1> SUFFICES ASSUME Typed, Placed, [Next]_vars PROVE Typed'
  OBVIOUS
<1>1. CASE Poll \/ Command
  BY <1>1, LoadTyped, AgentAssumption DEF Poll, Command
<1>2. CASE UNCHANGED vars
  BY <1>2 DEF vars, Typed, Pinned, At
<1> QED
  BY <1>1, <1>2, FetchTyped, DeployTyped, EndTyped, UndoTyped, WorldTyped
     DEF Next, Agent

-----------------------------------------------------------------------------
(* What a run has in hand.                                                 *)

\* The fields of a typed state and of the attempt in hand.
LEMMA Fields ==
    ASSUME Typed
    PROVE  /\ host \in Host /\ disk \in State /\ mem \in State /\ proc \in Run
           /\ past \in Past
           /\ {disk.pending, mem.pending, Job} \subseteq Attempt \cup {None}
           /\ proc.pc \in Labels
           /\ \A a \in Attempt : /\ a.build \in Builds /\ a.from \in Builds
                                 /\ a.at \in Nat /\ a.booting \in BOOLEAN
                                 /\ a # None
           /\ \A place : Goto(place) =>
                 /\ proc'.pc = place /\ Job' = Job /\ proc'.does = proc.does
                 /\ proc'.pin = proc.pin /\ proc'.recovers = proc.recovers
<1>1. \A a \in Attempt : /\ a.build \in Builds /\ a.from \in Builds
                         /\ a.at \in Nat /\ a.booting \in BOOLEAN
  BY DEF Attempt
<1>2. /\ host \in Host /\ disk \in State /\ mem \in State /\ proc \in Run
      /\ past \in Past
  BY DEF Typed
<1>3. /\ {disk.pending, mem.pending, Job} \subseteq Attempt \cup {None}
      /\ proc.pc \in Labels
  BY <1>2 DEF State, Run, Job
<1>4. \A place : Goto(place) =>
         /\ proc'.pc = place /\ Job' = Job /\ proc'.does = proc.does
         /\ proc'.pin = proc.pin /\ proc'.recovers = proc.recovers
  BY <1>2 DEF Goto, Run, Job
<1> QED
  BY <1>1, <1>2, <1>3, <1>4, NoneIsNoAttempt

\* A run begins with what is pending.
LEMMA LoadPlaced ==
    ASSUME Typed, Placed, NEW does, NEW b, Load(does, b)
    PROVE  Placed'
<1>1. /\ mem' = disk /\ UNCHANGED disk /\ At("idle")
      /\ proc'.pc = IF disk.pending = None THEN "decide"
                    ELSE IF host.running = disk.pending.build THEN "undo" ELSE "undone"
      /\ Job' = disk.pending
  BY DEF Load, Job
<1> QED
  BY <1>1 DEF Placed, At, InJob, Deploying, Undoing

\* The steps that deploy an attempt keep it in hand.
LEMMA DeployPlaced ==
    ASSUME Typed, Placed,
           \/ Decide \/ Fetch \/ Mark \/ Activate \/ ChecksPass \/ ChecksFail
           \/ Profile \/ Entry
    PROVE  Placed'
<1>f. /\ disk \in State /\ mem \in State /\ proc \in Run
      /\ {disk.pending, mem.pending, Job} \subseteq Attempt \cup {None}
  BY Fields
<1>1. CASE Decide
  <2>1. /\ At("decide") /\ UNCHANGED disk /\ disk.pending = None
        /\ mem'.pending = None /\ mem'.current = host.running
        /\ Proper(Job)
    BY <1>1, <1>f DEF Decide, Placed, State, At
  <2>2. ASSUME NEW b \in Wanted,
               proc' = [proc EXCEPT !.attempt = AttemptOf(b), !.recovers = FALSE,
                           !.pc = IF proc.does = "rollback" THEN "mark" ELSE "fetch"]
        PROVE  Placed'
    <3>1. AttemptOf(b) \in Attempt /\ b # host.running
      BY <2>1, <2>2, AttemptTyped, WantedIs
    <3>2. /\ proc'.pc \in {"fetch", "mark"} /\ Job' = AttemptOf(b) /\ Job' # None
          /\ Job'.from = host.running /\ Job'.build = b /\ ~Job'.booting
      BY <1>f, <2>2, <3>1, Fields DEF AttemptOf, Run, Job
    <3> QED
      BY <2>1, <3>1, <3>2 DEF Placed, Proper, At, InJob, Deploying, Undoing
  <2>3. CASE Goto("finish")
    <3>1. proc'.pc = "finish" /\ Job' = Job
      BY <2>3, Fields
    <3> QED
      BY <2>1, <3>1 DEF Placed, Proper, At, InJob, Deploying, Undoing
  <2> QED
    BY <1>1, <2>2, <2>3 DEF Decide
<1>2. CASE Fetch
  <2>1. /\ At("fetch") /\ disk' = mem /\ mem.pending = None
        /\ proc'.pc \in {"mark", "finish"} /\ Job' = Job
        /\ mem'.pending = None /\ mem'.current = mem.current
    BY <1>2, <1>f, Fields, WithBadIs DEF Fetch, Placed, At
  <2> QED
    BY <2>1 DEF Placed, Proper, At, InJob, Deploying, Undoing
<1>3. CASE Mark
  <2>1. /\ At("mark") /\ proc'.pc = "activate" /\ Job' = Job /\ disk' = mem'
        /\ mem'.pending = Job /\ mem'.current = mem.current
    BY <1>3, <1>f, Fields DEF Mark, State
  <2> QED
    BY <2>1 DEF Placed, Proper, At, InJob, Deploying, Undoing
<1>4. CASE ChecksPass
  <2>1. /\ mem' = [mem EXCEPT !.pending = [Job EXCEPT !.booting = TRUE]]
        /\ proc' = [proc EXCEPT !.pc = "profile", !.attempt = [Job EXCEPT !.booting = TRUE]]
        /\ At("checks") /\ disk' = mem' /\ Job \in Attempt
    BY <1>4, <1>f DEF ChecksPass, Job, Placed, At, InJob, Deploying
  <2> DEFINE after == [Job EXCEPT !.booting = TRUE]
  <2>2. /\ after \in Attempt /\ after.build = Job.build /\ after.from = Job.from
        /\ after.booting
    BY <2>1 DEF Attempt
  <2>3. /\ proc'.pc = "profile" /\ Job' = after /\ mem'.pending = after
        /\ mem'.current = mem.current
    BY <1>f, <2>1 DEF Run, State, Job
  <2> HIDE DEF after
  <2> QED
    BY <2>1, <2>2, <2>3, NoneIsNoAttempt
       DEF Placed, Proper, At, InJob, Deploying, Undoing
<1>5. ASSUME proc.pc \in Deploying, proc'.pc = "undo", Job' = Job, UNCHANGED <<disk, mem>>
      PROVE  Placed'
  BY <1>5 DEF Placed, Proper, At, InJob, Deploying, Undoing
<1>6. CASE Entry
  <2>1. CASE Goto("undo") /\ UNCHANGED <<disk, mem>>
    BY <1>5, <1>6, <2>1, Fields DEF Entry, At, Deploying
  <2>2. CASE /\ Goto("prune") /\ UNCHANGED disk
             /\ mem' = [mem EXCEPT !.previous = mem.current, !.current = Job.build,
                                   !.pending = None]
    <3>1. /\ At("entry") /\ proc'.pc = "prune" /\ Job' = Job
          /\ mem'.current = Job.build /\ mem'.pending = None
      BY <1>6, <1>f, <2>2, Fields DEF State, Entry
    <3> QED
      BY <2>2, <3>1 DEF Placed, Proper, At, InJob, Deploying, Undoing
  <2> QED
    BY <1>6, <2>1, <2>2 DEF Entry, StepFails
<1>7. CASE Activate \/ ChecksFail \/ Profile
  <2>1. CASE Goto("undo")
    BY <1>5, <1>7, <2>1, Fields
       DEF Activate, ChecksFail, Profile, StepFails, At, Deploying
  <2>2. CASE /\ \/ Goto("checks") /\ At("activate")
                \/ Goto("entry") /\ At("profile")
             /\ UNCHANGED <<disk, mem>>
    <3>1. /\ \/ At("activate") /\ proc'.pc = "checks"
             \/ At("profile") /\ proc'.pc = "entry"
          /\ Job' = Job
      BY <2>2, Fields
    <3> QED
      BY <2>2, <3>1 DEF Placed, Proper, At, InJob, Deploying, Undoing
  <2> QED
    BY <1>7, <2>1, <2>2 DEF Activate, ChecksFail, Profile, StepFails
<1> QED
  BY <1>1, <1>2, <1>3, <1>4, <1>6, <1>7

\* The steps that undo an attempt keep it in hand to the end.
LEMMA UndoPlaced ==
    ASSUME Typed, Placed, Undo \/ UndoProfile \/ UndoEntry \/ Undone PROVE Placed'
<1>1. CASE Undo
  <2>1. /\ At("undo") /\ UNCHANGED <<disk, mem>> /\ Job' = Job
        /\ \/ proc'.pc = "undone"
           \/ proc'.pc = "undoProfile" /\ Job.booting
    BY <1>1, Fields DEF Undo, UndoStep
  <2> QED
    BY <2>1 DEF Placed, Proper, At, InJob, Deploying, Undoing
<1>2. CASE UndoProfile
  <2>1. /\ At("undoProfile") /\ UNCHANGED <<disk, mem>> /\ Job' = Job
        /\ proc'.pc \in {"undoEntry", "undone"}
    BY <1>2, Fields DEF UndoProfile, UndoStep
  <2> QED
    BY <2>1 DEF Placed, Proper, At, InJob, Deploying, Undoing
<1>3. CASE UndoEntry
  <2>1. /\ At("undoEntry") /\ UNCHANGED <<disk, mem>> /\ Job' = Job
        /\ proc'.pc = "undone"
    BY <1>3, Fields DEF UndoEntry, UndoStep
  <2> QED
    BY <2>1 DEF Placed, Proper, At, InJob, Deploying, Undoing
<1>4. CASE Undone
  <2>1. At("undone") /\ Job \in Attempt
    BY <1>4, Fields DEF Undone, Placed, At, InJob, Undoing
  <2>2. mem'.pending = None
    BY <1>4, <2>1, Fields, WithBadIs DEF Undone, State
  <2>3. /\ Job' = Job
        /\ \/ proc'.pc = "decide" /\ disk' = mem'
           \/ proc'.pc = "finish" /\ UNCHANGED disk
    BY <1>4, Fields DEF Undone
  <2> QED
    BY <2>1, <2>2, <2>3 DEF Placed, Proper, At, InJob, Deploying, Undoing
<1> QED
  BY <1>1, <1>2, <1>3, <1>4

\* The end of a run: the attempt stays on disk until the state is saved.
LEMMA EndPlaced ==
    ASSUME Typed, Placed, Prune \/ Collect \/ Finish PROVE Placed'
<1>1. CASE Prune \/ Collect
  <2>1. /\ \/ At("prune") /\ proc'.pc = "collect"
           \/ At("collect") /\ proc'.pc = "finish"
        /\ Job' = Job /\ UNCHANGED disk
    BY <1>1, Fields DEF Prune, Collect
  <2>2. /\ mem'.pending = mem.pending /\ mem'.current = mem.current
        /\ mem'.previous = mem.previous
    BY <1>1, Fields DEF Prune, Collect, State
  <2> QED
    BY <2>1, <2>2 DEF Placed, Proper, At, InJob, Deploying, Undoing
<1>2. CASE Finish
  <2>1. /\ At("finish") /\ disk' = mem /\ mem' = Fresh /\ proc'.pc = "idle"
        /\ Job' = None /\ mem'.pending = None
    BY <1>2 DEF Finish, Idle, Fresh, Job
  <2> QED
    BY <2>1 DEF Placed, Proper, At, InJob, Deploying, Undoing
<1> QED
  BY <1>1, <1>2

\* A run cut short leaves what is on disk.
LEMMA WorldPlaced ==
    ASSUME Typed, Placed,
           \/ \E b \in Builds : Publish(b) \/ SwitchByHand(b)
           \/ Kill \/ Reboot
    PROVE  Placed'
<1>1. CASE \E b \in Builds : Publish(b) \/ SwitchByHand(b)
  <2>1. UNCHANGED <<disk, mem, proc>>
    BY <1>1 DEF Publish, SwitchByHand
  <2> QED
    BY <2>1 DEF Placed, At, Job
<1>2. CASE Kill \/ Reboot
  <2>1. /\ UNCHANGED disk /\ mem' = Fresh /\ proc'.pc = "idle" /\ Job' = None
        /\ mem'.pending = None
    BY <1>2 DEF Kill, Reboot, Dies, Idle, Fresh, Job
  <2> QED
    BY <2>1 DEF Placed, Proper, At, InJob, Deploying, Undoing
<1> QED
  BY <1>1, <1>2

\* Every step leaves in hand, on disk and in memory what belongs to its place.
LEMMA PlacedStep == Typed /\ Placed /\ [Next]_vars => Placed'
<1> SUFFICES ASSUME Typed, Placed, [Next]_vars PROVE Placed'
  OBVIOUS
<1>1. CASE Poll \/ Command
  BY <1>1, LoadPlaced DEF Poll, Command
<1>2. CASE UNCHANGED vars
  BY <1>2 DEF vars, Placed, At, Job
<1> QED
  BY <1>1, <1>2, DeployPlaced, UndoPlaced, EndPlaced, WorldPlaced DEF Next, Agent

\* The beginning: nothing is pending and the first system is everywhere.
LEMMA TypedInit == Init => Typed /\ Placed
<1> SUFFICES ASSUME Init PROVE Typed /\ Placed
  OBVIOUS
<1>1. First \in Builds /\ MaxPublish \in Nat /\ MaxTroubles \in Nat
  BY AgentAssumption
<1>2. refs \in Refs /\ past \in Past /\ troubles \in 0 .. MaxTroubles
  BY <1>1 DEF Init, Refs, Past
<1>3. host \in Host /\ host.gens # <<>>
  BY <1>1 DEF Init, Host
<1>4. disk = Fresh /\ mem = Fresh /\ proc = Idle
  BY DEF Init
<1>5. Typed
  BY <1>2, <1>3, <1>4, FreshTyped DEF Typed, Pinned, At
<1>6. Placed
  BY <1>4 DEF Placed, Proper, At, Job, Fresh, Idle, InJob, Deploying, Undoing
<1> QED
  BY <1>5, <1>6

\* Every variable keeps its type, the profile always has a generation, and an
\* attempt goes from one system to another.
THEOREM TypeCorrect == Spec => []TypeOK
<1>1. Typed /\ Placed => TypeOK
  <2> SUFFICES ASSUME Typed, Placed PROVE TypeOK
    OBVIOUS
  <2>1. /\ host.running \in Builds /\ host.booted \in Builds /\ host.entry \in Builds
        /\ host.gens \in Seq(Builds) /\ host.store \subseteq Builds
    BY Fields DEF Host
  <2>2. proc.attempt \in Attempt \cup {None}
    BY Fields DEF Job
  <2> QED
    BY <2>1, <2>2 DEF TypeOK, Typed, Placed, Proper, Refs
<1> QED
  BY <1>1, TypedInit, TypedStep, PlacedStep, PTL DEF Spec

-----------------------------------------------------------------------------
(* What each step does, field by field.                                    *)

\* A run begins with the state on disk, and with what is pending in hand.
LEMMA LoadIs ==
    ASSUME Typed, Placed, NEW does, NEW b, Load(does, b)
    PROVE  /\ proc.pc = "idle" /\ mem' = disk /\ UNCHANGED <<refs, host, disk, past>>
           /\ proc'.pc = IF disk.pending = None THEN "decide"
                         ELSE IF host.running = disk.pending.build
                              THEN "undo" ELSE "undone"
           /\ Job' = disk.pending
  BY DEF Load, Job, At

\* It decides: an attempt over what runs, or nothing.
LEMMA DecideIs ==
    ASSUME Typed, Placed, Decide
    PROVE  /\ proc.pc = "decide" /\ UNCHANGED <<refs, host, disk, past>>
           /\ mem = disk /\ disk.pending = None
           /\ mem'.previous = mem.previous /\ mem'.bad = mem.bad
           /\ mem'.hold \in {None, host.running, mem.hold}
           /\ proc'.does = proc.does
           /\ proc.does = "poll" => mem'.hold = mem.hold
           /\ \/ proc'.pc = "finish"
              \/ /\ proc'.pc = IF proc.does = "rollback" THEN "mark" ELSE "fetch"
                 /\ Job' \in Attempt /\ Job'.from = host.running
                 /\ Job'.trigger = proc.does /\ (proc.does = "poll" => Job'.at = refs.at)
                 /\ Job'.build \in Wanted
<1>0. At("decide") /\ mem \in State /\ proc \in Run
  BY Fields DEF Decide
<1>1. /\ proc.pc = "decide" /\ UNCHANGED <<refs, host, disk, past>>
      /\ mem = disk /\ disk.pending = None
  BY DEF Decide, Placed, At
<1>2. /\ mem'.previous = mem.previous /\ mem'.bad = mem.bad /\ mem'.hold = Hold
  BY <1>0 DEF Decide, State
<1>3. Hold \in {None, host.running, mem.hold} /\ (proc.does = "poll" => Hold = mem.hold)
  BY DEF Hold
<1>4. CASE Goto("finish")
  BY <1>1, <1>2, <1>3, <1>4, Fields
<1>5. ASSUME NEW b \in Wanted,
             proc' = [proc EXCEPT !.attempt = AttemptOf(b), !.recovers = FALSE,
                         !.pc = IF proc.does = "rollback" THEN "mark" ELSE "fetch"]
      PROVE  /\ proc'.pc = IF proc.does = "rollback" THEN "mark" ELSE "fetch"
             /\ proc'.does = proc.does
             /\ Job' \in Attempt /\ Job'.from = host.running
             /\ Job'.trigger = proc.does /\ (proc.does = "poll" => Job'.at = refs.at)
             /\ Job'.build \in Wanted
  <2>1. /\ proc'.pc = IF proc.does = "rollback" THEN "mark" ELSE "fetch"
        /\ Job' = AttemptOf(b) /\ proc'.does = proc.does
    BY <1>0, <1>5 DEF Run, Job
  <2>2. /\ AttemptOf(b) \in Attempt /\ AttemptOf(b).from = host.running
        /\ AttemptOf(b).trigger = proc.does /\ (proc.does = "poll" => AttemptOf(b).at = refs.at)
        /\ AttemptOf(b).build = b
    BY <1>0, AttemptTyped DEF AttemptOf
  <2> QED
    BY <2>1, <2>2
<1>6. CASE \E b \in Wanted :
              proc' = [proc EXCEPT !.attempt = AttemptOf(b), !.recovers = FALSE,
                          !.pc = IF proc.does = "rollback" THEN "mark" ELSE "fetch"]
  BY <1>1, <1>2, <1>3, <1>5, <1>6
<1> QED
  BY <1>4, <1>6 DEF Decide

\* A build is fetched into the store, or the run ends, its build marked or not.
LEMMA FetchIs ==
    ASSUME Typed, Placed, Fetch
    PROVE  /\ proc.pc = "fetch" /\ UNCHANGED refs /\ disk' = mem
           /\ past'.checked = past.checked /\ past'.stuck = past.stuck
           /\ past'.torn = past.torn /\ past'.half = past.half
           /\ past'.byHand = past.byHand
           /\ Job' = Job /\ Job \in Attempt /\ proc'.does = proc.does
           /\ host'.running = host.running /\ host'.entry = host.entry
           /\ host'.gens = host.gens /\ host.store \subseteq host'.store
           /\ mem'.previous = mem.previous /\ mem'.hold = mem.hold
           /\ \/ proc'.pc = "mark" /\ mem' = mem /\ past' = past /\ Job.build \in host'.store
              \/ proc'.pc = "finish" /\ mem' = mem /\ past' = past
              \/ proc'.pc = "finish" /\ mem' = WithBad(mem, Job) /\ past' = Refusing(Job)
<1>1. Job \in Attempt /\ At("fetch") /\ host \in Host /\ mem \in State
  BY Fields DEF Fetch, Placed, At
<1>2. \/ /\ Goto("mark") /\ UNCHANGED <<mem, past>>
         /\ host' = [host EXCEPT !.store = @ \cup {Job.build}]
      \/ Goto("finish") /\ UNCHANGED <<host, mem, past>>
      \/ Goto("finish") /\ UNCHANGED host /\ mem' = WithBad(mem, Job) /\ past' = Refusing(Job)
  BY DEF Fetch
<1>3. CASE /\ Goto("mark") /\ UNCHANGED <<mem, past>>
           /\ host' = [host EXCEPT !.store = @ \cup {Job.build}]
  <2>1. /\ host'.running = host.running /\ host'.entry = host.entry
        /\ host'.gens = host.gens /\ host.store \subseteq host'.store
        /\ Job.build \in host'.store
    BY <1>1, <1>3 DEF Host
  <2> QED
    BY <1>1, <1>3, <2>1, Fields DEF Fetch, At
<1>4. CASE Goto("finish") /\ UNCHANGED <<host, mem, past>>
  BY <1>1, <1>4, Fields DEF Fetch, At
<1>5. CASE /\ Goto("finish") /\ UNCHANGED host
           /\ mem' = WithBad(mem, Job) /\ past' = Refusing(Job)
  <2>1. mem'.previous = mem.previous /\ mem'.hold = mem.hold
    BY <1>1, <1>5, WithBadIs
  <2>2. /\ past'.checked = past.checked /\ past'.stuck = past.stuck
        /\ past'.torn = past.torn /\ past'.half = past.half
        /\ past'.byHand = past.byHand
    BY <1>1, <1>5, RefusingIs
  <2> QED
    BY <1>1, <1>5, <2>1, <2>2, Fields DEF Fetch, At
<1> QED
  BY <1>2, <1>3, <1>4, <1>5

\* The attempt becomes the pending one, in memory and on disk.
LEMMA MarkIs ==
    ASSUME Typed, Placed, Mark
    PROVE  /\ proc.pc = "mark" /\ proc'.pc = "activate" /\ UNCHANGED <<refs, host, past>>
           /\ Job' = Job /\ Job \in Attempt /\ proc'.does = proc.does
           /\ disk' = mem' /\ mem'.pending = Job
           /\ mem'.previous = mem.previous /\ mem'.hold = mem.hold /\ mem'.bad = mem.bad
<1>1. Job \in Attempt /\ At("mark") /\ mem \in State
  BY Fields DEF Mark, Placed, At
<1> QED
  BY <1>1, Fields DEF Mark, At, State

\* An activation moves what runs and nothing else of the host.
LEMMA ActivateIs ==
    ASSUME Typed, Placed, Activate
    PROVE  /\ proc.pc = "activate" /\ UNCHANGED <<refs, disk, mem>>
           /\ Job' = Job /\ Job \in Attempt /\ proc'.does = proc.does
           /\ host'.running \in {host.running, Job.build} /\ host'.entry = host.entry
           /\ host'.gens = host.gens /\ host'.store = host.store
           /\ \/ proc'.pc = "checks" /\ host'.running = Job.build /\ past' = past
              \/ proc'.pc = "undo" /\ past' = Failing(Job)
<1> DEFINE with == [host EXCEPT !.running = Job.build]
<1>1. Job \in Attempt /\ At("activate") /\ host \in Host
  BY Fields DEF Activate, Placed, At, InJob, Deploying
<1>2. /\ with.running = Job.build /\ with.entry = host.entry /\ with.gens = host.gens
      /\ with.store = host.store
  BY <1>1 DEF Host
<1>3. /\ UNCHANGED refs
      /\ \/ host' = with /\ Goto("checks") /\ UNCHANGED <<disk, mem, past>>
         \/ /\ host' \in {host, with} /\ Goto("undo") /\ past' = Failing(Job)
            /\ UNCHANGED <<disk, mem>>
  BY DEF Activate, StepFails
<1> HIDE DEF with
<1> QED
  BY <1>1, <1>2, <1>3, Fields DEF At

\* The checks move nothing of the host; when they pass, the attempt is a
\* booting one.
LEMMA ChecksIs ==
    ASSUME Typed, Placed, ChecksPass \/ ChecksFail
    PROVE  /\ proc.pc = "checks" /\ UNCHANGED <<refs, host>>
           /\ Job \in Attempt /\ Job' \in Attempt /\ proc'.does = proc.does
           /\ Job'.build = Job.build /\ Job'.from = Job.from /\ Job'.at = Job.at
           /\ Job'.trigger = Job.trigger
           /\ mem'.previous = mem.previous /\ mem'.hold = mem.hold /\ mem'.bad = mem.bad
           /\ disk'.pending = Job'
           /\ \/ /\ proc'.pc = "profile" /\ Job'.booting /\ disk' = mem'
                 /\ past' = [past EXCEPT !.checked = @ \cup {Job.build}]
              \/ /\ proc'.pc = "undo" /\ past' = Failing(Job) /\ Job' = Job
                 /\ UNCHANGED <<disk, mem>>
<1>1. /\ At("checks") /\ Job \in Attempt /\ disk.pending = Job /\ mem.pending = Job
      /\ mem \in State /\ proc \in Run
  BY Fields DEF ChecksPass, ChecksFail, Placed, At, InJob, Deploying
<1>2. CASE ChecksPass
  <2> DEFINE after == [Job EXCEPT !.booting = TRUE]
  <2>1. /\ mem' = [mem EXCEPT !.pending = after] /\ disk' = mem'
        /\ proc' = [proc EXCEPT !.pc = "profile", !.attempt = after]
        /\ past' = [past EXCEPT !.checked = @ \cup {Job.build}] /\ UNCHANGED <<refs, host>>
    BY <1>1, <1>2 DEF ChecksPass, Job
  <2>2. /\ after \in Attempt /\ after.build = Job.build /\ after.from = Job.from
        /\ after.booting /\ after.at = Job.at /\ after.trigger = Job.trigger
    BY <1>1 DEF Attempt
  <2> HIDE DEF after
  <2>3. /\ mem'.pending = after /\ mem'.previous = mem.previous
        /\ mem'.hold = mem.hold /\ mem'.bad = mem.bad
    BY <1>1, <2>1 DEF State
  <2>4. proc'.pc = "profile" /\ proc'.does = proc.does /\ Job' = after
    BY <1>1, <2>1 DEF Run, Job
  <2> QED
    BY <1>1, <2>1, <2>2, <2>3, <2>4 DEF At
<1>3. CASE ChecksFail
  BY <1>1, <1>3, Fields DEF ChecksFail, At
<1> QED
  BY <1>2, <1>3

\* The profile gets the build as its newest generation, or the step fails.
LEMMA ProfileIs ==
    ASSUME Typed, Placed, Profile
    PROVE  /\ proc.pc = "profile" /\ UNCHANGED <<refs, disk, mem>>
           /\ Job' = Job /\ Job \in Attempt /\ proc'.does = proc.does
           /\ host'.running = host.running /\ host'.entry = host.entry
           /\ host'.store = host.store
           /\ host'.gens \in {host.gens, SetProfile(host.gens, Job.build)}
           /\ \/ /\ proc'.pc = "entry" /\ past' = past
                 /\ host'.gens = SetProfile(host.gens, Job.build)
              \/ proc'.pc = "undo" /\ past' = Failing(Job)
<1> DEFINE with == [host EXCEPT !.gens = SetProfile(@, Job.build)]
<1>1. Job \in Attempt /\ At("profile") /\ host \in Host
  BY Fields DEF Profile, Placed, At, InJob, Deploying
<1>2. /\ with.running = host.running /\ with.entry = host.entry
      /\ with.gens = SetProfile(host.gens, Job.build) /\ with.store = host.store
  BY <1>1 DEF Host
<1>3. /\ UNCHANGED refs
      /\ \/ host' = with /\ Goto("entry") /\ UNCHANGED <<disk, mem, past>>
         \/ /\ host' \in {host, with} /\ Goto("undo") /\ past' = Failing(Job)
            /\ UNCHANGED <<disk, mem>>
  BY DEF Profile, StepFails
<1> HIDE DEF with
<1> QED
  BY <1>1, <1>2, <1>3, Fields DEF At

\* The boot entry moves to the build, and what ran before is the previous
\* system.
LEMMA EntryIs ==
    ASSUME Typed, Placed, Entry
    PROVE  /\ proc.pc = "entry" /\ UNCHANGED <<refs, disk>>
           /\ Job' = Job /\ Job \in Attempt /\ proc'.does = proc.does
           /\ host'.running = host.running /\ host'.entry \in {host.entry, Job.build}
           /\ host'.gens = host.gens /\ host'.store = host.store
           /\ mem'.hold = mem.hold /\ mem'.bad = mem.bad
           /\ \/ /\ proc'.pc = "prune" /\ past' = past /\ host'.entry = Job.build
                 /\ mem'.previous = mem.current
              \/ proc'.pc = "undo" /\ past' = Failing(Job) /\ UNCHANGED mem
<1> DEFINE with == [host EXCEPT !.entry = Job.build]
<1>1. Job \in Attempt /\ At("entry") /\ host \in Host /\ mem \in State
  BY Fields DEF Entry, Placed, At, InJob, Deploying
<1>2. /\ with.running = host.running /\ with.entry = Job.build
      /\ with.gens = host.gens /\ with.store = host.store
  BY <1>1 DEF Host
<1>3. /\ UNCHANGED <<refs, disk>>
      /\ \/ /\ host' = with /\ Goto("prune") /\ UNCHANGED past
            /\ mem' = [mem EXCEPT !.previous = mem.current, !.current = Job.build,
                                  !.pending = None]
         \/ /\ host' \in {host, with} /\ Goto("undo") /\ past' = Failing(Job)
            /\ UNCHANGED mem
  BY DEF Entry, StepFails
<1>4. mem' = [mem EXCEPT !.previous = mem.current, !.current = Job.build, !.pending = None]
         => mem'.previous = mem.current /\ mem'.hold = mem.hold /\ mem'.bad = mem.bad
  BY <1>1 DEF State
<1> HIDE DEF with
<1> QED
  BY <1>1, <1>2, <1>3, <1>4, Fields DEF At

\* Pruning changes the profile alone.
LEMMA PruneIs ==
    ASSUME Typed, Placed, Prune
    PROVE  /\ proc.pc = "prune" /\ proc'.pc = "collect"
           /\ UNCHANGED <<refs, disk, mem, past>>
           /\ Job' = Job /\ Job \in Attempt /\ proc'.does = proc.does
           /\ host'.running = host.running /\ host'.entry = host.entry
           /\ host'.store = host.store /\ host'.gens \in {host.gens, Pruned(host.gens)}
<1>1. Job \in Attempt /\ At("prune") /\ host \in Host
  BY Fields DEF Prune, Placed, At
<1>2. /\ host'.running = host.running /\ host'.entry = host.entry
      /\ host'.store = host.store /\ host'.gens \in {host.gens, Pruned(host.gens)}
  BY <1>1 DEF Prune, Host
<1> QED
  BY <1>1, <1>2, Fields DEF Prune, At

\* The collection changes the store alone; a command holds what it deployed.
LEMMA CollectIs ==
    ASSUME Typed, Placed, Collect
    PROVE  /\ proc.pc = "collect" /\ proc'.pc = "finish"
           /\ UNCHANGED <<refs, disk, past>> /\ Job' = Job /\ Job \in Attempt
           /\ host'.running = host.running /\ host'.entry = host.entry
           /\ host'.gens = host.gens
           /\ host'.store \in {host.store, Roots}
           /\ mem'.previous = mem.previous /\ mem'.bad = mem.bad
           /\ mem'.hold = IF proc.does = "poll" THEN mem.hold ELSE mem.current
<1>1. Job \in Attempt /\ At("collect") /\ host \in Host /\ mem \in State
  BY Fields DEF Collect, Placed, At
<1>2. /\ host'.running = host.running /\ host'.entry = host.entry
      /\ host'.gens = host.gens /\ host'.store \in {host.store, Roots}
  BY <1>1 DEF Collect, Host
<1>3. /\ mem'.previous = mem.previous /\ mem'.bad = mem.bad
      /\ mem'.hold = IF proc.does = "poll" THEN mem.hold ELSE mem.current
  BY <1>1 DEF Collect, State
<1> QED
  BY <1>1, <1>2, <1>3, Fields DEF Collect, At

\* The end of a run saves its memory.
LEMMA FinishIs ==
    ASSUME Typed, Placed, Finish
    PROVE  /\ proc.pc = "finish" /\ proc'.pc = "idle" /\ disk' = mem /\ mem' = Fresh
           /\ UNCHANGED <<refs, host, past>> /\ mem.pending = None /\ Job' = None
           /\ mem'.previous = None
  BY DEF Finish, Idle, Fresh, Placed, At, Job

\* A rollback's steps: the step is done, or it was lost.
LEMMA UndoIs ==
    ASSUME Typed, Placed, Undo
    PROVE  /\ proc.pc = "undo" /\ UNCHANGED <<refs, disk, mem>>
           /\ Job' = Job /\ Job \in Attempt /\ proc'.does = proc.does
           /\ host'.running \in {host.running, Job.from} /\ host'.entry = host.entry
           /\ host'.gens = host.gens /\ host'.store = host.store
           /\ \/ /\ proc'.pc = IF Job.booting THEN "undoProfile" ELSE "undone"
                 /\ past' = past /\ host'.running = Job.from /\ Job.from \in host.store
              \/ proc'.pc = "undone" /\ past' = [past EXCEPT !.stuck = TRUE]
<1> DEFINE with == [host EXCEPT !.running = Job.from]
           next == IF Job.booting THEN "undoProfile" ELSE "undone"
<1>1. Job \in Attempt /\ At("undo") /\ host \in Host
  BY Fields DEF Undo, Placed, At, InJob, Undoing
<1>2. /\ with.running = Job.from /\ with.entry = host.entry
      /\ with.gens = host.gens /\ with.store = host.store
  BY <1>1 DEF Host
<1>3. /\ UNCHANGED <<refs, disk, mem>>
      /\ \/ host' = with /\ Goto(next) /\ UNCHANGED past /\ Job.from \in host.store
         \/ host' \in {host, with} /\ Goto("undone") /\ past' = [past EXCEPT !.stuck = TRUE]
  BY DEF Undo, UndoStep
<1> HIDE DEF with
<1> QED
  BY <1>1, <1>2, <1>3, Fields DEF At

\* The profile, then the boot entry, go back too.
LEMMA UndoBootIs ==
    ASSUME Typed, Placed, UndoProfile \/ UndoEntry
    PROVE  /\ UNCHANGED <<refs, disk, mem>>
           /\ Job' = Job /\ Job \in Attempt /\ proc'.does = proc.does
           /\ host'.running = host.running /\ host'.store = host.store
           /\ \/ /\ proc.pc = "undoProfile" /\ host'.entry = host.entry
                 /\ host'.gens \in {host.gens, SetProfile(host.gens, Job.from)}
                 /\ proc'.pc = "undoEntry"
                 /\ past' = past
              \/ /\ proc.pc = "undoEntry" /\ host'.entry = Job.from
                 /\ host'.gens = host.gens /\ proc'.pc = "undone" /\ past' = past
              \/ /\ proc.pc \in {"undoProfile", "undoEntry"} /\ proc'.pc = "undone"
                 /\ host'.entry \in {host.entry, Job.from}
                 /\ host'.gens \in {host.gens, SetProfile(host.gens, Job.from)}
                 /\ past' = [past EXCEPT !.stuck = TRUE]
<1>1. Job \in Attempt /\ host \in Host
  BY Fields DEF UndoProfile, UndoEntry, Placed, At, InJob, Undoing
<1>2. CASE UndoProfile
  <2> DEFINE with == [host EXCEPT !.gens = SetProfile(@, Job.from)]
  <2>1. /\ with.running = host.running /\ with.entry = host.entry
        /\ with.gens = SetProfile(host.gens, Job.from) /\ with.store = host.store
    BY <1>1 DEF Host
  <2>2. /\ UNCHANGED <<refs, disk, mem>> /\ At("undoProfile")
        /\ \/ host' = with /\ Goto("undoEntry") /\ UNCHANGED past
           \/ host' \in {host, with} /\ Goto("undone") /\ past' = [past EXCEPT !.stuck = TRUE]
    BY <1>2 DEF UndoProfile, UndoStep
  <2> HIDE DEF with
  <2> QED
    BY <1>1, <2>1, <2>2, Fields DEF At
<1>3. CASE UndoEntry
  <2> DEFINE with == [host EXCEPT !.entry = Job.from]
  <2>1. /\ with.running = host.running /\ with.entry = Job.from
        /\ with.gens = host.gens /\ with.store = host.store
    BY <1>1 DEF Host
  <2>2. /\ UNCHANGED <<refs, disk, mem>> /\ At("undoEntry")
        /\ \/ host' = with /\ Goto("undone") /\ UNCHANGED past
           \/ host' \in {host, with} /\ Goto("undone") /\ past' = [past EXCEPT !.stuck = TRUE]
    BY <1>3 DEF UndoEntry, UndoStep
  <2> HIDE DEF with
  <2> QED
    BY <1>1, <2>1, <2>2, Fields DEF At
<1> QED
  BY <1>2, <1>3

\* The attempt is marked and no longer pending.
LEMMA UndoneIs ==
    ASSUME Typed, Placed, Undone
    PROVE  /\ proc.pc = "undone" /\ UNCHANGED <<refs, host, past>>
           /\ Job' = Job /\ Job \in Attempt /\ proc'.does = proc.does
           /\ mem'.pending = None /\ mem'.previous = mem.previous
           /\ mem'.hold = mem.hold /\ mem'.bad = WithBad(mem, Job).bad
           /\ \/ proc'.pc = "decide" /\ disk' = mem'
              \/ proc'.pc = "finish" /\ UNCHANGED disk
<1>1. Job \in Attempt /\ At("undone") /\ mem \in State
  BY Fields DEF Undone, Placed, At, InJob, Undoing
<1>2. /\ mem'.pending = None /\ mem'.previous = mem.previous
      /\ mem'.hold = mem.hold /\ mem'.bad = WithBad(mem, Job).bad
  BY <1>1, WithBadIs DEF Undone, State
<1> QED
  BY <1>1, <1>2, Fields DEF Undone, At

\* A switch by hand moves what runs, what boots and the profile.
LEMMA ByHandIs ==
    ASSUME Typed, NEW b \in Builds, SwitchByHand(b)
    PROVE  /\ UNCHANGED <<refs, disk, mem, proc>> /\ Job' = Job
           /\ host'.running = b /\ host'.entry = b
           /\ host'.gens = SetProfile(host.gens, b) /\ host'.store = host.store \cup {b}
           /\ past'.checked = past.checked \cup {b} /\ past'.stuck = past.stuck
           /\ past'.torn = past.torn /\ past'.failed = past.failed /\ past'.byHand
           /\ past'.older = past.older
<1>1. host \in Host /\ past \in Past
  BY DEF Typed
<1> QED
  BY <1>1 DEF SwitchByHand, Host, Past, Job

\* A run cut short leaves the disk, the profile and the store; a reboot runs
\* what boots.
LEMMA CutIs ==
    ASSUME Typed, Kill \/ Reboot
    PROVE  /\ Dies /\ UNCHANGED <<refs, disk>> /\ proc'.pc = "idle" /\ Job' = None
           /\ mem'.previous = None /\ past'.checked = past.checked
           /\ past'.stuck = past.stuck /\ past'.byHand = past.byHand
           /\ host'.gens = host.gens /\ host'.store = host.store
           /\ host'.entry = host.entry /\ host'.running \in {host.running, host.entry}
           /\ host'.running = host.entry \/ host'.running = host.running
<1>1. host \in Host
  BY DEF Typed
<1>2. /\ Dies /\ UNCHANGED <<refs, disk>>
      /\ host'.gens = host.gens /\ host'.store = host.store
      /\ host'.entry = host.entry /\ host'.running \in {host.running, host.entry}
  BY <1>1 DEF Kill, Reboot, Host
<1>3. proc'.pc = "idle" /\ Job' = None /\ mem'.previous = None
  BY <1>2 DEF Dies, Idle, Fresh, Job
<1> QED
  BY <1>2, <1>3, DiesIs

-----------------------------------------------------------------------------
(* Where the systems in use are.                                           *)

\* A profile's newest systems are among its systems.
LEMMA NewestIs ==
    ASSUME NEW gens \in Seq(Builds), gens # <<>>
    PROVE  Last(gens) \in Newest(gens) /\ Newest(gens) \subseteq Systems(gens)
<1>1. /\ Len(gens) \in Nat \ {0} /\ DOMAIN gens = 1 .. Len(gens)
      /\ Last(gens) = gens[Len(gens)]
  BY DEF Last
<1> QED
  BY <1>1 DEF Newest, Systems

\* Until its activation an attempt moves nothing that Rooted is about.
LEMMA BeginRooted ==
    ASSUME Typed, Placed, Rooted,
           \/ \E does \in {"poll", "pin", "unpin", "rollback"}, b \in Builds \cup {None} :
                 Load(does, b)
           \/ Decide \/ Fetch \/ Mark
    PROVE  Rooted'
<1>1. CASE \E does \in {"poll", "pin", "unpin", "rollback"}, b \in Builds \cup {None} :
              Load(does, b)
  <2>1. /\ proc.pc = "idle" /\ UNCHANGED <<host, disk, past>>
        /\ proc'.pc = IF disk.pending = None THEN "decide"
                      ELSE IF host.running = disk.pending.build THEN "undo" ELSE "undone"
    BY <1>1, LoadIs
  <2> QED
    BY <2>1 DEF Rooted, At, Deploying
<1>2. CASE Decide
  <2>1. /\ proc.pc = "decide" /\ UNCHANGED <<host, disk, past>> /\ disk.pending = None
        /\ \/ proc'.pc = "finish"
           \/ /\ proc'.pc = IF proc.does = "rollback" THEN "mark" ELSE "fetch"
              /\ Job'.from = host.running /\ Job'.build \in Wanted
    BY <1>2, DecideIs
  <2>2. proc'.pc = "mark" => Job'.build \in host.store
    BY <2>1, WantedIs DEF At
  <2> QED
    BY <2>1, <2>2 DEF Rooted, At, Deploying
<1>3. CASE Fetch
  <2>1. disk.pending = None /\ mem.pending = None /\ disk'.pending = None
    BY <1>3, FetchIs DEF Placed
  <2> QED
    BY <1>3, <2>1, FetchIs DEF Rooted, At, Deploying
<1>4. CASE Mark
  <2>1. disk.pending = None /\ disk'.pending = Job /\ Job # None
    BY <1>4, MarkIs DEF Placed
  <2> QED
    BY <1>4, <2>1, MarkIs DEF Rooted, At, Deploying
<1> QED
  BY <1>1, <1>2, <1>3, <1>4

\* Deploying moves to what is being deployed, which is in the store.
LEMMA DeployRooted ==
    ASSUME Typed, Placed, Rooted,
           Activate \/ ChecksPass \/ ChecksFail \/ Profile \/ Entry
    PROVE  Rooted'
<1>0. /\ host.gens \in Seq(Builds) /\ host.gens # <<>>
      /\ Last(host.gens) \in Newest(host.gens)
      /\ Newest(host.gens) \subseteq Systems(host.gens)
  BY NewestIs DEF Typed, Host
<1>1. /\ disk.pending = Job /\ Job \in Attempt /\ Job # None /\ Job.build \in Builds
      /\ Failing(Job).stuck = past.stuck
  BY Fields, FailingIs
     DEF Placed, At, InJob, Deploying, Activate, ChecksPass, ChecksFail, Profile, Entry
<1>2. CASE Activate
  <2>1. /\ proc.pc = "activate" /\ disk' = disk /\ Job' = Job /\ past'.stuck = past.stuck
        /\ host'.running \in {host.running, Job.build} /\ host'.entry = host.entry
        /\ host'.gens = host.gens /\ host'.store = host.store
        /\ \/ proc'.pc = "checks" /\ host'.running = Job.build
           \/ proc'.pc = "undo"
    BY <1>1, <1>2, ActivateIs
  <2> QED
    BY <1>0, <1>1, <2>1 DEF Rooted, At, Deploying
<1>3. CASE ChecksPass \/ ChecksFail
  <2>1. past'.stuck = past.stuck
    BY <1>1, <1>3, ChecksIs, Fields DEF Past
  <2>2. /\ proc.pc = "checks" /\ UNCHANGED host /\ proc'.pc \in {"profile", "undo"}
        /\ disk'.pending = Job' /\ Job' # None
        /\ Job'.build = Job.build /\ Job'.from = Job.from
    BY <1>3, ChecksIs, Fields
  <2> QED
    BY <1>0, <1>1, <2>1, <2>2 DEF Rooted, At, Deploying
<1>4. CASE Profile
  <2> DEFINE gens == SetProfile(host.gens, Job.build)
  <2>1. /\ Systems(gens) = Systems(host.gens) \cup {Job.build}
        /\ {Job.build, Last(host.gens)} \subseteq Newest(gens)
        /\ Last(gens) = Job.build
    BY <1>0, <1>1, SetProfileIs
  <2> HIDE DEF gens
  <2>2. host'.gens \in {host.gens, gens} /\ (proc'.pc = "entry" => host'.gens = gens)
    BY <1>4, ProfileIs DEF gens
  <2>3. past'.stuck = past.stuck
    BY <1>1, <1>4, ProfileIs
  <2> QED
    BY <1>0, <1>1, <1>4, <2>1, <2>2, <2>3, ProfileIs DEF Rooted, At, Deploying
<1>5. CASE Entry
  BY <1>0, <1>1, <1>5, EntryIs DEF Rooted, At, Deploying
<1> QED
  BY <1>2, <1>3, <1>4, <1>5

\* Pruning spares what boots, what runs and what the attempt goes back to; the
\* store keeps what the profile names.
LEMMA EndRooted ==
    ASSUME Typed, Placed, Rooted, Prune \/ Collect \/ Finish
    PROVE  Rooted'
<1>0. /\ host.gens \in Seq(Builds) /\ host.gens # <<>>
      /\ Newest(host.gens) \subseteq Systems(host.gens)
  BY NewestIs DEF Typed, Host
<1>1. CASE Prune
  <2>1. /\ disk.pending = Job /\ mem.current = Job.build /\ mem.previous = Job.from
        /\ Job \in Attempt
    BY <1>1, PruneIs DEF Placed
  <2> DEFINE gens == Pruned(host.gens)
  <2>2. /\ Systems(gens) \subseteq Systems(host.gens)
        /\ Newest(host.gens) \subseteq Systems(gens)
        /\ Job.build \in Systems(host.gens) => Job.build \in Systems(gens)
        /\ Job.from \in Systems(host.gens) => Job.from \in Systems(gens)
    BY <1>0, <2>1, PrunedIs
  <2> HIDE DEF gens
  <2>3. host'.gens \in {host.gens, gens}
    BY <1>1, PruneIs DEF gens
  <2> QED
    BY <1>0, <1>1, <2>1, <2>2, <2>3, PruneIs DEF Rooted, At, Deploying
<1>2. CASE Collect
  <2>1. Systems(host.gens) \subseteq Roots
    BY DEF Roots, Systems
  <2> QED
    BY <1>2, <2>1, CollectIs DEF Rooted, At, Deploying
<1>3. CASE Finish
  BY <1>3, FinishIs DEF Rooted, At, Deploying
<1> QED
  BY <1>1, <1>2, <1>3

\* A rollback goes back to what the profile has, unless it is lost.
LEMMA UndoRooted ==
    ASSUME Typed, Placed, Rooted, Undo \/ UndoProfile \/ UndoEntry \/ Undone
    PROVE  Rooted'
<1>0. /\ host.gens \in Seq(Builds) /\ host.gens # <<>>
      /\ [past EXCEPT !.stuck = TRUE].stuck
  BY DEF Typed, Host, Past
<1>1. /\ disk.pending = Job /\ Job \in Attempt /\ Job # None /\ Job.from \in Builds
  BY Fields DEF Placed, At, InJob, Undoing, Undo, UndoProfile, UndoEntry, Undone
<1>2. CASE Undo
  BY <1>0, <1>1, <1>2, UndoIs DEF Rooted, At, Deploying
<1>3. CASE UndoProfile \/ UndoEntry
  <2> DEFINE gens == SetProfile(host.gens, Job.from)
  <2>1. Systems(gens) = Systems(host.gens) \cup {Job.from}
    BY <1>0, <1>1, SetProfileIs
  <2> HIDE DEF gens
  <2>2. host'.gens \in {host.gens, gens}
    BY <1>3, UndoBootIs DEF gens
  <2> QED
    BY <1>0, <1>1, <1>3, <2>1, <2>2, UndoBootIs DEF Rooted, At, Deploying
<1>4. CASE Undone
  BY <1>1, <1>4, UndoneIs DEF Rooted, At, Deploying
<1> QED
  BY <1>2, <1>3, <1>4

\* What is switched to by hand is in the profile; a reboot comes up on what is.
LEMMA WorldRooted ==
    ASSUME Typed, Placed, Rooted,
           \/ \E b \in Builds : Publish(b) \/ SwitchByHand(b)
           \/ Kill \/ Reboot
    PROVE  Rooted'
<1>0. /\ host.gens \in Seq(Builds) /\ host.gens # <<>>
      /\ Newest(host.gens) \subseteq Systems(host.gens)
  BY NewestIs DEF Typed, Host
<1>1. ASSUME NEW b \in Builds, Publish(b) PROVE Rooted'
  <2>1. UNCHANGED <<host, disk, proc, past>> /\ Job' = Job
    BY <1>1 DEF Publish, Job
  <2> QED
    BY <2>1 DEF Rooted, At
<1>2. ASSUME NEW b \in Builds, SwitchByHand(b) PROVE Rooted'
  <2> DEFINE gens == SetProfile(host.gens, b)
  <2>1. /\ Systems(gens) = Systems(host.gens) \cup {b} /\ Last(gens) = b
        /\ b \in Newest(gens)
    BY <1>0, SetProfileIs
  <2> HIDE DEF gens
  <2>2. host'.gens = gens
    BY <1>2, ByHandIs DEF gens
  <2> QED
    BY <1>0, <1>2, <2>1, <2>2, ByHandIs DEF Rooted, At, Deploying
<1>3. CASE Kill
  <2>1. UNCHANGED host
    BY <1>3 DEF Kill
  <2>2. disk.pending # None => disk.pending \in Attempt
    BY Fields
  <2> QED
    BY <1>3, <2>1, <2>2, CutIs DEF Rooted, At, Deploying, Placed
<1>4. CASE Reboot
  <2>1. host'.running = host.entry
    BY <1>4 DEF Reboot, Typed, Host
  <2> QED
    BY <1>4, <2>1, CutIs DEF Rooted, At, Deploying
<1> QED
  BY <1>1, <1>2, <1>3, <1>4

\* Every step keeps the systems in use where they are found.
LEMMA RootedStep == Typed /\ Placed /\ Rooted /\ [Next]_vars => Rooted'
<1> SUFFICES ASSUME Typed, Placed, Rooted, [Next]_vars PROVE Rooted'
  OBVIOUS
<1>1. CASE Poll \/ Command
  <2>1. \E does \in {"poll", "pin", "unpin", "rollback"}, b \in Builds \cup {None} :
           Load(does, b)
    BY <1>1, AgentAssumption DEF Poll, Command
  <2> QED
    BY <2>1, BeginRooted
<1>2. CASE UNCHANGED vars
  BY <1>2 DEF vars, Rooted, At, Job
<1> QED
  BY <1>1, <1>2, BeginRooted, DeployRooted, EndRooted, UndoRooted, WorldRooted
     DEF Next, Agent

\* At the beginning the first system is everywhere.
LEMMA RootedInit == Init => Rooted
<1> SUFFICES ASSUME Init PROVE Rooted
  OBVIOUS
<1>1. /\ host.gens = <<First>> /\ host.store = {First} /\ host.entry = First
      /\ host.running = First /\ disk.pending = None /\ proc.pc = "idle"
  BY DEF Init, Fresh, Idle
<1>2. Systems(host.gens) = {First}
  BY <1>1 DEF Systems
<1> QED
  BY <1>1, <1>2 DEF Rooted, At, Deploying

-----------------------------------------------------------------------------
(* What a rollback would go back to.                                       *)

\* Only a deployment changes the previous system, to what it goes back to.
LEMMA PreviousStep ==
    Typed /\ Placed /\ Rooted /\ PreviousKept /\ [Next]_vars => PreviousKept'
<1> SUFFICES ASSUME Typed, Placed, Rooted, PreviousKept, [Next]_vars PROVE PreviousKept'
  OBVIOUS
<1> USE DEF At
<1>0. /\ host.gens \in Seq(Builds) /\ host.gens # <<>>
      /\ \A job \in Attempt :
            Failing(job).stuck = past.stuck /\ Failing(job).torn = past.torn
      /\ [past EXCEPT !.stuck = TRUE].stuck
  BY FailingIs DEF Typed, Host, Past
<1>1. ASSUME NEW does, NEW b, Load(does, b) PROVE PreviousKept'
  BY <1>1, LoadIs DEF PreviousKept
<1>2. CASE Decide
  BY <1>2, DecideIs DEF PreviousKept
<1>3. CASE Fetch
  <2>1. \A job \in Attempt : WithBad(mem, job).previous = mem.previous
    BY WithBadIs, Fields
  <2> QED
    BY <1>3, <2>1, FetchIs DEF PreviousKept
<1>4. CASE Mark
  BY <1>4, MarkIs DEF PreviousKept
<1>5. CASE Activate
  BY <1>0, <1>5, ActivateIs DEF PreviousKept
<1>6. CASE ChecksPass \/ ChecksFail
  <2>1. past'.stuck = past.stuck /\ past'.torn = past.torn
    BY <1>0, <1>6, ChecksIs, Fields DEF Past
  <2> QED
    BY <1>6, <2>1, ChecksIs DEF PreviousKept
<1>7. CASE Profile
  <2>1. Job.build \in Builds
    BY <1>7, ProfileIs, Fields
  <2>2. Systems(host.gens) \subseteq Systems(host'.gens)
    BY <1>0, <1>7, <2>1, ProfileIs, SetProfileIs
  <2> QED
    BY <1>0, <1>7, <2>2, ProfileIs DEF PreviousKept
<1>8. CASE Entry
  <2>1. /\ mem.current = Job.from /\ disk.pending = Job
        /\ Job # None
    BY <1>8, EntryIs DEF Placed, InJob, Deploying
  <2>2. ~past.stuck => Job.from \in Systems(host.gens)
    BY <2>1 DEF Rooted
  <2> QED
    BY <1>0, <1>8, <2>1, <2>2, EntryIs DEF PreviousKept
<1>9. CASE Prune
  <2>1. Systems(Pruned(host.gens)) \cap {mem.previous} = Systems(host.gens) \cap {mem.previous}
    BY <1>0, PrunedIs
  <2> QED
    BY <1>9, <2>1, PruneIs DEF PreviousKept
<1>10. CASE Collect
  BY <1>10, CollectIs DEF PreviousKept
<1>11. CASE Finish
  BY <1>11, FinishIs DEF PreviousKept
<1>12. CASE Undo
  BY <1>0, <1>12, UndoIs DEF PreviousKept
<1>13. CASE UndoProfile \/ UndoEntry
  <2>1. Job.from \in Builds
    BY <1>13, UndoBootIs, Fields
  <2>2. Systems(host.gens) \subseteq Systems(host'.gens)
    BY <1>0, <1>13, <2>1, UndoBootIs, SetProfileIs
  <2> QED
    BY <1>0, <1>13, <2>2, UndoBootIs DEF PreviousKept
<1>14. CASE Undone
  BY <1>14, UndoneIs DEF PreviousKept
<1>15. ASSUME NEW b \in Builds, Publish(b) PROVE PreviousKept'
  BY <1>15 DEF Publish, PreviousKept
<1>16. ASSUME NEW b \in Builds, SwitchByHand(b) PROVE PreviousKept'
  <2>1. Systems(host.gens) \subseteq Systems(host'.gens)
    BY <1>0, <1>16, ByHandIs, SetProfileIs
  <2> QED
    BY <1>16, <2>1, ByHandIs DEF PreviousKept
<1>17. CASE Kill \/ Reboot
  <2>1. past.torn \/ proc.pc \in {"prune", "collect", "finish"} => past'.torn
    BY <1>17, CutIs, DiesIs
  <2> QED
    BY <1>17, <2>1, CutIs DEF PreviousKept
<1>18. CASE UNCHANGED vars
  BY <1>18 DEF vars, PreviousKept
<1> QED
  BY <1>1, <1>2, <1>3, <1>4, <1>5, <1>6, <1>7, <1>8, <1>9, <1>10, <1>11, <1>12, <1>13,
     <1>14, <1>15, <1>16, <1>17, <1>18 DEF Next, Agent, Poll, Command

\* Pruning and the store's collection spare what may still be needed: the system
\* that a pending attempt goes back to and, unless a run was cut short between its
\* boot step and its last save, the one that a rollback goes back to.
THEOREM NeededIsKept == Spec => []TargetsKept
<1>1. Typed /\ Placed /\ Rooted /\ PreviousKept => TargetsKept
  BY DEF Rooted, PreviousKept, TargetsKept, Quiet, At
<1>2. Init => PreviousKept
  <2>1. Init => mem.previous = None /\ disk.previous = None
    BY DEF Init, Fresh
  <2> QED
    BY <2>1 DEF PreviousKept
<1> QED
  BY <1>1, <1>2, TypedInit, TypedStep, PlacedStep, RootedInit, RootedStep, PreviousStep, PTL
     DEF Spec

-----------------------------------------------------------------------------
(* What passed its checks.                                                 *)

\* An activation is the only way onto a system that was not checked, and it
\* leaves the boot entry alone.
LEMMA CheckedStep == Typed /\ Placed /\ Checked /\ [Next]_vars => Checked'
<1> SUFFICES ASSUME Typed, Placed, Checked, [Next]_vars PROVE Checked'
  OBVIOUS
<1> USE DEF At
<1>0. /\ \A job \in Attempt :
            Failing(job).stuck = past.stuck /\ Failing(job).checked = past.checked
      /\ [past EXCEPT !.stuck = TRUE].stuck
      /\ [past EXCEPT !.stuck = TRUE].checked = past.checked
  BY FailingIs DEF Typed, Past
<1>p. proc.pc \in InJob \cup {"prune", "collect"} => disk.pending = Job /\ Job # None
  BY DEF Placed
<1>1. ASSUME NEW does, NEW b, Load(does, b) PROVE Checked'
  BY <1>1, LoadIs DEF Checked
<1>2. CASE Decide
  BY <1>2, DecideIs DEF Checked
<1>3. CASE Fetch
  <2>1. disk.pending = None /\ mem.pending = None /\ disk'.pending = None
    BY <1>3, FetchIs DEF Placed
  <2> QED
    BY <1>3, <2>1, FetchIs DEF Checked
<1>4. CASE Mark
  <2>1. disk.pending = None /\ disk'.pending = Job /\ Job # None
    BY <1>4, MarkIs DEF Placed
  <2> QED
    BY <1>4, <2>1, MarkIs DEF Checked
<1>5. CASE Activate
  <2>1. disk.pending = Job /\ Job # None
    BY <1>5, <1>p, ActivateIs DEF InJob, Deploying
  <2>2. /\ proc.pc = "activate" /\ disk' = disk /\ Job' = Job
        /\ past'.stuck = past.stuck /\ past'.checked = past.checked
        /\ host'.running \in {host.running, Job.build} /\ host'.entry = host.entry
        /\ proc'.pc \in {"checks", "undo"}
    BY <1>0, <1>5, ActivateIs
  <2> QED
    BY <2>1, <2>2 DEF Checked
<1>6. CASE ChecksPass \/ ChecksFail
  <2>1. /\ past'.stuck = past.stuck /\ past.checked \subseteq past'.checked
        /\ proc'.pc = "profile" => Job.build \in past'.checked
    BY <1>0, <1>6, ChecksIs, Fields DEF Past
  <2>2. /\ disk.pending = Job /\ Job # None /\ disk'.pending = Job' /\ Job' # None
        /\ Job'.build = Job.build /\ Job'.from = Job.from
        /\ proc.pc = "checks" /\ UNCHANGED host /\ proc'.pc \in {"profile", "undo"}
    BY <1>6, <1>p, ChecksIs, Fields DEF InJob, Deploying
  <2> QED
    BY <2>1, <2>2 DEF Checked
<1>7. CASE Profile
  BY <1>0, <1>7, ProfileIs DEF Checked
<1>8. CASE Entry
  BY <1>0, <1>8, EntryIs DEF Checked
<1>9. CASE Prune
  BY <1>9, PruneIs DEF Checked
<1>10. CASE Collect
  BY <1>10, CollectIs DEF Checked
<1>11. CASE Finish
  BY <1>11, FinishIs DEF Checked
<1>12. CASE Undo
  <2>1. disk.pending = Job /\ Job # None
    BY <1>12, <1>p, UndoIs DEF InJob, Undoing
  <2> QED
    BY <1>0, <1>12, <2>1, UndoIs DEF Checked
<1>13. CASE UndoProfile \/ UndoEntry
  <2>1. disk.pending = Job /\ Job # None
    BY <1>13, <1>p, UndoBootIs DEF InJob, Undoing
  <2>2. \/ /\ past' = past /\ host'.entry \in {host.entry, Job.from}
        \/ past'.stuck /\ past'.checked = past.checked
    BY <1>0, <1>13, UndoBootIs
  <2>3. /\ UNCHANGED disk /\ Job' = Job /\ host'.running = host.running
        /\ proc.pc \in {"undoProfile", "undoEntry"} /\ proc'.pc \in {"undoEntry", "undone"}
    BY <1>13, UndoBootIs
  <2> QED
    BY <2>1, <2>2, <2>3 DEF Checked
<1>14. CASE Undone
  BY <1>14, UndoneIs DEF Checked
<1>15. ASSUME NEW b \in Builds, Publish(b) PROVE Checked'
  BY <1>15 DEF Publish, Checked, Job
<1>16. ASSUME NEW b \in Builds, SwitchByHand(b) PROVE Checked'
  BY <1>16, ByHandIs DEF Checked
<1>17. CASE Kill \/ Reboot
  <2>1. \/ host'.running = host.entry
        \/ host'.running = host.running /\ proc.pc # "idle"
    BY <1>17 DEF Kill, Reboot, Typed, Host
  <2>2. /\ UNCHANGED disk /\ proc'.pc = "idle" /\ past'.checked = past.checked
        /\ past'.stuck = past.stuck /\ host'.entry = host.entry
    BY <1>17, CutIs
  <2> QED
    BY <2>1, <2>2 DEF Checked
<1>18. CASE UNCHANGED vars
  BY <1>18 DEF vars, Checked, Job
<1> QED
  BY <1>1, <1>2, <1>3, <1>4, <1>5, <1>6, <1>7, <1>8, <1>9, <1>10, <1>11, <1>12, <1>13,
     <1>14, <1>15, <1>16, <1>17, <1>18 DEF Next, Agent, Poll, Command

\* At the beginning the first system counts as checked.
LEMMA CheckedInit == Init => Checked
<1> SUFFICES ASSUME Init PROVE Checked
  OBVIOUS
<1>1. /\ past.checked = {First} /\ host.entry = First /\ host.running = First
      /\ disk.pending = None /\ proc.pc = "idle"
  BY DEF Init, Fresh, Idle
<1> QED
  BY <1>1 DEF Checked, At

\* Between runs, with no attempt to recover, the host runs a system that passed
\* its checks, wherever a run was cut short, if no rollback failed.
THEOREM RunsChecked == Spec => []EndsOnChecked
<1>1. Checked => EndsOnChecked
  BY DEF Checked, EndsOnChecked, Quiet
<1> QED
  BY <1>1, TypedInit, TypedStep, PlacedStep, CheckedInit, CheckedStep, PTL DEF Spec

\* A reboot at any moment comes up on a system that passed its checks and that
\* pruning and the store's collection spared.
THEOREM BootsChecked == Spec => []BootsOnChecked
<1>1. Rooted /\ Checked => BootsOnChecked
  BY DEF Rooted, Checked, BootsOnChecked
<1> QED
  BY <1>1, TypedInit, TypedStep, PlacedStep, RootedInit, RootedStep, CheckedInit,
     CheckedStep, PTL DEF Spec

-----------------------------------------------------------------------------
(* What is held.                                                           *)

\* The steps of a deployment, and what goes back, keep the held system where an
\* attempt goes back to until the attempt is complete.
LEMMA FollowStep == Typed /\ Placed /\ Follow /\ [Next]_vars => Follow'
<1> SUFFICES ASSUME Typed, Placed, Follow, [Next]_vars PROVE Follow'
  OBVIOUS
<1> USE DEF At
<1>0. /\ \A job \in Attempt : LET after == Failing(job) IN
            /\ after.stuck = past.stuck /\ after.half = past.half
            /\ after.byHand = past.byHand
      /\ [past EXCEPT !.stuck = TRUE].stuck
  BY FailingIs DEF Typed, Past
<1>p. /\ proc.pc \in InJob \cup {"fetch", "mark", "prune", "collect"} =>
            Job # None /\ Job.from # Job.build
      /\ proc.pc \in InJob \cup {"prune", "collect"} => disk.pending = Job
  BY DEF Placed, Proper
<1>1. ASSUME NEW does, NEW b, Load(does, b) PROVE Follow'
  <2>1. /\ proc.pc = "idle" /\ mem' = disk /\ UNCHANGED <<host, disk, past>>
        /\ proc'.pc = IF disk.pending = None THEN "decide"
                      ELSE IF host.running = disk.pending.build THEN "undo" ELSE "undone"
        /\ Job' = disk.pending
    BY <1>1, LoadIs
  <2> QED
    BY <2>1 DEF Follow, Steady, InJob, Deploying, Undoing
<1>2. CASE Decide
  <2>1. /\ proc.pc = "decide" /\ UNCHANGED <<host, disk, past>> /\ mem = disk
        /\ disk.pending = None /\ mem'.hold \in {None, host.running, mem.hold}
        /\ proc'.does = proc.does /\ (proc.does = "poll" => mem'.hold = mem.hold)
        /\ \/ proc'.pc = "finish"
           \/ /\ proc'.pc \in {"fetch", "mark"} /\ Job'.from = host.running
              /\ proc.does = "poll" => mem.hold = None
    BY <1>2, DecideIs, WantedIs
  <2> QED
    BY <2>1 DEF Follow, Steady, InJob, Deploying, Undoing
<1>3. CASE Fetch
  <2>1. /\ proc.pc = "fetch" /\ disk' = mem
        /\ past'.stuck = past.stuck /\ past'.half = past.half /\ past'.byHand = past.byHand
        /\ Job' = Job /\ proc'.does = proc.does
        /\ host'.running = host.running /\ host'.entry = host.entry
        /\ mem'.hold = mem.hold /\ proc'.pc \in {"mark", "finish"}
    BY <1>3, FetchIs
  <2>2. disk.pending = None /\ mem.pending = None
    BY <2>1 DEF Placed
  <2> QED
    BY <2>1, <2>2 DEF Follow, Steady, InJob, Deploying, Undoing
<1>4. CASE Mark
  <2>1. /\ proc.pc = "mark" /\ proc'.pc = "activate" /\ UNCHANGED <<host, past>>
        /\ Job' = Job /\ proc'.does = proc.does
        /\ disk' = mem' /\ mem'.pending = Job /\ mem'.hold = mem.hold
    BY <1>4, MarkIs
  <2>2. disk.pending = None /\ Job # None /\ Job.from # Job.build /\ ~Job.booting
    BY <2>1, <1>p DEF Placed
  <2> QED
    BY <2>1, <2>2 DEF Follow, Steady, InJob, Deploying, Undoing
<1>5. CASE Activate
  <2>1. /\ proc.pc = "activate" /\ UNCHANGED <<disk, mem>> /\ Job' = Job
        /\ proc'.does = proc.does
        /\ host'.running \in {host.running, Job.build} /\ host'.entry = host.entry
        /\ \/ proc'.pc = "checks" /\ host'.running = Job.build
           \/ proc'.pc = "undo"
        /\ past'.stuck = past.stuck /\ past'.half = past.half /\ past'.byHand = past.byHand
    BY <1>0, <1>5, ActivateIs
  <2>2. disk.pending = Job /\ Job # None /\ Job.from # Job.build /\ ~Job.booting
    BY <2>1, <1>p DEF Placed, InJob, Deploying
  <2> QED
    BY <2>1, <2>2 DEF Follow, Steady, InJob, Deploying, Undoing
<1>6. CASE ChecksPass \/ ChecksFail
  <2>1. /\ proc.pc = "checks" /\ UNCHANGED host /\ proc'.does = proc.does
        /\ Job'.build = Job.build /\ Job'.from = Job.from /\ disk'.pending = Job'
        /\ Job' # None /\ mem'.hold = mem.hold
        /\ \/ proc'.pc = "profile" /\ Job'.booting /\ disk' = mem'
           \/ proc'.pc = "undo" /\ Job' = Job /\ UNCHANGED disk
    BY <1>6, ChecksIs, Fields
  <2>2. disk.pending = Job /\ Job # None /\ Job.from # Job.build /\ ~Job.booting
    BY <2>1, <1>p DEF Placed, InJob, Deploying
  <2>3. past'.stuck = past.stuck /\ past'.half = past.half /\ past'.byHand = past.byHand
    BY <1>0, <1>6, ChecksIs, Fields DEF Past
  <2> QED
    BY <2>1, <2>2, <2>3 DEF Follow, Steady, InJob, Deploying, Undoing
<1>7. CASE Profile
  <2>1. /\ proc.pc = "profile" /\ UNCHANGED <<disk, mem>> /\ Job' = Job
        /\ proc'.does = proc.does
        /\ host'.running = host.running /\ host'.entry = host.entry
        /\ proc'.pc \in {"entry", "undo"}
        /\ past'.stuck = past.stuck /\ past'.half = past.half /\ past'.byHand = past.byHand
    BY <1>0, <1>7, ProfileIs
  <2>2. disk.pending = Job /\ Job # None /\ Job.from # Job.build
    BY <2>1, <1>p DEF InJob, Deploying
  <2> QED
    BY <2>1, <2>2 DEF Follow, Steady, InJob, Deploying, Undoing
<1>8. CASE Entry
  <2>1. /\ proc.pc = "entry" /\ UNCHANGED disk /\ Job' = Job /\ proc'.does = proc.does
        /\ host'.running = host.running /\ host'.entry \in {host.entry, Job.build}
        /\ mem'.hold = mem.hold
        /\ \/ proc'.pc = "prune" /\ host'.entry = Job.build
           \/ proc'.pc = "undo"
        /\ past'.stuck = past.stuck /\ past'.half = past.half /\ past'.byHand = past.byHand
    BY <1>0, <1>8, EntryIs
  <2>2. disk.pending = Job /\ Job # None /\ Job.from # Job.build /\ Job.booting
    BY <2>1, <1>p DEF Placed, InJob, Deploying
  <2> QED
    BY <2>1, <2>2 DEF Follow, Steady, InJob, Deploying, Undoing
<1>9. CASE Prune
  <2>1. disk.pending = Job /\ Job # None /\ Job.from # Job.build
    BY <1>9, <1>p, PruneIs
  <2> QED
    BY <1>9, <2>1, PruneIs DEF Follow, Steady, InJob, Deploying, Undoing
<1>10. CASE Collect
  <2>1. /\ disk.pending = Job /\ Job # None /\ Job.from # Job.build
        /\ mem.current = Job.build
    BY <1>10, <1>p, CollectIs DEF Placed
  <2> QED
    BY <1>10, <2>1, CollectIs DEF Follow, Steady, InJob, Deploying, Undoing
<1>11. CASE Finish
  BY <1>11, FinishIs DEF Follow, Steady, InJob, Deploying, Undoing
<1>12. CASE Undo
  <2>1. /\ proc.pc = "undo" /\ UNCHANGED <<disk, mem>> /\ Job' = Job
        /\ proc'.does = proc.does /\ host'.entry = host.entry
        /\ \/ /\ proc'.pc = IF Job.booting THEN "undoProfile" ELSE "undone"
              /\ past' = past /\ host'.running = Job.from
           \/ proc'.pc = "undone" /\ past'.stuck
    BY <1>0, <1>12, UndoIs
  <2>2. disk.pending = Job /\ Job # None /\ Job.from # Job.build
    BY <2>1, <1>p DEF InJob, Undoing
  <2> QED
    BY <2>1, <2>2 DEF Follow, Steady, InJob, Deploying, Undoing
<1>13. CASE UndoProfile \/ UndoEntry
  <2>1. /\ UNCHANGED <<disk, mem>> /\ Job' = Job /\ proc'.does = proc.does
        /\ host'.running = host.running
        /\ \/ /\ proc.pc = "undoProfile" /\ host'.entry = host.entry
              /\ proc'.pc = "undoEntry" /\ past' = past
           \/ /\ proc.pc = "undoEntry" /\ host'.entry = Job.from
              /\ proc'.pc = "undone" /\ past' = past
           \/ /\ proc.pc \in {"undoProfile", "undoEntry"} /\ proc'.pc = "undone"
              /\ past'.stuck
    BY <1>0, <1>13, UndoBootIs
  <2>2. disk.pending = Job /\ Job # None /\ Job.from # Job.build
    BY <2>1, <1>p DEF InJob, Undoing
  <2> QED
    BY <2>1, <2>2 DEF Follow, Steady, InJob, Deploying, Undoing
<1>14. CASE Undone
  <2>1. /\ proc.pc = "undone" /\ UNCHANGED <<host, past>> /\ Job' = Job
        /\ mem'.pending = None /\ mem'.hold = mem.hold
        /\ \/ proc'.pc = "decide" /\ disk' = mem'
           \/ proc'.pc = "finish" /\ UNCHANGED disk
    BY <1>14, UndoneIs
  <2>2. disk.pending = Job /\ Job # None /\ Job.from # Job.build
    BY <2>1, <1>p DEF InJob, Undoing
  <2> QED
    BY <2>1, <2>2 DEF Follow, Steady, InJob, Deploying, Undoing
<1>15. ASSUME NEW b \in Builds, Publish(b) PROVE Follow'
  BY <1>15 DEF Publish, Follow, Steady, Job
<1>16. ASSUME NEW b \in Builds, SwitchByHand(b) PROVE Follow'
  BY <1>16, ByHandIs DEF Follow, Steady
<1>17. CASE Kill \/ Reboot
  <2>1. /\ UNCHANGED disk /\ proc'.pc = "idle" /\ host'.entry = host.entry
        /\ past'.stuck = past.stuck /\ past'.byHand = past.byHand
        /\ past'.half <=> past.half \/ proc.pc \in {"undoProfile", "undoEntry"}
        /\ host'.running = host.entry \/ host'.running = host.running
    BY <1>17, CutIs, DiesIs
  <2> QED
    BY <2>1 DEF Follow, Steady, InJob, Deploying, Undoing
<1>18. CASE UNCHANGED vars
  BY <1>18 DEF vars, Follow, Steady, Job
<1> QED
  BY <1>1, <1>2, <1>3, <1>4, <1>5, <1>6, <1>7, <1>8, <1>9, <1>10, <1>11, <1>12, <1>13,
     <1>14, <1>15, <1>16, <1>17, <1>18 DEF Next, Agent, Poll, Command

\* At the beginning nothing is held and the host boots what it runs.
LEMMA FollowInit == Init => Follow
<1> SUFFICES ASSUME Init PROVE Follow
  OBVIOUS
<1>1. /\ host.entry = First /\ host.running = First /\ disk.hold = None
      /\ disk.pending = None /\ proc.pc = "idle"
  BY DEF Init, Fresh, Idle
<1> QED
  BY <1>1 DEF Follow, Steady, At, InJob, Deploying, Undoing

\* Whatever was pinned or rolled back to is what runs, also after a later pin that
\* failed or was cut short, if its rollback was not.
THEOREM HeldIsRun == Spec => []HeldRuns
<1>1. Follow => HeldRuns
  BY DEF Follow, Steady, HeldRuns, Quiet
<1> QED
  BY <1>1, TypedInit, TypedStep, PlacedStep, FollowInit, FollowStep, PTL DEF Spec

\* What boots is what runs, but for what Steady names: a rollback that failed, a
\* switch by hand, a run cut short in a rollback before the boot entry was back.
BootsUnlessHalf == Quiet /\ Steady => host.entry = host.running

\* Between runs, with no attempt to recover, nothing else parts the two: a run
\* that is cut short anywhere else is recovered with its boot entry.
THEOREM BootsRun == Spec => []BootsUnlessHalf
<1>1. Follow => BootsUnlessHalf
  BY DEF Follow, BootsUnlessHalf, Quiet
<1> QED
  BY <1>1, TypedInit, TypedStep, PlacedStep, FollowInit, FollowStep, PTL DEF Spec

-----------------------------------------------------------------------------
(* What failed.                                                            *)

\* The numbers that Marked compares.
LEMMA Dates ==
    ASSUME Typed
    PROVE  /\ \A b \in Builds : /\ past.failed[b] \in Nat
                                /\ disk.bad[b] \in Nat /\ mem.bad[b] \in Nat
           /\ \A a \in Attempt : /\ a.build \in Builds /\ a.at \in Nat /\ a # None
           /\ {disk.pending, Job} \subseteq Attempt \cup {None}
<1>1. /\ past.failed \in [Builds -> Nat]
      /\ disk.bad \in [Builds -> Nat] /\ mem.bad \in [Builds -> Nat]
  BY DEF Typed, Past, Refs, State
<1> QED
  BY <1>1, Fields

\* A step of a deployment that fails leaves its attempt to be marked.
LEMMA FailsMarked ==
    ASSUME Typed, Placed, Marked, proc.pc \in Deploying, proc'.pc = "undo",
           past' = Failing(Job), Job' = Job, UNCHANGED <<refs, disk, mem>>
    PROVE  Marked'
<1>1. disk.pending = Job /\ Job \in Attempt
  BY Fields DEF Placed, InJob
<1>2. \A b \in Builds :
         IF Covers(Job, b)
         THEN b \in past'.older \/ past'.failed[b] = Job.at
         ELSE past'.failed[b] = past.failed[b] /\ (b \in past'.older <=> b \in past.older)
  <2>1. Job # None
    BY <1>1, Dates
  <2> QED
    BY <1>1, <2>1, FailingIs DEF Covers
<1>3. Job.at \in Nat /\ Job # None
  BY <1>1, Dates
<1>4. ASSUME NEW b \in Builds \ past'.older
      PROVE  /\ past'.failed[b] <= disk.bad[b] \/ Covers(Job, b)
             /\ past'.failed[b] <= mem.bad[b] \/ Covers(Job, b)
             /\ Covers(Job, b) => past'.failed[b] <= Job.at
  BY <1>1, <1>2, <1>3 DEF Marked, Deploying, Undoing, At
<1> QED
  BY <1>1, <1>4 DEF Marked, Undoing, At

\* Whatever failed is marked before it is forgotten.
LEMMA MarkedStep == Typed /\ Placed /\ Marked /\ [Next]_vars => Marked'
<1> SUFFICES ASSUME Typed, Placed, Marked, [Next]_vars PROVE Marked'
  OBVIOUS
<1> USE DEF At
<1>0. /\ [past EXCEPT !.stuck = TRUE].failed = past.failed
      /\ [past EXCEPT !.stuck = TRUE].older = past.older
  BY DEF Typed, Past
<1>p. proc.pc \in InJob \cup {"prune", "collect"} => disk.pending = Job /\ Job # None
  BY DEF Placed
<1>1. ASSUME NEW does, NEW b, Load(does, b) PROVE Marked'
  <2>1. /\ proc.pc = "idle" /\ mem' = disk /\ UNCHANGED <<refs, disk, past>>
        /\ Job' = disk.pending
        /\ \/ proc'.pc = "decide" /\ disk.pending = None
           \/ proc'.pc \in {"undo", "undone"}
    BY <1>1, LoadIs
  <2>2. ASSUME NEW c \in Builds \ past.older
        PROVE  /\ past.failed[c] <= disk.bad[c] \/ (proc'.pc \in Undoing /\ Covers(disk.pending, c))
               /\ proc'.pc \in Undoing /\ Covers(disk.pending, c) =>
                      past.failed[c] <= disk.pending.at
    BY <2>1, <2>2 DEF Marked, Covers, Undoing
  <2> QED
    BY <2>1, <2>2 DEF Marked, Undoing
<1>2. CASE Decide
  <2>1. /\ proc.pc = "decide" /\ UNCHANGED <<refs, disk, past>> /\ mem'.bad = mem.bad
        /\ \/ proc'.pc = "finish"
           \/ /\ proc'.pc \in {"fetch", "mark"} /\ Job'.build \in Builds
              /\ Job'.trigger = "poll" => mem.bad[Job'.build] < Job'.at
    BY <1>2, DecideIs, WantedIs
  <2>2. Job'.at \in Nat \/ proc'.pc = "finish"
    BY <1>2, DecideIs DEF Attempt
  <2> QED
    BY <2>1, <2>2, Dates DEF Marked, Undoing
<1>3. CASE Fetch
  <2>1. /\ proc.pc = "fetch" /\ UNCHANGED refs /\ disk' = mem /\ Job' = Job
        /\ Job \in Attempt /\ mem.pending = None
        /\ \/ proc'.pc \in {"mark", "finish"} /\ mem' = mem /\ past' = past
           \/ /\ proc'.pc = "finish" /\ mem' = WithBad(mem, Job)
              /\ past' = Refusing(Job)
    BY <1>3, FetchIs DEF Placed
  <2>2. /\ past'.failed = past.failed /\ past.older \subseteq past'.older
        /\ past' = Refusing(Job) =>
               Job.build \in past'.older \/ past.failed[Job.build] <= Job.at
    BY <2>1, RefusingIs
  <2>3. \A b \in Builds \ past'.older : past.failed[b] <= mem.bad[b]
    BY <2>1, <2>2 DEF Marked, Undoing
  <2>4. \A b \in Builds \ past'.older : past.failed[b] <= mem'.bad[b]
    <3>1. \A b \in Builds : WithBad(mem, Job).bad[b] =
             IF Job.trigger # "rollback" /\ b = Job.build THEN Job.at ELSE mem.bad[b]
      BY <2>1, WithBadIs, Fields
    <3> QED
      BY <2>1, <2>2, <2>3, <3>1
  <2>5. Job.trigger = "poll" => Job.build \in past'.older \/ past'.failed[Job.build] < Job.at
    BY <2>1, <2>2 DEF Marked
  <2> QED
    BY <2>1, <2>2, <2>3, <2>4, <2>5 DEF Marked, Undoing, Covers
<1>4. CASE Mark
  <2>1. /\ proc.pc = "mark" /\ proc'.pc = "activate" /\ UNCHANGED <<refs, past>>
        /\ Job' = Job /\ Job \in Attempt
        /\ disk' = mem' /\ mem'.pending = Job /\ mem'.bad = mem.bad
    BY <1>4, MarkIs
  <2> QED
    BY <2>1 DEF Marked, Undoing, Covers
<1>5. CASE Activate
  <2>1. \/ proc'.pc = "undo" /\ past' = Failing(Job)
        \/ proc'.pc = "checks" /\ past' = past
    BY <1>5, ActivateIs
  <2>2. proc.pc = "activate" /\ UNCHANGED <<refs, disk, mem>> /\ Job' = Job
    BY <1>5, ActivateIs
  <2> QED
    BY <2>1, <2>2, FailsMarked DEF Marked, Undoing, Deploying
<1>6. CASE ChecksPass \/ ChecksFail
  <2>1. \/ /\ proc'.pc = "undo" /\ past' = Failing(Job) /\ Job' = Job
           /\ UNCHANGED <<disk, mem>>
        \/ /\ proc'.pc = "profile" /\ disk' = mem'
           /\ past'.failed = past.failed /\ past'.older = past.older
    BY <1>6, ChecksIs, Fields DEF Past
  <2>2. /\ proc.pc = "checks" /\ UNCHANGED refs /\ disk'.pending = Job'
        /\ disk.pending = Job /\ Job # None /\ Job'.build = Job.build /\ Job'.at = Job.at
        /\ Job'.trigger = Job.trigger /\ mem'.bad = mem.bad
    BY <1>6, <1>p, ChecksIs DEF InJob, Deploying
  <2> QED
    BY <2>1, <2>2, FailsMarked DEF Marked, Undoing, Deploying, Covers
<1>7. CASE Profile
  <2>1. \/ proc'.pc = "undo" /\ past' = Failing(Job)
        \/ proc'.pc = "entry" /\ past' = past
    BY <1>7, ProfileIs
  <2>2. proc.pc = "profile" /\ UNCHANGED <<refs, disk, mem>> /\ Job' = Job
    BY <1>7, ProfileIs
  <2> QED
    BY <2>1, <2>2, FailsMarked DEF Marked, Undoing, Deploying
<1>8. CASE Entry
  <2>1. \/ proc'.pc = "undo" /\ past' = Failing(Job) /\ UNCHANGED mem
        \/ proc'.pc = "prune" /\ past' = past
    BY <1>8, EntryIs
  <2>2. proc.pc = "entry" /\ UNCHANGED <<refs, disk>> /\ Job' = Job /\ mem'.bad = mem.bad
    BY <1>8, EntryIs
  <2> QED
    BY <2>1, <2>2, FailsMarked DEF Marked, Undoing, Deploying
<1>9. CASE Prune
  BY <1>9, PruneIs DEF Marked, Undoing
<1>10. CASE Collect
  BY <1>10, CollectIs DEF Marked, Undoing
<1>11. CASE Finish
  BY <1>11, FinishIs DEF Marked, Undoing, Covers
<1>12. CASE Undo
  BY <1>0, <1>12, UndoIs DEF Marked, Undoing
<1>13. CASE UndoProfile \/ UndoEntry
  BY <1>0, <1>13, UndoBootIs DEF Marked, Undoing
<1>14. CASE Undone
  <2>1. /\ proc.pc = "undone" /\ UNCHANGED <<refs, past>> /\ Job' = Job
        /\ Job \in Attempt /\ mem'.pending = None /\ mem'.bad = WithBad(mem, Job).bad
        /\ \/ proc'.pc = "decide" /\ disk' = mem'
           \/ proc'.pc = "finish" /\ UNCHANGED disk
        /\ disk.pending = Job /\ Job # None
    BY <1>14, <1>p, UndoneIs DEF InJob, Undoing
  <2>2. \A b \in Builds : WithBad(mem, Job).bad[b] =
           IF Job.trigger # "rollback" /\ b = Job.build THEN Job.at ELSE mem.bad[b]
    BY <2>1, WithBadIs, Fields
  <2>3. \A b \in Builds \ past.older : past.failed[b] <= mem'.bad[b]
    BY <2>1, <2>2 DEF Marked, Covers, Undoing
  <2> QED
    BY <2>1, <2>3 DEF Marked, Covers, Undoing
<1>15. ASSUME NEW b \in Builds, Publish(b) PROVE Marked'
  <2>1. UNCHANGED <<disk, mem, proc, past>> /\ Job' = Job
    BY <1>15 DEF Publish, Job
  <2> QED
    BY <2>1 DEF Marked
<1>16. ASSUME NEW b \in Builds, SwitchByHand(b) PROVE Marked'
  BY <1>16, ByHandIs DEF Marked
<1>17. CASE Kill \/ Reboot
  <2>1. /\ UNCHANGED <<refs, disk>> /\ proc'.pc = "idle"
        /\ \A b \in Builds :
              IF Covers(disk.pending, b)
              THEN b \in past'.older \/ past'.failed[b] = disk.pending.at
              ELSE /\ past'.failed[b] = past.failed[b]
                   /\ b \in past'.older <=> b \in past.older
    BY <1>17, CutIs, DiesIs
  <2>2. disk.pending # None => disk.pending.at \in Nat
    BY Dates
  <2>3. ASSUME NEW b \in Builds \ past'.older
        PROVE  /\ past'.failed[b] <= disk.bad[b] \/ Covers(disk.pending, b)
               /\ Covers(disk.pending, b) => past'.failed[b] <= disk.pending.at
    BY <2>1, <2>2 DEF Marked, Covers
  <2> QED
    BY <2>1, <2>3 DEF Marked, Undoing
<1>18. CASE UNCHANGED vars
  BY <1>18 DEF vars, Marked, Job
<1> QED
  BY <1>1, <1>2, <1>3, <1>4, <1>5, <1>6, <1>7, <1>8, <1>9, <1>10, <1>11, <1>12, <1>13,
     <1>14, <1>15, <1>16, <1>17, <1>18 DEF Next, Agent, Poll, Command

\* At the beginning nothing failed.
LEMMA MarkedInit == Init => Marked
<1> SUFFICES ASSUME Init PROVE Marked
  OBVIOUS
<1>1. /\ \A b \in Builds : past.failed[b] = 0 /\ disk.bad[b] = 0
      /\ disk.pending = None /\ proc.pc = "idle"
  BY DEF Init, Fresh, Idle
<1> QED
  BY <1>1 DEF Marked, Covers, At

\* A poll never tries a publication again that failed or was cut short, unless an
\* older publication of the same build failed or was refused since and took its
\* mark (_bad; 1336-1338 and 1560-1563): every pointer has its own date.
THEOREM FailedIsLeft == Spec => BadNotRetried
<1>1. Typed /\ Placed /\ Marked
      => (At("activate") /\ Job.trigger = "poll" =>
             Job.at > past.failed[Job.build] \/ Job.build \in past.older)
  <2> SUFFICES ASSUME Typed, Placed, Marked, At("activate"), Job.trigger = "poll"
               PROVE  Job.at > past.failed[Job.build] \/ Job.build \in past.older
    OBVIOUS
  <2>1. Job \in Attempt
    BY Fields DEF Placed, At, InJob, Deploying
  <2> QED
    BY <2>1, Dates DEF Marked, At
<1> QED
  BY <1>1, TypedInit, TypedStep, PlacedStep, MarkedInit, MarkedStep, PTL
     DEF Spec, BadNotRetried
=============================================================================
