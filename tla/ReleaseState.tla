---------------------------- MODULE ReleaseState ----------------------------
(***************************************************************************)
(* What piceli/state promises to its callers: one value per release that   *)
(* is always readable, replaced as a whole and only by the runner that     *)
(* owns the lock, and that only grows: a new value holds everything the    *)
(* previous ones recorded.                                                 *)
(***************************************************************************)
EXTENDS Integers

CONSTANTS Runners, NoRunner, Entries

VARIABLES owner, term, value, version

vars == <<owner, term, value, version>>

Init ==
    /\ owner = NoRunner
    /\ term = 0
    /\ value = {}
    /\ version = 0

\* The lock is free, or its owner is presumed dead.
Take(r) ==
    /\ owner' = r
    /\ term' = term + 1
    /\ UNCHANGED <<value, version>>

Free(r) ==
    /\ owner = r
    /\ owner' = NoRunner
    /\ UNCHANGED <<term, value, version>>

Write(r) ==
    /\ owner = r
    /\ value' \in {v \in SUBSET Entries : value \subseteq v}
    /\ version' = version + 1
    /\ UNCHANGED <<owner, term>>

Next == \E r \in Runners : Take(r) \/ Free(r) \/ Write(r)

Spec == Init /\ [][Next]_vars
=============================================================================
