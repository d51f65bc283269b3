---------------------------- MODULE MCStateStore ----------------------------
(* Constants for checking StateStore with TLC.                             *)
EXTENDS StateStore, TLC

CONSTANTS r1, r2

MCRunners == {r1, r2}
MCOneRunner == {r1}

\* A snapshot with an odd number of edits needs two chunks, the others one:
\* a push replaces a longer generation by a shorter one and the reverse.
MCChunkCount ==
    [s \in Snapshots |-> IF Cardinality(s) % 2 = 1 THEN 2 ELSE 1]

\* Everywhere but between unpack()'s removal of the old files and its writing
\* of the new ones.
MCCrashPoints == Labels \ {"rewrite"}
MCAnywhere == Labels

Symmetry == Permutations(Runners)
=============================================================================
