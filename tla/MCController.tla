---------------------------- MODULE MCController ----------------------------
(* Constants for checking Controller with TLC.                             *)
EXTENDS Controller

\* Two workloads, each with checks of its own.
MCContents == {[workload |-> "web", checks |-> "a"],
               [workload |-> "api", checks |-> "b"]}
=============================================================================
