------------------------------ MODULE MCExecutor ------------------------------
(* Constants for checking Executor with TLC.                               *)
EXTENDS Executor

Now(o) == [op |-> o, deferred |-> FALSE]
Later(o) == [op |-> o, deferred |-> TRUE]

\* Every operation first and last; a deferred claim before its consumer and
\* before a pruned workload; the delete of a swapped companion before an
\* adoption; deletes behind immediate and behind deferred rows and deletes.
MCPlans == {
    <<Later("create"), Now("apply"), Later("delete")>>,
    <<Now("delete"), Now("adopt")>>,
    <<Now("noop"), Now("replace"), Now("delete")>>,
    <<Later("delete"), Now("delete")>>}
=============================================================================
