----------------------------- MODULE MCNodeJobs -----------------------------
(***************************************************************************)
(* Instances of NodeJobs.                                                  *)
(***************************************************************************)
EXTENDS NodeJobs

CONSTANTS n1, n2

MCNodeSeq == <<n1, n2>>

\* One executor and a fault, or a second executor and none.
PrePullBudgets == {[execs |-> 1, faults |-> 1], [execs |-> 2, faults |-> 0]}

\* One executor and a fault.
TimeoutBudgets == {[execs |-> 1, faults |-> 1]}
=============================================================================
