-------------------------- MODULE AgentExecutorMC --------------------------
(* Small instances of AgentExecutor for TLC. *)
EXTENDS AgentExecutor, TLC

CONSTANTS j1, j2, v1, v2

TwoVMs == {v1, v2}
TwoJobs == {j1, j2}
SameVM == [j \in TwoJobs |-> v1]
Symmetry == Permutations(TwoJobs)
\* One of the two jobs is retried.
OneRetry == runs[j1] + runs[j2] <= 3
OwnVM == [j \in TwoJobs |-> IF j = j1 THEN v1 ELSE v2]
=============================================================================
