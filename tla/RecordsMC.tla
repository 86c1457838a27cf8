------------------------------ MODULE RecordsMC ------------------------------
(****************************************************************************)
(* Small instances for TLC of the components a job record depends on: the   *)
(* file it is kept in (FileStorage), the report that ends it                *)
(* (ControllerOutbox) and the retries that revive it (RetryLifecycle).      *)
(* Their models share no variable.  A behaviour is one of one component,    *)
(* chosen at the start, in which the others rest.                           *)
(****************************************************************************)
EXTENDS FileStorage, ControllerOutbox, RetryLifecycle

CONSTANTS Parts     \* the components that are looked at
CONSTANTS m1, m2, m3, s1, j1, j2, c1, c2

AllParts == {"storage", "outbox", "retry"}
StorageAndOutbox == {"storage", "outbox"}

None == {}
OneJob == {j1}
TwoJobs == {j1, j2}
TwoCalls == {c1, c2}
TwoMutators == {m1, m2}
ThreeMutators == {m1, m2, m3}
OneSaver == {s1}

CrashFaults == {"kill", "power", "error"}
EveryFault == FaultKinds
AnyOutage == {"down", "slow"}
DownOnly == {"down"}

VARIABLE part
recordsVars == <<part, storageVars, vars, retryVars>>

RecordsInit == part \in Parts /\ StorageInit /\ Init /\ RetryInit

RecordsNext ==
  /\ UNCHANGED part
  /\ \/ part = "storage" /\ StorageNext /\ UNCHANGED <<vars, retryVars>>
     \/ part = "outbox" /\ Next /\ UNCHANGED <<storageVars, retryVars>>
     \/ part = "retry" /\ RetryNext /\ UNCHANGED <<storageVars, vars>>

\* The fairness of each component, when it is the one that moves.
PartlyFair ==
  /\ WF_storageVars(part = "storage" /\ Boot) /\ WF_storageVars(part = "storage" /\ Step)
  /\ \A v \in Verdict :
       WF_vars(part = "outbox" /\ (PostAccepted(v) \/ PostFailed(v) \/ PostSpooled(v)))
  /\ WF_vars(part = "outbox" /\ Drain) /\ WF_vars(part = "outbox" /\ Recover)
  /\ \A c \in Calls : WF_retryVars(part = "retry" /\ RunStep(c))
  /\ \A j \in JobIds :
       /\ WF_retryVars(part = "retry" /\ ScriptEnds(j))
       /\ WF_retryVars(part = "retry" /\ EndRun(j))
       /\ WF_retryVars(part = "retry" /\ \E c \in Calls : Update(j, c))

RecordsSpec == RecordsInit /\ [][RecordsNext]_recordsVars /\ PartlyFair

\* One thing goes wrong in a behaviour of the retries, and no property speaks of
\* what follows an overlap.
OneFault ==
  /\ ~overlap
  /\ Cardinality(asked) + Cardinality(lost) + restarts + foreigns
       + (IF schedule THEN 0 ELSE 1) <= 1

\* One of the two jobs runs again.
OneRerun == reached[j1] + reached[j2] <= 3
=============================================================================
