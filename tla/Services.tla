------------------------------ MODULE Services ------------------------------
(****************************************************************************)
(* The services that watch and repeat, side by side: the status of the      *)
(* hosts (HostHealth), the fires that were missed (MissedRuns), the job     *)
(* records that are compared with the sessions on the hosts (JobReconcile), *)
(* the replication of the backups (OffsiteJobs) and the restores of an      *)
(* agent (RestoreJobs).  Their models share no variable.  A behaviour is    *)
(* one of one service, chosen at the start, in which the others rest.       *)
(****************************************************************************)
EXTENDS HostHealth, MissedRuns, JobReconcile, OffsiteJobs, RestoreJobs

CONSTANTS Parts     \* the services that are looked at

AllParts == {"health", "missed", "reconcile", "offsite", "restore"}
ASSUME PartsAssumption == Parts \subseteq AllParts

VARIABLE part
servicesVars == <<part, healthVars, missedVars, reconcileVars, offsiteVars, restoreVars>>

ServicesInit ==
  /\ part \in Parts
  /\ HealthInit /\ MissedInit /\ ReconcileInit /\ OffsiteInit /\ RestoreInit
  /\ part # "offsite" => ~agentOld
  /\ part # "missed" => policy = CHOOSE p \in Policies : TRUE

ServicesNext ==
  /\ UNCHANGED part
  /\ \/ /\ part = "health" /\ HealthNext
        /\ UNCHANGED <<missedVars, reconcileVars, offsiteVars, restoreVars>>
     \/ /\ part = "missed" /\ MissedNext
        /\ UNCHANGED <<healthVars, reconcileVars, offsiteVars, restoreVars>>
     \/ /\ part = "reconcile" /\ ReconcileNext
        /\ UNCHANGED <<healthVars, missedVars, offsiteVars, restoreVars>>
     \/ /\ part = "offsite" /\ OffsiteNext
        /\ UNCHANGED <<healthVars, missedVars, reconcileVars, restoreVars>>
     \/ /\ part = "restore" /\ RestoreNext
        /\ UNCHANGED <<healthVars, missedVars, reconcileVars, offsiteVars>>

\* The fairness of each service, when it is the one that moves; nothing of the replication
\* is enabled before a backup lands, and nothing of the restores before one is taken.
PartlyFair ==
  /\ WF_healthVars(part = "health" /\ CheckStep) /\ WF_healthVars(part = "health" /\ ProbeStep)
  /\ WF_missedVars(part = "missed" /\ RecoverySteps) /\ WF_missedVars(part = "missed" /\ writeNow)
  /\ WF_missedVars(part = "missed" /\ ExecuteCall)
  /\ WF_reconcileVars(part = "reconcile" /\ HostStep)
  /\ \A r \in Runs : WF_reconcileVars(part = "reconcile" /\ (AgentAccepts(r) \/ AgentRefuses(r)))
  /\ WF_reconcileVars(part = "reconcile" /\ RemoveSaves)
  /\ \A p \in Passes : /\ WF_reconcileVars(part = "reconcile" /\ PassStep(p))
                       /\ WF_reconcileVars(part = "reconcile" /\ PassReads(p))
  /\ SF_reconcileVars(part = "reconcile" /\ SweepFails)
  /\ OffsiteFair /\ RestoreFair

ServicesSpec == ServicesInit /\ [][ServicesNext]_servicesVars /\ PartlyFair

\* The variables of the service that moves keep their ranges, and what a call holds fits its
\* step.
ServicesTypeOK ==
  CASE part = "health" -> HealthTypeOK
    [] part = "missed" -> MissedTypeOK
    [] part = "reconcile" -> ReconcileTypeOK
    [] part = "offsite" -> OffsiteTypeOK
    [] part = "restore" -> RestoreTypeOK
=============================================================================
