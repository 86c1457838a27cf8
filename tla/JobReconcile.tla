----------------------------- MODULE JobReconcile -----------------------------
(***************************************************************************)
(* How the controller keeps its job records in line with the sessions that *)
(* run on a backup host.  Four passes do so: the session mirror            *)
(* (services/liveSessionMirrorService.js), the pass behind the panel       *)
(* (reconcileJobsAgainstAgents in routes/backups.js), the synchronisation  *)
(* of a host (services/agentSyncService.js) and the recovery after a start *)
(* (services/startupRecoveryService.js).  Each reads all records, asks the *)
(* agent, and commits the fields it changed (jobReconcileCommit.js) over   *)
(* whatever the records have become meanwhile: by a report of the agent,   *)
(* by another pass, by the scheduler or by an operator.  A sweep of the    *)
(* scheduler fails what stays active for too long.                         *)
(*                                                                         *)
(* One virtual machine on one host; run n is the n-th backup of it, and    *)
(* has one session.  A record is known by its id: the run's own, or the    *)
(* synthetic id (a twin) under which a session is adopted when the agent   *)
(* cannot tell the run's full id.                                          *)
(***************************************************************************)
EXTENDS Naturals, FiniteSets

CONSTANTS
  RunCount,       \* bound on the runs of the machine
  Unresolved,     \* runs whose full id the agent cannot recover
  Passes,         \* the passes that are active; the panel's only while somebody looks at it
  Overlap,        \* bound on passes under way at the same time
  MaxMishaps      \* bound on lost answers, lost job states, removals and restarts

Runs == 1 .. RunCount
AllPasses == {"mirror", "panel", "sync", "boot"}

ASSUME RunsAssumption == RunCount \in Nat \ {0} /\ Unresolved \subseteq Runs
ASSUME PassesAssumption ==
  /\ Passes \subseteq AllPasses /\ "sync" \in Passes /\ Overlap \in Nat \ {0}
  /\ MaxMishaps \in Nat

VARIABLES
  session,     \* the tmux session of each run
  exitFile,    \* <jobId>.exitcode on the host
  listed,      \* runs in the agent's active jobs, whose job state is on disk
  report,      \* the terminal report of each run
  heard,       \* runs whose report has arrived
  jobs,        \* the records of the controller
  pass,        \* where each pass is, what it read and what it made of it
  removal,     \* a force-removal under way
  mishaps

hostVars == <<session, exitFile, listed, report, heard>>
reconcileVars == <<session, exitFile, listed, report, heard, jobs, pass, removal, mishaps>>

Id == [run : Runs, twin : BOOLEAN]
Real(r) == [run |-> r, twin |-> FALSE]
Twin(r) == [run |-> r, twin |-> TRUE]

JobRec == [status : {"absent", "running", "failed", "completed"},
           exit : {"none", "zero", "nonzero"},     \* exitCode
           superseded : BOOLEAN,                   \* supersededBy is set
           unverified : BOOLEAN]                   \* unverifiedSince is set
Fresh(s, e) == [status |-> s, exit |-> e, superseded |-> FALSE, unverified |-> FALSE]
Absent == Fresh("absent", "none")

Recorded(job) == job.status # "absent"
Active(job) == job.status = "running"     \* queued and retrying are folded into running
NoJobs == [i \in Id |-> Absent]

Steps == {"idle", "sync", "resurrect", "adopt", "status", "ask", "commit", "sweep", "save"}
Idle == [at |-> "idle", before |-> NoJobs, after |-> NoJobs, over |-> {}]
NoRemoval == [on |-> FALSE, id |-> Real(1), stale |-> NoJobs]

ReconcileTypeOK ==
  /\ session \in [Runs -> {"unborn", "asked", "alive", "lingers", "over"}]
  /\ exitFile \in [Runs -> {"none", "zero", "nonzero"}]
  /\ listed \subseteq Runs
  /\ report \in [Runs -> {"none", "zero", "nonzero"}] /\ heard \subseteq Runs
  /\ jobs \in [Id -> JobRec]
  /\ pass \in [Passes -> [at : Steps, before : [Id -> JobRec], after : [Id -> JobRec],
                         over : SUBSET Runs]]
  /\ removal \in [on : BOOLEAN, id : Id, stale : [Id -> JobRec]]
  /\ mishaps \in 0 .. MaxMishaps
  /\ \A i \in Id : i.twin => ~Recorded(jobs[i]) \/ jobs[i].exit # "zero"
  /\ \A p \in Passes : pass[p].at = "idle" => pass[p] = Idle

ReconcileInit ==
  /\ session = [r \in Runs |-> "unborn"] /\ exitFile = [r \in Runs |-> "none"]
  /\ listed = {} /\ report = [r \in Runs |-> "none"] /\ heard = {}
  /\ jobs = NoJobs /\ pass = [p \in Passes |-> Idle] /\ removal = NoRemoval
  /\ mishaps = 0

Mishap == mishaps < MaxMishaps /\ mishaps' = mishaps + 1

-----------------------------------------------------------------------------
(* The scheduler starts runs *)

\* Mutant: a session that has ended is still found.
LiveForever(r) == session[r] \in {"alive", "lingers", "over"}

Live(r) == session[r] \in {"alive", "lingers"}

\* executeScheduledBackup: no record is created while the machine has an active one.
SchedulerCreates(r) ==
  /\ session[r] = "unborn" /\ \A q \in 1 .. r - 1 : session[q] # "unborn"
  /\ \A i \in Id : ~Active(jobs[i])
  /\ jobs' = [jobs EXCEPT ![Real(r)] = Fresh("running", "none")]
  /\ session' = [session EXCEPT ![r] = "asked"]
  /\ UNCHANGED <<exitFile, listed, report, heard, pass, removal, mishaps>>

Fails(i) == jobs' = [jobs EXCEPT ![i] = IF Active(@) THEN Fresh("failed", "none") ELSE @]

\* The agent accepts the request; when its answer is lost the scheduler fails the job.
AgentAccepts(r) ==
  /\ session[r] = "asked" /\ \A q \in Runs : ~Live(q)
  /\ session' = [session EXCEPT ![r] = "alive"] /\ listed' = listed \cup {r}
  /\ \/ UNCHANGED <<jobs, mishaps>>
     \/ Mishap /\ Fails(Real(r))
  /\ UNCHANGED <<exitFile, report, heard, pass, removal>>

\* The machine is locked by another run; a check beforehand may have removed the record.
AgentRefuses(r) ==
  /\ session[r] = "asked" /\ \E q \in Runs : Live(q)
  /\ session' = [session EXCEPT ![r] = "over"]
  /\ Fails(Real(r)) \/ jobs' = [jobs EXCEPT ![Real(r)] = Absent]
  /\ UNCHANGED <<exitFile, listed, report, heard, pass, removal, mishaps>>

-----------------------------------------------------------------------------
(* The host *)

\* The shell records the exit code, and its session lingers for a moment.
ScriptExits(r) ==
  /\ session[r] = "alive"
  /\ session' = [session EXCEPT ![r] = "lingers"]
  /\ \E e \in {"zero", "nonzero"} : exitFile' = [exitFile EXCEPT ![r] = e]
  /\ UNCHANGED <<listed, report, heard, jobs, pass, removal, mishaps>>

SessionCloses(r) ==
  /\ session[r] = "lingers"
  /\ session' = [session EXCEPT ![r] = "over"]
  /\ UNCHANGED <<exitFile, listed, report, heard, jobs, pass, removal, mishaps>>

\* A session that is killed leaves no exit code.
SessionKilled(r) ==
  /\ session[r] = "alive"
  /\ session' = [session EXCEPT ![r] = "over"]
  /\ UNCHANGED <<exitFile, listed, report, heard, jobs, pass, removal, mishaps>>

\* monitorTmuxSession reads the exit code and deletes the file and the job state, before
\* it reports.
MonitorEnds(r) ==
  /\ r \in listed /\ session[r] = "over"
  /\ listed' = listed \ {r}
  /\ exitFile' = [exitFile EXCEPT ![r] = "none"]
  /\ report' = [report EXCEPT ![r] = IF exitFile[r] = "zero" THEN "zero" ELSE "nonzero"]
  /\ UNCHANGED <<session, heard, jobs, pass, removal, mishaps>>

\* POST /jobs/:id/update: the report decides, whatever the record was.
ReportArrives(r) ==
  /\ report[r] # "none" /\ r \notin heard /\ Recorded(jobs[Real(r)])
  /\ jobs' = [jobs EXCEPT ![Real(r)].status = IF report[r] = "zero" THEN "completed" ELSE "failed",
                          ![Real(r)].exit = report[r]]
  /\ heard' = heard \cup {r}
  /\ UNCHANGED <<session, exitFile, listed, report, pass, removal, mishaps>>

\* The agent restarts and has no state of the run any more: nobody will report it.
AgentForgets(r) ==
  /\ r \in listed /\ Mishap
  /\ listed' = listed \ {r}
  /\ UNCHANGED <<session, exitFile, report, heard, jobs, pass, removal>>

-----------------------------------------------------------------------------
(* What the passes make of the answers of the agent *)

\* getJobLiveStatus and its batch.  A run whose job state is on disk lives as long as any
\* session of its machine does; if it left no exit code it is judged by the lock and progress
\* files: it was "orphaned", got to its end ("inferred") or is "unclear".  Without any trace a
\* job is "unknown".
Guesses == {"orphaned", "inferred", "unclear"}
LiveStatus(i, guess) ==
  LET r == i.run IN
  IF \/ Live(r) /\ (i.twin \/ exitFile[r] = "none")
     \/ ~i.twin /\ r \in listed /\ \E q \in Runs : Live(q)
  THEN "running"
  ELSE CASE ~i.twin /\ exitFile[r] = "zero"    -> "completed"
         [] ~i.twin /\ exitFile[r] = "nonzero" -> "failed"
         [] ~i.twin /\ r \in listed /\ exitFile[r] = "none" -> guess
         [] OTHER -> "unknown"

\* What a verdict makes of a record; the exit code is only taken over, never inferred.
Completed(job, verdict) ==
  [job EXCEPT !.status = "completed", !.exit = IF verdict = "completed" THEN "zero" ELSE @]
Failed(job, verdict) ==
  [job EXCEPT !.status = "failed", !.exit = IF verdict = "failed" THEN "nonzero" ELSE @]

\* Mutant: a job without a trace was a success.
syncAssumesSuccess(read) ==
  [i \in Id |->
     IF ~Active(read[i]) \/ (~i.twin /\ i.run \in listed) THEN read[i]
     ELSE LET live == LiveStatus(i, "unclear") IN
          CASE live = "running" -> read[i]
            [] live = "failed"  -> Failed(read[i], live)
            [] OTHER -> Completed(read[i], "completed")]

\* syncJobStatusWithAgent, for every running record the agent does not list
syncJobStatusWithAgent(read) ==
  [i \in Id |->
     IF ~Active(read[i]) \/ (~i.twin /\ i.run \in listed) THEN read[i]
     ELSE LET live == LiveStatus(i, "unclear") IN
          CASE live = "running"   -> read[i]
            [] live = "completed" -> Completed(read[i], live)
            [] OTHER -> Failed(read[i], live)]

\* Mutant: the test of the exit code is the wrong way round.
RevivableOnVerdict(job) == job.status = "failed" /\ ~job.superseded /\ job.exit # "none"

Revivable(job) == job.status = "failed" /\ ~job.superseded /\ job.exit = "none"

\* resurrectRunningFailedJobs: a failed record whose session is found by its id
resurrectRunningFailedJobs(read) ==
  [i \in Id |-> IF Revivable(read[i]) /\ Live(i.run)
                THEN [read[i] EXCEPT !.status = "running"] ELSE read[i]]

\* A record cannot own a session that is older than it is.
CouldOwn(job, i, r) == Active(job) /\ i.run <= r

\* adoptLiveTmuxSessions, for the session of run r: revive the record of the run, leave
\* the session to an active record of the machine, or make a record for it.
Adopting(read, r) ==
  LET owner == IF Recorded(read[Real(r)]) THEN Real(r) ELSE Twin(r) IN
  CASE Revivable(read[owner]) -> [read EXCEPT ![owner].status = "running"]
    [] ~Recorded(read[owner]) /\ (\A i \in Id : ~CouldOwn(read[i], i, r)) ->
         [read EXCEPT ![IF r \in Unresolved THEN Twin(r) ELSE Real(r)] = Fresh("running", "none")]
    [] OTHER -> read

adoptLiveTmuxSessions(read) ==
  IF \E r \in Runs : Live(r) THEN {Adopting(read, r) : r \in {q \in Runs : Live(q)}} ELSE {read}

\* dedupeActiveBackupJobs: of several active records the latest stays.
dedupeActiveBackupJobs(read) ==
  [i \in Id |->
     IF Active(read[i]) /\ \E j \in Id : Active(read[j]) /\ j.run > i.run
     THEN [read[i] EXCEPT !.status = "failed", !.superseded = TRUE] ELSE read[i]]

\* _applyLiveStatusToBackupJob: a failure with an exit code changes no status, and a job
\* without a trace is marked, and fails when the mark is older than a grace period.
Verified(read, guess, given_up) ==
  [i \in Id |->
     LET live == LiveStatus(i, guess) IN
     IF ~Active(read[i]) THEN read[i]
     ELSE CASE live = "running"                     -> [read[i] EXCEPT !.unverified = FALSE]
            [] live \in {"completed", "inferred"}   -> Completed(read[i], "inferred")
            [] live = "orphaned"                    -> Failed(read[i], live)
            [] live = "unknown" /\ ~read[i].unverified -> [read[i] EXCEPT !.unverified = TRUE]
            [] live = "unknown" /\ read[i].unverified /\ given_up -> Failed(read[i], live)
            [] OTHER -> read[i]]

\* recoverBackupJobs: no answer and no trace are taken for an interruption, with exit code 1.
recoverBackupJobs(read, guess, answered) ==
  [i \in Id |->
     LET live == IF answered THEN LiveStatus(i, guess) ELSE "unknown" IN
     CASE ~Active(read[i]) \/ live = "running"   -> read[i]
       [] Active(read[i]) /\ live \in {"completed", "inferred"} -> Completed(read[i], live)
       [] Active(read[i]) /\ live = "orphaned"   -> Failed(read[i], live)
       [] OTHER -> Failed(read[i], "failed")]

-----------------------------------------------------------------------------
(* commitJobChanges: the fields a pass changed, over the records as they are now *)

Patched(now, was, is) ==
  [f \in DOMAIN now |-> IF is[f] # was[f] THEN is[f] ELSE now[f]]

\* Mutant: an adopted record is inserted whatever happened meanwhile.
canInsertAlways(i) == i \in Id

\* canInsertAdoptedJob: nobody recorded the run, or an owner of its session, meanwhile.
canInsertAdoptedJob(i) ==
  \A j \in Id \ {i} : Recorded(jobs[j]) => j.run # i.run /\ ~CouldOwn(jobs[j], j, i.run)

commitJobChanges(before, after) ==
  jobs' = [i \in Id |->
    CASE Recorded(before[i]) /\ Recorded(jobs[i]) -> Patched(jobs[i], before[i], after[i])
      [] ~Recorded(before[i]) /\ Recorded(after[i]) /\ ~Recorded(jobs[i])
           /\ canInsertAdoptedJob(i) -> after[i]
      [] OTHER -> jobs[i]]

-----------------------------------------------------------------------------
(* The passes *)

FirstStep == [mirror |-> "adopt", panel |-> "sync", sync |-> "adopt", boot |-> "ask"]

\* A pass starts with all records; over: the runs that had ended by then,
\* which the agent notices within seconds.
Starting(p) == [at |-> FirstStep[p], before |-> jobs, after |-> jobs,
                over |-> IF p = "sync" THEN {r \in Runs \ listed : session[r] = "over"} ELSE {}]

UnderWay == {p \in Passes : pass[p].at # "idle"}
StepAfterAdopt == [mirror |-> "commit", panel |-> "commit", sync |-> "status", boot |-> "commit"]

elsewhere == UNCHANGED <<session, exitFile, listed, report, heard, removal>>

PassReads(p) ==
  /\ p \in Passes \ {"boot"} /\ pass[p].at = "idle" /\ Cardinality(UnderWay) < Overlap
  /\ pass' = [pass EXCEPT ![p] = Starting(p)]
  /\ UNCHANGED <<jobs, mishaps>> /\ elsewhere

StepTo(p, next, made) ==
  /\ pass' = [pass EXCEPT ![p].at = next, ![p].after = made]
  /\ UNCHANGED jobs

\* An agent that does not answer fails what has been running for two hours.
PanelSyncs ==
  \E p \in Passes :
    /\ pass[p].at = "sync"
    /\ \/ StepTo(p, "resurrect", syncJobStatusWithAgent(pass[p].after)) /\ UNCHANGED mishaps
       \/ /\ Mishap
          /\ StepTo(p, "resurrect",
                    [i \in Id |-> IF Active(pass[p].after[i])
                                  THEN [pass[p].after[i] EXCEPT !.status = "failed"]
                                  ELSE pass[p].after[i]])
    /\ elsewhere

PanelResurrects ==
  \E p \in Passes :
    /\ pass[p].at = "resurrect"
    /\ StepTo(p, "adopt", resurrectRunningFailedJobs(pass[p].after))
    /\ UNCHANGED mishaps /\ elsewhere

PassAdopts(p) ==
  /\ pass[p].at = "adopt"
  /\ \E made \in adoptLiveTmuxSessions(pass[p].after) :
       StepTo(p, StepAfterAdopt[p], IF p = "panel" THEN dedupeActiveBackupJobs(made) ELSE made)
  /\ UNCHANGED mishaps /\ elsewhere

\* Without an answer only what was adopted is committed.
SyncVerifies ==
  \E p \in Passes :
    /\ pass[p].at = "status"
    /\ \/ /\ \E guess \in Guesses, given_up \in BOOLEAN :
               StepTo(p, "commit", Verified(pass[p].after, guess, given_up))
          /\ UNCHANGED mishaps
       \/ StepTo(p, "commit", pass[p].after) /\ Mishap
    /\ elsewhere

BootAsks ==
  \E p \in Passes :
    /\ pass[p].at = "ask"
    /\ \E guess \in Guesses, answered \in BOOLEAN :
         /\ StepTo(p, "commit", recoverBackupJobs(pass[p].after, guess, answered))
         /\ IF answered THEN UNCHANGED mishaps ELSE Mishap
    /\ elsewhere

PassCommits(p) ==
  /\ pass[p].at = "commit"
  /\ commitJobChanges(pass[p].before, pass[p].after)
  /\ pass' = [pass EXCEPT ![p] = IF p = "sync" THEN [Idle EXCEPT !.at = "sweep", !.over = pass[p].over]
                                              ELSE Idle]
  /\ UNCHANGED mishaps /\ elsewhere

\* failStuckJobsOnHost follows the synchronisation: it fails jobs that are long over and
\* still active, and saves all records; there may be none that is old enough.
Stuck == {i \in Id : Active(jobs[i]) /\ i.run \in pass["sync"].over}

SweepPasses ==
  /\ pass["sync"].at = "sweep"
  /\ pass' = [pass EXCEPT !["sync"] = Idle]
  /\ UNCHANGED <<jobs, mishaps>> /\ elsewhere

SweepFails ==
  /\ pass["sync"].at = "sweep" /\ Stuck # {}
  /\ pass' = [pass EXCEPT !["sync"] =
       [Idle EXCEPT !.at = "save",
                    !.after = [i \in Id |-> IF i \in Stuck THEN [jobs[i] EXCEPT !.status = "failed"]
                                                           ELSE jobs[i]]]]
  /\ UNCHANGED <<jobs, mishaps>> /\ elsewhere

SweepSaves ==
  /\ pass["sync"].at = "save"
  /\ jobs' = pass["sync"].after
  /\ pass' = [pass EXCEPT !["sync"] = Idle]
  /\ UNCHANGED mishaps /\ elsewhere

\* The controller restarts: what was under way is gone, and the recovery reads the records.
ControllerRestarts ==
  /\ "boot" \in Passes /\ Mishap
  /\ pass' = [p \in Passes |-> IF p = "boot" THEN Starting(p) ELSE Idle]
  /\ removal' = NoRemoval
  /\ UNCHANGED jobs /\ UNCHANGED hostVars

-----------------------------------------------------------------------------
(* DELETE /jobs/:jobId/force: read all records, try to kill the run, save all records *)

RemoveReads(i) ==
  /\ ~removal.on /\ Mishap /\ Recorded(jobs[i])
  /\ removal' = [on |-> TRUE, id |-> i, stale |-> jobs]
  /\ \/ UNCHANGED session
     \/ /\ Active(jobs[i]) /\ ~i.twin /\ session[i.run] = "alive"
        /\ session' = [session EXCEPT ![i.run] = "over"]
  /\ UNCHANGED <<exitFile, listed, report, heard, jobs, pass>>

RemoveSaves ==
  /\ removal.on
  /\ jobs' = [removal.stale EXCEPT ![removal.id] = Absent]
  /\ removal' = NoRemoval
  /\ UNCHANGED <<pass, mishaps>> /\ UNCHANGED hostVars

-----------------------------------------------------------------------------

HostStep == \E r \in Runs : SessionCloses(r) \/ MonitorEnds(r) \/ ReportArrives(r)
PassStep(p) ==
  \/ PassReads(p) \/ PassAdopts(p) \/ PassCommits(p)
  \/ p = "panel" /\ (PanelSyncs \/ PanelResurrects)
  \/ p = "sync" /\ (SyncVerifies \/ SweepPasses \/ SweepFails \/ SweepSaves)
  \/ p = "boot" /\ BootAsks

ReconcileNext ==
  \/ HostStep \/ ControllerRestarts \/ RemoveSaves
  \/ \E r \in Runs : \/ SchedulerCreates(r) \/ AgentAccepts(r) \/ AgentRefuses(r)
                     \/ ScriptExits(r) \/ SessionKilled(r) \/ AgentForgets(r)
  \/ \E p \in Passes : PassStep(p)
  \/ \E i \in Id : RemoveReads(i)

\* The passes are repeated, whatever the bound on their overlap, what stays active is old
\* enough in the end, and the agent answers the scheduler and reports.
ReconcileSpec ==
  /\ ReconcileInit /\ [][ReconcileNext]_reconcileVars
  /\ WF_reconcileVars(HostStep)
  /\ \A r \in Runs : WF_reconcileVars(AgentAccepts(r) \/ AgentRefuses(r))
  /\ WF_reconcileVars(RemoveSaves)
  /\ \A p \in Passes : WF_reconcileVars(PassStep(p)) /\ WF_reconcileVars(PassReads(p))
  /\ SF_reconcileVars(SweepFails)

-----------------------------------------------------------------------------
(* Properties *)

\* A session is tracked once: the snapshots two passes worked on, and a record that was
\* created, removed or adopted meanwhile, never leave two active records of one run.
TrackedOnce == \A r \in Runs : ~(Active(jobs[Real(r)]) /\ Active(jobs[Twin(r)]))

\* An inferred completion never masquerades as one the script confirmed: a record carries
\* exit code zero only if the script of its run left with it, whatever was lost, guessed or
\* patched over the record, and an adopted twin is never completed.
NeverFalselyGreen ==
  \A r \in Runs :
    /\ jobs[Real(r)].exit = "zero" => exitFile[r] = "zero" \/ report[r] = "zero"
    /\ jobs[Twin(r)].status # "completed"

\* No zombie stays in the list: when the sessions are over, every record settles for good,
\* also when a stale commit or a stale save had put it back to running.
RecordsSettle ==
  \A r \in Runs :
    <>[](session[r] = "over") => <>[](~Active(jobs[Real(r)]) /\ ~Active(jobs[Twin(r)]))

\* A session that stays alive is shown, unless a record of it was finalised as a duplicate
\* or was given an exit code.
LiveIsShown ==
  \A r \in Runs :
    <>[](session[r] = "alive") =>
      <>[](\/ \E i \in Id : Active(jobs[i])
           \/ \E i \in {Real(r), Twin(r)} : jobs[i].superseded \/ jobs[i].exit # "none")

\* Concurrent writers keep their changes: a success the agent reported is not taken back.
VerdictStands ==
  [][\A r \in heard : report[r] = "zero" /\ jobs[Real(r)].status = "completed" =>
       jobs'[Real(r)].status \in {"completed", "absent"}]_reconcileVars
=============================================================================
