# Formal models of the KVM backup manager

TLA+ models of the controller and the agents of the KVM backup manager, the TLC
configurations that check them on small instances, and proofs for TLAPS. The
source is in `src/`; `PROJECT.json` lists which lines each definition stands for.

## 1. The system

A **controller** (`src/controller-backend`, Node.js and Express) keeps hosts, virtual
machines, schedules and job records in JSON files, fires schedules with node-cron,
and asks agents for backups over HTTP. An **agent** (`src/agent-backend`) runs on every
backup host: it starts `Backup_Manager.sh` in a tmux session per job, watches the
session and posts the progress and the outcome back. Both are single threads, but
every handler awaits files, commands and requests, and several handlers are under way
at once; both may be killed between any two of their steps, while the tmux sessions
live on.

| Component | State | Operations | Talks to |
|---|---|---|---|
| File storage (`fileStorage.js`) | one JSON file each, its `.bak`, its `.tmp`, a promise queue per file | `readJSON`, `writeJSON`, `mutateJSON`, `initializeDataFiles` | called by every part of the controller |
| Scheduler (`schedulerService.js`) | cron tasks, retry timers, a lock per host, job records | fire, collision check, queue and drain, trigger, retry, defer, cancel, catch up | storage; agents; the report handler |
| Report and job routes (`routes/backups.js`) | job records | update, kill, manual backup, manual retry, force remove, synchronise one job | storage; scheduler; agents |
| Reconciliation (`agentSyncService.js`, `liveSessionMirrorService.js`, `liveSessionAdoption.js`, `startupRecoveryService.js`, the pass in `routes/backups.js`) | job records, through `jobReconcileCommit.js` | ask live status, commit differences, adopt unknown sessions, sweep stuck jobs | agents; storage |
| Missed runs (`missedRunService.js`, `heartbeatService.js`, the scheduler's catch-up) | the heartbeat file; job records | recover after an outage, catch up, record what was dropped | scheduler; storage |
| Host health (`healthCheckService.js`, the scheduler's check, `routes/backupHosts.js`) | the status and failure counts of the hosts | probe, count strikes, save, retry skipped runs | agents; storage |
| Agent executor (`backupExecutor.js`) | queue, active jobs, a lock per machine, monitors; state files, exit codes, tmux sessions | accept, start, monitor, kill, recover | tmux and the script; reports |
| Reports and outbox (`updateController`, `controllerOutbox.js`) | inline attempts; a spool in memory and on disk | post, retry, spool, drain | controller |
| Live status (`liveStatusService.js`) | none of its own | verdict from sessions, processes, files | controller |
| Offsite replication (`offsiteJobService.js`, `replicationCheckService.js`, `rsyncExecutor.js`, `Rsync_Manager.sh`) | offsite jobs, the drain in flight; state files and tmux sessions of the agent | request, drain, launch, monitor, report, follow up, reconcile, cancel, retry, re-arm | storage; agents |
| Restore (`routes/restore.js`, `restoreExecutor.js`, `Restore_Manager.sh`) | records; state and progress files, monitors, tmux sessions of the agent | trigger, monitor, kill, recover, clean up | tmux and the script; reports |
| Cycle, retention, configuration sync | records | periodic work | storage, agents |
| Authentication, certificates, audit, notifications, metrics, reports, frontend | records of their own | observe | read only |

What is hard, and what has to be right:

- **Crashes.** A data file must hold every acknowledged update whatever step a kill or
  a power loss hits. An agent that accepted a job must report an outcome for it even if
  it is restarted while the job is queued, starting, running or ending.
- **Interleavings at awaits.** A handler reads the job array, awaits an agent, and saves
  the array: everything recorded in between is lost. Two recovery loops, a monitor and a
  kill work on one session. The status `retrying` is decided in one place and the timer
  that makes it true in another.
- **Delivery.** Reports are retried, spooled and delivered late, twice, or not at all; a
  request may be carried out although its answer is lost.
- **Identity.** A retry reuses the id of its job: exit codes, logs and reports of an
  earlier run must not decide about a later one.
- **Periodic passes.** Four passes compare the records with the sessions, three writers set the
  status of a host, three paths may start one occurrence of a schedule. Each acts on what it read
  before it asked somebody.
- **Progress.** Queues must drain, a busy machine may only delay a retry, and every job
  must settle.

What makes each component correct:

- *File storage:* an acknowledged update survives; a rejected one leaves nothing; no call blocks
  the queue of a file.
- *Scheduler:* a host never runs more than its limit; a job is sent once; what waits is started or
  ended; an announced retry comes, within the budget; a cancelled job never runs again.
- *Report and job routes:* the last outcome of a job wins, and a completed job stays completed.
- *Recovery and reconciliation:* no report is undone; a run has one active record; a run that ended
  is settled.
- *Agent executor:* an accepted job is never forgotten; one script per machine; a failure is never
  reported as a success; every job gets one verdict.
- *Reports and outbox:* every outcome arrives; those of a job in order, which the code does not keep (see 3).
- *Live status:* a verdict is about the run that was asked about.
- *Offsite replication:* a machine has one active sync; a completed sync has copied what it was
  requested for; every backup is copied in the end.
- *Restore:* the verdict is what the script left behind, and every restore gets one.
- *Host health:* the status of a host becomes right and stays right.
- *Missed runs:* an occurrence is started or recorded, not dropped silently, and not started again and
  again.
- *Cycle, retention:* a cycle never deletes the full backup its increments need.

`PROJECT.json` lists the hazards at their lines and the properties that watch them.

## 2. Modules

| Module | Models | Extends / uses |
|---|---|---|
| `AtomicStore` | what a data file promises: one value, updated in single steps | |
| `FileStorage` | one JSON file: queue, read with recovery, atomic write, startup | refines `AtomicStore` |
| `ControllerOutbox` | terminal reports of an agent, spool, drain, the link | |
| `AgentExecutor` | jobs at one agent: lock, queue, tmux session, monitors, recovery | |
| `RetryLifecycle` | one schedule and its machine: fire, request, report, retry, kill, restart | |
| `HostSlots` | the concurrency slots of one host: fires, queue, drain, manual backups, periodic pass | |
| `JobReconcile` | the job records of one machine against the sessions on its host: four passes, reports, sweep | |
| `MissedRuns` | one schedule over time: cron, heartbeat, recovery after an outage, catch-up | |
| `HostHealth` | the status of the hosts and its three writers | |
| `OffsiteJobs` | the sync jobs of one backup host, the agent that carries them out, the check | |
| `RestoreJobs` | the restores of an agent: trigger, monitors, kill, recovery, script | |
| `RecordsMC` | `FileStorage`, `ControllerOutbox` and `RetryLifecycle` side by side, for TLC | |
| `Services` | `HostHealth`, `MissedRuns`, `JobReconcile`, `OffsiteJobs` and `RestoreJobs` side by side | extends the five |
| `ServicesMC` and the other `…MC` | small instances and constraints for TLC | |
| `Records_proofs` | theorems about `FileStorage` and `ControllerOutbox` | TLAPS |
| `Transfers_proofs` | theorems about `OffsiteJobs` and `RestoreJobs` | TLAPS |
| `Services_proofs` | theorems about `HostHealth` and `Services` | the proofs of the other four services |
| other `…_proofs` | theorems about the module they are named after | TLAPS |

`RecordsMC` and `Services` put models that share no variable into one instance: a behaviour is one
of one component, chosen in the initial state by `part`, and the others rest. Their properties are
those of the components; what composes is the running of TLC, not the state. That is why names of
definitions differ between those modules (`StorageTypeOK`, `RetryTypeOK`, `RestoreEnds`, …).

The models meet at three places. The verdicts `AgentExecutor` tells (`told`) are what
`ControllerOutbox` delivers, and what arrives there is the `mail` of `RetryLifecycle`;
each model makes the other side as free as the other model shows it to be (a failure
whose only report is a "repeat", a report that waits). The updates of job records in
`RetryLifecycle` are single steps where the code uses `mutateJSON`, and a read and a
later save of the whole array where it does not: the same two kinds of client
`FileStorage` has (`Mutators`, `Savers`). And the window in `JobReconcile` between the deletion of an exit
code and the arrival of the report is the end of a run in `AgentExecutor` and an outbox that may wait.

An action is the code between two awaits. Where a handler awaits, it is split, and
what it holds across the await (an array, an item of a snapshot, an entry) is kept in
the state. Names of actions are the names of the functions where one function is one
action.

### FileStorage

State: the three files, what of them has reached the platters, the queue of calls,
where the current file operation is (`stage`) and what it has in memory. A file's
content is the set of updates it holds. A write is `StartWrite`, `OpenTemp`,
`SyncTemp`, `BeginRotate`, `EndRotate`, `Rename`, each of which can fail; a reader of a
damaged file repairs it (`BeginMend`, `EndMend`), and may be refused (`ReadError`); a boot
is `BootRestore`, `BootRestored`, `BootCreate` and so on. Faults are chosen by a constant: a
kill leaves what was written, a power loss undoes what was not flushed, a refused write,
rotation or copy raises an error, and a file can be damaged at rest. The directory is never
flushed, so a power loss may also undo a rename, and with it updates that were acknowledged:
`undone` remembers those, and `forfeited` those whose only copy a fault destroyed.

### ControllerOutbox

The n-th outcome of a job is verdict n. `BackupEnds` begins the inline attempts of
`updateController`; `PostAccepted`, `PostFailed` and `PostSpooled` are what can become
of one. `enqueue` keeps the newest entry of a job and drops the oldest entry of a full
spool; `persist` writes the file; `drain` sends a snapshot of the spool in order and stops
at the first failure. The link is up, down, or so slow that a request given up by its
sender is applied later (`LateArrival`). `Restart`, `Crash` and `Shutdown` differ in what
they write first. The next run of a job may end while the verdict of the one before is still on
its way: the controller runs a job again after a lost answer, a timeout or a reconciliation.

### AgentExecutor

A job stands for its tmux session, whose name contains the job's id. `queueBackup`
accepts or refuses a job (a stale lock is probed first); `processQueue` starts the next
one under the limit; `NewSession`, `Started` and `StartFailed` are the awaits of
`executeBackup`; `Tick` is one interval of `monitorTmuxSession` and `EndFailed` what it
does after it has killed the session of a failed run. The end of a run comes in the code's order:
`EndRun` frees the slot and tells the verdict, and the queue moves when `updateController` is
through (`Reported`). `CheckBegin`, `LookUp` and
`Resolve` are the loop over state files that both the recovery at the start and the
periodic check run; they may re-attach, infer an outcome from files, or wait. What is inferred
(`Inferred`) follows the exit code if there is one and else the log, in which every retry finds the
words of a success. `lostCode` remembers the jobs whose exit code a monitor had removed when the
agent stopped. A monitor
records which job it works for, which session it watches and who started it, because
two of them can watch one session. Handing a verdict to `updateController` is the end
of this model.

Left out: `reattachToJob` for scripts outside tmux, the process-id fallback, progress
parsing, the script's own lock file, and more than one overlapping pass per loop.

### RetryLifecycle

A handler, a request and a timer are each a *call*: where it waits, for which job and
attempt, and the array of jobs it has read. `executeScheduledBackup` makes the record
(or a skipped one, or none when the machine has an active job), `CheckStatus` asks the
host, `Accept` and `Answered` are the two ends of the request, `Busy` the refusal with
409, `Unreachable` and `Unanswered` what else can become of it. `FailRead` and
`FailSave` are the catch blocks, `handleScheduledBackupFailure`, `Arm`, `TimerFires`,
`Due`, `Lapse`, `retryExistingJob`, `Rerun` and `Defer` the retry. The agent runs one
job of the machine at a time, records an exit code (`ScriptEnds`), deletes it and
reports (`EndRun`). `Update` is the report handler, one atomic update. `Kill`,
`KillAtAgent` and `KillSave` are the kill route, `recoverBackupJobs` the recovery that
runs ten seconds after a restart.

Abstractions: the host has room for every backup (limit 0, so nothing is queued; see
`HostSlots`); the
offsite branch of the report handler, storage pools and adopted sessions are left out;
a schedule is read together with the jobs when a timer is due; a recovery asks the
agents and commits in one step; a request under way when the controller restarts is
dropped; the reports of a job arrive in order (which the outbox does not keep after an outage, see 3).

### HostSlots

Every schedule of the model backs up to one host that runs at most `Limit` backups. A
handler is a *call* with its place, its job and, if it read one, the array of jobs.
`chain` is the promise chain of `_withHostLock`: its head has the lock.

- **Under the lock:** `Reserve`, the decision of `executeScheduledBackup` (no record, a
  waiting record and a drain, or a running record), the decision of an operator's
  retry (`claim`), and a whole drain, from `releaseConcurrentSlotsOnHost` through
  `startQueuedJob` and the request of each job to `LoopEnds`.
- **Under no lock:** `Manual` and `Preflight` (POST /trigger decides on an array it saves
  after it asked the host), `retrySkippedJob` (the retries of runs skipped while the host
  was offline, which ask for no slot), and every edit in `Edits`: a call that reads the
  array (`ReadJobs`), changes its part (`Edited`), saves all of it (`SaveJobs`) and goes
  on (`Resumed`). These edits are the handlers' calls of `_markTriggeredRunning`,
  `supersedeSkippedSiblings`, `failStuckJobsOnHost`, the removal of a record, and so on.
- **The request** is shared by all: `Accept`, `Answered`, `Refuse` (409), `Unreachable`,
  `Unanswered`, `Failed`.
- **Freeing slots:** `Update` (the report handler) and the periodic
  `reconcileAndDrainAllHosts` with `syncHost` and the sweep of stuck jobs.
- **The environment:** `HostDown`, `HostUp`, `DeleteSchedule`, `End`, `DayPasses`.

`queued` and `waiting` are the code's status `queued` without and with `pendingStart`.
`old` is a start more than 24 hours ago, the horizon of every count. Four histories serve the
properties: `slotted` (jobs started by a decision under the lock), `stale` (an array was
saved over changes it had not seen), `lost` (an answer was lost) and `used` (events).

Left out: adoption of live sessions, kills and forced removals, legacy skipped records
without a schedule, retries of a schedule (`RetryLifecycle` has them), restarts of the
controller, and the second host. `IdsLeft` keeps an id for the retry of every skipped run, so
that the bound on ids never cuts a handler short.

### JobReconcile

One machine on one host; run n is its n-th backup. Host side: `session`, `exitFile`, `listed` (the
agent's active jobs, whose job state is on disk), `report` and `heard`. Controller side: `jobs`, by id;
a *twin* is the synthetic record under which a session is adopted when the agent cannot tell the
run's full id. `pass[p]` is where each pass is, the records it read (`before`) and what it made of them
(`after`): the passes are the mirror, the panel (`reconcileJobsAgainstAgents`), the synchronisation of a
host and the recovery after a start. `PassReads`, the steps of the pass (`PanelSyncs`,
`PanelResurrects`, `SyncVerifies`, `BootAsks`, `PassAdopts`), and `PassCommits`, which patches the fields
that differ between `before` and `after` over the records of the moment (`commitJobChanges`,
`canInsertAdoptedJob`). `SweepPasses`, `SweepFails` and `SweepSaves` are `failStuckJobsOnHost`, which saves
whole arrays; `RemoveReads` and `RemoveSaves` the force-removal.

Left out: offsite and restore jobs, progress and phases, the history page's own pass, hosts that are
offline, and the retry of a run under its own id (`RetryLifecycle`). A fresh progress file is part of "the
session lingers".

### MissedRuns

Time is a clock of coarse units: heartbeats, sweeps and calls finish between two ticks (`ClockTicks`).
`CronFires`, `runRecovery` with `replayRun`, and `catchUpRecentMisses` each decide that an occurrence is
due and put a call of `executeScheduledBackup` under way (`ExecuteCall`), which makes the record later.
`ControllerStops` forgets everything but records and heartbeat. The policy of the schedule decides what
the recovery replays and what it records as dropped; a record that cannot be written ends the
recovery of the schedule (`recoveryFails`).

Left out: several schedules and machines, changes of a schedule, and the adherence report, which reads only.

### HostHealth

`CheckReads`, `CheckProbes`, `CheckSaves` are the scheduler's check, which saves all hosts as it read them;
`ProbeReads`, `ProbeFails`, `ProbeFinds`, `ProbeUpdates`, `ProbeEnds` the health check service with its own
failure counts; `PollStarts` and `PollEnds` the probe behind the list of hosts. An update of one host,
theirs and the operator's deletion, reads all hosts (`Reads`) and saves them an await later (`WriteSaves`), and
so undoes what another writer did in between. A host goes offline after
two strikes in the first two, and at once in the third. Left out: the retry of skipped runs (`HostSlots`), hypervisors and restore agents,
registration, and the synchronisation a returning host causes (`JobReconcile`).

### OffsiteJobs

What a directory holds is the number of backups that landed in it (`landed`), and its offsite copy
another number (`copy`): a transfer copies what was there when it walked the directory (`walked`). A request
(`RequestReads`, `RequestSaves`) coalesces into the active job of the machine, as a follow-up when that
one is running. `DrainReads`, `DrainPicks`, `DrainGivesUp` start jobs under the limit; a drain that
finds another in flight does nothing. The agent side is `AgentAcceptsSync`, `AgentLaunches`, the script in
its session, `MonitorSettles` (`Outcomes` is what `_reportOutcome` may conclude), `AgentPosts`, `AgentRecovers`
after a restart. The script transfers to the targets (`ScriptCopies`, `ScriptMisses`), skips one that is busy
with what a killed script left behind (`orphans`), and records the targets one by one in its events file
(`ScriptRecords`); it may be killed between any two of these steps (`ScriptIsKilled`). Without an exit code
the newest events file of the machine decides (`newest`, `OwnFile`), which may be that of an earlier job or of an
earlier run of the same one. A post is handled in a read and a write (`HandlerReads`, `HandlerWrites`), and posted
again when its answer is lost. `ReconcileAsks` is the synchronisation's question to the agent,
`CheckFinds` the replication check, `OperatorReads` and `OperatorWrites` cancel and retry, `Rearms` the
jobs an old agent could not take. `turns` is the promise chain of `offsite-jobs.json`: writers that
have read and wait for their turn.

Left out: which target is which, their retries and warnings, guards of the source, trimming of the
history, notifications, progress posts of running jobs, hosts that are removed. The reconciliation
reads and asks in one step, and an answer comes with the write it reports.

The model also shows, as behaviours no property forbids: a verdict is applied to a later attempt of the
same job id; a follow-up flag set on a job that ends in the same moment is lost until the next check; a
drain's older list starts a job that was cancelled while it waited; and a request's save of all the jobs
rolls back the status of others (`PutBack`), which the reconciliation repairs unless a drain with an
older list starts such a job first. `touched` remembers the jobs that were cancelled, started again or put back.

### RestoreJobs

A restore has its own id, session, state file and progress file. `TakesRestore` and `StartsSession` are
`triggerRestore` around the tmux command; `ProgressTick` and `MonitorNotices` the two intervals of
`monitorRestore`, `MonitorReads`, `MonitorSaves` and `MonitorCleans` its end, step by step; `LateTick` the tick
that was waiting for tmux when the interval was cleared. A tick writes the state file after two awaits
(`TickWrites`, `TickSaves`), perhaps after the end. `KillsTracked` and `KillsUntracked`, `KillSaves`
and `KillEnds` are `killJob`; a killed session is needed for a tracked restore and not for one that is only
on file. `SweepLooks` and `SweepAdopts` are `recoverRunningJobs`, before and after its question to tmux.
`ScriptWrites` lets the progress be full before the end: the script's percentage is over the disks seen so far.
`ScriptAborts` is a script that gives up or is killed: its cleanup reads `$?` after an assignment, so that
the progress stays as it is. Cut short at a full percentage (result `cut`), it is filed as completed.

Left out: the records of the controller. `GET /jobs` saves whole stale arrays and takes a full percentage
for the end, and a late progress report revives a finished record; no property could be stated that
the code keeps (`PROJECT.json` lists the hazard). Also the lock file, and state files that are cut off by a
stop of the agent.

## 3. Runs

Every run is `tlc -config <cfg> <module>`. Deadlock is not checked because every
instance is bounded: when all calls, runs and faults are used up, nothing is left to do.

| Run | Instance | Shows |
|---|---|---|
| `records_order` | a file with three `mutateJSON` calls, refused writes, one kill or power loss; a spool of one, three outages, a job the controller deletes; two fires with one retry and one deferral each, two calls at once, one of kill, lost answer, foreign backup, deleted schedule, restart | acknowledged updates survive unless their rename is undone, and the file implements `AtomicStore`; only the oldest entry makes room; a shown retry is coming and ends, the attempts are bounded, completed stays completed |
| `records_settle` | a file with two `mutateJSON` calls and one that reads and saves later, every fault, one crash; two jobs, one of them with two runs, one outage of either kind, one stop, one failed write, a spool of two | a rejected call leaves nothing behind and the queue never blocks; no outcome vanishes, the spool file covers the spool, everything arrives |
| `outbox_deleted` | a spooled outcome of a deleted job | **violation**: it starves every later entry |
| `agent_restart` | two jobs of one machine, room for two, one of them retried; one kill or restart | no job is forgotten, one script per machine, no failure reported as success unless its exit code is lost |
| `agent_settles` | two machines, room for one; one kill or restart | every accepted job gets a verdict |
| `agent_early` | one run each | **violation**: a "repeat" of a verdict that was never reported |
| `retry_cancelled` | one fire, one kill | **violation**: a cancelled backup runs again |
| `slots_limit` | two machines, limit 1, three job ids, three calls; one event of any kind | fires and drains start no more than the limit; no job is sent twice |
| `slots_moves` | the same with two calls | a slot is given back and a waiting job moves, also when a report or the host is lost |
| `services_watch` | two hosts; two fires under every policy, two crashes; two runs and one pass at a time, or one run, two passes at a time and a mishap; two backups to copy and one trouble of any kind; one restore and two upsets | no occurrence is started more than twice, left without a record, or fired after it was dropped; a session has one active record, and exit code zero is never made up; one active sync per machine, and a completed one has copied unless it is doubtful; a restore's verdict is what its script left behind |
| `services_settle` | the same parts, smaller, and with the replication check; a host may be deleted; the policies that replay | the status of a host becomes right; the recovery answers an outage or fails; records settle; a live session is shown; every backup is copied; a restore gets its verdict |
| `reconcile_verdict` | one run, the panel's pass | **violation**: a reported completion is taken back |

**Bounds.** Two jobs are enough for everything that relates two: one machine's lock, a
queue of one, an array that is saved with the record of another job in it. A third
client of a file adds a call that waits while one is served and another has failed. Two runs
of a job bring the stale exit code, the reused id and the swapped reports; a third
repeats the second. `Attempts`, `MaxEntries` and `MaxDeferrals` (6, 5000 and 288 in the
code) are 1 or 2: the code only compares the counter with its limit, and the limit is
reached either way. `MaxCrashes`, `MaxKills`, `MaxStops`, `MaxFaults` and the like bound
how often a behaviour goes wrong, at one or two, because each further fault multiplies
the states; `OneFault`, `OneRetry` and `OneRerun` (one of the two jobs runs a second time) are constraints
for the same reason. `OneFault` also leaves out what follows an overlap, of which none of the checked
properties speaks. `OneSaver` lets one of the probes and the operator at a time hold hosts it has read and will
save, beside the scheduler's check, which always may; the type invariant is proved without it. A constraint
beside a liveness property (`OneFault`, `OneRerun`, `OneSaver`) means that TLC judges the behaviours
that stay within it. Hosts are deleted in `services_settle` and transfers left behind (`orphan`) in
`services_watch` only.
In `HostSlots` two machines and a limit of one make every fire of the second machine wait
for the first; the third id is a drained, retried or manual job beside them, and three
calls are the one of the periodic pass and two handlers, of which one can hold the lock
while the other waits for it. In `ServicesMC` two occurrences make one shadow the other, `LastTime` lets the grace period and the
window of both run out, and two crashes put an outage into an outage. A pass of `JobReconcile` overlaps
another (`Overlap`) only with one run and one of `MaxMishaps`, and a second run comes with one pass at a
time and no mishap (`OneComplication`): a record of another run never takes part in a decision about
the first, except through "the machine has an active record". `TwoBackups` lets two backups land, of one
machine (a follow-up) or of two (the limit, with no trouble); `MaxJobs` leaves room for the
check's and the follow-up's job. One restore is enough because restores share nothing on the agent;
with one pass a stale adoption still happens, since the pass may have read before a kill or an end,
and the theorem about `HonestRestore` holds for any number of passes and upsets.
`MaxEvents` is one outage, lost answer, unreachable
machine, manual backup, manual retry, deleted schedule or day per behaviour.
`agent_restart` uses the symmetry of its two jobs, which have one machine and no
constant that tells them apart; `slots_limit` that of the machines and of the two calls
that are not the periodic pass. Job ids are ordered and never permuted. Runs with a
liveness property use no symmetry.

**Fairness.** Weak fairness is assumed of what the platform does by itself: a file
operation or a command returns, a request is answered or times out (every request in the
code has a timeout), an interval or a timer fires, a script ends, the link comes back.
Nothing is assumed of clients, operators and schedules, or of faults. Strong fairness is
assumed of one action, `Resolve` in `AgentExecutor`: a recovery that finds a fresh
progress or lock file leaves the job for the next pass, files of a dead run do not stay
fresh, and the pass comes every thirty seconds. In `HostSlots` the host also comes back and
the two-minute pass comes again; `DayPasses` is possible only while no handler is under way
(a request is over in minutes) and, with the host online, no job waits, since the pass has
freed and filled the slots many times in a day. In `JobReconcile` the passes are repeated whatever the bound on their overlap (they are
intervals), a host's sessions close and its reports arrive, and strong fairness is assumed of one more
action, `SweepFails`: what stays active is old enough in the end. `MissedRuns` assumes of the controller that
its calls, replays and heartbeat go on while it is up, never that it starts again. `HostHealth` assumes its
two intervals, `OffsiteJobs` that calls, drains, posts and sessions go on, that the check and the
reconciliation come again, and that an old agent is upgraded; `RestoreJobs` that ticks, timers and kills go
on, that the recovery is repeated, and that a script ends. Liveness is checked by TLC only.

**What the properties leave out.** Where TLC found that the code breaks a property in a
corner, the corner is either a run of its own (the violations) or a named condition:

- `forfeited` and `undone` in `AckedSurvive` and in the refinement: an update only the copy held that a
  fault destroyed; and, without any copy being destroyed, an acknowledged update whose rename a power loss took
  back, since the code never flushes the directory (`fileStorage.js:243`). The code does lose the latter: the
  property says that nothing else is lost.
- The order of a job's outcomes: a verdict posted inline passes an older one that waits in the spool, and the
  next drain delivers the older one last (`controllerOutbox.js:100`). No property is stated of it, because the code
  breaks it as soon as a job is run again while its last verdict is still in the spool.
- `NothingVanishes` excuses what `enqueue` itself drops when the spool is full, and entries a newer one of the
  same job replaces.
- `lostCode` in `NeverFalselyCompleted`: the monitor removes the exit code (`backupExecutor.js:1756`) and then
  awaits tmux. If the agent restarts there, the recovery looks for "completed successfully" in the log (lines 548,
  580), which every retry's log contains ("Retry cleanup completed successfully", `Backup_Manager.sh:746`):
  a failed retry is reported as completed.
- `Orderly` in `OneRunPerVM` and `NeverFalselyCompleted`: no kill, and no job accepted
  while a recovery loop still works on its snapshot. With overlaps an orphan of the same
  machine can be re-attached to another job's session and free its lock. So the re-adoption for another
  job's session is not covered by either.
- `EveryJobSettles` excepts the session that was created and never got its command: it
  idles for ever and is adopted at every restart.
- `Undisturbed` and `~overlap` in `RetryLifecycle`: a failed request leaves a failed record
  and a pending timer, so that a second fire may run beside the retry of the first; a
  lost answer starts a retry beside the run it lost. Dropping `j \notin lost` from `Undisturbed`, TLC finds
  both `Budget` and `CompletedStays` violated. `PROJECT.json` lists both as hazards.
- `CompletedStays` does not speak of the steps of a startup recovery, which commits what it
  concluded from an array older than a report that arrived while it asked: a completed job
  becomes "interrupted" (`startupRecoveryService.js:147`).
- `SafeFaults` in the proof of `AckedSurvive` excludes a damaged file together with a copy cut to
  nothing: `initializeDataFiles` accepts a blank file, and the next write rotates it over the good
  `.bak` (`fileStorage.js:79`).
- `Clean` in `SlotLimit` and `~stale` in `StartedOnce`: a save of an older array can turn a running
  record back into a waiting one, and a lost answer ends a record whose backup runs. `SlotLimit`
  counts the backups started by a decision under the lock; a manual backup decides beside it, and
  the retry of a skipped run asks for no slot at all.
- `QueueMoves` excepts a job that waited a day: `releaseConcurrentSlotsOnHost` no longer sees it,
  nothing fails it, and it blocks later fires of its machine.
- `RecoveryAnswers` excepts a recovery that could not record a dropped occurrence: it gives up the replays of
  that schedule with it (`missedRunService.js:135`).
- `StatusConverges` speaks of hosts that come and go no longer. That the scheduler's check sees a host come back,
  and so retries its skipped runs, is assumed in `HostSlots`; another writer may set the host online first
  (`schedulerService.js:419`). A host deleted during a check comes back with its save.
- `LiveIsShown` excepts a session whose record was finalised as a duplicate or was given an exit code: a
  recovery that got no answer gives exit code 1, which keeps every pass from reviving the record.
- `OneActiveJob` excepts jobs that an operator cancelled or started again, and jobs whose status the save of
  a request took back (`touched`). The attempt to prove it without the last exception failed on a real
  behaviour, beyond the bounds of the runs: with two machines, three jobs and two starts of the
  controller, `_requestSync` saves the array it read before another job was started
  (`offsiteJobService.js:203`, `:284`), the job is `queued` again, a drain with an older list starts it a second
  time, and its two reports leave it active beside the next job of its machine.
- `CopyCatchesUp` excepts `Stranded`: a drain that found another in flight did nothing, no job
  runs whose end would start one, and every later request counts as covered by the job that waits
  (`offsiteJobService.js:503`). `server.js:302` expects the replication check to notice it.
- `CompletedIsCopied` excepts `doubtful` jobs, which the code does record as completed with data uncopied: a job
  that skipped a target busy with a transfer a killed script left behind (the lock is per target,
  `all_success` stays true and the exit code is 0, `Rsync_Manager.sh:2555`); a job killed between the records of
  two targets, so that its events file shows successes only (`:2527`); and a job without an exit code that was
  judged by the events file of another run, any file since a minute before the start counting
  (`rsyncExecutor.js:736`).
- `HonestRestore` excepts restores that were cancelled, whose end was noticed twice by one process, that
  a pass adopted from a file it had read before the end (the second end finds the progress file removed), or
  whose verdict a late tick saved over. It counts a script that was cut short at a full percentage as completed,
  as the code does: `cleanup` loses the exit code (`Restore_Manager.sh:547`), so the branch that would write 0 at
  line 589 never runs.

**Findings.** Each violation run quotes the comment the code contradicts:

1. `outbox_deleted` – `drain` stops at an entry that is refused for good
   (`controllerOutbox.js:152`).
2. `agent_early` – the early report calls a function that is not in scope; the exception is
   taken for the end of the session (`backupExecutor.js:1715`).
3. `retry_cancelled` – the agent's report of a kill arms a retry that nothing cancels
   (`routes/backups.js:1846`).
4. `reconcile_verdict` – a pass that asked while the agent was about to report commits `failed` over the
   completion that has arrived (`jobReconcileCommit.js:109`).

## 4. Proofs

`tlapm` checks the theorems for every number of jobs, clients, machines, calls and
faults. Assumptions are the named ones on the constants (ranges, distinct null values, at least one host or
machine).

| Theorem | States |
|---|---|
| `Records_proofs!StorageTypes` | `StorageTypeOK` under all faults; an open operation belongs to the head of the queue |
| `Records_proofs!FailuresLeaveNothing` | `FailedInvisible` under all faults, with savers |
| `Records_proofs!UpdatesSurvive` | `AckedSurvive` under `SafeFaults`: all clients use `mutateJSON`; no power loss; kills, refused reads and writes, with the file torn or removed at rest, or with copies that can be cut to nothing, but not both |
| `Records_proofs!ImplementsAtomicStore` | `Atomic` under the same faults |
| `Records_proofs!OutboxTypes` | `TypeOK` of `ControllerOutbox` |
| `Records_proofs!NoOutcomeVanishes` | `NothingVanishes` |
| `Records_proofs!SpoolIsDurable` | `SpoolOnDisk` |
| `AgentExecutor_proofs!TypeInvariant` | `TypeOK` |
| `AgentExecutor_proofs!NoJobForgotten` | `NoSilentDrop` |
| `AgentExecutor_proofs!OneScriptPerVM` | `OneRunPerVM`: one script of a machine, as long as the agent runs orderly |
| `AgentExecutor_proofs!FailureNeverPasses` | `NeverFalselyCompleted` under the same condition, but for a lost exit code |
| `RetryLifecycle_proofs!TypeInvariant` | `RetryTypeOK` |
| `RetryLifecycle_proofs!RunsWithinBudget` | `Budget`: an `Undisturbed` job (no cancel, no lost answer, no overlapping fire) runs no more often than its schedule allows |
| `RetryLifecycle_proofs!WaitingIsServed` | `RetryIsComing`: an announced retry has a call or a timer |
| `RetryLifecycle_proofs!CompletionStays` | `CompletedStays`, an action property of `Undisturbed` jobs, but for a recovery |
| `HostSlots_proofs!TypeInvariant` | `TypeOK`: whoever decides about slots has the lock of the host |
| `HostSlots_proofs!NoDoubleStart` | `StartedOnce`: no job is sent to the agent twice unless a save undid an update |
| `HostSlots_proofs!WithinLimit` | `SlotLimit`: no more backups are started under the lock than the limit allows |
| `MissedRuns_proofs!MissedTypes` | `MissedTypeOK` |
| `MissedRuns_proofs!NotThrice` | `AtMostTwice`, for any occurrences, times and crashes |
| `MissedRuns_proofs!NoGap` | `NoSilentGap` |
| `MissedRuns_proofs!DroppedIsFinal` | `DroppedStaysDropped`, an action property |
| `JobReconcile_proofs!RecordsHold`, `RecordTypes` | the inductive invariant; `ReconcileTypeOK` |
| `JobReconcile_proofs!TrackedBySingle` | `TrackedOnce`, for any number of runs, overlapping passes and mishaps |
| `JobReconcile_proofs!GreenIsEarned` | `NeverFalselyGreen` |
| `Transfers_proofs!SyncsHold`, `SyncTypes` | the inductive invariant of `OffsiteJobs`; `OffsiteTypeOK` |
| `Transfers_proofs!GreenIsCopied` | `CompletedIsCopied` of jobs that are not doubtful, for any number of machines, jobs, attempts and troubles |
| `Transfers_proofs!OneAtATime` | `OneActiveJob` |
| `Transfers_proofs!RestoreTypes` | `RestoreTypeOK` |
| `Transfers_proofs!VerdictIsHonest` | `HonestRestore` of restores that are not contested, for any number of restores, overlapping passes and upsets |
| `Services_proofs!ServicesTypes` | `ServicesTypeOK`, and in it `HealthTypeOK` |
| `Services_proofs!ServicesKeepPromises` | the safety invariants of the four services above, of the specification the runs of `ServicesMC` check, with their exceptions |

So every safety invariant and every action property of the passing runs is a theorem, and the refinement of
`AtomicStore` is one.

The arguments:

- **FileStorage.** `FailedInvisible` is not inductive: a rejected update could still be in the
  `.bak`, in a saver's snapshot or in memory. `OnlyDone` says that the files and snapshots hold
  acknowledged updates only, and that what is being written adds at most the update of the call
  at the head of the queue. For `AckedSurvive`, `CopyAtHand` says which copy can be relied
  on at each stage, `Pending` what the current operation holds, and `Exact` that a reader
  gets the acknowledged updates and nothing else; under `SafeFaults` these are inductive together.
  The refinement maps the abstract value to what a reader gets: a rename is a commit, damage
  and an undone rename are losses, and every other step is a stutter.
- **ControllerOutbox.** `NothingVanishes` and `SpoolOnDisk` are inductive relative to `TypeOK`, whose
  last conjunct says that a drain is marked running exactly while it has entries to send.
- **AgentExecutor.** `TypeOK` needs `ProbesToRun`. `NoSilentDrop` is strengthened with
  `Accepted` (a job that was never accepted is nowhere), `HolderKnown` (the holder of a lock is in
  memory, or was killed while queued), `ProbesAfterKill` (only the lock of a killed job is probed) and
  `KillsCounted`: the one path on which a state file is deleted under an open job is the
  clearing of a stale lock, and these say that it takes a kill. `OneRunPerVM` and `NeverFalselyCompleted` hold by
  `Order`, which is inductive while the agent is `Orderly`: whoever is queued or active holds the lock of its
  machine (`JobOK`), one job of a machine is known at all to memory, state files and loops (`OnePerVM`), a
  job has one monitor, and that watches its own session (`WatchOK`), the list of a recovery loop still
  describes the jobs on it (`ListOK`), and a failed run leaves no exit code from which a later verdict could
  conclude success (`VerdictOK`): that it failed can still be read from its exit code, is on its way to be told,
  has been told, or was lost (`Remembered`).
- **RetryLifecycle.** `RetryTypeOK` is inductive with `CallsOK`: a call that will save an array holds one,
  and a registered timer is a pending timer of that job. The other three hold of histories without
  cancellation in which the schedule fires only when all is over (`Calm`; see the conditions above). Then all
  calls, runs and reports under way are of one job (`Solo`), no array that is held is wrong about another
  (`Others`), and one call at a time moves the job from one run to the next (`OneToken`) and carries an attempt
  number that grows at least as fast as the number of runs (`Numbers`). `ComingOK` is what keeps an announced
  retry: between the write of `retrying` and the timer there is always a call that will set it.
  `OverOK` says what may be under way when a job completes.
- **HostSlots.** `TypeOK` contains the ownership of the lock (`CallsOK`): a drain at work, and a retry
  that has decided but not saved, are at the head of the chain. It is inductive, because nobody leaves
  the chain but its head, and the head only when it is done. `StartedOnce` is strengthened to
  `OneTicket`: a job may still be sent by a call that was given its id, because it waits, or because a
  drain has it on its list; at most one call holds a job, a job that is held neither waits nor is
  listed, and whatever may still be sent was never sent. Two drains cannot list one job because a
  drain has the lock; a drain's patch to `running`, before it asks the agent, is what takes the job
  off the waiting ones. `stale \/ OneTicket` is inductive relative to `TypeOK`. For `SlotLimit` the running
  backups are not what is bounded by a step but the records that count: `Quota` says that the jobs which
  were given a slot and count as occupying it, together with those on the list of a drain, fit under the limit.
  `JobPart` and `CallPart` say that a started backup has such a record: no sweep, retirement or save frees a slot
  whose backup runs (`Retirable`, `SyncOK`), and what is about to be sent is on file as running (`GrantedOK`).
- **MissedRuns.** `AtMostTwice` counts the starts that are still to come: an occurrence may be `Pending` in a
  call, or `Replayable` by the recovery of this life or of a later one, and each uses up one of the two
  (`CountOK`). A replay is used up once the heartbeat has passed the occurrence. A record that says
  "dropped" excludes `Replayable`, which gives `DroppedStaysDropped`. `NoSilentGap` needs `SweptOK`: what a sweep
  passed over is covered by a record or a collision, or a call for a later occurrence is under way. `TimesOK` puts
  starts, heartbeats and sweeps in the order of time.
- **JobReconcile.** A pass holds two copies of the records and later patches the difference between them over the
  records of the moment. `PassOK` says of both copies what is said of the records, that a pass makes at most
  one record of a run, and none before it adopts; then neither the patch nor an insertion (`canInsertAdoptedJob`)
  makes a second record of a run (`Single`). `OwnRec` says what a record may show: exit code zero only if the script
  of its run left it, which its file or its report still tells (`Green`). The same is said of
  what a force-removal holds.
- **OffsiteJobs.** `CompletedIsCopied` is inductive with `SyncInv`, which says the same of whatever carries a verdict of
  success on its way into a record: the snapshot of a request, a turn, a post, a monitor, the exit code, the
  events file and the script that has copied (`Earned`: copied, or doubtful). For `OneActiveJob`, `FreshInv` says of
  jobs that nobody touched that
  their start leaves no trace at the agent before the request to it (`StartedFirst`), that they are posted as running
  once, and that a request which has not seen them active writes only after that post (`PostedOnce`): so
  the claims on a machine (`Claims`: a job is active, or will be by a report that was read while it was) are of
  one job (`OneClaim`). The position of turns in the promise chain decides it (`Before`).
- **RestoreJobs.** A verdict on file is copied from the entry or from a tick, and these take it from the
  progress file, which is removed later; `Sound` says what each may hold. The file agrees with the script as
  long as the restore is on file as running (`ScriptOK`); an entry with a verdict agrees with the script
  (`EntryOK`); and one tick at most is at work on an end, whose progress tells what is on file
  (`EndsOK`). All of it is said of restores that are not contested; `Unborn`, that there is no trace
  of an id before it is taken, and `Killed` make `RestoreInv` inductive. An action concerns one restore:
  `OthersSound` carries the rest over.
- **Services.** `HealthTypeOK` is inductive. A step of one service is a stutter of every other (`EachMoves`), so the
  conjunction of the invariants of all (`ServicesInv`) is inductive, and the properties follow from it under the
  specification the runs check.

Only model-checked: the liveness properties `EveryCallSettles`, `EventuallyHeard`, `EveryJobSettles`, `RetryEnds`,
`SlotsFreed`, `QueueMoves`, `StatusConverges`, `RecoveryAnswers`, `RecordsSettle`, `LiveIsShown`, `CopyCatchesUp` and
`RestoreSettles`: liveness under fairness and `ENABLED` are beyond the prover. The type invariants of `ControllerOutbox`,
`MissedRuns`, `JobReconcile`, `OffsiteJobs` and `RestoreJobs` by themselves are proved and not run
(the last four are part of `ServicesTypeOK`): the proofs of the other invariants rest on them.

## 5. Not modelled

- The records of restores in the controller, see `RestoreJobs`.
- Backup cycle and retention: what is full or incremental, and what is deleted when. Decided per call
  from dates and directory names, without a state of their own; in the plan.
- Live status of the agent: a verdict computed per question from sessions, processes and files. Its
  results are inputs of `JobReconcile` and `RetryLifecycle`.
- Schedule routes: editing and validating. Their effect on running jobs, the deletion of a schedule, is an
  action of `RetryLifecycle` and `HostSlots`.
- Clean-up of old files and stale locks, configuration sync: the last writer wins, and no other part
  waits for them.
- Authentication, certificates, audit, notifications, metrics, reports, inventory and the
  frontend hold no state a job depends on. They are most of the repository's lines.
- `Backup_Manager.sh` itself: the models keep its end, its exit code, and that it is one
  process.

## 6. Plan

Order of work, the most important first.

1. Proofs: what the scheduler and the outbox promise without the conditions that exclude a corner, where the
   invariants allow it: `OneRunPerVM` with kills, `SlotLimit` with lost answers. The refinement of an
   abstract slot counter by `HostSlots` (see 3).
2. `BackupSystem` – composition of `RetryLifecycle`'s controller with the agent of
   `AgentExecutor` as an abstract machine, to check that `mail` and `run` are what the
   detailed agent produces.
3. `HostSlots` with adoption and kills, and an abstract specification of what it promises: a bag of at
   most `Limit` running jobs, which the fires and drains implement.
4. `ScriptLocks`; the live status, the backup cycle and retention as pure operators checked against a
   reference definition; several targets in `OffsiteJobs`.
