--------------------------- MODULE RetryLifecycle ---------------------------
(***************************************************************************)
(* The life of a scheduled backup of one virtual machine in the            *)
(* controller: the fires of its schedule, the request to the agent, the    *)
(* outcome the agent reports, the retries of a failed run under the same   *)
(* job id, and an operator who cancels                                     *)
(* (controller services/schedulerService.js and routes/backups.js).        *)
(*                                                                         *)
(* The controller is one thread, but each handler awaits files and agents, *)
(* so several calls are under way at once.  A call is a record: where it   *)
(* awaits, for which job and attempt, and the array of jobs it read        *)
(* earlier and will save as a whole.  A retry timer is a call as well.     *)
(* The host has room for every backup (its limit is 0); pool and offsite   *)
(* targets of a job are left out.                                          *)
(***************************************************************************)
EXTENDS Naturals, Sequences, FiniteSets

CONSTANTS
  JobIds,           \* ids the fires of the schedule may take
  NoJob,
  Foreign,        \* a backup of the machine the controller has no record of
  Calls, NoCall,  \* bound on the calls and timers alive at once
  MaxAttempts,    \* retryCount of the schedule + 1
  MaxDeferrals,   \* how often a retry waits for a busy machine (288 in the code)
  MaxKills, MaxRestarts, MaxLost, MaxDeletions, MaxForeign   \* bounds on events

ASSUME NullsAssumption ==
  NoJob \notin JobIds /\ Foreign \notin JobIds /\ Foreign # NoJob /\ NoCall \notin Calls
ASSUME RetryBounds ==
  /\ MaxAttempts \in Nat \ {0} /\ MaxDeferrals \in Nat /\ MaxKills \in Nat
  /\ MaxRestarts \in Nat /\ MaxLost \in Nat /\ MaxDeletions \in Nat
  /\ MaxForeign \in Nat

VARIABLES
  rec,        \* the stored job records
  calls,      \* calls under way and pending timers
  timers,     \* _retryTimers: the timer each job is registered with
  schedule,   \* whether the schedule still exists
  run, exit,  \* the agent: the job its machine is busy with, exit codes on disk
  mail,       \* reports of the agent the controller has yet to handle
  runs,       \* history: the runs the agent started for each job
  cancelled,  \* history: jobs whose cancellation was confirmed to the operator
  asked,      \* history: jobs an operator asked to cancel
  lost,       \* history: jobs with a request whose answer was lost
  overlap,    \* history: the schedule fired while another job had calls or timers
  restarts, foreigns

retryControllerVars == <<rec, calls, timers, schedule>>
retryAgentVars == <<run, exit, mail, runs>>
historyVars == <<asked, cancelled, lost, overlap, restarts, foreigns>>
retryVars == <<rec, calls, timers, schedule, run, exit, mail, runs,
          asked, cancelled, lost, overlap, restarts, foreigns>>

\* ACTIVE_STATUSES, and the others a record may have.
Active == {"running", "retrying"}
Statuses == Active \cup {"none", "skipped", "completed", "failed", "cancelled"}
Record == [status : Statuses, attempt : 0 .. MaxAttempts, deferrals : 0 .. MaxDeferrals]
NoRecord == [status |-> "none", attempt |-> 0, deferrals |-> 0]

\* Where a call awaits something.
Places == {"check", "remove", "trigger", "accepted", "fail", "failSave", "handle",
           "arm", "timer", "due", "lapse", "retry", "rerun", "defer",
           "kill", "killSave", "recover"}
Call(at, j, n) == [at |-> at, job |-> j, attempt |-> n, snap |-> <<>>, again |-> FALSE]
Idle == Call("idle", NoJob, 0)

\* The calls that hold an array of jobs.
Holding == {"remove", "failSave", "lapse", "retry", "rerun", "kill", "killSave", "recover"}
Arrays == [JobIds -> Record]
CallType ==
  [at : Places \cup {"idle"}, job : JobIds \cup {NoJob}, attempt : 0 .. MaxAttempts,
   snap : Arrays \cup {<<>>}, again : BOOLEAN]
WellFormed(call) ==
  /\ call.at \notin {"idle", "recover"} => call.job \in JobIds
  /\ call.at \in Holding => call.snap \in Arrays
  /\ call.at = "arm" => call.attempt < MaxAttempts

CallsOK ==
  /\ calls \in [Calls -> CallType] /\ \A c \in Calls : WellFormed(calls[c])
  /\ timers \in [JobIds -> Calls \cup {NoCall}]
  /\ \A j \in JobIds : timers[j] # NoCall =>
       calls[timers[j]].at = "timer" /\ calls[timers[j]].job = j

AgentOK ==
  /\ run \in JobIds \cup {NoJob, Foreign} /\ exit \in [JobIds -> {"none", "completed", "failed"}]
  /\ mail \in [JobIds -> Seq({"running", "completed", "failed", "repeat"})]
  /\ runs \in [JobIds -> Nat]

HistoryOK ==
  /\ cancelled \subseteq JobIds /\ asked \subseteq JobIds /\ lost \subseteq JobIds
  /\ overlap \in BOOLEAN /\ restarts \in 0 .. MaxRestarts /\ foreigns \in 0 .. MaxForeign

RetryTypeOK == rec \in Arrays /\ CallsOK /\ schedule \in BOOLEAN /\ AgentOK /\ HistoryOK

RetryInit ==
  /\ rec = [j \in JobIds |-> NoRecord]
  /\ calls = [c \in Calls |-> Idle] /\ timers = [j \in JobIds |-> NoCall]
  /\ schedule = TRUE
  /\ run = NoJob /\ exit = [j \in JobIds |-> "none"] /\ mail = [j \in JobIds |-> <<>>]
  /\ runs = [j \in JobIds |-> 0]
  /\ asked = {} /\ cancelled = {} /\ lost = {} /\ overlap = FALSE
  /\ restarts = 0 /\ foreigns = 0

-----------------------------------------------------------------------------
(* Helpers *)

Stored(array, j) == array[j].status # "none"
Ended(array, j, status) == [array EXCEPT ![j].status = status]
Free(c) == calls[c] = Idle
At(c, place) == calls[c].at = place
Become(c, call) == calls' = [calls EXCEPT ![c] = call]
Go(c, place) == Become(c, [calls[c] EXCEPT !.at = place])
\* The call reads the whole array of jobs and keeps it.
Read(c, place) == Become(c, [calls[c] EXCEPT !.at = place, !.snap = rec])
Done(c) == Become(c, Idle)

\* Nothing of an earlier job is under way.
Quiet ==
  /\ \A c \in Calls : Free(c)
  /\ run = NoJob /\ \A j \in JobIds : mail[j] = <<>>

-----------------------------------------------------------------------------
(* A fire of the schedule: executeScheduledBackup *)

\* An offline host is recorded as skipped.  Otherwise the collision check and
\* the new record are one atomic update; on a collision nothing is recorded.
executeScheduledBackup(j, c) ==
  /\ schedule /\ Free(c) /\ ~Stored(rec, j) /\ runs[j] = 0
  /\ \A d \in Calls : calls[d].job # j
  /\ \/ /\ rec' = [rec EXCEPT ![j] = [NoRecord EXCEPT !.status = "skipped"]]
        /\ UNCHANGED calls
     \/ /\ \A k \in JobIds : rec[k].status \notin Active
        /\ rec' = [rec EXCEPT ![j] = [NoRecord EXCEPT !.status = "running", !.attempt = 1]]
        /\ Become(c, Call("check", j, 1))
  /\ overlap' = (overlap \/ ~Quiet)
  /\ UNCHANGED <<timers, schedule, asked, cancelled, lost, restarts, foreigns>> /\ UNCHANGED retryAgentVars

\* The host is asked first: when the machine is busy the record is removed
\* again; when it does not answer the backup goes ahead.
CheckStatus(c) ==
  /\ At(c, "check")
  /\ \/ run # NoJob /\ Read(c, "remove")
     \/ Go(c, "trigger")
  /\ UNCHANGED <<rec, timers, schedule>> /\ UNCHANGED retryAgentVars /\ UNCHANGED historyVars

removeJob(c) ==
  /\ At(c, "remove")
  /\ rec' = [calls[c].snap EXCEPT ![calls[c].job] = NoRecord]
  /\ Done(c)
  /\ UNCHANGED <<timers, schedule>> /\ UNCHANGED retryAgentVars /\ UNCHANGED historyVars

-----------------------------------------------------------------------------
(* The request to the agent, of a first attempt or of a retry *)

\* The agent takes the job unless its machine is busy; its answer is on the way.
Accept(c) ==
  /\ At(c, "trigger") /\ run = NoJob
  /\ run' = calls[c].job
  /\ exit' = [exit EXCEPT ![run'] = "none"] /\ runs' = [runs EXCEPT ![run'] = @ + 1]
  /\ Go(c, "accepted")
  /\ UNCHANGED <<rec, timers, schedule, mail>> /\ UNCHANGED historyVars

\* Mutant: the answer is taken for the beginning of the run.
AnsweredRunning(c) ==
  /\ At(c, "accepted")
  /\ rec' = IF calls[c].attempt > 1 /\ Stored(rec, calls[c].job)
            THEN [rec EXCEPT ![calls[c].job].status = "running",
                             ![calls[c].job].deferrals = 0]
            ELSE rec
  /\ Done(c)
  /\ UNCHANGED <<timers, schedule>> /\ UNCHANGED retryAgentVars /\ UNCHANGED historyVars

\* A retry that started forgets how long it waited.
Answered(c) ==
  /\ At(c, "accepted")
  /\ rec' = IF calls[c].attempt > 1 /\ Stored(rec, calls[c].job)
            THEN [rec EXCEPT ![calls[c].job].deferrals = 0]
            ELSE rec
  /\ Done(c)
  /\ UNCHANGED <<timers, schedule>> /\ UNCHANGED retryAgentVars /\ UNCHANGED historyVars

\* The answer is lost, and the request times out at the controller.
NoAnswer(c) ==
  /\ At(c, "accepted") /\ Cardinality(lost) < MaxLost /\ calls[c].job \notin lost
  /\ lost' = lost \cup {calls[c].job}
  /\ Go(c, "fail")
  /\ UNCHANGED <<rec, timers, schedule>> /\ UNCHANGED retryAgentVars
  /\ UNCHANGED <<asked, cancelled, overlap, restarts, foreigns>>

Deferrals(c) == rec[calls[c].job].deferrals

\* Mutant: a deferral is not counted.
BusyUncounted(c) ==
  /\ At(c, "trigger") /\ run # NoJob
  /\ LET j == calls[c].job IN
     IF calls[c].attempt > 1
     THEN /\ rec' = IF Stored(rec, j) THEN [rec EXCEPT ![j].status = "retrying"] ELSE rec
          /\ Go(c, "defer")
     ELSE Go(c, "fail") /\ UNCHANGED rec
  /\ UNCHANGED <<timers, schedule>> /\ UNCHANGED retryAgentVars /\ UNCHANGED historyVars

\* 409: a first attempt has failed; a retry waits for the machine, a bounded
\* number of times.
Busy(c) ==
  /\ At(c, "trigger") /\ run # NoJob
  /\ LET j == calls[c].job IN
     IF calls[c].attempt > 1 /\ Deferrals(c) < MaxDeferrals
     THEN /\ rec' = IF Stored(rec, j)
                    THEN [rec EXCEPT ![j].status = "retrying", ![j].deferrals = @ + 1]
                    ELSE rec
          /\ Go(c, "defer")
     ELSE Go(c, "fail") /\ UNCHANGED rec
  /\ UNCHANGED <<timers, schedule>> /\ UNCHANGED retryAgentVars /\ UNCHANGED historyVars

Unreachable(c) ==
  /\ At(c, "trigger")
  /\ Go(c, "fail")
  /\ UNCHANGED <<rec, timers, schedule>> /\ UNCHANGED retryAgentVars /\ UNCHANGED historyVars

\* The catch blocks: read the array, mark the job failed, save the array.
\* Only the one of a first attempt asks for a retry.
FailRead(c) ==
  /\ At(c, "fail")
  /\ IF Stored(rec, calls[c].job) THEN Read(c, "failSave") ELSE Done(c)
  /\ UNCHANGED <<rec, timers, schedule>> /\ UNCHANGED retryAgentVars /\ UNCHANGED historyVars

FailSave(c) ==
  /\ At(c, "failSave")
  /\ rec' = Ended(calls[c].snap, calls[c].job, "failed")
  /\ IF calls[c].attempt = 1 THEN Become(c, Call("handle", calls[c].job, 1)) ELSE Done(c)
  /\ UNCHANGED <<timers, schedule>> /\ UNCHANGED retryAgentVars /\ UNCHANGED historyVars

-----------------------------------------------------------------------------
(* Retries: handleScheduledBackupFailure and retryExistingJob *)

\* Mutant: gives up one attempt too early.
handleTooEarly(c) ==
  /\ At(c, "handle")
  /\ IF timers[calls[c].job] # NoCall \/ calls[c].attempt + 1 >= MaxAttempts
     THEN Done(c)
     ELSE Go(c, "arm")
  /\ UNCHANGED <<rec, timers, schedule>> /\ UNCHANGED retryAgentVars /\ UNCHANGED historyVars

\* One pending retry per job, and no more than the schedule allows.
handleScheduledBackupFailure(c) ==
  /\ At(c, "handle")
  /\ IF timers[calls[c].job] # NoCall \/ calls[c].attempt >= MaxAttempts
     THEN Done(c)
     ELSE Go(c, "arm")
  /\ UNCHANGED <<rec, timers, schedule>> /\ UNCHANGED retryAgentVars /\ UNCHANGED historyVars

\* Mutant: the retry keeps the number of the attempt that failed.
ArmSameAttempt(c) ==
  /\ At(c, "arm")
  /\ IF schedule
     THEN /\ Become(c, Call("timer", calls[c].job, calls[c].attempt))
          /\ timers' = [timers EXCEPT ![calls[c].job] = c]
     ELSE Done(c) /\ UNCHANGED timers
  /\ UNCHANGED <<rec, schedule>> /\ UNCHANGED retryAgentVars /\ UNCHANGED historyVars

\* The schedule has been read: start the timer of the next attempt.
Arm(c) ==
  /\ At(c, "arm")
  /\ IF schedule
     THEN /\ Become(c, Call("timer", calls[c].job, calls[c].attempt + 1))
          /\ timers' = [timers EXCEPT ![calls[c].job] = c]
     ELSE Done(c) /\ UNCHANGED timers
  /\ UNCHANGED <<rec, schedule>> /\ UNCHANGED retryAgentVars /\ UNCHANGED historyVars

\* The timer a deferred retry waits on.
Defer(c) ==
  /\ At(c, "defer")
  /\ Become(c, [Call("timer", calls[c].job, calls[c].attempt) EXCEPT !.again = TRUE])
  /\ timers' = [timers EXCEPT ![calls[c].job] = c]
  /\ UNCHANGED <<rec, schedule>> /\ UNCHANGED retryAgentVars /\ UNCHANGED historyVars

\* Mutant: the registration outlives the timer.
TimerFiresRegistered(c) ==
  /\ At(c, "timer")
  /\ Go(c, "due")
  /\ UNCHANGED <<rec, timers, schedule>> /\ UNCHANGED retryAgentVars /\ UNCHANGED historyVars

\* The callback unregisters whatever timer its job has.
TimerFires(c) ==
  /\ At(c, "timer")
  /\ timers' = [timers EXCEPT ![calls[c].job] = NoCall]
  /\ Go(c, "due")
  /\ UNCHANGED <<rec, schedule>> /\ UNCHANGED retryAgentVars /\ UNCHANGED historyVars

\* The schedule is read again; without it the retry lapses, a deferred one
\* without a trace.
Due(c) ==
  /\ At(c, "due")
  /\ IF Stored(rec, calls[c].job) /\ (schedule \/ ~calls[c].again)
     THEN Read(c, IF schedule THEN "retry" ELSE "lapse")
     ELSE Done(c)
  /\ UNCHANGED <<rec, timers, schedule>> /\ UNCHANGED retryAgentVars /\ UNCHANGED historyVars

Lapse(c) ==
  /\ At(c, "lapse")
  /\ LET j == calls[c].job IN
     rec' = IF calls[c].snap[j].status = "retrying"
            THEN Ended(calls[c].snap, j, "failed")
            ELSE rec
  /\ Done(c)
  /\ UNCHANGED <<timers, schedule>> /\ UNCHANGED retryAgentVars /\ UNCHANGED historyVars

\* The job runs again whatever its record said, unless its machine, its
\* hypervisor or its host is gone, or the host is offline.
retryExistingJob(c) ==
  /\ At(c, "retry")
  /\ LET j == calls[c].job
         again == [calls[c].snap EXCEPT ![j].status = "running",
                                        ![j].attempt = calls[c].attempt] IN
     \/ rec' = Ended(calls[c].snap, j, "failed") /\ Done(c)
     \/ rec' = again /\ Become(c, [calls[c] EXCEPT !.at = "rerun", !.snap = again])
  /\ UNCHANGED <<timers, schedule>> /\ UNCHANGED retryAgentVars /\ UNCHANGED historyVars

\* The offsite targets are added and the same array is saved a second time,
\* or the storage pool is not found.
Rerun(c) ==
  /\ At(c, "rerun")
  /\ \/ rec' = calls[c].snap /\ Become(c, Call("trigger", calls[c].job, calls[c].attempt))
     \/ Become(c, Call("fail", calls[c].job, calls[c].attempt)) /\ UNCHANGED rec
  /\ UNCHANGED <<timers, schedule>> /\ UNCHANGED retryAgentVars /\ UNCHANGED historyVars

-----------------------------------------------------------------------------
(* The agent's run and its reports *)

\* Status updates while the script runs; one is enough to tell.
Progress(j) ==
  /\ run = j /\ exit[j] = "none" /\ mail[j] = <<>> /\ rec[j].status # "running"
  /\ mail' = [mail EXCEPT ![j] = <<"running">>]
  /\ UNCHANGED <<run, exit, runs>> /\ UNCHANGED retryControllerVars /\ UNCHANGED historyVars

\* The script ends and its shell records the exit code.
ScriptEnds(j) ==
  /\ run = j /\ exit[j] = "none"
  /\ \E code \in {"completed", "failed"} : exit' = [exit EXCEPT ![j] = code]
  /\ UNCHANGED <<run, mail, runs>> /\ UNCHANGED retryControllerVars /\ UNCHANGED historyVars

\* The agent notices, deletes the recorded code and reports.  A failure whose
\* backup phase had been recognised as failed before is reported as a repeat
\* (see AgentExecutor).
EndRun(j) ==
  /\ run = j /\ exit[j] # "none"
  /\ run' = NoJob /\ exit' = [exit EXCEPT ![j] = "none"]
  /\ \E verdict \in {exit[j]} \cup (IF exit[j] = "failed" THEN {"repeat"} ELSE {}) :
       mail' = [mail EXCEPT ![j] = Append(@, verdict)]
  /\ UNCHANGED runs /\ UNCHANGED retryControllerVars /\ UNCHANGED historyVars

\* Somebody backs the machine up without the controller.
ForeignRun ==
  /\ \/ run = NoJob /\ foreigns < MaxForeign /\ run' = Foreign /\ foreigns' = foreigns + 1
     \/ run = Foreign /\ run' = NoJob /\ UNCHANGED foreigns
  /\ UNCHANGED <<exit, mail, runs>> /\ UNCHANGED retryControllerVars
  /\ UNCHANGED <<asked, cancelled, lost, overlap, restarts>>

Status(report, r) ==
  CASE report = "repeat" -> r.status
    [] report = "failed" /\ r.attempt < MaxAttempts -> "retrying"
    [] OTHER -> report

\* POST /jobs/:id/update: one atomic update, then the retry is asked for.
Update(j, c) ==
  /\ mail[j] # <<>> /\ Free(c)
  /\ mail' = [mail EXCEPT ![j] = Tail(@)]
  /\ LET report == Head(mail[j]) IN
     IF Stored(rec, j)
     THEN /\ rec' = Ended(rec, j, Status(report, rec[j]))
          /\ IF report = "failed" /\ rec'[j].status = "retrying"
             THEN Become(c, Call("handle", j, rec[j].attempt))
             ELSE UNCHANGED calls
     ELSE UNCHANGED <<rec, calls>>
  /\ UNCHANGED <<timers, schedule, run, exit, runs>> /\ UNCHANGED historyVars

-----------------------------------------------------------------------------
(* Operators, and restarts of the controller *)

\* POST /kill/:jobId.  A retry that waits is cancelled here.
KillJob(j, c) ==
  /\ j \notin asked /\ Cardinality(asked) < MaxKills /\ Free(c) /\ Stored(rec, j)
  /\ asked' = asked \cup {j}
  /\ IF rec[j].status = "retrying"
     THEN /\ calls' = [[d \in Calls |-> IF d = timers[j] THEN Idle ELSE calls[d]]
                       EXCEPT ![c] = [Call("killSave", j, 0) EXCEPT !.snap = rec]]
          /\ timers' = [timers EXCEPT ![j] = NoCall]
     ELSE Become(c, [Call("kill", j, 0) EXCEPT !.snap = rec]) /\ UNCHANGED timers
  /\ UNCHANGED <<rec, schedule, cancelled, lost, overlap, restarts, foreigns>>
  /\ UNCHANGED retryAgentVars

\* The agent ends the run and reports its failure before it answers; it
\* refuses when it does not have the job.
KillAtAgent(c) ==
  /\ At(c, "kill")
  /\ LET j == calls[c].job IN
     IF run = j
     THEN /\ run' = NoJob /\ exit' = [exit EXCEPT ![j] = "failed"]
          /\ mail' = [mail EXCEPT ![j] = Append(@, "failed")]
          /\ Go(c, "killSave")
     ELSE Done(c) /\ UNCHANGED <<run, exit, mail>>
  /\ UNCHANGED <<rec, timers, schedule, runs>> /\ UNCHANGED historyVars

\* The array read before the agent was asked is saved.  The agent has answered
\* when its report of the failure was taken.
KillSave(c) ==
  /\ At(c, "killSave")
  /\ LET j == calls[c].job IN
     /\ calls[c].snap[j].status = "retrying" \/ mail[j] = <<>>
     /\ rec' = Ended(calls[c].snap, j,
                     IF calls[c].snap[j].status = "retrying" THEN "failed" ELSE "cancelled")
     /\ cancelled' = cancelled \cup {j}
  /\ Done(c)
  /\ UNCHANGED <<timers, schedule, asked, lost, overlap, restarts, foreigns>> /\ UNCHANGED retryAgentVars

\* Deleting a schedule stops its fires; pending retries stay.
DeleteSchedule ==
  /\ MaxDeletions > 0 /\ schedule
  /\ schedule' = FALSE
  /\ UNCHANGED <<rec, calls, timers>> /\ UNCHANGED retryAgentVars /\ UNCHANGED historyVars

\* Calls and timers are gone; the recovery at the start reads the jobs.
RetryRestart(c) ==
  /\ restarts < MaxRestarts
  /\ restarts' = restarts + 1
  /\ calls' = [[d \in Calls |-> Idle] EXCEPT ![c] =
                 [Call("recover", NoJob, 0) EXCEPT !.snap = rec]]
  /\ timers' = [j \in JobIds |-> NoCall]
  /\ UNCHANGED <<rec, schedule, asked, cancelled, lost, overlap, foreigns>>
  /\ UNCHANGED retryAgentVars

\* What the agent finds of the job; nothing at all counts as a failure.
LiveStatus(j) == IF exit[j] # "none" THEN exit[j]
                 ELSE IF run = j THEN "running" ELSE "failed"

\* The jobs among `array` the agent is asked about, and are still recorded.
Recovered(array) == {j \in JobIds : array[j].status = "running" /\ Stored(rec, j)}

\* recoverBackupJobs: only what changed since the array was read is written.
\* An offline host is left to a later reconciliation; when an online one does
\* not answer, all its jobs have failed.
recoverBackupJobs(c) ==
  /\ At(c, "recover")
  /\ \/ /\ rec' = [j \in JobIds |->
                    IF j \in Recovered(calls[c].snap) /\ LiveStatus(j) # "running"
                    THEN [rec[j] EXCEPT !.status = LiveStatus(j)] ELSE rec[j]]
        /\ UNCHANGED lost
     \/ /\ Cardinality(lost) < MaxLost
        /\ rec' = [j \in JobIds |-> IF j \in Recovered(calls[c].snap)
                                  THEN [rec[j] EXCEPT !.status = "failed"] ELSE rec[j]]
        /\ lost' = lost \cup Recovered(calls[c].snap)
     \/ UNCHANGED <<rec, lost>>
  /\ Done(c)
  /\ UNCHANGED <<timers, schedule, asked, cancelled, overlap, restarts, foreigns>>
  /\ UNCHANGED retryAgentVars

RunStep(c) ==
  \/ CheckStatus(c) \/ removeJob(c)
  \/ Answered(c) \/ FailRead(c) \/ FailSave(c)
  \/ Accept(c) \/ Busy(c)
  \/ handleScheduledBackupFailure(c) \/ Arm(c) \/ Defer(c)
  \/ TimerFires(c) \/ Due(c) \/ Lapse(c) \/ retryExistingJob(c) \/ Rerun(c)
  \/ KillAtAgent(c) \/ KillSave(c) \/ recoverBackupJobs(c)

RetryNext ==
  \/ DeleteSchedule \/ ForeignRun
  \/ \E c \in Calls : RunStep(c) \/ NoAnswer(c) \/ Unreachable(c) \/ RetryRestart(c)
  \/ \E j \in JobIds : Progress(j) \/ ScriptEnds(j) \/ EndRun(j)
  \/ \E j \in JobIds, c \in Calls :
       executeScheduledBackup(j, c) \/ Update(j, c) \/ KillJob(j, c)

\* Files are read and saved, requests answered or timed out, timers fire,
\* scripts end, and the agent keeps reporting until it is heard.
RetryFairness ==
  /\ \A c \in Calls : WF_retryVars(RunStep(c))
  /\ \A j \in JobIds : WF_retryVars(ScriptEnds(j)) /\ WF_retryVars(EndRun(j)) /\ WF_retryVars(\E c \in Calls : Update(j, c))

RetrySpec == RetryInit /\ [][RetryNext]_retryVars /\ RetryFairness

-----------------------------------------------------------------------------
(* Properties *)

\* Nobody cancelled a job, the agent's answers about j arrived, and
\* the schedule only fired when everything of the job before was over.
Undisturbed(j) == asked = {} /\ j \notin lost /\ ~overlap

\* What j waits for: a call or timer of its own that does not merely wait to
\* kill it.
Coming(j) == \E c \in Calls : calls[c].job = j /\ calls[c].at # "kill"

\* A job shown as waiting for a retry has one coming, as long as its schedule
\* exists and the controller keeps running: the status is decided by the
\* update handler, the timer by the scheduler, from what each has read.
RetryIsComing ==
  schedule /\ restarts = 0 /\ asked = {} /\ ~overlap =>
    \A j \in JobIds : rec[j].status = "retrying" => Coming(j)

\* The agent is not asked for more runs of a job than its schedule allows:
\* a deferred or repeated request does not count twice, and a failure is
\* not answered by two retries.  Undisturbed jobs only: when the answer to a
\* request is lost, the request and the run may each be answered by a retry.
Budget == \A j \in JobIds : Undisturbed(j) => runs[j] <= MaxAttempts

Recovery == \E c \in Calls : recoverBackupJobs(c)

\* An undisturbed job that is known to be completed is not run again or shown
\* otherwise by the calls for it that are still under way when the report
\* arrives; but for a recovery, which commits what it concluded from an older
\* array.  The retry that a lost answer set off, and the kill handler, which
\* saves an array it read before, may undo it.
CompletedStays ==
  [][\A j \in JobIds : rec[j].status = "completed" /\ Undisturbed(j)' /\ ~Recovery =>
       rec'[j].status = "completed"]_retryVars

\* A retry ends: the job runs again or is given up, also while its machine
\* is busy for good.
RetryEnds ==
  \A j \in JobIds :
    rec[j].status = "retrying" ~>
      \/ run = j \/ rec[j].status \notin Active
      \/ ~schedule \/ restarts > 0 \/ asked # {} \/ overlap

\* A backup its operator was told is cancelled is not started again:
\* "Auto-retry scheduled backups that failed (not user-cancelled)".
CancelledStays == \A j \in cancelled : rec[j].status \notin Active
=============================================================================
