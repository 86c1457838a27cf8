----------------------------- MODULE HostSlots -----------------------------
(***************************************************************************)
(* The concurrency slots of one backup host in the controller: how a fire  *)
(* of a schedule gets a slot or waits, how waiting jobs are started when a *)
(* slot frees, and who else starts backups or frees slots                  *)
(* (controller services/schedulerService.js and routes/backups.js).        *)
(*                                                                         *)
(* Fires and drains take turns: _withHostLock chains them.  Manual backups *)
(* and the retries of runs that were skipped while the host was offline do *)
(* not.  Most changes are made by reading the array of jobs and saving it  *)
(* after an await; a call keeps the array it has read.                     *)
(* Schedules have no retries here (retryCount 0): see RetryLifecycle.      *)
(***************************************************************************)
EXTENDS Naturals, Sequences, FiniteSets

CONSTANTS
  Machines,       \* virtual machines backed up by the host, each with a schedule
  NoMachine,
  MaxJobs,        \* job ids, in the order they are given out
  Calls,          \* bound on the handlers under way at once
  Interval,       \* the call of the periodic pass, which has one of its own
  Limit,          \* maxConcurrentBackups of the host; 0 is no limit
  Events,         \* what else may happen: operators, faults, time
  MaxEvents       \* bound on how often something of it happens

Jobs == 1 .. MaxJobs
NoJob == 0

ASSUME MachinesAssumption == NoMachine \notin Machines
ASSUME CallsAssumption == Interval \in Calls
ASSUME BoundsAssumption ==
  /\ MaxJobs \in Nat /\ Limit \in Nat /\ MaxEvents \in Nat
  /\ Events \subseteq {"manual", "retry", "down", "unreachable", "lost",
                       "delete", "day"}

VARIABLES
  rec,        \* the stored job records
  next,       \* the next job id
  calls,      \* handlers under way
  chain,      \* _hostLocks: who has the lock of the host, and who waits for it
  online,     \* the status of the host in the controller
  schedules,  \* machines whose schedule exists
  run,        \* the agent: the job each machine is busy with
  mail,       \* the outcome of a job the controller has yet to handle
  runs,       \* history: how often the agent started a job
  slotted,    \* history: jobs started by a decision under the lock
  stale,      \* history: an array was saved over changes it had not seen
  lost,       \* history: jobs with a request whose answer was lost
  used        \* history: how many events there were

recordVars == <<rec, next, online, schedules>>
agentVars == <<run, mail, runs>>
historyVars == <<slotted, stale, lost, used>>
vars == <<rec, next, calls, chain, online, schedules, run, mail, runs, slotted, stale, lost, used>>

\* "waiting" is the status queued with the flag pendingStart, "queued" the same
\* status without it; old is a startTime more than 24 hours ago.
Active == {"waiting", "queued", "running"}
Occupying == {"queued", "running"}
Statuses == Active \cup {"none", "skipped", "completed", "failed"}
Record == [status : Statuses, machine : Machines \cup {NoMachine}, old : BOOLEAN]
NoRecord == [status |-> "none", machine |-> NoMachine, old |-> FALSE]
New(status, m) == [status |-> status, machine |-> m, old |-> FALSE]
Arrays == [Jobs -> Record]

\* What a call does next; the first group reads the array of jobs, edits and saves it.
Edits == {"push", "claim", "mark", "siblings", "retire", "drop", "remove", "fail", "sweep"}
Places == Edits \cup {"idle", "slot", "check", "trigger", "accepted", "failed",
                      "drain", "next", "preflight", "sync"}
\* Who makes a call: a fire, a drain, the retry of a run that was skipped,
\* an operator who retries a run, or who asks for a new one.
Kinds == {"none", "fire", "drain", "retry", "again", "manual"}
CallType ==
  [at : Places, kind : Kinds, job : Jobs \cup {NoJob}, machine : Machines \cup {NoMachine},
   todo : SUBSET Jobs, known : SUBSET Machines, array : Arrays \cup {<<>>}]
Idle == [at |-> "idle", kind |-> "none", job |-> NoJob, machine |-> NoMachine,
         todo |-> {}, known |-> {}, array |-> <<>>]
Call(at, kind) == [Idle EXCEPT !.at = at, !.kind = kind]

Init ==
  /\ rec = [j \in Jobs |-> NoRecord] /\ next = 1
  /\ calls = [c \in Calls |-> Idle] /\ chain = <<>>
  /\ online = TRUE /\ schedules = Machines
  /\ run = [m \in Machines |-> NoJob] /\ mail = [j \in Jobs |-> "none"]
  /\ runs = [j \in Jobs |-> 0]
  /\ slotted = {} /\ stale = FALSE /\ lost = {} /\ used = 0

-----------------------------------------------------------------------------
(* Helpers *)

Stored(array, j) == array[j].status # "none"
Jobless(m, array, statuses) ==
  \A j \in Jobs : array[j].machine = m => array[j].status \notin statuses
Ended(array, j, status) == [array EXCEPT ![j].status = status]

\* Mutant: jobs that wait are counted too.
countWaitingToo(array) ==
  Cardinality({j \in Jobs : array[j].status \in Active /\ ~array[j].old})

\* countActiveJobsOnHost: jobs that wait take no slot, and jobs that are more
\* than a day old do not keep theirs.
countActiveJobsOnHost(array) ==
  Cardinality({j \in Jobs : array[j].status \in Occupying /\ ~array[j].old})
Full(array) == Limit # 0 /\ countActiveJobsOnHost(array) >= Limit

Free(c) == calls[c] = Idle
Spare(c) == Free(c) /\ c # Interval
At(c, place) == calls[c].at = place
Become(c, call) == calls' = [calls EXCEPT ![c] = call]
Go(c, place) == Become(c, [calls[c] EXCEPT !.at = place])
\* A request of the agent, and everything else a call does, is over in minutes.
Attended(j) == \E c \in Calls : calls[c].job = j
Happens(event) == event \in Events /\ used < MaxEvents /\ used' = used + 1

\* Bound: every skipped run has an id left for its retry.
IdsLeft(n) == next + n - 1 + Cardinality({j \in Jobs : rec[j].status = "skipped"}) <= MaxJobs

Lock(c) == chain' = Append(chain, c)
HasLock(c) == chain # <<>> /\ Head(chain) = c

-----------------------------------------------------------------------------
(* A fire of a schedule: executeScheduledBackup *)

\* An offline host is recorded as skipped; an online one is asked for a slot.
executeScheduledBackup(m, c) ==
  /\ m \in schedules /\ Spare(c)
  /\ IF online
     THEN /\ IdsLeft(1)
          /\ Become(c, [Call("slot", "fire") EXCEPT !.job = next, !.machine = m])
          /\ Lock(c) /\ UNCHANGED rec
     ELSE /\ IdsLeft(2)
          /\ rec' = [rec EXCEPT ![next] = New("skipped", m)]
          /\ UNCHANGED <<calls, chain>>
  /\ next' = next + 1
  /\ UNCHANGED <<online, schedules>> /\ UNCHANGED agentVars /\ UNCHANGED historyVars

\* Mutant: the decision does not wait for the lock.
ReserveAtOnce(c) ==
  /\ At(c, "slot")
  /\ LET j == calls[c].job
         m == calls[c].machine
         others == SelectSeq(chain, LAMBDA d : d # c) IN
     \/ /\ ~Jobless(m, rec, Active)
        /\ Become(c, Idle) /\ chain' = others /\ UNCHANGED <<rec, slotted>>
     \/ /\ Jobless(m, rec, Active) /\ Full(rec)
        /\ rec' = [rec EXCEPT ![j] = New("waiting", m)]
        /\ Become(c, Call("drain", "drain")) /\ chain' = Append(others, c)
        /\ UNCHANGED slotted
     \/ /\ Jobless(m, rec, Active) /\ ~Full(rec)
        /\ rec' = [rec EXCEPT ![j] = New("running", m)]
        /\ Go(c, "check") /\ chain' = others /\ slotted' = slotted \cup {j}
  /\ UNCHANGED <<next, online, schedules, stale, lost, used>> /\ UNCHANGED agentVars

\* Under the lock, in one update: no record when the machine has an active job;
\* a waiting one, and a drain, when the host is full; else a running one.
Reserve(c) ==
  /\ At(c, "slot") /\ HasLock(c)
  /\ LET j == calls[c].job
         m == calls[c].machine IN
     \/ /\ ~Jobless(m, rec, Active)
        /\ Become(c, Idle) /\ chain' = Tail(chain) /\ UNCHANGED <<rec, slotted>>
     \/ /\ Jobless(m, rec, Active) /\ Full(rec)
        /\ rec' = [rec EXCEPT ![j] = New("waiting", m)]
        /\ Become(c, Call("drain", "drain")) /\ chain' = Append(Tail(chain), c)
        /\ UNCHANGED slotted
     \/ /\ Jobless(m, rec, Active) /\ ~Full(rec)
        /\ rec' = [rec EXCEPT ![j] = New("running", m)]
        /\ Go(c, "check") /\ chain' = Tail(chain) /\ slotted' = slotted \cup {j}
  /\ UNCHANGED <<next, online, schedules, stale, lost, used>> /\ UNCHANGED agentVars

\* The host is asked first: when the machine is busy there the record is
\* removed again; when it does not answer the backup goes ahead.
CheckStatus(c) ==
  /\ At(c, "check")
  /\ \/ run[calls[c].machine] # NoJob /\ Go(c, "remove")
     \/ Go(c, "trigger")
  /\ UNCHANGED chain /\ UNCHANGED recordVars /\ UNCHANGED agentVars /\ UNCHANGED historyVars

-----------------------------------------------------------------------------
(* The request to the agent, whoever makes it *)

Accept(c) ==
  /\ At(c, "trigger") /\ run[calls[c].machine] = NoJob
  /\ run' = [run EXCEPT ![calls[c].machine] = calls[c].job]
  /\ runs' = [runs EXCEPT ![calls[c].job] = @ + 1]
  /\ Go(c, "accepted")
  /\ UNCHANGED <<chain, mail>> /\ UNCHANGED recordVars /\ UNCHANGED historyVars

\* A fire and a drain have set their record to running before they asked.
Answered(c) ==
  /\ At(c, "accepted")
  /\ Become(c, CASE calls[c].kind = "fire" -> Idle
                 [] calls[c].kind = "drain" -> [calls[c] EXCEPT !.at = "next"]
                 [] OTHER -> [calls[c] EXCEPT !.at = "mark"])
  /\ UNCHANGED chain /\ UNCHANGED recordVars /\ UNCHANGED agentVars /\ UNCHANGED historyVars

\* 409: the machine is busy.  A retry takes this for good news and withdraws;
\* the run it was to replace keeps its record.
Refuse(c) ==
  /\ At(c, "trigger") /\ run[calls[c].machine] # NoJob
  /\ Become(c, IF calls[c].kind \in {"retry", "again"}
               THEN [calls[c] EXCEPT !.at = "drop", !.todo = {}]
               ELSE [calls[c] EXCEPT !.at = "failed"])
  /\ UNCHANGED chain /\ UNCHANGED recordVars /\ UNCHANGED agentVars /\ UNCHANGED historyVars

\* The agent does not answer, or the machine, its hypervisor or the pool is gone.
Unreachable(c) ==
  /\ At(c, "trigger") /\ Happens("unreachable")
  /\ Go(c, "failed")
  /\ UNCHANGED <<chain, slotted, stale, lost>> /\ UNCHANGED recordVars /\ UNCHANGED agentVars

\* The answer is lost, and the request times out.
Unanswered(c) ==
  /\ At(c, "accepted") /\ Happens("lost")
  /\ lost' = lost \cup {calls[c].job}
  /\ Go(c, "failed")
  /\ UNCHANGED <<chain, slotted, stale>> /\ UNCHANGED recordVars /\ UNCHANGED agentVars

\* The catch blocks: a drain and a retry patch the record, the others read the
\* array and save it.
Failed(c) ==
  /\ At(c, "failed")
  /\ IF calls[c].kind \in {"drain", "retry"}
     THEN /\ rec' = IF Stored(rec, calls[c].job) THEN Ended(rec, calls[c].job, "failed") ELSE rec
          /\ Become(c, [calls[c] EXCEPT !.at = "next",
               !.array = IF calls[c].kind = "drain" THEN Ended(@, calls[c].job, "failed") ELSE @])
     ELSE Go(c, "fail") /\ UNCHANGED rec
  /\ UNCHANGED <<chain, next, online, schedules>> /\ UNCHANGED agentVars /\ UNCHANGED historyVars

-----------------------------------------------------------------------------
(* Calls that read the array of jobs, edit it and save all of it *)

\* failStuckJobsOnHost: sent but not begun after 20 minutes, or more than a day
\* old and not confirmed by the agent a moment ago.  Jobs that wait are spared.
Stuck(array) ==
  {j \in Jobs : \/ array[j].status = "queued" /\ ~Attended(j)
                \/ /\ array[j].status = "running" /\ array[j].old
                   /\ \A m \in Machines : run[m] # j}

\* The decision of an operator's retry, under the lock.
Claimable(call) == Jobless(call.machine, call.array, Occupying) /\ ~Full(call.array)

Edited(call) ==
  LET j == call.job
      array == call.array IN
  CASE call.at = "push" -> [array EXCEPT ![j] = New("queued", call.machine)]
    [] call.at = "claim" ->
         IF Claimable(call) THEN [array EXCEPT ![j] = New("queued", call.machine)] ELSE array
    [] call.at = "retire" -> [k \in Jobs |-> IF k \in call.todo THEN NoRecord ELSE array[k]]
    [] call.at = "mark" -> IF array[j].status = "queued" THEN Ended(array, j, "running") ELSE array
    [] call.at = "siblings" ->
         [k \in Jobs |-> IF k # j /\ array[k].status = "skipped" /\ array[k].machine = call.machine
                         THEN [array[k] EXCEPT !.status = "failed"] ELSE array[k]]
    [] call.at \in {"drop", "remove"} -> [array EXCEPT ![j] = NoRecord]
    [] call.at = "fail" ->
         IF Stored(array, j) \/ call.kind \in {"manual", "again"}
         THEN [array EXCEPT ![j] = [New("failed", call.machine) EXCEPT !.old = array[j].old]]
         ELSE array
    [] call.at = "sweep" ->
         [k \in Jobs |-> IF k \in Stuck(array) THEN [array[k] EXCEPT !.status = "failed"]
                         ELSE array[k]]

\* Where the call goes after the save.
Resumed(call) ==
  LET saved == [call EXCEPT !.array = <<>>] IN
  CASE call.at = "push" -> [saved EXCEPT !.at = "trigger"]
    [] call.at = "claim" /\ Claimable(call) -> [saved EXCEPT !.at = "trigger"]
    [] call.at = "claim" /\ ~Jobless(call.machine, call.array, Occupying) ->
         [saved EXCEPT !.at = "siblings", !.todo = {}]
    [] call.at = "mark" /\ call.kind \in {"retry", "again"} -> [saved EXCEPT !.at = "siblings"]
    [] call.at = "drop" -> [saved EXCEPT !.at = "siblings"]
    [] call.at = "siblings" /\ call.kind = "retry" -> [saved EXCEPT !.at = "next"]
    [] call.at \in {"siblings", "fail"} /\ call.todo # {} -> [saved EXCEPT !.at = "retire"]
    [] call.at = "sweep" -> Call("drain", "drain")
    [] OTHER -> Idle

\* A sweep asks for the lock, a decision gives it back.
Chained(c) == CASE At(c, "sweep") -> Append(chain, c)
                [] At(c, "claim") -> Tail(chain)
                [] OTHER -> chain

\* The array is edited as soon as it was read; nothing is written when there is
\* nothing to edit.
ReadJobs(c) ==
  /\ calls[c].at \in Edits /\ calls[c].array = <<>>
  /\ At(c, "claim") => HasLock(c)
  /\ LET read == [calls[c] EXCEPT !.array = rec] IN
     IF Edited(read) = rec
     THEN Become(c, Resumed(read)) /\ chain' = Chained(c)
     ELSE Become(c, read) /\ UNCHANGED chain
  /\ UNCHANGED recordVars /\ UNCHANGED agentVars /\ UNCHANGED historyVars

\* What was saved in the meantime is undone.
SaveJobs(c) ==
  /\ calls[c].at \in Edits /\ calls[c].array # <<>>
  /\ rec' = Edited(calls[c]) /\ stale' = (stale \/ calls[c].array # rec)
  /\ Become(c, Resumed(calls[c]))
  /\ chain' = Chained(c)
  /\ slotted' = IF At(c, "claim") THEN slotted \cup {calls[c].job} ELSE slotted
  /\ UNCHANGED <<next, online, schedules, lost, used>> /\ UNCHANGED agentVars

-----------------------------------------------------------------------------
(* The drain: releaseConcurrentSlotsOnHost, _startQueuedJob *)

\* The jobs that wait, the oldest first, as far as there are slots.
Waiting(array) == {j \in Jobs : array[j].status = "waiting" /\ ~array[j].old}
Startable(array) ==
  {j \in Waiting(array) :
     \/ Limit = 0
     \/ Cardinality({k \in Waiting(array) : k < j}) + countActiveJobsOnHost(array) < Limit}

releaseConcurrentSlotsOnHost(c) ==
  /\ At(c, "drain") /\ HasLock(c)
  /\ IF Startable(rec) = {}
     THEN Become(c, Idle) /\ chain' = Tail(chain)
     ELSE /\ Become(c, [Call("next", "drain") EXCEPT
                          !.todo = Startable(rec), !.known = schedules, !.array = rec])
          /\ UNCHANGED chain
  /\ UNCHANGED recordVars /\ UNCHANGED agentVars /\ UNCHANGED historyVars

\* Mutant: the patch does not say that the job waits no longer.
startStillWaiting(c) ==
  /\ At(c, "next") /\ calls[c].kind = "drain" /\ calls[c].todo # {}
  /\ \E j \in calls[c].todo :
       /\ \A k \in calls[c].todo : j <= k
       /\ LET held == calls[c].array
              m == held[j].machine
              rest == [calls[c] EXCEPT !.todo = @ \ {j}] IN
          IF m \in calls[c].known
          THEN /\ Become(c, [rest EXCEPT !.at = "trigger", !.job = j, !.machine = m])
               /\ slotted' = slotted \cup {j}
               /\ UNCHANGED <<rec, stale>>
          ELSE /\ rec' = Ended(held, j, "failed")
               /\ Become(c, [rest EXCEPT !.array = Ended(held, j, "failed")])
               /\ stale' = (stale \/ held # rec)
               /\ UNCHANGED slotted
  /\ UNCHANGED <<chain, next, online, schedules, lost, used>> /\ UNCHANGED agentVars

\* A job whose schedule is gone is failed by saving the array the drain began
\* with; any other is set to running by a patch of its own, then triggered.
startQueuedJob(c) ==
  /\ At(c, "next") /\ calls[c].kind = "drain" /\ calls[c].todo # {}
  /\ \E j \in calls[c].todo :
       /\ \A k \in calls[c].todo : j <= k
       /\ LET held == calls[c].array
              m == held[j].machine
              rest == [calls[c] EXCEPT !.todo = @ \ {j}] IN
          IF m \in calls[c].known
          THEN /\ rec' = IF Stored(rec, j)
                         THEN [rec EXCEPT ![j].status = "running", ![j].old = FALSE] ELSE rec
               /\ Become(c, [rest EXCEPT !.at = "trigger", !.job = j, !.machine = m,
                               !.array = Ended(held, j, "running")])
               /\ slotted' = slotted \cup {j}
               /\ UNCHANGED stale
          ELSE /\ rec' = Ended(held, j, "failed")
               /\ Become(c, [rest EXCEPT !.array = Ended(held, j, "failed")])
               /\ stale' = (stale \/ held # rec)
               /\ UNCHANGED slotted
  /\ UNCHANGED <<chain, next, online, schedules, lost, used>> /\ UNCHANGED agentVars

\* A loop ends; a drain gives the lock back.
LoopEnds(c) ==
  /\ At(c, "next")
  /\ IF calls[c].kind = "drain"
     THEN calls[c].todo = {} /\ chain' = Tail(chain)
     ELSE calls[c].known = {} /\ UNCHANGED chain
  /\ Become(c, Idle)
  /\ UNCHANGED recordVars /\ UNCHANGED agentVars /\ UNCHANGED historyVars

-----------------------------------------------------------------------------
(* The host goes and comes back: checkHostsHealth, retrySkippedBackupsForHosts *)

HostDown ==
  /\ online /\ Happens("down")
  /\ online' = FALSE
  /\ UNCHANGED <<rec, next, calls, chain, schedules, slotted, stale, lost>> /\ UNCHANGED agentVars

\* Machines with skipped runs of the last day; one retry stands for all of them.
Missed == {m \in schedules : \E j \in Jobs :
             rec[j].status = "skipped" /\ rec[j].machine = m /\ ~rec[j].old}

HostUp(c) ==
  /\ ~online /\ Spare(c)
  /\ online' = TRUE
  /\ IF Missed = {} THEN UNCHANGED calls
     ELSE Become(c, [Call("next", "retry") EXCEPT !.known = Missed])
  /\ UNCHANGED <<rec, next, chain, schedules>> /\ UNCHANGED agentVars /\ UNCHANGED historyVars

\* Under no lock, and without asking for a slot.
retrySkippedJob(c) ==
  /\ At(c, "next") /\ calls[c].kind = "retry" /\ next <= MaxJobs
  /\ \E m \in calls[c].known :
       Become(c, [calls[c] EXCEPT !.at = "push", !.job = next, !.machine = m,
                    !.known = @ \ {m}])
  /\ next' = next + 1
  /\ UNCHANGED <<rec, chain, online, schedules>> /\ UNCHANGED agentVars /\ UNCHANGED historyVars

-----------------------------------------------------------------------------
(* Operators: POST /trigger, POST /jobs/:jobId/retry, deleted schedules *)

\* Checks on one array, which is saved with the new record after the host was
\* asked.  Jobs that wait do not stop a manual backup of their machine, but count.
Manual(m, c) ==
  /\ Spare(c) /\ online /\ IdsLeft(1) /\ Happens("manual")
  /\ Jobless(m, rec, Occupying)
  /\ Limit = 0 \/ Cardinality({j \in Jobs : rec[j].status \in Active}) < Limit
  /\ Become(c, [Call("preflight", "manual") EXCEPT !.job = next, !.machine = m, !.array = rec])
  /\ next' = next + 1
  /\ UNCHANGED <<rec, chain, online, schedules, slotted, stale, lost>> /\ UNCHANGED agentVars

Preflight(c) ==
  /\ At(c, "preflight")
  /\ \/ run[calls[c].machine] # NoJob /\ Become(c, Idle)
     \/ Go(c, "push")
  /\ UNCHANGED chain /\ UNCHANGED recordVars /\ UNCHANGED agentVars /\ UNCHANGED historyVars

\* A run that failed or was skipped is retried when its machine has no active job;
\* the slot is decided later, under the lock.  A failed run gives way to its retry.
RetryRun(j, c) ==
  /\ Spare(c) /\ online /\ IdsLeft(1) /\ Happens("retry")
  /\ rec[j].status \in {"failed", "skipped"}
  /\ Jobless(rec[j].machine, rec, Active)
  /\ Become(c, [Call("claim", "again") EXCEPT !.job = next, !.machine = rec[j].machine,
                  !.todo = IF rec[j].status = "failed" THEN {j} ELSE {}])
  /\ Lock(c) /\ next' = next + 1
  /\ UNCHANGED <<rec, online, schedules, slotted, stale, lost>> /\ UNCHANGED agentVars

DeleteSchedule(m) ==
  /\ m \in schedules /\ Happens("delete")
  /\ schedules' = schedules \ {m}
  /\ UNCHANGED <<rec, next, calls, chain, online, slotted, stale, lost>> /\ UNCHANGED agentVars

-----------------------------------------------------------------------------
(* The agent's runs, and what the controller makes of them *)

End(m) ==
  /\ run[m] # NoJob
  /\ \E outcome \in {"completed", "failed"} : mail' = [mail EXCEPT ![run[m]] = outcome]
  /\ run' = [run EXCEPT ![m] = NoJob]
  /\ UNCHANGED <<calls, chain, runs>> /\ UNCHANGED recordVars /\ UNCHANGED historyVars

\* POST /jobs/:id/update: the outcome is recorded, and the slot passed on.
Update(j, c) ==
  /\ mail[j] # "none" /\ Spare(c)
  /\ mail' = [mail EXCEPT ![j] = "none"]
  /\ IF Stored(rec, j)
     THEN rec' = Ended(rec, j, mail[j]) /\ Become(c, Call("drain", "drain")) /\ Lock(c)
     ELSE UNCHANGED <<rec, calls, chain>>
  /\ UNCHANGED <<next, online, schedules, run, runs>> /\ UNCHANGED historyVars

\* reconcileAndDrainAllHosts, every two minutes: the agent is asked about the
\* jobs that hold a slot (syncHost), stuck ones are failed, the queue is drained.
reconcileAndDrainAllHosts(c) ==
  /\ c = Interval /\ Free(c) /\ online
  /\ \E j \in Jobs : rec[j].status \in Active
  /\ Become(c, [Call("sync", "none") EXCEPT !.array = rec])
  /\ UNCHANGED chain /\ UNCHANGED recordVars /\ UNCHANGED agentVars /\ UNCHANGED historyVars

\* Mutant: a job the agent does not know is left alone.
VerdictOfTheLiving(j) ==
  IF \E m \in Machines : run[m] = j THEN "running" ELSE "unchanged"

\* What the agent says of a job: it runs it, or it does not know it and has not
\* for half an hour, or nothing can be said.
Verdict(j) == IF \E m \in Machines : run[m] = j THEN "running"
              ELSE IF ~Attended(j) /\ mail[j] = "none" THEN "failed" ELSE "unchanged"

\* Mutant: whatever the agent says becomes the status.
syncVerbatim(c) ==
  /\ At(c, "sync")
  /\ rec' = [j \in Jobs |->
       IF calls[c].array[j].status \in Occupying /\ Stored(rec, j)
       THEN [rec[j] EXCEPT !.status = Verdict(j)] ELSE rec[j]]
  /\ Become(c, [calls[c] EXCEPT !.at = "sweep", !.array = <<>>])
  /\ UNCHANGED <<chain, next, online, schedules>> /\ UNCHANGED agentVars /\ UNCHANGED historyVars

\* Only what changed since the array was read is committed.
syncHost(c) ==
  /\ At(c, "sync")
  /\ rec' = [j \in Jobs |->
       IF /\ calls[c].array[j].status \in Occupying /\ Stored(rec, j)
          /\ Verdict(j) \notin {"unchanged", calls[c].array[j].status}
       THEN [rec[j] EXCEPT !.status = Verdict(j)] ELSE rec[j]]
  /\ Become(c, [calls[c] EXCEPT !.at = "sweep", !.array = <<>>])
  /\ UNCHANGED <<chain, next, online, schedules>> /\ UNCHANGED agentVars /\ UNCHANGED historyVars

-----------------------------------------------------------------------------
(* Time *)

\* A day goes by.  No handler takes that long, and while the host is online no
\* job is left waiting: its slots are freed and passed on in the meantime.
DayPasses ==
  /\ \A c \in Calls : Free(c)
  /\ online => \A j \in Jobs : rec[j].status # "waiting"
  /\ Happens("day")
  /\ rec' = [j \in Jobs |-> [rec[j] EXCEPT !.old = Stored(rec, j)]]
  /\ UNCHANGED <<next, calls, chain, online, schedules, slotted, stale, lost>>
  /\ UNCHANGED agentVars

Step(c) ==
  \/ Reserve(c) \/ CheckStatus(c) \/ Accept(c) \/ Answered(c) \/ Refuse(c) \/ Failed(c)
  \/ ReadJobs(c) \/ SaveJobs(c)
  \/ releaseConcurrentSlotsOnHost(c) \/ startQueuedJob(c) \/ LoopEnds(c)
  \/ retrySkippedJob(c) \/ Preflight(c) \/ syncHost(c)

Next ==
  \/ HostDown \/ DayPasses
  \/ \E c \in Calls : Step(c) \/ Unreachable(c) \/ Unanswered(c)
                      \/ HostUp(c) \/ reconcileAndDrainAllHosts(c)
  \/ \E m \in Machines : End(m) \/ DeleteSchedule(m)
  \/ \E m \in Machines, c \in Calls : executeScheduledBackup(m, c) \/ Manual(m, c)
  \/ \E j \in Jobs, c \in Calls : Update(j, c) \/ RetryRun(j, c)

\* Files are read and saved, requests answered or timed out, scripts end and
\* are reported, the interval fires, and the host comes back.
Fairness ==
  /\ \A c \in Calls : WF_vars(Step(c))
  /\ \A m \in Machines : WF_vars(End(m))
  /\ \A j \in Jobs : WF_vars(\E c \in Calls : Update(j, c))
  /\ WF_vars(\E c \in Calls : reconcileAndDrainAllHosts(c))
  /\ WF_vars(\E c \in Calls : HostUp(c))

Spec == Init /\ [][Next]_vars /\ Fairness

-----------------------------------------------------------------------------
(* Properties *)

\* A drain at work, and a retry whose decision has been made but not saved.
Draining(call) == call.kind = "drain" /\ call.at \in {"next", "trigger", "accepted", "failed"}
Deciding(call) == Draining(call) \/ (call.at = "claim" /\ call.array # <<>>)

\* A call is about a job but in a few places; a drain asks for the lock, then
\* works through its jobs, and keeps the array it began with.
WellFormed(call) ==
  /\ call.at \notin {"idle", "drain", "next", "sync", "sweep"} => call.job \in Jobs
  /\ call.kind = "drain" => call.at = "drain" \/ (Draining(call) /\ call.array \in Arrays)

CallsOK ==
  /\ calls \in [Calls -> CallType] /\ \A c \in Calls : WellFormed(calls[c])
  /\ chain \in Seq(Calls)
  /\ \A c \in Calls : Deciding(calls[c]) => HasLock(c)

\* Types; and the lock belongs to whoever decides about slots, from reading
\* the jobs to the last of them started.
TypeOK ==
  /\ rec \in Arrays /\ next \in 1 .. MaxJobs + 1 /\ online \in BOOLEAN
  /\ schedules \subseteq Machines
  /\ CallsOK
  /\ run \in [Machines -> Jobs \cup {NoJob}]
  /\ mail \in [Jobs -> {"none", "completed", "failed"}] /\ runs \in [Jobs -> Nat]
  /\ slotted \subseteq Jobs /\ lost \subseteq Jobs /\ stale \in BOOLEAN
  /\ used \in 0 .. MaxEvents

\* The agent's answers arrived, and no save undid another update.
Clean == lost = {} /\ ~stale

\* Backups at the agent that were started by a decision under the lock.
Running == {m \in Machines : run[m] \in slotted /\ ~rec[run[m]].old}

\* Fires and drains, side by side, never start more backups than the host may run:
\* "Without it, 20 schedules firing at 02:00 could all start at once".
SlotLimit == Clean /\ Limit # 0 => Cardinality(Running) <= Limit

\* A job is sent to the agent once: no two drains start the same waiting job,
\* unless a save undid what one of them recorded.
StartedOnce == ~stale => \A j \in Jobs : runs[j] <= 1

\* A slot is given back, also when the agent lost the job or its report was lost.
SlotsFreed == \A j \in Jobs : rec[j].status \in Occupying ~> rec[j].status \notin Occupying

\* A job that waits is started or ended, unless it waited for a day.
QueueMoves ==
  \A j \in Jobs : rec[j].status = "waiting" ~> rec[j].status # "waiting" \/ rec[j].old
=============================================================================
