---------------------------- MODULE OffsiteJobs ----------------------------
(****************************************************************************)
(* Offsite replication of the backups of one backup host: the jobs the      *)
(* controller keeps (offsiteJobService.js) and what it concludes of them    *)
(* from the agent (agentSyncService.js), and the transfers the agent runs   *)
(* for them in sessions that outlive it (rsyncExecutor.js).                 *)
(*                                                                          *)
(* What a backup directory holds is the number of backups that landed in    *)
(* it; a transfer copies what was there when it walked the directory.       *)
(* Jobs are numbered in the order of their creation.  A post of the agent   *)
(* is handled in two steps, the read and the write, and posted again when   *)
(* its answer is lost.                                                      *)
(****************************************************************************)
EXTENDS Naturals, FiniteSets, Sequences

CONSTANTS
  VMs,                \* machines
  Limit,              \* transfers at a time
  MaxJobs, MaxLanded, MaxAttempts, MaxTroubles,  \* bounds: jobs, backups of a machine, runs
                      \* of a job, and events out of the ordinary
  Checks,             \* whether the replication check runs
  Troubles            \* the events out of the ordinary that may happen

ASSUME OffsiteAssumption ==
  /\ Limit \in Nat \ {0} /\ MaxJobs \in Nat \ {0} /\ MaxAttempts \in Nat \ {0}
  /\ MaxLanded \in Nat /\ MaxTroubles \in Nat /\ Checks \in BOOLEAN /\ VMs # {}

Verdicts == {"completed", "failed", "busy", "cancelled"}
Terminal == Verdicts \cup {"unsupported"}
Attempts == 1..MaxAttempts
JobIds == 1..MaxJobs
SyncRec == [vm: VMs, status: Terminal \cup {"queued", "running"}, followUp: BOOLEAN,
            attempt: Attempts, asked: 0..MaxLanded]

VARIABLES
  landed, copy,  \* [VMs -> Nat]: backups in the directory, and in its offsite copy
  syncs,         \* offsite-jobs.json
  wanted,        \* machines a sync was requested for, the request still waiting its turn
  request,       \* the call of requestSync under way: its step, machine and the jobs it read
  turns,         \* calls that have read the jobs and are about to write them, in order: the
                 \* promise chain of the file keeps the order of the reads
  drain,         \* the drain in flight: who waits for it, its step, the jobs it still goes
                 \* through, the machines it takes for busy, the job it starts
  inbox,         \* posts being handled: of a job, a status, and what the handler has read
  followUps,     \* finished jobs whose handler still has a follow-up to request
  operator,      \* the job an operator cancels or retries, and how far the call is
  tracked,       \* agent: activeJobs
  stateFiles,    \* agent: jobs with a state file
  monitor,       \* [JobIds -> [Attempts -> launching, watching, or the verdict it posts]]
  script,        \* [JobIds -> the script in the session of the job: none, new, copying; copied,
                 \* failed or skipped (each target, not some target, not a busy one); zero or
                 \* error, all of which it has recorded; over]
  walked,        \* [JobIds -> what the script of the job copies]
  exitCode,      \* [JobIds -> the exit code file]
  events,        \* [JobIds -> what the targets in its events file show: good, none, or old when
                 \* the file is of an earlier run and shows successes only]
  newest,        \* [VMs -> the job that wrote an events file of the machine last, 0 for none]
  orphans,       \* jobs whose transfers a killed script left behind
  doubtful,      \* history: jobs that skipped a busy target, were killed between the records of
                 \* two targets, or were judged by the events file of another run
  touched,       \* history: jobs that were ever queued again or cancelled, or whose record the
                 \* save of a request put back
  agentOld,      \* the agent predates the offsite endpoints
  troubles
dataVars == <<landed, copy>>
storeVars == <<syncs, touched>>
requestVars == <<wanted, request>>
taskVars == <<followUps, operator>>
handlerVars == <<requestVars, turns, drain, inbox, taskVars>>
agentVars == <<tracked, stateFiles, monitor, agentOld>>
sessionVars == <<script, walked, exitCode, events, newest, orphans, doubtful>>
offsiteVars == <<dataVars, storeVars, handlerVars, agentVars, sessionVars, troubles>>

Known == 1..Len(syncs)
Queued(js) == {j \in 1..Len(js) : js[j].status = "queued"}
Running(js) == {j \in 1..Len(js) : js[j].status = "running"}

\* Mutant: a job that waits for its turn does not count.
OnlyRunning(js) == Running(js)

ActiveSyncs(js) == Queued(js) \cup Running(js)
Of(js, vm) == {j \in 1..Len(js) : js[j].vm = vm}

NoRequest(vm) == [step |-> "idle", vm |-> vm, seen |-> <<>>]
NoDrain == [by |-> <<"nobody", 0>>, step |-> "idle", todo |-> {}, busy |-> {}, job |-> 0]
RequestTurn == <<"request", 0, 0, "none">>
PostTurn(p) == <<p.from, p.job, p.attempt, p.status>>
OperatorTurn == <<"operator", 0, 0, "none">>
Writes(turn) == turns # <<>> /\ Head(turns) = turn /\ turns' = Tail(turns)
Working == {"copying", "copied", "failed", "skipped", "zero", "error"}
NoCall == [job |-> 0, call |-> "none", attempt |-> 0]
Post(j, a, status, from) ==
  [job |-> j, attempt |-> a, status |-> status, from |-> from, read |-> "not yet"]

OffsiteTypeOK ==
  /\ landed \in [VMs -> 0..MaxLanded] /\ copy \in [VMs -> 0..MaxLanded]
  /\ syncs \in Seq(SyncRec) /\ Len(syncs) <= MaxJobs
  /\ wanted \subseteq VMs
  /\ request.step \in {"idle", "read"} /\ request.vm \in VMs
  /\ drain.step \in {"idle", "read", "pick", "asked", "accepted", "broken"}
  /\ drain.busy \subseteq VMs
  /\ inbox \subseteq [job: Known, attempt: Attempts, status: Verdicts \cup {"running"},
                      from: {"agent", "reconcile"}, read: {"not yet", "queued", "running"}]
  /\ followUps \subseteq Known
  /\ operator \in [job: 0..MaxJobs,
                   call: {"none", "cancel queued", "cancel running", "told", "retry"},
                   attempt: 0..MaxAttempts]
  /\ tracked \subseteq JobIds /\ stateFiles \subseteq JobIds
  /\ monitor \in [JobIds -> [Attempts -> Verdicts \cup {"none", "launching", "watching"}]]
  /\ script \in [JobIds -> {"none", "new", "over"} \cup Working]
  /\ walked \in [JobIds -> 0..MaxLanded]
  /\ exitCode \in [JobIds -> {"none", "zero", "error", "busy"}]
  /\ events \in [JobIds -> {"none", "good", "old"}] /\ newest \in [VMs -> 0..MaxJobs]
  /\ orphans \subseteq Known /\ doubtful \subseteq Known /\ touched \subseteq Known
  /\ agentOld \in BOOLEAN /\ troubles \in 0..MaxTroubles

OffsiteInit ==
  /\ landed = [v \in VMs |-> 0] /\ copy = landed /\ syncs = <<>> /\ wanted = {}
  /\ request = NoRequest(CHOOSE v \in VMs : TRUE)
  /\ drain = NoDrain /\ inbox = {} /\ followUps = {}
  /\ operator = NoCall /\ turns = <<>>
  /\ tracked = {} /\ stateFiles = {}
  /\ monitor = [j \in JobIds |-> [a \in Attempts |-> "none"]]
  /\ script = [j \in JobIds |-> "none"] /\ walked = [j \in JobIds |-> 0]
  /\ exitCode = [j \in JobIds |-> "none"] /\ events = exitCode
  /\ newest = [v \in VMs |-> 0] /\ orphans = {} /\ doubtful = {} /\ touched = {}
  /\ agentOld \in (IF "old" \in Troubles THEN BOOLEAN ELSE {FALSE}) /\ troubles = 0

Trouble(kind) == kind \in Troubles /\ troubles < MaxTroubles /\ troubles' = troubles + 1

-----------------------------------------------------------------------------
(* Requests *)

\* A drain that finds another one in flight does nothing.
StartDrain(by) ==
  drain' = IF drain.step = "idle" THEN [NoDrain EXCEPT !.by = by, !.step = "read"] ELSE drain

\* A backup ends, and the handler of its report requests a sync of the machine.
BackupLands(vm) ==
  /\ landed[vm] < MaxLanded
  /\ landed' = [landed EXCEPT ![vm] = @ + 1]
  /\ wanted' = wanted \cup {vm}
  /\ UNCHANGED <<copy, storeVars, request, turns, drain, inbox, taskVars, agentVars, sessionVars,
                 troubles>>

\* _serialize: a call starts when the one before it is over, its drain included.
RequestReads(vm) ==
  /\ request.step = "idle" /\ drain.by # <<"request", 0>> /\ vm \in wanted
  /\ request' = [step |-> "read", vm |-> vm, seen |-> syncs]
  /\ wanted' = wanted \ {vm} /\ turns' = Append(turns, RequestTurn)
  /\ UNCHANGED <<dataVars, storeVars, drain, inbox, taskVars, agentVars, sessionVars, troubles>>

NewJob(vm) ==
  [vm |-> vm, status |-> "queued", followUp |-> FALSE, attempt |-> 1, asked |-> landed[vm]]

\* Jobs whose status the save of what a request has read takes back.
PutBack(seen) == {j \in Known : seen[j].status # syncs[j].status}

\* A new job, saved with all the others as they were read; or what the active job of the
\* machine makes of the request: a running one remembers it.
RequestSaves ==
  LET seen == request.seen
      vm == request.vm
      existing == ActiveSyncs(seen) \cap Of(seen, vm) IN
  /\ request.step = "read" /\ Writes(RequestTurn)
  /\ \/ /\ existing = {} /\ Len(syncs) < MaxJobs
        /\ syncs' = Append(seen, NewJob(vm)) /\ touched' = touched \cup PutBack(seen)
        /\ StartDrain(<<"request", 0>>)
     \/ /\ existing # {}
        /\ LET j == CHOOSE k \in existing : \A l \in existing : k <= l IN
           syncs' = IF seen[j].status = "running" /\ ~seen[j].followUp
                   THEN [syncs EXCEPT ![j].followUp = TRUE] ELSE syncs
        /\ UNCHANGED <<drain, touched>>
  /\ request' = NoRequest(vm)
  /\ UNCHANGED <<dataVars, wanted, inbox, taskVars, agentVars, sessionVars, troubles>>

\* The replication check finds the copy behind, unless a transfer of the machine is at work.
CheckFinds(vm) ==
  /\ Checks /\ copy[vm] < landed[vm] /\ vm \notin wanted
  /\ \A j \in Of(syncs, vm) : script[j] \notin Working
  /\ wanted' = wanted \cup {vm}
  /\ UNCHANGED <<dataVars, storeVars, request, turns, drain, inbox, taskVars, agentVars,
                 sessionVars, troubles>>

-----------------------------------------------------------------------------
(* The drain: one at a time *)

Finished(j, status) == syncs' = [syncs EXCEPT ![j].status = status]
Goes(step) == drain' = [drain EXCEPT !.step = step]

DrainReads ==
  /\ drain.step = "read"
  /\ drain' = IF Queued(syncs) = {} THEN NoDrain
              ELSE [drain EXCEPT !.step = "pick", !.todo = Queued(syncs),
                                 !.busy = {syncs[j].vm : j \in Running(syncs)}]
  /\ UNCHANGED <<dataVars, storeVars, requestVars, turns, inbox, taskVars, agentVars,
                 sessionVars, troubles>>

\* The host is offline by its status: what is queued waits for another drain.
DrainFindsHostOffline ==
  /\ drain.step = "read" /\ Trouble("offline")
  /\ drain' = NoDrain
  /\ UNCHANGED <<dataVars, storeVars, requestVars, turns, inbox, taskVars, agentVars, sessionVars>>

\* The oldest job of the list is started, unless its machine or the host is busy; its status
\* is not looked at again.
DrainPicks ==
  /\ drain.step = "pick"
  /\ \/ /\ drain.todo = {}
        /\ drain' = NoDrain /\ UNCHANGED syncs
     \/ \E j \in drain.todo :
          /\ \A k \in drain.todo : j <= k
          /\ IF syncs[j].vm \in drain.busy \/ Cardinality(Running(syncs)) >= Limit
             THEN drain' = [drain EXCEPT !.todo = @ \ {j}] /\ UNCHANGED syncs
             ELSE /\ Finished(j, "running")
                  /\ drain' = [drain EXCEPT !.todo = @ \ {j}, !.job = j, !.step = "asked",
                                            !.busy = @ \cup {syncs[j].vm}]
  /\ UNCHANGED <<dataVars, touched, requestVars, turns, inbox, taskVars, agentVars, sessionVars,
                 troubles>>

\* The request does not reach the agent, or its answer does not come back.
AnswerIsLost ==
  /\ drain.step \in {"asked", "accepted"} /\ Trouble("unanswered")
  /\ Goes("broken")
  /\ UNCHANGED <<dataVars, storeVars, requestVars, turns, inbox, taskVars, agentVars, sessionVars>>

DrainGivesUp ==
  /\ \/ drain.step = "broken" /\ Finished(drain.job, "failed")
     \/ drain.step = "asked" /\ agentOld /\ Finished(drain.job, "unsupported")
  /\ Goes("pick")
  /\ UNCHANGED <<dataVars, touched, requestVars, turns, inbox, taskVars, agentVars, sessionVars,
                 troubles>>

-----------------------------------------------------------------------------
(* The agent *)

Alive(j) == script[j] \in {"new"} \cup Working

\* executeRsync, to its first post: the state file comes before the session.
AgentAcceptsSync ==
  LET j == drain.job
      a == syncs[j].attempt IN
  /\ drain.step = "asked" /\ ~agentOld
  /\ tracked' = tracked \cup {j} /\ stateFiles' = stateFiles \cup {j}
  /\ monitor' = [monitor EXCEPT ![j][a] = "launching"]
  /\ inbox' = inbox \cup {Post(j, a, "running", "agent")}
  /\ Goes("accepted")
  /\ UNCHANGED <<dataVars, storeVars, requestVars, turns, taskVars, agentOld, sessionVars,
                 troubles>>

\* A session that the name still has is killed, and the old exit code removed; the events file
\* of the run before stays.
AgentLaunches(j, a) ==
  /\ monitor[j][a] = "launching" /\ \A p \in inbox : p.job # j \/ p.from # "agent"
  /\ monitor' = [monitor EXCEPT ![j][a] = "watching"]
  /\ script' = [script EXCEPT ![j] = "new"]
  /\ exitCode' = [exitCode EXCEPT ![j] = "none"]
  /\ events' = [events EXCEPT ![j] = IF @ = "good" THEN "old" ELSE @]
  /\ IF drain.step = "accepted" /\ drain.job = j THEN Goes("pick") ELSE UNCHANGED drain
  /\ UNCHANGED <<dataVars, storeVars, requestVars, turns, inbox, taskVars, tracked, stateFiles,
                 agentOld, walked, newest, orphans, doubtful, troubles>>

-----------------------------------------------------------------------------
(* Rsync_Manager.sh *)

WritesEvents(j, what) ==
  /\ events' = [events EXCEPT ![j] = what]
  /\ newest' = [newest EXCEPT ![syncs[j].vm] = j]

\* It creates its events file, and takes the lock of the machine or stands down.
ScriptStarts(j) ==
  /\ script[j] = "new" /\ WritesEvents(j, "none")
  /\ IF \E k \in Of(syncs, syncs[j].vm) : script[k] \in Working
     THEN /\ script' = [script EXCEPT ![j] = "over"]
          /\ exitCode' = [exitCode EXCEPT ![j] = "busy"] /\ UNCHANGED walked
     ELSE /\ script' = [script EXCEPT ![j] = "copying"]
          /\ walked' = [walked EXCEPT ![j] = landed[syncs[j].vm]] /\ UNCHANGED exitCode
  /\ UNCHANGED <<dataVars, storeVars, handlerVars, agentVars, orphans, doubtful, troubles>>

Lands(j) ==
  copy' = [copy EXCEPT ![syncs[j].vm] = IF @ < walked[j] THEN walked[j] ELSE @]

\* The transfers to the targets are over.  A target that a transfer left behind is still
\* working on is skipped, which is no failure.
ScriptCopies(j) ==
  /\ script[j] = "copying"
  /\ \/ /\ orphans \cap Of(syncs, syncs[j].vm) = {} /\ Lands(j)
        /\ script' = [script EXCEPT ![j] = "copied"] /\ UNCHANGED doubtful
     \/ /\ orphans \cap Of(syncs, syncs[j].vm) # {} /\ UNCHANGED copy
        /\ script' = [script EXCEPT ![j] = "skipped"] /\ doubtful' = doubtful \cup {j}
  /\ UNCHANGED <<landed, storeVars, handlerVars, agentVars, walked, exitCode, events, newest,
                 orphans, troubles>>

ScriptMisses(j) ==
  /\ script[j] = "copying" /\ Trouble("error")
  /\ script' = [script EXCEPT ![j] = "failed"]
  /\ UNCHANGED <<dataVars, storeVars, handlerVars, agentVars, walked, exitCode, events, newest,
                 orphans, doubtful>>

\* The targets are recorded one by one, those it copied perhaps before the others.
ScriptRecords(j) ==
  /\ \/ /\ script[j] = "copied" /\ WritesEvents(j, "good")
        /\ script' = [script EXCEPT ![j] = "zero"]
     \/ /\ script[j] \in {"failed", "skipped"} /\ WritesEvents(j, "none")
        /\ script' = [script EXCEPT ![j] = IF @ = "failed" THEN "error" ELSE "zero"]
     \/ /\ script[j] \in {"failed", "skipped"} /\ events[j] = "none" /\ WritesEvents(j, "good")
        /\ UNCHANGED script
  /\ UNCHANGED <<dataVars, storeVars, handlerVars, agentVars, walked, exitCode, orphans, doubtful,
                 troubles>>

ScriptEnds(j) ==
  /\ script[j] \in {"zero", "error"}
  /\ exitCode' = [exitCode EXCEPT ![j] = script[j]]
  /\ script' = [script EXCEPT ![j] = "over"]
  /\ UNCHANGED <<dataVars, storeVars, handlerVars, agentVars, walked, events, newest, orphans,
                 doubtful, troubles>>

\* The session ends without an exit code.  A script that gets the signal notes it in its file.
SessionDies(j) ==
  /\ script' = [script EXCEPT ![j] = "over"]
  /\ WritesEvents(j, IF script[j] = "new" THEN "none" ELSE events[j]) \/ UNCHANGED <<events, newest>>
  /\ doubtful' = IF script[j] \in {"failed", "skipped"} /\ events[j] = "good"
                 THEN doubtful \cup {j} ELSE doubtful

\* One that does not get it may leave its transfers behind.
ScriptIsKilled(j) ==
  /\ Alive(j) /\ SessionDies(j)
  /\ \/ Trouble("kill") /\ UNCHANGED orphans
     \/ script[j] = "copying" /\ Trouble("orphan") /\ orphans' = orphans \cup {j}
  /\ UNCHANGED <<dataVars, storeVars, handlerVars, agentVars, walked, exitCode>>

OrphanEnds(j) ==
  /\ j \in orphans /\ orphans' = orphans \ {j}
  /\ Lands(j) \/ UNCHANGED copy
  /\ UNCHANGED <<landed, storeVars, handlerVars, agentVars, script, walked, exitCode, events,
                 newest, doubtful, troubles>>

-----------------------------------------------------------------------------
(* The verdict *)

\* Mutant: the exit code is posted as it is.
RawOutcomes(j) == {exitCode[j]}

\* Mutant: a script that stood down counts as a transfer that is done.
BusyIsDone(j) == IF exitCode[j] \in {"none", "error"} THEN {"failed"} ELSE {"completed"}

\* _reportOutcome.  Without an exit code the newest events file of the machine decides: that of
\* a check may be the newest, and that of an earlier run too old to count.
Outcomes(j) ==
  LET n == newest[syncs[j].vm] IN
  CASE exitCode[j] = "busy" -> {"busy"}
    [] exitCode[j] = "zero" -> {"completed"}
    [] exitCode[j] = "none" /\ n # 0 /\ events[n] # "none" -> {"completed", "failed"}
    [] OTHER -> {"failed"}

OwnFile(j) == newest[syncs[j].vm] = j /\ events[j] # "old"

MonitorSettles(j, a) ==
  /\ monitor[j][a] = "watching" /\ ~Alive(j)
  /\ \E verdict \in Outcomes(j) :
       /\ monitor' = [monitor EXCEPT ![j][a] = verdict]
       /\ inbox' = inbox \cup {Post(j, a, verdict, "agent")}
  /\ doubtful' = IF exitCode[j] = "none" /\ ~OwnFile(j) THEN doubtful \cup {j} ELSE doubtful
  /\ UNCHANGED <<dataVars, storeVars, requestVars, turns, drain, taskVars, tracked, stateFiles,
                 agentOld, script, walked, exitCode, events, newest, orphans, troubles>>

\* A verdict is posted until it is answered; progress only matters here when the job is not
\* recorded as running.
AgentPosts(j, a) ==
  /\ inbox' = inbox \cup {Post(j, a, status, "agent") :
                 status \in IF monitor[j][a] \in Verdicts THEN {monitor[j][a]}
                            ELSE IF monitor[j][a] = "watching" /\ syncs[j].status = "queued"
                            THEN {"running"} ELSE {}}
  /\ \A p \in inbox : p.job # j \/ p.from # "agent"
  /\ UNCHANGED <<dataVars, storeVars, requestVars, turns, drain, taskVars, agentVars,
                 sessionVars, troubles>>

\* The agent is done with a run: it forgets the job, whichever run of it this was.
Forget(j, a) ==
  /\ monitor' = [monitor EXCEPT ![j][a] = "none"]
  /\ tracked' = tracked \ {j} /\ stateFiles' = stateFiles \ {j} /\ UNCHANGED agentOld

AgentGivesUp(j, a) ==
  /\ monitor[j][a] \in Verdicts /\ Trouble("undelivered")
  /\ Forget(j, a)
  /\ inbox' = {p \in inbox : p.job # j \/ p.attempt # a \/ p.status # monitor[j][a]}
  /\ UNCHANGED <<dataVars, storeVars, requestVars, turns, drain, taskVars, sessionVars>>

\* A restart of the agent: sessions go on, monitors and calls do not.
AgentRestarts ==
  /\ Trouble("restart")
  /\ tracked' = {} /\ monitor' = [j \in JobIds |-> [a \in Attempts |-> "none"]]
  /\ IF drain.step = "accepted" THEN Goes("broken") ELSE UNCHANGED drain
  /\ UNCHANGED <<dataVars, storeVars, requestVars, turns, inbox, taskVars, stateFiles, agentOld,
                 sessionVars>>

\* recoverRunningJobs and the sweep: a session that goes on is watched anew; of one that is
\* gone only the exit code counts.
AgentRecovers(j) ==
  LET a == syncs[j].attempt IN
  /\ j \in stateFiles \ tracked /\ \A b \in Attempts : monitor[j][b] = "none"
  /\ IF Alive(j)
     THEN tracked' = tracked \cup {j} /\ monitor' = [monitor EXCEPT ![j][a] = "watching"]
     ELSE /\ \E verdict \in IF exitCode[j] = "none" THEN {"failed"} ELSE Outcomes(j) :
               monitor' = [monitor EXCEPT ![j][a] = verdict]
          /\ UNCHANGED tracked
  /\ UNCHANGED <<dataVars, storeVars, handlerVars, stateFiles, agentOld, sessionVars, troubles>>

AgentIsUpgraded ==
  /\ agentOld /\ agentOld' = FALSE
  /\ UNCHANGED <<dataVars, storeVars, handlerVars, tracked, stateFiles, monitor, sessionVars,
                 troubles>>

-----------------------------------------------------------------------------
(* handleAgentUpdate *)

\* The answer ends the posts of a verdict, unless it is lost; it is taken to come with the write.
Answers(p) ==
  IF p.from = "agent" /\ monitor[p.job][p.attempt] = p.status
  THEN \/ Forget(p.job, p.attempt) /\ UNCHANGED troubles
       \/ Trouble("unheard") /\ UNCHANGED agentVars
  ELSE UNCHANGED <<agentVars, troubles>>

\* A job that is finished takes no update.
HandlerReads(p) ==
  LET status == syncs[p.job].status IN
  /\ p \in inbox /\ p.read = "not yet"
  /\ IF status \in Terminal
     THEN inbox' = inbox \ {p} /\ Answers(p) /\ UNCHANGED turns
     ELSE /\ inbox' = (inbox \ {p}) \cup {[p EXCEPT !.read = status]}
          /\ turns' = Append(turns, PostTurn(p)) /\ UNCHANGED <<agentVars, troubles>>
  /\ UNCHANGED <<dataVars, storeVars, requestVars, drain, taskVars, sessionVars>>

\* A verdict starts a drain and, once that is over, the follow-up the job remembers.
HandlerWrites(p) ==
  /\ p \in inbox /\ p.read # "not yet" /\ Writes(PostTurn(p))
  /\ inbox' = inbox \ {p} /\ Finished(p.job, p.status) /\ Answers(p)
  /\ IF p.status = "running" THEN UNCHANGED <<drain, followUps>>
     ELSE /\ StartDrain(<<"verdict", p.job>>)
          /\ followUps' = IF syncs[p.job].followUp /\ p.status # "busy"
                          THEN followUps \cup {p.job} ELSE followUps
  /\ UNCHANGED <<dataVars, touched, requestVars, operator, sessionVars>>

RunsFollowUp(j) ==
  /\ j \in followUps /\ drain.by # <<"verdict", j>>
  /\ followUps' = followUps \ {j}
  /\ syncs' = [syncs EXCEPT ![j].followUp = FALSE] /\ wanted' = wanted \cup {syncs[j].vm}
  /\ UNCHANGED <<dataVars, touched, request, turns, drain, inbox, operator, agentVars,
                 sessionVars, troubles>>

-----------------------------------------------------------------------------
(* The reconciliation with the agent: running jobs it does not track have failed *)

\* Mutant: jobs the agent does not track are left alone.
ReconcileIgnores == UNCHANGED offsiteVars

\* One pass, to the failures it reports: the jobs are read and the agent is asked.  A job that
\* is just being started is younger than the grace period; passes do not overlap.
ReconcileAsks ==
  LET starting == IF drain.step \in {"asked", "accepted", "broken"} THEN {drain.job} ELSE {}
      lost == Running(syncs) \ (tracked \cup starting) IN
  /\ lost # {} /\ \A p \in inbox : p.from # "reconcile"
  /\ inbox' = inbox \cup {Post(j, syncs[j].attempt, "failed", "reconcile") : j \in lost}
  /\ UNCHANGED <<dataVars, storeVars, requestVars, turns, drain, followUps, operator, agentVars,
                 sessionVars, troubles>>

-----------------------------------------------------------------------------
(* Operators, upgrades and restarts of the controller *)

OperatorReads(j) ==
  /\ operator = NoCall
  /\ \/ /\ j \in Queued(syncs) /\ Trouble("cancel")
        /\ operator' = [job |-> j, attempt |-> syncs[j].attempt, call |-> "cancel queued"]
        /\ turns' = Append(turns, OperatorTurn)
     \/ /\ j \in Running(syncs) /\ Trouble("cancel")
        /\ operator' = [job |-> j, attempt |-> syncs[j].attempt, call |-> "cancel running"]
        /\ UNCHANGED turns
     \/ /\ j \in Known \ ActiveSyncs(syncs) /\ ActiveSyncs(syncs) \cap Of(syncs, syncs[j].vm) = {}
        /\ syncs[j].attempt < MaxAttempts /\ Trouble("retry")
        /\ operator' = [job |-> j, attempt |-> syncs[j].attempt, call |-> "retry"]
        /\ turns' = Append(turns, OperatorTurn)
  /\ UNCHANGED <<dataVars, storeVars, requestVars, drain, inbox, followUps, agentVars,
                 sessionVars>>

\* cancelRsync, which posts before it answers; the monitor of the job is left alone.
CancelsAtAgent ==
  LET j == operator.job IN
  /\ operator.call = "cancel running"
  /\ operator' = [operator EXCEPT !.call = "told"]
  /\ IF j \in tracked \cup stateFiles
     THEN /\ IF Alive(j) THEN SessionDies(j) ELSE UNCHANGED <<script, events, newest, doubtful>>
          /\ tracked' = tracked \ {j} /\ stateFiles' = stateFiles \ {j}
          /\ inbox' = inbox \cup {Post(j, syncs[j].attempt, "cancelled", "agent")}
     ELSE UNCHANGED <<script, events, newest, doubtful, tracked, stateFiles, inbox>>
  /\ UNCHANGED <<dataVars, storeVars, requestVars, turns, drain, followUps, monitor,
                 agentOld, walked, exitCode, orphans, troubles>>

Requeued(j, attempt) ==
  /\ syncs' = [syncs EXCEPT ![j].status = "queued", ![j].attempt = attempt + 1]
  /\ touched' = touched \cup {j}

OperatorWrites ==
  LET j == operator.job IN
  /\ \/ /\ operator.call = "cancel queued" /\ Writes(OperatorTurn)
        /\ Finished(j, "cancelled") /\ touched' = touched \cup {j} /\ UNCHANGED drain
     \/ /\ operator.call = "told" /\ \A p \in inbox : p.job # j \/ p.status # "cancelled"
        /\ Finished(j, "cancelled") /\ touched' = touched \cup {j}
        /\ StartDrain(<<"operator", 0>>) /\ UNCHANGED turns
     \/ /\ operator.call = "retry" /\ Writes(OperatorTurn)
        /\ Requeued(j, operator.attempt) /\ StartDrain(<<"operator", 0>>)
  /\ operator' = NoCall
  /\ UNCHANGED <<dataVars, requestVars, inbox, followUps, agentVars, sessionVars, troubles>>

\* rearmUnsupportedJobs, at the start and before each check.
Rearms(j) ==
  /\ ~agentOld /\ j \in Known /\ syncs[j].status = "unsupported"
  /\ \A k \in Of(syncs, syncs[j].vm) :
       k <= j \/ syncs[k].status \notin {"queued", "running", "completed"}
  /\ syncs[j].attempt < MaxAttempts
  /\ Requeued(j, syncs[j].attempt) /\ StartDrain(<<"check", 0>>)
  /\ UNCHANGED <<dataVars, requestVars, turns, inbox, taskVars, agentVars, sessionVars, troubles>>

OffsiteBoot ==
  /\ Trouble("boot")
  /\ wanted' = {} /\ request' = NoRequest(request.vm)
  /\ drain' = [NoDrain EXCEPT !.by = <<"boot", 0>>, !.step = "read"]
  /\ inbox' = {} /\ followUps' = {} /\ operator' = NoCall /\ turns' = <<>>
  /\ UNCHANGED <<dataVars, storeVars, agentVars, sessionVars>>

-----------------------------------------------------------------------------
\* What goes on by itself: drains, calls, sessions, monitors and posts.
WorkStep ==
  \/ DrainReads \/ DrainPicks \/ DrainGivesUp \/ AgentAcceptsSync
  \/ CancelsAtAgent \/ OperatorWrites
  \/ \E p \in inbox : HandlerReads(p) \/ HandlerWrites(p)
  \/ \E j \in Known :
       \/ ScriptStarts(j) \/ ScriptCopies(j) \/ ScriptRecords(j) \/ ScriptEnds(j)
       \/ OrphanEnds(j) \/ AgentRecovers(j) \/ RunsFollowUp(j)
       \/ \E a \in Attempts : AgentLaunches(j, a) \/ MonitorSettles(j, a) \/ AgentPosts(j, a)

OffsiteNext ==
  \/ \E vm \in VMs : BackupLands(vm) \/ CheckFinds(vm) \/ RequestReads(vm)
  \/ RequestSaves \/ WorkStep \/ DrainFindsHostOffline \/ AnswerIsLost
  \/ \E j \in Known : \/ ScriptMisses(j) \/ ScriptIsKilled(j) \/ OperatorReads(j) \/ Rearms(j)
                       \/ \E a \in Attempts : AgentGivesUp(j, a)
  \/ ReconcileAsks \/ AgentRestarts \/ AgentIsUpgraded \/ OffsiteBoot

\* Requests and work do not stop, the check and the reconciliation are repeated.
OffsiteFair ==
  /\ WF_offsiteVars(\E vm \in VMs : RequestReads(vm)) /\ WF_offsiteVars(RequestSaves)
  /\ WF_offsiteVars(WorkStep)
  /\ \A vm \in VMs : WF_offsiteVars(CheckFinds(vm))
  /\ WF_offsiteVars(ReconcileAsks) /\ WF_offsiteVars(\E j \in Known : Rearms(j))
  /\ WF_offsiteVars(AgentIsUpgraded)

OffsiteSpec == OffsiteInit /\ [][OffsiteNext]_offsiteVars /\ OffsiteFair

-----------------------------------------------------------------------------
(* Properties *)

\* However requests, verdicts and drains interleave, two jobs of one machine wait or run at a
\* time only when one of them was started again or cancelled, or had its record put back by
\* the save of a request: a request coalesces into the job it finds, and no late report and no
\* older list of a drain brings back a job beside the one that followed it.
OneActiveJob ==
  \A j, k \in Known :
    syncs[j].vm = syncs[k].vm /\ {syncs[j].status, syncs[k].status} \subseteq {"queued", "running"}
      => j = k \/ {j, k} \cap touched # {}

\* A job recorded as completed stands for a copy: everything that had landed when the sync
\* was requested is offsite, through restarts of the agent, killed sessions, scripts that
\* stood down, and verdicts of earlier runs.  Not of a job that is doubtful: a target that a
\* transfer left behind keeps busy is skipped and the exit code is 0 all the same; of a session
\* that was killed between the records of two targets the successes may be all there is; and the
\* newest events file may be that of another run.
CompletedIsCopied ==
  \A j \in Known \ doubtful :
    syncs[j].status = "completed" => syncs[j].asked <= copy[syncs[j].vm]

\* A job waits while none runs whose end would start a drain, and no drain is in flight: the
\* drain of the job found another one in flight and did nothing, or found the host offline.
Stranded(vm) ==
  drain.step = "idle" /\ Running(syncs) = {} /\ Queued(syncs) \cap Of(syncs, vm) # {}

\* While the check runs, every backup is copied, whatever requests were lost or coalesced into
\* a job that had walked past it, and whatever became of the sessions and the reports; unless
\* its machine is stranded: the check's requests are taken for covered by the queued job.
CopyCatchesUp ==
  \A vm \in VMs, n \in 1..MaxLanded :
    (landed[vm] = n) ~> (copy[vm] >= n \/ Stranded(vm))
=============================================================================
