--------------------------- MODULE AgentExecutor ---------------------------
(***************************************************************************)
(* The agent's backup executor (agent services/backupExecutor.js): it      *)
(* accepts backup jobs, at most one per virtual machine, queues them, runs *)
(* each as a script in a tmux session of its own under a concurrency       *)
(* limit, watches the sessions and reports one verdict per run.  Memory is *)
(* lost when the agent process stops; the sessions, the job-state files    *)
(* and the exit-code files outlive it and are what recovery works from.    *)
(*                                                                         *)
(* A session carries the name of its job, so a job stands for its session. *)
(* An action is the code between two awaits; the functions that await are  *)
(* split there, and what they hold across the await is in a variable.      *)
(***************************************************************************)
EXTENDS Naturals, FiniteSets, Sequences

CONSTANTS
  Jobs, VMs,
  vmOf,            \* the virtual machine each job backs up
  None,
  MaxConcurrent,   \* getMaxConcurrent(); 0 is unlimited
  MaxRuns,         \* bound on the runs of one job id (retries reuse it)
  MaxKills, MaxCrashes, MaxFaults   \* bounds on kills, restarts, and both together

ASSUME JobsAssumption == vmOf \in [Jobs -> VMs] /\ None \notin Jobs
ASSUME BoundsAssumption ==
  /\ MaxConcurrent \in Nat /\ MaxRuns \in Nat /\ MaxKills \in Nat /\ MaxCrashes \in Nat
  /\ MaxFaults \in Nat

VARIABLES
  queue, active, lock,   \* jobQueue, the keys of activeJobs, vmLocks
  probing,     \* queueBackup awaiting the probe of a stale lock: its holder
  launching,   \* executeBackup awaiting the start of its session
  intervals,   \* the monitors that are running
  proc,        \* activeProcesses: the monitor recorded for each job
  ending,      \* monitors cleaning up after a failure
  killing,     \* killJob awaiting tmux
  reporting,   \* ends of runs whose report is awaited before the queue goes on
  pass, at,    \* recovery loops: items of their snapshot left; item looked up
  stateFile, exitCode, session,     \* what outlives the process
  runs, outcome, told,   \* history: runs accepted; how the script of the last
                         \* one ended; the verdicts reported for it
  lostCode,    \* history: jobs whose exit code was removed by a monitor that the agent's
               \* stop kept from reporting it
  overlap,     \* history: a job was accepted while runs were still being recovered,
               \* or a periodic check began before the recovery at the start was through
  kills, crashes

memory == <<queue, active, lock, probing, launching, intervals, proc, ending,
            killing, reporting, pass, at>>
disk == <<stateFile, exitCode, session>>
history == <<runs, outcome, told, lostCode, overlap>>
faults == <<kills, crashes>>
vars == <<queue, active, lock, probing, launching, intervals, proc, ending, killing,
          reporting, pass, at, stateFile, exitCode, session, runs, outcome, told,
          lostCode, overlap, kills, crashes>>

Loops == {"recover", "check"}
Monitor == [job : Jobs, on : Jobs, by : Loops \cup {"launch"}]
Item == [job : Jobs, queued : BOOLEAN]
Idle == [job |-> None, queued |-> FALSE]

Queued == {queue[i] : i \in DOMAIN queue}
Sessions == {j \in Jobs : session[j] # "none"}
Running == {j \in Jobs : session[j] \in {"running", "failing"}}
Underway(l) == pass[l] # {} \/ at[l] # Idle
\* Memory does not know every run that is under way, or is just finding out.
Recovering ==
  \/ \E l \in Loops : Underway(l)
  \/ \E j \in Jobs \ active : stateFile[j] = "started"
Limited(n) == MaxConcurrent > 0 /\ n >= MaxConcurrent

TypeOK ==
  /\ queue \in Seq(Jobs) /\ active \subseteq Jobs
  /\ lock \in [VMs -> Jobs \cup {None}]
  /\ probing \in [Jobs -> Jobs \cup {None}]
  /\ launching \subseteq Jobs
  /\ intervals \subseteq Monitor /\ killing \subseteq Monitor
  /\ proc \in [Jobs -> Monitor \cup {None}]
  /\ ending \subseteq Monitor \X {"failed", "repeat"} /\ reporting \in Nat
  /\ pass \in [Loops -> SUBSET Item] /\ at \in [Loops -> Item \cup {Idle}]
  /\ stateFile \in [Jobs -> {"none", "queued", "started"}]
  /\ exitCode \in [Jobs -> {"none", "ok", "bad"}]
  /\ session \in [Jobs -> {"none", "idle", "running", "failing"}]
  /\ runs \in [Jobs -> 0 .. MaxRuns]
  /\ outcome \in [Jobs -> {"none", "ok", "bad", "killed"}]
  /\ told \in [Jobs -> SUBSET {"completed", "failed", "repeat"}]
  /\ lostCode \subseteq Jobs
  /\ overlap \in BOOLEAN /\ kills \in 0 .. MaxKills /\ crashes \in 0 .. MaxCrashes

Init ==
  /\ queue = <<>> /\ active = {} /\ lock = [v \in VMs |-> None]
  /\ probing = [j \in Jobs |-> None]
  /\ launching = {} /\ killing = {} /\ intervals = {} /\ ending = {} /\ reporting = 0
  /\ proc = [j \in Jobs |-> None]
  /\ pass = [l \in Loops |-> {}] /\ at = [l \in Loops |-> Idle]
  /\ stateFile = [j \in Jobs |-> "none"] /\ exitCode = [j \in Jobs |-> "none"]
  /\ session = [j \in Jobs |-> "none"]
  /\ runs = [j \in Jobs |-> 0] /\ outcome = [j \in Jobs |-> "none"]
  /\ told = [j \in Jobs |-> {}] /\ lostCode = {} /\ overlap = FALSE
  /\ kills = 0 /\ crashes = 0

Tell(j, verdict) == told' = [told EXCEPT ![j] = @ \cup {verdict}]

-----------------------------------------------------------------------------
(* The queue *)

\* processQueue up to executeBackup's first await, from the given values: the
\* head of the queue becomes active if the limit has room for it.
processQueue(q, a, l, f, s) ==
  IF q = <<>> \/ Limited(Cardinality(a))
  THEN queue' = q /\ active' = a /\ lock' = l /\ stateFile' = f /\ launching' = s
  ELSE LET j == Head(q) IN
       /\ queue' = Tail(q)
       /\ active' = a \cup {j}
       /\ lock' = [l EXCEPT ![vmOf[j]] = j]
       /\ stateFile' = [f EXCEPT ![j] = "started"]
       /\ launching' = s \cup {j}

\* What every end of a run does to memory; the queue goes on when its report
\* is answered or given up.  (A report that began with an empty queue need not
\* be followed: a job that finds room is started as it is queued.)
endOf(a, l, f, s) ==
  /\ active' = a /\ lock' = l /\ stateFile' = f /\ launching' = s
  /\ reporting' = IF queue = <<>> THEN reporting ELSE reporting + 1
  /\ UNCHANGED queue

\* updateController is through.
Reported ==
  /\ reporting > 0
  /\ reporting' = reporting - 1
  /\ processQueue(queue, active, lock, stateFile, launching)
  /\ UNCHANGED <<probing, intervals, proc, ending, killing, pass, at, exitCode, session>>
  /\ UNCHANGED history /\ UNCHANGED faults

\* The virtual machine is reserved, the job queued and marked on disk.
Reserve(j, f) ==
  /\ processQueue(Append(queue, j), active, [lock EXCEPT ![vmOf[j]] = j],
                  [f EXCEPT ![j] = "queued"], launching)
  /\ runs' = [runs EXCEPT ![j] = @ + 1]
  /\ outcome' = [outcome EXCEPT ![j] = "none"]
  /\ told' = [told EXCEPT ![j] = {}]
  /\ lostCode' = lostCode \ {j}
  /\ overlap' = (overlap \/ Recovering)
  /\ UNCHANGED <<intervals, proc, ending, killing, reporting, pass, at, exitCode, session>>
  /\ UNCHANGED faults

\* The controller sends a job that is new, or one whose last run failed; that
\* comes a retry delay later, when no code still awaits something of that run.
Sent(j) ==
  /\ runs[j] < MaxRuns /\ probing[j] = None
  /\ runs[j] > 0 =>
       /\ told[j] # {} /\ "completed" \notin told[j]
       /\ \A m \in killing \cup {e[1] : e \in ending} : m.job # j
       /\ \A l \in Loops : \A i \in pass[l] \cup {at[l]} : i.job # j

queueBackup(j) ==
  /\ Sent(j) /\ lock[vmOf[j]] = None
  /\ Reserve(j, stateFile)
  /\ UNCHANGED probing

\* The lock is held by a job that is neither active nor queued: look for a
\* live worker.  (A job in memory makes queueBackup refuse at once.)
QueueProbe(j) ==
  LET holder == lock[vmOf[j]] IN
  /\ Sent(j) /\ holder # None /\ holder \notin active \cup Queued
  /\ probing' = [probing EXCEPT ![j] = holder]
  /\ UNCHANGED <<queue, active, lock, launching, intervals, proc, ending, killing, reporting, pass, at>>
  /\ UNCHANGED disk /\ UNCHANGED history /\ UNCHANGED faults

Refused(j) ==
  /\ probing[j] # None
  /\ probing' = [probing EXCEPT ![j] = None]
  /\ UNCHANGED <<queue, active, lock, launching, intervals, proc, ending, killing, reporting, pass, at>>
  /\ UNCHANGED disk /\ UNCHANGED history /\ UNCHANGED faults

\* No worker: the lock found before the probe counts as stale.
StaleLock(j) ==
  /\ probing[j] # None
  /\ \A k \in Running : vmOf[k] # vmOf[j]
  /\ probing' = [probing EXCEPT ![j] = None]
  /\ Reserve(j, [stateFile EXCEPT ![probing[j]] = "none"])

-----------------------------------------------------------------------------
(* executeBackup, after its await *)

Kill(k) ==
  /\ session' = [session EXCEPT ![k] = "none"]
  /\ outcome' = [outcome EXCEPT ![k] = IF session[k] = "none" THEN @ ELSE "killed"]

\* A session is created, in place of an old one; its command is not sent yet.
NewSession(j) ==
  /\ j \in launching /\ session[j] # "idle"
  /\ session' = [session EXCEPT ![j] = "idle"]
  /\ UNCHANGED <<stateFile, exitCode>>
  /\ UNCHANGED memory /\ UNCHANGED history /\ UNCHANGED faults

\* The exit code of an earlier run is removed, the command is sent, the
\* session monitored, and the queue goes on.
Started(j) ==
  LET m == [job |-> j, on |-> j, by |-> "launch"] IN
  /\ j \in launching /\ session[j] = "idle"
  /\ session' = [session EXCEPT ![j] = "running"]
  /\ exitCode' = [exitCode EXCEPT ![j] = "none"]
  /\ intervals' = intervals \cup {m}
  /\ proc' = [proc EXCEPT ![j] = m]
  /\ processQueue(queue, active, lock, stateFile, launching \ {j})
  /\ UNCHANGED <<probing, ending, killing, reporting, pass, at>>
  /\ UNCHANGED history /\ UNCHANGED faults

StartFailed(j) ==
  /\ j \in launching
  /\ exitCode' = [exitCode EXCEPT ![j] = "bad"]
  /\ Tell(j, "failed")
  /\ endOf(active \ {j}, [lock EXCEPT ![vmOf[j]] = None],
           [stateFile EXCEPT ![j] = "none"], launching \ {j})
  /\ UNCHANGED <<probing, intervals, proc, ending, killing, pass, at, session,
                 runs, outcome, lostCode, overlap>>
  /\ UNCHANGED faults

-----------------------------------------------------------------------------
(* The script, in its session *)

\* The backup failed and job_fail is logged; the script is still cleaning up.
JobFail(j) ==
  /\ session[j] = "running"
  /\ session' = [session EXCEPT ![j] = "failing"]
  /\ UNCHANGED <<stateFile, exitCode>>
  /\ UNCHANGED memory /\ UNCHANGED history /\ UNCHANGED faults

\* The shell writes the exit code of the script and exits.
ScriptEnds(j, code) ==
  /\ \/ session[j] = "running" /\ code \in {"ok", "bad"}
     \/ session[j] = "failing" /\ code = "bad"
  /\ session' = [session EXCEPT ![j] = "none"]
  /\ exitCode' = [exitCode EXCEPT ![j] = code]
  /\ outcome' = [outcome EXCEPT ![j] = code]
  /\ UNCHANGED <<stateFile, runs, told, lostCode, overlap>> /\ UNCHANGED memory /\ UNCHANGED faults

\* Somebody else ends the session.
Interrupted(j) ==
  /\ session[j] # "none" /\ j \notin launching
  /\ session' = [session EXCEPT ![j] = "none"]
  /\ outcome' = [outcome EXCEPT ![j] = "killed"]
  /\ UNCHANGED <<stateFile, exitCode, runs, told, lostCode, overlap>>
  /\ UNCHANGED memory /\ UNCHANGED faults

-----------------------------------------------------------------------------
(* monitorTmuxSession: a tick of one monitor *)

\* Mutant: nobody drains the queue when a run ends.
EndRunUndrained(m, verdict) ==
  /\ proc' = [proc EXCEPT ![m.job] = None]
  /\ Tell(m.job, verdict)
  /\ active' = active \ {m.job}
  /\ lock' = [lock EXCEPT ![vmOf[m.job]] = None]
  /\ stateFile' = [stateFile EXCEPT ![m.job] = "none"]
  /\ UNCHANGED <<queue, launching, probing, killing, reporting, pass, at, runs, lostCode, overlap>>
  /\ UNCHANGED faults

\* What every end of a monitor cleans up before it reports.
EndRun(m, verdict) ==
  /\ proc' = [proc EXCEPT ![m.job] = None]
  /\ Tell(m.job, verdict)
  /\ endOf(active \ {m.job}, [lock EXCEPT ![vmOf[m.job]] = None],
           [stateFile EXCEPT ![m.job] = "none"], launching)
  /\ UNCHANGED <<probing, killing, pass, at, runs, lostCode, overlap>>
  /\ UNCHANGED faults

\* The session is gone and the script wrote 0.
TickCompleted(m) ==
  /\ m \in intervals /\ session[m.on] = "none" /\ exitCode[m.job] = "ok"
  /\ intervals' = intervals \ {m}
  /\ exitCode' = [exitCode EXCEPT ![m.job] = "none"]
  /\ EndRun(m, "completed")
  /\ UNCHANGED <<ending, session, outcome>>

\* The session is gone with another exit code or none, or job_fail was
\* logged: there the early report raises a ReferenceError (log is not defined
\* in this function), and the handler around it takes that for the end of the
\* session, with earlyFailureReported already set.
TickFailed(m) ==
  /\ m \in intervals
  /\ intervals' = intervals \ {m}
  /\ \/ /\ session[m.on] = "none" /\ exitCode[m.job] # "ok"
        /\ ending' = ending \cup {<<m, "failed">>}
     \/ /\ session[m.on] = "failing"
        /\ ending' = ending \cup {<<m, "repeat">>}
  /\ exitCode' = [exitCode EXCEPT ![m.job] = "none"]
  /\ UNCHANGED <<queue, active, lock, probing, launching, proc, killing, reporting, pass, at,
                 stateFile, session>>
  /\ UNCHANGED history /\ UNCHANGED faults

\* What is left of the session is killed.
EndFailed(m, verdict) ==
  /\ <<m, verdict>> \in ending
  /\ ending' = ending \ {<<m, verdict>>}
  /\ Kill(m.on)
  /\ EndRun(m, verdict)
  /\ UNCHANGED <<intervals, exitCode>>

-----------------------------------------------------------------------------
(* killJob *)

MayKill == kills < MaxKills /\ kills + crashes < MaxFaults

KillQueued(j) ==
  /\ MayKill /\ kills' = kills + 1
  /\ j \notin active /\ proc[j] = None
  /\ \E i \in DOMAIN queue :
       /\ queue[i] = j
       /\ queue' = SubSeq(queue, 1, i - 1) \o SubSeq(queue, i + 1, Len(queue))
  /\ Tell(j, "failed")
  /\ UNCHANGED <<active, lock, probing, launching, intervals, proc, ending, killing, reporting,
                 pass, at, runs, outcome, lostCode, overlap, crashes>>
  /\ UNCHANGED disk

\* An active job without a monitor has no session to kill.
KillUnmonitored(j) ==
  /\ MayKill /\ kills' = kills + 1
  /\ j \in active /\ proc[j] = None
  /\ Tell(j, "failed")
  /\ endOf(active \ {j}, [lock EXCEPT ![vmOf[j]] = None],
           [stateFile EXCEPT ![j] = "none"], launching)
  /\ UNCHANGED <<probing, intervals, proc, ending, killing, pass, at, exitCode,
                 session, runs, outcome, lostCode, overlap, crashes>>

\* The lock is released and 130 recorded before tmux is asked to kill.
KillBegin(j) ==
  /\ MayKill /\ kills' = kills + 1
  /\ proc[j] # None
  /\ killing' = killing \cup {proc[j]}
  /\ lock' = IF j \in active THEN [lock EXCEPT ![vmOf[j]] = None] ELSE lock
  /\ exitCode' = [exitCode EXCEPT ![j] = "bad"]
  /\ UNCHANGED <<queue, active, probing, reporting, launching, intervals, proc, ending, pass, at,
                 stateFile, session, crashes>>
  /\ UNCHANGED history

\* tmux has killed the session; only now the monitor is stopped.
KillEnd(m) ==
  /\ m \in killing
  /\ killing' = killing \ {m}
  /\ Kill(m.on)
  /\ intervals' = intervals \ {m}
  /\ proc' = [proc EXCEPT ![m.job] = None]
  /\ Tell(m.job, "failed")
  /\ endOf(active \ {m.job}, lock, [stateFile EXCEPT ![m.job] = "none"], launching)
  /\ UNCHANGED <<probing, ending, pass, at, exitCode, runs, lostCode, overlap>>
  /\ UNCHANGED faults

-----------------------------------------------------------------------------
(* The process stops and starts again, and recovers *)

StateFiles == {i \in Item : stateFile[i.job] = IF i.queued THEN "queued" ELSE "started"}

\* recoverRunningJobs works on the job-state files it finds at the start.
Restart ==
  /\ crashes < MaxCrashes /\ kills + crashes < MaxFaults
  /\ crashes' = crashes + 1
  /\ queue' = <<>> /\ active' = {} /\ lock' = [v \in VMs |-> None]
  /\ probing' = [j \in Jobs |-> None]
  /\ launching' = {} /\ killing' = {} /\ intervals' = {} /\ ending' = {}
  /\ reporting' = 0
  /\ proc' = [j \in Jobs |-> None]
  /\ pass' = [l \in Loops |-> IF l = "recover" THEN StateFiles ELSE {}]
  /\ at' = [l \in Loops |-> Idle]
  /\ lostCode' = lostCode \cup {m.job : m \in {n \in Monitor : <<n, "failed">> \in ending}}
  /\ UNCHANGED disk /\ UNCHANGED <<runs, outcome, told, overlap, kills>>

\* checkAndRecoverJobs starts over every ten seconds.
CheckBegin ==
  /\ ~Underway("check") /\ StateFiles # {}
  /\ pass' = [pass EXCEPT !["check"] = StateFiles]
  /\ overlap' = (overlap \/ Underway("recover"))
  /\ UNCHANGED <<queue, active, lock, probing, launching, intervals, proc, ending,
                 killing, reporting, at, runs, outcome, told, lostCode>>
  /\ UNCHANGED disk /\ UNCHANGED faults

\* The periodic loop skips the jobs that are attached or queued.
LookUp(l) ==
  /\ at[l] = Idle
  /\ \E i \in pass[l] :
       /\ pass' = [pass EXCEPT ![l] = @ \ {i}]
       /\ at' = IF \/ l = "recover"
                   \/ i.job \notin active /\ proc[i.job] = None /\ ~i.queued
                THEN [at EXCEPT ![l] = i] ELSE at
  /\ UNCHANGED <<queue, active, lock, probing, launching, intervals, proc, ending, killing, reporting>>
  /\ UNCHANGED disk /\ UNCHANGED history /\ UNCHANGED faults

\* The session the job recorded or else any of its virtual machine.
SessionsFor(i) ==
  IF ~i.queued /\ session[i.job] # "none" THEN {i.job}
  ELSE {k \in Sessions : vmOf[k] = vmOf[i.job]}

\* Mutant: the lock of the virtual machine is not restored.
reattachUnlocked(l) ==
  LET j == at[l].job IN
  /\ at[l] # Idle
  /\ \E k \in SessionsFor(at[l]) :
       LET m == [job |-> j, on |-> k, by |-> l] IN
       /\ intervals' = intervals \cup {m}
       /\ proc' = [proc EXCEPT ![j] = m]
  /\ active' = active \cup {j}
  /\ at' = [at EXCEPT ![l] = Idle]
  /\ UNCHANGED <<queue, lock, probing, launching, ending, killing, reporting, pass>>
  /\ UNCHANGED disk /\ UNCHANGED history /\ UNCHANGED faults

reattachToTmuxSession(l) ==
  LET j == at[l].job IN
  /\ at[l] # Idle
  /\ \E k \in SessionsFor(at[l]) :
       LET m == [job |-> j, on |-> k, by |-> l] IN
       /\ intervals' = intervals \cup {m}
       /\ proc' = [proc EXCEPT ![j] = m]
  /\ active' = active \cup {j}
  /\ lock' = [lock EXCEPT ![vmOf[j]] = j]
  /\ at' = [at EXCEPT ![l] = Idle]
  /\ UNCHANGED <<queue, probing, launching, ending, killing, reporting, pass>>
  /\ UNCHANGED disk /\ UNCHANGED history /\ UNCHANGED faults

\* A job that was still queued gets a failure on disk and a report.
failJobEarly ==
  LET j == at["recover"].job IN
  /\ at["recover"] # Idle /\ at["recover"].queued /\ SessionsFor(at["recover"]) = {}
  /\ exitCode' = [exitCode EXCEPT ![j] = "bad"]
  /\ lock' = [lock EXCEPT ![vmOf[j]] = IF @ = j THEN None ELSE @]
  /\ active' = active \ {j}
  /\ stateFile' = [stateFile EXCEPT ![j] = "none"]
  /\ Tell(j, "failed")
  /\ at' = [at EXCEPT !["recover"] = Idle]
  /\ UNCHANGED <<queue, probing, launching, intervals, proc, ending, killing, reporting, pass,
                 session, runs, outcome, lostCode, overlap>>
  /\ UNCHANGED faults

\* Mutant: a log that does not tell makes a verdict of its own.
InferredUnknown(j) ==
  CASE outcome[j] = "ok" -> {"completed"}
    [] outcome[j] = "none" /\ runs[j] = 1 -> {"failed"}
    [] OTHER -> {"unknown"}

\* What the log of the job, which its runs share, may be taken for when there
\* is no exit code.  Any line with "completed successfully" makes it a success,
\* and a run that failed may have logged one: of the clean-up before a retry, or
\* of the offsite sync after the failure.
Inferred(j) ==
  CASE outcome[j] = "ok" -> {"completed"}
    [] outcome[j] = "none" /\ runs[j] = 1 -> {"failed"}
    [] OTHER -> {"completed", "failed"}

\* Mutant: the log decides, also when there is an exit code.
handleCompletedByProse(l) ==
  LET j == at[l].job IN
  /\ at[l] # Idle /\ ~at[l].queued /\ SessionsFor(at[l]) = {}
  /\ \E verdict \in Inferred(j) : Tell(j, verdict)
  /\ exitCode' = [exitCode EXCEPT ![j] = "none"]
  /\ stateFile' = [stateFile EXCEPT ![j] = "none"]
  /\ at' = [at EXCEPT ![l] = Idle]
  /\ UNCHANGED <<queue, active, lock, probing, launching, intervals, proc, ending,
                 killing, reporting, pass, session, runs, outcome, lostCode, overlap>>
  /\ UNCHANGED faults

\* A run that ended unwatched: its exit code decides, or else its log.
handleCompletedJobWhileDown(l) ==
  LET j == at[l].job IN
  /\ at[l] # Idle /\ ~at[l].queued /\ SessionsFor(at[l]) = {}
  /\ \/ exitCode[j] = "ok" /\ Tell(j, "completed")
     \/ exitCode[j] = "bad" /\ Tell(j, "failed")
     \/ exitCode[j] = "none" /\ \E verdict \in Inferred(j) : Tell(j, verdict)
  /\ exitCode' = [exitCode EXCEPT ![j] = "none"]
  /\ stateFile' = [stateFile EXCEPT ![j] = "none"]
  /\ at' = [at EXCEPT ![l] = Idle]
  /\ UNCHANGED <<queue, active, lock, probing, launching, intervals, proc, ending,
                 killing, reporting, pass, session, runs, outcome, lostCode, overlap>>
  /\ UNCHANGED faults

\* Mutant: what was left behind is cleaned up before the decision.
StillFreshDeleted(l) ==
  /\ at[l] # Idle /\ ~at[l].queued /\ SessionsFor(at[l]) = {}
  /\ exitCode[at[l].job] = "none"
  /\ stateFile' = [stateFile EXCEPT ![at[l].job] = "none"]
  /\ at' = [at EXCEPT ![l] = Idle]
  /\ UNCHANGED <<queue, active, lock, probing, launching, intervals, proc, ending,
                 killing, reporting, pass, session, exitCode>>
  /\ UNCHANGED history /\ UNCHANGED faults

\* Its progress or lock file was written moments ago: left to a later pass.
StillFresh(l) ==
  /\ at[l] # Idle /\ ~at[l].queued /\ SessionsFor(at[l]) = {}
  /\ exitCode[at[l].job] = "none"
  /\ at' = [at EXCEPT ![l] = Idle]
  /\ UNCHANGED <<queue, active, lock, probing, launching, intervals, proc, ending,
                 killing, reporting, pass>>
  /\ UNCHANGED disk /\ UNCHANGED history /\ UNCHANGED faults

-----------------------------------------------------------------------------
Probe(j) == Refused(j) \/ StaleLock(j)
Launch(j) == NewSession(j) \/ Started(j)
Tick(m) == TickCompleted(m) \/ TickFailed(m)
\* The exits of a loop's lookup of job j that give it a monitor or a verdict.
Resolve(l, j) ==
  at[l].job = j /\ (reattachToTmuxSession(l) \/ handleCompletedJobWhileDown(l))

Next ==
  \/ \E j \in Jobs :
       \/ queueBackup(j) \/ QueueProbe(j) \/ Probe(j)
       \/ Launch(j) \/ StartFailed(j)
       \/ JobFail(j) \/ Interrupted(j) \/ \E code \in {"ok", "bad"} : ScriptEnds(j, code)
       \/ KillQueued(j) \/ KillUnmonitored(j) \/ KillBegin(j)
  \/ \E m \in Monitor :
       Tick(m) \/ KillEnd(m) \/ \E verdict \in {"failed", "repeat"} : EndFailed(m, verdict)
  \/ \E l \in Loops :
       LookUp(l) \/ reattachToTmuxSession(l) \/ handleCompletedJobWhileDown(l) \/ StillFresh(l)
  \/ Reported \/ Restart \/ CheckBegin \/ failJobEarly

\* Commands and reports return, intervals fire, scripts end, and the progress and lock
\* files of a run that is over grow old.
Fairness ==
  /\ \A j \in Jobs :
       /\ WF_vars(Probe(j)) /\ WF_vars(Launch(j))
       /\ WF_vars(\E code \in {"ok", "bad"} : ScriptEnds(j, code))
       /\ \A l \in Loops : SF_vars(Resolve(l, j))
  /\ \A m \in Monitor :
       /\ WF_vars(Tick(m)) /\ WF_vars(KillEnd(m))
       /\ WF_vars(\E verdict \in {"failed", "repeat"} : EndFailed(m, verdict))
  /\ \A l \in Loops : WF_vars(LookUp(l))
  /\ WF_vars(Reported) /\ WF_vars(CheckBegin) /\ WF_vars(failJobEarly)

Spec == Init /\ [][Next]_vars /\ Fairness

-----------------------------------------------------------------------------
(* Properties *)

Open(j) == runs[j] > 0 /\ told[j] = {}

\* "A dropped job must never be indistinguishable from a lost one": from the
\* moment a job is accepted until its verdict is handed to the report, its
\* state file is on disk, so that no stop of the agent loses it.  Two jobs
\* sent at once onto the lock a cancelled job left behind may break that for
\* the retry of the cancelled job, not for a first run.
NoSilentDrop ==
  \A j \in Jobs : Open(j) /\ (runs[j] = 1 \/ kills = 0) => stateFile[j] # "none"

\* Nothing was killed, no job was accepted while a loop worked on its snapshot
\* of the state files or had left a run for later, and recovery was through
\* before periodic checks began.
Orderly == kills = 0 /\ ~overlap

\* No two scripts of one virtual machine run side by side, also across
\* restarts of the agent, while it runs orderly.
OneRunPerVM ==
  Orderly => \A j, k \in Running : vmOf[j] = vmOf[k] => j = k

\* A run whose script failed is never reported as a completed backup and as
\* nothing else, whichever of the monitors, recovery loops and left-over exit
\* codes decides, while the agent runs orderly.  The code fails this when the
\* agent stops after a monitor removed the exit code and before it reported
\* (lostCode): the recovery then judges by the log.  A loop whose snapshot is
\* older than the end of the run also judges by the log, but that is a second
\* verdict, after the failure was reported.
NeverFalselyCompleted ==
  Orderly => \A j \in Jobs :
    told[j] = {"completed"} => outcome[j] # "bad" \/ j \in lostCode

\* Every accepted job gets a verdict, unless the agent stopped between
\* creating a session and sending its command: that session idles forever.
EveryJobSettles ==
  \A j \in Jobs : Open(j) ~>
    ~Open(j) \/ \E k \in Jobs : session[k] = "idle" /\ k \notin launching

\* "When we already reported this run's failure early" the verdict is flagged
\* as a repeat: a repeat comes after the verdict it repeats.
RepeatsAVerdict ==
  \A j \in Jobs : "repeat" \in told[j] => "failed" \in told[j]

=============================================================================
