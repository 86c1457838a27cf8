------------------------------ MODULE MissedRuns ------------------------------
(****************************************************************************)
(* What the controller does about fires of a schedule that node-cron did    *)
(* not deliver.  The heartbeat (services/heartbeatService.js) records when  *)
(* the controller was last alive; ten seconds after a start the recovery    *)
(* (services/missedRunService.js) replays or records what fell into the     *)
(* gap, and every two minutes the catch-up of services/schedulerService.js  *)
(* fires the last overdue occurrence that has no job.  The three paths and  *)
(* the cron task itself all end in executeScheduledBackup.                  *)
(*                                                                          *)
(* One schedule of one virtual machine; a job record is reduced to when it  *)
(* was started, for which occurrence, and whether it is still active.       *)
(****************************************************************************)
EXTENDS Naturals

CONSTANTS
  Due,            \* the occurrences of the schedule
  LastTime,       \* bound: the clock stops here
  Policies,       \* values of missedRunPolicy
  Grace,          \* missedRunGracePeriodMinutes
  Threshold,      \* an outage shorter than this is not looked at (90 s)
  Window, SettleTime, \* CATCHUP_WINDOW_MS, CATCHUP_SETTLE_MS
  Tolerance,      \* how much earlier than an occurrence a job may have started (1 h)
  MaxDowns        \* bound on crashes of the controller

ASSUME DueAssumption == Due \subseteq 1 .. LastTime /\ LastTime \in Nat
ASSUME PoliciesAssumption == Policies \subseteq {"immediate", "most-recent", "skip"}
ASSUME TimesAssumption == /\ Grace \in Nat /\ Threshold \in Nat \ {0} /\ Tolerance \in Nat
                          /\ Window \in Nat /\ SettleTime \in Nat \ {0} /\ SettleTime < Window
                          /\ MaxDowns \in Nat

VARIABLES
  policy,       \* missedRunPolicy of the schedule
  clock,
  alive, bootedAt,
  heartbeat,    \* lastSeenAt in heartbeat.json, 0 when there is none
  bootSnapshot,     \* what readBootSnapshot returned: the end of the previous life, 0 for null
  recovery,     \* "waiting" for its timer, "replaying", "done", or "failed" to record
  replays,      \* toReplay: occurrences the recovery still has to fire
  firing,       \* calls of executeScheduledBackup under way: [due, by]
  swept,        \* when the catch-up last ran in this life of the controller, 0 for not yet
  jobHistory,   \* job records of the schedule
  started,      \* history: how often each occurrence was started
  collided,     \* history: occurrences that met an active job, and left no record
  downs

missedVars == <<policy, clock, alive, bootedAt, heartbeat, bootSnapshot, recovery, replays,
                firing, swept, jobHistory, started, collided, downs>>
lifeVars == <<alive, bootedAt, heartbeat, bootSnapshot, downs>>

JobRecord == [due : Due, startTime : Nat,
              status : {"active", "ended", "skipped", "dropped"}]   \* skippedReason tells the last two apart
Call == [due : Due, by : {"cron", "catch-up"}]
Record(d, t, s) == [due |-> d, startTime |-> t, status |-> s]

MissedTypeOK ==
  /\ policy \in Policies
  /\ clock \in 0 .. LastTime /\ bootedAt \in 0 .. LastTime /\ heartbeat \in 0 .. LastTime
  /\ bootSnapshot \in 0 .. LastTime /\ swept \in 0 .. LastTime /\ downs \in 0 .. MaxDowns
  /\ alive \in BOOLEAN
  /\ recovery \in {"waiting", "replaying", "done", "failed"}
  /\ replays \subseteq Due /\ firing \subseteq Call /\ jobHistory \subseteq JobRecord
  /\ started \in [Due -> Nat] /\ collided \subseteq Due
  /\ alive \/ firing = {}

MissedInit ==
  /\ policy \in Policies
  /\ clock = 0 /\ alive = TRUE /\ bootedAt = 0 /\ heartbeat = 0 /\ bootSnapshot = 0
  /\ recovery = "waiting" /\ replays = {} /\ firing = {} /\ swept = 0
  /\ jobHistory = {}
  /\ started = [d \in Due |-> 0] /\ collided = {} /\ downs = 0

-----------------------------------------------------------------------------
(* executeScheduledBackup, the end of all three paths.  The host may be offline, and the   *)
(* machine may be busy with a job of another schedule, whenever it is called.              *)

InFlight == \E r \in jobHistory : r.status = "active"

SkippedOffline(d) ==
  /\ jobHistory' = jobHistory \cup {Record(d, clock, "skipped")}
  /\ UNCHANGED <<started, collided>>

\* The machine already has an active job: no record is created.
Collides(d) ==
  /\ collided' = collided \cup {d}
  /\ UNCHANGED <<jobHistory, started>>

Starts(d) ==
  /\ ~InFlight
  /\ jobHistory' = jobHistory \cup {Record(d, clock, "active")}
  /\ started' = [started EXCEPT ![d] = @ + 1]
  /\ UNCHANGED collided

executeScheduledBackup(d) == SkippedOffline(d) \/ Collides(d) \/ Starts(d)

ExecuteCall ==
  \E f \in firing :
    /\ alive
    /\ executeScheduledBackup(f.due)
    /\ firing' = firing \ {f}
    /\ UNCHANGED <<policy, clock, lifeVars, recovery, replays, swept>>

RunEnds ==
  \E r \in jobHistory :
    /\ alive /\ r.status = "active"
    /\ jobHistory' = (jobHistory \ {r}) \cup {Record(r.due, r.startTime, "ended")}
    /\ UNCHANGED <<policy, clock, lifeVars, recovery, replays, firing, swept,
                   started, collided>>

-----------------------------------------------------------------------------
(* The cron task: armed when the controller starts, and not guaranteed to run *)

CronFires ==
  /\ alive /\ clock \in Due /\ bootedAt < clock
  /\ \A f \in firing : f.due # clock
  /\ \A r \in jobHistory : r.due # clock
  /\ clock \notin collided
  /\ firing' = firing \cup {[due |-> clock, by |-> "cron"]}
  /\ UNCHANGED <<policy, clock, lifeVars, recovery, replays, swept, jobHistory,
                 started, collided>>

-----------------------------------------------------------------------------
(* The heartbeat, and the recovery after a start *)

writeNow ==
  /\ alive /\ heartbeat # clock
  /\ heartbeat' = clock
  /\ UNCHANGED <<policy, clock, alive, bootedAt, bootSnapshot, downs, recovery, replays, firing,
                 swept, jobHistory, started, collided>>

ControllerStops ==
  /\ alive /\ downs < MaxDowns
  /\ alive' = FALSE /\ downs' = downs + 1
  /\ bootSnapshot' = 0 /\ recovery' = "waiting" /\ replays' = {} /\ firing' = {} /\ swept' = 0
  /\ UNCHANGED <<policy, clock, bootedAt, heartbeat, jobHistory, started, collided>>

\* readBootSnapshot comes before the first writeNow of the new life.
ControllerStarts ==
  /\ ~alive
  /\ alive' = TRUE /\ bootedAt' = clock /\ bootSnapshot' = heartbeat
  /\ UNCHANGED <<policy, clock, heartbeat, downs, recovery, replays, firing, swept,
                 jobHistory, started, collided>>

computeMissedRuns(from, to) == {d \in Due : from < d /\ d <= to}
Latest(S) == CHOOSE d \in S : \A e \in S : e <= d

\* Occurrences of the outage that are not older than the grace period.
InGrace ==
  IF bootSnapshot = 0 \/ bootedAt - bootSnapshot < Threshold THEN {}
  ELSE {d \in computeMissedRuns(bootSnapshot, bootedAt) : bootedAt <= d + Grace}

\* What the recovery only records, and what it fires, under the schedule's policy.
Dropped == CASE policy = "skip" -> InGrace
             [] policy = "most-recent" /\ InGrace # {} -> InGrace \ {Latest(InGrace)}
             [] OTHER -> {}

recordMissed(S) == jobHistory' = jobHistory \cup {Record(d, d, "dropped") : d \in S}

\* Its timer of ten seconds lets the first heartbeat of this life come before it.
runRecovery ==
  /\ alive /\ recovery = "waiting" /\ bootedAt <= heartbeat
  /\ recordMissed(Dropped)
  /\ replays' = InGrace \ Dropped
  /\ recovery' = IF InGrace = Dropped THEN "done" ELSE "replaying"
  /\ UNCHANGED <<policy, clock, lifeVars, firing, swept, started, collided>>

\* The write of the records fails: they are lost, and with them the replays of the schedule.
recoveryFails ==
  /\ alive /\ recovery = "waiting" /\ bootedAt <= heartbeat /\ Dropped # {}
  /\ recovery' = "failed"
  /\ UNCHANGED <<policy, clock, lifeVars, replays, firing, swept, jobHistory, started, collided>>

\* Mutant: the recovery is over after its first replay.
replayOnce ==
  /\ alive /\ recovery = "replaying"
  /\ \E d \in replays : (\A e \in replays : d <= e) /\ executeScheduledBackup(d)
  /\ replays' = {} /\ recovery' = "done"
  /\ UNCHANGED <<policy, clock, lifeVars, firing, swept>>

\* replayRun: one occurrence after the other, each awaited.
replayRun ==
  /\ alive /\ recovery = "replaying"
  /\ \E d \in replays :
       /\ \A e \in replays : d <= e
       /\ executeScheduledBackup(d)
       /\ replays' = replays \ {d}
       /\ recovery' = IF replays = {d} THEN "done" ELSE "replaying"
  /\ UNCHANGED <<policy, clock, lifeVars, firing, swept>>

-----------------------------------------------------------------------------
(* The catch-up *)

\* Mutant: the test of the settling time is the wrong way round.
OverdueLate == {d \in Due : clock < d + SettleTime /\ d <= clock}

Overdue == {d \in Due : clock < d + Window /\ d + SettleTime <= clock}

\* Mutant: what the recovery recorded as missed does not count.
alreadyStarted(d) == \E r \in jobHistory : r.status # "dropped" /\ d <= r.startTime + Tolerance

alreadyFired(d) == \E r \in jobHistory : d <= r.startTime + Tolerance

\* Mutant: the job history is not looked at.
catchUpBlindly ==
  /\ alive
  /\ swept' = clock
  /\ firing' = IF Overdue # {}
               THEN firing \cup {[due |-> Latest(Overdue), by |-> "catch-up"]} ELSE firing
  /\ UNCHANGED <<policy, clock, lifeVars, recovery, replays, jobHistory, started,
                 collided>>

catchUpRecentMisses ==
  /\ alive
  /\ swept' = clock
  /\ firing' = IF Overdue # {} /\ ~alreadyFired(Latest(Overdue))
               THEN firing \cup {[due |-> Latest(Overdue), by |-> "catch-up"]}
               ELSE firing
  /\ UNCHANGED <<policy, clock, lifeVars, recovery, replays, jobHistory, started,
                 collided>>

-----------------------------------------------------------------------------
(* The clock *)

\* Heartbeats, sweeps and pending calls are short against the unit of time.
ClockTicks ==
  /\ clock < LastTime
  /\ alive => heartbeat = clock /\ swept = clock /\ firing = {}
  /\ clock' = clock + 1
  /\ UNCHANGED <<policy, lifeVars, recovery, replays, firing, swept, jobHistory,
                 started, collided>>

RecoverySteps == runRecovery \/ recoveryFails \/ replayRun
MissedNext ==
  \/ ExecuteCall \/ RunEnds \/ CronFires \/ writeNow \/ ControllerStops \/ ControllerStarts
  \/ RecoverySteps \/ catchUpRecentMisses \/ ClockTicks

MissedSpec == MissedInit /\ [][MissedNext]_missedVars
              /\ WF_missedVars(RecoverySteps) /\ WF_missedVars(writeNow)
              /\ WF_missedVars(ExecuteCall)

-----------------------------------------------------------------------------
(* Properties *)

Answered(d) == d \in collided \/ \E r \in jobHistory : r.due = d

\* However cron, the recovery after a crash and the catch-up interleave, no occurrence is
\* started more than twice: each of the two paths that come after cron looks at what is on
\* record, but not at what the other one is about to fire.
AtMostTwice == \A d \in Due : started[d] <= 2

\* The sweeps leave no silent gap: once a controller that was up inside the window of an
\* occurrence has swept, the occurrence has its record, or a job of the schedule shadows it,
\* having started less than the tolerance before it, or it or a later one, the only one a
\* sweep looks at, met an active job.
NoSilentGap ==
  \A d \in Due :
    alive /\ firing = {} /\ d + SettleTime < clock /\ bootedAt < clock /\ bootedAt < d + Window
      => \/ Answered(d)
         \/ \E r \in jobHistory : d <= r.startTime + Tolerance
         \/ \E e \in collided : d < e

\* What the recovery dropped and recorded is not fired afterwards, by any path, unless the
\* catch-up had picked it before the record was there.
DroppedStaysDropped ==
  [][\A d \in Due : Record(d, d, "dropped") \in jobHistory /\ (\A f \in firing : f.due # d)
       => started'[d] = started[d] /\ \A f \in firing' : f.due # d]_missedVars

\* After an outage the recovery answers every occurrence inside the grace period, if the
\* controller stays up and the occurrences it drops can be recorded: no replay gets stuck behind
\* another one.
RecoveryAnswers ==
  \A d \in Due :
    (alive /\ recovery = "waiting" /\ d \in InGrace) ~> (Answered(d) \/ ~alive \/ recovery = "failed")
=============================================================================
