------------------------- MODULE MissedRuns_proofs -------------------------
(****************************************************************************)
(* The safety of the paths that fire a schedule, for any occurrences,       *)
(* times and policies.                                                      *)
(*                                                                          *)
(* None of the properties is inductive.  AtMostTwice needs to know which    *)
(* starts are still to come: a call may be pending, and the recovery of     *)
(* this life or of a later one may still replay an occurrence (Replayable). *)
(* NoSilentGap needs to know what each sweep left behind (SweptOK).         *)
(****************************************************************************)
EXTENDS MissedRuns, WellFoundedInduction, TLAPS

\* Lives, heartbeats and sweeps in the order of time.
TimesOK ==
  /\ heartbeat <= clock /\ bootedAt <= clock /\ bootSnapshot <= heartbeat
  /\ alive => swept = clock \/ swept + 1 = clock \/ (swept = 0 /\ bootedAt = clock)
  /\ ~alive => recovery = "waiting"
  /\ recovery # "replaying" => replays = {}
  /\ alive /\ recovery # "waiting" => bootedAt <= heartbeat

\* A stopped controller has no calls and no sweep behind it.
StoppedOK == ~alive => firing = {} /\ replays = {} /\ swept = 0

\* What is called was due; cron calls in its minute, the catch-up later.
FiringOK ==
  /\ \A f \in firing : f.by = "cron" => f.due = clock
  /\ \A f \in firing : f.by = "catch-up" => f.due + SettleTime <= clock
  /\ \A d \in replays : d <= heartbeat

\* A start is on record, not before the occurrence.
StartsOK ==
  \A d \in Due : started[d] > 0 => \E r \in jobHistory : r.due = d /\ d <= r.startTime

Pending(d) == \E f \in firing : f.due = d

\* The recovery may still replay d, in this life or in a later one.
Replayable(d) ==
  \/ heartbeat < d
  \/ d \in replays
  \/ alive /\ recovery = "waiting" /\ d \in InGrace

CountOK(d) ==
  /\ started[d] <= 2
  /\ Pending(d) => started[d] <= 1
  /\ Replayable(d) => started[d] <= 1
  /\ Pending(d) /\ Replayable(d) => started[d] = 0

DroppedOK(d) == Record(d, d, "dropped") \in jobHistory => ~Replayable(d)

Covered(d) ==
  \/ \E e \in collided : d <= e
  \/ \E r \in jobHistory : d <= r.startTime + Tolerance

\* A sweep covers what is overdue in its window, or has a call under way that will.
SweptOK(d) ==
  alive /\ bootedAt < d + Window /\ d + SettleTime <= swept
    => Covered(d) \/ \E f \in firing : d <= f.due

MissedInv ==
  /\ MissedTypeOK /\ TimesOK /\ StoppedOK /\ FiringOK /\ StartsOK
  /\ \A d \in Due : CountOK(d) /\ DroppedOK(d) /\ SweptOK(d)

-----------------------------------------------------------------------------
(* What the operators return *)

LEMMA LatestOK ==
  ASSUME NEW S \in SUBSET Due, S # {}
  PROVE  Latest(S) \in S /\ \A e \in S : e <= Latest(S)
<1>1. \A d \in Due : d \in Nat /\ d <= LastTime /\ LastTime - d \in Nat /\ d > 0
  BY DueAssumption
<1> DEFINE T == {LastTime - d : d \in S}
<1>2. T \in SUBSET Nat /\ T # {}
  BY <1>1
<1>3. \E n \in T : \A m \in T : n <= m
  <2> DEFINE R == {ss \in Nat \X Nat : ss[1] < ss[2]}
  <2>1. IsWellFoundedOn(R, Nat)
    BY NatLessThanWellFounded DEF OpToRel
  <2> HIDE DEF T
  <2>2. \E n \in T : \A m \in T : <<m, n>> \notin R
    <3> HIDE DEF R
    <3> QED BY <1>2, <2>1, WFMin
  <2>3. PICK n \in T : \A m \in T : <<m, n>> \notin R
    BY <2>2
  <2>4. \A m \in T : ~(m < n)
    BY <1>2, <2>3
  <2> QED BY <1>2, <2>4
<1>4. PICK d \in S : \A m \in T : LastTime - d <= m
  BY <1>3
<1>5. \A e \in S : e <= d
  <2> TAKE e \in S
  <2>1. LastTime - d <= LastTime - e
    BY <1>4
  <2> QED BY <2>1, <1>1, DueAssumption
<1> QED BY <1>5 DEF Latest

LEMMA DueIsNat == \A d \in Due : d \in Nat /\ d > 0 /\ d <= LastTime
BY DueAssumption

LEMMA RecordType ==
  ASSUME NEW d \in Due, NEW t \in Nat, NEW s \in {"active", "ended", "skipped", "dropped"}
  PROVE  /\ Record(d, t, s) \in JobRecord
         /\ Record(d, t, s).due = d /\ Record(d, t, s).startTime = t
         /\ Record(d, t, s).status = s
BY DEF Record, JobRecord

LEMMA InGraceOK ==
  ASSUME MissedTypeOK
  PROVE  /\ InGrace \subseteq Due
         /\ \A d \in InGrace : bootSnapshot < d /\ d <= bootedAt
BY DEF InGrace, computeMissedRuns

LEMMA DroppedIsInGrace == MissedTypeOK => Dropped \subseteq InGrace
BY DEF Dropped

\* What the last call of each path does to the records.
LEMMA ExecuteOK ==
  ASSUME MissedTypeOK, NEW d \in Due, executeScheduledBackup(d)
  PROVE  /\ jobHistory' \subseteq JobRecord /\ started' \in [Due -> Nat] /\ collided' \subseteq Due
         /\ jobHistory \subseteq jobHistory' /\ collided \subseteq collided'
         /\ \A e \in Due : e # d => started'[e] = started[e]
         /\ \/ started'[d] = started[d]
            \/ started'[d] = started[d] + 1 /\ \E r \in jobHistory' : r.due = d /\ r.startTime = clock
         /\ d \in collided' \/ \E r \in jobHistory' : r.startTime = clock
         /\ \A r \in jobHistory' : r.status = "dropped" => r \in jobHistory
<1>1. clock \in Nat
  BY TimesAssumption, DueAssumption DEF MissedTypeOK
<1>2. \A s \in {"active", "skipped"} :
        /\ Record(d, clock, s) \in JobRecord
        /\ Record(d, clock, s).due = d /\ Record(d, clock, s).startTime = clock
        /\ Record(d, clock, s).status = s
  BY <1>1, RecordType
<1>3. CASE SkippedOffline(d)
  BY <1>2, <1>3 DEF SkippedOffline, MissedTypeOK
<1>4. CASE Collides(d)
  BY <1>4 DEF Collides, MissedTypeOK
<1>5. CASE Starts(d)
  BY <1>2, <1>5 DEF Starts, MissedTypeOK
<1> QED BY <1>3, <1>4, <1>5 DEF executeScheduledBackup

-----------------------------------------------------------------------------
(* Types *)

LEMMA InitType == MissedInit => MissedTypeOK
BY DueAssumption, TimesAssumption DEF MissedInit, MissedTypeOK

LEMMA NextType == MissedTypeOK /\ [MissedNext]_missedVars => MissedTypeOK'
<1> SUFFICES ASSUME MissedTypeOK, [MissedNext]_missedVars PROVE MissedTypeOK'
  OBVIOUS
<1> USE DEF lifeVars
<1>0. LastTime \in Nat /\ MaxDowns \in Nat /\ clock \in Nat
  BY DueAssumption, TimesAssumption DEF MissedTypeOK
<1>1. CASE ExecuteCall
  <2>1. PICK f \in firing :
          /\ alive /\ executeScheduledBackup(f.due) /\ firing' = firing \ {f}
          /\ UNCHANGED <<policy, clock, lifeVars, recovery, replays, swept>>
    BY <1>1 DEF ExecuteCall
  <2>2. f.due \in Due
    BY DEF MissedTypeOK, Call
  <2> QED BY <2>1, <2>2, ExecuteOK DEF MissedTypeOK
<1>2. CASE RunEnds
  <2>1. PICK r \in jobHistory :
          /\ alive
          /\ jobHistory' = (jobHistory \ {r}) \cup {Record(r.due, r.startTime, "ended")}
          /\ UNCHANGED <<policy, clock, lifeVars, recovery, replays, firing, swept, started, collided>>
    BY <1>2 DEF RunEnds
  <2>2. r.due \in Due /\ r.startTime \in Nat
    BY DEF MissedTypeOK, JobRecord
  <2>3. Record(r.due, r.startTime, "ended") \in JobRecord
    BY <2>2, RecordType
  <2> QED BY <2>1, <2>3 DEF MissedTypeOK
<1>3. CASE CronFires
  BY <1>3 DEF CronFires, MissedTypeOK, Call
<1>4. CASE writeNow
  BY <1>4 DEF writeNow, MissedTypeOK
<1>5. CASE ControllerStops
  <2>1. downs + 1 \in 0 .. MaxDowns /\ 0 \in 0 .. LastTime
    BY <1>0, <1>5 DEF ControllerStops, MissedTypeOK
  <2> QED BY <1>5, <2>1 DEF ControllerStops, MissedTypeOK
<1>6. CASE ControllerStarts
  BY <1>6 DEF ControllerStarts, MissedTypeOK
<1>7. CASE runRecovery
  <2>1. Dropped \subseteq Due /\ InGrace \subseteq Due
    BY InGraceOK, DroppedIsInGrace
  <2>2. \A d \in Due : Record(d, d, "dropped") \in JobRecord
    BY RecordType, DueIsNat
  <2> QED BY <1>7, <2>1, <2>2 DEF runRecovery, recordMissed, MissedTypeOK
<1>8. CASE replayRun
  <2>1. PICK d \in replays :
          /\ executeScheduledBackup(d) /\ replays' = replays \ {d}
          /\ recovery' \in {"done", "replaying"}
    BY <1>8 DEF replayRun
  <2>2. d \in Due
    BY DEF MissedTypeOK
  <2>3. UNCHANGED <<policy, clock, lifeVars, firing, swept>>
    BY <1>8 DEF replayRun
  <2> QED BY <2>1, <2>2, <2>3, ExecuteOK DEF MissedTypeOK
<1>9. CASE catchUpRecentMisses
  <2>1. Overdue # {} => Latest(Overdue) \in Due
    <3>1. Overdue \in SUBSET Due
      BY DEF Overdue
    <3> QED BY <3>1, LatestOK
  <2> QED BY <1>9, <2>1 DEF catchUpRecentMisses, MissedTypeOK, Call
<1>10. CASE ClockTicks
  BY <1>0, <1>10 DEF ClockTicks, MissedTypeOK
<1>11. CASE recoveryFails
  BY <1>11 DEF recoveryFails, MissedTypeOK
<1>12. CASE UNCHANGED missedVars
  BY <1>12 DEF missedVars, MissedTypeOK
<1> QED BY <1>1, <1>2, <1>3, <1>4, <1>5, <1>6, <1>7, <1>8, <1>9, <1>10, <1>11, <1>12
        DEF MissedNext, RecoverySteps

THEOREM MissedTypes == MissedSpec => []MissedTypeOK
BY InitType, NextType, PTL DEF MissedSpec

-----------------------------------------------------------------------------
(* Times and calls *)

LEMMA NumbersOK ==
  MissedTypeOK => /\ clock \in Nat /\ heartbeat \in Nat /\ bootedAt \in Nat
                  /\ bootSnapshot \in Nat /\ swept \in Nat
                  /\ \A d \in Due : started[d] \in Nat
                  /\ \A r \in jobHistory : r.startTime \in Nat /\ r.due \in Due
                  /\ \A f \in firing : f.due \in Due /\ f.by \in {"cron", "catch-up"}
                  /\ replays \subseteq Due /\ collided \subseteq Due
BY DueAssumption DEF MissedTypeOK, JobRecord, Call

LEMMA TimesNext ==
  ASSUME MissedInv, MissedNext
  PROVE  TimesOK'
<1> USE DEF lifeVars
<1>0. /\ clock \in Nat /\ heartbeat \in Nat /\ bootedAt \in Nat /\ bootSnapshot \in Nat
      /\ swept \in Nat
  BY NumbersOK DEF MissedInv
<1>t. TimesOK /\ recovery \in {"waiting", "replaying", "done", "failed"} /\ alive \in BOOLEAN
  BY DEF MissedInv, MissedTypeOK
<1>1. CASE ExecuteCall
  BY <1>1, <1>t DEF ExecuteCall, TimesOK
<1>2. CASE RunEnds
  BY <1>2, <1>t DEF RunEnds, TimesOK
<1>3. CASE CronFires
  BY <1>3, <1>t DEF CronFires, TimesOK
<1>4. CASE writeNow
  BY <1>0, <1>4, <1>t DEF writeNow, TimesOK
<1>5. CASE ControllerStops
  BY <1>0, <1>5, <1>t DEF ControllerStops, TimesOK
<1>6. CASE ControllerStarts
  <2>1. swept = 0
    BY <1>6 DEF ControllerStarts, MissedInv, StoppedOK
  <2> QED BY <1>0, <1>6, <1>t, <2>1 DEF ControllerStarts, TimesOK
<1>7. CASE runRecovery
  BY <1>7, <1>t DEF runRecovery, TimesOK
<1>8. CASE replayRun
  BY <1>8, <1>t DEF replayRun, TimesOK
<1>9. CASE catchUpRecentMisses
  BY <1>0, <1>9, <1>t DEF catchUpRecentMisses, TimesOK
<1>10. CASE ClockTicks
  BY <1>0, <1>10, <1>t DEF ClockTicks, TimesOK
<1>11. CASE recoveryFails
  BY <1>11, <1>t DEF recoveryFails, TimesOK
<1> QED BY <1>1, <1>2, <1>3, <1>4, <1>5, <1>6, <1>7, <1>8, <1>9, <1>10, <1>11
        DEF MissedNext, RecoverySteps

LEMMA DueCalls ==
  ASSUME MissedInv
  PROVE  /\ \A f \in firing : f.due \in Due /\ f.due <= clock
         /\ \A d \in replays : d \in Due /\ d <= clock
<1>0. /\ clock \in Nat /\ heartbeat \in Nat /\ SettleTime \in Nat /\ \A d \in Due : d \in Nat
      /\ \A f \in firing : f.due \in Due /\ f.by \in {"cron", "catch-up"}
      /\ replays \subseteq Due
  BY NumbersOK, DueIsNat, TimesAssumption DEF MissedInv
<1>1. FiringOK /\ heartbeat <= clock
  BY DEF MissedInv, TimesOK
<1>2. ASSUME NEW f \in firing PROVE f.due <= clock
  <2>1. CASE f.by = "cron"
    BY <1>0, <1>1, <2>1 DEF FiringOK
  <2>2. CASE f.by = "catch-up"
    <3>1. f.due + SettleTime <= clock
      BY <1>1, <2>2 DEF FiringOK
    <3>2. f.due \in Nat
      BY <1>0
    <3> QED BY <3>1, <3>2, <1>0
  <2> QED BY <1>0, <2>1, <2>2
<1>3. ASSUME NEW d \in replays PROVE d <= clock
  <2>1. d <= heartbeat
    BY <1>1 DEF FiringOK
  <2>2. d \in Nat
    BY <1>0
  <2> QED BY <1>0, <1>1, <2>1, <2>2
<1> QED BY <1>0, <1>2, <1>3

LEMMA FiringNext ==
  ASSUME MissedInv, MissedNext
  PROVE  FiringOK'
<1> USE DEF lifeVars
<1>0. /\ clock \in Nat /\ heartbeat \in Nat /\ bootedAt \in Nat /\ SettleTime \in Nat
      /\ replays \subseteq Due /\ \A d \in Due : d \in Nat
  BY NumbersOK, DueIsNat, TimesAssumption DEF MissedInv
<1>t. FiringOK /\ TimesOK
  BY DEF MissedInv
<1>1. CASE ExecuteCall
  BY <1>1, <1>t DEF ExecuteCall, FiringOK
<1>2. CASE RunEnds
  BY <1>2, <1>t DEF RunEnds, FiringOK
<1>3. CASE CronFires
  BY <1>3, <1>t DEF CronFires, FiringOK
<1>4. CASE writeNow
  <2>1. \A d \in replays : d <= clock
    BY DueCalls
  <2> QED BY <1>4, <1>t, <2>1 DEF writeNow, FiringOK
<1>5. CASE ControllerStops
  BY <1>5, <1>t DEF ControllerStops, FiringOK
<1>6. CASE ControllerStarts
  BY <1>6, <1>t DEF ControllerStarts, FiringOK
<1>7. CASE runRecovery
  <2>1. \A d \in InGrace : d \in Nat /\ d <= bootedAt
    BY <1>0, InGraceOK DEF MissedInv
  <2>2. bootedAt <= heartbeat /\ replays' = InGrace \ Dropped /\ UNCHANGED <<heartbeat, firing, clock>>
    BY <1>7 DEF runRecovery
  <2>3. \A d \in replays' : d <= heartbeat
    BY <1>0, <2>1, <2>2
  <2> QED BY <1>t, <2>2, <2>3 DEF FiringOK
<1>8. CASE replayRun
  <2>1. replays' \subseteq replays /\ UNCHANGED <<heartbeat, firing, clock>>
    BY <1>8 DEF replayRun
  <2> QED BY <2>1, <1>t DEF FiringOK
<1>9. CASE catchUpRecentMisses
  <2>1. Overdue # {} => Latest(Overdue) \in Overdue
    <3>1. Overdue \in SUBSET Due
      BY DEF Overdue
    <3> QED BY <3>1, LatestOK
  <2>2. \A d \in Overdue : d + SettleTime <= clock
    BY DEF Overdue
  <2>3. \A f \in firing' : f \in firing \/ (f.by = "catch-up" /\ f.due \in Overdue)
    BY <1>9, <2>1 DEF catchUpRecentMisses
  <2>4. UNCHANGED <<clock, replays, heartbeat>>
    BY <1>9 DEF catchUpRecentMisses
  <2> QED BY <1>t, <2>2, <2>3, <2>4 DEF FiringOK
<1>10. CASE ClockTicks
  <2>1. firing = {}
    BY <1>10 DEF ClockTicks, MissedInv, MissedTypeOK
  <2> QED BY <1>10, <1>t, <2>1 DEF ClockTicks, FiringOK
<1>11. CASE recoveryFails
  BY <1>11, <1>t DEF recoveryFails, FiringOK
<1> QED BY <1>1, <1>2, <1>3, <1>4, <1>5, <1>6, <1>7, <1>8, <1>9, <1>10, <1>11
        DEF MissedNext, RecoverySteps

-----------------------------------------------------------------------------
(* Starts *)

\* Records are kept, but for their status.
LEMMA RecordsStay ==
  ASSUME MissedInv, MissedNext
  PROVE  /\ \A r \in jobHistory : \E q \in jobHistory' : q.due = r.due /\ q.startTime = r.startTime
         /\ collided \subseteq collided'
<1> USE DEF lifeVars
<1>1. CASE ExecuteCall
  <2>1. PICK f \in firing : executeScheduledBackup(f.due)
    BY <1>1 DEF ExecuteCall
  <2> QED BY <2>1, ExecuteOK, NumbersOK DEF MissedInv
<1>2. CASE RunEnds
  <2>1. PICK r \in jobHistory :
          jobHistory' = (jobHistory \ {r}) \cup {Record(r.due, r.startTime, "ended")}
    BY <1>2 DEF RunEnds
  <2>2. /\ Record(r.due, r.startTime, "ended").due = r.due
        /\ Record(r.due, r.startTime, "ended").startTime = r.startTime
    BY DEF Record
  <2>3. collided' = collided
    BY <1>2 DEF RunEnds
  <2> QED BY <2>1, <2>2, <2>3
<1>7. CASE runRecovery
  BY <1>7 DEF runRecovery, recordMissed
<1>8. CASE replayRun
  <2>1. PICK d \in replays : executeScheduledBackup(d)
    BY <1>8 DEF replayRun
  <2> QED BY <2>1, ExecuteOK, NumbersOK DEF MissedInv
<1>9. CASE UNCHANGED <<jobHistory, collided>>
  BY <1>9
<1> QED BY <1>1, <1>2, <1>7, <1>8, <1>9
        DEF MissedNext, RecoverySteps, CronFires, writeNow, ControllerStops, ControllerStarts,
            recoveryFails, catchUpRecentMisses, ClockTicks

\* What a call that ends has done, whoever made it.
LEMMA StartsAfterCall ==
  ASSUME MissedInv, MissedNext, NEW d \in Due, d <= clock, executeScheduledBackup(d)
  PROVE  StartsOK'
<1> SUFFICES ASSUME NEW e \in Due, started'[e] > 0
             PROVE  \E r \in jobHistory' : r.due = e /\ e <= r.startTime
  BY DEF StartsOK
<1>1. CASE started'[e] = started[e]
  <2>1. PICK r \in jobHistory : r.due = e /\ e <= r.startTime
    BY <1>1 DEF MissedInv, StartsOK
  <2> QED BY <2>1, RecordsStay
<1>2. CASE started'[e] # started[e]
  <2>1. e = d /\ \E r \in jobHistory' : r.due = d /\ r.startTime = clock
    BY <1>2, ExecuteOK DEF MissedInv
  <2> QED BY <2>1
<1> QED BY <1>1, <1>2

LEMMA StartsNext ==
  ASSUME MissedInv, MissedNext
  PROVE  StartsOK'
<1>1. CASE ExecuteCall
  <2>1. PICK f \in firing : executeScheduledBackup(f.due)
    BY <1>1 DEF ExecuteCall
  <2> QED BY <2>1, StartsAfterCall, DueCalls
<1>2. CASE replayRun
  <2>1. PICK d \in replays : executeScheduledBackup(d)
    BY <1>2 DEF replayRun
  <2> QED BY <2>1, StartsAfterCall, DueCalls
<1>3. CASE started' = started
  <2> SUFFICES ASSUME NEW e \in Due, started[e] > 0
               PROVE  \E r \in jobHistory' : r.due = e /\ e <= r.startTime
    BY <1>3 DEF StartsOK
  <2>1. PICK r \in jobHistory : r.due = e /\ e <= r.startTime
    BY DEF MissedInv, StartsOK
  <2> QED BY <2>1, RecordsStay
<1> QED BY <1>1, <1>2, <1>3
        DEF MissedNext, RecoverySteps, RunEnds, CronFires, writeNow, ControllerStops,
            ControllerStarts, runRecovery, recoveryFails, catchUpRecentMisses, ClockTicks

LEMMA StoppedNext ==
  ASSUME MissedInv, MissedNext
  PROVE  StoppedOK'
<1> USE DEF lifeVars
<1>1. StoppedOK
  BY DEF MissedInv
<1> QED
  BY <1>1 DEF MissedNext, RecoverySteps, ExecuteCall, RunEnds, CronFires, writeNow, ControllerStops,
          ControllerStarts, runRecovery, recoveryFails, replayRun, catchUpRecentMisses, ClockTicks,
          StoppedOK

-----------------------------------------------------------------------------
(* How often an occurrence is started *)

\* Cron calls at the occurrence, the catch-up later: there is one call of an occurrence.
LEMMA OneCall ==
  ASSUME MissedInv, NEW f \in firing, NEW g \in firing, f.due = g.due
  PROVE  f = g
<1>1. /\ f \in Call /\ g \in Call
      /\ f.due \in Nat /\ clock \in Nat /\ SettleTime \in Nat \ {0}
  BY DueIsNat, NumbersOK, TimesAssumption DEF MissedInv, MissedTypeOK
<1>2. /\ f.by = "cron" => f.due = clock
      /\ f.by = "catch-up" => f.due + SettleTime <= clock
      /\ g.by = "cron" => g.due = clock
      /\ g.by = "catch-up" => g.due + SettleTime <= clock
  BY DEF MissedInv, FiringOK
<1>3. ~(f.due = clock /\ f.due + SettleTime <= clock)
  BY <1>1
<1>4. f.by \in {"cron", "catch-up"} /\ g.by \in {"cron", "catch-up"}
  BY <1>1 DEF Call
<1>5. f.by = g.by
  BY <1>2, <1>3, <1>4
<1> QED BY <1>1, <1>5 DEF Call

\* The recovery never comes back to an occurrence.
LEMMA ReplayableShrinks ==
  ASSUME MissedInv, MissedNext, NEW d \in Due, Replayable(d)'
  PROVE  Replayable(d)
<1> USE DEF lifeVars
<1>0. d \in Nat /\ clock \in Nat /\ heartbeat \in Nat
  BY DueIsNat, NumbersOK DEF MissedInv
<1>1. CASE UNCHANGED <<alive, bootedAt, bootSnapshot, heartbeat, recovery, replays>>
  BY <1>1 DEF Replayable, InGrace, computeMissedRuns
<1>2. CASE writeNow
  <2>1. heartbeat <= heartbeat'
    BY <1>2 DEF writeNow, MissedInv, TimesOK
  <2>2. heartbeat' < d => heartbeat < d
    BY <1>0, <1>2, <2>1 DEF writeNow
  <2>3. InGrace' = InGrace /\ UNCHANGED <<alive, recovery, replays>>
    BY <1>2 DEF writeNow, InGrace, computeMissedRuns
  <2> QED BY <2>2, <2>3 DEF Replayable
<1>3. CASE ControllerStops
  BY <1>3 DEF ControllerStops, Replayable
<1>4. CASE ControllerStarts
  <2>1. bootSnapshot' = heartbeat /\ heartbeat' = heartbeat /\ replays' = replays
    BY <1>4 DEF ControllerStarts
  <2>2. d \in InGrace' => bootSnapshot' < d
    BY DEF InGrace, computeMissedRuns
  <2> QED BY <2>1, <2>2 DEF Replayable
<1>5. CASE runRecovery
  BY <1>5 DEF runRecovery, Replayable
<1>6. CASE replayRun
  <2>1. /\ replays' \subseteq replays /\ heartbeat' = heartbeat /\ recovery' # "waiting"
    BY <1>6 DEF replayRun
  <2> QED BY <2>1 DEF Replayable
<1>7. CASE recoveryFails
  BY <1>7 DEF recoveryFails, Replayable
<1> QED BY <1>1, <1>2, <1>3, <1>4, <1>5, <1>6, <1>7
        DEF MissedNext, RecoverySteps, ExecuteCall, RunEnds, CronFires, catchUpRecentMisses,
            ClockTicks

LEMMA CountKept ==
  ASSUME MissedInv, MissedNext, NEW d \in Due, started'[d] = started[d],
         Pending(d)' => Pending(d)
  PROVE  CountOK(d)'
<1>1. Replayable(d)' => Replayable(d)
  BY ReplayableShrinks
<1>2. CountOK(d)
  BY DEF MissedInv
<1> QED BY <1>1, <1>2 DEF CountOK

\* An occurrence without a record has not been started.
LEMMA CountOfNew ==
  ASSUME MissedInv, NEW d \in Due, started'[d] = started[d],
         \A r \in jobHistory : ~(r.due = d /\ d <= r.startTime)
  PROVE  CountOK(d)'
<1>1. started[d] = 0
  BY NumbersOK DEF MissedInv, StartsOK
<1> QED BY <1>1 DEF CountOK

LEMMA CountNext ==
  ASSUME MissedInv, MissedNext, NEW d \in Due
  PROVE  CountOK(d)'
<1> USE DEF lifeVars
<1>0. /\ d \in Nat /\ clock \in Nat /\ heartbeat \in Nat /\ started[d] \in Nat
      /\ Tolerance \in Nat
  BY DueIsNat, NumbersOK, TimesAssumption DEF MissedInv
<1>c. CountOK(d) /\ MissedTypeOK
  BY DEF MissedInv
<1>1. CASE ExecuteCall
  <2>1. PICK f \in firing : executeScheduledBackup(f.due) /\ firing' = firing \ {f}
    BY <1>1 DEF ExecuteCall
  <2>2. Pending(d)' => Pending(d)
    BY <2>1 DEF Pending
  <2>3. CASE f.due # d
    <3>1. f.due \in Due
      BY NumbersOK, <1>c
    <3>2. started'[d] = started[d]
      BY <2>1, <2>3, <3>1, <1>c, ExecuteOK
    <3> QED BY <2>2, <3>2, CountKept
  <2>4. CASE f.due = d
    <3>1. ~Pending(d)'
      BY <2>1, <2>4, OneCall DEF Pending
    <3>2. Pending(d)
      BY <2>4 DEF Pending
    <3>3. started'[d] = started[d] \/ started'[d] = started[d] + 1
      BY <2>1, <2>4, <1>c, ExecuteOK
    <3>4. Replayable(d)' => Replayable(d)
      BY ReplayableShrinks
    <3> QED BY <1>0, <1>c, <3>1, <3>2, <3>3, <3>4 DEF CountOK
  <2> QED BY <2>3, <2>4
<1>2. CASE replayRun
  <2>1. PICK e \in replays : executeScheduledBackup(e) /\ replays' = replays \ {e}
    BY <1>2 DEF replayRun
  <2>2. firing' = firing /\ heartbeat' = heartbeat /\ recovery' # "waiting"
    BY <1>2 DEF replayRun
  <2>3. Pending(d)' => Pending(d)
    BY <2>2 DEF Pending
  <2>4. CASE e # d
    <3>1. e \in Due
      BY DueCalls
    <3>2. started'[d] = started[d]
      BY <2>1, <2>4, <3>1, <1>c, ExecuteOK
    <3> QED BY <2>3, <3>2, CountKept
  <2>5. CASE e = d
    <3>1. Replayable(d)
      BY <2>5 DEF Replayable
    <3>2. d <= heartbeat
      BY <2>5 DEF MissedInv, FiringOK
    <3>3. ~Replayable(d)'
      BY <1>0, <2>1, <2>2, <2>5, <3>2 DEF Replayable
    <3>4. started'[d] = started[d] \/ started'[d] = started[d] + 1
      BY <2>1, <2>5, <1>c, ExecuteOK
    <3> QED BY <1>0, <1>c, <2>3, <3>1, <3>3, <3>4 DEF CountOK
  <2> QED BY <2>4, <2>5
<1>3. CASE CronFires
  <2>1. /\ firing' = firing \cup {[due |-> clock, by |-> "cron"]} /\ started' = started
        /\ \A r \in jobHistory : r.due # clock
    BY <1>3 DEF CronFires
  <2>2. CASE d = clock
    BY <2>1, <2>2, CountOfNew
  <2>3. CASE d # clock
    <3>1. Pending(d)' => Pending(d)
      BY <2>1, <2>3 DEF Pending
    <3> QED BY <2>1, <3>1, CountKept
  <2> QED BY <2>2, <2>3
<1>4. CASE catchUpRecentMisses
  <2>0. started' = started
    BY <1>4 DEF catchUpRecentMisses
  <2>1. CASE firing' = firing
    <3>1. Pending(d)' => Pending(d)
      BY <2>1 DEF Pending
    <3> QED BY <2>0, <3>1, CountKept
  <2>2. CASE firing' # firing
    <3>1. /\ ~alreadyFired(Latest(Overdue))
          /\ firing' = firing \cup {[due |-> Latest(Overdue), by |-> "catch-up"]}
      BY <1>4, <2>2 DEF catchUpRecentMisses
    <3>2. CASE d = Latest(Overdue)
      <4>1. \A r \in jobHistory : ~(d <= r.startTime + Tolerance) /\ r.startTime \in Nat
        BY <3>1, <3>2, <1>c, NumbersOK DEF alreadyFired
      <4>2. \A r \in jobHistory : ~(d <= r.startTime)
        BY <4>1, <1>0
      <4> QED BY <2>0, <4>2, CountOfNew
    <3>3. CASE d # Latest(Overdue)
      <4>1. Pending(d)' => Pending(d)
        BY <3>1, <3>3 DEF Pending
      <4> QED BY <2>0, <4>1, CountKept
    <3> QED BY <3>2, <3>3
  <2> QED BY <2>1, <2>2
<1>5. CASE started' = started /\ firing' \subseteq firing
  <2>1. Pending(d)' => Pending(d)
    BY <1>5 DEF Pending
  <2> QED BY <1>5, <2>1, CountKept
<1> QED BY <1>1, <1>2, <1>3, <1>4, <1>5
        DEF MissedNext, RecoverySteps, RunEnds, writeNow, ControllerStops, ControllerStarts,
            runRecovery, recoveryFails, ClockTicks

-----------------------------------------------------------------------------
(* What the recovery dropped *)

LEMMA DroppedNext ==
  ASSUME MissedInv, MissedNext, NEW d \in Due
  PROVE  DroppedOK(d)'
<1> USE DEF lifeVars
<1>0. d \in Nat /\ heartbeat \in Nat /\ bootedAt \in Nat
  BY DueIsNat, NumbersOK DEF MissedInv
<1>d. DroppedOK(d) /\ MissedTypeOK
  BY DEF MissedInv
<1>r. Record(d, d, "dropped").status = "dropped"
  BY DEF Record
<1>k. ASSUME Record(d, d, "dropped") \in jobHistory PROVE DroppedOK(d)'
  <2>1. ~Replayable(d)'
    BY <1>d, <1>k, ReplayableShrinks DEF DroppedOK
  <2> QED BY <2>1 DEF DroppedOK
<1>n. ASSUME Record(d, d, "dropped") \notin jobHistory' PROVE DroppedOK(d)'
  BY <1>n DEF DroppedOK, Record
<1>1. CASE ExecuteCall
  <2>1. PICK f \in firing : executeScheduledBackup(f.due)
    BY <1>1 DEF ExecuteCall
  <2>2. f.due \in Due
    BY NumbersOK, <1>d
  <2> QED BY <2>1, <2>2, <1>d, <1>r, <1>k, <1>n, ExecuteOK
<1>2. CASE replayRun
  <2>1. PICK e \in replays : executeScheduledBackup(e)
    BY <1>2 DEF replayRun
  <2>2. e \in Due
    BY DueCalls
  <2> QED BY <2>1, <2>2, <1>d, <1>r, <1>k, <1>n, ExecuteOK
<1>3. CASE RunEnds
  <2>1. PICK r \in jobHistory :
          jobHistory' = (jobHistory \ {r}) \cup {Record(r.due, r.startTime, "ended")}
    BY <1>3 DEF RunEnds
  <2>2. Record(r.due, r.startTime, "ended").status = "ended"
    BY DEF Record
  <2>3. Record(d, d, "dropped") # Record(r.due, r.startTime, "ended")
    BY <1>r, <2>2
  <2> QED BY <1>k, <1>n, <2>1, <2>3
<1>4. CASE runRecovery
  <2>1. CASE d \in Dropped
    <3>1. d <= bootedAt
      BY <1>d, <2>1, DroppedIsInGrace, InGraceOK
    <3>2. /\ bootedAt <= heartbeat /\ heartbeat' = heartbeat /\ d \notin replays'
          /\ recovery' # "waiting"
      BY <1>4, <2>1 DEF runRecovery
    <3>3. ~Replayable(d)'
      BY <1>0, <3>1, <3>2 DEF Replayable
    <3> QED BY <3>3 DEF DroppedOK
  <2>2. CASE d \notin Dropped
    <3>1. jobHistory' = jobHistory \cup {Record(e, e, "dropped") : e \in Dropped}
      BY <1>4 DEF runRecovery, recordMissed
    <3>2. \A e \in Dropped : Record(e, e, "dropped") # Record(d, d, "dropped")
      <4> SUFFICES ASSUME NEW e \in Dropped, Record(e, e, "dropped") = Record(d, d, "dropped")
                   PROVE  FALSE
        OBVIOUS
      <4>1. Record(e, e, "dropped").due = e /\ Record(d, d, "dropped").due = d
        BY DEF Record
      <4>2. e = d
        BY <4>1
      <4> QED BY <2>2, <4>2
    <3> QED BY <1>k, <1>n, <3>1, <3>2
  <2> QED BY <2>1, <2>2
<1>5. CASE jobHistory' = jobHistory
  BY <1>5, <1>k, <1>n
<1> QED BY <1>1, <1>2, <1>3, <1>4, <1>5
        DEF MissedNext, RecoverySteps, CronFires, writeNow, ControllerStops, ControllerStarts,
            recoveryFails, catchUpRecentMisses, ClockTicks

-----------------------------------------------------------------------------
(* What a sweep covers *)

LEMMA CoveredStays ==
  ASSUME MissedInv, MissedNext, NEW d \in Due, Covered(d)
  PROVE  Covered(d)'
<1>1. CASE \E e \in collided : d <= e
  BY <1>1, RecordsStay DEF Covered
<1>2. CASE \E r \in jobHistory : d <= r.startTime + Tolerance
  <2>1. PICK r \in jobHistory : d <= r.startTime + Tolerance
    BY <1>2
  <2>2. PICK q \in jobHistory' : q.startTime = r.startTime
    BY RecordsStay
  <2>3. d <= q.startTime + Tolerance
    BY <2>1, <2>2
  <2> QED BY <2>3 DEF Covered
<1> QED BY <1>1, <1>2 DEF Covered

LEMMA SweptNext ==
  ASSUME MissedInv, MissedNext, NEW d \in Due
  PROVE  SweptOK(d)'
<1> USE DEF lifeVars
<1>0. /\ d \in Nat /\ d > 0 /\ clock \in Nat /\ swept \in Nat /\ bootedAt \in Nat
      /\ SettleTime \in Nat \ {0} /\ Window \in Nat /\ SettleTime < Window /\ Tolerance \in Nat
  BY DueIsNat, NumbersOK, TimesAssumption DEF MissedInv
<1>d. SweptOK(d) /\ MissedTypeOK
  BY DEF MissedInv
\* An earlier sweep saw to d, and its calls are still there.
<1>k. ASSUME alive, bootedAt < d + Window, d + SettleTime <= swept, firing \subseteq firing'
      PROVE  SweptOK(d)'
  <2>1. Covered(d) \/ \E f \in firing : d <= f.due
    BY <1>d, <1>k DEF SweptOK
  <2>2. CASE Covered(d)
    <3>1. Covered(d)'
      BY <2>2, CoveredStays
    <3> QED BY <3>1 DEF SweptOK
  <2>3. CASE \E f \in firing : d <= f.due
    BY <1>k, <2>3 DEF SweptOK
  <2> QED BY <2>1, <2>2, <2>3
<1>1. CASE ExecuteCall
  <2>0. alive /\ UNCHANGED <<bootedAt, swept, alive>>
    BY <1>1 DEF ExecuteCall
  <2> SUFFICES ASSUME bootedAt < d + Window, d + SettleTime <= swept
               PROVE  Covered(d)' \/ \E f \in firing' : d <= f.due
    BY <2>0 DEF SweptOK
  <2>1. PICK f \in firing : executeScheduledBackup(f.due) /\ firing' = firing \ {f}
    BY <1>1 DEF ExecuteCall
  <2>2. Covered(d) \/ \E g \in firing : d <= g.due
    BY <1>d, <2>0 DEF SweptOK
  <2>3. CASE Covered(d)
    BY <2>3, CoveredStays
  <2>4. CASE d <= f.due
    <3>1. f.due \in Due /\ f.due \in Nat /\ f.due <= clock
      BY DueCalls, DueIsNat
    <3>2. f.due \in collided' \/ \E r \in jobHistory' : r.startTime = clock
      BY <2>1, <3>1, <1>d, ExecuteOK
    <3>3. d <= clock + Tolerance
      BY <1>0, <2>4, <3>1
    <3> QED BY <2>4, <3>2, <3>3 DEF Covered
  <2>5. CASE \E g \in firing : g # f /\ d <= g.due
    BY <2>1, <2>5
  <2> QED BY <2>2, <2>3, <2>4, <2>5
<1>2. CASE catchUpRecentMisses
  <2>0. alive /\ bootedAt' = bootedAt /\ alive' = alive /\ swept' = clock /\ firing \subseteq firing'
    BY <1>2 DEF catchUpRecentMisses
  <2> SUFFICES ASSUME bootedAt < d + Window, d + SettleTime <= clock
               PROVE  SweptOK(d)'
    BY <2>0 DEF SweptOK
  <2>1. CASE clock < d + Window
    <3>1. d \in Overdue /\ Overdue \in SUBSET Due
      BY <2>1 DEF Overdue
    <3>2. PICK e \in Due : e = Latest(Overdue) /\ d <= e
      BY <3>1, LatestOK
    <3>3. CASE alreadyFired(e)
      <4>1. PICK r \in jobHistory : e <= r.startTime + Tolerance
        BY <3>3 DEF alreadyFired
      <4>2. r.startTime + Tolerance \in Nat /\ e \in Nat
        BY <1>0, <1>d, NumbersOK, DueIsNat
      <4>3. d <= r.startTime + Tolerance
        BY <1>0, <3>2, <4>1, <4>2
      <4>4. Covered(d)'
        BY <4>3, CoveredStays DEF Covered
      <4> QED BY <4>4 DEF SweptOK
    <3>4. CASE ~alreadyFired(e)
      <4>1. [due |-> e, by |-> "catch-up"] \in firing'
        BY <1>2, <3>1, <3>2, <3>4 DEF catchUpRecentMisses
      <4> QED BY <3>2, <4>1 DEF SweptOK
    <3> QED BY <3>3, <3>4
  <2>2. CASE ~(clock < d + Window)
    <3>1. swept = clock \/ swept + 1 = clock \/ (swept = 0 /\ bootedAt = clock)
      BY <2>0 DEF MissedInv, TimesOK
    <3>2. d + SettleTime <= swept
      BY <1>0, <2>2, <3>1
    <3> QED BY <1>k, <2>0, <3>2
  <2> QED BY <2>1, <2>2
<1>3. CASE ControllerStops
  BY <1>3 DEF ControllerStops, SweptOK
<1>4. CASE ControllerStarts
  <2>1. swept' = 0
    BY <1>4 DEF ControllerStarts, MissedInv, StoppedOK
  <2> QED BY <1>0, <2>1 DEF SweptOK
<1>5. CASE UNCHANGED <<alive, bootedAt, swept>> /\ firing \subseteq firing'
  BY <1>5, <1>k DEF SweptOK
<1> QED BY <1>1, <1>2, <1>3, <1>4, <1>5
        DEF MissedNext, RecoverySteps, RunEnds, CronFires, writeNow, runRecovery, recoveryFails,
            replayRun, ClockTicks

-----------------------------------------------------------------------------
(* The theorems *)

LEMMA InitInv == MissedInit => MissedInv
<1> SUFFICES ASSUME MissedInit PROVE MissedInv
  OBVIOUS
<1>1. MissedTypeOK
  BY InitType
<1>2. TimesOK /\ StoppedOK /\ FiringOK
  BY DEF MissedInit, TimesOK, StoppedOK, FiringOK
<1>3. \A d \in Due : started[d] = 0
  BY DEF MissedInit
<1>4. StartsOK /\ \A d \in Due : CountOK(d)
  BY <1>3 DEF StartsOK, CountOK
<1>5. \A d \in Due : DroppedOK(d)
  BY DEF MissedInit, DroppedOK
<1>6. ASSUME NEW d \in Due PROVE SweptOK(d)
  <2>1. d \in Nat /\ d > 0 /\ SettleTime \in Nat /\ swept = 0
    BY DueIsNat, TimesAssumption DEF MissedInit
  <2> QED BY <2>1 DEF SweptOK
<1> QED BY <1>1, <1>2, <1>4, <1>5, <1>6 DEF MissedInv

LEMMA NextInv == MissedInv /\ [MissedNext]_missedVars => MissedInv'
<1> SUFFICES ASSUME MissedInv, [MissedNext]_missedVars PROVE MissedInv'
  OBVIOUS
<1>1. CASE MissedNext
  <2>1. MissedTypeOK'
    BY NextType DEF MissedInv
  <2>2. TimesOK' /\ StoppedOK' /\ FiringOK' /\ StartsOK'
    BY <1>1, TimesNext, StoppedNext, FiringNext, StartsNext
  <2>3. \A d \in Due : CountOK(d)' /\ DroppedOK(d)' /\ SweptOK(d)'
    BY <1>1, CountNext, DroppedNext, SweptNext
  <2> QED BY <2>1, <2>2, <2>3 DEF MissedInv
<1>2. CASE UNCHANGED missedVars
  BY <1>2 DEF missedVars, MissedInv, MissedTypeOK, TimesOK, StoppedOK, FiringOK, StartsOK, CountOK,
              DroppedOK, SweptOK, Covered, Pending, Replayable, InGrace, computeMissedRuns
<1> QED BY <1>1, <1>2

LEMMA MissedInvariant == MissedSpec => []MissedInv
BY InitInv, NextInv, PTL DEF MissedSpec

\* No occurrence is started more than twice, however often the controller crashes.
THEOREM NotThrice == MissedSpec => []AtMostTwice
<1>1. MissedInv => AtMostTwice
  BY DEF MissedInv, CountOK, AtMostTwice
<1> QED BY <1>1, MissedInvariant, PTL

\* The sweeps leave no occurrence behind without a trace.
LEMMA InvImpliesNoGap == MissedInv => NoSilentGap
<1> SUFFICES ASSUME MissedInv, NEW d \in Due,
                    alive, firing = {}, d + SettleTime < clock, bootedAt < clock,
                    bootedAt < d + Window
             PROVE  \/ Answered(d)
                    \/ \E r \in jobHistory : d <= r.startTime + Tolerance
                    \/ \E e \in collided : d < e
  BY DEF NoSilentGap
<1>0. /\ d \in Nat /\ clock \in Nat /\ swept \in Nat /\ bootedAt \in Nat /\ SettleTime \in Nat
      /\ \A e \in collided : e \in Nat
  BY DueIsNat, NumbersOK, TimesAssumption DEF MissedInv
<1>1. swept = clock \/ swept + 1 = clock \/ (swept = 0 /\ bootedAt = clock)
  BY DEF MissedInv, TimesOK
<1>2. d + SettleTime <= swept
  BY <1>0, <1>1
<1>3. Covered(d)
  BY <1>2 DEF MissedInv, SweptOK
<1>4. CASE \E e \in collided : d <= e
  <2>1. PICK e \in collided : d <= e
    BY <1>4
  <2>2. d = e \/ d < e
    BY <1>0, <2>1
  <2> QED BY <2>2 DEF Answered
<1> QED BY <1>3, <1>4 DEF Covered

THEOREM NoGap == MissedSpec => []NoSilentGap
BY InvImpliesNoGap, MissedInvariant, PTL

\* What is on record as dropped is neither started nor called, by any path.
LEMMA DroppedStep ==
  ASSUME MissedInv, [MissedNext]_missedVars, NEW d \in Due,
         Record(d, d, "dropped") \in jobHistory, \A f \in firing : f.due # d
  PROVE  started'[d] = started[d] /\ \A f \in firing' : f.due # d
<1>0. d \in Nat /\ Tolerance \in Nat /\ MissedTypeOK
  BY DueIsNat, TimesAssumption DEF MissedInv
<1>r. Record(d, d, "dropped").due = d /\ Record(d, d, "dropped").startTime = d
  BY DEF Record
<1>n. d \notin replays
  BY DEF MissedInv, DroppedOK, Replayable
<1>1. CASE ExecuteCall
  <2>1. PICK f \in firing : executeScheduledBackup(f.due) /\ firing' = firing \ {f}
    BY <1>1 DEF ExecuteCall
  <2>2. f.due \in Due /\ f.due # d
    BY NumbersOK, <1>0
  <2> QED BY <2>1, <2>2, <1>0, ExecuteOK
<1>2. CASE replayRun
  <2>1. PICK e \in replays : executeScheduledBackup(e)
    BY <1>2 DEF replayRun
  <2>2. e \in Due /\ e # d
    BY DueCalls, <1>n
  <2>3. firing' = firing
    BY <1>2 DEF replayRun
  <2> QED BY <2>1, <2>2, <2>3, <1>0, ExecuteOK
<1>3. CASE CronFires
  BY <1>3, <1>r DEF CronFires
<1>4. CASE catchUpRecentMisses
  <2>1. alreadyFired(d)
    <3>1. d <= Record(d, d, "dropped").startTime + Tolerance
      BY <1>0, <1>r
    <3> QED BY <3>1 DEF alreadyFired
  <2>2. firing' = firing \/ (/\ ~alreadyFired(Latest(Overdue))
                             /\ firing' = firing \cup {[due |-> Latest(Overdue), by |-> "catch-up"]})
    BY <1>4 DEF catchUpRecentMisses
  <2>3. \A f \in firing' : f.due # d
    BY <2>1, <2>2
  <2> QED BY <1>4, <2>3 DEF catchUpRecentMisses
<1>5. CASE started' = started /\ firing' \subseteq firing
  BY <1>5
<1> QED BY <1>1, <1>2, <1>3, <1>4, <1>5
        DEF MissedNext, RecoverySteps, RunEnds, writeNow, ControllerStops, ControllerStarts,
            runRecovery, recoveryFails, ClockTicks, missedVars

THEOREM DroppedIsFinal == MissedSpec => DroppedStaysDropped
<1>1. MissedInv /\ [MissedNext]_missedVars
        => [\A d \in Due : Record(d, d, "dropped") \in jobHistory /\ (\A f \in firing : f.due # d)
              => started'[d] = started[d] /\ \A f \in firing' : f.due # d]_missedVars
  BY DroppedStep
<1> QED BY <1>1, MissedInvariant, PTL DEF MissedSpec, DroppedStaysDropped
=============================================================================
