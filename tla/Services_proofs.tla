-------------------------- MODULE Services_proofs --------------------------
(****************************************************************************)
(* Proofs about Services, the specification that the runs of ServicesMC     *)
(* check.  The invariants of the missed runs, the reconciliation, the       *)
(* replication and the restores come from the proofs of these modules; the  *)
(* types of the host status are proved here.  The services share no         *)
(* variable, so that each invariant survives the steps of the others as it  *)
(* survives a stutter of its own.                                           *)
(****************************************************************************)
EXTENDS Services, MissedRuns_proofs, JobReconcile_proofs, Transfers_proofs, TLAPS

(* The status of the hosts *)

LEMMA StrikeType == \A n \in 0..2 : Strike(n) \in 0..2
BY DEF Strike, Threshold2

\* A host that was probed is online or offline.
LEMMA ProbedStatus == \A h \in Hosts : Probed(h) \in Status
BY DEF Probed, Status

\* What the check, the run of the health check service and a write may hold.
CheckRec == [on : BOOLEAN, todo : SUBSET Hosts, seen : [Hosts -> Status],
             strikes : [Hosts -> 0..2], changed : BOOLEAN]
ProbeRec == [on : BOOLEAN, todo : SUBSET Hosts, seen : [Hosts -> Status]]
WriteRec == [step : {"none", "due", "read"}, host : Hosts, status : Status,
             seen : [Hosts -> Status], strikes : [Hosts -> 0..2]]

LEMMA IdleTypes == IdleCheck \in CheckRec /\ IdleProbe \in ProbeRec /\ NoWrite \in WriteRec
<1>1. "gone" \in Status /\ 1 \in Hosts
  BY HostsAssumption DEF Status, Hosts
<1> QED BY <1>1 DEF IdleCheck, IdleProbe, NoWrite, CheckRec, ProbeRec, WriteRec

\* A status that is written is written into the hosts as they are read, a deleted one not at all.
LEMMA ReadsType ==
  ASSUME HealthTypeOK, NEW w \in Writers, NEW h \in Hosts, NEW s \in Status, Reads(w, h, s)
  PROVE  writes' \in [Writers -> WriteRec]
<1>1. PICK new : new = IF hostStatus[h] = "gone" THEN NoWrite
                       ELSE [NoWrite EXCEPT !.step = "read",
                                            !.seen = [hostStatus EXCEPT ![h] = s],
                                            !.strikes = strikes]
  OBVIOUS
<1>2. writes \in [Writers -> WriteRec] /\ writes' = [writes EXCEPT ![w] = new]
  BY <1>1 DEF HealthTypeOK, WriteRec, Reads
<1>3. [hostStatus EXCEPT ![h] = s] \in [Hosts -> Status] /\ strikes \in [Hosts -> 0..2]
  BY DEF HealthTypeOK
<1>4. new \in WriteRec
  BY <1>1, <1>3, IdleTypes DEF WriteRec
<1> QED BY <1>2, <1>4

\* So is the one that the health check service is about to write.
LEMMA UpdateType ==
  ASSUME HealthTypeOK, NEW h \in Hosts, NEW s \in Status, updateBackupHost(h, s)
  PROVE  writes' \in [Writers -> WriteRec]
<1>1. PICK new : new = [NoWrite EXCEPT !.step = "due", !.host = h, !.status = s]
  OBVIOUS
<1>2. /\ writes \in [Writers -> WriteRec] /\ writes' = [writes EXCEPT !["probe"] = new]
      /\ "probe" \in Writers
  BY <1>1 DEF HealthTypeOK, WriteRec, updateBackupHost, Writers
<1>3. new \in WriteRec
  BY <1>1, IdleTypes DEF WriteRec
<1> QED BY <1>2, <1>3

LEMMA HealthInitType == HealthInit => HealthTypeOK
<1> SUFFICES ASSUME HealthInit PROVE HealthTypeOK
  OBVIOUS
<1>1. /\ reachable \in [Hosts -> BOOLEAN] /\ hostStatus \in [Hosts -> Status]
      /\ strikes \in [Hosts -> 0..2] /\ failures \in [Hosts -> 0..2] /\ firstCheck \in BOOLEAN
  BY DEF HealthInit, Status
<1>2. check \in CheckRec /\ probe \in ProbeRec /\ writes \in [Writers -> WriteRec]
  BY IdleTypes DEF HealthInit
<1>3. poll \in [on : BOOLEAN, host : Hosts, was : Status]
  BY HostsAssumption DEF HealthInit, NoPoll, Status, Hosts
<1> QED BY <1>1, <1>2, <1>3 DEF HealthTypeOK, CheckRec, ProbeRec, WriteRec

\* The probe of one host of the check: the copy it works with keeps its types.
LEMMA CheckProbesType ==
  ASSUME HealthTypeOK, NEW h \in Hosts, CheckProbes(h)
  PROVE  check' \in CheckRec
<1>1. check \in CheckRec
  BY DEF HealthTypeOK, CheckRec
<1>2. PICK count : count = CASE reachable[h] -> 0
                    [] ~reachable[h] /\ check.seen[h] = "online" -> Strike(check.strikes[h])
                    [] OTHER -> check.strikes[h]
  OBVIOUS
<1>3. check.strikes \in [Hosts -> 0..2] /\ check.seen \in [Hosts -> Status]
      /\ check.todo \subseteq Hosts /\ check.changed \in BOOLEAN
  BY <1>1 DEF CheckRec
<1>4. count \in 0..2
  <2>1. CASE reachable[h]
    BY <1>2, <2>1
  <2>2. CASE ~reachable[h] /\ check.seen[h] = "online"
    <3>1. count = Strike(check.strikes[h])
      BY <1>2, <2>2
    <3>2. check.strikes[h] \in 0..2
      BY <1>3
    <3> QED BY <3>1, <3>2, StrikeType
  <2>3. CASE ~reachable[h] /\ check.seen[h] # "online"
    <3>1. count = check.strikes[h]
      BY <1>2, <2>3
    <3> QED BY <3>1, <1>3
  <2> QED BY <2>1, <2>2, <2>3
<1>5. PICK flips \in BOOLEAN : flips = (/\ check.seen[h] # Probed(h)
                                        /\ reachable[h] \/ count >= Threshold2)
  OBVIOUS
<1>6. PICK seen : seen = IF flips THEN Probed(h) ELSE check.seen[h]
  OBVIOUS
<1>7. seen \in Status
  BY <1>3, <1>6, ProbedStatus
<1>8. check' = [check EXCEPT !.todo = check.todo \ {h}, !.strikes[h] = count,
                             !.seen[h] = seen, !.changed = check.changed \/ flips]
  BY <1>2, <1>5, <1>6 DEF CheckProbes
<1>9. PICK todo, strikesNow, seenNow, changed :
         /\ todo = check.todo \ {h} /\ strikesNow = [check.strikes EXCEPT ![h] = count]
         /\ seenNow = [check.seen EXCEPT ![h] = seen]
         /\ changed = (check.changed \/ flips)
  OBVIOUS
<1>10. /\ todo \subseteq Hosts /\ strikesNow \in [Hosts -> 0..2]
       /\ seenNow \in [Hosts -> Status] /\ changed \in BOOLEAN
  BY <1>3, <1>4, <1>7, <1>9
<1>11. check' = [on |-> check.on, todo |-> todo, seen |-> seenNow, strikes |-> strikesNow,
                 changed |-> changed]
  BY <1>1, <1>8, <1>9 DEF CheckRec
<1> QED BY <1>1, <1>10, <1>11 DEF CheckRec

LEMMA HealthNextType == HealthTypeOK /\ [HealthNext]_healthVars => HealthTypeOK'
<1> SUFFICES ASSUME HealthTypeOK, [HealthNext]_healthVars PROVE HealthTypeOK'
  OBVIOUS
<1>0. /\ check \in CheckRec /\ probe \in ProbeRec /\ Present \subseteq Hosts
      /\ writes \in [Writers -> WriteRec] /\ "probe" \in Writers /\ "poll" \in Writers
      /\ "operator" \in Writers
  BY DEF HealthTypeOK, CheckRec, ProbeRec, WriteRec, Present, Writers
<1>1. CASE CheckReads
  <2>1. check' \in CheckRec
    BY <1>0, <1>1 DEF CheckReads, HealthTypeOK, CheckRec
  <2> QED BY <1>1, <2>1 DEF CheckReads, HealthTypeOK, CheckRec
<1>2. ASSUME NEW h \in Hosts, CheckProbes(h) PROVE HealthTypeOK'
  <2>1. check' \in CheckRec
    BY <1>2, CheckProbesType
  <2> QED BY <1>2, <2>1 DEF CheckProbes, HealthTypeOK, CheckRec
<1>3. CASE CheckSaves
  <2>1. check.seen \in [Hosts -> Status] /\ check.strikes \in [Hosts -> 0..2]
    BY <1>0 DEF CheckRec
  <2>2. hostStatus' \in [Hosts -> Status] /\ strikes' \in [Hosts -> 0..2]
    BY <1>3, <2>1 DEF CheckSaves, HealthTypeOK
  <2>3. check' \in CheckRec
    BY <1>3, IdleTypes DEF CheckSaves
  <2> QED BY <1>3, <2>2, <2>3 DEF CheckSaves, HealthTypeOK, CheckRec
<1>4. CASE ProbeReads
  <2>1. probe' \in ProbeRec
    BY <1>0, <1>4 DEF ProbeReads, HealthTypeOK, ProbeRec
  <2> QED BY <1>4, <2>1 DEF ProbeReads, HealthTypeOK, ProbeRec
<1>5. ASSUME NEW h \in Hosts, ProbeFails(h) PROVE HealthTypeOK'
  <2>1. probe' \in ProbeRec
    BY <1>0, <1>5 DEF ProbeFails, ProbesNext, ProbeRec
  <2>2. PICK count : /\ failures' = [failures EXCEPT ![h] = count]
                     /\ count = Strike(failures[h]) \/ count = failures[h]
                     /\ UNCHANGED writes \/ updateBackupHost(h, "offline")
    BY <1>5 DEF ProbeFails
  <2>3. failures[h] \in 0..2
    BY DEF HealthTypeOK
  <2>4. count \in 0..2
    BY <2>2, <2>3, StrikeType
  <2>5. "offline" \in Status
    BY DEF Status
  <2>6. writes' \in [Writers -> WriteRec]
    BY <2>2, <2>5, <1>0, UpdateType
  <2>7. failures' \in [Hosts -> 0..2]
    BY <2>2, <2>4 DEF HealthTypeOK
  <2>8. UNCHANGED <<reachable, hostStatus, strikes, check, firstCheck, poll>>
    BY <1>5 DEF ProbeFails
  <2> QED BY <2>1, <2>6, <2>7, <2>8 DEF HealthTypeOK, ProbeRec, WriteRec
<1>6. ASSUME NEW h \in Hosts, ProbeFinds(h) PROVE HealthTypeOK'
  <2>1. probe' \in ProbeRec
    BY <1>0, <1>6 DEF ProbeFinds, ProbesNext, ProbeRec
  <2>2. "online" \in Status
    BY DEF Status
  <2>3. updateBackupHost(h, "online") /\ failures' = [failures EXCEPT ![h] = 0]
        /\ UNCHANGED <<reachable, hostStatus, strikes, check, firstCheck, poll>>
    BY <1>6 DEF ProbeFinds
  <2>4. writes' \in [Writers -> WriteRec]
    BY <2>2, <2>3, UpdateType
  <2>5. failures' \in [Hosts -> 0..2]
    BY <2>3 DEF HealthTypeOK
  <2> QED BY <2>1, <2>3, <2>4, <2>5 DEF HealthTypeOK, ProbeRec, WriteRec
<1>7. CASE ProbeUpdates
  <2>1. writes["probe"].host \in Hosts /\ writes["probe"].status \in Status
    BY <1>0 DEF WriteRec
  <2>2. writes' \in [Writers -> WriteRec]
    BY <1>0, <1>7, <2>1, ReadsType DEF ProbeUpdates
  <2> QED BY <1>7, <2>2 DEF ProbeUpdates, HealthTypeOK, WriteRec
<1>8. CASE ProbeEnds
  <2>1. probe' \in ProbeRec
    BY <1>8, IdleTypes DEF ProbeEnds
  <2> QED BY <1>8, <2>1 DEF ProbeEnds, HealthTypeOK, ProbeRec
<1>9. CASE PollEnds
  <2>1. poll.host \in Hosts /\ poll' \in [on : BOOLEAN, host : Hosts, was : Status]
    BY <1>9, HostsAssumption DEF PollEnds, HealthTypeOK, NoPoll, Hosts, Status
  <2>2. Reads("poll", poll.host, Probed(poll.host)) \/ UNCHANGED writes
    BY <1>9 DEF PollEnds
  <2>3. writes' \in [Writers -> WriteRec]
    BY <1>0, <2>1, <2>2, ReadsType, ProbedStatus
  <2> QED BY <1>9, <2>1, <2>3 DEF PollEnds, HealthTypeOK, WriteRec
<1>10. ASSUME NEW w \in Writers, WriteSaves(w) PROVE HealthTypeOK'
  <2>1. writes[w].seen \in [Hosts -> Status] /\ writes[w].strikes \in [Hosts -> 0..2]
    BY <1>0 DEF WriteRec
  <2>2. writes' \in [Writers -> WriteRec]
    BY <1>0, <1>10, IdleTypes DEF WriteSaves
  <2> QED BY <1>10, <2>1, <2>2 DEF WriteSaves, HealthTypeOK, WriteRec
<1>11. ASSUME NEW h \in Hosts, PollStarts(h) \/ AgentFlips(h) \/ HostDeleted(h)
       PROVE  HealthTypeOK'
  <2>1. CASE PollStarts(h)
    BY <2>1 DEF PollStarts, HealthTypeOK
  <2>2. CASE AgentFlips(h)
    <3>1. reachable \in [Hosts -> BOOLEAN]
      BY DEF HealthTypeOK
    <3>2. reachable' = [reachable EXCEPT ![h] = ~reachable[h]]
      BY <2>2 DEF AgentFlips
    <3>3. reachable' \in [Hosts -> BOOLEAN]
      BY <3>1, <3>2, Zenon
    <3> QED BY <2>2, <3>3 DEF AgentFlips, HealthTypeOK
  <2>3. CASE HostDeleted(h)
    <3>1. "gone" \in Status
      BY DEF Status
    <3>2. writes' \in [Writers -> WriteRec]
      BY <1>0, <2>3, <3>1, ReadsType DEF HostDeleted
    <3> QED BY <2>3, <3>2 DEF HostDeleted, HealthTypeOK, WriteRec
  <2> QED BY <1>11, <2>1, <2>2, <2>3
<1>12. CASE UNCHANGED healthVars
  BY <1>12 DEF healthVars, HealthTypeOK
<1> QED BY <1>0, <1>1, <1>2, <1>3, <1>4, <1>5, <1>6, <1>7, <1>8, <1>9, <1>10, <1>11, <1>12
        DEF HealthNext, CheckStep, ProbeStep

-----------------------------------------------------------------------------
(* The services side by side *)

ServicesInv ==
  /\ part \in AllParts
  /\ HealthTypeOK /\ MissedTypeOK /\ MissedInv /\ RecordInv
  /\ SyncInv /\ FreshInv /\ RestoreInv

LEMMA ServicesStart == ServicesInit => ServicesInv
BY PartsAssumption, HealthInitType, InitType, InitInv, RecordInit, SyncInit, FreshInit,
   RestoreInitInv
   DEF ServicesInit, ServicesInv

\* A step of one service is a step of its own and a stutter of every other.
LEMMA EachMoves ==
  ASSUME [ServicesNext]_servicesVars
  PROVE  /\ [HealthNext]_healthVars /\ [MissedNext]_missedVars
         /\ [ReconcileNext]_reconcileVars /\ [OffsiteNext]_offsiteVars
         /\ [RestoreNext]_restoreVars /\ UNCHANGED part
BY DEF ServicesNext, servicesVars

LEMMA ServicesStep == ServicesInv /\ [ServicesNext]_servicesVars => ServicesInv'
<1> SUFFICES ASSUME ServicesInv, [ServicesNext]_servicesVars PROVE ServicesInv'
  OBVIOUS
<1>1. /\ [HealthNext]_healthVars /\ [MissedNext]_missedVars
      /\ [ReconcileNext]_reconcileVars /\ [OffsiteNext]_offsiteVars
      /\ [RestoreNext]_restoreVars /\ UNCHANGED part
  BY EachMoves
<1>2. HealthTypeOK' /\ MissedTypeOK' /\ MissedInv' /\ RestoreInv'
  BY <1>1, HealthNextType, NextType, NextInv, RestoreNextInv DEF ServicesInv
<1>3. RecordInv'
  BY <1>1, RecordNext DEF ServicesInv
<1>4. SyncInv' /\ FreshInv'
  BY <1>1, SyncStep, SyncStutters, FreshStep, FreshQuietly DEF ServicesInv
<1> QED BY <1>1, <1>2, <1>3, <1>4 DEF ServicesInv

LEMMA ServicesInvariant == ServicesSpec => []ServicesInv
BY ServicesStart, ServicesStep, PTL DEF ServicesSpec

\* The service that moves keeps its types (ServicesTypeOK): a status written back from an older
\* copy of the file is a status, and the count of failures stops at the threshold.
THEOREM ServicesTypes == ServicesSpec => []ServicesTypeOK
<1>1. ASSUME ServicesInv PROVE ServicesTypeOK
  <2>1. HealthTypeOK /\ MissedTypeOK /\ ReconcileTypeOK /\ RestoreTypeOK
    BY <1>1 DEF ServicesInv, RecordInv, RestoreInv
  <2>2. OffsiteTypeOK
    BY <1>1, SyncInvTypes DEF ServicesInv
  <2> QED BY <1>1, <2>1, <2>2 DEF ServicesInv, AllParts, ServicesTypeOK
<1> QED BY <1>1, ServicesInvariant, PTL

\* What the services promise each of its own holds for them side by side: no occurrence is
\* started more than twice or forgotten, a run has one active record and exit code zero is
\* never made up, a machine has one active sync; a sync is recorded as completed only when the
\* copy has what it was asked for or the job is one whose verdict is in doubt (OffsiteJobs,
\* doubtful: a target stood aside, a kill between two targets, the events of another run), and a
\* restore only when every disk its script saw was done, or it is contested (RestoreJobs).
THEOREM ServicesKeepPromises ==
  ServicesSpec => [](/\ AtMostTwice /\ NoSilentGap /\ TrackedOnce /\ NeverFalselyGreen
                     /\ OneActiveJob /\ CompletedIsCopied /\ HonestRestore)
<1>1. ASSUME ServicesInv PROVE AtMostTwice /\ NoSilentGap
  BY <1>1, InvImpliesNoGap DEF ServicesInv, MissedInv, CountOK, AtMostTwice
<1>2. ASSUME ServicesInv PROVE TrackedOnce /\ NeverFalselyGreen
  <2>1. RecordInv
    BY <1>2 DEF ServicesInv
  <2>2. TrackedOnce
    BY <2>1 DEF RecordInv, Single, TrackedOnce, Active, Recorded
  <2>3. NeverFalselyGreen
    BY <2>1, InvHere, Ids DEF OwnRecs, OwnRec, Green, NeverFalselyGreen
  <2> QED BY <2>2, <2>3
<1>3. ASSUME ServicesInv PROVE OneActiveJob /\ CompletedIsCopied
  <2>1. OneActiveJob
    BY <1>3 DEF ServicesInv, FreshInv, OneClaim, Claims, IsActive, OneActiveJob, Untouched
  <2>2. CompletedIsCopied
    BY <1>3 DEF ServicesInv, SyncInv, StoreOK, CompletedIsCopied, Earned
  <2> QED BY <2>1, <2>2
<1>4. ASSUME ServicesInv PROVE HonestRestore
  BY <1>4 DEF ServicesInv, RestoreInv, Sound, EntryOK, Tells, Done, HonestRestore
<1> QED BY <1>1, <1>2, <1>3, <1>4, ServicesInvariant, PTL
=============================================================================
