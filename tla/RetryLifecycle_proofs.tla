------------------------ MODULE RetryLifecycle_proofs ------------------------
(***************************************************************************)
(* Proofs about RetryLifecycle, for any number of jobs, attempts, calls    *)
(* and events: its type invariant; that a job is run no more often than    *)
(* its schedule allows; that a retry that is announced is coming; and that *)
(* a completed job stays completed.                                        *)
(*                                                                         *)
(* The last three are proved while nothing was cancelled and the schedule  *)
(* fired only when all was over (Calm).  Then all calls are of one job     *)
(* (Solo), and its way to the next run is made by one of them (OneToken),  *)
(* which counts attempts at least as fast as the agent counts runs.        *)
(***************************************************************************)
EXTENDS RetryLifecycle, SequenceTheorems, TLAPS

-----------------------------------------------------------------------------
(* Records and calls *)

LEMMA EndedType ==
  ASSUME NEW array \in Arrays, NEW j \in JobIds, NEW status \in Statuses
  PROVE  Ended(array, j, status) \in Arrays
BY DEF Ended, Arrays, Record

LEMMA NoRecordType == NoRecord \in Record
BY RetryBounds DEF NoRecord, Record, Statuses

LEMMA CallIsTyped ==
  ASSUME NEW at \in Places \ (Holding \cup {"arm"}), NEW j \in JobIds, NEW n \in 0 .. MaxAttempts
  PROVE  /\ Call(at, j, n) \in CallType /\ WellFormed(Call(at, j, n))
         /\ Call(at, j, n).at = at /\ Call(at, j, n).job = j
BY DEF Call, CallType, WellFormed

LEMMA HoldingIsTyped ==
  ASSUME NEW at \in Holding, NEW j \in JobIds \cup {NoJob}, NEW n \in 0 .. MaxAttempts,
         NEW array \in Arrays, j \in JobIds \/ at = "recover"
  PROVE  LET call == [Call(at, j, n) EXCEPT !.snap = array] IN
         call \in CallType /\ WellFormed(call) /\ call.at = at
BY DEF Call, CallType, WellFormed, Holding, Places

LEMMA IdleIsTyped == Idle \in CallType /\ WellFormed(Idle) /\ Idle.at = "idle"
BY RetryBounds DEF Idle, Call, CallType, WellFormed, Holding

-----------------------------------------------------------------------------
(* Changing one call *)

LEMMA BecomeOK ==
  ASSUME CallsOK, NEW c \in Calls, NEW call \in CallType, WellFormed(call),
         Become(c, call), timers' = timers, calls[c].at # "timer"
  PROVE  CallsOK'
<1>1. calls' \in [Calls -> CallType] /\ \A d \in Calls : calls'[d] = IF d = c THEN call ELSE calls[d]
  BY DEF CallsOK, Become
<1>2. \A d \in Calls : WellFormed(calls'[d])
  BY <1>1 DEF CallsOK
<1>3. \A d \in Calls : WellFormed(calls[d])'
  BY <1>2 DEF WellFormed
<1>4. ASSUME NEW j \in JobIds, timers'[j] # NoCall
      PROVE  calls'[timers'[j]].at = "timer" /\ calls'[timers'[j]].job = j
  BY <1>1, <1>4 DEF CallsOK
<1> QED BY <1>1, <1>3, <1>4 DEF CallsOK

LEMMA DoneOK ==
  ASSUME CallsOK, NEW c \in Calls, Done(c), timers' = timers, calls[c].at # "timer"
  PROVE  CallsOK'
BY BecomeOK, IdleIsTyped DEF Done

LEMMA GoOK ==
  ASSUME CallsOK, NEW c \in Calls, NEW place \in Places, Go(c, place), timers' = timers,
         calls[c].at \notin {"timer", "idle", "recover"},
         place \in Holding => calls[c].at \in Holding,
         place = "arm" => calls[c].attempt < MaxAttempts
  PROVE  CallsOK'
<1>1. calls[c] \in CallType /\ WellFormed(calls[c])
  BY DEF CallsOK
<1>2. [calls[c] EXCEPT !.at = place] \in CallType
  BY <1>1 DEF CallType
<1>3. WellFormed([calls[c] EXCEPT !.at = place])
  BY <1>1 DEF CallType, WellFormed
<1> QED BY <1>2, <1>3, BecomeOK DEF Go

LEMMA ReadOK ==
  ASSUME CallsOK, rec \in Arrays, NEW c \in Calls, NEW place \in Places \ {"arm"},
         Read(c, place), timers' = timers, calls[c].at \notin {"timer", "idle", "recover"}
  PROVE  CallsOK'
<1>1. calls[c] \in CallType /\ WellFormed(calls[c])
  BY DEF CallsOK
<1> DEFINE call == [calls[c] EXCEPT !.at = place, !.snap = rec]
<1>2. call \in CallType
  BY <1>1 DEF CallType
<1>3. WellFormed(call)
  BY <1>1 DEF CallType, WellFormed
<1>4. Become(c, call)
  BY DEF Read
<1> HIDE DEF call
<1> QED BY <1>2, <1>3, <1>4, BecomeOK

\* A call becomes the registered timer of its job.
LEMMA TimerOK ==
  ASSUME CallsOK, NEW c \in Calls, NEW j \in JobIds, NEW call \in CallType, WellFormed(call),
         call.at = "timer", call.job = j, Become(c, call), calls[c].at # "timer",
         timers' = [timers EXCEPT ![j] = c]
  PROVE  CallsOK'
<1>1. calls' \in [Calls -> CallType] /\ \A d \in Calls : calls'[d] = IF d = c THEN call ELSE calls[d]
  BY DEF CallsOK, Become
<1>2. \A d \in Calls : WellFormed(calls'[d])
  BY <1>1 DEF CallsOK
<1>3. \A d \in Calls : WellFormed(calls[d])'
  BY <1>2 DEF WellFormed
<1>4. timers' \in [JobIds -> Calls \cup {NoCall}] /\ \A k \in JobIds : timers'[k] = IF k = j THEN c ELSE timers[k]
  BY DEF CallsOK
<1>5. ASSUME NEW k \in JobIds, timers'[k] # NoCall
      PROVE  calls'[timers'[k]].at = "timer" /\ calls'[timers'[k]].job = k
  <2>1. CASE k = j
    BY <1>1, <1>4, <2>1
  <2>2. CASE k # j
    BY <1>1, <1>4, <1>5, <2>2 DEF CallsOK
  <2> QED BY <2>1, <2>2
<1> QED BY <1>1, <1>3, <1>4, <1>5 DEF CallsOK

-----------------------------------------------------------------------------
(* What a step leaves alone *)

LEMMA SameAgent == AgentOK /\ UNCHANGED retryAgentVars => AgentOK'
BY DEF AgentOK, retryAgentVars

LEMMA SameHistory == HistoryOK /\ UNCHANGED historyVars => HistoryOK'
BY DEF HistoryOK, historyVars

LEMMA OfCall ==
  ASSUME CallsOK, NEW c \in Calls, calls[c].at \in Places \ {"recover"}
  PROVE  /\ calls[c] \in CallType /\ calls[c].job \in JobIds /\ calls[c].attempt \in 0 .. MaxAttempts
         /\ calls[c].at \in Holding => calls[c].snap \in Arrays
         /\ calls[c].at = "arm" => calls[c].attempt < MaxAttempts
BY DEF CallsOK, CallType, WellFormed, Places

LEMMA OfRecord ==
  ASSUME NEW array \in Arrays, NEW j \in JobIds
  PROVE  array[j] \in Record /\ array[j].attempt \in 0 .. MaxAttempts /\ array[j].status \in Statuses
BY DEF Arrays, Record

-----------------------------------------------------------------------------
(* The steps of a call *)

LEMMA CheckStatusType ==
  ASSUME RetryTypeOK, NEW c \in Calls, CheckStatus(c)
  PROVE  RetryTypeOK'
<1>a. calls[c].at = "check" /\ CallsOK /\ rec \in Arrays
  BY DEF RetryTypeOK, CheckStatus, At
<1>h. AgentOK' /\ HistoryOK' /\ schedule' \in BOOLEAN
  BY SameAgent, SameHistory DEF RetryTypeOK, CheckStatus
<1>r. rec' \in Arrays
  BY <1>a DEF CheckStatus
<1>c. CallsOK'
  <2>1. CASE Read(c, "remove")
    BY <1>a, <2>1, ReadOK DEF CheckStatus, Places
  <2>2. CASE Go(c, "trigger")
    BY <1>a, <2>2, GoOK DEF CheckStatus, Places, Holding
  <2> QED BY <2>1, <2>2 DEF CheckStatus
<1> QED BY <1>h, <1>r, <1>c DEF RetryTypeOK

LEMMA removeJobType ==
  ASSUME RetryTypeOK, NEW c \in Calls, removeJob(c)
  PROVE  RetryTypeOK'
<1>a. calls[c].at = "remove" /\ CallsOK /\ rec \in Arrays
  BY DEF RetryTypeOK, removeJob, At
<1>o. calls[c] \in CallType /\ calls[c].job \in JobIds /\ calls[c].attempt \in 0 .. MaxAttempts
  BY <1>a, OfCall DEF Places
<1>s. calls[c].snap \in Arrays
  BY <1>a, OfCall DEF Places, Holding
<1>h. AgentOK' /\ HistoryOK' /\ schedule' \in BOOLEAN
  BY SameAgent, SameHistory DEF RetryTypeOK, removeJob
<1>r. rec' \in Arrays
  <2>1. rec' = [calls[c].snap EXCEPT ![calls[c].job] = NoRecord]
    BY DEF removeJob
  <2> QED BY <2>1, <1>o, <1>s, NoRecordType DEF Arrays
<1>c. CallsOK'
  BY <1>a, DoneOK DEF removeJob
<1> QED BY <1>h, <1>r, <1>c DEF RetryTypeOK

LEMMA AnsweredType ==
  ASSUME RetryTypeOK, NEW c \in Calls, Answered(c)
  PROVE  RetryTypeOK'
<1>a. calls[c].at = "accepted" /\ CallsOK /\ rec \in Arrays
  BY DEF RetryTypeOK, Answered, At
<1>o. calls[c] \in CallType /\ calls[c].job \in JobIds /\ calls[c].attempt \in 0 .. MaxAttempts
  BY <1>a, OfCall DEF Places
<1>h. AgentOK' /\ HistoryOK' /\ schedule' \in BOOLEAN
  BY SameAgent, SameHistory DEF RetryTypeOK, Answered
<1>r. rec' \in Arrays
  <2>1. CASE rec' = rec
    BY <2>1, <1>a
  <2>2. CASE rec' = [rec EXCEPT ![calls[c].job].deferrals = 0]
    BY <2>2, <1>a, <1>o, RetryBounds DEF Arrays, Record
  <2> QED BY <2>1, <2>2 DEF Answered
<1>c. CallsOK'
  BY <1>a, DoneOK DEF Answered
<1> QED BY <1>h, <1>r, <1>c DEF RetryTypeOK

LEMMA FailReadType ==
  ASSUME RetryTypeOK, NEW c \in Calls, FailRead(c)
  PROVE  RetryTypeOK'
<1>a. calls[c].at = "fail" /\ CallsOK /\ rec \in Arrays
  BY DEF RetryTypeOK, FailRead, At
<1>h. AgentOK' /\ HistoryOK' /\ schedule' \in BOOLEAN
  BY SameAgent, SameHistory DEF RetryTypeOK, FailRead
<1>r. rec' \in Arrays
  BY <1>a DEF FailRead
<1>c. CallsOK'
  <2>1. CASE Read(c, "failSave")
    BY <1>a, <2>1, ReadOK DEF FailRead, Places
  <2>2. CASE Done(c)
    BY <1>a, <2>2, DoneOK DEF FailRead
  <2> QED BY <2>1, <2>2 DEF FailRead
<1> QED BY <1>h, <1>r, <1>c DEF RetryTypeOK

LEMMA FailSaveType ==
  ASSUME RetryTypeOK, NEW c \in Calls, FailSave(c)
  PROVE  RetryTypeOK'
<1>a. calls[c].at = "failSave" /\ CallsOK /\ rec \in Arrays
  BY DEF RetryTypeOK, FailSave, At
<1>o. calls[c] \in CallType /\ calls[c].job \in JobIds /\ calls[c].attempt \in 0 .. MaxAttempts
  BY <1>a, OfCall DEF Places
<1>s. calls[c].snap \in Arrays
  BY <1>a, OfCall DEF Places, Holding
<1>h. AgentOK' /\ HistoryOK' /\ schedule' \in BOOLEAN
  BY SameAgent, SameHistory DEF RetryTypeOK, FailSave
<1>r. rec' \in Arrays
  BY <1>o, <1>s, EndedType DEF FailSave, Statuses
<1>c. CallsOK'
  <2>1. CASE calls[c].attempt = 1
    <3>1. Become(c, Call("handle", calls[c].job, 1))
      BY <2>1 DEF FailSave
    <3>2. 1 \in 0 .. MaxAttempts
      BY RetryBounds
    <3>3. Call("handle", calls[c].job, 1) \in CallType /\ WellFormed(Call("handle", calls[c].job, 1))
      BY <3>2, <1>o, CallIsTyped DEF Places, Holding
    <3> QED BY <3>1, <3>3, <1>a, BecomeOK DEF FailSave
  <2>2. CASE calls[c].attempt # 1
    BY <1>a, <2>2, DoneOK DEF FailSave
  <2> QED BY <2>1, <2>2
<1> QED BY <1>h, <1>r, <1>c DEF RetryTypeOK

LEMMA handleScheduledBackupFailureType ==
  ASSUME RetryTypeOK, NEW c \in Calls, handleScheduledBackupFailure(c)
  PROVE  RetryTypeOK'
<1>a. calls[c].at = "handle" /\ CallsOK /\ rec \in Arrays
  BY DEF RetryTypeOK, handleScheduledBackupFailure, At
<1>o. calls[c] \in CallType /\ calls[c].job \in JobIds /\ calls[c].attempt \in 0 .. MaxAttempts
  BY <1>a, OfCall DEF Places
<1>h. AgentOK' /\ HistoryOK' /\ schedule' \in BOOLEAN
  BY SameAgent, SameHistory DEF RetryTypeOK, handleScheduledBackupFailure
<1>r. rec' \in Arrays
  BY <1>a DEF handleScheduledBackupFailure
<1>c. CallsOK'
  <2>1. CASE Done(c)
    BY <1>a, <2>1, DoneOK DEF handleScheduledBackupFailure
  <2>2. CASE Go(c, "arm") /\ ~(calls[c].attempt >= MaxAttempts)
    <3>1. calls[c].attempt < MaxAttempts
      BY <2>2, <1>o, RetryBounds
    <3> QED BY <3>1, <1>a, <2>2, GoOK DEF handleScheduledBackupFailure, Places, Holding
  <2> QED BY <2>1, <2>2 DEF handleScheduledBackupFailure
<1> QED BY <1>h, <1>r, <1>c DEF RetryTypeOK

LEMMA ArmType ==
  ASSUME RetryTypeOK, NEW c \in Calls, Arm(c)
  PROVE  RetryTypeOK'
<1>a. calls[c].at = "arm" /\ CallsOK /\ rec \in Arrays
  BY DEF RetryTypeOK, Arm, At
<1>o. calls[c] \in CallType /\ calls[c].job \in JobIds /\ calls[c].attempt \in 0 .. MaxAttempts
  BY <1>a, OfCall DEF Places
<1>h. AgentOK' /\ HistoryOK' /\ schedule' \in BOOLEAN
  BY SameAgent, SameHistory DEF RetryTypeOK, Arm
<1>r. rec' \in Arrays
  BY <1>a DEF Arm
<1>c. CallsOK'
  <2> DEFINE call == Call("timer", calls[c].job, calls[c].attempt + 1)
  <2>1. CASE schedule
    <3>1. calls[c].attempt + 1 \in 0 .. MaxAttempts
      BY <1>o, <1>a, OfCall, RetryBounds DEF Places
    <3>2. call \in CallType /\ WellFormed(call) /\ call.at = "timer" /\ call.job = calls[c].job
      BY <3>1, <1>o, CallIsTyped DEF Places, Holding
    <3>3. Become(c, call) /\ timers' = [timers EXCEPT ![calls[c].job] = c]
      BY <2>1 DEF Arm
    <3> HIDE DEF call
    <3> QED BY <3>2, <3>3, <1>a, <1>o, TimerOK
  <2>2. CASE ~schedule
    BY <1>a, <2>2, DoneOK DEF Arm
  <2> QED BY <2>1, <2>2
<1> QED BY <1>h, <1>r, <1>c DEF RetryTypeOK

LEMMA DeferType ==
  ASSUME RetryTypeOK, NEW c \in Calls, Defer(c)
  PROVE  RetryTypeOK'
<1>a. calls[c].at = "defer" /\ CallsOK /\ rec \in Arrays
  BY DEF RetryTypeOK, Defer, At
<1>o. calls[c] \in CallType /\ calls[c].job \in JobIds /\ calls[c].attempt \in 0 .. MaxAttempts
  BY <1>a, OfCall DEF Places
<1>h. AgentOK' /\ HistoryOK' /\ schedule' \in BOOLEAN
  BY SameAgent, SameHistory DEF RetryTypeOK, Defer
<1>r. rec' \in Arrays
  BY <1>a DEF Defer
<1>c. CallsOK'
  <2> DEFINE call == [Call("timer", calls[c].job, calls[c].attempt) EXCEPT !.again = TRUE]
  <2>1. call \in CallType /\ WellFormed(call) /\ call.at = "timer" /\ call.job = calls[c].job
    BY <1>o DEF Call, CallType, WellFormed, Places, Holding
  <2>2. Become(c, call) /\ timers' = [timers EXCEPT ![calls[c].job] = c]
    BY DEF Defer
  <2> HIDE DEF call
  <2> QED BY <2>1, <2>2, <1>a, <1>o, TimerOK
<1> QED BY <1>h, <1>r, <1>c DEF RetryTypeOK

LEMMA DueType ==
  ASSUME RetryTypeOK, NEW c \in Calls, Due(c)
  PROVE  RetryTypeOK'
<1>a. calls[c].at = "due" /\ CallsOK /\ rec \in Arrays
  BY DEF RetryTypeOK, Due, At
<1>h. AgentOK' /\ HistoryOK' /\ schedule' \in BOOLEAN
  BY SameAgent, SameHistory DEF RetryTypeOK, Due
<1>r. rec' \in Arrays
  BY <1>a DEF Due
<1>c. CallsOK'
  <2>1. CASE Read(c, IF schedule THEN "retry" ELSE "lapse")
    BY <1>a, <2>1, ReadOK DEF Due, Places
  <2>2. CASE Done(c)
    BY <1>a, <2>2, DoneOK DEF Due
  <2> QED BY <2>1, <2>2 DEF Due
<1> QED BY <1>h, <1>r, <1>c DEF RetryTypeOK

LEMMA LapseType ==
  ASSUME RetryTypeOK, NEW c \in Calls, Lapse(c)
  PROVE  RetryTypeOK'
<1>a. calls[c].at = "lapse" /\ CallsOK /\ rec \in Arrays
  BY DEF RetryTypeOK, Lapse, At
<1>o. calls[c] \in CallType /\ calls[c].job \in JobIds /\ calls[c].attempt \in 0 .. MaxAttempts
  BY <1>a, OfCall DEF Places
<1>s. calls[c].snap \in Arrays
  BY <1>a, OfCall DEF Places, Holding
<1>h. AgentOK' /\ HistoryOK' /\ schedule' \in BOOLEAN
  BY SameAgent, SameHistory DEF RetryTypeOK, Lapse
<1>r. rec' \in Arrays
  <2>1. rec' = Ended(calls[c].snap, calls[c].job, "failed") \/ rec' = rec
    BY DEF Lapse
  <2> QED BY <2>1, <1>a, <1>o, <1>s, EndedType DEF Statuses
<1>c. CallsOK'
  BY <1>a, DoneOK DEF Lapse
<1> QED BY <1>h, <1>r, <1>c DEF RetryTypeOK

LEMMA retryExistingJobType ==
  ASSUME RetryTypeOK, NEW c \in Calls, retryExistingJob(c)
  PROVE  RetryTypeOK'
<1>a. calls[c].at = "retry" /\ CallsOK /\ rec \in Arrays
  BY DEF RetryTypeOK, retryExistingJob, At
<1>o. calls[c] \in CallType /\ calls[c].job \in JobIds /\ calls[c].attempt \in 0 .. MaxAttempts
  BY <1>a, OfCall DEF Places
<1>s. calls[c].snap \in Arrays
  BY <1>a, OfCall DEF Places, Holding
<1>h. AgentOK' /\ HistoryOK' /\ schedule' \in BOOLEAN
  BY SameAgent, SameHistory DEF RetryTypeOK, retryExistingJob
<1> DEFINE j == calls[c].job
           again == [calls[c].snap EXCEPT ![j].status = "running", ![j].attempt = calls[c].attempt]
<1>1. again \in Arrays
  BY <1>o, <1>s DEF Arrays, Record, Statuses, Active
<1>2. CASE rec' = Ended(calls[c].snap, j, "failed") /\ Done(c)
  <2>1. rec' \in Arrays
    BY <1>2, <1>o, <1>s, EndedType DEF Statuses
  <2>2. CallsOK'
    BY <1>2, <1>a, DoneOK DEF retryExistingJob
  <2> QED BY <1>h, <2>1, <2>2 DEF RetryTypeOK
<1>3. CASE rec' = again /\ Become(c, [calls[c] EXCEPT !.at = "rerun", !.snap = again])
  <2> DEFINE call == [calls[c] EXCEPT !.at = "rerun", !.snap = again]
  <2> HIDE DEF again
  <2>1. call \in CallType /\ WellFormed(call)
    BY <1>1, <1>o DEF CallType, WellFormed, Places, Holding
  <2>2. Become(c, call)
    BY <1>3
  <2> HIDE DEF call
  <2>3. CallsOK'
    BY <2>1, <2>2, <1>a, BecomeOK DEF retryExistingJob
  <2> QED BY <1>h, <1>1, <1>3, <2>3 DEF RetryTypeOK
<1> QED BY <1>2, <1>3 DEF retryExistingJob

LEMMA RerunType ==
  ASSUME RetryTypeOK, NEW c \in Calls, Rerun(c)
  PROVE  RetryTypeOK'
<1>a. calls[c].at = "rerun" /\ CallsOK /\ rec \in Arrays
  BY DEF RetryTypeOK, Rerun, At
<1>o. calls[c] \in CallType /\ calls[c].job \in JobIds /\ calls[c].attempt \in 0 .. MaxAttempts
  BY <1>a, OfCall DEF Places
<1>s. calls[c].snap \in Arrays
  BY <1>a, OfCall DEF Places, Holding
<1>h. AgentOK' /\ HistoryOK' /\ schedule' \in BOOLEAN
  BY SameAgent, SameHistory DEF RetryTypeOK, Rerun
<1>r. rec' \in Arrays
  BY <1>a, <1>s DEF Rerun
<1>c. CallsOK'
  <2>1. CASE Become(c, Call("trigger", calls[c].job, calls[c].attempt))
    <3>1. Call("trigger", calls[c].job, calls[c].attempt) \in CallType
          /\ WellFormed(Call("trigger", calls[c].job, calls[c].attempt))
      BY <1>o, CallIsTyped DEF Places, Holding
    <3> QED BY <3>1, <2>1, <1>a, BecomeOK DEF Rerun
  <2>2. CASE Become(c, Call("fail", calls[c].job, calls[c].attempt))
    <3>1. Call("fail", calls[c].job, calls[c].attempt) \in CallType
          /\ WellFormed(Call("fail", calls[c].job, calls[c].attempt))
      BY <1>o, CallIsTyped DEF Places, Holding
    <3> QED BY <3>1, <2>2, <1>a, BecomeOK DEF Rerun
  <2> QED BY <2>1, <2>2 DEF Rerun
<1> QED BY <1>h, <1>r, <1>c DEF RetryTypeOK

LEMMA UnreachableType ==
  ASSUME RetryTypeOK, NEW c \in Calls, Unreachable(c)
  PROVE  RetryTypeOK'
<1>a. calls[c].at = "trigger" /\ CallsOK /\ rec \in Arrays
  BY DEF RetryTypeOK, Unreachable, At
<1>h. AgentOK' /\ HistoryOK' /\ schedule' \in BOOLEAN
  BY SameAgent, SameHistory DEF RetryTypeOK, Unreachable
<1>r. rec' \in Arrays
  BY <1>a DEF Unreachable
<1>c. CallsOK'
  BY <1>a, GoOK DEF Unreachable, Places, Holding
<1> QED BY <1>h, <1>r, <1>c DEF RetryTypeOK

LEMMA BusyType ==
  ASSUME RetryTypeOK, NEW c \in Calls, Busy(c)
  PROVE  RetryTypeOK'
<1>a. calls[c].at = "trigger" /\ CallsOK /\ rec \in Arrays
  BY DEF RetryTypeOK, Busy, At
<1>o. calls[c] \in CallType /\ calls[c].job \in JobIds /\ calls[c].attempt \in 0 .. MaxAttempts
  BY <1>a, OfCall DEF Places
<1>h. AgentOK' /\ HistoryOK' /\ schedule' \in BOOLEAN
  BY SameAgent, SameHistory DEF RetryTypeOK, Busy
<1>r. rec' \in Arrays
  <2>1. CASE rec' = rec
    BY <2>1, <1>a
  <2>2. CASE /\ rec' = [rec EXCEPT ![calls[c].job].status = "retrying", ![calls[c].job].deferrals = @ + 1]
             /\ Deferrals(c) < MaxDeferrals
    <3>1. rec[calls[c].job].deferrals + 1 \in 0 .. MaxDeferrals
      BY <2>2, <1>a, <1>o, RetryBounds DEF Deferrals, Arrays, Record
    <3> QED BY <3>1, <2>2, <1>a, <1>o DEF Arrays, Record, Statuses, Active
  <2> QED BY <2>1, <2>2 DEF Busy
<1>c. CallsOK'
  <2>1. CASE Go(c, "defer")
    BY <1>a, <2>1, GoOK DEF Busy, Places, Holding
  <2>2. CASE Go(c, "fail")
    BY <1>a, <2>2, GoOK DEF Busy, Places, Holding
  <2> QED BY <2>1, <2>2 DEF Busy
<1> QED BY <1>h, <1>r, <1>c DEF RetryTypeOK

LEMMA AcceptType ==
  ASSUME RetryTypeOK, NEW c \in Calls, Accept(c)
  PROVE  RetryTypeOK'
<1>a. calls[c].at = "trigger" /\ CallsOK /\ rec \in Arrays
  BY DEF RetryTypeOK, Accept, At
<1>o. calls[c] \in CallType /\ calls[c].job \in JobIds
  BY <1>a, OfCall DEF Places
<1>h. HistoryOK' /\ schedule' \in BOOLEAN /\ rec' \in Arrays
  BY <1>a, SameHistory DEF RetryTypeOK, Accept
<1>g. AgentOK'
  BY <1>o DEF RetryTypeOK, AgentOK, Accept
<1>c. CallsOK'
  BY <1>a, GoOK DEF Accept, Places, Holding
<1> QED BY <1>h, <1>g, <1>c DEF RetryTypeOK

LEMMA UnansweredType ==
  ASSUME RetryTypeOK, NEW c \in Calls, NoAnswer(c)
  PROVE  RetryTypeOK'
<1>a. calls[c].at = "accepted" /\ CallsOK /\ rec \in Arrays
  BY DEF RetryTypeOK, NoAnswer, At
<1>o. calls[c] \in CallType /\ calls[c].job \in JobIds
  BY <1>a, OfCall DEF Places
<1>h. AgentOK' /\ schedule' \in BOOLEAN /\ rec' \in Arrays
  BY <1>a, SameAgent DEF RetryTypeOK, NoAnswer
<1>g. HistoryOK'
  BY <1>o DEF RetryTypeOK, HistoryOK, NoAnswer
<1>c. CallsOK'
  BY <1>a, GoOK DEF NoAnswer, Places, Holding
<1> QED BY <1>h, <1>g, <1>c DEF RetryTypeOK

\* The timer that fires is no longer registered, and the others are untouched.
LEMMA TimerFiresType ==
  ASSUME RetryTypeOK, NEW c \in Calls, TimerFires(c)
  PROVE  RetryTypeOK'
<1>a. calls[c].at = "timer" /\ CallsOK /\ rec \in Arrays
  BY DEF RetryTypeOK, TimerFires, At
<1>o. calls[c] \in CallType /\ calls[c].job \in JobIds
  BY <1>a, OfCall DEF Places
<1>h. AgentOK' /\ HistoryOK' /\ schedule' \in BOOLEAN /\ rec' \in Arrays
  BY <1>a, SameAgent, SameHistory DEF RetryTypeOK, TimerFires
<1> DEFINE call == [calls[c] EXCEPT !.at = "due"]
<1>1. call \in CallType /\ WellFormed(call)
  BY <1>a, <1>o DEF CallType, WellFormed, Places, Holding
<1>2. Become(c, call) /\ timers' = [timers EXCEPT ![calls[c].job] = NoCall]
  BY DEF TimerFires, Go
<1> HIDE DEF call
<1>3. calls' \in [Calls -> CallType] /\ \A d \in Calls : calls'[d] = IF d = c THEN call ELSE calls[d]
  BY <1>1, <1>2, <1>a DEF CallsOK, Become
<1>4. \A d \in Calls : WellFormed(calls'[d])
  BY <1>1, <1>3, <1>a DEF CallsOK
<1>5. \A d \in Calls : WellFormed(calls[d])'
  BY <1>4 DEF WellFormed
<1>6. timers' \in [JobIds -> Calls \cup {NoCall}]
  BY <1>2, <1>a DEF CallsOK
<1>7. ASSUME NEW k \in JobIds, timers'[k] # NoCall
      PROVE  calls'[timers'[k]].at = "timer" /\ calls'[timers'[k]].job = k
  <2>1. k # calls[c].job /\ timers'[k] = timers[k]
    BY <1>2, <1>7, <1>a, <1>o DEF CallsOK
  <2>2. calls[timers[k]].at = "timer" /\ calls[timers[k]].job = k /\ timers[k] \in Calls
    BY <2>1, <1>7, <1>a DEF CallsOK
  <2> QED BY <2>1, <2>2, <1>3
<1>8. CallsOK'
  BY <1>3, <1>5, <1>6, <1>7 DEF CallsOK
<1> QED BY <1>h, <1>8 DEF RetryTypeOK

LEMMA KillAtAgentType ==
  ASSUME RetryTypeOK, NEW c \in Calls, KillAtAgent(c)
  PROVE  RetryTypeOK'
<1>a. calls[c].at = "kill" /\ CallsOK /\ rec \in Arrays
  BY DEF RetryTypeOK, KillAtAgent, At
<1>o. calls[c] \in CallType /\ calls[c].job \in JobIds
  BY <1>a, OfCall DEF Places
<1>h. HistoryOK' /\ schedule' \in BOOLEAN /\ rec' \in Arrays
  BY <1>a, SameHistory DEF RetryTypeOK, KillAtAgent
<1>1. CASE run = calls[c].job
  <2>1. mail' = [mail EXCEPT ![calls[c].job] = Append(@, "failed")]
    BY <1>1 DEF KillAtAgent
  <2>2. mail' \in [JobIds -> Seq({"running", "completed", "failed", "repeat"})]
    BY <2>1, <1>o DEF RetryTypeOK, AgentOK
  <2>3. AgentOK'
    BY <2>2, <1>1, <1>o DEF RetryTypeOK, AgentOK, KillAtAgent
  <2>4. CallsOK'
    BY <1>1, <1>a, GoOK DEF KillAtAgent, Places, Holding
  <2> QED BY <1>h, <2>3, <2>4 DEF RetryTypeOK
<1>2. CASE run # calls[c].job
  <2>1. AgentOK'
    BY <1>2 DEF RetryTypeOK, AgentOK, KillAtAgent
  <2>2. CallsOK'
    BY <1>2, <1>a, DoneOK DEF KillAtAgent
  <2> QED BY <1>h, <2>1, <2>2 DEF RetryTypeOK
<1> QED BY <1>1, <1>2

LEMMA KillSaveType ==
  ASSUME RetryTypeOK, NEW c \in Calls, KillSave(c)
  PROVE  RetryTypeOK'
<1>a. calls[c].at = "killSave" /\ CallsOK /\ rec \in Arrays
  BY DEF RetryTypeOK, KillSave, At
<1>o. calls[c] \in CallType /\ calls[c].job \in JobIds
  BY <1>a, OfCall DEF Places
<1>s. calls[c].snap \in Arrays
  BY <1>a, OfCall DEF Places, Holding
<1>h. AgentOK' /\ schedule' \in BOOLEAN
  BY SameAgent DEF RetryTypeOK, KillSave
<1>g. HistoryOK'
  BY <1>o DEF RetryTypeOK, HistoryOK, KillSave
<1>r. rec' \in Arrays
  <2>1. \/ rec' = Ended(calls[c].snap, calls[c].job, "failed")
        \/ rec' = Ended(calls[c].snap, calls[c].job, "cancelled")
    BY DEF KillSave
  <2> QED BY <2>1, <1>o, <1>s, EndedType DEF Statuses
<1>c. CallsOK'
  BY <1>a, DoneOK DEF KillSave
<1> QED BY <1>h, <1>g, <1>r, <1>c DEF RetryTypeOK

LEMMA recoverBackupJobsType ==
  ASSUME RetryTypeOK, NEW c \in Calls, recoverBackupJobs(c)
  PROVE  RetryTypeOK'
<1>a. calls[c].at = "recover" /\ CallsOK /\ rec \in Arrays
  BY DEF RetryTypeOK, recoverBackupJobs, At
<1>h. AgentOK' /\ schedule' \in BOOLEAN
  BY SameAgent DEF RetryTypeOK, recoverBackupJobs
<1>g. HistoryOK'
  <2>1. lost' \subseteq JobIds
    BY DEF RetryTypeOK, HistoryOK, recoverBackupJobs, Recovered
  <2> QED BY <2>1 DEF RetryTypeOK, HistoryOK, recoverBackupJobs
<1>l. \A j \in JobIds : LiveStatus(j) \in Statuses
  BY DEF RetryTypeOK, AgentOK, LiveStatus, Statuses, Active
<1>1. ASSUME NEW j \in JobIds, NEW status \in Statuses
      PROVE  rec[j] \in Record /\ [rec[j] EXCEPT !.status = status] \in Record
  BY <1>1, <1>a DEF Arrays, Record
<1>2. "failed" \in Statuses
  BY DEF Statuses
<1>r. rec' \in Arrays
  <2>1. CASE rec' = [j \in JobIds |-> IF j \in Recovered(calls[c].snap) /\ LiveStatus(j) # "running"
                                    THEN [rec[j] EXCEPT !.status = LiveStatus(j)] ELSE rec[j]]
    BY <2>1, <1>1, <1>l DEF Arrays
  <2>2. CASE rec' = [j \in JobIds |-> IF j \in Recovered(calls[c].snap)
                                    THEN [rec[j] EXCEPT !.status = "failed"] ELSE rec[j]]
    BY <2>2, <1>1, <1>2 DEF Arrays
  <2>3. CASE rec' = rec
    BY <2>3, <1>a
  <2> QED BY <2>1, <2>2, <2>3 DEF recoverBackupJobs
<1>c. CallsOK'
  BY <1>a, DoneOK DEF recoverBackupJobs
<1> QED BY <1>h, <1>g, <1>r, <1>c DEF RetryTypeOK

-----------------------------------------------------------------------------
(* The steps that begin a call, and those of the agent *)

LEMMA executeScheduledBackupType ==
  ASSUME RetryTypeOK, NEW j \in JobIds, NEW c \in Calls, executeScheduledBackup(j, c)
  PROVE  RetryTypeOK'
<1>a. CallsOK /\ rec \in Arrays /\ calls[c].at = "idle"
  BY IdleIsTyped DEF RetryTypeOK, executeScheduledBackup, Free
<1>h. AgentOK' /\ schedule' \in BOOLEAN
  BY SameAgent DEF RetryTypeOK, executeScheduledBackup
<1>g. HistoryOK'
  <2>1. overlap' \in BOOLEAN
    BY DEF executeScheduledBackup
  <2> QED BY <2>1 DEF RetryTypeOK, HistoryOK, executeScheduledBackup
<1>1. CASE rec' = [rec EXCEPT ![j] = [NoRecord EXCEPT !.status = "skipped"]] /\ UNCHANGED calls
  <2>1. [NoRecord EXCEPT !.status = "skipped"] \in Record
    BY NoRecordType DEF Record, Statuses
  <2>2. rec' \in Arrays
    BY <1>1, <1>a, <2>1 DEF Arrays
  <2>3. CallsOK'
    BY <1>1, <1>a DEF CallsOK, executeScheduledBackup, WellFormed
  <2> QED BY <1>h, <1>g, <2>2, <2>3 DEF RetryTypeOK
<1>2. CASE /\ rec' = [rec EXCEPT ![j] = [NoRecord EXCEPT !.status = "running", !.attempt = 1]]
           /\ Become(c, Call("check", j, 1))
  <2>0. 1 \in 0 .. MaxAttempts
    BY RetryBounds
  <2>1. [NoRecord EXCEPT !.status = "running", !.attempt = 1] \in Record
    BY <2>0, NoRecordType DEF Record, Statuses, Active
  <2>2. rec' \in Arrays
    BY <1>2, <1>a, <2>1 DEF Arrays
  <2>3. Call("check", j, 1) \in CallType /\ WellFormed(Call("check", j, 1))
    BY <2>0, CallIsTyped DEF Places, Holding
  <2>4. CallsOK'
    BY <1>2, <1>a, <2>3, BecomeOK DEF executeScheduledBackup
  <2> QED BY <1>h, <1>g, <2>2, <2>4 DEF RetryTypeOK
<1> QED BY <1>1, <1>2 DEF executeScheduledBackup

LEMMA ProgressType ==
  ASSUME RetryTypeOK, NEW j \in JobIds, Progress(j)
  PROVE  RetryTypeOK'
<1>1. <<"running">> \in Seq({"running", "completed", "failed", "repeat"})
  OBVIOUS
<1>2. AgentOK'
  BY <1>1 DEF RetryTypeOK, AgentOK, Progress
<1>3. HistoryOK'
  BY SameHistory DEF RetryTypeOK, Progress
<1>4. CallsOK' /\ rec' \in Arrays /\ schedule' \in BOOLEAN
  BY DEF RetryTypeOK, Progress, retryControllerVars, CallsOK, WellFormed
<1> QED BY <1>2, <1>3, <1>4 DEF RetryTypeOK

LEMMA ScriptEndsType ==
  ASSUME RetryTypeOK, NEW j \in JobIds, ScriptEnds(j)
  PROVE  RetryTypeOK'
<1>1. AgentOK'
  BY DEF RetryTypeOK, AgentOK, ScriptEnds
<1>2. HistoryOK'
  BY SameHistory DEF RetryTypeOK, ScriptEnds
<1>3. CallsOK' /\ rec' \in Arrays /\ schedule' \in BOOLEAN
  BY DEF RetryTypeOK, ScriptEnds, retryControllerVars, CallsOK, WellFormed
<1> QED BY <1>1, <1>2, <1>3 DEF RetryTypeOK

LEMMA EndRunType ==
  ASSUME RetryTypeOK, NEW j \in JobIds, EndRun(j)
  PROVE  RetryTypeOK'
<1>1. PICK verdict \in {"completed", "failed", "repeat"} :
        mail' = [mail EXCEPT ![j] = Append(@, verdict)]
  BY DEF RetryTypeOK, AgentOK, EndRun
<1>2. mail' \in [JobIds -> Seq({"running", "completed", "failed", "repeat"})]
  BY <1>1 DEF RetryTypeOK, AgentOK
<1>3. AgentOK'
  BY <1>2 DEF RetryTypeOK, AgentOK, EndRun
<1>4. HistoryOK'
  BY SameHistory DEF RetryTypeOK, EndRun
<1>5. CallsOK' /\ rec' \in Arrays /\ schedule' \in BOOLEAN
  BY DEF RetryTypeOK, EndRun, retryControllerVars, CallsOK, WellFormed
<1> QED BY <1>3, <1>4, <1>5 DEF RetryTypeOK

LEMMA ForeignRunType ==
  ASSUME RetryTypeOK, ForeignRun
  PROVE  RetryTypeOK'
<1>2. AgentOK'
  BY DEF RetryTypeOK, AgentOK, ForeignRun
<1>3. HistoryOK'
  BY RetryBounds DEF RetryTypeOK, HistoryOK, ForeignRun
<1>4. CallsOK' /\ rec' \in Arrays /\ schedule' \in BOOLEAN
  BY DEF RetryTypeOK, ForeignRun, retryControllerVars, CallsOK, WellFormed
<1> QED BY <1>2, <1>3, <1>4 DEF RetryTypeOK

LEMMA UpdateType ==
  ASSUME RetryTypeOK, NEW j \in JobIds, NEW c \in Calls, Update(j, c)
  PROVE  RetryTypeOK'
<1>a. CallsOK /\ rec \in Arrays /\ calls[c].at = "idle"
  BY IdleIsTyped DEF RetryTypeOK, Update, Free
<1>h. HistoryOK' /\ schedule' \in BOOLEAN
  BY SameHistory DEF RetryTypeOK, Update
<1>m. mail[j] \in Seq({"running", "completed", "failed", "repeat"}) /\ mail[j] # <<>>
  BY DEF RetryTypeOK, AgentOK, Update
<1>g. AgentOK'
  <2>1. Tail(mail[j]) \in Seq({"running", "completed", "failed", "repeat"})
    BY <1>m
  <2> QED BY <2>1 DEF RetryTypeOK, AgentOK, Update
<1>s. Status(Head(mail[j]), rec[j]) \in Statuses
  <2>1. Head(mail[j]) \in {"running", "completed", "failed", "repeat"}
    BY <1>m
  <2> QED BY <2>1, <1>a, OfRecord DEF Status, Statuses, Active
<1>u. CallsOK /\ UNCHANGED calls => CallsOK'
  BY DEF Update, CallsOK, WellFormed
<1>1. CASE Stored(rec, j)
  <2>1. rec' \in Arrays
    BY <1>1, <1>a, <1>s, EndedType DEF Update
  <2>2. CASE Become(c, Call("handle", j, rec[j].attempt))
    <3>1. rec[j].attempt \in 0 .. MaxAttempts
      BY <1>a, OfRecord
    <3>2. Call("handle", j, rec[j].attempt) \in CallType /\ WellFormed(Call("handle", j, rec[j].attempt))
      BY <3>1, CallIsTyped DEF Places, Holding
    <3>3. CallsOK'
      BY <2>2, <3>2, <1>a, BecomeOK DEF Update
    <3> QED BY <1>h, <1>g, <2>1, <3>3 DEF RetryTypeOK
  <2>3. CASE UNCHANGED calls
    BY <1>h, <1>g, <2>1, <2>3, <1>a, <1>u DEF RetryTypeOK
  <2> QED BY <1>1, <2>2, <2>3 DEF Update
<1>2. CASE ~Stored(rec, j)
  <2>1. UNCHANGED <<rec, calls>>
    BY <1>2 DEF Update
  <2> QED BY <1>h, <1>g, <2>1, <1>a, <1>u DEF RetryTypeOK
<1> QED BY <1>1, <1>2

LEMMA DeleteScheduleType ==
  ASSUME RetryTypeOK, DeleteSchedule
  PROVE  RetryTypeOK'
<1>1. AgentOK' /\ HistoryOK'
  BY SameAgent, SameHistory DEF RetryTypeOK, DeleteSchedule
<1>2. CallsOK' /\ rec' \in Arrays /\ schedule' \in BOOLEAN
  BY DEF RetryTypeOK, DeleteSchedule, CallsOK, WellFormed
<1> QED BY <1>1, <1>2 DEF RetryTypeOK

\* A waiting retry is dropped together with its registration.
LEMMA KillType ==
  ASSUME RetryTypeOK, NEW j \in JobIds, NEW c \in Calls, KillJob(j, c)
  PROVE  RetryTypeOK'
<1>a. CallsOK /\ rec \in Arrays /\ calls[c].at = "idle" /\ calls[c] = Idle
  BY IdleIsTyped DEF RetryTypeOK, KillJob, Free
<1>h. AgentOK' /\ schedule' \in BOOLEAN /\ rec' \in Arrays
  BY <1>a, SameAgent DEF RetryTypeOK, KillJob
<1>g. HistoryOK'
  BY DEF RetryTypeOK, HistoryOK, KillJob
<1>z. 0 \in 0 .. MaxAttempts
  BY RetryBounds
<1>1. CASE rec[j].status = "retrying"
  <2> DEFINE call == [Call("killSave", j, 0) EXCEPT !.snap = rec]
             kept == [d \in Calls |-> IF d = timers[j] THEN Idle ELSE calls[d]]
  <2>1. call \in CallType /\ WellFormed(call)
    BY <1>z, <1>a, HoldingIsTyped DEF Holding
  <2>2. calls' = [kept EXCEPT ![c] = call] /\ timers' = [timers EXCEPT ![j] = NoCall]
    BY <1>1 DEF KillJob
  <2> HIDE DEF call
  <2>3. \A d \in Calls : kept[d] \in CallType /\ WellFormed(kept[d])
    BY <1>a, IdleIsTyped DEF CallsOK
  <2>4. \A d \in Calls : calls'[d] = IF d = c THEN call ELSE kept[d]
    BY <2>2
  <2>5. calls' \in [Calls -> CallType]
    BY <2>1, <2>2, <2>3
  <2>6. \A d \in Calls : WellFormed(calls'[d])
    BY <2>1, <2>3, <2>4
  <2>7. \A d \in Calls : WellFormed(calls[d])'
    BY <2>6 DEF WellFormed
  <2>8. timers' \in [JobIds -> Calls \cup {NoCall}]
    BY <2>2, <1>a DEF CallsOK
  <2>9. ASSUME NEW k \in JobIds, timers'[k] # NoCall
        PROVE  calls'[timers'[k]].at = "timer" /\ calls'[timers'[k]].job = k
    <3>1. k # j /\ timers'[k] = timers[k]
      BY <2>2, <2>9, <1>a DEF CallsOK
    <3>2. calls[timers[k]].at = "timer" /\ calls[timers[k]].job = k /\ timers[k] \in Calls
      BY <3>1, <2>9, <1>a DEF CallsOK
    <3>3. timers[k] # c
      BY <3>2, <1>a
    <3>4. timers[k] # timers[j]
      BY <3>1, <3>2, <1>a, NullsAssumption DEF CallsOK
    <3> QED BY <3>1, <3>2, <3>3, <3>4, <2>4
  <2>10. CallsOK'
    BY <2>5, <2>7, <2>8, <2>9 DEF CallsOK
  <2> QED BY <1>h, <1>g, <2>10 DEF RetryTypeOK
<1>2. CASE rec[j].status # "retrying"
  <2> DEFINE call == [Call("kill", j, 0) EXCEPT !.snap = rec]
  <2>1. call \in CallType /\ WellFormed(call)
    BY <1>z, <1>a, HoldingIsTyped DEF Holding
  <2>2. Become(c, call) /\ timers' = timers
    BY <1>2 DEF KillJob
  <2> HIDE DEF call
  <2>3. CallsOK'
    BY <2>1, <2>2, <1>a, BecomeOK
  <2> QED BY <1>h, <1>g, <2>3 DEF RetryTypeOK
<1> QED BY <1>1, <1>2

LEMMA RestartType ==
  ASSUME RetryTypeOK, NEW c \in Calls, RetryRestart(c)
  PROVE  RetryTypeOK'
<1>a. CallsOK /\ rec \in Arrays
  BY DEF RetryTypeOK
<1>h. AgentOK' /\ schedule' \in BOOLEAN /\ rec' \in Arrays
  BY <1>a, SameAgent DEF RetryTypeOK, RetryRestart
<1>g. HistoryOK'
  BY RetryBounds DEF RetryTypeOK, HistoryOK, RetryRestart
<1> DEFINE call == [Call("recover", NoJob, 0) EXCEPT !.snap = rec]
<1>1. call \in CallType /\ WellFormed(call)
  BY <1>a, RetryBounds, HoldingIsTyped DEF Holding
<1>2. calls' = [[d \in Calls |-> Idle] EXCEPT ![c] = call] /\ timers' = [j \in JobIds |-> NoCall]
  BY DEF RetryRestart
<1> HIDE DEF call
<1>3. calls' \in [Calls -> CallType] /\ \A d \in Calls : WellFormed(calls'[d])
  BY <1>1, <1>2, IdleIsTyped
<1>4. \A d \in Calls : WellFormed(calls[d])'
  BY <1>3 DEF WellFormed
<1>5. CallsOK'
  BY <1>2, <1>3, <1>4 DEF CallsOK
<1> QED BY <1>h, <1>g, <1>5 DEF RetryTypeOK

-----------------------------------------------------------------------------
(* The theorem *)

LEMMA InitType == RetryInit => RetryTypeOK
<1> SUFFICES ASSUME RetryInit PROVE RetryTypeOK
  OBVIOUS
<1>1. rec \in Arrays
  BY NoRecordType DEF RetryInit, Arrays
<1>2. CallsOK
  BY IdleIsTyped DEF RetryInit, CallsOK
<1>3. AgentOK
  BY DEF RetryInit, AgentOK
<1>4. HistoryOK
  <2>1. restarts = 0 /\ foreigns = 0 /\ overlap = FALSE
    BY DEF RetryInit
  <2>2. asked = {} /\ cancelled = {} /\ lost = {}
    BY DEF RetryInit
  <2>3. restarts \in 0 .. MaxRestarts /\ foreigns \in 0 .. MaxForeign
    BY <2>1, RetryBounds
  <2>4. overlap \in BOOLEAN
    BY <2>1
  <2> QED BY <2>2, <2>3, <2>4 DEF HistoryOK
<1> QED BY <1>1, <1>2, <1>3, <1>4 DEF RetryTypeOK, RetryInit

LEMMA StepType ==
  ASSUME RetryTypeOK, NEW c \in Calls, RunStep(c)
  PROVE  RetryTypeOK'
BY CheckStatusType, removeJobType, AnsweredType, FailReadType, FailSaveType, AcceptType,
   BusyType, handleScheduledBackupFailureType, ArmType, DeferType, TimerFiresType, DueType,
   LapseType, retryExistingJobType, RerunType, KillAtAgentType, KillSaveType,
   recoverBackupJobsType
   DEF RunStep

LEMMA NextType == RetryTypeOK /\ [RetryNext]_retryVars => RetryTypeOK'
<1> SUFFICES ASSUME RetryTypeOK, [RetryNext]_retryVars PROVE RetryTypeOK'
  OBVIOUS
<1>1. CASE UNCHANGED retryVars
  BY <1>1 DEF retryVars, RetryTypeOK, CallsOK, WellFormed, AgentOK, HistoryOK
<1>2. CASE DeleteSchedule \/ ForeignRun
  BY <1>2, DeleteScheduleType, ForeignRunType
<1>3. ASSUME NEW c \in Calls, RunStep(c) \/ NoAnswer(c) \/ Unreachable(c) \/ RetryRestart(c)
      PROVE  RetryTypeOK'
  BY <1>3, StepType, UnansweredType, UnreachableType, RestartType
<1>4. ASSUME NEW j \in JobIds, Progress(j) \/ ScriptEnds(j) \/ EndRun(j)
      PROVE  RetryTypeOK'
  BY <1>4, ProgressType, ScriptEndsType, EndRunType
<1>5. ASSUME NEW j \in JobIds, NEW c \in Calls,
             executeScheduledBackup(j, c) \/ Update(j, c) \/ KillJob(j, c)
      PROVE  RetryTypeOK'
  BY <1>5, executeScheduledBackupType, UpdateType, KillType
<1> QED BY <1>1, <1>2, <1>3, <1>4, <1>5 DEF RetryNext

\* A handler that saves an array of jobs holds one it has read, and the timer
\* registered for a job is a pending timer of that very job, whatever was
\* cancelled, deferred or restarted before.
THEOREM TypeInvariant == RetrySpec => []RetryTypeOK
BY InitType, NextType, PTL DEF RetrySpec

-----------------------------------------------------------------------------
(* One backup at a time: the invariant of what is under way *)

\* Nobody cancelled anything, and the schedule fired only when all was over.
Calm == asked = {} /\ ~overlap

Under(j) == (\E c \in Calls : calls[c].job = j) \/ run = j \/ mail[j] # <<>>
Solo == \A j, k \in JobIds : Under(j) /\ Under(k) => j = k
NoKills == \A c \in Calls : calls[c].at \notin {"kill", "killSave"}

\* A restart ends every call, the recovery of an earlier start among them.
OneRecovery ==
  \A c \in Calls : calls[c].at = "recover" =>
    calls[c].job = NoJob /\ \A d \in Calls : calls[d].at = "recover" => c = d

\* While j is under way, no other job is active, and no array that is held says otherwise.
Others(j) ==
  Under(j) => \A k \in JobIds \ {j} :
    /\ rec[k].status \notin Active
    /\ \A c \in Calls :
         /\ calls[c].at = "recover" => calls[c].snap[k].status # "running"
         /\ calls[c].at \in Holding \ {"recover"} => calls[c].snap[k] = rec[k]

\* The calls that lead to the next run of their job.
Leads(call) ==
  \/ call.at \in {"arm", "timer", "due", "retry", "defer"}
  \/ call.at = "handle" /\ call.attempt < MaxAttempts
ComingOK(j) ==
  restarts = 0 /\ schedule /\ rec[j].status = "retrying" =>
    \E c \in Calls : calls[c].job = j /\ Leads(calls[c])

\* An array that is saved for the second time has the job running.
RerunOK(j) ==
  \A c \in Calls : calls[c].at = "rerun" /\ calls[c].job = j => calls[c].snap[j].status = "running"

ExitOK(j) == exit[j] # "none" => run = j

\* The way of j from one run to the next is made by one call at a time: a call that waits
\* for the answer to its request is over, as the run itself goes on.
Moving(call, j) == call.job = j /\ call.at # "accepted"
OneToken(j) ==
  /\ \A c, d \in Calls : Moving(calls[c], j) /\ Moving(calls[d], j) => c = d
  /\ \A c \in Calls : Moving(calls[c], j) => run # j /\ mail[j] = <<>>
  /\ \/ mail[j] = <<>> \/ mail[j] = <<"running">>
     \/ /\ run # j
        /\ \E v \in {"completed", "failed", "repeat"} : mail[j] = <<v>> \/ mail[j] = <<"running", v>>

\* Attempts are counted at least as fast as runs.
NumbersFit(call, j, n, record) ==
  /\ n <= call.attempt
  /\ call.at \notin {"fail", "failSave", "handle", "arm"} => n < call.attempt
  /\ call.at \in {"check", "trigger"} => call.attempt <= record.attempt
  /\ call.at = "rerun" => call.attempt <= call.snap[j].attempt
Numbers(j) ==
  /\ runs[j] <= MaxAttempts
  /\ run = j \/ mail[j] # <<>> => runs[j] <= rec[j].attempt
  /\ \A c \in Calls : Moving(calls[c], j) => NumbersFit(calls[c], j, runs[j], rec[j])

\* A recovery will write what it finds of j.
RecPending(j) == \E c \in Calls : calls[c].at = "recover" /\ calls[c].snap[j].status = "running"

\* Nothing that is under way takes a completion back.
DoneFits(call, status, pending) ==
  /\ status # "completed"
  /\ pending /\ call.at \in {"check", "trigger"} => status = "running"
OverOK(j) ==
  /\ rec[j].status = "completed" =>
       /\ run = j => exit[j] = "completed"
       /\ mail[j] = <<>> \/ mail[j] = <<"completed">>
  /\ mail[j] # <<>> /\ Head(mail[j]) = "running" => rec[j].status # "running" /\ ~RecPending(j)
  /\ RecPending(j) /\ run = j /\ exit[j] = "none" => rec[j].status = "running"
  /\ \A c \in Calls : Moving(calls[c], j) => DoneFits(calls[c], rec[j].status, RecPending(j))

JobOK(j) ==
  /\ ComingOK(j) /\ RerunOK(j) /\ ExitOK(j)
  /\ j \notin lost => OneToken(j) /\ Numbers(j) /\ OverOK(j)

RunInv == NoKills /\ OneRecovery /\ Solo /\ \A j \in JobIds : Others(j) /\ JobOK(j)
RetryInv == RetryTypeOK /\ (Calm => RunInv)

-----------------------------------------------------------------------------
(* Jobs a step does not touch *)

Kept(j) ==
  /\ rec'[j] = rec[j] /\ exit'[j] = exit[j] /\ mail'[j] = mail[j] /\ runs'[j] = runs[j]
  /\ run' = j <=> run = j
  /\ \A c \in Calls : calls'[c].job = j \/ calls[c].job = j => calls'[c] = calls[c]
  /\ RecPending(j)' => RecPending(j)
  /\ lost \subseteq lost' /\ (restarts' = 0 => restarts = 0) /\ (schedule' => schedule)

LEMMA KeptSound ==
  ASSUME NEW j \in JobIds, JobOK(j), Kept(j)
  PROVE  JobOK(j)'
<1> USE DEF Kept
<1>1. ComingOK(j)'
  BY DEF JobOK, ComingOK, Leads
<1>2. ExitOK(j)' /\ RerunOK(j)'
  BY DEF JobOK, ExitOK, RerunOK
<1>3. ASSUME j \notin lost' PROVE OneToken(j)' /\ Numbers(j)' /\ OverOK(j)'
  <2>0. OneToken(j) /\ Numbers(j) /\ OverOK(j)
    BY <1>3 DEF JobOK
  <2>1. \A c \in Calls : Moving(calls'[c], j) => Moving(calls[c], j) /\ calls'[c] = calls[c]
    BY DEF Moving
  <2>2. OneToken(j)'
    BY <2>0, <2>1 DEF OneToken, Moving
  <2>3. Numbers(j)'
    BY <2>0, <2>1 DEF Numbers, Moving, NumbersFit
  <2>4. OverOK(j)'
    BY <2>0, <2>1 DEF OverOK, Moving, DoneFits
  <2> QED BY <2>2, <2>3, <2>4
<1> QED BY <1>1, <1>2, <1>3 DEF JobOK

\* A step of a call disturbs no other job.
LEMMA CallSound ==
  ASSUME RetryTypeOK, RunInv, NEW c \in Calls, NEW i \in JobIds, NEW new,
         calls[c].job = i, calls[c].at # "recover",
         Become(c, new), new.job = i \/ new = Idle,
         new.at \notin {"recover", "kill", "killSave"},
         new.at \in Holding => \A k \in JobIds \ {i} : new.snap[k] = rec[k],
         \A k \in JobIds \ {i} : rec'[k] = rec[k],
         UNCHANGED <<run, exit, mail, runs, restarts, schedule>>, lost \subseteq lost',
         JobOK(i)'
  PROVE  RunInv'
<1>1. \A d \in Calls : calls'[d] = IF d = c THEN new ELSE calls[d]
  BY DEF RetryTypeOK, CallsOK, Become
<1>2. Idle.at = "idle" /\ Idle.job = NoJob /\ NoJob \notin JobIds /\ "idle" \notin Holding
  BY NullsAssumption DEF Idle, Call, Holding
<1>3. NoKills' /\ OneRecovery'
  BY <1>1, <1>2 DEF RunInv, NoKills, OneRecovery
<1>4. \A k \in JobIds : Under(k)' => Under(k)
  BY <1>1, <1>2 DEF Under
<1>5. Under(i)
  BY DEF Under
<1>6. Solo'
  BY <1>4 DEF RunInv, Solo
<1>7. ASSUME NEW j \in JobIds PROVE Others(j)'
  <2> SUFFICES ASSUME Under(j)', NEW k \in JobIds \ {j}
               PROVE  /\ rec'[k].status \notin Active
                      /\ \A d \in Calls :
                           /\ calls'[d].at = "recover" => calls'[d].snap[k].status # "running"
                           /\ calls'[d].at \in Holding \ {"recover"} => calls'[d].snap[k] = rec'[k]
    BY DEF Others
  <2>1. j = i /\ rec'[k] = rec[k] /\ Others(i)
    BY <1>4, <1>5 DEF RunInv, Solo
  <2>2. rec[k].status \notin Active
    BY <1>5, <2>1 DEF Others
  <2>3. ASSUME NEW d \in Calls
        PROVE  /\ calls'[d].at = "recover" => calls'[d].snap[k].status # "running"
               /\ calls'[d].at \in Holding \ {"recover"} => calls'[d].snap[k] = rec'[k]
    <3>1. CASE d = c
      BY <1>1, <1>2, <2>1, <3>1
    <3>2. CASE d # c
      BY <1>1, <1>5, <2>1, <3>2 DEF Others
    <3> QED BY <3>1, <3>2
  <2> QED BY <2>1, <2>2, <2>3
<1>8. ASSUME NEW j \in JobIds \ {i} PROVE JobOK(j)'
  <2>1. RecPending(j)' => RecPending(j)
    BY <1>1, <1>2 DEF RecPending
  <2>2. \A d \in Calls : calls'[d].job = j \/ calls[d].job = j => calls'[d] = calls[d]
    BY <1>1, <1>2
  <2>3. Kept(j)
    BY <2>1, <2>2 DEF Kept
  <2> QED BY <2>3, KeptSound DEF RunInv
<1> QED BY <1>3, <1>6, <1>7, <1>8 DEF RunInv

\* A step of the call that moves its job.
LEMMA MovingJob ==
  ASSUME RetryTypeOK, NEW c \in Calls, NEW i \in JobIds, NEW new,
         JobOK(i), calls[c].job = i, calls[c].at \notin {"accepted", "recover"},
         Become(c, new), new.job = i \/ new = Idle, new.at # "recover",
         UNCHANGED <<run, exit, mail, runs, restarts, schedule, lost>>,
         restarts = 0 /\ schedule /\ rec'[i].status = "retrying" =>
           \/ new.job = i /\ Leads(new)
           \/ rec[i].status = "retrying" /\ ~Leads(calls[c])
           \/ \E d \in Calls \ {c} : calls[d].job = i /\ Leads(calls[d]),
         new.at = "rerun" => new.snap[i].status = "running",
         i \notin lost => /\ rec'[i].status # "completed"
                          /\ new.job = i =>
                               /\ NumbersFit(new, i, runs[i], rec'[i])
                               /\ DoneFits(new, rec'[i].status, RecPending(i))
  PROVE  JobOK(i)'
<1>1. \A d \in Calls : calls'[d] = IF d = c THEN new ELSE calls[d]
  BY DEF RetryTypeOK, CallsOK, Become
<1>2. Idle.job = NoJob /\ NoJob \notin JobIds /\ Idle.at = "idle"
  BY NullsAssumption DEF Idle, Call
<1>3. ComingOK(i)'
  <2> SUFFICES ASSUME restarts = 0, schedule, rec'[i].status = "retrying"
               PROVE  \E d \in Calls : calls'[d].job = i /\ Leads(calls'[d])
    BY DEF ComingOK, Leads
  <2>1. CASE new.job = i /\ Leads(new)
    BY <1>1, <2>1
  <2>2. CASE rec[i].status = "retrying" /\ ~Leads(calls[c])
    <3>1. PICK d \in Calls : calls[d].job = i /\ Leads(calls[d])
      BY <2>2 DEF JobOK, ComingOK
    <3>2. d # c
      BY <2>2, <3>1
    <3> QED BY <1>1, <3>1, <3>2
  <2>3. CASE \E d \in Calls \ {c} : calls[d].job = i /\ Leads(calls[d])
    BY <1>1, <2>3
  <2> QED BY <2>1, <2>2, <2>3
<1>4. ExitOK(i)' /\ RerunOK(i)'
  BY <1>1, <1>2 DEF JobOK, ExitOK, RerunOK
<1>5. RecPending(i)' <=> RecPending(i)
  BY <1>1, <1>2 DEF RecPending
<1>6. ASSUME i \notin lost' PROVE OneToken(i)' /\ Numbers(i)' /\ OverOK(i)'
  <2>0. OneToken(i) /\ Numbers(i) /\ OverOK(i) /\ Moving(calls[c], i)
    BY <1>6 DEF JobOK, Moving
  <2>1. run # i /\ mail[i] = <<>>
    BY <2>0 DEF OneToken
  <2>2. \A d \in Calls : Moving(calls'[d], i) => d = c
    BY <1>1, <2>0 DEF OneToken
  <2>3. Moving(calls'[c], i) => new.job = i
    BY <1>1 DEF Moving
  <2>4. OneToken(i)'
    BY <2>1, <2>2 DEF OneToken, Moving
  <2>5. Numbers(i)'
    <3>1. ASSUME NEW d \in Calls, Moving(calls'[d], i)
          PROVE  NumbersFit(calls'[d], i, runs'[i], rec'[i])
      BY <1>1, <1>6, <2>2, <2>3, <3>1
    <3>2. runs'[i] <= MaxAttempts /\ ~(run' = i \/ mail'[i] # <<>>)
      BY <2>0, <2>1 DEF Numbers
    <3> QED BY <3>1, <3>2 DEF Numbers, Moving, NumbersFit
  <2>6. OverOK(i)'
    <3>1. ASSUME NEW d \in Calls, Moving(calls'[d], i)
          PROVE  DoneFits(calls'[d], rec'[i].status, RecPending(i)')
      BY <1>1, <1>5, <1>6, <2>2, <2>3, <3>1 DEF DoneFits
    <3>2. rec'[i].status # "completed" /\ ~(run' = i) /\ mail'[i] = <<>>
      BY <1>6, <2>1
    <3> QED BY <3>1, <3>2 DEF OverOK, Moving, DoneFits
  <2> QED BY <2>4, <2>5, <2>6
<1> QED BY <1>3, <1>4, <1>6 DEF JobOK

LEMMA MovingSound ==
  ASSUME RetryTypeOK, RunInv, NEW c \in Calls, NEW i \in JobIds, NEW new,
         calls[c].job = i, calls[c].at \notin {"accepted", "recover"},
         Become(c, new), new.job = i \/ new = Idle,
         new.at \notin {"recover", "kill", "killSave"},
         new.at \in Holding => \A k \in JobIds \ {i} : new.snap[k] = rec[k],
         \A k \in JobIds \ {i} : rec'[k] = rec[k],
         UNCHANGED <<run, exit, mail, runs, restarts, schedule, lost>>,
         restarts = 0 /\ schedule /\ rec'[i].status = "retrying" =>
           \/ new.job = i /\ Leads(new)
           \/ rec[i].status = "retrying" /\ ~Leads(calls[c])
           \/ \E d \in Calls \ {c} : calls[d].job = i /\ Leads(calls[d]),
         new.at = "rerun" => new.snap[i].status = "running",
         i \notin lost => /\ rec'[i].status # "completed"
                          /\ new.job = i =>
                               /\ NumbersFit(new, i, runs[i], rec'[i])
                               /\ DoneFits(new, rec'[i].status, RecPending(i))
  PROVE  RunInv'
<1>1. JobOK(i)
  BY DEF RunInv
<1>2. JobOK(i)'
  BY <1>1, MovingJob
<1> QED BY <1>2, CallSound

\* What holds of the call that moves its job.
LEMMA OfMoving ==
  ASSUME RetryTypeOK, RunInv, NEW c \in Calls, calls[c].at \in Places \ {"accepted", "recover"}
  PROVE  /\ calls[c].job \in JobIds /\ calls[c].attempt \in 0 .. MaxAttempts
         /\ calls[c].at \in Holding =>
              \A k \in JobIds \ {calls[c].job} : calls[c].snap[k] = rec[k]
         /\ calls[c].at \in Holding => calls[c].snap \in Arrays
         /\ calls[c].at = "rerun" => calls[c].snap[calls[c].job].status = "running"
         /\ calls[c].job \notin lost =>
              /\ NumbersFit(calls[c], calls[c].job, runs[calls[c].job], rec[calls[c].job])
              /\ DoneFits(calls[c], rec[calls[c].job].status, RecPending(calls[c].job))
         /\ rec \in Arrays /\ runs[calls[c].job] \in Nat
<1>1. calls[c].job \in JobIds /\ calls[c].attempt \in 0 .. MaxAttempts /\ rec \in Arrays
      /\ (calls[c].at \in Holding => calls[c].snap \in Arrays)
      /\ runs[calls[c].job] \in Nat
  BY OfCall DEF RetryTypeOK, AgentOK
<1>2. Moving(calls[c], calls[c].job) /\ Under(calls[c].job)
  BY <1>1 DEF Moving, Under
<1>3. JobOK(calls[c].job) /\ Others(calls[c].job)
  BY <1>1 DEF RunInv
<1>4. calls[c].at \in Holding => \A k \in JobIds \ {calls[c].job} : calls[c].snap[k] = rec[k]
  BY <1>2, <1>3 DEF Others
<1>5. ASSUME calls[c].job \notin lost
      PROVE  /\ NumbersFit(calls[c], calls[c].job, runs[calls[c].job], rec[calls[c].job])
             /\ DoneFits(calls[c], rec[calls[c].job].status, RecPending(calls[c].job))
  BY <1>2, <1>3, <1>5 DEF JobOK, Numbers, OverOK
<1>6. calls[c].at = "rerun" => calls[c].snap[calls[c].job].status = "running"
  BY <1>1, <1>3 DEF JobOK, RerunOK
<1> QED BY <1>1, <1>4, <1>5, <1>6

LEMMA OfIdle == Idle.at = "idle" /\ Idle.job = NoJob /\ NoJob \notin JobIds /\ "idle" \notin Holding
BY NullsAssumption DEF Idle, Call, Holding

LEMMA OfNew ==
  ASSUME NEW at, NEW j, NEW n
  PROVE  Call(at, j, n).at = at /\ Call(at, j, n).job = j /\ Call(at, j, n).attempt = n
BY DEF Call

-----------------------------------------------------------------------------
(* The steps of the calls that move their job *)

\* The call goes on without the array, and its job keeps its record.
LEMMA GoSound ==
  ASSUME RetryTypeOK, RunInv, NEW c \in Calls, NEW place,
         calls[c].at \in Places \ {"accepted", "recover"}, Go(c, place),
         UNCHANGED <<run, exit, mail, runs, restarts, schedule, lost>>, rec' = rec,
         place \in Places \ (Holding \cup {"kill"}),
         Leads(calls[c]) => Leads([calls[c] EXCEPT !.at = place]),
         calls[c].job \notin lost =>
           /\ NumbersFit([calls[c] EXCEPT !.at = place], calls[c].job, runs[calls[c].job],
                         rec[calls[c].job])
           /\ DoneFits([calls[c] EXCEPT !.at = place], rec[calls[c].job].status,
                       RecPending(calls[c].job))
  PROVE  RunInv'
<1> DEFINE i == calls[c].job
           new == [calls[c] EXCEPT !.at = place]
<1>1. i \in JobIds /\ calls[c] \in CallType
  BY OfCall DEF RetryTypeOK
<1>2. new.at = place /\ new.job = i
  BY <1>1 DEF CallType
<1>3. place \notin Holding /\ place \notin {"recover", "kill", "killSave", "rerun"}
  BY DEF Holding
<1>4. Become(c, new)
  BY DEF Go
<1>5. i \notin lost => NumbersFit(new, i, runs[i], rec[i]) /\ DoneFits(new, rec[i].status, RecPending(i))
  OBVIOUS
<1>6. i \notin lost => rec'[i].status # "completed"
  BY <1>1, <1>5 DEF DoneFits
<1>7. Leads(calls[c]) => Leads(new)
  OBVIOUS
<1> HIDE DEF new
<1> QED BY <1>1, <1>2, <1>3, <1>4, <1>5, <1>6, <1>7, MovingSound

\* The call ends.
LEMMA DoneSound ==
  ASSUME RetryTypeOK, RunInv, NEW c \in Calls,
         calls[c].at \in Places \ {"accepted", "recover"}, Done(c),
         UNCHANGED <<run, exit, mail, runs, restarts, schedule, lost>>,
         \A k \in JobIds \ {calls[c].job} : rec'[k] = rec[k],
         \/ rec' = rec /\ (\/ ~Leads(calls[c])
                           \/ ~schedule
                           \/ rec[calls[c].job].status # "retrying"
                           \/ \E d \in Calls \ {c} : calls[d].job = calls[c].job /\ Leads(calls[d]))
         \/ rec'[calls[c].job].status \in {"none", "failed"}
  PROVE  RunInv'
<1> DEFINE i == calls[c].job
<1>1. i \in JobIds
  BY OfMoving
<1>2. i \notin lost => rec[i].status # "completed"
  BY OfMoving DEF DoneFits
<1>3. i \notin lost => rec'[i].status # "completed"
  BY <1>2
<1>4. restarts = 0 /\ schedule /\ rec'[i].status = "retrying" =>
        \/ rec[i].status = "retrying" /\ ~Leads(calls[c])
        \/ \E d \in Calls \ {c} : calls[d].job = i /\ Leads(calls[d])
  OBVIOUS
<1>5. Idle.job # i /\ Idle.at \notin {"recover", "kill", "killSave", "rerun"} /\ Idle.at \notin Holding
  BY <1>1, OfIdle
<1>6. Become(c, Idle)
  BY DEF Done
<1> QED BY <1>1, <1>3, <1>4, <1>5, <1>6, MovingSound

\* The call reads the array of jobs.
LEMMA ReadSound ==
  ASSUME RetryTypeOK, RunInv, NEW c \in Calls, NEW place,
         calls[c].at \in Places \ {"accepted", "recover"}, Read(c, place),
         UNCHANGED <<run, exit, mail, runs, restarts, schedule, lost>>, rec' = rec,
         place \in {"remove", "failSave", "retry", "lapse"},
         Leads(calls[c]) => place = "retry" \/ ~schedule,
         place = "failSave" \/ calls[c].at \notin {"fail", "failSave", "handle", "arm"}
  PROVE  RunInv'
<1> DEFINE i == calls[c].job
           new == [calls[c] EXCEPT !.at = place, !.snap = rec]
<1>1. i \in JobIds /\ calls[c] \in CallType
  BY OfCall DEF RetryTypeOK
<1>2. new.at = place /\ new.job = i /\ new.snap = rec /\ new.attempt = calls[c].attempt
  BY <1>1 DEF CallType
<1>3. Become(c, new)
  BY DEF Read
<1> HIDE DEF new
<1>4. ASSUME i \notin lost
      PROVE  /\ NumbersFit(new, i, runs[i], rec[i])
             /\ DoneFits(new, rec[i].status, RecPending(i))
             /\ rec[i].status # "completed"
  <2>1. /\ NumbersFit(calls[c], i, runs[i], rec[i])
        /\ DoneFits(calls[c], rec[i].status, RecPending(i))
    BY <1>4, OfMoving
  <2> QED BY <1>2, <2>1 DEF NumbersFit, DoneFits
<1>5. schedule /\ Leads(calls[c]) => Leads(new)
  BY <1>2 DEF Leads
<1>6. restarts = 0 /\ schedule /\ rec'[i].status = "retrying" =>
           \/ new.job = i /\ Leads(new)
           \/ rec[i].status = "retrying" /\ ~Leads(calls[c])
  BY <1>2, <1>5
<1> QED BY <1>1, <1>2, <1>3, <1>4, <1>6, MovingSound

LEMMA CheckStatusSound ==
  ASSUME RetryTypeOK, RunInv, NEW c \in Calls, CheckStatus(c)
  PROVE  RunInv'
<1>1. calls[c].at = "check" /\ rec' = rec
      /\ UNCHANGED <<run, exit, mail, runs, restarts, schedule, lost>>
  BY DEF CheckStatus, At, retryAgentVars, historyVars
<1>2. calls[c].at \in Places \ {"accepted", "recover"} /\ ~Leads(calls[c])
  BY <1>1 DEF Places, Leads
<1>3. CASE Read(c, "remove")
  BY <1>1, <1>2, <1>3, ReadSound
<1>4. CASE Go(c, "trigger")
  <2>0. calls[c] \in CallType
    BY DEF RetryTypeOK, CallsOK
  <2>1. [calls[c] EXCEPT !.at = "trigger"].at = "trigger"
        /\ [calls[c] EXCEPT !.at = "trigger"].attempt = calls[c].attempt
        /\ [calls[c] EXCEPT !.at = "trigger"].snap = calls[c].snap
    BY <2>0 DEF CallType
  <2>2. calls[c].job \notin lost =>
           /\ NumbersFit(calls[c], calls[c].job, runs[calls[c].job], rec[calls[c].job])
           /\ DoneFits(calls[c], rec[calls[c].job].status, RecPending(calls[c].job))
    BY <1>2, OfMoving
  <2>3. calls[c].job \notin lost =>
           /\ NumbersFit([calls[c] EXCEPT !.at = "trigger"], calls[c].job, runs[calls[c].job], rec[calls[c].job])
           /\ DoneFits([calls[c] EXCEPT !.at = "trigger"], rec[calls[c].job].status, RecPending(calls[c].job))
    BY <1>1, <2>1, <2>2 DEF NumbersFit, DoneFits
  <2>4. "trigger" \in Places \ (Holding \cup {"kill"})
    BY DEF Places, Holding
  <2> QED BY <1>1, <1>2, <1>4, <2>3, <2>4, GoSound
<1> QED BY <1>3, <1>4 DEF CheckStatus

LEMMA removeJobSound ==
  ASSUME RetryTypeOK, RunInv, NEW c \in Calls, removeJob(c)
  PROVE  RunInv'
<1>1. calls[c].at = "remove" /\ Done(c)
      /\ UNCHANGED <<run, exit, mail, runs, restarts, schedule, lost>>
  BY DEF removeJob, At, retryAgentVars, historyVars
<1>2. calls[c].at \in Places \ {"accepted", "recover"} /\ calls[c].at \in Holding
  BY <1>1 DEF Places, Holding
<1>3. /\ calls[c].job \in JobIds /\ calls[c].snap \in Arrays
      /\ \A k \in JobIds \ {calls[c].job} : calls[c].snap[k] = rec[k]
  BY <1>2, OfMoving
<1>4. rec' = [calls[c].snap EXCEPT ![calls[c].job] = NoRecord]
  BY DEF removeJob
<1>5. /\ \A k \in JobIds \ {calls[c].job} : rec'[k] = rec[k]
      /\ rec'[calls[c].job].status = "none"
  BY <1>3, <1>4 DEF Arrays, NoRecord
<1> QED BY <1>1, <1>2, <1>5, DoneSound

\* The call goes on to a place where little is asked of it.
LEMMA GoPlain ==
  ASSUME RetryTypeOK, RunInv, NEW c \in Calls, NEW place,
         calls[c].at \in Places \ {"accepted", "recover"}, Go(c, place),
         UNCHANGED <<run, exit, mail, runs, restarts, schedule, lost>>, rec' = rec,
         place \in {"fail", "arm", "due"},
         place = "due" => calls[c].at \notin {"fail", "failSave", "handle", "arm"},
         place = "fail" => ~Leads(calls[c])
  PROVE  RunInv'
<1> DEFINE i == calls[c].job
           new == [calls[c] EXCEPT !.at = place]
<1>1. new.at = place /\ new.attempt = calls[c].attempt
  BY DEF RetryTypeOK, CallsOK, CallType
<1> HIDE DEF new
<1>2. ASSUME i \notin lost
      PROVE  /\ NumbersFit(new, i, runs[i], rec[i])
             /\ DoneFits(new, rec[i].status, RecPending(i))
  <2>1. /\ NumbersFit(calls[c], i, runs[i], rec[i])
        /\ DoneFits(calls[c], rec[i].status, RecPending(i))
    BY <1>2, OfMoving
  <2> QED BY <1>1, <2>1 DEF NumbersFit, DoneFits
<1>3. Leads(calls[c]) => Leads(new)
  BY <1>1 DEF Leads
<1>4. place \in Places \ (Holding \cup {"kill"})
  BY DEF Places, Holding
<1> QED BY <1>2, <1>3, <1>4, GoSound DEF new

LEMMA FailReadSound ==
  ASSUME RetryTypeOK, RunInv, NEW c \in Calls, FailRead(c)
  PROVE  RunInv'
<1>1. calls[c].at = "fail" /\ rec' = rec
      /\ UNCHANGED <<run, exit, mail, runs, restarts, schedule, lost>>
  BY DEF FailRead, At, retryAgentVars, historyVars
<1>2. calls[c].at \in Places \ {"accepted", "recover"} /\ ~Leads(calls[c])
  BY <1>1 DEF Places, Leads
<1>3. CASE Read(c, "failSave")
  BY <1>1, <1>2, <1>3, ReadSound
<1>4. CASE Done(c)
  BY <1>1, <1>2, <1>4, DoneSound
<1> QED BY <1>3, <1>4 DEF FailRead

LEMMA FailSaveSound ==
  ASSUME RetryTypeOK, RunInv, NEW c \in Calls, FailSave(c)
  PROVE  RunInv'
<1> DEFINE i == calls[c].job
<1>1. calls[c].at = "failSave" /\ UNCHANGED <<run, exit, mail, runs, restarts, schedule, lost>>
  BY DEF FailSave, At, retryAgentVars, historyVars
<1>2. calls[c].at \in Places \ {"accepted", "recover"} /\ calls[c].at \in Holding
  BY <1>1 DEF Places, Holding
<1>3. /\ i \in JobIds /\ calls[c].snap \in Arrays
      /\ \A k \in JobIds \ {i} : calls[c].snap[k] = rec[k]
  BY <1>2, OfMoving
<1>4. rec' = Ended(calls[c].snap, i, "failed")
  BY DEF FailSave
<1>5. /\ \A k \in JobIds \ {i} : rec'[k] = rec[k]
      /\ rec'[i].status = "failed"
  BY <1>3, <1>4 DEF Ended, Arrays, Record
<1>6. CASE calls[c].attempt = 1
  <2> DEFINE new == Call("handle", i, 1)
  <2>1. new.at = "handle" /\ new.job = i /\ new.attempt = 1
    BY OfNew
  <2>2. Become(c, new)
    BY <1>6 DEF FailSave
  <2> HIDE DEF new
  <2>3. ASSUME i \notin lost
        PROVE  NumbersFit(new, i, runs[i], rec'[i]) /\ DoneFits(new, rec'[i].status, RecPending(i))
    <3>1. NumbersFit(calls[c], i, runs[i], rec[i])
      BY <1>2, <2>3, OfMoving
    <3> QED BY <1>5, <1>6, <2>1, <3>1 DEF NumbersFit, DoneFits
  <2>4. new.at \notin Holding
    BY <2>1 DEF Holding
  <2> QED BY <1>1, <1>2, <1>3, <1>5, <2>1, <2>2, <2>3, <2>4, MovingSound
<1>7. CASE calls[c].attempt # 1
  <2>1. Done(c)
    BY <1>7 DEF FailSave
  <2> QED BY <1>1, <1>2, <1>5, <2>1, DoneSound
<1> QED BY <1>6, <1>7

\* A failure that finds a timer registered leaves the retry to that timer.
LEMMA handleSound ==
  ASSUME RetryTypeOK, RunInv, NEW c \in Calls, handleScheduledBackupFailure(c)
  PROVE  RunInv'
<1>1. calls[c].at = "handle" /\ rec' = rec
      /\ UNCHANGED <<run, exit, mail, runs, restarts, schedule, lost>>
  BY DEF handleScheduledBackupFailure, At, retryAgentVars, historyVars
<1>2. calls[c].at \in Places \ {"accepted", "recover"}
  BY <1>1 DEF Places
<1>3. CASE Go(c, "arm")
  BY <1>1, <1>2, <1>3, GoPlain
<1>4. CASE timers[calls[c].job] # NoCall /\ Done(c)
  <2>1. calls[c].job \in JobIds
    BY <1>2, OfMoving
  <2>2. /\ timers[calls[c].job] \in Calls
        /\ calls[timers[calls[c].job]].at = "timer"
        /\ calls[timers[calls[c].job]].job = calls[c].job
    BY <1>4, <2>1 DEF RetryTypeOK, CallsOK
  <2>3. \E d \in Calls \ {c} : calls[d].job = calls[c].job /\ Leads(calls[d])
    BY <1>1, <2>2 DEF Leads
  <2> QED BY <1>1, <1>2, <1>4, <2>3, DoneSound
<1>5. CASE calls[c].attempt >= MaxAttempts /\ Done(c)
  <2>1. calls[c].attempt \in 0 .. MaxAttempts
    BY <1>2, OfMoving
  <2>2. ~Leads(calls[c])
    BY <1>1, <1>5, <2>1, RetryBounds DEF Leads
  <2> QED BY <1>1, <1>2, <1>5, <2>2, DoneSound
<1> QED BY <1>3, <1>4, <1>5 DEF handleScheduledBackupFailure

LEMMA ArmSound ==
  ASSUME RetryTypeOK, RunInv, NEW c \in Calls, Arm(c)
  PROVE  RunInv'
<1> DEFINE i == calls[c].job
<1>1. calls[c].at = "arm" /\ rec' = rec
      /\ UNCHANGED <<run, exit, mail, runs, restarts, schedule, lost>>
  BY DEF Arm, At, retryAgentVars, historyVars
<1>2. calls[c].at \in Places \ {"accepted", "recover"}
  BY <1>1 DEF Places
<1>3. CASE schedule
  <2> DEFINE new == Call("timer", i, calls[c].attempt + 1)
  <2>1. new.at = "timer" /\ new.job = i /\ new.attempt = calls[c].attempt + 1
    BY OfNew
  <2>2. Become(c, new)
    BY <1>3 DEF Arm
  <2> HIDE DEF new
  <2>3. ASSUME i \notin lost
        PROVE  /\ NumbersFit(new, i, runs[i], rec[i]) /\ DoneFits(new, rec[i].status, RecPending(i))
               /\ rec[i].status # "completed"
    <3>1. NumbersFit(calls[c], i, runs[i], rec[i]) /\ DoneFits(calls[c], rec[i].status, RecPending(i))
          /\ calls[c].attempt \in 0 .. MaxAttempts /\ runs[i] \in Nat
      BY <1>2, <2>3, OfMoving
    <3> QED BY <2>1, <3>1, RetryBounds DEF NumbersFit, DoneFits
  <2>4. new.at \notin Holding /\ Leads(new)
    BY <2>1 DEF Holding, Leads
  <2>5. i \in JobIds
    BY <1>2, OfMoving
  <2> QED BY <1>1, <1>2, <2>1, <2>2, <2>3, <2>4, <2>5, MovingSound
<1>4. CASE ~schedule
  <2>1. Done(c)
    BY <1>4 DEF Arm
  <2> QED BY <1>1, <1>2, <1>4, <2>1, DoneSound
<1> QED BY <1>3, <1>4

LEMMA DeferSound ==
  ASSUME RetryTypeOK, RunInv, NEW c \in Calls, Defer(c)
  PROVE  RunInv'
<1> DEFINE i == calls[c].job
           new == [Call("timer", i, calls[c].attempt) EXCEPT !.again = TRUE]
<1>1. calls[c].at = "defer" /\ rec' = rec /\ Become(c, new)
      /\ UNCHANGED <<run, exit, mail, runs, restarts, schedule, lost>>
  BY DEF Defer, At, retryAgentVars, historyVars
<1>2. calls[c].at \in Places \ {"accepted", "recover"}
  BY <1>1 DEF Places
<1>3. new.at = "timer" /\ new.job = i /\ new.attempt = calls[c].attempt
  BY DEF Call
<1> HIDE DEF new
<1>4. ASSUME i \notin lost
      PROVE  /\ NumbersFit(new, i, runs[i], rec[i]) /\ DoneFits(new, rec[i].status, RecPending(i))
             /\ rec[i].status # "completed"
  <2>1. NumbersFit(calls[c], i, runs[i], rec[i]) /\ DoneFits(calls[c], rec[i].status, RecPending(i))
    BY <1>2, <1>4, OfMoving
  <2> QED BY <1>1, <1>3, <2>1 DEF NumbersFit, DoneFits
<1>5. new.at \notin Holding /\ Leads(new)
  BY <1>3 DEF Holding, Leads
<1>6. i \in JobIds
  BY <1>2, OfMoving
<1> QED BY <1>1, <1>2, <1>3, <1>4, <1>5, <1>6, MovingSound

LEMMA TimerFiresSound ==
  ASSUME RetryTypeOK, RunInv, NEW c \in Calls, TimerFires(c)
  PROVE  RunInv'
<1>1. calls[c].at = "timer" /\ rec' = rec /\ Go(c, "due")
      /\ UNCHANGED <<run, exit, mail, runs, restarts, schedule, lost>>
  BY DEF TimerFires, At, retryAgentVars, historyVars
<1>2. calls[c].at \in Places \ {"accepted", "recover"}
  BY <1>1 DEF Places
<1> QED BY <1>1, <1>2, GoPlain

LEMMA DueSound ==
  ASSUME RetryTypeOK, RunInv, NEW c \in Calls, Due(c)
  PROVE  RunInv'
<1>1. calls[c].at = "due" /\ rec' = rec
      /\ UNCHANGED <<run, exit, mail, runs, restarts, schedule, lost>>
  BY DEF Due, At, retryAgentVars, historyVars
<1>2. calls[c].at \in Places \ {"accepted", "recover"}
  BY <1>1 DEF Places
<1>3. CASE schedule /\ Read(c, "retry")
  BY <1>1, <1>2, <1>3, ReadSound
<1>4. CASE ~schedule /\ Read(c, "lapse")
  BY <1>1, <1>2, <1>4, ReadSound
<1>5. CASE Done(c) /\ (~Stored(rec, calls[c].job) \/ ~schedule)
  <2>1. ~schedule \/ rec[calls[c].job].status # "retrying"
    BY <1>5 DEF Stored
  <2> QED BY <1>1, <1>2, <1>5, <2>1, DoneSound
<1> QED BY <1>3, <1>4, <1>5 DEF Due

LEMMA LapseSound ==
  ASSUME RetryTypeOK, RunInv, NEW c \in Calls, Lapse(c)
  PROVE  RunInv'
<1> DEFINE i == calls[c].job
<1>1. calls[c].at = "lapse" /\ UNCHANGED <<run, exit, mail, runs, restarts, schedule, lost>> /\ Done(c)
  BY DEF Lapse, At, retryAgentVars, historyVars
<1>2. calls[c].at \in Places \ {"accepted", "recover"} /\ calls[c].at \in Holding /\ ~Leads(calls[c])
  BY <1>1 DEF Places, Holding, Leads
<1>3. /\ i \in JobIds /\ calls[c].snap \in Arrays
      /\ \A k \in JobIds \ {i} : calls[c].snap[k] = rec[k]
  BY <1>2, OfMoving
<1>4. CASE rec' = Ended(calls[c].snap, i, "failed")
  <2>1. /\ \A k \in JobIds \ {i} : rec'[k] = rec[k]
        /\ rec'[i].status = "failed"
    BY <1>3, <1>4 DEF Ended, Arrays, Record
  <2> QED BY <1>1, <1>2, <2>1, DoneSound
<1>5. CASE rec' = rec
  BY <1>1, <1>2, <1>5, DoneSound
<1> QED BY <1>4, <1>5 DEF Lapse

LEMMA retryExistingJobSound ==
  ASSUME RetryTypeOK, RunInv, NEW c \in Calls, retryExistingJob(c)
  PROVE  RunInv'
<1> DEFINE i == calls[c].job
           again == [calls[c].snap EXCEPT ![i].status = "running", ![i].attempt = calls[c].attempt]
           new == [calls[c] EXCEPT !.at = "rerun", !.snap = again]
<1>1. calls[c].at = "retry" /\ UNCHANGED <<run, exit, mail, runs, restarts, schedule, lost>>
  BY DEF retryExistingJob, At, retryAgentVars, historyVars
<1>2. calls[c].at \in Places \ {"accepted", "recover"} /\ calls[c].at \in Holding
  BY <1>1 DEF Places, Holding
<1>3. /\ i \in JobIds /\ calls[c].snap \in Arrays
      /\ \A k \in JobIds \ {i} : calls[c].snap[k] = rec[k]
  BY <1>2, OfMoving
<1>4. CASE rec' = Ended(calls[c].snap, i, "failed") /\ Done(c)
  <2>1. /\ \A k \in JobIds \ {i} : rec'[k] = rec[k]
        /\ rec'[i].status = "failed"
    BY <1>3, <1>4 DEF Ended, Arrays, Record
  <2> QED BY <1>1, <1>2, <1>4, <2>1, DoneSound
<1>5. CASE rec' = again /\ Become(c, new)
  <2>1. /\ \A k \in JobIds \ {i} : again[k] = rec[k]
        /\ again[i].status = "running" /\ again[i].attempt = calls[c].attempt
    BY <1>3 DEF Arrays, Record
  <2> HIDE DEF again
  <2>2. new.at = "rerun" /\ new.job = i /\ new.attempt = calls[c].attempt /\ new.snap = again
    BY DEF RetryTypeOK, CallsOK, CallType
  <2> HIDE DEF new
  <2>3. ASSUME i \notin lost
        PROVE  NumbersFit(new, i, runs[i], rec'[i]) /\ DoneFits(new, rec'[i].status, RecPending(i))
    <3>1. NumbersFit(calls[c], i, runs[i], rec[i]) /\ calls[c].attempt \in 0 .. MaxAttempts
      BY <1>2, <2>3, OfMoving
    <3>2. again[i].status = "running" /\ rec' = again
      BY <1>5, <2>1
    <3>3. calls[c].attempt <= new.snap[i].attempt
      BY <2>1, <2>2, <3>1, RetryBounds
    <3> QED BY <1>1, <2>2, <3>1, <3>2, <3>3 DEF NumbersFit, DoneFits
  <2>4. rec'[i].status = "running" /\ \A k \in JobIds \ {i} : rec'[k] = rec[k]
    BY <1>5, <2>1
  <2> QED BY <1>1, <1>2, <1>3, <1>5, <2>1, <2>2, <2>3, <2>4, MovingSound
<1> QED BY <1>4, <1>5 DEF retryExistingJob

LEMMA RerunSound ==
  ASSUME RetryTypeOK, RunInv, NEW c \in Calls, Rerun(c)
  PROVE  RunInv'
<1> DEFINE i == calls[c].job
<1>1. calls[c].at = "rerun" /\ UNCHANGED <<run, exit, mail, runs, restarts, schedule, lost>>
  BY DEF Rerun, At, retryAgentVars, historyVars
<1>2. calls[c].at \in Places \ {"accepted", "recover"} /\ calls[c].at \in Holding /\ ~Leads(calls[c])
  BY <1>1 DEF Places, Holding, Leads
<1>3. /\ i \in JobIds /\ calls[c].snap \in Arrays
      /\ \A k \in JobIds \ {i} : calls[c].snap[k] = rec[k]
  BY <1>2, OfMoving
<1>4. i \notin lost => /\ NumbersFit(calls[c], i, runs[i], rec[i])
                       /\ DoneFits(calls[c], rec[i].status, RecPending(i))
  BY <1>2, OfMoving
<1>5. CASE rec' = calls[c].snap /\ Become(c, Call("trigger", i, calls[c].attempt))
  <2> DEFINE new == Call("trigger", i, calls[c].attempt)
  <2>1. new.at = "trigger" /\ new.job = i /\ new.attempt = calls[c].attempt
    BY OfNew
  <2>2. Become(c, new)
    BY <1>5
  <2> HIDE DEF new
  <2>5. rec'[i].status = "running"
    BY <1>1, <1>2, <1>5, OfMoving
  <2>3. ASSUME i \notin lost
        PROVE  NumbersFit(new, i, runs[i], rec'[i]) /\ DoneFits(new, rec'[i].status, RecPending(i))
    BY <1>1, <1>4, <1>5, <2>1, <2>3, <2>5 DEF NumbersFit, DoneFits
  <2>4. new.at \notin Holding
    BY <2>1 DEF Holding
  <2> QED BY <1>1, <1>2, <1>3, <1>5, <2>1, <2>2, <2>3, <2>4, <2>5, MovingSound DEF DoneFits
<1>6. CASE rec' = rec /\ Become(c, Call("fail", i, calls[c].attempt))
  <2> DEFINE new == Call("fail", i, calls[c].attempt)
  <2>1. new.at = "fail" /\ new.job = i /\ new.attempt = calls[c].attempt
    BY OfNew
  <2>2. Become(c, new)
    BY <1>6
  <2> HIDE DEF new
  <2>3. ASSUME i \notin lost
        PROVE  /\ NumbersFit(new, i, runs[i], rec'[i]) /\ DoneFits(new, rec'[i].status, RecPending(i))
               /\ rec'[i].status # "completed"
    BY <1>1, <1>4, <1>6, <2>1, <2>3 DEF NumbersFit, DoneFits
  <2>4. new.at \notin Holding
    BY <2>1 DEF Holding
  <2> QED BY <1>1, <1>2, <1>3, <1>6, <2>1, <2>2, <2>3, <2>4, MovingSound
<1> QED BY <1>5, <1>6 DEF Rerun

LEMMA BusySound ==
  ASSUME RetryTypeOK, RunInv, NEW c \in Calls, Busy(c)
  PROVE  RunInv'
<1> DEFINE i == calls[c].job
           new == [calls[c] EXCEPT !.at = "defer"]
<1>1. calls[c].at = "trigger" /\ UNCHANGED <<run, exit, mail, runs, restarts, schedule, lost>>
  BY DEF Busy, At, retryAgentVars, historyVars
<1>2. calls[c].at \in Places \ {"accepted", "recover"} /\ ~Leads(calls[c])
  BY <1>1 DEF Places, Leads
<1>3. i \in JobIds /\ rec \in Arrays
  BY <1>2, OfMoving
<1>4. CASE Go(c, "fail") /\ rec' = rec
  BY <1>1, <1>2, <1>4, GoPlain
<1>5. CASE /\ Go(c, "defer")
           /\ \/ rec' = [rec EXCEPT ![i].status = "retrying", ![i].deferrals = @ + 1]
              \/ rec' = rec
  <2>1. \A k \in JobIds \ {i} : rec'[k] = rec[k]
    BY <1>3, <1>5 DEF Arrays
  <2>2. rec'[i].status = "retrying" \/ rec'[i].status = rec[i].status
    BY <1>3, <1>5 DEF Arrays, Record
  <2>3. new.at = "defer" /\ new.job = i /\ new.attempt = calls[c].attempt
    BY DEF RetryTypeOK, CallsOK, CallType
  <2>4. Become(c, new)
    BY <1>5 DEF Go
  <2> HIDE DEF new
  <2>5. ASSUME i \notin lost
        PROVE  /\ NumbersFit(new, i, runs[i], rec'[i]) /\ DoneFits(new, rec'[i].status, RecPending(i))
               /\ rec'[i].status # "completed"
    <3>1. NumbersFit(calls[c], i, runs[i], rec[i]) /\ DoneFits(calls[c], rec[i].status, RecPending(i))
      BY <1>2, <2>5, OfMoving
    <3> QED BY <1>1, <2>2, <2>3, <3>1 DEF NumbersFit, DoneFits
  <2>6. Leads(new) /\ new.at \notin Holding
    BY <2>3 DEF Leads, Holding
  <2> QED BY <1>1, <1>2, <1>3, <2>1, <2>3, <2>4, <2>5, <2>6, MovingSound
<1> QED BY <1>4, <1>5 DEF Busy

LEMMA UnreachableSound ==
  ASSUME RetryTypeOK, RunInv, NEW c \in Calls, Unreachable(c)
  PROVE  RunInv'
<1>1. calls[c].at = "trigger" /\ rec' = rec /\ Go(c, "fail")
      /\ UNCHANGED <<run, exit, mail, runs, restarts, schedule, lost>>
  BY DEF Unreachable, At, retryAgentVars, historyVars
<1>2. calls[c].at \in Places \ {"accepted", "recover"} /\ ~Leads(calls[c])
  BY <1>1 DEF Places, Leads
<1> QED BY <1>1, <1>2, GoPlain

-----------------------------------------------------------------------------
(* Answers *)

\* The answer of a run that is under way, or long over.
LEMMA AnsweredSound ==
  ASSUME RetryTypeOK, RunInv, NEW c \in Calls, Answered(c)
  PROVE  RunInv'
<1>0. PICK i \in JobIds : i = calls[c].job
  BY OfCall DEF RetryTypeOK, Places, Answered, At
<1>1. /\ calls[c].at = "accepted" /\ Done(c)
      /\ UNCHANGED <<run, exit, mail, runs, restarts, schedule, lost>>
  BY DEF Answered, At, retryAgentVars, historyVars
<1>2. i \in JobIds /\ rec \in Arrays
  BY DEF RetryTypeOK
<1>3. rec' = [rec EXCEPT ![i].deferrals = 0] \/ rec' = rec
  BY <1>0 DEF Answered
<1>4. /\ \A k \in JobIds \ {i} : rec'[k] = rec[k]
      /\ rec'[i].status = rec[i].status /\ rec'[i].attempt = rec[i].attempt
  BY <1>2, <1>3 DEF Arrays, Record
<1>5. \A d \in Calls : calls'[d] = IF d = c THEN Idle ELSE calls[d]
  BY <1>1 DEF RetryTypeOK, CallsOK, Done, Become
<1>6. \A d \in Calls : Moving(calls'[d], i) => Moving(calls[d], i) /\ calls'[d] = calls[d]
  BY <1>2, <1>5, OfIdle DEF Moving
<1>7. RecPending(i)' <=> RecPending(i)
  BY <1>1, <1>5, OfIdle DEF RecPending
<1>8. JobOK(i) /\ ~Leads(calls[c])
  BY <1>1, <1>2 DEF RunInv, Leads
<1>9. ComingOK(i)'
  <2> SUFFICES ASSUME restarts = 0, schedule, rec[i].status = "retrying"
               PROVE  \E d \in Calls : calls'[d].job = i /\ Leads(calls'[d])
    BY <1>1, <1>4 DEF ComingOK, Leads
  <2>1. PICK d \in Calls : calls[d].job = i /\ Leads(calls[d])
    BY <1>8 DEF JobOK, ComingOK
  <2>2. d # c
    BY <1>8, <2>1
  <2> QED BY <1>5, <2>1, <2>2
<1>10. ExitOK(i)' /\ RerunOK(i)'
  BY <1>1, <1>2, <1>5, <1>8, OfIdle DEF JobOK, ExitOK, RerunOK
<1>11. ASSUME i \notin lost' PROVE OneToken(i)' /\ Numbers(i)' /\ OverOK(i)'
  <2>0. OneToken(i) /\ Numbers(i) /\ OverOK(i)
    BY <1>1, <1>8, <1>11 DEF JobOK
  <2>1. OneToken(i)'
    BY <1>1, <1>6, <2>0 DEF OneToken, Moving
  <2>2. Numbers(i)'
    BY <1>1, <1>4, <1>6, <2>0 DEF Numbers, Moving, NumbersFit
  <2>3. OverOK(i)'
    BY <1>1, <1>4, <1>6, <1>7, <2>0 DEF OverOK, Moving, DoneFits
  <2> QED BY <2>1, <2>2, <2>3
<1>12. JobOK(i)'
  BY <1>9, <1>10, <1>11 DEF JobOK
<1>13. Become(c, Idle)
  BY <1>1 DEF Done
<1> QED BY <1>0, <1>1, <1>2, <1>4, <1>12, <1>13, OfIdle, CallSound

LEMMA NoAnswerSound ==
  ASSUME RetryTypeOK, RunInv, NEW c \in Calls, NoAnswer(c)
  PROVE  RunInv'
<1>0. PICK i \in JobIds : i = calls[c].job
  BY OfCall DEF RetryTypeOK, Places, NoAnswer, At
<1>1. /\ calls[c].at = "accepted" /\ rec' = rec /\ lost' = lost \cup {i}
      /\ UNCHANGED <<run, exit, mail, runs, restarts, schedule>>
  BY <1>0 DEF NoAnswer, At, retryAgentVars
<1>2. PICK new : new.at = "fail" /\ new.job = i /\ Become(c, new)
  BY <1>0 DEF RetryTypeOK, CallsOK, CallType, NoAnswer, Go
<1>4. \A d \in Calls : calls'[d] = IF d = c THEN new ELSE calls[d]
  BY <1>2 DEF RetryTypeOK, CallsOK, Become
<1>5. JobOK(i) /\ ~Leads(calls[c])
  BY <1>0, <1>1 DEF RunInv, Leads
<1>6. ComingOK(i)'
  <2> SUFFICES ASSUME restarts = 0, schedule, rec[i].status = "retrying"
               PROVE  \E d \in Calls : calls'[d].job = i /\ Leads(calls'[d])
    BY <1>1 DEF ComingOK, Leads
  <2>1. PICK d \in Calls : calls[d].job = i /\ Leads(calls[d])
    BY <1>5 DEF JobOK, ComingOK
  <2>2. d # c
    BY <1>5, <2>1
  <2> QED BY <1>4, <2>1, <2>2
<1>7. ExitOK(i)' /\ RerunOK(i)'
  BY <1>1, <1>2, <1>4, <1>5 DEF JobOK, ExitOK, RerunOK
<1>8. JobOK(i)'
  BY <1>1, <1>6, <1>7 DEF JobOK
<1>9. new.at \notin Holding
  BY <1>2 DEF Holding
<1> QED BY <1>0, <1>1, <1>2, <1>8, <1>9, CallSound

-----------------------------------------------------------------------------
(* Steps of the agent's run, and of the report about it *)

\* A step of what is under way for i disturbs no other job.
LEMMA OneJobSound ==
  ASSUME RetryTypeOK, RunInv, NEW i \in JobIds, Under(i),
         \A c \in Calls : calls'[c] # calls[c] =>
           /\ calls[c].job \in {i, NoJob} /\ calls'[c].job = i
           /\ calls'[c].at \notin Holding \cup {"recover", "kill", "killSave"},
         \A k \in JobIds \ {i} :
           rec'[k] = rec[k] /\ exit'[k] = exit[k] /\ mail'[k] = mail[k] /\ runs'[k] = runs[k],
         run' = run \/ {run, run'} \subseteq {i, NoJob},
         UNCHANGED <<restarts, schedule, lost>>,
         JobOK(i)'
  PROVE  RunInv'
<1>0. NoJob \notin JobIds
  BY NullsAssumption
<1>1. NoKills' /\ OneRecovery'
  BY DEF RunInv, NoKills, OneRecovery
<1>2. \A k \in JobIds : Under(k)' => Under(k)
  <2> SUFFICES ASSUME NEW k \in JobIds \ {i}, Under(k)' PROVE Under(k)
    OBVIOUS
  <2>1. \A c \in Calls : calls'[c].job = k => calls[c].job = k
    BY <1>0
  <2>2. run' = k => run = k
    BY <1>0
  <2> QED BY <2>1, <2>2 DEF Under
<1>3. Solo'
  BY <1>2 DEF RunInv, Solo
<1>4. ASSUME NEW j \in JobIds PROVE Others(j)'
  <2> SUFFICES ASSUME Under(j)', NEW k \in JobIds \ {j}
               PROVE  /\ rec'[k].status \notin Active
                      /\ \A d \in Calls :
                           /\ calls'[d].at = "recover" => calls'[d].snap[k].status # "running"
                           /\ calls'[d].at \in Holding \ {"recover"} => calls'[d].snap[k] = rec'[k]
    BY DEF Others
  <2>1. j = i
    BY <1>2 DEF RunInv, Solo
  <2>2. rec'[k] = rec[k] /\ Others(i)
    BY <2>1 DEF RunInv
  <2>3. \A d \in Calls : calls'[d].at \in Holding \cup {"recover"} => calls'[d] = calls[d]
    OBVIOUS
  <2> QED BY <2>1, <2>2, <2>3 DEF Others
<1>5. ASSUME NEW j \in JobIds \ {i} PROVE JobOK(j)'
  <2>1. RecPending(j)' => RecPending(j)
    BY DEF RecPending
  <2>2. \A d \in Calls : calls'[d].job = j \/ calls[d].job = j => calls'[d] = calls[d]
    BY <1>0
  <2>3. run' = j <=> run = j
    BY <1>0
  <2>4. Kept(j)
    BY <2>1, <2>2, <2>3 DEF Kept
  <2> QED BY <2>4, KeptSound DEF RunInv
<1> QED BY <1>1, <1>3, <1>4, <1>5 DEF RunInv

\* The request that is taken makes the run of its attempt.
LEMMA AcceptSound ==
  ASSUME RetryTypeOK, RunInv, NEW c \in Calls, Accept(c)
  PROVE  RunInv'
<1>0. PICK i \in JobIds : i = calls[c].job
  BY OfCall DEF RetryTypeOK, Places, Accept, At
<1>1. /\ calls[c].at = "trigger" /\ run = NoJob /\ run' = i
      /\ UNCHANGED <<rec, mail, restarts, schedule, lost>>
  BY <1>0 DEF Accept, At, historyVars
<1>2. exit' = [exit EXCEPT ![i] = "none"] /\ runs' = [runs EXCEPT ![i] = @ + 1]
  BY <1>0, <1>1 DEF Accept
<1>3. /\ exit'[i] = "none" /\ runs'[i] = runs[i] + 1 /\ runs[i] \in Nat
      /\ \A k \in JobIds \ {i} : exit'[k] = exit[k] /\ runs'[k] = runs[k]
  BY <1>2 DEF RetryTypeOK, AgentOK
<1>4. PICK new : new.at = "accepted" /\ new.job = i /\ Become(c, new)
  BY <1>0 DEF RetryTypeOK, CallsOK, CallType, Accept, Go
<1>5. \A d \in Calls : calls'[d] = IF d = c THEN new ELSE calls[d]
  BY <1>4 DEF RetryTypeOK, CallsOK, Become
<1>6. JobOK(i) /\ ~Leads(calls[c]) /\ Under(i) /\ Moving(calls[c], i)
  BY <1>0, <1>1 DEF RunInv, Leads, Under, Moving
<1>7. ComingOK(i)'
  <2> SUFFICES ASSUME restarts = 0, schedule, rec[i].status = "retrying"
               PROVE  \E d \in Calls : calls'[d].job = i /\ Leads(calls'[d])
    BY <1>1 DEF ComingOK, Leads
  <2>1. PICK d \in Calls : calls[d].job = i /\ Leads(calls[d])
    BY <1>6 DEF JobOK, ComingOK
  <2>2. d # c
    BY <1>6, <2>1
  <2> QED BY <1>5, <2>1, <2>2
<1>8. ExitOK(i)' /\ RerunOK(i)'
  BY <1>1, <1>3, <1>4, <1>5, <1>6 DEF JobOK, ExitOK, RerunOK
<1>9. ASSUME i \notin lost' PROVE OneToken(i)' /\ Numbers(i)' /\ OverOK(i)'
  <2>0. OneToken(i) /\ Numbers(i) /\ OverOK(i)
    BY <1>1, <1>6, <1>9 DEF JobOK
  <2>1. \A d \in Calls : ~Moving(calls'[d], i)
    BY <1>4, <1>5, <1>6, <2>0 DEF OneToken, Moving
  <2>2. mail[i] = <<>>
    BY <1>6, <2>0 DEF OneToken
  <2>3. NumbersFit(calls[c], i, runs[i], rec[i]) /\ DoneFits(calls[c], rec[i].status, RecPending(i))
    BY <1>6, <2>0 DEF Numbers, OverOK
  <2>4. OneToken(i)'
    BY <1>1, <2>1, <2>2 DEF OneToken, Moving
  <2>5. calls[c].attempt \in 0 .. MaxAttempts /\ rec[i].attempt \in Nat /\ MaxAttempts \in Nat
    BY RetryBounds DEF RetryTypeOK, CallsOK, CallType, Arrays, Record
  <2>6. runs'[i] <= MaxAttempts /\ runs'[i] <= rec[i].attempt
    BY <1>1, <1>3, <2>3, <2>5 DEF NumbersFit
  <2>7. Numbers(i)'
    BY <1>1, <2>1, <2>6 DEF Numbers, Moving, NumbersFit
  <2>8. rec[i].status # "completed" /\ (RecPending(i) => rec[i].status = "running")
    BY <1>1, <2>3 DEF DoneFits
  <2>9. RecPending(i)' => RecPending(i)
    BY <1>4, <1>5 DEF RecPending
  <2>10. OverOK(i)'
    BY <1>1, <2>1, <2>2, <2>8, <2>9 DEF OverOK, Moving, DoneFits
  <2> QED BY <2>4, <2>7, <2>10
<1>10. JobOK(i)'
  BY <1>7, <1>8, <1>9 DEF JobOK
<1>11. new.at \notin Holding \cup {"recover", "kill", "killSave"}
  BY <1>4 DEF Holding
<1> QED BY <1>0, <1>1, <1>3, <1>4, <1>5, <1>6, <1>10, <1>11, OneJobSound

\* A step of the run itself leaves the controller alone.
LEMMA AgentSound ==
  ASSUME RetryTypeOK, RunInv, NEW i \in JobIds, run = i,
         UNCHANGED <<rec, calls, runs, restarts, schedule, lost>>,
         \A k \in JobIds \ {i} : exit'[k] = exit[k] /\ mail'[k] = mail[k],
         run' \in {i, NoJob}, exit'[i] # "none" => run' = i,
         OneToken(i) /\ OverOK(i) /\ ExitOK(i) =>
           /\ \/ mail'[i] = <<>> \/ mail'[i] = <<"running">>
              \/ /\ run' # i
                 /\ \E v \in {"completed", "failed", "repeat"} :
                      mail'[i] = <<v>> \/ mail'[i] = <<"running", v>>
           /\ rec[i].status = "completed" =>
                /\ run' = i => exit'[i] = "completed"
                /\ mail'[i] = <<>> \/ mail'[i] = <<"completed">>
           /\ mail'[i] # <<>> /\ Head(mail'[i]) = "running" =>
                rec[i].status # "running" /\ ~RecPending(i)
           /\ RecPending(i) /\ run' = i /\ exit'[i] = "none" => rec[i].status = "running"
  PROVE  RunInv'
<1>1. JobOK(i) /\ Under(i)
  BY DEF RunInv, Under
<1>2. ComingOK(i)' /\ RerunOK(i)' /\ ExitOK(i)'
  BY <1>1 DEF JobOK, ComingOK, Leads, RerunOK, ExitOK
<1>3. ASSUME i \notin lost' PROVE OneToken(i)' /\ Numbers(i)' /\ OverOK(i)'
  <2>0. OneToken(i) /\ Numbers(i) /\ OverOK(i) /\ ExitOK(i)
    BY <1>1, <1>3 DEF JobOK
  <2>1. \A d \in Calls : ~Moving(calls[d], i)
    BY <2>0 DEF OneToken
  <2>2. OneToken(i)'
    BY <2>0, <2>1 DEF OneToken, Moving
  <2>3. Numbers(i)'
    BY <2>0, <2>1 DEF Numbers, Moving, NumbersFit
  <2>4. RecPending(i)' <=> RecPending(i)
    BY DEF RecPending
  <2>5. OverOK(i)'
    BY <2>0, <2>1, <2>4 DEF OverOK, Moving, DoneFits
  <2> QED BY <2>2, <2>3, <2>5
<1>4. JobOK(i)'
  BY <1>2, <1>3 DEF JobOK
<1> QED BY <1>1, <1>4, OneJobSound

LEMMA ProgressSound ==
  ASSUME RetryTypeOK, RunInv, NEW i \in JobIds, Progress(i)
  PROVE  RunInv'
<1>1. /\ run = i /\ exit[i] = "none" /\ mail[i] = <<>> /\ rec[i].status # "running"
      /\ UNCHANGED <<run, exit, rec, calls, runs, restarts, schedule, lost>>
  BY DEF Progress, retryControllerVars, historyVars
<1>2. mail'[i] = <<"running">> /\ \A k \in JobIds \ {i} : mail'[k] = mail[k]
  BY DEF Progress, RetryTypeOK, AgentOK
<1>3. OverOK(i) => rec[i].status # "completed" /\ ~RecPending(i)
  BY <1>1 DEF OverOK
<1> QED BY <1>1, <1>2, <1>3, AgentSound

LEMMA ScriptEndsSound ==
  ASSUME RetryTypeOK, RunInv, NEW i \in JobIds, ScriptEnds(i)
  PROVE  RunInv'
<1>1. /\ run = i /\ exit[i] = "none"
      /\ UNCHANGED <<run, mail, rec, calls, runs, restarts, schedule, lost>>
  BY DEF ScriptEnds, retryControllerVars, historyVars
<1>2. exit'[i] # "none" /\ \A k \in JobIds \ {i} : exit'[k] = exit[k]
  BY DEF ScriptEnds, RetryTypeOK, AgentOK
<1>3. OneToken(i) => mail[i] = <<>> \/ mail[i] = <<"running">>
  BY <1>1 DEF OneToken
<1>4. OverOK(i) => /\ rec[i].status # "completed"
                   /\ mail[i] # <<>> /\ Head(mail[i]) = "running" =>
                        rec[i].status # "running" /\ ~RecPending(i)
  BY <1>1 DEF OverOK
<1> QED BY <1>1, <1>2, <1>3, <1>4, AgentSound

LEMMA TwoReports ==
  ASSUME NEW a, NEW b
  PROVE  Append(<<a>>, b) = <<a, b>> /\ Tail(<<a, b>>) = <<b>>
<1> DEFINE S == {a, b}
<1>1. <<a>> \in Seq(S) /\ <<b>> \in Seq(S) /\ <<a, b>> \in Seq(S)
  OBVIOUS
<1>2. Len(<<a>>) = 1 /\ Len(<<b>>) = 1 /\ Len(<<a, b>>) = 2
  OBVIOUS
<1>3. <<a>>[1] = a /\ <<b>>[1] = b /\ <<a, b>>[1] = a /\ <<a, b>>[2] = b
  OBVIOUS
<1>4. a \in S /\ b \in S /\ <<a, b>> # <<>>
  OBVIOUS
<1> HIDE DEF S
<1>5. Append(<<a>>, b) = <<a, b>>
  <2>1. PICK s : s = Append(<<a>>, b)
    OBVIOUS
  <2>2. s \in Seq(S) /\ Len(s) = 2 /\ s[1] = a /\ s[2] = b
    BY <1>1, <1>2, <1>3, <1>4, <2>1, AppendProperties
  <2>3. s = <<a, b>>
    BY <1>1, <1>2, <1>3, <2>2, SeqEqual
  <2> QED BY <2>1, <2>3
<1>6. Tail(<<a, b>>) = <<b>>
  <2>1. /\ Tail(<<a, b>>) \in Seq(S) /\ Len(Tail(<<a, b>>)) = 1
        /\ Tail(<<a, b>>)[1] = b
    BY <1>1, <1>2, <1>3, <1>4, HeadTailProperties
  <2> QED BY <1>1, <1>2, <1>3, <2>1, SeqEqual
<1> QED BY <1>5, <1>6

LEMMA EndRunSound ==
  ASSUME RetryTypeOK, RunInv, NEW i \in JobIds, EndRun(i)
  PROVE  RunInv'
<1>1. /\ run = i /\ exit[i] # "none" /\ run' = NoJob
      /\ UNCHANGED <<rec, calls, runs, restarts, schedule, lost>>
  BY DEF EndRun, retryControllerVars, historyVars
<1>2. exit'[i] = "none" /\ \A k \in JobIds \ {i} : exit'[k] = exit[k]
  BY DEF EndRun, RetryTypeOK, AgentOK
<1>3. PICK v \in {"completed", "failed", "repeat"} :
        /\ mail' = [mail EXCEPT ![i] = Append(@, v)]
        /\ exit[i] = "completed" => v = "completed"
  BY <1>1 DEF EndRun, RetryTypeOK, AgentOK
<1>4. /\ mail'[i] = Append(mail[i], v) /\ \A k \in JobIds \ {i} : mail'[k] = mail[k]
      /\ mail[i] \in Seq({"running", "completed", "failed", "repeat"})
  BY <1>3 DEF RetryTypeOK, AgentOK
<1>5. /\ Append(<<>>, v) = <<v>> /\ Head(<<v>>) = v
      /\ Append(<<"running">>, v) = <<"running", v>> /\ Head(<<"running">>) = "running"
  <2>1. Append(<<>>, v) = <<v>>
    OBVIOUS
  <2>2. Append(<<"running">>, v) = <<"running", v>>
    BY TwoReports
  <2>3. Head(<<v>>) = v /\ Head(<<"running">>) = "running"
    OBVIOUS
  <2> QED BY <2>1, <2>2, <2>3
<1>6. ASSUME OneToken(i), OverOK(i)
      PROVE  /\ mail'[i] = <<v>> \/ mail'[i] = <<"running", v>>
             /\ rec[i].status = "completed" => mail'[i] = <<"completed">>
             /\ Head(mail'[i]) = "running" => rec[i].status # "running" /\ ~RecPending(i)
  <2>1. CASE mail[i] = <<>>
    <3>1. mail'[i] = <<v>> /\ Head(mail'[i]) # "running"
      BY <1>4, <1>5, <2>1
    <3>2. rec[i].status = "completed" => v = "completed"
      BY <1>1, <1>3, <1>6 DEF OverOK
    <3> QED BY <3>1, <3>2
  <2>2. CASE mail[i] = <<"running">>
    <3>1. mail'[i] = <<"running", v>> /\ mail[i] # <<>> /\ Head(mail[i]) = "running"
      BY <1>4, <1>5, <2>2
    <3>2. mail[i] # <<"completed">>
      BY <2>2
    <3>3. rec[i].status \notin {"completed", "running"} /\ ~RecPending(i)
      BY <1>6, <3>1, <3>2 DEF OverOK
    <3> QED BY <3>1, <3>3
  <2> QED BY <1>1, <1>6, <2>1, <2>2 DEF OneToken
<1>7. run' # i
  BY <1>1, NullsAssumption
<1> QED BY <1>1, <1>2, <1>4, <1>6, <1>7, AgentSound

\* A report that is taken decides the status, and asks for the retry itself.
LEMMA UpdateSound ==
  ASSUME RetryTypeOK, RunInv, NEW i \in JobIds, NEW c \in Calls, Update(i, c)
  PROVE  RunInv'
<1>1. /\ mail[i] # <<>> /\ calls[c] = Idle /\ mail' = [mail EXCEPT ![i] = Tail(@)]
      /\ UNCHANGED <<run, exit, runs, restarts, schedule, lost>>
  BY DEF Update, Free, historyVars
<1>2. /\ mail[i] \in Seq({"running", "completed", "failed", "repeat"}) /\ mail \in [JobIds -> Seq({"running", "completed", "failed", "repeat"})]
      /\ rec \in Arrays /\ rec[i] \in Record
  BY DEF RetryTypeOK, AgentOK, Arrays
<1>3. mail'[i] = Tail(mail[i]) /\ \A k \in JobIds \ {i} : mail'[k] = mail[k]
  BY <1>1, <1>2
<1> DEFINE report == Head(mail[i])
<1>4. report \in {"running", "completed", "failed", "repeat"}
  BY <1>1, <1>2, HeadTailProperties
<1>5. PICK st \in Statuses :
        /\ \A k \in JobIds \ {i} : rec'[k] = rec[k]
        /\ rec'[i].status = st /\ rec'[i].attempt = rec[i].attempt
        /\ \/ st = rec[i].status /\ (report = "repeat" \/ st = "none") /\ calls' = calls
           \/ st \in {"running", "completed", "failed"} /\ st = report /\ calls' = calls
           \/ /\ st = "retrying" /\ report = "failed" /\ rec[i].attempt < MaxAttempts
              /\ Become(c, Call("handle", i, rec[i].attempt))
  <2>1. CASE ~Stored(rec, i)
    BY <1>2, <2>1 DEF Update, Stored, Arrays, Record
  <2>2. CASE Stored(rec, i)
    <3>1. rec' = Ended(rec, i, Status(report, rec[i]))
      BY <2>2 DEF Update
    <3>2. /\ \A k \in JobIds \ {i} : rec'[k] = rec[k]
          /\ rec'[i].status = Status(report, rec[i]) /\ rec'[i].attempt = rec[i].attempt
      BY <1>2, <3>1 DEF Ended, Arrays, Record
    <3>3. IF report = "failed" /\ rec'[i].status = "retrying"
          THEN Become(c, Call("handle", i, rec[i].attempt)) ELSE UNCHANGED calls
      BY <2>2 DEF Update
    <3>4. CASE report = "repeat"
      <4>1. rec'[i].status = rec[i].status /\ rec[i].status \in Statuses
        BY <1>2, <3>2, <3>4 DEF Status, Record
      <4> QED BY <3>2, <3>3, <3>4, <4>1
    <3>5. CASE report = "failed" /\ rec[i].attempt < MaxAttempts
      <4>1. rec'[i].status = "retrying" /\ "retrying" \in Statuses
        BY <3>2, <3>5 DEF Status, Statuses, Active
      <4> QED BY <3>2, <3>3, <3>5, <4>1
    <3>6. CASE report # "repeat" /\ ~(report = "failed" /\ rec[i].attempt < MaxAttempts)
      <4>1. rec'[i].status = report /\ report \in Statuses
        BY <1>4, <3>2, <3>6 DEF Status, Statuses, Active
      <4> QED BY <1>4, <3>2, <3>3, <3>6, <4>1
    <3> QED BY <3>4, <3>5, <3>6
  <2> QED BY <2>1, <2>2
<1>6. \A d \in Calls : calls'[d] # calls[d] =>
        /\ d = c /\ calls[d] = Idle /\ calls'[d] = Call("handle", i, rec[i].attempt)
        /\ st = "retrying"
  BY <1>1, <1>5 DEF RetryTypeOK, CallsOK, Become
<1>7. PICK new : new.at = "handle" /\ new.job = i /\ new.attempt = rec[i].attempt
                 /\ new = Call("handle", i, rec[i].attempt)
  BY OfNew
<1>8. JobOK(i) /\ Under(i)
  BY <1>1 DEF RunInv, Under
<1>9. ComingOK(i)'
  <2> SUFFICES ASSUME restarts = 0, schedule, rec'[i].status = "retrying"
               PROVE  \E d \in Calls : calls'[d].job = i /\ Leads(calls'[d])
    BY <1>1 DEF ComingOK, Leads
  <2>1. CASE calls' = calls /\ rec[i].status = "retrying"
    BY <1>8, <2>1 DEF JobOK, ComingOK
  <2>2. CASE calls'[c] = new /\ rec[i].attempt < MaxAttempts
    BY <1>7, <2>2 DEF Leads
  <2> QED BY <1>4, <1>5, <1>7, <2>1, <2>2 DEF Become, RetryTypeOK, CallsOK
<1>10. ExitOK(i)' /\ RerunOK(i)'
  BY <1>1, <1>6, <1>7, <1>8 DEF JobOK, ExitOK, RerunOK
<1>11. ASSUME i \notin lost' PROVE OneToken(i)' /\ Numbers(i)' /\ OverOK(i)'
  <2>0. OneToken(i) /\ Numbers(i) /\ OverOK(i)
    BY <1>1, <1>8, <1>11 DEF JobOK
  <2>1. \A d \in Calls : Moving(calls'[d], i) => calls'[d] = new /\ d = c /\ st = "retrying"
    BY <1>1, <1>6, <1>7, <2>0 DEF OneToken, Moving
  <2>2. \/ mail[i] = <<"running">> /\ mail'[i] = <<>>
        \/ run # i /\ \E v \in {"completed", "failed", "repeat"} :
             \/ mail[i] = <<v>> /\ mail'[i] = <<>>
             \/ mail[i] = <<"running", v>> /\ mail'[i] = <<v>>
    <3>1. CASE mail[i] = <<"running">>
      BY <1>3, <3>1
    <3>2. CASE run # i /\ \E v \in {"completed", "failed", "repeat"} : mail[i] = <<v>> \/ mail[i] = <<"running", v>>
      <4>1. PICK v \in {"completed", "failed", "repeat"} : mail[i] = <<v>> \/ mail[i] = <<"running", v>>
        BY <3>2
      <4>2. Tail(<<v>>) = <<>> /\ Tail(<<"running", v>>) = <<v>>
        BY TwoReports
      <4> QED BY <1>3, <3>2, <4>1, <4>2
    <3> QED BY <1>1, <2>0, <3>1, <3>2 DEF OneToken
  <2>3. report \in {"failed", "completed", "repeat"} => run # i /\ mail[i] = <<report>> /\ mail'[i] = <<>>
    BY <2>2
  <2>4. OneToken(i)'
    <3>1. \A d \in Calls : Moving(calls'[d], i) => run # i /\ mail'[i] = <<>>
      BY <1>5, <2>1, <2>3, <1>8, <2>0 DEF OneToken, Moving
    <3> QED BY <1>1, <2>1, <2>2, <3>1 DEF OneToken, Moving
  <2>5. runs[i] <= rec[i].attempt /\ runs[i] <= MaxAttempts
    BY <1>1, <2>0 DEF Numbers
  <2>6. NumbersFit(new, i, runs[i], rec'[i])
    BY <1>7, <2>5 DEF NumbersFit
  <2>7. Numbers(i)'
    BY <1>1, <1>5, <2>1, <2>5, <2>6 DEF Numbers, Moving, NumbersFit
  <2>8. OverOK(i)'
    <3>1. RecPending(i)' => RecPending(i)
      BY <1>6, <1>7 DEF RecPending
    <3>2. st = "completed" => run # i /\ mail'[i] = <<>>
      <4>1. CASE report = "completed"
        BY <2>3, <4>1
      <4>2. CASE rec[i].status = "completed" /\ report # "completed"
        <5>1. mail[i] = <<"completed">>
          BY <1>1, <2>0, <4>2 DEF OverOK
        <5> QED BY <4>2, <5>1
      <4> QED BY <1>5, <4>1, <4>2
    <3>3. mail'[i] # <<>> => Head(mail'[i]) # "running"
      BY <2>2
    <3>4. ASSUME RecPending(i), run = i, exit[i] = "none" PROVE st = "running"
      <4>1. report = "running"
        BY <1>4, <2>3, <3>4
      <4>2. mail[i] # <<>> /\ Head(mail[i]) = "running" => ~RecPending(i)
        BY <2>0 DEF OverOK
      <4> QED BY <1>1, <3>4, <4>1, <4>2
    <3>5. \A d \in Calls : Moving(calls'[d], i) => DoneFits(calls'[d], st, RecPending(i)')
      BY <1>7, <2>1 DEF DoneFits
    <3> QED BY <1>1, <1>5, <3>1, <3>2, <3>3, <3>4, <3>5 DEF OverOK, Moving, DoneFits
  <2> QED BY <2>4, <2>7, <2>8
<1>12. JobOK(i)'
  BY <1>9, <1>10, <1>11 DEF JobOK
<1>13. \A d \in Calls : calls'[d] # calls[d] =>
         /\ calls[d].job \in {i, NoJob} /\ calls'[d].job = i
         /\ calls'[d].at \notin Holding \cup {"recover", "kill", "killSave"}
  BY <1>6, <1>7, OfIdle DEF Holding
<1> QED BY <1>1, <1>3, <1>5, <1>8, <1>12, <1>13, OneJobSound

-----------------------------------------------------------------------------
(* Steps that belong to no job *)

LEMMA NoJobSound ==
  ASSUME RetryTypeOK, RunInv, UNCHANGED <<rec, calls, exit, mail, runs, restarts, lost>>,
         schedule' => schedule, \A j \in JobIds : run' = j <=> run = j
  PROVE  RunInv'
<1>1. NoKills' /\ OneRecovery' /\ \A j \in JobIds : Under(j)' => Under(j)
  BY DEF RunInv, NoKills, OneRecovery, Under
<1>2. Solo'
  BY <1>1 DEF RunInv, Solo
<1>3. ASSUME NEW j \in JobIds PROVE Others(j)' /\ JobOK(j)'
  <2>1. Others(j)'
    BY <1>1 DEF RunInv, Others
  <2>2. Kept(j)
    BY DEF Kept, RecPending
  <2> QED BY <2>1, <2>2, KeptSound DEF RunInv
<1> QED BY <1>1, <1>2, <1>3 DEF RunInv

LEMMA ForeignRunSound ==
  ASSUME RetryTypeOK, RunInv, ForeignRun
  PROVE  RunInv'
<1>1. UNCHANGED <<rec, calls, exit, mail, runs, restarts, lost, schedule>>
  BY DEF ForeignRun, retryControllerVars
<1>2. \A j \in JobIds : run' = j <=> run = j
  BY NullsAssumption DEF ForeignRun
<1> QED BY <1>1, <1>2, NoJobSound

LEMMA DeleteScheduleSound ==
  ASSUME RetryTypeOK, RunInv, DeleteSchedule
  PROVE  RunInv'
BY NoJobSound DEF DeleteSchedule, retryAgentVars, historyVars

\* The schedule fires when nothing is under way.
LEMMA executeScheduledBackupSound ==
  ASSUME RetryTypeOK, RunInv, NEW i \in JobIds, NEW c \in Calls,
         executeScheduledBackup(i, c), Quiet
  PROVE  RunInv'
<1>1. /\ \A d \in Calls : calls[d] = Idle
      /\ run = NoJob /\ \A j \in JobIds : mail[j] = <<>>
      /\ UNCHANGED <<run, exit, mail, runs, restarts, schedule, lost>>
      /\ runs[i] = 0
  BY DEF Quiet, Free, executeScheduledBackup, retryAgentVars
<1>2. PICK r \in Record :
        /\ rec' = [rec EXCEPT ![i] = r] /\ r.status \in {"skipped", "running"}
        /\ \/ r.status = "skipped" /\ calls' = calls
           \/ /\ r.status = "running" /\ r.attempt = 1 /\ Become(c, Call("check", i, 1))
              /\ \A k \in JobIds : rec[k].status \notin Active
  <2>1. [NoRecord EXCEPT !.status = "skipped"] \in Record
    BY RetryBounds DEF NoRecord, Record, Statuses, Active
  <2>2. [NoRecord EXCEPT !.status = "running", !.attempt = 1] \in Record
    <3>1. 1 \in 0 .. MaxAttempts /\ 0 \in 0 .. MaxDeferrals /\ "running" \in Statuses
      BY RetryBounds DEF Statuses, Active
    <3> QED BY <3>1 DEF NoRecord, Record
  <2>3. [NoRecord EXCEPT !.status = "skipped"].status = "skipped"
    BY DEF NoRecord
  <2>4. /\ [NoRecord EXCEPT !.status = "running", !.attempt = 1].status = "running"
        /\ [NoRecord EXCEPT !.status = "running", !.attempt = 1].attempt = 1
    BY DEF NoRecord
  <2>5. CASE /\ rec' = [rec EXCEPT ![i] = [NoRecord EXCEPT !.status = "skipped"]]
             /\ UNCHANGED calls
    BY <2>1, <2>3, <2>5
  <2>6. CASE /\ \A k \in JobIds : rec[k].status \notin Active
             /\ rec' = [rec EXCEPT ![i] = [NoRecord EXCEPT !.status = "running", !.attempt = 1]]
             /\ Become(c, Call("check", i, 1))
    BY <2>2, <2>4, <2>6
  <2> QED BY <2>5, <2>6 DEF executeScheduledBackup
<1>3. rec'[i] = r /\ \A k \in JobIds \ {i} : rec'[k] = rec[k]
  BY <1>2 DEF RetryTypeOK, Arrays
<1>4. PICK new : new.at = "check" /\ new.job = i /\ new.attempt = 1 /\ new = Call("check", i, 1)
  BY OfNew
<1>5. \A d \in Calls : calls'[d] = Idle \/ (d = c /\ calls'[d] = new /\ r.status = "running" /\ r.attempt = 1)
  BY <1>1, <1>2, <1>4 DEF RetryTypeOK, CallsOK, Become
<1>6. \A j \in JobIds : Under(j)' => j = i /\ r.status = "running"
  BY <1>1, <1>4, <1>5, OfIdle DEF Under
<1>7. NoKills' /\ OneRecovery' /\ Solo'
  BY <1>4, <1>5, <1>6, OfIdle DEF NoKills, OneRecovery, Solo
<1>8. \A d \in Calls : calls'[d].at \notin Holding \cup {"recover"}
  BY <1>4, <1>5, OfIdle DEF Holding
<1>9. ASSUME NEW j \in JobIds PROVE Others(j)'
  BY <1>2, <1>3, <1>6, <1>8 DEF Others, Active
<1>10. \A j \in JobIds : RecPending(j)' = FALSE
  BY <1>8 DEF RecPending
<1>11. JobOK(i)'
  <2>1. ComingOK(i)' /\ RerunOK(i)' /\ ExitOK(i)'
    <3>1. ComingOK(i)'
      BY <1>2, <1>3 DEF ComingOK
    <3>2. RerunOK(i)'
      BY <1>8 DEF RerunOK, Holding
    <3>3. ExitOK(i)'
      BY <1>1 DEF RunInv, JobOK, ExitOK
    <3> QED BY <3>1, <3>2, <3>3
  <2>2. \A d \in Calls : Moving(calls'[d], i) =>
          d = c /\ calls'[d] = new /\ r.status = "running" /\ r.attempt = 1
    BY <1>5, OfIdle DEF Moving
  <2>3. run # i
    BY <1>1, NullsAssumption
  <2>4. OneToken(i)'
    BY <1>1, <2>2, <2>3 DEF OneToken, Moving
  <2>5. r.attempt = 1 => NumbersFit(new, i, runs[i], r)
    BY <1>1, <1>4 DEF NumbersFit
  <2>6. Numbers(i)'
    BY <1>1, <1>3, <2>2, <2>3, <2>5, RetryBounds DEF Numbers, Moving, NumbersFit
  <2>7. OverOK(i)'
    BY <1>1, <1>2, <1>3, <1>10, <2>2, <2>3 DEF OverOK, Moving, DoneFits
  <2> QED BY <2>1, <2>4, <2>6, <2>7 DEF JobOK
<1>12. ASSUME NEW j \in JobIds \ {i} PROVE JobOK(j)'
  <2>1. \A d \in Calls : calls'[d].job = j \/ calls[d].job = j => calls'[d] = calls[d]
    BY <1>1, <1>4, <1>5, OfIdle
  <2>2. Kept(j)
    BY <1>1, <1>3, <1>10, <2>1 DEF Kept
  <2> QED BY <2>2, KeptSound DEF RunInv
<1> QED BY <1>7, <1>9, <1>11, <1>12 DEF RunInv

\* All calls are gone, and the recovery reads what is stored.
LEMMA RestartSound ==
  ASSUME RetryTypeOK, RunInv, NEW c \in Calls, RetryRestart(c)
  PROVE  RunInv'
<1>1. /\ restarts' = restarts + 1 /\ restarts \in Nat
      /\ UNCHANGED <<rec, schedule, lost, run, exit, mail, runs>>
  BY DEF RetryRestart, retryAgentVars, RetryTypeOK, HistoryOK
<1>2. PICK new : new = [Call("recover", NoJob, 0) EXCEPT !.snap = rec]
  OBVIOUS
<1>3. new.at = "recover" /\ new.job = NoJob /\ new.snap = rec
  BY <1>2 DEF Call
<1>4. \A d \in Calls : calls'[d] = IF d = c THEN new ELSE Idle
  BY <1>2 DEF RetryRestart
<1>5. \A d \in Calls : calls'[d].job = NoJob /\ (calls'[d] = Idle \/ (calls'[d] = new /\ d = c))
  <2> SUFFICES ASSUME NEW d \in Calls
               PROVE  calls'[d].job = NoJob /\ (calls'[d] = Idle \/ (calls'[d] = new /\ d = c))
    OBVIOUS
  <2>1. CASE d = c
    BY <1>3, <1>4, <2>1
  <2>2. CASE d # c
    BY <1>4, <2>2, OfIdle
  <2> QED BY <2>1, <2>2
<1>6. NoKills' /\ OneRecovery' /\ \A j \in JobIds : Under(j)' => Under(j)
  BY <1>1, <1>3, <1>5, OfIdle DEF NoKills, OneRecovery, Under
<1>7. Solo'
  BY <1>6 DEF RunInv, Solo
<1>8. \A d \in Calls : /\ calls'[d].at = "recover" => calls'[d].snap = rec
                       /\ calls'[d].at \notin Holding \ {"recover"}
  BY <1>3, <1>5, OfIdle
<1>9. ASSUME NEW j \in JobIds PROVE Others(j)'
  BY <1>1, <1>6, <1>8 DEF RunInv, Others, Active
<1>10. ASSUME NEW j \in JobIds PROVE JobOK(j)'
  <2>0. JobOK(j)
    BY DEF RunInv
  <2>1. restarts' # 0
    BY <1>1
  <2>2. \A d \in Calls : calls'[d].job # j
    BY <1>5, OfIdle
  <2>3. ComingOK(j)' /\ RerunOK(j)' /\ ExitOK(j)'
    BY <1>1, <2>0, <2>1, <2>2 DEF JobOK, ComingOK, RerunOK, ExitOK
  <2>4. ASSUME j \notin lost' PROVE OneToken(j)' /\ Numbers(j)' /\ OverOK(j)'
    <3>0. OneToken(j) /\ Numbers(j) /\ OverOK(j)
      BY <1>1, <2>0, <2>4 DEF JobOK
    <3>1. RecPending(j)' => rec[j].status = "running"
      BY <1>8 DEF RecPending
    <3>2. OneToken(j)' /\ Numbers(j)'
      BY <1>1, <2>2, <3>0 DEF OneToken, Numbers, Moving, NumbersFit
    <3>3. OverOK(j)'
      BY <1>1, <2>2, <3>0, <3>1 DEF OverOK, Moving, DoneFits
    <3> QED BY <3>2, <3>3
  <2> QED BY <2>3, <2>4 DEF JobOK
<1> QED BY <1>6, <1>7, <1>9, <1>10 DEF RunInv

\* The recovery of a job: what is found of it at the agent.
LEMMA RecoveredJob ==
  ASSUME RetryTypeOK, RunInv, NEW c \in Calls, calls[c].at = "recover", Done(c),
         NEW j \in JobIds, rec'[j].status = LiveStatus(j), LiveStatus(j) # "running",
         rec'[j].attempt = rec[j].attempt,
         calls[c].snap[j].status = "running",
         UNCHANGED <<schedule, restarts, lost, run, exit, mail, runs>>
  PROVE  JobOK(j)'
<1>1. \A d \in Calls : calls'[d] = IF d = c THEN Idle ELSE calls[d]
  BY DEF RetryTypeOK, CallsOK, Done, Become
<1>2. JobOK(j) /\ RecPending(j) /\ calls[c].job = NoJob
  BY DEF RunInv, RecPending, OneRecovery
<1>3. \A d \in Calls : calls'[d].at # "recover"
  BY <1>1, OfIdle DEF RunInv, OneRecovery
<1>4. ExitOK(j)' /\ RerunOK(j)'
  BY <1>1, <1>2, OfIdle DEF JobOK, ExitOK, RerunOK
<1>5. /\ rec'[j].status \in {"completed", "failed"}
      /\ rec'[j].status = "completed" => exit[j] = "completed"
      /\ run = j => exit[j] # "none"
  BY DEF LiveStatus, RetryTypeOK, AgentOK
<1>6. ComingOK(j)'
  BY <1>5 DEF ComingOK
<1>7. ASSUME j \notin lost' PROVE OneToken(j)' /\ Numbers(j)' /\ OverOK(j)'
  <2>0. OneToken(j) /\ Numbers(j) /\ OverOK(j) /\ ExitOK(j)
    BY <1>2, <1>7 DEF JobOK
  <2>1. \A d \in Calls : Moving(calls'[d], j) => Moving(calls[d], j) /\ calls'[d] = calls[d]
    BY <1>1, OfIdle DEF Moving
  <2>2. OneToken(j)'
    BY <2>0, <2>1 DEF OneToken
  <2>3. Numbers(j)'
    <3>1. \A d \in Calls : Moving(calls[d], j) /\ calls[d].at \in {"check", "trigger"} =>
            calls[d].attempt <= rec'[j].attempt
      BY <2>0 DEF Numbers, NumbersFit
    <3> QED BY <2>0, <2>1, <3>1 DEF Numbers, NumbersFit
  <2>4. mail[j] # <<>> => Head(mail[j]) # "running"
    BY <1>2, <2>0 DEF OverOK
  <2>5. run = j => mail[j] = <<>>
    BY <2>0, <2>4 DEF OneToken
  <2>6. rec'[j].status = "completed" => run = j /\ exit[j] = "completed"
    BY <1>5, <2>0 DEF ExitOK
  <2>7. ~RecPending(j)'
    BY <1>3 DEF RecPending
  <2>8. \A d \in Calls : Moving(calls[d], j) => run # j
    BY <2>0 DEF OneToken
  <2>9. OverOK(j)'
    BY <2>1, <2>4, <2>5, <2>6, <2>7, <2>8 DEF OverOK, DoneFits, RecPending
  <2> QED BY <2>2, <2>3, <2>9
<1> QED BY <1>4, <1>6, <1>7 DEF JobOK

LEMMA recoverSound ==
  ASSUME RetryTypeOK, RunInv, NEW c \in Calls, recoverBackupJobs(c)
  PROVE  RunInv'
<1>1. /\ calls[c].at = "recover" /\ Done(c) /\ calls[c].job = NoJob
      /\ UNCHANGED <<schedule, restarts, run, exit, mail, runs>>
  BY DEF recoverBackupJobs, At, retryAgentVars, RunInv, OneRecovery
<1>2. \A d \in Calls : calls'[d] = IF d = c THEN Idle ELSE calls[d]
  BY <1>1 DEF RetryTypeOK, CallsOK, Done, Become
<1>3. /\ lost \subseteq lost'
      /\ \A j \in JobIds :
           \/ rec'[j] = rec[j]
           \/ /\ calls[c].snap[j].status = "running"
              /\ rec'[j].status = LiveStatus(j) /\ LiveStatus(j) # "running"
              /\ rec'[j].attempt = rec[j].attempt /\ lost' = lost
           \/ /\ calls[c].snap[j].status = "running"
              /\ rec'[j].status = "failed" /\ j \in lost'
  <2>0. rec \in Arrays
    BY DEF RetryTypeOK
  <2>1. CASE /\ rec' = [j \in JobIds |->
                        IF j \in Recovered(calls[c].snap) /\ LiveStatus(j) # "running"
                        THEN [rec[j] EXCEPT !.status = LiveStatus(j)] ELSE rec[j]]
             /\ UNCHANGED lost
    BY <2>0, <2>1 DEF Recovered, Arrays, Record
  <2>2. CASE /\ rec' = [j \in JobIds |-> IF j \in Recovered(calls[c].snap)
                                  THEN [rec[j] EXCEPT !.status = "failed"] ELSE rec[j]]
             /\ lost' = lost \cup Recovered(calls[c].snap)
    BY <2>0, <2>2 DEF Recovered, Arrays, Record
  <2> QED BY <2>1, <2>2 DEF recoverBackupJobs
<1>4. NoKills' /\ OneRecovery' /\ \A j \in JobIds : Under(j)' => Under(j)
  BY <1>1, <1>2, OfIdle DEF RunInv, NoKills, OneRecovery, Under
<1>5. Solo'
  BY <1>4 DEF RunInv, Solo
<1>6. ASSUME NEW j \in JobIds PROVE Others(j)'
  <2> SUFFICES ASSUME Under(j), NEW k \in JobIds \ {j}
               PROVE  /\ rec'[k].status \notin Active
                      /\ \A d \in Calls :
                           /\ calls'[d].at = "recover" => calls'[d].snap[k].status # "running"
                           /\ calls'[d].at \in Holding \ {"recover"} => calls'[d].snap[k] = rec'[k]
    BY <1>4 DEF Others
  <2>1. Others(j)
    BY DEF RunInv
  <2>2. rec'[k] = rec[k]
    BY <1>1, <1>3, <2>1 DEF Others
  <2> QED BY <1>2, <2>1, <2>2, OfIdle DEF Others
<1>7. ASSUME NEW j \in JobIds PROVE JobOK(j)'
  <2>0. JobOK(j)
    BY DEF RunInv
  <2>1. \A d \in Calls : calls'[d].job = j \/ calls[d].job = j => calls'[d] = calls[d]
    BY <1>1, <1>2, OfIdle
  <2>2. CASE rec'[j] = rec[j]
    <3>1. RecPending(j)' => RecPending(j)
      BY <1>2, OfIdle DEF RecPending
    <3>2. Kept(j)
      BY <1>1, <1>3, <2>1, <2>2, <3>1 DEF Kept
    <3> QED BY <2>0, <3>2, KeptSound
  <2>3. CASE /\ calls[c].snap[j].status = "running"
             /\ rec'[j].status = LiveStatus(j) /\ LiveStatus(j) # "running"
             /\ rec'[j].attempt = rec[j].attempt /\ lost' = lost
    BY <1>1, <2>3, RecoveredJob
  <2>4. CASE rec'[j].status = "failed" /\ j \in lost'
    <3>1. ComingOK(j)'
      BY <2>4 DEF ComingOK
    <3>2. RerunOK(j)' /\ ExitOK(j)'
      BY <1>1, <2>0, <2>1 DEF JobOK, RerunOK, ExitOK
    <3> QED BY <2>4, <3>1, <3>2 DEF JobOK
  <2> QED BY <1>3, <2>2, <2>3, <2>4
<1> QED BY <1>4, <1>5, <1>6, <1>7 DEF RunInv

-----------------------------------------------------------------------------
(* The invariant of the life of a job *)

LEMMA InitRun == RetryInit => RunInv
<1> SUFFICES ASSUME RetryInit PROVE RunInv
  OBVIOUS
<1>1. /\ \A c \in Calls : calls[c] = Idle
      /\ run = NoJob /\ \A j \in JobIds : mail[j] = <<>> /\ exit[j] = "none" /\ runs[j] = 0
      /\ \A j \in JobIds : rec[j].status = "none"
  BY DEF RetryInit, NoRecord
<1>2. \A j \in JobIds : ~Under(j) /\ ~RecPending(j)
  BY <1>1, OfIdle DEF Under, RecPending
<1>3. NoKills /\ OneRecovery /\ Solo /\ \A j \in JobIds : Others(j)
  BY <1>1, <1>2, OfIdle DEF NoKills, OneRecovery, Solo, Others
<1>4. ASSUME NEW j \in JobIds PROVE JobOK(j)
  <2>1. ComingOK(j) /\ RerunOK(j) /\ ExitOK(j)
    BY <1>1, OfIdle DEF ComingOK, RerunOK, ExitOK
  <2>2. \A c \in Calls : ~Moving(calls[c], j)
    BY <1>1, OfIdle DEF Moving
  <2>3. OneToken(j) /\ Numbers(j) /\ OverOK(j)
    BY <1>1, <1>2, <2>2, OfIdle, RetryBounds DEF OneToken, Numbers, OverOK
  <2> QED BY <2>1, <2>3 DEF JobOK
<1> QED BY <1>3, <1>4 DEF RunInv

\* What an operator asked for, and a fire on top of another job, are never forgotten.
LEMMA CalmBefore ==
  ASSUME RetryTypeOK, [RetryNext]_retryVars, Calm'
  PROVE  Calm
<1> USE DEF Calm
<1>1. CASE UNCHANGED retryVars
  BY <1>1 DEF retryVars
<1>2. CASE DeleteSchedule \/ ForeignRun
  BY <1>2 DEF DeleteSchedule, ForeignRun, historyVars
<1>3. ASSUME NEW c \in Calls, RunStep(c) PROVE Calm
  <2>1. \/ KillSave(c) \/ recoverBackupJobs(c) \/ UNCHANGED historyVars
    BY <1>3 DEF RunStep, CheckStatus, removeJob, Answered, FailRead, FailSave, Accept, Busy,
             handleScheduledBackupFailure, Arm, Defer, TimerFires, Due, Lapse, retryExistingJob,
             Rerun, KillAtAgent
  <2> QED BY <2>1 DEF KillSave, recoverBackupJobs, historyVars
<1>4. ASSUME NEW c \in Calls, NoAnswer(c) \/ Unreachable(c) \/ RetryRestart(c) PROVE Calm
  BY <1>4 DEF NoAnswer, Unreachable, RetryRestart, historyVars
<1>5. ASSUME NEW j \in JobIds, Progress(j) \/ ScriptEnds(j) \/ EndRun(j) PROVE Calm
  BY <1>5 DEF Progress, ScriptEnds, EndRun, historyVars
<1>6. ASSUME NEW j \in JobIds, NEW c \in Calls,
             executeScheduledBackup(j, c) \/ Update(j, c) \/ KillJob(j, c)
      PROVE  Calm
  <2>1. CASE executeScheduledBackup(j, c)
    BY <2>1 DEF executeScheduledBackup, RetryTypeOK, HistoryOK
  <2>2. CASE Update(j, c)
    BY <2>2 DEF Update, historyVars
  <2>3. CASE KillJob(j, c)
    BY <2>3 DEF KillJob
  <2> QED BY <1>6, <2>1, <2>2, <2>3
<1> QED BY <1>1, <1>2, <1>3, <1>4, <1>5, <1>6 DEF RetryNext

LEMMA StepSound ==
  ASSUME RetryTypeOK, RunInv, NEW c \in Calls, RunStep(c)
  PROVE  RunInv'
<1>1. ~KillAtAgent(c) /\ ~KillSave(c)
  BY DEF RunInv, NoKills, KillAtAgent, KillSave, At
<1> QED BY <1>1, CheckStatusSound, removeJobSound, AnsweredSound, FailReadSound, FailSaveSound,
           AcceptSound, BusySound, handleSound, ArmSound, DeferSound, TimerFiresSound, DueSound,
           LapseSound, retryExistingJobSound, RerunSound, recoverSound DEF RunStep

LEMMA NextRun ==
  ASSUME RetryTypeOK, RunInv, [RetryNext]_retryVars, Calm'
  PROVE  RunInv'
<1>1. CASE UNCHANGED retryVars
  BY <1>1, NoJobSound DEF retryVars
<1>2. CASE DeleteSchedule \/ ForeignRun
  BY <1>2, DeleteScheduleSound, ForeignRunSound
<1>3. ASSUME NEW c \in Calls, RunStep(c) \/ NoAnswer(c) \/ Unreachable(c) \/ RetryRestart(c)
      PROVE  RunInv'
  BY <1>3, StepSound, NoAnswerSound, UnreachableSound, RestartSound
<1>4. ASSUME NEW j \in JobIds, Progress(j) \/ ScriptEnds(j) \/ EndRun(j)
      PROVE  RunInv'
  BY <1>4, ProgressSound, ScriptEndsSound, EndRunSound
<1>5. ASSUME NEW j \in JobIds, NEW c \in Calls,
             executeScheduledBackup(j, c) \/ Update(j, c) \/ KillJob(j, c)
      PROVE  RunInv'
  <2>1. ~KillJob(j, c)
    BY DEF KillJob, Calm
  <2>2. executeScheduledBackup(j, c) => Quiet
    BY DEF executeScheduledBackup, Calm, RetryTypeOK, HistoryOK
  <2> QED BY <1>5, <2>1, <2>2, executeScheduledBackupSound, UpdateSound
<1> QED BY <1>1, <1>2, <1>3, <1>4, <1>5 DEF RetryNext

LEMMA RunInvariant == RetrySpec => []RetryInv
<1>1. RetryInit => RetryInv
  BY InitType, InitRun DEF RetryInv
<1>2. RetryInv /\ [RetryNext]_retryVars => RetryInv'
  <2> SUFFICES ASSUME RetryInv, [RetryNext]_retryVars PROVE RetryInv'
    OBVIOUS
  <2>1. RetryTypeOK'
    BY NextType DEF RetryInv
  <2>2. ASSUME Calm' PROVE RunInv'
    BY <2>2, CalmBefore, NextRun DEF RetryInv
  <2> QED BY <2>1, <2>2 DEF RetryInv
<1> QED BY <1>1, <1>2, PTL DEF RetrySpec

\* The agent is asked for no more runs of a job than its schedule allows,
\* however calls, timers, reports and restarts of the controller interleave,
\* as long as nobody cancelled a job, no answer of the agent about this one
\* was lost and the schedule did not fire beside what was left of the run
\* before (Undisturbed).  After a lost answer the code does ask once more:
\* the failed request and the failed run are each answered by a retry.
THEOREM RunsWithinBudget == RetrySpec => []Budget
<1>1. RetryInv => Budget
  BY DEF RetryInv, RunInv, JobOK, Numbers, Calm, Budget, Undisturbed
<1> QED BY <1>1, RunInvariant, PTL

\* The status that says a retry is to come is backed by a call or a timer.
THEOREM WaitingIsServed == RetrySpec => []RetryIsComing
<1>1. RetryInv => RetryIsComing
  <2> SUFFICES ASSUME RetryInv, schedule, restarts = 0, asked = {}, ~overlap,
                      NEW j \in JobIds, rec[j].status = "retrying"
               PROVE  Coming(j)
    BY DEF RetryIsComing
  <2>1. ComingOK(j)
    BY DEF RetryInv, RunInv, JobOK, Calm
  <2> QED BY <2>1 DEF ComingOK, Leads, Coming
<1> QED BY <1>1, RunInvariant, PTL

-----------------------------------------------------------------------------
(* A completion is never taken back *)

\* A call that moves another job saves the record of j as it is.
LEMMA SavedAsItIs ==
  ASSUME RetryTypeOK, RunInv, NEW j \in JobIds, j \notin lost, rec[j].status = "completed",
         NEW c \in Calls, calls[c].at \in Places \ {"accepted", "recover"}
  PROVE  /\ calls[c].job \in JobIds \ {j}
         /\ calls[c].at \in Holding => calls[c].snap \in Arrays /\ calls[c].snap[j] = rec[j]
         /\ rec \in Arrays
BY OfMoving DEF DoneFits

LEMMA CallKeepsCompleted ==
  ASSUME RetryTypeOK, RunInv, NEW j \in JobIds, j \notin lost, rec[j].status = "completed",
         NEW c \in Calls, RunStep(c), ~recoverBackupJobs(c)
  PROVE  rec'[j].status = "completed"
<1>1. ~KillSave(c)
  BY DEF RunInv, NoKills, KillSave, At
<1>2. CASE CheckStatus(c) \/ FailRead(c) \/ Accept(c) \/ handleScheduledBackupFailure(c)
           \/ Arm(c) \/ Defer(c) \/ TimerFires(c) \/ Due(c) \/ KillAtAgent(c)
  <2>1. rec' = rec
    BY <1>2 DEF CheckStatus, FailRead, Accept, handleScheduledBackupFailure, Arm, Defer,
                TimerFires, Due, KillAtAgent
  <2> QED BY <2>1
<1>3. CASE Answered(c)
  BY <1>3 DEF Answered, RetryTypeOK, Arrays, Record
<1>4. CASE removeJob(c) \/ FailSave(c) \/ Lapse(c) \/ retryExistingJob(c) \/ Rerun(c) \/ Busy(c)
  <2>1. calls[c].at \in {"remove", "failSave", "lapse", "retry", "rerun", "trigger"}
    BY <1>4 DEF removeJob, FailSave, Lapse, retryExistingJob, Rerun, Busy, At
  <2>2. calls[c].at \in Places \ {"accepted", "recover"}
        /\ (calls[c].at # "trigger" => calls[c].at \in Holding)
    BY <2>1 DEF Places, Holding
  <2>3. /\ calls[c].job \in JobIds \ {j} /\ rec \in Arrays
        /\ calls[c].at # "trigger" => calls[c].snap \in Arrays /\ calls[c].snap[j] = rec[j]
    BY <2>2, SavedAsItIs
  <2>4. CASE removeJob(c)
    BY <2>3, <2>4 DEF removeJob, At, Arrays
  <2>5. CASE FailSave(c)
    BY <2>3, <2>5 DEF FailSave, At, Arrays, Ended
  <2>6. CASE Lapse(c)
    BY <2>3, <2>6 DEF Lapse, At, Arrays, Ended
  <2>7. CASE retryExistingJob(c)
    BY <2>3, <2>7 DEF retryExistingJob, At, Arrays, Ended
  <2>8. CASE Rerun(c)
    BY <2>3, <2>8 DEF Rerun, At
  <2>9. CASE Busy(c)
    BY <2>3, <2>9 DEF Busy, At, Arrays
  <2> QED BY <1>4, <2>4, <2>5, <2>6, <2>7, <2>8, <2>9
<1> QED BY <1>1, <1>2, <1>3, <1>4 DEF RunStep

LEMMA ReportKeepsCompleted ==
  ASSUME RetryTypeOK, RunInv, NEW j \in JobIds, j \notin lost, rec[j].status = "completed",
         NEW i \in JobIds, NEW c \in Calls,
         executeScheduledBackup(i, c) \/ Update(i, c) \/ KillJob(i, c)
  PROVE  rec'[j].status = "completed"
<1>0. rec \in Arrays
  BY DEF RetryTypeOK
<1>1. CASE executeScheduledBackup(i, c)
  BY <1>0, <1>1 DEF executeScheduledBackup, Stored, Arrays
<1>2. CASE Update(i, c) /\ i # j
  BY <1>0, <1>2 DEF Update, Ended, Arrays
<1>3. CASE Update(i, c) /\ i = j
  <2>1. mail[j] # <<>> /\ OverOK(j)
    BY <1>3 DEF Update, RunInv, JobOK
  <2>2. mail[j] = <<"completed">>
    BY <2>1 DEF OverOK
  <2>3. Head(mail[j]) = "completed"
    BY <2>2
  <2>4. rec' = Ended(rec, j, "completed")
    BY <1>3, <2>3 DEF Update, Stored, Status
  <2> QED BY <1>0, <2>4 DEF Ended, Arrays, Record
<1>4. CASE KillJob(i, c)
  BY <1>4 DEF KillJob
<1> QED BY <1>1, <1>2, <1>3, <1>4

\* In the same histories, and but for a pass of the recovery, no call or timer
\* of a job that is still under way when it completes runs it again or shows
\* it otherwise.  The timer that a lost answer leaves behind, and the array
\* that a cancellation read too early, are outside of it: these do undo it.
THEOREM CompletionStays == RetrySpec => CompletedStays
<1> DEFINE Kept1(j) == rec[j].status = "completed" /\ Undisturbed(j)' /\ ~Recovery =>
                         rec'[j].status = "completed"
<1>1. RetryInv /\ [RetryNext]_retryVars => [\A j \in JobIds : Kept1(j)]_retryVars
  <2> SUFFICES ASSUME RetryInv, RetryNext, NEW j \in JobIds,
                      rec[j].status = "completed", Undisturbed(j)', ~Recovery
               PROVE  rec'[j].status = "completed"
    OBVIOUS
  <2>1. Calm' /\ j \notin lost'
    BY DEF Undisturbed, Calm
  <2>2. RetryTypeOK /\ RunInv
    BY <2>1, CalmBefore DEF RetryInv
  <2>3. CASE DeleteSchedule \/ ForeignRun
    BY <2>3 DEF DeleteSchedule, ForeignRun, retryControllerVars
  <2>4. ASSUME NEW c \in Calls, RunStep(c) PROVE rec'[j].status = "completed"
    <3>1. ~recoverBackupJobs(c)
      BY DEF Recovery
    <3>2. lost' = lost
      BY <2>4, <3>1 DEF RunStep, CheckStatus, removeJob, Answered, FailRead, FailSave, Accept, Busy,
             handleScheduledBackupFailure, Arm, Defer, TimerFires, Due, Lapse, retryExistingJob,
             Rerun, KillAtAgent, KillSave, historyVars
    <3> QED BY <2>1, <2>2, <2>4, <3>1, <3>2, CallKeepsCompleted
  <2>5. ASSUME NEW c \in Calls, NoAnswer(c) \/ Unreachable(c) \/ RetryRestart(c)
        PROVE  rec'[j].status = "completed"
    BY <2>5 DEF NoAnswer, Unreachable, RetryRestart
  <2>6. ASSUME NEW i \in JobIds, Progress(i) \/ ScriptEnds(i) \/ EndRun(i)
        PROVE  rec'[j].status = "completed"
    BY <2>6 DEF Progress, ScriptEnds, EndRun, retryControllerVars
  <2>7. ASSUME NEW i \in JobIds, NEW c \in Calls,
               executeScheduledBackup(i, c) \/ Update(i, c) \/ KillJob(i, c)
        PROVE  rec'[j].status = "completed"
    <3>1. lost' = lost
      BY <2>7 DEF executeScheduledBackup, Update, KillJob, historyVars
    <3> QED BY <2>1, <2>2, <2>7, <3>1, ReportKeepsCompleted
  <2> QED BY <2>3, <2>4, <2>5, <2>6, <2>7 DEF RetryNext
<1> QED BY <1>1, RunInvariant, PTL DEF RetrySpec, CompletedStays
=============================================================================
