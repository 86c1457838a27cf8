-------------------------- MODULE HostSlots_proofs --------------------------
(***************************************************************************)
(* The type invariant of HostSlots, and with it that the lock of a host is *)
(* held by one call from reading the jobs to the last of them started, for *)
(* any number of machines, jobs, calls and events, and any limit; that no  *)
(* job is sent to the agent twice (OneTicket); and that fires, drains and  *)
(* retries start no more backups than the limit allows (SlotState): the    *)
(* jobs with a slot and those on the list of a drain fit under it.         *)
(***************************************************************************)
EXTENDS HostSlots, FiniteSetTheorems, SequenceTheorems, WellFoundedInduction, TLAPS

-----------------------------------------------------------------------------
(* Records *)

LEMMA NewType ==
  ASSUME NEW status \in Statuses, NEW m \in Machines \cup {NoMachine}
  PROVE  New(status, m) \in Record
BY DEF New, Record

LEMMA NoRecordType == NoRecord \in Record
BY DEF NoRecord, Record, Statuses

LEMMA StoreType ==
  ASSUME NEW array \in Arrays, NEW j, NEW r \in Record
  PROVE  [array EXCEPT ![j] = r] \in Arrays
BY DEF Arrays

LEMMA EndedType ==
  ASSUME NEW array \in Arrays, NEW j, NEW status \in Statuses
  PROVE  Ended(array, j, status) \in Arrays
BY DEF Ended, Arrays, Record

LEMMA OfRecord ==
  ASSUME NEW array \in Arrays, NEW j \in Jobs
  PROVE  /\ array[j] \in Record /\ array[j].status \in Statuses
         /\ array[j].machine \in Machines \cup {NoMachine} /\ array[j].old \in BOOLEAN
BY DEF Arrays, Record

LEMMA StatusesHave == Active \subseteq Statuses /\ {"none", "skipped", "completed", "failed"} \subseteq Statuses
BY DEF Statuses, Active

\* The bound leaves an id for the next job.
LEMMA IdsLeftBound ==
  ASSUME next \in 1 .. MaxJobs + 1, NEW n \in {1, 2}, IdsLeft(n)
  PROVE  next \in Jobs /\ next + 1 \in 1 .. MaxJobs + 1
<1> DEFINE S == {j \in Jobs : rec[j].status = "skipped"}
<1>1. IsFiniteSet(Jobs)
  BY BoundsAssumption, FS_Interval DEF Jobs
<1>2. IsFiniteSet(S)
  BY <1>1, FS_Subset
<1>3. Cardinality(S) \in Nat
  BY <1>2, FS_CardinalityType
<1>4. next + n - 1 + Cardinality(S) <= MaxJobs
  BY DEF IdsLeft
<1> HIDE DEF S
<1> QED BY <1>3, <1>4, BoundsAssumption DEF Jobs

-----------------------------------------------------------------------------
(* Calls *)

LEMMA CallIsTyped ==
  ASSUME NEW at \in Places,
         NEW kind \in Kinds, NEW j \in Jobs \cup {NoJob}, NEW m \in Machines \cup {NoMachine},
         NEW todo \in SUBSET Jobs, NEW known \in SUBSET Machines, NEW array \in Arrays \cup {<<>>}
  PROVE  [at |-> at, kind |-> kind, job |-> j, machine |-> m, todo |-> todo, known |-> known,
          array |-> array] \in CallType
BY DEF CallType

LEMMA IdleIsTyped == Idle \in CallType /\ WellFormed(Idle) /\ ~Deciding(Idle)
BY DEF Idle, CallType, Places, Kinds, WellFormed, Deciding, Draining

LEMMA DrainIsTyped ==
  /\ Call("drain", "drain") \in CallType /\ WellFormed(Call("drain", "drain"))
  /\ ~Deciding(Call("drain", "drain"))
BY DEF Call, Idle, CallType, Places, Kinds, WellFormed, Deciding, Draining

LEMMA OfCall ==
  ASSUME CallsOK, NEW c \in Calls
  PROVE  calls[c] \in CallType /\ WellFormed(calls[c]) /\ (Deciding(calls[c]) => HasLock(c))
BY DEF CallsOK

\* The places of a call that has a job.
LEMMA HasJob ==
  ASSUME CallsOK, NEW c \in Calls, calls[c].at \notin {"idle", "drain", "next", "sync", "sweep"}
  PROVE  calls[c].job \in Jobs /\ calls[c].machine \in Machines \cup {NoMachine}
BY DEF CallsOK, WellFormed, CallType

LEMMA OfDrain ==
  ASSUME CallsOK, NEW c \in Calls, calls[c].kind = "drain", calls[c].at # "drain"
  PROVE  Draining(calls[c]) /\ HasLock(c) /\ calls[c].array \in Arrays
BY DEF CallsOK, WellFormed, Deciding

-----------------------------------------------------------------------------
(* Changing one call, and the lock *)

LEMMA BecomeOK ==
  ASSUME CallsOK, NEW c \in Calls, NEW call \in CallType, WellFormed(call), Become(c, call),
         chain' \in Seq(Calls), Deciding(call) => HasLock(c)',
         \A d \in Calls : d # c /\ HasLock(d) /\ Deciding(calls[d]) => HasLock(d)'
  PROVE  CallsOK'
<1>1. calls' \in [Calls -> CallType] /\ \A d \in Calls : calls'[d] = IF d = c THEN call ELSE calls[d]
  BY DEF CallsOK, Become
<1>2. \A d \in Calls : WellFormed(calls'[d])
  BY <1>1 DEF CallsOK
<1>3. \A d \in Calls : WellFormed(calls[d])'
  BY <1>2 DEF WellFormed, Draining
<1>4. ASSUME NEW d \in Calls, Deciding(calls'[d])
      PROVE  HasLock(d)'
  <2>1. CASE d = c
    BY <1>1, <1>4, <2>1
  <2>2. CASE d # c
    BY <1>1, <1>4, <2>2 DEF CallsOK
  <2> QED BY <2>1, <2>2
<1>5. \A d \in Calls : Deciding(calls[d])' => HasLock(d)'
  BY <1>4 DEF Deciding, Draining
<1> QED BY <1>1, <1>3, <1>5 DEF CallsOK

LEMMA KeepOK ==
  ASSUME CallsOK, NEW c \in Calls, NEW call \in CallType, WellFormed(call), Become(c, call),
         chain' = chain, Deciding(call) => HasLock(c)
  PROVE  CallsOK'
<1>1. chain' \in Seq(Calls) /\ \A d \in Calls : HasLock(d) => HasLock(d)'
  BY DEF CallsOK, HasLock
<1>2. Deciding(call) => HasLock(c)'
  BY DEF HasLock
<1> QED BY <1>1, <1>2, BecomeOK

LEMMA AskOK ==
  ASSUME CallsOK, NEW c \in Calls, NEW call \in CallType, WellFormed(call), Become(c, call),
         chain' = Append(chain, c), ~Deciding(call)
  PROVE  CallsOK'
<1>1. chain \in Seq(Calls)
  BY DEF CallsOK
<1>2. chain' \in Seq(Calls) /\ \A d \in Calls : HasLock(d) => HasLock(d)'
  BY <1>1 DEF HasLock
<1> QED BY <1>2, BecomeOK

LEMMA GiveOK ==
  ASSUME CallsOK, NEW c \in Calls, NEW call \in CallType, WellFormed(call), Become(c, call),
         HasLock(c), ~Deciding(call), chain' \in {Tail(chain), Append(Tail(chain), c)}
  PROVE  CallsOK'
<1>1. chain \in Seq(Calls) /\ chain # <<>>
  BY DEF CallsOK, HasLock
<1>2. Tail(chain) \in Seq(Calls)
  BY <1>1
<1>3. chain' \in Seq(Calls)
  BY <1>2
<1>4. \A d \in Calls : d # c => ~HasLock(d)
  BY DEF HasLock
<1> QED BY <1>3, <1>4, BecomeOK

LEMMA SameCalls == CallsOK /\ UNCHANGED <<calls, chain>> => CallsOK'
<1> SUFFICES ASSUME CallsOK, UNCHANGED <<calls, chain>> PROVE CallsOK'
  OBVIOUS
<1>1. \A c \in Calls : WellFormed(calls[c])'
  BY DEF CallsOK, WellFormed, Draining
<1>2. \A c \in Calls : Deciding(calls[c])' => HasLock(c)'
  BY DEF CallsOK, Deciding, Draining, HasLock
<1> QED BY <1>1, <1>2 DEF CallsOK

-----------------------------------------------------------------------------
(* What a step leaves alone *)

AgentOK ==
  /\ run \in [Machines -> Jobs \cup {NoJob}]
  /\ mail \in [Jobs -> {"none", "completed", "failed"}] /\ runs \in [Jobs -> Nat]

HistoryOK ==
  /\ slotted \subseteq Jobs /\ lost \subseteq Jobs /\ stale \in BOOLEAN
  /\ used \in 0 .. MaxEvents

RecordsOK ==
  /\ rec \in Arrays /\ next \in 1 .. MaxJobs + 1 /\ online \in BOOLEAN
  /\ schedules \subseteq Machines

LEMMA Parts == TypeOK <=> RecordsOK /\ CallsOK /\ AgentOK /\ HistoryOK
BY DEF TypeOK, RecordsOK, AgentOK, HistoryOK

LEMMA PartsNext == RecordsOK' /\ CallsOK' /\ AgentOK' /\ HistoryOK' => TypeOK'
BY DEF TypeOK, RecordsOK, AgentOK, HistoryOK

LEMMA SameRecords == RecordsOK /\ UNCHANGED recordVars => RecordsOK'
BY DEF RecordsOK, recordVars

\* Most steps change the records only, if anything but their call.
LEMMA NewRecords ==
  ASSUME RecordsOK, rec' \in Arrays, UNCHANGED <<next, online, schedules>>
  PROVE  RecordsOK'
BY DEF RecordsOK

LEMMA SameAgent == AgentOK /\ UNCHANGED agentVars => AgentOK'
BY DEF AgentOK, agentVars

LEMMA SameHistory == HistoryOK /\ UNCHANGED historyVars => HistoryOK'
BY DEF HistoryOK, historyVars

LEMMA HappensOK ==
  ASSUME HistoryOK, NEW event, Happens(event)
  PROVE  used' \in 0 .. MaxEvents
BY BoundsAssumption DEF HistoryOK, Happens

\* A call that only moves on, the lock with whoever has it.
LEMMA GoOK ==
  ASSUME CallsOK, NEW c \in Calls, NEW place \in Places, Go(c, place), chain' = chain,
         calls[c].at \notin {"idle", "drain", "next", "sync", "sweep"},
         place # "claim",
         calls[c].kind # "drain" \/ place \in {"next", "trigger", "accepted", "failed"}
  PROVE  CallsOK'
<1> DEFINE call == [calls[c] EXCEPT !.at = place]
<1>1. calls[c] \in CallType /\ calls[c].job \in Jobs
  BY OfCall, HasJob
<1>2. /\ call \in CallType /\ call.at = place /\ call.kind = calls[c].kind
      /\ call.job = calls[c].job /\ call.array = calls[c].array
  BY <1>1 DEF CallType
<1>3. Become(c, call)
  BY DEF Go
<1> HIDE DEF call
<1>4. CASE calls[c].kind = "drain"
  <2>1. HasLock(c) /\ calls[c].array \in Arrays
    BY <1>4, OfDrain
  <2>2. WellFormed(call)
    BY <1>1, <1>2, <1>4, <2>1 DEF WellFormed, Draining
  <2> QED BY <1>2, <1>3, <2>1, <2>2, KeepOK
<1>5. CASE calls[c].kind # "drain"
  <2>1. WellFormed(call) /\ ~Deciding(call)
    BY <1>1, <1>2, <1>5 DEF WellFormed, Deciding, Draining
  <2> QED BY <1>2, <1>3, <2>1, KeepOK
<1> QED BY <1>4, <1>5

-----------------------------------------------------------------------------
(* Reading the array of jobs, editing and saving it *)

LEMMA EditedType ==
  ASSUME NEW call \in CallType, call.at \in Edits, call.array \in Arrays
  PROVE  Edited(call) \in Arrays
<1> DEFINE j == call.job
           array == call.array
<1>1. call.machine \in Machines \cup {NoMachine} /\ call.todo \subseteq Jobs
  BY DEF CallType
<1>2. New("queued", call.machine) \in Record /\ New("failed", call.machine) \in Record
  BY <1>1, NewType DEF Statuses, Active
<1>3. CASE call.at \in {"push", "claim"}
  <2>1. Edited(call) \in {array, [array EXCEPT ![j] = New("queued", call.machine)]}
    BY <1>3 DEF Edited
  <2>2. [array EXCEPT ![j] = New("queued", call.machine)] \in Arrays
    BY <1>2, StoreType
  <2> QED BY <2>1, <2>2
<1>4. CASE call.at = "retire"
  <2>1. Edited(call) = [k \in Jobs |-> IF k \in call.todo THEN NoRecord ELSE array[k]]
    BY <1>4 DEF Edited
  <2>2. \A k \in Jobs : array[k] \in Record
    BY OfRecord
  <2> QED BY <2>1, <2>2, NoRecordType DEF Arrays
<1>5. CASE call.at = "mark"
  <2>1. Edited(call) \in {array, Ended(array, j, "running")}
    BY <1>5 DEF Edited
  <2> QED BY <2>1, EndedType DEF Statuses, Active
<1>6. CASE call.at = "siblings"
  <2>1. Edited(call) =
          [k \in Jobs |-> IF k # j /\ array[k].status = "skipped" /\ array[k].machine = call.machine
                          THEN [array[k] EXCEPT !.status = "failed"] ELSE array[k]]
    BY <1>6 DEF Edited
  <2>2. \A k \in Jobs : array[k] \in Record /\ [array[k] EXCEPT !.status = "failed"] \in Record
    BY OfRecord DEF Record, Statuses
  <2> QED BY <2>1, <2>2 DEF Arrays
<1>7. CASE call.at \in {"drop", "remove"}
  <2>1. Edited(call) = [array EXCEPT ![j] = NoRecord]
    BY <1>7 DEF Edited
  <2>2. [array EXCEPT ![j] = NoRecord] \in Arrays
    BY NoRecordType, StoreType
  <2> QED BY <2>1, <2>2
<1>8. CASE call.at = "fail"
  <2> DEFINE r == [New("failed", call.machine) EXCEPT !.old = array[j].old]
  <2>1. Edited(call) \in {array, [array EXCEPT ![j] = r]}
    BY <1>8 DEF Edited
  <2>2. CASE j \in Jobs
    <3>1. array[j].old \in BOOLEAN
      BY <2>2, OfRecord
    <3>2. r \in Record
      BY <1>2, <3>1 DEF Record
    <3>3. [array EXCEPT ![j] = r] \in Arrays
      BY <3>2, StoreType
    <3> QED BY <2>1, <3>3
  <2>3. CASE j \notin Jobs
    BY <2>1, <2>3 DEF Arrays
  <2> QED BY <2>2, <2>3
<1>9. CASE call.at = "sweep"
  <2>1. Edited(call) =
          [k \in Jobs |-> IF k \in Stuck(array) THEN [array[k] EXCEPT !.status = "failed"] ELSE array[k]]
    BY <1>9 DEF Edited
  <2>2. \A k \in Jobs : array[k] \in Record /\ [array[k] EXCEPT !.status = "failed"] \in Record
    BY OfRecord DEF Record, Statuses
  <2> QED BY <2>1, <2>2 DEF Arrays
<1> QED BY <1>3, <1>4, <1>5, <1>6, <1>7, <1>8, <1>9 DEF Edits

LEMMA ResumedOK ==
  ASSUME NEW call \in CallType, WellFormed(call), call.at \in Edits
  PROVE  Resumed(call) \in CallType /\ WellFormed(Resumed(call)) /\ ~Deciding(Resumed(call))
<1> DEFINE saved == [call EXCEPT !.array = <<>>]
           moved(place) == [saved EXCEPT !.at = place]
           cleared == [saved EXCEPT !.at = "siblings", !.todo = {}]
<1>1. call.kind # "drain"
  BY DEF WellFormed, Draining, Edits
<1>2. CASE call.at = "sweep"
  <2>1. Resumed(call) = Call("drain", "drain")
    BY <1>2 DEF Resumed
  <2> QED BY <2>1, DrainIsTyped
<1>3. CASE call.at # "sweep"
  <2>1. call.job \in Jobs
    BY <1>3 DEF WellFormed, Edits
  <2>2. Resumed(call) \in {Idle, cleared} \cup {moved(p) : p \in {"trigger", "siblings", "next", "retire"}}
    BY <1>3 DEF Resumed, Edits
  <2>3. ASSUME NEW p \in {"trigger", "siblings", "next", "retire"}
        PROVE  moved(p) \in CallType /\ WellFormed(moved(p)) /\ ~Deciding(moved(p))
    <3>1. moved(p) \in CallType
      BY DEF CallType, Places, Edits
    <3>2. moved(p).at = p /\ moved(p).kind = call.kind /\ moved(p).job = call.job
      BY DEF CallType
    <3> HIDE DEF moved
    <3> QED BY <1>1, <2>1, <3>1, <3>2 DEF WellFormed, Deciding, Draining
  <2>4. cleared \in CallType /\ WellFormed(cleared) /\ ~Deciding(cleared)
    <3>1. cleared \in CallType
      BY DEF CallType, Places, Edits
    <3>2. cleared.at = "siblings" /\ cleared.kind = call.kind /\ cleared.job = call.job
      BY DEF CallType
    <3> HIDE DEF cleared
    <3> QED BY <1>1, <2>1, <3>1, <3>2 DEF WellFormed, Deciding, Draining
  <2> HIDE DEF moved, cleared
  <2> QED BY <2>2, <2>3, <2>4, IdleIsTyped
<1> QED BY <1>2, <1>3

\* After its save, or with nothing to save, a call goes on without deciding.
LEMMA ResumeOK ==
  ASSUME CallsOK, NEW c \in Calls, NEW call \in CallType, WellFormed(call),
         call.at \in Edits, call.at = calls[c].at, At(c, "claim") => HasLock(c),
         Become(c, Resumed(call)), chain' = Chained(c)
  PROVE  CallsOK'
<1>1. Resumed(call) \in CallType /\ WellFormed(Resumed(call)) /\ ~Deciding(Resumed(call))
  BY ResumedOK
<1>2. CASE At(c, "sweep")
  <2>1. chain' = Append(chain, c)
    BY <1>2 DEF Chained, At
  <2> QED BY <1>1, <2>1, AskOK
<1>3. CASE At(c, "claim")
  <2>1. chain' = Tail(chain)
    BY <1>3 DEF Chained, At
  <2> QED BY <1>1, <1>3, <2>1, GiveOK
<1>4. CASE ~At(c, "sweep") /\ ~At(c, "claim")
  <2>1. chain' = chain
    BY <1>4 DEF Chained
  <2> QED BY <1>1, <2>1, KeepOK
<1> QED BY <1>2, <1>3, <1>4

LEMMA ReadJobsType ==
  ASSUME TypeOK, NEW c \in Calls, ReadJobs(c)
  PROVE  TypeOK'
<1> DEFINE read == [calls[c] EXCEPT !.array = rec]
<1>a. CallsOK /\ rec \in Arrays /\ calls[c].at \in Edits /\ (At(c, "claim") => HasLock(c))
  BY DEF TypeOK, ReadJobs
<1>h. RecordsOK' /\ AgentOK' /\ HistoryOK'
  BY Parts, SameRecords, SameAgent, SameHistory DEF ReadJobs
<1>1. calls[c] \in CallType /\ WellFormed(calls[c])
  BY <1>a, OfCall
<1>2. /\ read \in CallType /\ read.at = calls[c].at /\ read.kind = calls[c].kind
      /\ read.job = calls[c].job
  BY <1>1, <1>a DEF CallType
<1>3. calls[c].kind # "drain"
  BY <1>1, <1>a DEF WellFormed, Draining, Edits
<1>4. WellFormed(read) /\ (Deciding(read) => HasLock(c))
  BY <1>1, <1>2, <1>3, <1>a DEF WellFormed, Deciding, Draining, At
<1>5. \/ Become(c, Resumed(read)) /\ chain' = Chained(c)
      \/ Become(c, read) /\ chain' = chain
  BY DEF ReadJobs
<1> HIDE DEF read
<1>c. CallsOK'
  <2>1. CASE Become(c, Resumed(read)) /\ chain' = Chained(c)
    BY <1>a, <1>2, <1>4, <2>1, ResumeOK
  <2>2. CASE Become(c, read) /\ chain' = chain
    BY <1>a, <1>2, <1>4, <2>2, KeepOK
  <2> QED BY <1>5, <2>1, <2>2
<1> QED BY <1>h, <1>c, PartsNext

LEMMA SaveJobsType ==
  ASSUME TypeOK, NEW c \in Calls, SaveJobs(c)
  PROVE  TypeOK'
<1>a. CallsOK /\ RecordsOK /\ HistoryOK /\ calls[c].at \in Edits /\ calls[c].array # <<>>
  BY Parts DEF SaveJobs
<1>1. calls[c] \in CallType /\ WellFormed(calls[c]) /\ (Deciding(calls[c]) => HasLock(c))
  BY <1>a, OfCall
<1>2. calls[c].array \in Arrays
  BY <1>a, <1>1 DEF CallType
<1>3. At(c, "claim") => HasLock(c)
  BY <1>a, <1>1 DEF Deciding, At
<1>r. RecordsOK'
  <2>1. rec' \in Arrays
    BY <1>a, <1>1, <1>2, EditedType DEF SaveJobs
  <2> QED BY <1>a, <2>1, NewRecords DEF SaveJobs
<1>g. AgentOK'
  BY Parts, SameAgent DEF SaveJobs
<1>h. HistoryOK'
  <2>1. slotted' \subseteq Jobs
    <3>1. CASE At(c, "claim")
      <4>1. calls[c].job \in Jobs
        BY <1>1, <3>1 DEF WellFormed, At
      <4> QED BY <1>a, <3>1, <4>1 DEF SaveJobs, HistoryOK
    <3>2. CASE ~At(c, "claim")
      BY <1>a, <3>2 DEF SaveJobs, HistoryOK
    <3> QED BY <3>1, <3>2
  <2>2. stale' \in BOOLEAN
    BY DEF SaveJobs
  <2> QED BY <1>a, <2>1, <2>2 DEF SaveJobs, HistoryOK
<1>c. CallsOK'
  BY <1>a, <1>1, <1>3, ResumeOK DEF SaveJobs
<1> QED BY <1>r, <1>g, <1>h, <1>c, PartsNext

-----------------------------------------------------------------------------
(* A fire, and the request to the agent *)

LEMMA executeScheduledBackupType ==
  ASSUME TypeOK, NEW m \in Machines, NEW c \in Calls, executeScheduledBackup(m, c)
  PROVE  TypeOK'
<1>a. CallsOK /\ RecordsOK
  BY Parts
<1>g. AgentOK' /\ HistoryOK'
  BY Parts, SameAgent, SameHistory DEF executeScheduledBackup
<1>1. next \in Jobs /\ next + 1 \in 1 .. MaxJobs + 1
  <2>1. IdsLeft(1) \/ IdsLeft(2)
    BY DEF executeScheduledBackup
  <2>2. next \in 1 .. MaxJobs + 1
    BY <1>a DEF RecordsOK
  <2>3. CASE IdsLeft(1)
    BY <2>2, <2>3, IdsLeftBound
  <2>4. CASE IdsLeft(2)
    BY <2>2, <2>4, IdsLeftBound
  <2> QED BY <2>1, <2>3, <2>4
<1>r. RecordsOK'
  <2>1. rec' \in Arrays
    <3>1. CASE online
      BY <1>a, <3>1 DEF executeScheduledBackup, RecordsOK
    <3>2. CASE ~online
      <4>1. New("skipped", m) \in Record
        BY NewType DEF Statuses
      <4>2. [rec EXCEPT ![next] = New("skipped", m)] \in Arrays
        BY <1>a, <4>1, StoreType DEF RecordsOK
      <4> QED BY <3>2, <4>2 DEF executeScheduledBackup
    <3> QED BY <3>1, <3>2
  <2> QED BY <1>a, <1>1, <2>1 DEF executeScheduledBackup, RecordsOK
<1>c. CallsOK'
  <2>1. CASE online
    <3> DEFINE call == [Call("slot", "fire") EXCEPT !.job = next, !.machine = m]
    <3>1. /\ call \in CallType /\ call.at = "slot" /\ call.kind = "fire" /\ call.job = next
      BY <1>1 DEF Call, Idle, CallType, Places, Kinds
    <3>2. Become(c, call) /\ chain' = Append(chain, c)
      BY <2>1 DEF executeScheduledBackup, Lock
    <3> HIDE DEF call
    <3>3. WellFormed(call) /\ ~Deciding(call)
      BY <1>1, <3>1 DEF WellFormed, Deciding, Draining
    <3> QED BY <1>a, <3>1, <3>2, <3>3, AskOK
  <2>2. CASE ~online
    BY <1>a, <2>2, SameCalls DEF executeScheduledBackup
  <2> QED BY <2>1, <2>2
<1> QED BY <1>r, <1>g, <1>c, PartsNext

LEMMA ReserveType ==
  ASSUME TypeOK, NEW c \in Calls, Reserve(c)
  PROVE  TypeOK'
<1> DEFINE j == calls[c].job
           m == calls[c].machine
<1>a. CallsOK /\ RecordsOK /\ HistoryOK /\ calls[c].at = "slot" /\ HasLock(c)
  BY Parts DEF Reserve, At
<1>g. AgentOK'
  BY Parts, SameAgent DEF Reserve
<1>1. j \in Jobs /\ m \in Machines \cup {NoMachine}
  BY <1>a, HasJob
<1>2. calls[c] \in CallType /\ WellFormed(calls[c])
  BY <1>a, OfCall
<1>3. New("waiting", m) \in Record /\ New("running", m) \in Record
  BY <1>1, NewType DEF Statuses, Active
<1>s. UNCHANGED <<next, online, schedules, stale, lost, used>>
  BY DEF Reserve
<1>4. CASE Become(c, Idle) /\ chain' = Tail(chain) /\ UNCHANGED <<rec, slotted>>
  <2>1. CallsOK'
    BY <1>a, <1>4, GiveOK, IdleIsTyped
  <2>2. RecordsOK' /\ HistoryOK'
    BY <1>a, <1>s, <1>4 DEF RecordsOK, HistoryOK
  <2> QED BY <2>1, <2>2, <1>g, PartsNext
<1>5. CASE /\ rec' = [rec EXCEPT ![j] = New("waiting", m)]
           /\ Become(c, Call("drain", "drain")) /\ chain' = Append(Tail(chain), c)
           /\ UNCHANGED slotted
  <2>1. CallsOK'
    BY <1>a, <1>5, GiveOK, DrainIsTyped
  <2>2. [rec EXCEPT ![j] = New("waiting", m)] \in Arrays
    BY <1>a, <1>3, StoreType DEF RecordsOK
  <2>3. RecordsOK'
    BY <1>a, <1>s, <1>5, <2>2, NewRecords
  <2>4. HistoryOK'
    BY <1>a, <1>s, <1>5 DEF HistoryOK
  <2> QED BY <2>1, <2>3, <2>4, <1>g, PartsNext
<1>6. CASE /\ rec' = [rec EXCEPT ![j] = New("running", m)]
           /\ Go(c, "check") /\ chain' = Tail(chain) /\ slotted' = slotted \cup {j}
  <2> DEFINE call == [calls[c] EXCEPT !.at = "check"]
  <2>1. CallsOK'
    <3>1. calls[c].kind # "drain"
      BY <1>a, <1>2 DEF WellFormed, Draining
    <3>2. call \in CallType /\ call.at = "check" /\ call.kind = calls[c].kind /\ call.job = j
      BY <1>2 DEF CallType, Places
    <3>3. Become(c, call)
      BY <1>6 DEF Go
    <3> HIDE DEF call
    <3>4. WellFormed(call) /\ ~Deciding(call)
      BY <1>1, <3>1, <3>2 DEF WellFormed, Deciding, Draining
    <3> QED BY <1>a, <1>6, <3>2, <3>3, <3>4, GiveOK
  <2>2. [rec EXCEPT ![j] = New("running", m)] \in Arrays
    BY <1>a, <1>3, StoreType DEF RecordsOK
  <2>3. RecordsOK'
    BY <1>a, <1>s, <1>6, <2>2, NewRecords
  <2>4. HistoryOK'
    BY <1>a, <1>s, <1>6, <1>1 DEF HistoryOK
  <2> QED BY <2>1, <2>3, <2>4, <1>g, PartsNext
<1> QED BY <1>4, <1>5, <1>6 DEF Reserve

LEMMA CheckStatusType ==
  ASSUME TypeOK, NEW c \in Calls, CheckStatus(c)
  PROVE  TypeOK'
<1>a. CallsOK /\ calls[c].at = "check" /\ chain' = chain
  BY Parts DEF CheckStatus, At
<1>h. RecordsOK' /\ AgentOK' /\ HistoryOK'
  BY Parts, SameRecords, SameAgent, SameHistory DEF CheckStatus
<1>1. calls[c].kind # "drain"
  BY <1>a, OfCall DEF WellFormed, Draining
<1>2. CASE Go(c, "remove")
  BY <1>a, <1>h, <1>1, <1>2, GoOK, PartsNext DEF Places, Edits
<1>3. CASE Go(c, "trigger")
  BY <1>a, <1>h, <1>1, <1>3, GoOK, PartsNext DEF Places
<1> QED BY <1>2, <1>3 DEF CheckStatus

LEMMA AcceptType ==
  ASSUME TypeOK, NEW c \in Calls, Accept(c)
  PROVE  TypeOK'
<1>a. CallsOK /\ AgentOK /\ calls[c].at = "trigger" /\ chain' = chain /\ Go(c, "accepted")
  BY Parts DEF Accept, At
<1>h. RecordsOK' /\ HistoryOK'
  BY Parts, SameRecords, SameHistory DEF Accept
<1>1. calls[c].job \in Jobs
  BY <1>a, HasJob
<1>g. AgentOK'
  <2>1. run' \in [Machines -> Jobs \cup {NoJob}]
    BY <1>a, <1>1 DEF Accept, AgentOK
  <2>2. runs' \in [Jobs -> Nat]
    BY <1>a, <1>1 DEF Accept, AgentOK
  <2> QED BY <1>a, <2>1, <2>2 DEF Accept, AgentOK
<1>c. CallsOK'
  BY <1>a, GoOK DEF Places
<1> QED BY <1>h, <1>g, <1>c, PartsNext

LEMMA AnsweredType ==
  ASSUME TypeOK, NEW c \in Calls, Answered(c)
  PROVE  TypeOK'
<1>a. CallsOK /\ calls[c].at = "accepted" /\ chain' = chain
  BY Parts DEF Answered, At
<1>h. RecordsOK' /\ AgentOK' /\ HistoryOK'
  BY Parts, SameRecords, SameAgent, SameHistory DEF Answered
<1>1. CASE calls[c].kind = "fire"
  BY <1>a, <1>h, <1>1, IdleIsTyped, KeepOK, PartsNext DEF Answered
<1>2. CASE calls[c].kind = "drain"
  <2>1. Go(c, "next")
    BY <1>2 DEF Answered, Go
  <2> QED BY <1>a, <1>h, <1>2, <2>1, GoOK, PartsNext DEF Places
<1>3. CASE calls[c].kind \notin {"fire", "drain"}
  <2>1. Go(c, "mark")
    BY <1>3 DEF Answered, Go
  <2> QED BY <1>a, <1>h, <1>3, <2>1, GoOK, PartsNext DEF Places, Edits
<1> QED BY <1>1, <1>2, <1>3

LEMMA RefuseType ==
  ASSUME TypeOK, NEW c \in Calls, Refuse(c)
  PROVE  TypeOK'
<1>a. CallsOK /\ calls[c].at = "trigger" /\ chain' = chain
  BY Parts DEF Refuse, At
<1>h. RecordsOK' /\ AgentOK' /\ HistoryOK'
  BY Parts, SameRecords, SameAgent, SameHistory DEF Refuse
<1>1. CASE calls[c].kind \in {"retry", "again"}
  <2> DEFINE call == [calls[c] EXCEPT !.at = "drop", !.todo = {}]
  <2>1. calls[c] \in CallType /\ calls[c].job \in Jobs
    BY <1>a, OfCall, HasJob
  <2>2. call \in CallType /\ call.at = "drop" /\ call.kind = calls[c].kind /\ call.job = calls[c].job
    BY <2>1 DEF CallType, Places, Edits
  <2>3. Become(c, call)
    BY <1>1 DEF Refuse
  <2> HIDE DEF call
  <2>4. WellFormed(call) /\ ~Deciding(call)
    BY <1>1, <2>1, <2>2 DEF WellFormed, Deciding, Draining
  <2> QED BY <1>a, <1>h, <2>2, <2>3, <2>4, KeepOK, PartsNext
<1>2. CASE calls[c].kind \notin {"retry", "again"}
  <2>1. Go(c, "failed")
    BY <1>2 DEF Refuse, Go
  <2> QED BY <1>a, <1>h, <2>1, GoOK, PartsNext DEF Places
<1> QED BY <1>1, <1>2

LEMMA UnreachableType ==
  ASSUME TypeOK, NEW c \in Calls, Unreachable(c)
  PROVE  TypeOK'
<1>a. CallsOK /\ HistoryOK /\ calls[c].at = "trigger" /\ chain' = chain /\ Go(c, "failed")
  BY Parts DEF Unreachable, At
<1>h. RecordsOK' /\ AgentOK'
  BY Parts, SameRecords, SameAgent DEF Unreachable
<1>1. used' \in 0 .. MaxEvents
  BY <1>a, HappensOK DEF Unreachable
<1>2. HistoryOK'
  BY <1>a, <1>1 DEF Unreachable, HistoryOK
<1>c. CallsOK'
  BY <1>a, GoOK DEF Places
<1> QED BY <1>h, <1>2, <1>c, PartsNext

LEMMA UnansweredType ==
  ASSUME TypeOK, NEW c \in Calls, Unanswered(c)
  PROVE  TypeOK'
<1>a. CallsOK /\ HistoryOK /\ calls[c].at = "accepted" /\ chain' = chain /\ Go(c, "failed")
  BY Parts DEF Unanswered, At
<1>h. RecordsOK' /\ AgentOK'
  BY Parts, SameRecords, SameAgent DEF Unanswered
<1>1. used' \in 0 .. MaxEvents
  BY <1>a, HappensOK DEF Unanswered
<1>2. calls[c].job \in Jobs
  BY <1>a, HasJob
<1>3. HistoryOK'
  BY <1>a, <1>1, <1>2 DEF Unanswered, HistoryOK
<1>c. CallsOK'
  BY <1>a, GoOK DEF Places
<1> QED BY <1>h, <1>3, <1>c, PartsNext

LEMMA FailedType ==
  ASSUME TypeOK, NEW c \in Calls, Failed(c)
  PROVE  TypeOK'
<1>a. CallsOK /\ RecordsOK /\ calls[c].at = "failed" /\ chain' = chain
  BY Parts DEF Failed, At
<1>g. AgentOK' /\ HistoryOK'
  BY Parts, SameAgent, SameHistory DEF Failed
<1>1. calls[c] \in CallType /\ calls[c].job \in Jobs
  BY <1>a, OfCall, HasJob
<1>r. RecordsOK'
  <2>1. Ended(rec, calls[c].job, "failed") \in Arrays
    BY <1>a, EndedType DEF RecordsOK, Statuses
  <2>2. rec' \in {rec, Ended(rec, calls[c].job, "failed")}
    BY DEF Failed
  <2>3. rec' \in Arrays
    BY <1>a, <2>1, <2>2 DEF RecordsOK
  <2> QED BY <1>a, <2>3, NewRecords DEF Failed
<1>2. CASE calls[c].kind = "drain"
  <2> DEFINE array == Ended(calls[c].array, calls[c].job, "failed")
             call == [calls[c] EXCEPT !.at = "next", !.array = array]
  <2>1. HasLock(c) /\ calls[c].array \in Arrays
    BY <1>a, <1>2, OfDrain
  <2>2. array \in Arrays
    BY <2>1, EndedType DEF Statuses
  <2>3. Become(c, call)
    BY <1>2 DEF Failed
  <2> HIDE DEF array
  <2>4. call \in CallType /\ call.at = "next" /\ call.kind = "drain" /\ call.array = array
    BY <1>1, <1>2, <2>2 DEF CallType, Places
  <2> HIDE DEF call
  <2>5. WellFormed(call)
    BY <2>2, <2>4 DEF WellFormed, Draining
  <2> QED BY <1>a, <1>r, <1>g, <2>1, <2>3, <2>4, <2>5, KeepOK, PartsNext
<1>3. CASE calls[c].kind = "retry"
  <2> DEFINE call == [calls[c] EXCEPT !.at = "next"]
  <2>1. Become(c, [calls[c] EXCEPT !.at = "next", !.array = calls[c].array])
    BY <1>3 DEF Failed
  <2>2. [calls[c] EXCEPT !.at = "next", !.array = calls[c].array] = call
    BY <1>1 DEF CallType
  <2>3. Go(c, "next")
    BY <2>1, <2>2 DEF Go
  <2> QED BY <1>a, <1>r, <1>g, <1>3, <2>3, GoOK, PartsNext DEF Places
<1>4. CASE calls[c].kind \notin {"drain", "retry"}
  <2>1. Go(c, "fail")
    BY <1>4 DEF Failed
  <2> QED BY <1>a, <1>r, <1>g, <1>4, <2>1, GoOK, PartsNext DEF Places, Edits
<1> QED BY <1>2, <1>3, <1>4

-----------------------------------------------------------------------------
(* The drain *)

LEMMA releaseConcurrentSlotsOnHostType ==
  ASSUME TypeOK, NEW c \in Calls, releaseConcurrentSlotsOnHost(c)
  PROVE  TypeOK'
<1>a. CallsOK /\ RecordsOK /\ HasLock(c)
  BY Parts DEF releaseConcurrentSlotsOnHost
<1>h. RecordsOK' /\ AgentOK' /\ HistoryOK'
  BY Parts, SameRecords, SameAgent, SameHistory DEF releaseConcurrentSlotsOnHost
<1>1. CASE Become(c, Idle) /\ chain' = Tail(chain)
  BY <1>a, <1>h, <1>1, GiveOK, IdleIsTyped, PartsNext
<1>2. CASE /\ Become(c, [Call("next", "drain") EXCEPT
                          !.todo = Startable(rec), !.known = schedules, !.array = rec])
           /\ UNCHANGED chain
  <2> DEFINE call == [Call("next", "drain") EXCEPT
                        !.todo = Startable(rec), !.known = schedules, !.array = rec]
  <2>1. Startable(rec) \subseteq Jobs
    BY DEF Startable, Waiting
  <2>2. /\ call \in CallType /\ call.at = "next" /\ call.kind = "drain" /\ call.array = rec
    BY <1>a, <2>1 DEF Call, Idle, CallType, Places, Kinds, RecordsOK
  <2>3. Become(c, call)
    BY <1>2
  <2> HIDE DEF call
  <2>4. WellFormed(call)
    BY <1>a, <2>2 DEF WellFormed, Draining, RecordsOK
  <2> QED BY <1>a, <1>h, <1>2, <2>2, <2>3, <2>4, KeepOK, PartsNext
<1> QED BY <1>1, <1>2 DEF releaseConcurrentSlotsOnHost

LEMMA startQueuedJobType ==
  ASSUME TypeOK, NEW c \in Calls, startQueuedJob(c)
  PROVE  TypeOK'
<1> DEFINE held == calls[c].array
<1>a. /\ CallsOK /\ RecordsOK /\ HistoryOK /\ calls[c].at = "next" /\ calls[c].kind = "drain"
      /\ chain' = chain
  BY Parts DEF startQueuedJob, At
<1>g. AgentOK'
  BY Parts, SameAgent DEF startQueuedJob
<1>s. UNCHANGED <<next, online, schedules, lost, used>>
  BY DEF startQueuedJob
<1>1. calls[c] \in CallType /\ HasLock(c) /\ held \in Arrays
  BY <1>a, OfCall, OfDrain
<1>2. PICK j \in calls[c].todo :
        IF held[j].machine \in calls[c].known
        THEN /\ rec' = IF Stored(rec, j)
                       THEN [rec EXCEPT ![j].status = "running", ![j].old = FALSE] ELSE rec
             /\ Become(c, [[calls[c] EXCEPT !.todo = @ \ {j}] EXCEPT
                             !.at = "trigger", !.job = j, !.machine = held[j].machine,
                             !.array = Ended(held, j, "running")])
             /\ slotted' = slotted \cup {j}
             /\ UNCHANGED stale
        ELSE /\ rec' = Ended(held, j, "failed")
             /\ Become(c, [[calls[c] EXCEPT !.todo = @ \ {j}] EXCEPT
                             !.array = Ended(held, j, "failed")])
             /\ stale' = (stale \/ held # rec)
             /\ UNCHANGED slotted
  BY DEF startQueuedJob
<1>3. j \in Jobs
  BY <1>1 DEF CallType
<1>4. held[j].machine \in Machines \cup {NoMachine}
  BY <1>1, <1>3, OfRecord
<1>5. Ended(held, j, "running") \in Arrays /\ Ended(held, j, "failed") \in Arrays
  BY <1>1, EndedType DEF Statuses, Active
<1>6. CASE held[j].machine \in calls[c].known
  <2> DEFINE array == Ended(held, j, "running")
             call == [[calls[c] EXCEPT !.todo = @ \ {j}] EXCEPT
                        !.at = "trigger", !.job = j, !.machine = held[j].machine, !.array = array]
  <2>1. Become(c, call)
    BY <1>2, <1>6
  <2> HIDE DEF array, held
  <2>2. array \in Arrays
    BY <1>5 DEF array
  <2>3. /\ call \in CallType /\ call.at = "trigger" /\ call.kind = "drain" /\ call.job = j
        /\ call.array = array
    BY <1>a, <1>1, <1>3, <1>4, <2>2 DEF CallType, Places
  <2> HIDE DEF call
  <2>4. WellFormed(call)
    BY <1>3, <2>2, <2>3 DEF WellFormed, Draining
  <2>5. CallsOK'
    BY <1>a, <1>1, <2>1, <2>3, <2>4, KeepOK
  <2>6. rec' \in Arrays
    <3>1. [rec EXCEPT ![j].status = "running", ![j].old = FALSE] \in Arrays
      BY <1>a DEF RecordsOK, Arrays, Record, Statuses, Active
    <3>2. rec' \in {rec, [rec EXCEPT ![j].status = "running", ![j].old = FALSE]}
      BY <1>2, <1>6
    <3> QED BY <1>a, <3>1, <3>2 DEF RecordsOK
  <2>7. RecordsOK'
    BY <1>a, <1>s, <2>6, NewRecords
  <2>8. HistoryOK'
    BY <1>a, <1>s, <1>2, <1>3, <1>6 DEF HistoryOK
  <2> QED BY <1>g, <2>5, <2>7, <2>8, PartsNext
<1>7. CASE held[j].machine \notin calls[c].known
  <2> DEFINE array == Ended(held, j, "failed")
             call == [[calls[c] EXCEPT !.todo = @ \ {j}] EXCEPT !.array = array]
  <2>1. Become(c, call) /\ rec' = array /\ stale' \in BOOLEAN /\ slotted' = slotted
    BY <1>2, <1>7
  <2> HIDE DEF array
  <2>2. array \in Arrays
    BY <1>5 DEF array
  <2>3. /\ call \in CallType /\ call.at = "next" /\ call.kind = "drain" /\ call.array = array
    BY <1>a, <1>1, <2>2 DEF CallType
  <2> HIDE DEF call
  <2>4. WellFormed(call)
    BY <2>2, <2>3 DEF WellFormed, Draining
  <2>5. CallsOK'
    BY <1>a, <1>1, <2>1, <2>3, <2>4, KeepOK
  <2>6. RecordsOK'
    BY <1>a, <1>s, <2>1, <2>2, NewRecords
  <2>7. HistoryOK'
    BY <1>a, <1>s, <2>1 DEF HistoryOK
  <2> QED BY <1>g, <2>5, <2>6, <2>7, PartsNext
<1> QED BY <1>6, <1>7

LEMMA LoopEndsType ==
  ASSUME TypeOK, NEW c \in Calls, LoopEnds(c)
  PROVE  TypeOK'
<1>a. CallsOK /\ calls[c].at = "next" /\ Become(c, Idle)
  BY Parts DEF LoopEnds, At
<1>h. RecordsOK' /\ AgentOK' /\ HistoryOK'
  BY Parts, SameRecords, SameAgent, SameHistory DEF LoopEnds
<1>1. CASE calls[c].kind = "drain"
  <2>1. HasLock(c) /\ chain' = Tail(chain)
    BY <1>a, <1>1, OfDrain DEF LoopEnds
  <2> QED BY <1>a, <1>h, <2>1, GiveOK, IdleIsTyped, PartsNext
<1>2. CASE calls[c].kind # "drain"
  <2>1. chain' = chain
    BY <1>2 DEF LoopEnds
  <2> QED BY <1>a, <1>h, <2>1, KeepOK, IdleIsTyped, PartsNext
<1> QED BY <1>1, <1>2

-----------------------------------------------------------------------------
(* The host, the operators and the agent *)

LEMMA HostDownType == TypeOK /\ HostDown => TypeOK'
<1> SUFFICES ASSUME TypeOK, HostDown PROVE TypeOK'
  OBVIOUS
<1>1. RecordsOK' /\ AgentOK' /\ CallsOK'
  BY Parts, SameAgent, SameCalls DEF HostDown, RecordsOK
<1>2. used' \in 0 .. MaxEvents
  BY Parts, HappensOK DEF HostDown
<1>3. HistoryOK'
  BY <1>2, Parts DEF HostDown, HistoryOK
<1> QED BY <1>1, <1>3, PartsNext

LEMMA HostUpType ==
  ASSUME TypeOK, NEW c \in Calls, HostUp(c)
  PROVE  TypeOK'
<1>a. CallsOK /\ RecordsOK /\ chain' = chain
  BY Parts DEF HostUp
<1>h. RecordsOK' /\ AgentOK' /\ HistoryOK'
  BY Parts, SameAgent, SameHistory DEF HostUp, RecordsOK
<1>1. CASE Missed = {}
  BY <1>a, <1>h, <1>1, SameCalls, PartsNext DEF HostUp
<1>2. CASE Missed # {}
  <2> DEFINE call == [Call("next", "retry") EXCEPT !.known = Missed]
  <2>1. Missed \subseteq Machines
    BY <1>a DEF Missed, RecordsOK
  <2>2. call \in CallType /\ call.at = "next" /\ call.kind = "retry"
    BY <2>1 DEF Call, Idle, CallType, Places, Kinds
  <2>3. Become(c, call)
    BY <1>2 DEF HostUp
  <2> HIDE DEF call
  <2>4. WellFormed(call) /\ ~Deciding(call)
    BY <2>2 DEF WellFormed, Deciding, Draining
  <2> QED BY <1>a, <1>h, <2>2, <2>3, <2>4, KeepOK, PartsNext
<1> QED BY <1>1, <1>2

LEMMA retrySkippedJobType ==
  ASSUME TypeOK, NEW c \in Calls, retrySkippedJob(c)
  PROVE  TypeOK'
<1>a. CallsOK /\ RecordsOK /\ chain' = chain /\ calls[c].kind = "retry"
  BY Parts DEF retrySkippedJob
<1>g. AgentOK' /\ HistoryOK'
  BY Parts, SameAgent, SameHistory DEF retrySkippedJob
<1>1. next \in Jobs /\ next + 1 \in 1 .. MaxJobs + 1
  BY <1>a, BoundsAssumption DEF retrySkippedJob, RecordsOK, Jobs
<1>r. RecordsOK'
  BY <1>a, <1>1 DEF retrySkippedJob, RecordsOK
<1>2. PICK m \in calls[c].known :
        Become(c, [calls[c] EXCEPT !.at = "push", !.job = next, !.machine = m, !.known = @ \ {m}])
  BY DEF retrySkippedJob
<1> DEFINE call == [calls[c] EXCEPT !.at = "push", !.job = next, !.machine = m, !.known = @ \ {m}]
<1>3. calls[c] \in CallType
  BY <1>a, OfCall
<1>4. call \in CallType /\ call.at = "push" /\ call.kind = "retry" /\ call.job = next
  BY <1>a, <1>1, <1>3 DEF CallType, Places, Edits
<1>5. Become(c, call)
  BY <1>2
<1> HIDE DEF call
<1>6. WellFormed(call) /\ ~Deciding(call)
  BY <1>1, <1>4 DEF WellFormed, Deciding, Draining
<1> QED BY <1>a, <1>r, <1>g, <1>4, <1>5, <1>6, KeepOK, PartsNext

LEMMA ManualType ==
  ASSUME TypeOK, NEW m \in Machines, NEW c \in Calls, Manual(m, c)
  PROVE  TypeOK'
<1>a. CallsOK /\ RecordsOK /\ HistoryOK /\ chain' = chain
  BY Parts DEF Manual
<1>g. AgentOK'
  BY Parts, SameAgent DEF Manual
<1>1. next \in Jobs /\ next + 1 \in 1 .. MaxJobs + 1
  BY <1>a, IdsLeftBound DEF Manual, RecordsOK
<1>r. RecordsOK'
  BY <1>a, <1>1 DEF Manual, RecordsOK
<1>2. used' \in 0 .. MaxEvents
  BY <1>a, HappensOK DEF Manual
<1>h. HistoryOK'
  BY <1>a, <1>2 DEF Manual, HistoryOK
<1> DEFINE call == [Call("preflight", "manual") EXCEPT !.job = next, !.machine = m, !.array = rec]
<1>3. call \in CallType /\ call.at = "preflight" /\ call.kind = "manual" /\ call.job = next
  BY <1>a, <1>1 DEF Call, Idle, CallType, Places, Kinds, RecordsOK
<1>4. Become(c, call)
  BY DEF Manual
<1> HIDE DEF call
<1>5. WellFormed(call) /\ ~Deciding(call)
  BY <1>1, <1>3 DEF WellFormed, Deciding, Draining
<1> QED BY <1>a, <1>r, <1>g, <1>h, <1>3, <1>4, <1>5, KeepOK, PartsNext

LEMMA PreflightType ==
  ASSUME TypeOK, NEW c \in Calls, Preflight(c)
  PROVE  TypeOK'
<1>a. CallsOK /\ calls[c].at = "preflight" /\ chain' = chain
  BY Parts DEF Preflight, At
<1>h. RecordsOK' /\ AgentOK' /\ HistoryOK'
  BY Parts, SameRecords, SameAgent, SameHistory DEF Preflight
<1>1. CASE Become(c, Idle)
  BY <1>a, <1>h, <1>1, KeepOK, IdleIsTyped, PartsNext
<1>2. CASE Go(c, "push")
  <2>1. calls[c].kind # "drain"
    BY <1>a, OfCall DEF WellFormed, Draining
  <2> QED BY <1>a, <1>h, <1>2, <2>1, GoOK, PartsNext DEF Places, Edits
<1> QED BY <1>1, <1>2 DEF Preflight

LEMMA RetryRunType ==
  ASSUME TypeOK, NEW j \in Jobs, NEW c \in Calls, RetryRun(j, c)
  PROVE  TypeOK'
<1>a. CallsOK /\ RecordsOK /\ HistoryOK /\ chain' = Append(chain, c)
  BY Parts DEF RetryRun, Lock
<1>g. AgentOK'
  BY Parts, SameAgent DEF RetryRun
<1>1. next \in Jobs /\ next + 1 \in 1 .. MaxJobs + 1
  BY <1>a, IdsLeftBound DEF RetryRun, RecordsOK
<1>r. RecordsOK'
  BY <1>a, <1>1 DEF RetryRun, RecordsOK
<1>2. used' \in 0 .. MaxEvents
  BY <1>a, HappensOK DEF RetryRun
<1>h. HistoryOK'
  BY <1>a, <1>2 DEF RetryRun, HistoryOK
<1> DEFINE todo == IF rec[j].status = "failed" THEN {j} ELSE {}
           call == [Call("claim", "again") EXCEPT !.job = next, !.machine = rec[j].machine, !.todo = todo]
<1>3. Become(c, call)
  BY DEF RetryRun
<1>4. todo \subseteq Jobs /\ rec[j].machine \in Machines \cup {NoMachine}
  BY <1>a, OfRecord DEF RecordsOK
<1> HIDE DEF todo
<1>5. /\ call \in CallType /\ call.at = "claim" /\ call.kind = "again" /\ call.job = next
      /\ call.array = <<>>
  BY <1>1, <1>4 DEF Call, Idle, CallType, Places, Edits, Kinds
<1> HIDE DEF call
<1>6. WellFormed(call) /\ ~Deciding(call)
  BY <1>1, <1>5 DEF WellFormed, Deciding, Draining
<1> QED BY <1>a, <1>r, <1>g, <1>h, <1>3, <1>5, <1>6, AskOK, PartsNext

LEMMA DeleteScheduleType ==
  ASSUME TypeOK, NEW m \in Machines, DeleteSchedule(m)
  PROVE  TypeOK'
<1>1. RecordsOK' /\ AgentOK' /\ CallsOK'
  BY Parts, SameAgent, SameCalls DEF DeleteSchedule, RecordsOK
<1>2. used' \in 0 .. MaxEvents
  BY Parts, HappensOK DEF DeleteSchedule
<1>3. HistoryOK'
  BY <1>2, Parts DEF DeleteSchedule, HistoryOK
<1> QED BY <1>1, <1>3, PartsNext

LEMMA EndType ==
  ASSUME TypeOK, NEW m \in Machines, End(m)
  PROVE  TypeOK'
<1>1. RecordsOK' /\ HistoryOK' /\ CallsOK'
  BY Parts, SameRecords, SameHistory, SameCalls DEF End
<1>2. AgentOK'
  BY Parts DEF End, AgentOK
<1> QED BY <1>1, <1>2, PartsNext

LEMMA UpdateType ==
  ASSUME TypeOK, NEW j \in Jobs, NEW c \in Calls, Update(j, c)
  PROVE  TypeOK'
<1>a. CallsOK /\ RecordsOK /\ AgentOK
  BY Parts
<1>h. HistoryOK'
  BY Parts, SameHistory DEF Update
<1>g. AgentOK'
  BY <1>a DEF Update, AgentOK
<1>1. CASE Stored(rec, j)
  <2>1. mail[j] \in {"completed", "failed"}
    BY <1>a DEF Update, AgentOK
  <2>2. Ended(rec, j, mail[j]) \in Arrays
    BY <1>a, <2>1, EndedType DEF RecordsOK, Statuses
  <2>3. RecordsOK'
    BY <1>a, <1>1, <2>2, NewRecords DEF Update
  <2>4. CallsOK'
    BY <1>a, <1>1, AskOK, DrainIsTyped DEF Update, Lock
  <2> QED BY <1>h, <1>g, <2>3, <2>4, PartsNext
<1>2. CASE ~Stored(rec, j)
  <2>1. RecordsOK' /\ CallsOK'
    BY <1>a, <1>2, SameCalls DEF Update, RecordsOK
  <2> QED BY <1>h, <1>g, <2>1, PartsNext
<1> QED BY <1>1, <1>2

-----------------------------------------------------------------------------
(* The periodic pass, and time *)

LEMMA reconcileAndDrainAllHostsType ==
  ASSUME TypeOK, NEW c \in Calls, reconcileAndDrainAllHosts(c)
  PROVE  TypeOK'
<1>a. CallsOK /\ RecordsOK /\ chain' = chain
  BY Parts DEF reconcileAndDrainAllHosts
<1>h. RecordsOK' /\ AgentOK' /\ HistoryOK'
  BY Parts, SameRecords, SameAgent, SameHistory DEF reconcileAndDrainAllHosts
<1> DEFINE call == [Call("sync", "none") EXCEPT !.array = rec]
<1>1. call \in CallType /\ call.at = "sync" /\ call.kind = "none"
  BY <1>a DEF Call, Idle, CallType, Places, Kinds, RecordsOK
<1>2. Become(c, call)
  BY DEF reconcileAndDrainAllHosts
<1> HIDE DEF call
<1>3. WellFormed(call) /\ ~Deciding(call)
  BY <1>1 DEF WellFormed, Deciding, Draining
<1> QED BY <1>a, <1>h, <1>1, <1>2, <1>3, KeepOK, PartsNext

LEMMA syncHostType ==
  ASSUME TypeOK, NEW c \in Calls, syncHost(c)
  PROVE  TypeOK'
<1>a. CallsOK /\ RecordsOK /\ calls[c].at = "sync" /\ chain' = chain
  BY Parts DEF syncHost, At
<1>g. AgentOK' /\ HistoryOK'
  BY Parts, SameAgent, SameHistory DEF syncHost
<1>1. calls[c] \in CallType /\ WellFormed(calls[c])
  BY <1>a, OfCall
<1>r. RecordsOK'
  <2>1. ASSUME NEW j \in Jobs, Verdict(j) # "unchanged"
        PROVE  [rec[j] EXCEPT !.status = Verdict(j)] \in Record
    <3>1. Verdict(j) \in {"running", "failed"}
      BY <2>1 DEF Verdict
    <3>2. Verdict(j) \in Statuses
      BY <3>1 DEF Statuses, Active
    <3>3. rec[j] \in Record
      BY <1>a, OfRecord DEF RecordsOK
    <3> QED BY <3>2, <3>3 DEF Record
  <2>2. \A j \in Jobs : rec[j] \in Record
    BY <1>a, OfRecord DEF RecordsOK
  <2>3. rec' \in Arrays
    BY <2>1, <2>2 DEF syncHost, Arrays
  <2> QED BY <1>a, <2>3, NewRecords DEF syncHost
<1>c. CallsOK'
  <2> DEFINE call == [calls[c] EXCEPT !.at = "sweep", !.array = <<>>]
  <2>1. calls[c].kind # "drain"
    BY <1>a, <1>1 DEF WellFormed, Draining
  <2>2. call \in CallType /\ call.at = "sweep" /\ call.kind = calls[c].kind
    BY <1>1 DEF CallType, Places, Edits
  <2>3. Become(c, call)
    BY DEF syncHost
  <2> HIDE DEF call
  <2>4. WellFormed(call) /\ ~Deciding(call)
    BY <2>1, <2>2 DEF WellFormed, Deciding, Draining
  <2> QED BY <1>a, <2>2, <2>3, <2>4, KeepOK
<1> QED BY <1>r, <1>g, <1>c, PartsNext

LEMMA DayPassesType == TypeOK /\ DayPasses => TypeOK'
<1> SUFFICES ASSUME TypeOK, DayPasses PROVE TypeOK'
  OBVIOUS
<1>a. RecordsOK /\ HistoryOK
  BY Parts
<1>1. AgentOK' /\ CallsOK'
  BY Parts, SameAgent, SameCalls DEF DayPasses
<1>2. used' \in 0 .. MaxEvents
  BY <1>a, HappensOK DEF DayPasses
<1>3. HistoryOK'
  BY <1>a, <1>2 DEF DayPasses, HistoryOK
<1>4. rec' \in Arrays
  <2>1. ASSUME NEW j \in Jobs PROVE [rec[j] EXCEPT !.old = Stored(rec, j)] \in Record
    <3>1. rec[j] \in Record
      BY <1>a, OfRecord DEF RecordsOK
    <3>2. Stored(rec, j) \in BOOLEAN
      BY DEF Stored
    <3> QED BY <3>1, <3>2 DEF Record
  <2> QED BY <2>1 DEF DayPasses, Arrays
<1>5. RecordsOK'
  BY <1>a, <1>4, NewRecords DEF DayPasses
<1> QED BY <1>1, <1>3, <1>5, PartsNext

-----------------------------------------------------------------------------

LEMMA InitType == Init => TypeOK
<1> SUFFICES ASSUME Init PROVE TypeOK
  OBVIOUS
<1>1. rec \in Arrays
  BY NoRecordType DEF Init, Arrays
<1>2. next \in 1 .. MaxJobs + 1 /\ used \in 0 .. MaxEvents
  BY BoundsAssumption DEF Init
<1>3. RecordsOK
  BY <1>1, <1>2 DEF Init, RecordsOK
<1>4. CallsOK
  BY IdleIsTyped DEF Init, CallsOK
<1>5. AgentOK /\ HistoryOK
  BY <1>2 DEF Init, AgentOK, HistoryOK
<1> QED BY <1>3, <1>4, <1>5, Parts

LEMMA StepType ==
  ASSUME TypeOK, NEW c \in Calls, Step(c)
  PROVE  TypeOK'
BY ReserveType, CheckStatusType, AcceptType, AnsweredType, RefuseType, FailedType, ReadJobsType,
   SaveJobsType, releaseConcurrentSlotsOnHostType, startQueuedJobType, LoopEndsType,
   retrySkippedJobType, PreflightType, syncHostType DEF Step

\* Every variable keeps its range; and whoever decides about slots has the
\* lock of the host, from reading the jobs to the last of them started.
THEOREM TypeInvariant == Spec => []TypeOK
<1>1. Init => TypeOK
  BY InitType
<1>2. TypeOK /\ [Next]_vars => TypeOK'
  <2> SUFFICES ASSUME TypeOK, [Next]_vars PROVE TypeOK'
    OBVIOUS
  <2>1. CASE HostDown \/ DayPasses
    BY <2>1, HostDownType, DayPassesType
  <2>2. ASSUME NEW c \in Calls, Step(c) PROVE TypeOK'
    BY <2>2, StepType
  <2>3. ASSUME NEW c \in Calls, Unreachable(c) \/ Unanswered(c) \/ HostUp(c)
                                  \/ reconcileAndDrainAllHosts(c)
        PROVE  TypeOK'
    BY <2>3, UnreachableType, UnansweredType, HostUpType, reconcileAndDrainAllHostsType
  <2>4. ASSUME NEW m \in Machines, End(m) \/ DeleteSchedule(m) PROVE TypeOK'
    BY <2>4, EndType, DeleteScheduleType
  <2>5. ASSUME NEW m \in Machines, NEW c \in Calls, executeScheduledBackup(m, c) \/ Manual(m, c)
        PROVE  TypeOK'
    BY <2>5, executeScheduledBackupType, ManualType
  <2>6. ASSUME NEW j \in Jobs, NEW c \in Calls, Update(j, c) \/ RetryRun(j, c) PROVE TypeOK'
    BY <2>6, UpdateType, RetryRunType
  <2>7. CASE UNCHANGED vars
    <3>1. UNCHANGED recordVars /\ UNCHANGED agentVars /\ UNCHANGED historyVars
      BY <2>7 DEF vars, recordVars, agentVars, historyVars
    <3>2. UNCHANGED <<calls, chain>>
      BY <2>7 DEF vars
    <3> QED BY <3>1, <3>2, Parts, SameRecords, SameAgent, SameHistory, SameCalls, PartsNext
  <2> QED BY <2>1, <2>2, <2>3, <2>4, <2>5, <2>6, <2>7 DEF Next
<1> QED BY <1>1, <1>2, PTL DEF Spec

-----------------------------------------------------------------------------
(***************************************************************************)
(* A job is started once.  A job may still be sent to the agent by a call  *)
(* that was given its id, or because it waits, or because a drain has it   *)
(* on its list.  At most one call holds a job, and a job that is held      *)
(* neither waits nor is listed; whatever may still be sent was not sent.   *)
(***************************************************************************)
Asking == {"slot", "check", "trigger", "push", "claim", "preflight"}
Holds(c, j) == calls[c].at \in Asking /\ calls[c].job = j
Listed(c, j) == Draining(calls[c]) /\ j \in calls[c].todo
Waits(j) == rec[j].status = "waiting"
Fresh(j) == j < next /\ runs[j] = 0

SentOnce == \A j \in Jobs : runs[j] <= 1 /\ (j >= next => runs[j] = 0)

OneTicket ==
  /\ SentOnce
  /\ \A j \in Jobs : Waits(j) => Fresh(j)
  /\ \A c \in Calls, j \in Jobs : Listed(c, j) => Fresh(j)
  /\ \A c \in Calls, j \in Jobs : Holds(c, j) =>
       /\ Fresh(j) /\ ~Waits(j)
       /\ \A d \in Calls : (Holds(d, j) => d = c) /\ ~Listed(d, j)

NoNewWaiting == \A j \in Jobs : Waits(j)' => Waits(j)

\* Nothing more may be sent than before, and nothing of it was sent.
LEMMA Carry ==
  ASSUME OneTicket, SentOnce',
         \A j \in Jobs : Waits(j)' => Waits(j) /\ Fresh(j)',
         \A d \in Calls, j \in Jobs : Listed(d, j)' => Listed(d, j) /\ Fresh(j)',
         \A d \in Calls, j \in Jobs : Holds(d, j)' => Holds(d, j) /\ Fresh(j)'
  PROVE  OneTicket'
BY DEF OneTicket

LEMMA Became ==
  ASSUME CallsOK, NEW c \in Calls, NEW call, Become(c, call)
  PROVE  \A d \in Calls : calls'[d] = IF d = c THEN call ELSE calls[d]
BY DEF CallsOK, Become

\* A call moves on, or ends.
LEMMA ShrinkOK ==
  ASSUME OneTicket, CallsOK, NEW c \in Calls, NEW call, Become(c, call),
         UNCHANGED <<next, runs>>, NoNewWaiting,
         call.at \in Asking => calls[c].at \in Asking /\ call.job = calls[c].job,
         Draining(call) => Draining(calls[c]) /\ call.todo \subseteq calls[c].todo
  PROVE  OneTicket'
<1>1. \A d \in Calls : calls'[d] = IF d = c THEN call ELSE calls[d]
  BY Became
<1>2. \A d \in Calls, j \in Jobs : Holds(d, j)' => Holds(d, j)
  BY <1>1 DEF Holds
<1>3. \A d \in Calls, j \in Jobs : Listed(d, j)' => Listed(d, j)
  BY <1>1 DEF Listed, Draining
<1>4. SentOnce' /\ \A j \in Jobs : Fresh(j) => Fresh(j)'
  BY DEF OneTicket, SentOnce, Fresh
<1> QED BY <1>2, <1>3, <1>4, Carry DEF OneTicket, NoNewWaiting

LEMMA SameOK ==
  ASSUME OneTicket, UNCHANGED <<calls, next, runs>>, NoNewWaiting
  PROVE  OneTicket'
<1>1. \A d \in Calls, j \in Jobs : Holds(d, j)' => Holds(d, j)
  BY DEF Holds
<1>2. \A d \in Calls, j \in Jobs : Listed(d, j)' => Listed(d, j)
  BY DEF Listed, Draining
<1>3. SentOnce' /\ \A j \in Jobs : Fresh(j) => Fresh(j)'
  BY DEF OneTicket, SentOnce, Fresh
<1> QED BY <1>1, <1>2, <1>3, Carry DEF OneTicket, NoNewWaiting

\* A call is given the next id.
LEMMA GrowOK ==
  ASSUME TypeOK, OneTicket, NEW c \in Calls, NEW call, Become(c, call), NEW i \in Jobs,
         i = next, next' = i + 1, runs' = runs, NoNewWaiting, call.job = i, ~Draining(call)
  PROVE  OneTicket'
<1>1. \A d \in Calls : calls'[d] = IF d = c THEN call ELSE calls[d]
  BY Became DEF TypeOK
<1>2. \A d \in Calls, j \in Jobs : Holds(d, j)' => Holds(d, j) \/ (d = c /\ j = i)
  BY <1>1 DEF Holds
<1>3. \A d \in Calls, j \in Jobs : Listed(d, j)' => Listed(d, j)
  BY <1>1 DEF Listed, Draining
<1>4. \A j \in Jobs : Fresh(j) => Fresh(j)'
  BY BoundsAssumption DEF Fresh, Jobs
<1>5. ~Fresh(i) /\ Fresh(i)'
  BY BoundsAssumption DEF Fresh, Jobs, OneTicket, SentOnce
<1>6. SentOnce'
  BY BoundsAssumption DEF OneTicket, SentOnce, Jobs
<1>7. \A d \in Calls : ~Holds(d, i) /\ ~Listed(d, i)
  BY <1>5 DEF OneTicket
<1>8. ~Waits(i)'
  BY <1>5 DEF OneTicket, NoNewWaiting
<1>9. \A d \in Calls : Holds(d, i)' => d = c
  BY <1>2, <1>7
<1>10. ASSUME NEW d \in Calls, NEW j \in Jobs, Holds(d, j)'
       PROVE  /\ Fresh(j)' /\ ~Waits(j)'
              /\ \A e \in Calls : (Holds(e, j)' => e = d) /\ ~Listed(e, j)'
  <2>1. CASE j = i
    BY <1>3, <1>5, <1>7, <1>8, <1>9, <1>10, <2>1
  <2>2. CASE j # i
    BY <1>2, <1>3, <1>4, <1>10, <2>2 DEF OneTicket, NoNewWaiting
  <2> QED BY <2>1, <2>2
<1> QED BY <1>3, <1>4, <1>6, <1>10 DEF OneTicket, NoNewWaiting

LEMMA SameWaits == rec' = rec => NoNewWaiting
BY DEF NoNewWaiting, Waits

LEMMA StoreWaits ==
  ASSUME rec \in Arrays, NEW j, NEW r, rec' = [rec EXCEPT ![j] = r], r.status # "waiting"
  PROVE  NoNewWaiting
BY DEF NoNewWaiting, Waits, Arrays

LEMMA EndedWaits ==
  ASSUME rec \in Arrays, NEW j, NEW status, rec' = Ended(rec, j, status), status # "waiting"
  PROVE  NoNewWaiting
BY DEF NoNewWaiting, Waits, Arrays, Record, Ended

LEMMA GoTicket ==
  ASSUME OneTicket, CallsOK, NEW c \in Calls, NEW place, Go(c, place), UNCHANGED <<next, runs>>,
         NoNewWaiting, calls[c].at # "drain", place \in Asking => calls[c].at \in Asking
  PROVE  OneTicket'
<1> DEFINE call == [calls[c] EXCEPT !.at = place]
<1>1. calls[c] \in CallType /\ WellFormed(calls[c])
  BY OfCall
<1>2. call.at = place /\ call.kind = calls[c].kind /\ call.job = calls[c].job /\ call.todo = calls[c].todo
  BY <1>1 DEF CallType
<1>3. Become(c, call)
  BY DEF Go
<1> HIDE DEF call
<1>4. Draining(call) => Draining(calls[c])
  BY <1>1, <1>2 DEF WellFormed, Draining
<1> QED BY <1>2, <1>3, <1>4, ShrinkOK

\* A call that has nothing more to send.
LEMMA EndTicket ==
  ASSUME OneTicket, CallsOK, NEW c \in Calls, NEW call, Become(c, call), UNCHANGED <<next, runs>>,
         NoNewWaiting, call.at \notin Asking, ~Draining(call)
  PROVE  OneTicket'
BY ShrinkOK

LEMMA IdleTicket ==
  ASSUME OneTicket, CallsOK, NEW c \in Calls, UNCHANGED <<next, runs>>, NoNewWaiting,
         Become(c, Idle) \/ Become(c, Call("drain", "drain"))
  PROVE  OneTicket'
<1>1. Idle.at \notin Asking /\ ~Draining(Idle)
  BY DEF Idle, Asking, Draining
<1>2. Call("drain", "drain").at \notin Asking /\ ~Draining(Call("drain", "drain"))
  BY DEF Call, Idle, Asking, Draining
<1> QED BY <1>1, <1>2, EndTicket

-----------------------------------------------------------------------------
(* Edits make no job wait *)

LEMMA EditedWaits ==
  ASSUME NEW call \in CallType, call.at \in Edits, call.array \in Arrays, NEW k \in Jobs,
         Edited(call)[k].status = "waiting"
  PROVE  call.array[k].status = "waiting"
<1> DEFINE j == call.job
           array == call.array
<1>1. array[k] \in Record
  BY OfRecord
<1>2. New("queued", call.machine).status # "waiting" /\ NoRecord.status # "waiting"
  BY DEF New, NoRecord
<1>3. CASE call.at \in {"push", "claim"}
  <2> DEFINE pushed == [array EXCEPT ![j] = New("queued", call.machine)]
  <2>1. Edited(call) = array \/ Edited(call) = pushed
    BY <1>3 DEF Edited
  <2>2. pushed[k].status = "waiting" => array[k].status = "waiting"
    BY <1>2 DEF Arrays
  <2> HIDE DEF pushed
  <2> QED BY <2>1, <2>2
<1>4. CASE call.at = "retire"
  <2>1. Edited(call)[k] \in {NoRecord, array[k]}
    BY <1>4 DEF Edited
  <2> QED BY <2>1, <1>2
<1>5. CASE call.at = "mark"
  <2>1. Edited(call) \in {array, Ended(array, j, "running")}
    BY <1>5 DEF Edited
  <2>2. Ended(array, j, "running")[k].status = "waiting" => array[k].status = "waiting"
    BY DEF Ended, Arrays, Record
  <2> QED BY <2>1, <2>2
<1>6. CASE call.at \in {"siblings", "sweep"}
  <2>1. Edited(call)[k] \in {array[k], [array[k] EXCEPT !.status = "failed"]}
    <3>1. CASE call.at = "siblings"
      BY <3>1 DEF Edited
    <3>2. CASE call.at = "sweep"
      BY <3>2 DEF Edited
    <3> QED BY <1>6, <3>1, <3>2
  <2>2. [array[k] EXCEPT !.status = "failed"].status = "failed"
    BY <1>1 DEF Record
  <2> QED BY <2>1, <2>2
<1>7. CASE call.at \in {"drop", "remove"}
  <2>1. Edited(call) = [array EXCEPT ![j] = NoRecord]
    BY <1>7 DEF Edited
  <2>2. [array EXCEPT ![j] = NoRecord][k].status = "waiting" => array[k].status = "waiting"
    BY <1>2 DEF Arrays
  <2> QED BY <2>1, <2>2
<1>8. CASE call.at = "fail"
  <2> DEFINE r == [New("failed", call.machine) EXCEPT !.old = array[j].old]
             fell == [array EXCEPT ![j] = r]
  <2>1. Edited(call) = array \/ Edited(call) = fell
    BY <1>8 DEF Edited
  <2>2. r.status = "failed"
    BY DEF New
  <2> HIDE DEF r
  <2>3. fell[k].status = "waiting" => array[k].status = "waiting"
    BY <2>2 DEF Arrays
  <2> HIDE DEF fell
  <2> QED BY <2>1, <2>3
<1> QED BY <1>3, <1>4, <1>5, <1>6, <1>7, <1>8 DEF Edits

\* A call asks on only if it was about to, for the same job.
LEMMA ResumedAsks ==
  ASSUME NEW call \in CallType, WellFormed(call), call.at \in Edits
  PROVE  /\ Resumed(call).at \in Asking => call.at \in Asking /\ Resumed(call).job = call.job
         /\ ~Draining(Resumed(call))
<1> DEFINE saved == [call EXCEPT !.array = <<>>]
           moved(place) == [saved EXCEPT !.at = place]
<1>1. ~Draining(Resumed(call))
  BY ResumedOK DEF Deciding
<1>2. CASE call.at \in {"push", "claim"}
  <2> DEFINE sent == moved("trigger")
             cleared == [saved EXCEPT !.at = "siblings", !.todo = {}]
  <2>1. Resumed(call) = sent \/ Resumed(call) = cleared \/ Resumed(call) = Idle
    BY <1>2 DEF Resumed
  <2>2. sent.job = call.job
    BY DEF CallType
  <2>3. cleared.at = "siblings" /\ Idle.at = "idle"
    BY DEF CallType, Idle
  <2> HIDE DEF sent, cleared
  <2> QED BY <1>1, <1>2, <2>1, <2>2, <2>3 DEF Asking
<1>3. CASE call.at \notin {"push", "claim"}
  <2>1. Resumed(call) \in {moved("siblings"), moved("next"), moved("retire"), Call("drain", "drain"), Idle}
    BY <1>3 DEF Resumed, Edits
  <2>2. moved("siblings").at = "siblings" /\ moved("next").at = "next" /\ moved("retire").at = "retire"
    BY DEF CallType
  <2>3. Call("drain", "drain").at = "drain" /\ Idle.at = "idle"
    BY DEF Call, Idle
  <2> QED BY <1>1, <2>1, <2>2, <2>3 DEF Asking
<1> QED BY <1>2, <1>3

LEMMA ReadJobsTicket ==
  ASSUME TypeOK, OneTicket, NEW c \in Calls, ReadJobs(c)
  PROVE  OneTicket'
<1> DEFINE read == [calls[c] EXCEPT !.array = rec]
<1>a. CallsOK /\ RecordsOK /\ calls[c].at \in Edits
  BY Parts DEF ReadJobs
<1>u. UNCHANGED <<next, runs>> /\ NoNewWaiting
  BY SameWaits DEF ReadJobs, recordVars, agentVars
<1>1. calls[c] \in CallType /\ WellFormed(calls[c])
  BY <1>a, OfCall
<1>2. /\ read \in CallType /\ read.at = calls[c].at /\ read.kind = calls[c].kind
      /\ read.job = calls[c].job
  BY <1>1, <1>a DEF CallType, RecordsOK
<1>3. calls[c].kind # "drain"
  BY <1>1, <1>a DEF WellFormed, Draining, Edits
<1>4. WellFormed(read) /\ ~Draining(read)
  BY <1>1, <1>2, <1>3 DEF WellFormed, Draining
<1>5. Become(c, Resumed(read)) \/ Become(c, read)
  BY DEF ReadJobs
<1> HIDE DEF read
<1>6. CASE Become(c, Resumed(read))
  <2>1. /\ Resumed(read).at \in Asking => read.at \in Asking /\ Resumed(read).job = read.job
        /\ ~Draining(Resumed(read))
    BY <1>a, <1>2, <1>4, ResumedAsks
  <2> QED BY <1>a, <1>u, <1>2, <1>6, <2>1, ShrinkOK
<1>7. CASE Become(c, read)
  BY <1>a, <1>u, <1>2, <1>4, <1>7, ShrinkOK
<1> QED BY <1>5, <1>6, <1>7

LEMMA SaveJobsTicket ==
  ASSUME TypeOK, OneTicket, NEW c \in Calls, SaveJobs(c), ~stale'
  PROVE  OneTicket'
<1>a. CallsOK /\ RecordsOK /\ calls[c].at \in Edits
  BY Parts DEF SaveJobs
<1>1. calls[c] \in CallType /\ WellFormed(calls[c])
  BY <1>a, OfCall
<1>2. calls[c].array = rec /\ rec' = Edited(calls[c])
  BY DEF SaveJobs
<1>3. NoNewWaiting
  BY <1>a, <1>1, <1>2, EditedWaits DEF NoNewWaiting, Waits, RecordsOK
<1>4. /\ Resumed(calls[c]).at \in Asking => calls[c].at \in Asking /\ Resumed(calls[c]).job = calls[c].job
      /\ ~Draining(Resumed(calls[c]))
  BY <1>a, <1>1, ResumedAsks
<1>5. Become(c, Resumed(calls[c])) /\ UNCHANGED <<next, runs>>
  BY DEF SaveJobs, agentVars
<1> QED BY <1>a, <1>3, <1>4, <1>5, ShrinkOK

-----------------------------------------------------------------------------
(* Who may send a job, step by step *)

LEMMA executeScheduledBackupTicket ==
  ASSUME TypeOK, OneTicket, NEW m \in Machines, NEW c \in Calls, executeScheduledBackup(m, c)
  PROVE  OneTicket'
<1>a. CallsOK /\ RecordsOK
  BY Parts
<1>1. next' = next + 1 /\ runs' = runs
  BY DEF executeScheduledBackup, agentVars
<1>2. CASE online
  <2> DEFINE call == [Call("slot", "fire") EXCEPT !.job = next, !.machine = m]
  <2>1. next \in Jobs
    BY <1>a, <1>2, IdsLeftBound DEF executeScheduledBackup, RecordsOK
  <2>2. Become(c, call) /\ NoNewWaiting
    BY <1>2, SameWaits DEF executeScheduledBackup
  <2>3. call.job = next /\ ~Draining(call)
    BY DEF Call, Idle, Draining
  <2> HIDE DEF call
  <2> QED BY <1>1, <2>1, <2>2, <2>3, GrowOK
<1>3. CASE ~online
  <2>1. rec' = [rec EXCEPT ![next] = New("skipped", m)] /\ UNCHANGED calls
    BY <1>3 DEF executeScheduledBackup
  <2>2. NoNewWaiting
    <3>1. New("skipped", m).status # "waiting" /\ rec \in Arrays
      BY <1>a DEF New, RecordsOK
    <3> QED BY <2>1, <3>1, StoreWaits
  <2>3. \A j \in Jobs : Fresh(j) => Fresh(j)'
    BY <1>a, <1>1 DEF RecordsOK, Fresh, Jobs
  <2>4. SentOnce'
    BY <1>a, <1>1 DEF RecordsOK, OneTicket, SentOnce, Jobs
  <2>5. \A d \in Calls, j \in Jobs : (Holds(d, j)' => Holds(d, j)) /\ (Listed(d, j)' => Listed(d, j))
    BY <2>1 DEF Holds, Listed, Draining
  <2> QED BY <2>2, <2>3, <2>4, <2>5, Carry DEF OneTicket, NoNewWaiting
<1> QED BY <1>2, <1>3

LEMMA ReserveTicket ==
  ASSUME TypeOK, OneTicket, NEW c \in Calls, Reserve(c)
  PROVE  OneTicket'
<1>a. CallsOK /\ RecordsOK /\ calls[c].at = "slot"
  BY Parts DEF Reserve, At
<1>u. UNCHANGED <<next, runs>>
  BY DEF Reserve, agentVars
<1>1. calls[c].job \in Jobs
  BY <1>a, HasJob
<1>2. CASE Become(c, Idle) /\ UNCHANGED rec
  BY <1>a, <1>u, <1>2, SameWaits, IdleTicket
<1>3. CASE /\ rec' = [rec EXCEPT ![calls[c].job] = New("waiting", calls[c].machine)]
           /\ Become(c, Call("drain", "drain"))
  <2>1. PICK i \in Jobs : i = calls[c].job
    BY <1>1
  <2>2. Holds(c, i)
    BY <1>a, <2>1 DEF Holds, Asking
  <2>3. \A d \in Calls : calls'[d] = IF d = c THEN Call("drain", "drain") ELSE calls[d]
    BY <1>a, <1>3, Became
  <2>4. Call("drain", "drain").at = "drain"
    BY DEF Call, Idle
  <2>5. \A j \in Jobs : Waits(j)' => Waits(j) \/ j = i
    BY <1>a, <1>3, <2>1 DEF Waits, RecordsOK, Arrays
  <2>6. \A d \in Calls, j \in Jobs : Holds(d, j)' => Holds(d, j) /\ d # c
    BY <2>3, <2>4 DEF Holds, Asking
  <2>7. \A d \in Calls, j \in Jobs : Listed(d, j)' => Listed(d, j)
    BY <2>3, <2>4 DEF Listed, Draining
  <2>8. SentOnce' /\ \A j \in Jobs : Fresh(j)' <=> Fresh(j)
    BY <1>u DEF OneTicket, SentOnce, Fresh
  <2>9. \A d \in Calls, j \in Jobs : Holds(d, j)' => j # i
    BY <2>2, <2>6 DEF OneTicket
  <2>10. Fresh(i)
    BY <2>2 DEF OneTicket
  <2> QED BY <2>5, <2>6, <2>7, <2>8, <2>9, <2>10 DEF OneTicket
<1>4. CASE /\ rec' = [rec EXCEPT ![calls[c].job] = New("running", calls[c].machine)]
           /\ Go(c, "check")
  <2>1. NoNewWaiting
    <3>1. New("running", calls[c].machine).status # "waiting" /\ rec \in Arrays
      BY <1>a DEF New, RecordsOK
    <3> QED BY <1>4, <3>1, StoreWaits
  <2> QED BY <1>a, <1>u, <1>4, <2>1, GoTicket DEF Asking
<1> QED BY <1>2, <1>3, <1>4 DEF Reserve

LEMMA AcceptTicket ==
  ASSUME TypeOK, OneTicket, NEW c \in Calls, Accept(c)
  PROVE  OneTicket'
<1>a. CallsOK /\ AgentOK /\ calls[c].at = "trigger" /\ Go(c, "accepted")
  BY Parts DEF Accept, At
<1> DEFINE call == [calls[c] EXCEPT !.at = "accepted"]
<1>1. PICK i \in Jobs : i = calls[c].job
  BY <1>a, HasJob
<1>2. Holds(c, i)
  BY <1>a, <1>1 DEF Holds, Asking
<1>3. next' = next /\ rec' = rec /\ runs' = [runs EXCEPT ![i] = @ + 1]
  BY <1>1 DEF Accept, recordVars
<1>4. \A d \in Calls : calls'[d] = IF d = c THEN call ELSE calls[d]
  BY <1>a, Became DEF Go
<1>5. call.at = "accepted" /\ call.kind = calls[c].kind /\ call.todo = calls[c].todo
  BY <1>a, OfCall DEF CallType
<1> HIDE DEF call
<1>6. \A d \in Calls, j \in Jobs : Holds(d, j)' => Holds(d, j) /\ d # c
  BY <1>4, <1>5 DEF Holds, Asking
<1>7. \A d \in Calls, j \in Jobs : Listed(d, j)' => Listed(d, j)
  BY <1>a, <1>4, <1>5 DEF Listed, Draining
<1>8. \A j \in Jobs : Waits(j)' => Waits(j)
  BY <1>3 DEF Waits
<1>9. Fresh(i) /\ ~Waits(i) /\ \A d \in Calls : (Holds(d, i) => d = c) /\ ~Listed(d, i)
  BY <1>2 DEF OneTicket
<1>10. \A j \in Jobs : j # i /\ Fresh(j) => Fresh(j)'
  BY <1>a, <1>3 DEF Fresh, AgentOK
<1>11. SentOnce'
  <2>1. \A j \in Jobs : runs'[j] = IF j = i THEN 1 ELSE runs[j]
    BY <1>a, <1>3, <1>9 DEF Fresh, AgentOK
  <2>2. ~(i >= next)
    BY <1>9, BoundsAssumption DEF Fresh, Jobs, TypeOK
  <2> QED BY <1>3, <2>1, <2>2 DEF OneTicket, SentOnce
<1> QED BY <1>6, <1>7, <1>8, <1>9, <1>10, <1>11, Carry DEF OneTicket

LEMMA releaseConcurrentSlotsOnHostTicket ==
  ASSUME TypeOK, OneTicket, NEW c \in Calls, releaseConcurrentSlotsOnHost(c)
  PROVE  OneTicket'
<1>a. CallsOK /\ RecordsOK
  BY Parts
<1>u. UNCHANGED <<rec, next, runs>>
  BY DEF releaseConcurrentSlotsOnHost, recordVars, agentVars
<1>1. CASE Become(c, Idle)
  BY <1>a, <1>u, <1>1, SameWaits, IdleTicket
<1>2. CASE Become(c, [Call("next", "drain") EXCEPT
                         !.todo = Startable(rec), !.known = schedules, !.array = rec])
  <2> DEFINE call == [Call("next", "drain") EXCEPT
                        !.todo = Startable(rec), !.known = schedules, !.array = rec]
  <2>1. \A d \in Calls : calls'[d] = IF d = c THEN call ELSE calls[d]
    BY <1>a, <1>2, Became
  <2>2. call.at = "next" /\ call.todo = Startable(rec)
    BY DEF Call, Idle
  <2> HIDE DEF call
  <2>3. \A j \in Jobs : j \in Startable(rec) => Waits(j)
    BY DEF Startable, Waiting, Waits
  <2>4. \A d \in Calls, j \in Jobs : Holds(d, j)' => Holds(d, j)
    BY <2>1, <2>2 DEF Holds, Asking
  <2>5. \A d \in Calls, j \in Jobs : Listed(d, j)' => Listed(d, j) \/ Waits(j)
    BY <2>1, <2>2, <2>3 DEF Listed, Draining
  <2>6. SentOnce' /\ \A j \in Jobs : (Fresh(j) <=> Fresh(j)') /\ (Waits(j) <=> Waits(j)')
    BY <1>u DEF OneTicket, SentOnce, Fresh, Waits
  <2> QED BY <2>4, <2>5, <2>6 DEF OneTicket
<1> QED BY <1>1, <1>2 DEF releaseConcurrentSlotsOnHost

LEMMA startQueuedJobTicket ==
  ASSUME TypeOK, OneTicket, NEW c \in Calls, startQueuedJob(c), ~stale'
  PROVE  OneTicket'
<1> DEFINE held == calls[c].array
<1>a. CallsOK /\ RecordsOK /\ calls[c].at = "next" /\ calls[c].kind = "drain"
  BY Parts DEF startQueuedJob, At
<1>u. UNCHANGED <<next, runs>>
  BY DEF startQueuedJob, agentVars
<1>1. calls[c] \in CallType /\ Draining(calls[c]) /\ HasLock(c)
  BY <1>a, OfCall, OfDrain
<1>2. PICK j \in calls[c].todo :
        IF held[j].machine \in calls[c].known
        THEN /\ rec' = IF Stored(rec, j)
                       THEN [rec EXCEPT ![j].status = "running", ![j].old = FALSE] ELSE rec
             /\ Become(c, [[calls[c] EXCEPT !.todo = @ \ {j}] EXCEPT
                             !.at = "trigger", !.job = j, !.machine = held[j].machine,
                             !.array = Ended(held, j, "running")])
        ELSE /\ rec' = Ended(held, j, "failed")
             /\ Become(c, [[calls[c] EXCEPT !.todo = @ \ {j}] EXCEPT
                             !.array = Ended(held, j, "failed")])
             /\ stale' = (stale \/ held # rec)
  BY DEF startQueuedJob
<1>3. j \in Jobs
  BY <1>1 DEF CallType
<1>4. CASE held[j].machine \in calls[c].known
  <2> DEFINE call == [[calls[c] EXCEPT !.todo = @ \ {j}] EXCEPT
                        !.at = "trigger", !.job = j, !.machine = held[j].machine,
                        !.array = Ended(held, j, "running")]
  <2>1. \A d \in Calls : calls'[d] = IF d = c THEN call ELSE calls[d]
    BY <1>a, <1>2, <1>4, Became
  <2>2. call.at = "trigger" /\ call.job = j /\ call.todo = calls[c].todo \ {j}
    BY <1>1 DEF CallType
  <2> HIDE DEF call
  <2>3. \A k \in Jobs : Waits(k)' => Waits(k) /\ k # j
    <3>1. CASE Stored(rec, j)
      BY <1>a, <1>2, <1>4, <3>1 DEF Waits, RecordsOK, Arrays, Record
    <3>2. CASE ~Stored(rec, j)
      BY <1>2, <1>4, <3>2 DEF Waits, Stored
    <3> QED BY <3>1, <3>2
  <2>4. Listed(c, j)
    BY <1>1 DEF Listed
  <2>5. \A d \in Calls : Draining(calls[d]) => d = c
    BY <1>a, <1>1, OfCall DEF Deciding, HasLock
  <2>6. \A d \in Calls, k \in Jobs : Listed(d, k)' => Listed(d, k) /\ k # j
    BY <1>1, <2>1, <2>2, <2>5 DEF Listed, Draining
  <2>7. \A d \in Calls, k \in Jobs : Holds(d, k)' => Holds(d, k) \/ (d = c /\ k = j)
    BY <2>1, <2>2 DEF Holds
  <2>8. Fresh(j) /\ \A d \in Calls : ~Holds(d, j)
    BY <1>3, <2>4 DEF OneTicket
  <2>9. SentOnce' /\ \A k \in Jobs : Fresh(k) => Fresh(k)'
    BY <1>u DEF OneTicket, SentOnce, Fresh
  <2> QED BY <1>3, <2>3, <2>6, <2>7, <2>8, <2>9 DEF OneTicket
<1>5. CASE held[j].machine \notin calls[c].known
  <2> DEFINE array == Ended(held, j, "failed")
             call == [[calls[c] EXCEPT !.todo = @ \ {j}] EXCEPT !.array = array]
  <2>1. Become(c, call) /\ rec' = Ended(held, j, "failed") /\ held = rec
    BY <1>2, <1>5
  <2>2. NoNewWaiting
    BY <1>a, <2>1, EndedWaits DEF RecordsOK
  <2> HIDE DEF array, held
  <2>3. call.at = "next" /\ call.todo \subseteq calls[c].todo
    BY <1>a, <1>1 DEF CallType
  <2> HIDE DEF call
  <2> QED BY <1>a, <1>u, <1>1, <2>1, <2>2, <2>3, ShrinkOK DEF Asking
<1> QED BY <1>4, <1>5

LEMMA retrySkippedJobTicket ==
  ASSUME TypeOK, OneTicket, NEW c \in Calls, retrySkippedJob(c)
  PROVE  OneTicket'
<1>a. CallsOK /\ RecordsOK /\ calls[c].kind = "retry"
  BY Parts DEF retrySkippedJob
<1>1. next \in Jobs
  BY <1>a, BoundsAssumption DEF retrySkippedJob, RecordsOK, Jobs
<1>2. PICK m \in calls[c].known :
        Become(c, [calls[c] EXCEPT !.at = "push", !.job = next, !.machine = m, !.known = @ \ {m}])
  BY DEF retrySkippedJob
<1> DEFINE call == [calls[c] EXCEPT !.at = "push", !.job = next, !.machine = m, !.known = @ \ {m}]
<1>3. call.at = "push" /\ call.job = next
  BY <1>a, OfCall DEF CallType
<1>4. Become(c, call)
  BY <1>2
<1> HIDE DEF call
<1>5. next' = next + 1 /\ runs' = runs /\ NoNewWaiting
  BY SameWaits DEF retrySkippedJob, agentVars
<1> QED BY <1>1, <1>3, <1>4, <1>5, GrowOK DEF Draining

LEMMA ManualTicket ==
  ASSUME TypeOK, OneTicket, NEW m \in Machines, NEW c \in Calls, Manual(m, c)
  PROVE  OneTicket'
<1>1. next \in Jobs
  BY Parts, IdsLeftBound DEF Manual, RecordsOK
<1> DEFINE call == [Call("preflight", "manual") EXCEPT !.job = next, !.machine = m, !.array = rec]
<1>2. Become(c, call) /\ next' = next + 1 /\ runs' = runs /\ NoNewWaiting
  BY SameWaits DEF Manual, agentVars
<1>3. call.at = "preflight" /\ call.job = next
  BY DEF Call, Idle
<1> HIDE DEF call
<1> QED BY <1>1, <1>2, <1>3, GrowOK DEF Draining

LEMMA RetryRunTicket ==
  ASSUME TypeOK, OneTicket, NEW j \in Jobs, NEW c \in Calls, RetryRun(j, c)
  PROVE  OneTicket'
<1>1. next \in Jobs
  BY Parts, IdsLeftBound DEF RetryRun, RecordsOK
<1> DEFINE todo == IF rec[j].status = "failed" THEN {j} ELSE {}
           call == [Call("claim", "again") EXCEPT !.job = next, !.machine = rec[j].machine, !.todo = todo]
<1>2. Become(c, call) /\ next' = next + 1 /\ runs' = runs /\ NoNewWaiting
  BY SameWaits DEF RetryRun, agentVars
<1>3. call.at = "claim" /\ call.job = next
  BY DEF Call, Idle
<1> HIDE DEF call
<1> QED BY <1>1, <1>2, <1>3, GrowOK DEF Draining

LEMMA CheckStatusTicket ==
  ASSUME TypeOK, OneTicket, NEW c \in Calls, CheckStatus(c)
  PROVE  OneTicket'
<1>a. CallsOK /\ calls[c].at = "check"
  BY Parts DEF CheckStatus, At
<1>u. UNCHANGED <<next, runs>> /\ NoNewWaiting
  BY SameWaits DEF CheckStatus, recordVars, agentVars
<1>1. Go(c, "remove") \/ Go(c, "trigger")
  BY DEF CheckStatus
<1>2. CASE Go(c, "remove")
  BY <1>a, <1>u, <1>2, GoTicket DEF Asking
<1>3. CASE Go(c, "trigger")
  BY <1>a, <1>u, <1>3, GoTicket DEF Asking
<1> QED BY <1>1, <1>2, <1>3

LEMMA AnsweredTicket ==
  ASSUME TypeOK, OneTicket, NEW c \in Calls, Answered(c)
  PROVE  OneTicket'
<1>a. CallsOK /\ calls[c].at = "accepted"
  BY Parts DEF Answered, At
<1>u. UNCHANGED <<next, runs>> /\ NoNewWaiting
  BY SameWaits DEF Answered, recordVars, agentVars
<1>1. CASE calls[c].kind = "fire"
  <2>1. Become(c, Idle)
    BY <1>1 DEF Answered
  <2> QED BY <1>a, <1>u, <2>1, IdleTicket
<1>2. CASE calls[c].kind = "drain"
  <2>1. Go(c, "next")
    BY <1>2 DEF Answered, Go
  <2> QED BY <1>a, <1>u, <2>1, GoTicket DEF Asking
<1>3. CASE calls[c].kind \notin {"fire", "drain"}
  <2>1. Go(c, "mark")
    BY <1>3 DEF Answered, Go
  <2> QED BY <1>a, <1>u, <2>1, GoTicket DEF Asking
<1> QED BY <1>1, <1>2, <1>3

LEMMA RefuseTicket ==
  ASSUME TypeOK, OneTicket, NEW c \in Calls, Refuse(c)
  PROVE  OneTicket'
<1>a. CallsOK /\ calls[c].at = "trigger"
  BY Parts DEF Refuse, At
<1>u. UNCHANGED <<next, runs>> /\ NoNewWaiting
  BY SameWaits DEF Refuse, recordVars, agentVars
<1>1. CASE calls[c].kind \in {"retry", "again"}
  <2> DEFINE call == [calls[c] EXCEPT !.at = "drop", !.todo = {}]
  <2>1. Become(c, call)
    BY <1>1 DEF Refuse
  <2>2. call.at = "drop"
    BY <1>a, OfCall DEF CallType
  <2> HIDE DEF call
  <2> QED BY <1>a, <1>u, <2>1, <2>2, EndTicket DEF Asking, Draining
<1>2. CASE calls[c].kind \notin {"retry", "again"}
  <2>1. Go(c, "failed")
    BY <1>2 DEF Refuse, Go
  <2> QED BY <1>a, <1>u, <2>1, GoTicket DEF Asking
<1> QED BY <1>1, <1>2

LEMMA LostTicket ==
  ASSUME TypeOK, OneTicket, NEW c \in Calls, Unreachable(c) \/ Unanswered(c)
  PROVE  OneTicket'
<1>a. CallsOK /\ calls[c].at \in {"trigger", "accepted"} /\ Go(c, "failed")
  BY Parts DEF Unreachable, Unanswered, At
<1>u. UNCHANGED <<next, runs>> /\ NoNewWaiting
  BY SameWaits DEF Unreachable, Unanswered, recordVars, agentVars
<1> QED BY <1>a, <1>u, GoTicket DEF Asking

LEMMA FailedTicket ==
  ASSUME TypeOK, OneTicket, NEW c \in Calls, Failed(c)
  PROVE  OneTicket'
<1>a. CallsOK /\ RecordsOK /\ calls[c].at = "failed"
  BY Parts DEF Failed, At
<1>u. UNCHANGED <<next, runs>>
  BY DEF Failed, agentVars
<1>1. CASE calls[c].kind \in {"drain", "retry"}
  <2> DEFINE held == IF calls[c].kind = "drain" THEN Ended(calls[c].array, calls[c].job, "failed")
                     ELSE calls[c].array
             call == [calls[c] EXCEPT !.at = "next", !.array = held]
  <2>1. rec' = Ended(rec, calls[c].job, "failed") \/ rec' = rec
    BY <1>1 DEF Failed
  <2>2. NoNewWaiting
    BY <1>a, <2>1, SameWaits, EndedWaits DEF RecordsOK
  <2>3. Become(c, call)
    BY <1>1 DEF Failed
  <2> HIDE DEF held
  <2>4. call.at = "next" /\ call.kind = calls[c].kind /\ call.todo = calls[c].todo
    BY <1>a, OfCall DEF CallType
  <2> HIDE DEF call
  <2>5. Draining(call) => Draining(calls[c])
    BY <1>a, <2>4 DEF Draining
  <2> QED BY <1>a, <1>u, <2>2, <2>3, <2>4, <2>5, ShrinkOK DEF Asking
<1>2. CASE calls[c].kind \notin {"drain", "retry"}
  <2>1. Go(c, "fail") /\ NoNewWaiting
    BY <1>2, SameWaits DEF Failed
  <2> QED BY <1>a, <1>u, <2>1, GoTicket DEF Asking
<1> QED BY <1>1, <1>2

LEMMA LoopEndsTicket ==
  ASSUME TypeOK, OneTicket, NEW c \in Calls, LoopEnds(c)
  PROVE  OneTicket'
BY Parts, SameWaits, IdleTicket DEF LoopEnds, recordVars, agentVars

LEMMA HostUpTicket ==
  ASSUME TypeOK, OneTicket, NEW c \in Calls, HostUp(c)
  PROVE  OneTicket'
<1>u. UNCHANGED <<next, runs>> /\ NoNewWaiting
  BY SameWaits DEF HostUp, agentVars
<1>1. CASE UNCHANGED calls
  BY <1>u, <1>1, SameOK
<1>2. CASE Become(c, [Call("next", "retry") EXCEPT !.known = Missed])
  <2> DEFINE call == [Call("next", "retry") EXCEPT !.known = Missed]
  <2>1. call.at = "next" /\ call.kind = "retry"
    BY DEF Call, Idle
  <2>2. Become(c, call)
    BY <1>2
  <2> HIDE DEF call
  <2> QED BY <1>u, <2>1, <2>2, Parts, EndTicket DEF Asking, Draining
<1> QED BY <1>1, <1>2 DEF HostUp

LEMMA PreflightTicket ==
  ASSUME TypeOK, OneTicket, NEW c \in Calls, Preflight(c)
  PROVE  OneTicket'
<1>a. CallsOK /\ calls[c].at = "preflight"
  BY Parts DEF Preflight, At
<1>u. UNCHANGED <<next, runs>> /\ NoNewWaiting
  BY SameWaits DEF Preflight, recordVars, agentVars
<1>1. Become(c, Idle) \/ Go(c, "push")
  BY DEF Preflight
<1>2. CASE Become(c, Idle)
  BY <1>a, <1>u, <1>2, IdleTicket
<1>3. CASE Go(c, "push")
  BY <1>a, <1>u, <1>3, GoTicket DEF Asking
<1> QED BY <1>1, <1>2, <1>3

LEMMA UpdateTicket ==
  ASSUME TypeOK, OneTicket, NEW j \in Jobs, NEW c \in Calls, Update(j, c)
  PROVE  OneTicket'
<1>a. CallsOK /\ RecordsOK /\ AgentOK
  BY Parts
<1>u. UNCHANGED <<next, runs>>
  BY DEF Update
<1>1. mail[j] # "waiting"
  BY <1>a DEF AgentOK
<1>2. CASE Stored(rec, j)
  <2>1. rec' = Ended(rec, j, mail[j]) /\ Become(c, Call("drain", "drain"))
    BY <1>2 DEF Update
  <2>2. NoNewWaiting
    BY <1>a, <1>1, <2>1, EndedWaits DEF RecordsOK
  <2> QED BY <1>a, <1>u, <2>1, <2>2, IdleTicket
<1>3. CASE ~Stored(rec, j)
  BY <1>u, <1>3, SameWaits, SameOK DEF Update
<1> QED BY <1>2, <1>3

LEMMA reconcileAndDrainAllHostsTicket ==
  ASSUME TypeOK, OneTicket, NEW c \in Calls, reconcileAndDrainAllHosts(c)
  PROVE  OneTicket'
<1> DEFINE call == [Call("sync", "none") EXCEPT !.array = rec]
<1>1. call.at = "sync"
  BY DEF Call, Idle
<1>2. Become(c, call) /\ UNCHANGED <<next, runs>> /\ NoNewWaiting
  BY SameWaits DEF reconcileAndDrainAllHosts, recordVars, agentVars
<1> HIDE DEF call
<1> QED BY <1>1, <1>2, Parts, EndTicket DEF Asking, Draining

LEMMA syncHostTicket ==
  ASSUME TypeOK, OneTicket, NEW c \in Calls, syncHost(c)
  PROVE  OneTicket'
<1>a. CallsOK /\ RecordsOK
  BY Parts
<1> DEFINE call == [calls[c] EXCEPT !.at = "sweep", !.array = <<>>]
<1>1. call.at = "sweep"
  BY <1>a, OfCall DEF CallType
<1>2. Become(c, call) /\ UNCHANGED <<next, runs>>
  BY DEF syncHost, agentVars
<1> HIDE DEF call
<1>3. ASSUME NEW j \in Jobs, Waits(j)' PROVE Waits(j)
  <2>1. rec'[j] = [rec[j] EXCEPT !.status = Verdict(j)] \/ rec'[j] = rec[j]
    BY DEF syncHost
  <2>2. Verdict(j) # "waiting"
    BY DEF Verdict
  <2>3. [rec[j] EXCEPT !.status = Verdict(j)].status = Verdict(j)
    BY <1>a, OfRecord DEF RecordsOK, Record
  <2> QED BY <1>3, <2>1, <2>2, <2>3 DEF Waits
<1> QED BY <1>a, <1>1, <1>2, <1>3, EndTicket DEF Asking, Draining, NoNewWaiting

LEMMA DayPassesTicket == TypeOK /\ OneTicket /\ DayPasses => OneTicket'
<1> SUFFICES ASSUME TypeOK, OneTicket, DayPasses PROVE OneTicket'
  OBVIOUS
<1>1. \A j \in Jobs : rec[j] \in Record /\ rec'[j] = [rec[j] EXCEPT !.old = Stored(rec, j)]
  BY OfRecord DEF DayPasses, TypeOK
<1>2. NoNewWaiting
  BY <1>1 DEF NoNewWaiting, Waits, Record
<1> QED BY <1>2, SameOK DEF DayPasses, agentVars

LEMMA OperatorTicket ==
  ASSUME TypeOK, OneTicket, HostDown \/ (\E m \in Machines : End(m) \/ DeleteSchedule(m))
  PROVE  OneTicket'
BY SameWaits, SameOK DEF HostDown, End, DeleteSchedule, recordVars, agentVars

-----------------------------------------------------------------------------
LEMMA InitTicket == Init => OneTicket
<1> SUFFICES ASSUME Init PROVE OneTicket
  OBVIOUS
<1>1. \A c \in Calls : calls[c].at = "idle"
  BY DEF Init, Idle
<1>2. SentOnce
  BY DEF Init, SentOnce
<1>3. \A j \in Jobs : ~Waits(j)
  BY DEF Init, Waits, NoRecord
<1> QED BY <1>1, <1>2, <1>3 DEF OneTicket, Holds, Listed, Draining, Asking

LEMMA StepTicket ==
  ASSUME TypeOK, OneTicket, NEW c \in Calls, Step(c), ~stale'
  PROVE  OneTicket'
BY ReserveTicket, CheckStatusTicket, AcceptTicket, AnsweredTicket, RefuseTicket, FailedTicket,
   ReadJobsTicket, SaveJobsTicket, releaseConcurrentSlotsOnHostTicket, startQueuedJobTicket,
   LoopEndsTicket, retrySkippedJobTicket, PreflightTicket, syncHostTicket DEF Step

\* What a save has undone stays undone.
LEMMA StaleStays ==
  ASSUME TypeOK, stale, [Next]_vars
  PROVE  stale'
<1>1. CASE HostDown \/ DayPasses
  BY <1>1 DEF HostDown, DayPasses
<1>2. ASSUME NEW c \in Calls, Step(c) PROVE stale'
  <2>1. CASE SaveJobs(c) \/ startQueuedJob(c)
    BY <2>1 DEF SaveJobs, startQueuedJob
  <2>2. CASE Reserve(c)
    BY <2>2 DEF Reserve
  <2>3. CASE CheckStatus(c) \/ Accept(c) \/ Answered(c) \/ Refuse(c) \/ Failed(c)
    BY <2>3 DEF CheckStatus, Accept, Answered, Refuse, Failed, historyVars
  <2>4. CASE \/ ReadJobs(c) \/ releaseConcurrentSlotsOnHost(c) \/ LoopEnds(c)
             \/ retrySkippedJob(c) \/ Preflight(c) \/ syncHost(c)
    BY <2>4 DEF ReadJobs, releaseConcurrentSlotsOnHost, LoopEnds, retrySkippedJob, Preflight,
                syncHost, historyVars
  <2> QED BY <1>2, <2>1, <2>2, <2>3, <2>4 DEF Step
<1>3. ASSUME NEW c \in Calls, Unreachable(c) \/ Unanswered(c) \/ HostUp(c)
                                \/ reconcileAndDrainAllHosts(c)
      PROVE  stale'
  BY <1>3 DEF Unreachable, Unanswered, HostUp, reconcileAndDrainAllHosts, historyVars
<1>4. ASSUME NEW m \in Machines, End(m) \/ DeleteSchedule(m) PROVE stale'
  BY <1>4 DEF End, DeleteSchedule, historyVars
<1>5. ASSUME NEW m \in Machines, NEW c \in Calls, executeScheduledBackup(m, c) \/ Manual(m, c)
      PROVE  stale'
  BY <1>5 DEF executeScheduledBackup, Manual, historyVars
<1>6. ASSUME NEW j \in Jobs, NEW c \in Calls, Update(j, c) \/ RetryRun(j, c) PROVE stale'
  BY <1>6 DEF Update, RetryRun, historyVars
<1>7. CASE UNCHANGED vars
  BY <1>7 DEF vars
<1> QED BY <1>1, <1>2, <1>3, <1>4, <1>5, <1>6, <1>7 DEF Next

\* No job is sent to the agent twice by fires, drains, retries and operators
\* together, as long as no save of a whole array undid what was recorded of one
\* (the running patch of _startQueuedJob, before it asks the agent).
THEOREM NoDoubleStart == Spec => []StartedOnce
<1> DEFINE Inv == stale \/ OneTicket
<1>1. Init => Inv
  BY InitTicket
<1>2. TypeOK /\ Inv /\ [Next]_vars => Inv'
  <2> SUFFICES ASSUME TypeOK, Inv, [Next]_vars, ~stale' PROVE OneTicket'
    OBVIOUS
  <2>a. OneTicket
    BY StaleStays
  <2>1. CASE HostDown \/ DayPasses
    BY <2>a, <2>1, OperatorTicket, DayPassesTicket
  <2>2. ASSUME NEW c \in Calls, Step(c) PROVE OneTicket'
    BY <2>a, <2>2, StepTicket
  <2>3. ASSUME NEW c \in Calls, Unreachable(c) \/ Unanswered(c) \/ HostUp(c)
                                  \/ reconcileAndDrainAllHosts(c)
        PROVE  OneTicket'
    BY <2>a, <2>3, LostTicket, HostUpTicket, reconcileAndDrainAllHostsTicket
  <2>4. ASSUME NEW m \in Machines, End(m) \/ DeleteSchedule(m) PROVE OneTicket'
    BY <2>a, <2>4, OperatorTicket
  <2>5. ASSUME NEW m \in Machines, NEW c \in Calls, executeScheduledBackup(m, c) \/ Manual(m, c)
        PROVE  OneTicket'
    BY <2>a, <2>5, executeScheduledBackupTicket, ManualTicket
  <2>6. ASSUME NEW j \in Jobs, NEW c \in Calls, Update(j, c) \/ RetryRun(j, c) PROVE OneTicket'
    BY <2>a, <2>6, UpdateTicket, RetryRunTicket
  <2>7. CASE UNCHANGED vars
    BY <2>a, <2>7, SameWaits, SameOK DEF vars
  <2> QED BY <2>1, <2>2, <2>3, <2>4, <2>5, <2>6, <2>7 DEF Next
<1>3. Inv => StartedOnce
  BY DEF OneTicket, SentOnce, StartedOnce
<1> QED BY <1>1, <1>2, <1>3, TypeInvariant, PTL DEF Spec

-----------------------------------------------------------------------------
(***************************************************************************)
(* The limit of the host.  While no save undid another and no answer was   *)
(* lost, a job that was given a slot and runs is recorded as holding one,  *)
(* each job is the business of one call, what is not sent yet did not run, *)
(* and the slots given, with those a drain is about to give, are within    *)
(* the limit.                                                              *)
(***************************************************************************)
Early == {"slot", "claim", "push", "preflight"}
Unsent == Early \cup {"check", "trigger", "failed", "fail", "drop", "remove"}

\* The record of j was made, and j does not wait: it will be given no slot any more.
Settled(j) ==
  /\ j < next /\ rec[j].status # "waiting"
  /\ \A c \in Calls : calls[c].at \in Early => calls[c].job # j
Retirable(j) == Settled(j) /\ (j \in slotted => rec[j].status \notin Occupying)

Owned(c) ==
  calls[c].job # NoJob =>
    /\ calls[c].job < next /\ rec[calls[c].job].status # "waiting"
    /\ \A d \in Calls : calls[d].job = calls[c].job => d = c
EarlyOK(c) ==
  calls[c].at \in Early =>
    /\ rec[calls[c].job].status = "none" /\ calls[c].job \notin slotted
    /\ calls[c].at = "claim" => calls[c].kind = "again"
UnsentOK(c) == calls[c].at \in Unsent => runs[calls[c].job] = 0
\* The record of a job that was given a slot and is about to be sent.
Granted(r, kind) == ~r.old /\ (r.status = "running" \/ (r.status = "queued" /\ kind = "again"))
GrantedOK(c) ==
  calls[c].at \in {"check", "trigger"} /\ calls[c].job \in slotted =>
    Granted(rec[calls[c].job], calls[c].kind)
ListOK(c) == Draining(calls[c]) => \A j \in calls[c].todo : rec[j].status = "waiting"
RetireOK(c) == ~Draining(calls[c]) => \A j \in calls[c].todo : Retirable(j)
SyncOK(c) ==
  calls[c].at = "sync" =>
    \A j \in Jobs : calls[c].array[j].status \in Occupying => Settled(j)
ClaimOK(c) == calls[c].at = "claim" /\ calls[c].array # <<>> => Claimable(calls[c])
CallPart(c) ==
  /\ Owned(c) /\ EarlyOK(c) /\ UnsentOK(c) /\ GrantedOK(c)
  /\ ListOK(c) /\ RetireOK(c) /\ SyncOK(c) /\ ClaimOK(c)

\* An operator's retry that runs, and is not marked as running yet.
Marks(call, j) == call.at \in {"accepted", "mark"} /\ call.kind = "again" /\ call.job = j
JobPart(j) ==
  /\ j >= next => rec[j].status = "none" /\ j \notin slotted /\ runs[j] = 0
  /\ rec[j].status = "waiting" => runs[j] = 0
  /\ mail[j] # "none" => runs[j] # 0 /\ \A m \in Machines : run[m] # j
  /\ \A m \in Machines : run[m] = j =>
       /\ runs[j] # 0 /\ \A n \in Machines : run[n] = j => n = m
       /\ j \in slotted => \/ rec[j].status = "running"
                           \/ rec[j].status = "queued" /\ \E c \in Calls : Marks(calls[c], j)

Slots == {j \in slotted : rec[j].status \in Occupying /\ ~rec[j].old}
Quota ==
  Limit # 0 =>
    /\ Cardinality(Slots) <= Limit
    /\ \A c \in Calls : Draining(calls[c]) => Cardinality(Slots \cup calls[c].todo) <= Limit

SlotState == (\A c \in Calls : CallPart(c)) /\ (\A j \in Jobs : JobPart(j)) /\ Quota

-----------------------------------------------------------------------------
(* A step of a call c about a job i, or about none *)

\* What may happen to the other jobs.
Steady(j) ==
  /\ runs'[j] = runs[j] /\ mail'[j] \in {mail[j], "none"} /\ (j \in slotted' <=> j \in slotted)
  /\ \A m \in Machines : run'[m] = j <=> run[m] = j
  /\ rec'[j].status = "waiting" <=> rec[j].status = "waiting"
  /\ rec[j].status = "none" => rec'[j].status = "none"
  /\ j \in slotted /\ rec'[j].status \in Occupying =>
       rec[j].status \in Occupying /\ (~rec'[j].old => ~rec[j].old)
  /\ j \in slotted /\ (\E m \in Machines : run[m] = j) => rec'[j].status \in {rec[j].status, "running"}
  /\ j \in slotted /\ (\E d \in Calls : calls[d].at \in {"check", "trigger"} /\ calls[d].job = j) =>
       rec'[j] = rec[j]

\* Other calls stay where they are, and have nothing to do with i.
Apart(c, i) ==
  \A d \in Calls \ {c} :
    /\ calls'[d] = calls[d]
    /\ i # NoJob => calls[d].job # i /\ (Draining(calls[d]) => i \notin calls[d].todo)

\* The step deals with i only, and i is given a slot only if it may still be.
Touches(c, i) ==
  /\ Apart(c, i)
  /\ c \in Calls =>
       /\ calls'[c].job \in {i, NoJob, calls[c].job}
       /\ calls[c].job \in {i, NoJob} \/ calls[c].at \notin {"accepted", "mark"}
       /\ calls'[c].at \in Early =>
            \/ calls[c].at \in Early /\ calls[c].job = calls'[c].job
            \/ calls'[c].job >= next
  /\ next <= next' /\ next' \in Nat
  /\ \A j \in Jobs \ {i} : Steady(j)
  /\ i \in Jobs /\ Settled(i) =>
       /\ rec'[i].status # "waiting"
       /\ i \in slotted' /\ rec'[i].status \in Occupying => i \in slotted /\ rec[i].status \in Occupying

LEMMA SettledStays ==
  ASSUME TypeOK, NEW c, NEW i, Touches(c, i), NEW j \in Jobs, Settled(j)
  PROVE  Settled(j)'
<1>1. j < next'
  BY DEF Touches, Settled, TypeOK, Jobs
<1>2. rec'[j].status # "waiting"
  BY DEF Touches, Settled, Steady
<1>3. ASSUME NEW d \in Calls, calls'[d].at \in Early PROVE calls'[d].job # j
  <2>1. CASE d # c
    BY <1>3, <2>1 DEF Touches, Apart, Settled
  <2>2. CASE d = c /\ calls[c].at \in Early /\ calls[c].job = calls'[c].job
    BY <2>2 DEF Settled
  <2>3. CASE d = c /\ calls'[c].job >= next
    BY <2>3 DEF Settled, TypeOK, Jobs
  <2> QED BY <1>3, <2>1, <2>2, <2>3 DEF Touches
<1> QED BY <1>1, <1>2, <1>3 DEF Settled

LEMMA RetirableStays ==
  ASSUME TypeOK, NEW c, NEW i, Touches(c, i), NEW j \in Jobs, Retirable(j)
  PROVE  Retirable(j)'
<1>1. Settled(j) /\ Settled(j)'
  BY SettledStays DEF Retirable
<1>2. j \in slotted' /\ rec'[j].status \in Occupying => j \in slotted /\ rec[j].status \in Occupying
  BY <1>1 DEF Touches, Steady
<1> QED BY <1>1, <1>2 DEF Retirable

\* The calls that do not move keep what holds of them.
LEMMA OtherCall ==
  ASSUME TypeOK, NEW c, NEW i, Touches(c, i), NEW d \in Calls \ {c}, CallPart(d)
  PROVE  CallPart(d)'
<1>0. calls'[d] = calls[d] /\ calls[d] \in CallType /\ WellFormed(calls[d])
  BY OfCall DEF Touches, Apart, TypeOK
<1>1. Owned(d)'
  <2> SUFFICES ASSUME calls[d].job # NoJob
               PROVE  /\ calls[d].job < next' /\ rec'[calls[d].job].status # "waiting"
                      /\ \A e \in Calls : calls'[e].job = calls[d].job => e = d
    BY <1>0 DEF Owned
  <2>1. calls[d].job \in Jobs /\ calls[d].job # i
    BY <1>0 DEF CallType, Touches, Apart
  <2>2. calls[d].job < next'
    BY <2>1 DEF CallPart, Owned, Touches, TypeOK, Jobs
  <2>3. rec'[calls[d].job].status # "waiting"
    BY <2>1 DEF CallPart, Owned, Touches, Steady
  <2>4. ASSUME NEW e \in Calls, calls'[e].job = calls[d].job PROVE e = d
    <3>1. CASE e = c
      <4>1. calls[c].job = calls[d].job
        BY <2>1, <2>4, <3>1 DEF Touches, Jobs, NoJob
      <4> QED BY <2>1, <3>1, <4>1 DEF CallPart, Owned, Jobs, NoJob
    <3>2. CASE e # c
      BY <2>4, <3>2 DEF CallPart, Owned, Touches, Apart
    <3> QED BY <3>1, <3>2
  <2> QED BY <2>2, <2>3, <2>4
<1>2. calls[d].at \in Unsent => calls[d].job \in Jobs \ {i}
  BY <1>0 DEF Unsent, Early, WellFormed, Jobs, NoJob, Touches, Apart
<1>3. EarlyOK(d)'
  BY <1>0, <1>2 DEF CallPart, EarlyOK, Unsent, Touches, Steady
<1>4. UnsentOK(d)'
  BY <1>0, <1>2 DEF CallPart, UnsentOK, Touches, Steady
<1>5. GrantedOK(d)'
  <2> SUFFICES ASSUME calls[d].at \in {"check", "trigger"}, calls[d].job \in slotted'
               PROVE  Granted(rec'[calls[d].job], calls[d].kind)
    BY <1>0 DEF GrantedOK, Granted
  <2>1. Steady(calls[d].job)
    BY <1>2 DEF Unsent, Touches
  <2>2. calls[d].job \in slotted /\ rec'[calls[d].job] = rec[calls[d].job]
    BY <2>1 DEF Steady
  <2> QED BY <2>2 DEF CallPart, GrantedOK
<1>6. ListOK(d)'
  <2> SUFFICES ASSUME Draining(calls[d]), NEW j \in calls[d].todo PROVE rec'[j].status = "waiting"
    BY <1>0 DEF ListOK, Draining
  <2>1. j \in Jobs /\ j # i
    BY <1>0 DEF CallType, Touches, Apart, Jobs, NoJob
  <2> QED BY <2>1 DEF CallPart, ListOK, Touches, Steady
<1>7. RetireOK(d)'
  <2> SUFFICES ASSUME ~Draining(calls[d]), NEW j \in calls[d].todo PROVE Retirable(j)'
    BY <1>0 DEF RetireOK, Draining
  <2>1. j \in Jobs /\ Retirable(j)
    BY <1>0 DEF CallType, CallPart, RetireOK
  <2> QED BY <2>1, RetirableStays
<1>8. SyncOK(d)'
  <2> SUFFICES ASSUME calls[d].at = "sync", NEW j \in Jobs, calls[d].array[j].status \in Occupying
               PROVE  Settled(j)'
    BY <1>0 DEF SyncOK
  <2> QED BY SettledStays DEF CallPart, SyncOK
<1>9. ClaimOK(d)'
  BY <1>0 DEF CallPart, ClaimOK, Claimable, Full, countActiveJobsOnHost, Jobless
<1> QED BY <1>1, <1>3, <1>4, <1>5, <1>6, <1>7, <1>8, <1>9 DEF CallPart

LEMMA OtherJob ==
  ASSUME TypeOK, SlotState, NEW c, NEW i, Touches(c, i), NEW j \in Jobs \ {i}
  PROVE  JobPart(j)'
<1>0. Steady(j) /\ JobPart(j)
  BY DEF Touches, SlotState
<1>1. j >= next' => rec'[j].status = "none" /\ j \notin slotted' /\ runs'[j] = 0
  <2>1. j >= next' => j >= next
    BY DEF Touches, TypeOK, Jobs
  <2> QED BY <1>0, <2>1 DEF Steady, JobPart
<1>2. rec'[j].status = "waiting" => runs'[j] = 0
  BY <1>0 DEF Steady, JobPart
<1>3. mail'[j] # "none" => runs'[j] # 0 /\ \A m \in Machines : run'[m] # j
  BY <1>0 DEF Steady, JobPart
<1>4. ASSUME NEW m \in Machines, run'[m] = j
      PROVE  /\ runs'[j] # 0 /\ \A n \in Machines : run'[n] = j => n = m
             /\ j \in slotted' => \/ rec'[j].status = "running"
                                  \/ rec'[j].status = "queued" /\ \E d \in Calls : Marks(calls'[d], j)
  <2>1. run[m] = j /\ runs'[j] # 0 /\ \A n \in Machines : run'[n] = j => n = m
    BY <1>0, <1>4 DEF Steady, JobPart
  <2>2. ASSUME j \in slotted', rec'[j].status # "running"
        PROVE  rec'[j].status = "queued" /\ \E d \in Calls : Marks(calls'[d], j)
    <3>1. rec[j].status = rec'[j].status /\ j \in slotted
      BY <1>0, <2>1, <2>2 DEF Steady
    <3>2. rec[j].status = "queued" /\ \E d \in Calls : Marks(calls[d], j)
      BY <1>0, <2>1, <2>2, <3>1 DEF JobPart
    <3>3. PICK d \in Calls : Marks(calls[d], j)
      BY <3>2
    <3>4. d # c
      BY <3>3 DEF Marks, Touches, Jobs, NoJob
    <3> QED BY <3>1, <3>2, <3>3, <3>4 DEF Touches, Apart
  <2>3. \/ j \notin slotted' \/ rec'[j].status = "running"
        \/ rec'[j].status = "queued" /\ \E d \in Calls : Marks(calls'[d], j)
    BY <2>2
  <2> QED BY <2>1, <2>3
<1> QED BY <1>1, <1>2, <1>3, <1>4 DEF JobPart, Marks

LEMMA StepKeeps ==
  ASSUME TypeOK, SlotState, NEW c, NEW i, Touches(c, i),
         i \in Jobs => JobPart(i)', c \in Calls => CallPart(c)', Quota'
  PROVE  SlotState'
<1>1. ASSUME NEW d \in Calls PROVE CallPart(d)'
  BY OtherCall DEF SlotState
<1>2. ASSUME NEW j \in Jobs PROVE JobPart(j)'
  BY OtherJob
<1> QED BY <1>1, <1>2 DEF SlotState

-----------------------------------------------------------------------------
(* What a step of a call owes *)

LEMMA OwnApart ==
  ASSUME TypeOK, SlotState, NEW c \in Calls, NEW new, Become(c, new)
  PROVE  Apart(c, calls[c].job)
<1>1. \A d \in Calls \ {c} : calls'[d] = calls[d]
  BY Became DEF TypeOK
<1>2. ASSUME NEW d \in Calls \ {c}, calls[c].job # NoJob
      PROVE  calls[d].job # calls[c].job /\ (Draining(calls[d]) => calls[c].job \notin calls[d].todo)
  BY <1>2 DEF SlotState, CallPart, Owned, ListOK
<1> QED BY <1>1, <1>2 DEF Apart

LEMMA NextApart ==
  ASSUME TypeOK, SlotState, NEW c, next \in Jobs, \A d \in Calls \ {c} : calls'[d] = calls[d]
  PROVE  Apart(c, next)
<1>1. next >= next /\ next # NoJob
  BY DEF Jobs, NoJob
<1>2. rec[next].status = "none"
  BY <1>1 DEF SlotState, JobPart
<1>3. ASSUME NEW d \in Calls \ {c} PROVE calls[d].job # next
  <2>1. calls[d].job # NoJob => calls[d].job < next
    BY DEF SlotState, CallPart, Owned
  <2> QED BY <1>1, <2>1 DEF Jobs
<1>4. ASSUME NEW d \in Calls \ {c}, Draining(calls[d]) PROVE next \notin calls[d].todo
  BY <1>2, <1>4 DEF SlotState, CallPart, ListOK
<1> QED BY <1>3, <1>4 DEF Apart

LEMMA JobsAreFinite ==
  ASSUME NEW S \in SUBSET Jobs
  PROVE  IsFiniteSet(S) /\ Cardinality(S) \in Nat
<1>1. IsFiniteSet(Jobs)
  BY BoundsAssumption, FS_Interval DEF Jobs
<1>2. IsFiniteSet(S)
  BY <1>1, FS_Subset
<1> QED BY <1>2, FS_CardinalityType

LEMMA FewerJobs ==
  ASSUME NEW T \in SUBSET Jobs, NEW S \in SUBSET T, Cardinality(T) <= Limit
  PROVE  Cardinality(S) <= Limit
<1>1. IsFiniteSet(T) /\ Cardinality(T) \in Nat /\ Cardinality(S) \in Nat
  BY JobsAreFinite
<1>2. Cardinality(S) <= Cardinality(T)
  BY <1>1, FS_Subset
<1> QED BY <1>1, <1>2, BoundsAssumption

\* No slot is given.
LEMMA QuotaShrinks ==
  ASSUME TypeOK, Quota, Slots' \subseteq Slots,
         \A d \in Calls : Draining(calls'[d]) => Draining(calls[d]) /\ calls'[d].todo \subseteq calls[d].todo
  PROVE  Quota'
<1> SUFFICES ASSUME Limit # 0 PROVE Quota'
  BY DEF Quota
<1>1. Slots \subseteq Jobs /\ \A d \in Calls : calls[d].todo \subseteq Jobs
  BY DEF Slots, TypeOK, CallsOK, CallType
<1>2. Cardinality(Slots') <= Limit
  BY <1>1, FewerJobs DEF Quota
<1>3. ASSUME NEW d \in Calls, Draining(calls'[d]) PROVE Cardinality(Slots' \cup calls'[d].todo) <= Limit
  <2>1. Cardinality(Slots \cup calls[d].todo) <= Limit
    BY <1>3 DEF Quota
  <2>2. Slots' \cup calls'[d].todo \subseteq Slots \cup calls[d].todo
    BY <1>3
  <2> QED BY <1>1, <2>1, <2>2, FewerJobs
<1> QED BY <1>2, <1>3 DEF Quota, Draining

LEMMA SlotsShrink ==
  ASSUME TypeOK, TypeOK', NEW i, \A j \in Jobs \ {i} : Steady(j),
         i \in Slots' => i \in Slots
  PROVE  Slots' \subseteq Slots
<1> SUFFICES ASSUME NEW j \in Slots', j # i PROVE j \in Slots
  OBVIOUS
<1>1. j \in Jobs /\ j \in slotted' /\ rec'[j].status \in Occupying /\ ~rec'[j].old
  BY DEF Slots, TypeOK
<1> QED BY <1>1 DEF Steady, Slots

LEMMA OwnedNext ==
  ASSUME NEW c \in Calls, NEW i, Touches(c, i),
         calls'[c].job # NoJob =>
           calls'[c].job = i /\ i \in Jobs /\ i < next' /\ rec'[i].status # "waiting"
  PROVE  Owned(c)'
<1> SUFFICES ASSUME calls'[c].job # NoJob
             PROVE  /\ calls'[c].job < next' /\ rec'[calls'[c].job].status # "waiting"
                    /\ \A d \in Calls : calls'[d].job = calls'[c].job => d = c
  BY DEF Owned
<1>1. calls'[c].job = i
  BY DEF Touches
<1> QED BY <1>1 DEF Touches, Apart, Jobs, NoJob

\* A call that has nothing to send any more.
LEMMA PlainPart ==
  ASSUME TypeOK, NEW c \in Calls, CallPart(c), NEW i, Touches(c, i), Owned(c)',
         calls'[c].at \notin Unsent \cup {"sync"}, ~Draining(calls'[c]),
         \/ calls'[c].todo = {}
         \/ calls'[c].todo \subseteq calls[c].todo /\ ~Draining(calls[c])
  PROVE  CallPart(c)'
<1>1. EarlyOK(c)' /\ UnsentOK(c)' /\ GrantedOK(c)' /\ ListOK(c)' /\ SyncOK(c)' /\ ClaimOK(c)'
  BY DEF EarlyOK, UnsentOK, GrantedOK, ListOK, SyncOK, ClaimOK, Unsent, Early, Draining
<1>2. RetireOK(c)'
  <2> SUFFICES ASSUME NEW j \in calls'[c].todo PROVE Retirable(j)'
    BY DEF RetireOK
  <2>1. calls[c].todo \subseteq Jobs
    BY DEF TypeOK, CallsOK, CallType
  <2>2. j \in Jobs /\ Retirable(j)
    BY <2>1 DEF CallPart, RetireOK
  <2> QED BY <2>2, RetirableStays
<1> QED BY <1>1, <1>2 DEF CallPart

\* A step that changes nothing but its call.
PureStep == UNCHANGED <<rec, next, run, mail, runs, slotted>>

LEMMA PureSteady ==
  ASSUME PureStep
  PROVE  \A j \in Jobs : Steady(j)
BY DEF PureStep, Steady

LEMMA PureTouches ==
  ASSUME TypeOK, SlotState, NEW c \in Calls, NEW new, Become(c, new), PureStep,
         new.job \in {calls[c].job, NoJob},
         new.at \in Early => calls[c].at \in Early /\ new.job = calls[c].job
  PROVE  Touches(c, calls[c].job) /\ calls'[c] = new /\ Owned(c)'
<1>1. calls'[c] = new
  BY Became DEF TypeOK
<1>2. Apart(c, calls[c].job)
  BY OwnApart
<1>3. next <= next' /\ next' \in Nat
  BY DEF PureStep, TypeOK
<1>4. Touches(c, calls[c].job)
  BY <1>1, <1>2, <1>3, PureSteady DEF Touches, PureStep, Settled
<1>5. calls[c].job # NoJob => calls[c].job \in Jobs /\ calls[c].job < next /\ rec[calls[c].job].status # "waiting"
  BY DEF SlotState, CallPart, Owned, TypeOK, CallsOK, CallType
<1>6. Owned(c)'
  BY <1>1, <1>4, <1>5, OwnedNext DEF PureStep
<1> QED BY <1>1, <1>4, <1>6

LEMMA PureKeeps ==
  ASSUME TypeOK, TypeOK', SlotState, NEW c \in Calls, NEW new, Become(c, new), PureStep,
         new.job \in {calls[c].job, NoJob},
         new.at \in Early => calls[c].at \in Early /\ new.job = calls[c].job,
         \A j \in Jobs : Marks(calls[c], j) => Marks(new, j) \/ rec[j].status # "queued",
         Draining(new) => Draining(calls[c]) /\ new.todo \subseteq calls[c].todo,
         CallPart(c)'
  PROVE  SlotState'
<1>1. Touches(c, calls[c].job) /\ calls'[c] = new
  BY PureTouches
<1>2. ASSUME NEW j \in Jobs PROVE JobPart(j)'
  <2>0. JobPart(j)
    BY DEF SlotState
  <2>1. ASSUME rec[j].status = "queued", \E d \in Calls : Marks(calls[d], j)
        PROVE  \E d \in Calls : Marks(calls'[d], j)
    <3>1. PICK d \in Calls : Marks(calls[d], j)
      BY <2>1
    <3>2. CASE d = c
      BY <1>1, <2>1, <3>1, <3>2
    <3>3. CASE d # c
      BY <1>1, <3>1, <3>3 DEF Touches, Apart
    <3> QED BY <3>2, <3>3
  <2> QED BY <2>0, <2>1 DEF PureStep, JobPart, Marks
<1>3. Slots' \subseteq Slots
  BY DEF PureStep, Slots
<1>4. \A d \in Calls : Draining(calls'[d]) => Draining(calls[d]) /\ calls'[d].todo \subseteq calls[d].todo
  BY <1>1 DEF Touches, Apart
<1>5. Quota'
  BY <1>3, <1>4, QuotaShrinks DEF SlotState
<1> QED BY <1>1, <1>2, <1>5, StepKeeps

\* A call that sends nothing any more, the records as they were.
LEMMA PlainKeeps ==
  ASSUME TypeOK, TypeOK', SlotState, NEW c \in Calls, NEW new, Become(c, new), PureStep,
         new.job \in {calls[c].job, NoJob}, new.at \notin Unsent \cup {"sync"}, ~Draining(new),
         new.todo = {} \/ (new.todo \subseteq calls[c].todo /\ ~Draining(calls[c])),
         \A j \in Jobs : Marks(calls[c], j) => Marks(new, j) \/ rec[j].status # "queued"
  PROVE  SlotState'
<1>1. new.at \notin Early
  BY DEF Unsent
<1>2. Touches(c, calls[c].job) /\ calls'[c] = new /\ Owned(c)'
  BY <1>1, PureTouches
<1>3. CallPart(c)'
  BY <1>2, PlainPart DEF SlotState
<1> QED BY <1>1, <1>3, PureKeeps

LEMMA IdleFacts ==
  /\ Idle.at = "idle" /\ Idle.job = NoJob /\ Idle.todo = {} /\ ~Draining(Idle)
  /\ Call("drain", "drain").at = "drain" /\ Call("drain", "drain").job = NoJob
  /\ Call("drain", "drain").todo = {} /\ ~Draining(Call("drain", "drain"))
  /\ {"idle", "drain"} \cap (Unsent \cup {"sync"}) = {}
BY DEF Idle, Call, Draining, Unsent, Early

LEMMA IdleKeeps ==
  ASSUME TypeOK, TypeOK', SlotState, NEW c \in Calls, PureStep,
         Become(c, Idle) \/ Become(c, Call("drain", "drain")),
         calls[c].at \notin {"accepted", "mark"} \/ calls[c].kind # "again"
  PROVE  SlotState'
<1>1. \A j \in Jobs : ~Marks(calls[c], j)
  BY DEF Marks
<1>2. CASE Become(c, Idle)
  BY <1>1, <1>2, IdleFacts, PlainKeeps
<1>3. CASE Become(c, Call("drain", "drain"))
  BY <1>1, <1>3, IdleFacts, PlainKeeps
<1> QED BY <1>2, <1>3

\* A call on its way to the agent, or back from it without an answer.
LEMMA GoKeeps ==
  ASSUME TypeOK, TypeOK', SlotState, NEW c \in Calls, NEW place, Go(c, place), PureStep,
         calls[c].at \in Unsent, place \in Unsent,
         place \in Early => calls[c].at \in Early /\ place # "claim",
         place \in {"check", "trigger"} => calls[c].at \in {"check", "trigger"}
  PROVE  SlotState'
<1>1. PICK new : new = [calls[c] EXCEPT !.at = place]
  OBVIOUS
<1>2. /\ new.at = place /\ new.kind = calls[c].kind /\ new.job = calls[c].job
      /\ new.todo = calls[c].todo /\ Become(c, new)
  BY <1>1 DEF Go, TypeOK, CallsOK, CallType
<1>3. Touches(c, calls[c].job) /\ calls'[c] = new /\ Owned(c)'
  BY <1>2, PureTouches
<1>4. calls[c].at # "drain" /\ CallPart(c) /\ WellFormed(calls[c])
  BY OfCall DEF SlotState, TypeOK, Unsent, Early
<1>5. Draining(new) => Draining(calls[c])
  BY <1>2, <1>4 DEF Draining, WellFormed
<1>6. Draining(calls[c]) => Draining(new)
  <2>1. CASE place \in {"trigger", "failed"}
    BY <1>2, <2>1 DEF Draining
  <2>2. CASE place \notin {"trigger", "failed"}
    <3>1. calls'[c].at = place /\ calls'[c].kind = calls[c].kind
      BY <1>2, <1>3
    <3>2. WellFormed(calls[c])'
      BY OfCall DEF TypeOK, CallsOK
    <3>3. calls[c].kind # "drain"
      BY <2>2, <3>1, <3>2 DEF WellFormed, Draining, Unsent, Early
    <3> QED BY <3>3 DEF Draining
  <2> QED BY <2>1, <2>2
<1>7. CallPart(c)'
  <2>1. EarlyOK(c)' /\ UnsentOK(c)' /\ SyncOK(c)'
    BY <1>2, <1>3, <1>4 DEF PureStep, CallPart, EarlyOK, UnsentOK, SyncOK, Unsent, Early
  <2>2. GrantedOK(c)'
    BY <1>2, <1>3, <1>4 DEF PureStep, CallPart, GrantedOK, Granted
  <2>3. ListOK(c)'
    BY <1>2, <1>3, <1>4, <1>5 DEF PureStep, CallPart, ListOK, Draining
  <2>4. ClaimOK(c)'
    BY <1>2, <1>3 DEF ClaimOK, Early
  <2>5. RetireOK(c)'
    <3> SUFFICES ASSUME ~Draining(calls[c]), NEW j \in calls[c].todo PROVE Retirable(j)'
      BY <1>2, <1>3, <1>6 DEF RetireOK, Draining
    <3>1. j \in Jobs /\ Retirable(j)
      BY <1>4 DEF CallPart, RetireOK, TypeOK, CallsOK, CallType
    <3> QED BY <1>3, <3>1, RetirableStays
  <2> QED BY <1>3, <2>1, <2>2, <2>3, <2>4, <2>5 DEF CallPart
<1>8. \A j \in Jobs : ~Marks(calls[c], j)
  BY DEF Marks, Unsent, Early
<1> QED BY <1>2, <1>5, <1>7, <1>8, PureKeeps

-----------------------------------------------------------------------------
(* Steps that leave the records alone *)

LEMMA CheckStatusKeeps ==
  ASSUME TypeOK, TypeOK', SlotState, NEW c \in Calls, CheckStatus(c)
  PROVE  SlotState'
<1>1. calls[c].at = "check" /\ PureStep /\ (Go(c, "remove") \/ Go(c, "trigger"))
  BY DEF CheckStatus, At, PureStep, recordVars, agentVars, historyVars
<1>2. calls[c].at \in Unsent /\ {"remove", "trigger"} \subseteq Unsent \ Early
  BY <1>1 DEF Unsent, Early
<1> QED BY <1>1, <1>2, GoKeeps

LEMMA UnreachableKeeps ==
  ASSUME TypeOK, TypeOK', SlotState, NEW c \in Calls, Unreachable(c)
  PROVE  SlotState'
<1>1. calls[c].at = "trigger" /\ PureStep /\ Go(c, "failed")
  BY DEF Unreachable, At, PureStep, recordVars, agentVars
<1>2. calls[c].at \in Unsent /\ "failed" \in Unsent \ Early
  BY <1>1 DEF Unsent, Early
<1> QED BY <1>1, <1>2, GoKeeps

LEMMA PreflightKeeps ==
  ASSUME TypeOK, TypeOK', SlotState, NEW c \in Calls, Preflight(c)
  PROVE  SlotState'
<1>1. calls[c].at = "preflight" /\ PureStep
  BY DEF Preflight, At, PureStep, recordVars, agentVars, historyVars
<1>2. CASE Go(c, "push")
  BY <1>1, <1>2, GoKeeps DEF Unsent, Early
<1>3. CASE Become(c, Idle)
  BY <1>1, <1>3, IdleKeeps
<1> QED BY <1>2, <1>3 DEF Preflight

LEMMA AnsweredKeeps ==
  ASSUME TypeOK, TypeOK', SlotState, NEW c \in Calls, Answered(c)
  PROVE  SlotState'
<1>1. calls[c].at = "accepted" /\ PureStep
  BY DEF Answered, At, PureStep, recordVars, agentVars, historyVars
<1>2. CASE calls[c].kind = "fire"
  <2>1. Become(c, Idle)
    BY <1>2 DEF Answered
  <2> QED BY <1>1, <1>2, <2>1, IdleKeeps
<1>3. CASE calls[c].kind = "drain"
  <2>1. PICK new : new = [calls[c] EXCEPT !.at = "next"]
    OBVIOUS
  <2>2. /\ new.at = "next" /\ new.kind = "drain" /\ new.job = calls[c].job
        /\ new.todo = calls[c].todo /\ Become(c, new)
    BY <1>3, <2>1 DEF Answered, TypeOK, CallsOK, CallType
  <2>3. new.at \notin Early /\ Draining(calls[c]) /\ Draining(new)
    BY <1>1, <1>3, <2>2 DEF Early, Draining
  <2>4. Touches(c, calls[c].job) /\ calls'[c] = new /\ Owned(c)'
    BY <1>1, <2>2, <2>3, PureTouches
  <2>5. EarlyOK(c)' /\ UnsentOK(c)' /\ GrantedOK(c)' /\ SyncOK(c)' /\ ClaimOK(c)'
    BY <2>2, <2>4 DEF EarlyOK, UnsentOK, GrantedOK, SyncOK, ClaimOK, Unsent, Early
  <2>6. ListOK(c)' /\ RetireOK(c)'
    BY <1>1, <2>2, <2>3, <2>4 DEF SlotState, CallPart, ListOK, RetireOK, PureStep, Draining
  <2>7. CallPart(c)'
    BY <2>4, <2>5, <2>6 DEF CallPart
  <2>8. \A j \in Jobs : ~Marks(calls[c], j)
    BY <1>3 DEF Marks
  <2> QED BY <1>1, <2>2, <2>3, <2>7, <2>8, PureKeeps
<1>4. CASE calls[c].kind \notin {"fire", "drain"}
  <2>1. PICK new : new = [calls[c] EXCEPT !.at = "mark"]
    OBVIOUS
  <2>2. /\ new.at = "mark" /\ new.kind = calls[c].kind /\ new.job = calls[c].job
        /\ new.todo = calls[c].todo /\ Become(c, new)
    BY <1>4, <2>1 DEF Answered, TypeOK, CallsOK, CallType
  <2>3. new.at \notin Unsent \cup {"sync"} /\ ~Draining(calls[c]) /\ ~Draining(new)
    BY <1>4, <2>2 DEF Unsent, Early, Draining
  <2>4. \A j \in Jobs : Marks(calls[c], j) => Marks(new, j)
    BY <2>2 DEF Marks
  <2> QED BY <1>1, <2>2, <2>3, <2>4, PlainKeeps
<1> QED BY <1>2, <1>3, <1>4

LEMMA RefuseKeeps ==
  ASSUME TypeOK, TypeOK', SlotState, NEW c \in Calls, Refuse(c)
  PROVE  SlotState'
<1>1. calls[c].at = "trigger" /\ PureStep
  BY DEF Refuse, At, PureStep, recordVars, agentVars, historyVars
<1>2. CASE calls[c].kind \notin {"retry", "again"}
  <2>1. Go(c, "failed")
    BY <1>2 DEF Refuse, Go
  <2> QED BY <1>1, <2>1, GoKeeps DEF Unsent, Early
<1>3. CASE calls[c].kind \in {"retry", "again"}
  <2>1. PICK new : new = [calls[c] EXCEPT !.at = "drop", !.todo = {}]
    OBVIOUS
  <2>2. /\ new.at = "drop" /\ new.kind = calls[c].kind /\ new.job = calls[c].job
        /\ new.todo = {} /\ Become(c, new)
    BY <1>3, <2>1 DEF Refuse, TypeOK, CallsOK, CallType
  <2>3. new.at \notin Early /\ ~Draining(new)
    BY <2>2 DEF Early, Draining
  <2>4. Touches(c, calls[c].job) /\ calls'[c] = new /\ Owned(c)'
    BY <1>1, <2>2, <2>3, PureTouches
  <2>5. EarlyOK(c)' /\ GrantedOK(c)' /\ SyncOK(c)' /\ ClaimOK(c)' /\ ListOK(c)' /\ RetireOK(c)'
    BY <2>2, <2>3, <2>4 DEF EarlyOK, GrantedOK, SyncOK, ClaimOK, ListOK, RetireOK, Early, Draining
  <2>6. UnsentOK(c)'
    BY <1>1, <2>2, <2>4 DEF SlotState, CallPart, UnsentOK, Unsent, PureStep
  <2>7. CallPart(c)'
    BY <2>4, <2>5, <2>6 DEF CallPart
  <2>8. \A j \in Jobs : ~Marks(calls[c], j)
    BY <1>1 DEF Marks
  <2> QED BY <1>1, <2>2, <2>3, <2>7, <2>8, PureKeeps
<1> QED BY <1>2, <1>3

LEMMA LoopEndsKeeps ==
  ASSUME TypeOK, TypeOK', SlotState, NEW c \in Calls, LoopEnds(c)
  PROVE  SlotState'
<1>1. calls[c].at = "next" /\ PureStep /\ Become(c, Idle)
  BY DEF LoopEnds, At, PureStep, recordVars, agentVars, historyVars
<1> QED BY <1>1, IdleKeeps

\* The call of another kind that begins with nothing on its list.
LEMMA HostUpKeeps ==
  ASSUME TypeOK, TypeOK', SlotState, NEW c \in Calls, HostUp(c)
  PROVE  SlotState'
<1>1. calls[c] = Idle /\ PureStep
  BY DEF HostUp, Spare, Free, PureStep, agentVars, historyVars
<1>2. CASE UNCHANGED calls
  <2>1. Become(c, Idle)
    BY <1>1, <1>2 DEF Become, TypeOK, CallsOK
  <2> QED BY <1>1, <2>1, IdleFacts, IdleKeeps
<1>3. CASE Become(c, [Call("next", "retry") EXCEPT !.known = Missed])
  <2>1. PICK new : new = [Call("next", "retry") EXCEPT !.known = Missed]
    OBVIOUS
  <2>2. new.at = "next" /\ new.kind = "retry" /\ new.job = NoJob /\ new.todo = {} /\ Become(c, new)
    BY <1>3, <2>1 DEF Call, Idle
  <2>3. new.at \notin Unsent \cup {"sync"} /\ ~Draining(new) /\ \A j \in Jobs : ~Marks(calls[c], j)
    BY <1>1, <2>2, IdleFacts DEF Unsent, Early, Draining, Marks
  <2> QED BY <1>1, <2>2, <2>3, PlainKeeps
<1> QED BY <1>2, <1>3 DEF HostUp

\* A job that holds a slot has its record for good.
LEMMA reconcileAndDrainAllHostsKeeps ==
  ASSUME TypeOK, TypeOK', SlotState, NEW c \in Calls, reconcileAndDrainAllHosts(c)
  PROVE  SlotState'
<1>1. calls[c] = Idle /\ PureStep
  BY DEF reconcileAndDrainAllHosts, Free, PureStep, recordVars, agentVars, historyVars
<1>2. PICK new : new = [Call("sync", "none") EXCEPT !.array = rec]
  OBVIOUS
<1>3. /\ new.at = "sync" /\ new.kind = "none" /\ new.job = NoJob /\ new.todo = {} /\ new.array = rec
      /\ Become(c, new)
  BY <1>2 DEF reconcileAndDrainAllHosts, Call, Idle
<1>4. new.at \notin Unsent /\ ~Draining(new) /\ \A j \in Jobs : ~Marks(calls[c], j)
  BY <1>1, <1>3, IdleFacts DEF Unsent, Early, Draining, Marks
<1>5. Touches(c, calls[c].job) /\ calls'[c] = new /\ Owned(c)'
  BY <1>1, <1>3, <1>4, PureTouches DEF Unsent
<1>6. SyncOK(c)'
  <2> SUFFICES ASSUME NEW j \in Jobs, rec[j].status \in Occupying PROVE Settled(j)'
    BY <1>3, <1>5 DEF SyncOK
  <2>1. j < next
    BY DEF SlotState, JobPart, Occupying, Jobs, TypeOK
  <2>2. rec[j].status # "waiting" /\ \A d \in Calls : calls[d].at \in Early => calls[d].job # j
    BY DEF SlotState, CallPart, EarlyOK, Occupying
  <2> QED BY <1>5, <2>1, <2>2, SettledStays DEF Settled
<1>7. /\ EarlyOK(c)' /\ UnsentOK(c)' /\ GrantedOK(c)' /\ ClaimOK(c)' /\ ListOK(c)' /\ RetireOK(c)'
  BY <1>3, <1>4, <1>5 DEF EarlyOK, UnsentOK, GrantedOK, ClaimOK, ListOK, RetireOK, Unsent, Early, Draining
<1>8. CallPart(c)'
  BY <1>5, <1>6, <1>7 DEF CallPart
<1> QED BY <1>1, <1>3, <1>4, <1>8, PureKeeps DEF Unsent

-----------------------------------------------------------------------------
(* Steps that change the record of the job of their call *)

\* A job as it was, and one that ended or was removed without a run to lose.
LEMMA SameSteady ==
  ASSUME NEW j, rec'[j] = rec[j], runs'[j] = runs[j], mail'[j] = mail[j],
         j \in slotted' <=> j \in slotted, \A m \in Machines : run'[m] = j <=> run[m] = j
  PROVE  Steady(j)
BY DEF Steady

LEMMA EndSteady ==
  ASSUME NEW j, runs'[j] = runs[j], mail'[j] \in {mail[j], "none"}, slotted' = slotted, run' = run,
         rec[j].status # "waiting", rec'[j].status \notin {"waiting", "queued", "running"},
         rec[j].status = "none" => rec'[j].status = "none",
         j \in slotted =>
           /\ \A m \in Machines : run[m] # j
           /\ \A d \in Calls : calls[d].at \in {"check", "trigger"} => calls[d].job # j
  PROVE  Steady(j)
BY DEF Steady, Occupying

LEMMA OwnTouches ==
  ASSUME TypeOK, SlotState, NEW c \in Calls, NEW new, Become(c, new), next' = next,
         new.job \in {calls[c].job, NoJob}, new.at \notin Early,
         \A j \in Jobs \ {calls[c].job} : Steady(j),
         calls[c].job \in Jobs /\ Settled(calls[c].job) =>
           /\ rec'[calls[c].job].status # "waiting"
           /\ calls[c].job \in slotted' /\ rec'[calls[c].job].status \in Occupying =>
                calls[c].job \in slotted /\ rec[calls[c].job].status \in Occupying
  PROVE  Touches(c, calls[c].job) /\ calls'[c] = new
<1>1. calls'[c] = new
  BY Became DEF TypeOK
<1>2. Apart(c, calls[c].job)
  BY OwnApart
<1>3. next <= next' /\ next' \in Nat
  BY DEF TypeOK
<1> QED BY <1>1, <1>2, <1>3 DEF Touches

\* A call that has nothing to send yet; a drain keeps what is left of its list.
LEMMA MovedPart ==
  ASSUME TypeOK, NEW c \in Calls, CallPart(c), NEW i, Touches(c, i), Owned(c)',
         calls'[c].at \notin Unsent \cup {"sync"},
         Draining(calls'[c]) => \A j \in calls'[c].todo : rec'[j].status = "waiting",
         ~Draining(calls'[c]) =>
           calls'[c].todo = {} \/ (calls'[c].todo \subseteq calls[c].todo /\ ~Draining(calls[c]))
  PROVE  CallPart(c)'
<1>1. CASE ~Draining(calls'[c])
  BY <1>1, PlainPart
<1>2. CASE Draining(calls'[c])
  <2>1. EarlyOK(c)' /\ UnsentOK(c)' /\ GrantedOK(c)' /\ SyncOK(c)' /\ ClaimOK(c)'
    BY DEF EarlyOK, UnsentOK, GrantedOK, SyncOK, ClaimOK, Unsent, Early
  <2>2. ListOK(c)' /\ RetireOK(c)'
    BY <1>2 DEF ListOK, RetireOK, Draining
  <2> QED BY <2>1, <2>2 DEF CallPart
<1> QED BY <1>1, <1>2

\* The agent begins a run: of a job that did not run before, on a machine that is free.
LEMMA AcceptKeeps ==
  ASSUME TypeOK, TypeOK', SlotState, NEW c \in Calls, Accept(c)
  PROVE  SlotState'
<1>1. PICK new : new = [calls[c] EXCEPT !.at = "accepted"]
  OBVIOUS
<1>2. PICK i : i = calls[c].job
  OBVIOUS
<1>3. PICK m : m = calls[c].machine
  OBVIOUS
<1>4. /\ new.at = "accepted" /\ new.kind = calls[c].kind /\ new.job = i
      /\ new.todo = calls[c].todo /\ Become(c, new)
  BY <1>1, <1>2 DEF Accept, Go, TypeOK, CallsOK, CallType
<1>5. /\ calls[c].at = "trigger" /\ run[m] = NoJob
      /\ run' = [run EXCEPT ![m] = i] /\ runs' = [runs EXCEPT ![i] = @ + 1]
      /\ UNCHANGED <<rec, next, mail, slotted>>
  BY <1>2, <1>3 DEF Accept, At, recordVars, historyVars
<1>6. i \in Jobs /\ CallPart(c) /\ JobPart(i)
  BY <1>2, <1>5, HasJob DEF SlotState, TypeOK
<1>7. /\ runs[i] = 0 /\ i < next /\ rec[i].status # "waiting"
      /\ i \in slotted => Granted(rec[i], calls[c].kind)
  BY <1>2, <1>5, <1>6 DEF CallPart, UnsentOK, Unsent, Owned, GrantedOK, Jobs, NoJob
<1>8. /\ runs'[i] = 1 /\ \A j \in Jobs \ {i} : runs'[j] = runs[j]
      /\ \A n \in Machines : run'[n] = IF n = m THEN i ELSE run[n]
  BY <1>5, <1>6, <1>7 DEF TypeOK
<1>9. \A j \in Jobs \ {i} : Steady(j)
  <2> SUFFICES ASSUME NEW j \in Jobs \ {i} PROVE Steady(j)
    OBVIOUS
  <2>1. \A n \in Machines : run'[n] = j <=> run[n] = j
    BY <1>5, <1>8 DEF Jobs, NoJob
  <2> QED BY <1>5, <1>8, <2>1, SameSteady
<1>10. Touches(c, i) /\ calls'[c] = new
  <2>1. Settled(i) => rec'[i].status # "waiting" /\ (i \in slotted' <=> i \in slotted) /\ rec'[i] = rec[i]
    BY <1>5, <1>7
  <2>2. new.at \notin Early /\ new.job \in {i, NoJob}
    BY <1>4 DEF Early
  <2> QED BY <1>2, <1>4, <1>5, <1>9, <2>1, <2>2, OwnTouches
<1>11. Owned(c)'
  BY <1>4, <1>5, <1>6, <1>7, <1>10, OwnedNext
<1>12. Draining(new) <=> Draining(calls[c])
  BY <1>4, <1>5 DEF Draining
<1>13. CallPart(c)'
  BY <1>4, <1>5, <1>6, <1>10, <1>11, <1>12, MovedPart DEF CallPart, ListOK, Unsent, Early
<1>14. JobPart(i)'
  <2>1. \A n \in Machines : run[n] # i
    BY <1>6, <1>7 DEF JobPart
  <2>2. mail[i] = "none"
    BY <1>6, <1>7 DEF JobPart
  <2>3. i \in slotted => \/ rec[i].status = "running"
                         \/ rec[i].status = "queued" /\ Marks(calls'[c], i)
    BY <1>4, <1>7, <1>10 DEF Granted, Marks
  <2>4. ~(i >= next)
    BY <1>6, <1>7 DEF Jobs, TypeOK
  <2> QED BY <1>5, <1>7, <1>8, <2>1, <2>2, <2>3, <2>4 DEF JobPart, Marks
<1>15. Quota'
  <2>1. Slots' = Slots
    BY <1>5 DEF Slots
  <2>2. \A d \in Calls : Draining(calls'[d]) => Draining(calls[d]) /\ calls'[d].todo \subseteq calls[d].todo
    BY <1>4, <1>10, <1>12 DEF Touches, Apart
  <2> QED BY <2>1, <2>2, QuotaShrinks DEF SlotState
<1> QED BY <1>6, <1>10, <1>13, <1>14, <1>15, StepKeeps

LEMMA FailedKeeps ==
  ASSUME TypeOK, TypeOK', SlotState, NEW c \in Calls, Failed(c)
  PROVE  SlotState'
<1>1. calls[c].at = "failed" /\ UNCHANGED <<next, run, mail, runs, slotted>>
  BY DEF Failed, At, agentVars, historyVars
<1>2. PICK i : i = calls[c].job
  OBVIOUS
<1>3. i \in Jobs /\ CallPart(c) /\ JobPart(i)
  BY <1>1, <1>2, HasJob DEF SlotState, TypeOK
<1>4. runs[i] = 0 /\ i < next /\ rec[i].status # "waiting"
  BY <1>1, <1>2, <1>3 DEF CallPart, UnsentOK, Unsent, Owned, Jobs, NoJob
<1>5. CASE calls[c].kind \notin {"drain", "retry"}
  <2>1. Go(c, "fail") /\ PureStep
    BY <1>1, <1>5 DEF Failed, PureStep
  <2> QED BY <1>1, <2>1, GoKeeps DEF Unsent, Early
<1>6. CASE calls[c].kind \in {"drain", "retry"}
  <2>1. PICK new : new = [calls[c] EXCEPT !.at = "next",
               !.array = IF calls[c].kind = "drain" THEN Ended(@, calls[c].job, "failed") ELSE @]
    OBVIOUS
  <2>2. /\ new.at = "next" /\ new.kind = calls[c].kind /\ new.job = i
        /\ new.todo = calls[c].todo /\ Become(c, new)
    BY <1>2, <1>6, <2>1 DEF Failed, TypeOK, CallsOK, CallType
  <2>3. rec' = IF Stored(rec, i) THEN Ended(rec, i, "failed") ELSE rec
    BY <1>2, <1>6 DEF Failed
  <2>4. /\ \A j \in Jobs \ {i} : rec'[j] = rec[j]
        /\ rec'[i].status \in {"failed", "none"}
    BY <1>3, <2>3 DEF Ended, Stored, TypeOK, Arrays, Record
  <2>5. \A j \in Jobs \ {i} : Steady(j)
    BY <1>1, <2>4, SameSteady
  <2>6. Touches(c, i) /\ calls'[c] = new
    BY <1>1, <1>2, <2>2, <2>4, <2>5, OwnTouches DEF Early, Occupying
  <2>7. Owned(c)'
    BY <1>1, <1>3, <1>4, <2>2, <2>4, <2>6, OwnedNext
  <2>8. Draining(new) <=> Draining(calls[c])
    BY <1>1, <2>2 DEF Draining
  <2>9. ASSUME Draining(new), NEW j \in new.todo PROVE rec'[j].status = "waiting"
    <3>1. j \in Jobs /\ rec[j].status = "waiting"
      BY <1>3, <2>2, <2>8, <2>9 DEF CallPart, ListOK, TypeOK, CallsOK, CallType
    <3> QED BY <1>4, <2>4, <3>1
  <2>10. CallPart(c)'
    BY <1>3, <2>2, <2>6, <2>7, <2>8, <2>9, MovedPart DEF Unsent, Early
  <2>11. JobPart(i)'
    <3>1. ~(i >= next) /\ (\A n \in Machines : run[n] # i) /\ mail[i] = "none"
      BY <1>3, <1>4 DEF JobPart, Jobs, TypeOK
    <3> QED BY <1>1, <2>4, <3>1 DEF JobPart
  <2>12. Quota'
    <3>1. Slots' \subseteq Slots
      BY <2>4, <2>5, SlotsShrink DEF Slots, Occupying
    <3>2. \A d \in Calls : Draining(calls'[d]) => Draining(calls[d]) /\ calls'[d].todo \subseteq calls[d].todo
      BY <2>2, <2>6, <2>8 DEF Touches, Apart
    <3> QED BY <3>1, <3>2, QuotaShrinks DEF SlotState
  <2> QED BY <1>3, <2>6, <2>10, <2>11, <2>12, StepKeeps
<1> QED BY <1>5, <1>6

\* Who has the lock is the only one to give slots.
LEMMA LockAlone ==
  ASSUME TypeOK, NEW c \in Calls, HasLock(c), NEW d \in Calls \ {c}
  PROVE  ~Draining(calls[d])
BY DEF TypeOK, CallsOK, Deciding, HasLock

LEMMA OneMore ==
  ASSUME TypeOK, ~Full(rec), NEW i \in Jobs, Slots' \subseteq Slots \cup {i},
         \A d \in Calls : ~Draining(calls'[d])
  PROVE  Quota'
<1> SUFFICES ASSUME Limit # 0 PROVE Cardinality(Slots') <= Limit
  BY DEF Quota, Draining
<1> DEFINE O == {j \in Jobs : rec[j].status \in Occupying /\ ~rec[j].old}
<1>1. O \subseteq Jobs /\ Slots \subseteq O
  BY DEF Slots, TypeOK
<1>2. IsFiniteSet(O) /\ Cardinality(O) \in Nat /\ ~(Cardinality(O) >= Limit)
  BY <1>1, JobsAreFinite DEF Full, countActiveJobsOnHost
<1> HIDE DEF O
<1>3. Cardinality(O \cup {i}) <= Cardinality(O) + 1
  <2>1. Cardinality(O \cup {i}) \in {Cardinality(O), Cardinality(O) + 1}
    BY <1>2, FS_AddElement
  <2> QED BY <1>2, <2>1
<1>4. IsFiniteSet(O \cup {i}) /\ Cardinality(O \cup {i}) \in Nat
  BY <1>1, JobsAreFinite
<1>5. Cardinality(O \cup {i}) <= Limit
  BY <1>2, <1>3, <1>4, BoundsAssumption
<1>6. Slots' \subseteq O \cup {i} /\ O \cup {i} \subseteq Jobs
  BY <1>1
<1> QED BY <1>5, <1>6, FewerJobs

\* The decision of a fire, under the lock.
LEMMA ReserveKeeps ==
  ASSUME TypeOK, TypeOK', SlotState, NEW c \in Calls, Reserve(c)
  PROVE  SlotState'
<1>1. calls[c].at = "slot" /\ HasLock(c) /\ UNCHANGED <<next, run, mail, runs>>
  BY DEF Reserve, At, agentVars
<1>2. PICK i : i = calls[c].job
  OBVIOUS
<1>3. PICK m : m = calls[c].machine
  OBVIOUS
<1>4. i \in Jobs /\ CallPart(c) /\ JobPart(i)
  BY <1>1, <1>2, HasJob DEF SlotState, TypeOK
<1>5. /\ runs[i] = 0 /\ i < next /\ rec[i].status = "none" /\ i \notin slotted
  BY <1>1, <1>2, <1>4 DEF CallPart, UnsentOK, EarlyOK, Unsent, Early, Owned, Jobs, NoJob
<1>6. ~(i >= next) /\ (\A n \in Machines : run[n] # i) /\ mail[i] = "none"
  BY <1>4, <1>5 DEF JobPart, Jobs, TypeOK
<1>7. ~Settled(i)
  BY <1>1, <1>2 DEF Settled, Early
<1>8. CASE Become(c, Idle) /\ UNCHANGED <<rec, slotted>>
  BY <1>1, <1>8, IdleKeeps DEF PureStep
<1>9. CASE rec' = [rec EXCEPT ![i] = New("waiting", m)] /\ Become(c, Call("drain", "drain")) /\ slotted' = slotted
  <2>1. rec'[i].status = "waiting" /\ \A j \in Jobs \ {i} : rec'[j] = rec[j]
    BY <1>4, <1>9 DEF New, TypeOK, Arrays
  <2>2. \A j \in Jobs \ {i} : Steady(j)
    BY <1>1, <1>9, <2>1, SameSteady
  <2>3. PICK new : new = Call("drain", "drain")
    OBVIOUS
  <2>4. new.at = "drain" /\ new.job = NoJob /\ new.todo = {} /\ ~Draining(new)
    BY <2>3, IdleFacts
  <2>5. Touches(c, i) /\ calls'[c] = new
    BY <1>1, <1>2, <1>7, <1>9, <2>2, <2>3, <2>4, OwnTouches DEF Early
  <2>6. CallPart(c)'
    BY <1>4, <2>4, <2>5, OwnedNext, MovedPart DEF Unsent, Early
  <2>7. JobPart(i)'
    BY <1>1, <1>5, <1>6 DEF JobPart
  <2>8. Quota'
    <3>1. Slots' \subseteq Slots
      BY <1>5, <1>9, <2>2, SlotsShrink DEF Slots
    <3>2. \A d \in Calls : Draining(calls'[d]) => Draining(calls[d]) /\ calls'[d].todo \subseteq calls[d].todo
      BY <2>4, <2>5 DEF Touches, Apart
    <3> QED BY <3>1, <3>2, QuotaShrinks DEF SlotState
  <2> QED BY <1>4, <2>5, <2>6, <2>7, <2>8, StepKeeps
<1>10. CASE ~Full(rec) /\ rec' = [rec EXCEPT ![i] = New("running", m)] /\ Go(c, "check") /\ slotted' = slotted \cup {i}
  <2>1. /\ rec'[i].status = "running" /\ ~rec'[i].old /\ \A j \in Jobs \ {i} : rec'[j] = rec[j]
    BY <1>4, <1>10 DEF New, TypeOK, Arrays
  <2>2. \A j \in Jobs \ {i} : Steady(j)
    BY <1>1, <1>10, <2>1, SameSteady
  <2>3. PICK new : new = [calls[c] EXCEPT !.at = "check"]
    OBVIOUS
  <2>4. /\ new.at = "check" /\ new.kind = calls[c].kind /\ new.job = i
        /\ new.todo = calls[c].todo /\ Become(c, new) /\ ~Draining(new) /\ ~Draining(calls[c])
    BY <1>1, <1>2, <1>10, <2>3 DEF Go, TypeOK, CallsOK, CallType, Draining
  <2>5. Touches(c, i) /\ calls'[c] = new
    BY <1>1, <1>2, <1>7, <2>2, <2>4, OwnTouches DEF Early
  <2>6. Owned(c)'
    BY <1>1, <1>4, <1>5, <2>1, <2>4, <2>5, OwnedNext
  <2>7. EarlyOK(c)' /\ SyncOK(c)' /\ ClaimOK(c)' /\ ListOK(c)'
    BY <2>4, <2>5 DEF EarlyOK, SyncOK, ClaimOK, ListOK, Early, Draining
  <2>8. UnsentOK(c)' /\ GrantedOK(c)'
    BY <1>1, <1>5, <2>1, <2>4, <2>5 DEF UnsentOK, GrantedOK, Granted
  <2>9. RetireOK(c)'
    <3> SUFFICES ASSUME NEW j \in calls[c].todo PROVE Retirable(j)'
      BY <2>4, <2>5 DEF RetireOK
    <3>1. j \in Jobs /\ Retirable(j)
      BY <1>4, <2>4 DEF CallPart, RetireOK, TypeOK, CallsOK, CallType
    <3> QED BY <2>5, <3>1, RetirableStays
  <2>10. CallPart(c)'
    BY <2>6, <2>7, <2>8, <2>9 DEF CallPart
  <2>11. JobPart(i)'
    BY <1>1, <1>6, <2>1 DEF JobPart
  <2>12. Quota'
    <3>1. Slots' \subseteq Slots \cup {i}
      <4> SUFFICES ASSUME NEW j \in Slots', j # i PROVE j \in Slots
        OBVIOUS
      <4>1. j \in slotted /\ j \in Jobs /\ rec'[j] = rec[j]
        BY <1>10, <2>1 DEF Slots, TypeOK
      <4> QED BY <4>1 DEF Slots
    <3>2. \A d \in Calls : ~Draining(calls'[d])
      BY <1>1, <2>4, <2>5, LockAlone DEF Touches, Apart
    <3> QED BY <1>4, <1>10, <3>1, <3>2, OneMore
  <2> QED BY <1>4, <2>5, <2>10, <2>11, <2>12, StepKeeps
<1> QED BY <1>2, <1>3, <1>8, <1>9, <1>10 DEF Reserve

-----------------------------------------------------------------------------
(* Reading and saving the array of jobs *)

\* After a save a call is done, or goes on without a request, but for the two
\* decisions that lead to one.
LEMMA ResumedFacts ==
  ASSUME NEW call \in CallType, call.at \in Edits, WellFormed(call)
  PROVE  /\ Resumed(call).job \in {call.job, NoJob} /\ Resumed(call).todo \subseteq call.todo
         /\ Resumed(call).at \notin Early /\ ~Draining(Resumed(call)) /\ ~Draining(call)
         /\ \/ Resumed(call).at \notin Unsent \cup {"sync"}
            \/ /\ call.at = "push" \/ (call.at = "claim" /\ Claimable(call))
               /\ Resumed(call).at = "trigger" /\ Resumed(call).job = call.job
               /\ Resumed(call).kind = call.kind
<1> DEFINE saved == [call EXCEPT !.array = <<>>]
<1>0. call.kind # "drain" /\ ~Draining(call)
  BY DEF WellFormed, Draining, Edits
<1>1. CASE call.at = "push" \/ (call.at = "claim" /\ Claimable(call))
  <2>1. Resumed(call) = [saved EXCEPT !.at = "trigger"]
    <3>1. CASE call.at = "push"
      BY <3>1 DEF Resumed
    <3>2. CASE call.at = "claim" /\ Claimable(call)
      BY <3>2 DEF Resumed, Claimable
    <3> QED BY <1>1, <3>1, <3>2
  <2> QED BY <1>0, <1>1, <2>1 DEF CallType, Draining, Unsent, Early
<1>2. CASE ~(call.at = "push" \/ (call.at = "claim" /\ Claimable(call)))
  <2>1. Resumed(call) \in
          {[saved EXCEPT !.at = "siblings", !.todo = {}], [saved EXCEPT !.at = "siblings"],
           [saved EXCEPT !.at = "next"], [saved EXCEPT !.at = "retire"],
           Call("drain", "drain"), Idle}
    BY <1>2 DEF Resumed
  <2>2. CASE Resumed(call) \in {[saved EXCEPT !.at = "siblings", !.todo = {}], [saved EXCEPT !.at = "siblings"]}
    BY <1>0, <2>2 DEF CallType, Draining, Unsent, Early
  <2>3. CASE Resumed(call) \in {[saved EXCEPT !.at = "next"], [saved EXCEPT !.at = "retire"]}
    BY <1>0, <2>3 DEF CallType, Draining, Unsent, Early
  <2>4. CASE Resumed(call) \in {Call("drain", "drain"), Idle}
    BY <1>0, <2>4, IdleFacts DEF Unsent
  <2> QED BY <2>1, <2>2, <2>3, <2>4
<1> QED BY <1>1, <1>2

LEMMA ReadJobsKeeps ==
  ASSUME TypeOK, TypeOK', SlotState, NEW c \in Calls, ReadJobs(c)
  PROVE  SlotState'
<1>1. calls[c].at \in Edits /\ PureStep
  BY DEF ReadJobs, PureStep, recordVars, agentVars, historyVars
<1>2. PICK read : read = [calls[c] EXCEPT !.array = rec]
  OBVIOUS
<1>3. /\ read.at = calls[c].at /\ read.kind = calls[c].kind /\ read.job = calls[c].job
      /\ read.todo = calls[c].todo /\ read.machine = calls[c].machine /\ read.array = rec
      /\ read \in CallType /\ WellFormed(read)
  <2>1. calls[c] \in CallType /\ WellFormed(calls[c]) /\ rec \in Arrays
    BY OfCall DEF TypeOK
  <2>2. read \in CallType
    BY <1>2, <2>1 DEF CallType
  <2> QED BY <1>2, <2>1, <2>2 DEF CallType, WellFormed, Draining
<1>4. CallPart(c) /\ ~Draining(calls[c]) /\ ~Draining(read)
  BY <1>1, <1>3, OfCall DEF SlotState, WellFormed, Draining, Edits, TypeOK
<1>5. CASE Edited(read) # rec /\ Become(c, read)
  <2>1. Touches(c, calls[c].job) /\ calls'[c] = read /\ Owned(c)'
    BY <1>1, <1>3, <1>5, PureTouches
  <2>2. EarlyOK(c)' /\ UnsentOK(c)' /\ GrantedOK(c)' /\ ListOK(c)'
    BY <1>1, <1>3, <1>4, <2>1 DEF CallPart, EarlyOK, UnsentOK, GrantedOK, Granted, ListOK, PureStep, Draining
  <2>3. SyncOK(c)'
    BY <1>1, <1>3, <2>1 DEF SyncOK, Edits
  <2>4. ClaimOK(c)'
    <3>1. read.at = "claim" => Claimable(read)
      BY <1>3, <1>5 DEF Edited
    <3> QED BY <2>1, <3>1 DEF ClaimOK, Claimable, Full, countActiveJobsOnHost, Jobless
  <2>5. RetireOK(c)'
    <3> SUFFICES ASSUME NEW j \in calls[c].todo PROVE Retirable(j)'
      BY <1>3, <2>1 DEF RetireOK
    <3>1. j \in Jobs /\ Retirable(j)
      BY <1>4 DEF CallPart, RetireOK, TypeOK, CallsOK, CallType
    <3> QED BY <2>1, <3>1, RetirableStays
  <2>6. CallPart(c)'
    BY <2>1, <2>2, <2>3, <2>4, <2>5 DEF CallPart
  <2>7. \A j \in Jobs : Marks(calls[c], j) => Marks(read, j)
    BY <1>3 DEF Marks
  <2> QED BY <1>1, <1>3, <1>4, <1>5, <2>6, <2>7, PureKeeps
<1>6. CASE Edited(read) = rec /\ Become(c, Resumed(read))
  <2>1. ~(read.at = "push" \/ (read.at = "claim" /\ Claimable(read)))
    <3> SUFFICES ASSUME read.at = "push" \/ (read.at = "claim" /\ Claimable(read)) PROVE FALSE
      OBVIOUS
    <3>1. rec = [rec EXCEPT ![read.job] = New("queued", read.machine)]
      BY <1>3, <1>6 DEF Edited
    <3>2. read.job \in Jobs /\ rec[read.job].status = "none"
      BY <1>3, <1>4, HasJob DEF CallPart, EarlyOK, Early, TypeOK
    <3>3. rec[read.job] = New("queued", read.machine)
      BY <3>1, <3>2 DEF TypeOK, Arrays
    <3> QED BY <3>2, <3>3 DEF New
  <2>2. PICK new : new = Resumed(read)
    OBVIOUS
  <2>3. /\ new.job \in {calls[c].job, NoJob} /\ new.todo \subseteq calls[c].todo
        /\ new.at \notin Unsent \cup {"sync"} /\ ~Draining(new)
    BY <1>1, <1>3, <2>1, <2>2, ResumedFacts
  <2>4. ASSUME NEW j \in Jobs, Marks(calls[c], j), rec[j].status = "queued" PROVE FALSE
    <3>1. read.at = "mark" /\ read.job = j
      BY <1>1, <1>3, <2>4 DEF Marks, Edits
    <3>2. rec = Ended(rec, j, "running")
      BY <1>3, <1>6, <2>4, <3>1 DEF Edited
    <3>3. rec[j].status = "running"
      BY <3>2 DEF Ended, TypeOK, Arrays, Record
    <3> QED BY <2>4, <3>3
  <2> QED BY <1>1, <1>4, <1>6, <2>2, <2>3, <2>4, PlainKeeps
<1>7. \/ Edited(read) # rec /\ Become(c, read)
      \/ Edited(read) = rec /\ Become(c, Resumed(read))
  BY <1>2 DEF ReadJobs
<1> QED BY <1>5, <1>6, <1>7

\* Edits of many jobs at once spare those that wait and those that run.
LEMMA BulkSteady ==
  ASSUME TypeOK, SlotState, NEW c \in Calls, SaveJobs(c), calls[c].array = rec,
         calls[c].at \in {"siblings", "retire", "sweep"}, NEW k \in Jobs
  PROVE  Steady(k)
<1>1. rec' = Edited(calls[c]) /\ UNCHANGED <<run, mail, runs, slotted>>
  BY DEF SaveJobs, At, agentVars
<1>2. JobPart(k) /\ CallPart(c) /\ ~Draining(calls[c]) /\ rec[k] \in Record
  BY OfCall, OfRecord DEF SlotState, WellFormed, Draining, TypeOK
<1>3. \A d \in Calls : calls[d].at \in {"check", "trigger"} /\ calls[d].job = k /\ k \in slotted =>
                         rec[k].status \in Occupying /\ ~rec[k].old
  BY DEF SlotState, CallPart, GrantedOK, Granted, Occupying
<1>4. ASSUME rec[k].status \notin Occupying, k \in slotted
      PROVE  /\ \A m \in Machines : run[m] # k
             /\ \A d \in Calls : calls[d].at \in {"check", "trigger"} => calls[d].job # k
  BY <1>2, <1>3, <1>4 DEF JobPart, Occupying
<1>5. CASE rec'[k] = rec[k]
  BY <1>1, <1>5, SameSteady
<1>6. CASE calls[c].at = "siblings" /\ rec'[k] # rec[k]
  <2>1. rec[k].status = "skipped" /\ rec'[k] = [rec[k] EXCEPT !.status = "failed"]
    BY <1>1, <1>6 DEF Edited
  <2>2. rec'[k].status = "failed"
    BY <1>2, <2>1 DEF Record
  <2> QED BY <1>1, <1>4, <2>1, <2>2, EndSteady DEF Occupying
<1>7. CASE calls[c].at = "retire" /\ rec'[k] # rec[k]
  <2>1. k \in calls[c].todo /\ rec'[k] = NoRecord
    BY <1>1, <1>7 DEF Edited
  <2>2. rec[k].status # "waiting" /\ (k \in slotted => rec[k].status \notin Occupying)
    BY <1>2, <2>1 DEF CallPart, RetireOK, Retirable, Settled
  <2> QED BY <1>1, <1>4, <2>1, <2>2, EndSteady DEF NoRecord
<1>8. CASE calls[c].at = "sweep" /\ rec'[k] # rec[k]
  <2>1. k \in Stuck(rec) /\ rec'[k] = [rec[k] EXCEPT !.status = "failed"]
    BY <1>1, <1>8 DEF Edited
  <2>2. rec'[k].status = "failed" /\ rec[k].status \in {"queued", "running"}
    BY <1>2, <2>1 DEF Record, Stuck
  <2>3. CASE rec[k].status = "queued" /\ ~Attended(k)
    <3>1. \A d \in Calls : calls[d].job # k
      BY <2>3 DEF Attended
    <3>2. k \in slotted => \A m \in Machines : run[m] # k
      BY <1>2, <2>3, <3>1 DEF JobPart, Marks
    <3> QED BY <1>1, <2>2, <3>1, <3>2, EndSteady
  <2>4. CASE rec[k].old /\ \A m \in Machines : run[m] # k
    BY <1>1, <1>3, <2>2, <2>4, EndSteady
  <2> QED BY <2>1, <2>3, <2>4 DEF Stuck
<1> QED BY <1>5, <1>6, <1>7, <1>8

\* Where the edits of one job leave it.
LEMMA EditFacts ==
  ASSUME TypeOK, SlotState, NEW c \in Calls, SaveJobs(c), calls[c].array = rec,
         calls[c].at \in Edits \ {"siblings", "retire", "sweep"}, NEW i, i = calls[c].job
  PROVE  /\ \A j \in Jobs \ {i} : rec'[j] = rec[j]
         /\ rec'[i].status # "waiting"
         /\ calls[c].at \in {"push", "claim"} => rec'[i].status = "queued" /\ ~rec'[i].old
         /\ calls[c].at = "mark" =>
              rec'[i].old = rec[i].old /\ rec'[i].status = IF rec[i].status = "queued" THEN "running" ELSE rec[i].status
         /\ calls[c].at \in {"drop", "remove", "fail"} => rec'[i].status \in {"none", "failed"}
<1>1. /\ rec' = Edited(calls[c]) /\ i \in Jobs /\ CallPart(c) /\ rec \in Arrays /\ rec[i] \in Record
      /\ i = calls[c].job /\ calls[c].array = rec
  BY HasJob, OfRecord DEF SaveJobs, SlotState, TypeOK, Edits
<1>2. rec[i].status # "waiting"
  BY <1>1 DEF CallPart, Owned, Jobs, NoJob
<1>3. CASE calls[c].at \in {"push", "claim"}
  <2>1. calls[c].at = "claim" => Claimable(calls[c])
    BY <1>1 DEF SaveJobs, CallPart, ClaimOK
  <2>2. PICK new : new = New("queued", calls[c].machine)
    OBVIOUS
  <2>3. new.status = "queued" /\ ~new.old
    BY <2>2 DEF New
  <2>4. rec' = [rec EXCEPT ![i] = new]
    BY <1>1, <1>3, <2>1, <2>2 DEF Edited
  <2>5. rec'[i] = new /\ \A j \in Jobs \ {i} : rec'[j] = rec[j]
    BY <1>1, <2>4 DEF Arrays
  <2> QED BY <1>3, <2>3, <2>5
<1>4. CASE calls[c].at = "mark"
  <2>1. rec' = IF rec[i].status = "queued" THEN Ended(rec, i, "running") ELSE rec
    BY <1>1, <1>4 DEF Edited
  <2> QED BY <1>1, <1>2, <1>4, <2>1 DEF Ended, Arrays, Record
<1>5. CASE calls[c].at \in {"drop", "remove"}
  <2>1. rec' = [rec EXCEPT ![i] = NoRecord]
    BY <1>1, <1>5 DEF Edited
  <2>2. rec'[i] = NoRecord /\ \A j \in Jobs \ {i} : rec'[j] = rec[j]
    BY <1>1, <2>1 DEF Arrays
  <2>3. NoRecord.status = "none"
    BY DEF NoRecord
  <2> QED BY <1>5, <2>2, <2>3
<1>6. CASE calls[c].at = "fail"
  <2>1. PICK failed : failed = [New("failed", calls[c].machine) EXCEPT !.old = rec[i].old]
    OBVIOUS
  <2>2. failed.status = "failed"
    BY <2>1 DEF New
  <2>3. rec' = [rec EXCEPT ![i] = failed] \/ (rec' = rec /\ ~Stored(rec, i))
    BY <1>1, <1>6, <2>1 DEF Edited
  <2> QED BY <1>1, <1>6, <2>2, <2>3 DEF Stored, Arrays
<1> QED BY <1>3, <1>4, <1>5, <1>6 DEF Edits

LEMMA SaveJobsKeeps ==
  ASSUME TypeOK, TypeOK', SlotState, NEW c \in Calls, SaveJobs(c), ~stale'
  PROVE  SlotState'
<1>1. /\ calls[c].at \in Edits /\ calls[c].array = rec /\ calls[c].array # <<>>
      /\ UNCHANGED <<next, run, mail, runs>>
      /\ slotted' = IF calls[c].at = "claim" THEN slotted \cup {calls[c].job} ELSE slotted
  BY DEF SaveJobs, At, agentVars
<1>2. PICK new : new = Resumed(calls[c])
  OBVIOUS
<1>3. calls[c] \in CallType /\ WellFormed(calls[c]) /\ CallPart(c) /\ Become(c, new)
  BY <1>2, OfCall DEF SaveJobs, SlotState, TypeOK
<1>4. /\ new.job \in {calls[c].job, NoJob} /\ new.todo \subseteq calls[c].todo
      /\ new.at \notin Early /\ ~Draining(new) /\ ~Draining(calls[c])
      /\ \/ new.at \notin Unsent \cup {"sync"}
         \/ /\ calls[c].at \in {"push", "claim"}
            /\ new.at = "trigger" /\ new.job = calls[c].job /\ new.kind = calls[c].kind
  BY <1>1, <1>2, <1>3, ResumedFacts
<1>5. CASE calls[c].at \in {"siblings", "retire", "sweep"}
  <2>1. \A j \in Jobs : Steady(j)
    BY <1>1, <1>5, BulkSteady
  <2>2. calls'[c] = new /\ \A d \in Calls \ {c} : calls'[d] = calls[d]
    BY <1>3, Became DEF TypeOK
  <2>3. next <= next' /\ next' \in Nat
    BY <1>1 DEF TypeOK
  <2>4. Touches(c, NoJob)
    BY <1>4, <1>5, <2>1, <2>2, <2>3 DEF Touches, Apart, NoJob, Jobs
  <2>5. Owned(c)'
    <3> SUFFICES ASSUME new.job # NoJob
                 PROVE  /\ new.job < next' /\ rec'[new.job].status # "waiting"
                        /\ \A d \in Calls : calls'[d].job = new.job => d = c
      BY <2>2 DEF Owned
    <3>1. new.job = calls[c].job /\ new.job \in Jobs /\ new.job # NoJob
      BY <1>3, <1>4 DEF CallType
    <3>2. new.job < next /\ rec[new.job].status # "waiting"
      BY <1>3, <3>1 DEF CallPart, Owned
    <3>3. \A d \in Calls : calls[d].job = new.job => d = c
      BY <1>3, <3>1 DEF CallPart, Owned
    <3> QED BY <1>1, <2>1, <2>2, <3>1, <3>2, <3>3 DEF Steady
  <2>6. CallPart(c)'
    BY <1>3, <1>4, <1>5, <2>2, <2>4, <2>5, PlainPart
  <2>7. Quota'
    <3>1. NoJob \notin Slots'
      BY DEF Slots, TypeOK, Jobs, NoJob
    <3>2. Slots' \subseteq Slots
      BY <2>1, <3>1, SlotsShrink
    <3>3. \A d \in Calls : Draining(calls'[d]) => Draining(calls[d]) /\ calls'[d].todo \subseteq calls[d].todo
      BY <1>4, <2>2
    <3> QED BY <3>2, <3>3, QuotaShrinks DEF SlotState
  <2> QED BY <2>4, <2>6, <2>7, StepKeeps DEF Jobs, NoJob
<1>6. CASE calls[c].at \notin {"siblings", "retire", "sweep"}
  <2>0. PICK i : i = calls[c].job
    OBVIOUS
  <2>1. i \in Jobs /\ JobPart(i) /\ i < next /\ rec[i].status # "waiting"
    BY <1>1, <1>3, <1>6, <2>0, HasJob DEF Edits, SlotState, CallPart, Owned, Jobs, NoJob, TypeOK
  <2>2. /\ \A j \in Jobs \ {i} : rec'[j] = rec[j]
        /\ rec'[i].status # "waiting"
        /\ calls[c].at \in {"push", "claim"} => rec'[i].status = "queued" /\ ~rec'[i].old
        /\ calls[c].at = "mark" =>
             rec'[i].old = rec[i].old /\ rec'[i].status = IF rec[i].status = "queued" THEN "running" ELSE rec[i].status
        /\ calls[c].at \in {"drop", "remove", "fail"} => rec'[i].status \in {"none", "failed"}
    BY <1>1, <1>6, <2>0, EditFacts
  <2>3. \A j \in Jobs \ {i} : Steady(j)
    <3> SUFFICES ASSUME NEW j \in Jobs \ {i} PROVE Steady(j)
      OBVIOUS
    <3>1. j \in slotted' <=> j \in slotted
      BY <1>1, <2>0
    <3> QED BY <1>1, <2>2, <3>1, SameSteady
  <2>4. Settled(i) /\ i \in slotted' /\ rec'[i].status \in Occupying => i \in slotted /\ rec[i].status \in Occupying
    <3>1. Settled(i) => calls[c].at \notin {"push", "claim"}
      BY <2>0 DEF Settled, Early
    <3> QED BY <1>1, <1>6, <2>2, <3>1 DEF Edits, Occupying
  <2>5. Touches(c, i) /\ calls'[c] = new
    BY <1>1, <1>3, <1>4, <2>0, <2>2, <2>3, <2>4, OwnTouches
  <2>6. Owned(c)'
    BY <1>1, <1>4, <2>0, <2>1, <2>2, <2>5, OwnedNext
  <2>7. CallPart(c)'
    <3>1. CASE new.at \notin Unsent \cup {"sync"}
      BY <1>3, <1>4, <2>5, <2>6, <3>1, PlainPart
    <3>2. CASE calls[c].at \in {"push", "claim"} /\ new.at = "trigger" /\ new.job = i /\ new.kind = calls[c].kind
      <4>1. runs[i] = 0 /\ i \notin slotted /\ (calls[c].at = "claim" => calls[c].kind = "again")
        BY <1>3, <2>0, <3>2 DEF CallPart, UnsentOK, EarlyOK, Unsent, Early
      <4>2. EarlyOK(c)' /\ SyncOK(c)' /\ ClaimOK(c)' /\ ListOK(c)'
        BY <1>4, <2>5, <3>2 DEF EarlyOK, SyncOK, ClaimOK, ListOK, Early, Draining
      <4>3. UnsentOK(c)' /\ GrantedOK(c)'
        BY <1>1, <2>2, <2>5, <3>2, <4>1 DEF UnsentOK, GrantedOK, Granted
      <4>4. RetireOK(c)'
        <5> SUFFICES ASSUME NEW j \in new.todo PROVE Retirable(j)'
          BY <2>5 DEF RetireOK
        <5>1. j \in Jobs /\ Retirable(j)
          BY <1>3, <1>4 DEF CallPart, RetireOK, CallType
        <5> QED BY <2>5, <5>1, RetirableStays
      <4> QED BY <2>6, <4>2, <4>3, <4>4 DEF CallPart
    <3> QED BY <1>4, <2>0, <3>1, <3>2
  <2>8. JobPart(i)'
    <3>1. ~(i >= next)
      BY <2>1 DEF Jobs, TypeOK
    <3>2. CASE calls[c].at # "mark"
      <4>1. runs[i] = 0
        BY <1>1, <1>3, <1>6, <2>0, <3>2 DEF CallPart, UnsentOK, Unsent, Early, Edits
      <4>2. (\A n \in Machines : run[n] # i) /\ mail[i] = "none"
        BY <2>1, <4>1 DEF JobPart
      <4> QED BY <1>1, <2>2, <3>1, <4>2 DEF JobPart
    <3>3. CASE calls[c].at = "mark"
      <4>1. slotted' = slotted /\ rec'[i].status = IF rec[i].status = "queued" THEN "running" ELSE rec[i].status
        BY <1>1, <2>2, <3>3
      <4>2. ASSUME NEW m \in Machines, run[m] = i, i \in slotted PROVE rec'[i].status = "running"
        BY <2>1, <4>1, <4>2 DEF JobPart
      <4> QED BY <1>1, <2>1, <2>2, <3>1, <4>1, <4>2 DEF JobPart
    <3> QED BY <3>2, <3>3
  <2>9. Quota'
    <3>1. CASE calls[c].at = "claim"
      <4>1. HasLock(c) /\ ~Full(rec)
        BY <1>1, <1>3, <3>1, OfCall DEF TypeOK, Deciding, CallPart, ClaimOK, Claimable
      <4>2. Slots' \subseteq Slots \cup {i}
        <5> SUFFICES ASSUME NEW j \in Slots', j # i PROVE j \in Slots
          OBVIOUS
        <5>1. j \in slotted /\ j \in Jobs
          BY <1>1, <2>0 DEF Slots, TypeOK
        <5> QED BY <2>2, <5>1 DEF Slots
      <4>3. \A d \in Calls : ~Draining(calls'[d])
        BY <1>4, <2>5, <4>1, LockAlone DEF Touches, Apart
      <4> QED BY <2>1, <4>1, <4>2, <4>3, OneMore
    <3>2. CASE calls[c].at # "claim"
      <4>1. i \in Slots' => i \in Slots
        <5>1. calls[c].at = "push" => i \notin slotted'
          BY <1>1, <1>3, <2>0, <3>2 DEF CallPart, EarlyOK, Early
        <5> QED BY <1>1, <1>6, <2>2, <3>2, <5>1 DEF Slots, Occupying, Edits
      <4>2. Slots' \subseteq Slots
        BY <2>3, <4>1, SlotsShrink
      <4>3. \A d \in Calls : Draining(calls'[d]) => Draining(calls[d]) /\ calls'[d].todo \subseteq calls[d].todo
        BY <1>4, <2>5 DEF Touches, Apart
      <4> QED BY <4>2, <4>3, QuotaShrinks DEF SlotState
    <3> QED BY <3>1, <3>2
  <2> QED BY <2>1, <2>5, <2>7, <2>8, <2>9, StepKeeps
<1> QED BY <1>5, <1>6

-----------------------------------------------------------------------------
(* The drain *)

LEMMA LastJob ==
  ASSUME NEW S \in SUBSET Jobs, S # {}
  PROVE  \E j \in S : \A k \in S : k <= j
<1>1. \A j \in S : j \in Nat /\ MaxJobs - j \in Nat
  BY BoundsAssumption DEF Jobs
<1> DEFINE T == {MaxJobs - j : j \in S}
<1>2. T \in SUBSET Nat /\ T # {}
  BY <1>1
<1>3. PICK n \in T : \A m \in T : ~(m < n)
  <2> DEFINE R == {ss \in Nat \X Nat : ss[1] < ss[2]}
  <2>1. IsWellFoundedOn(R, Nat)
    BY NatLessThanWellFounded DEF OpToRel
  <2> HIDE DEF T
  <2>2. \E n \in T : \A m \in T : <<m, n>> \notin R
    <3> HIDE DEF R
    <3> QED BY <1>2, <2>1, WFMin
  <2>3. PICK n \in T : \A m \in T : <<m, n>> \notin R
    BY <2>2
  <2>4. \A m \in T : ~(m < n)
    BY <1>2, <2>3
  <2> QED BY <2>4
<1>4. PICK j \in S : n = MaxJobs - j
  BY <1>3
<1>5. \A k \in S : ~(MaxJobs - k < MaxJobs - j)
  BY <1>3, <1>4
<1> QED BY <1>1, <1>5, BoundsAssumption

\* Of the jobs that have fewer than b before them there are at most b.
LEMMA FirstOnes ==
  ASSUME NEW W \in SUBSET Jobs, NEW b \in Nat
  PROVE  Cardinality({j \in W : Cardinality({k \in W : k < j}) < b}) <= b
<1> DEFINE S == {j \in W : Cardinality({k \in W : k < j}) < b}
<1>1. CASE S = {}
  <2>1. Cardinality(S) = 0
    BY <1>1, FS_EmptySet
  <2> QED BY <2>1
<1>2. CASE S # {}
  <2>1. PICK x \in S : \A k \in S : k <= x
    BY <1>2, LastJob
  <2>2. PICK before : before = {k \in W : k < x}
    OBVIOUS
  <2>3. Cardinality(before) < b
    BY <2>1, <2>2
  <2>4. S \in SUBSET Jobs /\ before \in SUBSET Jobs
    BY <2>2
  <2>5. S \ {x} \subseteq before
    BY <2>1, <2>2, <2>4 DEF Jobs
  <2> HIDE DEF S
  <2>6. IsFiniteSet(S) /\ Cardinality(S) \in Nat /\ IsFiniteSet(before) /\ Cardinality(before) \in Nat
    BY <2>4, JobsAreFinite
  <2>7. Cardinality(S \ {x}) = Cardinality(S) - 1
    BY <2>1, <2>6, FS_RemoveElement
  <2>8. Cardinality(S \ {x}) <= Cardinality(before)
    BY <2>5, <2>6, FS_Subset
  <2>9. Cardinality(S) <= b
    BY <2>3, <2>6, <2>7, <2>8
  <2> QED BY <2>9 DEF S
<1> QED BY <1>1, <1>2

\* The jobs a drain is about to start fit into the slots that are free.
LEMMA StartableFit ==
  ASSUME TypeOK, Limit # 0, Cardinality(Slots) <= Limit
  PROVE  Cardinality(Slots \cup Startable(rec)) <= Limit
<1> DEFINE O == {j \in Jobs : rec[j].status \in Occupying /\ ~rec[j].old}
           W == Waiting(rec)
           S == Startable(rec)
<1>1. Slots \subseteq O /\ O \in SUBSET Jobs /\ W \in SUBSET Jobs /\ S \in SUBSET Jobs /\ Slots \in SUBSET Jobs
  BY DEF Slots, TypeOK, Waiting, Startable
<1>2. PICK n \in Nat : n = Cardinality(O)
  BY <1>1, JobsAreFinite
<1>3. countActiveJobsOnHost(rec) = n
  BY <1>2 DEF countActiveJobsOnHost
<1>4. S = {j \in W : Cardinality({k \in W : k < j}) + n < Limit}
  BY <1>3 DEF Startable
<1>5. \A j \in W : Cardinality({k \in W : k < j}) \in Nat
  <2> SUFFICES ASSUME NEW j \in W PROVE Cardinality({k \in W : k < j}) \in Nat
    OBVIOUS
  <2>1. {k \in W : k < j} \in SUBSET Jobs
    BY <1>1
  <2> HIDE DEF W
  <2> QED BY <2>1, JobsAreFinite
<1> HIDE DEF O, W, S
<1>6. CASE n >= Limit
  <2>1. S = {}
    BY <1>4, <1>5, <1>6, BoundsAssumption
  <2>2. Slots \cup S = Slots
    BY <2>1
  <2> QED BY <2>2 DEF S
<1>7. CASE ~(n >= Limit)
  <2>1. PICK b \in Nat : b = Limit - n
    BY <1>7, BoundsAssumption
  <2>2. S = {j \in W : Cardinality({k \in W : k < j}) < b}
    BY <1>4, <1>5, <2>1, BoundsAssumption
  <2>3. Cardinality(S) <= b
    BY <1>1, <2>2, FirstOnes
  <2>4. Cardinality(Slots) <= n
    <3>1. IsFiniteSet(O)
      BY <1>1, JobsAreFinite
    <3> QED BY <1>1, <1>2, <3>1, FS_Subset
  <2>5. /\ IsFiniteSet(Slots) /\ IsFiniteSet(S) /\ Cardinality(Slots) \in Nat /\ Cardinality(S) \in Nat
        /\ Cardinality(Slots \cap S) \in Nat
    <3>1. Slots \cap S \in SUBSET Jobs
      BY <1>1
    <3> QED BY <1>1, <3>1, JobsAreFinite
  <2>6. Cardinality(Slots \cup S) = Cardinality(Slots) + Cardinality(S) - Cardinality(Slots \cap S)
    BY <2>5, FS_Union
  <2>7. Cardinality(Slots \cup S) <= Limit
    BY <1>2, <2>1, <2>3, <2>4, <2>5, <2>6, BoundsAssumption
  <2> QED BY <2>7 DEF S
<1> QED BY <1>6, <1>7

LEMMA releaseConcurrentSlotsOnHostKeeps ==
  ASSUME TypeOK, TypeOK', SlotState, NEW c \in Calls, releaseConcurrentSlotsOnHost(c)
  PROVE  SlotState'
<1>1. calls[c].at = "drain" /\ HasLock(c) /\ PureStep
  BY DEF releaseConcurrentSlotsOnHost, At, PureStep, recordVars, agentVars, historyVars
<1>2. CASE Become(c, Idle)
  BY <1>1, <1>2, IdleKeeps
<1>3. CASE Become(c, [Call("next", "drain") EXCEPT !.todo = Startable(rec), !.known = schedules, !.array = rec])
  <2>1. PICK new : new = [Call("next", "drain") EXCEPT !.todo = Startable(rec), !.known = schedules, !.array = rec]
    OBVIOUS
  <2>2. /\ new.at = "next" /\ new.kind = "drain" /\ new.job = NoJob /\ new.todo = Startable(rec)
        /\ Become(c, new) /\ Draining(new)
    BY <1>3, <2>1 DEF Call, Idle, Draining
  <2>3. Touches(c, calls[c].job) /\ calls'[c] = new /\ Owned(c)'
    BY <1>1, <2>2, PureTouches DEF Early
  <2>4. ListOK(c)' /\ RetireOK(c)'
    BY <1>1, <2>2, <2>3 DEF ListOK, RetireOK, PureStep, Startable, Waiting, Draining
  <2>5. EarlyOK(c)' /\ UnsentOK(c)' /\ GrantedOK(c)' /\ SyncOK(c)' /\ ClaimOK(c)'
    BY <2>2, <2>3 DEF EarlyOK, UnsentOK, GrantedOK, SyncOK, ClaimOK, Unsent, Early
  <2>6. CallPart(c)'
    BY <2>3, <2>4, <2>5 DEF CallPart
  <2>7. Touches(c, NoJob)
    BY <1>1, <2>2, <2>3, PureSteady DEF Touches, Apart, PureStep, Jobs, NoJob
  <2>8. Quota'
    <3> SUFFICES ASSUME Limit # 0 PROVE Quota'
      BY DEF Quota
    <3>1. Slots' = Slots
      BY <1>1 DEF Slots, PureStep
    <3>2. Cardinality(Slots) <= Limit
      BY DEF SlotState, Quota
    <3>3. ASSUME NEW d \in Calls, Draining(calls'[d]) PROVE Cardinality(Slots \cup calls'[d].todo) <= Limit
      <4>1. d = c
        BY <1>1, <2>3, <3>3, LockAlone DEF Touches, Apart
      <4> QED BY <2>2, <2>3, <3>2, <4>1, StartableFit
    <3> QED BY <3>1, <3>2, <3>3 DEF Quota, Draining
  <2> QED BY <2>6, <2>7, <2>8, StepKeeps DEF Jobs, NoJob
<1> QED BY <1>2, <1>3 DEF releaseConcurrentSlotsOnHost

\* A job on the list of a drain is the business of no other call.
LEMMA ListedApart ==
  ASSUME TypeOK, SlotState, NEW c \in Calls, HasLock(c), NEW i \in Jobs, rec[i].status = "waiting",
         NEW new, Become(c, new)
  PROVE  Apart(c, i) /\ calls'[c] = new
<1>1. calls'[c] = new /\ \A d \in Calls \ {c} : calls'[d] = calls[d]
  BY Became DEF TypeOK
<1>2. \A d \in Calls \ {c} : calls[d].job # i
  BY DEF SlotState, CallPart, Owned, Jobs, NoJob
<1>3. \A d \in Calls \ {c} : ~Draining(calls[d])
  BY LockAlone
<1> QED BY <1>1, <1>2, <1>3 DEF Apart

LEMMA startQueuedJobKeeps ==
  ASSUME TypeOK, TypeOK', SlotState, NEW c \in Calls, startQueuedJob(c), ~stale'
  PROVE  SlotState'
<1>1. /\ calls[c].at = "next" /\ calls[c].kind = "drain" /\ Draining(calls[c])
      /\ UNCHANGED <<next, run, mail, runs>>
  BY DEF startQueuedJob, At, agentVars, Draining
<1>2. HasLock(c) /\ calls[c] \in CallType /\ CallPart(c)
  BY <1>1, OfCall DEF TypeOK, Deciding, SlotState
<1>3. PICK i \in calls[c].todo :
       LET held == calls[c].array
           m == held[i].machine
           rest == [calls[c] EXCEPT !.todo = @ \ {i}] IN
       IF m \in calls[c].known
       THEN /\ rec' = IF Stored(rec, i)
                      THEN [rec EXCEPT ![i].status = "running", ![i].old = FALSE] ELSE rec
            /\ Become(c, [rest EXCEPT !.at = "trigger", !.job = i, !.machine = m,
                            !.array = Ended(held, i, "running")])
            /\ slotted' = slotted \cup {i}
            /\ UNCHANGED stale
       ELSE /\ rec' = Ended(held, i, "failed")
            /\ Become(c, [rest EXCEPT !.array = Ended(held, i, "failed")])
            /\ stale' = (stale \/ held # rec)
            /\ UNCHANGED slotted
  BY DEF startQueuedJob
<1>4. /\ i \in Jobs /\ rec[i].status = "waiting" /\ rec[i] \in Record /\ JobPart(i)
      /\ \A j \in calls[c].todo : j \in Jobs /\ rec[j].status = "waiting"
  BY <1>1, <1>2, OfRecord DEF CallPart, ListOK, CallType, SlotState, TypeOK
<1>5. /\ runs[i] = 0 /\ i < next /\ mail[i] = "none" /\ \A n \in Machines : run[n] # i
  BY <1>4 DEF JobPart, Jobs, TypeOK
<1>6. ~(i >= next) /\ ~Settled(i)
  BY <1>4, <1>5 DEF Settled, Jobs, TypeOK
<1>7. next <= next' /\ next' \in Nat
  BY <1>1 DEF TypeOK
<1>8. CASE calls[c].array[i].machine \in calls[c].known
  <2>1. PICK new : new = [[calls[c] EXCEPT !.todo = @ \ {i}] EXCEPT !.at = "trigger", !.job = i,
                            !.machine = calls[c].array[i].machine, !.array = Ended(calls[c].array, i, "running")]
    OBVIOUS
  <2>2. /\ new.at = "trigger" /\ new.kind = "drain" /\ new.job = i /\ new.todo = calls[c].todo \ {i}
        /\ Become(c, new) /\ Draining(new)
    BY <1>1, <1>2, <1>3, <1>8, <2>1 DEF CallType, Draining
  <2>3. rec' = [rec EXCEPT ![i].status = "running", ![i].old = FALSE] /\ slotted' = slotted \cup {i}
    BY <1>3, <1>4, <1>8 DEF Stored
  <2>4. rec'[i].status = "running" /\ ~rec'[i].old /\ \A j \in Jobs \ {i} : rec'[j] = rec[j]
    BY <1>4, <2>3 DEF TypeOK, Arrays, Record
  <2>5. \A j \in Jobs \ {i} : Steady(j)
    BY <1>1, <2>3, <2>4, SameSteady
  <2>6. Apart(c, i) /\ calls'[c] = new
    BY <1>2, <1>4, <2>2, ListedApart
  <2>7. Touches(c, i)
    BY <1>1, <1>6, <1>7, <2>2, <2>5, <2>6 DEF Touches, Early
  <2>8. Owned(c)'
    BY <1>1, <1>4, <1>5, <2>2, <2>4, <2>6, <2>7, OwnedNext
  <2>9. EarlyOK(c)' /\ UnsentOK(c)' /\ GrantedOK(c)' /\ SyncOK(c)' /\ ClaimOK(c)'
    BY <1>1, <1>5, <2>2, <2>4, <2>6 DEF EarlyOK, UnsentOK, GrantedOK, Granted, SyncOK, ClaimOK, Early
  <2>10. ListOK(c)' /\ RetireOK(c)'
    BY <1>4, <2>2, <2>4, <2>6 DEF ListOK, RetireOK, Draining
  <2>11. CallPart(c)'
    BY <2>8, <2>9, <2>10 DEF CallPart
  <2>12. JobPart(i)'
    BY <1>1, <1>5, <1>6, <2>4 DEF JobPart
  <2>13. Quota'
    <3> SUFFICES ASSUME Limit # 0 PROVE Quota'
      BY DEF Quota
    <3>1. Slots' \subseteq Slots \cup {i}
      <4> SUFFICES ASSUME NEW j \in Slots', j # i PROVE j \in Slots
        OBVIOUS
      <4>1. j \in slotted /\ j \in Jobs /\ rec'[j] = rec[j]
        BY <2>3, <2>4 DEF Slots, TypeOK
      <4> QED BY <4>1 DEF Slots
    <3>2. Cardinality(Slots \cup calls[c].todo) <= Limit
      BY <1>1 DEF SlotState, Quota
    <3>3. Slots \cup calls[c].todo \in SUBSET Jobs
      BY <1>4 DEF Slots, TypeOK
    <3>4. Slots' \subseteq Slots \cup calls[c].todo /\ Slots' \cup new.todo \subseteq Slots \cup calls[c].todo
      BY <2>2, <3>1
    <3>5. Cardinality(Slots') <= Limit /\ Cardinality(Slots' \cup new.todo) <= Limit
      BY <3>2, <3>3, <3>4, FewerJobs
    <3>6. \A d \in Calls : Draining(calls'[d]) => d = c
      BY <1>2, <2>6, LockAlone DEF Apart
    <3> QED BY <2>6, <3>5, <3>6 DEF Quota, Draining
  <2> QED BY <1>4, <2>7, <2>11, <2>12, <2>13, StepKeeps
<1>9. CASE calls[c].array[i].machine \notin calls[c].known
  <2>1. PICK new : new = [[calls[c] EXCEPT !.todo = @ \ {i}] EXCEPT !.array = Ended(calls[c].array, i, "failed")]
    OBVIOUS
  <2>2. /\ new.at = "next" /\ new.kind = "drain" /\ new.job = calls[c].job /\ new.todo = calls[c].todo \ {i}
        /\ Become(c, new) /\ Draining(new)
    BY <1>1, <1>2, <1>3, <1>9, <2>1 DEF CallType, Draining
  <2>3. rec' = Ended(rec, i, "failed") /\ slotted' = slotted
    BY <1>3, <1>9
  <2>4. rec'[i].status = "failed" /\ \A j \in Jobs \ {i} : rec'[j] = rec[j]
    BY <1>4, <2>3 DEF Ended, TypeOK, Arrays, Record
  <2>5. \A j \in Jobs \ {i} : Steady(j)
    BY <1>1, <2>3, <2>4, SameSteady
  <2>6. Apart(c, i) /\ calls'[c] = new /\ \A d \in Calls \ {c} : calls'[d] = calls[d]
    BY <1>2, <1>4, <2>2, ListedApart DEF Apart
  <2>7. Touches(c, i)
    BY <1>1, <1>6, <1>7, <2>2, <2>5, <2>6 DEF Touches, Early
  <2>8. Owned(c)'
    <3> SUFFICES ASSUME new.job # NoJob
                 PROVE  /\ new.job < next' /\ rec'[new.job].status # "waiting"
                        /\ \A d \in Calls : calls'[d].job = new.job => d = c
      BY <2>6 DEF Owned
    <3>1. /\ new.job \in Jobs /\ new.job < next /\ rec[new.job].status # "waiting"
          /\ \A d \in Calls : calls[d].job = new.job => d = c
      BY <1>2, <2>2 DEF CallType, CallPart, Owned
    <3> QED BY <1>1, <1>4, <2>4, <2>6, <3>1
  <2>9. EarlyOK(c)' /\ UnsentOK(c)' /\ GrantedOK(c)' /\ SyncOK(c)' /\ ClaimOK(c)'
    BY <2>2, <2>6 DEF EarlyOK, UnsentOK, GrantedOK, SyncOK, ClaimOK, Early, Unsent
  <2>10. ListOK(c)' /\ RetireOK(c)'
    BY <1>4, <2>2, <2>4, <2>6 DEF ListOK, RetireOK, Draining
  <2>11. CallPart(c)'
    BY <2>8, <2>9, <2>10 DEF CallPart
  <2>12. JobPart(i)'
    BY <1>1, <1>5, <1>6, <2>4 DEF JobPart
  <2>13. Quota'
    <3>1. Slots' \subseteq Slots
      BY <2>4, <2>5, SlotsShrink DEF Slots, Occupying
    <3>2. \A d \in Calls : Draining(calls'[d]) => Draining(calls[d]) /\ calls'[d].todo \subseteq calls[d].todo
      BY <1>1, <2>2, <2>6 DEF Apart
    <3> QED BY <3>1, <3>2, QuotaShrinks DEF SlotState
  <2> QED BY <1>4, <2>7, <2>11, <2>12, <2>13, StepKeeps
<1> QED BY <1>8, <1>9

-----------------------------------------------------------------------------
(* New jobs *)

LEMMA NextJob ==
  ASSUME TypeOK, SlotState, next \in Jobs
  PROVE  /\ rec[next].status = "none" /\ next \notin slotted /\ runs[next] = 0 /\ mail[next] = "none"
         /\ (\A m \in Machines : run[m] # next) /\ ~Settled(next)
<1>1. next >= next /\ ~(next < next)
  BY DEF Jobs
<1> QED BY <1>1 DEF SlotState, JobPart, Settled

\* A call begins, or goes on, with a job of its own.
LEMMA NewJobKeeps ==
  ASSUME TypeOK, TypeOK', SlotState, NEW c \in Calls, NEW new, Become(c, new), next \in Jobs, next' = next + 1,
         UNCHANGED <<rec, run, mail, runs, slotted>>,
         new.job = next, new.at \in Early, new.at = "claim" => new.kind = "again" /\ new.array = <<>>,
         ~Draining(new), calls[c].at \notin {"accepted", "mark"}, \A j \in new.todo : j \in Jobs /\ Retirable(j)
  PROVE  SlotState'
<1>0. PICK i \in Jobs : i = next
  OBVIOUS
<1>1. /\ rec[i].status = "none" /\ i \notin slotted /\ runs[i] = 0 /\ mail[i] = "none"
      /\ (\A m \in Machines : run[m] # i) /\ ~Settled(i)
  BY <1>0, NextJob
<1>2. calls'[c] = new /\ \A d \in Calls \ {c} : calls'[d] = calls[d]
  BY Became DEF TypeOK
<1>3. Apart(c, i)
  BY <1>0, <1>2, NextApart
<1>4. \A j \in Jobs : Steady(j)
  BY SameSteady
<1>5. next <= next' /\ next' \in Nat /\ i < next' /\ i >= next /\ ~(i >= next')
  BY <1>0 DEF Jobs
<1>6. Touches(c, i)
  BY <1>0, <1>1, <1>2, <1>3, <1>4, <1>5 DEF Touches
<1>7. Owned(c)'
  BY <1>0, <1>1, <1>2, <1>5, <1>6, OwnedNext
<1>8. EarlyOK(c)' /\ UnsentOK(c)' /\ GrantedOK(c)' /\ SyncOK(c)'
  BY <1>0, <1>1, <1>2 DEF EarlyOK, UnsentOK, GrantedOK, SyncOK, Early
<1>9. ClaimOK(c)' /\ ListOK(c)'
  BY <1>2 DEF ClaimOK, ListOK, Draining
<1>10. RetireOK(c)'
  BY <1>2, <1>6, RetirableStays DEF RetireOK
<1>11. CallPart(c)'
  BY <1>7, <1>8, <1>9, <1>10 DEF CallPart
<1>12. JobPart(i)'
  BY <1>1, <1>5 DEF JobPart
<1>13. Quota'
  <2>1. Slots' \subseteq Slots
    BY DEF Slots
  <2>2. \A d \in Calls : Draining(calls'[d]) => Draining(calls[d]) /\ calls'[d].todo \subseteq calls[d].todo
    BY <1>2
  <2> QED BY <2>1, <2>2, QuotaShrinks DEF SlotState
<1> QED BY <1>6, <1>11, <1>12, <1>13, StepKeeps

LEMMA IdsLeftMore ==
  ASSUME TypeOK, IdsLeft(2)
  PROVE  next \in Jobs
BY IdsLeftBound DEF TypeOK

LEMMA NoSuchCall == \E c : c \notin Calls
BY NoSetContainsEverything

LEMMA executeScheduledBackupKeeps ==
  ASSUME TypeOK, TypeOK', SlotState, NEW m \in Machines, NEW c \in Calls, executeScheduledBackup(m, c)
  PROVE  SlotState'
<1>1. calls[c] = Idle /\ next' = next + 1 /\ UNCHANGED <<run, mail, runs, slotted>>
  BY DEF executeScheduledBackup, Spare, Free, agentVars, historyVars
<1>2. CASE online
  <2>1. next \in Jobs /\ rec' = rec
    BY <1>2, IdsLeftBound DEF executeScheduledBackup, TypeOK
  <2>2. PICK new : new = [Call("slot", "fire") EXCEPT !.job = next, !.machine = m]
    OBVIOUS
  <2>3. new.at = "slot" /\ new.kind = "fire" /\ new.job = next /\ new.todo = {} /\ Become(c, new)
    BY <1>2, <2>2 DEF executeScheduledBackup, Call, Idle
  <2>4. new.at \in Early /\ ~Draining(new) /\ calls[c].at \notin {"accepted", "mark"}
    BY <1>1, <2>3, IdleFacts DEF Early, Draining
  <2> QED BY <1>1, <2>1, <2>3, <2>4, NewJobKeeps
<1>3. CASE ~online
  <2>1. PICK i \in Jobs : i = next
    BY <1>3, IdsLeftMore DEF executeScheduledBackup
  <2>2. rec' = [rec EXCEPT ![i] = New("skipped", m)] /\ calls' = calls
    BY <1>3, <2>1 DEF executeScheduledBackup
  <2>3. rec'[i].status = "skipped" /\ \A j \in Jobs \ {i} : rec'[j] = rec[j]
    BY <2>2 DEF New, TypeOK, Arrays
  <2>4. \A j \in Jobs \ {i} : Steady(j)
    BY <1>1, <2>3, SameSteady
  <2>5. /\ i \notin slotted /\ runs[i] = 0 /\ mail[i] = "none" /\ (\A n \in Machines : run[n] # i) /\ ~Settled(i)
    BY <2>1, NextJob
  <2>6. PICK d : d \notin Calls
    BY NoSuchCall
  <2>7. Apart(d, i)
    BY <2>1, <2>2, NextApart
  <2>8. next <= next' /\ next' \in Nat /\ ~(i >= next')
    BY <1>1, <2>1 DEF Jobs
  <2>9. Touches(d, i)
    BY <2>4, <2>5, <2>6, <2>7, <2>8 DEF Touches
  <2>10. JobPart(i)'
    BY <1>1, <2>3, <2>5, <2>8 DEF JobPart
  <2>11. Quota'
    <3>1. Slots' \subseteq Slots
      BY <1>1, <2>4, <2>5, SlotsShrink DEF Slots
    <3> QED BY <2>2, <3>1, QuotaShrinks DEF SlotState
  <2> QED BY <2>6, <2>9, <2>10, <2>11, StepKeeps
<1> QED BY <1>2, <1>3

LEMMA ManualKeeps ==
  ASSUME TypeOK, TypeOK', SlotState, NEW m \in Machines, NEW c \in Calls, Manual(m, c)
  PROVE  SlotState'
<1>1. calls[c] = Idle /\ next' = next + 1 /\ next \in Jobs /\ UNCHANGED <<rec, run, mail, runs, slotted>>
  BY IdsLeftBound DEF Manual, Spare, Free, agentVars, TypeOK
<1>2. PICK new : new = [Call("preflight", "manual") EXCEPT !.job = next, !.machine = m, !.array = rec]
  OBVIOUS
<1>3. new.at = "preflight" /\ new.kind = "manual" /\ new.job = next /\ new.todo = {} /\ Become(c, new)
  BY <1>2 DEF Manual, Call, Idle
<1>4. new.at \in Early /\ ~Draining(new) /\ calls[c].at \notin {"accepted", "mark"}
  BY <1>1, <1>3, IdleFacts DEF Early, Draining
<1> QED BY <1>1, <1>3, <1>4, NewJobKeeps

\* The run that gives way to its retry has failed, and holds no slot.
LEMMA RetryRunKeeps ==
  ASSUME TypeOK, TypeOK', SlotState, NEW j \in Jobs, NEW c \in Calls, RetryRun(j, c)
  PROVE  SlotState'
<1>1. calls[c] = Idle /\ next' = next + 1 /\ next \in Jobs /\ UNCHANGED <<rec, run, mail, runs, slotted>>
  BY IdsLeftBound DEF RetryRun, Spare, Free, agentVars, TypeOK
<1>2. PICK todo : todo = IF rec[j].status = "failed" THEN {j} ELSE {}
  OBVIOUS
<1>3. PICK new : new = [Call("claim", "again") EXCEPT !.job = next, !.machine = rec[j].machine, !.todo = todo]
  OBVIOUS
<1>4. /\ new.at = "claim" /\ new.kind = "again" /\ new.job = next /\ new.todo = todo /\ new.array = <<>>
      /\ Become(c, new)
  BY <1>2, <1>3 DEF RetryRun, Call, Idle
<1>5. new.at \in Early /\ ~Draining(new) /\ calls[c].at \notin {"accepted", "mark"}
  BY <1>1, <1>4, IdleFacts DEF Early, Draining
<1>6. rec[j].status = "failed" => Retirable(j)
  <2> SUFFICES ASSUME rec[j].status = "failed" PROVE Retirable(j)
    OBVIOUS
  <2>1. j < next
    BY DEF SlotState, JobPart, Jobs, TypeOK
  <2>2. \A d \in Calls : calls[d].at \in Early => calls[d].job # j
    BY DEF SlotState, CallPart, EarlyOK
  <2> QED BY <2>1, <2>2 DEF Retirable, Settled, Occupying
<1>7. \A k \in todo : k \in Jobs /\ Retirable(k)
  BY <1>2, <1>6
<1> QED BY <1>1, <1>4, <1>5, <1>7, NewJobKeeps

LEMMA retrySkippedJobKeeps ==
  ASSUME TypeOK, TypeOK', SlotState, NEW c \in Calls, retrySkippedJob(c)
  PROVE  SlotState'
<1>1. /\ calls[c].at = "next" /\ calls[c].kind = "retry" /\ next' = next + 1 /\ next \in Jobs
      /\ UNCHANGED <<rec, run, mail, runs, slotted>>
  BY BoundsAssumption DEF retrySkippedJob, At, agentVars, historyVars, TypeOK, Jobs
<1>2. PICK m \in calls[c].known :
        Become(c, [calls[c] EXCEPT !.at = "push", !.job = next, !.machine = m, !.known = @ \ {m}])
  BY Zenon DEF retrySkippedJob
<1>3. PICK new : new = [calls[c] EXCEPT !.at = "push", !.job = next, !.machine = m, !.known = @ \ {m}]
  OBVIOUS
<1>4. /\ new.at = "push" /\ new.kind = "retry" /\ new.job = next /\ new.todo = calls[c].todo /\ Become(c, new)
  BY <1>1, <1>2, <1>3 DEF TypeOK, CallsOK, CallType
<1>5. new.at \in Early /\ ~Draining(new) /\ ~Draining(calls[c])
  BY <1>1, <1>4 DEF Early, Draining
<1>6. \A k \in new.todo : k \in Jobs /\ Retirable(k)
  BY <1>4, <1>5 DEF SlotState, CallPart, RetireOK, TypeOK, CallsOK, CallType
<1> QED BY <1>1, <1>4, <1>5, <1>6, NewJobKeeps

-----------------------------------------------------------------------------
(* What becomes of runs, and time *)

\* Calls, ids, records and what ran stay: so does what holds of the calls.
LEMMA SameParts ==
  ASSUME SlotState, UNCHANGED <<rec, next, calls, runs, slotted>>, NEW c \in Calls
  PROVE  CallPart(c)'
<1>1. \A j \in Jobs : (Settled(j) => Settled(j)') /\ (Retirable(j) => Retirable(j)')
  BY DEF Settled, Retirable
<1>2. Owned(c)' /\ EarlyOK(c)' /\ UnsentOK(c)'
  BY DEF SlotState, CallPart, Owned, EarlyOK, UnsentOK
<1>3. GrantedOK(c)' /\ ListOK(c)'
  BY DEF SlotState, CallPart, GrantedOK, Granted, ListOK, Draining
<1>4. RetireOK(c)'
  BY DEF SlotState, CallPart, RetireOK, Retirable, Settled, Draining
<1>5. SyncOK(c)'
  BY <1>1 DEF SlotState, CallPart, SyncOK
<1>6. ClaimOK(c)'
  BY DEF SlotState, CallPart, ClaimOK, Claimable, Full, countActiveJobsOnHost, Jobless
<1> QED BY <1>2, <1>3, <1>4, <1>5, <1>6 DEF CallPart

LEMMA EndKeeps ==
  ASSUME TypeOK, TypeOK', SlotState, NEW m \in Machines, End(m)
  PROVE  SlotState'
<1>1. UNCHANGED <<rec, next, calls, runs, slotted>>
  BY DEF End, recordVars, historyVars
<1>2. PICK i : i = run[m]
  OBVIOUS
<1>3. i \in Jobs /\ runs[i] # 0 /\ \A n \in Machines : run[n] = i => n = m
  BY <1>2 DEF End, TypeOK, SlotState, JobPart
<1>4. /\ \A n \in Machines : run'[n] = IF n = m THEN NoJob ELSE run[n]
      /\ \A j \in Jobs \ {i} : mail'[j] = mail[j]
  BY <1>2 DEF End, TypeOK
<1>5. \A c \in Calls : CallPart(c)'
  BY <1>1, SameParts
<1>6. ASSUME NEW j \in Jobs PROVE JobPart(j)'
  <2>0. JobPart(j)
    BY DEF SlotState
  <2>1. \A n \in Machines : run'[n] = j => run[n] = j
    BY <1>4 DEF Jobs, NoJob
  <2>2. mail'[j] # "none" => runs[j] # 0 /\ \A n \in Machines : run'[n] # j
    <3>1. CASE j = i
      BY <1>3, <1>4, <3>1 DEF Jobs, NoJob
    <3>2. CASE j # i
      BY <1>4, <2>0, <2>1, <3>2 DEF JobPart
    <3> QED BY <3>1, <3>2
  <2> QED BY <1>1, <2>0, <2>1, <2>2 DEF JobPart, Marks
<1>7. Quota'
  BY <1>1, QuotaShrinks DEF Slots, SlotState
<1> QED BY <1>5, <1>6, <1>7 DEF SlotState

\* A report ends the job of a run that is over.
LEMMA UpdateKeeps ==
  ASSUME TypeOK, TypeOK', SlotState, NEW i \in Jobs, NEW c \in Calls, Update(i, c)
  PROVE  SlotState'
<1>1. /\ calls[c] = Idle /\ mail[i] # "none" /\ mail' = [mail EXCEPT ![i] = "none"]
      /\ UNCHANGED <<next, run, runs, slotted>>
  BY DEF Update, Spare, Free, historyVars
<1>2. JobPart(i) /\ runs[i] # 0 /\ (\A m \in Machines : run[m] # i)
  BY <1>1 DEF SlotState, JobPart
<1>3. rec[i].status # "waiting"
  BY <1>2 DEF JobPart
<1>4. \A d \in Calls : calls[d].at \in {"check", "trigger"} => calls[d].job # i
  BY <1>2 DEF SlotState, CallPart, UnsentOK, Unsent
<1>5. \A j \in Jobs : mail'[j] \in {mail[j], "none"}
  BY <1>1 DEF TypeOK
<1>6. PICK new : new = IF Stored(rec, i) THEN Call("drain", "drain") ELSE Idle
  OBVIOUS
<1>7. /\ new.at \in {"idle", "drain"} /\ new.job = NoJob /\ new.todo = {} /\ ~Draining(new)
      /\ new.at \notin Unsent \cup {"sync"} /\ new.at \notin Early
  BY <1>6, IdleFacts DEF Unsent
<1>8. Become(c, new)
  BY <1>1, <1>6 DEF Update, Become, TypeOK, CallsOK
<1>9. calls'[c] = new /\ \A d \in Calls \ {c} : calls'[d] = calls[d]
  BY <1>8, Became DEF TypeOK
<1>10. ASSUME NEW j \in Jobs PROVE Steady(j)
  <2>1. CASE rec'[j] = rec[j]
    BY <1>1, <1>5, <2>1 DEF Steady
  <2>2. CASE j = i /\ rec' = Ended(rec, i, mail[i]) /\ Stored(rec, i)
    <3>1. rec'[i].status = mail[i] /\ rec[i].status # "none" /\ mail[i] \in {"completed", "failed"}
      BY <1>1, <2>2 DEF Ended, Stored, TypeOK, Arrays, Record
    <3> QED BY <1>1, <1>2, <1>3, <1>4, <1>5, <2>2, <3>1, EndSteady
  <2>3. rec' = rec \/ (rec' = Ended(rec, i, mail[i]) /\ Stored(rec, i))
    BY DEF Update
  <2>4. CASE j # i /\ rec' = Ended(rec, i, mail[i])
    <3>1. rec'[j] = rec[j]
      BY <2>4 DEF Ended, TypeOK, Arrays
    <3> QED BY <2>1, <3>1
  <2> QED BY <2>1, <2>2, <2>3, <2>4
<1>11. next <= next' /\ next' \in Nat
  BY <1>1 DEF TypeOK
<1>12. Touches(c, NoJob)
  BY <1>1, <1>7, <1>9, <1>10, <1>11, IdleFacts DEF Touches, Apart, Jobs, NoJob
<1>13. Owned(c)'
  BY <1>7, <1>9 DEF Owned
<1>14. CallPart(c)'
  BY <1>7, <1>9, <1>12, <1>13, PlainPart DEF SlotState
<1>15. Quota'
  <2>1. NoJob \notin Slots'
    BY DEF Slots, TypeOK, Jobs, NoJob
  <2>2. Slots' \subseteq Slots
    BY <1>10, <2>1, SlotsShrink
  <2> QED BY <1>7, <1>9, <2>2, QuotaShrinks DEF SlotState
<1> QED BY <1>12, <1>14, <1>15, StepKeeps DEF Jobs, NoJob

\* What the agents say of the jobs that held a slot: those that run are running,
\* those that are over and nobody deals with any more have failed.
LEMMA syncHostKeeps ==
  ASSUME TypeOK, TypeOK', SlotState, NEW c \in Calls, syncHost(c)
  PROVE  SlotState'
<1>1. calls[c].at = "sync" /\ UNCHANGED <<next, run, mail, runs, slotted>>
  BY DEF syncHost, At, agentVars, historyVars
<1>2. PICK new : new = [calls[c] EXCEPT !.at = "sweep", !.array = <<>>]
  OBVIOUS
<1>3. /\ new.at = "sweep" /\ new.kind = calls[c].kind /\ new.job = calls[c].job /\ new.todo = calls[c].todo
      /\ Become(c, new)
  BY <1>2 DEF syncHost, TypeOK, CallsOK, CallType
<1>4. CallPart(c) /\ calls[c] \in CallType /\ ~Draining(new) /\ ~Draining(calls[c])
  BY <1>1, <1>3, OfCall DEF SlotState, TypeOK, Draining
<1>5. calls'[c] = new /\ \A d \in Calls \ {c} : calls'[d] = calls[d]
  BY <1>3, Became DEF TypeOK
<1>6. ASSUME NEW j \in Jobs PROVE Steady(j)
  <2>0. rec[j] \in Record /\ JobPart(j)
    BY OfRecord DEF SlotState, TypeOK
  <2>1. CASE rec'[j] = rec[j]
    BY <1>1, <2>1, SameSteady
  <2>2. CASE rec'[j] # rec[j]
    <3>1. /\ calls[c].array[j].status \in Occupying /\ Stored(rec, j)
          /\ Verdict(j) # "unchanged" /\ rec'[j] = [rec[j] EXCEPT !.status = Verdict(j)]
      BY <2>2 DEF syncHost
    <3>2. rec[j].status # "waiting" /\ rec[j].status # "none"
      BY <1>1, <1>4, <3>1 DEF CallPart, SyncOK, Settled, Stored
    <3>3. rec'[j].status = Verdict(j) /\ rec'[j].old = rec[j].old
      BY <2>0, <3>1 DEF Record
    <3>4. CASE \E m \in Machines : run[m] = j
      <4>1. Verdict(j) = "running" /\ runs[j] # 0
        BY <2>0, <3>4 DEF Verdict, JobPart
      <4>2. j \in slotted => rec[j].status \in Occupying
        BY <2>0, <3>4 DEF JobPart, Occupying
      <4>3. \A d \in Calls : calls[d].at \in {"check", "trigger"} => calls[d].job # j
        BY <4>1 DEF SlotState, CallPart, UnsentOK, Unsent
      <4> QED BY <1>1, <3>2, <3>3, <4>1, <4>2, <4>3 DEF Steady
    <3>5. CASE \A m \in Machines : run[m] # j
      <4>1. Verdict(j) = "failed" /\ ~Attended(j)
        BY <3>1, <3>5 DEF Verdict
      <4>2. \A d \in Calls : calls[d].job # j
        BY <4>1 DEF Attended
      <4> QED BY <1>1, <3>2, <3>3, <3>5, <4>1, <4>2, EndSteady
    <3> QED BY <3>4, <3>5
  <2> QED BY <2>1, <2>2
<1>7. next <= next' /\ next' \in Nat
  BY <1>1 DEF TypeOK
<1>8. Touches(c, NoJob)
  BY <1>1, <1>3, <1>5, <1>6, <1>7 DEF Touches, Apart, Jobs, NoJob, Early
<1>9. Owned(c)'
  <2> SUFFICES ASSUME new.job # NoJob
               PROVE  /\ new.job < next' /\ rec'[new.job].status # "waiting"
                      /\ \A d \in Calls : calls'[d].job = new.job => d = c
    BY <1>5 DEF Owned
  <2>1. /\ new.job \in Jobs /\ new.job < next /\ rec[new.job].status # "waiting"
        /\ \A d \in Calls : calls[d].job = new.job => d = c
    BY <1>3, <1>4 DEF CallType, CallPart, Owned
  <2> QED BY <1>1, <1>3, <1>5, <1>6, <2>1 DEF Steady
<1>10. CallPart(c)'
  BY <1>3, <1>4, <1>5, <1>8, <1>9, PlainPart DEF Unsent, Early
<1>11. Quota'
  <2>1. NoJob \notin Slots'
    BY DEF Slots, TypeOK, Jobs, NoJob
  <2>2. Slots' \subseteq Slots
    BY <1>6, <2>1, SlotsShrink
  <2> QED BY <1>4, <1>5, <2>2, QuotaShrinks DEF SlotState
<1> QED BY <1>8, <1>10, <1>11, StepKeeps DEF Jobs, NoJob

\* A day only takes slots away: jobs that are more than a day old hold none.
LEMMA DayPassesKeeps == TypeOK /\ TypeOK' /\ SlotState /\ DayPasses => SlotState'
<1> SUFFICES ASSUME TypeOK, TypeOK', SlotState, DayPasses PROVE SlotState'
  OBVIOUS
<1>1. /\ UNCHANGED <<next, calls, run, mail, runs, slotted>> /\ \A d \in Calls : calls[d] = Idle
      /\ rec' = [j \in Jobs |-> [rec[j] EXCEPT !.old = Stored(rec, j)]]
  BY DEF DayPasses, agentVars, Free
<1>2. ASSUME NEW j \in Jobs PROVE Steady(j)
  <2>1. rec[j] \in Record
    BY OfRecord DEF TypeOK
  <2>2. rec'[j].status = rec[j].status /\ rec'[j].old = Stored(rec, j)
    BY <1>1, <2>1 DEF Record
  <2>3. \A d \in Calls : calls[d].at \notin {"check", "trigger"}
    BY <1>1, IdleFacts
  <2> QED BY <1>1, <2>2, <2>3 DEF Steady, Stored, Occupying
<1>3. PICK c : c \notin Calls
  BY NoSuchCall
<1>4. next <= next' /\ next' \in Nat
  BY <1>1 DEF TypeOK
<1>5. Touches(c, NoJob)
  BY <1>1, <1>2, <1>3, <1>4 DEF Touches, Apart, Jobs, NoJob
<1>6. Quota'
  <2>1. NoJob \notin Slots'
    BY DEF Slots, TypeOK, Jobs, NoJob
  <2>2. Slots' \subseteq Slots
    BY <1>2, <2>1, SlotsShrink
  <2> QED BY <1>1, <2>2, QuotaShrinks DEF SlotState
<1> QED BY <1>3, <1>5, <1>6, StepKeeps DEF Jobs, NoJob

\* The host goes down, a schedule is deleted, or nothing happens.
LEMMA QuietKeeps ==
  ASSUME SlotState, UNCHANGED <<rec, next, calls, run, mail, runs, slotted>>
  PROVE  SlotState'
<1>1. \A c \in Calls : CallPart(c)'
  BY SameParts
<1>2. \A j \in Jobs : JobPart(j)'
  BY DEF SlotState, JobPart, Marks
<1>3. Quota'
  BY DEF SlotState, Quota, Slots, Draining
<1> QED BY <1>1, <1>2, <1>3 DEF SlotState

LEMMA UnansweredUnclean ==
  ASSUME TypeOK, NEW c \in Calls, Unanswered(c)
  PROVE  ~Clean'
BY DEF Unanswered, Clean

LEMMA InitSlots == Init => SlotState
<1> SUFFICES ASSUME Init PROVE SlotState
  OBVIOUS
<1>1. \A c \in Calls : CallPart(c)
  BY IdleFacts DEF Init, CallPart, Owned, EarlyOK, UnsentOK, GrantedOK, ListOK, RetireOK, SyncOK, ClaimOK,
                   Unsent, Early
<1>2. \A j \in Jobs : JobPart(j)
  BY DEF Init, JobPart, NoRecord, Jobs, NoJob
<1>3. Slots = {} /\ Cardinality({}) = 0
  BY FS_EmptySet DEF Init, Slots
<1>4. Quota
  BY <1>3, IdleFacts, BoundsAssumption DEF Init, Quota
<1> QED BY <1>1, <1>2, <1>4 DEF SlotState

LEMMA CleanBefore ==
  ASSUME [Next]_vars, TypeOK, TypeOK', Clean'
  PROVE  Clean
<1>1. stale => stale'
  BY StaleStays
<1>2. lost \subseteq lost'
  BY DEF Next, vars, Step, HostDown, DayPasses, Unreachable, Unanswered, HostUp, reconcileAndDrainAllHosts,
         End, DeleteSchedule, executeScheduledBackup, Manual, Update, RetryRun, Reserve, CheckStatus, Accept,
         Answered, Refuse, Failed, ReadJobs, SaveJobs, releaseConcurrentSlotsOnHost, startQueuedJob, LoopEnds,
         retrySkippedJob, Preflight, syncHost, historyVars
<1> QED BY <1>1, <1>2 DEF Clean

LEMMA StepSlots ==
  ASSUME TypeOK, TypeOK', SlotState, NEW c \in Calls, Step(c), Clean'
  PROVE  SlotState'
<1>1. ~stale'
  BY DEF Clean
<1> QED BY <1>1, ReserveKeeps, CheckStatusKeeps, AcceptKeeps, AnsweredKeeps, RefuseKeeps, FailedKeeps,
           ReadJobsKeeps, SaveJobsKeeps, releaseConcurrentSlotsOnHostKeeps, startQueuedJobKeeps,
           LoopEndsKeeps, retrySkippedJobKeeps, PreflightKeeps, syncHostKeeps DEF Step

\* The runs that count are jobs that hold a slot, each on a machine of its own.
LEMMA RunsHoldSlots ==
  ASSUME TypeOK, SlotState, Limit # 0
  PROVE  Cardinality(Running) <= Limit
<1> DEFINE f == [m \in Running |-> run[m]]
<1>1. ASSUME NEW m \in Running PROVE f[m] \in Slots
  <2>1. m \in Machines /\ run[m] \in slotted /\ ~rec[run[m]].old
    BY DEF Running
  <2>2. run[m] \in Jobs /\ JobPart(run[m])
    BY <2>1 DEF TypeOK, SlotState
  <2>3. rec[run[m]].status \in Occupying
    BY <2>1, <2>2 DEF JobPart, Occupying
  <2> QED BY <2>1, <2>3 DEF Slots
<1>2. ASSUME NEW m \in Running, NEW n \in Running, f[m] = f[n] PROVE m = n
  <2>1. m \in Machines /\ n \in Machines /\ run[m] = run[n] /\ run[m] \in Jobs
    BY <1>2 DEF Running, TypeOK
  <2> QED BY <2>1 DEF SlotState, JobPart
<1>3. f \in Injection(Running, Slots)
  BY <1>1, <1>2 DEF Injection, IsInjective
<1>4. Slots \in SUBSET Jobs
  BY DEF Slots, TypeOK
<1>5. IsFiniteSet(Slots) /\ Cardinality(Slots) \in Nat /\ Cardinality(Slots) <= Limit
  BY <1>4, JobsAreFinite DEF SlotState, Quota
<1>6. IsFiniteSet(Running) /\ Cardinality(Running) <= Cardinality(Slots)
  BY <1>3, <1>5, FS_Injection
<1>7. Cardinality(Running) \in Nat
  BY <1>6, FS_CardinalityType
<1> QED BY <1>5, <1>6, <1>7, BoundsAssumption

\* Fires, drains and retries together never start more backups under the lock
\* than the host may run, however they interleave with each other, with manual
\* backups, reports, sweeps and the reconciliation, as long as no save of a whole
\* array undid another update and no answer of the agent was lost
\* (_withHostLock, countActiveJobsOnHost, releaseConcurrentSlotsOnHost).
THEOREM WithinLimit == Spec => []SlotLimit
<1> DEFINE Inv == Clean => SlotState
<1>1. Init => Inv
  BY InitSlots
<1>2. TypeOK /\ TypeOK' /\ Inv /\ [Next]_vars => Inv'
  <2> SUFFICES ASSUME TypeOK, TypeOK', Inv, [Next]_vars, Clean' PROVE SlotState'
    OBVIOUS
  <2>a. SlotState
    BY CleanBefore
  <2>1. CASE HostDown \/ DayPasses
    BY <2>a, <2>1, QuietKeeps, DayPassesKeeps DEF HostDown, agentVars
  <2>2. ASSUME NEW c \in Calls, Step(c) PROVE SlotState'
    BY <2>a, <2>2, StepSlots
  <2>3. ASSUME NEW c \in Calls, Unreachable(c) \/ Unanswered(c) \/ HostUp(c)
                                  \/ reconcileAndDrainAllHosts(c)
        PROVE  SlotState'
    BY <2>a, <2>3, UnreachableKeeps, UnansweredUnclean, HostUpKeeps, reconcileAndDrainAllHostsKeeps
  <2>4. ASSUME NEW m \in Machines, End(m) \/ DeleteSchedule(m) PROVE SlotState'
    <3>1. CASE End(m)
      BY <2>a, <3>1, EndKeeps
    <3>2. CASE DeleteSchedule(m)
      BY <2>a, <3>2, QuietKeeps DEF DeleteSchedule, agentVars
    <3> QED BY <2>4, <3>1, <3>2
  <2>5. ASSUME NEW m \in Machines, NEW c \in Calls, executeScheduledBackup(m, c) \/ Manual(m, c)
        PROVE  SlotState'
    BY <2>a, <2>5, executeScheduledBackupKeeps, ManualKeeps
  <2>6. ASSUME NEW j \in Jobs, NEW c \in Calls, Update(j, c) \/ RetryRun(j, c) PROVE SlotState'
    BY <2>a, <2>6, UpdateKeeps, RetryRunKeeps
  <2>7. CASE UNCHANGED vars
    BY <2>a, <2>7, QuietKeeps DEF vars
  <2> QED BY <2>1, <2>2, <2>3, <2>4, <2>5, <2>6, <2>7 DEF Next
<1>3. TypeOK /\ Inv => SlotLimit
  BY RunsHoldSlots DEF SlotLimit
<1> QED BY <1>1, <1>2, <1>3, TypeInvariant, PTL DEF Spec
=============================================================================
