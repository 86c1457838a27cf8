------------------------ MODULE AgentExecutor_proofs ------------------------
(***************************************************************************)
(* Proofs about AgentExecutor, for any number of jobs, machines, kills and *)
(* restarts: its type invariant, that no accepted job is forgotten, and,   *)
(* as long as the agent runs orderly, that a machine has one script at a   *)
(* time and that no failed script is reported as completed.                *)
(***************************************************************************)
EXTENDS AgentExecutor, TLAPS

Elems(q) == {q[i] : i \in DOMAIN q}

LEMMA HeadTail ==
  ASSUME NEW S, NEW q \in Seq(S), q # <<>>
  PROVE  Head(q) \in S /\ Tail(q) \in Seq(S)
OBVIOUS

LEMMA ElemsTail ==
  ASSUME NEW S, NEW q \in Seq(S), q # <<>>
  PROVE  Elems(q) = {Head(q)} \cup Elems(Tail(q))
<1>1. Len(q) \in Nat /\ Len(q) > 0 /\ DOMAIN q = 1 .. Len(q)
  OBVIOUS
<1>2. Len(Tail(q)) = Len(q) - 1 /\ DOMAIN Tail(q) = 1 .. Len(q) - 1
  BY <1>1
<1>3. \A i \in 1 .. Len(q) - 1 : Tail(q)[i] = q[i + 1]
  BY <1>1, <1>2
<1>4. Head(q) = q[1]
  OBVIOUS
<1>5. ASSUME NEW x \in Elems(q) PROVE x \in {Head(q)} \cup Elems(Tail(q))
  <2>1. PICK i \in 1 .. Len(q) : x = q[i]
    BY <1>1 DEF Elems
  <2>2. CASE i = 1
    BY <2>1, <2>2, <1>4
  <2>3. CASE i # 1
    <3>1. i - 1 \in 1 .. Len(q) - 1
      BY <2>3, <1>1
    <3>2. Tail(q)[i - 1] = x
      BY <3>1, <1>3, <2>1, <1>1
    <3> QED BY <3>1, <3>2, <1>2 DEF Elems
  <2> QED BY <2>2, <2>3
<1>6. ASSUME NEW x \in {Head(q)} \cup Elems(Tail(q)) PROVE x \in Elems(q)
  <2>1. CASE x = Head(q)
    BY <2>1, <1>4, <1>1 DEF Elems
  <2>2. CASE x \in Elems(Tail(q))
    <3>1. PICK i \in 1 .. Len(q) - 1 : x = Tail(q)[i]
      BY <2>2, <1>2 DEF Elems
    <3>2. i + 1 \in 1 .. Len(q) /\ x = q[i + 1]
      BY <3>1, <1>3, <1>1
    <3> QED BY <3>2, <1>1 DEF Elems
  <2> QED BY <1>6, <2>1, <2>2
<1> QED BY <1>5, <1>6

LEMMA ElemsAppend ==
  ASSUME NEW S, NEW q \in Seq(S), NEW j \in S
  PROVE  Append(q, j) \in Seq(S) /\ Elems(Append(q, j)) = Elems(q) \cup {j}
<1>1. Append(q, j) \in Seq(S) /\ Len(q) \in Nat /\ DOMAIN q = 1 .. Len(q)
  OBVIOUS
<1>2. DOMAIN Append(q, j) = 1 .. Len(q) + 1
  BY <1>1
<1>3. /\ \A i \in 1 .. Len(q) : Append(q, j)[i] = q[i]
      /\ Append(q, j)[Len(q) + 1] = j
  BY <1>1
<1>4. 1 .. Len(q) + 1 = (1 .. Len(q)) \cup {Len(q) + 1}
  BY <1>1
<1> QED BY <1>1, <1>2, <1>3, <1>4 DEF Elems

\* Removing a position keeps all other jobs.
LEMMA ElemsRemove ==
  ASSUME NEW S, NEW q \in Seq(S), NEW i \in DOMAIN q
  PROVE  LET r == SubSeq(q, 1, i - 1) \o SubSeq(q, i + 1, Len(q)) IN
         r \in Seq(S) /\ Elems(r) \subseteq Elems(q) /\ Elems(q) \subseteq Elems(r) \cup {q[i]}
<1> DEFINE a == SubSeq(q, 1, i - 1)
           b == SubSeq(q, i + 1, Len(q))
           r == a \o b
<1>1. Len(q) \in Nat /\ DOMAIN q = 1 .. Len(q) /\ i \in 1 .. Len(q)
  OBVIOUS
<1>2. /\ a \in Seq(S) /\ Len(a) = i - 1
      /\ \A k \in 1 .. i - 1 : a[k] = q[k]
  BY <1>1
<1>3. /\ b \in Seq(S) /\ Len(b) = Len(q) - i
      /\ \A k \in 1 .. Len(q) - i : b[k] = q[i + k]
  BY <1>1
<1> HIDE DEF a, b
<1>4. r \in Seq(S) /\ Len(r) = Len(q) - 1 /\ DOMAIN r = 1 .. Len(q) - 1
  <2>1. r \in Seq(S) /\ Len(r) = Len(a) + Len(b)
    <3>1. \A s, t \in Seq(S) : s \o t \in Seq(S) /\ Len(s \o t) = Len(s) + Len(t)
      OBVIOUS
    <3>2. a \in Seq(S) /\ b \in Seq(S)
      BY <1>2, <1>3
    <3> QED BY <3>1, <3>2, Zenon
  <2>2. Len(r) = Len(q) - 1
    BY <2>1, <1>1, <1>2, <1>3
  <2>3. DOMAIN r = 1 .. Len(r)
    BY <2>1
  <2> QED BY <2>1, <2>2, <2>3
<1>5. \A k \in 1 .. Len(q) - 1 : r[k] = IF k < i THEN q[k] ELSE q[k + 1]
  <2> SUFFICES ASSUME NEW k \in 1 .. Len(q) - 1
               PROVE  r[k] = IF k < i THEN q[k] ELSE q[k + 1]
    OBVIOUS
  <2>1. CASE k < i
    <3>1. r[k] = a[k]
      BY <2>1, <1>1, <1>2, <1>3
    <3> QED BY <3>1, <2>1, <1>1, <1>2
  <2>2. CASE ~(k < i)
    <3>1. r[k] = b[k - (i - 1)]
      BY <2>2, <1>1, <1>2, <1>3
    <3>2. k - (i - 1) \in 1 .. Len(q) - i /\ i + (k - (i - 1)) = k + 1
      BY <2>2, <1>1
    <3> QED BY <3>1, <3>2, <2>2, <1>3
  <2> QED BY <2>1, <2>2
<1> HIDE DEF r
<1>6. Elems(r) \subseteq Elems(q)
  BY <1>1, <1>4, <1>5 DEF Elems
<1>7. ASSUME NEW x \in Elems(q) PROVE x \in Elems(r) \cup {q[i]}
  <2>1. PICK k \in 1 .. Len(q) : x = q[k]
    BY <1>1 DEF Elems
  <2>2. CASE k < i
    BY <2>1, <2>2, <1>1, <1>4, <1>5 DEF Elems
  <2>3. CASE k > i
    <3>1. k - 1 \in 1 .. Len(q) - 1 /\ ~(k - 1 < i) /\ (k - 1) + 1 = k
      BY <2>3, <1>1
    <3>2. r[k - 1] = q[k]
      BY <3>1, <1>5
    <3> QED BY <2>1, <3>1, <3>2, <1>4 DEF Elems
  <2>4. CASE k = i
    BY <2>1, <2>4
  <2> QED BY <2>2, <2>3, <2>4, <1>1
<1> QED BY <1>4, <1>6, <1>7 DEF r, a, b

LEMMA Except ==
  ASSUME NEW S, NEW T, NEW f \in [S -> T], NEW a, NEW b, NEW x \in S
  PROVE  [f EXCEPT ![a] = b][x] = IF x = a THEN b ELSE f[x]
OBVIOUS

Files == {"none", "queued", "started"}

\* What starting the head of a queue may change.
QueueEffect(q, a, l, f) ==
  /\ active' \cup Elems(queue') = a \cup Elems(q)
  /\ Elems(queue') \subseteq Elems(q)
  /\ \A v \in VMs : \/ lock'[v] = l[v]
                    \/ lock'[v] \in Elems(q) \cap active' /\ vmOf[lock'[v]] = v
  /\ \A k \in Jobs : \/ stateFile'[k] = f[k]
                     \/ stateFile'[k] = "started" /\ k \in Elems(q)

LEMMA QueueStep ==
  ASSUME NEW q \in Seq(Jobs), NEW a \in SUBSET Jobs,
         NEW l \in [VMs -> Jobs \cup {None}], NEW f \in [Jobs -> Files],
         NEW s \in SUBSET Jobs, processQueue(q, a, l, f, s)
  PROVE  /\ queue' \in Seq(Jobs) /\ active' \subseteq Jobs
         /\ lock' \in [VMs -> Jobs \cup {None}]
         /\ stateFile' \in [Jobs -> Files] /\ launching' \subseteq Jobs
         /\ QueueEffect(q, a, l, f)
<1>1. CASE q = <<>> \/ Limited(Cardinality(a))
  BY <1>1 DEF processQueue, QueueEffect
<1>2. CASE ~(q = <<>> \/ Limited(Cardinality(a)))
  <2>1. /\ queue' = Tail(q) /\ active' = a \cup {Head(q)}
        /\ lock' = [l EXCEPT ![vmOf[Head(q)]] = Head(q)]
        /\ stateFile' = [f EXCEPT ![Head(q)] = "started"]
        /\ launching' = s \cup {Head(q)}
    BY <1>2 DEF processQueue
  <2>2. Head(q) \in Jobs /\ Tail(q) \in Seq(Jobs)
    BY <1>2, HeadTail
  <2>3. Elems(q) = {Head(q)} \cup Elems(Tail(q))
    BY <1>2, ElemsTail
  <2>4. lock' \in [VMs -> Jobs \cup {None}] /\ stateFile' \in [Jobs -> Files]
    BY <2>1, <2>2 DEF Files
  <2>5. ASSUME NEW v \in VMs
        PROVE  lock'[v] = l[v] \/ (lock'[v] = Head(q) /\ vmOf[Head(q)] = v)
    <3>1. [l EXCEPT ![vmOf[Head(q)]] = Head(q)][v] = IF v = vmOf[Head(q)] THEN Head(q) ELSE l[v]
      BY Except, Zenon
    <3> QED BY <2>1, <3>1
  <2>6. ASSUME NEW k \in Jobs
        PROVE  stateFile'[k] = f[k] \/ (stateFile'[k] = "started" /\ k = Head(q))
    <3>1. [f EXCEPT ![Head(q)] = "started"][k] = IF k = Head(q) THEN "started" ELSE f[k]
      BY Except, Zenon
    <3> QED BY <2>1, <3>1
  <2>7. /\ active' \subseteq Jobs /\ launching' \subseteq Jobs /\ queue' \in Seq(Jobs)
        /\ active' \cup Elems(queue') = a \cup Elems(q) /\ Elems(queue') \subseteq Elems(q)
        /\ Head(q) \in Elems(q) \cap active'
    BY <2>1, <2>2, <2>3
  <2> HIDE <2>1, <2>3
  <2> QED BY <2>4, <2>5, <2>6, <2>7 DEF QueueEffect
<1> QED BY <1>1, <1>2

-----------------------------------------------------------------------------
LEMMA TypeInit == Init => TypeOK
<1> SUFFICES ASSUME Init PROVE TypeOK
  OBVIOUS
<1>1. queue \in Seq(Jobs)
  BY DEF Init
<1>2. /\ pass \in [Loops -> SUBSET Item] /\ at \in [Loops -> Item \cup {Idle}]
      /\ proc \in [Jobs -> Monitor \cup {None}]
  BY DEF Init
<1>3. /\ intervals \subseteq Monitor /\ killing \subseteq Monitor
      /\ ending \subseteq Monitor \X {"failed", "repeat"}
      /\ reporting \in Nat /\ lostCode \subseteq Jobs
  BY DEF Init
<1>4. runs \in [Jobs -> 0 .. MaxRuns] /\ kills \in 0 .. MaxKills /\ crashes \in 0 .. MaxCrashes
  BY BoundsAssumption DEF Init
<1> QED BY <1>1, <1>2, <1>3, <1>4 DEF Init, TypeOK

\* The part of TypeOK that processQueue changes, and the rest.
QueueTypes ==
  /\ queue \in Seq(Jobs) /\ active \in SUBSET Jobs
  /\ lock \in [VMs -> Jobs \cup {None}]
  /\ stateFile \in [Jobs -> Files] /\ launching \in SUBSET Jobs
OtherTypes ==
  /\ probing \in [Jobs -> Jobs \cup {None}]
  /\ intervals \subseteq Monitor /\ killing \subseteq Monitor
  /\ proc \in [Jobs -> Monitor \cup {None}]
  /\ ending \subseteq Monitor \X {"failed", "repeat"}
  /\ pass \in [Loops -> SUBSET Item] /\ at \in [Loops -> Item \cup {Idle}]
  /\ exitCode \in [Jobs -> {"none", "ok", "bad"}]
  /\ session \in [Jobs -> {"none", "idle", "running", "failing"}]
  /\ runs \in [Jobs -> 0 .. MaxRuns]
  /\ outcome \in [Jobs -> {"none", "ok", "bad", "killed"}]
  /\ told \in [Jobs -> SUBSET {"completed", "failed", "repeat"}]
  /\ reporting \in Nat /\ lostCode \subseteq Jobs
  /\ overlap \in BOOLEAN /\ kills \in 0 .. MaxKills /\ crashes \in 0 .. MaxCrashes

LEMMA TypeParts ==
  /\ TypeOK <=> QueueTypes /\ OtherTypes
  /\ TypeOK' <=> QueueTypes' /\ OtherTypes'
BY DEF TypeOK, QueueTypes, OtherTypes, Files

LEMMA QueueStepTypes ==
  ASSUME NEW q \in Seq(Jobs), NEW a \in SUBSET Jobs,
         NEW l \in [VMs -> Jobs \cup {None}], NEW f \in [Jobs -> Files],
         NEW s \in SUBSET Jobs, processQueue(q, a, l, f, s)
  PROVE  QueueTypes'
BY QueueStep DEF QueueTypes

\* An end of a run leaves the queue to its report.
LEMMA EndOfTypes ==
  ASSUME TypeOK, NEW a \in SUBSET Jobs, NEW l \in [VMs -> Jobs \cup {None}],
         NEW f \in [Jobs -> Files], NEW s \in SUBSET Jobs, endOf(a, l, f, s)
  PROVE  QueueTypes' /\ reporting' \in Nat
BY DEF endOf, TypeOK, QueueTypes

LEMMA TellType ==
  ASSUME OtherTypes, NEW j \in Jobs, NEW verdict \in {"completed", "failed", "repeat"},
         Tell(j, verdict)
  PROVE  told' \in [Jobs -> SUBSET {"completed", "failed", "repeat"}]
BY DEF Tell, OtherTypes

LEMMA ReserveTypes ==
  ASSUME TypeOK, NEW j \in Jobs, runs[j] < MaxRuns, NEW f \in [Jobs -> Files], Reserve(j, f),
         probing' \in [Jobs -> Jobs \cup {None}]
  PROVE  TypeOK'
<1>1. Append(queue, j) \in Seq(Jobs)
  BY ElemsAppend DEF TypeOK
<1>2. /\ [lock EXCEPT ![vmOf[j]] = j] \in [VMs -> Jobs \cup {None}]
      /\ [f EXCEPT ![j] = "queued"] \in [Jobs -> Files]
      /\ active \in SUBSET Jobs /\ launching \in SUBSET Jobs
  BY DEF TypeOK, Files
<1>3. processQueue(Append(queue, j), active, [lock EXCEPT ![vmOf[j]] = j],
                   [f EXCEPT ![j] = "queued"], launching)
  BY DEF Reserve
<1>4. QueueTypes'
  BY <1>1, <1>2, <1>3, QueueStepTypes
<1>5. runs' \in [Jobs -> 0 .. MaxRuns]
  <2>1. runs[j] + 1 \in 0 .. MaxRuns
    BY BoundsAssumption DEF TypeOK
  <2> QED BY <2>1 DEF Reserve, TypeOK
<1>6. /\ outcome' \in [Jobs -> {"none", "ok", "bad", "killed"}]
      /\ told' \in [Jobs -> SUBSET {"completed", "failed", "repeat"}]
  BY DEF Reserve, TypeOK
<1>7. overlap' \in BOOLEAN
  BY DEF Reserve
<1>8. OtherTypes'
  <2>1. UNCHANGED <<intervals, proc, ending, killing, reporting, pass, at, exitCode, session,
                    kills, crashes>>
    BY DEF Reserve, faults
  <2>2. lostCode' \subseteq Jobs
    BY DEF Reserve, TypeOK
  <2> QED BY <2>1, <2>2, <1>5, <1>6, <1>7 DEF TypeOK, OtherTypes
<1> QED BY <1>4, <1>8, TypeParts

LEMMA KillType ==
  ASSUME TypeOK, NEW k, Kill(k)
  PROVE  /\ session' \in [Jobs -> {"none", "idle", "running", "failing"}]
         /\ outcome' \in [Jobs -> {"none", "ok", "bad", "killed"}]
BY DEF Kill, TypeOK

\* Every end of a monitor clears what its job holds.
LEMMA EndRunTypes ==
  ASSUME TypeOK, NEW m \in Monitor, NEW verdict \in {"completed", "failed", "repeat"},
         EndRun(m, verdict),
         intervals' \subseteq Monitor, ending' \subseteq Monitor \X {"failed", "repeat"},
         exitCode' \in [Jobs -> {"none", "ok", "bad"}],
         session' \in [Jobs -> {"none", "idle", "running", "failing"}],
         outcome' \in [Jobs -> {"none", "ok", "bad", "killed"}]
  PROVE  TypeOK'
<1> USE TypeParts
<1>1. m.job \in Jobs
  BY DEF Monitor
<1>2. /\ queue \in Seq(Jobs) /\ active \ {m.job} \in SUBSET Jobs
      /\ [lock EXCEPT ![vmOf[m.job]] = None] \in [VMs -> Jobs \cup {None}]
      /\ [stateFile EXCEPT ![m.job] = "none"] \in [Jobs -> Files]
      /\ launching \in SUBSET Jobs
  BY DEF TypeOK, Files
<1>3. QueueTypes' /\ reporting' \in Nat
  BY <1>2, EndOfTypes DEF EndRun
<1>4. proc' \in [Jobs -> Monitor \cup {None}]
  BY DEF EndRun, TypeOK
<1>5. told' \in [Jobs -> SUBSET {"completed", "failed", "repeat"}]
  BY <1>1, TellType DEF EndRun
<1>6. OtherTypes'
  <2>1. UNCHANGED <<probing, killing, pass, at, runs, lostCode, overlap, kills, crashes>>
    BY DEF EndRun, faults
  <2> QED BY <2>1, <1>3, <1>4, <1>5 DEF TypeOK, OtherTypes
<1> QED BY <1>3, <1>6

LEMMA DequeueTypes ==
  ASSUME TypeOK, NEW j \in Jobs, NEW s \in SUBSET Jobs,
         endOf(active \ {j}, [lock EXCEPT ![vmOf[j]] = None],
               [stateFile EXCEPT ![j] = "none"], s)
  PROVE  QueueTypes' /\ reporting' \in Nat
<1>1. /\ queue \in Seq(Jobs) /\ active \ {j} \in SUBSET Jobs
      /\ [lock EXCEPT ![vmOf[j]] = None] \in [VMs -> Jobs \cup {None}]
      /\ [stateFile EXCEPT ![j] = "none"] \in [Jobs -> Files]
  BY DEF TypeOK, Files
<1> QED BY <1>1, EndOfTypes

\* A job that waits for a probe has a run left.
ProbesToRun == \A j \in Jobs : probing[j] # None => runs[j] < MaxRuns

LEMMA TypeNext == TypeOK /\ ProbesToRun /\ [Next]_vars => TypeOK'
<1> SUFFICES ASSUME TypeOK, ProbesToRun, [Next]_vars PROVE TypeOK'
  OBVIOUS
<1> USE TypeParts, JobsAssumption, BoundsAssumption
<1>1. ASSUME NEW j \in Jobs, queueBackup(j) PROVE TypeOK'
  BY <1>1, ReserveTypes DEF queueBackup, Sent, TypeOK, Files
<1>2. ASSUME NEW j \in Jobs, QueueProbe(j) \/ Refused(j) PROVE TypeOK'
  <2>1. probing' \in [Jobs -> Jobs \cup {None}]
    BY <1>2 DEF QueueProbe, Refused, TypeOK
  <2>2. UNCHANGED <<queue, active, lock, launching, intervals, proc, ending, killing, reporting,
                    pass, at>>
    BY <1>2 DEF QueueProbe, Refused
  <2>3. UNCHANGED disk /\ UNCHANGED history /\ UNCHANGED faults
    BY <1>2 DEF QueueProbe, Refused
  <2> QED BY <2>1, <2>2, <2>3 DEF TypeOK, disk, history, faults
<1>3. ASSUME NEW j \in Jobs, StaleLock(j) PROVE TypeOK'
  <2>1. [stateFile EXCEPT ![probing[j]] = "none"] \in [Jobs -> Files]
    BY DEF TypeOK, Files
  <2>2. probing' \in [Jobs -> Jobs \cup {None}]
    BY <1>3 DEF StaleLock, TypeOK
  <2>3. runs[j] < MaxRuns
    BY <1>3 DEF StaleLock, ProbesToRun
  <2> QED BY <1>3, <2>1, <2>2, <2>3, ReserveTypes DEF StaleLock
<1>4. ASSUME NEW j \in Jobs, NewSession(j) PROVE TypeOK'
  BY <1>4 DEF NewSession, TypeOK, memory, history, faults
<1>5. ASSUME NEW j \in Jobs, Started(j) PROVE TypeOK'
  <2>1. QueueTypes'
    <3>1. /\ queue \in Seq(Jobs) /\ active \in SUBSET Jobs
          /\ lock \in [VMs -> Jobs \cup {None}] /\ stateFile \in [Jobs -> Files]
          /\ launching \ {j} \in SUBSET Jobs
      BY DEF TypeOK, Files
    <3>2. processQueue(queue, active, lock, stateFile, launching \ {j})
      BY <1>5 DEF Started
    <3> QED BY <3>1, <3>2, QueueStepTypes
  <2>2. /\ session' = [session EXCEPT ![j] = "running"]
        /\ exitCode' = [exitCode EXCEPT ![j] = "none"]
        /\ intervals' = intervals \cup {[job |-> j, on |-> j, by |-> "launch"]}
        /\ proc' = [proc EXCEPT ![j] = [job |-> j, on |-> j, by |-> "launch"]]
        /\ UNCHANGED <<probing, ending, killing, reporting, pass, at, runs, outcome, told,
                       lostCode, overlap, kills, crashes>>
    BY <1>5 DEF Started, history, faults
  <2>3. [job |-> j, on |-> j, by |-> "launch"] \in Monitor
    BY DEF Monitor
  <2> QED BY <2>1, <2>2, <2>3 DEF OtherTypes
<1>6. ASSUME NEW j \in Jobs, StartFailed(j) PROVE TypeOK'
  <2>1. QueueTypes' /\ reporting' \in Nat
    <3>1. launching \ {j} \in SUBSET Jobs
      BY DEF TypeOK
    <3> QED BY <1>6, <3>1, DequeueTypes DEF StartFailed
  <2>2. /\ exitCode' = [exitCode EXCEPT ![j] = "bad"]
        /\ UNCHANGED <<probing, intervals, proc, ending, killing, pass, at, session,
                       runs, outcome, lostCode, overlap, kills, crashes>>
    BY <1>6 DEF StartFailed, faults
  <2>3. told' \in [Jobs -> SUBSET {"completed", "failed", "repeat"}]
    BY <1>6, TellType DEF StartFailed
  <2> QED BY <2>1, <2>2, <2>3 DEF OtherTypes
<1>7. ASSUME NEW j \in Jobs, JobFail(j) PROVE TypeOK'
  BY <1>7 DEF JobFail, TypeOK, memory, history, faults
<1>8. ASSUME NEW j \in Jobs, NEW code \in {"ok", "bad"}, ScriptEnds(j, code) PROVE TypeOK'
  BY <1>8 DEF ScriptEnds, TypeOK, memory, faults
<1>9. ASSUME NEW j \in Jobs, Interrupted(j) PROVE TypeOK'
  BY <1>9 DEF Interrupted, TypeOK, memory, faults
<1>10. ASSUME NEW j \in Jobs, KillQueued(j) PROVE TypeOK'
  <2>1. queue' \in Seq(Jobs)
    <3>1. queue \in Seq(Jobs)
      BY DEF TypeOK
    <3>2. PICK i \in DOMAIN queue :
            queue' = SubSeq(queue, 1, i - 1) \o SubSeq(queue, i + 1, Len(queue))
      BY <1>10 DEF KillQueued
    <3> QED BY <3>1, <3>2, ElemsRemove
  <2>2. /\ UNCHANGED <<active, lock, probing, launching, intervals, proc, ending, killing,
                       reporting, pass, at, runs, outcome, lostCode, overlap, crashes>>
        /\ UNCHANGED <<stateFile, exitCode, session>>
    BY <1>10 DEF KillQueued, disk
  <2>3. told' \in [Jobs -> SUBSET {"completed", "failed", "repeat"}]
    BY <1>10, TellType DEF KillQueued
  <2>4. kills' \in 0 .. MaxKills
    <3>1. kills < MaxKills /\ kills' = kills + 1
      BY <1>10 DEF KillQueued, MayKill
    <3> QED BY <3>1 DEF TypeOK
  <2> QED BY <2>1, <2>2, <2>3, <2>4 DEF TypeOK
<1>11. ASSUME NEW j \in Jobs, KillUnmonitored(j) PROVE TypeOK'
  <2>1. QueueTypes' /\ reporting' \in Nat
    <3>1. launching \in SUBSET Jobs
      BY DEF TypeOK
    <3> QED BY <1>11, <3>1, DequeueTypes DEF KillUnmonitored
  <2>2. UNCHANGED <<probing, intervals, proc, ending, killing, pass, at, exitCode,
                    session, runs, outcome, lostCode, overlap, crashes>>
    BY <1>11 DEF KillUnmonitored
  <2>3. told' \in [Jobs -> SUBSET {"completed", "failed", "repeat"}]
    BY <1>11, TellType DEF KillUnmonitored
  <2>4. kills' \in 0 .. MaxKills
    BY <1>11 DEF KillUnmonitored, MayKill, TypeOK
  <2> QED BY <2>1, <2>2, <2>3, <2>4 DEF OtherTypes
<1>12. ASSUME NEW j \in Jobs, KillBegin(j) PROVE TypeOK'
  <2>1. kills' \in 0 .. MaxKills
    BY <1>12 DEF KillBegin, MayKill, TypeOK
  <2>2. killing' \subseteq Monitor
    BY <1>12 DEF KillBegin, TypeOK
  <2>3. /\ lock' \in [VMs -> Jobs \cup {None}]
        /\ exitCode' \in [Jobs -> {"none", "ok", "bad"}]
    BY <1>12 DEF KillBegin, TypeOK
  <2>4. /\ UNCHANGED <<queue, active, probing, launching, intervals, proc, ending, reporting,
                       pass, at, stateFile, session, crashes>>
        /\ UNCHANGED <<runs, outcome, told, lostCode, overlap>>
    BY <1>12 DEF KillBegin, history
  <2> QED BY <2>1, <2>2, <2>3, <2>4 DEF TypeOK
<1>13. ASSUME NEW m \in Monitor, TickCompleted(m) PROVE TypeOK'
  BY <1>13, EndRunTypes DEF TickCompleted, TypeOK
<1>14. ASSUME NEW m \in Monitor, TickFailed(m) PROVE TypeOK'
  <2>1. /\ intervals' = intervals \ {m}
        /\ \E verdict \in {"failed", "repeat"} : ending' = ending \cup {<<m, verdict>>}
        /\ exitCode' = [exitCode EXCEPT ![m.job] = "none"]
    BY <1>14 DEF TickFailed
  <2>2. UNCHANGED <<queue, active, lock, probing, launching, proc, killing, reporting, pass, at,
                    stateFile, session, runs, outcome, told, lostCode, overlap, kills,
                    crashes>>
    BY <1>14 DEF TickFailed, history, faults
  <2>3. ending' \subseteq Monitor \X {"failed", "repeat"}
    BY <2>1 DEF TypeOK
  <2> QED BY <2>1, <2>2, <2>3 DEF TypeOK
<1>15. ASSUME NEW m \in Monitor, NEW verdict \in {"failed", "repeat"}, EndFailed(m, verdict)
       PROVE TypeOK'
  <2>1. EndRun(m, verdict) /\ Kill(m.on) /\ ending' = ending \ {<<m, verdict>>}
    BY <1>15 DEF EndFailed
  <2>2. UNCHANGED <<intervals, exitCode>>
    BY <1>15 DEF EndFailed
  <2>3. /\ session' \in [Jobs -> {"none", "idle", "running", "failing"}]
        /\ outcome' \in [Jobs -> {"none", "ok", "bad", "killed"}]
    BY <2>1, KillType
  <2>4. /\ intervals' \subseteq Monitor /\ exitCode' \in [Jobs -> {"none", "ok", "bad"}]
        /\ ending' \subseteq Monitor \X {"failed", "repeat"}
    BY <2>1, <2>2 DEF TypeOK
  <2>5. verdict \in {"completed", "failed", "repeat"}
    OBVIOUS
  <2> QED BY <2>1, <2>3, <2>4, <2>5, EndRunTypes
<1>16. ASSUME NEW m \in Monitor, KillEnd(m) PROVE TypeOK'
  <2> m.job \in Jobs
    BY DEF Monitor
  <2>1. QueueTypes' /\ reporting' \in Nat
    <3>1. /\ queue \in Seq(Jobs) /\ active \ {m.job} \in SUBSET Jobs
          /\ lock \in [VMs -> Jobs \cup {None}] /\ launching \in SUBSET Jobs
          /\ [stateFile EXCEPT ![m.job] = "none"] \in [Jobs -> Files]
      BY DEF TypeOK, Files
    <3> QED BY <3>1, <1>16, EndOfTypes DEF KillEnd
  <2>2. Kill(m.on) /\ Tell(m.job, "failed")
    BY <1>16 DEF KillEnd
  <2>3. /\ session' \in [Jobs -> {"none", "idle", "running", "failing"}]
        /\ outcome' \in [Jobs -> {"none", "ok", "bad", "killed"}]
    BY <2>2, KillType
  <2>4. told' \in [Jobs -> SUBSET {"completed", "failed", "repeat"}]
    BY <2>2, TellType
  <2>5. /\ killing' \subseteq Monitor /\ intervals' \subseteq Monitor
        /\ proc' \in [Jobs -> Monitor \cup {None}]
    BY <1>16 DEF KillEnd, TypeOK
  <2>6. UNCHANGED <<probing, ending, pass, at, exitCode, runs, lostCode, overlap, kills, crashes>>
    BY <1>16 DEF KillEnd, faults
  <2> QED BY <2>1, <2>3, <2>4, <2>5, <2>6 DEF OtherTypes
<1>17. ASSUME NEW l \in Loops, LookUp(l) PROVE TypeOK'
  BY <1>17 DEF LookUp, TypeOK, disk, history, faults
<1>18. ASSUME NEW l \in Loops, reattachToTmuxSession(l) PROVE TypeOK'
  <2>1. at[l] \in Item /\ at[l].job \in Jobs
    BY <1>18 DEF reattachToTmuxSession, TypeOK, Item
  <2>2. PICK k \in SessionsFor(at[l]) :
          /\ intervals' = intervals \cup {[job |-> at[l].job, on |-> k, by |-> l]}
          /\ proc' = [proc EXCEPT ![at[l].job] = [job |-> at[l].job, on |-> k, by |-> l]]
    BY <1>18 DEF reattachToTmuxSession
  <2>3. k \in Jobs
    BY <2>1, <2>2 DEF SessionsFor, Sessions
  <2>4. [job |-> at[l].job, on |-> k, by |-> l] \in Monitor
    BY <2>1, <2>3 DEF Monitor
  <2>5. intervals' \subseteq Monitor /\ proc' \in [Jobs -> Monitor \cup {None}]
    BY <2>2, <2>4 DEF TypeOK
  <2>6. /\ active' \subseteq Jobs /\ lock' \in [VMs -> Jobs \cup {None}]
        /\ at' \in [Loops -> Item \cup {Idle}]
    BY <1>18, <2>1 DEF reattachToTmuxSession, TypeOK
  <2>7. /\ UNCHANGED <<queue, probing, launching, ending, killing, reporting, pass>>
        /\ UNCHANGED <<stateFile, exitCode, session, runs, outcome, told, lostCode, overlap,
                       kills, crashes>>
    BY <1>18 DEF reattachToTmuxSession, disk, history, faults
  <2> QED BY <2>5, <2>6, <2>7 DEF TypeOK
<1>19. ASSUME NEW l \in Loops, handleCompletedJobWhileDown(l) PROVE TypeOK'
  <2>1. at[l].job \in Jobs
    BY <1>19 DEF handleCompletedJobWhileDown, TypeOK, Item
  <2>2. \E verdict \in {"completed", "failed"} : Tell(at[l].job, verdict)
    BY <1>19 DEF handleCompletedJobWhileDown, Inferred
  <2>3. told' \in [Jobs -> SUBSET {"completed", "failed", "repeat"}]
    BY <2>1, <2>2, TellType
  <2>4. /\ exitCode' \in [Jobs -> {"none", "ok", "bad"}]
        /\ stateFile' \in [Jobs -> {"none", "queued", "started"}]
        /\ at' \in [Loops -> Item \cup {Idle}]
    BY <1>19 DEF handleCompletedJobWhileDown, TypeOK
  <2>5. UNCHANGED <<queue, active, lock, probing, launching, intervals, proc, ending,
                    killing, reporting, pass, session, runs, outcome, lostCode, overlap,
                    kills, crashes>>
    BY <1>19 DEF handleCompletedJobWhileDown, faults
  <2> QED BY <2>3, <2>4, <2>5 DEF TypeOK
<1>20. ASSUME NEW l \in Loops, StillFresh(l) PROVE TypeOK'
  BY <1>20 DEF StillFresh, TypeOK, disk, history, faults
<1>21. CASE Restart
  <2>1. /\ queue' \in Seq(Jobs) /\ active' \subseteq Jobs
        /\ lock' \in [VMs -> Jobs \cup {None}] /\ probing' \in [Jobs -> Jobs \cup {None}]
        /\ launching' \subseteq Jobs /\ killing' \subseteq Monitor
        /\ intervals' \subseteq Monitor /\ ending' \subseteq Monitor \X {"failed", "repeat"}
        /\ proc' \in [Jobs -> Monitor \cup {None}] /\ reporting' \in Nat
    BY <1>21 DEF Restart
  <2>2. pass' \in [Loops -> SUBSET Item] /\ at' \in [Loops -> Item \cup {Idle}]
    BY <1>21 DEF Restart, StateFiles
  <2>3. crashes' \in 0 .. MaxCrashes
    BY <1>21 DEF Restart, TypeOK
  <2>4. UNCHANGED <<stateFile, exitCode, session, runs, outcome, told, overlap, kills>>
    BY <1>21 DEF Restart, disk
  <2>5. lostCode' \subseteq Jobs
    BY <1>21 DEF Restart, TypeOK, Monitor
  <2> QED BY <2>1, <2>2, <2>3, <2>4, <2>5 DEF TypeOK
<1>22. CASE CheckBegin
  <2>1. pass' \in [Loops -> SUBSET Item]
    BY <1>22 DEF CheckBegin, StateFiles, TypeOK
  <2>2. overlap' \in BOOLEAN
    BY <1>22 DEF CheckBegin
  <2>3. UNCHANGED <<queue, active, lock, probing, launching, intervals, proc, ending,
                    killing, reporting, at, stateFile, exitCode, session, runs, outcome, told,
                    lostCode, kills, crashes>>
    BY <1>22 DEF CheckBegin, disk, faults
  <2> QED BY <2>1, <2>2, <2>3 DEF TypeOK
<1>23. CASE failJobEarly
  <2>1. at["recover"].job \in Jobs
    BY <1>23 DEF failJobEarly, TypeOK, Item, Loops
  <2>2. told' \in [Jobs -> SUBSET {"completed", "failed", "repeat"}]
    BY <1>23, <2>1, TellType DEF failJobEarly
  <2>3. lock' \in [VMs -> Jobs \cup {None}]
    <3>1. lock' = [lock EXCEPT ![vmOf[at["recover"].job]] =
                     IF @ = at["recover"].job THEN None ELSE @]
      BY <1>23 DEF failJobEarly
    <3>2. lock \in [VMs -> Jobs \cup {None}] /\ vmOf[at["recover"].job] \in VMs
      BY <2>1 DEF TypeOK
    <3> QED BY <3>1, <3>2
  <2>4. /\ exitCode' \in [Jobs -> {"none", "ok", "bad"}] /\ active' \subseteq Jobs
        /\ stateFile' \in [Jobs -> {"none", "queued", "started"}]
        /\ at' \in [Loops -> Item \cup {Idle}]
    BY <1>23 DEF failJobEarly, TypeOK
  <2>5. UNCHANGED <<queue, probing, launching, intervals, proc, ending, killing, reporting,
                    pass, session, runs, outcome, lostCode, overlap, kills, crashes>>
    BY <1>23 DEF failJobEarly, faults
  <2> QED BY <2>2, <2>3, <2>4, <2>5 DEF TypeOK
<1>24. CASE UNCHANGED vars
  BY <1>24 DEF vars, TypeOK
<1>25. CASE Reported
  <2>1. QueueTypes'
    <3>1. /\ queue \in Seq(Jobs) /\ active \in SUBSET Jobs
          /\ lock \in [VMs -> Jobs \cup {None}] /\ stateFile \in [Jobs -> Files]
          /\ launching \in SUBSET Jobs
      BY DEF TypeOK, Files
    <3> QED BY <1>25, <3>1, QueueStepTypes DEF Reported
  <2>2. reporting' \in Nat
    BY <1>25 DEF Reported, TypeOK
  <2>3. /\ UNCHANGED <<probing, intervals, proc, ending, killing, pass, at, exitCode, session>>
        /\ UNCHANGED <<runs, outcome, told, lostCode, overlap, kills, crashes>>
    BY <1>25 DEF Reported, history, faults
  <2> QED BY <2>1, <2>2, <2>3 DEF OtherTypes
<1> QED
  BY <1>1, <1>2, <1>3, <1>4, <1>5, <1>6, <1>7, <1>8, <1>9, <1>10, <1>11, <1>12, <1>13,
     <1>14, <1>15, <1>16, <1>17, <1>18, <1>19, <1>20, <1>21, <1>22, <1>23, <1>24,
     <1>25 DEF Next, Probe, Launch, Tick

LEMMA ProbesToRunNext == TypeOK /\ ProbesToRun /\ [Next]_vars => ProbesToRun'
<1> SUFFICES ASSUME TypeOK, ProbesToRun, [Next]_vars PROVE ProbesToRun'
  OBVIOUS
<1>1. CASE UNCHANGED <<probing, runs>>
  BY <1>1 DEF ProbesToRun
<1>2. ASSUME NEW j \in Jobs, queueBackup(j) \/ StaleLock(j) PROVE ProbesToRun'
  <2>1. /\ \/ probing' = [probing EXCEPT ![j] = None]
           \/ probing' = probing /\ probing[j] = None
        /\ runs' = [runs EXCEPT ![j] = @ + 1]
    BY <1>2 DEF queueBackup, StaleLock, Sent, Reserve
  <2> QED BY <2>1 DEF ProbesToRun, TypeOK
<1>3. ASSUME NEW j \in Jobs, QueueProbe(j) \/ Refused(j) PROVE ProbesToRun'
  <2>1. /\ runs' = runs
        /\ \/ probing' = [probing EXCEPT ![j] = None]
           \/ runs[j] < MaxRuns /\ probing' = [probing EXCEPT ![j] = lock[vmOf[j]]]
    BY <1>3 DEF QueueProbe, Refused, Sent, history
  <2> QED BY <2>1 DEF ProbesToRun, TypeOK
<1>4. CASE Restart
  BY <1>4 DEF Restart, ProbesToRun
<1>5. ASSUME NEW j \in Jobs,
             Launch(j) \/ StartFailed(j) \/ JobFail(j) \/ Interrupted(j) \/ KillQueued(j)
      PROVE  UNCHANGED <<probing, runs>>
  BY <1>5 DEF Launch, NewSession, Started, StartFailed, JobFail, Interrupted, KillQueued,
     memory, history
<1>6. ASSUME NEW j \in Jobs,
             \/ KillUnmonitored(j) \/ KillBegin(j)
             \/ \E code \in {"ok", "bad"} : ScriptEnds(j, code)
      PROVE  UNCHANGED <<probing, runs>>
  BY <1>6 DEF KillUnmonitored, KillBegin, ScriptEnds, memory, history
<1>7. ASSUME NEW m \in Monitor,
             Tick(m) \/ KillEnd(m) \/ \E verdict \in {"failed", "repeat"} : EndFailed(m, verdict)
      PROVE  UNCHANGED <<probing, runs>>
  BY <1>7 DEF Tick, TickCompleted, TickFailed, KillEnd, EndFailed, EndRun, history
<1>8. ASSUME NEW l \in Loops,
             \/ LookUp(l) \/ reattachToTmuxSession(l) \/ handleCompletedJobWhileDown(l)
             \/ StillFresh(l)
      PROVE  UNCHANGED <<probing, runs>>
  BY <1>8 DEF LookUp, reattachToTmuxSession, handleCompletedJobWhileDown, StillFresh, history
<1>9. ASSUME Reported \/ CheckBegin \/ failJobEarly \/ UNCHANGED vars
      PROVE  UNCHANGED <<probing, runs>>
  BY <1>9 DEF Reported, CheckBegin, failJobEarly, vars, history
<1> QED
  BY <1>1, <1>2, <1>3, <1>4, <1>5, <1>6, <1>7, <1>8, <1>9 DEF Next, Probe

\* Ranges of all variables, whatever is killed or restarted and whenever.
THEOREM TypeInvariant == Spec => []TypeOK
<1>1. Init => TypeOK /\ ProbesToRun
  BY TypeInit DEF Init, ProbesToRun
<1>2. TypeOK /\ ProbesToRun /\ [Next]_vars => (TypeOK /\ ProbesToRun)'
  BY TypeNext, ProbesToRunNext
<1> QED
  BY <1>1, <1>2, PTL DEF Spec

-----------------------------------------------------------------------------
(* No accepted job is forgotten *)

\* Memory, disk and the recovery loops only know jobs that were accepted.
Accepted ==
  \A j \in Jobs : runs[j] = 0 =>
    /\ j \notin Elems(queue) /\ stateFile[j] = "none"
    /\ \A v \in VMs : lock[v] # j
    /\ \A l \in Loops : at[l].job # j /\ \A i \in pass[l] : i.job # j

\* The holder of a lock is in memory, or was killed in the queue and reported.
HolderKnown ==
  \A v \in VMs : lock[v] # None =>
    /\ vmOf[lock[v]] = v
    /\ \/ lock[v] \in active \cup Elems(queue)
       \/ told[lock[v]] # {} /\ kills > 0

\* Only the lock of a killed job is ever probed; meanwhile the killed job may
\* have been accepted again.
ProbesAfterKill ==
  \A j \in Jobs : probing[j] # None =>
    /\ kills > 0 /\ runs[probing[j]] > 0
    /\ told[probing[j]] # {} \/ runs[probing[j]] > 1

KillsCounted == killing # {} => kills > 0

Rest == Accepted /\ HolderKnown /\ ProbesAfterKill /\ KillsCounted /\ NoSilentDrop
Inv == TypeOK /\ ProbesToRun /\ Rest

LEMMA InvInit == Init => Inv
<1> SUFFICES ASSUME Init PROVE Inv
  OBVIOUS
<1>1. TypeOK /\ ProbesToRun
  BY TypeInit DEF Init, ProbesToRun
<1>2. Elems(queue) = {} /\ \A j \in Jobs : j \notin Elems(queue)
  BY DEF Init, Elems
<1>3. Accepted
  BY <1>2, JobsAssumption DEF Init, Accepted, Idle
<1>4. HolderKnown /\ ProbesAfterKill /\ KillsCounted /\ NoSilentDrop
  BY DEF Init, HolderKnown, ProbesAfterKill, KillsCounted, NoSilentDrop, Open
<1> QED BY <1>1, <1>3, <1>4 DEF Inv, Rest

\* A step that leaves alone what Inv speaks of.
LEMMA Elsewhere ==
  ASSUME Inv,
         UNCHANGED <<queue, active, lock, probing, killing, stateFile, runs, told, kills>>,
         \A j \in Jobs : (\E l \in Loops : at'[l].job = j \/ \E i \in pass'[l] : i.job = j)
            => \/ \E l \in Loops : at[l].job = j \/ \E i \in pass[l] : i.job = j
               \/ stateFile[j] # "none"
  PROVE  Rest'
<1>1. Accepted'
  BY DEF Inv, Rest, Accepted
<1>2. (HolderKnown /\ ProbesAfterKill /\ KillsCounted /\ NoSilentDrop)'
  BY DEF Inv, Rest, HolderKnown, ProbesAfterKill, KillsCounted, NoSilentDrop, Open
<1> QED BY <1>1, <1>2 DEF Rest

\* A job is reported and its file removed; it leaves memory with its lock, or
\* with a kill; then the queue goes on.
Leaving(j, a, l) ==
  /\ active \ {j} \subseteq a
  /\ \A v \in VMs : l[v] = lock[v] \/ l[v] = None
  /\ \A v \in VMs : l[v] = j => j \in a \cup Elems(queue) \/ kills > 0
  /\ QueueEffect(queue, a, l, [stateFile EXCEPT ![j] = "none"])
  /\ \E verdict \in {"completed", "failed", "repeat"} : Tell(j, verdict)
  /\ probing' = probing /\ pass' = pass /\ runs' = runs
  /\ \A n \in Loops : at'[n] \in {at[n], Idle}
  /\ killing' \subseteq killing \/ kills > 0
  /\ kills' \in Nat /\ kills' >= kills

LEMMA Leaves ==
  ASSUME Inv, NEW j \in Jobs, NEW a, NEW l \in [VMs -> Jobs \cup {None}], Leaving(j, a, l)
  PROVE  Rest'
<1> USE DEF Leaving, Rest
<1> USE DEF Inv
<1>1. /\ active' \cup Elems(queue') = a \cup Elems(queue)
      /\ Elems(queue') \subseteq Elems(queue)
      /\ \A v \in VMs : \/ lock'[v] = l[v]
                        \/ lock'[v] \in Elems(queue) \cap active' /\ vmOf[lock'[v]] = v
      /\ \A k \in Jobs : \/ stateFile'[k] = [stateFile EXCEPT ![j] = "none"][k]
                         \/ stateFile'[k] = "started" /\ k \in Elems(queue)
  BY DEF QueueEffect
<1>2. \A k \in Jobs : told'[k] = {} <=> (told[k] = {} /\ k # j)
  <2>1. PICK verdict : told' = [told EXCEPT ![j] = @ \cup {verdict}]
    BY DEF Tell
  <2>2. \A k \in Jobs : told'[k] = IF k = j THEN told[k] \cup {verdict} ELSE told[k]
    BY <2>1 DEF TypeOK
  <2> QED BY <2>2
<1>k. kills > 0 => kills' > 0
  BY DEF TypeOK
<1>3. \A k \in Jobs : k # j => stateFile'[k] = stateFile[k] \/ stateFile'[k] = "started"
  BY <1>1 DEF TypeOK
<1>5. Accepted'
  <2> SUFFICES ASSUME NEW k \in Jobs, runs'[k] = 0
               PROVE  /\ k \notin Elems(queue') /\ stateFile'[k] = "none"
                      /\ \A v \in VMs : lock'[v] # k
                      /\ \A n \in Loops : at'[n].job # k /\ \A i \in pass'[n] : i.job # k
    BY DEF Accepted
  <2>1. /\ runs[k] = 0 /\ k # None
        /\ k \notin Elems(queue) /\ stateFile[k] = "none"
        /\ \A v \in VMs : lock[v] # k
        /\ \A n \in Loops : at[n].job # k /\ \A i \in pass[n] : i.job # k
    BY JobsAssumption DEF Accepted
  <2>2. k \notin Elems(queue') /\ stateFile'[k] = "none"
    BY <2>1, <1>1 DEF TypeOK
  <2>3. \A v \in VMs : lock'[v] # k
    BY <2>1, <1>1
  <2>4. \A n \in Loops : at'[n].job # k
    BY <2>1 DEF Idle
  <2> QED BY <2>1, <2>2, <2>3, <2>4
<1>6. HolderKnown'
  <2> SUFFICES ASSUME NEW v \in VMs, lock'[v] # None
               PROVE  /\ vmOf[lock'[v]] = v
                      /\ \/ lock'[v] \in active' \cup Elems(queue')
                         \/ told'[lock'[v]] # {} /\ kills' > 0
    BY DEF HolderKnown
  <2>1. CASE lock'[v] \in Elems(queue) \cap active' /\ vmOf[lock'[v]] = v
    BY <2>1
  <2>2. CASE lock'[v] = l[v] /\ l[v] = lock[v]
    <3>1. lock[v] \in Jobs
      BY <2>2 DEF TypeOK
    <3>2. /\ vmOf[lock[v]] = v
          /\ lock[v] \in active \cup Elems(queue) \/ (told[lock[v]] # {} /\ kills > 0)
      BY <2>2, <3>1, JobsAssumption DEF HolderKnown
    <3>3. CASE told[lock[v]] # {} /\ kills > 0
      BY <3>1, <3>2, <3>3, <2>2, <1>2, <1>k
    <3>4. CASE lock[v] = j
      <4>1. told'[j] # {}
        BY <1>2
      <4>2. j \in a \cup Elems(queue) \/ kills' > 0
        BY <3>4, <2>2, <1>k
      <4> QED BY <3>2, <3>4, <2>2, <4>1, <4>2, <1>1
    <3>5. CASE lock[v] # j /\ lock[v] \in active \cup Elems(queue)
      BY <3>2, <3>5, <2>2, <1>1
    <3> QED BY <3>2, <3>3, <3>4, <3>5
  <2> QED BY <2>1, <2>2, <1>1
<1>7. ProbesAfterKill'
  <2> SUFFICES ASSUME NEW k \in Jobs, probing'[k] # None
               PROVE  /\ kills' > 0 /\ runs'[probing'[k]] > 0
                      /\ told'[probing'[k]] # {} \/ runs'[probing'[k]] > 1
    BY DEF ProbesAfterKill
  <2>1. /\ kills > 0 /\ runs[probing[k]] > 0
        /\ told[probing[k]] # {} \/ runs[probing[k]] > 1
    BY DEF ProbesAfterKill
  <2>2. probing[k] \in Jobs
    BY DEF TypeOK
  <2> QED BY <2>1, <2>2, <1>2, <1>k
<1>8. KillsCounted'
  BY <1>k DEF KillsCounted
<1>9. NoSilentDrop'
  <2> SUFFICES ASSUME NEW k \in Jobs, runs'[k] > 0, told'[k] = {}, runs'[k] = 1 \/ kills' = 0
               PROVE  stateFile'[k] # "none"
    BY DEF NoSilentDrop, Open
  <2>1. k # j /\ told[k] = {} /\ runs[k] > 0 /\ (runs[k] = 1 \/ kills = 0)
    BY <1>2 DEF TypeOK
  <2>2. stateFile[k] # "none"
    BY <2>1 DEF NoSilentDrop, Open
  <2> QED BY <2>1, <2>2, <1>3
<1> QED BY <1>5, <1>6, <1>7, <1>8, <1>9

\* The end of a run as most of the code writes it.
LEMMA LeavesUnlocked ==
  ASSUME Inv, NEW j \in Jobs, NEW s \in SUBSET Jobs,
         endOf(active \ {j}, [lock EXCEPT ![vmOf[j]] = None],
               [stateFile EXCEPT ![j] = "none"], s),
         \E verdict \in {"completed", "failed", "repeat"} : Tell(j, verdict),
         UNCHANGED <<probing, killing, pass, at, runs>>, kills' \in Nat, kills' >= kills
  PROVE  Rest'
<1> DEFINE l == [lock EXCEPT ![vmOf[j]] = None]
<1> USE JobsAssumption
<1>1. /\ queue \in Seq(Jobs) /\ active \ {j} \in SUBSET Jobs
      /\ l \in [VMs -> Jobs \cup {None}]
      /\ [stateFile EXCEPT ![j] = "none"] \in [Jobs -> Files]
  BY DEF Inv, TypeOK, Files
<1>2. QueueEffect(queue, active \ {j}, l, [stateFile EXCEPT ![j] = "none"])
  BY DEF endOf, QueueEffect
<1>3. /\ \A v \in VMs : l[v] = lock[v] \/ l[v] = None
      /\ \A v \in VMs : l[v] # j
  BY DEF Inv, Rest, TypeOK, HolderKnown
<1> HIDE DEF l
<1>4. Leaving(j, active \ {j}, l)
  BY <1>2, <1>3 DEF Leaving
<1> QED BY <1>1, <1>4, Leaves

LEMMA ReserveKeeps ==
  ASSUME Inv, NEW j \in Jobs, NEW f \in [Jobs -> Files], Reserve(j, f),
         \A k \in Jobs : \/ f[k] = stateFile[k]
                         \/ probing[j] # None /\ k = probing[j] /\ f[k] = "none",
         \A k \in Jobs : probing'[k] \in {probing[k], None}
  PROVE  Rest'
<1> DEFINE l == [lock EXCEPT ![vmOf[j]] = j]
           g == [f EXCEPT ![j] = "queued"]
           q == Append(queue, j)
<1> USE JobsAssumption
<1>1. /\ q \in Seq(Jobs) /\ active \in SUBSET Jobs /\ launching \in SUBSET Jobs
      /\ l \in [VMs -> Jobs \cup {None}] /\ g \in [Jobs -> Files]
      /\ Elems(q) = Elems(queue) \cup {j}
  BY ElemsAppend DEF Inv, TypeOK, Files
<1>2. processQueue(q, active, l, g, launching)
  BY DEF Reserve
<1>3. /\ \A v \in VMs : l[v] = IF v = vmOf[j] THEN j ELSE lock[v]
      /\ \A k \in Jobs : g[k] = IF k = j THEN "queued" ELSE f[k]
  BY DEF Inv, TypeOK
<1>4. /\ runs' = [runs EXCEPT ![j] = @ + 1] /\ told' = [told EXCEPT ![j] = {}]
      /\ UNCHANGED <<killing, pass, at, kills>>
  BY DEF Reserve, faults
<1> HIDE DEF l, g, q
<1>5. /\ active' \cup Elems(queue') = active \cup Elems(queue) \cup {j}
      /\ Elems(queue') \subseteq Elems(queue) \cup {j}
      /\ \A v \in VMs : \/ lock'[v] = l[v]
                        \/ lock'[v] \in (Elems(queue) \cup {j}) \cap active'
                           /\ vmOf[lock'[v]] = v
      /\ \A k \in Jobs : \/ stateFile'[k] = g[k]
                         \/ stateFile'[k] = "started" /\ k \in Elems(queue) \cup {j}
  <2>1. QueueEffect(q, active, l, g)
    BY <1>1, <1>2, QueueStep
  <2> QED BY <2>1, <1>1 DEF QueueEffect
<1>6. \A k \in Jobs : /\ runs[k] \in Nat
                      /\ runs'[k] = IF k = j THEN runs[k] + 1 ELSE runs[k]
                      /\ told'[k] = IF k = j THEN {} ELSE told[k]
  BY <1>4, BoundsAssumption DEF Inv, TypeOK
<1>7. Accepted'
  <2> SUFFICES ASSUME NEW k \in Jobs, runs'[k] = 0
               PROVE  /\ k \notin Elems(queue') /\ stateFile'[k] = "none"
                      /\ \A v \in VMs : lock'[v] # k
                      /\ \A n \in Loops : at'[n].job # k /\ \A i \in pass'[n] : i.job # k
    BY DEF Accepted
  <2>1. /\ runs[k] = 0 /\ k # j
    BY <1>6
  <2>2. /\ k \notin Elems(queue) /\ stateFile[k] = "none"
        /\ \A v \in VMs : lock[v] # k
        /\ \A n \in Loops : at[n].job # k /\ \A i \in pass[n] : i.job # k
    BY <2>1 DEF Inv, Rest, Accepted
  <2>3. f[k] = "none"
    BY <2>2
  <2>4. k \notin Elems(queue') /\ stateFile'[k] = "none"
    BY <2>1, <2>2, <2>3, <1>3, <1>5
  <2>5. \A v \in VMs : lock'[v] # k
    BY <2>1, <2>2, <1>3, <1>5
  <2> QED BY <2>2, <2>4, <2>5, <1>4
<1>8. HolderKnown'
  <2> SUFFICES ASSUME NEW v \in VMs, lock'[v] # None
               PROVE  /\ vmOf[lock'[v]] = v
                      /\ \/ lock'[v] \in active' \cup Elems(queue')
                         \/ told'[lock'[v]] # {} /\ kills' > 0
    BY DEF HolderKnown
  <2>1. CASE lock'[v] \in (Elems(queue) \cup {j}) \cap active' /\ vmOf[lock'[v]] = v
    BY <2>1
  <2>2. CASE lock'[v] = l[v] /\ v = vmOf[j]
    BY <2>2, <1>3, <1>5
  <2>3. CASE lock'[v] = l[v] /\ v # vmOf[j]
    <3>1. lock'[v] = lock[v] /\ lock[v] \in Jobs
      BY <2>3, <1>3 DEF Inv, TypeOK
    <3>2. /\ vmOf[lock[v]] = v
          /\ lock[v] \in active \cup Elems(queue) \/ (told[lock[v]] # {} /\ kills > 0)
      BY <3>1 DEF Inv, Rest, HolderKnown
    <3>3. lock[v] # j
      BY <3>2, <2>3
    <3> QED BY <3>1, <3>2, <3>3, <1>4, <1>5, <1>6
  <2> QED BY <2>1, <2>2, <2>3, <1>5
<1>9. ProbesAfterKill'
  <2> SUFFICES ASSUME NEW k \in Jobs, probing'[k] # None
               PROVE  /\ kills' > 0 /\ runs'[probing'[k]] > 0
                      /\ told'[probing'[k]] # {} \/ runs'[probing'[k]] > 1
    BY DEF ProbesAfterKill
  <2>1. probing'[k] = probing[k] /\ probing[k] \in Jobs
    BY DEF Inv, TypeOK
  <2>2. /\ kills > 0 /\ runs[probing[k]] > 0
        /\ told[probing[k]] # {} \/ runs[probing[k]] > 1
    BY <2>1 DEF Inv, Rest, ProbesAfterKill
  <2> QED BY <2>1, <2>2, <1>4, <1>6
<1>10. KillsCounted'
  BY <1>4 DEF Inv, Rest, KillsCounted
<1>11. NoSilentDrop'
  <2> SUFFICES ASSUME NEW k \in Jobs, runs'[k] > 0, told'[k] = {}, runs'[k] = 1 \/ kills' = 0
               PROVE  stateFile'[k] # "none"
    BY DEF NoSilentDrop, Open
  <2>1. CASE k = j
    BY <2>1, <1>3, <1>5
  <2>2. CASE k # j
    <3>1. told[k] = {} /\ runs[k] > 0 /\ (runs[k] = 1 \/ kills = 0)
      BY <2>2, <1>4, <1>6
    <3>2. stateFile[k] # "none"
      BY <3>1 DEF Inv, Rest, NoSilentDrop, Open
    <3>3. f[k] = stateFile[k]
      <4>1. CASE probing[j] # None /\ k = probing[j]
        <5>1. kills > 0 /\ (told[k] # {} \/ runs[k] > 1)
          BY <4>1 DEF Inv, Rest, ProbesAfterKill
        <5> QED BY <5>1, <3>1, <1>6
      <4> QED BY <4>1
    <3> QED BY <2>2, <3>2, <3>3, <1>3, <1>5
  <2> QED BY <2>1, <2>2
<1> QED BY <1>7, <1>8, <1>9, <1>10, <1>11 DEF Rest

LEMMA InvNext == Inv /\ [Next]_vars => Inv'
<1> SUFFICES ASSUME Inv, [Next]_vars
             PROVE  Rest'
  BY TypeNext, ProbesToRunNext DEF Inv, Rest
<1> USE JobsAssumption, BoundsAssumption
<1>k. kills \in Nat
  BY DEF Inv, TypeOK
<1>1. ASSUME NEW j \in Jobs, queueBackup(j) PROVE Rest'
  BY <1>1, ReserveKeeps DEF queueBackup, Inv, TypeOK, Files
<1>2. ASSUME NEW j \in Jobs, QueueProbe(j) PROVE Rest'
  <2>1. /\ lock[vmOf[j]] # None /\ lock[vmOf[j]] \notin active \cup Queued
        /\ probing' = [probing EXCEPT ![j] = lock[vmOf[j]]]
        /\ UNCHANGED <<queue, active, lock, killing, pass, at, stateFile, runs, told, kills>>
    BY <1>2 DEF QueueProbe, disk, history, faults
  <2>2. /\ lock[vmOf[j]] \in Jobs /\ told[lock[vmOf[j]]] # {} /\ kills > 0
    BY <2>1 DEF Inv, Rest, HolderKnown, TypeOK, Queued, Elems
  <2>3. runs[lock[vmOf[j]]] > 0
    BY <2>2 DEF Inv, Rest, Accepted, TypeOK
  <2>4. ProbesAfterKill'
    BY <2>1, <2>2, <2>3 DEF Inv, Rest, ProbesAfterKill, TypeOK
  <2>5. (Accepted /\ HolderKnown /\ KillsCounted /\ NoSilentDrop)'
    BY <2>1 DEF Inv, Rest, Accepted, HolderKnown, KillsCounted, NoSilentDrop, Open
  <2> QED BY <2>4, <2>5 DEF Rest
<1>3. ASSUME NEW j \in Jobs, Refused(j) PROVE Rest'
  <2>1. /\ probing' = [probing EXCEPT ![j] = None]
        /\ UNCHANGED <<queue, active, lock, killing, pass, at, stateFile, runs, told, kills>>
    BY <1>3 DEF Refused, disk, history, faults
  <2>2. ProbesAfterKill'
    BY <2>1 DEF Inv, Rest, ProbesAfterKill, TypeOK
  <2>3. (Accepted /\ HolderKnown /\ KillsCounted /\ NoSilentDrop)'
    BY <2>1 DEF Inv, Rest, Accepted, HolderKnown, KillsCounted, NoSilentDrop, Open
  <2> QED BY <2>2, <2>3 DEF Rest
<1>4. ASSUME NEW j \in Jobs, StaleLock(j) PROVE Rest'
  <2>1. /\ Reserve(j, [stateFile EXCEPT ![probing[j]] = "none"])
        /\ probing[j] # None /\ probing' = [probing EXCEPT ![j] = None]
    BY <1>4 DEF StaleLock
  <2>2. [stateFile EXCEPT ![probing[j]] = "none"] \in [Jobs -> Files]
    BY DEF Inv, TypeOK, Files
  <2>3. \A k \in Jobs : \/ [stateFile EXCEPT ![probing[j]] = "none"][k] = stateFile[k]
                        \/ /\ probing[j] # None /\ k = probing[j]
                           /\ [stateFile EXCEPT ![probing[j]] = "none"][k] = "none"
    BY <2>1 DEF Inv, TypeOK
  <2>4. \A k \in Jobs : probing'[k] \in {probing[k], None}
    BY <2>1 DEF Inv, TypeOK
  <2> QED BY <2>1, <2>2, <2>3, <2>4, ReserveKeeps
<1>5. ASSUME NEW j \in Jobs,
             NewSession(j) \/ JobFail(j) \/ Interrupted(j)
               \/ \E code \in {"ok", "bad"} : ScriptEnds(j, code)
      PROVE  Rest'
  <2>1. /\ UNCHANGED <<queue, active, lock, probing, killing, stateFile, runs, told, kills>>
        /\ UNCHANGED <<at, pass>>
    BY <1>5 DEF NewSession, JobFail, Interrupted, ScriptEnds, memory, history, faults
  <2> QED BY <2>1, Elsewhere
<1>6. ASSUME Reported \/ \E j \in Jobs : Started(j) PROVE Rest'
  <2>1. QueueEffect(queue, active, lock, stateFile)
    <3>1. /\ queue \in Seq(Jobs) /\ active \in SUBSET Jobs
          /\ lock \in [VMs -> Jobs \cup {None}] /\ stateFile \in [Jobs -> Files]
      BY DEF Inv, TypeOK, Files
    <3>2. PICK s \in SUBSET Jobs : processQueue(queue, active, lock, stateFile, s)
      <4>1. launching \in SUBSET Jobs /\ \A j \in Jobs : launching \ {j} \in SUBSET Jobs
        BY DEF Inv, TypeOK
      <4> QED BY <1>6, <4>1 DEF Started, Reported
    <3> QED BY <3>1, <3>2, QueueStep
  <2>2. UNCHANGED <<probing, killing, pass, at, runs, told, kills>>
    BY <1>6 DEF Started, Reported, history, faults
  <2>3. Accepted'
    BY <2>1, <2>2 DEF Inv, Rest, Accepted, QueueEffect
  <2>4. HolderKnown'
    BY <2>1, <2>2 DEF Inv, Rest, HolderKnown, QueueEffect
  <2>5. NoSilentDrop'
    BY <2>1, <2>2 DEF Inv, Rest, NoSilentDrop, Open, QueueEffect
  <2>6. (ProbesAfterKill /\ KillsCounted)'
    BY <2>2 DEF Inv, Rest, ProbesAfterKill, KillsCounted
  <2> QED BY <2>3, <2>4, <2>5, <2>6 DEF Rest
<1>7. ASSUME NEW j \in Jobs, StartFailed(j) PROVE Rest'
  <2>1. launching \ {j} \in SUBSET Jobs
    BY DEF Inv, TypeOK
  <2>2. Tell(j, "failed") /\ UNCHANGED <<probing, killing, pass, at, runs, kills>>
    BY <1>7 DEF StartFailed, faults
  <2> QED BY <1>7, <1>k, <2>1, <2>2, LeavesUnlocked DEF StartFailed
<1>8. ASSUME NEW j \in Jobs, KillUnmonitored(j) PROVE Rest'
  <2>1. launching \in SUBSET Jobs
    BY DEF Inv, TypeOK
  <2>2. /\ Tell(j, "failed") /\ UNCHANGED <<probing, killing, pass, at, runs>>
        /\ kills' = kills + 1
    BY <1>8 DEF KillUnmonitored
  <2>3. kills' \in Nat /\ kills' >= kills
    BY <2>2, <1>k
  <2> QED BY <1>8, <2>1, <2>2, <2>3, LeavesUnlocked DEF KillUnmonitored
<1>9. ASSUME NEW m \in Monitor, NEW verdict \in {"completed", "failed", "repeat"},
             EndRun(m, verdict)
      PROVE  Rest'
  <2>1. m.job \in Jobs /\ launching \in SUBSET Jobs
    BY DEF Monitor, Inv, TypeOK
  <2>2. /\ Tell(m.job, verdict) /\ UNCHANGED <<probing, killing, pass, at, runs, kills>>
    BY <1>9 DEF EndRun, faults
  <2>3. endOf(active \ {m.job}, [lock EXCEPT ![vmOf[m.job]] = None],
              [stateFile EXCEPT ![m.job] = "none"], launching)
    BY <1>9 DEF EndRun
  <2>4. \E v \in {"completed", "failed", "repeat"} : Tell(m.job, v)
    BY <2>2
  <2>5. kills' \in Nat /\ kills' >= kills
    BY <1>k, <2>2
  <2> QED BY <2>1, <2>2, <2>3, <2>4, <2>5, LeavesUnlocked
<1>10. ASSUME NEW m \in Monitor, TickFailed(m) PROVE Rest'
  <2>1. /\ UNCHANGED <<queue, active, lock, probing, killing, stateFile, runs, told, kills>>
        /\ UNCHANGED <<at, pass>>
    BY <1>10 DEF TickFailed, history, faults
  <2> QED BY <2>1, Elsewhere
<1>11. ASSUME NEW j \in Jobs, KillQueued(j) PROVE Rest'
  <2>1. /\ Tell(j, "failed") /\ kills' = kills + 1
        /\ UNCHANGED <<active, lock, probing, killing, pass, at, runs, stateFile>>
    BY <1>11 DEF KillQueued, disk
  <2>2. PICK i \in DOMAIN queue :
          /\ queue[i] = j
          /\ queue' = SubSeq(queue, 1, i - 1) \o SubSeq(queue, i + 1, Len(queue))
    BY <1>11 DEF KillQueued
  <2>3. Elems(queue') \subseteq Elems(queue) /\ Elems(queue) \subseteq Elems(queue') \cup {j}
    BY <2>2, ElemsRemove DEF Inv, TypeOK
  <2>4. \A k \in Jobs : told'[k] = IF k = j THEN told[k] \cup {"failed"} ELSE told[k]
    BY <2>1 DEF Tell, Inv, TypeOK
  <2>5. kills' > 0
    BY <2>1, <1>k
  <2>6. Accepted'
    BY <2>1, <2>3 DEF Inv, Rest, Accepted
  <2>7. HolderKnown'
    <3> SUFFICES ASSUME NEW v \in VMs, lock'[v] # None
                 PROVE  /\ vmOf[lock'[v]] = v
                        /\ \/ lock'[v] \in active' \cup Elems(queue')
                           \/ told'[lock'[v]] # {} /\ kills' > 0
      BY DEF HolderKnown
    <3>1. lock[v] \in Jobs /\ vmOf[lock[v]] = v
          /\ (lock[v] \in active \cup Elems(queue) \/ told[lock[v]] # {})
      BY <2>1 DEF Inv, Rest, HolderKnown, TypeOK
    <3> QED BY <3>1, <2>1, <2>3, <2>4, <2>5
  <2>8. ProbesAfterKill'
    <3> SUFFICES ASSUME NEW k \in Jobs, probing'[k] # None
                 PROVE  /\ kills' > 0 /\ runs'[probing'[k]] > 0
                        /\ told'[probing'[k]] # {} \/ runs'[probing'[k]] > 1
      BY DEF ProbesAfterKill
    <3>1. /\ probing[k] \in Jobs /\ runs[probing[k]] > 0
          /\ told[probing[k]] # {} \/ runs[probing[k]] > 1
      BY <2>1 DEF Inv, Rest, ProbesAfterKill, TypeOK
    <3> QED BY <3>1, <2>1, <2>4, <2>5
  <2>9. NoSilentDrop'
    <3> SUFFICES ASSUME NEW k \in Jobs, runs'[k] > 0, told'[k] = {}, runs'[k] = 1 \/ kills' = 0
                 PROVE  stateFile'[k] # "none"
      BY DEF NoSilentDrop, Open
    <3>1. told[k] = {}
      BY <2>4
    <3>2. runs[k] = 1
      BY <2>1, <2>5
    <3> QED BY <3>1, <3>2, <2>1 DEF Inv, Rest, NoSilentDrop, Open
  <2> QED BY <2>5, <2>6, <2>7, <2>8, <2>9 DEF Rest, KillsCounted
<1>12. ASSUME NEW j \in Jobs, KillBegin(j) PROVE Rest'
  <2>1. /\ kills' = kills + 1
        /\ lock' = [lock EXCEPT ![vmOf[j]] = None] \/ lock' = lock
        /\ UNCHANGED <<queue, active, probing, pass, at, runs, told, stateFile>>
    BY <1>12 DEF KillBegin, history
  <2>2. \A v \in VMs : lock'[v] = lock[v] \/ lock'[v] = None
    BY <2>1 DEF Inv, TypeOK
  <2>3. kills' > 0 /\ (kills' = 0 => kills = 0)
    BY <2>1, <1>k
  <2>4. Accepted'
    BY <2>1, <2>2 DEF Inv, Rest, Accepted
  <2>5. HolderKnown'
    BY <2>1, <2>2, <2>3 DEF Inv, Rest, HolderKnown
  <2>6. (ProbesAfterKill /\ KillsCounted /\ NoSilentDrop)'
    BY <2>1, <2>3 DEF Inv, Rest, ProbesAfterKill, KillsCounted, NoSilentDrop, Open
  <2> QED BY <2>4, <2>5, <2>6 DEF Rest
<1>13. ASSUME NEW m \in Monitor, KillEnd(m) PROVE Rest'
  <2>1. m.job \in Jobs /\ killing # {} /\ kills > 0
    BY <1>13 DEF Monitor, KillEnd, Inv, Rest, KillsCounted
  <2>2. /\ queue \in Seq(Jobs) /\ active \ {m.job} \in SUBSET Jobs
        /\ lock \in [VMs -> Jobs \cup {None}] /\ launching \in SUBSET Jobs
        /\ [stateFile EXCEPT ![m.job] = "none"] \in [Jobs -> Files]
    BY DEF Inv, TypeOK, Files
  <2>3. endOf(active \ {m.job}, lock, [stateFile EXCEPT ![m.job] = "none"], launching)
    BY <1>13 DEF KillEnd
  <2>4. QueueEffect(queue, active \ {m.job}, lock, [stateFile EXCEPT ![m.job] = "none"])
    BY <2>3 DEF endOf, QueueEffect
  <2>5. /\ Tell(m.job, "failed") /\ killing' \subseteq killing
        /\ UNCHANGED <<probing, pass, at, runs, kills>>
    BY <1>13 DEF KillEnd, faults
  <2>6. Leaving(m.job, active \ {m.job}, lock)
    BY <2>1, <2>4, <2>5, <1>k DEF Leaving
  <2> QED BY <2>1, <2>2, <2>6, Leaves
<1>14. CASE Restart
  <2>1. /\ queue' = <<>> /\ lock' = [v \in VMs |-> None]
        /\ probing' = [j \in Jobs |-> None] /\ killing' = {}
        /\ UNCHANGED <<stateFile, runs, told, kills>>
    BY <1>14 DEF Restart, disk
  <2>2. \A l \in Loops : at'[l] = Idle /\ pass'[l] \subseteq StateFiles
    BY <1>14 DEF Restart
  <2>3. ASSUME NEW j \in Jobs, runs[j] = 0 PROVE \A i \in StateFiles : i.job # j
    BY <2>3 DEF StateFiles, Inv, Rest, Accepted
  <2>4. \A j \in Jobs : j \notin Elems(queue')
    BY <2>1 DEF Elems
  <2>5. Accepted'
    <3> SUFFICES ASSUME NEW j \in Jobs, runs'[j] = 0
                 PROVE  /\ j \notin Elems(queue') /\ stateFile'[j] = "none"
                        /\ \A v \in VMs : lock'[v] # j
                        /\ \A n \in Loops : at'[n].job # j /\ \A i \in pass'[n] : i.job # j
      BY DEF Accepted
    <3>1. stateFile'[j] = "none" /\ \A v \in VMs : lock'[v] # j
      BY <2>1 DEF Inv, Rest, Accepted
    <3>2. \A n \in Loops : at'[n].job # j
      BY <2>2 DEF Idle
    <3> QED BY <2>1, <2>2, <2>3, <2>4, <3>1, <3>2
  <2>6. (HolderKnown /\ ProbesAfterKill /\ KillsCounted /\ NoSilentDrop)'
    BY <2>1 DEF HolderKnown, ProbesAfterKill, KillsCounted, Inv, Rest, NoSilentDrop, Open
  <2> QED BY <2>5, <2>6 DEF Rest
<1>15. CASE CheckBegin
  <2>1. /\ UNCHANGED <<queue, active, lock, probing, killing, stateFile, runs, told, kills>>
        /\ at' = at /\ pass' = [pass EXCEPT !["check"] = StateFiles]
    BY <1>15 DEF CheckBegin, disk, faults
  <2>2. \A l \in Loops : pass'[l] = pass[l] \/ pass'[l] = StateFiles
    BY <2>1 DEF Inv, TypeOK
  <2>3. \A i \in StateFiles : stateFile[i.job] # "none"
    BY DEF StateFiles
  <2> QED BY <2>1, <2>2, <2>3, Elsewhere
<1>16. ASSUME NEW l \in Loops, LookUp(l) PROVE Rest'
  <2>1. UNCHANGED <<queue, active, lock, probing, killing, stateFile, runs, told, kills>>
    BY <1>16 DEF LookUp, disk, history, faults
  <2>2. PICK i \in pass[l] :
          /\ pass' = [pass EXCEPT ![l] = @ \ {i}]
          /\ at' = [at EXCEPT ![l] = i] \/ at' = at
    BY <1>16 DEF LookUp
  <2>3. \A n \in Loops : pass'[n] \subseteq pass[n]
    BY <2>2 DEF Inv, TypeOK
  <2>4. \A n \in Loops : at'[n] = at[n] \/ at'[n] \in pass[n]
    BY <2>2 DEF Inv, TypeOK
  <2> QED BY <2>1, <2>3, <2>4, Elsewhere
<1>17. ASSUME NEW l \in Loops, reattachToTmuxSession(l) PROVE Rest'
  <2>1. /\ active' = active \cup {at[l].job}
        /\ lock' = [lock EXCEPT ![vmOf[at[l].job]] = at[l].job]
        /\ at' = [at EXCEPT ![l] = Idle]
        /\ UNCHANGED <<queue, probing, killing, pass, stateFile, runs, told, kills>>
    BY <1>17 DEF reattachToTmuxSession, disk, history, faults
  <2>2. at[l].job \in Jobs
    BY <1>17 DEF reattachToTmuxSession, Inv, TypeOK, Item
  <2>3. \A v \in VMs : \/ lock'[v] = lock[v]
                       \/ lock'[v] = at[l].job /\ vmOf[lock'[v]] = v
    BY <2>1, <2>2 DEF Inv, TypeOK
  <2>4. \A n \in Loops : at'[n] = at[n] \/ at'[n].job = None
    BY <2>1 DEF Idle, Inv, TypeOK
  <2>5. Accepted'
    BY <2>1, <2>2, <2>3, <2>4 DEF Inv, Rest, Accepted
  <2>6. HolderKnown'
    BY <2>1, <2>3 DEF Inv, Rest, HolderKnown
  <2>7. (ProbesAfterKill /\ KillsCounted /\ NoSilentDrop)'
    BY <2>1 DEF Inv, Rest, ProbesAfterKill, KillsCounted, NoSilentDrop, Open
  <2> QED BY <2>5, <2>6, <2>7 DEF Rest
<1>18. ASSUME NEW l \in Loops, handleCompletedJobWhileDown(l) PROVE Rest'
  <2>1. at[l].job \in Jobs
    BY <1>18 DEF handleCompletedJobWhileDown, Inv, TypeOK, Item
  <2>2. \E verdict \in {"completed", "failed", "repeat"} : Tell(at[l].job, verdict)
    BY <1>18 DEF handleCompletedJobWhileDown, Inferred
  <2>3. /\ stateFile' = [stateFile EXCEPT ![at[l].job] = "none"]
        /\ at' = [at EXCEPT ![l] = Idle]
        /\ UNCHANGED <<queue, active, lock, probing, killing, pass, runs, kills>>
    BY <1>18 DEF handleCompletedJobWhileDown, faults
  <2>4. QueueEffect(queue, active, lock, [stateFile EXCEPT ![at[l].job] = "none"])
    BY <2>3 DEF QueueEffect
  <2>5. \A n \in Loops : at'[n] \in {at[n], Idle}
    BY <2>3 DEF Inv, TypeOK
  <2>6. \A v \in VMs : lock[v] = at[l].job => at[l].job \in active \cup Elems(queue) \/ kills > 0
    BY <2>1 DEF Inv, Rest, HolderKnown
  <2>7. Leaving(at[l].job, active, lock)
    BY <1>k, <2>2, <2>3, <2>4, <2>5, <2>6 DEF Leaving
  <2> QED BY <2>1, <2>7, Leaves DEF Inv, TypeOK
<1>19. ASSUME NEW l \in Loops, StillFresh(l) PROVE Rest'
  <2>1. /\ UNCHANGED <<queue, active, lock, probing, killing, stateFile, runs, told, kills>>
        /\ pass' = pass /\ at' = [at EXCEPT ![l] = Idle]
    BY <1>19 DEF StillFresh, disk, history, faults
  <2>2. \A n \in Loops, j \in Jobs : at'[n].job = j => at[n].job = j
    BY <2>1 DEF Inv, TypeOK, Idle
  <2> QED BY <2>1, <2>2, Elsewhere
<1>20. CASE failJobEarly
  <2> DEFINE j == at["recover"].job
             l == [lock EXCEPT ![vmOf[j]] = IF @ = j THEN None ELSE @]
  <2>1. j \in Jobs
    BY <1>20 DEF failJobEarly, Inv, TypeOK, Item, Loops
  <2>2. /\ active' = active \ {j} /\ lock' = l
        /\ stateFile' = [stateFile EXCEPT ![j] = "none"]
        /\ Tell(j, "failed") /\ at' = [at EXCEPT !["recover"] = Idle]
        /\ UNCHANGED <<queue, probing, killing, pass, runs, kills>>
    BY <1>20 DEF failJobEarly, faults
  <2>3. /\ l \in [VMs -> Jobs \cup {None}]
        /\ \A v \in VMs : l[v] = lock[v] \/ l[v] = None
        /\ \A v \in VMs : l[v] # j
    BY <2>1 DEF Inv, Rest, HolderKnown, TypeOK
  <2>4. \A n \in Loops : at'[n] \in {at[n], Idle}
    BY <2>2 DEF Inv, TypeOK
  <2> HIDE DEF l, j
  <2>5. QueueEffect(queue, active \ {j}, l, [stateFile EXCEPT ![j] = "none"])
    BY <2>2 DEF QueueEffect
  <2>6. Leaving(j, active \ {j}, l)
    BY <1>k, <2>2, <2>3, <2>4, <2>5 DEF Leaving
  <2> QED BY <2>1, <2>3, <2>6, Leaves
<1>21. CASE UNCHANGED vars
  BY <1>21, Elsewhere DEF vars
<1> QED
  BY <1>1, <1>2, <1>3, <1>4, <1>5, <1>6, <1>7, <1>8, <1>9, <1>10, <1>11, <1>12, <1>13,
     <1>14, <1>15, <1>16, <1>17, <1>18, <1>19, <1>20, <1>21
     DEF Next, Probe, Launch, Tick, TickCompleted, EndFailed

\* From its acceptance until its verdict is handed over, a job's state file is
\* on disk, for any number of jobs, machines, restarts and faults.
THEOREM NoJobForgotten == Spec => []NoSilentDrop
BY InvInit, InvNext, PTL DEF Spec, Inv, Rest

-----------------------------------------------------------------------------
(* Order: as long as the agent runs orderly, memory, the state files, the   *)
(* sessions and the recovery loops agree on who runs and who is watched.    *)

Orders == {"failed", "repeat"}
Watches(m) == m \in intervals \/ \E v \in Orders : <<m, v>> \in ending
Holds(l, i) == i \in pass[l] \/ at[l] = i
InMemory(k) == k \in active \/ k \in Elems(queue)
Known(k) ==
  \/ stateFile[k] # "none" \/ InMemory(k)
  \/ \E l \in Loops, i \in Item : i.job = k /\ Holds(l, i)

\* What memory, the state file and the session of a job say of one another.
JobOK(k) ==
  /\ InMemory(k) => lock[vmOf[k]] = k
  /\ k \in Elems(queue) => k \notin active /\ stateFile[k] = "queued"
  /\ k \in launching => k \in active /\ stateFile[k] = "started"
  /\ k \in Running => stateFile[k] = "started" /\ k \notin launching
\* That the run of a job failed can still be read from its exit code, was told, or is on
\* its way to be; or a stop of the agent lost it.
Remembered(k) ==
  \/ exitCode[k] = "bad" \/ told[k] \cap Orders # {} \/ k \in lostCode
  \/ \E m \in Monitor : m.job = k /\ <<m, "failed">> \in ending
\* A failure leaves no exit code that a later verdict could take for success, and none
\* that is to come is judged before it is known.
VerdictOK(k) ==
  /\ exitCode[k] = "ok" => outcome[k] # "bad"
  /\ k \in Running \/ k \in launching \/ k \in Elems(queue) =>
       outcome[k] # "bad" /\ "completed" \notin told[k]
  /\ outcome[k] = "bad" => Remembered(k)
  /\ told[k] = {"completed"} => outcome[k] # "bad" \/ k \in lostCode
\* A job has at most one monitor, which watches the session of that job if it runs.
WatchOK(k) ==
  /\ \A m \in Monitor : m.job = k /\ Watches(m) =>
       /\ k \in active /\ k \notin launching /\ (m.on = k \/ k \notin Running)
       /\ vmOf[m.on] = vmOf[k]
       /\ m \in intervals => \A v \in Orders : <<m, v>> \notin ending
       /\ <<m, "failed">> \in ending => <<m, "repeat">> \notin ending
  /\ \A m, n \in Monitor : m.job = k /\ n.job = k /\ Watches(m) /\ Watches(n) => m = n
\* A job on a loop's list is not in memory, and its state file is as recorded.
ListOK(k) ==
  /\ \A i \in Item : i.job = k =>
       /\ Holds("recover", i) =>
            ~InMemory(k) /\ stateFile[k] = IF i.queued THEN "queued" ELSE "started"
       /\ at["check"] = i => ~InMemory(k) /\ ~i.queued
       /\ i \in pass["check"] /\ ~i.queued => k \notin Elems(queue)
       /\ at["recover"] = i => i \notin pass["recover"]
  /\ stateFile[k] = "queued" =>
       InMemory(k) \/ Holds("recover", [job |-> k, queued |-> TRUE])

Distinct(q) == \A a, b \in DOMAIN q : q[a] = q[b] => a = b
OnePerVM == \A j, k \in Jobs : Known(j) /\ Known(k) /\ vmOf[j] = vmOf[k] => j = k
Turns == Underway("recover") => ~Underway("check")
Fine(k) == JobOK(k) /\ VerdictOK(k) /\ WatchOK(k) /\ ListOK(k)
Order == (\A k \in Jobs : Fine(k)) /\ OnePerVM /\ Distinct(queue) /\ Turns
OrderInv == Inv /\ (Orderly => Order)

\* What a step does to a job it is not about, P being the jobs it starts.
Moves(k, P) ==
  /\ k \in Elems(queue') <=> k \in Elems(queue) /\ k \notin P
  /\ k \in active' <=> k \in active \/ k \in P
  /\ k \in launching' <=> k \in launching \/ k \in P
  /\ stateFile'[k] = IF k \in P THEN "started" ELSE stateFile[k]
  /\ InMemory(k) => lock'[vmOf[k]] = lock[vmOf[k]]
Tells(k) ==
  /\ k \in Running' => k \in Running
  /\ exitCode'[k] = exitCode[k] /\ told'[k] = told[k]
  /\ outcome'[k] = "bad" => outcome[k] = "bad"
  /\ k \in lostCode' <=> k \in lostCode
SameWatch(k) ==
  \A m \in Monitor : m.job = k =>
    /\ m \in intervals' <=> m \in intervals
    /\ \A v \in Orders : <<m, v>> \in ending' <=> <<m, v>> \in ending
SameList(k) ==
  \A i \in Item : i.job = k =>
    \A l \in Loops : (i \in pass'[l] <=> i \in pass[l]) /\ (at'[l] = i <=> at[l] = i)

LEMMA MovesJob ==
  ASSUME NEW k \in Jobs, NEW P \in SUBSET Elems(queue), Fine(k), Moves(k, P), Tells(k),
         SameWatch(k)
  PROVE  JobOK(k)' /\ VerdictOK(k)'
<1>1. k \in P => k \in Elems(queue)
  OBVIOUS
<1>2. InMemory(k)' <=> InMemory(k)
  BY <1>1 DEF InMemory, Moves, Elems
<1>3. JobOK(k)'
  <2>1. InMemory(k)' => lock'[vmOf[k]] = k
    BY <1>2 DEF Fine, JobOK, Moves
  <2>2. k \in Elems(queue)' => k \notin active' /\ stateFile'[k] = "queued"
    BY <1>1 DEF Fine, JobOK, Moves, Elems
  <2>3. k \in launching' => k \in active' /\ stateFile'[k] = "started"
    BY <1>1 DEF Fine, JobOK, Moves
  <2>4. k \in Running' => stateFile'[k] = "started" /\ k \notin launching'
    BY <1>1 DEF Fine, JobOK, Moves, Tells
  <2> QED BY <2>1, <2>2, <2>3, <2>4 DEF JobOK
<1>4. VerdictOK(k)'
  <2>1. exitCode'[k] = "ok" => outcome'[k] # "bad"
    BY DEF Fine, VerdictOK, Tells
  <2>2. k \in Running' \/ k \in launching' \/ k \in Elems(queue)' =>
          outcome'[k] # "bad" /\ "completed" \notin told'[k]
    BY <1>1 DEF Fine, VerdictOK, Tells, Moves, Elems
  <2>3. Remembered(k) => Remembered(k)'
    BY DEF Remembered, Tells, SameWatch, Orders
  <2>4. /\ outcome'[k] = "bad" => Remembered(k)'
        /\ told'[k] = {"completed"} => outcome'[k] # "bad" \/ k \in lostCode'
    BY <2>3 DEF Fine, VerdictOK, Tells
  <2> QED BY <2>1, <2>2, <2>4 DEF VerdictOK
<1> QED BY <1>3, <1>4

LEMMA MovesWatch ==
  ASSUME NEW k \in Jobs, NEW P \in SUBSET Elems(queue), Fine(k), Moves(k, P), Tells(k),
         SameWatch(k)
  PROVE  WatchOK(k)'
<1>1. \A m \in Monitor : m.job = k =>
        /\ Watches(m)' <=> Watches(m)
        /\ m \in intervals' <=> m \in intervals
        /\ \A v \in Orders : <<m, v>> \in ending' <=> <<m, v>> \in ending
  BY DEF SameWatch, Watches
<1>2. k \in active => k \notin P
  BY DEF Fine, JobOK
<1>3. k \in active /\ k \notin launching => k \in active' /\ k \notin launching'
  BY <1>2 DEF Moves
<1>4. k \in Running' => k \in Running
  BY DEF Tells
<1>5. "failed" \in Orders /\ "repeat" \in Orders
  BY DEF Orders
<1>6. ASSUME NEW m \in Monitor, m.job = k, Watches(m)'
      PROVE  /\ k \in active' /\ k \notin launching' /\ (m.on = k \/ k \notin Running')
             /\ vmOf[m.on] = vmOf[k]
             /\ m \in intervals' => \A v \in Orders : <<m, v>> \notin ending'
             /\ <<m, "failed">> \in ending' => <<m, "repeat">> \notin ending'
  BY <1>1, <1>3, <1>4, <1>5, <1>6 DEF Fine, WatchOK
<1>7. ASSUME NEW m \in Monitor, NEW n \in Monitor, m.job = k, n.job = k,
             Watches(m)', Watches(n)'
      PROVE  m = n
  BY <1>1, <1>7 DEF Fine, WatchOK
<1> QED BY <1>6, <1>7 DEF WatchOK

LEMMA MovesList ==
  ASSUME NEW k \in Jobs, NEW P \in SUBSET Elems(queue), Fine(k), Moves(k, P), SameList(k)
  PROVE  ListOK(k)' /\ (Known(k)' => Known(k))
<1>1. k \in P => k \in Elems(queue)
  OBVIOUS
<1>2. InMemory(k)' <=> InMemory(k)
  BY <1>1 DEF InMemory, Moves, Elems
<1>3. \A i \in Item, l \in Loops : i.job = k =>
        /\ Holds(l, i)' <=> Holds(l, i)
        /\ i \in pass'[l] <=> i \in pass[l]
        /\ at'[l] = i <=> at[l] = i
  BY DEF SameList, Holds
<1>4. /\ ~InMemory(k) => stateFile'[k] = stateFile[k]
      /\ stateFile'[k] = "queued" => stateFile[k] = "queued"
      /\ k \in Elems(queue)' => k \in Elems(queue)
  BY <1>1 DEF Moves, InMemory, Elems
<1>5. "recover" \in Loops /\ "check" \in Loops
  BY DEF Loops
<1>6. ASSUME NEW i \in Item, i.job = k
      PROVE  /\ Holds("recover", i)' =>
                  ~InMemory(k)' /\ stateFile'[k] = IF i.queued THEN "queued" ELSE "started"
             /\ at'["check"] = i => ~InMemory(k)' /\ ~i.queued
             /\ i \in pass'["check"] /\ ~i.queued => k \notin Elems(queue)'
             /\ at'["recover"] = i => i \notin pass'["recover"]
  BY <1>2, <1>3, <1>4, <1>5, <1>6 DEF Fine, ListOK
<1>7. stateFile'[k] = "queued" =>
        InMemory(k)' \/ Holds("recover", [job |-> k, queued |-> TRUE])'
  <2>1. PICK i \in Item : i = [job |-> k, queued |-> TRUE]
    BY DEF Item
  <2>2. i.job = k
    BY <2>1
  <2>3. stateFile'[k] = "queued" => InMemory(k) \/ Holds("recover", i)
    BY <1>4, <2>1 DEF Fine, ListOK
  <2> QED BY <2>1, <2>2, <2>3, <1>2, <1>3, <1>5
<1>8. ASSUME Known(k)' PROVE Known(k)
  <2>1. stateFile'[k] # "none" => stateFile[k] # "none" \/ InMemory(k)
    BY <1>1 DEF Moves, InMemory
  <2>2. ASSUME NEW l \in Loops, NEW i \in Item, i.job = k, Holds(l, i)'
        PROVE  Known(k)
    BY <2>2, <1>3 DEF Known
  <2> QED BY <1>8, <1>2, <2>1, <2>2 DEF Known
<1> QED BY <1>6, <1>7, <1>8 DEF ListOK

\* A step that is about no job only moves jobs out of the queue.
LEMMA NoJob ==
  ASSUME Order, NEW P \in SUBSET Elems(queue),
         \A k \in Jobs : Moves(k, P) /\ Tells(k) /\ SameWatch(k) /\ SameList(k),
         Distinct(queue)', Turns'
  PROVE  Order'
<1>1. ASSUME NEW k \in Jobs PROVE Fine(k)' /\ (Known(k)' => Known(k))
  <2>1. Fine(k) /\ Moves(k, P) /\ Tells(k) /\ SameWatch(k) /\ SameList(k)
    BY DEF Order
  <2> QED BY <2>1, MovesJob, MovesWatch, MovesList DEF Fine
<1>2. OnePerVM'
  BY <1>1 DEF Order, OnePerVM
<1> QED BY <1>1, <1>2 DEF Order

\* A step that is about one job only has to be checked for that job.
LEMMA OneJob ==
  ASSUME Order, NEW j \in Jobs, NEW P \in SUBSET Elems(queue),
         \A k \in Jobs : k # j => Moves(k, P) /\ Tells(k) /\ SameWatch(k) /\ SameList(k),
         Fine(j)', Known(j)' => Known(j), Distinct(queue)', Turns'
  PROVE  Order'
<1>1. ASSUME NEW k \in Jobs PROVE Fine(k)' /\ (Known(k)' => Known(k))
  <2>1. CASE k = j
    BY <2>1
  <2>2. CASE k # j
    <3>1. Fine(k) /\ Moves(k, P) /\ Tells(k) /\ SameWatch(k) /\ SameList(k)
      BY <2>2 DEF Order
    <3>2. JobOK(k)' /\ VerdictOK(k)'
      BY <3>1, MovesJob
    <3>3. WatchOK(k)'
      BY <3>1, MovesWatch
    <3>4. ListOK(k)' /\ (Known(k)' => Known(k))
      BY <3>1, MovesList
    <3> QED BY <3>2, <3>3, <3>4 DEF Fine
  <2> QED BY <2>1, <2>2
<1>2. OnePerVM'
  BY <1>1 DEF Order, OnePerVM
<1> QED BY <1>1, <1>2 DEF Order

LEMMA DistinctTail ==
  ASSUME NEW S, NEW q \in Seq(S), q # <<>>, Distinct(q)
  PROVE  Distinct(Tail(q)) /\ Elems(Tail(q)) = Elems(q) \ {Head(q)}
<1>1. Len(q) \in Nat /\ Len(q) > 0 /\ DOMAIN q = 1 .. Len(q) /\ Head(q) = q[1]
  OBVIOUS
<1>2. DOMAIN Tail(q) = 1 .. Len(q) - 1 /\ \A i \in 1 .. Len(q) - 1 : Tail(q)[i] = q[i + 1]
  BY <1>1
<1>3. \A a, b \in 1 .. Len(q) : q[a] = q[b] => a = b
  BY <1>1 DEF Distinct
<1>4. ASSUME NEW a \in 1 .. Len(q) - 1, NEW b \in 1 .. Len(q) - 1, Tail(q)[a] = Tail(q)[b]
      PROVE  a = b
  <2>1. a + 1 \in 1 .. Len(q) /\ b + 1 \in 1 .. Len(q) /\ q[a + 1] = q[b + 1]
    BY <1>1, <1>2, <1>4
  <2>2. a + 1 = b + 1
    BY <2>1, <1>3
  <2> QED BY <2>2
<1>5. Distinct(Tail(q))
  BY <1>2, <1>4 DEF Distinct
<1>6. Head(q) \notin Elems(Tail(q))
  <2> SUFFICES ASSUME NEW a \in 1 .. Len(q) - 1, Tail(q)[a] = Head(q) PROVE FALSE
    BY <1>2 DEF Elems
  <2>1. a + 1 \in 1 .. Len(q) /\ 1 \in 1 .. Len(q) /\ q[a + 1] = q[1]
    BY <1>1, <1>2
  <2>2. a + 1 = 1
    BY <2>1, <1>3
  <2> QED BY <2>2
<1> QED BY <1>5, <1>6, ElemsTail

LEMMA DistinctAppend ==
  ASSUME NEW S, NEW q \in Seq(S), NEW j \in S, j \notin Elems(q), Distinct(q)
  PROVE  Distinct(Append(q, j))
<1>1. Len(q) \in Nat /\ DOMAIN q = 1 .. Len(q) /\ DOMAIN Append(q, j) = 1 .. Len(q) + 1
  OBVIOUS
<1>2. /\ \A i \in 1 .. Len(q) : Append(q, j)[i] = q[i]
      /\ Append(q, j)[Len(q) + 1] = j
  BY <1>1
<1>3. \A i \in 1 .. Len(q) : q[i] # j
  BY <1>1 DEF Elems
<1>4. \A a \in 1 .. Len(q) + 1 : a \in 1 .. Len(q) \/ a = Len(q) + 1
  BY <1>1
<1>5. ASSUME NEW a \in 1 .. Len(q) + 1, NEW b \in 1 .. Len(q) + 1,
             Append(q, j)[a] = Append(q, j)[b]
      PROVE  a = b
  <2>1. CASE a \in 1 .. Len(q) /\ b \in 1 .. Len(q)
    BY <2>1, <1>1, <1>2, <1>5 DEF Distinct
  <2>2. CASE a \notin 1 .. Len(q) \/ b \notin 1 .. Len(q)
    BY <2>2, <1>2, <1>3, <1>4, <1>5
  <2> QED BY <2>1, <2>2
<1> QED BY <1>1, <1>5 DEF Distinct

\* What starting the head of the queue does, P being the job started, if any.
Drained(q, a, l, f, s, P) ==
  /\ Distinct(queue') /\ Elems(queue') = Elems(q) \ P
  /\ active' = a \cup P /\ lock' = l /\ launching' = s \cup P
  /\ \A k \in Jobs : stateFile'[k] = IF k \in P THEN "started" ELSE f[k]

LEMMA Drain ==
  ASSUME NEW q \in Seq(Jobs), NEW a \in SUBSET Jobs,
         NEW l \in [VMs -> Jobs \cup {None}], NEW f \in [Jobs -> Files],
         NEW s \in SUBSET Jobs, Distinct(q), \A k \in Elems(q) : l[vmOf[k]] = k,
         processQueue(q, a, l, f, s)
  PROVE  \E P \in SUBSET Elems(q) : Drained(q, a, l, f, s, P)
<1>1. CASE q = <<>> \/ Limited(Cardinality(a))
  <2>1. queue' = q /\ active' = a /\ lock' = l /\ stateFile' = f /\ launching' = s
    BY <1>1 DEF processQueue
  <2>2. Drained(q, a, l, f, s, {})
    BY <2>1 DEF Drained
  <2> QED BY <2>2
<1>2. CASE ~(q = <<>> \/ Limited(Cardinality(a)))
  <2>1. /\ queue' = Tail(q) /\ active' = a \cup {Head(q)}
        /\ lock' = [l EXCEPT ![vmOf[Head(q)]] = Head(q)]
        /\ stateFile' = [f EXCEPT ![Head(q)] = "started"]
        /\ launching' = s \cup {Head(q)}
    BY <1>2 DEF processQueue
  <2>2. Distinct(Tail(q)) /\ Elems(Tail(q)) = Elems(q) \ {Head(q)}
    BY <1>2, DistinctTail
  <2>3. Head(q) \in Elems(q) /\ Head(q) \in Jobs
    BY <1>2, ElemsTail, HeadTail
  <2>4. lock' = l
    BY <2>1, <2>3
  <2>5. ASSUME NEW k \in Jobs
        PROVE  stateFile'[k] = IF k \in {Head(q)} THEN "started" ELSE f[k]
    <3>1. [f EXCEPT ![Head(q)] = "started"][k] = IF k = Head(q) THEN "started" ELSE f[k]
      BY Except, Zenon
    <3> QED BY <2>1, <3>1
  <2>6. Drained(q, a, l, f, s, {Head(q)})
    BY <2>1, <2>2, <2>4, <2>5 DEF Drained
  <2> QED BY <2>3, <2>6
<1> QED BY <1>1, <1>2

\* A job leaves memory.
LEMMA Ends ==
  ASSUME TypeOK, Order, NEW j \in Jobs, j \in active, NEW s \in SUBSET Jobs,
         s \subseteq launching, launching \subseteq s \cup {j}, j \notin s,
         endOf(active \ {j}, [lock EXCEPT ![vmOf[j]] = None],
               [stateFile EXCEPT ![j] = "none"], s)
  PROVE  /\ Distinct(queue)'
         /\ ~InMemory(j)' /\ j \notin launching' /\ stateFile'[j] = "none"
         /\ \E P \in SUBSET Elems(queue) : \A k \in Jobs : k # j => Moves(k, P)
<1>1. /\ queue' = queue /\ active' = active \ {j} /\ launching' = s
      /\ lock' = [lock EXCEPT ![vmOf[j]] = None]
      /\ stateFile' = [stateFile EXCEPT ![j] = "none"]
  BY DEF endOf
<1>2. j \notin Elems(queue)
  BY DEF Order, Fine, JobOK
<1>3. ASSUME NEW k \in Jobs, k # j PROVE Moves(k, {})
  <2>1. InMemory(k) => vmOf[k] # vmOf[j]
    BY <1>3 DEF Order, OnePerVM, Known, InMemory
  <2>2. InMemory(k) => lock'[vmOf[k]] = lock[vmOf[k]]
    BY <1>1, <2>1, JobsAssumption DEF TypeOK
  <2>3. stateFile'[k] = stateFile[k]
    BY <1>1, <1>3 DEF TypeOK
  <2> QED BY <1>1, <1>3, <2>2, <2>3 DEF Moves, Elems
<1>4. ~InMemory(j)' /\ j \notin launching' /\ stateFile'[j] = "none" /\ Distinct(queue)'
  BY <1>1, <1>2 DEF InMemory, Elems, Order, TypeOK
<1>5. {} \in SUBSET Elems(queue)
  OBVIOUS
<1> QED BY <1>3, <1>4, <1>5

\* The actions of the script, of a new session and of a stopped session: only
\* a session and its results change, and no session starts to run.
SameRest == UNCHANGED <<queue, active, lock, launching, intervals, ending, pass, at, stateFile>>

LEMMA SameRestMoves ==
  ASSUME SameRest, NEW k \in Jobs
  PROVE  /\ Moves(k, {}) /\ SameWatch(k) /\ SameList(k)
         /\ (Known(k)' => Known(k)) /\ (Distinct(queue) => Distinct(queue)') /\ (Turns => Turns')
<1>1. Moves(k, {})
  BY DEF SameRest, Moves, Elems
<1>2. SameWatch(k) /\ SameList(k)
  BY DEF SameRest, SameWatch, SameList
<1>3. Known(k)' => Known(k)
  BY DEF SameRest, Known, InMemory, Holds, Elems
<1>4. (Distinct(queue) => Distinct(queue)') /\ (Turns => Turns')
  BY DEF SameRest, Turns, Underway
<1> QED BY <1>1, <1>2, <1>3, <1>4

LEMMA SessionStep ==
  ASSUME Order, NEW j \in Jobs, SameRest, \A k \in Jobs : Tells(k) \/ (k = j /\ VerdictOK(k)'
           /\ (k \in Running' => k \in Running))
  PROVE  Order'
<1>1. ASSUME NEW k \in Jobs PROVE Fine(k)' /\ (Known(k)' => Known(k))
  <2>1. /\ Fine(k) /\ Moves(k, {}) /\ SameWatch(k) /\ SameList(k)
        /\ k \in Running' => k \in Running
        /\ Tells(k) \/ VerdictOK(k)'
    BY SameRestMoves DEF Order, Tells
  <2>2. {} \in SUBSET Elems(queue)
    OBVIOUS
  <2>3. ListOK(k)' /\ (Known(k)' => Known(k))
    BY <2>1, <2>2, MovesList
  <2>4. JobOK(k)'
    BY <2>1 DEF SameRest, Fine, JobOK, InMemory, Elems
  <2>5. WatchOK(k)'
    BY <2>1 DEF SameRest, Fine, WatchOK, Watches
  <2>6. VerdictOK(k)'
    BY <2>1, <2>2, MovesJob
  <2> QED BY <2>3, <2>4, <2>5, <2>6 DEF Fine
<1>2. OnePerVM'
  BY <1>1 DEF Order, OnePerVM
<1>3. Distinct(queue)' /\ Turns'
  BY SameRestMoves DEF Order
<1> QED BY <1>1, <1>2, <1>3 DEF Order

LEMMA OrderInit == Init => Order
<1> SUFFICES ASSUME Init PROVE Order
  OBVIOUS
<1>1. /\ queue = <<>> /\ active = {} /\ launching = {} /\ intervals = {} /\ ending = {}
      /\ Elems(queue) = {}
      /\ \A l \in Loops : pass[l] = {} /\ at[l] = Idle
  BY DEF Init, Elems
<1>2. \A k \in Jobs : /\ stateFile[k] = "none" /\ exitCode[k] = "none" /\ session[k] = "none"
                      /\ told[k] = {} /\ outcome[k] = "none"
  BY DEF Init
<1>3. "recover" \in Loops /\ "check" \in Loops
  BY DEF Loops
<1>4. \A i \in Item : i # Idle
  BY JobsAssumption DEF Item, Idle
<1>5. \A k \in Jobs : ~InMemory(k) /\ k \notin Running
  BY <1>1, <1>2 DEF InMemory, Running
<1>6. \A i \in Item, l \in Loops : ~Holds(l, i)
  BY <1>1, <1>4 DEF Holds
<1>7. \A m : ~Watches(m)
  BY <1>1 DEF Watches
<1>8. \A k \in Jobs : ~Known(k)
  BY <1>2, <1>5, <1>6 DEF Known
<1>9. ASSUME NEW k \in Jobs PROVE Fine(k)
  <2>1. JobOK(k)
    BY <1>1, <1>2, <1>5 DEF JobOK
  <2>2. VerdictOK(k)
    BY <1>1, <1>2, <1>5 DEF VerdictOK
  <2>3. WatchOK(k)
    BY <1>7 DEF WatchOK
  <2>4. ListOK(k)
    BY <1>1, <1>2, <1>3, <1>4, <1>6 DEF ListOK
  <2> QED BY <2>1, <2>2, <2>3, <2>4 DEF Fine
<1>10. Distinct(queue) /\ Turns
  BY <1>1, <1>3 DEF Distinct, Turns, Underway
<1> QED BY <1>8, <1>9, <1>10 DEF Order, OnePerVM

LEMMA SessionSteps ==
  ASSUME TypeOK, Order, NEW j \in Jobs,
         NewSession(j) \/ JobFail(j) \/ Interrupted(j)
           \/ \E code \in {"ok", "bad"} : ScriptEnds(j, code)
  PROVE  Order'
<1>1. CASE NewSession(j) \/ JobFail(j)
  <2>1. SameRest /\ UNCHANGED <<exitCode, outcome, told, lostCode>>
    BY <1>1 DEF NewSession, JobFail, SameRest, memory, history
  <2>2. \A k \in Jobs : k \in Running' => k \in Running
    BY <1>1 DEF NewSession, JobFail, Running, TypeOK
  <2>3. \A k \in Jobs : Tells(k)
    BY <2>1, <2>2 DEF Tells
  <2> QED BY <2>1, <2>3, SessionStep
<1>2. CASE Interrupted(j)
  <2>1. SameRest /\ UNCHANGED <<exitCode, told, lostCode>>
    BY <1>2 DEF Interrupted, SameRest, memory
  <2>2. \A k \in Jobs : k \in Running' => k \in Running
    BY <1>2 DEF Interrupted, Running, TypeOK
  <2>3. \A k \in Jobs : outcome'[k] = "bad" => outcome[k] = "bad"
    BY <1>2 DEF Interrupted, TypeOK
  <2>4. \A k \in Jobs : Tells(k)
    BY <2>1, <2>2, <2>3 DEF Tells
  <2> QED BY <2>1, <2>4, SessionStep
<1>3. ASSUME NEW code \in {"ok", "bad"}, ScriptEnds(j, code) PROVE Order'
  <2>1. /\ SameRest /\ told' = told /\ lostCode' = lostCode /\ j \in Running
        /\ session' = [session EXCEPT ![j] = "none"]
        /\ exitCode' = [exitCode EXCEPT ![j] = code]
        /\ outcome' = [outcome EXCEPT ![j] = code]
    BY <1>3 DEF ScriptEnds, SameRest, memory, Running
  <2>2. \A k \in Jobs : k \in Running' => k \in Running
    BY <2>1 DEF Running, TypeOK
  <2>3. \A k \in Jobs : k # j => exitCode'[k] = exitCode[k] /\ outcome'[k] = outcome[k]
    BY <2>1 DEF TypeOK
  <2>4. \A k \in Jobs : k # j => Tells(k)
    BY <2>1, <2>2, <2>3 DEF Tells
  <2>5. exitCode'[j] = code /\ outcome'[j] = code
    BY <2>1 DEF TypeOK
  <2>6. "completed" \notin told'[j]
    BY <2>1 DEF Order, Fine, VerdictOK
  <2>7. VerdictOK(j)'
    <3>1. j \notin Running' /\ j \notin launching' /\ j \notin Elems(queue)'
      <4>1. session'[j] = "none"
        BY <2>1 DEF TypeOK
      <4>2. j \notin launching /\ j \notin Elems(queue)
        BY <2>1 DEF Order, Fine, JobOK
      <4> QED BY <2>1, <4>1, <4>2 DEF Running, SameRest, Elems
    <3>2. outcome'[j] = "bad" => Remembered(j)'
      BY <2>5 DEF Remembered
    <3> QED BY <2>5, <2>6, <3>1, <3>2 DEF VerdictOK
  <2> QED BY <2>1, <2>2, <2>4, <2>7, SessionStep
<1> QED BY <1>1, <1>2, <1>3

\* The job that a monitor or a failed launch takes out of memory is in order.
LEMMA EndedFine ==
  ASSUME Order, NEW j \in Jobs, j \in active,
         ~InMemory(j)', j \notin launching', stateFile'[j] = "none",
         j \notin Running', pass' = pass, at' = at,
         \A m \in Monitor : m.job = j => ~Watches(m)',
         VerdictOK(j)'
  PROVE  Fine(j)' /\ (Known(j)' => Known(j)) /\ Turns' /\ \A k \in Jobs : SameList(k)
<1>1. JobOK(j)'
  BY DEF JobOK, InMemory
<1>2. WatchOK(j)'
  BY DEF WatchOK
<1>3. Fine(j) /\ InMemory(j)
  BY DEF Order, InMemory
<1>4. \A i \in Item : i.job = j => ~Holds("recover", i) /\ at["check"] # i
  BY <1>3 DEF Fine, ListOK
<1>5. ListOK(j)'
  BY <1>4 DEF ListOK, Holds, InMemory
<1>6. Known(j)
  BY <1>3 DEF Known
<1>7. Turns'
  BY DEF Order, Turns, Underway
<1>8. \A k \in Jobs : SameList(k)
  BY DEF SameList
<1> QED BY <1>1, <1>2, <1>5, <1>6, <1>7, <1>8 DEF Fine

LEMMA StartFailedStep ==
  ASSUME TypeOK, Order, NEW j \in Jobs, StartFailed(j)
  PROVE  Order'
<1>1. /\ j \in launching /\ j \in active /\ j \notin Running
      /\ \A m \in Monitor : m.job = j => ~Watches(m)
  BY DEF StartFailed, Order, Fine, JobOK, WatchOK
<1>2. /\ endOf(active \ {j}, [lock EXCEPT ![vmOf[j]] = None],
               [stateFile EXCEPT ![j] = "none"], launching \ {j})
      /\ exitCode' = [exitCode EXCEPT ![j] = "bad"]
      /\ told' = [told EXCEPT ![j] = @ \cup {"failed"}]
      /\ UNCHANGED <<intervals, ending, pass, at, session, outcome, lostCode>>
  BY DEF StartFailed, Tell
<1>3. launching \ {j} \in SUBSET Jobs
  BY DEF TypeOK
<1>4. /\ Distinct(queue)' /\ ~InMemory(j)' /\ j \notin launching' /\ stateFile'[j] = "none"
      /\ \E P \in SUBSET Elems(queue) : \A k \in Jobs : k # j => Moves(k, P)
  BY <1>1, <1>2, <1>3, Ends
<1>5. Running' = Running
  BY <1>2 DEF Running
<1>6. VerdictOK(j)'
  <2>1. exitCode'[j] = "bad"
    BY <1>2 DEF TypeOK
  <2>2. outcome'[j] # "bad"
    BY <1>1, <1>2 DEF Order, Fine, VerdictOK
  <2>3. j \notin Running' /\ j \notin launching' /\ j \notin Elems(queue)'
    BY <1>1, <1>4, <1>5 DEF InMemory
  <2> QED BY <2>1, <2>2, <2>3 DEF VerdictOK
<1>7. \A m \in Monitor : m.job = j => ~Watches(m)'
  BY <1>1, <1>2 DEF Watches
<1>8. Fine(j)' /\ (Known(j)' => Known(j)) /\ Turns' /\ \A k \in Jobs : SameList(k)
  BY <1>1, <1>2, <1>4, <1>5, <1>6, <1>7, EndedFine
<1>9. ASSUME NEW k \in Jobs, k # j PROVE Tells(k) /\ SameWatch(k)
  <2>1. exitCode'[k] = exitCode[k] /\ told'[k] = told[k] /\ outcome'[k] = outcome[k]
    BY <1>2, <1>9 DEF TypeOK
  <2> QED BY <1>2, <1>5, <2>1 DEF Tells, SameWatch
<1>10. PICK P \in SUBSET Elems(queue) : \A k \in Jobs : k # j => Moves(k, P)
  BY <1>4
<1> QED BY <1>4, <1>8, <1>9, <1>10, OneJob

\* A monitor ends: what it watched has stopped, and its job leaves memory.
LEMMA EndRunStep ==
  ASSUME TypeOK, Order, NEW m \in Monitor, Watches(m),
         NEW verdict \in {"completed", "failed", "repeat"},
         EndRun(m, verdict),
         \A n \in Monitor : Watches(n)' <=> Watches(n) /\ n # m,
         intervals' \subseteq intervals, ending' \subseteq ending,
         \A n \in Monitor : n # m =>
           /\ n \in intervals' <=> n \in intervals
           /\ \A v \in Orders : <<n, v>> \in ending' <=> <<n, v>> \in ending,
         \A k \in Jobs : /\ k \in Running' => k \in Running
                         /\ outcome'[k] = "bad" => outcome[k] = "bad"
                         /\ exitCode'[k] = "ok" => exitCode[k] = "ok"
                         /\ k # m.job => exitCode'[k] = exitCode[k],
         m.job \notin Running',
         verdict = "completed" => outcome'[m.job] # "bad"
  PROVE  Order'
<1> DEFINE j == m.job
<1>1. j \in Jobs /\ j \in active /\ j \notin launching /\ launching \in SUBSET Jobs
  BY DEF Monitor, Order, Fine, WatchOK, TypeOK
<1>2. /\ endOf(active \ {j}, [lock EXCEPT ![vmOf[j]] = None],
               [stateFile EXCEPT ![j] = "none"], launching)
      /\ told' = [told EXCEPT ![j] = @ \cup {verdict}]
      /\ pass' = pass /\ at' = at /\ lostCode' = lostCode
  BY DEF EndRun, Tell
<1> HIDE DEF j
<1>3. /\ Distinct(queue)' /\ ~InMemory(j)' /\ j \notin launching' /\ stateFile'[j] = "none"
      /\ \E P \in SUBSET Elems(queue) : \A k \in Jobs : k # j => Moves(k, P)
  BY <1>1, <1>2, Ends
<1>4. \A n \in Monitor : n.job = j => ~Watches(n)'
  BY <1>1 DEF Order, Fine, WatchOK, j
<1>5. VerdictOK(j)'
  <2>1. told'[j] = told[j] \cup {verdict}
    BY <1>1, <1>2 DEF TypeOK
  <2>2. exitCode'[j] = "ok" => outcome'[j] # "bad"
    BY <1>1 DEF Order, Fine, VerdictOK
  <2>3. outcome'[j] = "bad" => verdict \in told'[j] \cap Orders
    BY <2>1 DEF j, Orders
  <2>4. j \notin Running' /\ j \notin launching' /\ j \notin Elems(queue)'
    BY <1>3 DEF j, InMemory
  <2>5. outcome'[j] = "bad" => Remembered(j)' /\ told'[j] # {"completed"}
    BY <2>3 DEF Remembered, Orders
  <2> QED BY <2>2, <2>4, <2>5 DEF VerdictOK
<1>6. j \notin Running'
  BY DEF j
<1>7. Fine(j)' /\ (Known(j)' => Known(j)) /\ Turns' /\ \A k \in Jobs : SameList(k)
  BY <1>1, <1>2, <1>3, <1>4, <1>5, <1>6, EndedFine
<1>8. ASSUME NEW k \in Jobs, k # j PROVE Tells(k) /\ SameWatch(k)
  <2>1. told'[k] = told[k] /\ exitCode'[k] = exitCode[k]
    BY <1>2, <1>8 DEF TypeOK, j
  <2>2. Tells(k)
    BY <1>2, <2>1 DEF Tells
  <2>3. \A n \in Monitor : n.job = k => n # m
    BY <1>8 DEF j
  <2>4. SameWatch(k)
    BY <2>3 DEF SameWatch
  <2> QED BY <2>2, <2>4
<1>9. PICK P \in SUBSET Elems(queue) : \A k \in Jobs : k # j => Moves(k, P)
  BY <1>3
<1> QED BY <1>1, <1>3, <1>7, <1>8, <1>9, OneJob

LEMMA KillRunning ==
  ASSUME TypeOK, NEW o \in Jobs, Kill(o)
  PROVE  /\ o \notin Running'
         /\ \A k \in Jobs : k \in Running' => k \in Running
         /\ \A k \in Jobs : outcome'[k] = "bad" => outcome[k] = "bad"
<1>1. /\ session' = [session EXCEPT ![o] = "none"]
      /\ outcome' = [outcome EXCEPT ![o] = IF session[o] = "none" THEN @ ELSE "killed"]
  BY DEF Kill
<1>2. \A k \in Jobs : session'[k] = IF k = o THEN "none" ELSE session[k]
  BY <1>1 DEF TypeOK
<1>3. ASSUME NEW k \in Jobs, outcome'[k] = "bad" PROVE outcome[k] = "bad"
  <2>1. CASE k = o
    BY <1>1, <1>3, <2>1 DEF TypeOK
  <2>2. CASE k # o
    BY <1>1, <1>3, <2>2 DEF TypeOK
  <2> QED BY <2>1, <2>2
<1> QED BY <1>2, <1>3 DEF Running

LEMMA TickCompletedStep ==
  ASSUME TypeOK, Order, NEW m \in Monitor, TickCompleted(m)
  PROVE  Order'
<1>1. /\ m \in intervals /\ session[m.on] = "none" /\ exitCode[m.job] = "ok"
      /\ intervals' = intervals \ {m}
      /\ exitCode' = [exitCode EXCEPT ![m.job] = "none"]
      /\ EndRun(m, "completed")
      /\ UNCHANGED <<ending, session, outcome>>
  BY DEF TickCompleted
<1>2. m.job \in Jobs /\ m.on \in Jobs
  BY DEF Monitor
<1>3. Watches(m) /\ Fine(m.job)
  BY <1>1, <1>2 DEF Watches, Order
<1>4. \A v \in Orders : <<m, v>> \notin ending
  BY <1>1, <1>2, <1>3 DEF Fine, WatchOK
<1>5. \A n \in Monitor : Watches(n)' <=> Watches(n) /\ n # m
  BY <1>1, <1>4 DEF Watches
<1>6. Running' = Running
  BY <1>1 DEF Running
<1>7. m.job \notin Running
  <2>1. m.on \notin Running
    BY <1>1 DEF Running
  <2>2. m.on = m.job \/ m.job \notin Running
    BY <1>2, <1>3 DEF Fine, WatchOK
  <2> QED BY <2>1, <2>2
<1>8. outcome'[m.job] # "bad"
  BY <1>1, <1>2, <1>3 DEF Fine, VerdictOK
<1>9. \A k \in Jobs : /\ exitCode'[k] = "ok" => exitCode[k] = "ok"
                      /\ k # m.job => exitCode'[k] = exitCode[k]
  BY <1>1 DEF TypeOK
<1> QED BY <1>1, <1>3, <1>5, <1>6, <1>7, <1>8, <1>9, EndRunStep

LEMMA EndFailedStep ==
  ASSUME TypeOK, Order, NEW m \in Monitor, NEW verdict \in Orders, EndFailed(m, verdict)
  PROVE  Order'
<1>1. /\ <<m, verdict>> \in ending
      /\ ending' = ending \ {<<m, verdict>>}
      /\ Kill(m.on) /\ EndRun(m, verdict)
      /\ UNCHANGED <<intervals, exitCode>>
  BY DEF EndFailed
<1>2. m.job \in Jobs /\ m.on \in Jobs
  BY DEF Monitor
<1>3. Watches(m) /\ Fine(m.job)
  BY <1>1, <1>2 DEF Watches, Order
<1>4. m \notin intervals /\ \A v \in Orders : v # verdict => <<m, v>> \notin ending
  BY <1>1, <1>2, <1>3 DEF Fine, WatchOK, Orders
<1>5. \A n \in Monitor : Watches(n)' <=> Watches(n) /\ n # m
  BY <1>1, <1>4 DEF Watches
<1>6. /\ m.on \notin Running'
      /\ \A k \in Jobs : k \in Running' => k \in Running
      /\ \A k \in Jobs : outcome'[k] = "bad" => outcome[k] = "bad"
  BY <1>1, <1>2, KillRunning
<1>7. m.job \notin Running'
  BY <1>2, <1>3, <1>6 DEF Fine, WatchOK
<1>8. verdict \in {"completed", "failed", "repeat"} /\ verdict # "completed"
  BY DEF Orders
<1>9. \A n \in Monitor : n # m =>
        /\ n \in intervals' <=> n \in intervals
        /\ \A v \in Orders : <<n, v>> \in ending' <=> <<n, v>> \in ending
  BY <1>1
<1>10. intervals' \subseteq intervals /\ ending' \subseteq ending
  BY <1>1
<1>11. \A k \in Jobs : /\ exitCode'[k] = "ok" => exitCode[k] = "ok"
                       /\ k # m.job => exitCode'[k] = exitCode[k]
  BY <1>1
<1> QED BY <1>1, <1>3, <1>5, <1>6, <1>7, <1>8, <1>9, <1>10, <1>11, EndRunStep

LEMMA TickFailedStep ==
  ASSUME TypeOK, Order, NEW m \in Monitor, TickFailed(m)
  PROVE  Order'
<1> DEFINE j == m.job
<1>1. PICK verdict \in Orders :
        /\ m \in intervals /\ intervals' = intervals \ {m}
        /\ ending' = ending \cup {<<m, verdict>>}
        /\ verdict = "repeat" => session[m.on] = "failing"
        /\ exitCode' = [exitCode EXCEPT ![j] = "none"]
        /\ UNCHANGED <<queue, active, lock, launching, pass, at, stateFile, session>>
        /\ UNCHANGED <<outcome, told, lostCode>>
  BY DEF TickFailed, history, Orders
<1>2. j \in Jobs /\ Watches(m) /\ Fine(j)
  BY <1>1 DEF Monitor, Watches, Order
<1>3. \A v \in Orders : <<m, v>> \notin ending
  BY <1>1, <1>2 DEF Fine, WatchOK
<1>4. \A n \in Monitor : Watches(n)' <=> Watches(n)
  <2>1. ASSUME NEW n \in Monitor, n = m PROVE Watches(n)' <=> Watches(n)
    BY <1>1, <1>2, <2>1 DEF Watches
  <2>2. ASSUME NEW n \in Monitor, n # m PROVE Watches(n)' <=> Watches(n)
    BY <1>1, <2>2 DEF Watches
  <2> QED BY <2>1, <2>2
<1>5. Running' = Running
  BY <1>1 DEF Running
<1>6. \A k \in Jobs : Moves(k, {}) /\ SameList(k)
  <2>1. \A k \in Jobs : Moves(k, {})
    BY <1>1 DEF Moves, Elems
  <2>2. \A k \in Jobs : SameList(k)
    BY <1>1 DEF SameList
  <2> QED BY <2>1, <2>2
<1>7. \A k \in Jobs : k # j => Tells(k)
  <2>1. \A k \in Jobs : k # j => exitCode'[k] = exitCode[k]
    BY <1>1 DEF TypeOK
  <2> QED BY <1>1, <1>5, <2>1 DEF Tells
<1>8. ASSUME NEW k \in Jobs, k # j PROVE SameWatch(k)
  <2>1. \A n \in Monitor : n.job = k => n # m
    BY <1>8
  <2> QED BY <1>1, <2>1 DEF SameWatch
<1>9. {} \in SUBSET Elems(queue)
  OBVIOUS
<1>10. JobOK(j)' /\ VerdictOK(j)' /\ ListOK(j)' /\ (Known(j)' => Known(j))
  <2>1. ListOK(j)' /\ (Known(j)' => Known(j))
    BY <1>2, <1>6, <1>9, MovesList
  <2>2. JobOK(j)'
    BY <1>1, <1>2, <1>5 DEF Fine, JobOK, InMemory, Elems
  <2>3. verdict = "repeat" => outcome[j] # "bad"
    <3> SUFFICES ASSUME session[m.on] = "failing" PROVE outcome[j] # "bad"
      BY <1>1
    <3>1. m.on \in Jobs /\ m.on \in Running
      BY DEF Monitor, Running
    <3>2. Known(m.on) /\ Known(j) /\ vmOf[m.on] = vmOf[j]
      BY <1>2, <3>1 DEF Order, Fine, JobOK, WatchOK, Known, InMemory
    <3>3. m.on = j
      BY <1>2, <3>1, <3>2 DEF Order, OnePerVM
    <3> QED BY <1>2, <3>1, <3>3 DEF Fine, VerdictOK
  <2>4. outcome'[j] = "bad" => Remembered(j)'
    <3>1. outcome'[j] = "bad" => verdict = "failed"
      BY <1>1, <2>3 DEF Orders
    <3>2. verdict = "failed" => \E n \in Monitor : n.job = j /\ <<n, "failed">> \in ending'
      BY <1>1
    <3> QED BY <3>1, <3>2 DEF Remembered
  <2>5. exitCode'[j] # "ok"
    BY <1>1, <1>2 DEF TypeOK
  <2>6. VerdictOK(j)'
    BY <1>1, <1>2, <1>5, <2>4, <2>5 DEF Fine, VerdictOK, Elems
  <2> QED BY <2>1, <2>2, <2>6
<1>11. WatchOK(j)'
  <2>1. ASSUME NEW n \in Monitor, n.job = j, Watches(n)'
        PROVE  /\ n = m /\ vmOf[n.on] = vmOf[j]
               /\ j \in active' /\ j \notin launching' /\ (n.on = j \/ j \notin Running')
               /\ n \notin intervals'
               /\ <<n, "failed">> \in ending' => <<n, "repeat">> \notin ending'
    <3>1. n = m
      BY <1>2, <1>4, <2>1 DEF Fine, WatchOK
    <3>2. /\ j \in active' /\ j \notin launching' /\ (n.on = j \/ j \notin Running')
          /\ vmOf[n.on] = vmOf[j]
      BY <1>1, <1>2, <1>4, <1>5, <2>1 DEF Fine, WatchOK
    <3>3. m \notin intervals' /\ (<<m, "failed">> \in ending' => <<m, "repeat">> \notin ending')
      BY <1>1, <1>3 DEF Orders
    <3> QED BY <3>1, <3>2, <3>3
  <2>2. ASSUME NEW n \in Monitor, NEW o \in Monitor, n.job = j, o.job = j,
               Watches(n)', Watches(o)'
        PROVE  n = o
    BY <2>1, <2>2
  <2> QED BY <2>1, <2>2 DEF WatchOK
<1>12. Fine(j)'
  BY <1>10, <1>11 DEF Fine
<1>13. Distinct(queue)' /\ Turns'
  BY <1>1 DEF Order, Turns, Underway
<1> HIDE DEF j
<1> QED BY <1>2, <1>6, <1>7, <1>8, <1>9, <1>10, <1>12, <1>13, OneJob

LEMMA StartedStep ==
  ASSUME TypeOK, Order, NEW j \in Jobs, Started(j)
  PROVE  Order'
<1>1. PICK o : o = [job |-> j, on |-> j, by |-> "launch"]
  OBVIOUS
<1>2. o \in Monitor /\ o.job = j /\ o.on = j
  BY <1>1 DEF Monitor
<1>3. /\ j \in launching /\ session[j] = "idle"
      /\ session' = [session EXCEPT ![j] = "running"]
      /\ exitCode' = [exitCode EXCEPT ![j] = "none"]
      /\ intervals' = intervals \cup {o}
      /\ processQueue(queue, active, lock, stateFile, launching \ {j})
      /\ UNCHANGED <<ending, pass, at, outcome, told, lostCode>>
  BY <1>1 DEF Started, history
<1>4. /\ j \in active /\ stateFile[j] = "started" /\ Fine(j) /\ j \notin Elems(queue)
      /\ "completed" \notin told[j] /\ outcome[j] # "bad" /\ InMemory(j)
  BY <1>3 DEF Order, Fine, JobOK, VerdictOK, InMemory
<1>5. \A n \in Monitor : n.job = j => ~Watches(n)
  BY <1>3, <1>4 DEF Fine, WatchOK
<1>6. \A k \in Elems(queue) : lock[vmOf[k]] = k
  <2>1. Elems(queue) \subseteq Jobs
    BY DEF TypeOK, Elems
  <2> QED BY <2>1 DEF Order, Fine, JobOK, InMemory
<1>7. PICK P \in SUBSET Elems(queue) :
        Drained(queue, active, lock, stateFile, launching \ {j}, P)
  <2>1. /\ queue \in Seq(Jobs) /\ active \in SUBSET Jobs /\ Distinct(queue)
        /\ lock \in [VMs -> Jobs \cup {None}] /\ stateFile \in [Jobs -> Files]
        /\ launching \ {j} \in SUBSET Jobs
    BY DEF TypeOK, Order, Files
  <2> QED BY <1>3, <1>6, <2>1, Drain
<1>8. j \notin P
  BY <1>4
<1>9. ASSUME NEW k \in Jobs, k # j
      PROVE  Moves(k, P) /\ Tells(k) /\ SameWatch(k) /\ SameList(k)
  <2>1. Moves(k, P)
    BY <1>7, <1>9 DEF Drained, Moves
  <2>2. k \in Running' => k \in Running
    BY <1>3, <1>9 DEF Running, TypeOK
  <2>3. exitCode'[k] = exitCode[k]
    BY <1>3, <1>9 DEF TypeOK
  <2>4. Tells(k)
    BY <1>3, <2>2, <2>3 DEF Tells
  <2>5. SameWatch(k) /\ SameList(k)
    BY <1>2, <1>3, <1>9 DEF SameWatch, SameList
  <2> QED BY <2>1, <2>4, <2>5
<1>10. /\ j \in active' /\ j \notin Elems(queue)' /\ j \notin launching'
       /\ stateFile'[j] = "started" /\ lock' = lock /\ InMemory(j)'
  BY <1>4, <1>7, <1>8 DEF Drained, InMemory, Elems
<1>11. JobOK(j)'
  BY <1>4, <1>10 DEF Fine, JobOK
<1>12. VerdictOK(j)'
  <2>1. exitCode'[j] = "none" /\ "completed" \notin told'[j] /\ outcome'[j] # "bad"
    BY <1>3, <1>4 DEF TypeOK
  <2> QED BY <2>1 DEF VerdictOK
<1>13. WatchOK(j)'
  <2>1. ASSUME NEW n \in Monitor, n.job = j, Watches(n)'
        PROVE  /\ n = o
               /\ n \in intervals' => \A v \in Orders : <<n, v>> \notin ending'
               /\ <<n, "failed">> \in ending' => <<n, "repeat">> \notin ending'
    <3>1. ~Watches(n)
      BY <1>5, <2>1
    <3>2. \A v \in Orders : <<n, v>> \notin ending'
      BY <1>3, <3>1 DEF Watches
    <3>3. n = o
      BY <1>3, <2>1, <3>1 DEF Watches
    <3>4. "failed" \in Orders
      BY DEF Orders
    <3> QED BY <3>2, <3>3, <3>4
  <2>2. ASSUME NEW n \in Monitor, NEW p \in Monitor, n.job = j, p.job = j,
               Watches(n)', Watches(p)'
        PROVE  n = p
    BY <2>1, <2>2
  <2>3. ASSUME NEW n \in Monitor, n.job = j, Watches(n)'
        PROVE  /\ j \in active' /\ j \notin launching' /\ (n.on = j \/ j \notin Running')
               /\ vmOf[n.on] = vmOf[j]
    BY <1>2, <1>10, <2>1, <2>3
  <2> QED BY <2>1, <2>2, <2>3 DEF WatchOK
<1>14. \A i \in Item : i.job = j => ~Holds("recover", i) /\ at["check"] # i
  BY <1>4 DEF Fine, ListOK
<1>15. ListOK(j)'
  BY <1>3, <1>10, <1>14 DEF ListOK, Holds
<1>16. Known(j)
  BY <1>4 DEF Known
<1>17. Distinct(queue)' /\ Turns'
  BY <1>3, <1>7 DEF Order, Turns, Underway, Drained
<1>18. Fine(j)'
  BY <1>11, <1>12, <1>13, <1>15 DEF Fine
<1> QED BY <1>9, <1>16, <1>17, <1>18, OneJob

\* A report is through: the head of the queue takes the free place.
LEMMA ReportedStep ==
  ASSUME TypeOK, Order, Reported
  PROVE  Order'
<1>1. /\ processQueue(queue, active, lock, stateFile, launching)
      /\ UNCHANGED <<intervals, ending, pass, at, exitCode, session, outcome, told, lostCode>>
  BY DEF Reported, history
<1>2. \A k \in Elems(queue) : lock[vmOf[k]] = k
  <2>1. Elems(queue) \subseteq Jobs
    BY DEF TypeOK, Elems
  <2> QED BY <2>1 DEF Order, Fine, JobOK, InMemory
<1>3. PICK P \in SUBSET Elems(queue) : Drained(queue, active, lock, stateFile, launching, P)
  <2>1. /\ queue \in Seq(Jobs) /\ active \in SUBSET Jobs /\ Distinct(queue)
        /\ lock \in [VMs -> Jobs \cup {None}] /\ stateFile \in [Jobs -> Files]
        /\ launching \in SUBSET Jobs
    BY DEF TypeOK, Order, Files
  <2> QED BY <1>1, <1>2, <2>1, Drain
<1>4. ASSUME NEW k \in Jobs
      PROVE  Moves(k, P) /\ Tells(k) /\ SameWatch(k) /\ SameList(k)
  <2>1. Moves(k, P)
    BY <1>3 DEF Drained, Moves
  <2>2. Tells(k) /\ SameWatch(k) /\ SameList(k)
    BY <1>1 DEF Tells, Running, SameWatch, SameList
  <2> QED BY <2>1, <2>2
<1>5. Distinct(queue)' /\ Turns'
  BY <1>1, <1>3 DEF Order, Turns, Underway, Drained
<1> QED BY <1>4, <1>5, NoJob

\* A job is accepted while no loop has work and every started run is watched:
\* if the lock of its machine is free, nothing is known of any job of it.
LEMMA AcceptedAlone ==
  ASSUME TypeOK, Order, ~Recovering, NEW j \in Jobs, lock[vmOf[j]] = None
  PROVE  \A k \in Jobs : vmOf[k] = vmOf[j] => ~Known(k)
<1> SUFFICES ASSUME NEW k \in Jobs, vmOf[k] = vmOf[j] PROVE ~Known(k)
  OBVIOUS
<1>1. Fine(k)
  BY DEF Order
<1>2. ~InMemory(k)
  BY <1>1, JobsAssumption DEF Fine, JobOK
<1>3. \A l \in Loops : pass[l] = {} /\ at[l] = Idle
  BY DEF Recovering, Underway
<1>4. \A l \in Loops, i \in Item : ~Holds(l, i)
  BY <1>3, JobsAssumption DEF Holds, Item, Idle
<1>5. stateFile[k] # "started"
  BY <1>2 DEF Recovering, InMemory
<1>6. stateFile[k] # "queued"
  <2>1. [job |-> k, queued |-> TRUE] \in Item /\ "recover" \in Loops
    BY DEF Item, Loops
  <2> QED BY <1>1, <1>2, <1>4, <2>1 DEF Fine, ListOK
<1>7. stateFile[k] = "none"
  BY <1>5, <1>6 DEF TypeOK
<1> QED BY <1>2, <1>4, <1>7 DEF Known

LEMMA AcceptStep ==
  ASSUME TypeOK, Order, Orderly', NEW j \in Jobs, queueBackup(j)
  PROVE  Order'
<1>1. /\ ~Recovering /\ lock[vmOf[j]] = None
      /\ processQueue(Append(queue, j), active, [lock EXCEPT ![vmOf[j]] = j],
                      [stateFile EXCEPT ![j] = "queued"], launching)
      /\ outcome' = [outcome EXCEPT ![j] = "none"]
      /\ told' = [told EXCEPT ![j] = {}] /\ lostCode' = lostCode \ {j}
      /\ UNCHANGED <<intervals, ending, pass, at, exitCode, session>>
  BY DEF queueBackup, Reserve, Orderly
<1>2. \A k \in Jobs : vmOf[k] = vmOf[j] => ~Known(k)
  BY <1>1, AcceptedAlone
<1>3. /\ j \notin active /\ j \notin Elems(queue) /\ stateFile[j] = "none"
      /\ \A l \in Loops, i \in Item : i.job = j => ~Holds(l, i)
  BY <1>2 DEF Known, InMemory
<1>4. Fine(j)
  BY DEF Order
<1>5. j \notin Running /\ j \notin launching /\ \A m \in Monitor : m.job = j => ~Watches(m)
  BY <1>3, <1>4 DEF Fine, JobOK, WatchOK
<1> DEFINE q == Append(queue, j)
           l == [lock EXCEPT ![vmOf[j]] = j]
           f == [stateFile EXCEPT ![j] = "queued"]
<1>6. q \in Seq(Jobs) /\ Elems(q) = Elems(queue) \cup {j} /\ Distinct(q)
  <2>1. queue \in Seq(Jobs) /\ Distinct(queue)
    BY DEF TypeOK, Order
  <2> QED BY <1>3, <2>1, ElemsAppend, DistinctAppend
<1>7. /\ l \in [VMs -> Jobs \cup {None}] /\ f \in [Jobs -> Files]
      /\ l[vmOf[j]] = j /\ \A v \in VMs : v # vmOf[j] => l[v] = lock[v]
      /\ f[j] = "queued" /\ \A k \in Jobs : k # j => f[k] = stateFile[k]
  BY JobsAssumption DEF TypeOK, Files
<1> HIDE DEF q, l, f
<1>8. ASSUME NEW k \in Jobs, InMemory(k)
      PROVE  k # j /\ vmOf[k] # vmOf[j] /\ l[vmOf[k]] = lock[vmOf[k]]
  <2>1. Known(k)
    BY <1>8 DEF Known
  <2> QED BY <1>2, <1>7, <2>1, JobsAssumption
<1>9. \A k \in Elems(q) : l[vmOf[k]] = k
  <2> SUFFICES ASSUME NEW k \in Elems(q), k # j PROVE l[vmOf[k]] = k
    BY <1>7
  <2>1. k \in Elems(queue) /\ k \in Jobs /\ InMemory(k)
    <3>1. Elems(queue) \subseteq Jobs
      BY DEF TypeOK, Elems
    <3> QED BY <1>6, <3>1 DEF InMemory
  <2>2. lock[vmOf[k]] = k
    BY <2>1 DEF Order, Fine, JobOK
  <2> QED BY <1>8, <2>1, <2>2
<1>10. PICK R \in SUBSET Elems(q) : Drained(q, active, l, f, launching, R)
  <2>1. active \in SUBSET Jobs /\ launching \in SUBSET Jobs
    BY DEF TypeOK
  <2>2. processQueue(q, active, l, f, launching)
    BY <1>1 DEF q, l, f
  <2> QED BY <1>6, <1>7, <1>9, <2>1, <2>2, Drain
<1>11. PICK P \in SUBSET Elems(queue) : P = R \ {j}
  BY <1>6
<1>12. Running' = Running
  BY <1>1 DEF Running
<1>13. ASSUME NEW k \in Jobs, k # j
       PROVE  Moves(k, P) /\ Tells(k) /\ SameWatch(k) /\ SameList(k)
  <2>1. k \in R <=> k \in P
    BY <1>11, <1>13
  <2>2. Moves(k, P)
    BY <1>6, <1>7, <1>8, <1>10, <1>13, <2>1 DEF Drained, Moves
  <2>3. told'[k] = told[k] /\ outcome'[k] = outcome[k] /\ (k \in lostCode' <=> k \in lostCode)
    BY <1>1, <1>13 DEF TypeOK
  <2>4. Tells(k)
    BY <1>1, <1>12, <2>3 DEF Tells
  <2>5. SameWatch(k) /\ SameList(k)
    BY <1>1 DEF SameWatch, SameList
  <2> QED BY <2>2, <2>4, <2>5
<1>14. /\ lock'[vmOf[j]] = j /\ InMemory(j)' /\ stateFile'[j] # "none"
       /\ j \in Elems(queue') => j \notin active' /\ stateFile'[j] = "queued"
       /\ j \in launching' => j \in active' /\ stateFile'[j] = "started"
  BY <1>3, <1>5, <1>6, <1>7, <1>10 DEF Drained, InMemory, Elems
<1>15. JobOK(j)'
  BY <1>5, <1>12, <1>14 DEF JobOK, Elems
<1>16. VerdictOK(j)'
  <2>1. outcome'[j] = "none" /\ told'[j] = {}
    BY <1>1 DEF TypeOK
  <2> QED BY <2>1 DEF VerdictOK
<1>17. WatchOK(j)'
  BY <1>1, <1>5 DEF WatchOK, Watches
<1>18. ListOK(j)'
  <2>1. \A i \in Item, n \in Loops : i.job = j => ~Holds(n, i)'
    BY <1>1, <1>3 DEF Holds
  <2>2. "recover" \in Loops /\ "check" \in Loops
    BY DEF Loops
  <2>3. \A i \in Item : i.job = j => at'["check"] # i /\ at'["recover"] # i
                                     /\ i \notin pass'["check"]
    BY <2>1, <2>2 DEF Holds
  <2> QED BY <1>14, <2>1, <2>2, <2>3 DEF ListOK
<1>19. Fine(j)'
  BY <1>15, <1>16, <1>17, <1>18 DEF Fine
<1>20. ASSUME NEW k \in Jobs, k # j, Known(k)' PROVE Known(k) /\ vmOf[k] # vmOf[j]
  <2>1. Fine(k) /\ Moves(k, P) /\ SameList(k)
    BY <1>13, <1>20 DEF Order
  <2>2. Known(k)
    BY <1>20, <2>1, MovesList
  <2> QED BY <1>2, <2>2
<1>21. \A k \in Jobs : Fine(k)'
  <2> SUFFICES ASSUME NEW k \in Jobs, k # j PROVE Fine(k)'
    BY <1>19
  <2>1. Fine(k) /\ Moves(k, P) /\ Tells(k) /\ SameWatch(k) /\ SameList(k)
    BY <1>13 DEF Order
  <2> QED BY <2>1, MovesJob, MovesWatch, MovesList DEF Fine
<1>22. OnePerVM'
  <2> SUFFICES ASSUME NEW i \in Jobs, NEW k \in Jobs, Known(i)', Known(k)', vmOf[i] = vmOf[k]
               PROVE  i = k
    BY DEF OnePerVM
  <2>1. CASE i = j \/ k = j
    BY <1>20, <2>1
  <2>2. CASE i # j /\ k # j
    BY <1>20, <2>2 DEF Order, OnePerVM
  <2> QED BY <2>1, <2>2
<1>23. Distinct(queue)' /\ Turns'
  BY <1>1, <1>10 DEF Order, Turns, Underway, Drained
<1> QED BY <1>21, <1>22, <1>23 DEF Order

\* The steps of the loops, and the restart: first what they share.
LEMMA IdleIsNoItem == Idle \notin Item /\ Idle.job = None /\ \A i \in Item : i.job \in Jobs
BY JobsAssumption DEF Idle, Item

\* Loop l is through with the job of the item it looked up.
Released(l) ==
  /\ at[l] # Idle
  /\ at' = [at EXCEPT ![l] = Idle]
  /\ UNCHANGED <<queue, launching, ending, pass, session, outcome>>

LEMMA ReleasedItem ==
  ASSUME TypeOK, Order, NEW l \in Loops, Released(l), NEW j, j = at[l].job
  PROVE  /\ at[l] \in Item /\ j \in Jobs /\ Fine(j) /\ ~InMemory(j) /\ Known(j)
         /\ \A m \in Monitor : m.job = j => ~Watches(m)
         /\ j \notin launching
         /\ \A k \in Jobs : k # j => SameList(k)
         /\ \A n \in Loops, i \in Item : Holds(n, i)' => Holds(n, i)
         /\ \A i \in Item : i.job = j => ~Holds("recover", i)' /\ at'["check"] # i
         /\ Turns'
<1>1. at[l] \in Item /\ j \in Jobs
  BY IdleIsNoItem DEF TypeOK, Released
<1>2. Fine(j)
  BY <1>1 DEF Order
<1>3. "recover" \in Loops /\ "check" \in Loops /\ (l = "recover" \/ l = "check")
  BY DEF Loops
<1>4. Holds(l, at[l])
  BY DEF Holds
<1>5. ~InMemory(j)
  BY <1>1, <1>2, <1>3, <1>4 DEF Fine, ListOK
<1>6. Known(j)
  BY <1>1, <1>4 DEF Known
<1>7. j \notin launching /\ \A m \in Monitor : m.job = j => ~Watches(m)
  BY <1>2, <1>5 DEF Fine, JobOK, WatchOK, InMemory
<1>8. \A n \in Loops : at'[n] = IF n = l THEN Idle ELSE at[n]
  BY DEF Released, TypeOK
<1>9. ASSUME NEW k \in Jobs, k # j PROVE SameList(k)
  <2>1. pass' = pass
    BY DEF Released
  <2>2. ASSUME NEW i \in Item, i.job = k, NEW n \in Loops PROVE at'[n] = i <=> at[n] = i
    <3>1. i # Idle /\ i # at[l]
      BY <1>9, <2>2, IdleIsNoItem
    <3> QED BY <1>8, <3>1
  <2> QED BY <2>1, <2>2 DEF SameList
<1>10. \A n \in Loops, i \in Item : Holds(n, i)' => Holds(n, i)
  BY <1>8, IdleIsNoItem DEF Holds, Released
<1>11. ASSUME NEW i \in Item, i.job = j PROVE ~Holds("recover", i)' /\ at'["check"] # i
  <2>1. CASE l = "recover"
    <3>1. at["check"] = Idle
      BY <2>1 DEF Order, Turns, Underway, Released
    <3>2. at'["check"] # i /\ at'["recover"] # i
      BY <1>3, <1>8, <2>1, <3>1, IdleIsNoItem
    <3>3. i \notin pass["recover"]
      <4> SUFFICES ASSUME i \in pass["recover"] PROVE FALSE
        OBVIOUS
      <4>1. Holds("recover", i) /\ Holds("recover", at[l])
        BY <1>4, <2>1 DEF Holds
      <4>2. i.queued = at[l].queued
        <5>1. /\ stateFile[j] = IF i.queued THEN "queued" ELSE "started"
              /\ stateFile[j] = IF at[l].queued THEN "queued" ELSE "started"
          BY <1>1, <1>2, <1>11, <4>1 DEF Fine, ListOK
        <5>2. i.queued \in BOOLEAN /\ at[l].queued \in BOOLEAN
          BY <1>1 DEF Item
        <5> QED BY <5>1, <5>2
      <4>3. i = at[l]
        BY <1>1, <1>11, <4>2 DEF Item
      <4> QED BY <1>1, <1>2, <2>1, <4>3 DEF Fine, ListOK
    <3> QED BY <3>2, <3>3 DEF Holds, Released
  <2>2. CASE l = "check"
    <3>1. pass["recover"] = {} /\ at["recover"] = Idle
      BY <2>2 DEF Order, Turns, Underway, Released
    <3>2. at'["check"] # i /\ at'["recover"] # i
      BY <1>3, <1>8, <2>2, <3>1, IdleIsNoItem
    <3> QED BY <3>1, <3>2 DEF Holds, Released
  <2> QED BY <1>3, <2>1, <2>2
<1>12. Turns'
  <2>1. \A n \in Loops : Underway(n)' => Underway(n)
    BY <1>8 DEF Underway, Released
  <2> QED BY <1>3, <2>1 DEF Order, Turns
<1> QED BY <1>1, <1>2, <1>5, <1>6, <1>7, <1>9, <1>10, <1>11, <1>12

LEMMA ReattachStep ==
  ASSUME TypeOK, Order, NEW l \in Loops, reattachToTmuxSession(l)
  PROVE  Order'
<1>1. PICK j : j = at[l].job
  OBVIOUS
<1>2. PICK k \in SessionsFor(at[l]) :
        intervals' = intervals \cup {[job |-> j, on |-> k, by |-> l]}
  BY <1>1 DEF reattachToTmuxSession
<1>3. PICK o : o = [job |-> j, on |-> k, by |-> l]
  OBVIOUS
<1>4. /\ active' = active \cup {j}
      /\ lock' = [lock EXCEPT ![vmOf[j]] = j]
      /\ UNCHANGED <<queue, launching, ending, pass, stateFile, exitCode, session,
                     outcome, told, lostCode>>
      /\ intervals' = intervals \cup {o}
      /\ Released(l)
  BY <1>1, <1>2, <1>3 DEF reattachToTmuxSession, disk, history, Released
<1>5. /\ at[l] \in Item /\ j \in Jobs /\ Fine(j) /\ ~InMemory(j) /\ Known(j)
      /\ \A m \in Monitor : m.job = j => ~Watches(m)
      /\ j \notin launching
      /\ \A i \in Jobs : i # j => SameList(i)
      /\ \A i \in Item : i.job = j => ~Holds("recover", i)' /\ at'["check"] # i
      /\ Turns'
  BY <1>1, <1>4, ReleasedItem
<1>6. Running' = Running /\ k \in Jobs /\ vmOf[k] = vmOf[j]
  <2>1. Running' = Running
    BY <1>4 DEF Running
  <2>2. \A i \in SessionsFor(at[l]) : i \in Jobs /\ vmOf[i] = vmOf[j]
    BY <1>1, <1>5 DEF SessionsFor, Sessions
  <2> QED BY <2>1, <2>2
<1>7. o \in Monitor /\ o.job = j /\ o.on = k
  <2>1. l \in Loops \cup {"launch"}
    OBVIOUS
  <2> QED BY <1>3, <1>5, <1>6, <2>1 DEF Monitor
<1>8. k = j \/ j \notin Running
  <2>1. CASE at[l].queued
    <3>1. stateFile[j] = "queued" \/ l = "check"
      BY <1>1, <1>5, <2>1 DEF Fine, ListOK, Loops, Holds
    <3>2. l # "check"
      BY <1>1, <1>5, <2>1 DEF Fine, ListOK
    <3> QED BY <1>5, <3>1, <3>2 DEF Fine, JobOK
  <2>2. CASE ~at[l].queued /\ session[j] # "none"
    BY <1>1, <1>2, <2>2 DEF SessionsFor
  <2>3. CASE session[j] = "none"
    BY <2>3 DEF Running
  <2> QED BY <2>1, <2>2, <2>3
<1>9. ASSUME NEW i \in Jobs, i # j
      PROVE  Moves(i, {}) /\ Tells(i) /\ SameWatch(i) /\ SameList(i)
  <2>1. InMemory(i) => lock'[vmOf[i]] = lock[vmOf[i]]
    <3>1. InMemory(i) => vmOf[i] # vmOf[j]
      BY <1>5, <1>9 DEF Order, OnePerVM, Known
    <3> QED BY <1>4, <3>1, JobsAssumption DEF TypeOK
  <2>2. Moves(i, {})
    BY <1>4, <1>9, <2>1 DEF Moves, Elems
  <2>3. Tells(i)
    BY <1>4, <1>6 DEF Tells
  <2>4. SameWatch(i)
    BY <1>4, <1>7, <1>9 DEF SameWatch
  <2> QED BY <1>5, <1>9, <2>2, <2>3, <2>4
<1>10. j \in active' /\ j \notin Elems(queue)' /\ j \notin launching' /\ InMemory(j)'
  BY <1>4, <1>5 DEF InMemory, Elems
<1>11. JobOK(j)'
  <2>1. lock'[vmOf[j]] = j
    BY <1>4, <1>5, JobsAssumption DEF TypeOK
  <2>2. j \in Running' => stateFile'[j] = "started"
    BY <1>4, <1>5, <1>6 DEF Fine, JobOK
  <2> QED BY <1>10, <2>1, <2>2 DEF JobOK
<1>12. VerdictOK(j)'
  <2>1. Remembered(j) => Remembered(j)'
    BY <1>4 DEF Remembered
  <2> QED BY <1>4, <1>5, <1>6, <1>10, <2>1 DEF Fine, VerdictOK
<1>13. WatchOK(j)'
  <2>1. ASSUME NEW n \in Monitor, n.job = j, Watches(n)'
        PROVE  n = o /\ \A v \in Orders : <<n, v>> \notin ending'
    <3>1. ~Watches(n)
      BY <1>5, <2>1
    <3> QED BY <1>4, <2>1, <3>1 DEF Watches
  <2>2. "failed" \in Orders
    BY DEF Orders
  <2>3. ASSUME NEW n \in Monitor, n.job = j, Watches(n)'
        PROVE  /\ j \in active' /\ j \notin launching' /\ (n.on = j \/ j \notin Running')
               /\ vmOf[n.on] = vmOf[j]
               /\ n \in intervals' => \A v \in Orders : <<n, v>> \notin ending'
               /\ <<n, "failed">> \in ending' => <<n, "repeat">> \notin ending'
    BY <1>6, <1>7, <1>8, <1>10, <2>1, <2>2, <2>3
  <2>4. ASSUME NEW n \in Monitor, NEW p \in Monitor, n.job = j, p.job = j,
               Watches(n)', Watches(p)'
        PROVE  n = p
    BY <2>1, <2>4
  <2> QED BY <2>3, <2>4 DEF WatchOK
<1>14. ListOK(j)'
  <2>1. \A i \in Item : i.job = j => at'["recover"] # i
    BY <1>5 DEF Holds
  <2> QED BY <1>5, <1>10, <2>1 DEF ListOK
<1>15. Fine(j)'
  BY <1>11, <1>12, <1>13, <1>14 DEF Fine
<1>16. {} \in SUBSET Elems(queue) /\ Distinct(queue)'
  BY <1>4 DEF Order
<1> QED BY <1>5, <1>9, <1>15, <1>16, OneJob

\* The job of the looked-up item is over: its files are gone, a verdict is told.
LEMMA SettledStep ==
  ASSUME TypeOK, Order, NEW l \in Loops, Released(l), NEW j, j = at[l].job, j \notin Running,
         active' = active \ {j}, \A v \in VMs : v # vmOf[j] => lock'[v] = lock[v],
         stateFile' = [stateFile EXCEPT ![j] = "none"],
         \A k \in Jobs : k # j => told'[k] = told[k] /\ exitCode'[k] = exitCode[k],
         exitCode'[j] # "ok",
         outcome[j] = "bad" => told'[j] \cap Orders # {} \/ j \in lostCode,
         UNCHANGED <<intervals, lostCode>>
  PROVE  Order'
<1>1. UNCHANGED <<queue, launching, ending, pass, session, outcome>>
  BY DEF Released
<1>2. /\ j \in Jobs /\ Fine(j) /\ ~InMemory(j) /\ Known(j)
      /\ \A m \in Monitor : m.job = j => ~Watches(m)
      /\ j \notin launching
      /\ \A i \in Jobs : i # j => SameList(i)
      /\ \A i \in Item : i.job = j => ~Holds("recover", i)' /\ at'["check"] # i
      /\ Turns'
  BY ReleasedItem
<1>3. Running' = Running
  BY <1>1 DEF Running
<1>4. ASSUME NEW i \in Jobs, i # j
      PROVE  Moves(i, {}) /\ Tells(i) /\ SameWatch(i) /\ SameList(i)
  <2>1. InMemory(i) => lock'[vmOf[i]] = lock[vmOf[i]]
    <3>1. InMemory(i) => vmOf[i] # vmOf[j]
      BY <1>2, <1>4 DEF Order, OnePerVM, Known
    <3> QED BY <3>1, JobsAssumption
  <2>2. stateFile'[i] = stateFile[i]
    BY <1>4 DEF TypeOK
  <2>3. Moves(i, {})
    BY <1>1, <1>4, <2>1, <2>2 DEF Moves, Elems
  <2>4. Tells(i)
    BY <1>1, <1>3, <1>4 DEF Tells
  <2>5. SameWatch(i)
    BY <1>1 DEF SameWatch
  <2> QED BY <1>2, <1>4, <2>3, <2>4, <2>5
<1>5. ~InMemory(j)' /\ j \notin launching' /\ j \notin Running' /\ stateFile'[j] = "none"
  BY <1>1, <1>2, <1>3 DEF InMemory, Elems, TypeOK
<1>6. JobOK(j)'
  BY <1>5 DEF JobOK, InMemory
<1>7. VerdictOK(j)'
  <2>1. outcome'[j] = "bad" => Remembered(j)'
    BY <1>1 DEF Remembered
  <2>2. told'[j] = {"completed"} => told'[j] \cap Orders = {}
    BY DEF Orders
  <2> QED BY <1>1, <1>5, <2>1, <2>2 DEF VerdictOK, InMemory
<1>8. WatchOK(j)'
  BY <1>1, <1>2 DEF WatchOK, Watches
<1>9. ListOK(j)'
  <2>1. \A i \in Item : i.job = j => at'["recover"] # i
    BY <1>2 DEF Holds
  <2>2. j \notin Elems(queue)'
    BY <1>5 DEF InMemory
  <2> QED BY <1>2, <1>5, <2>1, <2>2 DEF ListOK
<1>10. {} \in SUBSET Elems(queue) /\ Distinct(queue)'
  BY <1>1 DEF Order
<1>11. Fine(j)'
  BY <1>6, <1>7, <1>8, <1>9 DEF Fine
<1> QED BY <1>2, <1>4, <1>10, <1>11, OneJob

LEMMA FailEarlyStep ==
  ASSUME TypeOK, Order, failJobEarly
  PROVE  Order'
<1>1. PICK j : j = at["recover"].job
  OBVIOUS
<1>2. "recover" \in Loops
  BY DEF Loops
<1>3. /\ at["recover"].queued
      /\ Released("recover") /\ intervals' = intervals /\ lostCode' = lostCode
      /\ active' = active \ {j}
      /\ lock' = [lock EXCEPT ![vmOf[j]] = IF @ = j THEN None ELSE @]
      /\ stateFile' = [stateFile EXCEPT ![j] = "none"]
      /\ exitCode' = [exitCode EXCEPT ![j] = "bad"]
      /\ told' = [told EXCEPT ![j] = @ \cup {"failed"}]
  BY <1>1 DEF failJobEarly, Released, Tell
<1>4. at["recover"] \in Item /\ j \in Jobs /\ Fine(j)
  BY <1>1, <1>2, <1>3, ReleasedItem
<1>5. Holds("recover", at["recover"])
  BY DEF Holds
<1>6. stateFile[j] = "queued"
  BY <1>1, <1>3, <1>4, <1>5 DEF Fine, ListOK
<1>7. j \notin Running
  BY <1>4, <1>6 DEF Fine, JobOK
<1>8. \A k \in Jobs : k # j => told'[k] = told[k] /\ exitCode'[k] = exitCode[k]
  BY <1>3 DEF TypeOK
<1>9. exitCode'[j] # "ok" /\ "failed" \in told'[j]
  BY <1>3, <1>4 DEF TypeOK
<1>10. told'[j] \cap Orders # {}
  BY <1>9 DEF Orders
<1>11. \A v \in VMs : v # vmOf[j] => lock'[v] = lock[v]
  BY <1>3 DEF TypeOK
<1> QED BY <1>1, <1>2, <1>3, <1>7, <1>8, <1>9, <1>10, <1>11, SettledStep

LEMMA CompletedWhileDownStep ==
  ASSUME TypeOK, Order, NEW l \in Loops, handleCompletedJobWhileDown(l)
  PROVE  Order'
<1>1. PICK j : j = at[l].job
  OBVIOUS
<1>2. PICK verdict :
        /\ told' = [told EXCEPT ![j] = @ \cup {verdict}]
        /\ verdict # "failed" => exitCode[j] # "bad"
  BY <1>1 DEF handleCompletedJobWhileDown, Tell
<1>3. /\ ~at[l].queued /\ SessionsFor(at[l]) = {}
      /\ exitCode' = [exitCode EXCEPT ![j] = "none"]
      /\ stateFile' = [stateFile EXCEPT ![j] = "none"]
      /\ Released(l)
      /\ UNCHANGED <<active, lock, intervals, lostCode>>
  BY <1>1 DEF handleCompletedJobWhileDown, Released
<1>4. j \in Jobs /\ Fine(j) /\ ~InMemory(j) /\ \A m \in Monitor : m.job = j => ~Watches(m)
  BY <1>1, <1>3, ReleasedItem
<1>5. j \notin Running
  <2>1. session[j] = "none"
    BY <1>1, <1>3 DEF SessionsFor
  <2> QED BY <2>1 DEF Running
<1>6. active' = active \ {j}
  BY <1>3, <1>4 DEF InMemory
<1>7. \A k \in Jobs : k # j => told'[k] = told[k] /\ exitCode'[k] = exitCode[k]
  BY <1>2, <1>3 DEF TypeOK
<1>8. exitCode'[j] # "ok"
  BY <1>3, <1>4 DEF TypeOK
<1>9. outcome[j] = "bad" => told'[j] \cap Orders # {} \/ j \in lostCode
  <2>1. told'[j] = told[j] \cup {verdict}
    BY <1>2, <1>4 DEF TypeOK
  <2>2. ASSUME outcome[j] = "bad" PROVE Remembered(j)
    BY <1>4, <2>2 DEF Fine, VerdictOK
  <2>3. \A m \in Monitor : m.job = j => <<m, "failed">> \notin ending
    BY <1>4 DEF Watches, Orders
  <2>4. exitCode[j] = "bad" => "failed" \in told'[j]
    BY <1>2, <2>1
  <2> QED BY <2>1, <2>2, <2>3, <2>4 DEF Remembered, Orders
<1> QED BY <1>1, <1>3, <1>5, <1>6, <1>7, <1>8, <1>9, SettledStep

LEMMA StillFreshStep ==
  ASSUME TypeOK, Order, NEW l \in Loops, StillFresh(l)
  PROVE  Order'
<1>1. PICK j : j = at[l].job
  OBVIOUS
<1>2. /\ ~at[l].queued /\ Released(l)
      /\ UNCHANGED <<active, lock, stateFile, exitCode, told, lostCode, intervals>>
      /\ UNCHANGED <<queue, launching, ending, pass, session, outcome>>
  BY DEF StillFresh, Released, disk, history
<1>3. /\ at[l] \in Item /\ j \in Jobs /\ Fine(j) /\ ~InMemory(j) /\ Known(j)
      /\ \A i \in Jobs : i # j => SameList(i)
      /\ \A i \in Item : i.job = j => ~Holds("recover", i)' /\ at'["check"] # i
      /\ Turns'
  BY <1>1, <1>2, ReleasedItem
<1>4. \A i \in Jobs : Moves(i, {}) /\ Tells(i) /\ SameWatch(i)
  <2>1. \A i \in Jobs : Moves(i, {})
    BY <1>2 DEF Moves, Elems
  <2>2. Running' = Running
    BY <1>2 DEF Running
  <2>3. \A i \in Jobs : Tells(i)
    BY <1>2, <2>2 DEF Tells
  <2>4. \A i \in Jobs : SameWatch(i)
    BY <1>2 DEF SameWatch
  <2> QED BY <2>1, <2>3, <2>4
<1>5. {} \in SUBSET Elems(queue) /\ Distinct(queue)'
  BY <1>2 DEF Order
<1>6. JobOK(j)' /\ VerdictOK(j)' /\ WatchOK(j)'
  BY <1>3, <1>4, <1>5, MovesJob, MovesWatch
<1>7. stateFile[j] # "queued"
  <2> SUFFICES ASSUME stateFile[j] = "queued" PROVE FALSE
    OBVIOUS
  <2>1. PICK i \in Item : i = [job |-> j, queued |-> TRUE]
    BY <1>3 DEF Item
  <2>2. i.job = j /\ Holds("recover", i)
    BY <1>3, <2>1 DEF Fine, ListOK
  <2>3. at["recover"] # i
    <3>1. CASE l = "recover"
      BY <1>2, <2>1, <3>1
    <3>2. CASE l = "check"
      <4>1. at["recover"] = Idle
        BY <1>2, <3>2 DEF Order, Turns, Underway, Released
      <4> QED BY <4>1, IdleIsNoItem
    <3> QED BY <3>1, <3>2 DEF Loops
  <2>4. i \in pass["recover"]
    BY <2>2, <2>3 DEF Holds
  <2> QED BY <1>2, <1>3, <2>2, <2>4 DEF Holds
<1>8. ListOK(j)'
  <2>1. \A i \in Item : i.job = j => at'["recover"] # i
    BY <1>3 DEF Holds
  <2>2. j \notin Elems(queue)'
    BY <1>2, <1>3 DEF InMemory, Elems
  <2> QED BY <1>2, <1>3, <1>7, <2>1, <2>2 DEF ListOK
<1>9. Fine(j)'
  BY <1>6, <1>8 DEF Fine
<1> QED BY <1>3, <1>4, <1>5, <1>9, OneJob

LEMMA LookUpStep ==
  ASSUME TypeOK, Order, NEW l \in Loops, LookUp(l)
  PROVE  Order'
<1>1. PICK x \in pass[l] :
        /\ pass' = [pass EXCEPT ![l] = @ \ {x}]
        /\ at' = IF \/ l = "recover"
                    \/ x.job \notin active /\ proc[x.job] = None /\ ~x.queued
                 THEN [at EXCEPT ![l] = x] ELSE at
  BY DEF LookUp
<1>2. /\ at[l] = Idle
      /\ UNCHANGED <<queue, active, lock, launching, intervals, ending, stateFile,
                     exitCode, session, outcome, told, lostCode>>
  BY DEF LookUp, disk, history
<1>3. x \in Item /\ x.job \in Jobs
  BY IdleIsNoItem DEF TypeOK
<1>4. \A n \in Loops : /\ pass'[n] = IF n = l THEN pass[n] \ {x} ELSE pass[n]
                       /\ at'[n] = at[n] \/ (n = l /\ at'[n] = x)
  BY <1>1 DEF TypeOK
<1>5. l = "recover" => at'["recover"] = x
  BY <1>1 DEF TypeOK
<1>6. at'["check"] # at["check"] => l = "check" /\ x.job \notin active /\ ~x.queued
  BY <1>1, <1>4 DEF Loops, TypeOK
<1>7. \A n \in Loops, i \in Item : Holds(n, i)' => Holds(n, i)
  BY <1>4 DEF Holds
<1>8. \A i \in Item : Holds("recover", i) => Holds("recover", i)'
  <2> SUFFICES ASSUME NEW i \in Item, Holds("recover", i) PROVE Holds("recover", i)'
    OBVIOUS
  <2>1. CASE l = "recover"
    <3>1. pass'["recover"] = pass["recover"] \ {x} /\ at["recover"] # i
      BY <1>2, <1>4, <2>1, IdleIsNoItem
    <3> QED BY <1>5, <2>1, <3>1 DEF Holds
  <2>2. CASE l # "recover"
    <3>1. pass'["recover"] = pass["recover"] /\ at'["recover"] = at["recover"]
      BY <1>4, <2>2 DEF Loops
    <3> QED BY <3>1 DEF Holds
  <2> QED BY <2>1, <2>2
<1>9. \A n \in Loops : Underway(n)' => Underway(n)
  BY <1>1, <1>4 DEF Underway
<1>10. ASSUME NEW k \in Jobs PROVE Fine(k)'
  <2>1. Fine(k) /\ {} \in SUBSET Elems(queue)
    BY DEF Order
  <2>2. Moves(k, {}) /\ SameWatch(k)
    BY <1>2 DEF Moves, Elems, SameWatch
  <2>3. Tells(k)
    BY <1>2 DEF Tells, Running
  <2>4. JobOK(k)' /\ VerdictOK(k)' /\ WatchOK(k)'
    BY <2>1, <2>2, <2>3, MovesJob, MovesWatch
  <2>5. /\ InMemory(k)' <=> InMemory(k)
        /\ k \in Elems(queue)' <=> k \in Elems(queue)
    BY <1>2 DEF InMemory, Elems
  <2>6. ASSUME NEW i \in Item, i.job = k, at'["check"] = i PROVE ~InMemory(k) /\ ~i.queued
    <3>1. CASE at'["check"] = at["check"]
      BY <2>1, <2>6, <3>1 DEF Fine, ListOK
    <3>2. CASE at'["check"] # at["check"]
      <4>1. l = "check" /\ i = x /\ i \in pass["check"] /\ k \notin active /\ ~i.queued
        BY <1>4, <1>6, <2>6, <3>2 DEF Loops
      <4>2. k \notin Elems(queue)
        BY <2>1, <2>6, <4>1 DEF Fine, ListOK
      <4> QED BY <4>1, <4>2 DEF InMemory
    <3> QED BY <3>1, <3>2
  <2>7. ASSUME NEW i \in Item, i.job = k, i \in pass'["check"] PROVE i \in pass["check"]
    BY <1>4, <2>7 DEF Loops
  <2>8. ASSUME NEW i \in Item, i.job = k, at'["recover"] = i PROVE i \notin pass'["recover"]
    <3>1. CASE l = "recover"
      BY <1>4, <1>5, <2>8, <3>1
    <3>2. CASE l # "recover"
      <4>1. pass'["recover"] = pass["recover"] /\ at'["recover"] = at["recover"]
        BY <1>4, <3>2 DEF Loops
      <4> QED BY <2>1, <2>8, <4>1 DEF Fine, ListOK
    <3> QED BY <3>1, <3>2
  <2>9. ASSUME NEW i \in Item, i.job = k, Holds("recover", i)'
        PROVE  ~InMemory(k) /\ stateFile[k] = IF i.queued THEN "queued" ELSE "started"
    BY <1>7, <2>1, <2>9 DEF Fine, ListOK, Loops
  <2>10. ASSUME stateFile'[k] = "queued"
         PROVE  InMemory(k) \/ Holds("recover", [job |-> k, queued |-> TRUE])'
    <3>1. PICK i \in Item : i = [job |-> k, queued |-> TRUE]
      BY DEF Item
    <3>2. InMemory(k) \/ Holds("recover", i)
      BY <1>2, <2>1, <2>10, <3>1 DEF Fine, ListOK
    <3> QED BY <1>8, <3>1, <3>2
  <2>11. \A i \in Item : i.job = k =>
           /\ Holds("recover", i)' =>
                ~InMemory(k)' /\ stateFile'[k] = IF i.queued THEN "queued" ELSE "started"
           /\ at'["check"] = i => ~InMemory(k)' /\ ~i.queued
           /\ i \in pass'["check"] /\ ~i.queued => k \notin Elems(queue)'
           /\ at'["recover"] = i => i \notin pass'["recover"]
    <3> SUFFICES ASSUME NEW i \in Item, i.job = k
                 PROVE  /\ Holds("recover", i)' =>
                             /\ ~InMemory(k)'
                             /\ stateFile'[k] = IF i.queued THEN "queued" ELSE "started"
                        /\ at'["check"] = i => ~InMemory(k)' /\ ~i.queued
                        /\ i \in pass'["check"] /\ ~i.queued => k \notin Elems(queue)'
                        /\ at'["recover"] = i => i \notin pass'["recover"]
      OBVIOUS
    <3>1. i \in pass["check"] /\ ~i.queued => k \notin Elems(queue)
      BY <2>1 DEF Fine, ListOK
    <3> QED BY <1>2, <2>5, <2>6, <2>7, <2>8, <2>9, <3>1
  <2>12. ListOK(k)'
    BY <2>5, <2>10, <2>11 DEF ListOK
  <2> QED BY <2>4, <2>12 DEF Fine
<1>11. ASSUME NEW k \in Jobs, Known(k)' PROVE Known(k)
  <2>1. InMemory(k)' => InMemory(k)
    BY <1>2 DEF InMemory, Elems
  <2> QED BY <1>2, <1>7, <1>11, <2>1 DEF Known
<1>12. OnePerVM'
  BY <1>11 DEF Order, OnePerVM
<1>13. Distinct(queue)' /\ Turns'
  <2>1. Distinct(queue)'
    BY <1>2 DEF Order
  <2>2. Turns'
    BY <1>9 DEF Order, Turns, Loops
  <2> QED BY <2>1, <2>2
<1> QED BY <1>10, <1>12, <1>13 DEF Order

\* A loop's list is made from the state files.
LEMMA FilesListed ==
  ASSUME TypeOK
  PROVE  /\ StateFiles \subseteq Item /\ Idle \notin StateFiles
         /\ \A i \in StateFiles : /\ stateFile[i.job] = IF i.queued THEN "queued" ELSE "started"
                                  /\ stateFile[i.job] # "none"
         /\ \A k \in Jobs : stateFile[k] = "queued" =>
              [job |-> k, queued |-> TRUE] \in StateFiles
<1>1. /\ StateFiles \subseteq Item /\ Idle \notin StateFiles
      /\ \A i \in StateFiles : stateFile[i.job] = IF i.queued THEN "queued" ELSE "started"
  BY IdleIsNoItem DEF StateFiles
<1>2. \A i \in StateFiles : stateFile[i.job] # "none"
  BY <1>1
<1>3. ASSUME NEW k \in Jobs, stateFile[k] = "queued"
      PROVE  [job |-> k, queued |-> TRUE] \in StateFiles
  BY <1>3 DEF StateFiles, Item
<1> QED BY <1>1, <1>2, <1>3

LEMMA CheckBeginStep ==
  ASSUME TypeOK, Order, Orderly', CheckBegin
  PROVE  Order'
<1>1. /\ ~Underway("check") /\ ~Underway("recover")
      /\ pass' = [pass EXCEPT !["check"] = StateFiles] /\ at' = at
      /\ UNCHANGED <<queue, active, lock, launching, intervals, ending, stateFile,
                     exitCode, session, outcome, told, lostCode>>
  BY DEF CheckBegin, disk, Orderly
<1>2. /\ pass["recover"] = {} /\ at["recover"] = Idle /\ at["check"] = Idle
  BY <1>1 DEF Underway
<1>3. pass'["recover"] = {} /\ pass'["check"] = StateFiles
  BY <1>1, <1>2 DEF TypeOK, Loops
<1>4. \A i \in Item : ~Holds("recover", i)' /\ ~Holds("recover", i) /\ at'["check"] # i
                      /\ at'["recover"] # i
  BY <1>1, <1>2, <1>3, IdleIsNoItem DEF Holds
<1>5. ASSUME NEW k \in Jobs PROVE Fine(k)'
  <2>1. Fine(k) /\ {} \in SUBSET Elems(queue)
    BY DEF Order
  <2>2. Moves(k, {}) /\ SameWatch(k)
    BY <1>1 DEF Moves, Elems, SameWatch
  <2>3. Tells(k)
    BY <1>1 DEF Tells, Running
  <2>4. JobOK(k)' /\ VerdictOK(k)' /\ WatchOK(k)'
    BY <2>1, <2>2, <2>3, MovesJob, MovesWatch
  <2>5. ASSUME NEW i \in Item, i.job = k, i \in pass'["check"], ~i.queued
        PROVE  k \notin Elems(queue)'
    <3>1. stateFile[k] = "started"
      BY <1>3, <2>5, FilesListed
    <3>2. k \notin Elems(queue)
      BY <2>1, <3>1 DEF Fine, JobOK
    <3> QED BY <1>1, <3>2 DEF Elems
  <2>6. stateFile'[k] = "queued" => InMemory(k)'
    <3>1. [job |-> k, queued |-> TRUE] \in Item
      BY DEF Item
    <3>2. stateFile[k] = "queued" => InMemory(k)
      BY <1>4, <2>1, <3>1 DEF Fine, ListOK
    <3> QED BY <1>1, <3>2 DEF InMemory, Elems
  <2>7. ListOK(k)'
    BY <1>4, <2>5, <2>6 DEF ListOK
  <2> QED BY <2>4, <2>7 DEF Fine
<1>6. ASSUME NEW k \in Jobs, Known(k)' PROVE Known(k)
  <2>1. InMemory(k)' => InMemory(k)
    BY <1>1 DEF InMemory, Elems
  <2>2. ASSUME NEW l \in Loops, NEW i \in Item, i.job = k, Holds(l, i)'
        PROVE  stateFile[k] # "none"
    <3>1. i \in StateFiles
      BY <1>3, <1>4, <2>2 DEF Loops, Holds
    <3> QED BY <2>2, <3>1, FilesListed
  <2>3. stateFile' = stateFile
    BY <1>1
  <2> QED BY <1>6, <2>1, <2>2, <2>3 DEF Known
<1>7. OnePerVM'
  BY <1>6 DEF Order, OnePerVM
<1>8. Distinct(queue)' /\ Turns'
  BY <1>1, <1>2, <1>3 DEF Order, Turns, Underway
<1> QED BY <1>5, <1>7, <1>8 DEF Order

LEMMA RestartStep ==
  ASSUME TypeOK, Order, Restart
  PROVE  Order'
<1>1. /\ queue' = <<>> /\ active' = {} /\ launching' = {} /\ intervals' = {} /\ ending' = {}
      /\ UNCHANGED <<stateFile, exitCode, session, outcome, told>>
      /\ lostCode' = lostCode \cup {m.job : m \in {n \in Monitor : <<n, "failed">> \in ending}}
  BY DEF Restart, disk
<1>2. /\ pass'["recover"] = StateFiles /\ pass'["check"] = {}
      /\ at'["recover"] = Idle /\ at'["check"] = Idle
  BY DEF Restart, Loops
<1>3. /\ Elems(queue') = {} /\ Distinct(queue)' /\ Running' = Running
      /\ \A k : ~InMemory(k)'
      /\ \A m : ~Watches(m)'
  BY <1>1 DEF Elems, Distinct, Running, InMemory, Watches
<1>4. ASSUME NEW i \in Item
      PROVE  /\ Holds("recover", i)' <=> i \in StateFiles
             /\ at'["recover"] # i /\ at'["check"] # i /\ ~Holds("check", i)'
  BY <1>2, IdleIsNoItem DEF Holds
<1>5. ASSUME NEW k \in Jobs PROVE Fine(k)'
  <2>1. Fine(k)
    BY DEF Order
  <2>2. JobOK(k)'
    BY <1>1, <1>3, <2>1 DEF Fine, JobOK, Elems
  <2>3. VerdictOK(k)'
    <3>1. Remembered(k) => Remembered(k)'
      BY <1>1 DEF Remembered
    <3>2. k \in lostCode => k \in lostCode'
      BY <1>1
    <3> QED BY <1>1, <1>3, <2>1, <3>1, <3>2 DEF Fine, VerdictOK, Elems
  <2>4. WatchOK(k)'
    BY <1>3 DEF WatchOK
  <2>5. ASSUME NEW i \in Item, i.job = k, Holds("recover", i)'
        PROVE  stateFile'[k] = IF i.queued THEN "queued" ELSE "started"
    BY <1>1, <1>4, <2>5, FilesListed
  <2>6. stateFile'[k] = "queued" => Holds("recover", [job |-> k, queued |-> TRUE])'
    <3>1. PICK i \in Item : i = [job |-> k, queued |-> TRUE]
      BY DEF Item
    <3>2. stateFile[k] = "queued" => i \in StateFiles
      BY <3>1, FilesListed
    <3> QED BY <1>1, <1>4, <3>1, <3>2
  <2>7. ListOK(k)'
    BY <1>2, <1>3, <1>4, <2>5, <2>6 DEF ListOK
  <2> QED BY <2>2, <2>3, <2>4, <2>7 DEF Fine
<1>6. ASSUME NEW k \in Jobs, Known(k)' PROVE Known(k)
  <2>1. ASSUME NEW l \in Loops, NEW i \in Item, i.job = k, Holds(l, i)'
        PROVE  stateFile[k] # "none"
    <3>1. i \in StateFiles
      BY <1>4, <2>1 DEF Loops
    <3> QED BY <2>1, <3>1, FilesListed
  <2>2. stateFile' = stateFile
    BY <1>1
  <2> QED BY <1>3, <1>6, <2>1, <2>2 DEF Known
<1>7. OnePerVM'
  BY <1>6 DEF Order, OnePerVM
<1>8. Turns'
  BY <1>2 DEF Turns, Underway
<1> QED BY <1>3, <1>5, <1>7, <1>8 DEF Order

LEMMA FaultsGrow ==
  ASSUME Next
  PROVE  (kills' = kills \/ kills' = kills + 1) /\ (overlap => overlap')
<1> DEFINE Grow == (kills' = kills \/ kills' = kills + 1) /\ (overlap => overlap')
<1>1. ASSUME NEW j \in Jobs, queueBackup(j) \/ StaleLock(j) PROVE Grow
  BY <1>1 DEF queueBackup, StaleLock, Reserve, faults
<1>2. ASSUME NEW j \in Jobs, QueueProbe(j) \/ Refused(j) \/ NewSession(j) \/ JobFail(j) PROVE Grow
  BY <1>2 DEF QueueProbe, Refused, NewSession, JobFail, faults, history
<1>3. ASSUME NEW j \in Jobs, Started(j) \/ StartFailed(j) PROVE Grow
  BY <1>3 DEF Started, StartFailed, faults, history
<1>4. ASSUME NEW j \in Jobs, Interrupted(j) \/ \E code \in {"ok", "bad"} : ScriptEnds(j, code)
      PROVE  Grow
  BY <1>4 DEF Interrupted, ScriptEnds, faults
<1>5. ASSUME NEW j \in Jobs, KillQueued(j) \/ KillUnmonitored(j) \/ KillBegin(j) PROVE Grow
  BY <1>5 DEF KillQueued, KillUnmonitored, KillBegin, history
<1>6. ASSUME NEW m \in Monitor, NEW verdict, EndRun(m, verdict) PROVE Grow
  BY <1>6 DEF EndRun, faults
<1>7. ASSUME NEW m \in Monitor, TickFailed(m) \/ KillEnd(m) PROVE Grow
  BY <1>7 DEF TickFailed, KillEnd, faults, history
<1>8. ASSUME NEW l \in Loops, LookUp(l) \/ reattachToTmuxSession(l) \/ StillFresh(l) PROVE Grow
  BY <1>8 DEF LookUp, reattachToTmuxSession, StillFresh, faults, history
<1>9. ASSUME NEW l \in Loops, handleCompletedJobWhileDown(l) PROVE Grow
  BY <1>9 DEF handleCompletedJobWhileDown, faults
<1>10. CASE Restart \/ Reported
  BY <1>10 DEF Restart, Reported, history, faults
<1>11. CASE CheckBegin
  BY <1>11, Zenon DEF CheckBegin, faults
<1>12. CASE failJobEarly
  BY <1>12 DEF failJobEarly, faults
<1> QED
  BY <1>1, <1>2, <1>3, <1>4, <1>5, <1>6, <1>7, <1>8, <1>9, <1>10, <1>11, <1>12
     DEF Next, Probe, Launch, Tick, TickCompleted, EndFailed

\* A run that is not orderly never becomes so, and an orderly one is not killed.
LEMMA OrderlyBefore ==
  ASSUME Inv, Next, Orderly'
  PROVE  /\ Orderly
         /\ \A j \in Jobs : ~StaleLock(j)
         /\ \A j \in Jobs : ~KillQueued(j) /\ ~KillUnmonitored(j) /\ ~KillBegin(j)
         /\ \A m \in Monitor : ~KillEnd(m)
<1>1. kills \in Nat /\ overlap \in BOOLEAN
  BY BoundsAssumption DEF Inv, TypeOK
<1>2. kills' = 0 /\ overlap' = FALSE
  BY DEF Orderly
<1>3. \A j \in Jobs : ~KillQueued(j) /\ ~KillUnmonitored(j) /\ ~KillBegin(j)
  <2>1. \A j \in Jobs : KillQueued(j) \/ KillUnmonitored(j) \/ KillBegin(j) => kills' = kills + 1
    BY DEF KillQueued, KillUnmonitored, KillBegin
  <2> QED BY <1>1, <1>2, <2>1
<1>4. kills = 0
  <2>1. kills' = kills \/ kills' = kills + 1
    BY FaultsGrow
  <2> QED BY <1>1, <1>2, <2>1
<1>5. ~overlap
  <2>1. overlap => overlap'
    BY FaultsGrow
  <2> QED BY <1>2, <2>1
<1>6. \A j \in Jobs : ~StaleLock(j)
  BY <1>1, <1>4 DEF Inv, Rest, ProbesAfterKill, StaleLock
<1>7. \A m \in Monitor : ~KillEnd(m)
  BY <1>1, <1>4 DEF Inv, Rest, KillsCounted, KillEnd
<1> QED BY <1>3, <1>4, <1>5, <1>6, <1>7 DEF Orderly

LEMMA OrderNext == OrderInv /\ [Next]_vars => OrderInv'
<1> SUFFICES ASSUME OrderInv, [Next]_vars, Orderly' PROVE Order'
  BY InvNext DEF OrderInv
<1>1. CASE UNCHANGED vars
  <2>1. Order
    BY <1>1 DEF OrderInv, Orderly, vars
  <2>2. /\ UNCHANGED <<queue, active, lock, launching, intervals, ending, pass, at>>
        /\ UNCHANGED <<stateFile, exitCode, session, outcome, told, lostCode>>
    BY <1>1 DEF vars
  <2>3. SameRest /\ \A k \in Jobs : Tells(k)
    BY <2>2 DEF SameRest, Tells, Running
  <2>4. CASE Jobs = {}
    BY <2>1, <2>2, <2>4 DEF Order, OnePerVM, Turns, Underway
  <2>5. CASE Jobs # {}
    BY <2>1, <2>3, <2>5, SessionStep
  <2> QED BY <2>4, <2>5
<1>2. CASE Next
  <2>1. /\ Orderly
        /\ \A j \in Jobs : ~StaleLock(j)
        /\ \A j \in Jobs : ~KillQueued(j) /\ ~KillUnmonitored(j) /\ ~KillBegin(j)
        /\ \A m \in Monitor : ~KillEnd(m)
    BY <1>2, OrderlyBefore DEF OrderInv
  <2>2. TypeOK /\ Order
    BY <2>1 DEF OrderInv, Inv
  <2>3. ASSUME NEW j \in Jobs, queueBackup(j) PROVE Order'
    BY <2>2, <2>3, AcceptStep
  <2>4. ASSUME NEW j \in Jobs, QueueProbe(j) \/ Refused(j) PROVE Order'
    <3>1. /\ UNCHANGED <<queue, active, lock, launching, intervals, ending, pass, at>>
          /\ UNCHANGED <<stateFile, exitCode, session, outcome, told, lostCode>>
      BY <2>4 DEF QueueProbe, Refused, disk, history
    <3>2. SameRest /\ \A k \in Jobs : Tells(k)
      BY <3>1 DEF SameRest, Tells, Running
    <3> QED BY <2>2, <3>2, SessionStep
  <2>5. ASSUME NEW j \in Jobs,
               NewSession(j) \/ JobFail(j) \/ Interrupted(j)
                 \/ \E code \in {"ok", "bad"} : ScriptEnds(j, code)
        PROVE  Order'
    BY <2>2, <2>5, SessionSteps
  <2>6. ASSUME NEW j \in Jobs, Started(j) PROVE Order'
    BY <2>2, <2>6, StartedStep
  <2>7. ASSUME NEW j \in Jobs, StartFailed(j) PROVE Order'
    BY <2>2, <2>7, StartFailedStep
  <2>8. ASSUME NEW m \in Monitor, Tick(m) PROVE Order'
    BY <2>2, <2>8, TickCompletedStep, TickFailedStep DEF Tick
  <2>9. ASSUME NEW m \in Monitor, NEW verdict \in {"failed", "repeat"}, EndFailed(m, verdict)
        PROVE  Order'
    BY <2>2, <2>9, EndFailedStep DEF Orders
  <2>10. ASSUME NEW l \in Loops, LookUp(l) PROVE Order'
    BY <2>2, <2>10, LookUpStep
  <2>11. ASSUME NEW l \in Loops, reattachToTmuxSession(l) PROVE Order'
    BY <2>2, <2>11, ReattachStep
  <2>12. ASSUME NEW l \in Loops, handleCompletedJobWhileDown(l) PROVE Order'
    BY <2>2, <2>12, CompletedWhileDownStep
  <2>13. ASSUME NEW l \in Loops, StillFresh(l) PROVE Order'
    BY <2>2, <2>13, StillFreshStep
  <2>14. CASE Restart
    BY <2>2, <2>14, RestartStep
  <2>15. CASE CheckBegin
    BY <2>2, <2>15, CheckBeginStep
  <2>16. CASE failJobEarly
    BY <2>2, <2>16, FailEarlyStep
  <2>17. CASE Reported
    BY <2>2, <2>17, ReportedStep
  <2> QED
    BY <1>2, <2>1, <2>3, <2>4, <2>5, <2>6, <2>7, <2>8, <2>9, <2>10, <2>11, <2>12, <2>13,
       <2>14, <2>15, <2>16, <2>17 DEF Next, Probe, Launch
<1> QED BY <1>1, <1>2

LEMMA OrderInvariant == Spec => []OrderInv
<1>1. Init => OrderInv
  BY InvInit, OrderInit DEF OrderInv
<1> QED BY <1>1, OrderNext, PTL DEF Spec

\* As long as the agent runs orderly, no two scripts of one virtual machine
\* run side by side, for any number of jobs, machines, restarts and runs.
THEOREM OneScriptPerVM == Spec => []OneRunPerVM
<1>1. OrderInv => OneRunPerVM
  <2> SUFFICES ASSUME OrderInv, Orderly, NEW j \in Running, NEW k \in Running,
                      vmOf[j] = vmOf[k]
               PROVE  j = k
    BY DEF OneRunPerVM
  <2>1. j \in Jobs /\ k \in Jobs
    BY DEF Running
  <2>2. stateFile[j] = "started" /\ stateFile[k] = "started"
    BY <2>1 DEF OrderInv, Order, Fine, JobOK
  <2>3. Known(j) /\ Known(k)
    BY <2>2 DEF Known
  <2> QED BY <2>1, <2>3 DEF OrderInv, Order, OnePerVM
<1> QED BY <1>1, OrderInvariant, PTL

\* As long as the agent runs orderly, no left-over exit code, monitor or recovery
\* loop reports a script that failed as a completed backup and nothing else, unless
\* the agent stopped between removing its exit code and reporting it.
THEOREM FailureNeverPasses == Spec => []NeverFalselyCompleted
<1>1. OrderInv => NeverFalselyCompleted
  BY DEF OrderInv, Order, Fine, VerdictOK, NeverFalselyCompleted
<1> QED BY <1>1, OrderInvariant, PTL
=============================================================================
