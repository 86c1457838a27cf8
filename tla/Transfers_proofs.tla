-------------------------- MODULE Transfers_proofs --------------------------
(***************************************************************************)
(* What moves backups between the host and its disks: proofs about the     *)
(* offsite jobs (OffsiteJobs) and the restores (RestoreJobs), for any      *)
(* number of machines, jobs, restores, attempts, passes and mishaps.       *)
(*                                                                         *)
(* CompletedIsCopied is inductive with what a verdict of success is        *)
(* carried by on its way into the record: posts, monitors, exit codes,     *)
(* events files and the snapshot of a request (SyncInv). OneActiveJob is   *)
(* not: FreshInv says of a job that nobody touched that it is started and  *)
(* reported as running once, and that a request which did not see it       *)
(* active writes after that report.                                        *)
(*                                                                         *)
(* HonestRestore is not inductive either: a verdict is copied from the     *)
(* entry and from the ticks that found the end, and they take it from the  *)
(* progress file, which is removed later. Sound says what each of them may *)
(* hold, as long as the restore is not contested.                          *)
(***************************************************************************)
EXTENDS OffsiteJobs, RestoreJobs, TLAPS

-----------------------------------------------------------------------------
(* Offsite replication: what every state of the jobs has *)

\* Everything that had landed when job j was requested is in the copy, or the job is doubtful.
Earned(j) == j \in doubtful \/ syncs[j].asked <= copy[syncs[j].vm]

\* The jobs, and that a completed one is covered.
StoreOK ==
  /\ landed \in [VMs -> 0..MaxLanded] /\ copy \in [VMs -> 0..MaxLanded]
  /\ syncs \in Seq(SyncRec) /\ Len(syncs) <= MaxJobs
  /\ wanted \in SUBSET VMs /\ touched \in SUBSET Known /\ followUps \in SUBSET Known
  /\ troubles \in 0..MaxTroubles
  /\ \A j \in Known : /\ syncs[j].asked <= landed[syncs[j].vm]
                      /\ syncs[j].status = "completed" => Earned(j)

\* What a request has read differs from the jobs in their progress only.
RequestOK ==
  /\ request \in [step : {"idle", "read"}, vm : VMs, seen : Seq(SyncRec)]
  /\ request.step = "read" =>
       /\ Len(request.seen) = Len(syncs)
       /\ \A j \in Known : /\ request.seen[j].vm = syncs[j].vm
                           /\ request.seen[j].asked = syncs[j].asked
                           /\ request.seen[j].status = "completed" => Earned(j)

Turns == {"request", "operator", "agent", "reconcile"} \X Nat \X Nat
           \X (Verdicts \cup {"running", "none"})
TurnsOK == turns \in Seq(Turns)

StartSteps == {"asked", "accepted", "broken"}
Callers == {"nobody", "request", "verdict", "operator", "check", "boot"}
DrainRec == [by : Callers \X Nat, step : {"idle", "read", "pick"} \cup StartSteps,
             todo : SUBSET Nat, busy : SUBSET VMs, job : Nat]
DrainOK ==
  /\ drain \in DrainRec /\ drain.todo \in SUBSET Known
  /\ drain.step \in StartSteps => drain.job \in Known

PostRec == [job : JobIds, attempt : Attempts, status : Verdicts \cup {"running"},
            from : {"agent", "reconcile"}, read : {"not yet", "queued", "running"}]
InboxOK ==
  /\ inbox \in SUBSET PostRec
  /\ \A p \in inbox : p.job \in Known /\ (p.status = "completed" => Earned(p.job))

OperatorOK ==
  /\ operator \in [job : 0..MaxJobs, call : {"none", "cancel queued", "cancel running", "told", "retry"},
                   attempt : 0..MaxAttempts]
  /\ operator.call # "none" => operator.job \in Known
  /\ operator.call = "retry" => operator.attempt < MaxAttempts

\* The agent knows of no job before it is created, and has a verdict for what is covered.
AgentOK ==
  /\ tracked \in SUBSET Known /\ stateFiles \in SUBSET Known /\ agentOld \in BOOLEAN
  /\ monitor \in [JobIds -> [Attempts -> Verdicts \cup {"none", "launching", "watching"}]]
  /\ \A j \in JobIds, a \in Attempts :
       /\ monitor[j][a] # "none" => j \in Known
       /\ monitor[j][a] = "completed" => Earned(j)

\* A script copies all that had landed when its job was requested, and the successes of one that
\* failed are all there is only if it is killed.
SessionOK ==
  /\ script \in [JobIds -> {"none", "new", "over"} \cup Working]
  /\ walked \in [JobIds -> 0..MaxLanded]
  /\ exitCode \in [JobIds -> {"none", "zero", "error", "busy"}]
  /\ events \in [JobIds -> {"none", "good", "old"}] /\ newest \in [VMs -> 0..MaxJobs]
  /\ orphans \in SUBSET Known /\ doubtful \in SUBSET Known
  /\ \A j \in JobIds :
       /\ script[j] # "none" \/ exitCode[j] # "none" \/ events[j] # "none" => j \in Known
       /\ script[j] = "copying" => syncs[j].asked <= walked[j]
       /\ script[j] \in {"copied", "skipped", "zero"} \/ exitCode[j] = "zero" => Earned(j)
       /\ events[j] = "good" => Earned(j) \/ script[j] = "failed"

SyncInv ==
  /\ StoreOK /\ RequestOK /\ TurnsOK /\ DrainOK /\ InboxOK /\ OperatorOK /\ AgentOK /\ SessionOK

-----------------------------------------------------------------------------
(* Jobs that nobody started again, cancelled or put back *)

Untouched(j) == j \in Known /\ j \notin touched
IsActive(job) == job.status \in {"queued", "running"}

\* Nothing of the job is at the agent or on its way from there.
Traceless(j) ==
  /\ j \notin tracked /\ j \notin stateFiles /\ \A a \in Attempts : monitor[j][a] = "none"
  /\ \A p \in inbox : p.job # j

BeingStarted(j) == drain.step \in StartSteps /\ drain.job = j
Asked(j) == drain.step = "asked" /\ drain.job = j
RunningPost(p, j) == p \in inbox /\ p.job = j /\ p.status = "running"
Read(p) == p.read # "not yet"

\* A job that waits has never been started, and one that is being started only once.
StartedFirst(j) ==
  /\ syncs[j].status = "queued" => Traceless(j) /\ ~BeingStarted(j)
  /\ Asked(j) => Traceless(j) /\ syncs[j].status = "running"
  /\ j \in drain.todo => syncs[j].status = "queued"
  /\ request.step = "read" /\ (syncs[j].status = "queued" \/ Asked(j)) => IsActive(request.seen[j])

Takes(s, turn) == \E n \in 1..Len(s) : s[n] = turn
Before(s, turn) ==
  \A m, n \in 1..Len(s) : s[m] = RequestTurn /\ s[n] = turn => n < m
OneRequest(s) == \A m, n \in 1..Len(s) : s[m] = RequestTurn /\ s[n] = RequestTurn => m = n

\* The agent posts once that the job runs, and a request that did not see the job active writes
\* after a post that did.
PostedOnce(j) ==
  /\ \A p, q : RunningPost(p, j) /\ RunningPost(q, j) => p = q
  /\ \A p : RunningPost(p, j) /\ Read(p) => Takes(turns, PostTurn(p))
  /\ \A p : RunningPost(p, j) /\ ~Read(p) /\ request.step = "read" /\ ~IsActive(request.seen[j])
       => ~IsActive(syncs[j])
  /\ \A p : RunningPost(p, j) /\ Read(p) /\ request.step = "read" /\ ~IsActive(request.seen[j])
       => Before(turns, PostTurn(p))

\* A request takes its turn once.
OneTurn == (Takes(turns, RequestTurn) => request.step = "read") /\ OneRequest(turns)

\* The job is active, or will be when a report is written that was read while it was.
Claims(j) == IsActive(syncs[j]) \/ \E p : RunningPost(p, j) /\ Read(p)

OneClaim == \A j, k \in Known : Untouched(j) /\ Untouched(k) /\ syncs[j].vm = syncs[k].vm
                                /\ Claims(j) /\ Claims(k) => j = k

FreshInv ==
  /\ \A j \in Known : Untouched(j) => StartedFirst(j) /\ PostedOnce(j)
  /\ OneTurn /\ OneClaim

-----------------------------------------------------------------------------
(* What steps leave as it was *)

\* Jobs are added, the directories grow, and doubts stay.
Go ==
  /\ landed' \in [VMs -> 0..MaxLanded] /\ copy' \in [VMs -> 0..MaxLanded]
  /\ \A v \in VMs : landed[v] <= landed'[v] /\ copy[v] <= copy'[v]
  /\ syncs' \in Seq(SyncRec) /\ Len(syncs) <= Len(syncs') /\ Len(syncs') <= MaxJobs
  /\ \A j \in Known : syncs'[j].vm = syncs[j].vm /\ syncs'[j].asked = syncs[j].asked
  /\ doubtful \subseteq doubtful'

\* What a step that leaves the sessions alone, or only adds a doubt, does to the doubts.
DoubtsStay == UNCHANGED sessionVars \/ doubtful \subseteq doubtful'

LEMMA JobType ==
  ASSUME NEW js \in Seq(SyncRec), NEW j \in 1..Len(js)
  PROVE  /\ js[j] \in SyncRec /\ js[j].vm \in VMs /\ js[j].asked \in 0..MaxLanded
         /\ js[j].attempt \in Attempts /\ js[j].status \in Terminal \cup {"queued", "running"}
         /\ js[j].followUp \in BOOLEAN
<1>1. js[j] \in SyncRec
  OBVIOUS
<1> QED BY <1>1 DEF SyncRec

LEMMA KnownIds ==
  ASSUME StoreOK
  PROVE  Known \subseteq JobIds /\ Len(syncs) \in Nat
BY OffsiteAssumption DEF StoreOK, Known, JobIds

LEMMA GoFacts ==
  ASSUME StoreOK, Go
  PROVE  /\ Known \subseteq Known' /\ Known \subseteq JobIds /\ Known' \subseteq JobIds
         /\ \A j \in Known : Earned(j) => Earned(j)'
         /\ \A j \in Known : syncs[j] \in SyncRec /\ syncs'[j] \in SyncRec
<1>1. Len(syncs) \in Nat /\ Len(syncs') \in Nat /\ MaxJobs \in Nat /\ MaxLanded \in Nat
  BY OffsiteAssumption DEF StoreOK, Go
<1>2. Known \subseteq Known' /\ Known \subseteq JobIds /\ Known' \subseteq JobIds
  BY <1>1 DEF Go, StoreOK, Known, JobIds
<1>3. ASSUME NEW j \in Known
      PROVE  syncs[j] \in SyncRec /\ syncs'[j] \in SyncRec /\ (Earned(j) => Earned(j)')
  <2>1. j \in 1..Len(syncs) /\ j \in 1..Len(syncs')
    BY <1>1 DEF Known, Go
  <2>2. /\ syncs[j] \in SyncRec /\ syncs[j].vm \in VMs /\ syncs[j].asked \in 0..MaxLanded
    BY <2>1, JobType DEF StoreOK
  <2>3. syncs'[j] \in SyncRec
    BY <2>1 DEF Go
  <2>4. /\ syncs'[j].vm = syncs[j].vm /\ syncs'[j].asked = syncs[j].asked
        /\ copy[syncs[j].vm] <= copy'[syncs[j].vm]
        /\ copy[syncs[j].vm] \in Nat /\ copy'[syncs[j].vm] \in Nat /\ syncs[j].asked \in Nat
    BY <1>1, <2>2 DEF Go, StoreOK
  <2>5. Earned(j) => Earned(j)'
    BY <2>4 DEF Earned, Go
  <2> QED BY <2>2, <2>3, <2>5
<1> QED BY <1>2, <1>3

\* The jobs and the directories as they were.
LEMMA SameStore ==
  ASSUME StoreOK, UNCHANGED <<dataVars, syncs>>, wanted' \in SUBSET VMs, touched' \in SUBSET Known,
         followUps' \in SUBSET Known, troubles' \in 0..MaxTroubles, DoubtsStay
  PROVE  StoreOK' /\ Go
<1>1. Len(syncs) \in Nat /\ doubtful \subseteq doubtful'
  BY DEF StoreOK, DoubtsStay, sessionVars
<1>2. landed' = landed /\ copy' = copy /\ syncs' = syncs /\ Known' = Known
  BY DEF dataVars, Known
<1>3. \A j \in Known : Earned(j) => Earned(j)'
  BY <1>1, <1>2 DEF Earned
<1>4. StoreOK'
  BY <1>2, <1>3 DEF StoreOK
<1>5. Go
  BY <1>1, <1>2, OffsiteAssumption DEF Go, StoreOK
<1> QED BY <1>4, <1>5

\* One job becomes new.
LEMMA OneJob ==
  ASSUME StoreOK, NEW j \in Known, NEW new \in SyncRec, new.vm = syncs[j].vm,
         new.asked = syncs[j].asked, new.status = "completed" => Earned(j),
         syncs' = [syncs EXCEPT ![j] = new], UNCHANGED dataVars, wanted' \in SUBSET VMs,
         touched' \in SUBSET Known, followUps' \in SUBSET Known, troubles' \in 0..MaxTroubles,
         DoubtsStay
  PROVE  /\ StoreOK' /\ Go /\ Len(syncs') = Len(syncs) /\ Known' = Known
         /\ \A i \in Known : syncs'[i] = IF i = j THEN new ELSE syncs[i]
<1>0. doubtful \subseteq doubtful'
  BY DEF DoubtsStay, sessionVars
<1>1. syncs \in Seq(SyncRec) /\ Len(syncs) \in Nat /\ j \in 1..Len(syncs)
  BY DEF StoreOK, Known
<1>2. syncs' \in Seq(SyncRec) /\ Len(syncs') = Len(syncs)
  BY <1>1
<1>3. Known' = Known /\ landed' = landed /\ copy' = copy
  BY <1>2 DEF Known, dataVars
<1>4. \A i \in Known : syncs'[i] = IF i = j THEN new ELSE syncs[i]
  BY <1>1 DEF Known
<1>5. \A i \in Known : syncs'[i].vm = syncs[i].vm /\ syncs'[i].asked = syncs[i].asked
  BY <1>4
<1>6. \A i \in Known : Earned(i) => Earned(i)'
  BY <1>0, <1>3, <1>5 DEF Earned
<1>7. Go
  BY <1>0, <1>1, <1>2, <1>3, <1>5, OffsiteAssumption DEF Go, StoreOK
<1>8. \A i \in Known : syncs'[i].status = "completed" => Earned(i)'
  BY <1>4, <1>6 DEF StoreOK
<1>9. StoreOK'
  BY <1>2, <1>3, <1>5, <1>8 DEF StoreOK
<1> QED BY <1>2, <1>3, <1>4, <1>7, <1>9

LEMMA RequestKeeps ==
  ASSUME StoreOK, RequestOK, Go, Len(syncs') = Len(syncs), request' = request
  PROVE  RequestOK'
BY GoFacts DEF RequestOK, Go, Known

LEMMA DrainKeeps ==
  ASSUME StoreOK, DrainOK, Go, drain' = drain
  PROVE  DrainOK'
BY GoFacts DEF DrainOK

LEMMA InboxKeeps ==
  ASSUME StoreOK, InboxOK, Go, inbox' \subseteq inbox
  PROVE  InboxOK'
BY GoFacts DEF InboxOK

LEMMA OperatorKeeps ==
  ASSUME StoreOK, OperatorOK, Go, operator' = operator
  PROVE  OperatorOK'
BY GoFacts DEF OperatorOK

LEMMA AgentKeeps ==
  ASSUME StoreOK, AgentOK, Go, UNCHANGED agentVars
  PROVE  AgentOK'
BY GoFacts DEF AgentOK, agentVars

LEMMA SessionStays ==
  ASSUME StoreOK, SessionOK, Go, UNCHANGED <<script, walked, exitCode, events, newest>>,
         orphans' \in SUBSET Known', doubtful' \in SUBSET Known'
  PROVE  SessionOK'
<1>1. \A j \in JobIds : script[j] = "copying" => syncs'[j].asked <= walked[j]
  BY DEF SessionOK, Go
<1> QED BY <1>1, GoFacts DEF SessionOK

LEMMA SessionKeeps ==
  ASSUME StoreOK, SessionOK, Go, UNCHANGED sessionVars
  PROVE  SessionOK'
<1>1. /\ UNCHANGED <<script, walked, exitCode, events, newest>>
      /\ orphans' = orphans /\ doubtful' = doubtful
  BY DEF sessionVars
<1>2. orphans' \in SUBSET Known' /\ doubtful' \in SUBSET Known'
  BY <1>1, GoFacts DEF SessionOK
<1> QED BY <1>1, <1>2, SessionStays

LEMMA TurnsKeep ==
  ASSUME TurnsOK, \/ turns' = turns
                  \/ turns # <<>> /\ turns' = Tail(turns)
                  \/ turns' = <<>>
                  \/ \E t \in Turns : turns' = Append(turns, t)
  PROVE  TurnsOK'
<1>1. CASE turns # <<>> /\ turns' = Tail(turns)
  BY <1>1 DEF TurnsOK
<1>2. CASE \E t \in Turns : turns' = Append(turns, t)
  BY <1>2 DEF TurnsOK
<1>3. CASE turns' = <<>>
  BY <1>3 DEF TurnsOK
<1>4. CASE turns' = turns
  BY <1>4 DEF TurnsOK
<1> QED BY <1>1, <1>2, <1>3, <1>4

LEMMA TroubleCounts ==
  ASSUME StoreOK, NEW kind, Trouble(kind)
  PROVE  troubles' \in 0..MaxTroubles
BY OffsiteAssumption DEF StoreOK, Trouble

\* The start of a drain, which another one in flight makes void.
LEMMA StartDrainKeeps ==
  ASSUME StoreOK, DrainOK, Go, NEW by \in Callers \X Nat, StartDrain(by)
  PROVE  DrainOK'
<1>1. CASE drain' = drain
  BY <1>1, DrainKeeps
<1>2. CASE drain' = [NoDrain EXCEPT !.by = by, !.step = "read"]
  <2>1. drain' = [by |-> by, step |-> "read", todo |-> {}, busy |-> {}, job |-> 0]
    BY <1>2 DEF NoDrain
  <2> QED BY <2>1 DEF DrainOK, DrainRec, StartSteps
<1> QED BY <1>1, <1>2 DEF StartDrain

LEMMA NoDrainOK ==
  /\ NoDrain \in DrainRec /\ NoDrain.todo = {} /\ NoDrain.step = "idle"
BY DEF NoDrain, DrainRec, StartSteps, Callers

\* What a step leaves alone stays as it should be.
LEMMA RestKeeps ==
  ASSUME SyncInv, Go
  PROVE  /\ request' = request /\ Len(syncs') = Len(syncs) => RequestOK'
         /\ turns' = turns => TurnsOK'
         /\ drain' = drain => DrainOK'
         /\ inbox' \subseteq inbox => InboxOK'
         /\ operator' = operator => OperatorOK'
         /\ UNCHANGED agentVars => AgentOK'
         /\ UNCHANGED sessionVars => SessionOK'
<1> USE DEF SyncInv
<1>1. request' = request /\ Len(syncs') = Len(syncs) => RequestOK'
  BY RequestKeeps
<1>2. turns' = turns => TurnsOK'
  BY TurnsKeep
<1>3. drain' = drain => DrainOK'
  BY DrainKeeps
<1>4. inbox' \subseteq inbox => InboxOK'
  BY InboxKeeps
<1>5. operator' = operator => OperatorOK'
  BY OperatorKeeps
<1>6. UNCHANGED agentVars => AgentOK'
  BY AgentKeeps
<1>7. UNCHANGED sessionVars => SessionOK'
  BY SessionKeeps
<1> QED BY <1>1, <1>2, <1>3, <1>4, <1>5, <1>6, <1>7

-----------------------------------------------------------------------------
(* Requests *)

LEMMA BackupLandsInv ==
  ASSUME SyncInv, NEW vm \in VMs, BackupLands(vm)
  PROVE  SyncInv'
<1>1. /\ landed' = [landed EXCEPT ![vm] = @ + 1] /\ landed[vm] < MaxLanded /\ copy' = copy
      /\ syncs' = syncs /\ touched' = touched /\ followUps' = followUps /\ troubles' = troubles
      /\ wanted' = wanted \cup {vm} /\ Known' = Known /\ doubtful' = doubtful
  BY DEF BackupLands, storeVars, taskVars, sessionVars, Known
<1>2. Len(syncs) \in Nat /\ MaxLanded \in Nat /\ MaxJobs \in Nat
  BY OffsiteAssumption DEF SyncInv, StoreOK
<1>3. landed' \in [VMs -> 0..MaxLanded] /\ \A v \in VMs : landed[v] <= landed'[v]
  BY <1>1, <1>2 DEF SyncInv, StoreOK
<1>4. Go
  BY <1>1, <1>2, <1>3 DEF Go, SyncInv, StoreOK
<1>5. \A j \in Known : Earned(j) => Earned(j)'
  BY <1>1 DEF Earned
<1>6. ASSUME NEW j \in Known PROVE syncs[j].asked <= landed'[syncs[j].vm]
  <2>1. syncs[j].vm \in VMs /\ syncs[j].asked \in Nat /\ syncs[j].asked <= landed[syncs[j].vm]
    BY JobType DEF SyncInv, StoreOK, Known
  <2>2. landed[syncs[j].vm] \in Nat /\ landed'[syncs[j].vm] \in Nat
    BY <2>1, <1>2, <1>3 DEF SyncInv, StoreOK
  <2>3. landed[syncs[j].vm] <= landed'[syncs[j].vm]
    BY <2>1, <1>3
  <2> QED BY <2>1, <2>2, <2>3
<1>7. StoreOK'
  BY <1>1, <1>3, <1>5, <1>6 DEF SyncInv, StoreOK
<1>8. /\ request' = request /\ Len(syncs') = Len(syncs) /\ turns' = turns /\ drain' = drain
      /\ inbox' = inbox /\ operator' = operator /\ UNCHANGED <<agentVars, sessionVars>>
  BY <1>1 DEF BackupLands, taskVars
<1> QED BY <1>4, <1>7, <1>8, RestKeeps DEF SyncInv

LEMMA RequestReadsInv ==
  ASSUME SyncInv, NEW vm \in VMs, RequestReads(vm)
  PROVE  SyncInv'
<1>1. StoreOK' /\ Go
  BY SameStore DEF SyncInv, StoreOK, DoubtsStay, RequestReads, storeVars, taskVars, dataVars, Known
<1>2. syncs' = syncs /\ Known' = Known /\ copy' = copy /\ doubtful' = doubtful
  BY DEF RequestReads, storeVars, dataVars, sessionVars, Known
<1>3. RequestOK'
  <2>1. request' = [step |-> "read", vm |-> vm, seen |-> syncs]
    BY DEF RequestReads
  <2>2. \A j \in Known : Earned(j) => Earned(j)'
    BY <1>2 DEF Earned
  <2> QED BY <2>1, <2>2, <1>2 DEF SyncInv, StoreOK, RequestOK
<1>4. RequestTurn \in Turns
  BY DEF RequestTurn, Turns
<1>5. TurnsOK'
  BY <1>4, TurnsKeep DEF SyncInv, RequestReads
<1>6. /\ drain' = drain /\ inbox' = inbox /\ operator' = operator
      /\ UNCHANGED <<agentVars, sessionVars>>
  BY DEF RequestReads, taskVars
<1> QED BY <1>1, <1>3, <1>5, <1>6, RestKeeps DEF SyncInv

\* The save of a request that found no active job.
LEMMA SavesNew ==
  ASSUME SyncInv, request.step = "read", Len(syncs) < MaxJobs,
         syncs' = Append(request.seen, NewJob(request.vm)),
         touched' = touched \cup PutBack(request.seen),
         UNCHANGED <<dataVars, wanted, followUps, sessionVars, troubles>>
  PROVE  StoreOK' /\ Go
<1> DEFINE vm == request.vm
<1> DEFINE seen == request.seen
<1> DEFINE new == NewJob(vm)
<1>1. /\ vm \in VMs /\ seen \in Seq(SyncRec) /\ Len(seen) = Len(syncs)
      /\ syncs \in Seq(SyncRec) /\ Len(syncs) \in Nat /\ MaxJobs \in Nat /\ MaxLanded \in Nat
  BY OffsiteAssumption DEF SyncInv, RequestOK, StoreOK
<1>2. new = [vm |-> vm, status |-> "queued", followUp |-> FALSE, attempt |-> 1,
             asked |-> landed[vm]]
  BY DEF NewJob
<1>3. landed[vm] \in 0..MaxLanded /\ 1 \in Attempts
  BY <1>1, OffsiteAssumption DEF SyncInv, StoreOK, Attempts
<1>4. new \in SyncRec /\ syncs' = Append(seen, new)
  BY <1>1, <1>2, <1>3 DEF SyncRec
<1>5. /\ syncs' \in Seq(SyncRec) /\ Len(syncs') = Len(syncs) + 1
      /\ \A i \in 1..Len(syncs) : syncs'[i] = seen[i]
      /\ syncs'[Len(syncs) + 1] = new
  <2> HIDE DEF new
  <2> QED BY <1>1, <1>4
<1>6. /\ Known \subseteq Known' /\ Known' = Known \cup {Len(syncs) + 1}
      /\ Len(syncs') <= MaxJobs /\ Known = 1..Len(syncs)
  BY <1>1, <1>5 DEF Known
<1>7. landed' = landed /\ copy' = copy /\ doubtful' = doubtful
  BY DEF dataVars, sessionVars
<1>8. \A j \in Known : syncs'[j].vm = syncs[j].vm /\ syncs'[j].asked = syncs[j].asked
  BY <1>5, <1>6 DEF SyncInv, RequestOK
<1>9. Go
  BY <1>1, <1>5, <1>6, <1>7, <1>8 DEF Go, SyncInv, StoreOK
<1>10. ASSUME NEW j \in Known'
       PROVE  /\ syncs'[j].asked <= landed'[syncs'[j].vm]
              /\ syncs'[j].status = "completed" => Earned(j)'
  <2>1. CASE j = Len(syncs) + 1
    <3>1. syncs'[j] = new
      BY <2>1, <1>5
    <3>2. syncs'[j].asked = landed[vm] /\ syncs'[j].vm = vm /\ syncs'[j].status = "queued"
      BY <3>1, <1>2
    <3> QED BY <3>2, <1>3, <1>7
  <2>2. CASE j \in Known
    <3>1. syncs'[j] = seen[j]
      BY <2>2, <1>5, <1>6
    <3>2. /\ syncs[j].asked <= landed[syncs[j].vm]
          /\ seen[j].status = "completed" => Earned(j)
      BY <2>2 DEF SyncInv, StoreOK, RequestOK
    <3>3. Earned(j) => Earned(j)'
      BY <2>2, <1>7, <1>8 DEF Earned
    <3> QED BY <3>1, <3>2, <3>3, <2>2, <1>7, <1>8
  <2> QED BY <2>1, <2>2, <1>6
<1>11. touched' \in SUBSET Known' /\ followUps' \in SUBSET Known'
  BY <1>6 DEF SyncInv, StoreOK, PutBack
<1>12. StoreOK'
  BY <1>5, <1>6, <1>7, <1>10, <1>11 DEF SyncInv, StoreOK
<1> QED BY <1>9, <1>12

LEMMA RequestSavesInv ==
  ASSUME SyncInv, RequestSaves
  PROVE  SyncInv'
<1> DEFINE seen == request.seen
<1> DEFINE existing == ActiveSyncs(seen) \cap Of(seen, request.vm)
<1>1. /\ request.step = "read" /\ turns # <<>> /\ turns' = Tail(turns)
      /\ request' = [step |-> "idle", vm |-> request.vm, seen |-> <<>>]
      /\ UNCHANGED <<dataVars, wanted, inbox, taskVars, agentVars, sessionVars, troubles>>
      /\ followUps' = followUps
      /\ operator' = operator
  BY DEF RequestSaves, Writes, NoRequest, taskVars
<1>2. request'.step = "idle" /\ RequestOK'
  BY <1>1 DEF SyncInv, RequestOK
<1>3. TurnsOK'
  BY <1>1, TurnsKeep DEF SyncInv
<1>4. CASE /\ existing = {} /\ Len(syncs) < MaxJobs
           /\ syncs' = Append(seen, NewJob(request.vm)) /\ touched' = touched \cup PutBack(seen)
           /\ StartDrain(<<"request", 0>>)
  <2>1. StoreOK' /\ Go
    BY <1>1, <1>4, SavesNew
  <2>2. <<"request", 0>> \in Callers \X Nat
    BY DEF Callers
  <2>3. DrainOK'
    BY <2>1, <2>2, <1>4, StartDrainKeeps DEF SyncInv
  <2> QED BY <2>1, <2>3, <1>1, <1>2, <1>3, RestKeeps DEF SyncInv
<1>5. CASE /\ existing # {} /\ UNCHANGED <<drain, touched>>
           /\ LET j == CHOOSE k \in existing : \A l \in existing : k <= l IN
              syncs' = IF seen[j].status = "running" /\ ~seen[j].followUp
                      THEN [syncs EXCEPT ![j].followUp = TRUE] ELSE syncs
  <2>1. StoreOK' /\ Go
    <3>1. CASE syncs' = syncs
      <4>1. /\ wanted' = wanted /\ touched' = touched /\ troubles' = troubles
            /\ UNCHANGED <<dataVars, syncs>>
        BY <3>1, <1>1, <1>5
      <4> QED BY <4>1, <1>1, SameStore DEF SyncInv, StoreOK, DoubtsStay
    <3>2. CASE syncs' # syncs
      <4>1. PICK j : /\ seen[j].status = "running" /\ ~seen[j].followUp
                     /\ syncs' = [syncs EXCEPT ![j].followUp = TRUE]
        BY <3>2, <1>5
      <4>2. DOMAIN syncs = Known /\ syncs \in Seq(SyncRec)
        BY DEF SyncInv, StoreOK, Known
      <4>3. j \in Known
        <5>1. CASE j \notin Known
          <6>1. syncs' = syncs
            BY <5>1, <4>1, <4>2
          <6> QED BY <6>1, <3>2
        <5> QED BY <5>1
      <4>4. PICK new : new = [syncs[j] EXCEPT !.followUp = TRUE]
        OBVIOUS
      <4>5. syncs[j] \in SyncRec
        BY <4>3, JobType DEF SyncInv, StoreOK, Known
      <4>6. new \in SyncRec /\ new.vm = syncs[j].vm /\ new.asked = syncs[j].asked
            /\ new.status = syncs[j].status
        BY <4>4, <4>5 DEF SyncRec
      <4>7. syncs' = [syncs EXCEPT ![j] = new]
        BY <4>1, <4>4
      <4>8. new.status = "completed" => Earned(j)
        BY <4>3, <4>6 DEF SyncInv, StoreOK
      <4> QED BY <4>3, <4>6, <4>7, <4>8, <1>1, <1>5, OneJob DEF SyncInv, StoreOK, DoubtsStay
    <3> QED BY <3>1, <3>2
  <2> QED BY <2>1, <1>1, <1>2, <1>3, <1>5, RestKeeps DEF SyncInv
<1> QED BY <1>4, <1>5 DEF RequestSaves

LEMMA CheckFindsInv ==
  ASSUME SyncInv, NEW vm \in VMs, CheckFinds(vm)
  PROVE  SyncInv'
<1>1. StoreOK' /\ Go
  BY SameStore DEF SyncInv, StoreOK, DoubtsStay, CheckFinds, storeVars, taskVars
<1>2. /\ request' = request /\ syncs' = syncs /\ turns' = turns /\ drain' = drain
      /\ inbox' = inbox /\ operator' = operator /\ UNCHANGED <<agentVars, sessionVars>>
  BY DEF CheckFinds, taskVars, storeVars
<1> QED BY <1>1, <1>2, RestKeeps DEF SyncInv

-----------------------------------------------------------------------------
(* Drains *)

\* The jobs, the directories and the history as they were.
LEMMA StoreStays ==
  ASSUME SyncInv, UNCHANGED <<dataVars, storeVars>>, wanted' \in SUBSET VMs,
         followUps' \in SUBSET Known, troubles' \in 0..MaxTroubles,
         UNCHANGED sessionVars \/ doubtful \subseteq doubtful'
  PROVE  /\ StoreOK' /\ Go /\ Known' = Known /\ Len(syncs') = Len(syncs) /\ syncs' = syncs
         /\ \A j : Earned(j) => Earned(j)'
<1>0. DoubtsStay /\ doubtful \subseteq doubtful'
  BY DEF DoubtsStay, sessionVars
<1>1. syncs' = syncs /\ touched' = touched /\ Known' = Known /\ copy' = copy
  BY DEF storeVars, dataVars, Known
<1>2. StoreOK' /\ Go
  BY <1>0, <1>1, SameStore DEF SyncInv, StoreOK
<1>3. \A j : Earned(j) => Earned(j)'
  BY <1>0, <1>1 DEF Earned
<1> QED BY <1>1, <1>2, <1>3

\* One job has another status.
LEMMA FinishedOK ==
  ASSUME SyncInv, NEW j \in Known, NEW st \in Terminal \cup {"queued", "running"},
         Finished(j, st), st = "completed" => Earned(j), UNCHANGED dataVars,
         wanted' \in SUBSET VMs, touched' \in SUBSET Known, followUps' \in SUBSET Known,
         troubles' \in 0..MaxTroubles, UNCHANGED sessionVars
  PROVE  /\ StoreOK' /\ Go /\ Len(syncs') = Len(syncs) /\ Known' = Known
         /\ \A i \in Known : /\ syncs'[i].status = IF i = j THEN st ELSE syncs[i].status
                             /\ syncs'[i].vm = syncs[i].vm /\ syncs'[i].attempt = syncs[i].attempt
         /\ \A i \in Known : Earned(i) => Earned(i)'
<1>1. PICK new : new = [syncs[j] EXCEPT !.status = st]
  OBVIOUS
<1>2. /\ syncs[j] \in SyncRec /\ syncs[j].attempt \in Attempts /\ syncs[j].followUp \in BOOLEAN
  BY JobType DEF SyncInv, StoreOK, Known
<1>3. /\ new \in SyncRec /\ new.vm = syncs[j].vm /\ new.asked = syncs[j].asked
      /\ new.status = st /\ new.attempt = syncs[j].attempt
  BY <1>1, <1>2 DEF SyncRec
<1>4. syncs' = [syncs EXCEPT ![j] = new]
  BY <1>1 DEF Finished
<1>5. /\ StoreOK' /\ Go /\ Len(syncs') = Len(syncs) /\ Known' = Known
      /\ \A i \in Known : syncs'[i] = IF i = j THEN new ELSE syncs[i]
  BY <1>3, <1>4, OneJob DEF SyncInv, DoubtsStay
<1>6. copy' = copy /\ doubtful' = doubtful
  BY DEF dataVars, sessionVars
<1>7. \A i \in Known : Earned(i) => Earned(i)'
  BY <1>3, <1>5, <1>6 DEF Earned
<1> QED BY <1>3, <1>5, <1>7

LEMMA DrainReadsInv ==
  ASSUME SyncInv, DrainReads
  PROVE  SyncInv'
<1>1. /\ UNCHANGED <<dataVars, storeVars, requestVars, turns, inbox, taskVars, agentVars,
                     sessionVars, troubles>>
      /\ wanted' = wanted /\ request' = request /\ followUps' = followUps /\ operator' = operator
  BY DEF DrainReads, requestVars, taskVars
<1>2. StoreOK' /\ Go /\ Known' = Known /\ Len(syncs') = Len(syncs)
  BY <1>1, StoreStays DEF SyncInv, StoreOK
<1>3. DrainOK'
  <2>1. CASE drain' = NoDrain
    BY <2>1, NoDrainOK DEF DrainOK, StartSteps
  <2>2. CASE drain' = [drain EXCEPT !.step = "pick", !.todo = Queued(syncs),
                                    !.busy = {syncs[j].vm : j \in Running(syncs)}]
    <3>1. Queued(syncs) \in SUBSET Known /\ Queued(syncs) \in SUBSET Nat
      BY DEF Queued, Known
    <3>2. {syncs[j].vm : j \in Running(syncs)} \in SUBSET VMs
      BY JobType DEF Running, SyncInv, StoreOK
    <3>3. /\ drain' \in DrainRec /\ drain'.todo = Queued(syncs) /\ drain'.step = "pick"
      BY <2>2, <3>1, <3>2 DEF SyncInv, DrainOK, DrainRec
    <3> QED BY <3>1, <3>3, <1>2 DEF DrainOK, StartSteps
  <2> QED BY <2>1, <2>2 DEF DrainReads
<1> QED BY <1>1, <1>2, <1>3, RestKeeps DEF SyncInv

LEMMA DrainFindsHostOfflineInv ==
  ASSUME SyncInv, DrainFindsHostOffline
  PROVE  SyncInv'
<1>1. /\ UNCHANGED <<dataVars, storeVars, requestVars, turns, inbox, taskVars, agentVars,
                     sessionVars>>
      /\ wanted' = wanted /\ request' = request /\ followUps' = followUps /\ operator' = operator
      /\ drain' = NoDrain
  BY DEF DrainFindsHostOffline, requestVars, taskVars
<1>2. troubles' \in 0..MaxTroubles
  BY TroubleCounts DEF SyncInv, DrainFindsHostOffline
<1>3. StoreOK' /\ Go /\ Known' = Known /\ Len(syncs') = Len(syncs)
  BY <1>1, <1>2, StoreStays DEF SyncInv, StoreOK
<1>4. DrainOK'
  BY <1>1, NoDrainOK DEF DrainOK, StartSteps
<1> QED BY <1>1, <1>3, <1>4, RestKeeps DEF SyncInv

\* The drain as it goes on to another step, with what it takes for done and for busy.
LEMMA DrainGoesOn ==
  ASSUME SyncInv, Known' = Known, NEW todo \in SUBSET Known, NEW busy \in SUBSET VMs,
         NEW step \in {"pick"} \cup StartSteps, NEW j \in Nat, step # "pick" => j \in Known,
         drain' = [drain EXCEPT !.todo = todo, !.job = j, !.step = step, !.busy = busy]
  PROVE  DrainOK'
<1>1. todo \in SUBSET Nat
  BY DEF Known
<1>2. drain' \in DrainRec /\ drain'.todo = todo /\ drain'.job = j /\ drain'.step = step
  BY <1>1 DEF SyncInv, DrainOK, DrainRec
<1> QED BY <1>2 DEF DrainOK, StartSteps

\* What a drain does with a job of its list.
DrainTakes(j) ==
  IF syncs[j].vm \in drain.busy \/ Cardinality(Running(syncs)) >= Limit
  THEN drain' = [drain EXCEPT !.todo = @ \ {j}] /\ UNCHANGED syncs
  ELSE /\ Finished(j, "running")
       /\ drain' = [drain EXCEPT !.todo = @ \ {j}, !.job = j, !.step = "asked",
                                 !.busy = @ \cup {syncs[j].vm}]

LEMMA DrainPicksInv ==
  ASSUME SyncInv, DrainPicks
  PROVE  SyncInv'
<1>1. /\ UNCHANGED <<dataVars, touched, requestVars, turns, inbox, taskVars, agentVars,
                     sessionVars, troubles>>
      /\ wanted' = wanted /\ request' = request /\ followUps' = followUps /\ operator' = operator
  BY DEF DrainPicks, requestVars, taskVars
<1>2. drain.step = "pick" /\ drain \in DrainRec /\ drain.job \in Nat
  BY DEF DrainPicks, SyncInv, DrainOK, DrainRec
<1>3. CASE drain.todo = {} /\ drain' = NoDrain /\ UNCHANGED syncs
  <2>1. StoreOK' /\ Go /\ Known' = Known /\ Len(syncs') = Len(syncs)
    BY <1>1, <1>3, StoreStays DEF SyncInv, StoreOK, storeVars
  <2>2. DrainOK'
    BY <1>3, NoDrainOK DEF DrainOK, StartSteps
  <2> QED BY <1>1, <2>1, <2>2, RestKeeps DEF SyncInv
<1>4. CASE \E j \in drain.todo : DrainTakes(j)
  <2>1. PICK j \in drain.todo : DrainTakes(j)
    BY <1>4
  <2>2. j \in Known /\ drain.todo \ {j} \in SUBSET Known /\ drain.busy \in SUBSET VMs
    BY DEF SyncInv, DrainOK, DrainRec
  <2>3. syncs[j].vm \in VMs /\ j \in Nat
    BY <2>2, JobType DEF SyncInv, StoreOK, Known
  <2>4. CASE drain' = [drain EXCEPT !.todo = @ \ {j}] /\ UNCHANGED syncs
    <3>1. StoreOK' /\ Go /\ Known' = Known /\ Len(syncs') = Len(syncs)
      BY <1>1, <2>4, StoreStays DEF SyncInv, StoreOK, storeVars
    <3>2. drain' = [drain EXCEPT !.todo = drain.todo \ {j}, !.job = drain.job, !.step = "pick",
                                 !.busy = drain.busy]
      BY <1>2, <2>4 DEF DrainRec
    <3>3. DrainOK'
      BY <1>2, <2>2, <3>1, <3>2, DrainGoesOn
    <3> QED BY <1>1, <3>1, <3>3, RestKeeps DEF SyncInv
  <2>5. CASE /\ Finished(j, "running")
             /\ drain' = [drain EXCEPT !.todo = @ \ {j}, !.job = j, !.step = "asked",
                                       !.busy = @ \cup {syncs[j].vm}]
    <3>1. StoreOK' /\ Go /\ Known' = Known /\ Len(syncs') = Len(syncs)
      BY <1>1, <2>2, <2>5, FinishedOK DEF SyncInv, StoreOK
    <3>2. drain.busy \cup {syncs[j].vm} \in SUBSET VMs
      BY <2>2, <2>3
    <3>3. drain' = [drain EXCEPT !.todo = drain.todo \ {j}, !.job = j, !.step = "asked",
                                 !.busy = drain.busy \cup {syncs[j].vm}]
      BY <2>5
    <3>4. DrainOK'
      BY <2>2, <2>3, <3>1, <3>2, <3>3, DrainGoesOn DEF StartSteps
    <3> QED BY <1>1, <3>1, <3>4, RestKeeps DEF SyncInv
  <2> QED BY <2>1, <2>4, <2>5 DEF DrainTakes
<1> QED BY <1>3, <1>4 DEF DrainPicks, DrainTakes

\* The drain goes to another step and is otherwise as it was.
LEMMA GoesOK ==
  ASSUME SyncInv, Known' = Known, NEW step \in {"pick"} \cup StartSteps, Goes(step),
         step # "pick" => drain.job \in Known
  PROVE  DrainOK'
<1>1. drain' = [drain EXCEPT !.todo = drain.todo, !.job = drain.job, !.step = step,
                             !.busy = drain.busy]
  BY DEF Goes, SyncInv, DrainOK, DrainRec
<1>2. drain.todo \in SUBSET Known /\ drain.busy \in SUBSET VMs /\ drain.job \in Nat
  BY DEF SyncInv, DrainOK, DrainRec
<1> QED BY <1>1, <1>2, DrainGoesOn

LEMMA AnswerIsLostInv ==
  ASSUME SyncInv, AnswerIsLost
  PROVE  SyncInv'
<1>1. /\ UNCHANGED <<dataVars, storeVars, requestVars, turns, inbox, taskVars, agentVars,
                     sessionVars>>
      /\ wanted' = wanted /\ request' = request /\ followUps' = followUps /\ operator' = operator
      /\ Goes("broken") /\ drain.step \in StartSteps
  BY DEF AnswerIsLost, requestVars, taskVars, StartSteps
<1>2. troubles' \in 0..MaxTroubles
  BY TroubleCounts DEF SyncInv, AnswerIsLost
<1>3. StoreOK' /\ Go /\ Known' = Known /\ Len(syncs') = Len(syncs)
  BY <1>1, <1>2, StoreStays DEF SyncInv, StoreOK
<1>4. DrainOK'
  BY <1>1, <1>3, GoesOK DEF SyncInv, DrainOK, StartSteps
<1> QED BY <1>1, <1>3, <1>4, RestKeeps DEF SyncInv

LEMMA DrainGivesUpInv ==
  ASSUME SyncInv, DrainGivesUp
  PROVE  SyncInv'
<1>1. /\ UNCHANGED <<dataVars, touched, requestVars, turns, inbox, taskVars, agentVars,
                     sessionVars, troubles>>
      /\ wanted' = wanted /\ request' = request /\ followUps' = followUps /\ operator' = operator
      /\ Goes("pick") /\ drain.step \in StartSteps
  BY DEF DrainGivesUp, requestVars, taskVars, StartSteps
<1>2. PICK st \in {"failed", "unsupported"} : Finished(drain.job, st)
  BY DEF DrainGivesUp
<1>3. st \in Terminal \cup {"queued", "running"} /\ st # "completed" /\ drain.job \in Known
  BY <1>1 DEF Terminal, Verdicts, SyncInv, DrainOK
<1>4. StoreOK' /\ Go /\ Known' = Known /\ Len(syncs') = Len(syncs)
  BY <1>1, <1>2, <1>3, FinishedOK DEF SyncInv, StoreOK
<1>5. DrainOK'
  BY <1>1, <1>4, GoesOK
<1> QED BY <1>1, <1>4, <1>5, RestKeeps DEF SyncInv

-----------------------------------------------------------------------------
(* The agent and its sessions *)

\* A run of one job at the agent goes on, or ends.
LEMMA MonitorOK ==
  ASSUME SyncInv, Known' = Known, \A i : Earned(i) => Earned(i)', NEW j \in Known,
         NEW a \in Attempts, NEW st \in Verdicts \cup {"none", "launching", "watching"},
         monitor' = [monitor EXCEPT ![j][a] = st], st = "completed" => Earned(j)',
         tracked' \in SUBSET Known, stateFiles' \in SUBSET Known, agentOld' \in BOOLEAN
  PROVE  AgentOK'
<1>1. /\ j \in JobIds
      /\ monitor \in [JobIds -> [Attempts -> Verdicts \cup {"none", "launching", "watching"}]]
  BY KnownIds DEF SyncInv, AgentOK
<1>2. monitor' \in [JobIds -> [Attempts -> Verdicts \cup {"none", "launching", "watching"}]]
  BY <1>1
<1>3. \A i \in JobIds, b \in Attempts :
        monitor'[i][b] = IF i = j /\ b = a THEN st ELSE monitor[i][b]
  BY <1>1
<1>4. \A i \in JobIds, b \in Attempts :
        /\ monitor'[i][b] # "none" => i \in Known
        /\ monitor'[i][b] = "completed" => Earned(i)'
  BY <1>3 DEF SyncInv, AgentOK
<1> QED BY <1>2, <1>4 DEF AgentOK

\* A post is added.
LEMMA PostOK ==
  ASSUME SyncInv, Known' = Known, \A i : Earned(i) => Earned(i)', NEW j \in Known,
         NEW a \in Attempts, NEW st \in Verdicts \cup {"running"},
         NEW from \in {"agent", "reconcile"}, st = "completed" => Earned(j)',
         inbox' = inbox \cup {Post(j, a, st, from)}
  PROVE  InboxOK'
<1>1. PICK p : p = Post(j, a, st, from)
  OBVIOUS
<1>2. j \in JobIds
  BY KnownIds DEF SyncInv
<1>3. p \in PostRec /\ p.job = j /\ p.status = st
  BY <1>1, <1>2 DEF Post, PostRec
<1> QED BY <1>1, <1>3 DEF SyncInv, InboxOK

LEMMA AgentAcceptsSyncInv ==
  ASSUME SyncInv, AgentAcceptsSync
  PROVE  SyncInv'
<1>1. /\ UNCHANGED <<dataVars, storeVars, requestVars, turns, taskVars, agentOld, sessionVars,
                     troubles>>
      /\ wanted' = wanted /\ request' = request /\ followUps' = followUps /\ operator' = operator
      /\ Goes("accepted") /\ drain.step = "asked"
      /\ tracked' = tracked \cup {drain.job} /\ stateFiles' = stateFiles \cup {drain.job}
      /\ monitor' = [monitor EXCEPT ![drain.job][syncs[drain.job].attempt] = "launching"]
      /\ inbox' = inbox \cup {Post(drain.job, syncs[drain.job].attempt, "running", "agent")}
  BY DEF AgentAcceptsSync, requestVars, taskVars
<1>2. PICK j \in Known : j = drain.job
  BY <1>1 DEF SyncInv, DrainOK, StartSteps
<1>3. syncs[j].attempt \in Attempts
  BY JobType DEF SyncInv, StoreOK, Known
<1>4. /\ StoreOK' /\ Go /\ Known' = Known /\ Len(syncs') = Len(syncs)
      /\ \A i : Earned(i) => Earned(i)'
  BY <1>1, StoreStays DEF SyncInv, StoreOK
<1>5. AgentOK'
  <2>1. tracked' \in SUBSET Known /\ stateFiles' \in SUBSET Known /\ agentOld' \in BOOLEAN
    BY <1>1, <1>2 DEF SyncInv, AgentOK
  <2> QED BY <2>1, <1>1, <1>2, <1>3, <1>4, MonitorOK
<1>6. InboxOK'
  BY <1>1, <1>2, <1>3, <1>4, PostOK
<1>7. DrainOK'
  BY <1>1, <1>2, <1>4, GoesOK DEF StartSteps
<1> QED BY <1>1, <1>4, <1>5, <1>6, <1>7, RestKeeps DEF SyncInv

\* What a session becomes.
LEMMA SessionBecomes ==
  ASSUME SyncInv, Go, Known' = Known, NEW j \in Known,
         NEW st \in {"none", "new", "over"} \cup Working, NEW w \in 0..MaxLanded,
         NEW code \in {"none", "zero", "error", "busy"}, NEW ev \in {"none", "good", "old"},
         st = "copying" => syncs[j].asked <= w,
         st \in {"copied", "skipped", "zero"} \/ code = "zero" => Earned(j)',
         ev = "good" => Earned(j)' \/ st = "failed",
         script' = [script EXCEPT ![j] = st], walked' = [walked EXCEPT ![j] = w],
         exitCode' = [exitCode EXCEPT ![j] = code], events' = [events EXCEPT ![j] = ev],
         newest' = newest \/ newest' = [newest EXCEPT ![syncs[j].vm] = j],
         orphans' \in SUBSET Known, doubtful' \in SUBSET Known
  PROVE  SessionOK'
<1>1. j \in JobIds /\ Known \subseteq JobIds
  BY KnownIds DEF SyncInv
<1>2. \A i \in Known : syncs'[i].asked = syncs[i].asked /\ (Earned(i) => Earned(i)')
  BY GoFacts DEF SyncInv, Go
<1>3. /\ script' \in [JobIds -> {"none", "new", "over"} \cup Working]
      /\ walked' \in [JobIds -> 0..MaxLanded]
      /\ exitCode' \in [JobIds -> {"none", "zero", "error", "busy"}]
      /\ events' \in [JobIds -> {"none", "good", "old"}]
  BY <1>1 DEF SyncInv, SessionOK
<1>4. newest' \in [VMs -> 0..MaxJobs]
  <2>1. syncs[j].vm \in VMs /\ j \in 0..MaxJobs
    BY <1>1, JobType DEF SyncInv, StoreOK, Known, JobIds
  <2> QED BY <2>1 DEF SyncInv, SessionOK
<1>5. \A i \in JobIds : /\ script'[i] = IF i = j THEN st ELSE script[i]
                        /\ walked'[i] = IF i = j THEN w ELSE walked[i]
                        /\ exitCode'[i] = IF i = j THEN code ELSE exitCode[i]
                        /\ events'[i] = IF i = j THEN ev ELSE events[i]
  BY DEF SyncInv, SessionOK
<1>6. ASSUME NEW i \in JobIds
      PROVE  /\ script'[i] # "none" \/ exitCode'[i] # "none" \/ events'[i] # "none" => i \in Known'
             /\ script'[i] = "copying" => syncs'[i].asked <= walked'[i]
             /\ script'[i] \in {"copied", "skipped", "zero"} \/ exitCode'[i] = "zero" => Earned(i)'
             /\ events'[i] = "good" => Earned(i)' \/ script'[i] = "failed"
  <2>1. CASE i = j
    BY <2>1, <1>2, <1>5
  <2>2. CASE i # j
    <3>1. /\ script'[i] = script[i] /\ walked'[i] = walked[i] /\ exitCode'[i] = exitCode[i]
          /\ events'[i] = events[i]
      BY <2>2, <1>5
    <3>2. /\ script[i] # "none" \/ exitCode[i] # "none" \/ events[i] # "none" => i \in Known
          /\ script[i] = "copying" => syncs[i].asked <= walked[i]
          /\ script[i] \in {"copied", "skipped", "zero"} \/ exitCode[i] = "zero" => Earned(i)
          /\ events[i] = "good" => Earned(i) \/ script[i] = "failed"
      BY DEF SyncInv, SessionOK
    <3>3. events[i] = "good" \/ exitCode[i] = "zero" \/ script[i] # "none" => i \in Known
      BY <3>2
    <3> QED BY <3>1, <3>2, <3>3, <1>2
  <2> QED BY <2>1, <2>2
<1> QED BY <1>3, <1>4, <1>6 DEF SessionOK

\* What the session of a job is, as a step finds it.
LEMMA SessionFacts ==
  ASSUME SyncInv, NEW j \in Known
  PROVE  /\ j \in JobIds /\ walked[j] \in 0..MaxLanded
         /\ script[j] \in {"none", "new", "over"} \cup Working
         /\ exitCode[j] \in {"none", "zero", "error", "busy"}
         /\ events[j] \in {"none", "good", "old"}
         /\ script[j] = "copying" => syncs[j].asked <= walked[j]
         /\ script[j] \in {"copied", "skipped", "zero"} \/ exitCode[j] = "zero" => Earned(j)
         /\ events[j] = "good" => Earned(j) \/ script[j] = "failed"
         /\ orphans \in SUBSET Known /\ doubtful \in SUBSET Known
         /\ script = [script EXCEPT ![j] = script[j]] /\ walked = [walked EXCEPT ![j] = walked[j]]
         /\ exitCode = [exitCode EXCEPT ![j] = exitCode[j]]
         /\ events = [events EXCEPT ![j] = events[j]]
<1>1. j \in JobIds
  BY KnownIds DEF SyncInv
<1>2. /\ script \in [JobIds -> {"none", "new", "over"} \cup Working]
      /\ walked \in [JobIds -> 0..MaxLanded]
      /\ exitCode \in [JobIds -> {"none", "zero", "error", "busy"}]
      /\ events \in [JobIds -> {"none", "good", "old"}]
  BY DEF SyncInv, SessionOK
<1>3. /\ walked[j] \in 0..MaxLanded /\ script[j] \in {"none", "new", "over"} \cup Working
      /\ exitCode[j] \in {"none", "zero", "error", "busy"}
      /\ events[j] \in {"none", "good", "old"}
  BY <1>1, <1>2
<1>4. /\ script[j] = "copying" => syncs[j].asked <= walked[j]
      /\ script[j] \in {"copied", "skipped", "zero"} \/ exitCode[j] = "zero" => Earned(j)
      /\ events[j] = "good" => Earned(j) \/ script[j] = "failed"
      /\ orphans \in SUBSET Known /\ doubtful \in SUBSET Known
  BY <1>1 DEF SyncInv, SessionOK
<1>5. /\ script = [script EXCEPT ![j] = script[j]] /\ walked = [walked EXCEPT ![j] = walked[j]]
      /\ exitCode = [exitCode EXCEPT ![j] = exitCode[j]]
      /\ events = [events EXCEPT ![j] = events[j]]
  BY <1>1, <1>2
<1> QED BY <1>1, <1>3, <1>4, <1>5

LEMMA AgentLaunchesInv ==
  ASSUME SyncInv, NEW j \in Known, NEW a \in Attempts, AgentLaunches(j, a)
  PROVE  SyncInv'
<1>1. /\ UNCHANGED <<dataVars, storeVars, requestVars, turns, inbox, taskVars, tracked,
                     stateFiles, agentOld, walked, newest, orphans, doubtful, troubles>>
      /\ wanted' = wanted /\ request' = request /\ followUps' = followUps /\ operator' = operator
      /\ monitor' = [monitor EXCEPT ![j][a] = "watching"]
      /\ script' = [script EXCEPT ![j] = "new"]
      /\ exitCode' = [exitCode EXCEPT ![j] = "none"]
      /\ events' = [events EXCEPT ![j] = IF events[j] = "good" THEN "old" ELSE events[j]]
      /\ Goes("pick") \/ drain' = drain
  BY DEF AgentLaunches, requestVars, taskVars
<1>2. /\ StoreOK' /\ Go /\ Known' = Known /\ Len(syncs') = Len(syncs)
      /\ \A i : Earned(i) => Earned(i)'
  BY <1>1, StoreStays DEF SyncInv, StoreOK
<1>3. AgentOK'
  BY <1>1, <1>2, MonitorOK DEF SyncInv, AgentOK
<1>4. SessionOK'
  <2>1. PICK ev : ev = IF events[j] = "good" THEN "old" ELSE events[j]
    OBVIOUS
  <2>2. ev \in {"none", "good", "old"} /\ ev # "good" /\ events' = [events EXCEPT ![j] = ev]
    BY <1>1, <2>1, SessionFacts
  <2>3. /\ walked' = [walked EXCEPT ![j] = walked[j]] /\ walked[j] \in 0..MaxLanded
        /\ newest' = newest /\ orphans' \in SUBSET Known /\ doubtful' \in SUBSET Known
    BY <1>1, SessionFacts
  <2> QED BY <2>2, <2>3, <1>1, <1>2, SessionBecomes
<1>5. DrainOK'
  BY <1>1, <1>2, GoesOK, DrainKeeps DEF SyncInv
<1> QED BY <1>1, <1>2, <1>3, <1>4, <1>5, RestKeeps DEF SyncInv

\* A step of the script leaves the rest to the agent and the controller.
LEMMA ScriptSteps ==
  ASSUME SyncInv, UNCHANGED <<storeVars, handlerVars, agentVars>>, Go, StoreOK', SessionOK'
  PROVE  SyncInv'
<1>1. /\ request' = request /\ turns' = turns /\ drain' = drain /\ inbox' = inbox
      /\ operator' = operator /\ Len(syncs') = Len(syncs) /\ UNCHANGED agentVars
  BY DEF handlerVars, requestVars, taskVars, storeVars
<1> QED BY <1>1, RestKeeps DEF SyncInv

LEMMA ScriptStore ==
  ASSUME SyncInv, UNCHANGED <<dataVars, storeVars, handlerVars>>, troubles' \in 0..MaxTroubles,
         doubtful \subseteq doubtful'
  PROVE  /\ StoreOK' /\ Go /\ Known' = Known /\ \A i : Earned(i) => Earned(i)'
<1>1. wanted' = wanted /\ followUps' = followUps
  BY DEF handlerVars, requestVars, taskVars
<1>2. wanted' \in SUBSET VMs /\ followUps' \in SUBSET Known
  BY <1>1 DEF SyncInv, StoreOK
<1> QED BY <1>2, StoreStays

\* What a transfer copied is covered, be it that of a script or one that was left behind.
LEMMA LandsOK ==
  ASSUME SyncInv, NEW j \in Known, UNCHANGED <<landed, storeVars, handlerVars, troubles, doubtful>>,
         Lands(j)
  PROVE  /\ StoreOK' /\ Go /\ Known' = Known
         /\ syncs[j].asked <= walked[j] => Earned(j)'
<1> DEFINE vm == syncs[j].vm
<1>1. /\ wanted' = wanted /\ followUps' = followUps /\ syncs' = syncs /\ touched' = touched
      /\ Known' = Known /\ troubles' = troubles /\ landed' = landed /\ doubtful' = doubtful
  BY DEF handlerVars, requestVars, taskVars, storeVars, Known
<1>2. walked[j] \in 0..MaxLanded
  BY SessionFacts
<1>3. /\ vm \in VMs /\ syncs[j].asked \in 0..MaxLanded /\ copy[vm] \in 0..MaxLanded
      /\ MaxLanded \in Nat /\ Len(syncs) \in Nat /\ MaxJobs \in Nat
  BY JobType, OffsiteAssumption DEF SyncInv, StoreOK, Known
<1>4. PICK c : c = IF copy[vm] < walked[j] THEN walked[j] ELSE copy[vm]
  OBVIOUS
<1>5. c \in 0..MaxLanded /\ copy[vm] <= c /\ walked[j] <= c
  BY <1>2, <1>3, <1>4
<1>6. copy' = [copy EXCEPT ![vm] = c]
  BY <1>4 DEF Lands
<1>7. copy' \in [VMs -> 0..MaxLanded] /\ copy'[vm] = c
  BY <1>3, <1>5, <1>6 DEF SyncInv, StoreOK
<1>8. \A v \in VMs : copy[v] <= copy'[v] /\ landed[v] <= landed'[v]
  BY <1>1, <1>3, <1>5, <1>6 DEF SyncInv, StoreOK
<1>9. Go
  BY <1>1, <1>3, <1>7, <1>8 DEF Go, SyncInv, StoreOK
<1>10. \A i \in Known : Earned(i) => Earned(i)'
  BY <1>9, GoFacts DEF SyncInv
<1>11. StoreOK'
  BY <1>1, <1>7, <1>10 DEF SyncInv, StoreOK
<1>12. syncs[j].asked <= walked[j] => Earned(j)'
  BY <1>1, <1>2, <1>3, <1>5, <1>7 DEF Earned
<1> QED BY <1>1, <1>9, <1>11, <1>12

LEMMA ScriptStartsInv ==
  ASSUME SyncInv, NEW j \in Known, ScriptStarts(j)
  PROVE  SyncInv'
<1>1. /\ UNCHANGED <<dataVars, storeVars, handlerVars, agentVars, orphans, doubtful, troubles>>
      /\ script[j] = "new" /\ events' = [events EXCEPT ![j] = "none"]
      /\ newest' = [newest EXCEPT ![syncs[j].vm] = j]
  BY DEF ScriptStarts, WritesEvents
<1>2. StoreOK' /\ Go /\ Known' = Known /\ \A i : Earned(i) => Earned(i)'
  BY <1>1, ScriptStore DEF SyncInv, StoreOK
<1>3. syncs[j].vm \in VMs /\ syncs[j].asked <= landed[syncs[j].vm]
  BY JobType DEF SyncInv, StoreOK, Known
<1>4. landed[syncs[j].vm] \in 0..MaxLanded
  BY <1>3 DEF SyncInv, StoreOK
<1>5. orphans' \in SUBSET Known /\ doubtful' \in SUBSET Known
  BY <1>1, SessionFacts
<1>6. CASE /\ script' = [script EXCEPT ![j] = "over"]
           /\ exitCode' = [exitCode EXCEPT ![j] = "busy"] /\ UNCHANGED walked
  <2>1. walked' = [walked EXCEPT ![j] = walked[j]] /\ walked[j] \in 0..MaxLanded
    BY <1>6, SessionFacts
  <2>2. SessionOK'
    BY <1>1, <1>2, <1>5, <1>6, <2>1, SessionBecomes
  <2> QED BY <1>1, <1>2, <2>2, ScriptSteps
<1>7. CASE /\ script' = [script EXCEPT ![j] = "copying"]
           /\ walked' = [walked EXCEPT ![j] = landed[syncs[j].vm]] /\ UNCHANGED exitCode
  <2>1. /\ exitCode' = [exitCode EXCEPT ![j] = exitCode[j]]
        /\ exitCode[j] \in {"none", "zero", "error", "busy"}
        /\ exitCode[j] = "zero" => Earned(j)'
    BY <1>2, <1>7, SessionFacts
  <2>2. "copying" \in Working
    BY DEF Working
  <2>3. SessionOK'
    BY <1>1, <1>2, <1>3, <1>4, <1>5, <1>7, <2>1, <2>2, SessionBecomes
  <2> QED BY <1>1, <1>2, <2>3, ScriptSteps
<1> QED BY <1>6, <1>7 DEF ScriptStarts

\* The rest of the session of a job is as it was.
SessionWaits(j) ==
  /\ walked' = [walked EXCEPT ![j] = walked[j]] /\ exitCode' = [exitCode EXCEPT ![j] = exitCode[j]]
  /\ events' = [events EXCEPT ![j] = events[j]]

\* The script goes on, and nothing else of its session changes.
LEMMA ScriptMoves ==
  ASSUME SyncInv, Go, Known' = Known, NEW j \in Known, NEW st \in Working,
         script' = [script EXCEPT ![j] = st], SessionWaits(j), newest' = newest,
         st # "copying", st \in {"copied", "skipped", "zero"} => Earned(j)',
         script[j] # "failed", orphans' \in SUBSET Known, doubtful' \in SUBSET Known
  PROVE  SessionOK'
<1>1. Earned(j) => Earned(j)'
  BY GoFacts DEF SyncInv
<1>2. /\ walked[j] \in 0..MaxLanded /\ exitCode[j] \in {"none", "zero", "error", "busy"}
      /\ events[j] \in {"none", "good", "old"}
      /\ exitCode[j] = "zero" => Earned(j)'
      /\ events[j] = "good" => Earned(j)'
  BY <1>1, SessionFacts
<1>3. /\ walked' = [walked EXCEPT ![j] = walked[j]] /\ exitCode' = [exitCode EXCEPT ![j] = exitCode[j]]
      /\ events' = [events EXCEPT ![j] = events[j]]
  BY DEF SessionWaits
<1> QED BY <1>2, <1>3, SessionBecomes

LEMMA ScriptCopiesInv ==
  ASSUME SyncInv, NEW j \in Known, ScriptCopies(j)
  PROVE  SyncInv'
<1>1. /\ UNCHANGED <<landed, storeVars, handlerVars, agentVars, troubles>>
      /\ UNCHANGED <<walked, exitCode, events, newest, orphans>> /\ script[j] = "copying"
  BY DEF ScriptCopies
<1>2. syncs[j].asked <= walked[j] /\ doubtful \in SUBSET Known /\ orphans' \in SUBSET Known
      /\ newest' = newest /\ SessionWaits(j)
  BY <1>1, SessionFacts DEF SessionWaits
<1>3. CASE Lands(j) /\ script' = [script EXCEPT ![j] = "copied"] /\ UNCHANGED doubtful
  <2>1. StoreOK' /\ Go /\ Known' = Known /\ Earned(j)'
    BY <1>1, <1>2, <1>3, LandsOK
  <2>2. "copied" \in Working /\ doubtful' \in SUBSET Known
    BY <1>2, <1>3 DEF Working
  <2>3. SessionOK'
    BY <1>1, <1>2, <1>3, <2>1, <2>2, ScriptMoves
  <2> QED BY <1>1, <2>1, <2>3, ScriptSteps
<1>4. CASE /\ UNCHANGED copy /\ script' = [script EXCEPT ![j] = "skipped"]
           /\ doubtful' = doubtful \cup {j}
  <2>1. UNCHANGED dataVars /\ troubles' = troubles
    BY <1>1, <1>4 DEF dataVars
  <2>2. StoreOK' /\ Go /\ Known' = Known
    BY <1>1, <1>4, <2>1, ScriptStore DEF SyncInv, StoreOK
  <2>3. Earned(j)' /\ doubtful' \in SUBSET Known /\ "skipped" \in Working
    BY <1>2, <1>4 DEF Earned, Working
  <2>4. SessionOK'
    BY <1>1, <1>2, <1>4, <2>2, <2>3, ScriptMoves
  <2> QED BY <1>1, <2>2, <2>4, ScriptSteps
<1> QED BY <1>3, <1>4 DEF ScriptCopies

LEMMA ScriptMissesInv ==
  ASSUME SyncInv, NEW j \in Known, ScriptMisses(j)
  PROVE  SyncInv'
<1>1. /\ UNCHANGED <<dataVars, storeVars, handlerVars, agentVars>>
      /\ UNCHANGED <<walked, exitCode, events, newest, orphans>> /\ script[j] = "copying"
      /\ doubtful' = doubtful /\ script' = [script EXCEPT ![j] = "failed"]
  BY DEF ScriptMisses
<1>2. troubles' \in 0..MaxTroubles
  BY TroubleCounts DEF SyncInv, ScriptMisses
<1>3. StoreOK' /\ Go /\ Known' = Known
  BY <1>1, <1>2, ScriptStore
<1>4. /\ "failed" \in Working /\ doubtful' \in SUBSET Known /\ orphans' \in SUBSET Known
      /\ newest' = newest /\ SessionWaits(j)
  BY <1>1, SessionFacts DEF Working, SessionWaits
<1>5. SessionOK'
  BY <1>1, <1>3, <1>4, ScriptMoves
<1> QED BY <1>1, <1>3, <1>5, ScriptSteps

\* A target is recorded.
LEMMA RecordsOK ==
  ASSUME SyncInv, Go, Known' = Known, NEW j \in Known, NEW st \in Working,
         NEW ev \in {"none", "good"}, script' = [script EXCEPT ![j] = st], WritesEvents(j, ev),
         UNCHANGED <<walked, exitCode, orphans, doubtful>>, st # "copying",
         st \in {"copied", "skipped", "zero"} => Earned(j)',
         ev = "good" => Earned(j)' \/ st = "failed"
  PROVE  SessionOK'
<1>1. /\ walked' = [walked EXCEPT ![j] = walked[j]] /\ exitCode' = [exitCode EXCEPT ![j] = exitCode[j]]
      /\ orphans' \in SUBSET Known /\ doubtful' \in SUBSET Known
      /\ events' = [events EXCEPT ![j] = ev] /\ newest' = [newest EXCEPT ![syncs[j].vm] = j]
  BY SessionFacts DEF WritesEvents
<1>2. Earned(j) => Earned(j)'
  BY GoFacts DEF SyncInv
<1>3. /\ walked[j] \in 0..MaxLanded /\ exitCode[j] \in {"none", "zero", "error", "busy"}
      /\ exitCode[j] = "zero" => Earned(j)'
  BY <1>2, SessionFacts
<1> QED BY <1>1, <1>3, SessionBecomes

LEMMA ScriptRecordsInv ==
  ASSUME SyncInv, NEW j \in Known, ScriptRecords(j)
  PROVE  SyncInv'
<1>1. UNCHANGED <<dataVars, storeVars, handlerVars, agentVars, walked, exitCode, orphans, doubtful,
                  troubles>>
  BY DEF ScriptRecords
<1>2. StoreOK' /\ Go /\ Known' = Known /\ \A i : Earned(i) => Earned(i)'
  BY <1>1, ScriptStore DEF SyncInv, StoreOK
<1>3. PICK st \in Working, ev \in {"none", "good"} :
        /\ script' = [script EXCEPT ![j] = st] /\ WritesEvents(j, ev) /\ st # "copying"
        /\ st \in {"copied", "skipped", "zero"} => Earned(j)
        /\ ev = "good" => Earned(j) \/ st = "failed"
  <2>1. CASE /\ script[j] = "copied" /\ WritesEvents(j, "good")
             /\ script' = [script EXCEPT ![j] = "zero"]
    BY <2>1, SessionFacts DEF Working
  <2>2. CASE /\ script[j] \in {"failed", "skipped"} /\ WritesEvents(j, "none")
             /\ script' = [script EXCEPT ![j] = IF @ = "failed" THEN "error" ELSE "zero"]
    <3>1. PICK st : st = IF script[j] = "failed" THEN "error" ELSE "zero"
      OBVIOUS
    <3>2. st \in Working /\ st # "copying" /\ (st \in {"copied", "skipped", "zero"} => Earned(j))
      BY <2>2, <3>1, SessionFacts DEF Working
    <3> QED BY <2>2, <3>1, <3>2
  <2>3. CASE script[j] \in {"failed", "skipped"} /\ WritesEvents(j, "good") /\ UNCHANGED script
    <3>1. script' = [script EXCEPT ![j] = script[j]] /\ script[j] \in Working
      BY <2>3, SessionFacts DEF Working
    <3>2. script[j] = "skipped" => Earned(j)
      BY SessionFacts
    <3> QED BY <2>3, <3>1, <3>2
  <2> QED BY <2>1, <2>2, <2>3 DEF ScriptRecords
<1>4. SessionOK'
  BY <1>1, <1>2, <1>3, RecordsOK
<1> QED BY <1>1, <1>2, <1>4, ScriptSteps

LEMMA ScriptEndsInv ==
  ASSUME SyncInv, NEW j \in Known, ScriptEnds(j)
  PROVE  SyncInv'
<1>1. /\ UNCHANGED <<dataVars, storeVars, handlerVars, agentVars, walked, events, newest, orphans,
                     doubtful, troubles>>
      /\ script[j] \in {"zero", "error"} /\ exitCode' = [exitCode EXCEPT ![j] = script[j]]
      /\ script' = [script EXCEPT ![j] = "over"]
  BY DEF ScriptEnds
<1>2. StoreOK' /\ Go /\ Known' = Known /\ \A i : Earned(i) => Earned(i)'
  BY <1>1, ScriptStore DEF SyncInv, StoreOK
<1>3. /\ walked' = [walked EXCEPT ![j] = walked[j]] /\ walked[j] \in 0..MaxLanded
      /\ events' = [events EXCEPT ![j] = events[j]] /\ events[j] \in {"none", "good", "old"}
      /\ orphans' \in SUBSET Known /\ doubtful' \in SUBSET Known
      /\ script[j] = "zero" => Earned(j)'
      /\ events[j] = "good" => Earned(j)'
  BY <1>1, <1>2, SessionFacts
<1>4. SessionOK'
  BY <1>1, <1>2, <1>3, SessionBecomes
<1> QED BY <1>1, <1>2, <1>4, ScriptSteps

\* The session ends without an exit code, and a failure whose successes are all there is is a doubt.
LEMMA DiesOK ==
  ASSUME SyncInv, Go, Known' = Known, NEW j \in Known, SessionDies(j), UNCHANGED <<walked, exitCode>>,
         orphans' \in SUBSET Known
  PROVE  SessionOK'
<1>1. PICK ev \in {"none", "good", "old"} :
        /\ events' = [events EXCEPT ![j] = ev] /\ (ev = "good" => events[j] = "good")
        /\ newest' = newest \/ newest' = [newest EXCEPT ![syncs[j].vm] = j]
  <2>1. CASE UNCHANGED <<events, newest>>
    BY <2>1, SessionFacts
  <2>2. CASE WritesEvents(j, IF script[j] = "new" THEN "none" ELSE events[j])
    <3>1. PICK ev : ev = IF script[j] = "new" THEN "none" ELSE events[j]
      OBVIOUS
    <3>2. ev \in {"none", "good", "old"} /\ (ev = "good" => events[j] = "good")
      BY <3>1, SessionFacts
    <3> QED BY <2>2, <3>1, <3>2 DEF WritesEvents
  <2> QED BY <2>1, <2>2 DEF SessionDies
<1>2. doubtful' = doubtful \/ doubtful' = doubtful \cup {j}
  BY DEF SessionDies
<1>3. doubtful' \in SUBSET Known
  BY <1>2, SessionFacts
<1>4. Earned(j) => Earned(j)'
  BY GoFacts DEF SyncInv
<1>5. ev = "good" => Earned(j)'
  <2>1. CASE events[j] = "good" /\ script[j] = "failed"
    <3>1. j \in doubtful'
      BY <2>1 DEF SessionDies
    <3> QED BY <3>1 DEF Earned
  <2> QED BY <1>1, <1>4, <2>1, SessionFacts
<1>6. /\ script' = [script EXCEPT ![j] = "over"]
      /\ walked' = [walked EXCEPT ![j] = walked[j]] /\ walked[j] \in 0..MaxLanded
      /\ exitCode' = [exitCode EXCEPT ![j] = exitCode[j]]
      /\ exitCode[j] \in {"none", "zero", "error", "busy"}
      /\ exitCode[j] = "zero" => Earned(j)'
  BY <1>4, SessionFacts DEF SessionDies
<1>7. PICK st \in {"none", "new", "over"}, w \in 0..MaxLanded,
           code \in {"none", "zero", "error", "busy"} :
             st = "over" /\ w = walked[j] /\ code = exitCode[j]
  BY <1>6
<1>8. /\ st = "copying" => syncs[j].asked <= w
      /\ st \in {"copied", "skipped", "zero"} \/ code = "zero" => Earned(j)'
      /\ ev = "good" => Earned(j)' \/ st = "failed"
  BY <1>5, <1>6, <1>7
<1>9. /\ script' = [script EXCEPT ![j] = st] /\ walked' = [walked EXCEPT ![j] = w]
      /\ exitCode' = [exitCode EXCEPT ![j] = code]
  BY <1>6, <1>7
<1> QED BY <1>1, <1>3, <1>7, <1>8, <1>9, SessionBecomes

LEMMA ScriptIsKilledInv ==
  ASSUME SyncInv, NEW j \in Known, ScriptIsKilled(j)
  PROVE  SyncInv'
<1>1. /\ UNCHANGED <<dataVars, storeVars, handlerVars, agentVars, walked, exitCode>>
      /\ SessionDies(j)
      /\ orphans' = orphans \/ orphans' = orphans \cup {j}
  BY DEF ScriptIsKilled
<1>2. troubles' \in 0..MaxTroubles
  <2>1. Trouble("kill") \/ Trouble("orphan")
    BY DEF ScriptIsKilled
  <2> QED BY <2>1, TroubleCounts DEF SyncInv
<1>3. doubtful \subseteq doubtful'
  BY <1>1 DEF SessionDies
<1>4. StoreOK' /\ Go /\ Known' = Known
  BY <1>1, <1>2, <1>3, ScriptStore
<1>5. orphans' \in SUBSET Known
  BY <1>1, SessionFacts DEF ScriptIsKilled
<1>6. SessionOK'
  BY <1>1, <1>4, <1>5, DiesOK
<1> QED BY <1>1, <1>4, <1>6, ScriptSteps

LEMMA OrphanEndsInv ==
  ASSUME SyncInv, NEW j \in Known, OrphanEnds(j)
  PROVE  SyncInv'
<1>1. /\ UNCHANGED <<landed, storeVars, handlerVars, agentVars, troubles, doubtful>>
      /\ UNCHANGED <<script, walked, exitCode, events, newest>> /\ orphans' = orphans \ {j}
  BY DEF OrphanEnds
<1>2. StoreOK' /\ Go /\ Known' = Known
  <2>1. CASE Lands(j)
    BY <1>1, <2>1, LandsOK
  <2>2. CASE UNCHANGED copy
    <3>1. UNCHANGED dataVars
      BY <1>1, <2>2 DEF dataVars
    <3> QED BY <1>1, <3>1, ScriptStore DEF SyncInv, StoreOK
  <2> QED BY <2>1, <2>2 DEF OrphanEnds
<1>3. orphans' \in SUBSET Known' /\ doubtful' \in SUBSET Known'
  BY <1>1, <1>2, SessionFacts
<1>4. SessionOK'
  BY <1>1, <1>2, <1>3, SessionStays DEF SyncInv
<1> QED BY <1>1, <1>2, <1>4, ScriptSteps

\* The agent reports a copy only when there is one, or the file it judges by is not that of the
\* run and the job becomes doubtful.
LEMMA OutcomesOK ==
  ASSUME SyncInv, NEW j \in Known, NEW st \in Outcomes(j)
  PROVE  /\ st \in Verdicts
         /\ st = "completed" => \/ exitCode[j] = "zero" /\ Earned(j)
                                \/ exitCode[j] = "none" /\ (OwnFile(j) => events[j] = "good")
<1> DEFINE n == newest[syncs[j].vm]
<1>1. /\ exitCode[j] \in {"none", "zero", "error", "busy"}
      /\ exitCode[j] = "zero" => Earned(j)
      /\ events[j] \in {"none", "good", "old"}
  BY SessionFacts
<1>2. CASE exitCode[j] = "busy"
  BY <1>2 DEF Outcomes, Verdicts
<1>3. CASE exitCode[j] = "zero"
  BY <1>1, <1>3 DEF Outcomes, Verdicts
<1>4. CASE exitCode[j] = "none" /\ n # 0 /\ events[n] # "none"
  <2>1. st \in {"completed", "failed"}
    BY <1>4 DEF Outcomes
  <2>2. OwnFile(j) => events[j] = "good"
    BY <1>1, <1>4 DEF OwnFile
  <2> QED BY <1>4, <2>1, <2>2 DEF Verdicts
<1>5. CASE exitCode[j] = "error" \/ (exitCode[j] = "none" /\ ~(n # 0 /\ events[n] # "none"))
  <2>1. st = "failed"
    BY <1>5 DEF Outcomes
  <2> QED BY <2>1 DEF Verdicts
<1> QED BY <1>1, <1>2, <1>3, <1>4, <1>5

LEMMA MonitorSettlesInv ==
  ASSUME SyncInv, NEW j \in Known, NEW a \in Attempts, MonitorSettles(j, a)
  PROVE  SyncInv'
<1>1. /\ UNCHANGED <<dataVars, storeVars, requestVars, turns, drain, taskVars, tracked,
                     stateFiles, agentOld, script, walked, exitCode, events, newest, orphans,
                     troubles>>
      /\ wanted' = wanted /\ request' = request /\ followUps' = followUps /\ operator' = operator
      /\ ~Alive(j)
      /\ doubtful' = IF exitCode[j] = "none" /\ ~OwnFile(j) THEN doubtful \cup {j} ELSE doubtful
  BY DEF MonitorSettles, requestVars, taskVars
<1>2. PICK st \in Outcomes(j) : /\ monitor' = [monitor EXCEPT ![j][a] = st]
                                /\ inbox' = inbox \cup {Post(j, a, st, "agent")}
  BY DEF MonitorSettles
<1>3. doubtful \subseteq doubtful' /\ doubtful' \in SUBSET Known /\ orphans' \in SUBSET Known
  BY <1>1, SessionFacts
<1>4. /\ StoreOK' /\ Go /\ Known' = Known /\ Len(syncs') = Len(syncs)
      /\ \A i : Earned(i) => Earned(i)'
  BY <1>1, <1>3, StoreStays DEF SyncInv, StoreOK
<1>5. st \in Verdicts /\ (st = "completed" => Earned(j)')
  <2>1. CASE st = "completed" /\ exitCode[j] = "zero"
    BY <2>1, <1>4, OutcomesOK
  <2>2. CASE st = "completed" /\ exitCode[j] = "none" /\ ~OwnFile(j)
    BY <2>2, <1>1, OutcomesOK DEF Earned
  <2>3. CASE st = "completed" /\ exitCode[j] = "none" /\ OwnFile(j)
    <3>1. events[j] = "good"
      BY <2>3, OutcomesOK
    <3>2. script[j] # "failed"
      BY <1>1 DEF Alive, Working
    <3> QED BY <2>3, <3>1, <3>2, <1>4, SessionFacts, OutcomesOK
  <2> QED BY <2>1, <2>2, <2>3, OutcomesOK
<1>6. AgentOK'
  BY <1>1, <1>2, <1>4, <1>5, MonitorOK DEF SyncInv, AgentOK
<1>7. InboxOK'
  BY <1>2, <1>4, <1>5, PostOK
<1>8. SessionOK'
  BY <1>1, <1>3, <1>4, SessionStays DEF SyncInv
<1> QED BY <1>1, <1>4, <1>6, <1>7, <1>8, RestKeeps DEF SyncInv

LEMMA AgentPostsInv ==
  ASSUME SyncInv, NEW j \in Known, NEW a \in Attempts, AgentPosts(j, a)
  PROVE  SyncInv'
<1>1. /\ UNCHANGED <<dataVars, storeVars, requestVars, turns, drain, taskVars, agentVars,
                     sessionVars, troubles>>
      /\ wanted' = wanted /\ request' = request /\ followUps' = followUps /\ operator' = operator
  BY DEF AgentPosts, requestVars, taskVars
<1>2. /\ StoreOK' /\ Go /\ Known' = Known /\ Len(syncs') = Len(syncs)
      /\ \A i : Earned(i) => Earned(i)'
  BY <1>1, StoreStays DEF SyncInv, StoreOK
<1>3. InboxOK'
  <2>1. CASE monitor[j][a] \in Verdicts
    <3>1. PICK st : st = monitor[j][a]
      OBVIOUS
    <3>2. inbox' = inbox \cup {Post(j, a, st, "agent")}
      BY <2>1, <3>1 DEF AgentPosts
    <3>3. st = "completed" => Earned(j)
      BY <3>1, KnownIds DEF SyncInv, AgentOK
    <3> QED BY <2>1, <3>1, <3>2, <3>3, <1>2, PostOK
  <2>2. CASE monitor[j][a] \notin Verdicts /\ monitor[j][a] = "watching" /\ syncs[j].status = "queued"
    <3>1. inbox' = inbox \cup {Post(j, a, "running", "agent")}
      BY <2>2 DEF AgentPosts
    <3> QED BY <3>1, <1>2, PostOK
  <2>3. CASE monitor[j][a] \notin Verdicts /\ ~(monitor[j][a] = "watching" /\ syncs[j].status = "queued")
    <3>1. inbox' = inbox
      BY <2>3 DEF AgentPosts
    <3> QED BY <3>1, <1>2, InboxKeeps DEF SyncInv
  <2> QED BY <2>1, <2>2, <2>3
<1> QED BY <1>1, <1>2, <1>3, RestKeeps DEF SyncInv

\* The agent forgets a run.
LEMMA ForgetOK ==
  ASSUME SyncInv, Known' = Known, \A i : Earned(i) => Earned(i)', NEW j \in Known,
         NEW a \in Attempts, Forget(j, a)
  PROVE  AgentOK'
<1>1. /\ monitor' = [monitor EXCEPT ![j][a] = "none"]
      /\ tracked' \in SUBSET Known /\ stateFiles' \in SUBSET Known /\ agentOld' \in BOOLEAN
  BY DEF Forget, SyncInv, AgentOK
<1> QED BY <1>1, MonitorOK

LEMMA AgentGivesUpInv ==
  ASSUME SyncInv, NEW j \in Known, NEW a \in Attempts, AgentGivesUp(j, a)
  PROVE  SyncInv'
<1>1. /\ UNCHANGED <<dataVars, storeVars, requestVars, turns, drain, taskVars, sessionVars>>
      /\ wanted' = wanted /\ request' = request /\ followUps' = followUps /\ operator' = operator
      /\ inbox' \subseteq inbox /\ Forget(j, a)
  BY DEF AgentGivesUp, requestVars, taskVars
<1>2. troubles' \in 0..MaxTroubles
  BY TroubleCounts DEF SyncInv, AgentGivesUp
<1>3. /\ StoreOK' /\ Go /\ Known' = Known /\ Len(syncs') = Len(syncs)
      /\ \A i : Earned(i) => Earned(i)'
  BY <1>1, <1>2, StoreStays DEF SyncInv, StoreOK
<1>4. AgentOK'
  BY <1>1, <1>3, ForgetOK
<1> QED BY <1>1, <1>3, <1>4, RestKeeps DEF SyncInv

LEMMA AgentRestartsInv ==
  ASSUME SyncInv, AgentRestarts
  PROVE  SyncInv'
<1>1. /\ UNCHANGED <<dataVars, storeVars, requestVars, turns, inbox, taskVars, stateFiles,
                     agentOld, sessionVars>>
      /\ wanted' = wanted /\ request' = request /\ followUps' = followUps /\ operator' = operator
      /\ tracked' = {} /\ monitor' = [j \in JobIds |-> [a \in Attempts |-> "none"]]
      /\ (drain.step = "accepted" /\ Goes("broken")) \/ drain' = drain
  BY DEF AgentRestarts, requestVars, taskVars
<1>2. troubles' \in 0..MaxTroubles
  BY TroubleCounts DEF SyncInv, AgentRestarts
<1>3. /\ StoreOK' /\ Go /\ Known' = Known /\ Len(syncs') = Len(syncs)
      /\ \A i : Earned(i) => Earned(i)'
  BY <1>1, <1>2, StoreStays DEF SyncInv, StoreOK
<1>4. DrainOK'
  BY <1>1, <1>3, GoesOK, DrainKeeps DEF SyncInv, DrainOK, StartSteps
<1>5. AgentOK'
  BY <1>1, <1>3 DEF SyncInv, AgentOK
<1> QED BY <1>1, <1>3, <1>4, <1>5, RestKeeps DEF SyncInv

LEMMA AgentRecoversInv ==
  ASSUME SyncInv, NEW j \in Known, AgentRecovers(j)
  PROVE  SyncInv'
<1> DEFINE a == syncs[j].attempt
<1>1. /\ UNCHANGED <<dataVars, storeVars, handlerVars, stateFiles, agentOld, sessionVars, troubles>>
      /\ wanted' = wanted /\ request' = request /\ followUps' = followUps /\ operator' = operator
      /\ turns' = turns /\ drain' = drain /\ inbox' = inbox
      /\ tracked' = tracked \/ tracked' = tracked \cup {j}
  BY DEF AgentRecovers, handlerVars, requestVars, taskVars
<1>2. /\ StoreOK' /\ Go /\ Known' = Known /\ Len(syncs') = Len(syncs)
      /\ \A i : Earned(i) => Earned(i)'
  BY <1>1, StoreStays DEF SyncInv, StoreOK
<1>3. a \in Attempts
  BY JobType DEF SyncInv, StoreOK, Known
<1>4. PICK st \in Verdicts \cup {"watching"} :
        monitor' = [monitor EXCEPT ![j][a] = st] /\ (st = "completed" => Earned(j))
  <2>2. CASE monitor' = [monitor EXCEPT ![j][a] = "watching"]
    <3>1. "watching" # "completed" /\ "watching" \in Verdicts \cup {"watching"}
      OBVIOUS
    <3> QED BY <2>2, <3>1
  <2>3. CASE \E verdict \in IF exitCode[j] = "none" THEN {"failed"} ELSE Outcomes(j) :
               monitor' = [monitor EXCEPT ![j][a] = verdict]
    <3>1. CASE exitCode[j] = "none"
      BY <2>3, <3>1 DEF Verdicts
    <3>2. CASE exitCode[j] # "none"
      <4>1. PICK verdict \in Outcomes(j) : monitor' = [monitor EXCEPT ![j][a] = verdict]
        BY <2>3, <3>2
      <4>2. verdict \in Verdicts /\ (verdict = "completed" => Earned(j))
        BY <3>2, OutcomesOK
      <4> QED BY <4>1, <4>2
    <3> QED BY <3>1, <3>2
  <2> QED BY <2>2, <2>3 DEF AgentRecovers
<1>5. AgentOK'
  <2>1. tracked' \in SUBSET Known /\ stateFiles' \in SUBSET Known /\ agentOld' \in BOOLEAN
    BY <1>1 DEF SyncInv, AgentOK
  <2>2. st = "completed" => Earned(j)'
    BY <1>2, <1>4
  <2> QED BY <2>1, <2>2, <1>2, <1>3, <1>4, MonitorOK
<1> QED BY <1>1, <1>2, <1>5, RestKeeps DEF SyncInv

LEMMA AgentIsUpgradedInv ==
  ASSUME SyncInv, AgentIsUpgraded
  PROVE  SyncInv'
<1>1. /\ UNCHANGED <<dataVars, storeVars, handlerVars, tracked, stateFiles, monitor, sessionVars,
                     troubles>>
      /\ wanted' = wanted /\ request' = request /\ followUps' = followUps /\ operator' = operator
      /\ turns' = turns /\ drain' = drain /\ inbox' = inbox /\ agentOld' = FALSE
  BY DEF AgentIsUpgraded, handlerVars, requestVars, taskVars
<1>2. /\ StoreOK' /\ Go /\ Known' = Known /\ Len(syncs') = Len(syncs)
      /\ \A i : Earned(i) => Earned(i)'
  BY <1>1, StoreStays DEF SyncInv, StoreOK
<1>3. AgentOK'
  BY <1>1, <1>2 DEF SyncInv, AgentOK
<1> QED BY <1>1, <1>2, <1>3, RestKeeps DEF SyncInv

-----------------------------------------------------------------------------
(* Posts, operators and boots *)

LEMMA AnswersCount ==
  ASSUME SyncInv, NEW p, Answers(p)
  PROVE  troubles' \in 0..MaxTroubles
<1>1. troubles' = troubles \/ Trouble("unheard")
  BY DEF Answers
<1> QED BY <1>1, TroubleCounts DEF SyncInv, StoreOK

LEMMA AnswersOK ==
  ASSUME SyncInv, Go, Known' = Known, \A i \in Known : Earned(i) => Earned(i)', NEW p \in inbox,
         Answers(p)
  PROVE  AgentOK'
<1>1. p.job \in Known /\ p.attempt \in Attempts
  BY DEF SyncInv, InboxOK, PostRec
<1>2. UNCHANGED agentVars \/ Forget(p.job, p.attempt)
  BY DEF Answers
<1>3. CASE UNCHANGED agentVars
  BY <1>3, AgentKeeps DEF SyncInv
<1>4. CASE Forget(p.job, p.attempt)
  <2>1. /\ monitor' = [monitor EXCEPT ![p.job][p.attempt] = "none"]
        /\ tracked' \in SUBSET Known /\ stateFiles' \in SUBSET Known /\ agentOld' \in BOOLEAN
    BY <1>4 DEF Forget, SyncInv, AgentOK
  <2>2. p.job \in JobIds
    BY <1>1, KnownIds DEF SyncInv
  <2>3. monitor' \in [JobIds -> [Attempts -> Verdicts \cup {"none", "launching", "watching"}]]
    BY <1>1, <2>1, <2>2 DEF SyncInv, AgentOK
  <2>4. \A i \in JobIds, b \in Attempts : monitor'[i][b] = monitor[i][b] \/ monitor'[i][b] = "none"
    BY <1>1, <2>1, <2>2 DEF SyncInv, AgentOK
  <2>5. \A i \in JobIds, b \in Attempts : /\ monitor'[i][b] # "none" => i \in Known
                                          /\ monitor'[i][b] = "completed" => Earned(i)'
    BY <2>4 DEF SyncInv, AgentOK
  <2> QED BY <2>1, <2>3, <2>5 DEF AgentOK
<1> QED BY <1>2, <1>3, <1>4

LEMMA PostTurnType ==
  ASSUME SyncInv, NEW p \in inbox
  PROVE  PostTurn(p) \in Turns
<1>1. /\ p.from \in {"agent", "reconcile"} /\ p.job \in JobIds /\ p.attempt \in Attempts
      /\ p.status \in Verdicts \cup {"running"}
  BY DEF SyncInv, InboxOK, PostRec
<1>2. p.job \in Nat /\ p.attempt \in Nat
  BY <1>1 DEF JobIds, Attempts
<1> QED BY <1>1, <1>2 DEF PostTurn, Turns

LEMMA HandlerReadsInv ==
  ASSUME SyncInv, NEW p \in inbox, HandlerReads(p)
  PROVE  SyncInv'
<1> DEFINE status == syncs[p.job].status
<1>1. /\ UNCHANGED <<dataVars, storeVars, requestVars, drain, taskVars, sessionVars>>
      /\ wanted' = wanted /\ request' = request /\ followUps' = followUps /\ operator' = operator
  BY DEF HandlerReads, requestVars, taskVars
<1>2. p.job \in Known /\ p \in PostRec /\ (p.status = "completed" => Earned(p.job))
  BY DEF SyncInv, InboxOK
<1>3. CASE status \in Terminal /\ inbox' = inbox \ {p} /\ Answers(p) /\ UNCHANGED turns
  <2>1. troubles' \in 0..MaxTroubles
    BY <1>3, AnswersCount
  <2>2. /\ StoreOK' /\ Go /\ Known' = Known /\ Len(syncs') = Len(syncs)
        /\ \A i : Earned(i) => Earned(i)'
    BY <1>1, <2>1, StoreStays DEF SyncInv, StoreOK
  <2>3. AgentOK'
    BY <1>3, <2>2, AnswersOK
  <2> QED BY <1>1, <1>3, <2>2, <2>3, RestKeeps DEF SyncInv
<1>4. CASE /\ status \notin Terminal /\ inbox' = (inbox \ {p}) \cup {[p EXCEPT !.read = status]}
           /\ turns' = Append(turns, PostTurn(p)) /\ UNCHANGED <<agentVars, troubles>>
  <2>1. /\ StoreOK' /\ Go /\ Known' = Known /\ Len(syncs') = Len(syncs)
        /\ \A i : Earned(i) => Earned(i)'
    BY <1>1, <1>4, StoreStays DEF SyncInv, StoreOK
  <2>2. status \in {"queued", "running"}
    BY <1>2, <1>4, JobType DEF SyncInv, StoreOK, Known
  <2>3. PICK q : q = [p EXCEPT !.read = status]
    OBVIOUS
  <2>4. q \in PostRec /\ q.job = p.job /\ q.status = p.status
    BY <1>2, <2>2, <2>3 DEF PostRec
  <2>5. inbox' = (inbox \ {p}) \cup {q}
    BY <1>4, <2>3
  <2>6. InboxOK'
    BY <1>2, <2>1, <2>4, <2>5 DEF SyncInv, InboxOK
  <2>7. TurnsOK'
    BY <1>4, PostTurnType, TurnsKeep DEF SyncInv
  <2> QED BY <1>1, <1>4, <2>1, <2>6, <2>7, RestKeeps DEF SyncInv
<1> QED BY <1>3, <1>4 DEF HandlerReads

LEMMA HandlerWritesInv ==
  ASSUME SyncInv, NEW p \in inbox, HandlerWrites(p)
  PROVE  SyncInv'
<1>1. /\ UNCHANGED <<dataVars, touched, requestVars, operator, sessionVars>>
      /\ wanted' = wanted /\ request' = request
      /\ inbox' = inbox \ {p} /\ Finished(p.job, p.status) /\ Answers(p)
      /\ turns # <<>> /\ turns' = Tail(turns)
  BY DEF HandlerWrites, requestVars, Writes
<1>2. /\ p.job \in Known /\ p.status \in Verdicts \cup {"running"}
      /\ p.status = "completed" => Earned(p.job)
  BY DEF SyncInv, InboxOK, PostRec
<1>3. followUps' = followUps \/ followUps' = followUps \cup {p.job}
  BY DEF HandlerWrites
<1>4. troubles' \in 0..MaxTroubles
  BY <1>1, AnswersCount
<1>5. /\ StoreOK' /\ Go /\ Known' = Known /\ Len(syncs') = Len(syncs)
      /\ \A i \in Known : Earned(i) => Earned(i)'
  <2>1. p.status \in Terminal \cup {"queued", "running"}
    BY <1>2 DEF Terminal
  <2>2. followUps' \in SUBSET Known /\ wanted' \in SUBSET VMs /\ touched' \in SUBSET Known
    BY <1>1, <1>2, <1>3 DEF SyncInv, StoreOK
  <2> QED BY <1>1, <1>2, <1>4, <2>1, <2>2, FinishedOK
<1>6. AgentOK'
  BY <1>1, <1>5, AnswersOK
<1>7. TurnsOK'
  BY <1>1, TurnsKeep DEF SyncInv
<1>8. DrainOK'
  <2>1. drain' = drain \/ StartDrain(<<"verdict", p.job>>)
    BY DEF HandlerWrites
  <2>2. <<"verdict", p.job>> \in Callers \X Nat
    BY <1>2 DEF Callers, Known
  <2> QED BY <2>1, <2>2, <1>5, StartDrainKeeps, DrainKeeps DEF SyncInv
<1> QED BY <1>1, <1>5, <1>6, <1>7, <1>8, RestKeeps DEF SyncInv

LEMMA RunsFollowUpInv ==
  ASSUME SyncInv, NEW j \in Known, RunsFollowUp(j)
  PROVE  SyncInv'
<1>1. /\ UNCHANGED <<dataVars, touched, request, turns, drain, inbox, operator, agentVars,
                     sessionVars, troubles>>
      /\ followUps' = followUps \ {j}
      /\ syncs' = [syncs EXCEPT ![j].followUp = FALSE] /\ wanted' = wanted \cup {syncs[j].vm}
  BY DEF RunsFollowUp
<1>2. syncs[j] \in SyncRec /\ syncs[j].vm \in VMs
  BY JobType DEF SyncInv, StoreOK, Known
<1>3. PICK new : new = [syncs[j] EXCEPT !.followUp = FALSE]
  OBVIOUS
<1>4. /\ new \in SyncRec /\ new.vm = syncs[j].vm /\ new.asked = syncs[j].asked
      /\ new.status = syncs[j].status
  BY <1>2, <1>3 DEF SyncRec
<1>5. syncs' = [syncs EXCEPT ![j] = new] /\ (new.status = "completed" => Earned(j))
  BY <1>1, <1>3, <1>4 DEF SyncInv, StoreOK
<1>6. StoreOK' /\ Go /\ Len(syncs') = Len(syncs)
  <2>1. /\ wanted' \in SUBSET VMs /\ touched' \in SUBSET Known /\ followUps' \in SUBSET Known
        /\ troubles' \in 0..MaxTroubles
    BY <1>1, <1>2 DEF SyncInv, StoreOK
  <2> QED BY <2>1, <1>1, <1>4, <1>5, OneJob DEF SyncInv, DoubtsStay
<1> QED BY <1>1, <1>6, RestKeeps DEF SyncInv

LEMMA ReconcileAsksInv ==
  ASSUME SyncInv, ReconcileAsks
  PROVE  SyncInv'
<1>1. /\ UNCHANGED <<dataVars, storeVars, requestVars, turns, drain, followUps, operator, agentVars,
                     sessionVars, troubles>>
      /\ wanted' = wanted /\ request' = request
  BY DEF ReconcileAsks, requestVars
<1>2. /\ StoreOK' /\ Go /\ Known' = Known /\ Len(syncs') = Len(syncs)
      /\ \A i : Earned(i) => Earned(i)'
  BY <1>1, StoreStays DEF SyncInv, StoreOK
<1>3. PICK lost \in SUBSET Running(syncs) :
        inbox' = inbox \cup {Post(j, syncs[j].attempt, "failed", "reconcile") : j \in lost}
  BY DEF ReconcileAsks
<1>4. ASSUME NEW j \in lost
      PROVE  Post(j, syncs[j].attempt, "failed", "reconcile") \in
               {p \in PostRec : p.job \in Known /\ p.status = "failed"}
  <2>1. j \in Known /\ j \in JobIds /\ syncs[j].attempt \in Attempts
    BY JobType, KnownIds DEF Running, SyncInv, StoreOK, Known
  <2> QED BY <2>1 DEF Post, PostRec, Verdicts
<1>5. InboxOK'
  BY <1>2, <1>3, <1>4 DEF SyncInv, InboxOK
<1> QED BY <1>1, <1>2, <1>5, RestKeeps DEF SyncInv

LEMMA OperatorReadsInv ==
  ASSUME SyncInv, NEW j \in Known, OperatorReads(j)
  PROVE  SyncInv'
<1>1. /\ UNCHANGED <<dataVars, storeVars, requestVars, drain, inbox, followUps, agentVars,
                     sessionVars>>
      /\ wanted' = wanted /\ request' = request
      /\ turns' = turns \/ turns' = Append(turns, OperatorTurn)
  BY DEF OperatorReads, requestVars
<1>2. troubles' \in 0..MaxTroubles
  <2>1. Trouble("cancel") \/ Trouble("retry")
    BY DEF OperatorReads
  <2> QED BY <2>1, TroubleCounts DEF SyncInv
<1>3. /\ StoreOK' /\ Go /\ Known' = Known /\ Len(syncs') = Len(syncs)
  BY <1>1, <1>2, StoreStays DEF SyncInv, StoreOK
<1>4. OperatorOK'
  <2>1. syncs[j].attempt \in Attempts /\ j \in JobIds
    BY JobType, KnownIds DEF SyncInv, StoreOK, Known
  <2>2. syncs[j].attempt \in 0..MaxAttempts /\ j \in 0..MaxJobs
    BY <2>1 DEF Attempts, JobIds
  <2>3. PICK call \in {"cancel queued", "cancel running", "retry"} :
          /\ operator' = [job |-> j, attempt |-> syncs[j].attempt, call |-> call]
          /\ call = "retry" => syncs[j].attempt < MaxAttempts
    <3>1. CASE operator' = [job |-> j, attempt |-> syncs[j].attempt, call |-> "cancel queued"]
      BY <3>1
    <3>2. CASE operator' = [job |-> j, attempt |-> syncs[j].attempt, call |-> "cancel running"]
      BY <3>2
    <3>3. CASE /\ operator' = [job |-> j, attempt |-> syncs[j].attempt, call |-> "retry"]
               /\ syncs[j].attempt < MaxAttempts
      BY <3>3
    <3> QED BY <3>1, <3>2, <3>3 DEF OperatorReads
  <2>4. operator'.job = j /\ operator'.call = call /\ operator'.attempt = syncs[j].attempt
    BY <2>3
  <2>5. operator' \in [job : 0..MaxJobs,
                       call : {"none", "cancel queued", "cancel running", "told", "retry"},
                       attempt : 0..MaxAttempts]
    BY <2>2, <2>3
  <2> QED BY <2>3, <2>4, <2>5, <1>3 DEF OperatorOK
<1>5. OperatorTurn \in Turns
  BY DEF OperatorTurn, Turns
<1>6. TurnsOK'
  BY <1>1, <1>5, TurnsKeep DEF SyncInv
<1> QED BY <1>1, <1>3, <1>4, <1>6, RestKeeps DEF SyncInv

LEMMA CancelsAtAgentInv ==
  ASSUME SyncInv, CancelsAtAgent
  PROVE  SyncInv'
<1>1. /\ UNCHANGED <<dataVars, storeVars, requestVars, turns, drain, followUps, monitor,
                     agentOld, walked, exitCode, orphans, troubles>>
      /\ wanted' = wanted /\ request' = request
      /\ operator.call = "cancel running" /\ operator' = [operator EXCEPT !.call = "told"]
  BY DEF CancelsAtAgent, requestVars
<1>2. PICK j \in Known : j = operator.job
  BY <1>1 DEF SyncInv, OperatorOK
<1>3. SessionDies(j) \/ UNCHANGED <<script, events, newest, doubtful>>
  BY <1>2 DEF CancelsAtAgent
<1>4. doubtful \subseteq doubtful'
  BY <1>3 DEF SessionDies
<1>5. /\ StoreOK' /\ Go /\ Known' = Known /\ Len(syncs') = Len(syncs)
      /\ \A i : Earned(i) => Earned(i)'
  BY <1>1, <1>4, StoreStays DEF SyncInv, StoreOK
<1>6. OperatorOK'
  BY <1>1, <1>2, <1>5 DEF SyncInv, OperatorOK
<1>7. orphans' \in SUBSET Known
  BY <1>1, <1>2, SessionFacts
<1>8. SessionOK'
  <2>1. CASE SessionDies(j)
    BY <2>1, <1>1, <1>2, <1>5, <1>7, DiesOK
  <2>2. CASE UNCHANGED <<script, events, newest, doubtful>>
    <3>1. doubtful' \in SUBSET Known' /\ orphans' \in SUBSET Known'
      BY <2>2, <1>2, <1>5, <1>7, SessionFacts
    <3> QED BY <2>2, <3>1, <1>1, <1>5, SessionStays DEF SyncInv
  <2> QED BY <1>3, <2>1, <2>2
<1>9. CASE UNCHANGED <<tracked, stateFiles, inbox>>
  BY <1>1, <1>5, <1>6, <1>8, <1>9, RestKeeps DEF SyncInv, agentVars
<1>10. CASE /\ tracked' = tracked \ {j} /\ stateFiles' = stateFiles \ {j}
            /\ inbox' = inbox \cup {Post(j, syncs[j].attempt, "cancelled", "agent")}
  <2>1. syncs[j].attempt \in Attempts /\ "cancelled" \in Verdicts
    BY <1>2, JobType DEF SyncInv, StoreOK, Known, Verdicts
  <2>2. InboxOK'
    BY <1>2, <1>5, <1>10, <2>1, PostOK
  <2>3. AgentOK'
    BY <1>1, <1>5, <1>10 DEF SyncInv, AgentOK
  <2> QED BY <1>1, <1>5, <1>6, <1>8, <2>2, <2>3, RestKeeps DEF SyncInv
<1> QED BY <1>2, <1>9, <1>10 DEF CancelsAtAgent

\* A job waits again.
LEMMA RequeuedOK ==
  ASSUME SyncInv, NEW j \in Known, NEW n \in 0..MaxAttempts, n < MaxAttempts, Requeued(j, n),
         UNCHANGED <<dataVars, wanted, followUps, sessionVars, troubles>>
  PROVE  StoreOK' /\ Go /\ Len(syncs') = Len(syncs) /\ Known' = Known
<1>1. PICK new : new = [syncs[j] EXCEPT !.status = "queued", !.attempt = n + 1]
  OBVIOUS
<1>2. syncs[j] \in SyncRec
  BY JobType DEF SyncInv, StoreOK, Known
<1>3. n + 1 \in Attempts
  BY OffsiteAssumption DEF Attempts
<1>4. new \in SyncRec /\ new.vm = syncs[j].vm /\ new.asked = syncs[j].asked /\ new.status = "queued"
  BY <1>1, <1>2, <1>3 DEF SyncRec
<1>5. syncs' = [syncs EXCEPT ![j] = new] /\ touched' = touched \cup {j}
  BY <1>1 DEF Requeued
<1> QED BY <1>4, <1>5, OneJob DEF SyncInv, StoreOK, DoubtsStay

LEMMA OperatorWritesInv ==
  ASSUME SyncInv, OperatorWrites
  PROVE  SyncInv'
<1>1. /\ UNCHANGED <<dataVars, requestVars, inbox, followUps, agentVars, sessionVars, troubles>>
      /\ wanted' = wanted /\ request' = request
      /\ operator' = NoCall /\ operator.call # "none"
      /\ turns' = turns \/ (turns # <<>> /\ turns' = Tail(turns))
      /\ drain' = drain \/ StartDrain(<<"operator", 0>>)
  BY DEF OperatorWrites, requestVars, Writes
<1>2. PICK j \in Known : j = operator.job
  BY <1>1 DEF SyncInv, OperatorOK
<1>3. \/ Finished(j, "cancelled") /\ touched' = touched \cup {j}
      \/ operator.call = "retry" /\ Requeued(j, operator.attempt)
  BY <1>2 DEF OperatorWrites
<1>4. StoreOK' /\ Go /\ Known' = Known /\ Len(syncs') = Len(syncs)
  <2>1. CASE Finished(j, "cancelled") /\ touched' = touched \cup {j}
    <3>1. "cancelled" \in Terminal \cup {"queued", "running"} /\ touched' \in SUBSET Known
      BY <2>1 DEF Terminal, Verdicts, SyncInv, StoreOK
    <3> QED BY <3>1, <2>1, <1>1, FinishedOK DEF SyncInv, StoreOK
  <2>2. CASE operator.call = "retry" /\ Requeued(j, operator.attempt)
    <3>1. operator.attempt \in 0..MaxAttempts /\ operator.attempt < MaxAttempts
      BY <2>2 DEF SyncInv, OperatorOK
    <3> QED BY <3>1, <2>2, <1>1, RequeuedOK
  <2> QED BY <1>3, <2>1, <2>2
<1>5. DrainOK'
  <2>1. <<"operator", 0>> \in Callers \X Nat
    BY DEF Callers
  <2> QED BY <2>1, <1>1, <1>4, StartDrainKeeps, DrainKeeps DEF SyncInv
<1>6. TurnsOK'
  BY <1>1, TurnsKeep DEF SyncInv
<1>7. OperatorOK'
  BY <1>1, OffsiteAssumption DEF OperatorOK, NoCall
<1> QED BY <1>1, <1>4, <1>5, <1>6, <1>7, RestKeeps DEF SyncInv

LEMMA RearmsInv ==
  ASSUME SyncInv, NEW j \in Known, Rearms(j)
  PROVE  SyncInv'
<1>1. /\ UNCHANGED <<dataVars, requestVars, turns, inbox, taskVars, agentVars, sessionVars, troubles>>
      /\ wanted' = wanted /\ request' = request /\ followUps' = followUps /\ operator' = operator
      /\ Requeued(j, syncs[j].attempt) /\ StartDrain(<<"check", 0>>)
      /\ syncs[j].attempt < MaxAttempts
  BY DEF Rearms, requestVars, taskVars
<1>2. syncs[j].attempt \in Attempts
  BY JobType DEF SyncInv, StoreOK, Known
<1>3. syncs[j].attempt \in 0..MaxAttempts
  BY <1>2 DEF Attempts
<1>4. StoreOK' /\ Go /\ Known' = Known /\ Len(syncs') = Len(syncs)
  BY <1>1, <1>3, RequeuedOK
<1>5. <<"check", 0>> \in Callers \X Nat
  BY DEF Callers
<1>6. DrainOK'
  BY <1>1, <1>4, <1>5, StartDrainKeeps DEF SyncInv
<1> QED BY <1>1, <1>4, <1>6, RestKeeps DEF SyncInv

LEMMA OffsiteBootInv ==
  ASSUME SyncInv, OffsiteBoot
  PROVE  SyncInv'
<1>1. /\ UNCHANGED <<dataVars, storeVars, agentVars, sessionVars>>
      /\ wanted' = {} /\ request' = [step |-> "idle", vm |-> request.vm, seen |-> <<>>]
      /\ drain' = [NoDrain EXCEPT !.by = <<"boot", 0>>, !.step = "read"]
      /\ inbox' = {} /\ followUps' = {} /\ operator' = NoCall /\ turns' = <<>>
  BY DEF OffsiteBoot, NoRequest
<1>2. troubles' \in 0..MaxTroubles
  BY TroubleCounts DEF SyncInv, OffsiteBoot
<1>3. StoreOK' /\ Go /\ Known' = Known /\ Len(syncs') = Len(syncs)
  BY <1>1, <1>2, StoreStays DEF SyncInv, StoreOK
<1>4. request.vm \in VMs
  BY DEF SyncInv, RequestOK
<1>5. RequestOK'
  BY <1>1, <1>4 DEF RequestOK
<1>6. drain' = [by |-> <<"boot", 0>>, step |-> "read", todo |-> {}, busy |-> {}, job |-> 0]
  BY <1>1 DEF NoDrain
<1>7. DrainOK'
  BY <1>6 DEF DrainOK, DrainRec, StartSteps, Callers
<1>8. OperatorOK' /\ InboxOK' /\ TurnsOK'
  BY <1>1, OffsiteAssumption DEF OperatorOK, NoCall, InboxOK, TurnsOK
<1> QED BY <1>1, <1>3, <1>5, <1>7, <1>8, RestKeeps DEF SyncInv

-----------------------------------------------------------------------------
(* Every step *)

LEMMA SyncInit ==
  ASSUME OffsiteInit
  PROVE  SyncInv
<1>1. syncs = <<>> /\ turns = <<>> /\ Known = {}
  BY DEF OffsiteInit, Known
<1>2. /\ MaxLanded \in Nat /\ MaxJobs \in Nat /\ MaxAttempts \in Nat /\ MaxTroubles \in Nat
      /\ \E v : v \in VMs
  BY OffsiteAssumption
<1>3. StoreOK
  BY <1>1, <1>2 DEF OffsiteInit, StoreOK
<1>4. RequestOK
  <2>1. request = [step |-> "idle", vm |-> CHOOSE v \in VMs : TRUE, seen |-> <<>>]
    BY DEF OffsiteInit, NoRequest
  <2>2. (CHOOSE v \in VMs : TRUE) \in VMs
    BY <1>2
  <2> QED BY <2>1, <2>2 DEF RequestOK
<1>5. TurnsOK /\ InboxOK /\ OperatorOK
  BY <1>1, <1>2 DEF OffsiteInit, TurnsOK, InboxOK, OperatorOK, NoCall
<1>6. DrainOK
  BY NoDrainOK DEF OffsiteInit, DrainOK, StartSteps
<1>7. agentOld \in BOOLEAN
  <2>1. CASE "old" \in Troubles
    BY <2>1 DEF OffsiteInit
  <2>2. CASE "old" \notin Troubles
    BY <2>2 DEF OffsiteInit
  <2> QED BY <2>1, <2>2
<1>8. AgentOK
  BY <1>7 DEF OffsiteInit, AgentOK
<1>9. SessionOK
  BY <1>2 DEF OffsiteInit, SessionOK
<1> QED BY <1>3, <1>4, <1>5, <1>6, <1>8, <1>9 DEF SyncInv

LEMMA SyncStutters ==
  ASSUME SyncInv, UNCHANGED offsiteVars
  PROVE  SyncInv'
<1>1. /\ UNCHANGED <<dataVars, storeVars, agentVars, sessionVars, troubles>>
      /\ wanted' = wanted /\ request' = request /\ followUps' = followUps /\ operator' = operator
      /\ turns' = turns /\ drain' = drain /\ inbox' = inbox
  BY DEF offsiteVars, handlerVars, requestVars, taskVars
<1>2. StoreOK' /\ Go /\ Len(syncs') = Len(syncs)
  BY <1>1, StoreStays DEF SyncInv, StoreOK
<1> QED BY <1>1, <1>2, RestKeeps DEF SyncInv

LEMMA SyncStep ==
  ASSUME SyncInv, OffsiteNext
  PROVE  SyncInv'
<1>1. CASE \E vm \in VMs : BackupLands(vm) \/ CheckFinds(vm) \/ RequestReads(vm)
  BY <1>1, BackupLandsInv, CheckFindsInv, RequestReadsInv
<1>2. CASE RequestSaves \/ DrainFindsHostOffline \/ AnswerIsLost
  BY <1>2, RequestSavesInv, DrainFindsHostOfflineInv, AnswerIsLostInv
<1>3. CASE ReconcileAsks \/ AgentRestarts \/ AgentIsUpgraded \/ OffsiteBoot
  BY <1>3, ReconcileAsksInv, AgentRestartsInv, AgentIsUpgradedInv, OffsiteBootInv
<1>4. CASE \E j \in Known : \/ ScriptMisses(j) \/ ScriptIsKilled(j) \/ OperatorReads(j) \/ Rearms(j)
                             \/ \E a \in Attempts : AgentGivesUp(j, a)
  BY <1>4, ScriptMissesInv, ScriptIsKilledInv, OperatorReadsInv, RearmsInv, AgentGivesUpInv
<1>5. CASE WorkStep
  <2>1. CASE DrainReads \/ DrainPicks \/ DrainGivesUp \/ AgentAcceptsSync
    BY <2>1, DrainReadsInv, DrainPicksInv, DrainGivesUpInv, AgentAcceptsSyncInv
  <2>2. CASE CancelsAtAgent \/ OperatorWrites
    BY <2>2, CancelsAtAgentInv, OperatorWritesInv
  <2>3. CASE \E p \in inbox : HandlerReads(p) \/ HandlerWrites(p)
    BY <2>3, HandlerReadsInv, HandlerWritesInv
  <2>4. CASE \E j \in Known :
               \/ ScriptStarts(j) \/ ScriptCopies(j) \/ ScriptRecords(j) \/ ScriptEnds(j)
               \/ OrphanEnds(j) \/ AgentRecovers(j) \/ RunsFollowUp(j)
    BY <2>4, ScriptStartsInv, ScriptCopiesInv, ScriptRecordsInv, ScriptEndsInv, OrphanEndsInv,
       AgentRecoversInv, RunsFollowUpInv
  <2>5. CASE \E j \in Known, a \in Attempts :
               AgentLaunches(j, a) \/ MonitorSettles(j, a) \/ AgentPosts(j, a)
    BY <2>5, AgentLaunchesInv, MonitorSettlesInv, AgentPostsInv
  <2> QED BY <1>5, <2>1, <2>2, <2>3, <2>4, <2>5 DEF WorkStep
<1> QED BY <1>1, <1>2, <1>3, <1>4, <1>5 DEF OffsiteNext

\* Through requests, drains, posts, restarts of the agent and boots of the controller, the jobs
\* and all that is under way for them stay well-formed, and whatever holds a verdict of success
\* of a job, be it the job itself, a snapshot a request works with, a post, a monitor or what the
\* session left behind, holds it for a copy that was made or for a job that is doubtful.
THEOREM SyncsHold == OffsiteSpec => []SyncInv
<1>1. OffsiteInit => SyncInv
  BY SyncInit
<1>2. SyncInv /\ [OffsiteNext]_offsiteVars => SyncInv'
  BY SyncStep, SyncStutters
<1> QED BY <1>1, <1>2, PTL DEF OffsiteSpec

LEMMA SyncInvTypes == SyncInv => OffsiteTypeOK
<1> SUFFICES ASSUME SyncInv PROVE OffsiteTypeOK
  OBVIOUS
<1>1. Known \subseteq JobIds
  BY KnownIds DEF SyncInv
<1>2. /\ landed \in [VMs -> 0..MaxLanded] /\ copy \in [VMs -> 0..MaxLanded]
      /\ syncs \in Seq(SyncRec) /\ Len(syncs) <= MaxJobs /\ wanted \subseteq VMs
      /\ followUps \subseteq Known /\ touched \subseteq Known /\ troubles \in 0..MaxTroubles
  BY DEF SyncInv, StoreOK
<1>3. request.step \in {"idle", "read"} /\ request.vm \in VMs
  BY DEF SyncInv, RequestOK
<1>4. drain.step \in {"idle", "read", "pick", "asked", "accepted", "broken"}
      /\ drain.busy \subseteq VMs
  BY DEF SyncInv, DrainOK, DrainRec, StartSteps
<1>5. inbox \subseteq [job : Known, attempt : Attempts, status : Verdicts \cup {"running"},
                       from : {"agent", "reconcile"}, read : {"not yet", "queued", "running"}]
  BY DEF SyncInv, InboxOK, PostRec
<1>6. /\ tracked \subseteq JobIds /\ stateFiles \subseteq JobIds /\ agentOld \in BOOLEAN
      /\ monitor \in [JobIds -> [Attempts -> Verdicts \cup {"none", "launching", "watching"}]]
  BY <1>1 DEF SyncInv, AgentOK
<1>7. /\ script \in [JobIds -> {"none", "new", "over"} \cup Working]
      /\ walked \in [JobIds -> 0..MaxLanded]
      /\ exitCode \in [JobIds -> {"none", "zero", "error", "busy"}]
      /\ events \in [JobIds -> {"none", "good", "old"}] /\ newest \in [VMs -> 0..MaxJobs]
      /\ orphans \subseteq Known /\ doubtful \subseteq Known
  BY DEF SyncInv, SessionOK
<1>8. operator \in [job : 0..MaxJobs,
                    call : {"none", "cancel queued", "cancel running", "told", "retry"},
                    attempt : 0..MaxAttempts]
  BY DEF SyncInv, OperatorOK
<1> QED BY <1>2, <1>3, <1>4, <1>5, <1>6, <1>7, <1>8 DEF OffsiteTypeOK

\* The variables have the types of the model in every reachable state.
THEOREM SyncTypes == OffsiteSpec => []OffsiteTypeOK
BY SyncInvTypes, SyncsHold, PTL

\* A job recorded as completed stands for a copy of everything that had landed when it was
\* requested (CompletedIsCopied), unless the job is doubtful: it skipped a target that a transfer
\* left behind was still working on, its session was killed when only successes were recorded,
\* or it was judged by the events file of another run.  In every other case no restart, no killed
\* session and no script that stood down is taken for a transfer.
THEOREM GreenIsCopied == OffsiteSpec => []CompletedIsCopied
<1>1. SyncInv => CompletedIsCopied
  BY DEF SyncInv, StoreOK, CompletedIsCopied, Earned
<1> QED BY <1>1, SyncsHold, PTL

-----------------------------------------------------------------------------
(* Turns *)

LEMMA TailTakes ==
  ASSUME NEW s \in Seq(Turns), s # <<>>, NEW turn
  PROVE  /\ Takes(s, turn) /\ Head(s) # turn => Takes(Tail(s), turn)
         /\ Takes(Tail(s), turn) => Takes(s, turn)
         /\ Before(s, turn) => Before(Tail(s), turn)
         /\ OneRequest(s) => OneRequest(Tail(s))
         /\ OneRequest(s) /\ Head(s) = RequestTurn => ~Takes(Tail(s), RequestTurn)
         /\ Takes(s, turn) /\ Head(s) = RequestTurn /\ turn # RequestTurn => ~Before(s, turn)
<1>1. /\ Len(s) \in Nat /\ Len(s) >= 1 /\ Len(Tail(s)) = Len(s) - 1 /\ Head(s) = s[1]
      /\ \A n \in 1..Len(Tail(s)) : Tail(s)[n] = s[n + 1] /\ n + 1 \in 1..Len(s)
  OBVIOUS
<1>2. \A n \in 1..Len(s) : n # 1 => n - 1 \in 1..Len(Tail(s)) /\ Tail(s)[n - 1] = s[n]
  BY <1>1
<1>3. Takes(s, turn) /\ Head(s) # turn => Takes(Tail(s), turn)
  BY <1>1, <1>2 DEF Takes
<1>4. Takes(Tail(s), turn) => Takes(s, turn)
  BY <1>1 DEF Takes
<1>5. ASSUME Before(s, turn) PROVE Before(Tail(s), turn)
  <2> SUFFICES ASSUME NEW m \in 1..Len(Tail(s)), NEW n \in 1..Len(Tail(s)),
                      Tail(s)[m] = RequestTurn, Tail(s)[n] = turn
               PROVE  n < m
    BY DEF Before
  <2>1. s[m + 1] = RequestTurn /\ s[n + 1] = turn /\ m + 1 \in 1..Len(s) /\ n + 1 \in 1..Len(s)
    BY <1>1
  <2>2. n + 1 < m + 1
    BY <2>1, <1>5 DEF Before
  <2> QED BY <2>2, <1>1
<1>6. ASSUME OneRequest(s) PROVE OneRequest(Tail(s))
  <2> SUFFICES ASSUME NEW m \in 1..Len(Tail(s)), NEW n \in 1..Len(Tail(s)),
                      Tail(s)[m] = RequestTurn, Tail(s)[n] = RequestTurn
               PROVE  m = n
    BY DEF OneRequest
  <2>1. s[m + 1] = RequestTurn /\ s[n + 1] = RequestTurn /\ m + 1 \in 1..Len(s) /\ n + 1 \in 1..Len(s)
    BY <1>1
  <2>2. n + 1 = m + 1
    BY <2>1, <1>6 DEF OneRequest
  <2> QED BY <2>2, <1>1
<1>7. ASSUME OneRequest(s), Head(s) = RequestTurn, Takes(Tail(s), RequestTurn) PROVE FALSE
  <2>1. PICK n \in 1..Len(Tail(s)) : Tail(s)[n] = RequestTurn
    BY <1>7 DEF Takes
  <2>2. s[n + 1] = RequestTurn /\ n + 1 \in 1..Len(s) /\ s[1] = RequestTurn /\ 1 \in 1..Len(s)
    BY <2>1, <1>1, <1>7
  <2>3. n + 1 = 1
    BY <2>2, <1>7 DEF OneRequest
  <2> QED BY <2>1, <2>3, <1>1
<1>8. ASSUME Takes(s, turn), Head(s) = RequestTurn, Before(s, turn) PROVE FALSE
  <2>1. PICK n \in 1..Len(s) : s[n] = turn
    BY <1>8 DEF Takes
  <2>2. s[1] = RequestTurn /\ 1 \in 1..Len(s)
    BY <1>1, <1>8
  <2>3. n < 1
    BY <2>1, <2>2, <1>8 DEF Before
  <2> QED BY <2>3, <1>1
<1> QED BY <1>3, <1>4, <1>5, <1>6, <1>7, <1>8

LEMMA AppendTakes ==
  ASSUME NEW s \in Seq(Turns), NEW u \in Turns, NEW turn
  PROVE  /\ Takes(Append(s, u), u)
         /\ Takes(s, turn) => Takes(Append(s, u), turn)
         /\ u # turn /\ Takes(Append(s, u), turn) => Takes(s, turn)
         /\ u # turn /\ Before(s, turn) => Before(Append(s, u), turn)
         /\ u # RequestTurn \/ ~Takes(s, RequestTurn) => (OneRequest(s) => OneRequest(Append(s, u)))
         /\ u = RequestTurn /\ ~Takes(s, RequestTurn) /\ turn # RequestTurn
              => Before(Append(s, u), turn)
<1>1. /\ Len(s) \in Nat /\ Len(Append(s, u)) = Len(s) + 1 /\ Append(s, u)[Len(s) + 1] = u
      /\ \A n \in 1..Len(s) : Append(s, u)[n] = s[n]
      /\ \A n \in 1..(Len(s) + 1) : n \in 1..Len(s) \/ n = Len(s) + 1
      /\ Len(s) + 1 \in 1..(Len(s) + 1)
      /\ \A n \in 1..Len(s) : n \in 1..(Len(s) + 1) /\ n < Len(s) + 1
  OBVIOUS
<1> DEFINE t == Append(s, u)
<1>2. Len(t) = Len(s) + 1 /\ t[Len(s) + 1] = u /\ \A n \in 1..Len(s) : t[n] = s[n]
  BY <1>1
<1> HIDE DEF t
<1>3. Takes(t, u)
  BY <1>1, <1>2 DEF Takes
<1>4. Takes(s, turn) => Takes(t, turn)
  BY <1>1, <1>2 DEF Takes
<1>5. u # turn /\ Takes(t, turn) => Takes(s, turn)
  BY <1>1, <1>2 DEF Takes
<1>6. u # turn /\ Before(s, turn) => Before(t, turn)
  BY <1>1, <1>2 DEF Before
<1>7. u # RequestTurn \/ ~Takes(s, RequestTurn) => (OneRequest(s) => OneRequest(t))
  BY <1>1, <1>2 DEF OneRequest, Takes
<1>8. u = RequestTurn /\ ~Takes(s, RequestTurn) /\ turn # RequestTurn => Before(t, turn)
  BY <1>1, <1>2 DEF Before, Takes
<1> QED BY <1>3, <1>4, <1>5, <1>6, <1>7, <1>8 DEF t

LEMMA TurnsDiffer ==
  ASSUME NEW p
  PROVE  /\ p.from \in {"agent", "reconcile"} => PostTurn(p) # RequestTurn /\ PostTurn(p) # OperatorTurn
         /\ RequestTurn # OperatorTurn /\ RequestTurn \in Turns /\ OperatorTurn \in Turns
         /\ \A q : PostTurn(p) = PostTurn(q) => p.job = q.job /\ p.status = q.status
BY DEF PostTurn, RequestTurn, OperatorTurn, Turns

\* What has a turn, and comes before a request, still does; and no request takes another turn.
TurnsStay ==
  /\ \A p : RunningPost(p, p.job)' /\ Read(p) /\ Untouched(p.job)' =>
       /\ Takes(turns, PostTurn(p)) => Takes(turns', PostTurn(p))
       /\ Before(turns, PostTurn(p)) => Before(turns', PostTurn(p))
  /\ OneRequest(turns) => OneRequest(turns')
  /\ OneRequest(turns) /\ Takes(turns', RequestTurn) => Takes(turns, RequestTurn) /\ request' = request

-----------------------------------------------------------------------------
(* What a step makes of a job *)

\* The job goes on as it was.
Steady(j) ==
  /\ syncs'[j].status = syncs[j].status
  /\ Traceless(j) /\ (syncs[j].status = "queued" \/ Asked(j)) => Traceless(j)'
  /\ (Asked(j)' => Asked(j)) /\ (BeingStarted(j)' => BeingStarted(j))
  /\ j \in drain'.todo => j \in drain.todo \/ syncs[j].status = "queued"
  /\ \A p : RunningPost(p, j)' => RunningPost(p, j)

\* The job is over.
IsOver(j) ==
  /\ ~IsActive(syncs'[j]) /\ j \notin drain'.todo /\ ~Asked(j)'
  /\ \A p : RunningPost(p, j)' => RunningPost(p, j)

\* The job runs, and nothing is left to say so.
StillRuns(j) ==
  /\ syncs'[j].status = "running" /\ Claims(j) /\ j \notin drain'.todo
  /\ \A p : ~RunningPost(p, j)'
  /\ Asked(j)' => Traceless(j)' /\ (request'.step = "read" => IsActive(request'.seen[j]))

LEMMA SteadyJob ==
  ASSUME NEW j \in Known, StartedFirst(j), PostedOnce(j), Steady(j), TurnsStay, Untouched(j)',
         request' = request \/ request'.step = "idle"
  PROVE  StartedFirst(j)' /\ PostedOnce(j)' /\ (Claims(j)' => Claims(j))
<1>1. /\ syncs'[j].status = syncs[j].status
      /\ Traceless(j) /\ (syncs[j].status = "queued" \/ Asked(j)) => Traceless(j)'
      /\ (Asked(j)' => Asked(j)) /\ (BeingStarted(j)' => BeingStarted(j))
      /\ j \in drain'.todo => j \in drain.todo \/ syncs[j].status = "queued"
      /\ \A p : RunningPost(p, j)' => RunningPost(p, j)
      /\ IsActive(syncs[j])' <=> IsActive(syncs[j])
      /\ request'.step = "read" => request.step = "read" /\ request'.seen[j] = request.seen[j]
  BY DEF Steady, IsActive
<1>2. StartedFirst(j)'
  <2>1. syncs'[j].status = "queued" => Traceless(j)' /\ ~BeingStarted(j)'
    BY <1>1 DEF StartedFirst
  <2>2. Asked(j)' => Traceless(j)' /\ syncs'[j].status = "running"
    BY <1>1 DEF StartedFirst
  <2>3. j \in drain'.todo => syncs'[j].status = "queued"
    BY <1>1 DEF StartedFirst
  <2>4. request'.step = "read" /\ (syncs'[j].status = "queued" \/ Asked(j)') => IsActive(request'.seen[j])
    BY <1>1 DEF StartedFirst
  <2> QED BY <2>1, <2>2, <2>3, <2>4 DEF StartedFirst
<1>3. PostedOnce(j)'
  <2>1. \A p, q : RunningPost(p, j)' /\ RunningPost(q, j)' => p = q
    BY <1>1 DEF PostedOnce
  <2>2. ASSUME NEW p, RunningPost(p, j)', Read(p) PROVE RunningPost(p, p.job)' /\ Untouched(p.job)'
    BY <2>2 DEF RunningPost
  <2>3. ASSUME NEW p, RunningPost(p, j)', Read(p) PROVE Takes(turns', PostTurn(p))
    BY <1>1, <2>2, <2>3 DEF PostedOnce, TurnsStay
  <2>4. ASSUME NEW p, RunningPost(p, j)', ~Read(p), request'.step = "read", ~IsActive(request'.seen[j])
        PROVE  ~IsActive(syncs'[j])
    BY <1>1, <2>4 DEF PostedOnce, IsActive
  <2>5. ASSUME NEW p, RunningPost(p, j)', Read(p), request'.step = "read", ~IsActive(request'.seen[j])
        PROVE  Before(turns', PostTurn(p))
    BY <1>1, <2>2, <2>5 DEF PostedOnce, TurnsStay
  <2> QED BY <2>1, <2>3, <2>4, <2>5 DEF PostedOnce, Read
<1>4. Claims(j)' => Claims(j)
  BY <1>1 DEF Claims, IsActive, Read
<1> QED BY <1>2, <1>3, <1>4

LEMMA OverJob ==
  ASSUME NEW j \in Known, StartedFirst(j), PostedOnce(j), IsOver(j), TurnsStay, Untouched(j)',
         request' = request \/ request'.step = "idle"
  PROVE  StartedFirst(j)' /\ PostedOnce(j)' /\ (Claims(j)' => Claims(j))
<1>1. /\ ~IsActive(syncs'[j]) /\ j \notin drain'.todo /\ ~Asked(j)'
      /\ \A p : RunningPost(p, j)' => RunningPost(p, j)
      /\ request'.step = "read" => request.step = "read" /\ request'.seen[j] = request.seen[j]
      /\ syncs'[j].status # "queued"
  BY DEF IsOver, IsActive
<1>2. StartedFirst(j)'
  BY <1>1 DEF StartedFirst
<1>3. PostedOnce(j)'
  <2>1. \A p, q : RunningPost(p, j)' /\ RunningPost(q, j)' => p = q
    BY <1>1 DEF PostedOnce
  <2>2. ASSUME NEW p, RunningPost(p, j)', Read(p) PROVE RunningPost(p, p.job)' /\ Untouched(p.job)'
    BY <2>2 DEF RunningPost
  <2>3. ASSUME NEW p, RunningPost(p, j)', Read(p) PROVE Takes(turns', PostTurn(p))
    BY <1>1, <2>2, <2>3 DEF PostedOnce, TurnsStay
  <2>4. ASSUME NEW p, RunningPost(p, j)', Read(p), request'.step = "read", ~IsActive(request'.seen[j])
        PROVE  Before(turns', PostTurn(p))
    BY <1>1, <2>2, <2>4 DEF PostedOnce, TurnsStay
  <2> QED BY <1>1, <2>1, <2>3, <2>4 DEF PostedOnce, Read
<1>4. Claims(j)' => Claims(j)
  BY <1>1 DEF Claims, IsActive, Read
<1> QED BY <1>2, <1>3, <1>4

LEMMA RunsJob ==
  ASSUME NEW j \in Known, StillRuns(j)
  PROVE  StartedFirst(j)' /\ PostedOnce(j)' /\ (Claims(j)' => Claims(j))
<1>1. /\ syncs'[j].status = "running" /\ Claims(j) /\ j \notin drain'.todo
      /\ \A p : ~RunningPost(p, j)'
      /\ Asked(j)' => Traceless(j)' /\ (request'.step = "read" => IsActive(request'.seen[j]))
  BY DEF StillRuns
<1>2. StartedFirst(j)'
  BY <1>1 DEF StartedFirst
<1>3. PostedOnce(j)'
  BY <1>1 DEF PostedOnce
<1> QED BY <1>1, <1>2, <1>3

\* A step after which every job nobody touched goes on, runs or is over.
LEMMA FreshKeeps ==
  ASSUME FreshInv, Known' = Known, touched \subseteq touched', TurnsStay,
         request' = request \/ request'.step = "idle",
         \A j \in Known : j \notin touched' =>
           syncs'[j].vm = syncs[j].vm /\ (Steady(j) \/ IsOver(j) \/ StillRuns(j))
  PROVE  FreshInv'
<1>1. ASSUME NEW j \in Known, j \notin touched'
      PROVE  StartedFirst(j)' /\ PostedOnce(j)' /\ (Claims(j)' => Claims(j))
  <2>1. Untouched(j) /\ Untouched(j)' /\ StartedFirst(j) /\ PostedOnce(j)
    BY <1>1 DEF Untouched, FreshInv
  <2> QED BY <2>1, <1>1, SteadyJob, OverJob, RunsJob
<1>2. OneTurn'
  BY DEF FreshInv, OneTurn, TurnsStay
<1>3. OneClaim'
  BY <1>1 DEF FreshInv, OneClaim, Untouched
<1> QED BY <1>1, <1>2, <1>3 DEF FreshInv, Untouched

\* The drain starts no job and takes none on that does not wait.
DrainQuiet ==
  \A j : /\ (Asked(j)' => Asked(j)) /\ (BeingStarted(j)' => BeingStarted(j))
         /\ j \in drain'.todo => j \in drain.todo \/ (j \in Known /\ syncs[j].status = "queued")

LEMMA QuietDrains ==
  ASSUME SyncInv,
         \/ drain' = drain \/ drain' = NoDrain \/ Goes("pick")
         \/ drain.step \in StartSteps /\ Goes("broken")
         \/ \E by : StartDrain(by) \/ drain' = [NoDrain EXCEPT !.by = by, !.step = "read"]
  PROVE  DrainQuiet
<1> USE DEF DrainQuiet, Asked, BeingStarted, StartSteps
<1>1. drain \in DrainRec
  BY DEF SyncInv, DrainOK
<1>2. CASE drain' = drain
  BY <1>2
<1>3. CASE drain' = NoDrain
  BY <1>3 DEF NoDrain
<1>4. CASE Goes("pick")
  <2>1. drain'.step = "pick" /\ drain'.todo = drain.todo
    BY <1>1, <1>4 DEF Goes, DrainRec
  <2> QED BY <2>1
<1>5. CASE drain.step \in StartSteps /\ Goes("broken")
  <2>1. drain'.step = "broken" /\ drain'.todo = drain.todo /\ drain'.job = drain.job
    BY <1>1, <1>5 DEF Goes, DrainRec
  <2> QED BY <2>1, <1>5
<1>6. CASE \E by : drain' = [NoDrain EXCEPT !.by = by, !.step = "read"]
  <2>1. drain'.step = "read" /\ drain'.todo = {}
    BY <1>6 DEF NoDrain
  <2> QED BY <2>1
<1>7. CASE \E by : StartDrain(by)
  BY <1>2, <1>6, <1>7 DEF StartDrain
<1> QED BY <1>2, <1>3, <1>4, <1>5, <1>6, <1>7

LEMMA TurnsSame ==
  ASSUME UNCHANGED <<request, turns>>
  PROVE  TurnsStay
BY DEF TurnsStay

\* A step that leaves the jobs, the request and the turns alone, and leaves no new trace of a job
\* that waits or is being started.
LEMMA QuietStep ==
  ASSUME FreshInv, UNCHANGED <<syncs, touched, request, turns>>, DrainQuiet,
         \A j \in Known : j \notin touched =>
           /\ Traceless(j) /\ (syncs[j].status = "queued" \/ Asked(j)) => Traceless(j)'
           /\ \A p : RunningPost(p, j)' => RunningPost(p, j)
  PROVE  FreshInv'
<1>1. Known' = Known /\ TurnsStay
  BY TurnsSame DEF Known
<1>2. \A j \in Known : j \notin touched' => Steady(j)
  BY DEF Steady, DrainQuiet
<1> QED BY <1>1, <1>2, FreshKeeps

\* Nothing that the invariant is about changes.
LEMMA IdleStep ==
  ASSUME SyncInv, FreshInv,
         UNCHANGED <<syncs, touched, request, turns, drain, inbox, tracked, stateFiles, monitor>>
  PROVE  FreshInv'
<1>1. DrainQuiet
  BY QuietDrains
<1>2. \A j : Traceless(j)' <=> Traceless(j)
  BY DEF Traceless
<1>3. \A p, j : RunningPost(p, j)' <=> RunningPost(p, j)
  BY DEF RunningPost
<1> QED BY <1>1, <1>2, <1>3, QuietStep

\* A step about one job, of which there are traces or which was touched.
LEMMA JobStep ==
  ASSUME SyncInv, FreshInv, UNCHANGED <<syncs, touched, request, turns>>, DrainQuiet,
         NEW j \in Known, ~Traceless(j),
         tracked' \subseteq tracked \cup {j}, stateFiles' \subseteq stateFiles \cup {j},
         \A i \in Known : i # j => \A a \in Attempts : monitor'[i][a] = monitor[i][a],
         \A p \in inbox' : p \in inbox \/ (p.job = j /\ (p.status # "running" \/ j \in touched))
  PROVE  FreshInv'
<1>1. ASSUME NEW i \in Known, Traceless(i) PROVE Traceless(i)'
  BY <1>1 DEF Traceless
<1>2. \A i \in Known : i \notin touched => \A p : RunningPost(p, i)' => RunningPost(p, i)
  BY DEF RunningPost
<1> QED BY <1>1, <1>2, QuietStep

LEMMA MonitorOfOne ==
  ASSUME SyncInv, NEW j \in Known, NEW a \in Attempts, NEW st,
         monitor' = [monitor EXCEPT ![j][a] = st]
  PROVE  \A i \in Known : i # j => \A b \in Attempts : monitor'[i][b] = monitor[i][b]
BY KnownIds DEF SyncInv, AgentOK

LEMMA FreshQuietly ==
  ASSUME SyncInv, FreshInv,
         \/ \E vm \in VMs : BackupLands(vm) \/ CheckFinds(vm)
         \/ \E j \in Known : \/ ScriptStarts(j) \/ ScriptCopies(j) \/ ScriptMisses(j)
                             \/ ScriptRecords(j) \/ ScriptEnds(j) \/ ScriptIsKilled(j)
                             \/ OrphanEnds(j)
         \/ AgentIsUpgraded \/ UNCHANGED offsiteVars
  PROVE  FreshInv'
<1>1. UNCHANGED <<syncs, touched, request, turns, drain, inbox, tracked, stateFiles, monitor>>
  <2>1. CASE \E vm \in VMs : BackupLands(vm)
    BY <2>1 DEF BackupLands, storeVars, agentVars
  <2>2. CASE \E vm \in VMs : CheckFinds(vm)
    BY <2>2 DEF CheckFinds, storeVars, agentVars
  <2>3. CASE \E j \in Known : ScriptStarts(j)
    BY <2>3 DEF ScriptStarts, storeVars, agentVars, handlerVars, requestVars
  <2>4. CASE \E j \in Known : ScriptCopies(j)
    BY <2>4 DEF ScriptCopies, storeVars, agentVars, handlerVars, requestVars
  <2>5. CASE \E j \in Known : ScriptMisses(j) \/ ScriptRecords(j) \/ ScriptEnds(j)
    BY <2>5 DEF ScriptMisses, ScriptRecords, ScriptEnds, storeVars, agentVars, handlerVars, requestVars
  <2>6. CASE \E j \in Known : ScriptIsKilled(j) \/ OrphanEnds(j)
    BY <2>6 DEF ScriptIsKilled, OrphanEnds, storeVars, agentVars, handlerVars, requestVars
  <2>7. CASE AgentIsUpgraded
    BY <2>7 DEF AgentIsUpgraded, storeVars, handlerVars, requestVars
  <2>8. CASE UNCHANGED offsiteVars
    BY <2>8 DEF offsiteVars, storeVars, agentVars, handlerVars, requestVars
  <2> QED BY <2>1, <2>2, <2>3, <2>4, <2>5, <2>6, <2>7, <2>8
<1> QED BY <1>1, IdleStep

\* The drain moves on, and the agent may forget what it watches.
LEMMA FreshDrains ==
  ASSUME SyncInv, FreshInv,
         DrainReads \/ DrainFindsHostOffline \/ AnswerIsLost \/ AgentRestarts
  PROVE  FreshInv'
<1>1. UNCHANGED <<syncs, touched, request, turns, inbox, stateFiles>>
  <2>1. CASE DrainReads
    BY <2>1 DEF DrainReads, storeVars, agentVars, requestVars
  <2>2. CASE DrainFindsHostOffline
    BY <2>2 DEF DrainFindsHostOffline, storeVars, agentVars, requestVars
  <2>3. CASE AnswerIsLost
    BY <2>3 DEF AnswerIsLost, storeVars, agentVars, requestVars
  <2>4. CASE AgentRestarts
    BY <2>4 DEF AgentRestarts, storeVars, requestVars
  <2> QED BY <2>1, <2>2, <2>3, <2>4
<1>2. ASSUME NEW j \in Known, Traceless(j) PROVE Traceless(j)'
  <2>1. CASE UNCHANGED agentVars
    BY <2>1, <1>1, <1>2 DEF agentVars, Traceless
  <2>2. CASE tracked' = {} /\ monitor' = [i \in JobIds |-> [a \in Attempts |-> "none"]]
    <3>1. j \in JobIds
      BY KnownIds DEF SyncInv
    <3> QED BY <2>2, <3>1, <1>1, <1>2 DEF Traceless
  <2> QED BY <2>1, <2>2 DEF DrainReads, DrainFindsHostOffline, AnswerIsLost, AgentRestarts
<1>3. \A p, j : RunningPost(p, j)' <=> RunningPost(p, j)
  BY <1>1 DEF RunningPost
<1>4. DrainQuiet
  <2>1. CASE DrainReads
    <3>1. CASE drain' = NoDrain
      BY <3>1, QuietDrains
    <3>2. CASE drain' = [drain EXCEPT !.step = "pick", !.todo = Queued(syncs),
                                      !.busy = {syncs[j].vm : j \in Running(syncs)}]
      <4>1. drain'.step = "pick" /\ drain'.todo = Queued(syncs)
        BY <3>2 DEF SyncInv, DrainOK, DrainRec
      <4> QED BY <4>1 DEF DrainQuiet, Asked, BeingStarted, StartSteps, Queued, Known
    <3> QED BY <2>1, <3>1, <3>2 DEF DrainReads
  <2>2. CASE DrainFindsHostOffline
    BY <2>2, QuietDrains DEF DrainFindsHostOffline
  <2>3. CASE AnswerIsLost
    BY <2>3, QuietDrains DEF AnswerIsLost, StartSteps
  <2>4. CASE AgentRestarts
    BY <2>4, QuietDrains DEF AgentRestarts, StartSteps
  <2> QED BY <2>1, <2>2, <2>3, <2>4
<1> QED BY <1>1, <1>2, <1>3, <1>4, QuietStep

LEMMA FreshLaunches ==
  ASSUME SyncInv, FreshInv, NEW j \in Known, NEW a \in Attempts, AgentLaunches(j, a)
  PROVE  FreshInv'
<1>1. /\ UNCHANGED <<syncs, touched, request, turns, inbox, tracked, stateFiles>>
      /\ monitor[j][a] = "launching" /\ monitor' = [monitor EXCEPT ![j][a] = "watching"]
      /\ drain' = drain \/ Goes("pick")
  BY DEF AgentLaunches, storeVars, requestVars
<1>2. ~Traceless(j)
  BY <1>1 DEF Traceless
<1> QED BY <1>1, <1>2, QuietDrains, MonitorOfOne, JobStep

LEMMA FreshSettles ==
  ASSUME SyncInv, FreshInv, NEW j \in Known, NEW a \in Attempts, MonitorSettles(j, a)
  PROVE  FreshInv'
<1>1. PICK st \in Outcomes(j) : /\ monitor' = [monitor EXCEPT ![j][a] = st]
                                /\ inbox' = inbox \cup {Post(j, a, st, "agent")}
  BY DEF MonitorSettles
<1>2. /\ UNCHANGED <<syncs, touched, request, turns, drain, tracked, stateFiles>>
      /\ monitor[j][a] = "watching"
  BY DEF MonitorSettles, storeVars, requestVars
<1>3. ~Traceless(j)
  BY <1>2 DEF Traceless
<1>4. st # "running"
  BY <1>1, OutcomesOK DEF Verdicts
<1>5. Post(j, a, st, "agent").job = j /\ Post(j, a, st, "agent").status = st
  BY DEF Post
<1> QED BY <1>1, <1>2, <1>3, <1>4, <1>5, QuietDrains, MonitorOfOne, JobStep

LEMMA FreshPosts ==
  ASSUME SyncInv, FreshInv, NEW j \in Known, NEW a \in Attempts, AgentPosts(j, a)
  PROVE  FreshInv'
<1>1. UNCHANGED <<syncs, touched, request, turns, drain, tracked, stateFiles, monitor>>
  BY DEF AgentPosts, storeVars, requestVars, agentVars
<1>2. CASE inbox' = inbox
  BY <1>1, <1>2, IdleStep
<1>3. CASE monitor[j][a] \in Verdicts
  <2>1. PICK st \in Verdicts : st = monitor[j][a]
    BY <1>3
  <2>2. inbox' = inbox \cup {Post(j, a, st, "agent")}
    BY <2>1 DEF AgentPosts
  <2>3. ~Traceless(j) /\ st # "running"
    BY <2>1 DEF Traceless, Verdicts
  <2>4. Post(j, a, st, "agent").job = j /\ Post(j, a, st, "agent").status = st
    BY DEF Post
  <2> QED BY <1>1, <2>2, <2>3, <2>4, QuietDrains, JobStep
<1>4. CASE monitor[j][a] \notin Verdicts /\ monitor[j][a] = "watching" /\ syncs[j].status = "queued"
  <2>1. inbox' = inbox \cup {Post(j, a, "running", "agent")}
    BY <1>4 DEF AgentPosts
  <2>2. ~Traceless(j)
    BY <1>4 DEF Traceless
  <2>3. j \in touched
    BY <1>4, <2>2 DEF FreshInv, Untouched, StartedFirst
  <2>4. Post(j, a, "running", "agent").job = j
    BY DEF Post
  <2> QED BY <1>1, <2>1, <2>2, <2>3, <2>4, QuietDrains, JobStep
<1>5. CASE monitor[j][a] \notin Verdicts /\ ~(monitor[j][a] = "watching" /\ syncs[j].status = "queued")
  <2>1. inbox' = inbox
    BY <1>5 DEF AgentPosts
  <2> QED BY <2>1, <1>2
<1> QED BY <1>3, <1>4, <1>5

LEMMA FreshForgets ==
  ASSUME SyncInv, FreshInv, NEW j \in Known, NEW a \in Attempts, AgentGivesUp(j, a)
  PROVE  FreshInv'
<1>1. /\ UNCHANGED <<syncs, touched, request, turns, drain>>
      /\ monitor[j][a] \in Verdicts /\ monitor' = [monitor EXCEPT ![j][a] = "none"]
      /\ tracked' \subseteq tracked /\ stateFiles' \subseteq stateFiles /\ inbox' \subseteq inbox
  BY DEF AgentGivesUp, Forget, storeVars, requestVars
<1>2. ~Traceless(j)
  BY <1>1 DEF Traceless, Verdicts
<1> QED BY <1>1, <1>2, QuietDrains, MonitorOfOne, JobStep

LEMMA FreshRecovers ==
  ASSUME SyncInv, FreshInv, NEW j \in Known, AgentRecovers(j)
  PROVE  FreshInv'
<1>1. /\ UNCHANGED <<syncs, touched, request, turns, drain, stateFiles, inbox>>
      /\ j \in stateFiles /\ tracked' \subseteq tracked \cup {j}
  BY DEF AgentRecovers, storeVars, handlerVars, requestVars
<1>2. \E a \in Attempts : \E st : monitor' = [monitor EXCEPT ![j][a] = st]
  <2>1. syncs[j].attempt \in Attempts
    BY JobType DEF SyncInv, StoreOK, Known
  <2> QED BY <2>1 DEF AgentRecovers
<1>3. ~Traceless(j)
  BY <1>1 DEF Traceless
<1> QED BY <1>1, <1>2, <1>3, QuietDrains, MonitorOfOne, JobStep

LEMMA FreshCancelsAtAgent ==
  ASSUME SyncInv, FreshInv, CancelsAtAgent
  PROVE  FreshInv'
<1>1. UNCHANGED <<syncs, touched, request, turns, drain, monitor>>
  BY DEF CancelsAtAgent, storeVars, requestVars
<1>2. PICK j \in Known : j = operator.job
  BY DEF CancelsAtAgent, SyncInv, OperatorOK
<1>3. CASE UNCHANGED <<tracked, stateFiles, inbox>>
  BY <1>1, <1>3, IdleStep
<1>4. CASE /\ j \in tracked \cup stateFiles
           /\ tracked' = tracked \ {j} /\ stateFiles' = stateFiles \ {j}
           /\ inbox' = inbox \cup {Post(j, syncs[j].attempt, "cancelled", "agent")}
  <2>1. ~Traceless(j)
    BY <1>4 DEF Traceless
  <2>2. PICK p : p = Post(j, syncs[j].attempt, "cancelled", "agent")
    OBVIOUS
  <2>3. p.job = j /\ p.status # "running" /\ inbox' = inbox \cup {p}
    BY <2>2, <1>4 DEF Post
  <2> QED BY <1>1, <1>4, <2>1, <2>3, QuietDrains, JobStep
<1> QED BY <1>2, <1>3, <1>4 DEF CancelsAtAgent

LEMMA FreshReconciles ==
  ASSUME SyncInv, FreshInv, ReconcileAsks
  PROVE  FreshInv'
<1> DEFINE young == IF drain.step \in {"asked", "accepted", "broken"} THEN {drain.job} ELSE {}
<1> DEFINE lost == Running(syncs) \ (tracked \cup young)
<1>1. /\ UNCHANGED <<syncs, touched, request, turns, drain, tracked, stateFiles, monitor>>
      /\ inbox' = inbox \cup {Post(j, syncs[j].attempt, "failed", "reconcile") : j \in lost}
  BY DEF ReconcileAsks, storeVars, requestVars, agentVars
<1>2. \A p \in inbox' : p \in inbox \/ (p.job \in lost /\ p.status = "failed")
  <2> HIDE DEF lost
  <2> SUFFICES ASSUME NEW p \in inbox', p \notin inbox PROVE p.job \in lost /\ p.status = "failed"
    OBVIOUS
  <2>1. PICK j \in lost : p = Post(j, syncs[j].attempt, "failed", "reconcile")
    BY <1>1
  <2> QED BY <2>1 DEF Post
<1>3. ASSUME NEW j \in Known, syncs[j].status = "queued" \/ Asked(j), Traceless(j)
      PROVE  Traceless(j)'
  <2>1. j \notin lost
    BY <1>3 DEF Running, Asked
  <2> QED BY <2>1, <1>1, <1>2, <1>3 DEF Traceless
<1>4. \A p, j : RunningPost(p, j)' => RunningPost(p, j)
  BY <1>2 DEF RunningPost
<1> QED BY <1>1, <1>3, <1>4, QuietDrains, QuietStep

\* Posts are of the agent or of the reconciliation, so their turns are not those of others.
LEMMA PostTurns ==
  ASSUME SyncInv, NEW p \in inbox
  PROVE  PostTurn(p) # RequestTurn /\ PostTurn(p) # OperatorTurn /\ PostTurn(p) \in Turns
<1>1. p.from \in {"agent", "reconcile"}
  BY DEF SyncInv, InboxOK, PostRec
<1> QED BY <1>1, TurnsDiffer, PostTurnType

\* The first turn is over, and it was not that of a report which is still to be written.
LEMMA TurnsTail ==
  ASSUME SyncInv, FreshInv, turns # <<>>, turns' = Tail(turns),
         request' = request \/ Head(turns) = RequestTurn,
         \A p : RunningPost(p, p.job)' /\ Read(p) /\ Untouched(p.job)' => Head(turns) # PostTurn(p)
  PROVE  TurnsStay
<1>1. turns \in Seq(Turns)
  BY DEF SyncInv, TurnsOK
<1>2. ASSUME NEW p, RunningPost(p, p.job)', Read(p), Untouched(p.job)'
      PROVE  /\ Takes(turns, PostTurn(p)) => Takes(turns', PostTurn(p))
             /\ Before(turns, PostTurn(p)) => Before(turns', PostTurn(p))
  BY <1>1, <1>2, TailTakes
<1>3. /\ OneRequest(turns) => OneRequest(turns')
      /\ OneRequest(turns) /\ Takes(turns', RequestTurn) => Takes(turns, RequestTurn) /\ request' = request
  BY <1>1, TailTakes
<1> QED BY <1>2, <1>3 DEF TurnsStay

\* A turn is taken that is not that of a request.
LEMMA TurnsAppend ==
  ASSUME SyncInv, NEW u \in Turns, u # RequestTurn, turns' = Append(turns, u), request' = request,
         \A p : RunningPost(p, p.job)' /\ Read(p) /\ Untouched(p.job)' => u # PostTurn(p)
  PROVE  TurnsStay
<1>1. turns \in Seq(Turns)
  BY DEF SyncInv, TurnsOK
<1>2. ASSUME NEW p, RunningPost(p, p.job)', Read(p), Untouched(p.job)'
      PROVE  /\ Takes(turns, PostTurn(p)) => Takes(turns', PostTurn(p))
             /\ Before(turns, PostTurn(p)) => Before(turns', PostTurn(p))
  BY <1>1, <1>2, AppendTakes
<1>3. /\ OneRequest(turns) => OneRequest(turns')
      /\ Takes(turns', RequestTurn) => Takes(turns, RequestTurn)
  BY <1>1, AppendTakes
<1> QED BY <1>2, <1>3 DEF TurnsStay

LEMMA FreshOperatorReads ==
  ASSUME SyncInv, FreshInv, NEW j \in Known, OperatorReads(j)
  PROVE  FreshInv'
<1>1. /\ UNCHANGED <<syncs, touched, request, drain, tracked, stateFiles, monitor, inbox>>
      /\ turns' = turns \/ turns' = Append(turns, OperatorTurn)
  BY DEF OperatorReads, storeVars, agentVars, requestVars
<1>2. TurnsStay
  <2>1. CASE turns' = turns
    BY <2>1, <1>1, TurnsSame
  <2>2. CASE turns' = Append(turns, OperatorTurn)
    <3>1. OperatorTurn \in Turns /\ OperatorTurn # RequestTurn
      BY TurnsDiffer
    <3>2. \A p : RunningPost(p, p.job)' => OperatorTurn # PostTurn(p)
      BY <1>1, PostTurns DEF RunningPost
    <3> QED BY <2>2, <3>1, <3>2, <1>1, TurnsAppend
  <2> QED BY <1>1, <2>1, <2>2
<1>3. \A i \in Known : Steady(i)
  BY <1>1, QuietDrains DEF Steady, DrainQuiet, Traceless, RunningPost
<1> QED BY <1>1, <1>2, <1>3, FreshKeeps DEF Known

LEMMA FreshBoots ==
  ASSUME SyncInv, FreshInv, OffsiteBoot
  PROVE  FreshInv'
<1>1. /\ UNCHANGED <<syncs, touched, tracked, stateFiles, monitor>>
      /\ inbox' = {} /\ turns' = <<>> /\ request'.step = "idle"
  BY DEF OffsiteBoot, storeVars, agentVars, NoRequest
<1>2. DrainQuiet
  BY QuietDrains DEF OffsiteBoot
<1>3. TurnsStay
  BY <1>1 DEF TurnsStay, RunningPost, Takes, OneRequest
<1>4. \A i \in Known : Steady(i)
  BY <1>1, <1>2 DEF Steady, DrainQuiet, Traceless, RunningPost
<1> QED BY <1>1, <1>3, <1>4, FreshKeeps DEF Known

\* A step that changes the record of one job, and of the others neither status nor traces.
LEMMA OthersSteady ==
  ASSUME SyncInv, DrainQuiet, NEW j \in Known, NEW i \in Known, i # j,
         syncs'[i].status = syncs[i].status, tracked' \subseteq tracked,
         stateFiles' \subseteq stateFiles, inbox' \subseteq inbox,
         \A b \in Attempts : monitor'[i][b] = monitor[i][b]
  PROVE  Steady(i)
<1>1. Traceless(i) => Traceless(i)'
  BY DEF Traceless
<1>2. \A p : RunningPost(p, i)' => RunningPost(p, i)
  BY DEF RunningPost
<1> QED BY <1>1, <1>2 DEF Steady, DrainQuiet

LEMMA FreshFollowsUp ==
  ASSUME SyncInv, FreshInv, NEW j \in Known, RunsFollowUp(j)
  PROVE  FreshInv'
<1>1. /\ UNCHANGED <<touched, request, turns, drain, inbox, tracked, stateFiles, monitor>>
      /\ syncs' = [syncs EXCEPT ![j].followUp = FALSE]
  BY DEF RunsFollowUp, agentVars
<1>2. PICK new : new = [syncs[j] EXCEPT !.followUp = FALSE]
  OBVIOUS
<1>3. /\ new.vm = syncs[j].vm /\ new.status = syncs[j].status
  BY <1>2, JobType DEF SyncInv, StoreOK, Known, SyncRec
<1>4. syncs' = [syncs EXCEPT ![j] = new]
  BY <1>1, <1>2
<1>5. /\ Len(syncs') = Len(syncs)
      /\ \A i \in Known : syncs'[i].vm = syncs[i].vm /\ syncs'[i].status = syncs[i].status
  BY <1>3, <1>4 DEF SyncInv, StoreOK, Known
<1>6. \A i \in Known : Steady(i)
  BY <1>1, <1>5, QuietDrains DEF Steady, DrainQuiet, Traceless, RunningPost
<1> QED BY <1>1, <1>5, <1>6, TurnsSame, FreshKeeps DEF Known

LEMMA FreshGivesUp ==
  ASSUME SyncInv, FreshInv, DrainGivesUp
  PROVE  FreshInv'
<1>1. /\ UNCHANGED <<dataVars, touched, request, turns, inbox, tracked, stateFiles, monitor,
                     sessionVars>>
      /\ wanted' = wanted /\ followUps' = followUps /\ troubles' = troubles
      /\ Goes("pick") /\ drain.step \in StartSteps
  BY DEF DrainGivesUp, requestVars, taskVars, agentVars, StartSteps
<1>2. PICK st \in {"failed", "unsupported"} : Finished(drain.job, st)
  BY DEF DrainGivesUp
<1>3. PICK j \in Known : j = drain.job
  BY <1>1 DEF SyncInv, DrainOK
<1>4. /\ Known' = Known
      /\ \A i \in Known : /\ syncs'[i].status = IF i = j THEN st ELSE syncs[i].status
                          /\ syncs'[i].vm = syncs[i].vm
  BY <1>1, <1>2, <1>3, FinishedOK DEF Terminal, Verdicts, SyncInv, StoreOK
<1>5. DrainQuiet /\ drain'.step = "pick" /\ drain'.todo = drain.todo
  BY <1>1, QuietDrains DEF Goes, SyncInv, DrainOK, DrainRec
<1>6. \A i \in Known : i # j => Steady(i)
  BY <1>1, <1>4, <1>5, OthersSteady
<1>7. ASSUME j \notin touched PROVE IsOver(j)
  <2>1. ~IsActive(syncs'[j])
    BY <1>4 DEF IsActive
  <2>2. j \notin drain.todo
    BY <1>1, <1>3, <1>7 DEF FreshInv, StartedFirst, Untouched, BeingStarted
  <2> QED BY <1>1, <1>5, <2>1, <2>2 DEF IsOver, Asked, RunningPost
<1> QED BY <1>1, <1>4, <1>6, <1>7, TurnsSame, FreshKeeps

LEMMA FreshPicks ==
  ASSUME SyncInv, FreshInv, DrainPicks
  PROVE  FreshInv'
<1>1. /\ UNCHANGED <<dataVars, touched, request, turns, inbox, tracked, stateFiles, monitor,
                     sessionVars>>
      /\ wanted' = wanted /\ followUps' = followUps /\ troubles' = troubles
      /\ drain.step = "pick"
  BY DEF DrainPicks, requestVars, taskVars, agentVars
<1>2. drain \in DrainRec
  BY DEF SyncInv, DrainOK
<1>3. CASE drain.todo = {} /\ drain' = NoDrain /\ UNCHANGED syncs
  BY <1>1, <1>3, QuietDrains, QuietStep DEF Traceless, RunningPost
<1>4. CASE \E j \in drain.todo : DrainTakes(j)
  <2>1. PICK j \in drain.todo : DrainTakes(j)
    BY <1>4
  <2>2. j \in Known
    BY DEF SyncInv, DrainOK
  <2>3. CASE drain' = [drain EXCEPT !.todo = @ \ {j}] /\ UNCHANGED syncs
    <3>1. drain'.todo \subseteq drain.todo /\ drain'.step = drain.step /\ drain'.job = drain.job
      BY <1>2, <2>3 DEF DrainRec
    <3>2. DrainQuiet
      BY <3>1 DEF DrainQuiet, Asked, BeingStarted
    <3> QED BY <1>1, <2>3, <3>2, QuietStep DEF Traceless, RunningPost
  <2>4. CASE /\ Finished(j, "running")
             /\ drain' = [drain EXCEPT !.todo = @ \ {j}, !.job = j, !.step = "asked",
                                       !.busy = @ \cup {syncs[j].vm}]
    <3>1. /\ Known' = Known
          /\ \A i \in Known : /\ syncs'[i].status = IF i = j THEN "running" ELSE syncs[i].status
                              /\ syncs'[i].vm = syncs[i].vm
      BY <1>1, <2>2, <2>4, FinishedOK DEF SyncInv, StoreOK
    <3>2. PICK busy : busy = drain.busy \cup {syncs[j].vm}
      OBVIOUS
    <3>3. drain' = [drain EXCEPT !.todo = drain.todo \ {j}, !.job = j, !.step = "asked", !.busy = busy]
      BY <2>4, <3>2
    <3>4. drain'.todo = drain.todo \ {j} /\ drain'.job = j /\ drain'.step = "asked"
      BY <1>2, <3>3 DEF DrainRec
    <3>5. ASSUME NEW i \in Known, i # j PROVE Steady(i)
      <4>1. ~BeingStarted(i)' /\ ~Asked(i)' /\ (i \in drain'.todo => i \in drain.todo)
        BY <3>4, <3>5 DEF BeingStarted, Asked
      <4>2. (Traceless(i) => Traceless(i)') /\ \A p : RunningPost(p, i)' => RunningPost(p, i)
        BY <1>1 DEF Traceless, RunningPost
      <4> QED BY <4>1, <4>2, <3>1, <3>5 DEF Steady
    <3>6. ASSUME j \notin touched PROVE StillRuns(j)
      <4>1. StartedFirst(j) /\ syncs[j].status = "queued" /\ Traceless(j)
        BY <2>2, <3>6 DEF FreshInv, Untouched, StartedFirst
      <4>2. Traceless(j)' /\ (\A p : ~RunningPost(p, j)') /\ Claims(j)
        BY <1>1, <4>1 DEF Traceless, RunningPost, Claims, IsActive
      <4>3. request'.step = "read" => IsActive(request'.seen[j])
        BY <1>1, <4>1 DEF StartedFirst
      <4> QED BY <2>2, <3>1, <3>4, <4>2, <4>3 DEF StillRuns
    <3> QED BY <1>1, <3>1, <3>5, <3>6, TurnsSame, FreshKeeps
  <2> QED BY <2>1, <2>3, <2>4 DEF DrainTakes
<1> QED BY <1>3, <1>4 DEF DrainPicks, DrainTakes

\* A job waits again, or is cancelled; either way it is touched.
LEMMA TouchedStep ==
  ASSUME SyncInv, FreshInv, NEW j \in Known, touched' = touched \cup {j}, Len(syncs') = Len(syncs),
         \A i \in Known : i # j => syncs'[i] = syncs[i],
         UNCHANGED <<request, inbox, tracked, stateFiles, monitor>>, DrainQuiet, TurnsStay
  PROVE  FreshInv'
<1>1. \A i \in Known : i # j => Steady(i)
  BY OthersSteady
<1> QED BY <1>1, FreshKeeps DEF Known

LEMMA OperatorTail ==
  ASSUME SyncInv, FreshInv, Writes(OperatorTurn), UNCHANGED <<request, inbox>>
  PROVE  TurnsStay
<1>1. \A p : RunningPost(p, p.job)' => OperatorTurn # PostTurn(p)
  BY PostTurns DEF RunningPost
<1> QED BY <1>1, TurnsTail DEF Writes

LEMMA FreshOperatorWrites ==
  ASSUME SyncInv, FreshInv, OperatorWrites
  PROVE  FreshInv'
<1>1. /\ UNCHANGED <<dataVars, request, inbox, tracked, stateFiles, monitor>>
      /\ wanted' = wanted /\ followUps' = followUps /\ troubles' = troubles
      /\ drain' = drain \/ StartDrain(<<"operator", 0>>)
      /\ turns' = turns \/ Writes(OperatorTurn)
      /\ operator.call # "none"
  BY DEF OperatorWrites, requestVars, agentVars
<1>2. PICK j \in Known : j = operator.job
  BY <1>1 DEF SyncInv, OperatorOK
<1>3. touched' = touched \cup {j}
  BY <1>2 DEF OperatorWrites, Requeued
<1>4. PICK new : syncs' = [syncs EXCEPT ![j] = new]
  <2>1. CASE Finished(j, "cancelled")
    BY <2>1 DEF Finished
  <2>2. CASE Requeued(j, operator.attempt)
    BY <2>2 DEF Requeued
  <2> QED BY <1>2, <2>1, <2>2 DEF OperatorWrites
<1>5. Len(syncs') = Len(syncs) /\ \A i \in Known : i # j => syncs'[i] = syncs[i]
  BY <1>4 DEF SyncInv, StoreOK, Known
<1>6. DrainQuiet
  BY <1>1, QuietDrains
<1>7. TurnsStay
  BY <1>1, TurnsSame, OperatorTail
<1> QED BY <1>1, <1>3, <1>5, <1>6, <1>7, TouchedStep

LEMMA FreshRearms ==
  ASSUME SyncInv, FreshInv, NEW j \in Known, Rearms(j)
  PROVE  FreshInv'
<1>1. /\ UNCHANGED <<request, turns, inbox, tracked, stateFiles, monitor>>
      /\ Requeued(j, syncs[j].attempt) /\ StartDrain(<<"check", 0>>)
  BY DEF Rearms, requestVars, agentVars
<1>2. PICK new : syncs' = [syncs EXCEPT ![j] = new]
  BY <1>1 DEF Requeued
<1>3. /\ Len(syncs') = Len(syncs) /\ \A i \in Known : i # j => syncs'[i] = syncs[i]
      /\ touched' = touched \cup {j}
  BY <1>1, <1>2 DEF SyncInv, StoreOK, Known, Requeued
<1> QED BY <1>1, <1>3, QuietDrains, TurnsSame, TouchedStep

\* A request whose turn is over leaves the turns of the reports as they were.
LEMMA RequestTail ==
  ASSUME SyncInv, FreshInv, Writes(RequestTurn), inbox' = inbox
  PROVE  TurnsStay
<1>1. \A p : RunningPost(p, p.job)' => RequestTurn # PostTurn(p)
  BY PostTurns DEF RunningPost
<1> QED BY <1>1, TurnsTail DEF Writes

\* No report is to be written any more that makes a job active which the request, when it has
\* its turn, did not see as active.
LEMMA NoClaimMissed ==
  ASSUME SyncInv, FreshInv, request.step = "read", turns # <<>>, Head(turns) = RequestTurn,
         NEW j \in Known, Untouched(j), ~IsActive(request.seen[j]),
         request.seen[j].status = syncs[j].status
  PROVE  ~Claims(j)
<1>1. ~IsActive(syncs[j])
  BY DEF IsActive
<1>2. ASSUME NEW p, RunningPost(p, j), Read(p) PROVE FALSE
  <2>1. Takes(turns, PostTurn(p)) /\ Before(turns, PostTurn(p))
    BY <1>2 DEF FreshInv, PostedOnce
  <2>2. PostTurn(p) # RequestTurn /\ turns \in Seq(Turns)
    BY <1>2, PostTurns DEF RunningPost, SyncInv, TurnsOK
  <2> QED BY <2>1, <2>2, TailTakes
<1> QED BY <1>1, <1>2 DEF Claims

LEMMA FreshCoalesces ==
  ASSUME SyncInv, FreshInv, Writes(RequestTurn), request'.step = "idle", NEW j, NEW f,
         syncs' = syncs \/ syncs' = [syncs EXCEPT ![j].followUp = f],
         UNCHANGED <<drain, touched, inbox, tracked, stateFiles, monitor>>
  PROVE  FreshInv'
<1>1. /\ Len(syncs') = Len(syncs)
      /\ \A i \in Known : syncs'[i].vm = syncs[i].vm /\ syncs'[i].status = syncs[i].status
  <2>1. CASE syncs' = syncs
    BY <2>1
  <2>2. CASE syncs' = [syncs EXCEPT ![j].followUp = f]
    <3>1. PICK new : new = [syncs[j] EXCEPT !.followUp = f]
      OBVIOUS
    <3>2. syncs' = [syncs EXCEPT ![j] = new] /\ syncs \in Seq(SyncRec) /\ Known = DOMAIN syncs
      BY <2>2, <3>1 DEF SyncInv, StoreOK, Known
    <3>3. j \in Known => new.vm = syncs[j].vm /\ new.status = syncs[j].status
      BY <3>1, JobType DEF SyncInv, StoreOK, Known, SyncRec
    <3> QED BY <3>2, <3>3
  <2> QED BY <2>1, <2>2
<1>2. \A i \in Known : Steady(i)
  BY <1>1, QuietDrains DEF Steady, DrainQuiet, Traceless, RunningPost
<1> QED BY <1>1, <1>2, RequestTail, FreshKeeps DEF Known

\* A new job, of a machine of which the request saw no active one.
LEMMA FreshCreates ==
  ASSUME SyncInv, FreshInv, request.step = "read", Writes(RequestTurn), request'.step = "idle",
         ActiveSyncs(request.seen) \cap Of(request.seen, request.vm) = {}, Len(syncs) < MaxJobs,
         syncs' = Append(request.seen, NewJob(request.vm)),
         touched' = touched \cup PutBack(request.seen), StartDrain(<<"request", 0>>),
         UNCHANGED <<inbox, tracked, stateFiles, monitor>>
  PROVE  FreshInv'
<1> DEFINE seen == request.seen
<1>1. /\ seen \in Seq(SyncRec) /\ Len(seen) = Len(syncs) /\ Len(syncs) \in Nat
      /\ \A i \in Known : seen[i].vm = syncs[i].vm
  BY DEF SyncInv, StoreOK, RequestOK
<1>2. PICK new : new = NewJob(request.vm)
  OBVIOUS
<1>3. new.vm = request.vm /\ new.status = "queued"
  BY <1>2 DEF NewJob
<1>4. PICK n : n = Len(syncs) + 1
  OBVIOUS
<1>5. /\ Known' = Known \cup {n} /\ n \notin Known /\ n \in JobIds
      /\ \A i \in Known : syncs'[i] = seen[i]
      /\ syncs'[n] = new
  <2>1. syncs' = Append(seen, new)
    BY <1>2
  <2>2. Len(syncs') = Len(syncs) + 1 /\ syncs'[n] = new /\ \A i \in 1..Len(syncs) : syncs'[i] = seen[i]
    BY <2>1, <1>1, <1>4
  <2> QED BY <2>2, <1>1, <1>4, OffsiteAssumption DEF Known, JobIds
<1>6. ASSUME NEW i \in Known, i \notin touched'
      PROVE  Untouched(i) /\ syncs'[i].status = syncs[i].status /\ syncs'[i].vm = syncs[i].vm
             /\ seen[i].status = syncs[i].status
  BY <1>1, <1>5, <1>6 DEF PutBack, Untouched
<1>7. DrainQuiet
  BY QuietDrains
<1>8. TurnsStay
  BY RequestTail
<1>9. ASSUME NEW i \in Known, i \notin touched'
      PROVE  StartedFirst(i)' /\ PostedOnce(i)' /\ (Claims(i)' => Claims(i))
  <2>1. Steady(i)
    BY <1>6, <1>7, <1>9 DEF Steady, DrainQuiet, Traceless, RunningPost
  <2>2. StartedFirst(i) /\ PostedOnce(i) /\ Untouched(i)'
    BY <1>5, <1>6, <1>9 DEF FreshInv, Untouched
  <2> QED BY <2>1, <2>2, <1>8, SteadyJob
<1>10. Traceless(n)'
  BY <1>5 DEF SyncInv, AgentOK, InboxOK, Traceless
<1>11. ~BeingStarted(n)' /\ ~Asked(n)' /\ n \notin drain'.todo
  <2>1. ~BeingStarted(n) /\ ~Asked(n) /\ n \notin drain.todo
    BY <1>5 DEF SyncInv, DrainOK, BeingStarted, Asked, StartSteps
  <2> QED BY <2>1, <1>5, <1>7 DEF DrainQuiet
<1>12. StartedFirst(n)' /\ PostedOnce(n)'
  BY <1>3, <1>5, <1>10, <1>11 DEF StartedFirst, PostedOnce, Traceless, RunningPost
<1>13. OneTurn'
  BY <1>8 DEF FreshInv, OneTurn, TurnsStay
<1>14. ASSUME NEW i \in Known, i \notin touched', syncs[i].vm = request.vm PROVE ~Claims(i)'
  <2>1. seen[i].vm = request.vm /\ i \in 1..Len(seen)
    BY <1>1, <1>14 DEF Known
  <2>2. i \notin ActiveSyncs(seen)
    BY <2>1 DEF Of
  <2>3. ~IsActive(seen[i])
    BY <2>1, <2>2 DEF ActiveSyncs, Queued, Running, IsActive
  <2>4. ~Claims(i)
    BY <2>3, <1>6, <1>14, NoClaimMissed DEF Writes
  <2> QED BY <2>4, <1>9, <1>14
<1>15. OneClaim'
  <2> SUFFICES ASSUME NEW i \in Known', NEW k \in Known', i \notin touched', k \notin touched',
                      syncs'[i].vm = syncs'[k].vm, Claims(i)', Claims(k)'
               PROVE  i = k
    BY DEF OneClaim, Untouched
  <2>1. CASE i = n /\ k # n
    BY <2>1, <1>3, <1>5, <1>6, <1>14
  <2>2. CASE i # n /\ k = n
    BY <2>2, <1>3, <1>5, <1>6, <1>14
  <2>3. CASE i \in Known /\ k \in Known
    BY <2>3, <1>6, <1>9 DEF FreshInv, OneClaim, Untouched
  <2> QED BY <2>1, <2>2, <2>3, <1>5
<1>16. \A i \in Known' : Untouched(i)' => StartedFirst(i)' /\ PostedOnce(i)'
  BY <1>5, <1>9, <1>12 DEF Untouched
<1> QED BY <1>13, <1>15, <1>16 DEF FreshInv

LEMMA FreshSaves ==
  ASSUME SyncInv, FreshInv, RequestSaves
  PROVE  FreshInv'
<1>1. /\ request.step = "read" /\ Writes(RequestTurn) /\ request'.step = "idle"
      /\ UNCHANGED <<inbox, tracked, stateFiles, monitor>>
  BY DEF RequestSaves, NoRequest, agentVars
<1>2. CASE /\ ActiveSyncs(request.seen) \cap Of(request.seen, request.vm) = {} /\ Len(syncs) < MaxJobs
           /\ syncs' = Append(request.seen, NewJob(request.vm))
           /\ touched' = touched \cup PutBack(request.seen) /\ StartDrain(<<"request", 0>>)
  BY <1>1, <1>2, FreshCreates
<1>3. CASE /\ UNCHANGED <<drain, touched>>
           /\ \E j : syncs' = syncs \/ syncs' = [syncs EXCEPT ![j].followUp = TRUE]
  BY <1>1, <1>3, FreshCoalesces
<1> QED BY <1>2, <1>3 DEF RequestSaves

LEMMA FreshRequestReads ==
  ASSUME SyncInv, FreshInv, NEW vm \in VMs, RequestReads(vm)
  PROVE  FreshInv'
<1>1. /\ UNCHANGED <<syncs, touched, drain, inbox, tracked, stateFiles, monitor>>
      /\ request.step = "idle" /\ request' = [step |-> "read", vm |-> vm, seen |-> syncs]
      /\ turns' = Append(turns, RequestTurn)
  BY DEF RequestReads, storeVars, agentVars
<1>2. request'.step = "read" /\ request'.seen = syncs /\ Known' = Known
  BY <1>1 DEF Known
<1>3. turns \in Seq(Turns) /\ RequestTurn \in Turns /\ ~Takes(turns, RequestTurn)
  BY <1>1, TurnsDiffer DEF SyncInv, TurnsOK, FreshInv, OneTurn
<1>4. /\ \A j : Traceless(j)' <=> Traceless(j)
      /\ \A j : BeingStarted(j)' <=> BeingStarted(j)
      /\ \A j : Asked(j)' <=> Asked(j)
      /\ \A p, j : RunningPost(p, j)' <=> RunningPost(p, j)
      /\ \A j : Claims(j)' <=> Claims(j)
      /\ \A j : Untouched(j)' <=> Untouched(j)
  BY <1>1, <1>2 DEF Traceless, BeingStarted, Asked, RunningPost, Claims, Untouched
<1>5. ASSUME NEW j \in Known, Untouched(j) PROVE StartedFirst(j)' /\ PostedOnce(j)'
  <2>1. StartedFirst(j) /\ PostedOnce(j)
    BY <1>5 DEF FreshInv
  <2>2. StartedFirst(j)'
    BY <1>1, <1>2, <1>4, <2>1 DEF StartedFirst, IsActive
  <2>3. ASSUME NEW p, RunningPost(p, j), Read(p)
        PROVE  Takes(turns', PostTurn(p)) /\ Before(turns', PostTurn(p))
    <3>1. PostTurn(p) # RequestTurn /\ Takes(turns, PostTurn(p))
      BY <2>1, <2>3, PostTurns DEF RunningPost, PostedOnce
    <3> QED BY <3>1, <1>1, <1>3, AppendTakes
  <2>4. PostedOnce(j)'
    BY <1>1, <1>2, <1>4, <2>1, <2>3 DEF PostedOnce
  <2> QED BY <2>2, <2>4
<1>6. OneTurn'
  BY <1>1, <1>2, <1>3, AppendTakes DEF FreshInv, OneTurn
<1>7. OneClaim'
  BY <1>1, <1>2, <1>4 DEF FreshInv, OneClaim
<1> QED BY <1>2, <1>4, <1>5, <1>6, <1>7 DEF FreshInv

\* The answer to a post removes traces of its job only.
LEMMA AnswersQuietly ==
  ASSUME SyncInv, NEW p \in inbox, Answers(p)
  PROVE  /\ tracked' \subseteq tracked /\ stateFiles' \subseteq stateFiles
         /\ \A i \in Known : i # p.job => \A b \in Attempts : monitor'[i][b] = monitor[i][b]
<1>1. p.job \in Known /\ p.attempt \in Attempts
  BY DEF SyncInv, InboxOK, PostRec
<1>2. CASE UNCHANGED agentVars
  BY <1>2 DEF agentVars
<1>3. CASE Forget(p.job, p.attempt)
  BY <1>1, <1>3, MonitorOfOne DEF Forget
<1> QED BY <1>2, <1>3 DEF Answers

LEMMA FreshHandlerReads ==
  ASSUME SyncInv, FreshInv, NEW p \in inbox, HandlerReads(p)
  PROVE  FreshInv'
<1> DEFINE status == syncs[p.job].status
<1>1. /\ UNCHANGED <<syncs, touched, request, drain>> /\ p.read = "not yet"
  BY DEF HandlerReads, storeVars, requestVars
<1>2. p.job \in Known /\ p \in PostRec /\ ~Traceless(p.job) /\ ~Read(p)
  BY <1>1 DEF SyncInv, InboxOK, Traceless, Read
<1>3. CASE status \in Terminal /\ inbox' = inbox \ {p} /\ Answers(p) /\ UNCHANGED turns
  BY <1>1, <1>2, <1>3, QuietDrains, AnswersQuietly, JobStep
<1>4. CASE /\ status \notin Terminal /\ inbox' = (inbox \ {p}) \cup {[p EXCEPT !.read = status]}
           /\ turns' = Append(turns, PostTurn(p)) /\ UNCHANGED <<agentVars, troubles>>
  <2>1. status \in {"queued", "running"}
    BY <1>2, <1>4, JobType DEF SyncInv, StoreOK, Known
  <2>2. PICK q : q = [p EXCEPT !.read = status]
    OBVIOUS
  <2>3. /\ q.job = p.job /\ q.status = p.status /\ Read(q) /\ PostTurn(q) = PostTurn(p)
        /\ inbox' = (inbox \ {p}) \cup {q}
    BY <1>2, <1>4, <2>1, <2>2 DEF PostRec, Read, PostTurn
  <2>4. UNCHANGED <<tracked, stateFiles, monitor>> /\ Known' = Known
    BY <1>1, <1>4 DEF agentVars, Known
  <2>5. turns \in Seq(Turns) /\ PostTurn(p) \in Turns /\ PostTurn(p) # RequestTurn
    BY PostTurns DEF SyncInv, TurnsOK
  <2>6. Takes(turns', PostTurn(p))
    BY <1>4, <2>5, AppendTakes
  <2>7. DrainQuiet
    BY <1>1, QuietDrains
  <2>8. \A i \in Known : i # p.job => Steady(i)
    <3> SUFFICES ASSUME NEW i \in Known, i # p.job PROVE Steady(i)
      OBVIOUS
    <3>1. (Traceless(i) => Traceless(i)') /\ \A r : RunningPost(r, i)' => RunningPost(r, i)
      BY <2>3, <2>4 DEF Traceless, RunningPost
    <3> QED BY <3>1, <2>7, <1>1 DEF Steady, DrainQuiet
  <2>9. CASE p.status # "running" \/ p.job \in touched
    <3>1. \A r : RunningPost(r, r.job)' /\ Untouched(r.job)' => PostTurn(p) # PostTurn(r)
      BY <2>9, <1>1, TurnsDiffer DEF RunningPost, Untouched
    <3>2. TurnsStay
      BY <3>1, <1>1, <1>4, <2>5, TurnsAppend
    <3>3. p.job \notin touched => Steady(p.job)
      <4>1. p.job \notin touched => \A r : RunningPost(r, p.job)' => RunningPost(r, p.job)
        BY <2>3, <2>9 DEF RunningPost
      <4> QED BY <4>1, <2>7, <1>1, <1>2 DEF Steady, DrainQuiet
    <3> QED BY <1>1, <2>4, <2>8, <3>2, <3>3, FreshKeeps
  <2>10. CASE p.status = "running" /\ p.job \notin touched
    <3> DEFINE j == p.job
    <3>1. Untouched(j) /\ StartedFirst(j) /\ PostedOnce(j) /\ RunningPost(p, j)
      BY <1>2, <2>10 DEF FreshInv, Untouched, RunningPost
    <3>2. \A r : RunningPost(r, j)' => r = q
      BY <2>3, <3>1 DEF PostedOnce, RunningPost
    <3>3. IsActive(syncs[j]) /\ (request.step = "read" => IsActive(request.seen[j]))
      BY <1>2, <2>1, <3>1 DEF PostedOnce, IsActive
    <3>4. \A r : RunningPost(r, r.job)' /\ Read(r) /\ r # q => PostTurn(p) # PostTurn(r)
      <4> SUFFICES ASSUME NEW r, RunningPost(r, r.job)', r # q, PostTurn(p) = PostTurn(r)
                   PROVE  FALSE
        OBVIOUS
      <4>1. r.job = j
        BY TurnsDiffer
      <4> QED BY <4>1, <3>2
    <3>5. \A r : RunningPost(r, r.job)' /\ Read(r) /\ r # q =>
            /\ Takes(turns, PostTurn(r)) => Takes(turns', PostTurn(r))
            /\ Before(turns, PostTurn(r)) => Before(turns', PostTurn(r))
      BY <3>4, <1>4, <2>5, AppendTakes
    <3>6. /\ OneRequest(turns) => OneRequest(turns')
          /\ Takes(turns', RequestTurn) => Takes(turns, RequestTurn)
      BY <1>4, <2>5, AppendTakes
    <3>7. ASSUME NEW i \in Known, i # j, i \notin touched
          PROVE  StartedFirst(i)' /\ PostedOnce(i)' /\ (Claims(i)' => Claims(i))
      <4>1. StartedFirst(i) /\ PostedOnce(i) /\ Steady(i)
        BY <3>7, <2>8 DEF FreshInv, Untouched
      <4>2. \A r : RunningPost(r, i)' => RunningPost(r, i) /\ r # q /\ RunningPost(r, r.job)'
        BY <4>1, <3>7, <2>3 DEF Steady, RunningPost
      <4>3. StartedFirst(i)' /\ (Claims(i)' => Claims(i))
        BY <4>1, <1>1 DEF StartedFirst, Steady, Claims, IsActive, Read
      <4>4. PostedOnce(i)'
        <5>1. \A r, s : RunningPost(r, i)' /\ RunningPost(s, i)' => r = s
          BY <4>1, <4>2 DEF PostedOnce
        <5>2. \A r : RunningPost(r, i)' /\ Read(r) => Takes(turns', PostTurn(r))
          BY <4>1, <4>2, <3>5 DEF PostedOnce
        <5>3. \A r : RunningPost(r, i)' /\ ~Read(r) /\ request'.step = "read" /\ ~IsActive(request'.seen[i])
                => ~IsActive(syncs'[i])
          BY <4>1, <4>2, <1>1 DEF PostedOnce
        <5>4. \A r : RunningPost(r, i)' /\ Read(r) /\ request'.step = "read" /\ ~IsActive(request'.seen[i])
                => Before(turns', PostTurn(r))
          BY <4>1, <4>2, <3>5, <1>1 DEF PostedOnce
        <5> QED BY <5>1, <5>2, <5>3, <5>4 DEF PostedOnce, Read
      <4> QED BY <4>3, <4>4
    <3>8. StartedFirst(j)'
      <4>1. ~(syncs[j].status = "queued" \/ Asked(j))
        BY <1>2, <3>1 DEF StartedFirst
      <4> QED BY <4>1, <3>1, <1>1 DEF StartedFirst, Asked
    <3>9. PostedOnce(j)'
      BY <2>3, <2>6, <3>2, <3>3, <1>1 DEF PostedOnce, Read
    <3>10. Claims(j)
      BY <3>3 DEF Claims
    <3>11. OneTurn'
      BY <1>1, <3>6 DEF FreshInv, OneTurn
    <3>12. \A i \in Known : i \notin touched => (Claims(i)' => Claims(i))
      BY <3>7, <3>10
    <3>13. OneClaim'
      BY <3>12, <1>1, <2>4 DEF FreshInv, OneClaim, Untouched
    <3> QED BY <3>7, <3>8, <3>9, <3>11, <3>13, <1>1, <2>4 DEF FreshInv, Untouched
  <2> QED BY <2>9, <2>10
<1> QED BY <1>3, <1>4 DEF HandlerReads

LEMMA FreshHandlerWrites ==
  ASSUME SyncInv, FreshInv, NEW p \in inbox, HandlerWrites(p)
  PROVE  FreshInv'
<1> DEFINE j == p.job
<1>1. /\ UNCHANGED <<dataVars, touched, request, sessionVars>> /\ wanted' = wanted
      /\ inbox' = inbox \ {p} /\ Finished(j, p.status) /\ Answers(p) /\ Read(p)
      /\ Writes(PostTurn(p))
  BY DEF HandlerWrites, requestVars, Read
<1>2. /\ j \in Known /\ p \in PostRec /\ p.status \in Verdicts \cup {"running"}
      /\ p.status = "completed" => Earned(j)
      /\ ~Traceless(j)
  BY DEF SyncInv, InboxOK, PostRec, Traceless
<1>3. /\ Known' = Known
      /\ \A i \in Known : /\ syncs'[i].status = IF i = j THEN p.status ELSE syncs[i].status
                          /\ syncs'[i].vm = syncs[i].vm
  <2>1. p.status \in Terminal \cup {"queued", "running"} /\ troubles' \in 0..MaxTroubles
    BY <1>1, <1>2, AnswersCount DEF Terminal
  <2>2. followUps' \in SUBSET Known
    BY <1>2 DEF HandlerWrites, SyncInv, StoreOK
  <2> QED BY <1>1, <1>2, <2>1, <2>2, FinishedOK DEF SyncInv, StoreOK
<1>4. DrainQuiet
  BY QuietDrains DEF HandlerWrites
<1>5. ASSUME NEW i \in Known, i # j PROVE Steady(i)
  <2>1. /\ tracked' \subseteq tracked /\ stateFiles' \subseteq stateFiles
        /\ \A b \in Attempts : monitor'[i][b] = monitor[i][b]
    BY <1>1, <1>5, AnswersQuietly
  <2>2. inbox' \subseteq inbox /\ syncs'[i].status = syncs[i].status
    BY <1>1, <1>3, <1>5
  <2> QED BY <2>1, <2>2, <1>2, <1>4, <1>5, OthersSteady
<1>6. \A r : RunningPost(r, r.job)' /\ Untouched(r.job)' => RunningPost(r, r.job) /\ r # p
  BY <1>1 DEF RunningPost
<1>7. TurnsStay
  <2>1. ASSUME NEW r, RunningPost(r, r.job)', Read(r), Untouched(r.job)' PROVE PostTurn(p) # PostTurn(r)
    <3> SUFFICES ASSUME PostTurn(p) = PostTurn(r) PROVE FALSE
      OBVIOUS
    <3>1. r.job = j /\ p.status = "running" /\ RunningPost(r, j) /\ RunningPost(p, j) /\ r # p
      BY <2>1, <1>6, TurnsDiffer DEF RunningPost
    <3>2. PostedOnce(j)
      BY <1>1, <1>3, <2>1, <3>1 DEF FreshInv, Untouched
    <3> QED BY <3>1, <3>2 DEF PostedOnce
  <2> QED BY <2>1, <1>1, TurnsTail DEF Writes
<1>8. ASSUME j \notin touched PROVE IsOver(j) \/ StillRuns(j)
  <2>1. Untouched(j) /\ StartedFirst(j) /\ PostedOnce(j)
    BY <1>2, <1>8 DEF FreshInv, Untouched
  <2>2. syncs[j].status # "queued" /\ ~Asked(j) /\ j \notin drain.todo
    BY <1>2, <2>1 DEF StartedFirst
  <2>3. ~Asked(j)' /\ j \notin drain'.todo
    BY <1>4, <2>2 DEF DrainQuiet
  <2>4. \A r : RunningPost(r, j)' => RunningPost(r, j)
    BY <1>1 DEF RunningPost
  <2>5. CASE p.status \in Verdicts
    <3>1. ~IsActive(syncs'[j])
      BY <1>2, <1>3, <2>5 DEF IsActive, Verdicts
    <3> QED BY <3>1, <2>3, <2>4 DEF IsOver
  <2>6. CASE p.status = "running"
    <3>1. RunningPost(p, j)
      BY <2>6 DEF RunningPost
    <3>2. Claims(j) /\ \A r : ~RunningPost(r, j)'
      BY <3>1, <2>1, <1>1 DEF Claims, PostedOnce, RunningPost
    <3> QED BY <1>2, <1>3, <2>3, <2>6, <3>2 DEF StillRuns
  <2> QED BY <2>5, <2>6, <1>2
<1> QED BY <1>1, <1>3, <1>5, <1>7, <1>8, FreshKeeps

LEMMA FreshAccepts ==
  ASSUME SyncInv, FreshInv, AgentAcceptsSync
  PROVE  FreshInv'
<1>1. /\ UNCHANGED <<syncs, touched, request, turns>> /\ Goes("accepted") /\ drain.step = "asked"
      /\ tracked' = tracked \cup {drain.job} /\ stateFiles' = stateFiles \cup {drain.job}
      /\ monitor' = [monitor EXCEPT ![drain.job][syncs[drain.job].attempt] = "launching"]
      /\ inbox' = inbox \cup {Post(drain.job, syncs[drain.job].attempt, "running", "agent")}
  BY DEF AgentAcceptsSync, storeVars, requestVars
<1>2. PICK j \in Known : j = drain.job
  BY <1>1 DEF SyncInv, DrainOK, StartSteps
<1>3. PICK a \in Attempts : a = syncs[j].attempt
  BY JobType DEF SyncInv, StoreOK, Known
<1>4. PICK p : p = Post(j, a, "running", "agent")
  OBVIOUS
<1>5. /\ inbox' = inbox \cup {p} /\ monitor' = [monitor EXCEPT ![j][a] = "launching"]
      /\ p.job = j /\ p.status = "running" /\ ~Read(p) /\ Known' = Known
  BY <1>1, <1>2, <1>3, <1>4 DEF Post, Read, Known
<1>6. drain'.step = "accepted" /\ drain'.job = j /\ drain'.todo = drain.todo
  BY <1>1, <1>2 DEF Goes, SyncInv, DrainOK, DrainRec
<1>7. (\A i : ~Asked(i)') /\ \A i : BeingStarted(i)' <=> BeingStarted(i)
  BY <1>1, <1>2, <1>6 DEF Asked, BeingStarted, StartSteps
<1>8. ASSUME NEW i \in Known, i # j PROVE Steady(i)
  <2>1. \A b \in Attempts : monitor'[i][b] = monitor[i][b]
    BY <1>5, <1>8, MonitorOfOne
  <2>2. Traceless(i) => Traceless(i)'
    BY <1>1, <1>2, <1>5, <1>8, <2>1 DEF Traceless
  <2>3. \A r : RunningPost(r, i)' => RunningPost(r, i)
    BY <1>5, <1>8 DEF RunningPost
  <2> QED BY <1>1, <1>6, <1>7, <2>2, <2>3 DEF Steady
<1>9. TurnsStay
  BY <1>1, TurnsSame
<1>10. ASSUME j \notin touched
       PROVE  StartedFirst(j)' /\ PostedOnce(j)' /\ (Claims(j)' => Claims(j))
  <2>1. StartedFirst(j) /\ Asked(j)
    BY <1>1, <1>2, <1>10 DEF FreshInv, Untouched, Asked
  <2>2. Traceless(j) /\ syncs[j].status = "running" /\ j \notin drain.todo
    BY <2>1 DEF StartedFirst
  <2>3. \A r : RunningPost(r, j)' => r = p
    BY <1>5, <2>2 DEF RunningPost, Traceless
  <2>4. request.step = "read" => IsActive(request.seen[j])
    BY <2>1 DEF StartedFirst
  <2>5. StartedFirst(j)'
    BY <1>1, <1>6, <1>7, <2>2 DEF StartedFirst
  <2>6. PostedOnce(j)'
    BY <1>1, <1>5, <2>3, <2>4 DEF PostedOnce, Read
  <2>7. Claims(j)
    BY <2>2 DEF Claims, IsActive
  <2> QED BY <2>5, <2>6, <2>7
<1>11. ASSUME NEW i \in Known, i \notin touched
       PROVE  StartedFirst(i)' /\ PostedOnce(i)' /\ (Claims(i)' => Claims(i))
  <2>1. CASE i = j
    BY <2>1, <1>10, <1>11
  <2>2. CASE i # j
    <3>1. StartedFirst(i) /\ PostedOnce(i) /\ Untouched(i)'
      BY <1>1, <1>5, <1>11 DEF FreshInv, Untouched
    <3> QED BY <3>1, <2>2, <1>1, <1>8, <1>9, SteadyJob
  <2> QED BY <2>1, <2>2
<1>12. OneTurn'
  BY <1>1 DEF FreshInv, OneTurn
<1>13. OneClaim'
  BY <1>1, <1>5, <1>11 DEF FreshInv, OneClaim, Untouched
<1> QED BY <1>1, <1>5, <1>11, <1>12, <1>13 DEF FreshInv, Untouched

-----------------------------------------------------------------------------
(* One active job of a machine *)

LEMMA FreshInit ==
  ASSUME OffsiteInit
  PROVE  FreshInv
<1>1. syncs = <<>> /\ turns = <<>> /\ Known = {}
  BY DEF OffsiteInit, Known
<1> QED BY <1>1 DEF FreshInv, OneTurn, OneClaim, Takes, OneRequest

LEMMA FreshStep ==
  ASSUME SyncInv, FreshInv, OffsiteNext
  PROVE  FreshInv'
<1>1. CASE \E vm \in VMs : BackupLands(vm) \/ CheckFinds(vm)
  BY <1>1, FreshQuietly
<1>2. CASE \E vm \in VMs : RequestReads(vm)
  BY <1>2, FreshRequestReads
<1>3. CASE RequestSaves \/ DrainFindsHostOffline \/ AnswerIsLost
  BY <1>3, FreshSaves, FreshDrains
<1>4. CASE ReconcileAsks \/ AgentRestarts \/ AgentIsUpgraded \/ OffsiteBoot
  BY <1>4, FreshReconciles, FreshDrains, FreshQuietly, FreshBoots
<1>5. CASE \E j \in Known : \/ ScriptMisses(j) \/ ScriptIsKilled(j) \/ OperatorReads(j) \/ Rearms(j)
                             \/ \E a \in Attempts : AgentGivesUp(j, a)
  BY <1>5, FreshQuietly, FreshOperatorReads, FreshRearms, FreshForgets
<1>6. CASE WorkStep
  <2>1. CASE DrainReads \/ DrainPicks \/ DrainGivesUp \/ AgentAcceptsSync
    BY <2>1, FreshDrains, FreshPicks, FreshGivesUp, FreshAccepts
  <2>2. CASE CancelsAtAgent \/ OperatorWrites
    BY <2>2, FreshCancelsAtAgent, FreshOperatorWrites
  <2>3. CASE \E p \in inbox : HandlerReads(p) \/ HandlerWrites(p)
    BY <2>3, FreshHandlerReads, FreshHandlerWrites
  <2>4. CASE \E j \in Known :
               \/ ScriptStarts(j) \/ ScriptCopies(j) \/ ScriptRecords(j) \/ ScriptEnds(j)
               \/ OrphanEnds(j) \/ AgentRecovers(j) \/ RunsFollowUp(j)
    BY <2>4, FreshQuietly, FreshRecovers, FreshFollowsUp
  <2>5. CASE \E j \in Known, a \in Attempts :
               AgentLaunches(j, a) \/ MonitorSettles(j, a) \/ AgentPosts(j, a)
    BY <2>5, FreshLaunches, FreshSettles, FreshPosts
  <2> QED BY <1>6, <2>1, <2>2, <2>3, <2>4, <2>5 DEF WorkStep
<1> QED BY <1>1, <1>2, <1>3, <1>4, <1>5, <1>6 DEF OffsiteNext

\* Two jobs of one machine wait or run at a time only when one of them was started again,
\* cancelled or put back (OneActiveJob): for every number of machines, jobs, attempts and
\* troubles, a job that nobody touched is posted as running once, and a request that creates
\* another job of its machine has either seen it active or comes after its last word.
THEOREM OneAtATime == OffsiteSpec => []OneActiveJob
<1>1. OffsiteInit => SyncInv /\ FreshInv
  BY SyncInit, FreshInit
<1>2. SyncInv /\ FreshInv /\ [OffsiteNext]_offsiteVars => (SyncInv /\ FreshInv)'
  BY SyncStep, SyncStutters, FreshStep, FreshQuietly
<1>3. FreshInv => OneActiveJob
  BY DEF FreshInv, OneClaim, Claims, IsActive, OneActiveJob, Untouched
<1> QED BY <1>1, <1>2, <1>3, PTL DEF OffsiteSpec

-----------------------------------------------------------------------------
(* Restores *)

Step == {"late", "over", "read", "saved"}
EndRec == [of: Restores, step: Step, verdict: FinalStatus]

\* Of a restore that was never taken there is no trace.
Unborn(r) ==
  stateOf[r] = "none" =>
    /\ entry[r] = "none" /\ watchers[r] = 0 /\ killing[r] = "none" /\ saving[r] = "none"
    /\ r \notin starting /\ r \notin noticed /\ r \notin contested
    /\ \A e \in endings : e.of # r
    /\ \A t \in fading : t.of # r
    /\ \A p \in 1..Sweeps : looking[p] # r
    /\ restoring[r] = "none" /\ progress[r] = "none" /\ result[r] = "none"

\* The disks the script saw are done, as far as its progress file can tell.
Done(r) == result[r] \in {"success", "cut"}

\* What an entry or a tick may say of the script.
Tells(r, verdict) == verdict = "completed" <=> Done(r)

\* The ticks that have found the end of r, but for the late one.
EndsOf(r) == {e \in endings : e.of = r /\ e.step # "late"}

EndingOK(r, e) ==
  /\ restoring[r] # "alive" /\ r \in noticed /\ entry[r] # "none"
  /\ e.step = "over" => stateOf[r] = "running" /\ entry[r] = "running"
  /\ e.step # "over" => entry[r] \in FinalStatus /\ Tells(r, e.verdict)
  /\ e.step = "saved" => stateOf[r] # "running"

\* The script and its progress file, which is intact as long as no verdict is on file.
ScriptOK(r) ==
  /\ restoring[r] = "none" => result[r] = "none" /\ progress[r] = "none"
  /\ restoring[r] = "alive" => stateOf[r] = "running"
  /\ restoring[r] = "over" => result[r] # "none"
  /\ stateOf[r] = "running" /\ result[r] # "none" =>
       (progress[r] = "full" <=> Done(r))

EntryOK(r) ==
  /\ stateOf[r] \in FinalStatus => restoring[r] # "alive" /\ Tells(r, stateOf[r])
  /\ entry[r] \in FinalStatus => restoring[r] # "alive" /\ Tells(r, entry[r]) /\ r \in noticed
  /\ entry[r] = "running" => stateOf[r] = "running"
  /\ r \in starting =>
       stateOf[r] = "running" /\ entry[r] = "running" /\ watchers[r] = 0 /\ r \notin noticed
  /\ saving[r] \in FinalStatus =>
       /\ restoring[r] # "alive" /\ Tells(r, saving[r]) /\ entry[r] # "running"
       /\ stateOf[r] = "running" => entry[r] # "none"

EndsOK(r) ==
  /\ \A e \in EndsOf(r) : EndingOK(r, e)
  /\ \A e, f \in EndsOf(r) : e = f
  /\ \A t \in fading : t.of = r =>
       stateOf[r] # "running" /\ restoring[r] # "alive" /\ EndsOf(r) = {}

Sound(r) == r \notin contested => ScriptOK(r) /\ EntryOK(r) /\ EndsOK(r)

\* Only a restore that is being cancelled is killed.
Killed(r) == killing[r] # "none" => r \in contested

RestoreInv == RestoreTypeOK /\ \A r \in Restores : Unborn(r) /\ Killed(r) /\ Sound(r)

-----------------------------------------------------------------------------
\* A restore none of whose variables an action touches stays as it was.
Kept(r) ==
  /\ entry'[r] = entry[r] /\ stateOf'[r] = stateOf[r] /\ watchers'[r] = watchers[r]
  /\ killing'[r] = killing[r] /\ saving'[r] = saving[r]
  /\ r \in starting' <=> r \in starting
  /\ r \in noticed' <=> r \in noticed
  /\ r \in contested' <=> r \in contested
  /\ restoring'[r] = restoring[r] /\ progress'[r] = progress[r] /\ result'[r] = result[r]
  /\ \A e \in endings' : e.of = r => e \in endings
  /\ \A t \in fading' : t.of = r => t \in fading
  /\ \A p \in 1..Sweeps : looking'[p] = r => looking[p] = r

LEMMA KeptSound ==
  ASSUME NEW r \in Restores, Unborn(r), Killed(r), Sound(r), Kept(r)
  PROVE  Unborn(r)' /\ Killed(r)' /\ Sound(r)'
<1>1. Unborn(r)'
  BY DEF Unborn, Kept
<1>2. Killed(r)'
  BY DEF Killed, Kept
<1>3. ASSUME r \notin contested' PROVE ScriptOK(r)' /\ EntryOK(r)' /\ EndsOK(r)'
  <2>1. ScriptOK(r) /\ EntryOK(r) /\ EndsOK(r)
    BY <1>3 DEF Sound, Kept
  <2>2. ScriptOK(r)'
    BY <2>1 DEF ScriptOK, Done, Kept
  <2>3. EntryOK(r)'
    BY <2>1 DEF EntryOK, Tells, Done, FinalStatus, Kept
  <2>4. \A e \in EndsOf(r)' : e \in EndsOf(r)
    BY DEF EndsOf, Kept
  <2>5. ASSUME NEW e \in EndsOf(r)' PROVE EndingOK(r, e)'
    BY <2>1, <2>4, <2>5 DEF EndsOK, EndingOK, Tells, Done, FinalStatus, Kept
  <2>6. \A e, f \in EndsOf(r)' : e = f
    BY <2>1, <2>4 DEF EndsOK
  <2>7. ASSUME NEW t \in fading', t.of = r
        PROVE  stateOf'[r] # "running" /\ restoring'[r] # "alive" /\ EndsOf(r)' = {}
    <3>1. t \in fading
      BY <2>7 DEF Kept
    <3>2. stateOf[r] # "running" /\ restoring[r] # "alive" /\ EndsOf(r) = {}
      BY <3>1, <2>1, <2>7 DEF EndsOK
    <3>3. QED
      BY <3>2, <2>4 DEF Kept
  <2>8. QED
    BY <2>2, <2>3, <2>5, <2>6, <2>7 DEF EndsOK
<1>4. QED
  BY <1>1, <1>2, <1>3 DEF Sound

\* An action of restore r leaves the others as they were, so that only r is to be looked at.
LEMMA OthersSound ==
  ASSUME RestoreInv, NEW r \in Restores, RestoreTypeOK', \A q \in Restores \ {r} : Kept(q),
         Unborn(r)', Killed(r)', Sound(r)'
  PROVE  RestoreInv'
<1>1. ASSUME NEW q \in Restores \ {r} PROVE Unborn(q)' /\ Killed(q)' /\ Sound(q)'
  BY KeptSound DEF RestoreInv
<1>2. QED
  BY <1>1 DEF RestoreInv

-----------------------------------------------------------------------------
(* triggerRestore *)

LEMMA UpsetCounts ==
  ASSUME upsets \in 0..MaxUpsets, NEW kind, Upset(kind) PROVE upsets' \in 0..MaxUpsets
BY RestoreAssumption DEF Upset

LEMMA TakesRestoreKeeps ==
  ASSUME RestoreInv, NEW r \in Restores, TakesRestore(r) PROVE RestoreInv'
<1> USE DEF TakesRestore, scriptVars, pastVars
<1>1. Unborn(r) /\ Sound(r) /\ Killed(r) /\ stateOf[r] = "none"
  BY DEF RestoreInv
<1>2. RestoreTypeOK'
  BY <1>1 DEF RestoreInv, RestoreTypeOK, FinalStatus, Unborn
<1>3. \A q \in Restores \ {r} : Kept(q)
  BY DEF RestoreInv, RestoreTypeOK, Kept
<1>4. stateOf'[r] = "running" /\ entry'[r] = "running"
  BY DEF RestoreInv, RestoreTypeOK
<1>5. Unborn(r)'
  BY <1>4 DEF Unborn
<1>6. Killed(r)'
  BY <1>1 DEF Unborn, Killed
<1>7. ScriptOK(r)' /\ EntryOK(r)'
  BY <1>1, <1>4 DEF Unborn, ScriptOK, EntryOK, Tells, Done, FinalStatus
<1>8. EndsOK(r)'
  BY <1>1, <1>4 DEF Unborn, EndsOK, EndsOf
<1>9. QED
  BY <1>2, <1>3, <1>5, <1>6, <1>7, <1>8, OthersSound DEF Sound

LEMMA StartsSessionKeeps ==
  ASSUME RestoreInv, NEW r \in Restores, StartsSession(r) PROVE RestoreInv'
<1> USE DEF StartsSession, pastVars
<1>1. Unborn(r) /\ Sound(r) /\ Killed(r) /\ stateOf[r] # "none"
  BY DEF RestoreInv, Unborn
<1>2. RestoreTypeOK'
  BY DEF RestoreInv, RestoreTypeOK
<1>3. \A q \in Restores \ {r} : Kept(q)
  BY DEF RestoreInv, RestoreTypeOK, Kept
<1>4. restoring'[r] = "alive"
  BY DEF RestoreInv, RestoreTypeOK
<1>5. Unborn(r)'
  BY <1>1 DEF Unborn
<1>6. Killed(r)'
  BY <1>1 DEF Killed
<1>7. ASSUME r \notin contested PROVE ScriptOK(r)' /\ EntryOK(r)' /\ EndsOK(r)'
  <2>1. /\ ScriptOK(r) /\ EntryOK(r) /\ EndsOK(r)
        /\ stateOf[r] = "running" /\ entry[r] = "running" /\ restoring[r] = "none"
        /\ r \notin noticed
    BY <1>1, <1>7 DEF Sound, EntryOK, RestoreInv, RestoreTypeOK
  <2>2. ScriptOK(r)' /\ EntryOK(r)'
    BY <2>1, <1>4 DEF ScriptOK, EntryOK, Tells, Done, FinalStatus
  <2>3. EndsOf(r) = {} /\ \A t \in fading : t.of # r
    BY <2>1 DEF EndsOK, EndingOK
  <2>4. EndsOK(r)'
    BY <2>3 DEF EndsOK, EndsOf
  <2>5. QED
    BY <2>2, <2>4
<1>8. QED
  BY <1>2, <1>3, <1>5, <1>6, <1>7, OthersSound DEF Sound

LEMMA StartFailsKeeps ==
  ASSUME RestoreInv, NEW r \in Restores, StartFails(r) PROVE RestoreInv'
<1> USE DEF StartFails, scriptVars, pastVars
<1>1. Unborn(r) /\ Sound(r) /\ Killed(r)
  BY DEF RestoreInv
<1>2. RestoreTypeOK'
  <2>1. upsets' \in 0..MaxUpsets
    BY UpsetCounts DEF RestoreInv, RestoreTypeOK
  <2>2. QED
    BY <2>1 DEF RestoreInv, RestoreTypeOK, FinalStatus
<1>3. \A q \in Restores \ {r} : Kept(q)
  BY DEF RestoreInv, RestoreTypeOK, Kept
<1>4. stateOf'[r] = "removed" /\ entry'[r] = "none" /\ r \notin starting'
  BY DEF RestoreInv, RestoreTypeOK
<1>5. Unborn(r)' /\ Killed(r)'
  BY <1>1, <1>4 DEF Unborn, Killed
<1>6. ASSUME r \notin contested PROVE ScriptOK(r)' /\ EntryOK(r)' /\ EndsOK(r)'
  <2>1. /\ ScriptOK(r) /\ EntryOK(r) /\ EndsOK(r)
        /\ stateOf[r] = "running" /\ restoring[r] = "none" /\ r \notin noticed
    BY <1>1, <1>6 DEF Sound, EntryOK, RestoreInv, RestoreTypeOK
  <2>2. ScriptOK(r)' /\ EntryOK(r)'
    BY <2>1, <1>4 DEF ScriptOK, EntryOK, Tells, Done, FinalStatus
  <2>3. EndsOf(r) = {} /\ \A t \in fading : t.of # r
    BY <2>1 DEF EndsOK, EndingOK
  <2>4. EndsOK(r)'
    BY <2>3 DEF EndsOK, EndsOf
  <2>5. QED
    BY <2>2, <2>4
<1>7. QED
  BY <1>2, <1>3, <1>5, <1>6, OthersSound DEF Sound

-----------------------------------------------------------------------------
(* monitorRestore *)

\* What a tick is about to write is what the entry said, so that it is a verdict only of a
\* session that is over.
LEMMA ProgressTickKeeps ==
  ASSUME RestoreInv, NEW r \in Restores, ProgressTick(r) \/ TickWrites(r) PROVE RestoreInv'
<1> USE DEF scriptVars, pastVars
<1>1. /\ UNCHANGED <<entry, stateOf, starting, watchers, endings, killing, fading, looking,
                     restoring, progress, result, noticed, contested, upsets>>
      /\ Unborn(r) /\ Sound(r) /\ Killed(r) /\ stateOf[r] # "none"
  BY DEF ProgressTick, TickWrites, RestoreInv, Unborn
<1>2. PICK what \in {"asked", entry[r]} : saving' = [saving EXCEPT ![r] = what]
  BY DEF ProgressTick, TickWrites
<1>3. RestoreTypeOK'
  <2>1. what \in FinalStatus \cup {"none", "asked", "running"}
    BY <1>2 DEF RestoreInv, RestoreTypeOK
  <2>2. saving' \in [Restores -> FinalStatus \cup {"none", "asked", "running"}]
    BY <1>2, <2>1 DEF RestoreInv, RestoreTypeOK
  <2>3. QED
    BY <1>1, <2>2 DEF RestoreInv, RestoreTypeOK
<1>4. saving'[r] = what /\ \A q \in Restores \ {r} : Kept(q)
  BY <1>1, <1>2 DEF RestoreInv, RestoreTypeOK, Kept
<1>5. Unborn(r)' /\ Killed(r)'
  BY <1>1 DEF Unborn, Killed
<1>6. ASSUME r \notin contested PROVE ScriptOK(r)' /\ EntryOK(r)' /\ EndsOK(r)'
  <2>1. ScriptOK(r) /\ EntryOK(r) /\ EndsOK(r)
    BY <1>1, <1>6 DEF Sound
  <2>2. ScriptOK(r)' /\ EndsOK(r)'
    BY <1>1, <2>1 DEF ScriptOK, EndsOK, EndsOf, EndingOK, Tells, Done, FinalStatus
  <2>3. EntryOK(r)'
    BY <1>1, <1>2, <1>4, <2>1 DEF EntryOK, Tells, Done, FinalStatus
  <2>4. QED
    BY <2>2, <2>3
<1>7. QED
  BY <1>1, <1>3, <1>4, <1>5, <1>6, OthersSound DEF Sound

\* The save of a tick says what is on file, or the verdict that is about to be, or it is contested.
LEMMA TickSavesKeeps ==
  ASSUME RestoreInv, NEW r \in Restores, TickSaves(r) PROVE RestoreInv'
<1> USE DEF scriptVars
<1>1. /\ UNCHANGED <<entry, starting, watchers, endings, killing, fading, looking, restoring,
                     progress, result, noticed, upsets>>
      /\ contested' \in {contested, contested \cup {r}}
      /\ Unborn(r) /\ Sound(r) /\ Killed(r) /\ stateOf[r] # "none"
  BY DEF TickSaves, RestoreInv, Unborn
<1>2. /\ saving[r] \in FinalStatus \cup {"running"}
      /\ saving' = [saving EXCEPT ![r] = "none"] /\ stateOf' = [stateOf EXCEPT ![r] = saving[r]]
  BY DEF TickSaves, RestoreInv, RestoreTypeOK
<1>3. RestoreTypeOK'
  <2>1. saving' \in [Restores -> FinalStatus \cup {"none", "asked", "running"}]
    BY <1>2 DEF RestoreInv, RestoreTypeOK
  <2>2. stateOf' \in [Restores -> FinalStatus \cup {"none", "running", "removed"}]
    BY <1>2 DEF RestoreInv, RestoreTypeOK
  <2>3. QED
    BY <1>1, <2>1, <2>2 DEF RestoreInv, RestoreTypeOK
<1>4. saving'[r] = "none" /\ stateOf'[r] = saving[r] /\ \A q \in Restores \ {r} : Kept(q)
  BY <1>1, <1>2 DEF RestoreInv, RestoreTypeOK, Kept
<1>5. Unborn(r)' /\ Killed(r)'
  BY <1>1, <1>2, <1>4 DEF Unborn, Killed, FinalStatus
<1>6. ASSUME r \notin contested' PROVE ScriptOK(r)' /\ EntryOK(r)' /\ EndsOK(r)'
  <2>1. ScriptOK(r) /\ EntryOK(r) /\ EndsOK(r) /\ contested' = contested
    BY <1>1, <1>6 DEF Sound
  <2>2. CASE saving[r] = "running"
    <3>1. stateOf[r] = "running"
      BY <1>6, <2>2 DEF TickSaves
    <3>2. QED
      BY <1>1, <1>4, <2>1, <2>2, <3>1
         DEF ScriptOK, EntryOK, EndsOK, EndsOf, EndingOK, Tells, Done, FinalStatus
  <2>3. CASE saving[r] \in FinalStatus
    <3>1. /\ restoring[r] # "alive" /\ Tells(r, saving[r]) /\ entry[r] # "running"
          /\ stateOf'[r] # "running"
      BY <1>4, <2>1, <2>3 DEF EntryOK, FinalStatus
    <3>2. ScriptOK(r)' /\ EntryOK(r)'
      BY <1>1, <1>4, <2>1, <2>3, <3>1 DEF ScriptOK, EntryOK, Tells, Done, FinalStatus
    <3>3. EndsOf(r)' = EndsOf(r)
      BY <1>1 DEF EndsOf
    <3>4. \A e \in EndsOf(r) : EndingOK(r, e)'
      BY <1>1, <2>1, <3>1 DEF EndsOK, EndingOK, Tells, Done
    <3>5. QED
      BY <1>1, <2>1, <3>1, <3>2, <3>3, <3>4 DEF EndsOK
  <2>4. QED
    BY <1>2, <2>2, <2>3
<1>7. QED
  BY <1>3, <1>4, <1>5, <1>6, OthersSound DEF Sound

LEMMA MonitorNoticesKeeps ==
  ASSUME RestoreInv, NEW r \in Restores, MonitorNotices(r) PROVE RestoreInv'
<1> USE DEF MonitorNotices, scriptVars, pastVars
<1>1. Unborn(r) /\ Sound(r) /\ Killed(r) /\ stateOf[r] # "none"
  BY DEF RestoreInv, Unborn, RestoreTypeOK
<1>2. /\ endings' \in {endings, endings \cup {Ending(r, "over")},
                       endings \cup {Ending(r, "over"), Ending(r, "late")}}
      /\ noticed' \in {noticed, noticed \cup {r}} /\ contested' \in {contested, contested \cup {r}}
      /\ upsets' \in 0..MaxUpsets
  BY UpsetCounts DEF RestoreInv, RestoreTypeOK
<1>3. RestoreTypeOK'
  <2>1. Ending(r, "over") \in EndRec /\ Ending(r, "late") \in EndRec
    BY DEF Ending, EndRec, Step, FinalStatus
  <2>2. endings' \subseteq EndRec
    <3>1. endings \subseteq EndRec
      BY DEF RestoreInv, RestoreTypeOK, EndRec, Step
    <3>2. QED
      BY <1>2, <2>1, <3>1
  <2>3. watchers' \in [Restores -> Nat]
    BY DEF RestoreInv, RestoreTypeOK
  <2>4. QED
    BY <1>2, <2>2, <2>3 DEF RestoreInv, RestoreTypeOK, EndRec, Step
<1>4. \A q \in Restores \ {r} : Kept(q)
  <2>1. \A q \in Restores \ {r} : watchers'[q] = watchers[q]
    BY DEF RestoreInv, RestoreTypeOK
  <2>2. \A e \in endings' : e.of = r \/ e \in endings
    BY <1>2 DEF Ending
  <2>3. UNCHANGED <<entry, stateOf, starting, saving, killing, fading, looking, scriptVars>>
    OBVIOUS
  <2>4. QED
    BY <1>2, <2>1, <2>2, <2>3 DEF Kept
<1>5. Unborn(r)' /\ Killed(r)'
  BY <1>1, <1>2 DEF Unborn, Killed
<1>6. ASSUME r \notin contested' PROVE ScriptOK(r)' /\ EntryOK(r)' /\ EndsOK(r)'
  <2>1. ScriptOK(r) /\ EntryOK(r) /\ EndsOK(r)
    BY <1>1, <1>2, <1>6 DEF Sound
  <2>2. r \notin starting
    BY <2>1 DEF EntryOK
  <2>3. ScriptOK(r)' /\ EntryOK(r)'
    BY <2>1, <2>2, <1>2 DEF ScriptOK, EntryOK, Tells, Done, FinalStatus
  <2>4. CASE entry[r] = "none"
    <3>1. EndsOf(r)' = {} /\ EndsOf(r) = {}
      BY <2>1, <2>4 DEF EndsOK, EndsOf, EndingOK
    <3>2. QED
      BY <2>1, <2>3, <3>1 DEF EndsOK
  <2>5. CASE entry[r] # "none"
    <3>1. r \notin noticed
      BY <1>6, <2>5
    <3>2. entry[r] = "running" /\ stateOf[r] = "running"
      BY <2>1, <2>5, <3>1 DEF EntryOK, RestoreInv, RestoreTypeOK, FinalStatus
    <3>3. EndsOf(r) = {} /\ \A t \in fading : t.of # r
      BY <2>1, <3>1, <3>2 DEF EndsOK, EndingOK
    <3>4. \A e \in EndsOf(r)' : e = Ending(r, "over")
      BY <1>2, <3>3 DEF EndsOf, Ending
    <3>5. EndingOK(r, Ending(r, "over"))'
      BY <2>5, <3>2 DEF EndingOK, Ending
    <3>6. \A e \in EndsOf(r)' : EndingOK(r, e)'
      BY <3>4, <3>5
    <3>7. QED
      BY <2>3, <3>3, <3>4, <3>6 DEF EndsOK
  <2>6. QED
    BY <2>3, <2>4, <2>5
<1>7. QED
  BY <1>3, <1>4, <1>5, <1>6, OthersSound DEF Sound

LEMMA LateTickKeeps ==
  ASSUME RestoreInv, NEW e \in endings, LateTick(e) PROVE RestoreInv'
<1> USE DEF LateTick, scriptVars
<1> DEFINE r == e.of
<1>1. r \in Restores /\ e \in EndRec
  BY DEF RestoreInv, RestoreTypeOK, EndRec, Step
<1>2. /\ Unborn(r) /\ Sound(r) /\ Killed(r) /\ stateOf[r] # "none"
      /\ endings' \in {endings \ {e}, (endings \ {e}) \cup {Ending(r, "over")}}
      /\ contested' \in {contested, contested \cup {r}}
  BY <1>1 DEF RestoreInv, Unborn
<1>3. RestoreTypeOK'
  <2>1. Ending(r, "over") \in EndRec
    BY <1>1 DEF Ending, EndRec, Step, FinalStatus
  <2>2. endings' \subseteq EndRec
    BY <1>2, <2>1 DEF RestoreInv, RestoreTypeOK, EndRec, Step
  <2>3. QED
    BY <1>1, <1>2, <2>2 DEF RestoreInv, RestoreTypeOK, EndRec, Step
<1>4. \A q \in Restores \ {r} : Kept(q)
  BY <1>2 DEF Kept, Ending
<1>5. Unborn(r)' /\ Killed(r)'
  BY <1>2 DEF Unborn, Killed
<1>6. ASSUME r \notin contested' PROVE ScriptOK(r)' /\ EntryOK(r)' /\ EndsOK(r)'
  <2>1. ScriptOK(r) /\ EntryOK(r) /\ EndsOK(r) /\ endings' = endings \ {e}
    BY <1>2, <1>6 DEF Sound
  <2>2. ScriptOK(r)' /\ EntryOK(r)'
    BY <2>1 DEF ScriptOK, EntryOK, Tells, Done, FinalStatus
  <2>3. EndsOf(r)' = EndsOf(r)
    BY <2>1 DEF EndsOf
  <2>4. EndsOK(r)'
    BY <2>1, <2>3 DEF EndsOK, EndingOK, Tells, Done, FinalStatus
  <2>5. QED
    BY <2>2, <2>4
<1>7. QED
  BY <1>1, <1>3, <1>4, <1>5, <1>6, OthersSound DEF Sound

LEMMA MonitorReadsKeeps ==
  ASSUME RestoreInv, NEW e \in endings, MonitorReads(e) PROVE RestoreInv'
<1> USE DEF MonitorReads, scriptVars, pastVars
<1> DEFINE r == e.of
<1>1. r \in Restores /\ e \in EndRec /\ e.step = "over"
  BY DEF RestoreInv, RestoreTypeOK, EndRec, Step
<1>2. PICK verdict \in FinalStatus : verdict = "completed" <=> progress[r] = "full"
  BY DEF FinalStatus
<1> DEFINE read == [e EXCEPT !.step = "read", !.verdict = verdict]
<1>3. read \in EndRec /\ read.of = r /\ read.step = "read" /\ read.verdict = verdict
  BY <1>1, <1>2 DEF EndRec, Step
<1>4. (IF progress[r] = "full" THEN "completed" ELSE "failed") = verdict
  BY <1>2 DEF FinalStatus
<1>5. /\ Unborn(r) /\ Sound(r) /\ Killed(r) /\ stateOf[r] # "none"
      /\ endings' = (endings \ {e}) \cup {read}
      /\ entry' = [entry EXCEPT ![r] = IF @ = "none" THEN "none" ELSE verdict]
  BY <1>1, <1>4 DEF RestoreInv, Unborn
<1> HIDE DEF read
<1>6. RestoreTypeOK'
  <2>1. endings' \subseteq EndRec
    BY <1>3, <1>5 DEF RestoreInv, RestoreTypeOK, EndRec, Step
  <2>2. entry' \in [Restores -> FinalStatus \cup {"none", "running"}]
    BY <1>1, <1>2, <1>5 DEF RestoreInv, RestoreTypeOK
  <2>3. QED
    BY <2>1, <2>2 DEF RestoreInv, RestoreTypeOK, EndRec, Step
<1>7. \A q \in Restores \ {r} : Kept(q)
  BY <1>3, <1>5 DEF RestoreInv, RestoreTypeOK, Kept
<1>8. Unborn(r)' /\ Killed(r)'
  BY <1>5 DEF Unborn, Killed
<1>9. ASSUME r \notin contested PROVE ScriptOK(r)' /\ EntryOK(r)' /\ EndsOK(r)'
  <2>1. ScriptOK(r) /\ EntryOK(r) /\ EndsOK(r) /\ e \in EndsOf(r)
    BY <1>1, <1>5, <1>9 DEF Sound, EndsOf
  <2>2. /\ restoring[r] # "alive" /\ r \in noticed
        /\ stateOf[r] = "running" /\ entry[r] = "running"
    BY <1>1, <2>1 DEF EndsOK, EndingOK
  <2>3. Tells(r, verdict)
    <3>1. restoring[r] = "none" \/ result[r] # "none"
      BY <1>1, <2>1, <2>2 DEF ScriptOK, RestoreInv, RestoreTypeOK
    <3>2. QED
      BY <3>1, <1>2, <2>1, <2>2 DEF ScriptOK, Tells, Done
  <2>4. entry'[r] = verdict
    BY <1>1, <1>5, <2>2 DEF RestoreInv, RestoreTypeOK
  <2>5. ScriptOK(r)' /\ EntryOK(r)'
    BY <1>1, <1>2, <2>1, <2>2, <2>3, <2>4 DEF ScriptOK, EntryOK, Tells, Done, FinalStatus
  <2>6. \A f \in EndsOf(r)' : f = read
    BY <1>5, <2>1 DEF EndsOf, EndsOK
  <2>7. EndingOK(r, read)'
    BY <1>2, <1>3, <2>2, <2>3, <2>4 DEF EndingOK, Tells, Done, FinalStatus
  <2>8. \A f \in EndsOf(r)' : EndingOK(r, f)'
    BY <2>6, <2>7
  <2>9. \A t \in fading : t.of # r
    BY <2>1, <2>2 DEF EndsOK
  <2>10. QED
    BY <2>5, <2>6, <2>8, <2>9 DEF EndsOK
<1>10. QED
  BY <1>1, <1>5, <1>6, <1>7, <1>8, <1>9, OthersSound DEF Sound

LEMMA MonitorSavesKeeps ==
  ASSUME RestoreInv, NEW e \in endings, MonitorSaves(e) PROVE RestoreInv'
<1> USE DEF MonitorSaves, Moves, scriptVars, pastVars
<1> DEFINE r == e.of
           kept == [e EXCEPT !.step = "saved"]
<1>1. r \in Restores /\ e \in EndRec /\ e.step = "read" /\ e.verdict \in FinalStatus
  BY DEF RestoreInv, RestoreTypeOK, EndRec, Step
<1>2. kept \in EndRec /\ kept.of = r /\ kept.step = "saved" /\ kept.verdict = e.verdict
  BY <1>1 DEF EndRec, Step
<1>3. /\ Unborn(r) /\ Sound(r) /\ Killed(r) /\ stateOf[r] # "none"
      /\ endings' = (endings \ {e}) \cup {kept}
      /\ stateOf'[r] = e.verdict
  BY <1>1 DEF RestoreInv, RestoreTypeOK, Unborn
<1> HIDE DEF kept
<1>4. RestoreTypeOK'
  <2>1. endings' \subseteq EndRec
    <3>1. endings \subseteq EndRec
      BY DEF RestoreInv, RestoreTypeOK, EndRec, Step
    <3>2. QED
      BY <1>2, <1>3, <3>1
  <2>2. stateOf' \in [Restores -> FinalStatus \cup {"none", "running", "removed"}]
    BY <1>1 DEF RestoreInv, RestoreTypeOK
  <2>3. QED
    BY <2>1, <2>2 DEF RestoreInv, RestoreTypeOK, EndRec, Step
<1>5. \A q \in Restores \ {r} : Kept(q)
  BY <1>2, <1>3 DEF RestoreInv, RestoreTypeOK, Kept
<1>6. Unborn(r)' /\ Killed(r)'
  BY <1>1, <1>3 DEF Unborn, Killed, FinalStatus
<1>7. ASSUME r \notin contested PROVE ScriptOK(r)' /\ EntryOK(r)' /\ EndsOK(r)'
  <2>1. ScriptOK(r) /\ EntryOK(r) /\ EndsOK(r) /\ e \in EndsOf(r)
    BY <1>1, <1>3, <1>7 DEF Sound, EndsOf
  <2>2. /\ restoring[r] # "alive" /\ r \in noticed /\ entry[r] \in FinalStatus
        /\ Tells(r, e.verdict)
    BY <1>1, <2>1 DEF EndsOK, EndingOK
  <2>3. ScriptOK(r)' /\ EntryOK(r)'
    BY <1>1, <1>3, <2>1, <2>2 DEF ScriptOK, EntryOK, Tells, Done, FinalStatus
  <2>4. \A f \in EndsOf(r)' : f = kept
    BY <1>3, <2>1 DEF EndsOf, EndsOK
  <2>5. EndingOK(r, kept)'
    BY <1>1, <1>2, <1>3, <2>2 DEF EndingOK, Tells, Done, FinalStatus
  <2>6. \A t \in fading : t.of # r
    BY <2>1 DEF EndsOK
  <2>7. QED
    BY <2>3, <2>4, <2>5, <2>6 DEF EndsOK
<1>8. QED
  BY <1>1, <1>4, <1>5, <1>6, <1>7, OthersSound DEF Sound

LEMMA MonitorCleansKeeps ==
  ASSUME RestoreInv, NEW e \in endings, MonitorCleans(e) PROVE RestoreInv'
<1> USE DEF MonitorCleans, CleansUp, pastVars
<1> DEFINE r == e.of
<1>1. r \in Restores /\ e \in EndRec /\ e.step = "saved"
  BY DEF RestoreInv, RestoreTypeOK, EndRec, Step
<1>2. /\ Unborn(r) /\ Sound(r) /\ Killed(r) /\ stateOf[r] # "none" /\ progress'[r] = "none"
      /\ \A t \in fading' : t \in fading \/ t \in [of: {r}, what: {"entry", "state"}]
  BY <1>1 DEF RestoreInv, RestoreTypeOK, Unborn, Timer
<1>3. RestoreTypeOK'
  <2>1. fading' \subseteq [of: Restores, what: {"entry", "state"}]
    BY <1>1, <1>2 DEF RestoreInv, RestoreTypeOK
  <2>2. QED
    BY <2>1 DEF RestoreInv, RestoreTypeOK
<1>4. \A q \in Restores \ {r} : Kept(q)
  BY <1>2 DEF RestoreInv, RestoreTypeOK, Kept
<1>5. Unborn(r)' /\ Killed(r)'
  BY <1>2 DEF Unborn, Killed
<1>6. ASSUME r \notin contested PROVE ScriptOK(r)' /\ EntryOK(r)' /\ EndsOK(r)'
  <2>1. ScriptOK(r) /\ EntryOK(r) /\ EndsOK(r) /\ e \in EndsOf(r)
    BY <1>1, <1>2, <1>6 DEF Sound, EndsOf
  <2>2. stateOf[r] # "running" /\ restoring[r] # "alive" /\ EndsOf(r)' = {}
    BY <1>1, <2>1 DEF EndsOK, EndsOf, EndingOK
  <2>3. ScriptOK(r)' /\ EntryOK(r)'
    BY <1>2, <2>1, <2>2 DEF ScriptOK, EntryOK, Tells, Done, FinalStatus
  <2>4. EndsOK(r)'
    BY <2>2 DEF EndsOK
  <2>5. QED
    BY <2>3, <2>4
<1>7. QED
  BY <1>1, <1>3, <1>4, <1>5, <1>6, OthersSound DEF Sound

LEMMA FadesKeeps ==
  ASSUME RestoreInv, NEW t \in fading, Fades(t) PROVE RestoreInv'
<1> USE DEF Fades, scriptVars, pastVars
<1> DEFINE r == t.of
<1>1. r \in Restores /\ t \in [of: Restores, what: {"entry", "state"}]
  BY DEF RestoreInv, RestoreTypeOK
<1>2. /\ Unborn(r) /\ Sound(r) /\ Killed(r) /\ stateOf[r] # "none"
      /\ entry'[r] \in {entry[r], "none"} /\ stateOf'[r] \in {stateOf[r], "removed"}
  BY <1>1 DEF RestoreInv, RestoreTypeOK, Unborn
<1>3. RestoreTypeOK'
  BY <1>1 DEF RestoreInv, RestoreTypeOK, FinalStatus
<1>4. \A q \in Restores \ {r} : Kept(q)
  BY <1>1 DEF RestoreInv, RestoreTypeOK, Kept
<1>5. Unborn(r)' /\ Killed(r)'
  BY <1>2 DEF Unborn, Killed
<1>6. ASSUME r \notin contested PROVE ScriptOK(r)' /\ EntryOK(r)' /\ EndsOK(r)'
  <2>1. ScriptOK(r) /\ EntryOK(r) /\ EndsOK(r)
    BY <1>2, <1>6 DEF Sound
  <2>2. stateOf[r] # "running" /\ restoring[r] # "alive" /\ EndsOf(r) = {}
    BY <2>1 DEF EndsOK
  <2>3. ScriptOK(r)' /\ EntryOK(r)'
    BY <1>2, <2>1, <2>2 DEF ScriptOK, EntryOK, Tells, Done, FinalStatus
  <2>4. EndsOK(r)'
    BY <1>2, <2>2 DEF EndsOK, EndsOf
  <2>5. QED
    BY <2>3, <2>4
<1>7. QED
  BY <1>1, <1>3, <1>4, <1>5, <1>6, OthersSound DEF Sound

-----------------------------------------------------------------------------
(* killJob, and the recovery *)

LEMMA KillsTrackedKeeps ==
  ASSUME RestoreInv, NEW r \in Restores, KillsTracked(r) PROVE RestoreInv'
<1> USE DEF KillsTracked, StopsScript
<1>1. /\ Unborn(r) /\ stateOf[r] # "none" /\ r \in contested' /\ upsets' \in 0..MaxUpsets
  BY UpsetCounts DEF RestoreInv, RestoreTypeOK, Unborn
<1>2. RestoreTypeOK'
  <2>1. /\ restoring' \in [Restores -> {"none", "alive", "over"}]
        /\ \A q \in Restores : restoring[q] = "none" => restoring'[q] = "none"
    BY DEF RestoreInv, RestoreTypeOK
  <2>2. result' \in [Restores -> {"none", "success", "error", "cut"}]
    BY DEF RestoreInv, RestoreTypeOK
  <2>3. entry' \in [Restores -> FinalStatus \cup {"none", "running"}]
    BY DEF RestoreInv, RestoreTypeOK
  <2>4. killing' \in [Restores -> {"none", "killed", "cleared", "saved"}]
    BY DEF RestoreInv, RestoreTypeOK
  <2>5. QED
    BY <1>1, <2>1, <2>2, <2>3, <2>4 DEF RestoreInv, RestoreTypeOK
<1>3. \A q \in Restores \ {r} : Kept(q)
  BY DEF RestoreInv, RestoreTypeOK, Kept
<1>4. Unborn(r)' /\ Killed(r)' /\ Sound(r)'
  BY <1>1 DEF Unborn, Killed, Sound
<1>5. QED
  BY <1>2, <1>3, <1>4, OthersSound

LEMMA KillsUntrackedKeeps ==
  ASSUME RestoreInv, NEW r \in Restores, KillsUntracked(r) PROVE RestoreInv'
<1> USE DEF KillsUntracked, StopsScript, CleansUp
<1>1. /\ Unborn(r) /\ stateOf[r] # "none" /\ r \in contested' /\ upsets' \in 0..MaxUpsets
      /\ \A t \in fading' : t \in fading \/ t \in [of: {r}, what: {"state"}]
  BY UpsetCounts DEF RestoreInv, RestoreTypeOK, Unborn, Timer
<1>2. RestoreTypeOK'
  <2>1. fading' \subseteq [of: Restores, what: {"entry", "state"}]
    BY <1>1 DEF RestoreInv, RestoreTypeOK
  <2>2. /\ restoring' \in [Restores -> {"none", "alive", "over"}]
        /\ \A q \in Restores : restoring[q] = "none" => restoring'[q] = "none"
    BY DEF RestoreInv, RestoreTypeOK
  <2>3. result' \in [Restores -> {"none", "success", "error", "cut"}]
    BY DEF RestoreInv, RestoreTypeOK
  <2>4. progress' \in [Restores -> {"none", "part", "full"}]
    BY DEF RestoreInv, RestoreTypeOK
  <2>5. killing' \in [Restores -> {"none", "killed", "cleared", "saved"}]
    BY DEF RestoreInv, RestoreTypeOK
  <2>6. QED
    BY <1>1, <2>1, <2>2, <2>3, <2>4, <2>5 DEF RestoreInv, RestoreTypeOK
<1>3. \A q \in Restores \ {r} : Kept(q)
  BY <1>1 DEF RestoreInv, RestoreTypeOK, Kept
<1>4. Unborn(r)' /\ Killed(r)' /\ Sound(r)'
  BY <1>1 DEF Unborn, Killed, Sound
<1>5. QED
  BY <1>2, <1>3, <1>4, OthersSound

LEMMA KillSavesKeeps ==
  ASSUME RestoreInv, NEW r \in Restores, KillSaves(r) PROVE RestoreInv'
<1> USE DEF KillSaves, pastVars
<1>1. /\ Unborn(r) /\ stateOf'[r] # "none" /\ r \in contested'
      /\ restoring' = restoring /\ result' = result
  BY DEF RestoreInv, RestoreTypeOK, Killed
<1>2. endings' \subseteq EndRec /\ \A e \in endings' : e.of # r => e \in endings
  <2>1. endings \subseteq EndRec
    BY DEF RestoreInv, RestoreTypeOK, EndRec, Step
  <2>2. ASSUME NEW e \in endings, e.of = r PROVE [e EXCEPT !.verdict = "failed"] \in EndRec
                                                 /\ [e EXCEPT !.verdict = "failed"].of = r
    BY <2>1, <2>2 DEF EndRec, FinalStatus
  <2>3. CASE killing[r] = "killed"
    <3>1. endings' = {IF e.of = r THEN [e EXCEPT !.verdict = "failed"] ELSE e : e \in endings}
      BY <2>3
    <3>2. QED
      BY <2>1, <2>2, <3>1
  <2>4. CASE killing[r] # "killed"
    BY <2>1, <2>4
  <2>5. QED
    BY <2>3, <2>4
<1>3. RestoreTypeOK'
  <2>1. stateOf' \in [Restores -> FinalStatus \cup {"none", "running", "removed"}]
    BY DEF RestoreInv, RestoreTypeOK, FinalStatus
  <2>2. PICK said \in FinalStatus \cup {"none", "running"}, left \in {"none", "part", "full"},
             to \in {"none", "saved"} :
               /\ entry' = [entry EXCEPT ![r] = said] /\ progress' = [progress EXCEPT ![r] = left]
               /\ killing' = [killing EXCEPT ![r] = to]
    <3>1. CASE killing[r] = "killed"
      <4>1. entry' = [entry EXCEPT ![r] = IF entry[r] = "none" THEN "none" ELSE "failed"]
        BY <3>1
      <4>2. QED
        BY <3>1, <4>1 DEF FinalStatus
    <3>2. CASE killing[r] # "killed"
      <4>1. /\ entry = [entry EXCEPT ![r] = entry[r]] /\ progress = [progress EXCEPT ![r] = progress[r]]
            /\ entry[r] \in FinalStatus \cup {"none", "running"}
            /\ progress[r] \in {"none", "part", "full"}
        BY DEF RestoreInv, RestoreTypeOK
      <4>2. QED
        BY <3>2, <4>1
    <3>3. QED
      BY <3>1, <3>2
  <2>3. /\ entry' \in [Restores -> FinalStatus \cup {"none", "running"}]
        /\ progress' \in [Restores -> {"none", "part", "full"}]
    BY <2>2 DEF RestoreInv, RestoreTypeOK
  <2>4. killing' \in [Restores -> {"none", "killed", "cleared", "saved"}]
    BY <2>2 DEF RestoreInv, RestoreTypeOK
  <2>5. QED
    BY <1>1, <1>2, <2>1, <2>2, <2>3, <2>4 DEF RestoreInv, RestoreTypeOK, EndRec, Step
<1>4. \A q \in Restores \ {r} : Kept(q)
  BY <1>1, <1>2 DEF RestoreInv, RestoreTypeOK, Kept
<1>5. Unborn(r)' /\ Killed(r)' /\ Sound(r)'
  BY <1>1 DEF Unborn, Killed, Sound
<1>6. QED
  BY <1>3, <1>4, <1>5, OthersSound

LEMMA KillEndsKeeps ==
  ASSUME RestoreInv, NEW r \in Restores, KillEnds(r) PROVE RestoreInv'
<1> USE DEF KillEnds, CleansUp, pastVars
<1>1. /\ Unborn(r) /\ stateOf[r] # "none" /\ r \in contested'
      /\ \A t \in fading' : t \in fading \/ t \in [of: {r}, what: {"state"}]
  BY DEF RestoreInv, RestoreTypeOK, Unborn, Killed, Timer
<1>2. RestoreTypeOK'
  <2>1. fading' \subseteq [of: Restores, what: {"entry", "state"}]
    BY <1>1 DEF RestoreInv, RestoreTypeOK
  <2>2. QED
    BY <2>1 DEF RestoreInv, RestoreTypeOK
<1>3. \A q \in Restores \ {r} : Kept(q)
  BY <1>1 DEF RestoreInv, RestoreTypeOK, Kept
<1>4. Unborn(r)' /\ Killed(r)' /\ Sound(r)'
  BY <1>1 DEF Unborn, Killed, Sound
<1>5. QED
  BY <1>2, <1>3, <1>4, OthersSound

LEMMA SweepLooksKeeps ==
  ASSUME RestoreInv, NEW p \in 1..Sweeps, NEW r \in Restores, SweepLooks(p, r)
  PROVE  RestoreInv'
<1> USE DEF SweepLooks, scriptVars, pastVars
<1>1. Unborn(r) /\ Sound(r) /\ Killed(r)
  BY DEF RestoreInv
<1>2. RestoreTypeOK'
  BY DEF RestoreInv, RestoreTypeOK
<1>3. \A q \in Restores \ {r} : Kept(q)
  BY DEF RestoreInv, RestoreTypeOK, Kept
<1>4. Unborn(r)' /\ Killed(r)'
  BY <1>1 DEF Unborn, Killed
<1>5. Sound(r)'
  BY <1>1 DEF Sound, ScriptOK, EntryOK, EndsOK, EndsOf, EndingOK, Tells, Done, FinalStatus
<1>6. QED
  BY <1>2, <1>3, <1>4, <1>5, OthersSound

LEMMA SweepAdoptsKeeps ==
  ASSUME RestoreInv, NEW p \in 1..Sweeps, SweepAdopts(p) PROVE RestoreInv'
<1> USE DEF SweepAdopts, scriptVars
<1>1. PICK r \in Restores : r = looking[p]
  BY DEF RestoreInv, RestoreTypeOK
<1>2. /\ Unborn(r) /\ Sound(r) /\ Killed(r) /\ stateOf[r] # "none"
      /\ looking' = [looking EXCEPT ![p] = 0]
      /\ entry' = [entry EXCEPT ![r] = "running"]
      /\ watchers' = [watchers EXCEPT ![r] = @ + 1]
      /\ contested' = IF entry[r] = "none" /\ stateOf[r] = "running" THEN contested
                      ELSE contested \cup {r}
  BY <1>1 DEF RestoreInv, Unborn
<1>3. RestoreTypeOK'
  <2>1. looking' \in [1..Sweeps -> Restores \cup {0}]
    BY <1>2 DEF RestoreInv, RestoreTypeOK
  <2>2. entry' \in [Restores -> FinalStatus \cup {"none", "running"}]
        /\ watchers' \in [Restores -> Nat]
    BY <1>2 DEF RestoreInv, RestoreTypeOK
  <2>3. QED
    BY <1>2, <2>1, <2>2 DEF RestoreInv, RestoreTypeOK
<1>4. \A q \in Restores \ {r} : Kept(q)
  <2>1. ASSUME NEW q \in Restores \ {r}, NEW i \in 1..Sweeps, looking'[i] = q
        PROVE  looking[i] = q
    BY <1>2, <2>1 DEF RestoreInv, RestoreTypeOK, Restores
  <2>2. QED
    BY <1>2, <2>1 DEF RestoreInv, RestoreTypeOK, Kept
<1>5. Unborn(r)' /\ Killed(r)'
  BY <1>2 DEF Unborn, Killed
<1>6. ASSUME r \notin contested' PROVE ScriptOK(r)' /\ EntryOK(r)' /\ EndsOK(r)'
  <2>1. /\ ScriptOK(r) /\ EntryOK(r) /\ EndsOK(r)
        /\ entry[r] = "none" /\ stateOf[r] = "running"
    BY <1>2, <1>6 DEF Sound
  <2>2. entry'[r] = "running"
    BY <1>2 DEF RestoreInv, RestoreTypeOK
  <2>3. ScriptOK(r)' /\ EntryOK(r)'
    BY <2>1, <2>2 DEF ScriptOK, EntryOK, Tells, Done, FinalStatus
  <2>4. EndsOf(r) = {} /\ \A t \in fading : t.of # r
    BY <2>1 DEF EndsOK, EndingOK
  <2>5. EndsOK(r)'
    BY <2>4 DEF EndsOK, EndsOf
  <2>6. QED
    BY <2>3, <2>5
<1>7. QED
  BY <1>3, <1>4, <1>5, <1>6, OthersSound DEF Sound

LEMMA ExecutorRestartsKeeps ==
  ASSUME RestoreInv, ExecutorRestarts PROVE RestoreInv'
<1> USE DEF ExecutorRestarts, scriptVars
<1>1. RestoreTypeOK'
  <2>1. upsets' \in 0..MaxUpsets
    BY UpsetCounts DEF RestoreInv, RestoreTypeOK
  <2>2. QED
    BY <2>1 DEF RestoreInv, RestoreTypeOK
<1>2. ASSUME NEW r \in Restores PROVE Unborn(r)' /\ Killed(r)' /\ Sound(r)'
  <2>1. /\ Unborn(r) /\ Sound(r)
        /\ entry'[r] = "none" /\ watchers'[r] = 0 /\ killing'[r] = "none"
        /\ saving'[r] = "none"
        /\ \A p \in 1..Sweeps : looking'[p] # r
    BY DEF RestoreInv, Restores
  <2>2. Unborn(r)' /\ Killed(r)'
    BY <2>1 DEF Unborn, Killed
  <2>3. ASSUME r \notin contested PROVE ScriptOK(r)' /\ EntryOK(r)' /\ EndsOK(r)'
    <3>1. ScriptOK(r) /\ EntryOK(r)
      BY <2>1, <2>3 DEF Sound
    <3>2. ScriptOK(r)' /\ EntryOK(r)'
      BY <2>1, <3>1 DEF ScriptOK, EntryOK, Tells, Done, FinalStatus
    <3>3. EndsOK(r)'
      BY DEF EndsOK, EndsOf
    <3>4. QED
      BY <3>2, <3>3
  <2>4. QED
    BY <2>2, <2>3 DEF Sound
<1>3. QED
  BY <1>1, <1>2 DEF RestoreInv

-----------------------------------------------------------------------------
(* Restore_Manager.sh *)

\* What the script does while its session is alive leaves no verdict behind.
LEMMA ScriptKeeps ==
  ASSUME RestoreInv, NEW r \in Restores,
         ScriptWrites(r) \/ ScriptSucceeds(r) \/ ScriptFails(r) \/ ScriptAborts(r)
         \/ RestoreSessionEnds(r)
  PROVE  RestoreInv'
<1> USE DEF ScriptWrites, ScriptSucceeds, ScriptFails, ScriptAborts, RestoreSessionEnds,
            trackVars, pastVars
<1>1. /\ Unborn(r) /\ Sound(r) /\ Killed(r) /\ stateOf[r] # "none" /\ restoring[r] = "alive"
      /\ contested' = contested /\ r \notin starting
  BY DEF RestoreInv, Unborn, RestoreTypeOK
<1>2. PICK left \in {"none", "part", "full"}, end \in {"none", "success", "error", "cut"},
           to \in {"alive", "over"} :
        /\ progress' = [progress EXCEPT ![r] = left] /\ result' = [result EXCEPT ![r] = end]
        /\ restoring' = [restoring EXCEPT ![r] = to]
  BY DEF RestoreInv, RestoreTypeOK
<1>3. RestoreTypeOK'
  BY <1>1, <1>2 DEF RestoreInv, RestoreTypeOK
<1>4. \A q \in Restores \ {r} : Kept(q)
  <2>1. UNCHANGED <<entry, stateOf, starting, watchers, endings, saving, killing, fading, looking,
                    noticed, contested>>
    OBVIOUS
  <2>2. \A q \in Restores \ {r} : /\ restoring'[q] = restoring[q] /\ progress'[q] = progress[q]
                                  /\ result'[q] = result[q]
    BY <1>2 DEF RestoreInv, RestoreTypeOK
  <2>3. QED
    BY <2>1, <2>2 DEF Kept
<1>5. Unborn(r)' /\ Killed(r)'
  BY <1>1 DEF Unborn, Killed
<1>6. ASSUME r \notin contested PROVE ScriptOK(r)' /\ EntryOK(r)' /\ EndsOK(r)'
  <2>1. ScriptOK(r) /\ EntryOK(r) /\ EndsOK(r) /\ stateOf[r] = "running"
    BY <1>1, <1>6 DEF Sound, ScriptOK
  <2>2. entry[r] \notin FinalStatus /\ saving[r] \notin FinalStatus
    BY <1>1, <2>1 DEF EntryOK
  <2>3. ScriptOK(r)'
    BY <1>1, <2>1 DEF ScriptOK, Done, RestoreInv, RestoreTypeOK
  <2>4. EntryOK(r)'
    BY <1>1, <2>1, <2>2 DEF EntryOK, FinalStatus
  <2>5. EndsOf(r) = {} /\ \A t \in fading : t.of # r
    BY <1>1, <2>1 DEF EndsOK, EndingOK
  <2>6. EndsOK(r)'
    BY <2>5 DEF EndsOK, EndsOf
  <2>7. QED
    BY <2>3, <2>4, <2>6
<1>7. QED
  BY <1>1, <1>3, <1>4, <1>5, <1>6, OthersSound DEF Sound

-----------------------------------------------------------------------------
LEMMA RestoreInitInv == RestoreInit => RestoreInv
<1> SUFFICES ASSUME RestoreInit PROVE RestoreInv
  OBVIOUS
<1> USE DEF RestoreInit
<1>1. RestoreTypeOK
  BY RestoreAssumption DEF RestoreTypeOK
<1>2. ASSUME NEW r \in Restores PROVE Unborn(r) /\ Killed(r) /\ Sound(r)
  <2>1. \A p \in 1..Sweeps : looking[p] # r
    BY DEF Restores
  <2>2. Unborn(r) /\ Killed(r)
    BY <2>1 DEF Unborn, Killed
  <2>3. Sound(r)
    BY DEF Sound, ScriptOK, EntryOK, EndsOK, EndsOf, FinalStatus
  <2>4. QED
    BY <2>2, <2>3
<1>3. QED
  BY <1>1, <1>2 DEF RestoreInv

LEMMA RestoreNextInv == RestoreInv /\ [RestoreNext]_restoreVars => RestoreInv'
<1> SUFFICES ASSUME RestoreInv, [RestoreNext]_restoreVars PROVE RestoreInv'
  OBVIOUS
<1>1. CASE RestoreSweeps
  BY <1>1, SweepLooksKeeps, SweepAdoptsKeeps DEF RestoreSweeps
<1>2. CASE ExecutorRestarts
  BY <1>2, ExecutorRestartsKeeps
<1>3. ASSUME NEW r \in Restores,
             \/ TakesRestore(r) \/ StartFails(r) \/ ExecutorStep(r) \/ ProgressTick(r)
             \/ TickStep(r) \/ KillsTracked(r) \/ KillsUntracked(r) \/ ScriptWrites(r) \/ RestoreEnds(r)
      PROVE  RestoreInv'
  <2>1. CASE TakesRestore(r) \/ StartFails(r) \/ ProgressTick(r) \/ TickStep(r)
    BY <2>1, TakesRestoreKeeps, StartFailsKeeps, ProgressTickKeeps, TickSavesKeeps DEF TickStep
  <2>2. CASE KillsTracked(r) \/ KillsUntracked(r)
    BY <2>2, KillsTrackedKeeps, KillsUntrackedKeeps
  <2>3. CASE ScriptWrites(r) \/ RestoreEnds(r)
    BY <2>3, ScriptKeeps DEF RestoreEnds
  <2>4. CASE ExecutorStep(r)
    BY <2>4, StartsSessionKeeps, MonitorNoticesKeeps, LateTickKeeps, MonitorReadsKeeps,
       MonitorSavesKeeps, MonitorCleansKeeps, FadesKeeps, KillSavesKeeps, KillEndsKeeps
       DEF ExecutorStep
  <2>5. QED
    BY <1>3, <2>1, <2>2, <2>3, <2>4
<1>4. CASE UNCHANGED restoreVars
  <2>1. \A r \in Restores : Kept(r)
    BY <1>4 DEF Kept, restoreVars, trackVars, scriptVars, pastVars
  <2>2. RestoreTypeOK'
    BY <1>4 DEF RestoreInv, RestoreTypeOK, restoreVars, trackVars, scriptVars, pastVars
  <2>3. QED
    BY <2>1, <2>2, KeptSound DEF RestoreInv
<1>5. QED
  BY <1>1, <1>2, <1>3, <1>4 DEF RestoreNext

\* The state, the files and the ticks of any number of restores keep their types.
THEOREM RestoreTypes == RestoreSpec => []RestoreTypeOK
<1>1. RestoreInv => RestoreTypeOK
  BY DEF RestoreInv
<1>2. QED
  BY RestoreInitInv, RestoreNextInv, <1>1, PTL DEF RestoreSpec

\* The verdict that restoreExecutor puts on file is what became of the script, whatever the
\* agent went through in between, and none is on file while the session is alive, unless the
\* restore was cancelled, noticed twice, adopted from a stale read, or its verdict undone by the
\* save of an earlier tick.  A script that was cut short when every disk it had seen was done is
\* one that succeeded, as far as the verdict goes.
THEOREM VerdictIsHonest == RestoreSpec => []HonestRestore
<1>1. RestoreInv => HonestRestore
  BY DEF RestoreInv, Sound, EntryOK, Tells, Done, HonestRestore
<1>2. QED
  BY RestoreInitInv, RestoreNextInv, <1>1, PTL DEF RestoreSpec
=============================================================================
