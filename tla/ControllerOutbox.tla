-------------------------- MODULE ControllerOutbox --------------------------
(***************************************************************************)
(* How an agent reports the outcome of its backups to the controller:      *)
(* updateController (agent services/backupExecutor.js) posts a terminal    *)
(* status a few times and then leaves it to the outbox                     *)
(* (services/controllerOutbox.js), a spool that is kept in memory,         *)
(* mirrored on disk and drained in order, one request at a time.  The      *)
(* agent process may stop at any point; the link to the controller may be  *)
(* down, or so slow that a request is applied after its sender gave up.    *)
(*                                                                         *)
(* The same job runs again, under the same id, when the controller retries *)
(* it; its n-th outcome is verdict n.                                      *)
(***************************************************************************)
EXTENDS Naturals, FiniteSets

CONSTANTS
  Jobs,
  Deletable,      \* jobs the controller may delete
  MaxVerdicts,    \* bound on the runs of one job
  Attempts,       \* inline attempts per terminal status (6 in the code)
  MaxEntries,     \* size of the spool (5000 in the code)
  Outages,        \* how the link may fail, a subset of {"down", "slow"}
  MaxOutages, MaxStops, MaxDiskErrors     \* bounds on faults in one behaviour

ASSUME JobsAssumption == Deletable \subseteq Jobs
ASSUME BoundsAssumption ==
  /\ MaxVerdicts \in Nat \ {0} /\ Attempts \in Nat \ {0} /\ MaxEntries \in Nat \ {0}
  /\ MaxOutages \in Nat /\ MaxStops \in Nat /\ MaxDiskErrors \in Nat
ASSUME OutagesAssumption == Outages \subseteq {"down", "slow"}

VARIABLES
  reached,    \* the last verdict each job has reached on the agent
  tries,      \* the inline attempt each verdict is at, 0 when there is none
  spool,      \* entries
  disk,       \* the spool file
  draining, todo, delivered,   \* drain(): its flag, its snapshot, its count > 0
  link, late,   \* the network; requests given up but not yet applied
  record,     \* the verdict the controller's record of each job shows
  heard,      \* history: verdicts the controller applied
  gone,       \* history: verdicts lost with the process, or for lack of room
  outages, stops, diskErrors

agentVars == <<reached, tries, spool, disk, draining, todo, delivered>>
linkVars == <<link, late, outages>>
controllerVars == <<record, heard>>
faultVars == <<gone, stops, diskErrors>>
vars == <<reached, tries, spool, disk, draining, todo, delivered, link, late,
          record, heard, gone, outages, stops, diskErrors>>

Verdict == [job : Jobs, n : 1 .. MaxVerdicts]
\* An entry of the spool: a verdict, and at, which orders entries by arrival.
Entry(v, at) == [v |-> v, at |-> at]
Deleted == MaxVerdicts + 1     \* the controller has no record of the job

Verdicts(S) == {e.v : e \in S}
Reached == {v \in Verdict : v.n <= reached[v.job]}
Inline == {v \in Verdict : tries[v] > 0}

TypeOK ==
  /\ reached \in [Jobs -> 0 .. MaxVerdicts]
  /\ tries \in [Verdict -> 0 .. Attempts]
  /\ Verdicts(spool \cup disk \cup todo) \subseteq Verdict
  /\ draining \in BOOLEAN /\ delivered \in BOOLEAN
  /\ link \in {"up"} \cup Outages
  /\ late \subseteq Verdict /\ heard \subseteq Verdict /\ gone \subseteq Verdict
  /\ record \in [Jobs -> 0 .. Deleted]
  /\ outages \in 0 .. MaxOutages /\ stops \in 0 .. MaxStops
  /\ diskErrors \in 0 .. MaxDiskErrors
  /\ todo # {} <=> draining

Init ==
  /\ reached = [j \in Jobs |-> 0] /\ tries = [v \in Verdict |-> 0]
  /\ spool = {} /\ disk = {}
  /\ draining = FALSE /\ todo = {} /\ delivered = FALSE
  /\ link = "up" /\ late = {}
  /\ record = [j \in Jobs |-> 0] /\ heard = {} /\ gone = {}
  /\ outages = 0 /\ stops = 0 /\ diskErrors = 0

-----------------------------------------------------------------------------
(* The controller applies a status update, or answers 404 *)

Known(v) == record[v.job] # Deleted

Apply(v) ==
  /\ record' = [record EXCEPT ![v.job] = v.n]
  /\ heard' = heard \cup {v}

\* A request that gets no positive answer; a slow controller may yet see it.
Unanswered(v) ==
  /\ link # "up" \/ ~Known(v)
  /\ late' = IF link = "slow" THEN late \cup {v} ELSE late
  /\ UNCHANGED <<link, outages>> /\ UNCHANGED controllerVars

-----------------------------------------------------------------------------
(* The spool *)

Oldest(S) == {e \in S : \A f \in S : e.at <= f.at}
Now == IF spool = {} THEN 0 ELSE 1 + (CHOOSE e \in spool : \A f \in spool : f.at <= e.at).at

\* The spool is written beside the old file and renamed over it; when that
\* fails the file keeps what it had.
persist ==
  \/ disk' = spool' /\ UNCHANGED diskErrors
  \/ /\ diskErrors < MaxDiskErrors
     /\ diskErrors' = diskErrors + 1
     /\ UNCHANGED disk

\* Mutant: the spool file is only written by the next drain.
enqueueInMemory(v) ==
  LET e == Entry(v, Now)
      kept == {f \in spool : f.v.job # v.job} \cup {e}
      over == IF Cardinality(kept) > MaxEntries THEN Oldest(kept) ELSE {}
  IN /\ spool' = kept \ over
     /\ gone' = gone \cup Verdicts((spool \ kept) \cup over)
     /\ UNCHANGED <<disk, diskErrors>>

\* Mutant: a full spool ignores the update.
enqueueIfRoom(v) ==
  /\ spool' = IF Cardinality(spool) < MaxEntries
              THEN spool \cup {Entry(v, Now)} ELSE spool
  /\ UNCHANGED gone
  /\ persist

\* An entry replaces those of the same job and may push out the oldest.
enqueue(v) ==
  LET e == Entry(v, Now)
      kept == {f \in spool : f.v.job # v.job} \cup {e}
      over == IF Cardinality(kept) > MaxEntries THEN Oldest(kept) ELSE {}
  IN /\ spool' = kept \ over
     /\ gone' = gone \cup Verdicts((spool \ kept) \cup over)
     /\ persist

\* drain() up to its first request: it works on a snapshot of the spool.
drain ==
  IF draining \/ spool = {} THEN UNCHANGED <<draining, todo, delivered>>
  ELSE draining' = TRUE /\ todo' = spool /\ delivered' = FALSE

-----------------------------------------------------------------------------
(* updateController *)

\* A run ends.  The controller reruns a job it takes for failed (the answer to
\* its request was lost, or a pass found no trace of the run), so the outcome
\* of the run before may still be posted or wait in the spool.
BackupEnds(j) ==
  LET n == reached[j] IN
  /\ n < MaxVerdicts
  /\ n > 0 => record[j] # Deleted
  /\ reached' = [reached EXCEPT ![j] = n + 1]
  /\ tries' = [tries EXCEPT ![[job |-> j, n |-> n + 1]] = 1]
  /\ UNCHANGED <<spool, disk, draining, todo, delivered>>
  /\ UNCHANGED linkVars /\ UNCHANGED controllerVars /\ UNCHANGED faultVars

\* The post succeeds: the controller is reachable, so a drain starts.
PostAccepted(v) ==
  /\ tries[v] > 0 /\ link = "up" /\ Known(v)
  /\ Apply(v)
  /\ tries' = [tries EXCEPT ![v] = 0]
  /\ drain
  /\ UNCHANGED <<reached, spool, disk>> /\ UNCHANGED linkVars /\ UNCHANGED faultVars

PostFailed(v) ==
  /\ tries[v] \in 1 .. Attempts - 1
  /\ Unanswered(v)
  /\ tries' = [tries EXCEPT ![v] = @ + 1]
  /\ UNCHANGED <<reached, spool, disk, draining, todo, delivered>>
  /\ UNCHANGED faultVars

\* The last attempt failed too.
PostSpooled(v) ==
  /\ tries[v] = Attempts
  /\ Unanswered(v)
  /\ tries' = [tries EXCEPT ![v] = 0]
  /\ enqueue(v)
  /\ UNCHANGED <<reached, draining, todo, delivered, stops>>

-----------------------------------------------------------------------------
(* drain, after each of its requests *)

\* The timer, or any other successful call to the controller.
DrainTick ==
  /\ ~draining /\ spool # {}
  /\ drain
  /\ UNCHANGED <<reached, tries, spool, disk>>
  /\ UNCHANGED linkVars /\ UNCHANGED controllerVars /\ UNCHANGED faultVars

\* Mutant: the spool becomes what is left of the snapshot.
DrainDeliveredSnapshot ==
  \E e \in Oldest(todo) :
    /\ draining /\ link = "up" /\ Known(e.v)
    /\ Apply(e.v)
    /\ spool' = todo \ {e}
    /\ todo' = todo \ {e}
    /\ delivered' = (todo' # {})
    /\ draining' = (todo' # {})
    /\ IF todo' = {} THEN persist ELSE UNCHANGED <<disk, diskErrors>>
    /\ UNCHANGED <<reached, tries, gone, stops>> /\ UNCHANGED linkVars

\* The spool file is refreshed once, after the last entry.
DrainDelivered ==
  \E e \in Oldest(todo) :
    /\ draining /\ link = "up" /\ Known(e.v)
    /\ Apply(e.v)
    /\ spool' = spool \ {e}
    /\ todo' = todo \ {e}
    /\ delivered' = (todo' # {})
    /\ draining' = (todo' # {})
    /\ IF todo' = {} THEN persist ELSE UNCHANGED <<disk, diskErrors>>
    /\ UNCHANGED <<reached, tries, gone, stops>> /\ UNCHANGED linkVars

\* Mutant: an entry that is refused is dropped.
DrainFailedDrops ==
  /\ draining
  /\ \E e \in Oldest(todo) : Unanswered(e.v)
  /\ draining' = FALSE /\ todo' = {} /\ delivered' = FALSE
  /\ spool' = spool \ Oldest(todo)
  /\ persist
  /\ UNCHANGED <<reached, tries, gone, stops>>

\* The first failure ends the drain, whatever its reason.
DrainFailed ==
  /\ draining
  /\ \E e \in Oldest(todo) : Unanswered(e.v)
  /\ draining' = FALSE /\ todo' = {} /\ delivered' = FALSE
  /\ spool' = spool
  /\ IF delivered THEN persist ELSE UNCHANGED <<disk, diskErrors>>
  /\ UNCHANGED <<reached, tries, gone, stops>>

-----------------------------------------------------------------------------
(* The agent process stops and starts again *)

\* initialize loads the spool file and starts a drain.
Restart ==
  /\ stops < MaxStops
  /\ stops' = stops + 1
  /\ tries' = [v \in Verdict |-> 0]
  /\ spool' = disk'
  /\ draining' = (disk' # {}) /\ todo' = disk' /\ delivered' = FALSE
  /\ gone' = gone \cup Inline \cup (Verdicts(spool) \ Verdicts(disk'))
  /\ UNCHANGED reached /\ UNCHANGED linkVars /\ UNCHANGED controllerVars

Crash == disk' = disk /\ diskErrors' = diskErrors /\ Restart

\* shutdown() persists the spool; inline attempts are not waited for.
Shutdown == /\ \/ disk' = spool /\ UNCHANGED diskErrors
               \/ /\ diskErrors < MaxDiskErrors
                  /\ diskErrors' = diskErrors + 1
                  /\ UNCHANGED disk
            /\ Restart

-----------------------------------------------------------------------------
(* The network and the controller *)

Outage(how) ==
  /\ how \in Outages /\ link # how /\ outages < MaxOutages
  /\ link' = how /\ outages' = outages + 1
  /\ UNCHANGED late
  /\ UNCHANGED agentVars /\ UNCHANGED controllerVars /\ UNCHANGED faultVars

Recover ==
  /\ link # "up" /\ link' = "up"
  /\ UNCHANGED <<late, outages>>
  /\ UNCHANGED agentVars /\ UNCHANGED controllerVars /\ UNCHANGED faultVars

\* A request its sender gave up is applied after all, or never.
LateArrival(v) ==
  /\ v \in late
  /\ late' = late \ {v}
  /\ \/ Known(v) /\ Apply(v)
     \/ UNCHANGED controllerVars
  /\ UNCHANGED <<link, outages>> /\ UNCHANGED agentVars /\ UNCHANGED faultVars

\* The controller removes its record of the job (it was orphaned, adopted
\* under another id, or force-removed by an operator).
Delete(j) ==
  /\ j \in Deletable /\ record[j] # Deleted
  /\ record' = [record EXCEPT ![j] = Deleted]
  /\ UNCHANGED heard /\ UNCHANGED agentVars /\ UNCHANGED linkVars /\ UNCHANGED faultVars

Report == \E v \in Verdict : PostAccepted(v) \/ PostFailed(v) \/ PostSpooled(v)
Drain == DrainTick \/ DrainDelivered \/ DrainFailed

Next ==
  \/ Report \/ Drain \/ Crash \/ Shutdown \/ Recover
  \/ \E j \in Jobs : BackupEnds(j) \/ Delete(j)
  \/ \E how \in Outages : Outage(how)
  \/ \E v \in Verdict : LateArrival(v)

\* Timers fire, requests are answered or time out, the link comes back.
Fairness ==
  /\ \A v \in Verdict : WF_vars(PostAccepted(v) \/ PostFailed(v) \/ PostSpooled(v))
  /\ WF_vars(Drain) /\ WF_vars(Recover)

Spec == Init /\ [][Next]_vars /\ Fairness

-----------------------------------------------------------------------------
(* Properties *)

\* Every outcome a run reached is known to the controller, being reported,
\* or owed in the spool, unless the process stopped during its inline
\* attempts or the spool overflowed: entries that arrive while a drain is
\* waiting for an answer are not lost when the drain updates the spool.
NothingVanishes ==
  Reached \subseteq heard \cup Inline \cup Verdicts(spool) \cup gone

\* What memory owes the file owes too, also while a drain is half done, so
\* stopping the agent at any point forgets no spooled outcome.
SpoolOnDisk == diskErrors = 0 => spool \subseteq disk

\* Once the link is back, whatever a run reached arrives, if its job still
\* exists at the controller: the spool "drains as soon as the controller
\* answers again".
EventuallyHeard ==
  \A v \in Verdict :
    v \in Reached ~> v \in heard \cup gone \/ record[v.job] = Deleted
=============================================================================
