------------------------------ MODULE HostHealth ------------------------------
(****************************************************************************)
(* Whether a backup host is online.  Three parts of the controller probe    *)
(* the agents and write the status of the hosts into the same file: the     *)
(* check of the scheduler (services/schedulerService.js), the health check  *)
(* service (services/healthCheckService.js) and the sweep behind the list   *)
(* of hosts (routes/backupHosts.js).  Each compares what it probes with a   *)
(* status it read earlier.  The skipped runs that the scheduler's check     *)
(* retries when a host comes back are a matter of HostSlots.                *)
(****************************************************************************)
EXTENDS Naturals

CONSTANTS HostCount,     \* the hosts, in the order of the file
          Unstable,      \* hosts whose agent comes and goes
          Removable      \* hosts an operator may delete

Hosts == 1 .. HostCount
ASSUME HostsAssumption ==
  HostCount \in Nat \ {0} /\ Unstable \subseteq Hosts /\ Removable \subseteq Hosts

VARIABLES
  reachable,    \* the agent answers
  hostStatus,   \* status in the file, "gone" when the host was deleted
  strikes,      \* _consecutiveFailures in the file, at most 2
  check,        \* the scheduler's check
  probe,        \* the run of the health check service
  failures,     \* failureCounts of the health check service, at most 2
  firstCheck,   \* isFirstCheck
  poll,         \* a probe of the sweep behind the list of hosts
  writes        \* who writes a status into the file: how far, of which host, which status, and
                \* the statuses and strikes of all hosts as they were read

healthVars == <<reachable, hostStatus, strikes, check, probe, failures, firstCheck, poll,
                writes>>

Status == {"online", "offline", "gone"}
Threshold2 == 2      \* CONSECUTIVE_FAILURES_THRESHOLD
\* Mutant: every failure is the first.
StrikeForgets(n) == IF n < Threshold2 THEN 1 ELSE n

Strike(n) == IF n < Threshold2 THEN n + 1 ELSE n
Probed(h) == IF reachable[h] THEN "online" ELSE "offline"
NextOf(S, h) == h \in S /\ \A i \in S : h <= i
Present == {h \in Hosts : hostStatus[h] # "gone"}

IdleCheck == [on |-> FALSE, todo |-> {}, seen |-> [h \in Hosts |-> "gone"],
              strikes |-> [h \in Hosts |-> 0], changed |-> FALSE]
IdleProbe == [on |-> FALSE, todo |-> {}, seen |-> [h \in Hosts |-> "gone"]]
NoPoll == [on |-> FALSE, host |-> 1, was |-> "gone"]
Writers == {"probe", "poll", "operator"}
NoWrite == [step |-> "none", host |-> 1, status |-> "gone", seen |-> [h \in Hosts |-> "gone"],
            strikes |-> [h \in Hosts |-> 0]]

HealthTypeOK ==
  /\ reachable \in [Hosts -> BOOLEAN] /\ hostStatus \in [Hosts -> Status]
  /\ strikes \in [Hosts -> 0 .. 2] /\ failures \in [Hosts -> 0 .. 2]
  /\ check \in [on : BOOLEAN, todo : SUBSET Hosts, seen : [Hosts -> Status],
                strikes : [Hosts -> 0 .. 2], changed : BOOLEAN]
  /\ probe \in [on : BOOLEAN, todo : SUBSET Hosts, seen : [Hosts -> Status]]
  /\ poll \in [on : BOOLEAN, host : Hosts, was : Status]
  /\ writes \in [Writers -> [step : {"none", "due", "read"}, host : Hosts, status : Status,
                             seen : [Hosts -> Status], strikes : [Hosts -> 0 .. 2]]]
  /\ firstCheck \in BOOLEAN

HealthInit ==
  /\ reachable = [h \in Hosts |-> TRUE]
  /\ hostStatus = [h \in Hosts |-> "online"]
  /\ strikes = [h \in Hosts |-> 0] /\ failures = [h \in Hosts |-> 0]
  /\ check = IdleCheck /\ probe = IdleProbe /\ poll = NoPoll
  /\ writes = [w \in Writers |-> NoWrite]
  /\ firstCheck = TRUE

-----------------------------------------------------------------------------
(* updateBackupHost, the background probe and DELETE /:id: they read all hosts and save all,   *)
(* each call in its turn but with others between the two                                       *)

\* A deleted host is not found.
Reads(w, h, status) ==
  writes' = [writes EXCEPT ![w] =
    IF hostStatus[h] = "gone" THEN NoWrite
    ELSE [NoWrite EXCEPT !.step = "read", !.seen = [hostStatus EXCEPT ![h] = status],
                         !.strikes = strikes]]

WriteSaves(w) ==
  /\ writes[w].step = "read" /\ writes' = [writes EXCEPT ![w] = NoWrite]
  /\ hostStatus' = writes[w].seen /\ strikes' = writes[w].strikes
  /\ UNCHANGED <<reachable, check, probe, failures, firstCheck, poll>>

-----------------------------------------------------------------------------
(* checkHostsHealth of the scheduler: read all hosts, probe one after the other, save all *)

CheckReads ==
  /\ ~check.on
  /\ check' = [on |-> TRUE, todo |-> Present, seen |-> hostStatus, strikes |-> strikes,
               changed |-> FALSE]
  /\ UNCHANGED <<reachable, hostStatus, strikes, probe, failures, firstCheck, poll, writes>>

\* The copy of the array is what is compared and changed, the failure count included.
CheckProbes(h) ==
  /\ check.on /\ NextOf(check.todo, h)
  /\ LET count == CASE reachable[h] -> 0
                    [] ~reachable[h] /\ check.seen[h] = "online" -> Strike(check.strikes[h])
                    [] OTHER -> check.strikes[h]
         turns == /\ check.seen[h] # Probed(h)
                  /\ reachable[h] \/ count >= Threshold2
     IN check' = [check EXCEPT !.todo = @ \ {h},
                               !.strikes[h] = count,
                               !.seen[h] = IF turns THEN Probed(h) ELSE @,
                               !.changed = @ \/ turns]
  /\ UNCHANGED <<reachable, hostStatus, strikes, probe, failures, firstCheck, poll, writes>>

\* saveBackupHosts(hosts)
CheckSaves ==
  /\ check.on /\ check.todo = {}
  /\ IF check.changed THEN hostStatus' = check.seen /\ strikes' = check.strikes
                      ELSE UNCHANGED <<hostStatus, strikes>>
  /\ check' = IdleCheck
  /\ UNCHANGED <<reachable, probe, failures, firstCheck, poll, writes>>

-----------------------------------------------------------------------------
(* checkBackupHosts of the health check service: one host, one update at a time *)

ProbeReads ==
  /\ ~probe.on
  /\ probe' = [on |-> TRUE, todo |-> Present, seen |-> hostStatus]
  /\ UNCHANGED <<reachable, hostStatus, strikes, check, failures, firstCheck, poll, writes>>

ProbesNext(h) ==
  /\ probe.on /\ writes["probe"].step = "none" /\ NextOf(probe.todo, h)
  /\ probe' = [probe EXCEPT !.todo = @ \ {h}]

updateBackupHost(h, status) ==
  writes' = [writes EXCEPT !["probe"] =
              [NoWrite EXCEPT !.step = "due", !.host = h, !.status = status]]

ProbeUpdates ==
  /\ writes["probe"].step = "due"
  /\ Reads("probe", writes["probe"].host, writes["probe"].status)
  /\ UNCHANGED <<reachable, hostStatus, strikes, check, probe, failures, firstCheck, poll>>

ProbeFails(h) ==
  /\ ProbesNext(h) /\ ~reachable[h]
  /\ LET counts == probe.seen[h] # "offline" /\ ~firstCheck
         count == IF counts THEN Strike(failures[h]) ELSE failures[h]
     IN /\ failures' = [failures EXCEPT ![h] = count]
        /\ IF counts /\ count < Threshold2 THEN UNCHANGED writes
                                           ELSE updateBackupHost(h, "offline")
  /\ UNCHANGED <<reachable, hostStatus, strikes, check, firstCheck, poll>>

\* The agent answered: hypervisors are registered and jobs synchronised before the update.
ProbeFinds(h) ==
  /\ ProbesNext(h) /\ reachable[h]
  /\ failures' = [failures EXCEPT ![h] = 0]
  /\ updateBackupHost(h, "online")
  /\ UNCHANGED <<reachable, hostStatus, strikes, check, firstCheck, poll>>

ProbeEnds ==
  /\ probe.on /\ probe.todo = {} /\ writes["probe"].step = "none"
  /\ probe' = IdleProbe /\ firstCheck' = FALSE
  /\ UNCHANGED <<reachable, hostStatus, strikes, check, failures, poll, writes>>

-----------------------------------------------------------------------------
(* checkBackupHostStatusesInBackground: a probe when the list of hosts is shown *)

PollStarts(h) ==
  /\ ~poll.on /\ h \in Present
  /\ poll' = [on |-> TRUE, host |-> h, was |-> hostStatus[h]]
  /\ UNCHANGED <<reachable, hostStatus, strikes, check, probe, failures, firstCheck, writes>>

PollEnds ==
  /\ poll.on /\ writes["poll"].step = "none"
  /\ IF poll.was # Probed(poll.host) THEN Reads("poll", poll.host, Probed(poll.host))
                                     ELSE UNCHANGED writes
  /\ poll' = NoPoll
  /\ UNCHANGED <<reachable, hostStatus, strikes, check, probe, failures, firstCheck>>

-----------------------------------------------------------------------------
(* The environment *)

AgentFlips(h) ==
  /\ h \in Unstable
  /\ reachable' = [reachable EXCEPT ![h] = ~@]
  /\ UNCHANGED <<hostStatus, strikes, check, probe, failures, firstCheck, poll, writes>>

HostDeleted(h) ==
  /\ h \in Removable /\ writes["operator"].step = "none" /\ hostStatus[h] # "gone"
  /\ Reads("operator", h, "gone")
  /\ UNCHANGED <<reachable, hostStatus, strikes, check, probe, failures, firstCheck, poll>>

CheckStep == CheckReads \/ (\E h \in Hosts : CheckProbes(h)) \/ CheckSaves
ProbeStep == \/ ProbeReads \/ ProbeUpdates \/ ProbeEnds \/ WriteSaves("probe")
             \/ \E h \in Hosts : ProbeFails(h) \/ ProbeFinds(h)

HealthNext ==
  \/ CheckStep \/ ProbeStep \/ PollEnds \/ \E w \in Writers : WriteSaves(w)
  \/ \E h \in Hosts : PollStarts(h) \/ AgentFlips(h) \/ HostDeleted(h)

HealthSpec == HealthInit /\ [][HealthNext]_healthVars
              /\ WF_healthVars(CheckStep) /\ WF_healthVars(ProbeStep)

-----------------------------------------------------------------------------
(* Properties *)

\* Although every writer acts on a status it read before its probe, and saves the other hosts
\* as they were when it read them: once no agent comes or goes any more, the status of every
\* host that is not deleted becomes right and stays right.  While one comes and goes for ever,
\* the saves of its status may bring an old status of another host back time and again.
StatusConverges ==
  <>[][FALSE]_reachable =>
    \A h \in Hosts : <>[](hostStatus[h] # "gone") => <>[](hostStatus[h] = Probed(h))
=============================================================================
