---------------------------- MODULE RestoreJobs ----------------------------
(****************************************************************************)
(* The restores of an agent (restoreExecutor.js): it starts each in a tmux  *)
(* session of its own, watches it, kills it on request, and finds it again  *)
(* after a restart.  The verdict is taken from the progress file that       *)
(* Restore_Manager.sh leaves, when the session is over; it goes to the      *)
(* state file first, then to the controller, and then the file is removed.  *)
(****************************************************************************)
EXTENDS Naturals

CONSTANTS
  RestoreCount,       \* restores
  Sweeps,             \* passes of the recovery that may be under way at once
  MaxUpsets,          \* bound: events out of the ordinary
  Upsets              \* the events out of the ordinary that may happen

ASSUME RestoreAssumption ==
  RestoreCount \in Nat \ {0} /\ Sweeps \in Nat \ {0} /\ MaxUpsets \in Nat

Restores == 1..RestoreCount
FinalStatus == {"completed", "failed"}

VARIABLES
  entry,        \* activeJobs: the status of each restore the process tracks
  stateOf,      \* the status in the state file of each
  starting,     \* restores that are on file and whose session is being made
  watchers,     \* [Restores -> Nat]: monitors that poll the session
  endings,      \* ticks that found the session over: how far they are, their verdict
  saving,       \* [Restores -> the save of a progress tick: none, asked before its content is
                \* made, then the status it writes]
  killing,      \* [Restores -> how far its killJob is]
  fading,       \* restores whose entry, or state file, a timer will remove
  looking,      \* [1..Sweeps -> the restore a pass is asking tmux about, 0 for none]
  restoring,    \* [Restores -> the session: none, alive, over]
  progress,     \* [Restores -> the progress file: none, part, full]
  result,       \* [Restores -> how the script ended: success, error, or cut short when every disk
                \* seen so far was done]
  noticed,      \* history: restores whose end this process has noticed
  contested,    \* history: cancelled, noticed twice by one process, adopted from a stale read, or
                \* with a verdict that the save of an earlier tick undid
  upsets
trackVars == <<entry, starting, watchers, endings, saving, killing, fading, looking>>
scriptVars == <<restoring, progress, result>>
pastVars == <<noticed, contested>>
restoreVars == <<trackVars, stateOf, scriptVars, pastVars, upsets>>

Ending(r, step) == [of |-> r, step |-> step, verdict |-> "failed"]
Timer(r, what) == [of |-> r, what |-> what]

RestoreTypeOK ==
  /\ entry \in [Restores -> FinalStatus \cup {"none", "running"}]
  /\ stateOf \in [Restores -> FinalStatus \cup {"none", "running", "removed"}]
  /\ starting \subseteq Restores /\ \A r \in starting : restoring[r] = "none"
  /\ watchers \in [Restores -> Nat]
  /\ endings \subseteq
       [of: Restores, step: {"late", "over", "read", "saved"}, verdict: FinalStatus]
  /\ saving \in [Restores -> FinalStatus \cup {"none", "asked", "running"}]
  /\ killing \in [Restores -> {"none", "killed", "cleared", "saved"}]
  /\ fading \subseteq [of: Restores, what: {"entry", "state"}]
  /\ looking \in [1..Sweeps -> Restores \cup {0}]
  /\ restoring \in [Restores -> {"none", "alive", "over"}]
  /\ progress \in [Restores -> {"none", "part", "full"}]
  /\ result \in [Restores -> {"none", "success", "error", "cut"}]
  /\ noticed \subseteq Restores /\ contested \subseteq Restores
  /\ upsets \in 0..MaxUpsets

RestoreInit ==
  /\ entry = [r \in Restores |-> "none"] /\ stateOf = entry /\ starting = {}
  /\ watchers = [r \in Restores |-> 0] /\ endings = {} /\ saving = entry /\ killing = entry /\ fading = {}
  /\ looking = [p \in 1..Sweeps |-> 0]
  /\ restoring = entry /\ progress = entry /\ result = entry
  /\ noticed = {} /\ contested = {} /\ upsets = 0

Upset(kind) == kind \in Upsets /\ upsets < MaxUpsets /\ upsets' = upsets + 1

-----------------------------------------------------------------------------
(* triggerRestore: every restore has an id of its own *)

TakesRestore(r) ==
  /\ stateOf[r] = "none"
  /\ entry' = [entry EXCEPT ![r] = "running"] /\ stateOf' = [stateOf EXCEPT ![r] = "running"]
  /\ starting' = starting \cup {r}
  /\ UNCHANGED <<watchers, endings, saving, killing, fading, looking, scriptVars, pastVars, upsets>>

StartsSession(r) ==
  /\ r \in starting /\ starting' = starting \ {r}
  /\ restoring' = [restoring EXCEPT ![r] = "alive"]
  /\ watchers' = [watchers EXCEPT ![r] = @ + 1]
  /\ UNCHANGED <<entry, stateOf, endings, saving, killing, fading, looking, progress, result,
                 pastVars, upsets>>

\* tmux refuses: the restore is forgotten and the request fails.
StartFails(r) ==
  /\ r \in starting /\ Upset("refused") /\ starting' = starting \ {r}
  /\ entry' = [entry EXCEPT ![r] = "none"] /\ stateOf' = [stateOf EXCEPT ![r] = "removed"]
  /\ UNCHANGED <<watchers, endings, saving, killing, fading, looking, scriptVars, pastVars>>

-----------------------------------------------------------------------------
(* monitorRestore *)

\* The progress tick saves the entry with the status it has once the directory is made; the
\* write may land after that of the verdict.  A tick that outlives its entry has nothing to say
\* but of a restore that was cancelled or whose verdict is on file.
ProgressTick(r) ==
  /\ watchers[r] > 0 /\ entry[r] # "none" /\ progress[r] # "none" /\ saving[r] = "none"
  /\ saving' = [saving EXCEPT ![r] = "asked"]
  /\ UNCHANGED <<entry, stateOf, starting, watchers, endings, killing, fading, looking, scriptVars,
                 pastVars, upsets>>

TickWrites(r) ==
  /\ saving[r] = "asked" /\ saving' = [saving EXCEPT ![r] = entry[r]]
  /\ UNCHANGED <<entry, stateOf, starting, watchers, endings, killing, fading, looking, scriptVars,
                 pastVars, upsets>>

TickSaves(r) ==
  /\ saving[r] \notin {"none", "asked"} /\ saving' = [saving EXCEPT ![r] = "none"]
  /\ stateOf' = [stateOf EXCEPT ![r] = saving[r]]
  /\ contested' = IF saving[r] = "running" /\ stateOf[r] # "running" THEN contested \cup {r}
                  ELSE contested
  /\ UNCHANGED <<entry, starting, watchers, endings, killing, fading, looking, scriptVars, noticed,
                 upsets>>

\* A tick finds the session over and stops the monitor; the tick after it may already be
\* waiting for tmux, and is then not stopped.
MonitorNotices(r) ==
  /\ watchers[r] > 0 /\ restoring[r] # "alive" /\ watchers' = [watchers EXCEPT ![r] = @ - 1]
  /\ IF entry[r] = "none" THEN UNCHANGED <<endings, pastVars>>
     ELSE /\ endings' \in {endings \cup {Ending(r, "over")},
                          endings \cup {Ending(r, "over"), Ending(r, "late")}}
          /\ noticed' = noticed \cup {r}
          /\ contested' = IF r \in noticed THEN contested \cup {r} ELSE contested
  /\ IF Ending(r, "late") \in endings' \ endings THEN Upset("slow") ELSE UNCHANGED upsets
  /\ UNCHANGED <<entry, stateOf, starting, saving, killing, fading, looking, scriptVars>>

\* It concludes as the first did, unless the entry is gone.
LateTick(e) ==
  /\ e.step = "late"
  /\ IF entry[e.of] = "none" THEN endings' = endings \ {e} /\ UNCHANGED contested
     ELSE /\ endings' = (endings \ {e}) \cup {Ending(e.of, "over")}
          /\ contested' = contested \cup {e.of}
  /\ UNCHANGED <<entry, stateOf, starting, saving, watchers, killing, fading, looking, scriptVars,
                 noticed, upsets>>

Moves(e, step) == endings' = (endings \ {e}) \cup {[e EXCEPT !.step = step]}

\* Mutant: The progress file is removed as soon as it was read.
ReadsAndRemoves(e) ==
  LET verdict == IF progress[e.of] = "full" THEN "completed" ELSE "failed" IN
  /\ e.step = "over"
  /\ endings' = (endings \ {e}) \cup {[e EXCEPT !.step = "read", !.verdict = verdict]}
  /\ entry' = [entry EXCEPT ![e.of] = IF @ = "none" THEN "none" ELSE verdict]
  /\ progress' = [progress EXCEPT ![e.of] = "none"]
  /\ UNCHANGED <<stateOf, starting, saving, watchers, killing, fading, looking, restoring, result,
                 pastVars, upsets>>

MonitorReads(e) ==
  LET verdict == IF progress[e.of] = "full" THEN "completed" ELSE "failed" IN
  /\ e.step = "over"
  /\ endings' = (endings \ {e}) \cup {[e EXCEPT !.step = "read", !.verdict = verdict]}
  /\ entry' = [entry EXCEPT ![e.of] = IF @ = "none" THEN "none" ELSE verdict]
  /\ UNCHANGED <<stateOf, starting, saving, watchers, killing, fading, looking, scriptVars,
                 pastVars, upsets>>

MonitorSaves(e) ==
  /\ e.step = "read" /\ Moves(e, "saved")
  /\ stateOf' = [stateOf EXCEPT ![e.of] = e.verdict]
  /\ UNCHANGED <<entry, starting, saving, watchers, killing, fading, looking, scriptVars, pastVars,
                 upsets>>

\* Once the controller was told, or the report was spooled (ControllerOutbox), cleanupJobFiles
\* removes the progress file and sets a timer for the state file.
CleansUp(r, timers) ==
  /\ progress' = [progress EXCEPT ![r] = "none"]
  /\ fading' = fading \cup {Timer(r, what) : what \in timers}

MonitorCleans(e) ==
  /\ e.step = "saved" /\ endings' = endings \ {e} /\ CleansUp(e.of, {"entry", "state"})
  /\ UNCHANGED <<entry, stateOf, starting, saving, watchers, killing, looking, restoring, result,
                 pastVars, upsets>>

Fades(t) ==
  /\ t \in fading /\ fading' = fading \ {t}
  /\ IF t.what = "entry" THEN entry' = [entry EXCEPT ![t.of] = "none"] /\ UNCHANGED stateOf
     ELSE stateOf' = [stateOf EXCEPT ![t.of] = "removed"] /\ UNCHANGED entry
  /\ UNCHANGED <<starting, watchers, endings, saving, killing, looking, scriptVars, pastVars,
                 upsets>>

-----------------------------------------------------------------------------
(* killJob *)

StopsScript(r) ==
  IF restoring[r] = "alive"
  THEN /\ restoring' = [restoring EXCEPT ![r] = "over"]
       /\ result' = [result EXCEPT ![r] = IF @ = "none" THEN "error" ELSE @]
  ELSE UNCHANGED <<restoring, result>>

\* The session of a restore that is tracked must be there to be killed; if it is not, the call
\* fails and the restore is forgotten.
KillsTracked(r) ==
  /\ killing[r] = "none" /\ entry[r] # "none" /\ Upset("cancel")
  /\ StopsScript(r)
  /\ IF restoring[r] = "alive" THEN killing' = [killing EXCEPT ![r] = "killed"] /\ UNCHANGED entry
     ELSE entry' = [entry EXCEPT ![r] = "none"] /\ UNCHANGED killing
  /\ contested' = contested \cup {r}
  /\ UNCHANGED <<stateOf, starting, watchers, endings, saving, fading, looking, progress, noticed>>

\* One that is only on file is cleaned up, whether its session is there or not.
KillsUntracked(r) ==
  /\ killing[r] = "none" /\ entry[r] = "none" /\ stateOf[r] = "running" /\ Upset("cancel")
  /\ StopsScript(r) /\ CleansUp(r, {"state"})
  /\ killing' = [killing EXCEPT ![r] = "cleared"]
  /\ contested' = contested \cup {r}
  /\ UNCHANGED <<entry, stateOf, starting, watchers, endings, saving, looking, noticed>>

\* The kill of a tracked restore shares its job object with the entry and the ticks.
KillSaves(r) ==
  /\ killing[r] \in {"killed", "cleared"}
  /\ stateOf' = [stateOf EXCEPT ![r] = "failed"]
  /\ IF killing[r] = "killed"
     THEN /\ progress' = [progress EXCEPT ![r] = "none"]
          /\ entry' = [entry EXCEPT ![r] = IF @ = "none" THEN "none" ELSE "failed"]
          /\ endings' = {IF e.of = r THEN [e EXCEPT !.verdict = "failed"] ELSE e : e \in endings}
          /\ killing' = [killing EXCEPT ![r] = "saved"]
     ELSE UNCHANGED <<progress, entry, endings>> /\ killing' = [killing EXCEPT ![r] = "none"]
  /\ UNCHANGED <<starting, saving, watchers, fading, looking, restoring, result, pastVars, upsets>>

KillEnds(r) ==
  /\ killing[r] = "saved" /\ killing' = [killing EXCEPT ![r] = "none"]
  /\ CleansUp(r, {"state"}) /\ entry' = [entry EXCEPT ![r] = "none"]
  /\ UNCHANGED <<stateOf, starting, watchers, endings, saving, looking, restoring, result, pastVars,
                 upsets>>

-----------------------------------------------------------------------------
(* recoverRunningJobs: at the start, and every ten seconds *)

SweepLooks(p, r) ==
  /\ looking[p] = 0 /\ stateOf[r] = "running" /\ entry[r] = "none"
  /\ looking' = [looking EXCEPT ![p] = r]
  /\ UNCHANGED <<entry, stateOf, starting, watchers, endings, saving, killing, fading, scriptVars,
                 pastVars, upsets>>

\* Mutant: A restore whose session is gone is left alone.
AdoptsAlive(p) ==
  LET r == looking[p] IN
  /\ r # 0 /\ looking' = [looking EXCEPT ![p] = 0]
  /\ IF restoring[r] = "alive"
     THEN /\ entry' = [entry EXCEPT ![r] = "running"]
          /\ watchers' = [watchers EXCEPT ![r] = @ + 1]
     ELSE UNCHANGED <<entry, watchers>>
  /\ UNCHANGED <<stateOf, starting, endings, saving, killing, fading, scriptVars, pastVars, upsets>>

\* It adopts the restore whether its session is there or not, and does not look again at what
\* it read.
SweepAdopts(p) ==
  LET r == looking[p] IN
  /\ r # 0 /\ looking' = [looking EXCEPT ![p] = 0]
  /\ entry' = [entry EXCEPT ![r] = "running"] /\ watchers' = [watchers EXCEPT ![r] = @ + 1]
  /\ contested' = IF entry[r] = "none" /\ stateOf[r] = "running" THEN contested
                  ELSE contested \cup {r}
  /\ UNCHANGED <<stateOf, starting, endings, saving, killing, fading, scriptVars, noticed, upsets>>

\* Sessions and files outlive the agent; timers and calls do not.
ExecutorRestarts ==
  /\ Upset("restart")
  /\ entry' = [r \in Restores |-> "none"] /\ starting' = {}
  /\ watchers' = [r \in Restores |-> 0] /\ endings' = {}
  /\ saving' = [r \in Restores |-> "none"]
  /\ killing' = [r \in Restores |-> "none"] /\ fading' = {} /\ looking' = [p \in 1..Sweeps |-> 0]
  /\ noticed' = {}
  /\ UNCHANGED <<stateOf, scriptVars, contested>>

-----------------------------------------------------------------------------
(* Restore_Manager.sh *)

\* The percentage is over the disks seen so far: it is full whenever each of them is done.
ScriptWrites(r) ==
  /\ restoring[r] = "alive" /\ result[r] = "none"
  /\ progress' \in {[progress EXCEPT ![r] = "part"], [progress EXCEPT ![r] = "full"]}
  /\ UNCHANGED <<trackVars, stateOf, restoring, result, pastVars, upsets>>

ScriptSucceeds(r) ==
  /\ restoring[r] = "alive" /\ result[r] = "none"
  /\ progress' = [progress EXCEPT ![r] = "full"] /\ result' = [result EXCEPT ![r] = "success"]
  /\ UNCHANGED <<trackVars, stateOf, restoring, pastVars, upsets>>

\* virtnbdrestore fails, or a signal comes that the script gets: it writes 0 percent.
ScriptFails(r) ==
  /\ restoring[r] = "alive" /\ result[r] = "none"
  /\ progress' = [progress EXCEPT ![r] = "part"] /\ result' = [result EXCEPT ![r] = "error"]
  /\ UNCHANGED <<trackVars, stateOf, restoring, pastVars, upsets>>

\* It gives up elsewhere, or is killed: cleanup takes the exit code of its own assignment, 0, and
\* leaves the progress file as it is.
ScriptAborts(r) ==
  /\ restoring[r] = "alive" /\ result[r] = "none"
  /\ result' = [result EXCEPT ![r] = IF progress[r] = "full" THEN "cut" ELSE "error"]
  /\ UNCHANGED <<trackVars, stateOf, restoring, progress, pastVars, upsets>>

RestoreSessionEnds(r) ==
  /\ restoring[r] = "alive" /\ result[r] # "none"
  /\ restoring' = [restoring EXCEPT ![r] = "over"]
  /\ UNCHANGED <<trackVars, stateOf, progress, result, pastVars, upsets>>

-----------------------------------------------------------------------------
ExecutorStep(r) ==
  \/ StartsSession(r) \/ MonitorNotices(r) \/ KillSaves(r) \/ KillEnds(r)
  \/ \E e \in endings : /\ e.of = r
                        /\ \/ LateTick(e) \/ MonitorReads(e) \/ MonitorSaves(e)
                           \/ MonitorCleans(e)
  \/ \E t \in fading : t.of = r /\ Fades(t)

TickStep(r) == TickWrites(r) \/ TickSaves(r)

RestoreSweeps == \E p \in 1..Sweeps : SweepAdopts(p) \/ \E r \in Restores : SweepLooks(p, r)

RestoreEnds(r) ==
  ScriptSucceeds(r) \/ ScriptFails(r) \/ ScriptAborts(r) \/ RestoreSessionEnds(r)

RestoreNext ==
  \/ RestoreSweeps \/ ExecutorRestarts
  \/ \E r \in Restores :
       \/ TakesRestore(r) \/ StartFails(r) \/ ExecutorStep(r) \/ ProgressTick(r) \/ TickStep(r)
       \/ KillsTracked(r) \/ KillsUntracked(r) \/ ScriptWrites(r) \/ RestoreEnds(r)

\* Calls, ticks and timers go on, the recovery is repeated, and a script ends.
RestoreFair ==
  /\ WF_restoreVars(RestoreSweeps)
  /\ \A r \in Restores : /\ WF_restoreVars(ExecutorStep(r)) /\ WF_restoreVars(TickStep(r))
                         /\ WF_restoreVars(RestoreEnds(r))

RestoreSpec == RestoreInit /\ [][RestoreNext]_restoreVars /\ RestoreFair

-----------------------------------------------------------------------------
(* Properties *)

\* The verdict on file is what became of the script, through restarts and adoptions, and none
\* is given while it runs: unless the restore was cancelled, its end was noticed twice by one
\* process (the second finds the progress file removed by the first), it was adopted by a pass
\* that had read its file too long ago, or a tick's save landed after that of the verdict.  A
\* script that was cut short when every disk it had seen was done counts as a success.
HonestRestore ==
  \A r \in Restores \ contested :
    stateOf[r] \in FinalStatus =>
      restoring[r] # "alive" /\ (stateOf[r] = "completed" <=> result[r] \in {"success", "cut"})

\* A restore that is on file as running gets its verdict, whatever is restarted or killed and
\* whoever noticed its end.
RestoreSettles ==
  \A r \in Restores : (stateOf[r] = "running") ~> (stateOf[r] # "running")
=============================================================================
