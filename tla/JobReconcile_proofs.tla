------------------------ MODULE JobReconcile_proofs ------------------------
(***************************************************************************)
(* Proofs about JobReconcile, for any number of runs, overlapping passes   *)
(* and mishaps: its type invariant, that a session is tracked by one       *)
(* record, and that a record has exit code zero only if the script did.    *)
(***************************************************************************)
EXTENDS JobReconcile, TLAPS

Records == [Id -> JobRec]

\* The script of run r left with exit code zero, as far as the host knows.
Green(r) == exitFile[r] = "zero" \/ report[r] = "zero"

\* A run that has not ended has no exit code and no report, and is reported once.
HostOK ==
  \A r \in Runs :
    /\ session[r] \in {"unborn", "asked", "alive"} => exitFile[r] = "none" /\ report[r] = "none"
    /\ r \in listed => report[r] = "none"

\* What a record of id i may say.
OwnRec(i, job) ==
  /\ job \in JobRec
  /\ job.exit = "zero" => ~i.twin /\ Green(i.run)
  /\ i.twin => job.status # "completed"
  /\ session[i.run] = "unborn" => ~Recorded(job)
OwnRecs(R) == R \in Records /\ \A i \in Id : OwnRec(i, R[i])

\* No run has a record of its own and a twin.
Single(R) == \A r \in Runs : ~(Recorded(R[Real(r)]) /\ Recorded(R[Twin(r)]))

\* A pass makes at most one record of a run, and none before it adopts.
EarlySteps == {"sync", "resurrect", "adopt", "ask"}
New(b, a, i) == ~Recorded(b[i]) /\ Recorded(a[i])
PassOK(x) ==
  /\ OwnRecs(x.before) /\ OwnRecs(x.after)
  /\ \A r \in Runs : ~(New(x.before, x.after, Real(r)) /\ New(x.before, x.after, Twin(r)))
  /\ x.at \in EarlySteps => \A i \in Id : ~New(x.before, x.after, i)
  /\ x.at = "save" => Single(x.after)

RecordInv ==
  /\ ReconcileTypeOK /\ HostOK
  /\ OwnRecs(jobs) /\ Single(jobs) /\ OwnRecs(removal.stale) /\ Single(removal.stale)
  /\ \A p \in Passes : PassOK(pass[p])

LEMMA Ids ==
  /\ \A r \in Runs : /\ Real(r) \in Id /\ Real(r).run = r /\ ~Real(r).twin
                     /\ Twin(r) \in Id /\ Twin(r).run = r /\ Twin(r).twin
  /\ \A i \in Id : i.run \in Runs /\ i.twin \in BOOLEAN
  /\ \A i \in Id : i = Real(i.run) \/ i = Twin(i.run)
  /\ \A r, q \in Runs : Real(r) # Twin(q)
<1>1. \A i \in Id : i.run \in Runs /\ i.twin \in BOOLEAN
  BY DEF Id
<1>2. \A r \in Runs : /\ Real(r) \in Id /\ Real(r).run = r /\ ~Real(r).twin
                      /\ Twin(r) \in Id /\ Twin(r).run = r /\ Twin(r).twin
  BY DEF Id, Real, Twin
<1>3. ASSUME NEW i \in Id PROVE i = Real(i.run) \/ i = Twin(i.run)
  <2>1. i = [run |-> i.run, twin |-> i.twin]
    BY DEF Id
  <2> QED BY <1>1, <2>1 DEF Real, Twin
<1> QED BY <1>1, <1>2, <1>3

LEMMA FreshRec ==
  ASSUME NEW s \in {"absent", "running", "failed", "completed"},
         NEW e \in {"none", "zero", "nonzero"}
  PROVE  Fresh(s, e) \in JobRec /\ Fresh(s, e).status = s /\ Fresh(s, e).exit = e
         /\ Fresh(s, e).superseded = FALSE
BY DEF Fresh, JobRec

LEMMA NoJobsOwned == OwnRecs(NoJobs) /\ Single(NoJobs) /\ \A i \in Id : ~Recorded(NoJobs[i])
<1>1. Absent \in JobRec /\ Absent.status = "absent" /\ Absent.exit = "none"
  BY FreshRec DEF Absent
<1>2. NoJobs \in Records /\ \A i \in Id : NoJobs[i] = Absent
  BY <1>1 DEF NoJobs, Records
<1>3. \A i \in Id : OwnRec(i, NoJobs[i]) /\ ~Recorded(NoJobs[i])
  BY <1>1, <1>2 DEF OwnRec, Recorded
<1>4. Single(NoJobs)
  BY <1>3, Ids DEF Single
<1> QED BY <1>2, <1>3, <1>4 DEF OwnRecs

-----------------------------------------------------------------------------
(* What the passes make of their records *)

\* A record whose status and exit code change as its owner may.
LEMMA RecordChanges ==
  ASSUME NEW i \in Id, NEW job, OwnRec(i, job), Recorded(job), NEW new, new \in JobRec,
         Recorded(new), new.exit = job.exit \/ new.exit # "zero" \/ (~i.twin /\ Green(i.run)),
         new.status = "completed" => ~i.twin \/ job.status = "completed"
  PROVE  OwnRec(i, new)
BY DEF OwnRec

\* A status that stands for a success is only given to a run that is green, and
\* never to a twin.
LEMMA LiveStatusSound ==
  ASSUME NEW i \in Id, NEW guess \in Guesses
  PROVE  /\ LiveStatus(i, guess) \in {"running", "completed", "failed", "unknown"} \cup Guesses
         /\ LiveStatus(i, guess) = "completed" => ~i.twin /\ Green(i.run)
         /\ LiveStatus(i, guess) = "inferred" => ~i.twin
BY DEF LiveStatus, Green, Guesses

\* From read to made every record stays what its id allows, and none is new.
Revised(read, made) == OwnRecs(made) /\ \A i \in Id : Recorded(made[i]) => Recorded(read[i])

LEMMA RevisedOne ==
  ASSUME NEW read, OwnRecs(read), NEW made \in Records,
         \A i \in Id : made[i] = read[i] \/ (Recorded(read[i]) /\ OwnRec(i, made[i]))
  PROVE  Revised(read, made)
<1>1. \A i \in Id : OwnRec(i, made[i])
  BY DEF OwnRecs
<1>2. \A i \in Id : Recorded(made[i]) => Recorded(read[i])
  OBVIOUS
<1> QED BY <1>1, <1>2 DEF Revised, OwnRecs

LEMMA ActiveRec ==
  ASSUME NEW i \in Id, NEW job, OwnRec(i, job), Active(job) \/ job.status = "failed"
  PROVE  /\ Recorded(job) /\ job \in JobRec
         /\ \A s \in {"running", "failed"} : OwnRec(i, [job EXCEPT !.status = s])
         /\ OwnRec(i, [job EXCEPT !.status = "failed", !.superseded = TRUE])
         /\ \A b \in BOOLEAN : OwnRec(i, [job EXCEPT !.unverified = b])
         /\ \A v : OwnRec(i, Failed(job, v))
         /\ \A v : ~i.twin /\ (v = "completed" => Green(i.run)) => OwnRec(i, Completed(job, v))
<1>1. Recorded(job) /\ job \in JobRec
  BY DEF OwnRec, Recorded, Active
<1>2. ASSUME NEW new, new \in JobRec, new.status \in {"running", "failed"},
             new.exit = job.exit \/ new.exit = "nonzero"
      PROVE  OwnRec(i, new)
  BY <1>1, <1>2, RecordChanges DEF Recorded
<1>3. ASSUME NEW s \in {"running", "failed"} PROVE OwnRec(i, [job EXCEPT !.status = s])
  <2>1. PICK new : new = [job EXCEPT !.status = s]
    OBVIOUS
  <2>2. new \in JobRec /\ new.exit = job.exit /\ new.status = s
    BY <1>1, <2>1 DEF JobRec
  <2> QED BY <1>2, <2>1, <2>2
<1>4. OwnRec(i, [job EXCEPT !.status = "failed", !.superseded = TRUE])
  <2>1. PICK new : new = [job EXCEPT !.status = "failed", !.superseded = TRUE]
    OBVIOUS
  <2>2. new \in JobRec /\ new.exit = job.exit /\ new.status = "failed"
    BY <1>1, <2>1 DEF JobRec
  <2> QED BY <1>2, <2>1, <2>2
<1>5. ASSUME NEW b \in BOOLEAN PROVE OwnRec(i, [job EXCEPT !.unverified = b])
  <2>1. PICK new : new = [job EXCEPT !.unverified = b]
    OBVIOUS
  <2>2. new \in JobRec /\ new.exit = job.exit /\ new.status = job.status
    BY <1>1, <2>1 DEF JobRec
  <2>3. job.status \in {"running", "failed"}
    BY DEF Active
  <2> QED BY <1>2, <2>1, <2>2, <2>3
<1>6. ASSUME NEW v PROVE OwnRec(i, Failed(job, v))
  <2>1. PICK new : new = Failed(job, v)
    OBVIOUS
  <2>2. new \in JobRec /\ new.status = "failed" /\ (new.exit = job.exit \/ new.exit = "nonzero")
    BY <1>1, <2>1 DEF JobRec, Failed
  <2> QED BY <1>2, <2>1, <2>2
<1>7. ASSUME NEW v, ~i.twin, v = "completed" => Green(i.run)
      PROVE  OwnRec(i, Completed(job, v))
  <2>1. PICK new : new = Completed(job, v)
    OBVIOUS
  <2>2. /\ new \in JobRec /\ new.status = "completed"
        /\ new.exit = job.exit \/ (v = "completed" /\ new.exit = "zero")
    BY <1>1, <2>1 DEF JobRec, Completed
  <2>3. Recorded(new)
    BY <2>2 DEF Recorded
  <2>4. OwnRec(i, new)
    BY <1>1, <1>7, <2>2, <2>3, RecordChanges
  <2> QED BY <2>1, <2>4
<1> QED BY <1>1, <1>3, <1>4, <1>5, <1>6, <1>7

LEMMA SyncRevises ==
  ASSUME NEW read, OwnRecs(read)
  PROVE  Revised(read, syncJobStatusWithAgent(read))
<1> DEFINE made == syncJobStatusWithAgent(read)
<1>1. ASSUME NEW i \in Id
      PROVE  made[i] = read[i] \/ (Recorded(read[i]) /\ OwnRec(i, made[i]))
  <2>1. CASE ~Active(read[i]) \/ (~i.twin /\ i.run \in listed)
    BY <2>1 DEF syncJobStatusWithAgent
  <2>2. CASE ~(~Active(read[i]) \/ (~i.twin /\ i.run \in listed))
    <3>1. PICK live : live = LiveStatus(i, "unclear")
      OBVIOUS
    <3>2. made[i] = CASE live = "running"   -> read[i]
                      [] live = "completed" -> Completed(read[i], live)
                      [] OTHER -> Failed(read[i], live)
      BY <2>2, <3>1 DEF syncJobStatusWithAgent
    <3>3. live = "completed" => ~i.twin /\ Green(i.run)
      BY <3>1, LiveStatusSound DEF Guesses
    <3>4. OwnRec(i, read[i]) /\ Active(read[i])
      BY <2>2 DEF OwnRecs
    <3>5. /\ Recorded(read[i]) /\ OwnRec(i, Failed(read[i], live))
          /\ live = "completed" => OwnRec(i, Completed(read[i], live))
      BY <3>3, <3>4, ActiveRec
    <3> QED BY <3>2, <3>5
  <2> QED BY <2>1, <2>2
<1>2. made \in Records
  <2>1. \A i \in Id : made[i] \in JobRec
    BY <1>1 DEF OwnRecs, OwnRec
  <2>2. DOMAIN made = Id /\ made = [i \in DOMAIN made |-> made[i]]
    BY DEF syncJobStatusWithAgent
  <2> HIDE DEF made
  <2> QED BY <2>1, <2>2 DEF Records
<1> HIDE DEF made
<1>3. Revised(read, made)
  BY <1>1, <1>2, RevisedOne
<1> QED BY <1>3 DEF made

LEMMA UnansweredRevises ==
  ASSUME NEW read, OwnRecs(read)
  PROVE  Revised(read, [i \in Id |-> IF Active(read[i])
                                     THEN [read[i] EXCEPT !.status = "failed"] ELSE read[i]])
<1> DEFINE made == [i \in Id |-> IF Active(read[i])
                                 THEN [read[i] EXCEPT !.status = "failed"] ELSE read[i]]
<1>1. ASSUME NEW i \in Id
      PROVE  made[i] = read[i] \/ (Recorded(read[i]) /\ OwnRec(i, made[i]))
  <2>1. OwnRec(i, read[i])
    BY DEF OwnRecs
  <2> QED BY <2>1, ActiveRec
<1>2. made \in Records
  <2>1. \A i \in Id : made[i] \in JobRec
    BY <1>1 DEF OwnRecs, OwnRec
  <2> QED BY <2>1 DEF Records
<1> HIDE DEF made
<1>3. Revised(read, made)
  BY <1>1, <1>2, RevisedOne
<1> QED BY <1>3 DEF made

LEMMA ResurrectRevises ==
  ASSUME NEW read, OwnRecs(read)
  PROVE  Revised(read, resurrectRunningFailedJobs(read))
<1> DEFINE made == resurrectRunningFailedJobs(read)
<1>0. made = [i \in Id |-> IF Revivable(read[i]) /\ Live(i.run)
                           THEN [read[i] EXCEPT !.status = "running"] ELSE read[i]]
  BY DEF resurrectRunningFailedJobs
<1> HIDE DEF made
<1>1. ASSUME NEW i \in Id
      PROVE  made[i] = read[i] \/ (Recorded(read[i]) /\ OwnRec(i, made[i]))
  <2>1. OwnRec(i, read[i])
    BY DEF OwnRecs
  <2> QED BY <1>0, <2>1, ActiveRec DEF Revivable
<1>2. made \in Records
  <2>1. \A i \in Id : made[i] \in JobRec
    BY <1>1 DEF OwnRecs, OwnRec
  <2> QED BY <1>0, <2>1 DEF Records
<1>3. Revised(read, made)
  BY <1>1, <1>2, RevisedOne
<1> QED BY <1>3 DEF made

LEMMA DedupeRevises ==
  ASSUME NEW read, OwnRecs(read)
  PROVE  Revised(read, dedupeActiveBackupJobs(read))
<1> DEFINE made == dedupeActiveBackupJobs(read)
<1>0. made = [i \in Id |->
        IF Active(read[i]) /\ \E j \in Id : Active(read[j]) /\ j.run > i.run
        THEN [read[i] EXCEPT !.status = "failed", !.superseded = TRUE] ELSE read[i]]
  BY DEF dedupeActiveBackupJobs
<1> HIDE DEF made
<1>1. ASSUME NEW i \in Id
      PROVE  made[i] = read[i] \/ (Recorded(read[i]) /\ OwnRec(i, made[i]))
  <2>1. OwnRec(i, read[i])
    BY DEF OwnRecs
  <2> QED BY <1>0, <2>1, ActiveRec
<1>2. made \in Records
  <2>1. \A i \in Id : made[i] \in JobRec
    BY <1>1 DEF OwnRecs, OwnRec
  <2> QED BY <1>0, <2>1 DEF Records
<1>3. Revised(read, made)
  BY <1>1, <1>2, RevisedOne
<1> QED BY <1>3 DEF made

LEMMA VerifyRevises ==
  ASSUME NEW read, OwnRecs(read), NEW guess \in Guesses, NEW given_up \in BOOLEAN
  PROVE  Revised(read, Verified(read, guess, given_up))
<1> DEFINE made == Verified(read, guess, given_up)
<1>1. ASSUME NEW i \in Id
      PROVE  made[i] = read[i] \/ (Recorded(read[i]) /\ OwnRec(i, made[i]))
  <2>1. PICK live : live = LiveStatus(i, guess)
    OBVIOUS
  <2>2. made[i] =
     IF ~Active(read[i]) THEN read[i]
     ELSE CASE live = "running"                     -> [read[i] EXCEPT !.unverified = FALSE]
            [] live \in {"completed", "inferred"}   -> Completed(read[i], "inferred")
            [] live = "orphaned"                    -> Failed(read[i], live)
            [] live = "unknown" /\ ~read[i].unverified -> [read[i] EXCEPT !.unverified = TRUE]
            [] live = "unknown" /\ read[i].unverified /\ given_up -> Failed(read[i], live)
            [] OTHER -> read[i]
    BY <2>1 DEF Verified
  <2>3. live \in {"completed", "inferred"} => ~i.twin
    BY <2>1, LiveStatusSound
  <2>4. OwnRec(i, read[i])
    BY DEF OwnRecs
  <2>5. CASE ~Active(read[i])
    BY <2>5, <2>2
  <2>6. CASE Active(read[i])
    <3>1. /\ Recorded(read[i]) /\ OwnRec(i, Failed(read[i], live))
          /\ OwnRec(i, [read[i] EXCEPT !.unverified = FALSE])
          /\ OwnRec(i, [read[i] EXCEPT !.unverified = TRUE])
          /\ ~i.twin => OwnRec(i, Completed(read[i], "inferred"))
      BY <2>4, <2>6, ActiveRec
    <3> QED BY <2>2, <2>3, <2>6, <3>1
  <2> QED BY <2>5, <2>6
<1>2. made \in Records
  <2>1. \A i \in Id : made[i] \in JobRec
    BY <1>1 DEF OwnRecs, OwnRec
  <2>2. DOMAIN made = Id /\ made = [i \in DOMAIN made |-> made[i]]
    BY DEF Verified
  <2> HIDE DEF made
  <2> QED BY <2>1, <2>2 DEF Records
<1> HIDE DEF made
<1>3. Revised(read, made)
  BY <1>1, <1>2, RevisedOne
<1> QED BY <1>3 DEF made

LEMMA RecoverRevises ==
  ASSUME NEW read, OwnRecs(read), NEW guess \in Guesses, NEW answered \in BOOLEAN
  PROVE  Revised(read, recoverBackupJobs(read, guess, answered))
<1> DEFINE made == recoverBackupJobs(read, guess, answered)
<1>1. ASSUME NEW i \in Id
      PROVE  made[i] = read[i] \/ (Recorded(read[i]) /\ OwnRec(i, made[i]))
  <2>1. PICK live : live = IF answered THEN LiveStatus(i, guess) ELSE "unknown"
    OBVIOUS
  <2>2. made[i] =
     CASE ~Active(read[i]) \/ live = "running"   -> read[i]
       [] Active(read[i]) /\ live \in {"completed", "inferred"} -> Completed(read[i], live)
       [] Active(read[i]) /\ live = "orphaned"   -> Failed(read[i], live)
       [] OTHER -> Failed(read[i], "failed")
    BY <2>1 DEF recoverBackupJobs
  <2>3. live \in {"completed", "inferred"} => ~i.twin /\ (live = "completed" => Green(i.run))
    BY <2>1, LiveStatusSound
  <2>4. OwnRec(i, read[i])
    BY DEF OwnRecs
  <2>5. CASE ~Active(read[i])
    BY <2>5, <2>2
  <2>6. CASE Active(read[i])
    <3>1. /\ Recorded(read[i]) /\ OwnRec(i, Failed(read[i], live))
          /\ OwnRec(i, Failed(read[i], "failed"))
          /\ ~i.twin /\ (live = "completed" => Green(i.run)) => OwnRec(i, Completed(read[i], live))
      BY <2>4, <2>6, ActiveRec
    <3> QED BY <2>2, <2>3, <2>6, <3>1
  <2> QED BY <2>5, <2>6
<1>2. made \in Records
  <2>1. \A i \in Id : made[i] \in JobRec
    BY <1>1 DEF OwnRecs, OwnRec
  <2>2. DOMAIN made = Id /\ made = [i \in DOMAIN made |-> made[i]]
    BY DEF recoverBackupJobs
  <2> HIDE DEF made
  <2> QED BY <2>1, <2>2 DEF Records
<1> HIDE DEF made
<1>3. Revised(read, made)
  BY <1>1, <1>2, RevisedOne
<1> QED BY <1>3 DEF made

\* Adopting a session makes at most one record, of the run of the session.
LEMMA AdoptMakesOne ==
  ASSUME NEW read, OwnRecs(read), NEW r \in Runs, Live(r)
  PROVE  /\ OwnRecs(Adopting(read, r))
         /\ \E k \in Id : \A i \in Id :
              i # k /\ Recorded(Adopting(read, r)[i]) => Recorded(read[i])
<1>1. PICK owner \in Id :
        owner = (IF Recorded(read[Real(r)]) THEN Real(r) ELSE Twin(r)) /\ owner.run = r
  BY Ids
<1>2. PICK k \in Id : k = (IF r \in Unresolved THEN Twin(r) ELSE Real(r)) /\ k.run = r
  BY Ids
<1>3. PICK made : made = Adopting(read, r)
  OBVIOUS
<1>4. \/ made = [read EXCEPT ![owner].status = "running"] /\ Revivable(read[owner])
      \/ made = [read EXCEPT ![k] = Fresh("running", "none")]
      \/ made = read
  BY <1>1, <1>2, <1>3 DEF Adopting
<1>5. read \in Records /\ \A i \in Id : OwnRec(i, read[i])
  BY DEF OwnRecs
<1>6. CASE made = read
  BY <1>3, <1>5, <1>6 DEF OwnRecs
<1>7. CASE made = [read EXCEPT ![owner].status = "running"] /\ Revivable(read[owner])
  <2>1. PICK job : job = read[owner]
    OBVIOUS
  <2>2. PICK new : new = [job EXCEPT !.status = "running"]
    OBVIOUS
  <2>3. OwnRec(owner, job) /\ job.status = "failed"
    BY <1>5, <1>7, <2>1 DEF Revivable
  <2>4. OwnRec(owner, new) /\ Recorded(job)
    <3>1. job \in JobRec /\ Recorded(job)
      BY <2>3 DEF OwnRec, Recorded
    <3>2. new \in JobRec /\ new.exit = job.exit /\ new.status = "running"
      BY <2>2, <3>1 DEF JobRec
    <3>3. Recorded(new)
      BY <3>2 DEF Recorded
    <3> QED BY <2>3, <3>1, <3>2, <3>3, RecordChanges
  <2>5. made = [read EXCEPT ![owner] = new]
    BY <1>7, <2>1, <2>2
  <2>6. made \in Records /\ \A i \in Id : made[i] = IF i = owner THEN new ELSE read[i]
    BY <1>5, <2>4, <2>5 DEF Records, OwnRec
  <2>7. \A i \in Id : OwnRec(i, made[i]) /\ (Recorded(made[i]) => Recorded(read[i]))
    BY <1>5, <2>1, <2>4, <2>6
  <2> QED BY <1>3, <2>6, <2>7 DEF OwnRecs
<1>8. CASE made = [read EXCEPT ![k] = Fresh("running", "none")]
  <2>1. PICK new : new = Fresh("running", "none")
    OBVIOUS
  <2>2. new \in JobRec /\ new.status = "running" /\ new.exit = "none"
    BY <2>1, FreshRec
  <2>3. session[k.run] # "unborn"
    BY <1>2 DEF Live
  <2>4. OwnRec(k, new)
    BY <2>2, <2>3 DEF OwnRec
  <2>5. made \in Records /\ \A i \in Id : made[i] = IF i = k THEN new ELSE read[i]
    BY <1>5, <1>8, <2>1, <2>2 DEF Records
  <2>6. \A i \in Id : OwnRec(i, made[i]) /\ (i # k /\ Recorded(made[i]) => Recorded(read[i]))
    BY <1>5, <2>4, <2>5
  <2> QED BY <1>3, <2>5, <2>6 DEF OwnRecs
<1> QED BY <1>4, <1>6, <1>7, <1>8

\* A patched record takes each field from one of two records of its id.
LEMMA PatchedOwn ==
  ASSUME NEW i \in Id, NEW now, NEW was, NEW is, OwnRec(i, now), OwnRec(i, was), OwnRec(i, is),
         Recorded(now), Recorded(was)
  PROVE  OwnRec(i, Patched(now, was, is))
<1> DEFINE new == Patched(now, was, is)
<1>1. now \in JobRec /\ was \in JobRec /\ is \in JobRec
  BY DEF OwnRec
<1>2. DOMAIN now = {"status", "exit", "superseded", "unverified"}
  BY <1>1 DEF JobRec
<1>3. /\ new.status = IF is.status # was.status THEN is.status ELSE now.status
      /\ new.exit = IF is.exit # was.exit THEN is.exit ELSE now.exit
      /\ new.superseded = IF is.superseded # was.superseded THEN is.superseded ELSE now.superseded
      /\ new.unverified = IF is.unverified # was.unverified THEN is.unverified ELSE now.unverified
  BY <1>2 DEF Patched
<1>4. /\ new.status \in {now.status, is.status} /\ new.exit \in {now.exit, is.exit}
      /\ new.superseded \in {now.superseded, is.superseded}
      /\ new.unverified \in {now.unverified, is.unverified}
  BY <1>3
<1>5. new = [status |-> new.status, exit |-> new.exit, superseded |-> new.superseded,
             unverified |-> new.unverified]
  BY <1>2 DEF Patched
<1> HIDE DEF new
<1>6. new \in JobRec
  BY <1>1, <1>4, <1>5 DEF JobRec
<1>7. session[i.run] # "unborn"
  BY DEF OwnRec
<1>8. (new.exit = "zero" => ~i.twin /\ Green(i.run)) /\ (i.twin => new.status # "completed")
  BY <1>4 DEF OwnRec
<1>9. OwnRec(i, new)
  BY <1>6, <1>7, <1>8 DEF OwnRec
<1> QED BY <1>9 DEF new

LEMMA CommitKeeps ==
  ASSUME OwnRecs(jobs), Single(jobs), NEW x, PassOK(x),
         commitJobChanges(x.before, x.after), elsewhere
  PROVE  OwnRecs(jobs)' /\ Single(jobs)'
<1>1. PICK b, a : b = x.before /\ a = x.after
  OBVIOUS
<1>2. /\ OwnRecs(b) /\ OwnRecs(a)
      /\ \A r \in Runs : ~(New(b, a, Real(r)) /\ New(b, a, Twin(r)))
  BY <1>1 DEF PassOK
<1>3. DOMAIN jobs' = Id /\ jobs' = [i \in Id |-> jobs'[i]]
  BY DEF commitJobChanges
<1>4. ASSUME NEW i \in Id
      PROVE  \/ /\ Recorded(b[i]) /\ Recorded(jobs[i])
                /\ jobs'[i] = Patched(jobs[i], b[i], a[i])
             \/ New(b, a, i) /\ ~Recorded(jobs[i]) /\ canInsertAdoptedJob(i) /\ jobs'[i] = a[i]
             \/ jobs'[i] = jobs[i]
  BY <1>1 DEF commitJobChanges, New
<1>5. ASSUME NEW i \in Id PROVE OwnRec(i, jobs'[i])
  <2>1. OwnRec(i, jobs[i]) /\ OwnRec(i, b[i]) /\ OwnRec(i, a[i])
    BY <1>2 DEF OwnRecs
  <2>2. Recorded(b[i]) /\ Recorded(jobs[i]) => OwnRec(i, Patched(jobs[i], b[i], a[i]))
    BY <2>1, PatchedOwn
  <2> QED BY <1>4, <2>1, <2>2
<1>6. ASSUME NEW i \in Id PROVE OwnRec(i, jobs[i])'
  <2>1. session' = session /\ exitFile' = exitFile /\ report' = report
    BY DEF elsewhere
  <2> QED BY <1>5, <2>1 DEF OwnRec, Green
<1>7. jobs' \in Records
  <2>1. \A i \in Id : jobs'[i] \in JobRec
    BY <1>5 DEF OwnRec
  <2> QED BY <1>3, <2>1 DEF Records
<1>8. ASSUME NEW i \in Id, Recorded(jobs'[i])
      PROVE  Recorded(jobs[i]) \/ (New(b, a, i) /\ canInsertAdoptedJob(i))
  BY <1>4, <1>8
<1>9. ASSUME NEW r \in Runs, Recorded(jobs'[Real(r)]), Recorded(jobs'[Twin(r)]) PROVE FALSE
  <2>1. /\ Real(r) \in Id /\ Twin(r) \in Id /\ Real(r) # Twin(r)
        /\ Real(r).run = r /\ Twin(r).run = r
    BY Ids
  <2>2. canInsertAdoptedJob(Real(r)) => ~Recorded(jobs[Twin(r)])
    BY <2>1 DEF canInsertAdoptedJob
  <2>3. canInsertAdoptedJob(Twin(r)) => ~Recorded(jobs[Real(r)])
    BY <2>1 DEF canInsertAdoptedJob
  <2>4. ~(Recorded(jobs[Real(r)]) /\ Recorded(jobs[Twin(r)]))
    BY DEF Single
  <2> QED BY <1>2, <1>8, <1>9, <2>1, <2>2, <2>3, <2>4
<1> QED BY <1>6, <1>7, <1>9 DEF OwnRecs, Single

-----------------------------------------------------------------------------
(* The invariant *)

PassRec == [at : Steps, before : Records, after : Records, over : SUBSET Runs]

\* The invariant after a step, for records and passes that may have changed as well.
OwnsThen(R) ==
  /\ R \in Records
  /\ \A i \in Id :
       /\ R[i].exit = "zero" => ~i.twin /\ (exitFile'[i.run] = "zero" \/ report'[i.run] = "zero")
       /\ i.twin => R[i].status # "completed"
       /\ session'[i.run] = "unborn" => ~Recorded(R[i])
PassThen(x) ==
  /\ x \in PassRec /\ (x.at = "idle" => x = Idle)
  /\ OwnsThen(x.before) /\ OwnsThen(x.after)
  /\ \A r \in Runs : ~(New(x.before, x.after, Real(r)) /\ New(x.before, x.after, Twin(r)))
  /\ x.at \in EarlySteps => \A i \in Id : ~New(x.before, x.after, i)
  /\ x.at = "save" => Single(x.after)
HostThen ==
  /\ session' \in [Runs -> {"unborn", "asked", "alive", "lingers", "over"}]
  /\ exitFile' \in [Runs -> {"none", "zero", "nonzero"}]
  /\ listed' \in SUBSET Runs /\ report' \in [Runs -> {"none", "zero", "nonzero"}]
  /\ heard' \in SUBSET Runs
  /\ \A r \in Runs :
       /\ session'[r] \in {"unborn", "asked", "alive"} => exitFile'[r] = "none" /\ report'[r] = "none"
       /\ r \in listed' => report'[r] = "none"
\* No run is unborn again, and none that was green stops being so.
HostGrows ==
  \A r \in Runs : /\ session'[r] = "unborn" => session[r] = "unborn"
                  /\ Green(r) => exitFile'[r] = "zero" \/ report'[r] = "zero"

LEMMA InvThen ==
  ASSUME HostThen, OwnsThen(jobs'), Single(jobs'), mishaps' \in 0 .. MaxMishaps,
         removal' \in [on : BOOLEAN, id : Id, stale : Records],
         OwnsThen(removal'.stale), Single(removal'.stale),
         pass' \in [Passes -> PassRec], \A p \in Passes : PassThen(pass'[p])
  PROVE  RecordInv'
<1>1. ReconcileTypeOK'
  <2>1. jobs' \in [Id -> JobRec] /\ \A i \in Id : i.twin => jobs'[i].exit # "zero"
    BY DEF OwnsThen, Records
  <2>2. \A p \in Passes : pass'[p].at = "idle" => pass'[p] = Idle
    BY DEF PassThen
  <2>3. pass' \in [Passes -> [at : Steps, before : [Id -> JobRec], after : [Id -> JobRec],
                              over : SUBSET Runs]]
    BY DEF PassRec, Records
  <2>4. removal' \in [on : BOOLEAN, id : Id, stale : [Id -> JobRec]]
    BY DEF Records
  <2> QED BY <2>1, <2>2, <2>3, <2>4 DEF ReconcileTypeOK, HostThen
<1>2. HostOK'
  BY DEF HostThen, HostOK
<1>3. OwnRecs(jobs)' /\ Single(jobs)'
  BY DEF OwnsThen, OwnRecs, OwnRec, Green, Records, Single
<1>4. OwnRecs(removal.stale)' /\ Single(removal.stale)'
  BY DEF OwnsThen, OwnRecs, OwnRec, Green, Records, Single
<1>5. ASSUME NEW p \in Passes PROVE PassOK(pass[p])'
  <2>1. PassThen(pass'[p])
    OBVIOUS
  <2>2. OwnRecs(pass[p].before)' /\ OwnRecs(pass[p].after)'
    BY <2>1 DEF PassThen, OwnsThen, OwnRecs, OwnRec, Green, Records
  <2> QED BY <2>1, <2>2 DEF PassThen, PassOK
<1> QED BY <1>1, <1>2, <1>3, <1>4, <1>5 DEF RecordInv

LEMMA GrowRecs ==
  ASSUME HostGrows, NEW R, OwnRecs(R)
  PROVE  OwnsThen(R)
BY Ids DEF HostGrows, OwnRecs, OwnRec, OwnsThen, Records

LEMMA GrowPass ==
  ASSUME HostGrows, NEW x \in PassRec, PassOK(x), x.at = "idle" => x = Idle
  PROVE  PassThen(x)
<1>1. OwnsThen(x.before) /\ OwnsThen(x.after)
  BY GrowRecs DEF PassOK
<1> QED BY <1>1 DEF PassOK, PassThen

\* A step of the host or the scheduler, which leaves the passes alone.
LEMMA HostKeeps ==
  ASSUME RecordInv, HostThen, HostGrows, OwnsThen(jobs'), Single(jobs'),
         mishaps' \in 0 .. MaxMishaps, pass' = pass, removal' = removal
  PROVE  RecordInv'
<1>1. /\ removal \in [on : BOOLEAN, id : Id, stale : Records]
      /\ OwnRecs(removal.stale) /\ Single(removal.stale)
      /\ pass \in [Passes -> PassRec]
  BY DEF RecordInv, ReconcileTypeOK, Records, PassRec
<1>2. OwnsThen(removal'.stale) /\ Single(removal'.stale)
  BY <1>1, GrowRecs
<1>3. ASSUME NEW p \in Passes PROVE PassThen(pass'[p])
  <2>1. pass[p] \in PassRec /\ PassOK(pass[p]) /\ (pass[p].at = "idle" => pass[p] = Idle)
    BY <1>1 DEF RecordInv, ReconcileTypeOK
  <2> QED BY <2>1, GrowPass
<1> QED BY <1>1, <1>2, <1>3, InvThen

\* A step of the controller, which leaves the host alone.
LEMMA ControllerKeeps ==
  ASSUME RecordInv, UNCHANGED hostVars, OwnRecs(jobs'), Single(jobs'),
         mishaps' \in 0 .. MaxMishaps, removal' \in [on : BOOLEAN, id : Id, stale : Records],
         OwnRecs(removal'.stale), Single(removal'.stale),
         pass' \in [Passes -> PassRec],
         \A p \in Passes : PassOK(pass'[p]) /\ (pass'[p].at = "idle" => pass'[p] = Idle)
  PROVE  RecordInv'
<1>1. HostThen /\ HostGrows
  BY DEF hostVars, HostThen, HostGrows, Green, RecordInv, ReconcileTypeOK, HostOK
<1>2. OwnsThen(jobs') /\ OwnsThen(removal'.stale)
  BY <1>1, GrowRecs
<1>3. ASSUME NEW p \in Passes PROVE PassThen(pass'[p])
  <2>1. pass'[p] \in PassRec
    OBVIOUS
  <2> QED BY <1>1, <2>1, GrowPass
<1> QED BY <1>1, <1>2, <1>3, InvThen

\* One pass moves to x.
LEMMA PassKeeps ==
  ASSUME RecordInv, elsewhere, mishaps' \in 0 .. MaxMishaps, OwnRecs(jobs'), Single(jobs'),
         NEW p \in Passes, NEW x \in PassRec, pass' = [pass EXCEPT ![p] = x],
         PassOK(x), x.at = "idle" => x = Idle
  PROVE  RecordInv'
<1>1. /\ UNCHANGED hostVars /\ removal' = removal
      /\ removal \in [on : BOOLEAN, id : Id, stale : Records]
      /\ OwnRecs(removal.stale) /\ Single(removal.stale)
      /\ pass \in [Passes -> PassRec]
  BY DEF elsewhere, hostVars, RecordInv, ReconcileTypeOK, Records, PassRec
<1>2. pass' \in [Passes -> PassRec] /\ \A q \in Passes : pass'[q] = IF q = p THEN x ELSE pass[q]
  BY <1>1
<1>3. \A q \in Passes : PassOK(pass[q]) /\ (pass[q].at = "idle" => pass[q] = Idle)
  BY DEF RecordInv, ReconcileTypeOK
<1>4. \A q \in Passes : PassOK(pass'[q]) /\ (pass'[q].at = "idle" => pass'[q] = Idle)
  BY <1>2, <1>3
<1> QED BY <1>1, <1>2, <1>4, ControllerKeeps

-----------------------------------------------------------------------------
(* The steps of the scheduler, the host and the agent *)

LEMMA RecordInit ==
  ASSUME ReconcileInit
  PROVE  RecordInv
<1>1. ASSUME NEW p \in Passes PROVE PassOK(pass[p]) /\ pass[p] = Idle
  <2>1. pass[p] = Idle
    BY DEF ReconcileInit
  <2>2. Idle.at = "idle" /\ Idle.before = NoJobs /\ Idle.after = NoJobs
    BY DEF Idle
  <2> QED BY <2>1, <2>2, NoJobsOwned DEF PassOK, New, EarlySteps
<1>2. OwnRecs(jobs) /\ Single(jobs) /\ jobs = NoJobs /\ NoJobs \in Records
  BY NoJobsOwned DEF ReconcileInit, OwnRecs
<1>3. /\ removal.stale = NoJobs /\ removal.on = FALSE /\ removal.id = Real(1)
      /\ removal = [on |-> FALSE, id |-> Real(1), stale |-> NoJobs]
  BY DEF ReconcileInit, NoRemoval
<1>4. Real(1) \in Id
  BY Ids, RunsAssumption DEF Runs
<1>5. removal \in [on : BOOLEAN, id : Id, stale : [Id -> JobRec]]
  BY <1>2, <1>3, <1>4 DEF Records
<1>6. HostOK
  BY DEF ReconcileInit, HostOK
<1>7. pass \in [Passes -> [at : Steps, before : [Id -> JobRec], after : [Id -> JobRec],
                           over : SUBSET Runs]]
  <2>1. Idle \in [at : Steps, before : [Id -> JobRec], after : [Id -> JobRec], over : SUBSET Runs]
    BY <1>2 DEF Idle, Steps, Records
  <2> QED BY <2>1 DEF ReconcileInit
<1>8. \A i \in Id : ~Recorded(jobs[i])
  BY <1>2, NoJobsOwned
<1>9. ReconcileTypeOK
  BY <1>1, <1>2, <1>5, <1>7, <1>8, PassesAssumption DEF ReconcileInit, ReconcileTypeOK, Records
<1> QED BY <1>1, <1>2, <1>3, <1>6, <1>9, NoJobsOwned DEF RecordInv

\* The facts of the invariant about the host and the records.
LEMMA InvHere ==
  ASSUME RecordInv
  PROVE  /\ session \in [Runs -> {"unborn", "asked", "alive", "lingers", "over"}]
         /\ exitFile \in [Runs -> {"none", "zero", "nonzero"}]
         /\ listed \in SUBSET Runs /\ report \in [Runs -> {"none", "zero", "nonzero"}]
         /\ heard \in SUBSET Runs /\ HostOK /\ mishaps \in 0 .. MaxMishaps
         /\ OwnRecs(jobs) /\ Single(jobs) /\ jobs \in Records
         /\ removal \in [on : BOOLEAN, id : Id, stale : Records]
         /\ OwnRecs(removal.stale) /\ Single(removal.stale)
         /\ pass \in [Passes -> PassRec]
         /\ \A p \in Passes : PassOK(pass[p]) /\ (pass[p].at = "idle" => pass[p] = Idle)
BY DEF RecordInv, ReconcileTypeOK, OwnRecs, Records, PassRec

\* One record becomes new, which is not of a run that has two.
LEMMA OneRecord ==
  ASSUME RecordInv, HostGrows, NEW i \in Id, NEW new \in JobRec,
         new.exit = "zero" => ~i.twin /\ (exitFile'[i.run] = "zero" \/ report'[i.run] = "zero"),
         i.twin => new.status # "completed",
         session'[i.run] = "unborn" => ~Recorded(new),
         Recorded(new) => Recorded(jobs[i]) \/ \A j \in Id : j.run = i.run => ~Recorded(jobs[j]),
         jobs' = [jobs EXCEPT ![i] = new]
  PROVE  OwnsThen(jobs') /\ Single(jobs')
<1>1. OwnsThen(jobs) /\ Single(jobs) /\ jobs \in Records
  BY InvHere, GrowRecs
<1>2. jobs' \in Records /\ \A j \in Id : jobs'[j] = IF j = i THEN new ELSE jobs[j]
  BY <1>1 DEF Records
<1>3. OwnsThen(jobs')
  BY <1>1, <1>2 DEF OwnsThen
<1>4. ASSUME NEW r \in Runs, Recorded(jobs'[Real(r)]), Recorded(jobs'[Twin(r)]) PROVE FALSE
  <2>1. /\ Real(r) \in Id /\ Twin(r) \in Id /\ Real(r) # Twin(r)
        /\ Real(r).run = r /\ Twin(r).run = r
    BY Ids
  <2>2. ~(Recorded(jobs[Real(r)]) /\ Recorded(jobs[Twin(r)]))
    BY <1>1 DEF Single
  <2>3. CASE i # Real(r) /\ i # Twin(r)
    BY <1>2, <1>4, <2>1, <2>2, <2>3
  <2>4. CASE i = Real(r)
    BY <1>2, <1>4, <2>1, <2>2, <2>4
  <2>5. CASE i = Twin(r)
    BY <1>2, <1>4, <2>1, <2>2, <2>5
  <2> QED BY <2>3, <2>4, <2>5
<1>5. Single(jobs')
  BY <1>4 DEF Single
<1> QED BY <1>3, <1>5

LEMMA SameRecords ==
  ASSUME RecordInv, HostGrows, jobs' = jobs
  PROVE  OwnsThen(jobs') /\ Single(jobs')
BY InvHere, GrowRecs

\* A record that is failed, or stays as it is.
LEMMA FailsKeeps ==
  ASSUME RecordInv, HostGrows, NEW i \in Id, Fails(i)
  PROVE  OwnsThen(jobs') /\ Single(jobs')
<1>1. OwnRec(i, jobs[i]) /\ jobs[i] \in JobRec /\ jobs \in Records
  BY InvHere DEF OwnRecs, OwnRec
<1>2. PICK new : new = IF Active(jobs[i]) THEN Fresh("failed", "none") ELSE jobs[i]
  OBVIOUS
<1>3. jobs' = [jobs EXCEPT ![i] = new]
  BY <1>2 DEF Fails
<1>4. CASE ~Active(jobs[i])
  <2>1. jobs' = jobs
    BY <1>1, <1>2, <1>3, <1>4 DEF Records
  <2> QED BY <2>1, SameRecords
<1>5. CASE Active(jobs[i])
  <2>1. new \in JobRec /\ new.status = "failed" /\ new.exit = "none"
    BY <1>2, <1>5, FreshRec
  <2>2. Recorded(jobs[i]) /\ session'[i.run] # "unborn"
    BY <1>1, <1>5, Ids DEF Active, Recorded, OwnRec, HostGrows
  <2> QED BY <1>3, <2>1, <2>2, OneRecord
<1> QED BY <1>4, <1>5

LEMMA MishapCounts ==
  ASSUME RecordInv, Mishap \/ UNCHANGED mishaps
  PROVE  mishaps' \in 0 .. MaxMishaps
BY PassesAssumption, InvHere DEF Mishap

\* The session of one run moves on.
LEMMA SessionMoves ==
  ASSUME RecordInv, NEW r \in Runs,
         NEW s \in {"asked", "alive", "lingers", "over"},
         session' = [session EXCEPT ![r] = s],
         s \in {"asked", "alive"} => session[r] \in {"unborn", "asked", "alive"},
         listed' = listed \/ (session[r] = "asked" /\ listed' = listed \cup {r}),
         UNCHANGED <<exitFile, report, heard>>
  PROVE  HostThen /\ HostGrows
<1>1. session' \in [Runs -> {"unborn", "asked", "alive", "lingers", "over"}]
      /\ \A q \in Runs : session'[q] = IF q = r THEN s ELSE session[q]
  BY InvHere
<1>2. listed' \in SUBSET Runs /\ \A q \in listed' : q \in listed \/ (q = r /\ session[q] = "asked")
  BY InvHere
<1>3. HostOK /\ UNCHANGED <<exitFile, report, heard>>
  BY InvHere
<1>4. \A q \in Runs : /\ session'[q] \in {"unborn", "asked", "alive"} => exitFile'[q] = "none"
                      /\ session'[q] \in {"unborn", "asked", "alive"} => report'[q] = "none"
  BY <1>1, <1>3 DEF HostOK
<1>5. \A q \in Runs : q \in listed' => report'[q] = "none"
  BY <1>2, <1>3 DEF HostOK
<1>6. HostThen
  BY <1>1, <1>2, <1>4, <1>5, InvHere DEF HostThen
<1>7. HostGrows
  BY <1>1, <1>3 DEF HostGrows, Green
<1> QED BY <1>6, <1>7

LEMMA SchedulerCreatesKeeps ==
  ASSUME RecordInv, NEW r \in Runs, SchedulerCreates(r)
  PROVE  RecordInv'
<1>1. HostThen /\ HostGrows
  BY SessionMoves DEF SchedulerCreates
<1>2. PICK new : new = Fresh("running", "none")
  OBVIOUS
<1>3. new \in JobRec /\ new.exit = "none" /\ new.status = "running"
  BY <1>2, FreshRec
<1>4. jobs' = [jobs EXCEPT ![Real(r)] = new]
  BY <1>2 DEF SchedulerCreates
<1>5. Real(r) \in Id /\ Real(r).run = r /\ ~Real(r).twin
  BY Ids
<1>6. session'[r] # "unborn"
  BY InvHere DEF SchedulerCreates
<1>7. \A j \in Id : j.run = r => ~Recorded(jobs[j])
  BY InvHere DEF SchedulerCreates, OwnRecs, OwnRec
<1>8. OwnsThen(jobs') /\ Single(jobs')
  BY <1>1, <1>3, <1>4, <1>5, <1>6, <1>7, OneRecord
<1>9. mishaps' \in 0 .. MaxMishaps /\ pass' = pass /\ removal' = removal
  BY InvHere DEF SchedulerCreates
<1> QED BY <1>1, <1>8, <1>9, HostKeeps

LEMMA AgentAcceptsKeeps ==
  ASSUME RecordInv, NEW r \in Runs, AgentAccepts(r)
  PROVE  RecordInv'
<1>1. HostThen /\ HostGrows
  BY SessionMoves DEF AgentAccepts
<1>2. OwnsThen(jobs') /\ Single(jobs')
  BY <1>1, SameRecords, FailsKeeps, Ids DEF AgentAccepts
<1>3. mishaps' \in 0 .. MaxMishaps /\ pass' = pass /\ removal' = removal
  BY MishapCounts DEF AgentAccepts
<1> QED BY <1>1, <1>2, <1>3, HostKeeps

LEMMA AgentRefusesKeeps ==
  ASSUME RecordInv, NEW r \in Runs, AgentRefuses(r)
  PROVE  RecordInv'
<1>1. HostThen /\ HostGrows
  BY SessionMoves DEF AgentRefuses
<1>2. OwnsThen(jobs') /\ Single(jobs')
  <2>1. CASE Fails(Real(r))
    BY <1>1, <2>1, FailsKeeps, Ids
  <2>2. CASE jobs' = [jobs EXCEPT ![Real(r)] = Absent]
    <3>1. Absent \in JobRec /\ Absent.status = "absent" /\ Absent.exit = "none"
      BY FreshRec DEF Absent
    <3>2. ~Recorded(Absent)
      BY <3>1 DEF Recorded
    <3> QED BY <1>1, <2>2, <3>1, <3>2, OneRecord, Ids
  <2> QED BY <2>1, <2>2 DEF AgentRefuses
<1>3. mishaps' \in 0 .. MaxMishaps /\ pass' = pass /\ removal' = removal
  BY InvHere DEF AgentRefuses
<1> QED BY <1>1, <1>2, <1>3, HostKeeps

LEMMA ScriptExitsKeeps ==
  ASSUME RecordInv, NEW r \in Runs, ScriptExits(r)
  PROVE  RecordInv'
<1>1. PICK e \in {"zero", "nonzero"} : exitFile' = [exitFile EXCEPT ![r] = e]
  BY DEF ScriptExits
<1>2. session' \in [Runs -> {"unborn", "asked", "alive", "lingers", "over"}]
      /\ \A q \in Runs : session'[q] = IF q = r THEN "lingers" ELSE session[q]
  BY InvHere DEF ScriptExits
<1>3. exitFile' \in [Runs -> {"none", "zero", "nonzero"}]
      /\ \A q \in Runs : exitFile'[q] = IF q = r THEN e ELSE exitFile[q]
  BY <1>1, InvHere
<1>4. session[r] = "alive" /\ UNCHANGED <<listed, report, heard, jobs, pass, removal, mishaps>>
  BY DEF ScriptExits
<1>5. HostThen
  BY <1>2, <1>3, <1>4, InvHere DEF HostThen, HostOK
<1>6. HostGrows
  BY <1>2, <1>3, <1>4, InvHere DEF HostGrows, HostOK, Green
<1>7. OwnsThen(jobs') /\ Single(jobs') /\ mishaps' \in 0 .. MaxMishaps
  BY <1>4, <1>6, SameRecords, InvHere
<1> QED BY <1>4, <1>5, <1>6, <1>7, HostKeeps

LEMMA SessionEndsKeeps ==
  ASSUME RecordInv, NEW r \in Runs, SessionCloses(r) \/ SessionKilled(r)
  PROVE  RecordInv'
<1>1. HostThen /\ HostGrows
  BY SessionMoves DEF SessionCloses, SessionKilled
<1>2. OwnsThen(jobs') /\ Single(jobs')
  BY <1>1, SameRecords DEF SessionCloses, SessionKilled
<1>3. mishaps' \in 0 .. MaxMishaps /\ pass' = pass /\ removal' = removal
  BY InvHere DEF SessionCloses, SessionKilled
<1> QED BY <1>1, <1>2, <1>3, HostKeeps

LEMMA MonitorEndsKeeps ==
  ASSUME RecordInv, NEW r \in Runs, MonitorEnds(r)
  PROVE  RecordInv'
<1>1. PICK v \in {"zero", "nonzero"} : v = (IF exitFile[r] = "zero" THEN "zero" ELSE "nonzero")
  OBVIOUS
<1>2. report' \in [Runs -> {"none", "zero", "nonzero"}]
      /\ \A q \in Runs : report'[q] = IF q = r THEN v ELSE report[q]
  BY <1>1, InvHere DEF MonitorEnds
<1>3. exitFile' \in [Runs -> {"none", "zero", "nonzero"}]
      /\ \A q \in Runs : exitFile'[q] = IF q = r THEN "none" ELSE exitFile[q]
  BY InvHere DEF MonitorEnds
<1>4. /\ session[r] = "over" /\ r \in listed /\ listed' = listed \ {r}
      /\ UNCHANGED <<session, heard, jobs, pass, removal, mishaps>>
  BY DEF MonitorEnds
<1>5. HostThen
  BY <1>2, <1>3, <1>4, InvHere DEF HostThen, HostOK
<1>6. HostGrows
  BY <1>1, <1>2, <1>3, <1>4, InvHere DEF HostGrows, HostOK, Green
<1>7. OwnsThen(jobs') /\ Single(jobs') /\ mishaps' \in 0 .. MaxMishaps
  BY <1>4, <1>6, SameRecords, InvHere
<1> QED BY <1>4, <1>5, <1>6, <1>7, HostKeeps

LEMMA AgentForgetsKeeps ==
  ASSUME RecordInv, NEW r \in Runs, AgentForgets(r)
  PROVE  RecordInv'
<1>1. listed' = listed \ {r} /\ UNCHANGED <<session, exitFile, report, heard, jobs, pass, removal>>
  BY DEF AgentForgets
<1>2. HostThen /\ HostGrows
  BY <1>1, InvHere DEF HostThen, HostGrows, HostOK, Green
<1>3. OwnsThen(jobs') /\ Single(jobs')
  BY <1>1, <1>2, SameRecords
<1>4. mishaps' \in 0 .. MaxMishaps
  BY MishapCounts DEF AgentForgets
<1> QED BY <1>1, <1>2, <1>3, <1>4, HostKeeps

LEMMA ReportArrivesKeeps ==
  ASSUME RecordInv, NEW r \in Runs, ReportArrives(r)
  PROVE  RecordInv'
<1>1. /\ report[r] \in {"zero", "nonzero"} /\ Recorded(jobs[Real(r)])
      /\ heard' = heard \cup {r}
      /\ UNCHANGED <<session, exitFile, listed, report, pass, removal, mishaps>>
  BY InvHere DEF ReportArrives
<1>2. HostThen /\ HostGrows
  BY <1>1, InvHere DEF HostThen, HostGrows, HostOK, Green
<1>3. PICK job : job = jobs[Real(r)]
  OBVIOUS
<1>4. PICK new :
        new = [job EXCEPT !.status = IF report[r] = "zero" THEN "completed" ELSE "failed",
                          !.exit = report[r]]
  OBVIOUS
<1>5. Real(r) \in Id /\ Real(r).run = r /\ ~Real(r).twin
  BY Ids
<1>6. OwnRec(Real(r), job) /\ job \in JobRec /\ session[r] # "unborn" /\ jobs \in Records
  BY <1>1, <1>3, <1>5, InvHere DEF OwnRecs, OwnRec
<1>7. new \in JobRec /\ new.exit = report[r]
  BY <1>1, <1>4, <1>6 DEF JobRec
<1>8. jobs' = [jobs EXCEPT ![Real(r)] = new]
  BY <1>3, <1>4, <1>5, <1>6 DEF ReportArrives, Records
<1>9. OwnsThen(jobs') /\ Single(jobs')
  BY <1>1, <1>2, <1>5, <1>6, <1>7, <1>8, OneRecord
<1> QED BY <1>1, <1>2, <1>9, InvHere, HostKeeps

-----------------------------------------------------------------------------
(* The steps of the passes *)

LEMMA PassHere ==
  ASSUME RecordInv, NEW p \in Passes
  PROVE  /\ pass[p] \in PassRec /\ PassOK(pass[p])
         /\ pass[p].before \in Records /\ pass[p].after \in Records /\ pass[p].over \in SUBSET Runs
BY InvHere DEF PassRec

LEMMA StepKeeps ==
  ASSUME RecordInv, elsewhere, mishaps' \in 0 .. MaxMishaps, NEW p \in Passes,
         NEW next \in Steps \ {"idle", "save"}, NEW made, OwnRecs(made), StepTo(p, next, made),
         \A r \in Runs : ~(New(pass[p].before, made, Real(r)) /\ New(pass[p].before, made, Twin(r))),
         next \in EarlySteps => \A i \in Id : ~New(pass[p].before, made, i)
  PROVE  RecordInv'
<1>1. PICK x : x = [pass[p] EXCEPT !.at = next, !.after = made]
  OBVIOUS
<1>2. pass[p] \in PassRec /\ PassOK(pass[p]) /\ pass \in [Passes -> PassRec] /\ made \in Records
  BY PassHere, InvHere DEF OwnRecs
<1>3. /\ x \in PassRec /\ x.at = next /\ x.after = made /\ x.before = pass[p].before
      /\ pass' = [pass EXCEPT ![p] = x]
  BY <1>1, <1>2 DEF PassRec, StepTo
<1>4. PassOK(x)
  BY <1>2, <1>3 DEF PassOK
<1>5. OwnRecs(jobs') /\ Single(jobs')
  BY InvHere DEF StepTo
<1> QED BY <1>3, <1>4, <1>5, PassKeeps

\* A step that makes no record.
LEMMA RevisedKeeps ==
  ASSUME RecordInv, elsewhere, mishaps' \in 0 .. MaxMishaps, NEW p \in Passes,
         NEW next \in Steps \ {"idle", "save"}, NEW made, StepTo(p, next, made),
         Revised(pass[p].after, made), next \in EarlySteps => pass[p].at \in EarlySteps
  PROVE  RecordInv'
<1>1. PassOK(pass[p]) /\ OwnRecs(made)
  BY PassHere DEF Revised
<1>2. \A i \in Id : New(pass[p].before, made, i) => New(pass[p].before, pass[p].after, i)
  BY DEF Revised, New
<1>3. \A r \in Runs : Real(r) \in Id /\ Twin(r) \in Id
  BY Ids
<1>4. \A r \in Runs : ~(New(pass[p].before, made, Real(r)) /\ New(pass[p].before, made, Twin(r)))
  BY <1>1, <1>2, <1>3 DEF PassOK
<1>5. next \in EarlySteps => \A i \in Id : ~New(pass[p].before, made, i)
  BY <1>1, <1>2 DEF PassOK
<1> QED BY <1>1, <1>4, <1>5, StepKeeps

\* What a pass starts with.
LEMMA StartingOK ==
  ASSUME RecordInv, NEW p \in Passes
  PROVE  Starting(p) \in PassRec /\ PassOK(Starting(p)) /\ Starting(p).at # "idle"
<1>1. PICK x : x = Starting(p)
  OBVIOUS
<1>2. x.before = jobs /\ x.after = jobs /\ x.at = FirstStep[p]
      /\ x.over = (IF p = "sync" THEN {r \in Runs \ listed : session[r] = "over"} ELSE {})
      /\ x = [at |-> x.at, before |-> x.before, after |-> x.after, over |-> x.over]
  BY <1>1 DEF Starting
<1>3. x.at \in EarlySteps \cap Steps /\ x.at \notin {"idle", "save"}
  BY <1>2, PassesAssumption DEF FirstStep, AllPasses, EarlySteps, Steps
<1>4. OwnRecs(jobs) /\ jobs \in Records
  BY InvHere
<1>5. x.over \in SUBSET Runs
  BY <1>2
<1>6. x \in PassRec
  BY <1>2, <1>3, <1>4, <1>5 DEF PassRec
<1>7. PassOK(x)
  BY <1>2, <1>3, <1>4 DEF PassOK, New
<1> QED BY <1>1, <1>3, <1>6, <1>7

LEMMA PassReadsKeeps ==
  ASSUME RecordInv, NEW p \in Passes, PassReads(p)
  PROVE  RecordInv'
<1>1. PICK x : x = Starting(p)
  OBVIOUS
<1>2. pass' = [pass EXCEPT ![p] = x] /\ UNCHANGED <<jobs, mishaps>> /\ elsewhere
  BY <1>1 DEF PassReads
<1>3. x \in PassRec /\ PassOK(x) /\ x.at # "idle"
  BY <1>1, StartingOK
<1> QED BY <1>2, <1>3, InvHere, PassKeeps

LEMMA PanelSyncsKeeps ==
  ASSUME RecordInv, PanelSyncs
  PROVE  RecordInv'
<1>1. PICK p \in Passes :
        /\ pass[p].at = "sync" /\ elsewhere
        /\ \/ StepTo(p, "resurrect", syncJobStatusWithAgent(pass[p].after)) /\ UNCHANGED mishaps
           \/ /\ Mishap
              /\ StepTo(p, "resurrect",
                        [i \in Id |-> IF Active(pass[p].after[i])
                                      THEN [pass[p].after[i] EXCEPT !.status = "failed"]
                                      ELSE pass[p].after[i]])
  BY DEF PanelSyncs
<1>2. mishaps' \in 0 .. MaxMishaps
  BY <1>1, MishapCounts
<1>3. OwnRecs(pass[p].after)
  BY PassHere DEF PassOK
<1>4. "resurrect" \in Steps \ {"idle", "save"} /\ pass[p].at \in EarlySteps
  BY <1>1 DEF Steps, EarlySteps
<1>5. CASE StepTo(p, "resurrect", syncJobStatusWithAgent(pass[p].after))
  <2>1. Revised(pass[p].after, syncJobStatusWithAgent(pass[p].after))
    BY <1>3, SyncRevises
  <2> QED BY <1>1, <1>2, <1>4, <1>5, <2>1, RevisedKeeps
<1>6. CASE StepTo(p, "resurrect", [i \in Id |-> IF Active(pass[p].after[i])
                                                THEN [pass[p].after[i] EXCEPT !.status = "failed"]
                                                ELSE pass[p].after[i]])
  <2>1. Revised(pass[p].after, [i \in Id |-> IF Active(pass[p].after[i])
                                             THEN [pass[p].after[i] EXCEPT !.status = "failed"]
                                             ELSE pass[p].after[i]])
    BY <1>3, UnansweredRevises
  <2> QED BY <1>1, <1>2, <1>4, <1>6, <2>1, RevisedKeeps
<1> QED BY <1>1, <1>5, <1>6

LEMMA PanelResurrectsKeeps ==
  ASSUME RecordInv, PanelResurrects
  PROVE  RecordInv'
<1>1. PICK p \in Passes :
        /\ pass[p].at = "resurrect" /\ elsewhere /\ UNCHANGED mishaps
        /\ StepTo(p, "adopt", resurrectRunningFailedJobs(pass[p].after))
  BY DEF PanelResurrects
<1>2. Revised(pass[p].after, resurrectRunningFailedJobs(pass[p].after))
  BY PassHere, ResurrectRevises DEF PassOK
<1>3. "adopt" \in Steps \ {"idle", "save"} /\ pass[p].at \in EarlySteps
  BY <1>1 DEF Steps, EarlySteps
<1> QED BY <1>1, <1>2, <1>3, InvHere, RevisedKeeps

LEMMA PassAdoptsKeeps ==
  ASSUME RecordInv, NEW p \in Passes, PassAdopts(p)
  PROVE  RecordInv'
<1>1. PICK b, read : b = pass[p].before /\ read = pass[p].after
  OBVIOUS
<1>2. PICK made \in adoptLiveTmuxSessions(read) :
        StepTo(p, StepAfterAdopt[p], IF p = "panel" THEN dedupeActiveBackupJobs(made) ELSE made)
  BY <1>1 DEF PassAdopts
<1>3. pass[p].at \in EarlySteps /\ UNCHANGED mishaps /\ elsewhere
  BY DEF PassAdopts, EarlySteps
<1>4. OwnRecs(read) /\ \A i \in Id : Recorded(read[i]) => Recorded(b[i])
  BY <1>1, <1>3, PassHere DEF PassOK, New
<1>5. /\ OwnRecs(made)
      /\ \E k \in Id : \A i \in Id : i # k /\ Recorded(made[i]) => Recorded(read[i])
  <2>1. CASE made = read
    <3>1. \E k \in Id : TRUE
      BY Ids, RunsAssumption DEF Runs
    <3> QED BY <1>4, <2>1, <3>1
  <2>2. CASE \E r \in Runs : Live(r) /\ made = Adopting(read, r)
    BY <1>4, <2>2, AdoptMakesOne
  <2> QED BY <1>2, <2>1, <2>2 DEF adoptLiveTmuxSessions
<1>6. PICK k \in Id : \A i \in Id : i # k /\ Recorded(made[i]) => Recorded(read[i])
  BY <1>5
<1>7. PICK final : final = IF p = "panel" THEN dedupeActiveBackupJobs(made) ELSE made
  OBVIOUS
<1>8. Revised(made, final)
  BY <1>5, <1>7, DedupeRevises DEF Revised
<1>9. OwnRecs(final) /\ \A i \in Id : New(b, final, i) => i = k
  BY <1>4, <1>6, <1>8 DEF Revised, New
<1>10. \A r \in Runs : ~(New(b, final, Real(r)) /\ New(b, final, Twin(r)))
  BY <1>9, Ids
<1>11. StepAfterAdopt[p] \in Steps \ {"idle", "save"} /\ StepAfterAdopt[p] \notin EarlySteps
  BY PassesAssumption DEF StepAfterAdopt, AllPasses, Steps, EarlySteps
<1> QED BY <1>1, <1>2, <1>3, <1>7, <1>9, <1>10, <1>11, InvHere, StepKeeps

LEMMA SyncVerifiesKeeps ==
  ASSUME RecordInv, SyncVerifies
  PROVE  RecordInv'
<1>1. PICK p \in Passes :
        /\ pass[p].at = "status" /\ elsewhere
        /\ \/ /\ \E guess \in Guesses, given_up \in BOOLEAN :
                   StepTo(p, "commit", Verified(pass[p].after, guess, given_up))
              /\ UNCHANGED mishaps
           \/ StepTo(p, "commit", pass[p].after) /\ Mishap
  BY DEF SyncVerifies
<1>2. "commit" \in Steps \ {"idle", "save"} /\ "commit" \notin EarlySteps
  BY DEF Steps, EarlySteps
<1>3. mishaps' \in 0 .. MaxMishaps
  BY <1>1, MishapCounts
<1>4. PICK made : StepTo(p, "commit", made) /\ Revised(pass[p].after, made)
  <2>1. OwnRecs(pass[p].after)
    BY PassHere DEF PassOK
  <2>2. ASSUME NEW guess \in Guesses, NEW given_up \in BOOLEAN,
               StepTo(p, "commit", Verified(pass[p].after, guess, given_up))
        PROVE  \E made : StepTo(p, "commit", made) /\ Revised(pass[p].after, made)
    BY <2>1, <2>2, VerifyRevises
  <2>3. Revised(pass[p].after, pass[p].after)
    BY <2>1 DEF Revised
  <2> QED BY <1>1, <2>2, <2>3
<1> QED BY <1>1, <1>2, <1>3, <1>4, RevisedKeeps

LEMMA BootAsksKeeps ==
  ASSUME RecordInv, BootAsks
  PROVE  RecordInv'
<1>1. PICK p \in Passes, guess \in Guesses, answered \in BOOLEAN :
        /\ pass[p].at = "ask" /\ elsewhere /\ (Mishap \/ UNCHANGED mishaps)
        /\ StepTo(p, "commit", recoverBackupJobs(pass[p].after, guess, answered))
  BY DEF BootAsks
<1>2. Revised(pass[p].after, recoverBackupJobs(pass[p].after, guess, answered))
  BY PassHere, RecoverRevises DEF PassOK
<1>3. "commit" \in Steps \ {"idle", "save"} /\ "commit" \notin EarlySteps
  BY DEF Steps, EarlySteps
<1> QED BY <1>1, <1>2, <1>3, MishapCounts, RevisedKeeps

LEMMA IdleOK == Idle \in PassRec /\ PassOK(Idle) /\ Idle.at = "idle"
<1>1. NoJobs \in Records /\ OwnRecs(NoJobs) /\ \A i \in Id : ~New(NoJobs, NoJobs, i)
  BY NoJobsOwned DEF OwnRecs, New
<1>2. \A r \in Runs : Real(r) \in Id
  BY Ids
<1>3. Idle \in PassRec /\ Idle.at = "idle" /\ Idle.before = NoJobs /\ Idle.after = NoJobs
  BY <1>1 DEF Idle, PassRec, Steps
<1>4. PassOK(Idle)
  BY <1>1, <1>2, <1>3 DEF PassOK, EarlySteps
<1> QED BY <1>3, <1>4

\* A pass that waits to sweep, or to save what it swept.
LEMMA SweepingOK ==
  ASSUME NEW o \in SUBSET Runs, NEW s \in {"sweep", "save"}, NEW a, OwnRecs(a), Single(a),
         NEW x, x = [at |-> s, before |-> NoJobs, after |-> a, over |-> o]
  PROVE  x \in PassRec /\ PassOK(x) /\ x.at = s
<1>1. x.at = s /\ x.before = NoJobs /\ x.after = a /\ x.over = o
  OBVIOUS
<1>2. NoJobs \in Records /\ OwnRecs(NoJobs) /\ a \in Records
  BY NoJobsOwned DEF OwnRecs
<1>3. x \in PassRec
  BY <1>2 DEF PassRec, Steps
<1>4. \A r \in Runs : ~(New(NoJobs, a, Real(r)) /\ New(NoJobs, a, Twin(r)))
  BY DEF Single, New
<1>5. PassOK(x)
  BY <1>1, <1>2, <1>4 DEF PassOK, EarlySteps
<1> QED BY <1>1, <1>3, <1>5

LEMMA PassCommitsKeeps ==
  ASSUME RecordInv, NEW p \in Passes, PassCommits(p)
  PROVE  RecordInv'
<1>1. PICK x : x = IF p = "sync" THEN [Idle EXCEPT !.at = "sweep", !.over = pass[p].over] ELSE Idle
  OBVIOUS
<1>2. /\ commitJobChanges(pass[p].before, pass[p].after) /\ UNCHANGED mishaps /\ elsewhere
      /\ pass' = [pass EXCEPT ![p] = x]
  BY <1>1 DEF PassCommits
<1>3. PassOK(pass[p]) /\ pass[p].over \in SUBSET Runs
  BY PassHere
<1>4. x \in PassRec /\ PassOK(x) /\ (x.at = "idle" => x = Idle)
  <2>1. CASE p = "sync"
    <3>1. x = [at |-> "sweep", before |-> NoJobs, after |-> NoJobs, over |-> pass[p].over]
      BY <1>1, <2>1 DEF Idle
    <3> QED BY <1>3, <3>1, NoJobsOwned, SweepingOK
  <2>2. CASE p # "sync"
    BY <1>1, <2>2, IdleOK
  <2> QED BY <2>1, <2>2
<1>5. OwnRecs(jobs)' /\ Single(jobs)'
  BY <1>2, <1>3, CommitKeeps, InvHere
<1>6. OwnRecs(jobs') /\ Single(jobs')
  BY <1>2, <1>5 DEF elsewhere, OwnRecs, OwnRec, Green, Single
<1> QED BY <1>2, <1>4, <1>6, InvHere, PassKeeps

LEMMA SweepKeeps ==
  ASSUME RecordInv, SweepPasses \/ SweepFails \/ SweepSaves
  PROVE  RecordInv'
<1>1. "sync" \in Passes /\ pass["sync"] \in PassRec /\ PassOK(pass["sync"])
  BY PassesAssumption, PassHere
<1>2. UNCHANGED mishaps /\ elsewhere /\ mishaps' \in 0 .. MaxMishaps
  BY InvHere DEF SweepPasses, SweepFails, SweepSaves
<1>3. CASE SweepPasses
  <2>1. pass' = [pass EXCEPT !["sync"] = Idle] /\ jobs' = jobs
    BY <1>3 DEF SweepPasses
  <2> QED BY <1>1, <1>2, <2>1, IdleOK, InvHere, PassKeeps
<1>4. CASE SweepSaves
  <2>1. pass' = [pass EXCEPT !["sync"] = Idle] /\ jobs' = pass["sync"].after
    BY <1>4 DEF SweepSaves
  <2>2. OwnRecs(jobs') /\ Single(jobs')
    BY <1>1, <1>4, <2>1 DEF PassOK, SweepSaves
  <2> QED BY <1>1, <1>2, <2>1, <2>2, IdleOK, PassKeeps
<1>5. CASE SweepFails
  <2>1. PICK made : made = [i \in Id |-> IF i \in Stuck THEN [jobs[i] EXCEPT !.status = "failed"]
                                                        ELSE jobs[i]]
    OBVIOUS
  <2>2. PICK x : x = [Idle EXCEPT !.at = "save", !.after = made]
    OBVIOUS
  <2>3. pass' = [pass EXCEPT !["sync"] = x] /\ jobs' = jobs
    BY <1>5, <2>1, <2>2 DEF SweepFails
  <2>4. x = [at |-> "save", before |-> NoJobs, after |-> made, over |-> {}]
    BY <2>2 DEF Idle
  <2>6. OwnRecs(jobs) /\ Single(jobs)
    BY InvHere
  <2>7. ASSUME NEW i \in Id
        PROVE  made[i] = jobs[i] \/ (Recorded(jobs[i]) /\ OwnRec(i, made[i]))
    <3>1. OwnRec(i, jobs[i]) /\ (i \in Stuck => Active(jobs[i]))
      BY <2>6 DEF OwnRecs, Stuck
    <3>2. PICK job : job = jobs[i]
      OBVIOUS
    <3>3. made[i] = IF i \in Stuck THEN [job EXCEPT !.status = "failed"] ELSE job
      BY <2>1, <3>2
    <3>4. CASE i \in Stuck
      <4>1. OwnRec(i, job) /\ job \in JobRec /\ Recorded(job)
        BY <3>1, <3>2, <3>4 DEF Active, Recorded, OwnRec
      <4>2. PICK new : new = [job EXCEPT !.status = "failed"]
        OBVIOUS
      <4>3. new \in JobRec /\ new.exit = job.exit /\ new.status = "failed"
        BY <4>1, <4>2 DEF JobRec
      <4>4. OwnRec(i, new)
        BY <4>1, <4>3, RecordChanges DEF Recorded
      <4> QED BY <3>2, <3>3, <3>4, <4>1, <4>2, <4>4
    <3> QED BY <3>2, <3>3, <3>4
  <2>8. made \in Records
    <3>1. \A i \in Id : made[i] \in JobRec
      BY <2>6, <2>7 DEF OwnRecs, OwnRec
    <3> QED BY <2>1, <3>1 DEF Records
  <2>9. Revised(jobs, made)
    BY <2>6, <2>7, <2>8, RevisedOne
  <2>10. OwnRecs(made) /\ Single(made)
    BY <2>6, <2>9, Ids DEF Revised, Single
  <2>11. x \in PassRec /\ PassOK(x) /\ x.at = "save"
    BY <2>4, <2>10, SweepingOK
  <2> QED BY <1>1, <1>2, <2>3, <2>6, <2>11, PassKeeps
<1> QED BY <1>3, <1>4, <1>5

LEMMA ControllerRestartsKeeps ==
  ASSUME RecordInv, ControllerRestarts
  PROVE  RecordInv'
<1>1. /\ pass' = [p \in Passes |-> IF p = "boot" THEN Starting(p) ELSE Idle]
      /\ removal' = NoRemoval /\ jobs' = jobs /\ UNCHANGED hostVars
      /\ mishaps' \in 0 .. MaxMishaps
  BY MishapCounts DEF ControllerRestarts
<1>2. ASSUME NEW p \in Passes
      PROVE  pass'[p] \in PassRec /\ PassOK(pass'[p]) /\ (pass'[p].at = "idle" => pass'[p] = Idle)
  BY <1>1, IdleOK, StartingOK
<1>3. pass' \in [Passes -> PassRec]
  BY <1>1, <1>2
<1>4. Real(1) \in Id
  BY Ids, RunsAssumption DEF Runs
<1>5. /\ removal' \in [on : BOOLEAN, id : Id, stale : Records] /\ removal'.stale = NoJobs
  BY <1>1, <1>4, NoJobsOwned DEF NoRemoval, OwnRecs
<1>6. OwnRecs(removal'.stale) /\ Single(removal'.stale) /\ OwnRecs(jobs') /\ Single(jobs')
  BY <1>1, <1>5, NoJobsOwned, InvHere
<1> QED BY <1>1, <1>2, <1>3, <1>5, <1>6, ControllerKeeps

-----------------------------------------------------------------------------
(* The removal of a record by force *)

LEMMA RemoveReadsKeeps ==
  ASSUME RecordInv, NEW i \in Id, RemoveReads(i)
  PROVE  RecordInv'
<1>1. /\ removal' = [on |-> TRUE, id |-> i, stale |-> jobs] /\ jobs' = jobs /\ pass' = pass
      /\ UNCHANGED <<exitFile, listed, report, heard>> /\ mishaps' \in 0 .. MaxMishaps
  BY MishapCounts DEF RemoveReads
<1>2. HostThen /\ HostGrows
  <2>1. CASE session' = session
    BY <1>1, <2>1, InvHere DEF HostThen, HostGrows, HostOK, Green
  <2>2. CASE session' = [session EXCEPT ![i.run] = "over"]
    BY <1>1, <2>2, Ids, SessionMoves
  <2> QED BY <2>1, <2>2 DEF RemoveReads
<1>3. OwnsThen(jobs') /\ Single(jobs')
  BY <1>1, <1>2, SameRecords
<1>4. /\ removal' \in [on : BOOLEAN, id : Id, stale : Records]
      /\ OwnsThen(removal'.stale) /\ Single(removal'.stale)
  BY <1>1, <1>3, InvHere
<1>5. ASSUME NEW p \in Passes PROVE PassThen(pass'[p])
  <2>1. pass[p] \in PassRec /\ PassOK(pass[p]) /\ (pass[p].at = "idle" => pass[p] = Idle)
    BY InvHere
  <2> QED BY <1>1, <1>2, <2>1, GrowPass
<1>6. pass' \in [Passes -> PassRec]
  BY <1>1, InvHere
<1> QED BY <1>1, <1>2, <1>3, <1>4, <1>5, <1>6, InvThen

LEMMA RemoveSavesKeeps ==
  ASSUME RecordInv, RemoveSaves
  PROVE  RecordInv'
<1>1. /\ jobs' = [removal.stale EXCEPT ![removal.id] = Absent] /\ removal' = NoRemoval
      /\ pass' = pass /\ mishaps' = mishaps /\ UNCHANGED hostVars
  BY DEF RemoveSaves
<1>2. Absent \in JobRec /\ Absent.status = "absent" /\ Absent.exit = "none"
  BY FreshRec DEF Absent
<1>3. /\ removal.stale \in Records /\ OwnRecs(removal.stale) /\ Single(removal.stale)
  BY InvHere DEF OwnRecs
<1>4. \A j \in Id : jobs'[j] = removal.stale[j] \/ jobs'[j] = Absent
  BY <1>1, <1>3 DEF Records
<1>5. jobs' \in Records
  BY <1>1, <1>2, <1>3 DEF Records
<1>6. OwnRecs(jobs')
  BY <1>2, <1>3, <1>4, <1>5 DEF OwnRecs, OwnRec, Recorded
<1>7. Single(jobs')
  <2>1. \A j \in Id : Recorded(jobs'[j]) => Recorded(removal.stale[j])
    BY <1>2, <1>4 DEF Recorded
  <2> QED BY <1>3, <2>1, Ids DEF Single
<1>8. Real(1) \in Id
  BY Ids, RunsAssumption DEF Runs
<1>9. /\ removal' \in [on : BOOLEAN, id : Id, stale : Records]
      /\ OwnRecs(removal'.stale) /\ Single(removal'.stale)
  BY <1>1, <1>8, NoJobsOwned DEF NoRemoval, OwnRecs
<1> QED BY <1>1, <1>6, <1>7, <1>9, InvHere, ControllerKeeps

-----------------------------------------------------------------------------
(* The theorems *)

LEMMA RecordNext ==
  ASSUME RecordInv, [ReconcileNext]_reconcileVars
  PROVE  RecordInv'
<1>1. CASE HostStep
  BY <1>1, SessionEndsKeeps, MonitorEndsKeeps, ReportArrivesKeeps DEF HostStep
<1>2. CASE ControllerRestarts \/ RemoveSaves
  BY <1>2, ControllerRestartsKeeps, RemoveSavesKeeps
<1>3. ASSUME NEW r \in Runs,
             \/ SchedulerCreates(r) \/ AgentAccepts(r) \/ AgentRefuses(r)
             \/ ScriptExits(r) \/ SessionKilled(r) \/ AgentForgets(r)
      PROVE  RecordInv'
  BY <1>3, SchedulerCreatesKeeps, AgentAcceptsKeeps, AgentRefusesKeeps, ScriptExitsKeeps,
     SessionEndsKeeps, AgentForgetsKeeps
<1>4. ASSUME NEW p \in Passes, PassStep(p) PROVE RecordInv'
  BY <1>4, PassReadsKeeps, PassAdoptsKeeps, PassCommitsKeeps, PanelSyncsKeeps,
     PanelResurrectsKeeps, SyncVerifiesKeeps, SweepKeeps, BootAsksKeeps DEF PassStep
<1>5. ASSUME NEW i \in Id, RemoveReads(i) PROVE RecordInv'
  BY <1>5, RemoveReadsKeeps
<1>6. CASE UNCHANGED reconcileVars
  <2>1. /\ UNCHANGED hostVars /\ jobs' = jobs /\ pass' = pass /\ removal' = removal
        /\ mishaps' = mishaps
    BY <1>6 DEF reconcileVars, hostVars
  <2> QED BY <2>1, InvHere, ControllerKeeps
<1> QED BY <1>1, <1>2, <1>3, <1>4, <1>5, <1>6 DEF ReconcileNext

\* The invariant holds in every state: what each record may say, what a pass works on, and
\* that no two records are kept of one run.
THEOREM RecordsHold == ReconcileSpec => []RecordInv
<1>1. ReconcileInit => RecordInv
  BY RecordInit
<1>2. RecordInv /\ [ReconcileNext]_reconcileVars => RecordInv'
  BY RecordNext
<1> QED BY <1>1, <1>2, PTL DEF ReconcileSpec

\* The records, the snapshots the passes work on and the save of a removal keep their
\* types, and a record under a synthetic id never has exit code zero.
THEOREM RecordTypes == ReconcileSpec => []ReconcileTypeOK
<1>1. RecordInv => ReconcileTypeOK
  BY DEF RecordInv
<1> QED BY <1>1, RecordsHold, PTL

\* Whatever was created, adopted, removed or saved from a stale snapshot meanwhile, no run
\* has two active records (commitJobChanges, canInsertAdoptedJob, DELETE /jobs/:jobId/force).
THEOREM TrackedBySingle == ReconcileSpec => []TrackedOnce
<1>1. RecordInv => TrackedOnce
  BY DEF RecordInv, Single, TrackedOnce, Active, Recorded
<1> QED BY <1>1, RecordsHold, PTL

\* Exit code zero in a record was written by the script of the run, and no guess, patch or
\* stale save puts it there; an adopted twin is never completed.
THEOREM GreenIsEarned == ReconcileSpec => []NeverFalselyGreen
<1>1. ASSUME RecordInv PROVE NeverFalselyGreen
  BY <1>1, InvHere, Ids DEF OwnRecs, OwnRec, Green, NeverFalselyGreen
<1> QED BY <1>1, RecordsHold, PTL
=============================================================================
