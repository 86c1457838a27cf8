--------------------------- MODULE Records_proofs ---------------------------
(***************************************************************************)
(* What a job record rests on: proofs about the file it is kept in         *)
(* (FileStorage) and the report that ends it (ControllerOutbox).           *)
(*                                                                         *)
(* Of the file: its type invariant under every fault, and, when clients    *)
(* only use mutateJSON, that acknowledged updates survive kills, refused   *)
(* writes and one damaged copy, and that the file behaves like an atomic   *)
(* store. Of the reports: no outcome vanishes, and the spool file covers   *)
(* the spool.                                                              *)
(***************************************************************************)
EXTENDS FileStorage, ControllerOutbox, TLAPS

-----------------------------------------------------------------------------
(* The file of the records *)

LEMMA HeadTail ==
  ASSUME NEW S, NEW q \in Seq(S), q # <<>>
  PROVE  Head(q) \in S /\ Tail(q) \in Seq(S)
OBVIOUS

LEMMA StorageTypeInit == StorageInit => StorageTypeOK
BY MaxCrashesAssumption, SMT
   DEF StorageInit, StorageTypeOK, HeadHeld, File, NoData, Stages, Down, Writing

LEMMA StorageTypeNext == StorageTypeOK /\ [StorageNext]_storageVars => StorageTypeOK'
<1> SUFFICES ASSUME StorageTypeOK, [StorageNext]_storageVars PROVE StorageTypeOK'
  OBVIOUS
<1> USE MaxCrashesAssumption
<1>h. queue # <<>> => Head(queue) \in Clients /\ Tail(queue) \in Seq(Clients)
  BY HeadTail DEF StorageTypeOK
<1>v. Visible \subseteq Clients
  BY DEF Visible, StorageTypeOK, File
<1>f. \A k \in {"absent", "blank", "torn"} : NoData(k) \in File
  BY DEF NoData, File
<1>w. HalfWritten \subseteq File
  BY DEF HalfWritten, NoData, File
<1>g. \A d \in SUBSET Clients : Valid(d) \in File
  BY DEF Valid, File
<1>1. CASE Boot
  <2>1. main' \in File /\ dirty' \subseteq {"main", "bak", "tmp"} /\ stage' \in Stages
    BY <1>1, <1>f, <1>g, <1>w DEF Boot, BootRestore, BootRestored,
       BootNotRestored, BootCreate, BootCreated, BootAsIs, files, Stages, Down, StorageTypeOK
  <2>2. /\ UNCHANGED <<bak, tmp, settled>> /\ noCalls
        /\ stage' \notin Writing \cup {"mending"}
    BY <1>1 DEF Boot, BootRestore, BootRestored, BootNotRestored, BootCreate,
       BootCreated, BootAsIs, files, Writing
  <2> QED
    BY <2>1, <2>2 DEF noCalls, StorageTypeOK, HeadHeld
<1>2. ASSUME NEW c \in Clients, mutateJSON(c) \/ readJSON(c) \/ writeJSON(c)
      PROVE  StorageTypeOK'
  <2>1. /\ Up
        /\ \E k \in {"mutate", "read", "write"} : Enqueue(c, k)
    BY <1>2 DEF mutateJSON, readJSON, writeJSON
  <2>2. queue' \in Seq(Clients) /\ queue' # <<>>
    BY <2>1, <1>2 DEF Enqueue, StorageTypeOK
  <2>3. call' \in [Clients -> {"idle", "mutate", "read", "decide", "write",
                               "done", "failed", "lost"}]
    BY <2>1 DEF Enqueue, StorageTypeOK
  <2> QED
    BY <2>1, <2>2, <2>3 DEF Enqueue, files, StorageTypeOK, HeadHeld
<1>d. ASSUME NEW d \in SUBSET Clients, Deliver(d), queue # <<>>
      PROVE  /\ queue' \in Seq(Clients) /\ stage' \in Stages /\ held' \subseteq Clients
             /\ call' \in [Clients -> {"idle", "mutate", "read", "decide", "write",
                                       "done", "failed", "lost"}]
             /\ snapshot' \in [Clients -> SUBSET Clients] /\ HeadHeld'
  <2>1. CASE call[Head(queue)] = "mutate"
    BY <2>1, <1>d, <1>h DEF Deliver, StorageTypeOK, HeadHeld, Stages, Writing
  <2>2. CASE call[Head(queue)] # "mutate"
    BY <2>2, <1>d, <1>h DEF Deliver, Settle, StorageTypeOK, HeadHeld, Stages, Writing
  <2> QED
    BY <2>1, <2>2
<1>3. CASE ReadMain
  <2>1. queue # <<>> /\ Deliver(Visible) /\ UNCHANGED <<crashes, forfeited, undone, flushed>>
        /\ UNCHANGED files
    BY <1>3 DEF ReadMain, atHead
  <2> QED
    BY <2>1, <1>d, <1>v DEF files, StorageTypeOK
<1>3r. CASE ReadError
  BY <1>3r, <1>h, SMT DEF ReadError, Settle, atHead, files,
     StorageTypeOK, HeadHeld, Stages, Down, Writing
<1>4. CASE BeginMend
  BY <1>4, <1>w, SMT DEF BeginMend, atHead, StorageTypeOK, HeadHeld, File, Stages, Down, Writing
<1>5. CASE EndMend
  <2>1. main' \in File
    BY <1>5 DEF EndMend, StorageTypeOK
  <2>2. queue # <<>> /\ Deliver(held)
        /\ UNCHANGED <<bak, tmp, settled, dirty, crashes, forfeited, undone, flushed>>
    BY <1>5 DEF EndMend, StorageTypeOK, HeadHeld
  <2> QED
    BY <2>1, <2>2, <1>d DEF StorageTypeOK
<1>6. CASE StartWrite
  BY <1>6, <1>h, SMT DEF StartWrite, atHead, files,
     StorageTypeOK, HeadHeld, Stages, Down, Writing
<1>7. CASE OpenTemp \/ SyncTemp \/ BeginRotate \/ EndRotate \/ RotateError
  <2>1. bak' \in File /\ tmp' \in File /\ dirty' \subseteq {"main", "bak", "tmp"}
    BY <1>7, <1>f, <1>g DEF OpenTemp, SyncTemp, BeginRotate, EndRotate,
       RotateError, files, StorageTypeOK
  <2>2. /\ UNCHANGED <<main, settled>> /\ noClients
        /\ stage \in Writing /\ stage' \in Writing
    BY <1>7 DEF OpenTemp, SyncTemp, BeginRotate, EndRotate, RotateError,
       files, Writing
  <2> QED
    BY <2>1, <2>2 DEF noClients, StorageTypeOK, HeadHeld, Stages
<1>8. CASE WriteError
  BY <1>8, <1>h, SMT DEF WriteError, Settle, files,
     StorageTypeOK, HeadHeld, Stages, Down, Writing
<1>9. CASE Rename
  BY <1>9, <1>h, SMT DEF Rename, Settle, NoData,
     StorageTypeOK, HeadHeld, File, Stages, Down, Writing
<1>10. ASSUME crash PROVE
        /\ queue' \in Seq(Clients) /\ stage' \in Stages /\ held' \subseteq Clients
        /\ call' \in [Clients -> {"idle", "mutate", "read", "decide", "write",
                                  "done", "failed", "lost"}]
        /\ snapshot' \in [Clients -> SUBSET Clients]
        /\ crashes' \in 0 .. MaxCrashes
        /\ HeadHeld'
  BY <1>10, SMT DEF crash, StorageTypeOK, HeadHeld, Stages, Down, Writing
<1>11. CASE Kill
  BY <1>11, <1>10 DEF Kill, files, StorageTypeOK
<1>12. CASE PowerLoss
  <2>1. main' \in File /\ bak' \in File /\ tmp' \in File
    BY <1>12 DEF PowerLoss, AfterPowerLoss, NoData, File, StorageTypeOK
  <2>2. forfeited' \subseteq Clients /\ undone' \subseteq Clients
        /\ flushed' \subseteq Clients
    <3>1. Visible' \subseteq Clients
      BY <2>1 DEF Visible, File
    <3> QED
      BY <3>1, <1>12, <1>v DEF PowerLoss, StorageTypeOK
  <2> QED
    BY <2>1, <2>2, <1>12, <1>10 DEF PowerLoss, StorageTypeOK
<1>13. CASE Flush
  BY <1>13, <1>v DEF Flush, StorageTypeOK, HeadHeld
<1>14. ASSUME NEW k \in DamageKinds, Damage(k) PROVE StorageTypeOK'
  BY <1>14 DEF Damage, DamageKinds, NoData, StorageTypeOK, HeadHeld, File
<1>15. CASE UNCHANGED storageVars
  BY <1>15 DEF storageVars, StorageTypeOK, HeadHeld
<1> QED
  BY <1>1, <1>2, <1>3, <1>3r, <1>4, <1>5, <1>6, <1>7, <1>8, <1>9, <1>11, <1>12,
     <1>13, <1>14, <1>15 DEF StorageNext, Step

(* Every value of the constants keeps the variables in their ranges, under *)
(* every combination of faults (fileStorage.js).                           *)
THEOREM StorageTypes == StorageSpec => []StorageTypeOK
BY StorageTypeInit, StorageTypeNext, PTL DEF StorageSpec

-----------------------------------------------------------------------------
(* Under every fault, and with savers too, files and snapshots hold only   *)
(* updates that were acknowledged.                                         *)
Done == {c \in Clients : call[c] = "done"}

OnlyDone ==
  /\ main.data \subseteq Done /\ bak.data \subseteq Done /\ settled.data \subseteq Done
  /\ \A c \in Clients : snapshot[c] \subseteq Done
  /\ stage = "mending" => /\ held \subseteq Done
                          /\ call[Head(queue)] \in {"read", "mutate"}
  /\ stage \in Writing => /\ held \subseteq Done \cup {Head(queue)}
                         /\ call[Head(queue)] \in {"mutate", "write"}
  /\ stage \in {"rotate", "rotating", "rename"} => tmp.data = held

DoneInv == StorageTypeOK /\ OnlyDone

LEMMA DoneNext == DoneInv /\ [StorageNext]_storageVars => DoneInv'
<1> SUFFICES ASSUME DoneInv, [StorageNext]_storageVars PROVE OnlyDone'
  BY StorageTypeNext DEF DoneInv
<1>t. StorageTypeOK /\ StorageTypeOK'
  BY StorageTypeNext DEF DoneInv
<1>h. queue # <<>> => Head(queue) \in Clients
  BY HeadTail, <1>t DEF StorageTypeOK
<1>n. call \in [Clients -> {"idle", "mutate", "read", "decide", "write",
                            "done", "failed", "lost"}]
  BY <1>t DEF StorageTypeOK
<1>v. Visible \subseteq Done
  BY DEF Visible, DoneInv, OnlyDone
<1>w. \A f \in HalfWritten : f.data = {}
  BY DEF HalfWritten, NoData
<1> USE DEF DoneInv, OnlyDone, Done
<1>1. CASE Boot
  <2>1. /\ noCalls /\ bak' = bak /\ settled' = settled
        /\ stage' \notin Writing \cup {"mending"}
        /\ main' \in HalfWritten \cup {main, bak, Valid({})}
    BY <1>1 DEF Boot, BootRestore, BootRestored, BootNotRestored, BootCreate,
       BootCreated, BootAsIs, files, Writing
  <2>2. main'.data \subseteq Done
    BY <2>1, <1>w DEF Valid
  <2> QED
    BY <2>1, <2>2 DEF noCalls, Writing
<1>2. ASSUME NEW c \in Clients, mutateJSON(c) \/ readJSON(c) \/ writeJSON(c)
      PROVE  OnlyDone'
  <2>1. /\ call[c] \in {"idle", "decide"} /\ UNCHANGED <<stage, held, snapshot>>
        /\ UNCHANGED files
        /\ \E k \in {"mutate", "read", "write"} : call' = [call EXCEPT ![c] = k]
    BY <1>2 DEF mutateJSON, readJSON, writeJSON, Enqueue
  <2>2. queue # <<>> => Head(queue') = Head(queue)
    BY <1>2, <1>t DEF mutateJSON, readJSON, writeJSON, Enqueue, StorageTypeOK
  <2>3. Done' = Done
    BY <2>1, <1>n
  <2>4. stage \in Writing => Head(queue) # c
    BY <2>1
  <2> QED
    BY <1>t, <1>h, <1>n, <2>1, <2>2, <2>3, <2>4 DEF files, StorageTypeOK, HeadHeld
<1>3. ASSUME NEW d \in SUBSET Done, Deliver(d), queue # <<>>,
             call[Head(queue)] \in {"read", "mutate"},
             main'.data \subseteq Done, UNCHANGED <<bak, tmp, settled>>
      PROVE  OnlyDone'
  <2>1. CASE call[Head(queue)] = "mutate"
    BY <1>3, <2>1, <1>h, <1>n DEF Deliver, Writing
  <2>2. CASE call[Head(queue)] # "mutate"
    <3>1. /\ snapshot' = [snapshot EXCEPT ![Head(queue)] = d] /\ stage' = "serving"
          /\ call' = [call EXCEPT ![Head(queue)] = "decide"]
      BY <1>3, <2>2 DEF Deliver, Settle
    <3>2. Done' = Done
      BY <3>1, <1>3, <1>h, <1>n
    <3> QED
      BY <3>1, <3>2, <1>3, <1>t DEF StorageTypeOK, Writing
  <2> QED
    BY <2>1, <2>2
<1>4. CASE ReadMain
  BY <1>3, <1>4, <1>v DEF ReadMain, atHead, files
<1>5. CASE BeginMend
  BY <1>5, <1>w DEF BeginMend, atHead, Writing
<1>6. CASE EndMend
  <2>1. /\ main'.data \subseteq Done /\ held \in SUBSET Done
        /\ Deliver(held) /\ UNCHANGED <<bak, tmp, settled>>
    BY <1>6 DEF EndMend
  <2>2. queue # <<>>
    BY <1>6, <1>t DEF EndMend, StorageTypeOK, HeadHeld
  <2>3. CASE call[Head(queue)] = "mutate"
    BY <2>1, <2>2, <2>3, <1>h, <1>n DEF Deliver, Writing
  <2>4. CASE call[Head(queue)] = "read"
    BY <1>3, <2>1, <2>2, <2>4
  <2> QED
    BY <1>6, <2>3, <2>4 DEF EndMend
<1>7. CASE StartWrite
  BY <1>7, <1>h, <1>n DEF StartWrite, atHead, files, Writing
<1>8. CASE OpenTemp \/ SyncTemp \/ BeginRotate \/ EndRotate \/ RotateError
  <2>1. /\ noClients /\ UNCHANGED <<main, settled>> /\ stage' \in Writing
        /\ stage \in Writing /\ bak'.data \subseteq Done
    BY <1>8 DEF OpenTemp, SyncTemp, BeginRotate, EndRotate, RotateError, files,
       NoData, Writing, noClients
  <2>2. stage' \in {"rotate", "rotating", "rename"} => tmp'.data = held
    BY <1>8 DEF OpenTemp, SyncTemp, BeginRotate, EndRotate, RotateError, files, Valid
  <2> QED
    BY <2>1, <2>2 DEF noClients, Writing
<1>9. CASE WriteError \/ ReadError
  <2>1. /\ call' = [call EXCEPT ![Head(queue)] = "failed"] /\ stage' = "serving"
        /\ UNCHANGED <<snapshot, main, bak, settled>>
        /\ call[Head(queue)] # "done"
    BY <1>9 DEF WriteError, ReadError, atHead, Settle, files, Writing
  <2>2. Done' = Done
    BY <2>1, <1>n
  <2> QED
    BY <2>1, <2>2 DEF Writing
<1>10. CASE Rename
  <2>1. /\ call' = [call EXCEPT ![Head(queue)] = "done"] /\ stage' = "serving"
        /\ UNCHANGED <<snapshot, bak, settled>> /\ main'.data = held
        /\ held \subseteq Done \cup {Head(queue)}
    BY <1>10 DEF Rename, Settle, Writing
  <2>2. Head(queue) \in Clients
    BY <1>10, <1>t, <1>h DEF Rename, StorageTypeOK, HeadHeld, Writing
  <2>3. Done' = Done \cup {Head(queue)}
    BY <2>1, <2>2, <1>n
  <2> QED
    BY <2>1, <2>3 DEF Writing
<1>11. CASE Kill \/ PowerLoss
  <2>1. /\ stage' = "down" /\ snapshot' = [c \in Clients |-> {}]
        /\ call' = [c \in Clients |->
                     IF call[c] \in {"idle", "done", "failed"} THEN call[c] ELSE "lost"]
    BY <1>11 DEF Kill, PowerLoss, crash
  <2>2. Done' = Done
    BY <2>1
  <2>3. main'.data \subseteq Done /\ bak'.data \subseteq Done /\ settled'.data \subseteq Done
    BY <1>11 DEF Kill, PowerLoss, AfterPowerLoss, NoData, files
  <2> QED
    BY <2>1, <2>2, <2>3 DEF Writing
<1>12. CASE Flush
  BY <1>12 DEF Flush
<1>13. ASSUME NEW k \in DamageKinds, Damage(k) PROVE OnlyDone'
  BY <1>13 DEF Damage, NoData
<1>14. CASE UNCHANGED storageVars
  BY <1>14 DEF storageVars
<1> QED
  BY <1>1, <1>2, <1>4, <1>5, <1>6, <1>7, <1>8, <1>9, <1>10, <1>11,
     <1>12, <1>13, <1>14 DEF StorageNext, Step

(* A rejected call leaves no trace in the file: no later write, mend or    *)
(* restart publishes its update, under every combination of faults and     *)
(* for callers that save a snapshot too.                                   *)
THEOREM FailuresLeaveNothing == StorageSpec => []FailedInvisible
<1>1. StorageInit => DoneInv
  BY StorageTypeInit DEF StorageInit, DoneInv, OnlyDone, NoData, Writing
<1>2. DoneInv => FailedInvisible
  BY DEF DoneInv, OnlyDone, Done, Visible, FailedInvisible
<1> QED
  BY <1>1, <1>2, DoneNext, PTL DEF StorageSpec

-----------------------------------------------------------------------------
(* The rest assumes that clients use mutateJSON, that the machine keeps    *)
(* its power (so that no rename is undone), that fsynced data stays, and   *)
(* that either the file is never damaged at rest, or the copy that repairs *)
(* it is not refused and, when interrupted, not left empty.                *)

SafeFaults ==
  /\ Savers = {}
  /\ Faults \subseteq {"kill", "error", "torn", "absent", "cut"}
  /\ "cut" \in Faults => Faults \cap DamageKinds = {}

(* Which copy can be relied on at each stage. *)
CopyAtHand ==
  /\ main.kind = "blank" => "cut" \in Faults
  /\ "cut" \in Faults /\ ~Usable(main) => ~Usable(bak)
  /\ stage = "serving" => main.kind # "absent" /\ (main.kind = "torn" => Usable(bak))
  /\ stage \in Writing => Usable(main) \/ main.kind = "blank"
  /\ stage \in {"mending", "restoring"} => main.kind = "torn" /\ Usable(bak)
  /\ stage = "creating" => ~Usable(main) /\ main.kind # "absent" /\ ~Usable(bak)
  /\ stage = "rotating" => ~Usable(bak)
  /\ Usable(main) /\ Usable(bak) => bak.data \subseteq main.data

(* What the open operation is about to publish. *)
Pending ==
  /\ stage \in Writing \cup {"mending"} => call[Head(queue)] = "mutate"
  /\ stage = "mending" => held = bak.data
  /\ stage \in Writing => held = Visible \cup {Head(queue)}
  /\ stage \in {"rotate", "rotating", "rename"} => tmp = Valid(held)

(* The file holds acknowledged updates only, and all of them. *)
Exact == Visible \subseteq Acked /\ Acked \ forfeited \subseteq Visible

NoSavers == \A c \in Clients : call[c] \notin {"read", "decide", "write"}

SafeInv == StorageTypeOK /\ CopyAtHand /\ Pending /\ Exact /\ NoSavers

(* Only a rename adds an update; only damage takes any. *)
Quiet == Visible' = Visible /\ forfeited' = forfeited
Publish == \E c \in Clients : Visible' = Visible \cup {c} /\ forfeited' = forfeited
Lose == \E S \in SUBSET Visible :
          Visible' = Visible \ S /\ forfeited' = forfeited \cup S

LEMMA SafeInit == StorageInit => SafeInv
<1> SUFFICES ASSUME StorageInit PROVE SafeInv
  OBVIOUS
<1>1. Visible = {} /\ Acked = {}
  BY DEF StorageInit, Visible, Usable, NoData, Acked, Clients
<1> QED
  BY <1>1, StorageTypeInit DEF StorageInit, SafeInv, CopyAtHand, Pending, Exact, NoSavers,
     Usable, NoData, Writing

LEMMA SafeNext ==
  SafeFaults /\ SafeInv /\ [StorageNext]_storageVars => SafeInv' /\ (Quiet \/ Publish \/ Lose)
<1> SUFFICES ASSUME SafeFaults, SafeInv, [StorageNext]_storageVars
             PROVE  SafeInv' /\ (Quiet \/ Publish \/ Lose)
  OBVIOUS
<1>t. StorageTypeOK /\ StorageTypeOK'
  BY StorageTypeNext DEF SafeInv
<1>f. /\ "power" \notin Faults /\ "nofsync" \notin Faults
      /\ "nocopy" \notin Faults /\ "blank" \notin Faults
      /\ "cut" \in Faults => "torn" \notin Faults /\ "absent" \notin Faults
  BY DEF SafeFaults, DamageKinds
<1>m. Clients = Mutators
  BY DEF SafeFaults, Clients
<1>h. queue # <<>> => Head(queue) \in Clients
  BY HeadTail, <1>t DEF StorageTypeOK
<1>n. call \in [Clients -> {"idle", "mutate", "read", "decide", "write",
                            "done", "failed", "lost"}]
  BY <1>t DEF StorageTypeOK
<1>1. CASE Boot
  <2>0. noCalls /\ bak' = bak /\ tmp' = tmp /\ stage \in Down
        /\ stage' \notin Writing \cup {"mending", "down"}
    BY <1>1 DEF Boot, BootRestore, BootRestored, BootNotRestored, BootCreate,
       BootCreated, BootAsIs, files, Writing, Down
  <2>1. Visible' = Visible /\ CopyAtHand'
    <3>1. CASE BootRestore
      <4>1. "cut" \notin Faults /\ main' \in HalfWritten
        BY <3>1 DEF BootRestore, SafeInv, CopyAtHand, Usable
      <4>2. main'.kind = "torn"
        BY <4>1 DEF HalfWritten, NoData
      <4> QED
        BY <2>0, <3>1, <4>1, <4>2 DEF BootRestore, SafeInv, CopyAtHand, Visible,
           Usable, Down, Writing
    <3>2. CASE BootRestored
      BY <2>0, <3>2 DEF BootRestored, SafeInv, CopyAtHand, Visible, Usable,
         Down, Writing
    <3>3. CASE BootCreate
      <4>1. main' \in HalfWritten
        BY <3>3 DEF BootCreate
      <4>2. main'.kind \in {"torn", "blank"} /\ (main'.kind = "blank" => "cut" \in Faults)
        BY <4>1 DEF HalfWritten, NoData
      <4> QED
        BY <2>0, <3>3, <4>2 DEF BootCreate, SafeInv, CopyAtHand, Visible, Usable,
           Down, Writing
    <3>4. CASE BootCreated
      BY <2>0, <3>4 DEF BootCreated, SafeInv, CopyAtHand, Visible, Usable,
         Valid, Down, Writing
    <3>6. CASE BootNotRestored
      BY <3>6, <1>f DEF BootNotRestored
    <3>5. CASE BootAsIs
      BY <2>0, <3>5 DEF BootAsIs, files, SafeInv, CopyAtHand, Visible, Usable,
         Down, Writing
    <3> QED
      BY <1>1, <3>1, <3>2, <3>3, <3>4, <3>5, <3>6 DEF Boot
  <2>2. Pending' /\ Exact' /\ NoSavers' /\ Quiet
    BY <2>0, <2>1 DEF noCalls, SafeInv, Pending, Exact, NoSavers, Acked, Quiet, Writing
  <2> QED
    BY <1>t, <2>1, <2>2 DEF SafeInv
<1>2. ASSUME NEW c \in Clients, mutateJSON(c) \/ readJSON(c) \/ writeJSON(c)
      PROVE  SafeInv' /\ (Quiet \/ Publish \/ Lose)
  <2>1. Up /\ call[c] = "idle" /\ Enqueue(c, "mutate")
    BY <1>2 DEF mutateJSON, readJSON, writeJSON, SafeFaults, SafeInv, NoSavers
  <2>2. queue # <<>> => Head(queue') = Head(queue)
    BY <2>1, <1>t DEF Enqueue, StorageTypeOK
  <2>3. UNCHANGED files /\ UNCHANGED <<stage, held, forfeited>>
        /\ call' = [call EXCEPT ![c] = "mutate"]
    BY <2>1 DEF Enqueue
  <2>4. Visible' = Visible /\ CopyAtHand' /\ Acked' = Acked /\ NoSavers'
    BY <2>1, <2>3, <1>m, <1>n DEF files, Visible, CopyAtHand, Acked, SafeInv, NoSavers
  <2>5. Pending'
    BY <1>t, <1>h, <1>n, <2>2, <2>3, <2>4 DEF SafeInv, StorageTypeOK, HeadHeld, Pending, files
  <2> QED
    BY <1>t, <2>3, <2>4, <2>5 DEF SafeInv, Exact, Quiet
<1>3. CASE ReadMain
  <2>1. queue # <<>> /\ call[Head(queue)] = "mutate" /\ stage = "serving"
    BY <1>3, <1>h DEF ReadMain, atHead, SafeInv, NoSavers
  <2>2. held' = Visible \cup {Head(queue)} /\ stage' = "tmp"
        /\ UNCHANGED <<call, queue, forfeited>> /\ UNCHANGED files
    BY <1>3, <2>1 DEF ReadMain, Deliver
  <2>3. Usable(main) \/ main.kind = "blank"
    BY <1>3, <1>t, <2>1 DEF ReadMain, SafeInv, CopyAtHand, StorageTypeOK, File, Usable
  <2>4. Visible' = Visible /\ CopyAtHand' /\ Pending'
    BY <2>1, <2>2, <2>3 DEF files, Visible, Usable, SafeInv, CopyAtHand, Pending,
       Writing, Down
  <2> QED
    BY <1>t, <2>2, <2>4 DEF SafeInv, Exact, NoSavers, Acked, Quiet
<1>4. CASE BeginMend
  <2>1. Visible' = Visible /\ CopyAtHand' /\ Pending'
    <3>1. main.kind = "torn" /\ Usable(bak) /\ main'.kind = "torn"
      <4>1. /\ main.kind = "torn" /\ Usable(bak) /\ main' \in HalfWritten
            /\ "cut" \notin Faults
        BY <1>4 DEF BeginMend, SafeInv, CopyAtHand, Usable
      <4> QED
        BY <4>1 DEF HalfWritten, NoData
    <3> QED
    BY <3>1, <1>4, <1>h DEF BeginMend, atHead, SafeInv, NoSavers, Visible, Usable,
       CopyAtHand, Pending, Writing, Down
  <2> QED
    BY <1>t, <1>4, <2>1 DEF BeginMend, SafeInv, Exact, NoSavers, Acked, Quiet
<1>5. CASE EndMend
  <2>1. call[Head(queue)] = "mutate" /\ held = bak.data /\ Usable(bak)
        /\ main.kind = "torn" /\ stage = "mending"
    BY <1>5 DEF EndMend, SafeInv, CopyAtHand, Pending
  <2>2. held' = held \cup {Head(queue)} /\ stage' = "tmp"
        /\ UNCHANGED <<call, queue, forfeited, bak>> /\ main' = bak
    BY <1>5, <2>1, <1>f DEF EndMend, Deliver
  <2>3. Visible' = Visible /\ CopyAtHand' /\ Pending'
    BY <2>1, <2>2 DEF Visible, Usable, SafeInv, CopyAtHand, Pending, Writing, Down
  <2> QED
    BY <1>t, <2>2, <2>3 DEF SafeInv, Exact, NoSavers, Acked, Quiet
<1>6. CASE StartWrite
  BY <1>6, <1>h DEF StartWrite, atHead, SafeInv, NoSavers
<1>7. CASE OpenTemp \/ SyncTemp
  <2>1. Visible' = Visible /\ CopyAtHand' /\ Pending'
    BY <1>7 DEF OpenTemp, SyncTemp, noClients, SafeInv, Visible, Usable,
       CopyAtHand, Pending, Writing, Down
  <2> QED
    BY <1>t, <1>7, <2>1 DEF OpenTemp, SyncTemp, noClients, SafeInv, Exact,
       NoSavers, Acked, Quiet
<1>7r. CASE ReadError
  <2>1. stage = "serving" /\ stage' = "serving" /\ UNCHANGED files
        /\ call' = [call EXCEPT ![Head(queue)] = "failed"] /\ forfeited' = forfeited
        /\ call[Head(queue)] = "mutate"
    BY <1>7r, <1>h DEF ReadError, Settle, atHead, SafeInv, NoSavers
  <2>2. Visible' = Visible /\ CopyAtHand'
    BY <2>1 DEF files, Visible, SafeInv, CopyAtHand, Writing
  <2>3. Acked' = Acked /\ NoSavers' /\ Pending'
    BY <2>1, <1>n, <1>m DEF Acked, SafeInv, NoSavers, Pending, Writing
  <2> QED
    BY <1>t, <2>1, <2>2, <2>3 DEF SafeInv, Exact, Quiet
<1>8. CASE WriteError
  <2>1. stage \in Writing /\ stage' = "serving" /\ UNCHANGED files
        /\ call' = [call EXCEPT ![Head(queue)] = "failed"] /\ forfeited' = forfeited
        /\ call[Head(queue)] = "mutate" /\ Head(queue) \in Clients
    BY <1>8, <1>h, <1>t DEF WriteError, Settle, Writing, SafeInv, Pending, StorageTypeOK, HeadHeld
  <2>2. Visible' = Visible /\ CopyAtHand'
    BY <2>1 DEF files, Visible, Usable, SafeInv, CopyAtHand, Writing, Down
  <2>3. Acked' = Acked /\ NoSavers' /\ Pending'
    BY <2>1, <1>n, <1>m DEF Acked, SafeInv, NoSavers, Pending, Writing
  <2> QED
    BY <1>t, <2>1, <2>2, <2>3 DEF SafeInv, Exact, Quiet
<1>9. CASE BeginRotate \/ EndRotate \/ RotateError
  <2>1. stage \in Writing /\ stage' \in {"rotating", "rename"}
        /\ (Usable(main) \/ main.kind = "blank")
        /\ (stage' = "rotating" => ~Usable(bak'))
        /\ main' = main /\ tmp' = tmp /\ noClients
        /\ (Usable(bak') => bak' = main)
    BY <1>9 DEF BeginRotate, EndRotate, RotateError, files, noClients, SafeInv,
       CopyAtHand, Usable, NoData, Writing
  <2>2. Visible' = Visible /\ CopyAtHand'
    BY <2>1 DEF Visible, Usable, SafeInv, CopyAtHand, Writing, Down
  <2>3. Pending'
    BY <2>1, <2>2, <1>9 DEF BeginRotate, EndRotate, RotateError, files, noClients, SafeInv, Pending, Writing
  <2> QED
    BY <1>t, <2>1, <2>2, <2>3 DEF noClients, SafeInv, Exact, NoSavers, Acked, Quiet
<1>10. CASE Rename
  <2> DEFINE c == Head(queue)
  <2>1. c \in Clients /\ call[c] = "mutate" /\ held = Visible \cup {c}
        /\ main' = Valid(held) /\ bak' = bak /\ stage' = "serving"
        /\ call' = [call EXCEPT ![c] = "done"] /\ forfeited' = forfeited
    BY <1>10, <1>h, <1>t DEF Rename, Settle, SafeInv, Pending, Writing, StorageTypeOK, HeadHeld
  <2>2. Visible' = Visible \cup {c}
    BY <2>1 DEF Visible, Usable, Valid
  <2>3. (Usable(main) /\ Visible = main.data) \/ ~Usable(bak)
    BY <1>10 DEF Rename, SafeInv, CopyAtHand, Writing, Visible
  <2>4. CopyAtHand'
    BY <2>1, <2>2, <2>3 DEF SafeInv, CopyAtHand, Usable, Valid, Writing
  <2>5. Acked' = Acked \cup {c} /\ NoSavers' /\ Pending'
    BY <2>1, <1>n, <1>m DEF Acked, SafeInv, NoSavers, Pending, Writing
  <2> QED
    BY <1>t, <2>1, <2>2, <2>4, <2>5 DEF SafeInv, Exact, Publish
<1>11. CASE Kill
  <2>1. /\ stage' = "down" /\ UNCHANGED files /\ forfeited' = forfeited
        /\ call' = [d \in Clients |->
                     IF call[d] \in {"idle", "done", "failed"} THEN call[d] ELSE "lost"]
    BY <1>11 DEF Kill, crash
  <2>2. main.kind = "absent" => stage \in Down
    BY DEF SafeInv, CopyAtHand, Usable, Writing, Down, StorageTypeOK, Stages
  <2>3. Visible' = Visible /\ CopyAtHand'
    BY <2>1, <2>2 DEF files, Visible, Usable, SafeInv, CopyAtHand, Writing, Down
  <2>4. Acked' = Acked /\ NoSavers' /\ Pending'
    BY <2>1, <1>n, <1>m DEF Acked, SafeInv, NoSavers, Pending, Writing
  <2> QED
    BY <1>t, <2>1, <2>3, <2>4 DEF SafeInv, Exact, Quiet
<1>12. CASE PowerLoss
  BY <1>12, <1>f DEF PowerLoss
<1>13. CASE Flush
  <2>1. Visible' = Visible /\ CopyAtHand' /\ Pending'
    BY <1>13 DEF Flush, Visible, SafeInv, CopyAtHand, Pending
  <2> QED
    BY <1>t, <1>13, <2>1 DEF Flush, SafeInv, Exact, NoSavers, Acked, Quiet
<1>14. ASSUME NEW k \in DamageKinds, Damage(k)
       PROVE  SafeInv' /\ (Quiet \/ Publish \/ Lose)
  <2>1. k \in {"torn", "absent"} /\ "cut" \notin Faults
    BY <1>14, <1>f DEF Damage, DamageKinds
  <2>2. /\ Usable(main) /\ Usable(bak) /\ main' = NoData(k) /\ bak' = bak
        /\ stage' = stage /\ stage \in {"down", "serving"}
        /\ (k = "absent" => stage = "down")
        /\ forfeited = {} /\ forfeited' = main.data \ bak.data
        /\ UNCHANGED <<tmp, queue, held, call>>
    BY <1>14, <2>1 DEF Damage
  <2>3. Visible = main.data /\ Visible' = bak.data /\ bak.data \subseteq main.data
    BY <2>1, <2>2 DEF Visible, Usable, NoData, Down, SafeInv, CopyAtHand
  <2>4. CopyAtHand' /\ Pending' /\ NoSavers' /\ Acked' = Acked
    BY <2>1, <2>2 DEF SafeInv, CopyAtHand, Pending, NoSavers, Acked, Usable,
       NoData, Writing
  <2>5. Exact' /\ Lose
    BY <2>2, <2>3, <2>4 DEF SafeInv, Exact, Lose
  <2> QED
    BY <1>t, <2>4, <2>5 DEF SafeInv
<1>15. CASE UNCHANGED storageVars
  BY <1>15 DEF storageVars, SafeInv, StorageTypeOK, HeadHeld, CopyAtHand, Pending,
     Exact, NoSavers, Visible, Acked, Quiet
<1> QED
  BY <1>1, <1>2, <1>3, <1>4, <1>5, <1>6, <1>7, <1>7r, <1>8, <1>9, <1>10, <1>11,
     <1>12, <1>13, <1>14, <1>15 DEF StorageNext, Step

(* No rename is undone while the power stays. *)
LEMMA NothingUndone ==
  SafeFaults /\ [StorageNext]_storageVars => undone' = undone
BY DEF SafeFaults, DamageKinds, StorageNext, storageVars, Boot, BootRestore, BootRestored,
   BootNotRestored, BootCreate, BootCreated, BootAsIs, noCalls, Step, ReadMain, ReadError,
   BeginMend, EndMend, StartWrite, OpenTemp, SyncTemp, WriteError, BeginRotate, EndRotate,
   RotateError, Rename, noClients, Kill, PowerLoss, Flush, mutateJSON, readJSON, writeJSON,
   Enqueue, Damage

(* An update acknowledged by mutateJSON is visible from then on, whatever  *)
(* is killed and refused, but for what one damaged copy alone held; power  *)
(* losses are left out, they can undo a rename the code acknowledged.      *)
THEOREM UpdatesSurvive == SafeFaults => (StorageSpec => []AckedSurvive)
<1> SUFFICES ASSUME SafeFaults PROVE StorageSpec => []AckedSurvive
  OBVIOUS
<1>1. SafeInv /\ [StorageNext]_storageVars => SafeInv'
  BY SafeNext
<1>2. SafeInv => AckedSurvive
  BY DEF SafeInv, Exact, AckedSurvive
<1> QED
  BY SafeInit, <1>1, <1>2, PTL DEF StorageSpec

(* The file, its .bak and its .tmp together implement the atomic store. *)
THEOREM ImplementsAtomicStore == SafeFaults => (StorageSpec => Atomic)
<1> SUFFICES ASSUME SafeFaults PROVE StorageSpec => Atomic
  OBVIOUS
<1>1. SafeInv /\ [StorageNext]_storageVars => SafeInv'
  BY SafeNext
<1>4. StorageInit => undone = {}
  BY DEF StorageInit
<1>5. undone = {} /\ [StorageNext]_storageVars => (undone = {})'
  BY NothingUndone
<1>2. StorageInit => Abstract!Init
  BY DEF StorageInit, Abstract!Init, Visible, Usable, NoData
<1>3. SafeInv /\ undone = {} /\ [StorageNext]_storageVars
        => [Abstract!Next]_(Abstract!vars)
  <2> SUFFICES ASSUME SafeInv, undone = {}, [StorageNext]_storageVars PROVE [Abstract!Next]_(Abstract!vars)
    OBVIOUS
  <2>1. Quiet \/ Publish \/ Lose
    BY SafeNext
  <2>u. forfeited \cup undone = forfeited /\ (forfeited \cup undone)' = forfeited'
    BY NothingUndone
  <2>2. CASE Quiet
    BY <2>2, <2>u DEF Quiet, Abstract!vars
  <2>3. CASE Publish
    BY <2>3, <2>u DEF Publish, Abstract!Next, Abstract!Commit
  <2>4. CASE Lose
    BY <2>4, <2>u DEF Lose, Abstract!Next, Abstract!Fault
  <2> QED
    BY <2>1, <2>2, <2>3, <2>4
<1> QED
  BY SafeInit, <1>1, <1>2, <1>3, <1>4, <1>5, PTL DEF StorageSpec, Atomic, Abstract!Spec

-----------------------------------------------------------------------------
(* The reports *)

(* What a drain step and an enqueue do to the spool and its file. *)
LEMMA PersistEffect ==
  ASSUME persist
  PROVE  /\ disk' = spool' \/ (disk' = disk /\ diskErrors' = diskErrors + 1
                                 /\ diskErrors < MaxDiskErrors)
         /\ disk' = spool' => diskErrors' \in {diskErrors, diskErrors + 1}
         /\ diskErrors' # diskErrors => diskErrors < MaxDiskErrors
         /\ diskErrors' \in {diskErrors, diskErrors + 1}
         /\ diskErrors' = diskErrors => disk' = spool' \/ disk' = disk
BY DEF persist

LEMMA EnqueueEffect ==
  ASSUME NEW v, enqueue(v)
  PROVE  /\ \A e \in spool' : e \in spool \/ e = Entry(v, Now)
         /\ v \in Verdicts(spool') \cup gone'
         /\ Verdicts(spool) \subseteq Verdicts(spool') \cup gone'
         /\ gone \subseteq gone'
         /\ gone' \subseteq gone \cup Verdicts(spool) \cup {v}
<1> DEFINE e == Entry(v, Now)
           kept == {f \in spool : f.v.job # v.job} \cup {e}
           over == IF Cardinality(kept) > MaxEntries THEN Oldest(kept) ELSE {}
<1>1. spool' = kept \ over /\ gone' = gone \cup Verdicts((spool \ kept) \cup over)
  BY DEF enqueue
<1>2. over \subseteq kept
  BY DEF Oldest
<1>3. e.v = v
  BY DEF Entry
<1> HIDE DEF e, over
<1>4. \A f \in spool' : f \in spool \/ f = e
  BY <1>1
<1>5. v \in Verdicts(spool') \cup gone'
  BY <1>1, <1>3 DEF Verdicts
<1>6. Verdicts(spool) \subseteq Verdicts(spool') \cup gone'
  BY <1>1 DEF Verdicts
<1>7. gone' \subseteq gone \cup Verdicts(spool) \cup {v}
  BY <1>1, <1>2, <1>3 DEF Verdicts
<1> QED
  BY <1>1, <1>4, <1>5, <1>6, <1>7 DEF e

LEMMA OutboxTypeInit == Init => TypeOK
<1> SUFFICES ASSUME Init PROVE TypeOK
  OBVIOUS
<1>1. reached \in [Jobs -> 0 .. MaxVerdicts] /\ record \in [Jobs -> 0 .. Deleted]
      /\ tries \in [Verdict -> 0 .. Attempts]
  BY BoundsAssumption, SMT DEF Init, Deleted
<1>2. outages \in 0 .. MaxOutages /\ stops \in 0 .. MaxStops
      /\ diskErrors \in 0 .. MaxDiskErrors
  BY BoundsAssumption, SMT DEF Init
<1> QED
  BY <1>1, <1>2 DEF Init, TypeOK, Verdicts

LEMMA OutboxTypeNext == TypeOK /\ [Next]_vars => TypeOK'
<1> SUFFICES ASSUME TypeOK, [Next]_vars PROVE TypeOK'
  OBVIOUS
<1> USE BoundsAssumption DEF TypeOK
<1>u. /\ Verdicts(spool) \subseteq Verdict /\ Verdicts(disk) \subseteq Verdict
      /\ Verdicts(todo) \subseteq Verdict
  BY DEF Verdicts
<1>w. ASSUME Verdicts(spool') \subseteq Verdict, Verdicts(disk') \subseteq Verdict,
             Verdicts(todo') \subseteq Verdict
      PROVE  Verdicts(spool' \cup disk' \cup todo') \subseteq Verdict
  BY <1>w DEF Verdicts
<1>a. ASSUME NEW v \in Verdict, Apply(v)
      PROVE  record' \in [Jobs -> 0 .. Deleted] /\ heard' \subseteq Verdict
  BY <1>a, SMT DEF Apply, Verdict, Deleted
<1>n. ASSUME NEW v \in Verdict, Unanswered(v)
      PROVE  /\ late' \subseteq Verdict /\ UNCHANGED <<link, outages, record, heard>>
  BY <1>n DEF Unanswered, controllerVars
<1>p. ASSUME persist, Verdicts(spool') \subseteq Verdict
      PROVE  Verdicts(disk') \subseteq Verdict /\ diskErrors' \in 0 .. MaxDiskErrors
  <2>1. Verdicts(disk') \subseteq Verdict
    BY <1>p, <1>u, PersistEffect
  <2>2. diskErrors' \in 0 .. MaxDiskErrors
    BY <1>p, PersistEffect, SMT
  <2> QED
    BY <2>1, <2>2
<1>d. drain => /\ Verdicts(todo') \subseteq Verdict
               /\ draining' \in BOOLEAN /\ delivered' \in BOOLEAN
               /\ (todo' # {} <=> draining')
  <2>1. CASE draining \/ spool = {}
    BY <2>1, <1>u DEF drain
  <2>2. CASE ~(draining \/ spool = {})
    BY <2>2, <1>u DEF drain
  <2> QED
    BY <2>1, <2>2
<1>1. ASSUME NEW j \in Jobs, BackupEnds(j) PROVE TypeOK'
  <2>1. reached' \in [Jobs -> 0 .. MaxVerdicts]
    BY <1>1, SMT DEF BackupEnds
  <2>2. tries' \in [Verdict -> 0 .. Attempts]
    <3>1. 1 \in 0 .. Attempts
      BY SMT
    <3> QED
      BY <1>1, <3>1 DEF BackupEnds
  <2> QED
    BY <1>1, <2>1, <2>2 DEF BackupEnds, linkVars, controllerVars, faultVars
<1>2. ASSUME NEW v \in Verdict, PostAccepted(v) PROVE TypeOK'
  <2>1. tries' \in [Verdict -> 0 .. Attempts]
    BY <1>2, SMT DEF PostAccepted
  <2>2. record' \in [Jobs -> 0 .. Deleted] /\ heard' \subseteq Verdict
    BY <1>2, <1>a DEF PostAccepted
  <2>3. Verdicts(spool' \cup disk' \cup todo') \subseteq Verdict
    BY <1>2, <1>d, <1>u, <1>w DEF PostAccepted
  <2> QED
    BY <1>2, <1>d, <2>1, <2>2, <2>3 DEF PostAccepted, linkVars, faultVars
<1>3. ASSUME NEW v \in Verdict, PostFailed(v) PROVE TypeOK'
  <2>1. tries' \in [Verdict -> 0 .. Attempts]
    BY <1>3, SMT DEF PostFailed
  <2> QED
    BY <1>3, <1>n, <2>1 DEF PostFailed, faultVars
<1>4. ASSUME NEW v \in Verdict, PostSpooled(v) PROVE TypeOK'
  <2>1. tries' \in [Verdict -> 0 .. Attempts]
    BY <1>4, SMT DEF PostSpooled
  <2>2. Verdicts(spool') \subseteq Verdict
    BY <1>4, EnqueueEffect, <1>u DEF PostSpooled, Verdicts, Entry
  <2>3. gone' \subseteq Verdict
    BY <1>4, EnqueueEffect, <1>u DEF PostSpooled
  <2>4. persist
    BY <1>4 DEF PostSpooled, enqueue
  <2>5. Verdicts(disk') \subseteq Verdict /\ diskErrors' \in 0 .. MaxDiskErrors
    BY <1>p, <2>2, <2>4
  <2>6. Verdicts(spool' \cup disk' \cup todo') \subseteq Verdict
    BY <1>4, <1>u, <1>w, <2>2, <2>5 DEF PostSpooled
  <2>7. late' \subseteq Verdict /\ UNCHANGED <<link, outages, record, heard>>
    BY <1>4, <1>n DEF PostSpooled
  <2> QED
    BY <1>4, <2>1, <2>3, <2>5, <2>6, <2>7 DEF PostSpooled
<1>5. CASE DrainTick
  <2>1. Verdicts(spool' \cup disk' \cup todo') \subseteq Verdict
    BY <1>5, <1>d, <1>u, <1>w DEF DrainTick
  <2> QED
    BY <1>5, <1>d, <2>1 DEF DrainTick, linkVars, controllerVars, faultVars
<1>6. CASE DrainDelivered
  <2>1. PICK e \in Oldest(todo) :
          /\ Apply(e.v) /\ spool' = spool \ {e} /\ todo' = todo \ {e}
          /\ delivered' = (todo' # {}) /\ draining' = (todo' # {})
          /\ IF todo' = {} THEN persist ELSE UNCHANGED <<disk, diskErrors>>
          /\ UNCHANGED <<reached, tries, gone, stops>> /\ UNCHANGED linkVars
    BY <1>6 DEF DrainDelivered
  <2>2. e.v \in Verdict
    BY <2>1 DEF Oldest, Verdicts
  <2>3. Verdicts(spool') \subseteq Verdict /\ Verdicts(todo') \subseteq Verdict
    BY <2>1 DEF Verdicts
  <2>4. Verdicts(disk') \subseteq Verdict /\ diskErrors' \in 0 .. MaxDiskErrors
    BY <2>1, <2>3, <1>p, <1>u
  <2>5. Verdicts(spool' \cup disk' \cup todo') \subseteq Verdict
    BY <2>3, <2>4, <1>w
  <2>6. record' \in [Jobs -> 0 .. Deleted] /\ heard' \subseteq Verdict
    BY <1>a, <2>1, <2>2
  <2>7. /\ draining' \in BOOLEAN /\ delivered' \in BOOLEAN
        /\ (todo' # {} <=> draining')
    BY <2>1
  <2> QED
    BY <2>1, <2>4, <2>5, <2>6, <2>7 DEF linkVars
<1>7. CASE DrainFailed
  <2>1. PICK e \in Oldest(todo) : Unanswered(e.v)
    BY <1>7 DEF DrainFailed
  <2>2. e.v \in Verdict
    BY <2>1 DEF Oldest, Verdicts
  <2>3. Verdicts(disk') \subseteq Verdict /\ diskErrors' \in 0 .. MaxDiskErrors
    BY <1>7, <1>p, <1>u DEF DrainFailed
  <2> QED
    BY <1>7, <1>n, <1>u, <2>1, <2>2, <2>3 DEF DrainFailed, Verdicts
<1>8. CASE Crash \/ Shutdown
  <2>1. Restart /\ Verdicts(disk') \subseteq Verdict /\ diskErrors' \in 0 .. MaxDiskErrors
    BY <1>8, <1>u, SMT DEF Crash, Shutdown
  <2>2. tries' \in [Verdict -> 0 .. Attempts] /\ stops' \in 0 .. MaxStops
    BY <2>1, SMT DEF Restart
  <2>3. gone' \subseteq Verdict
    BY <2>1, <1>u DEF Restart, Inline
  <2> QED
    BY <1>u, <2>1, <2>2, <2>3 DEF Restart, linkVars, controllerVars
<1>9. CASE Recover \/ \E how \in Outages : Outage(how)
  <2>1. UNCHANGED agentVars /\ UNCHANGED controllerVars /\ UNCHANGED faultVars
        /\ late' = late /\ link' \in {"up"} \cup Outages
    BY <1>9 DEF Recover, Outage
  <2>2. outages' \in 0 .. MaxOutages
    BY <1>9, SMT DEF Recover, Outage
  <2> QED
    BY <2>1, <2>2 DEF agentVars, controllerVars, faultVars
<1>10. ASSUME NEW v \in Verdict, LateArrival(v) PROVE TypeOK'
  <2>1. record' \in [Jobs -> 0 .. Deleted] /\ heard' \subseteq Verdict
    BY <1>10, <1>a DEF LateArrival, controllerVars
  <2> QED
    BY <1>10, <2>1 DEF LateArrival, agentVars, faultVars
<1>11. ASSUME NEW j \in Jobs, Delete(j) PROVE TypeOK'
  <2>1. record' \in [Jobs -> 0 .. Deleted]
    BY <1>11, SMT DEF Delete, Deleted
  <2> QED
    BY <1>11, <2>1 DEF Delete, agentVars, linkVars, faultVars
<1>12. CASE UNCHANGED vars
  BY <1>12 DEF vars
<1> QED
  BY <1>1, <1>2, <1>3, <1>4, <1>5, <1>6, <1>7, <1>8, <1>9, <1>10, <1>11, <1>12
     DEF Next, Report, Drain

(* Every value of the constants keeps the variables in their ranges, and a *)
(* drain is marked as running exactly while it has entries left to send.   *)
THEOREM OutboxTypes == Spec => []TypeOK
BY OutboxTypeInit, OutboxTypeNext, PTL DEF Spec

-----------------------------------------------------------------------------

LEMMA VanishNext == TypeOK /\ NothingVanishes /\ [Next]_vars => NothingVanishes'
<1> SUFFICES ASSUME TypeOK, NothingVanishes, [Next]_vars PROVE NothingVanishes'
  OBVIOUS
<1> USE DEF NothingVanishes
<1>1. ASSUME NEW j \in Jobs, BackupEnds(j) PROVE NothingVanishes'
  <2> DEFINE w == [job |-> j, n |-> reached[j] + 1]
  <2>1. /\ reached' = [reached EXCEPT ![j] = reached[j] + 1]
        /\ tries' = [tries EXCEPT ![w] = 1]
        /\ UNCHANGED <<spool, heard, gone>>
        /\ reached[j] \in Nat /\ reached[j] < MaxVerdicts
    BY <1>1, BoundsAssumption DEF BackupEnds, controllerVars, faultVars, TypeOK
  <2>2. Reached' \subseteq Reached \cup {w}
    <3> SUFFICES ASSUME NEW v \in Verdict, v.n <= reached'[v.job], v # w
                 PROVE  v.n <= reached[v.job]
      BY DEF Reached
    <3>1. v = [job |-> v.job, n |-> v.n] /\ v.job \in Jobs /\ v.n \in Nat
      BY DEF Verdict
    <3>2. CASE v.job = j
      BY <2>1, <3>1, <3>2, SMT DEF TypeOK
    <3>3. CASE v.job # j
      BY <2>1, <3>1, <3>3 DEF TypeOK
    <3> QED
      BY <3>2, <3>3
  <2>3. w \in Verdict
    BY <2>1, BoundsAssumption, SMT DEF Verdict
  <2>4. Inline \cup {w} \subseteq Inline'
    <3> HIDE DEF w
    <3> QED
      BY <2>1, <2>3, SMT DEF Inline, TypeOK
  <2> HIDE DEF w
  <2> QED
    BY <2>1, <2>2, <2>4
<1>2. ASSUME NEW v \in Verdict, tries' = [tries EXCEPT ![v] = 0]
      PROVE  Inline \subseteq Inline' \cup {v}
  BY <1>2 DEF Inline, TypeOK
<1>3. ASSUME NEW v \in Verdict, PostAccepted(v) PROVE NothingVanishes'
  <2>1. heard' = heard \cup {v} /\ UNCHANGED <<reached, spool, gone>>
    BY <1>3 DEF PostAccepted, Apply, faultVars
  <2>2. Inline \subseteq Inline' \cup {v}
    BY <1>2, <1>3 DEF PostAccepted
  <2> QED
    BY <2>1, <2>2 DEF Reached
<1>4. ASSUME NEW v \in Verdict, PostFailed(v) PROVE NothingVanishes'
  <2>1. UNCHANGED <<reached, spool, gone, heard>>
    BY <1>4 DEF PostFailed, Unanswered, controllerVars, faultVars
  <2>2. Inline' = Inline
    BY <1>4, BoundsAssumption, SMT DEF PostFailed, Inline, TypeOK
  <2> QED
    BY <2>1, <2>2 DEF Reached
<1>5. ASSUME NEW v \in Verdict, PostSpooled(v) PROVE NothingVanishes'
  <2>1. UNCHANGED <<reached, heard>>
    BY <1>5 DEF PostSpooled, Unanswered, controllerVars
  <2>2. Inline \subseteq Inline' \cup {v}
    BY <1>2, <1>5 DEF PostSpooled
  <2>3. /\ v \in Verdicts(spool') \cup gone' /\ gone \subseteq gone'
        /\ Verdicts(spool) \subseteq Verdicts(spool') \cup gone'
    BY <1>5, EnqueueEffect DEF PostSpooled
  <2> QED
    BY <2>1, <2>2, <2>3 DEF Reached
<1>6. CASE DrainTick
  BY <1>6 DEF DrainTick, controllerVars, faultVars, Reached, Inline
<1>7. CASE DrainDelivered
  <2>1. PICK e \in todo : heard' = heard \cup {e.v} /\ spool' = spool \ {e}
    BY <1>7 DEF DrainDelivered, Apply, Oldest
  <2>2. UNCHANGED <<reached, tries, gone>>
    BY <1>7 DEF DrainDelivered
  <2>3. Verdicts(spool) \subseteq Verdicts(spool') \cup heard'
    BY <2>1 DEF Verdicts
  <2> QED
    BY <2>1, <2>2, <2>3 DEF Reached, Inline
<1>8. CASE DrainFailed
  BY <1>8 DEF DrainFailed, Unanswered, controllerVars, Reached, Inline
<1>9. CASE Crash \/ Shutdown
  <2>1. Restart
    BY <1>9 DEF Crash, Shutdown
  <2>2. /\ gone' = gone \cup Inline \cup (Verdicts(spool) \ Verdicts(disk'))
        /\ spool' = disk' /\ UNCHANGED <<reached, heard>>
    BY <2>1 DEF Restart, controllerVars
  <2> QED
    BY <2>2 DEF Reached
<1>10. CASE Recover \/ \E how \in Outages : Outage(how)
  BY <1>10 DEF Recover, Outage, agentVars, controllerVars, faultVars, Reached, Inline
<1>11. ASSUME NEW v \in Verdict, LateArrival(v) PROVE NothingVanishes'
  BY <1>11 DEF LateArrival, Apply, agentVars, controllerVars, faultVars, Reached, Inline
<1>12. ASSUME NEW j \in Jobs, Delete(j) PROVE NothingVanishes'
  BY <1>12 DEF Delete, agentVars, faultVars, Reached, Inline
<1>13. CASE UNCHANGED vars
  BY <1>13 DEF vars, Reached, Inline
<1> QED
  BY <1>1, <1>3, <1>4, <1>5, <1>6, <1>7, <1>8, <1>9, <1>10, <1>11, <1>12, <1>13
     DEF Next, Report, Drain

(* Whatever outcome a run reached is heard, being reported or owed in the  *)
(* spool, but for what a stop or an overflow took (controllerOutbox.js     *)
(* enqueue, drain): for every size of the spool and number of attempts.    *)
THEOREM NoOutcomeVanishes == Spec => []NothingVanishes
<1>1. Init => NothingVanishes
  BY SMT DEF Init, NothingVanishes, Reached, Verdict
<1> QED
  BY <1>1, OutboxTypeInit, OutboxTypeNext, VanishNext, PTL DEF Spec

-----------------------------------------------------------------------------

LEMMA OnDiskNext == TypeOK /\ SpoolOnDisk /\ [Next]_vars => SpoolOnDisk'
<1> SUFFICES ASSUME TypeOK, SpoolOnDisk, [Next]_vars, diskErrors' = 0
             PROVE  spool' \subseteq disk'
  BY DEF SpoolOnDisk
<1>p. persist => disk' = spool'
  <2>1. diskErrors \in Nat
    BY BoundsAssumption, SMT DEF TypeOK
  <2> QED
    BY <2>1, SMT DEF persist
<1>1. ASSUME UNCHANGED <<disk, diskErrors>>, spool' \subseteq spool
      PROVE  spool' \subseteq disk'
  BY <1>1 DEF SpoolOnDisk
<1>2. ASSUME NEW j \in Jobs, BackupEnds(j) \/ Delete(j) PROVE spool' \subseteq disk'
  BY <1>1, <1>2 DEF BackupEnds, Delete, agentVars, faultVars
<1>3. ASSUME NEW v \in Verdict,
             PostAccepted(v) \/ PostFailed(v) \/ PostSpooled(v) \/ LateArrival(v)
      PROVE  spool' \subseteq disk'
  BY <1>1, <1>3, <1>p DEF PostAccepted, PostFailed, PostSpooled, enqueue,
     LateArrival, agentVars, faultVars
<1>4. CASE Drain
  BY <1>1, <1>4, <1>p DEF Drain, DrainTick, DrainDelivered, DrainFailed, faultVars
<1>5. CASE Crash \/ Shutdown
  BY <1>5 DEF Crash, Shutdown, Restart
<1>6. CASE Recover \/ (\E how \in Outages : Outage(how)) \/ UNCHANGED vars
  BY <1>1, <1>6 DEF Recover, Outage, agentVars, faultVars, vars
<1> QED
  BY <1>2, <1>3, <1>4, <1>5, <1>6 DEF Next, Report

(* Stopping the agent at any point forgets no spooled outcome, as long as  *)
(* the spool file can be written (controllerOutbox.js persist, load).      *)
THEOREM SpoolIsDurable == Spec => []SpoolOnDisk
<1>1. Init => SpoolOnDisk
  BY DEF Init, SpoolOnDisk
<1> QED
  BY <1>1, OutboxTypeInit, OutboxTypeNext, OnDiskNext, PTL DEF Spec

=============================================================================
