----------------------------- MODULE FileStorage -----------------------------
(***************************************************************************)
(* One JSON data file of the controller (services/fileStorage.js).         *)
(*                                                                         *)
(* Every access to the file runs in a promise queue (_runExclusive).  A    *)
(* write goes to a .tmp file that is fsynced, the current file is copied   *)
(* to .bak, and .tmp is renamed over the current file.  A file that does   *)
(* not parse is rebuilt from .bak by the next reader, or at startup by     *)
(* initializeDataFiles.  The process can be killed between, and in the     *)
(* middle of, any two of these steps.                                      *)
(*                                                                         *)
(* The content of a file is the set of updates it holds; each client       *)
(* performs one update, which adds the client itself.                      *)
(***************************************************************************)
EXTENDS Naturals, Sequences, FiniteSets

CONSTANTS
  Mutators,    \* clients that update through mutateJSON
  Savers,      \* clients that call readJSON, work, then call writeJSON
  Faults,      \* what can go wrong, a subset of FaultKinds
  MaxCrashes   \* bound on crashes in one behaviour

Clients == Mutators \cup Savers

\* kill:    the process dies, files keep what was written so far
\* power:   the machine dies, unflushed writes and renames may be undone
\* nofsync: the file system refuses fsync (the error is swallowed)
\* error:   a write, a rotation or a rename is refused (disk full)
\* nocopy:  the copy that restores the file from .bak is refused
\* cut:     an interrupted creation or copy can leave the file empty, not
\*          only truncated
\* torn, blank, absent: how the current file can be damaged at rest
DamageKinds == {"torn", "blank", "absent"}
FaultKinds == {"kill", "power", "nofsync", "error", "nocopy", "cut"} \cup DamageKinds

ASSUME FaultsAssumption == Faults \subseteq FaultKinds
ASSUME ClientsAssumption == Mutators \cap Savers = {}
ASSUME MaxCrashesAssumption == MaxCrashes \in Nat

VARIABLES
  main, bak, tmp,  \* the file, its .bak and its .tmp
  settled,         \* content of main that has reached the platters
  dirty,           \* files whose own data has not reached the platters
  queue,           \* calls waiting for, or holding, the file's queue
  stage,           \* where the controller is in its current file operation
  held,            \* data the current operation has in memory
  call,            \* what each client's update is at
  snapshot,        \* what a saver read and will write back
  crashes,
  forfeited,       \* history: updates only the damaged copy held
  undone,          \* history: updates a power loss took with their rename
  flushed          \* history: updates in the file when it was written back

files == <<main, bak, tmp, settled, dirty>>
storageVars == <<main, bak, tmp, settled, dirty, queue, stage, held, call,
          snapshot, crashes, forfeited, undone, flushed>>

-----------------------------------------------------------------------------
(* Files *)

File == [kind : {"absent", "blank", "torn", "ok"}, data : SUBSET Clients]

NoData(k) == [kind |-> k, data |-> {}]
Valid(d)  == [kind |-> "ok", data |-> d]
Usable(f) == f.kind = "ok"     \* JSON.parse accepts it

\* What a reader of a file that is being written in place finds.
HalfWritten == {NoData("torn")} \cup (IF "cut" \in Faults THEN {NoData("blank")} ELSE {})

Down == {"down", "restoring", "creating"}
Writing == {"tmp", "tmpOpen", "rotate", "rotating", "rename"}
Stages == Down \cup Writing \cup {"serving", "mending"}

\* What a reader gets: the file, else .bak, else an empty array.  A missing
\* file falls back to .bak only at startup.
Visible ==
  IF Usable(main) THEN main.data
  ELSE IF Usable(bak) /\ (main.kind # "absent" \/ stage \in Down)
  THEN bak.data ELSE {}

\* An open operation belongs to the call at the head of the queue.
HeadHeld == stage \in Writing \cup {"mending"} => queue # <<>>

StorageTypeOK ==
  /\ main \in File /\ bak \in File /\ tmp \in File /\ settled \in File
  /\ dirty \subseteq {"main", "bak", "tmp"}
  /\ queue \in Seq(Clients)
  /\ stage \in Stages
  /\ held \subseteq Clients
  /\ call \in [Clients -> {"idle", "mutate", "read", "decide", "write",
                           "done", "failed", "lost"}]
  /\ snapshot \in [Clients -> SUBSET Clients]
  /\ crashes \in 0 .. MaxCrashes
  /\ forfeited \subseteq Clients /\ undone \subseteq Clients /\ flushed \subseteq Clients
  /\ HeadHeld

\* A controller started for the first time: no files, no calls.
StorageInit ==
  /\ main = NoData("absent") /\ bak = NoData("absent")
  /\ tmp = NoData("absent") /\ settled = NoData("absent")
  /\ dirty = {} /\ queue = <<>> /\ stage = "down" /\ held = {}
  /\ call = [c \in Clients |-> "idle"]
  /\ snapshot = [c \in Clients |-> {}]
  /\ crashes = 0 /\ forfeited = {} /\ undone = {} /\ flushed = {}

-----------------------------------------------------------------------------
(* initializeDataFiles: each boot step is one synchronous file operation *)

noCalls == UNCHANGED <<queue, held, call, snapshot, crashes, forfeited, undone, flushed>>

\* The file is missing or does not parse and .bak does: copy it back.
BootRestore ==
  /\ stage = "down" /\ main.kind \in {"absent", "torn"} /\ Usable(bak)
  /\ main' \in HalfWritten
  /\ dirty' = dirty \cup {"main"}
  /\ stage' = "restoring"
  /\ UNCHANGED <<bak, tmp, settled>> /\ noCalls

\* Mutant: the abandoned .tmp is preferred to .bak.
BootRestoredFromTmp ==
  /\ stage = "restoring"
  /\ main' = IF Usable(tmp) THEN tmp ELSE bak
  /\ stage' = "serving"
  /\ UNCHANGED <<bak, tmp, settled, dirty>> /\ noCalls

BootRestored ==
  /\ stage = "restoring"
  /\ main' = bak
  /\ stage' = "serving"
  /\ UNCHANGED <<bak, tmp, settled, dirty>> /\ noCalls

\* The copy is refused: .bak counts as unusable.
BootNotRestored ==
  /\ stage = "restoring" /\ "nocopy" \in Faults
  /\ stage' = "creating"
  /\ UNCHANGED files /\ noCalls

\* Neither copy parses: quarantine the file and write a fresh empty array.
BootCreate ==
  /\ stage = "down" /\ main.kind \in {"absent", "torn"} /\ ~Usable(bak)
  /\ main' \in HalfWritten
  /\ dirty' = dirty \cup {"main"}
  /\ stage' = "creating"
  /\ UNCHANGED <<bak, tmp, settled>> /\ noCalls

BootCreated ==
  /\ stage = "creating"
  /\ main' = Valid({})
  /\ stage' = "serving"
  /\ UNCHANGED <<bak, tmp, settled, dirty>> /\ noCalls

\* The file parses, or is blank: the sanity check lets a blank file through.
BootAsIs ==
  /\ stage = "down" /\ main.kind \in {"ok", "blank"}
  /\ stage' = "serving"
  /\ UNCHANGED files /\ noCalls

Boot == BootRestore \/ BootRestored \/ BootNotRestored \/ BootCreate \/ BootCreated \/ BootAsIs

-----------------------------------------------------------------------------
(* Clients: _runExclusive appends the call to the file's queue *)

Up == stage \notin Down

Enqueue(c, kind) ==
  /\ call' = [call EXCEPT ![c] = kind]
  /\ queue' = Append(queue, c)
  /\ UNCHANGED <<stage, held, snapshot, crashes, forfeited, undone, flushed>>
  /\ UNCHANGED files

mutateJSON(c) == Up /\ c \in Mutators /\ call[c] = "idle" /\ Enqueue(c, "mutate")
readJSON(c)   == Up /\ c \in Savers   /\ call[c] = "idle" /\ Enqueue(c, "read")
writeJSON(c)  == Up /\ call[c] = "decide" /\ Enqueue(c, "write")

\* Mutant: the chain is not kept alive after a rejection.
SettlePoisoned(outcome) ==
  /\ call' = [call EXCEPT ![Head(queue)] = outcome]
  /\ queue' = IF outcome = "failed" THEN queue ELSE Tail(queue)
  /\ stage' = "serving"

\* Mutant: the call settles while its operation is still open.
SettleOpen(outcome) ==
  /\ call' = [call EXCEPT ![Head(queue)] = outcome]
  /\ queue' = Tail(queue)
  /\ stage' = stage

\* The call at the head of the queue settles and the next one may run,
\* whatever the outcome was.
Settle(outcome) ==
  /\ call' = [call EXCEPT ![Head(queue)] = outcome]
  /\ queue' = Tail(queue)
  /\ stage' = "serving"

-----------------------------------------------------------------------------
(* The operation at the head of the queue, one file-system call per step *)

\* The caller gets d: a reader returns with it, a mutator changes it.
Deliver(d) ==
  LET c == Head(queue) IN
  IF call[c] = "mutate"
  THEN /\ held' = d \cup {c}
       /\ stage' = "tmp"
       /\ UNCHANGED <<call, queue, snapshot>>
  ELSE /\ snapshot' = [snapshot EXCEPT ![c] = d]
       /\ held' = held
       /\ Settle("decide")

atHead(kinds) == queue # <<>> /\ call[Head(queue)] \in kinds

\* _readJSONLocked on a file that parses, is missing or is blank, or for
\* which there is no usable .bak.
ReadMain ==
  /\ stage = "serving" /\ atHead({"read", "mutate"})
  /\ ~(main.kind = "torn" /\ Usable(bak))
  /\ Deliver(Visible)
  /\ UNCHANGED <<crashes, forfeited, undone, flushed>> /\ UNCHANGED files

\* The read is refused for another reason than a missing file: the call rejects.
ReadError ==
  /\ stage = "serving" /\ atHead({"read", "mutate"}) /\ "error" \in Faults
  /\ Settle("failed")
  /\ UNCHANGED <<held, snapshot, crashes, forfeited, undone, flushed>> /\ UNCHANGED files

\* _readJSONLocked on a file that does not parse: .bak is copied over it.
BeginMend ==
  /\ stage = "serving" /\ atHead({"read", "mutate"})
  /\ main.kind = "torn" /\ Usable(bak)
  /\ held' = bak.data
  /\ main' \in HalfWritten
  /\ dirty' = dirty \cup {"main"}
  /\ stage' = "mending"
  /\ UNCHANGED <<bak, tmp, settled, queue, call, snapshot, crashes, forfeited, undone, flushed>>

\* Mutant: the file is restored, but the caller gets an empty array.
EndMendEmpty ==
  /\ stage = "mending"
  /\ main' \in {bak} \cup (IF "nocopy" \in Faults THEN {main} ELSE {})
  /\ Deliver({})
  /\ UNCHANGED <<bak, tmp, settled, dirty, crashes, forfeited, undone, flushed>>

\* The copy is refused: the caller gets the data all the same.
EndMend ==
  /\ stage = "mending"
  /\ main' \in {bak} \cup (IF "nocopy" \in Faults THEN {main} ELSE {})
  /\ Deliver(held)
  /\ UNCHANGED <<bak, tmp, settled, dirty, crashes, forfeited, undone, flushed>>

\* A saver writes back what it read earlier plus its own change.
StartWrite ==
  /\ stage = "serving" /\ atHead({"write"})
  /\ held' = snapshot[Head(queue)] \cup {Head(queue)}
  /\ stage' = "tmp"
  /\ UNCHANGED <<queue, call, snapshot, crashes, forfeited, undone, flushed>> /\ UNCHANGED files

noClients == UNCHANGED <<queue, held, call, snapshot, crashes, forfeited, undone, flushed>>

\* Mutant: the file itself is opened for writing.
OpenTempInPlace ==
  /\ stage = "tmp"
  /\ main' \in HalfWritten
  /\ dirty' = dirty \cup {"main"}
  /\ stage' = "tmpOpen"
  /\ UNCHANGED <<tmp, bak, settled>> /\ noClients

\* _writeJSONLocked
OpenTemp ==
  /\ stage = "tmp"
  /\ tmp' = NoData("torn")
  /\ dirty' = dirty \cup {"tmp"}
  /\ stage' = "tmpOpen"
  /\ UNCHANGED <<main, bak, settled>> /\ noClients

\* Mutant: no fsync before the rename.
SyncTempUnflushed ==
  /\ stage = "tmpOpen"
  /\ tmp' = Valid(held)
  /\ stage' = "rotate"
  /\ UNCHANGED <<main, bak, settled, dirty>> /\ noClients

SyncTemp ==
  /\ stage = "tmpOpen"
  /\ tmp' = Valid(held)
  /\ dirty' = IF "nofsync" \in Faults THEN dirty ELSE dirty \ {"tmp"}
  /\ stage' = "rotate"
  /\ UNCHANGED <<main, bak, settled>> /\ noClients

\* The open, the write or the rename is refused: the call rejects, the queue
\* goes on.
WriteError ==
  /\ stage \in {"tmp", "tmpOpen", "rename"} /\ "error" \in Faults
  /\ Settle("failed")
  /\ UNCHANGED <<held, snapshot, crashes, forfeited, undone, flushed>> /\ UNCHANGED files

\* Mutant: the file is moved to .bak rather than copied.
BeginRotateMove ==
  /\ stage = "rotate"
  /\ stage' = "rename"
  /\ bak' = main
  /\ main' = NoData("absent")
  /\ UNCHANGED <<tmp, settled, dirty>> /\ noClients

BeginRotate ==
  /\ stage = "rotate"
  /\ IF main.kind = "absent"
     THEN /\ stage' = "rename" /\ UNCHANGED <<bak, dirty>>
     ELSE /\ stage' = "rotating"
          /\ bak' = NoData("torn")
          /\ dirty' = dirty \cup {"bak"}
  /\ UNCHANGED <<main, tmp, settled>> /\ noClients

EndRotate ==
  /\ stage = "rotating"
  /\ bak' = main
  /\ stage' = "rename"
  /\ UNCHANGED <<main, tmp, settled, dirty>> /\ noClients

\* The rotation is refused: that is logged, the write goes on.
RotateError ==
  /\ stage = "rotating" /\ "error" \in Faults
  /\ stage' = "rename"
  /\ UNCHANGED files /\ noClients

Rename ==
  /\ stage = "rename"
  /\ main' = tmp
  /\ tmp' = NoData("absent")
  /\ dirty' = (dirty \ {"main", "tmp"})
                 \cup (IF "tmp" \in dirty THEN {"main"} ELSE {})
  /\ Settle("done")
  /\ UNCHANGED <<bak, settled, held, snapshot, crashes, forfeited, undone, flushed>>

Step == ReadMain \/ ReadError \/ BeginMend \/ EndMend \/ StartWrite
          \/ OpenTemp \/ SyncTemp \/ WriteError \/ BeginRotate \/ EndRotate
          \/ RotateError \/ Rename

-----------------------------------------------------------------------------
(* The environment: crashes, the kernel's write-back, damage at rest *)

crash ==
  /\ crashes < MaxCrashes
  /\ crashes' = crashes + 1
  /\ stage' = "down"
  /\ queue' = <<>> /\ held' = {}
  /\ snapshot' = [c \in Clients |-> {}]
  /\ call' = [c \in Clients |->
                IF call[c] \in {"idle", "done", "failed"} THEN call[c] ELSE "lost"]

Kill ==
  /\ "kill" \in Faults /\ stage # "down"
  /\ crash
  /\ UNCHANGED <<forfeited, undone, flushed>> /\ UNCHANGED files

\* The directory is never fsynced, so a power loss can undo a rename that no
\* write-back followed.  After it a file holds what was flushed, what was written, or,
\* when its own data was not flushed, a truncated version of it.
AfterPowerLoss(f, name) ==
  IF name \in dirty THEN {f, NoData("torn"), NoData("blank")} ELSE {f}

PowerLoss ==
  /\ "power" \in Faults /\ stage # "down"
  /\ crash
  /\ main' \in {settled} \cup AfterPowerLoss(main, "main")
  /\ bak' \in AfterPowerLoss(bak, "bak")
  /\ tmp' = NoData("absent")
  /\ settled' = main' /\ dirty' = {}
  /\ undone' = IF main' = settled THEN undone \cup ((Visible \ Visible') \ flushed)
                ELSE undone
  /\ flushed' = flushed \cup Visible'
  /\ UNCHANGED forfeited

\* The kernel writes everything back.
Flush ==
  /\ dirty # {} \/ settled # main
  /\ dirty' = {} /\ settled' = main
  /\ flushed' = flushed \cup Visible
  /\ UNCHANGED <<main, bak, tmp, stage, queue, held, call, snapshot, crashes, forfeited, undone>>

\* The current file is damaged between operations, .bak being intact.
Damage(k) ==
  /\ k \in Faults \cap DamageKinds
  /\ stage = "down" \/ (stage = "serving" /\ k = "torn")
  /\ Usable(main) /\ Usable(bak) /\ forfeited = {}
  /\ main' = NoData(k) /\ settled' = NoData(k)
  /\ forfeited' = main.data \ bak.data
  /\ UNCHANGED <<bak, tmp, dirty, queue, stage, held, call, snapshot, crashes, undone, flushed>>

StorageNext ==
  \/ Boot \/ Step \/ Kill \/ PowerLoss \/ Flush
  \/ \E c \in Clients : mutateJSON(c) \/ readJSON(c) \/ writeJSON(c)
  \/ \E k \in DamageKinds : Damage(k)

\* The event loop runs a started controller's queue.
StorageFairness == WF_storageVars(Boot) /\ WF_storageVars(Step)

StorageSpec == StorageInit /\ [][StorageNext]_storageVars /\ StorageFairness

-----------------------------------------------------------------------------
(* Properties *)

Acked == {c \in Mutators : call[c] = "done"}

\* An update whose mutateJSON call was acknowledged is seen by every later
\* reader, across kills, failed writes and recovery from .bak.  Two exceptions:
\* what only a copy damaged at rest held, and, because the directory is not
\* fsynced, an update whose rename a power loss undoes before any write-back:
\* the code does lose that one after acknowledging it.  An update that was in
\* the file at a write-back survives power losses too.
AckedSurvive == Acked \ (forfeited \cup undone) \subseteq Visible

\* A call that rejected left nothing behind: no later write, and no recovery
\* from the .tmp or .bak it abandoned, brings its update into the file.
FailedInvisible == {c \in Clients : call[c] = "failed"} \cap Visible = {}

\* Readers see single, whole updates: while a write, a rotation, a recovery
\* or a boot is half done the visible value does not move, and no update
\* removes another one (mutateJSON is one step of the abstract store; what a
\* power loss undoes counts as a fault of the store, as above).
Abstract == INSTANCE AtomicStore WITH value <- Visible, forfeited <- forfeited \cup undone
Atomic == Abstract!Spec

\* A queued call settles, or dies with the process: a rejected operation at
\* the head of the promise queue does not block the ones behind it.
EveryCallSettles ==
  \A c \in Clients :
    call[c] \in {"mutate", "read", "write"}
      ~> call[c] \in {"decide", "done", "failed", "lost"}
=============================================================================
