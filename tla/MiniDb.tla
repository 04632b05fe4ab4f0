------------------------------- MODULE MiniDb -------------------------------
(***************************************************************************)
(* One writable MiniDb (packages/minidb/src): set, del and batch           *)
(* (index.ts), the group-committing write-ahead log (wal.ts), the snapshot *)
(* writer (snapshot.ts), the online compaction that rotates both files     *)
(* (compaction.ts), and recovery (recovery.ts), in value mode "memory".    *)
(*                                                                         *)
(* Frames are call numbers and a frame's bytes are one unit; what is cut   *)
(* or torn is dropped by recovery.  Promise jobs run before the next I/O   *)
(* completes: that is Quiet.                                               *)
(***************************************************************************)
EXTENDS KvData, SequencesExt

CONSTANTS
  Writes,               \* bound: the effects that are called, a subset of Effects
  Databases,            \* [unique, always]: has a unique index; fsync policy "always"
  MaxCompactions,       \* bound: compactions begun
  MaxFailedCompactions, \* bound: of which so many meet an I/O error
  MaxFailedBatches,     \* bound: WAL batches that meet an I/O error
  MaxCrashes            \* bound

ASSUME MiniDbAssumption ==
  /\ Writes \subseteq Effects \ {Nothing}
  /\ Databases \subseteq [unique : BOOLEAN, always : BOOLEAN]
  /\ {MaxCompactions, MaxFailedCompactions, MaxFailedBatches, MaxCrashes} \subseteq Nat

VARIABLES
  db,         \* the member of Databases this one is
  status,     \* of each call
  effect,     \* what each call writes
  store,      \* Store.map: value, and the call whose setRef made the record (its seq)
  prev,       \* of each call in flight: the values it replaced
  walState,   \* of db.wal: "open", "sealed", "closed", "unopened" (constructed only)
  queue,      \* WAL.queue
  batch,      \* the batch of WAL.inflight
  landed,     \* how many of its frames writev has put into the file
  rejecting,  \* calls whose frame was rejected and not yet rolled back
  walFile, snapFile,  \* db.wal, db.snapshot
  synced,     \* frames of db.wal that are on disk
  unsynced,   \* what a power loss may bring back: {} or {<<snapshot, wal>> before a rename}
  phase,      \* of the compaction
  lock,       \* _rotateLock is set
  todo,       \* keys the snapshot's iterator has still before it
  snapTmp, walTmp,    \* db.snapshot.tmp, db.wal.tmp
  copiedUpTo,
  bounds      \* [compactions, failedCompactions, failedBatches, crashes] so far

callVars    == <<status, effect, store, prev>>
walVars     == <<walState, queue, batch, landed, rejecting>>
diskVars    == <<walFile, snapFile, synced, unsynced>>
compactVars == <<phase, lock, todo, snapTmp, walTmp, copiedUpTo>>
vars == <<db, callVars, walVars, diskVars, compactVars, bounds>>

Status == {"idle", "gated", "passed", "bounced", "refused", "parked",
           "pending", "acked", "failed", "lost"}
Phases == {"idle", "fence", "snapshot", "precopy", "drain", "close",
           "renameSnap", "renameWal", "fresh", "open", "abandon"}
Record == [val : Calls \cup {Absent}, by : Calls \cup {Absent}]
NoCopy == <<>>
Values(s) == [k \in Keys |-> s[k].val]
Fresh(contents) == [k \in Keys |-> [val |-> contents[k], by |-> Absent]]

Init ==
  /\ db \in Databases
  /\ status = [c \in Calls |-> "idle"]
  /\ effect = [c \in Calls |-> Nothing]
  /\ store = Fresh(Empty)
  /\ prev = [c \in Calls |-> Empty]
  /\ walState = "open" /\ queue = <<>> /\ batch = <<>> /\ landed = 0 /\ rejecting = <<>>
  /\ walFile = <<>> /\ snapFile = Empty /\ synced = 0 /\ unsynced = {}
  /\ phase = "idle" /\ lock = FALSE /\ todo = {}
  /\ snapTmp = Empty /\ walTmp = NoCopy /\ copiedUpTo = 0
  /\ bounds = [compactions |-> 0, failedCompactions |-> 0, failedBatches |-> 0, crashes |-> 0]

Below(b, limit) == bounds[b] < limit
Spend(b) == bounds' = [bounds EXCEPT ![b] = @ + 1]

-----------------------------------------------------------------------------
(* Calls. *)

SingleDelete(e) == \E k \in Keys : Touched(e) = {k} /\ e[k] = "del"

(* uniqueWriteLock, held from the first commit to the settling of the call; *)
(* del() does without it.                                                   *)
TakesUniqueLock(c) == db.unique /\ ~SingleDelete(effect[c])
UniqueLockFree(c) ==
  TakesUniqueLock(c) =>
    \A d \in Calls \ {c} :
      status[d] \in {"bounced", "refused", "parked", "pending"} => ~TakesUniqueLock(d)

(* Nothing is left to run before the event loop waits for I/O.              *)
Quiet ==
  /\ rejecting = <<>>
  /\ \A c \in Calls :
       /\ status[c] \notin {"bounced", "refused"}
       /\ status[c] \in {"gated", "parked"} => lock
       /\ status[c] = "passed" => ~UniqueLockFree(c)

(* The synchronous part of a call: it passes the gate or waits for a        *)
(* rotation to end.                                                         *)
(* Mutant: nobody looks at the lock. *)
NoGate == "passed"

Gate == IF lock THEN "gated" ELSE "passed"

Invoke(c, e) ==
  /\ \A d \in Calls : status[d] = "idle" <=> d >= c
  /\ lock \/ ~(SingleDelete(e) /\ \A k \in Touched(e) : store[k].val = Absent)
  /\ status' = [status EXCEPT ![c] = Gate]
  /\ effect' = [effect EXCEPT ![c] = e]
  /\ UNCHANGED <<db, store, prev, walVars, diskVars, compactVars, bounds>>

(* Past the gate del() returns false when the key is not there.             *)
PassGate(c) ==
  /\ status[c] = "gated"
  /\ ~lock
  /\ status' = [status EXCEPT ![c] =
       IF SingleDelete(effect[c]) /\ \A k \in Touched(effect[c]) : store[k].val = Absent
       THEN "acked" ELSE "passed"]
  /\ UNCHANGED <<db, effect, store, prev, walVars, diskVars, compactVars, bounds>>

(* A change of the store seen by the snapshot's iterator over its Map: a    *)
(* deleted key leaves, a new one is appended.                               *)
ChangeStore(new) ==
  /\ store' = new
  /\ todo' = IF phase # "snapshot" THEN todo ELSE
       {k \in Keys : new[k].val # Absent /\ (k \in todo \/ store[k].val = Absent)}

Applied(c) ==
  [k \in Keys |->
     IF effect[c][k] = "keep" THEN store[k]
     ELSE [val |-> Written(effect, c, k), by |-> Written(effect, c, k)]]

(* commit(): append and apply in one synchronous segment; the store is      *)
(* changed even when the append is refused.                                 *)
Commit(c) ==
  /\ status[c] = "passed" \/ (status[c] = "parked" /\ ~lock)
  /\ UniqueLockFree(c)
  /\ ChangeStore(Applied(c))
  /\ prev' = [prev EXCEPT ![c] = Values(store)]
  /\ \/ /\ walState \in {"open", "unopened"}
        /\ queue' = Append(queue, c)
        /\ status' = [status EXCEPT ![c] = "pending"]
     \/ /\ walState \in {"sealed", "closed"}
        /\ status' = [status EXCEPT ![c] = IF status[c] = "passed" THEN "bounced" ELSE "refused"]
        /\ UNCHANGED queue
  /\ UNCHANGED <<db, effect, walState, batch, landed, rejecting, diskVars,
                 phase, lock, snapTmp, walTmp, copiedUpTo, bounds>>

(* restoreKey for every key of the call, guarded by the seq its apply left. *)
StillAs(c, k) ==
  IF effect[c][k] = "set" THEN store[k].val # Absent /\ store[k].by = c ELSE store[k].val = Absent

(* Mutant: no rollback. *)
NotRestored(c) == store

Restored(c) ==
  [k \in Keys |-> IF k \in Touched(effect[c]) /\ StillAs(c, k)
                  THEN [val |-> prev[c][k], by |-> Absent] ELSE store[k]]

(* The append was refused: roll back, and retry once behind the rotation.   *)
Bounce(c) ==
  /\ status[c] \in {"bounced", "refused"}
  /\ ChangeStore(Restored(c))
  /\ status' = [status EXCEPT ![c] =
       IF @ = "bounced" /\ (walState = "sealed" \/ lock) THEN "parked" ELSE "failed"]
  /\ prev' = [prev EXCEPT ![c] = Empty]
  /\ UNCHANGED <<db, effect, walVars, diskVars, phase, lock, snapTmp, walTmp, copiedUpTo, bounds>>

(* The frame was written and failed: roll back and throw.                   *)
Reject ==
  /\ rejecting # <<>>
  /\ LET c == Head(rejecting)
     IN  /\ ChangeStore(Restored(c))
         /\ status' = [status EXCEPT ![c] = "failed"]
         /\ prev' = [prev EXCEPT ![c] = Empty]
  /\ rejecting' = Tail(rejecting)
  /\ UNCHANGED <<db, effect, walState, queue, batch, landed, diskVars,
                 phase, lock, snapTmp, walTmp, copiedUpTo, bounds>>

-----------------------------------------------------------------------------
(* The write-ahead log. *)

Flushing == batch # <<>>
Flushed == queue = <<>> /\ ~Flushing /\ rejecting = <<>>   \* flush() has returned

TakeBatch ==
  /\ Quiet /\ ~Flushing /\ queue # <<>>
  /\ batch' = queue
  /\ queue' = <<>>
  /\ landed' = 0
  /\ UNCHANGED <<db, callVars, walState, rejecting, diskVars, compactVars, bounds>>

(* writev, which may write any part of the batch and needs a file handle.   *)
Land ==
  /\ Quiet /\ Flushing /\ landed < Len(batch)
  /\ walState # "unopened"
  /\ walFile' = Append(walFile, batch[landed + 1])
  /\ landed' = landed + 1
  /\ UNCHANGED <<db, callVars, walState, queue, batch, rejecting,
                 snapFile, synced, unsynced, compactVars, bounds>>

BatchDurable == landed = Len(batch) /\ (db.always => synced = Len(walFile))

SyncBatch ==
  /\ Quiet /\ Flushing /\ landed = Len(batch) /\ ~BatchDurable
  /\ synced' = Len(walFile)
  /\ UNCHANGED <<db, callVars, walVars, walFile, snapFile, unsynced, compactVars, bounds>>

ResolveBatch ==
  /\ Quiet /\ Flushing /\ BatchDurable
  /\ status' = [c \in Calls |-> IF c \in Range(batch) THEN "acked" ELSE status[c]]
  /\ prev' = [c \in Calls |-> IF c \in Range(batch) THEN Empty ELSE prev[c]]
  /\ batch' = <<>> /\ landed' = 0
  /\ UNCHANGED <<db, effect, store, walState, queue, rejecting, diskVars, compactVars, bounds>>

(* writev or fsync fails: every frame of the batch is rejected, in order,   *)
(* whatever part of it is in the file.                                      *)
FailBatch ==
  /\ Quiet /\ Flushing /\ ~BatchDurable
  /\ Below("failedBatches", MaxFailedBatches)
  /\ Spend("failedBatches")
  /\ rejecting' = batch
  /\ batch' = <<>> /\ landed' = 0
  /\ UNCHANGED <<db, callVars, walState, queue, diskVars, compactVars>>

-----------------------------------------------------------------------------
(* Compaction. *)

Live(s) == {k \in Keys : s[k].val # Absent}

Compact ==
  /\ Quiet /\ phase = "idle"
  /\ Below("compactions", MaxCompactions)
  /\ Spend("compactions")
  /\ phase' = "fence"
  /\ UNCHANGED <<db, callVars, walVars, diskVars, lock, todo, snapTmp, walTmp, copiedUpTo>>

(* Phase 1 and the start of phase 2: baseOffset, then the iteration.        *)
Fence ==
  /\ phase = "fence" /\ Flushed
  /\ phase' = "snapshot"
  /\ copiedUpTo' = Len(walFile)
  /\ todo' = Live(store) /\ snapTmp' = Empty
  /\ walTmp' = NoCopy
  /\ UNCHANGED <<db, callVars, walVars, diskVars, lock, bounds>>

SnapshotKey(k) ==
  /\ Quiet /\ phase = "snapshot" /\ k \in todo
  /\ snapTmp' = [snapTmp EXCEPT ![k] = store[k].val]
  /\ todo' = todo \ {k}
  /\ UNCHANGED <<db, callVars, walVars, diskVars, phase, lock, walTmp, copiedUpTo, bounds>>

(* Mutant: the tail is taken to begin where the snapshot ended. *)
FenceBehindSnapshot ==
  /\ Quiet /\ phase = "snapshot" /\ todo = {}
  /\ phase' = "precopy" /\ copiedUpTo' = Len(walFile)
  /\ UNCHANGED <<db, callVars, walVars, diskVars, lock, todo, snapTmp, walTmp, bounds>>

SnapshotDone ==
  /\ Quiet /\ phase = "snapshot" /\ todo = {}
  /\ phase' = "precopy"
  /\ UNCHANGED <<db, callVars, walVars, diskVars, lock, todo, snapTmp, walTmp, copiedUpTo, bounds>>

Copied(tmp) == tmp \o SubSeq(walFile, copiedUpTo + 1, Len(walFile))

(* Phase 2.5: a pass, as often as there is something to copy.               *)
PreCopy ==
  /\ Quiet /\ phase = "precopy" /\ Flushed
  /\ copiedUpTo < Len(walFile)
  /\ walTmp' = Copied(walTmp)
  /\ copiedUpTo' = Len(walFile)
  /\ UNCHANGED <<db, callVars, walVars, diskVars, phase, lock, todo, snapTmp, bounds>>

(* Phase 3: the lock and the seal fall in one synchronous segment, in       *)
(* between two promise jobs of writers.                                     *)
Rotate ==
  /\ phase = "precopy"
  /\ phase' = "drain"
  /\ lock' = TRUE
  /\ walState' = "sealed"
  /\ UNCHANGED <<db, callVars, queue, batch, landed, rejecting, diskVars,
                 todo, snapTmp, walTmp, copiedUpTo, bounds>>

Drain ==
  /\ Quiet /\ phase = "drain" /\ Flushed
  /\ walTmp' = Copied(walTmp)
  /\ copiedUpTo' = Len(walFile)
  /\ phase' = "close"
  /\ UNCHANGED <<db, callVars, walVars, diskVars, lock, todo, snapTmp, bounds>>

CloseWal ==
  /\ Quiet /\ phase = "close"
  /\ walState' = "closed"
  /\ synced' = Len(walFile)
  /\ phase' = "renameSnap"
  /\ UNCHANGED <<db, callVars, queue, batch, landed, rejecting, walFile, snapFile, unsynced,
                 lock, todo, snapTmp, walTmp, copiedUpTo, bounds>>

RenameSnap ==
  /\ Quiet /\ phase = "renameSnap"
  /\ snapFile' = snapTmp
  /\ unsynced' = {<<snapFile, walFile>>}
  /\ phase' = "renameWal"
  /\ UNCHANGED <<db, callVars, walVars, walFile, synced, lock, todo, snapTmp, walTmp, copiedUpTo, bounds>>

FsyncDir ==
  /\ Quiet /\ unsynced # {}
  /\ unsynced' = {}
  /\ UNCHANGED <<db, callVars, walVars, walFile, snapFile, synced, compactVars, bounds>>

(* Mutant: the fresh log inherits the size of the old one. *)
RenameWalKeepsSize ==
  /\ Quiet /\ phase = "renameWal" /\ unsynced = {}
  /\ walFile' = walTmp /\ unsynced' = {<<snapFile, walFile>>} /\ phase' = "fresh"
  /\ UNCHANGED <<db, callVars, walVars, snapFile, synced, lock, todo, snapTmp, walTmp, copiedUpTo, bounds>>

RenameWal ==
  /\ Quiet /\ phase = "renameWal" /\ unsynced = {}
  /\ walFile' = walTmp
  /\ synced' = Len(walTmp)
  /\ unsynced' = {<<snapFile, walFile>>}
  /\ phase' = "fresh"
  /\ UNCHANGED <<db, callVars, walVars, snapFile, lock, todo, snapTmp, walTmp, copiedUpTo, bounds>>

(* db.wal is the new object at once; its open() takes longer.               *)
AssignWal ==
  /\ Quiet /\ phase = "fresh" /\ unsynced = {}
  /\ walState' = "unopened"
  /\ phase' = "open"
  /\ UNCHANGED <<db, callVars, queue, batch, landed, rejecting, diskVars,
                 lock, todo, snapTmp, walTmp, copiedUpTo, bounds>>

(* Mutant: the writers behind the lock are forgotten. *)
ReleaseNobody ==
  /\ walState' = "open" /\ phase' = "idle"
  /\ snapTmp' = Empty /\ walTmp' = NoCopy /\ copiedUpTo' = 0 /\ todo' = {}
  /\ UNCHANGED lock

(* Its end, in the good and in the bad case: writers go on.                 *)
Release ==
  /\ walState' = "open"
  /\ lock' = FALSE
  /\ phase' = "idle"
  /\ snapTmp' = Empty /\ walTmp' = NoCopy /\ copiedUpTo' = 0 /\ todo' = {}

OpenWal ==
  /\ Quiet /\ phase = "open"
  /\ Release
  /\ UNCHANGED <<db, callVars, queue, batch, landed, rejecting, diskVars, bounds>>

(* An I/O error.  Before the lock the compaction just ends; behind it the   *)
(* WAL is closed first and replaced by one on the file the path now names.  *)
FailCompaction ==
  /\ Quiet /\ unsynced = {}
  /\ Below("failedCompactions", MaxFailedCompactions)
  /\ Spend("failedCompactions")
  /\ \/ /\ phase \in {"snapshot", "precopy"}
        /\ Release
     \/ /\ phase \in {"drain", "close", "renameSnap", "renameWal", "open"}
        /\ walState' = "closed"
        /\ phase' = "abandon"
        /\ UNCHANGED <<lock, todo, snapTmp, walTmp, copiedUpTo>>
  /\ UNCHANGED <<db, callVars, queue, batch, landed, rejecting, diskVars>>

Abandon ==
  /\ Quiet /\ phase = "abandon" /\ Flushed
  /\ Release
  /\ UNCHANGED <<db, callVars, queue, batch, landed, rejecting, diskVars, bounds>>

-----------------------------------------------------------------------------
(* Crash, and open() of the next process: the temporary files go, the       *)
(* snapshot is loaded and the WAL replayed over it.                         *)

(* Mutant: the snapshot is loaded over the replayed WAL. *)
SnapshotOverWal(snap, wal) ==
  [k \in Keys |-> IF snap[k] # Absent THEN snap[k] ELSE Replay(snap, wal, effect)[k]]

Recovered(snap, wal) == Replay(snap, wal, effect)

CrashTo(snap, wal, kept) ==
  /\ Below("crashes", MaxCrashes)
  /\ Spend("crashes")
  /\ snapFile' = snap /\ walFile' = wal /\ synced' = kept /\ unsynced' = {}
  /\ store' = Fresh(Recovered(snap, wal))
  /\ status' = [c \in Calls |-> IF status[c] \in {"idle", "acked", "failed"} THEN status[c] ELSE "lost"]
  /\ prev' = [c \in Calls |-> Empty]
  /\ queue' = <<>> /\ batch' = <<>> /\ landed' = 0 /\ rejecting' = <<>>
  /\ Release
  /\ UNCHANGED <<db, effect>>

(* The process dies: the page cache stays, and a rename reaches the disk    *)
(* before a later power loss.                                               *)
ProcessCrash == CrashTo(snapFile, walFile, synced)

(* The machine dies: what was not synced may be gone; only the policy       *)
(* "always" promises anything then.                                         *)
PowerLoss ==
  /\ db.always
  /\ \/ \E n \in synced..Len(walFile) : CrashTo(snapFile, SubSeq(walFile, 1, n), synced)
     \/ \E old \in unsynced : CrashTo(old[1], old[2], Len(old[2]))

-----------------------------------------------------------------------------
CallStep ==
  \/ \E c \in Calls, e \in Writes : Invoke(c, e)
  \/ \E c \in Calls : PassGate(c) \/ Commit(c) \/ Bounce(c)
  \/ Reject

WalStep == TakeBatch \/ Land \/ SyncBatch \/ ResolveBatch \/ FailBatch

CompactionStep ==
  \/ Fence \/ SnapshotDone \/ PreCopy \/ Rotate \/ Drain \/ CloseWal
  \/ RenameSnap \/ FsyncDir \/ RenameWal \/ AssignWal \/ OpenWal \/ Abandon
  \/ \E k \in Keys : SnapshotKey(k)

Next ==
  \/ CallStep
  \/ WalStep
  \/ CompactionStep
  \/ Compact \/ FailCompaction
  \/ ProcessCrash \/ PowerLoss

Spec == Init /\ [][Next]_vars

(* Promise jobs run and I/O completes, well or badly.                       *)
FairSpec ==
  /\ Spec
  /\ WF_vars(\E c \in Calls : PassGate(c) \/ Commit(c) \/ Bounce(c))
  /\ WF_vars(Reject)
  /\ WF_vars(WalStep)
  /\ WF_vars(CompactionStep)

-----------------------------------------------------------------------------
TypeOK ==
  /\ db \in Databases
  /\ status \in [Calls -> Status]
  /\ effect \in [Calls -> Effects]
  /\ store \in [Keys -> Record]
  /\ prev \in [Calls -> Contents]
  /\ walState \in {"open", "sealed", "closed", "unopened"}
  /\ queue \in Seq(Calls) /\ batch \in Seq(Calls) /\ rejecting \in Seq(Calls)
  /\ walFile \in Seq(Calls) /\ walTmp \in Seq(Calls)
  /\ landed \in 0..Len(batch)
  /\ synced \in 0..Len(walFile)
  /\ snapFile \in Contents /\ snapTmp \in Contents
  /\ unsynced \subseteq Contents \X Seq(Calls)
  /\ phase \in Phases
  /\ lock \in BOOLEAN
  /\ todo \subseteq Keys
  /\ copiedUpTo \in Nat
  /\ phase \in {"snapshot", "precopy", "drain"} => copiedUpTo <= Len(walFile)

(* What the files promise to keep, and what they do not yet.                *)
SafeLength == IF db.always THEN synced ELSE Len(walFile)
safeNow == Replay(snapFile, SubSeq(walFile, 1, SafeLength), effect)
tailNow ==
  SubSeq(walFile, SafeLength + 1, Len(walFile)) \o SubSeq(batch, landed + 1, Len(batch)) \o queue
callsNow ==
  [c \in Calls |->
     CASE status[c] = "pending" -> "written"
       [] status[c] \in {"idle", "acked", "lost"} -> status[c]
       [] OTHER -> "called"]

Kv == INSTANCE DurableKv WITH safe <- safeNow, tail <- tailNow, calls <- callsNow

(* Whatever is compacted, batched, retried or cut off by a crash, the       *)
(* database keeps the promise of DurableKv: index.ts:794 "all-or-nothing",  *)
(* wal.ts append "resolves once written" (fsynced under "always"), and the  *)
(* crash safety of compaction.ts:38-44.                                     *)
KeepsPromise == Kv!KvSpec

(* Memory shows exactly what the files and the frames on their way to them  *)
(* add up to, except where a call waits to be retried.                      *)
MemoryIsLog ==
  \A k \in Keys :
    (\A c \in Calls : status[c] \in {"bounced", "refused", "parked"} => effect[c][k] = "keep")
      => store[k].val = Kv!View[k]

(* Between `db.wal = fresh` and the end of open() no frame is appended: it  *)
(* would be flushed to no file handle and its write thrown away.            *)
NothingAppendedUnopened == walState = "unopened" => queue = <<>>

(* A write that failed leaves no trace once everything has settled: memory  *)
(* is what a restart would recover (index.ts:741-743).  Left out are runs   *)
(* with a compaction, whose snapshot may hold a value rolled back later.    *)
MemoryIsDurable ==
  (Quiet /\ Flushed /\ bounds.compactions = 0) => Values(store) = Recovered(snapFile, walFile)

(* Every call settles: no writer is parked for ever.                        *)
CallsSettle ==
  \A c \in Calls :
    status[c] # "idle" ~> status[c] \in {"acked", "failed", "lost"}
=============================================================================
