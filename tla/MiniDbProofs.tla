---------------------------- MODULE MiniDbProofs ----------------------------
(***************************************************************************)
(* MiniDb, for every set of keys, number of calls and bound on faults: its *)
(* types; why no frame is appended to a WAL that is not open yet; and, in  *)
(* a database whose log batches do not fail, that memory shows what the    *)
(* log holds and that DurableKv's promise is kept; and, in one whose       *)
(* batches may, that a failed write is rolled back.                        *)
(***************************************************************************)
EXTENDS MiniDb, SequenceFacts

-----------------------------------------------------------------------------
(* What replaying a log over contents does: it depends, key by key, on the *)
(* last call of the log that touches the key, and logs compose.            *)

Less == {ss \in Nat \X Nat : ss[1] < ss[2]}

LEMMA LessIsWellFounded == IsWellFoundedOn(Less, Nat)
BY NatLessThanWellFounded DEF OpToRel, Less

(* A non-empty set of indices has a greatest element.                       *)
LEMMA MaxOfIndices ==
  ASSUME NEW n \in Nat, NEW S, S \subseteq 1..n, S # {}
  PROVE  Max(S) \in S /\ \A y \in S : y <= Max(S)
<1> DEFINE T == {n - y : y \in S}
<1>1. \A y \in S : y \in Nat /\ n - y \in Nat
  BY SMT
<1>2. T \subseteq Nat /\ T # {}
  BY <1>1
<1>3. PICK x \in T : \A y \in T : ~(<<y, x>> \in Less)
  <2> HIDE DEF T
  <2> QED BY <1>2, LessIsWellFounded, WFMin
<1>4. PICK m \in S : x = n - m
  BY <1>3
<1>5. ASSUME NEW y \in S PROVE m >= y
  <2>1. n - y \in T /\ n - y \in Nat /\ x \in Nat
    BY <1>1, <1>2, <1>3
  <2>2. ~(n - y < x)
    BY <1>3, <2>1 DEF Less
  <2> QED BY <1>1, <1>4, <2>2
<1> QED BY <1>4, <1>5 DEF Max

LEMMA MaxIs ==
  ASSUME NEW S, S \subseteq Nat, NEW m \in S, \A y \in S : y <= m
  PROVE  Max(S) = m
<1>1. \A x \in S : (\A y \in S : x >= y) <=> x = m
  BY SMT
<1> QED BY <1>1 DEF Max

(* A key that is touched has a last writer; a key that is not keeps its     *)
(* value.                                                                   *)
LEMMA LastWriter ==
  ASSUME NEW log \in Seq(Calls), NEW effectOf, NEW k, Writers(log, effectOf, k) # {}
  PROVE  /\ Max(Writers(log, effectOf, k)) \in Writers(log, effectOf, k)
         /\ \A i \in Writers(log, effectOf, k) : i <= Max(Writers(log, effectOf, k))
<1>1. Len(log) \in Nat /\ Writers(log, effectOf, k) \subseteq 1..Len(log)
  BY DEF Writers
<1> QED BY <1>1, MaxOfIndices

LEMMA ReplayUntouched ==
  ASSUME NEW contents, NEW log, NEW effectOf, NEW k \in Keys,
         Writers(log, effectOf, k) = {}
  PROVE  Replay(contents, log, effectOf)[k] = contents[k]
BY DEF Replay

LEMMA ReplayType ==
  ASSUME NEW contents \in Contents, NEW log \in Seq(Calls), NEW effectOf
  PROVE  Replay(contents, log, effectOf) \in Contents
<1> SUFFICES ASSUME NEW k \in Keys
             PROVE  Replay(contents, log, effectOf)[k] \in Calls \cup {Absent}
  BY DEF Contents, Replay
<1>1. CASE Writers(log, effectOf, k) = {}
  BY <1>1, ReplayUntouched DEF Contents
<1>2. CASE Writers(log, effectOf, k) # {}
  <2> DEFINE i == Max(Writers(log, effectOf, k))
  <2>1. i \in Writers(log, effectOf, k)
    BY <1>2, LastWriter, Zenon
  <2>2. log[i] \in Calls
    BY <2>1 DEF Writers
  <2>3. Replay(contents, log, effectOf)[k] = Written(effectOf, log[i], k)
    BY <1>2 DEF Replay
  <2> QED BY <2>2, <2>3 DEF Written
<1> QED BY <1>1, <1>2

LEMMA WritersOfConcat ==
  ASSUME NEW a \in Seq(Calls), NEW b \in Seq(Calls), NEW effectOf, NEW k
  PROVE  \A i \in Nat :
           i \in Writers(a \o b, effectOf, k) <=>
             \/ i \in Writers(a, effectOf, k)
             \/ i > Len(a) /\ i - Len(a) \in Writers(b, effectOf, k)
<1> DEFINE n == Len(a)
<1>1. /\ a \o b \in Seq(Calls)
      /\ Len(a \o b) = n + Len(b)
      /\ \A i \in 1..(n + Len(b)) : (a \o b)[i] = IF i <= n THEN a[i] ELSE b[i - n]
  BY ConcatProperties
<1>2. n \in Nat /\ Len(b) \in Nat /\ DOMAIN a = 1..n /\ DOMAIN b = 1..Len(b)
      /\ DOMAIN (a \o b) = 1..(n + Len(b))
  BY <1>1
<1> SUFFICES ASSUME NEW i \in Nat
             PROVE  i \in Writers(a \o b, effectOf, k) <=>
                      \/ i \in Writers(a, effectOf, k)
                      \/ i > n /\ i - n \in Writers(b, effectOf, k)
  OBVIOUS
<1> HIDE DEF n
<1>3. CASE i <= n
  <2>1. i \in DOMAIN a <=> i \in DOMAIN (a \o b)
    BY <1>2, <1>3
  <2>2. i \in DOMAIN a => (a \o b)[i] = a[i]
    BY <1>1, <1>2, <1>3
  <2> QED BY <1>2, <1>3, <2>1, <2>2 DEF Writers
<1>4. CASE i > n
  <2>1. i - n \in DOMAIN b <=> i \in DOMAIN (a \o b)
    BY <1>2, <1>4
  <2>2. i \in DOMAIN (a \o b) => (a \o b)[i] = b[i - n]
    BY <1>1, <1>2, <1>4
  <2>3. i \notin DOMAIN a
    BY <1>2, <1>4
  <2> QED BY <1>4, <2>1, <2>2, <2>3 DEF Writers
<1> QED BY <1>2, <1>3, <1>4

(* Replaying a log in two parts is replaying it whole: a snapshot may hold  *)
(* any prefix of the writes as long as the WAL holds the rest.              *)
THEOREM ReplayInParts ==
  ASSUME NEW contents \in Contents, NEW a \in Seq(Calls), NEW b \in Seq(Calls), NEW effectOf
  PROVE  Replay(contents, a \o b, effectOf) = Replay(Replay(contents, a, effectOf), b, effectOf)
<1> SUFFICES ASSUME NEW k \in Keys
             PROVE  Replay(contents, a \o b, effectOf)[k]
                      = Replay(Replay(contents, a, effectOf), b, effectOf)[k]
  BY DEF Replay
<1> DEFINE W(log) == Writers(log, effectOf, k)
           n == Len(a)
<1>1. /\ a \o b \in Seq(Calls)
      /\ n \in Nat
      /\ W(a) \subseteq 1..n /\ W(b) \subseteq 1..Len(b)
      /\ W(a \o b) \subseteq Nat
      /\ \A i \in 1..(n + Len(b)) : (a \o b)[i] = IF i <= n THEN a[i] ELSE b[i - n]
  BY ConcatProperties DEF Writers
<1>2. \A i \in Nat : i \in W(a \o b) <=> i \in W(a) \/ (i > n /\ i - n \in W(b))
  BY WritersOfConcat, Zenon
<1>3. CASE W(b) # {}
  <2>1. PICK m \in W(b) : (\A j \in W(b) : j <= m) /\ m = Max(W(b))
    BY <1>3, LastWriter, Zenon
  <2> HIDE DEF W
  <2>2. n + m \in W(a \o b)
    BY <1>1, <1>2, <2>1
  <2>3. \A j \in W(a \o b) : j <= n + m
    BY <1>1, <1>2, <2>1
  <2>4. (a \o b)[n + m] = b[m]
    BY <1>1, <2>1
  <2>5. Max(W(a \o b)) = n + m
    BY <1>1, <2>2, <2>3, MaxIs
  <2> USE DEF W
  <2>6. Replay(contents, a \o b, effectOf)[k] = Written(effectOf, (a \o b)[n + m], k)
    BY <2>2, <2>5 DEF Replay
  <2>7. Replay(Replay(contents, a, effectOf), b, effectOf)[k] = Written(effectOf, b[m], k)
    BY <1>3, <2>1 DEF Replay
  <2> QED BY <2>4, <2>6, <2>7
<1>4. CASE W(b) = {} /\ W(a) # {}
  <2>1. PICK m \in W(a) : (\A j \in W(a) : j <= m) /\ m = Max(W(a))
    BY <1>4, LastWriter, Zenon
  <2> HIDE DEF W
  <2>2. m \in W(a \o b) /\ \A j \in W(a \o b) : j <= m
    BY <1>1, <1>2, <1>4, <2>1
  <2>3. (a \o b)[m] = a[m]
    BY <1>1, <2>1
  <2>4. Max(W(a \o b)) = m
    BY <1>1, <2>2, MaxIs
  <2> USE DEF W
  <2>5. Replay(contents, a \o b, effectOf)[k] = Written(effectOf, (a \o b)[m], k)
    BY <2>2, <2>4 DEF Replay
  <2>6. Replay(Replay(contents, a, effectOf), b, effectOf)[k] = Replay(contents, a, effectOf)[k]
    BY <1>4 DEF Replay
  <2>7. Replay(contents, a, effectOf)[k] = Written(effectOf, a[m], k)
    BY <1>4, <2>1 DEF Replay
  <2> QED BY <2>3, <2>5, <2>6, <2>7
<1>5. CASE W(b) = {} /\ W(a) = {}
  <2>1. W(a \o b) = {}
    BY <1>1, <1>2, <1>5
  <2> QED BY <1>5, <2>1 DEF Replay
<1> QED BY <1>3, <1>4, <1>5

(* Contents that agree where a log is silent are made equal by it.          *)
LEMMA ReplayAgrees ==
  ASSUME NEW before, NEW other, NEW log, NEW effectOf,
         \A k \in Keys : Writers(log, effectOf, k) = {} => before[k] = other[k]
  PROVE  Replay(before, log, effectOf) = Replay(other, log, effectOf)
BY DEF Replay


-----------------------------------------------------------------------------
(* Types. *)

LEMMA EmptyTyped == Empty \in Contents
BY DEF Empty, Contents

LEMMA InitTyped == Init => TypeOK
<1> SUFFICES ASSUME Init PROVE TypeOK
  OBVIOUS
<1>1. <<>> \in Seq(Calls) /\ Len(<<>>) = 0
  OBVIOUS
<1>2. store \in [Keys -> Record]
  BY DEF Init, Fresh, Empty, Record
<1>3. status \in [Calls -> Status] /\ effect \in [Calls -> Effects] /\ prev \in [Calls -> Contents]
  BY EmptyTyped DEF Init, Status, Effects, Nothing
<1>4. db \in Databases
  BY DEF Init
<1>5. /\ queue = <<>> /\ batch = <<>> /\ rejecting = <<>> /\ walFile = <<>> /\ walTmp = <<>>
      /\ landed = 0 /\ synced = 0 /\ unsynced = {} /\ todo = {} /\ copiedUpTo = 0
      /\ snapFile \in Contents /\ snapTmp \in Contents
      /\ walState = "open" /\ phase = "idle" /\ lock = FALSE
  BY EmptyTyped DEF Init, NoCopy
<1>6. landed \in 0..Len(batch) /\ synced \in 0..Len(walFile)
  BY <1>1, <1>5
<1>7. phase \in Phases /\ phase \notin {"snapshot", "precopy", "drain"}
  BY <1>5 DEF Phases
<1> QED BY <1>1, <1>2, <1>3, <1>4, <1>5, <1>6, <1>7 DEF TypeOK

LEMMA StoreChangeTyped ==
  ASSUME TypeOK, NEW new \in [Keys -> Record], ChangeStore(new)
  PROVE  store' \in [Keys -> Record] /\ todo' \subseteq Keys
BY DEF ChangeStore, TypeOK

LEMMA AppliedTyped ==
  ASSUME TypeOK, NEW c \in Calls
  PROVE  Applied(c) \in [Keys -> Record] /\ Restored(c) \in [Keys -> Record] /\ Values(store) \in Contents
BY DEF TypeOK, Applied, Written, Restored, Values, Record, Contents

LEMMA CallStepTyped ==
  ASSUME TypeOK, CallStep
  PROVE  TypeOK'
<1> USE MiniDbAssumption
<1>1. ASSUME NEW c \in Calls, NEW e \in Writes, Invoke(c, e) PROVE TypeOK'
  BY <1>1 DEF TypeOK, Invoke, Gate, Status, walVars, diskVars, compactVars
<1>2. ASSUME NEW c \in Calls, PassGate(c) PROVE TypeOK'
  BY <1>2 DEF TypeOK, PassGate, Status, walVars, diskVars, compactVars
<1>3. ASSUME NEW c \in Calls, Commit(c) PROVE TypeOK'
  <2>1. store' \in [Keys -> Record] /\ todo' \subseteq Keys
    BY <1>3, AppliedTyped, StoreChangeTyped DEF Commit
  <2>2. prev' \in [Calls -> Contents]
    BY <1>3, AppliedTyped DEF Commit, TypeOK
  <2>3. queue' \in Seq(Calls)
    <3>1. queue' = Append(queue, c) \/ queue' = queue
      BY <1>3 DEF Commit
    <3>2. queue \in Seq(Calls)
      BY DEF TypeOK
    <3> QED BY <3>1, <3>2, AppendProperties
  <2>4. status' \in [Calls -> Status]
    BY <1>3 DEF Commit, TypeOK, Status
  <2> QED BY <1>3, <2>1, <2>2, <2>3, <2>4 DEF TypeOK, Commit, diskVars
<1>4. ASSUME NEW c \in Calls, Bounce(c) PROVE TypeOK'
  <2>1. store' \in [Keys -> Record] /\ todo' \subseteq Keys
    BY <1>4, AppliedTyped, StoreChangeTyped DEF Bounce
  <2> QED BY <1>4, <2>1, EmptyTyped DEF TypeOK, Bounce, Status, diskVars, walVars
<1>5. CASE Reject
  <2> DEFINE c == Head(rejecting)
  <2>1. c \in Calls /\ rejecting' \in Seq(Calls)
    BY <1>5, HeadTailProperties DEF Reject, TypeOK
  <2>2. store' \in [Keys -> Record] /\ todo' \subseteq Keys
    BY <1>5, <2>1, AppliedTyped, StoreChangeTyped DEF Reject
  <2>3. status' \in [Calls -> Status] /\ prev' \in [Calls -> Contents]
    BY <1>5, <2>1, EmptyTyped DEF Reject, TypeOK, Status
  <2> QED BY <1>5, <2>1, <2>2, <2>3 DEF TypeOK, Reject, diskVars
<1> QED BY <1>1, <1>2, <1>3, <1>4, <1>5 DEF CallStep

LEMMA WalStepTyped ==
  ASSUME TypeOK, WalStep
  PROVE  TypeOK'
<1>1. CASE TakeBatch
  BY <1>1 DEF TypeOK, TakeBatch, callVars, diskVars, compactVars
<1>2. CASE Land
  <2>1. batch[landed + 1] \in Calls /\ landed' \in 0..Len(batch)
    BY <1>2 DEF TypeOK, Land
  <2>2. walFile' \in Seq(Calls) /\ Len(walFile') = Len(walFile) + 1
    BY <1>2, <2>1, AppendProperties DEF TypeOK, Land
  <2> QED BY <1>2, <2>1, <2>2 DEF TypeOK, Land, callVars, compactVars
<1>3. CASE SyncBatch
  BY <1>3 DEF TypeOK, SyncBatch, callVars, walVars, compactVars
<1>4. CASE ResolveBatch
  BY <1>4, EmptyTyped DEF TypeOK, ResolveBatch, Status, diskVars, compactVars
<1>5. CASE FailBatch
  BY <1>5 DEF TypeOK, FailBatch, callVars, diskVars, compactVars
<1> QED BY <1>1, <1>2, <1>3, <1>4, <1>5 DEF WalStep

LEMMA CopiedTyped ==
  ASSUME TypeOK
  PROVE  Copied(walTmp) \in Seq(Calls)
<1>1. SubSeq(walFile, copiedUpTo + 1, Len(walFile)) \in Seq(Calls)
  BY SubSeqProperties DEF TypeOK
<1> QED BY <1>1, ConcatProperties DEF Copied, TypeOK

LEMMA ReleaseTyped ==
  ASSUME Release
  PROVE  /\ walState' \in {"open", "sealed", "closed", "unopened"}
         /\ phase' \in Phases /\ lock' \in BOOLEAN
         /\ snapTmp' \in Contents /\ walTmp' \in Seq(Calls)
         /\ copiedUpTo' \in Nat /\ todo' \subseteq Keys
         /\ phase' \notin {"snapshot", "precopy", "drain"}
<1>1. <<>> \in Seq(Calls)
  OBVIOUS
<1> QED BY <1>1, EmptyTyped DEF Release, NoCopy, Phases

LEMMA CompactionTyped ==
  ASSUME TypeOK, CompactionStep \/ Compact \/ FailCompaction
  PROVE  TypeOK'
<1> USE DEF Phases
<1>1. CASE Compact
  BY <1>1 DEF TypeOK, Compact, callVars, walVars, diskVars
<1>2. CASE Fence
  BY <1>2, EmptyTyped DEF TypeOK, Fence, Live, NoCopy, callVars, walVars, diskVars
<1>3. ASSUME NEW k \in Keys, SnapshotKey(k) PROVE TypeOK'
  <2>1. snapTmp' \in Contents
    BY <1>3 DEF TypeOK, SnapshotKey, Contents, Record
  <2> QED BY <1>3, <2>1 DEF TypeOK, SnapshotKey, callVars, walVars, diskVars
<1>4. CASE SnapshotDone
  BY <1>4 DEF TypeOK, SnapshotDone, callVars, walVars, diskVars
<1>5. CASE PreCopy
  BY <1>5, CopiedTyped DEF TypeOK, PreCopy, callVars, walVars, diskVars
<1>6. CASE Rotate
  BY <1>6 DEF TypeOK, Rotate, callVars, diskVars
<1>7. CASE Drain
  BY <1>7, CopiedTyped DEF TypeOK, Drain, callVars, walVars, diskVars
<1>8. CASE CloseWal
  BY <1>8 DEF TypeOK, CloseWal, callVars
<1>9. CASE RenameSnap
  BY <1>9 DEF TypeOK, RenameSnap, callVars, walVars
<1>10. CASE FsyncDir
  BY <1>10 DEF TypeOK, FsyncDir, callVars, walVars, compactVars
<1>11. CASE RenameWal
  BY <1>11 DEF TypeOK, RenameWal, callVars, walVars
<1>12. CASE AssignWal
  BY <1>12 DEF TypeOK, AssignWal, callVars, diskVars
<1>13. CASE OpenWal \/ Abandon
  <2>1. Release /\ UNCHANGED <<db, status, effect, store, prev, queue, batch, landed, rejecting,
                               walFile, snapFile, synced, unsynced>>
    BY <1>13 DEF OpenWal, Abandon, callVars, diskVars
  <2>2. phase' \notin {"snapshot", "precopy", "drain"}
    BY <2>1, ReleaseTyped
  <2> QED BY <2>1, <2>2, ReleaseTyped DEF TypeOK
<1>14. CASE FailCompaction
  <2>1. CASE Release
    BY <1>14, <2>1, ReleaseTyped DEF TypeOK, FailCompaction, callVars, diskVars
  <2>2. CASE ~Release
    BY <1>14, <2>2 DEF TypeOK, FailCompaction, callVars, diskVars
  <2> QED BY <2>1, <2>2
<1> QED
  BY <1>1, <1>2, <1>3, <1>4, <1>5, <1>6, <1>7, <1>8, <1>9, <1>10, <1>11, <1>12, <1>13, <1>14
  DEF CompactionStep

LEMMA CrashTyped ==
  ASSUME TypeOK, NEW snap \in Contents, NEW wal \in Seq(Calls), NEW kept \in 0..Len(wal),
         CrashTo(snap, wal, kept)
  PROVE  TypeOK'
<1>1. Recovered(snap, wal) \in Contents
  BY ReplayType DEF Recovered
<1>2. store' \in [Keys -> Record]
  BY <1>1 DEF CrashTo, Fresh, Contents, Record
<1>2a. <<>> \in Seq(Calls) /\ Len(<<>>) = 0
  OBVIOUS
<1>3. status' \in [Calls -> Status] /\ prev' \in [Calls -> Contents] /\ UNCHANGED <<db, effect>>
  BY EmptyTyped DEF TypeOK, CrashTo, Status
<1>4. Release
  BY DEF CrashTo
<1>5. /\ queue' = <<>> /\ batch' = <<>> /\ landed' = 0 /\ rejecting' = <<>>
      /\ snapFile' = snap /\ walFile' = wal /\ synced' = kept /\ unsynced' = {}
  BY DEF CrashTo
<1> QED BY <1>2, <1>2a, <1>3, <1>4, <1>5, ReleaseTyped DEF TypeOK

(* The variables keep their types, through recovery's replay as well.       *)
THEOREM TypeInvariant == Spec => []TypeOK
<1>1. TypeOK /\ [Next]_vars => TypeOK'
  <2> SUFFICES ASSUME TypeOK, [Next]_vars PROVE TypeOK'
    OBVIOUS
  <2>1. CASE UNCHANGED vars
    BY <2>1 DEF TypeOK, vars, callVars, walVars, diskVars, compactVars
  <2>2. CASE ProcessCrash
    BY <2>2, CrashTyped DEF ProcessCrash, TypeOK
  <2>3. CASE PowerLoss
    <3>1. ASSUME NEW n \in synced..Len(walFile), CrashTo(snapFile, SubSeq(walFile, 1, n), synced)
          PROVE  TypeOK'
      <4>1. n \in 0..Len(walFile) /\ synced \in 0..n
        BY DEF TypeOK
      <4>2. SubSeq(walFile, 1, n) \in Seq(Calls) /\ Len(SubSeq(walFile, 1, n)) = n
        BY <4>1, SubSeqProperties DEF TypeOK
      <4> QED BY <3>1, <4>1, <4>2, CrashTyped DEF TypeOK
    <3>2. ASSUME NEW old \in unsynced, CrashTo(old[1], old[2], Len(old[2])) PROVE TypeOK'
      <4>1. old[1] \in Contents /\ old[2] \in Seq(Calls)
        BY DEF TypeOK
      <4> QED BY <3>2, <4>1, CrashTyped
    <3> QED BY <2>3, <3>1, <3>2 DEF PowerLoss
  <2> QED
    BY <2>1, <2>2, <2>3, CallStepTyped, WalStepTyped, CompactionTyped DEF Next
<1> QED BY InitTyped, <1>1, PTL DEF Spec

-----------------------------------------------------------------------------
(* The swap of the logs. *)

(* The part of a rotation from its last drain to the end of open().         *)
Swapping == {"close", "renameSnap", "renameWal", "fresh", "open"}

(* Once the sealed log is drained no call can move: those that committed    *)
(* have been acknowledged or wait for the lock, and a call that has passed  *)
(* the gate can only be held back by one of these.                          *)
StandStill ==
  phase \in Swapping => lock /\ Quiet /\ queue = <<>> /\ batch = <<>>

Locked == phase \in Swapping \cup {"drain", "abandon"} => lock

UnopenedOnlyInOpen == walState = "unopened" => phase = "open"

StillInv == Locked /\ StandStill /\ UnopenedOnlyInOpen

LEMMA InitEstablishes == Init => StillInv
BY DEF Init, StillInv, Locked, StandStill, UnopenedOnlyInOpen, Swapping

(* The rotation's lock: taken by Rotate, kept until Release.                *)
LEMMA LockedKept ==
  ASSUME Locked, [Next]_vars
  PROVE  Locked'
<1> USE DEF Locked, Swapping
<1>1. CASE UNCHANGED <<phase, lock>>
  BY <1>1
<1>2. CASE CallStep \/ WalStep \/ UNCHANGED vars
  <2>1. UNCHANGED <<phase, lock>>
    BY <1>2 DEF vars, compactVars, CallStep, Invoke, PassGate, Commit, Bounce, Reject,
      WalStep, TakeBatch, Land, SyncBatch, ResolveBatch, FailBatch
  <2> QED BY <2>1, <1>1
<1>3. CASE CompactionStep
  BY <1>3 DEF CompactionStep, compactVars, Fence, SnapshotKey, SnapshotDone, PreCopy, Rotate,
    Drain, CloseWal, RenameSnap, FsyncDir, RenameWal, AssignWal, OpenWal, Abandon, Release
<1>4. CASE Compact \/ FailCompaction
  BY <1>4 DEF Compact, FailCompaction, Release
<1>5. CASE ProcessCrash \/ PowerLoss
  BY <1>5 DEF ProcessCrash, PowerLoss, CrashTo, Release
<1> QED BY <1>1, <1>2, <1>3, <1>4, <1>5 DEF Next

(* Whether a standstill lasts depends on these variables only.              *)
LEMMA QuietKept ==
  ASSUME Quiet, UNCHANGED <<db, status, effect, rejecting, lock>>
  PROVE  Quiet'
BY DEF Quiet, UniqueLockFree, TakesUniqueLock

(* A call that arrives while the lock is held waits at the gate.            *)
LEMMA QuietBehindLock ==
  ASSUME TypeOK, Quiet, lock,
         NEW c \in Calls, NEW e \in Writes, Invoke(c, e)
  PROVE  Quiet'
<1>1. status[c] = "idle"
  BY DEF Invoke, Calls
<1>2. /\ status' = [status EXCEPT ![c] = "gated"]
      /\ effect' = [effect EXCEPT ![c] = e]
      /\ UNCHANGED <<db, rejecting, lock>>
  BY DEF Invoke, Gate, walVars, compactVars
<1>3. ASSUME NEW d \in Calls, status'[d] = "passed" PROVE ~UniqueLockFree(d)'
  <2>1. d # c /\ status[d] = "passed"
    BY <1>2, <1>3 DEF TypeOK
  <2>2. PICK h \in Calls \ {d} :
          /\ status[h] \in {"bounced", "refused", "parked", "pending"}
          /\ TakesUniqueLock(h) /\ TakesUniqueLock(d)
    BY <2>1 DEF Quiet, UniqueLockFree
  <2>3. h # c /\ status'[h] = status[h] /\ effect'[h] = effect[h] /\ effect'[d] = effect[d]
    BY <1>1, <1>2, <2>1, <2>2 DEF TypeOK
  <2> QED BY <1>2, <2>2, <2>3 DEF UniqueLockFree, TakesUniqueLock
<1> QED BY <1>1, <1>2, <1>3 DEF Quiet, TypeOK

LEMMA StandStillKept ==
  ASSUME TypeOK, Locked, StandStill, [Next]_vars
  PROVE  StandStill'
<1> SUFFICES ASSUME phase' \in Swapping
             PROVE  lock' /\ Quiet' /\ queue' = <<>> /\ batch' = <<>>
  BY DEF StandStill
<1>1. CASE phase \in Swapping /\ UNCHANGED <<db, status, effect, rejecting, queue, batch, lock>>
  BY <1>1, QuietKept DEF StandStill
<1>2. ASSUME NEW c \in Calls, NEW e \in Writes, Invoke(c, e)
      PROVE  lock' /\ Quiet' /\ queue' = <<>> /\ batch' = <<>>
  BY <1>2, QuietBehindLock DEF StandStill, Invoke, walVars, compactVars
<1>3. ASSUME NEW c \in Calls PROVE ~PassGate(c) /\ ~Commit(c) /\ ~Bounce(c)
  BY <1>3 DEF PassGate, Commit, Bounce, compactVars, StandStill, Quiet
<1>4. ~Reject
  BY DEF Reject, StandStill, Quiet
<1>5. ~WalStep
  BY DEF WalStep, TakeBatch, Land, SyncBatch, ResolveBatch, FailBatch, Flushing, compactVars, StandStill
<1>6. CASE Drain
  BY <1>6, QuietKept DEF Drain, Flushed, Flushing, callVars, walVars, Locked
<1>7. CASE CompactionStep /\ ~Drain
  BY <1>1, <1>7 DEF CompactionStep, compactVars, callVars, walVars, Swapping, Fence, SnapshotKey,
    SnapshotDone, PreCopy, Rotate, CloseWal, RenameSnap, FsyncDir, RenameWal, AssignWal,
    OpenWal, Abandon, Release
<1>8. ~Compact /\ ~FailCompaction /\ ~ProcessCrash /\ ~PowerLoss
  BY DEF Compact, FailCompaction, ProcessCrash, PowerLoss, CrashTo, Release, Swapping
<1>9. CASE UNCHANGED vars
  BY <1>1, <1>9 DEF vars, callVars, walVars, compactVars
<1> QED BY <1>2, <1>3, <1>4, <1>5, <1>6, <1>7, <1>8, <1>9 DEF Next, CallStep

(* Only assigning the new WAL makes it one that is not open.                *)
LEMMA UnopenedKept ==
  ASSUME UnopenedOnlyInOpen, [Next]_vars
  PROVE  UnopenedOnlyInOpen'
<1> USE DEF UnopenedOnlyInOpen
<1>1. CASE CallStep \/ WalStep \/ UNCHANGED vars
  BY <1>1 DEF vars, walVars, compactVars, CallStep, Invoke, PassGate, Commit, Bounce, Reject,
    WalStep, TakeBatch, Land, SyncBatch, ResolveBatch, FailBatch
<1>2. CASE CompactionStep
  BY <1>2 DEF CompactionStep, compactVars, walVars, Fence, SnapshotKey, SnapshotDone, PreCopy,
    Rotate, Drain, CloseWal, RenameSnap, FsyncDir, RenameWal, AssignWal, OpenWal, Abandon, Release
<1>3. CASE Compact \/ FailCompaction
  BY <1>3 DEF Compact, FailCompaction, Release, walVars
<1>4. CASE ProcessCrash \/ PowerLoss
  BY <1>4 DEF ProcessCrash, PowerLoss, CrashTo, Release
<1> QED BY <1>1, <1>2, <1>3, <1>4 DEF Next

(* The inductive invariant of a rotation.                                   *)
THEOREM StandStillInvariant == Spec => []StillInv
<1>1. TypeOK /\ StillInv /\ [Next]_vars => StillInv'
  BY LockedKept, StandStillKept, UnopenedKept DEF StillInv
<1> QED BY TypeInvariant, InitEstablishes, <1>1, PTL DEF Spec

(* Between `db.wal = fresh` and the end of open() (compaction.ts:292-294)   *)
(* no frame is ever appended, whatever calls race with the rotation.        *)
THEOREM NeverAppendsUnopened == Spec => []NothingAppendedUnopened
<1>1. StillInv => NothingAppendedUnopened
  BY DEF StillInv, StandStill, UnopenedOnlyInOpen, NothingAppendedUnopened, Swapping
<1> QED BY <1>1, StandStillInvariant, PTL
-----------------------------------------------------------------------------
(* Memory, the log and the snapshot, in a database whose batches do not fail. *)

(* The log as it will be once everything on its way has landed, and what it *)
(* makes of the snapshot.                                                   *)
InFlight == SubSeq(batch, landed + 1, Len(batch)) \o queue
Log == walFile \o InFlight
Held == Replay(snapFile, Log, effect)

(* A call whose append was refused: its effect may be in memory only.       *)
Waiting(c) == status[c] \in {"bounced", "parked"}

Before == {"fence", "snapshot", "precopy"}
Rotating == Swapping \cup {"drain", "abandon"}

(* Where the compaction stands decides who can be where.  No batch fails.   *)
Control ==
  /\ "failedBatches" \in DOMAIN bounds /\ bounds["failedBatches"] = 0 /\ rejecting = <<>>
  /\ lock <=> phase \in Rotating
  /\ lock <=> walState # "open"
  /\ \A c \in Calls : status[c] \notin {"refused", "failed"}
  /\ \A c \in Calls : status[c] = "bounced" => lock
  /\ phase \in Before => \A c \in Calls : status[c] \notin {"gated", "bounced", "parked"}

(* Who is in a batch or in the queue is pending, and once.                  *)
Pendings ==
  /\ Distinct(batch) /\ Distinct(queue)
  /\ \A c \in Range(batch) : status[c] = "pending" /\ c \notin Range(queue)
  /\ \A c \in Range(queue) : status[c] = "pending"

(* Files hold what was called.                                              *)
Logged ==
  /\ \A i \in DOMAIN walFile : status[walFile[i]] # "idle"
  /\ \A old \in unsynced : \A i \in DOMAIN old[2] : status[old[2][i]] # "idle"

(* What the copy of the log leaves out, and the keys that nothing behind it *)
(* touches.                                                                 *)
Copying == {"snapshot", "precopy", "drain", "close", "renameSnap", "renameWal"}
Base == copiedUpTo - Len(walTmp)
Silent(k) ==
  /\ \A i \in (Base + 1)..Len(walFile) : effect[walFile[i]][k] = "keep"
  /\ \A i \in (landed + 1)..Len(batch) : effect[batch[i]][k] = "keep"
  /\ \A i \in DOMAIN queue : effect[queue[i]][k] = "keep"

(* The copy is the end of the log, and the snapshot is right wherever the   *)
(* log behind it is silent.                                                 *)
CopySound ==
  phase \in Copying =>
    /\ copiedUpTo <= Len(walFile) /\ Len(walTmp) <= copiedUpTo
    /\ \A i \in 1..Len(walTmp) : walTmp[i] = walFile[Base + i]
    /\ phase \in Swapping => copiedUpTo = Len(walFile)
    /\ phase = "renameWal" => snapFile = snapTmp
    /\ IF phase = "snapshot" THEN todo \subseteq Live(store) ELSE todo = {}
    /\ \A k \in Keys \ todo : Silent(k) => snapTmp[k] = Held[k]

(* What a power loss may bring back amounts to what is there.               *)
Renamed ==
  /\ phase \in {"renameSnap", "renameWal", "fresh"} => synced = Len(walFile)
  /\ unsynced # {} => phase \in {"renameWal", "fresh"}
  /\ \A old \in unsynced : Replay(old[1], old[2], effect) = Held

(* Memory shows what the log holds, or what a waiting call left.            *)
Fits(k, v) ==
  \/ v = Held[k]
  \/ \E c \in Calls : Waiting(c) /\ effect[c][k] # "keep" /\ v = Written(effect, c, k)

Memory ==
  /\ \A k \in Keys : Fits(k, store[k].val)
  /\ \A c \in Calls : status[c] = "bounced" => \A k \in Keys : Fits(k, prev[c][k])

LogInv == Control /\ Pendings /\ Logged /\ CopySound /\ Renamed /\ Memory

-----------------------------------------------------------------------------
(* More about replay. *)

LEMMA ReplayOne ==
  ASSUME NEW contents, NEW c \in Calls, NEW effectOf, NEW k \in Keys
  PROVE  Replay(contents, <<c>>, effectOf)[k] =
           IF effectOf[c][k] = "keep" THEN contents[k] ELSE Written(effectOf, c, k)
<1>1. CASE effectOf[c][k] = "keep"
  <2>1. Writers(<<c>>, effectOf, k) = {}
    BY <1>1 DEF Writers
  <2> QED BY <1>1, <2>1 DEF Replay
<1>2. CASE effectOf[c][k] # "keep"
  <2>1. Writers(<<c>>, effectOf, k) = {1}
    BY <1>2 DEF Writers
  <2>2. Max({1}) = 1
    BY MaxIs
  <2> QED BY <1>2, <2>1, <2>2 DEF Replay
<1> QED BY <1>1, <1>2

LEMMA ReplayAppend ==
  ASSUME NEW contents \in Contents, NEW log \in Seq(Calls), NEW c \in Calls, NEW effectOf, NEW k \in Keys
  PROVE  Replay(contents, Append(log, c), effectOf)[k] =
           IF effectOf[c][k] = "keep" THEN Replay(contents, log, effectOf)[k]
           ELSE Written(effectOf, c, k)
<1>1. Append(log, c) = log \o <<c>> /\ <<c>> \in Seq(Calls)
  OBVIOUS
<1> DEFINE one == <<c>>
           before == Replay(contents, log, effectOf)
<1>2. Replay(before, one, effectOf)[k] =
        IF effectOf[c][k] = "keep" THEN before[k] ELSE Written(effectOf, c, k)
  BY ReplayOne, Zenon
<1>3. Append(log, c) = log \o one /\ one \in Seq(Calls)
  BY <1>1
<1> HIDE DEF one
<1>4. Replay(contents, log \o one, effectOf) = Replay(before, one, effectOf)
  BY <1>3, ReplayInParts, ZenonT(60)
<1> QED BY <1>2, <1>3, <1>4, Zenon

LEMMA ReplayNothing ==
  ASSUME NEW contents \in Contents, NEW effectOf
  PROVE  Replay(contents, <<>>, effectOf) = contents
<1>1. \A k \in Keys : Writers(<<>>, effectOf, k) = {}
  BY DEF Writers
<1> QED BY <1>1 DEF Replay, Contents

(* Only the effects of the calls in the log matter.                         *)
LEMMA ReplayEffects ==
  ASSUME NEW contents, NEW log \in Seq(Calls), NEW one, NEW two,
         \A i \in DOMAIN log : one[log[i]] = two[log[i]]
  PROVE  Replay(contents, log, one) = Replay(contents, log, two)
<1> SUFFICES ASSUME NEW k \in Keys
             PROVE  Replay(contents, log, one)[k] = Replay(contents, log, two)[k]
  BY DEF Replay
<1>1. Writers(log, one, k) = Writers(log, two, k)
  BY DEF Writers
<1>2. CASE Writers(log, one, k) = {}
  BY <1>1, <1>2 DEF Replay
<1>3. CASE Writers(log, one, k) # {}
  <2> DEFINE m == Max(Writers(log, one, k))
  <2>1. m \in DOMAIN log
    <3>1. m \in Writers(log, one, k)
      BY <1>3, LastWriter, Zenon
    <3> QED BY <3>1, Zenon DEF Writers
  <2>2. one[log[m]] = two[log[m]]
    BY <2>1
  <2>3. Written(one, log[m], k) = Written(two, log[m], k)
    BY <2>2 DEF Written
  <2> QED BY <1>1, <1>3, <2>3 DEF Replay
<1> QED BY <1>2, <1>3

(* A snapshot that is right where the end of the log is silent can take the *)
(* place of the old one, and then the end of the log that of the log.       *)
LEMMA ReplayCopy ==
  ASSUME NEW old \in Contents, NEW new \in Contents, NEW effectOf,
         NEW log \in Seq(Calls), NEW s \in Seq(Calls), NEW b \in 0..Len(log), Len(s) = Len(log) - b,
         \A i \in 1..Len(s) : s[i] = log[b + i],
         \A k \in Keys : Writers(s, effectOf, k) = {} => new[k] = Replay(old, log, effectOf)[k]
  PROVE  /\ Replay(new, s, effectOf) = Replay(old, log, effectOf)
         /\ Replay(new, log, effectOf) = Replay(old, log, effectOf)
<1> DEFINE a == SubSeq(log, 1, b)
           e == SubSeq(log, b + 1, Len(log))
           mid == Replay(old, a, effectOf)
<1>1. a \in Seq(Calls) /\ e \in Seq(Calls) /\ log = a \o e /\ Len(e) = Len(log) - b
  BY CutAnywhere
<1>2. e = s
  <2>1. \A i \in 1..Len(e) : e[i] = log[b + i]
    BY <1>1
  <2>2. Len(e) = Len(s) /\ \A i \in 1..Len(e) : e[i] = s[i]
    BY <1>1, <2>1
  <2> HIDE DEF e
  <2> QED BY <1>1, <2>2, SeqEqual
<1> HIDE DEF a, e
<1>3. mid \in Contents
  BY <1>1, ReplayType
<1>4. Replay(old, log, effectOf) = Replay(mid, s, effectOf)
  BY <1>1, <1>2, ReplayInParts
<1> HIDE DEF mid
<1>5. Replay(new, s, effectOf) = Replay(mid, s, effectOf)
  <2>1. \A k \in Keys : Writers(s, effectOf, k) = {} => new[k] = mid[k]
    BY <1>4, ReplayUntouched
  <2> QED BY <2>1 DEF Replay
<1>6. Replay(new, log, effectOf) = Replay(old, log, effectOf)
  <2>1. ASSUME NEW k \in Keys, Writers(log, effectOf, k) = {} PROVE new[k] = old[k]
    <3>1. Writers(s, effectOf, k) = {}
      <4>1. \A i \in DOMAIN s : b + i \in DOMAIN log /\ s[i] = log[b + i]
        OBVIOUS
      <4> QED BY <2>1, <4>1 DEF Writers
    <3> QED BY <2>1, <3>1, ReplayUntouched
  <2> QED BY <2>1 DEF Replay
<1> QED BY <1>4, <1>5, <1>6

-----------------------------------------------------------------------------
(* The invariant, part by part.  Control. *)

LEMMA InitControl == Init => Control
BY DEF Init, Control, Rotating, Swapping, Before

LEMMA ControlKept ==
  ASSUME MaxFailedBatches = 0, TypeOK, StillInv, Control, [Next]_vars
  PROVE  Control'
<1> USE DEF Control, Rotating, Swapping, Before
<1>1. ASSUME NEW c \in Calls, NEW e \in Writes, Invoke(c, e) PROVE Control'
  BY <1>1 DEF Invoke, Gate, TypeOK, walVars, compactVars
<1>2. ASSUME NEW c \in Calls, PassGate(c) PROVE Control'
  BY <1>2 DEF PassGate, TypeOK, walVars, compactVars
<1>3. ASSUME NEW c \in Calls, Commit(c) PROVE Control'
  BY <1>3 DEF Commit, TypeOK
<1>4. ASSUME NEW c \in Calls, Bounce(c) PROVE Control'
  BY <1>4 DEF Bounce, TypeOK, walVars
<1>5. ~Reject /\ ~FailBatch
  BY DEF Reject, FailBatch, Below
<1>6. CASE TakeBatch \/ Land \/ SyncBatch
  BY <1>6 DEF TakeBatch, Land, SyncBatch, callVars, walVars, compactVars
<1>7. CASE ResolveBatch
  BY <1>7 DEF ResolveBatch, TypeOK, compactVars
<1>8. CASE Compact
  BY <1>8 DEF Compact, Spend, Quiet, callVars, walVars, TypeOK
<1>9. CASE CompactionStep
  <2>1. CASE Fence \/ SnapshotDone \/ PreCopy \/ Rotate \/ Drain \/ CloseWal \/ \E k \in Keys : SnapshotKey(k)
    BY <1>9, <2>1 DEF Fence, SnapshotDone, PreCopy, Rotate, Drain, CloseWal, SnapshotKey, callVars, walVars
  <2>2. CASE RenameSnap \/ FsyncDir \/ RenameWal \/ AssignWal
    BY <1>9, <2>2 DEF RenameSnap, FsyncDir, RenameWal, AssignWal, callVars, walVars, compactVars
  <2>3. CASE OpenWal \/ Abandon
    BY <1>9, <2>3 DEF OpenWal, Abandon, Release, Quiet, callVars
  <2> QED BY <1>9, <2>1, <2>2, <2>3 DEF CompactionStep
<1>10. CASE FailCompaction
  BY <1>10 DEF FailCompaction, Spend, Release, Quiet, callVars
<1>11. ASSUME NEW snap, NEW wal, NEW kept, CrashTo(snap, wal, kept) PROVE Control'
  BY <1>11 DEF CrashTo, Spend, Release, TypeOK
<1>12. CASE UNCHANGED vars
  BY <1>12 DEF vars, callVars, walVars, compactVars
<1> QED
  BY <1>1, <1>2, <1>3, <1>4, <1>5, <1>6, <1>7, <1>8, <1>9, <1>10, <1>11, <1>12
  DEF Next, CallStep, WalStep, ProcessCrash, PowerLoss

-----------------------------------------------------------------------------
(* Calls in batches, in the queue and in files. *)

LEMMA InitPendings == Init => Pendings /\ Logged
<1> SUFFICES ASSUME Init PROVE Pendings /\ Logged
  OBVIOUS
<1>1. batch = <<>> /\ queue = <<>> /\ walFile = <<>> /\ unsynced = {}
  BY DEF Init
<1>2. DOMAIN <<>> = {} /\ Range(<<>>) = {}
  BY DEF Range
<1> QED BY <1>1, <1>2 DEF Pendings, Logged, Distinct

LEMMA PendingsKept ==
  ASSUME TypeOK, Control, Control', Pendings, [Next]_vars
  PROVE  Pendings'
<1>a. batch \in Seq(Calls) /\ queue \in Seq(Calls) /\ status \in [Calls -> Status]
  BY DEF TypeOK
<1>b. Range(batch) \subseteq Calls /\ Range(queue) \subseteq Calls
  BY <1>a, RangeIn
<1>e. DOMAIN <<>> = {} /\ Range(<<>>) = {}
  BY DEF Range
<1>0. ASSUME UNCHANGED <<batch, queue>>,
             \A c \in Calls : status[c] = "pending" => status'[c] = "pending"
      PROVE  Pendings'
  BY <1>0, <1>b DEF Pendings
<1>1. ASSUME NEW c \in Calls, NEW e \in Writes, Invoke(c, e) PROVE Pendings'
  <2>1. status[c] = "idle"
    BY <1>1 DEF Invoke, Calls
  <2> QED BY <1>0, <1>1, <2>1 DEF Invoke, walVars, TypeOK
<1>2. ASSUME NEW c \in Calls, PassGate(c) \/ Bounce(c) PROVE Pendings'
  BY <1>0, <1>2 DEF PassGate, Bounce, walVars, TypeOK
<1>3. ASSUME NEW c \in Calls, Commit(c) PROVE Pendings'
  <2>1. c \notin Range(batch) /\ c \notin Range(queue)
    BY <1>3 DEF Commit, Pendings
  <2>2. CASE queue' = queue
    BY <1>0, <1>3, <2>2 DEF Commit, TypeOK
  <2>3. CASE queue' = Append(queue, c) /\ status' = [status EXCEPT ![c] = "pending"]
    <3>1. Distinct(Append(queue, c)) /\ Range(Append(queue, c)) = Range(queue) \cup {c}
      BY <1>a, <2>1, DistinctAppend, RangeAppend DEF Pendings
    <3>2. batch' = batch
      BY <1>3 DEF Commit
    <3> QED BY <1>a, <1>b, <2>1, <2>3, <3>1, <3>2 DEF Pendings
  <2> QED BY <1>3, <2>2, <2>3 DEF Commit
<1>4. ~Reject
  BY DEF Reject, Control
<1>5. CASE TakeBatch
  <2>1. batch' = queue /\ queue' = <<>> /\ status' = status
    BY <1>5 DEF TakeBatch, callVars
  <2> QED BY <1>e, <2>1 DEF Pendings, Distinct
<1>6. CASE Land \/ SyncBatch
  BY <1>0, <1>6 DEF Land, SyncBatch, callVars, walVars
<1>7. CASE ResolveBatch
  <2>1. batch' = <<>> /\ queue' = queue
    BY <1>7 DEF ResolveBatch
  <2>2. \A c \in Range(queue) : status'[c] = status[c]
    BY <1>7, <1>b DEF ResolveBatch, Pendings
  <2> QED BY <1>e, <2>1, <2>2 DEF Pendings, Distinct
<1>8. CASE FailBatch
  BY <1>8 DEF FailBatch, Flushing, Control
<1>9. CASE CompactionStep \/ Compact \/ FailCompaction \/ UNCHANGED vars
  <2>1. UNCHANGED <<batch, queue, status>>
    BY <1>9 DEF CompactionStep, Compact, FailCompaction, vars, callVars, walVars, Fence, SnapshotKey,
      SnapshotDone, PreCopy, Rotate, Drain, CloseWal, RenameSnap, FsyncDir, RenameWal, AssignWal,
      OpenWal, Abandon
  <2> QED BY <1>0, <2>1
<1>10. ASSUME NEW snap, NEW wal, NEW kept, CrashTo(snap, wal, kept) PROVE Pendings'
  BY <1>10, <1>e DEF CrashTo, Pendings, Distinct
<1> QED
  BY <1>1, <1>2, <1>3, <1>4, <1>5, <1>6, <1>7, <1>8, <1>9, <1>10
  DEF Next, CallStep, WalStep, ProcessCrash, PowerLoss

(* A call never becomes idle again.                                         *)
LEMMA StatusMoves ==
  ASSUME TypeOK, [Next]_vars, NEW c \in Calls, status[c] # "idle"
  PROVE  status'[c] # "idle"
<1>1. ASSUME NEW d \in Calls, NEW e \in Writes, Invoke(d, e) PROVE status'[c] # "idle"
  BY <1>1 DEF Invoke, Gate, TypeOK
<1>2. ASSUME NEW d \in Calls, PassGate(d) \/ Commit(d) \/ Bounce(d) PROVE status'[c] # "idle"
  BY <1>2 DEF PassGate, Commit, Bounce, TypeOK
<1>3. CASE Reject
  BY <1>3 DEF Reject, TypeOK
<1>4. CASE WalStep
  BY <1>4 DEF WalStep, TakeBatch, Land, SyncBatch, ResolveBatch, FailBatch, callVars, TypeOK
<1>5. CASE CompactionStep \/ Compact \/ FailCompaction \/ UNCHANGED vars
  BY <1>5 DEF CompactionStep, Compact, FailCompaction, vars, callVars, Fence, SnapshotKey,
    SnapshotDone, PreCopy, Rotate, Drain, CloseWal, RenameSnap, FsyncDir, RenameWal, AssignWal,
    OpenWal, Abandon
<1>6. ASSUME NEW snap, NEW wal, NEW kept, CrashTo(snap, wal, kept) PROVE status'[c] # "idle"
  BY <1>6 DEF CrashTo, TypeOK
<1> QED
  BY <1>1, <1>2, <1>3, <1>4, <1>5, <1>6 DEF Next, CallStep, ProcessCrash, PowerLoss

(* Nothing in s is idle.                                                    *)
Called(s) == \A i \in DOMAIN s : s[i] \in Calls /\ status[s[i]] # "idle"

LEMMA CalledKept ==
  ASSUME TypeOK, [Next]_vars, NEW s, Called(s)
  PROVE  \A i \in DOMAIN s : status'[s[i]] # "idle"
BY StatusMoves DEF Called

LEMMA LoggedKept ==
  ASSUME TypeOK, StillInv, Control, Pendings, Logged, CopySound, [Next]_vars
  PROVE  Logged'
<1>a. walFile \in Seq(Calls) /\ batch \in Seq(Calls) /\ landed \in 0..Len(batch)
  BY DEF TypeOK
<1>b. Called(walFile) /\ \A old \in unsynced : Called(old[2])
  BY <1>a DEF Logged, Called, TypeOK
<1>0. ASSUME walFile' = walFile, unsynced' \subseteq unsynced \cup {<<snapFile, walFile>>} PROVE Logged'
  <2>1. \A old \in unsynced' : Called(old[2])
    BY <1>0, <1>b
  <2> QED BY <1>0, <1>b, <2>1, CalledKept DEF Logged
<1>1. CASE CallStep \/ TakeBatch \/ SyncBatch \/ ResolveBatch \/ FailBatch \/ Compact \/ FailCompaction \/ UNCHANGED vars
  BY <1>0, <1>1 DEF CallStep, Invoke, PassGate, Commit, Bounce, Reject, TakeBatch, SyncBatch,
    ResolveBatch, FailBatch, Compact, FailCompaction, vars, diskVars
<1>2. CASE Land
  <2> DEFINE b == batch[landed + 1]
  <2>1. b \in Calls /\ b \in Range(batch)
    BY <1>a, <1>2 DEF Land, Range
  <2>2. status[b] # "idle"
    BY <2>1 DEF Pendings
  <2>3. Called(walFile')
    <3>1. walFile' = Append(walFile, b)
      BY <1>2 DEF Land
    <3> HIDE DEF b
    <3> QED BY <1>a, <1>b, <2>1, <2>2, <3>1 DEF Called
  <2>4. \A i \in DOMAIN walFile' : status'[walFile'[i]] # "idle"
    BY <2>3, CalledKept
  <2>5. unsynced' = unsynced
    BY <1>2 DEF Land
  <2> QED BY <1>b, <2>4, <2>5, CalledKept DEF Logged
<1>3. CASE CompactionStep /\ ~RenameWal
  <2>1. walFile' = walFile /\ unsynced' \subseteq unsynced \cup {<<snapFile, walFile>>}
    BY <1>3 DEF CompactionStep, diskVars, Fence, SnapshotKey,
      SnapshotDone, PreCopy, Rotate, Drain, CloseWal, RenameSnap, FsyncDir, AssignWal,
      OpenWal, Abandon
  <2> QED BY <1>0, <2>1
<1>4. CASE RenameWal
  <2>1. walFile' = walTmp /\ unsynced' = {<<snapFile, walFile>>}
    BY <1>4 DEF RenameWal
  <2>2. Called(walTmp)
    <3>1. \A i \in 1..Len(walTmp) : walTmp[i] = walFile[Base + i] /\ Base + i \in DOMAIN walFile
      <4>1. /\ copiedUpTo <= Len(walFile) /\ Len(walTmp) <= copiedUpTo
            /\ \A i \in 1..Len(walTmp) : walTmp[i] = walFile[Base + i]
        BY <1>4 DEF RenameWal, CopySound, Copying
      <4>2. Base = copiedUpTo - Len(walTmp) /\ copiedUpTo \in Nat /\ Len(walTmp) \in Nat
            /\ DOMAIN walFile = 1..Len(walFile) /\ Len(walFile) \in Nat
        BY DEF Base, TypeOK
      <4>3. \A i \in 1..Len(walTmp) : Base + i \in 1..Len(walFile)
        BY <4>1, <4>2
      <4> QED BY <4>1, <4>2, <4>3
    <3>2. DOMAIN walTmp = 1..Len(walTmp)
      BY DEF TypeOK
    <3> QED BY <1>b, <3>1, <3>2 DEF Called
  <2> QED BY <1>b, <2>1, <2>2, CalledKept DEF Logged
<1>5. CASE ProcessCrash
  BY <1>b, <1>5, CalledKept DEF ProcessCrash, CrashTo, Logged
<1>6. CASE PowerLoss
  <2>1. Called(walFile') /\ unsynced' = {}
    <3>1. ASSUME NEW n \in synced..Len(walFile), CrashTo(snapFile, SubSeq(walFile, 1, n), synced)
          PROVE  Called(walFile') /\ unsynced' = {}
      <4>1. SubSeq(walFile, 1, n) = [j \in 1..n |-> walFile[j]] /\ n \in 0..Len(walFile)
        BY <1>a, BeginningIs DEF TypeOK
      <4>2. walFile' = SubSeq(walFile, 1, n) /\ unsynced' = {}
        BY <3>1 DEF CrashTo
      <4> QED BY <1>b, <4>1, <4>2 DEF Called
    <3>2. ASSUME NEW old \in unsynced, CrashTo(old[1], old[2], Len(old[2]))
          PROVE  Called(walFile') /\ unsynced' = {}
      BY <1>b, <3>2 DEF CrashTo
    <3> QED BY <1>6, <3>1, <3>2 DEF PowerLoss
  <2> QED BY <2>1, CalledKept DEF Logged
<1> QED
  BY <1>1, <1>2, <1>3, <1>4, <1>5, <1>6 DEF Next, WalStep

-----------------------------------------------------------------------------
(* What the files and the frames on their way to them hold. *)

LEMMA HeldTyped ==
  ASSUME TypeOK
  PROVE  /\ SubSeq(batch, landed + 1, Len(batch)) \in Seq(Calls)
         /\ InFlight \in Seq(Calls) /\ Log \in Seq(Calls) /\ Held \in Contents
<1>1. SubSeq(batch, landed + 1, Len(batch)) \in Seq(Calls)
  BY CutAnywhere DEF TypeOK
<1>2. InFlight \in Seq(Calls)
  BY <1>1, ConcatProperties DEF InFlight, TypeOK
<1>3. Log \in Seq(Calls)
  BY <1>2, ConcatProperties DEF Log, TypeOK
<1>4. Held \in Contents
  BY <1>3, ReplayType DEF Held, TypeOK
<1> QED BY <1>1, <1>2, <1>3, <1>4

(* Who is in the log was called.                                            *)
LEMMA LogCalled ==
  ASSUME TypeOK, Pendings, Logged
  PROVE  Called(Log)
<1>a. /\ walFile \in Seq(Calls) /\ batch \in Seq(Calls) /\ queue \in Seq(Calls) /\ landed \in 0..Len(batch)
      /\ Log \in Seq(Calls)
  BY HeldTyped DEF TypeOK
<1> DEFINE rest == SubSeq(batch, landed + 1, Len(batch))
<1>1. \A x \in Range(rest) : x \in Range(batch)
  BY <1>a, EndIs DEF Range
<1>2. rest \in Seq(Calls)
  BY HeldTyped
<1> HIDE DEF rest
<1>3. Range(InFlight) = Range(rest) \cup Range(queue) /\ InFlight \in Seq(Calls)
  <2>1. InFlight = rest \o queue
    BY DEF InFlight, rest
  <2> QED BY <1>a, <1>2, <2>1, RangeConcatenation, HeldTyped
<1>4. Range(Log) = Range(walFile) \cup Range(InFlight)
  BY <1>a, <1>3, RangeConcatenation DEF Log
<1>5. \A x \in Range(Log) : status[x] # "idle"
  <2>1. \A x \in Range(walFile) : status[x] # "idle"
    BY <1>a DEF Logged, Range
  <2> QED BY <1>1, <1>3, <1>4, <2>1 DEF Pendings
<1>6. \A i \in DOMAIN Log : Log[i] \in Range(Log) /\ Log[i] \in Calls
  BY <1>a DEF Range
<1> QED BY <1>5, <1>6 DEF Called

LEMMA EndSplits ==
  ASSUME NEW T, NEW s \in Seq(T), NEW n \in Nat, n < Len(s)
  PROVE  SubSeq(s, n + 1, Len(s)) = <<s[n + 1]>> \o SubSeq(s, n + 2, Len(s))
OBVIOUS

LEMMA EndEmpty ==
  ASSUME NEW T, NEW s \in Seq(T)
  PROVE  SubSeq(s, Len(s) + 1, Len(s)) = <<>> /\ SubSeq(s, 1, Len(s)) = s
OBVIOUS

(* writev moves a frame from its way to the file into the file.             *)
LEMMA LandKeepsLog ==
  ASSUME TypeOK, Land
  PROVE  Log' = Log
<1> DEFINE b == batch[landed + 1]
           one == <<b>>
           rest == SubSeq(batch, landed + 2, Len(batch))
<1>1. /\ walFile \in Seq(Calls) /\ batch \in Seq(Calls) /\ queue \in Seq(Calls)
      /\ landed \in Nat /\ landed + 1 \in 0..Len(batch) /\ landed < Len(batch) /\ b \in Calls
  BY DEF TypeOK, Land
<1>2. /\ walFile' = Append(walFile, b) /\ landed' = landed + 1 /\ batch' = batch /\ queue' = queue
  BY DEF Land
<1>3. SubSeq(batch, landed + 1, Len(batch)) = one \o rest
  BY <1>1, EndSplits
<1>4. SubSeq(batch', landed' + 1, Len(batch')) = rest
  BY <1>1, <1>2
<1>5. rest \in Seq(Calls) /\ one \in Seq(Calls)
  <2>1. SubSeq(batch, (landed + 1) + 1, Len(batch)) \in Seq(Calls)
    BY <1>1, CutAnywhere
  <2> QED BY <1>1, <2>1
<1>6. walFile' = walFile \o one
  <2> HIDE DEF b
  <2> QED BY <1>1, <1>2
<1> HIDE DEF one, rest, b
<1>7. Log = walFile \o ((one \o rest) \o queue)
  BY <1>3 DEF Log, InFlight
<1>8. Log' = (walFile \o one) \o (rest \o queue)
  BY <1>2, <1>4, <1>6 DEF Log, InFlight
<1>9. \A x, y, z \in Seq(Calls) : (x \o y) \o z = x \o (y \o z)
  <2>1. Associative(Calls)
    BY Associates
  <2> QED BY <2>1, Zenon DEF Associative
<1>a. walFile \in Seq(Calls) /\ queue \in Seq(Calls) /\ one \in Seq(Calls) /\ rest \in Seq(Calls)
  BY <1>1, <1>5
<1>10. (one \o rest) \o queue = one \o (rest \o queue) /\ rest \o queue \in Seq(Calls)
  <2>1. (one \o rest) \o queue = one \o (rest \o queue)
    BY <1>a, <1>9, ZenonT(30)
  <2>2. rest \o queue \in Seq(Calls)
    BY <1>a, ConcatProperties, ZenonT(30)
  <2> QED BY <2>1, <2>2
<1>11. (walFile \o one) \o (rest \o queue) = walFile \o (one \o (rest \o queue))
  BY <1>a, <1>9, <1>10, ZenonT(30)
<1> QED BY <1>7, <1>8, <1>10, <1>11

LEMMA BatchKeepsLog ==
  ASSUME TypeOK, TakeBatch \/ ResolveBatch
  PROVE  Log' = Log
<1>1. /\ batch \in Seq(Calls) /\ queue \in Seq(Calls) /\ landed \in 0..Len(batch)
  BY DEF TypeOK
<1>2. \A s \in Seq(Calls) : <<>> \o s = s /\ s \o <<>> = s
  OBVIOUS
<1>3. SubSeq(<<>>, 1, Len(<<>>)) = <<>>
  OBVIOUS
<1>4. CASE TakeBatch
  <2>1. batch = <<>> /\ landed = 0 /\ batch' = queue /\ queue' = <<>> /\ landed' = 0 /\ walFile' = walFile
    BY <1>1, <1>4 DEF TakeBatch, Flushing, diskVars
  <2>2. SubSeq(batch, landed + 1, Len(batch)) = <<>> /\ SubSeq(batch', landed' + 1, Len(batch')) = queue
    BY <1>1, <1>3, <2>1, EndEmpty
  <2> QED BY <1>1, <1>2, <2>1, <2>2 DEF Log, InFlight
<1>5. CASE ResolveBatch
  <2>1. landed = Len(batch) /\ batch' = <<>> /\ landed' = 0 /\ queue' = queue /\ walFile' = walFile
    BY <1>5 DEF ResolveBatch, BatchDurable, diskVars
  <2>2. SubSeq(batch, landed + 1, Len(batch)) = <<>> /\ SubSeq(batch', landed' + 1, Len(batch')) = <<>>
    BY <1>1, <1>3, <2>1, EndEmpty
  <2> QED BY <2>1, <2>2 DEF Log, InFlight
<1> QED BY <1>4, <1>5

(* While the logs are swapped the log is the file.                          *)
LEMMA LogIsFile ==
  ASSUME TypeOK, batch = <<>>, queue = <<>>
  PROVE  Log = walFile
<1>1. landed = 0 /\ SubSeq(batch, landed + 1, Len(batch)) = <<>>
  BY DEF TypeOK
<1>2. InFlight = <<>>
  BY <1>1 DEF InFlight
<1> QED BY <1>2 DEF Log, TypeOK

(* What lands behind the copy.                                              *)
LEMMA SilentIs ==
  ASSUME TypeOK, StillInv, CopySound, phase \in {"close", "renameSnap", "renameWal"}
  PROVE  /\ Len(walTmp) \in 0..Len(walFile) /\ Base = Len(walFile) - Len(walTmp)
         /\ \A i \in 1..Len(walTmp) : walTmp[i] = walFile[Base + i]
         /\ todo = {}
         /\ Log = walFile
         /\ \A k \in Keys : Writers(walTmp, effect, k) = {} => Silent(k)
         /\ \A k \in Keys : Writers(walTmp, effect, k) = {} => snapTmp[k] = Replay(snapFile, walFile, effect)[k]
<1>1. batch = <<>> /\ queue = <<>>
  BY DEF StillInv, StandStill, Swapping
<1>2. Len(walTmp) \in 0..Len(walFile) /\ Base = Len(walFile) - Len(walTmp)
  BY DEF CopySound, Copying, Swapping, Base, TypeOK
<1>3. \A i \in 1..Len(walTmp) : walTmp[i] = walFile[Base + i]
  BY DEF CopySound, Copying
<1>4. todo = {}
  BY DEF CopySound, Copying
<1>5. Log = walFile
  BY <1>1, LogIsFile
<1>6. ASSUME NEW k \in Keys, Writers(walTmp, effect, k) = {} PROVE Silent(k)
  <2>1. \A i \in 1..Len(walTmp) : effect[walTmp[i]][k] = "keep"
    BY <1>6 DEF Writers, TypeOK
  <2>2. ASSUME NEW i \in (Base + 1)..Len(walFile) PROVE effect[walFile[i]][k] = "keep"
    <3>1. i - Base \in 1..Len(walTmp) /\ Base + (i - Base) = i
      BY <1>2 DEF TypeOK
    <3> QED BY <1>3, <2>1, <3>1
  <2>3. (landed + 1)..Len(batch) = {} /\ DOMAIN queue = {}
    BY <1>1 DEF TypeOK
  <2> QED BY <2>2, <2>3 DEF Silent
<1>7. \A k \in Keys : Silent(k) => snapTmp[k] = Held[k]
  BY <1>4 DEF CopySound, Copying
<1>8. Held = Replay(snapFile, walFile, effect)
  BY <1>5 DEF Held
<1> QED BY <1>2, <1>3, <1>4, <1>5, <1>6, <1>7, <1>8

(* The two renames: the snapshot and the end of the log hold what the old   *)
(* snapshot and the whole log held.                                         *)
LEMMA RenamesKeepHeld ==
  ASSUME TypeOK, StillInv, CopySound, RenameSnap \/ RenameWal
  PROVE  /\ Held' = Held
         /\ Held = Replay(snapFile, walFile, effect)
<1>1. batch = <<>> /\ queue = <<>> /\ batch' = <<>> /\ queue' = <<>> /\ effect' = effect /\ landed' = landed
  BY DEF RenameSnap, RenameWal, walVars, callVars, StillInv, StandStill, Swapping
<1>2. /\ snapFile \in Contents /\ snapTmp \in Contents /\ walFile \in Seq(Calls) /\ walTmp \in Seq(Calls)
      /\ landed = 0
  BY <1>1 DEF TypeOK
<1>3. phase \in {"close", "renameSnap", "renameWal"}
  BY DEF RenameSnap, RenameWal
<1>4. Held = Replay(snapFile, walFile, effect)
  BY <1>1, LogIsFile DEF Held
<1>5. Held' = Replay(snapFile', walFile', effect)
  <2>1. walFile' \in Seq(Calls)
    BY <1>2 DEF RenameSnap, RenameWal
  <2>2. SubSeq(batch', landed' + 1, Len(batch')) = <<>>
    BY <1>1, <1>2
  <2>3. InFlight' = <<>>
    BY <1>1, <2>2 DEF InFlight
  <2>4. Log' = walFile'
    BY <2>1, <2>3 DEF Log
  <2> QED BY <1>1, <2>4 DEF Held
<1>6. Replay(snapTmp, walTmp, effect) = Held /\ Replay(snapTmp, walFile, effect) = Held
  <2> DEFINE b == Len(walFile) - Len(walTmp)
  <2>1. /\ b \in 0..Len(walFile) /\ Len(walTmp) = Len(walFile) - b
        /\ \A i \in 1..Len(walTmp) : walTmp[i] = walFile[b + i]
        /\ \A k \in Keys : Writers(walTmp, effect, k) = {} => snapTmp[k] = Replay(snapFile, walFile, effect)[k]
    BY <1>2, <1>3, SilentIs
  <2> HIDE DEF b
  <2>2. /\ Replay(snapTmp, walTmp, effect) = Replay(snapFile, walFile, effect)
        /\ Replay(snapTmp, walFile, effect) = Replay(snapFile, walFile, effect)
    BY <1>2, <2>1, ReplayCopy, ZenonT(60)
  <2> QED BY <1>4, <2>2
<1>7. CASE RenameSnap
  BY <1>4, <1>5, <1>6, <1>7 DEF RenameSnap
<1>8. CASE RenameWal
  <2>1. snapFile = snapTmp
    BY <1>8 DEF RenameWal, CopySound, Copying
  <2>2. snapFile' = snapFile /\ walFile' = walTmp
    BY <1>8 DEF RenameWal
  <2> QED BY <1>4, <1>5, <1>6, <2>1, <2>2
<1> QED BY <1>4, <1>7, <1>8

Crashes == \E snap \in Contents, wal \in Seq(Calls) : \E kept \in 0..Len(wal) : CrashTo(snap, wal, kept)

(* The steps that are neither a commit nor a crash.                         *)
Keeps ==
  \/ \E c \in Calls, e \in Writes : Invoke(c, e)
  \/ \E c \in Calls : PassGate(c) \/ Bounce(c)
  \/ Reject \/ WalStep \/ CompactionStep \/ Compact \/ FailCompaction \/ UNCHANGED vars

(* Only a call that gets into the queue, or a crash, changes what is held.  *)
LEMMA HeldStays ==
  ASSUME TypeOK, StillInv, Control, Control', Pendings, Logged, CopySound, Keeps
  PROVE  Held' = Held
<1>0. ASSUME UNCHANGED <<walFile, snapFile, batch, landed, queue, effect>> PROVE Held' = Held
  BY <1>0 DEF Held, Log, InFlight
<1>a. ASSUME Log' = Log, UNCHANGED <<snapFile, effect>> PROVE Held' = Held
  BY <1>a DEF Held
<1>1. ASSUME NEW c \in Calls, NEW e \in Writes, Invoke(c, e) PROVE Held' = Held
  <2>1. status[c] = "idle" /\ effect' = [effect EXCEPT ![c] = e]
    BY <1>1 DEF Invoke, Calls
  <2>2. \A i \in DOMAIN Log : Log[i] \in Calls /\ Log[i] # c
    BY <2>1, LogCalled DEF Called
  <2>3. \A i \in DOMAIN Log : effect[Log[i]] = effect'[Log[i]]
    BY <2>1, <2>2 DEF TypeOK
  <2>4. Log \in Seq(Calls)
    BY HeldTyped
  <2>5. Replay(snapFile, Log, effect) = Replay(snapFile, Log, effect')
    BY <2>3, <2>4, ReplayEffects
  <2>6. Log' = Log /\ snapFile' = snapFile
    BY <1>1 DEF Invoke, walVars, diskVars, Log, InFlight
  <2> QED BY <2>5, <2>6 DEF Held
<1>2. ASSUME NEW c \in Calls, PassGate(c) \/ Bounce(c) PROVE Held' = Held
  BY <1>0, <1>2 DEF PassGate, Bounce, walVars, diskVars
<1>3. ~Reject
  BY DEF Reject, Control
<1>4. CASE TakeBatch \/ ResolveBatch
  BY <1>a, <1>4, BatchKeepsLog DEF TakeBatch, ResolveBatch, callVars, diskVars
<1>5. CASE Land
  BY <1>a, <1>5, LandKeepsLog DEF Land, callVars
<1>6. CASE SyncBatch
  BY <1>0, <1>6 DEF SyncBatch, callVars, walVars
<1>7. CASE FailBatch
  BY <1>7 DEF FailBatch, Flushing, Control
<1>8. CASE Compact \/ FailCompaction \/ UNCHANGED vars
  BY <1>0, <1>8 DEF Compact, FailCompaction, vars, callVars, walVars, diskVars
<1>9. CASE RenameSnap \/ RenameWal
  BY <1>9, RenamesKeepHeld
<1>10. CASE CompactionStep /\ ~RenameSnap /\ ~RenameWal
  <2>1. UNCHANGED <<walFile, snapFile, batch, landed, queue, effect>>
    BY <1>10 DEF CompactionStep, callVars, walVars, diskVars, Fence, SnapshotKey,
      SnapshotDone, PreCopy, Rotate, Drain, CloseWal, FsyncDir, AssignWal, OpenWal, Abandon
  <2> QED BY <1>0, <2>1
<1> QED
  BY <1>1, <1>2, <1>3, <1>4, <1>5, <1>6, <1>7, <1>8, <1>9, <1>10 DEF Keeps, WalStep

LEMMA CommitHolds ==
  ASSUME TypeOK, NEW c \in Calls, Commit(c)
  PROVE  /\ effect' = effect
         /\ walState \in {"sealed", "closed"} => Held' = Held
         /\ walState \notin {"sealed", "closed"} =>
              \A k \in Keys : Held'[k] = IF effect[c][k] = "keep" THEN Held[k] ELSE Written(effect, c, k)
<1>1. UNCHANGED <<effect, batch, landed, walFile, snapFile>>
  BY DEF Commit, diskVars
<1>2. CASE walState \in {"sealed", "closed"}
  <2>1. queue' = queue
    BY <1>2 DEF Commit
  <2> QED BY <1>1, <1>2, <2>1 DEF Held, Log, InFlight
<1>3. CASE walState \notin {"sealed", "closed"}
  <2> DEFINE rest == SubSeq(batch, landed + 1, Len(batch))
  <2>1. queue' = Append(queue, c)
    BY <1>3 DEF Commit
  <2>2. rest \in Seq(Calls) /\ queue \in Seq(Calls) /\ walFile \in Seq(Calls) /\ InFlight \in Seq(Calls)
        /\ Log \in Seq(Calls) /\ snapFile \in Contents
    BY HeldTyped DEF TypeOK
  <2>3. InFlight = rest \o queue /\ InFlight' = rest \o Append(queue, c)
    BY <1>1, <2>1 DEF InFlight
  <2> HIDE DEF rest
  <2>4. InFlight' = Append(InFlight, c)
    BY <2>2, <2>3, ConcatAppend
  <2>5. Log' = walFile \o Append(InFlight, c)
    BY <1>1, <2>4 DEF Log
  <2>6. Log' = Append(Log, c)
    BY <2>2, <2>5, ConcatAppend DEF Log
  <2>7. Held' = Replay(snapFile, Append(Log, c), effect)
    BY <1>1, <2>6 DEF Held
  <2>8. \A k \in Keys : Replay(snapFile, Append(Log, c), effect)[k] =
          IF effect[c][k] = "keep" THEN Replay(snapFile, Log, effect)[k] ELSE Written(effect, c, k)
    BY <2>2, ReplayAppend
  <2> QED BY <1>1, <1>3, <2>7, <2>8 DEF Held
<1> QED BY <1>2, <1>3

(* Recovery holds what the files hold.                                      *)
LEMMA CrashHolds ==
  ASSUME TypeOK, NEW snap \in Contents, NEW wal \in Seq(Calls), NEW kept, CrashTo(snap, wal, kept)
  PROVE  /\ Held' = Replay(snap, wal, effect) /\ store' = Fresh(Held') /\ effect' = effect
         /\ phase' = "idle" /\ unsynced' = {}
         /\ \A c \in Calls : status'[c] \notin {"bounced", "parked"}
<1>1. snapFile' = snap /\ walFile' = wal /\ queue' = <<>> /\ batch' = <<>> /\ landed' = 0 /\ effect' = effect
  BY DEF CrashTo
<1>2. SubSeq(batch', landed' + 1, Len(batch')) = <<>>
  BY <1>1
<1>3. InFlight' = <<>>
  BY <1>1, <1>2 DEF InFlight
<1>4. Log' = wal
  BY <1>1, <1>3 DEF Log
<1>5. Held' = Replay(snap, wal, effect)
  BY <1>1, <1>4 DEF Held
<1> QED BY <1>1, <1>5 DEF CrashTo, Recovered, Release, TypeOK

LEMMA CrashIs ==
  ASSUME TypeOK, ProcessCrash \/ PowerLoss
  PROVE  Crashes
<1>1. CASE ProcessCrash
  BY <1>1 DEF ProcessCrash, Crashes, TypeOK
<1>2. ASSUME NEW n \in synced..Len(walFile), CrashTo(snapFile, SubSeq(walFile, 1, n), synced)
      PROVE  Crashes
  <2> DEFINE wal == SubSeq(walFile, 1, n)
  <2>1. n \in 0..Len(walFile) /\ synced \in 0..n /\ snapFile \in Contents
    BY DEF TypeOK
  <2>2. wal \in Seq(Calls) /\ synced \in 0..Len(wal)
    BY <2>1, CutAnywhere DEF TypeOK
  <2> HIDE DEF wal
  <2>3. CrashTo(snapFile, wal, synced)
    BY <1>2 DEF wal
  <2> QED BY <2>1, <2>2, <2>3 DEF Crashes
<1>3. ASSUME NEW old \in unsynced, CrashTo(old[1], old[2], Len(old[2])) PROVE Crashes
  <2>1. old[1] \in Contents /\ old[2] \in Seq(Calls)
    BY DEF TypeOK
  <2>2. Len(old[2]) \in 0..Len(old[2])
    BY <2>1
  <2> QED BY <1>3, <2>1, <2>2 DEF Crashes
<1> QED BY <1>1, <1>2, <1>3 DEF PowerLoss

LEMMA NextIs ==
  [Next]_vars => Keeps \/ (\E c \in Calls : Commit(c)) \/ ProcessCrash \/ PowerLoss
BY DEF Next, CallStep, Keeps

-----------------------------------------------------------------------------
(* The copy of the log and the snapshot. *)

LEMMA CopyStays ==
  ASSUME CopySound, Held' = Held,
         UNCHANGED <<phase, copiedUpTo, walTmp, walFile, snapTmp, snapFile, todo>>,
         phase = "snapshot" => todo' \subseteq Live(store'),
         \A k \in Keys : Silent(k)' => Silent(k)
  PROVE  CopySound'
<1>1. Base' = Base
  BY DEF Base
<1>2. Live(store)' = Live(store')
  BY DEF Live
<1> QED BY <1>1, <1>2 DEF CopySound

LEMMA SilentStays ==
  ASSUME UNCHANGED <<copiedUpTo, walTmp, walFile, landed, batch, queue, effect>>
  PROVE  \A k \in Keys : Silent(k)' => Silent(k)
BY DEF Silent, Base

(* Where nobody waits memory is what is held.                               *)
LEMMA NobodyWaits ==
  ASSUME Memory, \A c \in Calls : ~Waiting(c)
  PROVE  \A k \in Keys : store[k].val = Held[k]
BY DEF Memory, Fits

LEMMA BeforeNobodyWaits ==
  ASSUME Control, phase \in Before
  PROVE  \A c \in Calls : ~Waiting(c)
BY DEF Control, Waiting

LEMMA InvokeKeepsCopy ==
  ASSUME TypeOK, StillInv, Control, Control', Pendings, Logged, CopySound,
         NEW c \in Calls, NEW e \in Writes, Invoke(c, e)
  PROVE  CopySound'
<1>a. /\ walFile \in Seq(Calls) /\ batch \in Seq(Calls) /\ queue \in Seq(Calls) /\ landed \in 0..Len(batch)
      /\ effect \in [Calls -> Effects] /\ DOMAIN walFile = 1..Len(walFile) /\ DOMAIN batch = 1..Len(batch)
      /\ copiedUpTo \in Nat /\ walTmp \in Seq(Calls)
  BY DEF TypeOK
<1>1. status[c] = "idle" /\ effect' = [effect EXCEPT ![c] = e]
  BY DEF Invoke, Calls
<1>2. \A i \in DOMAIN walFile : walFile[i] # c /\ walFile[i] \in Calls
  BY <1>a, <1>1 DEF Logged
<1>3. /\ \A i \in DOMAIN batch : batch[i] # c /\ batch[i] \in Calls
      /\ \A i \in DOMAIN queue : queue[i] # c /\ queue[i] \in Calls
  BY <1>a, <1>1 DEF Pendings, Range
<1>4. UNCHANGED <<phase, copiedUpTo, walTmp, walFile, snapTmp, snapFile, todo, landed, batch, queue, store>>
  BY DEF Invoke, walVars, diskVars, compactVars
<1>5. ASSUME CopySound, phase \in Copying, NEW k \in Keys, Silent(k)' PROVE Silent(k)
  <2>0. Len(walTmp) <= copiedUpTo /\ Len(walTmp) \in Nat
    <3>1. Len(walTmp) <= copiedUpTo
      BY <1>5 DEF CopySound
    <3>2. Len(walTmp) \in Nat
      BY <1>a
    <3> QED BY <3>1, <3>2
  <2>1. Base' = Base /\ Base \in Nat
    BY <1>a, <1>4, <2>0 DEF Base
  <2>2. ASSUME NEW i \in (Base + 1)..Len(walFile) PROVE effect[walFile[i]][k] = "keep"
    <3>1. i \in DOMAIN walFile
      BY <1>a, <2>1
    <3>2. effect'[walFile[i]] = effect[walFile[i]]
      BY <1>a, <1>1, <1>2, <3>1
    <3>3. effect'[walFile[i]][k] = "keep"
      BY <1>4, <1>5, <2>1 DEF Silent
    <3> QED BY <3>2, <3>3
  <2>3. ASSUME NEW i \in (landed + 1)..Len(batch) PROVE effect[batch[i]][k] = "keep"
    <3>1. i \in DOMAIN batch
      BY <1>a
    <3>2. effect'[batch[i]] = effect[batch[i]]
      BY <1>a, <1>1, <1>3, <3>1
    <3>3. effect'[batch[i]][k] = "keep"
      BY <1>4, <1>5 DEF Silent
    <3> QED BY <3>2, <3>3
  <2>4. ASSUME NEW i \in DOMAIN queue PROVE effect[queue[i]][k] = "keep"
    <3>1. effect'[queue[i]] = effect[queue[i]]
      BY <1>a, <1>1, <1>3
    <3>2. effect'[queue[i]][k] = "keep"
      BY <1>4, <1>5 DEF Silent
    <3> QED BY <3>1, <3>2
  <2> QED BY <2>2, <2>3, <2>4 DEF Silent
<1>6. Keeps
  BY DEF Keeps
<1>7. Held' = Held
  BY <1>6, HeldStays
<1>8. CASE phase \in Copying
  <2>1. phase = "snapshot" => todo' \subseteq Live(store')
    BY <1>4, <1>8 DEF CopySound
  <2> QED BY <1>4, <1>5, <1>7, <1>8, <2>1, CopyStays
<1>9. CASE phase \notin Copying
  BY <1>4, <1>9 DEF CopySound
<1> QED BY <1>8, <1>9

LEMMA CommitKeepsCopy ==
  ASSUME TypeOK, StillInv, Control, Control', CopySound, Memory, NEW c \in Calls, Commit(c)
  PROVE  CopySound'
<1>a. /\ queue \in Seq(Calls) /\ effect \in [Calls -> Effects] /\ store \in [Keys -> Record]
      /\ walState \in {"open", "sealed", "closed", "unopened"}
  BY DEF TypeOK
<1>1. /\ UNCHANGED <<phase, copiedUpTo, walTmp, walFile, snapTmp, snapFile, landed, batch, effect>>
      /\ ChangeStore(Applied(c))
  BY DEF Commit, diskVars
<1>2. SUFFICES ASSUME phase \in Copying PROVE CopySound'
  BY <1>1 DEF CopySound
<1>3. CASE walState \in {"sealed", "closed"}
  <2>1. phase # "snapshot" /\ queue' = queue
    BY <1>3 DEF Control, Rotating, Swapping, Commit
  <2>2. todo' = todo
    BY <1>1, <2>1 DEF ChangeStore
  <2>3. \A k \in Keys : Silent(k)' => Silent(k)
    BY <1>1, <2>1, SilentStays
  <2>4. Held' = Held
    BY <1>3, CommitHolds
  <2> QED BY <1>1, <2>1, <2>2, <2>3, <2>4, CopyStays
<1>4. CASE walState \notin {"sealed", "closed"}
  <2>1. walState = "open" /\ phase \in {"snapshot", "precopy"}
    BY <1>a, <1>2, <1>4 DEF Control, Rotating, Swapping, Copying, StillInv, UnopenedOnlyInOpen
  <2>2. queue' = Append(queue, c)
    BY <2>1 DEF Commit
  <2>3. \A k \in Keys : store[k].val = Held[k]
    BY <2>1, BeforeNobodyWaits, NobodyWaits DEF Before
  <2>4. \A k \in Keys : Held'[k] = IF effect[c][k] = "keep" THEN Held[k] ELSE Written(effect, c, k)
    BY <1>4, CommitHolds
  <2>5. ASSUME NEW k \in Keys, Silent(k)' PROVE effect[c][k] = "keep" /\ Silent(k)
    <3>1. \A i \in DOMAIN Append(queue, c) : effect[Append(queue, c)[i]][k] = "keep"
      BY <1>1, <2>2, <2>5 DEF Silent
    <3>2. \A i \in DOMAIN queue : effect[queue[i]][k] = "keep"
      <4>1. \A i \in DOMAIN queue : i \in DOMAIN Append(queue, c) /\ Append(queue, c)[i] = queue[i]
        BY <1>a
      <4> QED BY <3>1, <4>1
    <3>3. effect[c][k] = "keep"
      <4>1. Len(queue) + 1 \in DOMAIN Append(queue, c) /\ Append(queue, c)[Len(queue) + 1] = c
        BY <1>a
      <4> QED BY <3>1, <4>1
    <3>4. Base' = Base
      BY <1>1 DEF Base
    <3> QED BY <1>1, <2>5, <3>2, <3>3, <3>4 DEF Silent
  <2>6. ASSUME NEW k \in Keys \ todo', Silent(k)' PROVE snapTmp[k] = Held'[k]
    <3>1. effect[c][k] = "keep" /\ Silent(k)
      BY <2>5, <2>6
    <3>2. Held'[k] = Held[k] /\ store'[k] = store[k]
      BY <1>1, <2>4, <3>1 DEF ChangeStore, Applied
    <3>3. k \notin todo
      <4>1. CASE phase = "snapshot"
        <5>1. todo' = {x \in Keys : store'[x].val # Absent /\ (x \in todo \/ store[x].val = Absent)}
          BY <1>1, <4>1 DEF ChangeStore
        <5>2. todo \subseteq Live(store)
          BY <1>2, <4>1 DEF CopySound
        <5> QED BY <2>6, <3>2, <5>1, <5>2 DEF Live
      <4>2. CASE phase # "snapshot"
        BY <1>2, <4>2 DEF CopySound
      <4> QED BY <4>1, <4>2
    <3> QED BY <1>2, <3>1, <3>2, <3>3 DEF CopySound
  <2>7. IF phase = "snapshot" THEN todo' \subseteq Live(store') ELSE todo' = {}
    <3>1. CASE phase = "snapshot"
      BY <1>1, <3>1 DEF ChangeStore, Live
    <3>2. CASE phase # "snapshot"
      BY <1>1, <1>2, <3>2 DEF ChangeStore, CopySound
    <3> QED BY <3>1, <3>2
  <2>8. phase' \notin Swapping /\ phase' # "renameWal"
    BY <1>1, <2>1 DEF Swapping
  <2>9. Base' = Base /\ Live(store)' = Live(store')
    BY <1>1 DEF Base, Live
  <2> QED BY <1>1, <1>2, <2>6, <2>7, <2>8, <2>9 DEF CopySound
<1> QED BY <1>3, <1>4

LEMMA LandKeepsCopy ==
  ASSUME TypeOK, StillInv, Control, Control', Pendings, Logged, CopySound, Land
  PROVE  CopySound'
<1> DEFINE b == batch[landed + 1]
<1>a. /\ walFile \in Seq(Calls) /\ batch \in Seq(Calls) /\ landed \in Nat /\ landed < Len(batch) /\ b \in Calls
      /\ copiedUpTo \in Nat /\ walTmp \in Seq(Calls)
  BY DEF TypeOK, Land
<1>1. /\ walFile' = Append(walFile, b) /\ landed' = landed + 1
      /\ UNCHANGED <<phase, copiedUpTo, walTmp, snapTmp, snapFile, todo, batch, queue, store, effect>>
      /\ batch # <<>>
  BY DEF Land, Flushing, callVars, compactVars
<1>2. Held' = Held
  BY HeldStays DEF Keeps, WalStep
<1>3. SUFFICES ASSUME phase \in Copying PROVE CopySound'
  BY <1>1 DEF CopySound
<1>4. /\ copiedUpTo <= Len(walFile) /\ Len(walTmp) <= copiedUpTo
      /\ \A i \in 1..Len(walTmp) : walTmp[i] = walFile[Base + i]
      /\ IF phase = "snapshot" THEN todo \subseteq Live(store) ELSE todo = {}
      /\ \A k \in Keys \ todo : Silent(k) => snapTmp[k] = Held[k]
  BY <1>3 DEF CopySound
<1>5. Base' = Base /\ Live(store)' = Live(store)
  BY <1>1 DEF Base, Live
<1>6. Len(walTmp) \in Nat /\ Len(walFile) \in Nat /\ Base \in Nat /\ Base + Len(walTmp) = copiedUpTo
  BY <1>a, <1>4 DEF Base
<1>7. /\ Len(walFile') = Len(walFile) + 1 /\ walFile'[Len(walFile) + 1] = b
      /\ \A i \in 1..Len(walFile) : walFile'[i] = walFile[i]
  <2> HIDE DEF b
  <2> QED BY <1>a, <1>1
<1>8. ASSUME NEW k \in Keys, Silent(k)' PROVE Silent(k)
  <2>1. \A i \in (Base + 1)..(Len(walFile) + 1) : effect[walFile'[i]][k] = "keep"
    BY <1>1, <1>5, <1>7, <1>8 DEF Silent
  <2>2. \A i \in (Base + 1)..Len(walFile) : effect[walFile[i]][k] = "keep"
    BY <1>6, <1>7, <2>1
  <2>3. effect[b][k] = "keep"
    <3>1. Base + 1 <= Len(walFile) + 1
      BY <1>4, <1>6
    <3> QED BY <1>6, <1>7, <2>1, <3>1
  <2>4. \A i \in (landed + 2)..Len(batch) : effect[batch[i]][k] = "keep"
    BY <1>a, <1>1, <1>8 DEF Silent
  <2>5. \A i \in (landed + 1)..Len(batch) : effect[batch[i]][k] = "keep"
    <3>1. \A i \in (landed + 1)..Len(batch) : i = landed + 1 \/ i \in (landed + 2)..Len(batch)
      BY <1>a
    <3> QED BY <2>3, <2>4, <3>1
  <2>6. \A i \in DOMAIN queue : effect[queue[i]][k] = "keep"
    BY <1>1, <1>8 DEF Silent
  <2> QED BY <2>2, <2>5, <2>6 DEF Silent
<1>9. phase \notin Swapping
  BY <1>1 DEF StillInv, StandStill
<1>10. ASSUME NEW i \in 1..Len(walTmp) PROVE walTmp[i] = walFile'[Base + i]
  <2>1. Base + i \in 1..Len(walFile)
    BY <1>4, <1>6
  <2> QED BY <1>4, <1>7, <2>1
<1>11. phase # "renameWal"
  BY <1>9 DEF Swapping
<1>12. copiedUpTo <= Len(walFile')
  BY <1>a, <1>4, <1>6, <1>7
<1> QED
  <2>1. \A k \in Keys \ todo' : Silent(k)' => snapTmp'[k] = Held'[k]
    BY <1>1, <1>2, <1>4, <1>8
  <2>2. \A i \in 1..Len(walTmp') : walTmp'[i] = walFile'[Base' + i]
    BY <1>1, <1>5, <1>10
  <2> QED BY <1>1, <1>4, <1>5, <1>9, <1>11, <1>12, <2>1, <2>2 DEF CopySound

LEMMA BatchKeepsCopy ==
  ASSUME TypeOK, StillInv, Control, Control', Pendings, Logged, CopySound,
         TakeBatch \/ SyncBatch \/ ResolveBatch
  PROVE  CopySound'
<1>a. batch \in Seq(Calls) /\ queue \in Seq(Calls) /\ landed \in 0..Len(batch)
  BY DEF TypeOK
<1>1. UNCHANGED <<phase, copiedUpTo, walTmp, walFile, snapTmp, snapFile, todo, store, effect>>
  BY DEF TakeBatch, SyncBatch, ResolveBatch, callVars, diskVars, compactVars
<1>2. Held' = Held
  BY HeldStays DEF Keeps, WalStep
<1>3. Base' = Base
  BY <1>1 DEF Base
<1>4. ASSUME NEW k \in Keys, Silent(k)' PROVE Silent(k)
  <2>1. CASE TakeBatch
    <3>1. batch = <<>> /\ landed = 0 /\ batch' = queue /\ landed' = 0
      BY <1>a, <2>1 DEF TakeBatch, Flushing
    <3>2. (landed + 1)..Len(batch) = {} /\ DOMAIN queue = (landed' + 1)..Len(queue)
      BY <1>a, <3>1
    <3> QED BY <1>1, <1>3, <1>4, <3>1, <3>2 DEF Silent
  <2>2. CASE SyncBatch
    BY <1>1, <1>3, <1>4, <2>2 DEF Silent, SyncBatch, walVars
  <2>3. CASE ResolveBatch
    <3>1. landed = Len(batch) /\ queue' = queue
      BY <2>3 DEF ResolveBatch, BatchDurable
    <3>2. (landed + 1)..Len(batch) = {}
      BY <1>a, <3>1
    <3> QED BY <1>1, <1>3, <1>4, <3>1, <3>2 DEF Silent
  <2> QED BY <2>1, <2>2, <2>3
<1>5. CASE phase \in Copying
  <2>1. phase = "snapshot" => todo' \subseteq Live(store')
    BY <1>1, <1>5 DEF CopySound
  <2> QED BY <1>1, <1>2, <1>4, <2>1, CopyStays
<1>6. CASE phase \notin Copying
  BY <1>1, <1>6 DEF CopySound
<1> QED BY <1>5, <1>6

LEMMA PassKeepsCopy ==
  ASSUME TypeOK, StillInv, Control, Control', Pendings, Logged, CopySound,
         NEW c \in Calls, PassGate(c) \/ Bounce(c)
  PROVE  CopySound'
<1>1. UNCHANGED <<phase, copiedUpTo, walTmp, walFile, snapTmp, snapFile, landed, batch, queue, effect>>
  BY DEF PassGate, Bounce, walVars, diskVars, compactVars
<1>2. Held' = Held
  BY HeldStays DEF Keeps
<1>3. phase = "snapshot" => PassGate(c)
  BY DEF Control, Bounce, Before
<1>4. todo' = todo /\ (phase = "snapshot" => store' = store)
  BY <1>3 DEF PassGate, Bounce, ChangeStore, compactVars
<1>5. \A k \in Keys : Silent(k)' => Silent(k)
  BY <1>1, SilentStays
<1>6. CASE phase \in Copying
  <2>1. phase = "snapshot" => todo' \subseteq Live(store')
    BY <1>4, <1>6 DEF CopySound
  <2> QED BY <1>1, <1>2, <1>4, <1>5, <2>1, CopyStays
<1>7. CASE phase \notin Copying
  BY <1>1, <1>7 DEF CopySound
<1> QED BY <1>6, <1>7

(* The fence: everything in memory is in the files, and what is not there    *)
(* is not in the empty snapshot either.                                     *)
LEMMA FenceKeepsCopy ==
  ASSUME TypeOK, StillInv, Control, Control', Pendings, Logged, CopySound, Memory, Fence
  PROVE  CopySound'
<1>1. /\ phase = "fence" /\ phase' = "snapshot" /\ copiedUpTo' = Len(walFile) /\ todo' = Live(store)
      /\ snapTmp' = Empty /\ walTmp' = <<>>
      /\ UNCHANGED <<walFile, store, status, effect>>
  BY DEF Fence, NoCopy, callVars, diskVars
<1>2. \A k \in Keys : store[k].val = Held[k]
  BY <1>1, BeforeNobodyWaits, NobodyWaits DEF Before
<1>3. Held' = Held
  BY HeldStays DEF Keeps, CompactionStep
<1>4. \A k \in Keys \ todo' : snapTmp'[k] = Held'[k]
  BY <1>1, <1>2, <1>3 DEF Live, Empty
<1>5. copiedUpTo' <= Len(walFile') /\ Len(walTmp') <= copiedUpTo' /\ 1..Len(walTmp') = {}
  BY <1>1 DEF TypeOK
<1>6. Live(store)' = Live(store)
  BY <1>1 DEF Live
<1>7. phase' \notin Swapping /\ phase' # "renameWal"
  BY <1>1 DEF Swapping
<1> QED BY <1>1, <1>4, <1>5, <1>6, <1>7 DEF CopySound

LEMMA SnapshotKeepsCopy ==
  ASSUME TypeOK, StillInv, Control, Control', Pendings, Logged, CopySound, Memory,
         NEW k \in Keys, SnapshotKey(k)
  PROVE  CopySound'
<1>1. /\ phase = "snapshot" /\ phase' = phase /\ todo' = todo \ {k}
      /\ snapTmp' = [snapTmp EXCEPT ![k] = store[k].val]
      /\ UNCHANGED <<copiedUpTo, walTmp, walFile, snapFile, landed, batch, queue, store, status, effect>>
  BY DEF SnapshotKey, callVars, walVars, diskVars
<1>2. \A x \in Keys : store[x].val = Held[x]
  BY <1>1, BeforeNobodyWaits, NobodyWaits DEF Before
<1>3. Held' = Held
  BY HeldStays DEF Keeps, CompactionStep
<1>4. \A x \in Keys : Silent(x)' => Silent(x)
  BY <1>1, SilentStays
<1>5. Base' = Base /\ Live(store)' = Live(store)
  BY <1>1 DEF Base, Live
<1>6. ASSUME NEW x \in Keys \ todo', Silent(x)' PROVE snapTmp'[x] = Held'[x]
  <2>1. CASE x = k
    BY <1>1, <1>2, <1>3, <2>1 DEF TypeOK, Contents
  <2>2. CASE x # k
    <3>1. x \in Keys \ todo /\ Silent(x)
      BY <1>1, <1>4, <1>6, <2>2
    <3>2. snapTmp[x] = Held[x]
      BY <1>1, <3>1 DEF CopySound, Copying
    <3> QED BY <1>1, <1>3, <2>2, <3>2 DEF TypeOK, Contents
  <2> QED BY <2>1, <2>2
<1> QED BY <1>1, <1>5, <1>6 DEF CopySound, Copying, Swapping

(* A pass of the copy brings it up to the end of the file.                  *)
LEMMA CopyKeepsCopy ==
  ASSUME TypeOK, StillInv, Control, Control', Pendings, Logged, CopySound, PreCopy \/ Drain
  PROVE  CopySound'
<1>1. /\ phase \in {"precopy", "drain"} /\ phase' \in {"precopy", "close"}
      /\ walTmp' = Copied(walTmp) /\ copiedUpTo' = Len(walFile)
      /\ UNCHANGED <<walFile, snapFile, snapTmp, todo, landed, batch, queue, store, effect>>
  BY DEF PreCopy, Drain, callVars, walVars, diskVars
<1>2. Held' = Held
  BY HeldStays DEF Keeps, CompactionStep
<1>3. /\ copiedUpTo <= Len(walFile) /\ Len(walTmp) <= copiedUpTo
      /\ \A i \in 1..Len(walTmp) : walTmp[i] = walFile[Base + i]
      /\ todo = {}
      /\ \A k \in Keys \ todo : Silent(k) => snapTmp[k] = Held[k]
  BY <1>1 DEF CopySound, Copying
<1>a. copiedUpTo \in Nat /\ Len(walTmp) \in Nat /\ Len(walFile) \in Nat /\ walFile \in Seq(Calls) /\ walTmp \in Seq(Calls)
  BY DEF TypeOK
<1> DEFINE end == SubSeq(walFile, copiedUpTo + 1, Len(walFile))
<1>4. /\ end \in Seq(Calls) /\ Len(end) = Len(walFile) - copiedUpTo
      /\ \A i \in 1..Len(end) : end[i] = walFile[copiedUpTo + i]
  <2>1. end = [j \in 1..(Len(walFile) - copiedUpTo) |-> walFile[j + copiedUpTo]]
    BY <1>a, <1>3, EndIs
  <2>2. end \in Seq(Calls) /\ Len(end) = Len(walFile) - copiedUpTo
    BY <1>a, <1>3, CutAnywhere
  <2> HIDE DEF end
  <2>3. ASSUME NEW i \in 1..Len(end) PROVE end[i] = walFile[copiedUpTo + i]
    <3>1. i \in 1..(Len(walFile) - copiedUpTo) /\ i + copiedUpTo = copiedUpTo + i
      BY <1>a, <2>2
    <3>2. end[i] = walFile[i + copiedUpTo]
      BY <2>1, <3>1
    <3> QED BY <3>1, <3>2
  <2> QED BY <2>2, <2>3
<1> HIDE DEF end
<1>5. /\ Len(walTmp \o end) = Len(walTmp) + Len(end)
      /\ \A i \in 1..(Len(walTmp) + Len(end)) :
           (walTmp \o end)[i] = IF i <= Len(walTmp) THEN walTmp[i] ELSE end[i - Len(walTmp)]
  BY <1>a, <1>4, ConcatProperties
<1>6. walTmp' = walTmp \o end
  BY <1>1 DEF Copied, end
<1>7. Len(walTmp') = Len(walTmp) + (Len(walFile) - copiedUpTo) /\ Base' = Base
  BY <1>a, <1>1, <1>4, <1>5, <1>6 DEF Base
<1>8. ASSUME NEW i \in 1..Len(walTmp') PROVE walTmp'[i] = walFile[Base + i]
  <2>1. CASE i <= Len(walTmp)
    BY <1>a, <1>3, <1>5, <1>6, <1>8, <2>1
  <2>2. CASE i > Len(walTmp)
    <3>1. i - Len(walTmp) \in 1..Len(end)
      BY <1>a, <1>4, <1>7, <2>2
    <3>2. walTmp'[i] = end[i - Len(walTmp)]
      BY <1>a, <1>4, <1>5, <1>6, <1>7, <2>2
    <3>3. end[i - Len(walTmp)] = walFile[copiedUpTo + (i - Len(walTmp))]
      BY <1>4, <3>1
    <3>4. copiedUpTo + (i - Len(walTmp)) = Base + i
      BY <1>a DEF Base
    <3> QED BY <3>2, <3>3, <3>4
  <2> QED BY <1>a, <2>1, <2>2
<1>9. \A k \in Keys : Silent(k)' => Silent(k)
  BY <1>1, <1>7 DEF Silent
<1>10. Len(walTmp') <= copiedUpTo'
  BY <1>a, <1>1, <1>3, <1>7
<1>11. copiedUpTo' = Len(walFile') /\ copiedUpTo' <= Len(walFile')
  BY <1>a, <1>1
<1>12. \A i \in 1..Len(walTmp') : walTmp'[i] = walFile'[Base' + i]
  BY <1>1, <1>7, <1>8
<1>13. \A k \in Keys \ todo' : Silent(k)' => snapTmp'[k] = Held'[k]
  BY <1>1, <1>2, <1>3, <1>9
<1> QED BY <1>1, <1>3, <1>10, <1>11, <1>12, <1>13 DEF CopySound

LEMMA RestKeepsCopy ==
  ASSUME TypeOK, StillInv, Control, Control', Pendings, Logged, CopySound,
         SnapshotDone \/ Rotate \/ CloseWal \/ RenameSnap \/ FsyncDir
  PROVE  CopySound'
<1>1. UNCHANGED <<copiedUpTo, walTmp, walFile, snapTmp, todo, landed, batch, queue, store, effect>>
  BY DEF SnapshotDone, Rotate, CloseWal, RenameSnap, FsyncDir, callVars, walVars, diskVars, compactVars
<1>2. Held' = Held
  BY HeldStays DEF Keeps, CompactionStep
<1>3. Base' = Base /\ Live(store)' = Live(store) /\ \A k \in Keys : Silent(k)' => Silent(k)
  BY <1>1, SilentStays DEF Base, Live
<1>4. CASE FsyncDir
  <2>1. UNCHANGED <<phase, snapFile>>
    BY <1>4 DEF FsyncDir, compactVars
  <2> QED BY <1>1, <1>2, <1>3, <2>1 DEF CopySound
<1>5. CASE SnapshotDone \/ Rotate
  <2>1. phase \in {"snapshot", "precopy"} /\ phase' \in {"precopy", "drain"} /\ todo' = {}
    BY <1>1, <1>5 DEF SnapshotDone, Rotate, CopySound, Copying
  <2> QED BY <1>1, <1>2, <1>3, <2>1 DEF CopySound, Copying, Swapping
<1>6. CASE CloseWal
  <2>1. phase = "close" /\ phase' = "renameSnap" /\ snapFile' = snapFile
    BY <1>6 DEF CloseWal
  <2> QED BY <1>1, <1>2, <1>3, <2>1 DEF CopySound, Copying, Swapping
<1>7. CASE RenameSnap
  <2>1. phase = "renameSnap" /\ phase' = "renameWal" /\ snapFile' = snapTmp
    BY <1>7 DEF RenameSnap
  <2> QED BY <1>1, <1>2, <1>3, <2>1 DEF CopySound, Copying, Swapping
<1> QED BY <1>4, <1>5, <1>6, <1>7

LEMMA CopyKept ==
  ASSUME MaxFailedBatches = 0, TypeOK, StillInv, Control, Control', Pendings, Logged, CopySound,
         Memory, [Next]_vars
  PROVE  CopySound'
<1>1. ~Reject /\ ~FailBatch
  BY DEF Reject, FailBatch, Below, Control
<1>2. CASE phase' \notin Copying
  BY <1>2 DEF CopySound
<1>3. CASE Compact \/ FailCompaction \/ RenameWal \/ AssignWal \/ OpenWal \/ Abandon
  <2>1. phase' \notin Copying
    BY <1>3 DEF Compact, FailCompaction, RenameWal, AssignWal, OpenWal, Abandon, Release, Copying
  <2> QED BY <1>2, <2>1
<1>4. CASE ProcessCrash \/ PowerLoss
  <2>1. phase' \notin Copying
    BY <1>4 DEF ProcessCrash, PowerLoss, CrashTo, Release, Copying
  <2> QED BY <1>2, <2>1
<1>5. CASE UNCHANGED vars
  <2>1. Base' = Base /\ Live(store)' = Live(store) /\ \A k \in Keys : Silent(k)' = Silent(k)
    BY <1>5 DEF Base, Live, Silent, vars, callVars, walVars, diskVars, compactVars
  <2>2. Held' = Held
    BY <1>5, HeldStays DEF Keeps
  <2> QED BY <1>5, <2>1, <2>2 DEF CopySound, vars, callVars, diskVars, compactVars
<1>6. CASE WalStep
  BY <1>1, <1>6, LandKeepsCopy, BatchKeepsCopy DEF WalStep
<1>7. CASE CallStep
  BY <1>1, <1>7, InvokeKeepsCopy, PassKeepsCopy, CommitKeepsCopy DEF CallStep
<1>8. CASE CompactionStep
  BY <1>3, <1>8, FenceKeepsCopy, SnapshotKeepsCopy, CopyKeepsCopy, RestKeepsCopy DEF CompactionStep
<1> QED BY <1>3, <1>4, <1>5, <1>6, <1>7, <1>8 DEF Next

-----------------------------------------------------------------------------
(* What a power loss may bring back. *)

(* While the logs are swapped nobody commits and nothing is written.        *)
LEMMA NobodyMoves ==
  ASSUME StillInv, phase \in Swapping
  PROVE  /\ \A c \in Calls : ~PassGate(c) /\ ~Commit(c) /\ ~Bounce(c)
         /\ ~Reject /\ ~WalStep
<1>1. lock /\ Quiet /\ queue = <<>> /\ batch = <<>>
  BY DEF StillInv, StandStill
<1>2. \A c \in Calls : ~PassGate(c) /\ ~Commit(c) /\ ~Bounce(c)
  BY <1>1 DEF PassGate, Commit, Bounce, Quiet
<1>3. ~Reject
  BY <1>1 DEF Reject, Quiet
<1>4. ~WalStep
  BY <1>1 DEF WalStep, TakeBatch, Land, SyncBatch, ResolveBatch, FailBatch, Flushing
<1> QED BY <1>2, <1>3, <1>4

LEMMA RenamedKept ==
  ASSUME TypeOK, StillInv, Control, Control', Pendings, Logged, CopySound, Renamed, [Next]_vars
  PROVE  Renamed'
<1> DEFINE Moved == {"renameSnap", "renameWal", "fresh"}
<1>1. ASSUME phase' \notin Moved, unsynced' = {} PROVE Renamed'
  BY <1>1 DEF Renamed
<1>2. ASSUME UNCHANGED <<phase, synced, walFile, effect>>, unsynced' \subseteq unsynced, Keeps PROVE Renamed'
  <2>1. Held' = Held
    BY <1>2, HeldStays
  <2> QED BY <1>2, <2>1 DEF Renamed
<1>3. ASSUME NEW c \in Calls, NEW e \in Writes, Invoke(c, e) PROVE Renamed'
  <2>1. status[c] = "idle" /\ effect' = [effect EXCEPT ![c] = e]
    BY <1>3 DEF Invoke, Calls
  <2>2. UNCHANGED <<phase, synced, walFile, unsynced>>
    BY <1>3 DEF Invoke, diskVars, compactVars
  <2>3. Held' = Held
    BY <1>3, HeldStays DEF Keeps
  <2>4. ASSUME NEW old \in unsynced PROVE Replay(old[1], old[2], effect') = Held'
    <3>1. old[2] \in Seq(Calls)
      BY DEF TypeOK
    <3>2. \A i \in DOMAIN old[2] : effect[old[2][i]] = effect'[old[2][i]]
      <4>1. \A i \in DOMAIN old[2] : old[2][i] # c /\ old[2][i] \in Calls
        BY <2>1, <3>1 DEF Logged
      <4> QED BY <2>1, <4>1 DEF TypeOK
    <3>3. Replay(old[1], old[2], effect) = Replay(old[1], old[2], effect')
      BY <3>1, <3>2, ReplayEffects
    <3> QED BY <2>3, <3>3 DEF Renamed
  <2> QED BY <2>2, <2>4 DEF Renamed
<1>4. CASE phase \notin Swapping /\ ~CompactionStep
  <2>1. unsynced = {}
    BY <1>4 DEF Renamed, Swapping
  <2>2. CASE CallStep \/ WalStep \/ UNCHANGED vars
    BY <1>1, <1>4, <2>1, <2>2 DEF CallStep, Invoke, PassGate, Commit, Bounce, Reject, WalStep, TakeBatch,
      Land, SyncBatch, ResolveBatch, FailBatch, vars, diskVars, compactVars, Swapping
  <2>3. CASE Compact \/ FailCompaction
    BY <1>1, <2>1, <2>3 DEF Compact, FailCompaction, Release, diskVars
  <2>4. CASE ProcessCrash \/ PowerLoss
    BY <1>1, <2>4 DEF ProcessCrash, PowerLoss, CrashTo, Release
  <2> QED BY <1>4, <2>2, <2>3, <2>4 DEF Next
<1>5. CASE phase \in Swapping /\ ~CompactionStep
  <2>1. ~Reject /\ ~WalStep /\ \A c \in Calls : ~PassGate(c) /\ ~Commit(c) /\ ~Bounce(c)
    BY <1>5, NobodyMoves
  <2>2. CASE Compact
    BY <1>5, <2>2 DEF Compact, Swapping
  <2>3. CASE FailCompaction
    BY <1>1, <1>5, <2>3 DEF FailCompaction, Release, diskVars
  <2>4. CASE ProcessCrash \/ PowerLoss
    BY <1>1, <2>4 DEF ProcessCrash, PowerLoss, CrashTo, Release
  <2>5. CASE UNCHANGED vars
    BY <1>2, <2>5 DEF vars, callVars, diskVars, compactVars, Keeps
  <2> QED BY <1>3, <1>5, <2>1, <2>2, <2>3, <2>4, <2>5 DEF Next, CallStep
<1>6. CASE Fence \/ SnapshotDone \/ PreCopy \/ Rotate \/ Drain \/ OpenWal \/ Abandon \/ \E k \in Keys : SnapshotKey(k)
  <2>1. phase \notin Moved /\ phase' \notin Moved /\ unsynced' = unsynced
    BY <1>6 DEF Fence, SnapshotDone, PreCopy, Rotate, Drain, OpenWal, Abandon, SnapshotKey, Release, diskVars
  <2> QED BY <1>1, <2>1 DEF Renamed
<1>7. CASE CloseWal
  BY <1>7 DEF CloseWal, Renamed
<1>8. CASE RenameSnap \/ RenameWal
  <2>1. Held' = Held /\ Held = Replay(snapFile, walFile, effect)
    BY <1>8, RenamesKeepHeld
  <2>2. unsynced' = {<<snapFile, walFile>>} /\ phase' \in {"renameWal", "fresh"} /\ effect' = effect
    BY <1>8 DEF RenameSnap, RenameWal, callVars
  <2>3. synced' = Len(walFile')
    BY <1>8 DEF RenameSnap, RenameWal, Renamed
  <2> QED BY <2>1, <2>2, <2>3 DEF Renamed
<1>9. CASE FsyncDir
  BY <1>2, <1>9 DEF FsyncDir, callVars, compactVars, Keeps, CompactionStep
<1>10. CASE AssignWal
  BY <1>1, <1>10 DEF AssignWal, diskVars
<1> QED BY <1>4, <1>5, <1>6, <1>7, <1>8, <1>9, <1>10 DEF CompactionStep

-----------------------------------------------------------------------------
(* Memory. *)

(* Fits, of the state after the step.                                       *)
FitsNext(k, v) ==
  \/ v = Held'[k]
  \/ \E c \in Calls : Waiting(c)' /\ effect'[c][k] # "keep" /\ v = Written(effect', c, k)

LEMMA FitsStays ==
  ASSUME Held' = Held, effect' = effect, \A c \in Calls : Waiting(c) => Waiting(c)',
         NEW k, NEW v, Fits(k, v)
  PROVE  FitsNext(k, v)
BY DEF Fits, FitsNext

LEMMA MemoryStays ==
  ASSUME Memory, Held' = Held, UNCHANGED <<store, effect>>,
         \A c \in Calls : Waiting(c) => Waiting(c)',
         \A c \in Calls : status'[c] = "bounced" => status[c] = "bounced" /\ prev'[c] = prev[c]
  PROVE  Memory'
<1>1. \A k \in Keys : FitsNext(k, store[k].val)
  BY FitsStays DEF Memory
<1>2. \A c \in Calls : status'[c] = "bounced" => \A k \in Keys : FitsNext(k, prev'[c][k])
  BY FitsStays DEF Memory
<1> QED BY <1>1, <1>2 DEF Memory, Fits, FitsNext

LEMMA InvokeKeepsMemory ==
  ASSUME TypeOK, StillInv, Control, Control', Pendings, Logged, CopySound, Memory,
         NEW c \in Calls, NEW e \in Writes, Invoke(c, e)
  PROVE  Memory'
<1>1. status[c] = "idle" /\ effect' = [effect EXCEPT ![c] = e] /\ UNCHANGED <<store, prev>>
      /\ status' = [status EXCEPT ![c] = Gate]
  BY DEF Invoke, Calls
<1>2. Held' = Held
  BY HeldStays DEF Keeps
<1>3. ASSUME NEW d \in Calls, Waiting(d) PROVE Waiting(d)' /\ effect'[d] = effect[d]
  BY <1>1, <1>3 DEF Waiting, TypeOK
<1>4. ASSUME NEW k \in Keys, NEW v, Fits(k, v) PROVE FitsNext(k, v)
  <2>1. ASSUME NEW d \in Calls, Waiting(d), effect[d][k] # "keep", v = Written(effect, d, k)
        PROVE  FitsNext(k, v)
    <3>1. Written(effect', d, k) = Written(effect, d, k)
      BY <1>3, <2>1 DEF Written
    <3> QED BY <1>3, <2>1, <3>1 DEF FitsNext
  <2> QED BY <1>2, <1>4, <2>1 DEF Fits, FitsNext
<1>5. \A k \in Keys : FitsNext(k, store'[k].val)
  BY <1>1, <1>4 DEF Memory
<1>6. \A d \in Calls : status'[d] = "bounced" => \A k \in Keys : FitsNext(k, prev'[d][k])
  BY <1>1, <1>4 DEF Memory, Gate, TypeOK
<1> QED BY <1>5, <1>6 DEF Memory, Fits, FitsNext

(* The append is refused: memory shows the call, which waits from now on.   *)
LEMMA RefusedKeepsMemory ==
  ASSUME TypeOK, Control, Memory, NEW c \in Calls, Commit(c), walState \in {"sealed", "closed"}
  PROVE  Memory'
<1>1. /\ status[c] = "passed" /\ status' = [status EXCEPT ![c] = "bounced"]
      /\ effect' = effect /\ store' = Applied(c) /\ prev' = [prev EXCEPT ![c] = Values(store)]
  BY DEF Commit, Control, ChangeStore
<1>2. Held' = Held
  BY CommitHolds
<1>3. Waiting(c)' /\ \A d \in Calls : Waiting(d) => Waiting(d)'
  BY <1>1 DEF Waiting, TypeOK
<1>4. ASSUME NEW k \in Keys PROVE FitsNext(k, store'[k].val)
  <2>1. CASE effect[c][k] = "keep"
    BY <1>1, <1>2, <1>3, <2>1, FitsStays DEF Applied, Memory
  <2>2. CASE effect[c][k] # "keep"
    BY <1>1, <1>3, <2>2 DEF Applied, FitsNext
  <2> QED BY <2>1, <2>2
<1>5. ASSUME NEW d \in Calls, status'[d] = "bounced", NEW k \in Keys PROVE FitsNext(k, prev'[d][k])
  <2>1. CASE d = c
    <3>1. prev'[d][k] = store[k].val
      BY <1>1, <2>1 DEF Values, TypeOK
    <3> QED BY <1>1, <1>2, <1>3, <3>1, FitsStays DEF Memory
  <2>2. CASE d # c
    <3>1. prev'[d][k] = prev[d][k] /\ status[d] = "bounced"
      BY <1>1, <1>5, <2>2 DEF TypeOK
    <3> QED BY <1>1, <1>2, <1>3, <3>1, FitsStays DEF Memory
  <2> QED BY <2>1, <2>2
<1> QED BY <1>4, <1>5 DEF Memory, Fits, FitsNext

(* It is not: memory and log change alike.                                  *)
LEMMA AppendedKeepsMemory ==
  ASSUME TypeOK, StillInv, Control, Memory, NEW c \in Calls, Commit(c), walState \notin {"sealed", "closed"}
  PROVE  Memory'
<1>1. /\ status' = [status EXCEPT ![c] = "pending"]
      /\ effect' = effect /\ store' = Applied(c)
  BY DEF Commit, ChangeStore
<1>2. \A k \in Keys : Held'[k] = IF effect[c][k] = "keep" THEN Held[k] ELSE Written(effect, c, k)
  BY CommitHolds
<1>3. phase \notin Swapping
  BY NobodyMoves
<1>4. walState = "open"
  BY <1>3 DEF StillInv, UnopenedOnlyInOpen, Swapping, TypeOK
<1>5. \A d \in Calls : status[d] # "bounced"
  BY <1>4 DEF Control
<1>6. \A d \in Calls : d # c /\ Waiting(d) => Waiting(d)'
  BY <1>1 DEF Waiting, TypeOK
<1>7. ASSUME NEW k \in Keys PROVE FitsNext(k, store'[k].val)
  <2>1. CASE effect[c][k] = "keep"
    <3>1. store'[k].val = store[k].val /\ Held'[k] = Held[k]
      BY <1>1, <1>2, <2>1 DEF Applied
    <3>2. Fits(k, store[k].val)
      BY DEF Memory
    <3> QED BY <1>1, <1>6, <2>1, <3>1, <3>2 DEF Fits, FitsNext
  <2>2. CASE effect[c][k] # "keep"
    BY <1>1, <1>2, <2>2 DEF Applied, FitsNext
  <2> QED BY <2>1, <2>2
<1>8. \A d \in Calls : status'[d] # "bounced"
  BY <1>1, <1>5 DEF TypeOK
<1> QED BY <1>7, <1>8 DEF Memory, Fits, FitsNext

(* The roll back of a refused call puts back what it found.                 *)
LEMMA BounceKeepsMemory ==
  ASSUME TypeOK, StillInv, Control, Control', Pendings, Logged, CopySound, Memory, NEW c \in Calls, Bounce(c)
  PROVE  Memory'
<1>1. /\ status[c] = "bounced" /\ lock /\ status' = [status EXCEPT ![c] = "parked"]
      /\ effect' = effect /\ store' = Restored(c) /\ prev' = [prev EXCEPT ![c] = Empty]
  BY DEF Bounce, Control, ChangeStore
<1>2. Held' = Held
  BY HeldStays DEF Keeps
<1>3. \A d \in Calls : Waiting(d) => Waiting(d)'
  BY <1>1 DEF Waiting, TypeOK
<1>4. ASSUME NEW k \in Keys PROVE FitsNext(k, store'[k].val)
  <2>1. store'[k].val = store[k].val \/ store'[k].val = prev[c][k]
    BY <1>1 DEF Restored
  <2>2. Fits(k, store[k].val) /\ Fits(k, prev[c][k])
    BY <1>1 DEF Memory
  <2> QED BY <1>1, <1>2, <1>3, <2>1, <2>2, FitsStays
<1>5. ASSUME NEW d \in Calls, status'[d] = "bounced", NEW k \in Keys PROVE FitsNext(k, prev'[d][k])
  <2>1. d # c /\ prev'[d][k] = prev[d][k] /\ status[d] = "bounced"
    BY <1>1, <1>5 DEF TypeOK
  <2> QED BY <1>1, <1>2, <1>3, <2>1, FitsStays DEF Memory
<1> QED BY <1>4, <1>5 DEF Memory, Fits, FitsNext

LEMMA MemoryKept ==
  ASSUME MaxFailedBatches = 0, TypeOK, StillInv, Control, Control', Pendings, Logged, CopySound, Memory,
         [Next]_vars
  PROVE  Memory'
<1>1. ~Reject /\ ~FailBatch
  BY DEF Reject, FailBatch, Below, Control
<1>2. ASSUME Keeps, UNCHANGED <<store, effect, prev, status>> PROVE Memory'
  BY <1>2, HeldStays, MemoryStays DEF Waiting
<1>3. ASSUME NEW c \in Calls, PassGate(c) PROVE Memory'
  <2>1. /\ status[c] = "gated" /\ UNCHANGED <<store, effect, prev>>
        /\ status'[c] # "bounced"
        /\ \A d \in Calls : d # c => status'[d] = status[d]
    BY <1>3 DEF PassGate, TypeOK
  <2>2. Held' = Held
    BY <1>3, HeldStays DEF Keeps
  <2>3. \A d \in Calls : Waiting(d) => Waiting(d)'
    BY <2>1 DEF Waiting
  <2>4. \A d \in Calls : status'[d] = "bounced" => status[d] = "bounced" /\ prev'[d] = prev[d]
    BY <2>1, Zenon
  <2> QED BY <2>1, <2>2, <2>3, <2>4, MemoryStays, Zenon
<1>4. CASE ResolveBatch
  <2>1. UNCHANGED <<store, effect>>
    BY <1>4 DEF ResolveBatch
  <2>2. \A d \in Calls : status'[d] = (IF d \in Range(batch) THEN "acked" ELSE status[d])
                         /\ prev'[d] = (IF d \in Range(batch) THEN Empty ELSE prev[d])
    BY <1>4 DEF ResolveBatch
  <2>3. \A d \in Range(batch) : ~Waiting(d)
    BY DEF Waiting, Pendings
  <2>4. Held' = Held
    BY <1>4, HeldStays DEF Keeps, WalStep
  <2> QED BY <2>1, <2>2, <2>3, <2>4, MemoryStays DEF Waiting
<1>5. CASE TakeBatch \/ Land \/ SyncBatch
  BY <1>2, <1>5 DEF TakeBatch, Land, SyncBatch, callVars, Keeps, WalStep
<1>6. CASE CompactionStep
  <2>1. UNCHANGED callVars
    BY <1>6 DEF CompactionStep, Fence, SnapshotKey, SnapshotDone, PreCopy, Rotate, Drain, CloseWal,
      RenameSnap, FsyncDir, RenameWal, AssignWal, OpenWal, Abandon
  <2> QED BY <1>2, <1>6, <2>1 DEF callVars, Keeps
<1>7. CASE Compact \/ FailCompaction \/ UNCHANGED vars
  <2>1. UNCHANGED callVars
    BY <1>7 DEF Compact, FailCompaction, vars
  <2> QED BY <1>2, <1>7, <2>1 DEF callVars, Keeps
<1>8. CASE ProcessCrash \/ PowerLoss
  <2>1. PICK snap \in Contents, wal \in Seq(Calls) : \E kept \in 0..Len(wal) : CrashTo(snap, wal, kept)
    BY <1>8, CrashIs DEF Crashes
  <2>2. PICK kept \in 0..Len(wal) : CrashTo(snap, wal, kept)
    BY <2>1
  <2>3. store' = Fresh(Held') /\ \A c \in Calls : status'[c] \notin {"bounced", "parked"}
    BY <2>1, <2>2, CrashHolds
  <2>4. \A k \in Keys : store'[k].val = Held'[k]
    BY <2>3 DEF Fresh
  <2> QED BY <2>3, <2>4 DEF Memory, Fits
<1>9. ASSUME NEW c \in Calls, Commit(c) PROVE Memory'
  BY <1>9, RefusedKeepsMemory, AppendedKeepsMemory
<1> QED
  BY <1>1, <1>3, <1>4, <1>5, <1>6, <1>7, <1>8, <1>9, InvokeKeepsMemory, BounceKeepsMemory
  DEF Next, CallStep, WalStep

-----------------------------------------------------------------------------
LEMMA InitLog == Init => LogInv
<1> SUFFICES ASSUME Init PROVE LogInv
  OBVIOUS
<1>1. TypeOK /\ Control /\ Pendings /\ Logged
  BY InitTyped, InitControl, InitPendings
<1>2. /\ phase = "idle" /\ unsynced = {} /\ snapFile = Empty /\ walFile = <<>> /\ batch = <<>> /\ queue = <<>>
      /\ store = Fresh(Empty) /\ status = [c \in Calls |-> "idle"]
  BY DEF Init
<1>3. CopySound /\ Renamed
  BY <1>2 DEF CopySound, Copying, Renamed
<1>4. Held = Empty
  <2>1. Log = <<>>
    BY <1>1, <1>2, LogIsFile
  <2> QED BY <1>2, <2>1, ReplayNothing, EmptyTyped DEF Held
<1>5. Memory
  BY <1>2, <1>4 DEF Memory, Fits, Fresh, Empty
<1> QED BY <1>1, <1>3, <1>5 DEF LogInv

(* The inductive invariant: memory, the log and the snapshot agree through  *)
(* every commit, batch, compaction and crash, as long as no batch fails.    *)
THEOREM LogInvariant ==
  ASSUME MaxFailedBatches = 0
  PROVE  Spec => []LogInv
<1>1. TypeOK /\ StillInv /\ LogInv /\ [Next]_vars => LogInv'
  <2> SUFFICES ASSUME TypeOK, StillInv, LogInv, [Next]_vars PROVE LogInv'
    OBVIOUS
  <2>1. Control /\ Pendings /\ Logged /\ CopySound /\ Renamed /\ Memory
    BY DEF LogInv
  <2>2. Control'
    BY <2>1, ControlKept
  <2>3. Pendings' /\ Logged'
    BY <2>1, <2>2, PendingsKept, LoggedKept
  <2>4. CopySound' /\ Renamed' /\ Memory'
    BY <2>1, <2>2, CopyKept, RenamedKept, MemoryKept
  <2> QED BY <2>2, <2>3, <2>4 DEF LogInv
<1> QED BY TypeInvariant, StandStillInvariant, InitLog, <1>1, PTL DEF Spec

-----------------------------------------------------------------------------
(* Cutting a log in two, and moving the cut. *)

Moves(log, n, m, T) ==
  LET end == SubSeq(log, n + 1, Len(log)) IN
  /\ SubSeq(end, 1, m) \in Seq(T) /\ SubSeq(end, m + 1, Len(end)) \in Seq(T)
  /\ SubSeq(log, 1, n + m) = SubSeq(log, 1, n) \o SubSeq(end, 1, m)
  /\ SubSeq(log, (n + m) + 1, Len(log)) = SubSeq(end, m + 1, Len(end))

LEMMA CutMoves ==
  ASSUME NEW T, NEW log \in Seq(T), NEW n \in Nat, NEW m \in Nat, n + m <= Len(log)
  PROVE  Moves(log, n, m, T)
<1> DEFINE l == Len(log)
           end == SubSeq(log, n + 1, l)
<1>1. /\ l \in Nat /\ n \in 0..l /\ n + m \in 0..l /\ m \in 0..(l - n)
  OBVIOUS
<1>2. end = [j \in 1..(l - n) |-> log[j + n]] /\ end \in Seq(T) /\ Len(end) = l - n
  BY <1>1, EndIs, CutAnywhere
<1>3. m \in 0..Len(end)
  BY <1>1, <1>2
<1>4. SubSeq(log, 1, n + m) = [j \in 1..(n + m) |-> log[j]] /\ SubSeq(log, 1, n) = [j \in 1..n |-> log[j]]
      /\ SubSeq(log, 1, n) \in Seq(T) /\ Len(SubSeq(log, 1, n)) = n
  BY <1>1, BeginningIs, CutAnywhere
<1>5. SubSeq(log, (n + m) + 1, l) = [j \in 1..(l - (n + m)) |-> log[j + (n + m)]]
  BY <1>1, EndIs
<1> DEFINE a == SubSeq(log, 1, n)
           e1 == SubSeq(end, 1, m)
           e2 == SubSeq(end, m + 1, Len(end))
<1> HIDE DEF end
<1>6. e1 = [j \in 1..m |-> end[j]] /\ e2 = [j \in 1..(Len(end) - m) |-> end[j + m]]
      /\ e1 \in Seq(T) /\ e2 \in Seq(T) /\ Len(e1) = m
  BY <1>2, <1>3, BeginningIs, EndIs, CutAnywhere
<1>7. SubSeq(log, (n + m) + 1, l) = e2
  <2>1. Len(end) - m = l - (n + m)
    BY <1>1, <1>2
  <2>2. ASSUME NEW j \in 1..(l - (n + m)) PROVE end[j + m] = log[j + (n + m)]
    <3>1. j + m \in 1..(l - n) /\ (j + m) + n = j + (n + m)
      BY <1>1
    <3> QED BY <1>2, <3>1
  <2> HIDE DEF l, e2
  <2> QED BY <1>5, <1>6, <2>1, <2>2
<1>8. SubSeq(log, 1, n + m) = a \o e1
  <2>1. Len(a) = n /\ a \in Seq(T) /\ \A j \in 1..n : a[j] = log[j]
    BY <1>4
  <2>2. Len(e1) = m /\ e1 \in Seq(T) /\ \A j \in 1..m : e1[j] = log[j + n]
    <3>1. \A j \in 1..m : j \in 1..(l - n)
      BY <1>1
    <3> QED BY <1>2, <1>6, <3>1
  <2> DEFINE c == SubSeq(log, 1, n + m)
  <2>3. Len(c) = n + m /\ c \in Seq(T) /\ \A j \in 1..(n + m) : c[j] = log[j]
    BY <1>1, <1>4, CutAnywhere
  <2> HIDE DEF a, e1, c
  <2>4. a \o e1 \in Seq(T) /\ Len(a \o e1) = n + m
        /\ \A j \in 1..(n + m) : (a \o e1)[j] = IF j <= n THEN a[j] ELSE e1[j - n]
    <3>1. /\ a \o e1 \in Seq(T) /\ Len(a \o e1) = Len(a) + Len(e1)
          /\ \A j \in 1..(Len(a) + Len(e1)) : (a \o e1)[j] = IF j <= Len(a) THEN a[j] ELSE e1[j - Len(a)]
      BY <2>1, <2>2, ConcatProperties, ZenonT(30)
    <3> QED BY <2>1, <2>2, <3>1
  <2>5. ASSUME NEW j \in 1..(n + m) PROVE (a \o e1)[j] = c[j]
    <3>1. CASE j <= n
      <4>1. j \in 1..n
        BY <3>1
      <4> QED BY <2>1, <2>3, <2>4, <3>1, <4>1
    <3>2. CASE j > n
      <4>1. j - n \in 1..m /\ (j - n) + n = j /\ ~(j <= n)
        BY <3>2
      <4>2. e1[j - n] = log[(j - n) + n]
        BY <2>2, <4>1
      <4> QED BY <2>3, <2>4, <4>1, <4>2
    <3>3. j <= n \/ j > n
      OBVIOUS
    <3> QED BY <3>1, <3>2, <3>3, Zenon
  <2>6. c = a \o e1
    BY <2>3, <2>4, <2>5, SeqEqual
  <2> QED BY <2>6 DEF c
<1> QED BY <1>6, <1>7, <1>8 DEF Moves, a, e1, e2, end, l

LEMMA PartsOf ==
  ASSUME NEW T, NEW a \in Seq(T), NEW b \in Seq(T)
  PROVE  /\ SubSeq(a \o b, 1, Len(a)) = a
         /\ SubSeq(a \o b, Len(a) + 1, Len(a \o b)) = b
<1> DEFINE c == a \o b
<1>1. /\ c \in Seq(T) /\ Len(c) = Len(a) + Len(b) /\ Len(a) \in Nat /\ Len(b) \in Nat
      /\ \A i \in 1..Len(a) : c[i] = a[i]
      /\ \A i \in 1..Len(b) : c[Len(a) + i] = b[i]
  OBVIOUS
<1> HIDE DEF c
<1>2. SubSeq(c, 1, Len(a)) = a
  <2>1. Len(a) \in 0..Len(c)
    BY <1>1
  <2>2. SubSeq(c, 1, Len(a)) = [j \in 1..Len(a) |-> c[j]]
    BY <1>1, <2>1, BeginningIs, Zenon
  <2> QED BY <1>1, <2>2
<1>3. SubSeq(c, Len(a) + 1, Len(c)) = b
  <2>1. Len(a) \in 0..Len(c) /\ Len(c) - Len(a) = Len(b)
    BY <1>1
  <2>2. SubSeq(c, Len(a) + 1, Len(c)) = [j \in 1..(Len(c) - Len(a)) |-> c[j + Len(a)]]
    BY <1>1, <2>1, EndIs, Zenon
  <2>3. \A j \in 1..Len(b) : c[j + Len(a)] = b[j]
    <3>1. \A j \in 1..Len(b) : j + Len(a) = Len(a) + j
      BY <1>1
    <3> QED BY <1>1, <3>1
  <2> QED BY <1>1, <2>1, <2>2, <2>3
<1> QED BY <1>2, <1>3 DEF c

-----------------------------------------------------------------------------
(* What the files promise and do not yet promise are two parts of the log.  *)

LEMMA SafeIsPart ==
  ASSUME TypeOK
  PROVE  /\ SafeLength \in 0..Len(walFile) /\ Len(walFile) <= Len(Log) /\ Len(Log) \in Nat
         /\ SubSeq(walFile, 1, SafeLength) = SubSeq(Log, 1, SafeLength)
         /\ tailNow = SubSeq(Log, SafeLength + 1, Len(Log))
         /\ SubSeq(Log, 1, Len(walFile)) = walFile
<1> DEFINE s == SafeLength
           pre == SubSeq(walFile, 1, s)
           suf == SubSeq(walFile, s + 1, Len(walFile))
           rest == SubSeq(batch, landed + 1, Len(batch))
<1>1. /\ walFile \in Seq(Calls) /\ queue \in Seq(Calls) /\ rest \in Seq(Calls) /\ Log \in Seq(Calls)
      /\ InFlight \in Seq(Calls) /\ s \in 0..Len(walFile)
  BY HeldTyped DEF TypeOK, SafeLength
<1> HIDE DEF s
<1>2. /\ pre \in Seq(Calls) /\ suf \in Seq(Calls) /\ walFile = pre \o suf /\ Len(pre) = s
      /\ Len(suf) = Len(walFile) - s
  BY <1>1, CutAnywhere, ZenonT(30)
<1>3. tailNow = (suf \o rest) \o queue /\ InFlight = rest \o queue /\ Log = walFile \o InFlight
  BY DEF tailNow, InFlight, Log, s
<1> HIDE DEF pre, suf, rest
<1>a. \A a, b, c \in Seq(Calls) : (a \o b) \o c = a \o (b \o c)
  <2>1. Associative(Calls)
    BY Associates
  <2> QED BY <2>1, Zenon DEF Associative
<1>b. pre \in Seq(Calls) /\ suf \in Seq(Calls)
  BY <1>2, Zenon
<1>c. InFlight \in Seq(Calls) /\ rest \in Seq(Calls) /\ queue \in Seq(Calls)
  BY <1>1, Zenon
<1>4. (suf \o rest) \o queue = suf \o InFlight
  <2>1. (suf \o rest) \o queue = suf \o (rest \o queue)
    BY <1>a, <1>b, <1>c, ZenonT(60)
  <2> QED BY <1>3, <2>1, Zenon
<1>5. (pre \o suf) \o InFlight = pre \o (suf \o InFlight)
  BY <1>a, <1>b, <1>c, ZenonT(60)
<1>6. Log = pre \o tailNow /\ tailNow \in Seq(Calls)
  BY <1>1, <1>2, <1>3, <1>4, <1>5, ConcatProperties
<1>7. SubSeq(Log, 1, s) = pre /\ SubSeq(Log, s + 1, Len(Log)) = tailNow
  BY <1>2, <1>6, PartsOf
<1>8. SubSeq(Log, 1, Len(walFile)) = walFile /\ Len(Log) = Len(walFile) + Len(InFlight)
  BY <1>1, <1>3, PartsOf, ConcatProperties
<1> QED BY <1>1, <1>7, <1>8 DEF s, pre

LEMMA SafeTyped ==
  ASSUME TypeOK
  PROVE  /\ safeNow = Replay(snapFile, SubSeq(Log, 1, SafeLength), effect) /\ safeNow \in Contents
         /\ tailNow \in Seq(Calls) /\ Len(tailNow) = Len(Log) - SafeLength
         /\ Replay(safeNow, tailNow, effect) = Held
<1> DEFINE s == SafeLength
           a == SubSeq(Log, 1, s)
           e == SubSeq(Log, s + 1, Len(Log))
<1>1. Log \in Seq(Calls) /\ s \in 0..Len(Log) /\ snapFile \in Contents
  <2>1. SafeLength \in 0..Len(walFile) /\ Len(walFile) <= Len(Log) /\ Len(Log) \in Nat /\ Len(walFile) \in Nat
    BY SafeIsPart DEF TypeOK
  <2>2. Log \in Seq(Calls) /\ snapFile \in Contents
    BY HeldTyped DEF TypeOK
  <2>3. SafeLength \in 0..Len(Log)
    BY <2>1
  <2> QED BY <2>2, <2>3
<1>2. tailNow = e /\ safeNow = Replay(snapFile, a, effect)
  BY SafeIsPart DEF safeNow
<1> HIDE DEF s
<1>3. a \in Seq(Calls) /\ e \in Seq(Calls) /\ Log = a \o e /\ Len(e) = Len(Log) - s
  BY <1>1, CutAnywhere
<1> HIDE DEF a, e
<1>4. Replay(snapFile, a \o e, effect) = Replay(Replay(snapFile, a, effect), e, effect)
  BY <1>1, <1>3, ReplayInParts
<1>5. Replay(snapFile, a, effect) \in Contents
  BY <1>1, <1>3, ReplayType
<1> QED BY <1>2, <1>3, <1>4, <1>5 DEF Held, a, s

(* DurableKv's operators are the database's.                                *)
LEMMA ReplaysAlike ==
  ASSUME NEW contents, NEW log, NEW effectOf
  PROVE  Kv!Replay(contents, log, effectOf) = Replay(contents, log, effectOf)
BY DEF Kv!Replay, Replay, Kv!Writers, Writers, Kv!Written, Written, Kv!Max, Max, Kv!Absent, Absent

LEMMA ViewIsHeld ==
  ASSUME TypeOK
  PROVE  Kv!View = Held
BY SafeTyped, ReplaysAlike DEF Kv!View

(* Memory shows what the files and the frames on their way to them add up   *)
(* to, wherever no call waits to be retried: index.ts applies a write in    *)
(* the synchronous segment that appends it, and restores what it replaced   *)
(* when the append is refused.                                              *)
THEOREM MemoryShowsLog ==
  ASSUME MaxFailedBatches = 0
  PROVE  Spec => []MemoryIsLog
<1>1. TypeOK /\ LogInv => MemoryIsLog
  <2> SUFFICES ASSUME TypeOK, LogInv,
                      NEW k \in Keys,
                      \A c \in Calls : status[c] \in {"bounced", "refused", "parked"} => effect[c][k] = "keep"
               PROVE  store[k].val = Kv!View[k]
    BY DEF MemoryIsLog
  <2>1. Fits(k, store[k].val)
    BY DEF LogInv, Memory
  <2>2. store[k].val = Held[k]
    BY <2>1 DEF Fits, Waiting
  <2> QED BY <2>2, ViewIsHeld
<1> QED BY <1>1, TypeInvariant, LogInvariant, PTL

-----------------------------------------------------------------------------
(* The promise of DurableKv.  What a step is for it, from the log and from  *)
(* where the safe part of the log ends.                                     *)

SafeFacts ==
  /\ Log \in Seq(Calls) /\ Len(Log) \in Nat
  /\ SafeLength \in 0..Len(walFile) /\ Len(walFile) \in Nat /\ Len(walFile) <= Len(Log)
  /\ safeNow = Replay(snapFile, SubSeq(Log, 1, SafeLength), effect) /\ safeNow \in Contents
  /\ tailNow = SubSeq(Log, SafeLength + 1, Len(Log)) /\ tailNow \in Seq(Calls)
  /\ Len(tailNow) = Len(Log) - SafeLength
  /\ snapFile \in Contents

LEMMA SafeHolds == TypeOK => SafeFacts
<1> SUFFICES ASSUME TypeOK PROVE SafeFacts
  OBVIOUS
<1>1. snapFile \in Contents /\ Len(walFile) \in Nat /\ Log \in Seq(Calls)
  BY HeldTyped DEF TypeOK
<1>2. /\ SafeLength \in 0..Len(walFile) /\ Len(walFile) <= Len(Log) /\ Len(Log) \in Nat
      /\ tailNow = SubSeq(Log, SafeLength + 1, Len(Log))
  BY SafeIsPart
<1>3. /\ safeNow = Replay(snapFile, SubSeq(Log, 1, SafeLength), effect) /\ safeNow \in Contents
      /\ tailNow \in Seq(Calls) /\ Len(tailNow) = Len(Log) - SafeLength
  BY SafeTyped
<1> QED BY <1>1, <1>2, <1>3 DEF SafeFacts

LEMMA SafeHoldsNext == TypeOK' => SafeFacts'
BY SafeHolds, PTL

KvStep == [Kv!KvNext]_(Kv!kvVars)

LEMMA KvStays ==
  ASSUME UNCHANGED <<safeNow, tailNow, effect, callsNow>>
  PROVE  KvStep
BY DEF KvStep, Kv!kvVars

LEMMA KvCalls ==
  ASSUME NEW c \in Calls, NEW e \in Effects, UNCHANGED <<safeNow, tailNow>>,
         callsNow[c] = "idle", callsNow' = [callsNow EXCEPT ![c] = "called"],
         effect' = [effect EXCEPT ![c] = e]
  PROVE  KvStep
BY DEF KvStep, Kv!KvNext, Kv!Call, Kv!Calls, Calls, Kv!Effects, Effects

LEMMA KvWrites ==
  ASSUME NEW c \in Calls, UNCHANGED <<safeNow, effect>>,
         callsNow[c] = "called", callsNow' = [callsNow EXCEPT ![c] = "written"],
         tailNow' = Append(tailNow, c)
  PROVE  KvStep
BY DEF KvStep, Kv!KvNext, Kv!Write, Kv!Calls, Calls

LEMMA KvPersists ==
  ASSUME NEW n \in 1..Len(tailNow), UNCHANGED <<effect, callsNow>>,
         safeNow' = Replay(safeNow, SubSeq(tailNow, 1, n), effect),
         tailNow' = SubSeq(tailNow, n + 1, Len(tailNow))
  PROVE  KvStep
<1>1. Kv!Persist(n)
  BY ReplaysAlike DEF Kv!Persist
<1> QED BY <1>1 DEF KvStep, Kv!KvNext

LEMMA KvAcks ==
  ASSUME NEW S \in SUBSET Calls, UNCHANGED <<safeNow, tailNow, effect>>,
         \A c \in S : \/ callsNow[c] = "written" /\ \A i \in DOMAIN tailNow : tailNow[i] # c
                      \/ callsNow[c] = "called" /\ Kv!FindsNothing(c),
         callsNow' = [c \in Calls |-> IF c \in S THEN "acked" ELSE callsNow[c]]
  PROVE  KvStep
<1>1. Kv!Ack(S)
  BY DEF Kv!Ack, Kv!Calls, Calls
<1> QED BY <1>1 DEF KvStep, Kv!KvNext, Kv!Calls, Calls

LEMMA KvCrashes ==
  ASSUME NEW n \in 0..Len(tailNow), UNCHANGED <<safeNow, effect>>,
         tailNow' = SubSeq(tailNow, 1, n),
         callsNow' = [c \in Calls |-> IF callsNow[c] \in {"called", "written"} THEN "lost" ELSE callsNow[c]]
  PROVE  KvStep
<1>1. Kv!CrashKeeping(n)
  BY DEF Kv!CrashKeeping, Kv!Calls, Calls
<1> QED BY <1>1 DEF KvStep, Kv!KvNext

(* The log stays and its safe part grows, or not.                           *)
LEMMA KvCutMoves ==
  ASSUME TypeOK, TypeOK', Log' = Log, UNCHANGED <<snapFile, effect, callsNow>>, SafeLength <= SafeLength'
  PROVE  KvStep
<1> DEFINE n == SafeLength
           m == SafeLength' - SafeLength
           e == SubSeq(tailNow, 1, m)
<1>1. SafeFacts /\ SafeFacts'
  BY SafeHolds, SafeHoldsNext
<1>2. /\ Log \in Seq(Calls) /\ n \in Nat /\ m \in Nat /\ SafeLength' = n + m /\ n + m <= Len(Log)
      /\ snapFile \in Contents /\ Len(Log) \in Nat
  <2>1. Log \in Seq(Calls) /\ snapFile \in Contents /\ Len(Log) \in Nat /\ SafeLength \in Nat
    BY <1>1 DEF SafeFacts
  <2>2. SafeLength' \in 0..Len(walFile') /\ Len(walFile') \in Nat /\ Len(walFile') <= Len(Log)
    BY <1>1 DEF SafeFacts
  <2>3. SafeLength' \in Nat /\ SafeLength' <= Len(Log)
    BY <2>1, <2>2
  <2>4. \A x, y \in Nat : x <= y => y - x \in Nat /\ y = x + (y - x)
    OBVIOUS
  <2>5. m \in Nat /\ SafeLength' = n + m /\ n \in Nat
    BY <2>1, <2>3, <2>4, Zenon
  <2> HIDE DEF n, m
  <2> QED BY <2>1, <2>3, <2>5
<1>3. safeNow' = Replay(snapFile, SubSeq(Log, 1, SafeLength'), effect) /\ tailNow' = SubSeq(Log, SafeLength' + 1, Len(Log))
  BY <1>1 DEF SafeFacts
<1>4. safeNow = Replay(snapFile, SubSeq(Log, 1, n), effect) /\ tailNow = SubSeq(Log, n + 1, Len(Log))
      /\ Len(tailNow) = Len(Log) - n
  BY <1>1 DEF SafeFacts
<1> HIDE DEF n, m
<1>5. Moves(Log, n, m, Calls)
  BY <1>2, CutMoves
<1>6. /\ e \in Seq(Calls)
      /\ SubSeq(Log, 1, n + m) = SubSeq(Log, 1, n) \o e
      /\ SubSeq(Log, (n + m) + 1, Len(Log)) = SubSeq(tailNow, m + 1, Len(tailNow))
  BY <1>4, <1>5 DEF Moves
<1>7. safeNow' = Replay(safeNow, e, effect)
  <2> DEFINE a == SubSeq(Log, 1, n)
  <2>1. a \in Seq(Calls)
    BY <1>2, CutAnywhere
  <2> HIDE DEF a, e
  <2>2. Replay(snapFile, a \o e, effect) = Replay(Replay(snapFile, a, effect), e, effect)
    BY <1>2, <1>6, <2>1, ReplayInParts
  <2>3. safeNow = Replay(snapFile, a, effect) /\ safeNow' = Replay(snapFile, a \o e, effect)
    BY <1>2, <1>3, <1>4, <1>6 DEF a
  <2> QED BY <2>2, <2>3
<1>8. tailNow' = SubSeq(tailNow, m + 1, Len(tailNow))
  BY <1>2, <1>3, <1>6
<1>9. CASE m = 0
  <2>1. SafeLength' = SafeLength
    BY <1>2, <1>9 DEF n
  <2>2. UNCHANGED <<safeNow, tailNow>>
    BY <1>3, <1>4, <2>1 DEF n
  <2> QED BY <2>2, KvStays
<1>10. CASE m # 0
  <2>1. m \in 1..Len(tailNow)
    BY <1>2, <1>4, <1>10
  <2> QED BY <1>7, <1>8, <2>1, KvPersists
<1> QED BY <1>9, <1>10

(* A crash keeps the log up to some place behind its safe part.             *)
LEMMA KvCrashAt ==
  ASSUME TypeOK, TypeOK', NEW n \in Nat, SafeLength <= n, n <= Len(Log), Log' = SubSeq(Log, 1, n),
         UNCHANGED <<snapFile, effect>>, SafeLength' = SafeLength,
         callsNow' = [c \in Calls |-> IF callsNow[c] \in {"called", "written"} THEN "lost" ELSE callsNow[c]]
  PROVE  KvStep
<1> DEFINE s == SafeLength
           m == n - SafeLength
           pre == SubSeq(Log, 1, s)
           e == SubSeq(tailNow, 1, m)
<1>1. SafeFacts /\ SafeFacts'
  BY SafeHolds, SafeHoldsNext
<1>2. /\ Log \in Seq(Calls) /\ s \in Nat /\ m \in Nat /\ n = s + m /\ s + m <= Len(Log) /\ Len(Log) \in Nat
      /\ m \in 0..Len(tailNow) /\ SafeLength' = s /\ s \in 0..Len(Log)
  BY <1>1 DEF SafeFacts
<1>3. /\ safeNow' = Replay(snapFile, SubSeq(Log', 1, s), effect)
      /\ tailNow' = SubSeq(Log', s + 1, Len(Log'))
      /\ safeNow = Replay(snapFile, pre, effect)
      /\ tailNow = SubSeq(Log, s + 1, Len(Log))
  BY <1>1 DEF SafeFacts
<1> HIDE DEF s, m
<1>4. Moves(Log, s, m, Calls)
  BY <1>2, CutMoves
<1>5. Log' = pre \o e /\ e \in Seq(Calls)
  BY <1>2, <1>3, <1>4 DEF Moves
<1>6. pre \in Seq(Calls) /\ Len(pre) = s
  BY <1>2, CutAnywhere
<1> HIDE DEF pre, e
<1>7. SubSeq(Log', 1, s) = pre /\ SubSeq(Log', s + 1, Len(Log')) = e
  <2>1. SubSeq(pre \o e, 1, Len(pre)) = pre /\ SubSeq(pre \o e, Len(pre) + 1, Len(pre \o e)) = e
    BY <1>5, <1>6, PartsOf, Zenon
  <2> QED BY <1>5, <1>6, <2>1, Zenon
<1>8. safeNow' = safeNow /\ tailNow' = e
  BY <1>3, <1>7
<1> QED BY <1>2, <1>8, KvCrashes DEF e

(* What the calls are for it depends on their status only.                  *)
LEMMA CallsStay ==
  ASSUME NEW c \in Calls, status \in [Calls -> Status], NEW st,
         status' = [status EXCEPT ![c] = st],
         st \notin {"idle", "acked", "lost", "pending"},
         status[c] \notin {"idle", "acked", "lost", "pending"}
  PROVE  callsNow' = callsNow
<1>1. \A d \in Calls : callsNow'[d] = callsNow[d]
  BY DEF callsNow
<1> QED BY <1>1 DEF callsNow

LEMMA KvLogStays ==
  ASSUME TypeOK, TypeOK', UNCHANGED <<db, walFile, synced, snapFile, batch, landed, queue, effect, callsNow>>
  PROVE  KvStep
<1>1. Log' = Log /\ SafeLength' = SafeLength
  BY DEF Log, InFlight, SafeLength
<1>2. SafeLength <= SafeLength'
  BY <1>1 DEF SafeLength, TypeOK
<1> QED BY <1>1, <1>2, KvCutMoves

LEMMA KvInvoke ==
  ASSUME TypeOK, TypeOK', Pendings, Logged, NEW c \in Calls, NEW e \in Writes, Invoke(c, e)
  PROVE  KvStep
<1>1. /\ status[c] = "idle" /\ effect' = [effect EXCEPT ![c] = e] /\ status' = [status EXCEPT ![c] = Gate]
      /\ UNCHANGED <<db, walFile, synced, snapFile, batch, landed, queue>>
  BY DEF Invoke, Calls, walVars, diskVars
<1>2. callsNow[c] = "idle" /\ callsNow' = [callsNow EXCEPT ![c] = "called"]
  <2>1. callsNow[c] = "idle"
    BY <1>1 DEF callsNow
  <2>2. \A d \in Calls : callsNow'[d] = IF d = c THEN "called" ELSE callsNow[d]
    BY <1>1 DEF callsNow, Gate, TypeOK
  <2> QED BY <2>1, <2>2 DEF callsNow
<1> DEFINE pre == SubSeq(walFile, 1, SafeLength)
<1>3. safeNow' = safeNow
  <2>1. pre \in Seq(Calls) /\ pre = [j \in 1..SafeLength |-> walFile[j]] /\ SafeLength \in 0..Len(walFile)
    BY SafeIsPart, CutAnywhere, BeginningIs DEF TypeOK
  <2>2. \A i \in DOMAIN pre : effect[pre[i]] = effect'[pre[i]]
    <3>1. ASSUME NEW i \in DOMAIN pre PROVE pre[i] # c /\ pre[i] \in Calls
      BY <1>1, <2>1 DEF Logged
    <3> QED BY <1>1, <3>1 DEF TypeOK
  <2> HIDE DEF pre
  <2>3. Replay(snapFile, pre, effect) = Replay(snapFile, pre, effect')
    BY <2>1, <2>2, ReplayEffects, Zenon
  <2>4. safeNow = Replay(snapFile, pre, effect) /\ safeNow' = Replay(snapFile, pre, effect')
    BY <1>1 DEF safeNow, SafeLength, pre
  <2> QED BY <2>3, <2>4
<1>4. tailNow' = tailNow
  BY <1>1 DEF tailNow, SafeLength
<1>5. e \in Effects
  BY MiniDbAssumption
<1> QED BY <1>1, <1>2, <1>3, <1>4, <1>5, KvCalls

(* Past the gate: a delete that finds nothing in memory finds nothing in    *)
(* the log, or was overtaken by a delete that waits.                        *)
LEMMA KvPassGate ==
  ASSUME TypeOK, TypeOK', Memory, NEW c \in Calls, PassGate(c)
  PROVE  KvStep
<1>1. status[c] = "gated" /\ UNCHANGED <<db, walFile, synced, snapFile, batch, landed, queue, effect>>
  BY DEF PassGate, walVars, diskVars
<1>2. CASE status' = [status EXCEPT ![c] = "passed"]
  <2>1. callsNow' = callsNow
    BY <1>1, <1>2, CallsStay DEF TypeOK
  <2> QED BY <1>1, <2>1, KvLogStays
<1>3. CASE /\ status' = [status EXCEPT ![c] = "acked"]
           /\ SingleDelete(effect[c]) /\ \A k \in Touched(effect[c]) : store[k].val = Absent
  <2>1. UNCHANGED <<safeNow, tailNow>>
    BY <1>1 DEF safeNow, tailNow, SafeLength
  <2>2. callsNow[c] = "called" /\ callsNow' = [d \in Calls |-> IF d \in {c} THEN "acked" ELSE callsNow[d]]
    <3>1. callsNow[c] = "called"
      BY <1>1 DEF callsNow
    <3>2. \A d \in Calls : callsNow'[d] = IF d \in {c} THEN "acked" ELSE callsNow[d]
      BY <1>1, <1>3 DEF callsNow, TypeOK
    <3> QED BY <3>1, <3>2 DEF callsNow
  <2>3. ASSUME NEW k \in Touched(effect[c])
        PROVE  /\ effect[c][k] = "del"
               /\ \/ Held[k] = Absent
                  \/ \E d \in Calls \ {c} : callsNow[d] = "called" /\ effect[d][k] = "del"
    <3>1. effect[c][k] = "del" /\ k \in Keys
      BY <1>3 DEF SingleDelete, Touched
    <3>2. Fits(k, Absent)
      BY <1>3, <3>1 DEF Memory
    <3>3. ASSUME NEW d \in Calls, Waiting(d), effect[d][k] # "keep", Absent = Written(effect, d, k)
          PROVE  d # c /\ callsNow[d] = "called" /\ effect[d][k] = "del"
      <4>1. d # c /\ callsNow[d] = "called"
        BY <1>1, <3>3 DEF Waiting, callsNow
      <4>2. effect[d][k] \in {"keep", "set", "del"}
        BY <3>1 DEF TypeOK, Effects
      <4>3. effect[d][k] # "set"
        BY <3>3, KvAssumption DEF Written, Absent, Calls
      <4> QED BY <3>3, <4>1, <4>2, <4>3
    <3> QED BY <3>1, <3>2, <3>3 DEF Fits
  <2>4. Kv!FindsNothing(c)
    BY <2>3, ViewIsHeld DEF Kv!FindsNothing, Kv!Touched, Touched, Kv!Absent, Absent, Kv!Calls, Calls
  <2>5. {c} \in SUBSET Calls
    OBVIOUS
  <2>6. \A d \in {c} : callsNow[d] = "called" /\ Kv!FindsNothing(d)
    BY <2>2, <2>4
  <2> QED BY <1>1, <2>1, <2>2, <2>5, <2>6, KvAcks
<1> QED BY <1>2, <1>3 DEF PassGate

LEMMA KvCommit ==
  ASSUME TypeOK, TypeOK', StillInv, Control, NEW c \in Calls, Commit(c)
  PROVE  KvStep
<1>1. status[c] \in {"passed", "parked"} /\ UNCHANGED <<db, walFile, synced, snapFile, batch, landed, effect>>
  BY DEF Commit, diskVars
<1>2. CASE walState \in {"sealed", "closed"}
  <2>1. queue' = queue /\ \E st \in {"bounced", "refused"} : status' = [status EXCEPT ![c] = st]
    BY <1>2 DEF Commit
  <2>2. callsNow' = callsNow
    BY <1>1, <2>1, CallsStay DEF TypeOK
  <2> QED BY <1>1, <2>1, <2>2, KvLogStays
<1>3. CASE walState \notin {"sealed", "closed"}
  <2>1. queue' = Append(queue, c) /\ status' = [status EXCEPT ![c] = "pending"]
    BY <1>3 DEF Commit
  <2>2. callsNow[c] = "called" /\ callsNow' = [callsNow EXCEPT ![c] = "written"]
    <3>1. callsNow[c] = "called"
      BY <1>1 DEF callsNow
    <3>2. \A d \in Calls : callsNow'[d] = IF d = c THEN "written" ELSE callsNow[d]
      BY <1>1, <2>1 DEF callsNow, TypeOK
    <3> QED BY <3>1, <3>2 DEF callsNow
  <2>3. safeNow' = safeNow
    BY <1>1 DEF safeNow, SafeLength
  <2>4. tailNow' = Append(tailNow, c)
    <3> DEFINE t == SubSeq(walFile, SafeLength + 1, Len(walFile)) \o SubSeq(batch, landed + 1, Len(batch))
    <3>1. tailNow = t \o queue /\ tailNow' = t \o Append(queue, c)
      BY <1>1, <2>1 DEF tailNow, SafeLength
    <3>2. t \in Seq(Calls) /\ queue \in Seq(Calls)
      <4>1. SubSeq(walFile, SafeLength + 1, Len(walFile)) \in Seq(Calls)
        BY SafeIsPart, CutAnywhere DEF TypeOK
      <4> QED BY <4>1, HeldTyped, ConcatProperties DEF TypeOK
    <3> HIDE DEF t
    <3> QED BY <3>1, <3>2, ConcatAppend
  <2> QED BY <1>1, <2>2, <2>3, <2>4, KvWrites
<1> QED BY <1>2, <1>3

LEMMA KvBounce ==
  ASSUME TypeOK, TypeOK', NEW c \in Calls, Bounce(c)
  PROVE  KvStep
<1>1. status[c] \in {"bounced", "refused"} /\ \E st \in {"parked", "failed"} : status' = [status EXCEPT ![c] = st]
  BY DEF Bounce
<1>2. callsNow' = callsNow
  BY <1>1, CallsStay DEF TypeOK
<1> QED BY <1>2, KvLogStays DEF Bounce, walVars, diskVars

(* Frames that land or are synced.                                          *)
LEMMA KvBatch ==
  ASSUME TypeOK, TypeOK', TakeBatch \/ Land \/ SyncBatch
  PROVE  KvStep
<1>1. UNCHANGED <<db, snapFile, effect, status>>
  BY DEF TakeBatch, Land, SyncBatch, callVars, diskVars
<1>2. callsNow' = callsNow
  BY <1>1 DEF callsNow
<1>3. Log' = Log
  <2>1. CASE SyncBatch
    BY <2>1 DEF SyncBatch, walVars, Log, InFlight
  <2> QED BY <2>1, LandKeepsLog, BatchKeepsLog
<1>a. walFile \in Seq(Calls) /\ synced \in 0..Len(walFile)
  BY DEF TypeOK
<1>4. SafeLength <= SafeLength'
  <2>1. CASE TakeBatch
    BY <1>a, <1>1, <2>1 DEF TakeBatch, diskVars, SafeLength
  <2>2. CASE Land
    <3>1. synced' = synced /\ Len(walFile') = Len(walFile) + 1
      BY <1>a, <2>2 DEF Land
    <3> QED BY <1>a, <1>1, <3>1 DEF SafeLength
  <2>3. CASE SyncBatch
    BY <1>a, <1>1, <2>3 DEF SyncBatch, SafeLength
  <2> QED BY <2>1, <2>2, <2>3
<1> QED BY <1>1, <1>2, <1>3, <1>4, KvCutMoves

(* A batch is acknowledged once all of it is safe.                          *)
LEMMA KvResolve ==
  ASSUME TypeOK, TypeOK', Pendings, ResolveBatch
  PROVE  KvStep
<1>1. /\ UNCHANGED <<db, snapFile, effect, walFile, synced, queue>>
      /\ landed = Len(batch) /\ (db.always => synced = Len(walFile))
      /\ status' = [c \in Calls |-> IF c \in Range(batch) THEN "acked" ELSE status[c]]
  BY DEF ResolveBatch, BatchDurable, diskVars
<1>a. /\ walFile \in Seq(Calls) /\ batch \in Seq(Calls) /\ queue \in Seq(Calls) /\ Range(batch) \subseteq Calls
  BY RangeIn DEF TypeOK
<1>2. Log' = Log
  BY BatchKeepsLog
<1>3. SafeLength = Len(walFile) /\ SafeLength' = SafeLength
  BY <1>1 DEF SafeLength
<1>4. UNCHANGED <<safeNow, tailNow>>
  <2>1. SafeFacts /\ SafeFacts'
    BY SafeHolds, SafeHoldsNext
  <2> QED BY <1>1, <1>2, <1>3, <2>1 DEF SafeFacts
<1>5. tailNow = queue
  <2>1. SubSeq(walFile, SafeLength + 1, Len(walFile)) = <<>> /\ SubSeq(batch, landed + 1, Len(batch)) = <<>>
    BY <1>a, <1>1, <1>3, EndEmpty
  <2>2. \A s \in Seq(Calls) : (<<>> \o <<>>) \o s = s
    OBVIOUS
  <2>3. tailNow = (<<>> \o <<>>) \o queue
    BY <2>1 DEF tailNow
  <2> QED BY <1>a, <2>2, <2>3, Zenon
<1>6. ASSUME NEW c \in Range(batch)
      PROVE  callsNow[c] = "written" /\ \A i \in DOMAIN tailNow : tailNow[i] # c
  <2>1. status[c] = "pending" /\ c \notin Range(queue) /\ c \in Calls
    BY <1>a DEF Pendings
  <2>2. callsNow[c] = "written"
    BY <2>1 DEF callsNow
  <2>3. \A i \in DOMAIN queue : queue[i] # c
    BY <2>1 DEF Range
  <2> QED BY <1>5, <2>2, <2>3
<1>7. callsNow' = [c \in Calls |-> IF c \in Range(batch) THEN "acked" ELSE callsNow[c]]
  <2>1. \A c \in Calls : callsNow'[c] = IF c \in Range(batch) THEN "acked" ELSE callsNow[c]
    BY <1>1 DEF callsNow
  <2> QED BY <2>1 DEF callsNow
<1>8. Range(batch) \in SUBSET Calls
  BY <1>a
<1> QED BY <1>1, <1>4, <1>6, <1>7, <1>8, KvAcks

EmptyQueues == TypeOK /\ batch = <<>> /\ queue = <<>>

OnlyFile == Log = walFile

LEMMA LogIsFileThen == EmptyQueues => OnlyFile
BY LogIsFile DEF EmptyQueues, OnlyFile

LEMMA LogIsFileNext == EmptyQueues' => OnlyFile'
BY LogIsFileThen, PTL

(* The renames change the files and nothing they hold.                      *)
LEMMA KvRename ==
  ASSUME TypeOK, TypeOK', StillInv, CopySound, Renamed, Renamed', RenameSnap \/ RenameWal
  PROVE  KvStep
<1>1. Held' = Held
  BY RenamesKeepHeld
<1>2. /\ batch = <<>> /\ queue = <<>> /\ batch' = <<>> /\ queue' = <<>> /\ effect' = effect /\ status' = status
      /\ landed' = landed
  BY DEF RenameSnap, RenameWal, walVars, callVars, StillInv, StandStill, Swapping
<1>3. synced = Len(walFile) /\ synced' = Len(walFile')
  BY DEF RenameSnap, RenameWal, Renamed
<1>4. Log = walFile /\ SafeLength = Len(walFile)
  BY <1>2, <1>3, LogIsFile DEF SafeLength
<1>5. Log' = walFile' /\ SafeLength' = Len(walFile')
  <2>1. Log' = walFile'
    BY <1>2, LogIsFileNext DEF EmptyQueues, OnlyFile
  <2> QED BY <1>3, <2>1 DEF SafeLength
<1>6. SafeFacts /\ SafeFacts'
  BY SafeHolds, SafeHoldsNext
<1>7. safeNow = Held /\ tailNow = <<>>
  BY <1>4, <1>6, EndEmpty DEF SafeFacts, Held
<1>8. safeNow' = Held' /\ tailNow' = <<>>
  <2>1. /\ Log' \in Seq(Calls) /\ safeNow' = Replay(snapFile', SubSeq(Log', 1, SafeLength'), effect')
        /\ tailNow' = SubSeq(Log', SafeLength' + 1, Len(Log')) /\ SafeLength' = Len(Log')
    BY <1>5, <1>6 DEF SafeFacts
  <2>2. SubSeq(Log', 1, Len(Log')) = Log' /\ SubSeq(Log', Len(Log') + 1, Len(Log')) = <<>>
    BY <2>1, EndEmpty
  <2>3. Held' = Replay(snapFile', Log', effect')
    BY DEF Held
  <2> QED BY <2>1, <2>2, <2>3
<1>9. callsNow' = callsNow
  BY <1>2 DEF callsNow
<1> QED BY <1>1, <1>2, <1>7, <1>8, <1>9, KvStays

LEMMA KvCompaction ==
  ASSUME TypeOK, TypeOK', StillInv, CopySound, Renamed, Renamed',
         CompactionStep \/ Compact \/ FailCompaction \/ UNCHANGED vars
  PROVE  KvStep
<1>1. CASE RenameSnap \/ RenameWal
  BY <1>1, KvRename
<1>2. CASE CloseWal
  <2>1. /\ UNCHANGED <<db, walFile, snapFile, batch, landed, queue, effect, status>>
        /\ synced' = Len(walFile)
    BY <1>2 DEF CloseWal, callVars
  <2>2. Log' = Log /\ callsNow' = callsNow
    BY <2>1 DEF Log, InFlight, callsNow
  <2>3. SafeLength <= SafeLength'
    BY <2>1 DEF SafeLength, TypeOK
  <2> QED BY <2>1, <2>2, <2>3, KvCutMoves
<1>3. CASE Compact \/ FailCompaction \/ UNCHANGED vars \/ (CompactionStep /\ ~RenameSnap /\ ~RenameWal /\ ~CloseWal)
  <2>1. UNCHANGED <<db, walFile, synced, snapFile, batch, landed, queue, effect, status>>
    BY <1>3 DEF CompactionStep, Compact, FailCompaction, vars, callVars, walVars, diskVars, Fence, SnapshotKey,
      SnapshotDone, PreCopy, Rotate, Drain, FsyncDir, AssignWal, OpenWal, Abandon
  <2>2. callsNow' = callsNow
    BY <2>1 DEF callsNow
  <2> QED BY <2>1, <2>2, KvLogStays
<1> QED BY <1>1, <1>2, <1>3

(* What a crash leaves of the calls.                                        *)
LEMMA CrashLoses ==
  ASSUME TypeOK, Control, NEW snap, NEW wal, NEW kept, CrashTo(snap, wal, kept)
  PROVE  callsNow' = [c \in Calls |-> IF callsNow[c] \in {"called", "written"} THEN "lost" ELSE callsNow[c]]
<1>1. \A c \in Calls : callsNow'[c] = IF callsNow[c] \in {"called", "written"} THEN "lost" ELSE callsNow[c]
  <2> SUFFICES ASSUME NEW c \in Calls
               PROVE  callsNow'[c] = IF callsNow[c] \in {"called", "written"} THEN "lost" ELSE callsNow[c]
    OBVIOUS
  <2>1. status'[c] = (IF status[c] \in {"idle", "acked", "failed"} THEN status[c] ELSE "lost") /\ status[c] # "failed"
    BY DEF CrashTo, Control
  <2>2. callsNow[c] = CASE status[c] = "pending" -> "written"
                        [] status[c] \in {"idle", "acked", "lost"} -> status[c]
                        [] OTHER -> "called"
    BY DEF callsNow
  <2>3. callsNow'[c] = CASE status'[c] = "pending" -> "written"
                         [] status'[c] \in {"idle", "acked", "lost"} -> status'[c]
                         [] OTHER -> "called"
    BY DEF callsNow
  <2> QED BY <2>1, <2>2, <2>3
<1> QED BY <1>1 DEF callsNow

(* A crash that keeps the snapshot, and the file up to some place behind    *)
(* what was synced.                                                         *)
LEMMA KvCrashFile ==
  ASSUME TypeOK, TypeOK', Control, NEW n \in 0..Len(walFile), SafeLength <= n,
         CrashTo(snapFile, SubSeq(walFile, 1, n), synced), db.always \/ n = Len(walFile)
  PROVE  KvStep
<1>a. walFile \in Seq(Calls) /\ SafeFacts
  BY SafeHolds DEF TypeOK
<1>1. SubSeq(walFile, 1, n) \in Seq(Calls) /\ SubSeq(walFile, 1, Len(walFile)) = walFile
  BY <1>a, CutAnywhere, EndEmpty
<1>2. /\ walFile' = SubSeq(walFile, 1, n) /\ snapFile' = snapFile /\ batch' = <<>> /\ queue' = <<>>
      /\ UNCHANGED <<db, effect>> /\ synced' = synced
  BY DEF CrashTo
<1>3. Log' = walFile'
  BY <1>2, LogIsFileNext DEF EmptyQueues, OnlyFile
<1>4. SubSeq(walFile, 1, n) = SubSeq(Log, 1, n)
  <2>1. Log = walFile \o InFlight /\ InFlight \in Seq(Calls)
    BY HeldTyped DEF Log
  <2>2. SubSeq(Log, 1, n) = [j \in 1..n |-> Log[j]]
    BY <1>a, BeginningIs DEF SafeFacts
  <2>3. SubSeq(walFile, 1, n) = [j \in 1..n |-> walFile[j]]
    BY <1>a, BeginningIs
  <2>4. \A j \in 1..n : Log[j] = walFile[j]
    BY <1>a, <2>1
  <2> QED BY <2>2, <2>3, <2>4
<1>5. SafeLength' = SafeLength
  BY <1>1, <1>2 DEF SafeLength
<1>6. n \in Nat /\ n <= Len(Log)
  BY <1>a DEF SafeFacts
<1> QED BY <1>2, <1>3, <1>4, <1>5, <1>6, KvCrashAt, CrashLoses

(* A power loss that takes back a rename: the other pair of files holds the *)
(* same.                                                                    *)
LEMMA KvCrashOld ==
  ASSUME TypeOK, TypeOK', StillInv, Control, Renamed,
         NEW old \in unsynced, CrashTo(old[1], old[2], Len(old[2]))
  PROVE  KvStep
<1>1. phase \in {"renameWal", "fresh"} /\ Replay(old[1], old[2], effect) = Held /\ synced = Len(walFile)
  BY DEF Renamed
<1>2. batch = <<>> /\ queue = <<>>
  BY <1>1 DEF StillInv, StandStill, Swapping
<1>3. SafeLength = Len(walFile) /\ Log = walFile /\ SafeFacts /\ SafeFacts'
  BY <1>1, <1>2, LogIsFile, SafeHolds, SafeHoldsNext DEF SafeLength
<1>4. safeNow = Held /\ tailNow = <<>>
  BY <1>3, EndEmpty DEF SafeFacts, Held
<1>5. /\ walFile' = old[2] /\ snapFile' = old[1] /\ batch' = <<>> /\ queue' = <<>>
      /\ effect' = effect /\ synced' = Len(old[2])
  BY DEF CrashTo
<1>6. Log' = old[2]
  BY <1>5, LogIsFileNext DEF EmptyQueues, OnlyFile
<1>7. SafeLength' = Len(old[2]) /\ old[2] \in Seq(Calls)
  BY <1>5 DEF SafeLength, TypeOK
<1>8. safeNow' = Held /\ tailNow' = <<>>
  <2>1. SubSeq(old[2], 1, Len(old[2])) = old[2] /\ SubSeq(old[2], Len(old[2]) + 1, Len(old[2])) = <<>>
    BY <1>7, EndEmpty
  <2> QED BY <1>1, <1>3, <1>5, <1>6, <1>7, <2>1 DEF SafeFacts
<1>9. 0 \in 0..Len(tailNow) /\ SubSeq(tailNow, 1, 0) = <<>>
  BY <1>4
<1> QED BY <1>4, <1>5, <1>8, <1>9, KvCrashes, CrashLoses

LEMMA KvCrash ==
  ASSUME TypeOK, TypeOK', StillInv, Control, Renamed, ProcessCrash \/ PowerLoss
  PROVE  KvStep
<1>a. /\ walFile \in Seq(Calls) /\ Len(walFile) \in 0..Len(walFile) /\ SafeLength <= Len(walFile)
      /\ SubSeq(walFile, 1, Len(walFile)) = walFile
  BY EndEmpty DEF TypeOK, SafeLength
<1>1. CASE ProcessCrash
  BY <1>a, <1>1, KvCrashFile DEF ProcessCrash
<1>2. ASSUME db.always, NEW n \in synced..Len(walFile), CrashTo(snapFile, SubSeq(walFile, 1, n), synced) PROVE KvStep
  <2>1. n \in 0..Len(walFile) /\ SafeLength <= n
    BY <1>2 DEF TypeOK, SafeLength
  <2> QED BY <1>2, <2>1, KvCrashFile
<1> QED BY <1>1, <1>2, KvCrashOld DEF PowerLoss

LEMMA InitKv == Init => Kv!KvInit
<1> SUFFICES ASSUME Init PROVE Kv!KvInit
  OBVIOUS
<1>1. TypeOK /\ batch = <<>> /\ queue = <<>> /\ walFile = <<>> /\ landed = 0 /\ synced = 0 /\ snapFile = Empty
      /\ status = [c \in Calls |-> "idle"] /\ effect = [c \in Calls |-> Nothing]
  BY InitTyped DEF Init
<1>2. Log = <<>> /\ SafeFacts
  BY <1>1, LogIsFile, SafeHolds
<1>3. SafeLength = 0
  BY <1>1 DEF SafeLength
<1>4. tailNow = <<>> /\ safeNow = Empty
  <2>1. SubSeq(<<>>, 1, 0) = <<>> /\ SubSeq(<<>>, 0 + 1, Len(<<>>)) = <<>>
    OBVIOUS
  <2> QED BY <1>1, <1>2, <1>3, <2>1, ReplayNothing, EmptyTyped DEF SafeFacts
<1>5. callsNow = [c \in Calls |-> "idle"]
  BY <1>1 DEF callsNow
<1> QED BY <1>1, <1>4, <1>5
  DEF Kv!KvInit, Kv!Empty, Empty, Kv!Absent, Absent, Kv!Calls, Calls, Kv!Nothing, Nothing

(* A MiniDb keeps the promise of DurableKv: every step of its callers, its  *)
(* log and its compaction writes, persists or acknowledges as the promise   *)
(* allows, or is none of its business; and a crash at any of them undoes    *)
(* only what was not yet safe (index.ts:794, wal.ts append,                 *)
(* compaction.ts:38-44).                                                    *)
THEOREM PromiseIsKept ==
  ASSUME MaxFailedBatches = 0
  PROVE  Spec => KeepsPromise
<1>1. Init => Kv!KvInit
  BY InitKv
<1>2. TypeOK /\ TypeOK' /\ StillInv /\ LogInv /\ LogInv' /\ [Next]_vars => [Kv!KvNext]_(Kv!kvVars)
  <2> SUFFICES ASSUME TypeOK, TypeOK', StillInv, LogInv, LogInv', [Next]_vars PROVE KvStep
    BY DEF KvStep
  <2>1. Control /\ Pendings /\ Logged /\ CopySound /\ Renamed /\ Memory /\ Renamed'
    BY DEF LogInv
  <2>2. ~Reject /\ ~FailBatch
    BY <2>1 DEF Reject, FailBatch, Below, Control
  <2>3. CASE CallStep
    BY <2>1, <2>2, <2>3, KvInvoke, KvPassGate, KvCommit, KvBounce DEF CallStep
  <2>4. CASE WalStep
    BY <2>1, <2>2, <2>4, KvBatch, KvResolve DEF WalStep
  <2>5. CASE CompactionStep \/ Compact \/ FailCompaction \/ UNCHANGED vars
    BY <2>1, <2>5, KvCompaction
  <2>6. CASE ProcessCrash \/ PowerLoss
    BY <2>1, <2>6, KvCrash
  <2> QED BY <2>3, <2>4, <2>5, <2>6 DEF Next
<1> QED
  BY <1>1, <1>2, TypeInvariant, StandStillInvariant, LogInvariant, PTL DEF Spec, KeepsPromise, Kv!KvSpec

-----------------------------------------------------------------------------
(* Rollback in a database whose writers are serialised, until its first    *)
(* compaction: batches may fail now.                                       *)

OnFile == Recovered(snapFile, walFile)

(* Nobody writes.                                                           *)
Vacant ==
  /\ queue = <<>> /\ batch = <<>> /\ rejecting = <<>>
  /\ \A c \in Calls : status[c] # "pending"
  /\ Values(store) = OnFile

(* c alone is writing, its frame is in s, and memory differs from the files *)
(* by its effect, which can be taken back.                                  *)
Undoable(c) ==
  /\ prev[c] = OnFile
  /\ \A k \in Keys :
       IF effect[c][k] = "keep" THEN store[k].val = prev[c][k]
       ELSE store[k].val = Written(effect, c, k) /\ store[k].by = Written(effect, c, k)

Taken(c) ==
  \/ queue = <<c>> /\ batch = <<>> /\ rejecting = <<>> /\ Undoable(c)
  \/ queue = <<>> /\ batch = <<>> /\ rejecting = <<c>> /\ Undoable(c)
  \/ queue = <<>> /\ batch = <<c>> /\ rejecting = <<>> /\ landed = 0 /\ Undoable(c)
  \/ queue = <<>> /\ batch = <<c>> /\ rejecting = <<>> /\ landed = 1 /\ Values(store) = OnFile

OneWriter(c) ==
  /\ \A d \in Calls : status[d] = "pending" <=> d = c
  /\ Taken(c)

(* No rotation has been near.                                               *)
Calm ==
  /\ phase = "idle" /\ ~lock /\ walState = "open"
  /\ \A c \in Calls : status[c] \notin {"gated", "bounced", "refused", "parked"}
  /\ \A c \in Calls : status[c] # "idle" => effect[c] \in Writes
  /\ \A i \in DOMAIN walFile : status[walFile[i]] # "idle"

BoundsCount == bounds \in [{"compactions", "failedCompactions", "failedBatches", "crashes"} -> Nat]

SerialInv ==
  /\ BoundsCount
  /\ bounds["compactions"] = 0 => Calm /\ (Vacant \/ \E c \in Calls : OneWriter(c))

LEMMA InitSerial == Init => SerialInv
<1> SUFFICES ASSUME Init PROVE SerialInv
  OBVIOUS
<1>1. BoundsCount
  BY DEF Init, BoundsCount
<1>2. Calm
  <2>1. walFile = <<>> /\ \A c \in Calls : status[c] = "idle"
    BY DEF Init
  <2> QED BY <2>1 DEF Init, Calm
<1>3. Vacant
  <2>1. OnFile = Empty
    BY ReplayNothing, EmptyTyped DEF OnFile, Recovered, Init
  <2>2. Values(store) = Empty
    BY DEF Values, Fresh, Empty, Init
  <2> QED BY <2>1, <2>2 DEF Vacant, Init
<1> QED BY <1>1, <1>2, <1>3 DEF SerialInv

LEMMA BoundsCounted ==
  ASSUME BoundsCount, [Next]_vars
  PROVE  BoundsCount' /\ bounds["compactions"] <= bounds'["compactions"]
<1> DEFINE B == {"compactions", "failedCompactions", "failedBatches", "crashes"}
<1>1. bounds' = bounds \/ \E b \in B : Spend(b)
  <2>1. CASE CallStep \/ WalStep
    BY <2>1 DEF CallStep, Invoke, PassGate, Commit, Bounce, Reject, WalStep, TakeBatch, Land, SyncBatch, ResolveBatch,
      FailBatch
  <2>2. CASE CompactionStep
    BY <2>2 DEF CompactionStep, Fence, SnapshotKey, SnapshotDone, PreCopy, Rotate, Drain, CloseWal, RenameSnap,
      FsyncDir, RenameWal, AssignWal, OpenWal, Abandon
  <2>3. CASE Compact \/ FailCompaction \/ UNCHANGED vars
    BY <2>3 DEF Compact, FailCompaction, vars
  <2>4. CASE ProcessCrash \/ PowerLoss
    BY <2>4 DEF ProcessCrash, PowerLoss, CrashTo
  <2> QED BY <2>1, <2>2, <2>3, <2>4 DEF Next
<1>2. ASSUME NEW b \in B, Spend(b)
      PROVE  BoundsCount' /\ bounds["compactions"] <= bounds'["compactions"]
  BY <1>2 DEF BoundsCount, Spend
<1>3. CASE bounds' = bounds
  BY <1>3 DEF BoundsCount
<1> QED BY <1>1, <1>2, <1>3

(* Writers one at a time: every call takes the unique lock, and a batch of  *)
(* one frame that has landed is done with.                                  *)
OneAtATime ==
  /\ \A d \in Databases : d.unique /\ ~d.always
  /\ \A e \in Writes : ~SingleDelete(e)

(* What can happen while no rotation has been near.                         *)
LEMMA CalmSteps ==
  ASSUME TypeOK, OneAtATime, BoundsCount, Calm, [Next]_vars, bounds'["compactions"] = 0
  PROVE  \/ \E c \in Calls, e \in Writes : Invoke(c, e)
         \/ \E c \in Calls : Commit(c) /\ status[c] = "passed"
         \/ Reject \/ TakeBatch \/ Land \/ ResolveBatch \/ FailBatch \/ ProcessCrash
         \/ UNCHANGED vars \/ FsyncDir
<1>1. ~db.always
  BY DEF TypeOK, OneAtATime
<1>2. ~PowerLoss
  BY <1>1 DEF PowerLoss
<1>3. ~Compact
  BY DEF Compact, Spend, BoundsCount
<1>4. ~SyncBatch
  BY <1>1 DEF SyncBatch, BatchDurable
<1>5. CompactionStep => FsyncDir
  BY DEF CompactionStep, Calm, Fence, SnapshotKey, SnapshotDone, PreCopy, Rotate, Drain, CloseWal, RenameSnap,
    RenameWal, AssignWal, OpenWal, Abandon
<1>6. ~FailCompaction
  BY DEF FailCompaction, Calm
<1>7. CallStep => \/ \E c \in Calls, e \in Writes : Invoke(c, e)
                  \/ \E c \in Calls : Commit(c) /\ status[c] = "passed"
                  \/ Reject
  BY DEF CallStep, PassGate, Bounce, Commit, Calm
<1> QED BY <1>2, <1>3, <1>4, <1>5, <1>6, <1>7 DEF Next, WalStep

Someone == Vacant \/ \E c \in Calls : OneWriter(c)

LEMMA InvokeKeepsSerial ==
  ASSUME TypeOK, Calm, Someone, NEW c \in Calls, NEW e \in Writes, Invoke(c, e)
  PROVE  Calm' /\ Someone'
<1>1. /\ status[c] = "idle"
      /\ status' = [status EXCEPT ![c] = "passed"] /\ effect' = [effect EXCEPT ![c] = e]
      /\ UNCHANGED <<db, store, prev, walVars, diskVars, compactVars, bounds>>
  <2>1. c >= c
    BY DEF Calls
  <2>2. Gate = "passed"
    BY DEF Gate, Calm
  <2> QED BY <2>1, <2>2 DEF Invoke
<1>2. \A d \in Calls : d # c => status'[d] = status[d] /\ effect'[d] = effect[d]
  BY <1>1 DEF TypeOK
<1>3. status'[c] = "passed" /\ effect'[c] = e
  BY <1>1 DEF TypeOK
<1>4. OnFile' = OnFile
  <2>1. walFile \in Seq(Calls) /\ \A i \in DOMAIN walFile : effect[walFile[i]] = effect'[walFile[i]]
    BY <1>1, <1>2 DEF TypeOK, Calm
  <2>2. Replay(snapFile, walFile, effect) = Replay(snapFile, walFile, effect')
    BY <2>1, ReplayEffects
  <2> QED BY <1>1, <2>2 DEF OnFile, Recovered, diskVars
<1>5. Calm'
  <2>1. UNCHANGED <<phase, lock, walState, walFile>>
    BY <1>1 DEF compactVars, walVars, diskVars
  <2>2. \A i \in DOMAIN walFile : walFile[i] \in Calls
    BY DEF TypeOK
  <2>3. \A d \in Calls : effect'[d] \in Writes \/ status'[d] = "idle"
    BY <1>2, <1>3 DEF Calm
  <2>4. \A d \in Calls : status'[d] \notin {"gated", "bounced", "refused", "parked"}
    BY <1>2, <1>3 DEF Calm
  <2>5. \A i \in DOMAIN walFile : status'[walFile[i]] # "idle"
    BY <1>2, <1>3, <2>2 DEF Calm
  <2> QED BY <2>1, <2>3, <2>4, <2>5 DEF Calm
<1>6. UNCHANGED <<queue, batch, rejecting, landed, store, prev>>
  BY <1>1 DEF walVars
<1>7. CASE Vacant
  <2>1. Values(store') = Values(store) /\ \A d \in Calls : status'[d] # "pending"
    BY <1>2, <1>3, <1>6, <1>7 DEF Vacant, Values
  <2>2. Vacant'
    BY <1>4, <1>6, <1>7, <2>1 DEF Vacant, Values
  <2> QED BY <1>5, <2>2 DEF Someone
<1>8. ASSUME NEW d \in Calls, OneWriter(d) PROVE Someone'
  <2>1. d # c
    BY <1>1, <1>8 DEF OneWriter
  <2>2. \A b \in Calls : status'[b] = "pending" <=> b = d
    BY <1>1, <1>2, <1>3, <1>8, <2>1 DEF OneWriter
  <2>3. Undoable(d) => Undoable(d)'
    BY <1>2, <1>4, <1>6, <2>1 DEF Undoable, Written
  <2>4. Taken(d)'
    BY <1>4, <1>6, <1>8, <2>3 DEF OneWriter, Taken, Values
  <2> QED BY <2>2, <2>4 DEF OneWriter, Someone
<1> QED BY <1>5, <1>7, <1>8 DEF Someone

LEMMA CommitKeepsSerial ==
  ASSUME TypeOK, OneAtATime, Calm, Someone, NEW c \in Calls, Commit(c), status[c] = "passed"
  PROVE  Calm' /\ Someone'
<1>1. /\ queue' = Append(queue, c) /\ status' = [status EXCEPT ![c] = "pending"]
      /\ store' = Applied(c) /\ prev' = [prev EXCEPT ![c] = Values(store)]
      /\ UNCHANGED <<effect, walState, batch, landed, rejecting, walFile, snapFile, phase, lock>>
  BY DEF Commit, Calm, ChangeStore, diskVars
<1>2. Vacant
  <2> SUFFICES ASSUME NEW d \in Calls, OneWriter(d) PROVE FALSE
    BY DEF Someone
  <2>1. status[d] = "pending" /\ d # c
    BY DEF OneWriter
  <2>2. TakesUniqueLock(c) /\ TakesUniqueLock(d)
    BY <2>1 DEF Calm, OneAtATime, TakesUniqueLock, TypeOK
  <2> QED BY <2>1, <2>2 DEF Commit, UniqueLockFree
<1>3. Calm'
  <2>1. \A d \in Calls : status'[d] = IF d = c THEN "pending" ELSE status[d]
    BY <1>1 DEF TypeOK
  <2>2. \A i \in DOMAIN walFile : walFile[i] \in Calls
    BY DEF TypeOK
  <2>3. \A i \in DOMAIN walFile : status'[walFile[i]] # "idle"
    BY <2>1, <2>2 DEF Calm
  <2> QED BY <1>1, <2>1, <2>3 DEF Calm
<1>4. \A d \in Calls : status'[d] = "pending" <=> d = c
  BY <1>1, <1>2 DEF TypeOK, Vacant
<1>5. Undoable(c)'
  <2>1. OnFile' = OnFile /\ Values(store) = OnFile
    BY <1>1, <1>2 DEF OnFile, Recovered, Vacant
  <2>2. prev'[c] = Values(store)
    BY <1>1 DEF TypeOK
  <2>3. \A k \in Keys :
          IF effect'[c][k] = "keep" THEN store'[k].val = prev'[c][k]
          ELSE store'[k].val = Written(effect', c, k) /\ store'[k].by = Written(effect', c, k)
    BY <1>1, <2>2 DEF Applied, Values
  <2> QED BY <2>1, <2>2, <2>3 DEF Undoable
<1>6. queue' = <<c>> /\ batch' = <<>> /\ rejecting' = <<>>
  BY <1>1, <1>2 DEF Vacant
<1> QED BY <1>3, <1>4, <1>5, <1>6 DEF Someone, OneWriter, Taken

(* The rollback finds the record as the call left it.                       *)
LEMMA RejectKeepsSerial ==
  ASSUME TypeOK, Calm, Someone, Reject
  PROVE  Calm' /\ Someone'
<1>1. PICK c \in Calls : OneWriter(c) /\ rejecting = <<c>> /\ queue = <<>> /\ batch = <<>> /\ Undoable(c)
  BY DEF Reject, Someone, Vacant, OneWriter, Taken
<1>2. /\ store' = Restored(c) /\ status' = [status EXCEPT ![c] = "failed"] /\ rejecting' = <<>>
      /\ UNCHANGED <<effect, walState, queue, batch, walFile, snapFile, phase, lock>>
  BY <1>1 DEF Reject, ChangeStore, diskVars
<1>3. \A d \in Calls : status'[d] = IF d = c THEN "failed" ELSE status[d]
  BY <1>2 DEF TypeOK
<1>4. Calm'
  <2>1. \A i \in DOMAIN walFile : walFile[i] \in Calls
    BY DEF TypeOK
  <2>2. status[c] # "idle"
    BY <1>1 DEF OneWriter
  <2>3. \A i \in DOMAIN walFile : status'[walFile[i]] # "idle"
    BY <1>3, <2>1 DEF Calm
  <2> QED BY <1>2, <1>3, <2>2, <2>3 DEF Calm
<1>5. Values(store') = OnFile
  <2>1. OnFile \in Contents
    BY ReplayType DEF OnFile, Recovered, TypeOK
  <2>2. ASSUME NEW k \in Keys PROVE store'[k].val = OnFile[k]
    <3>1. CASE effect[c][k] = "keep"
      BY <1>1, <1>2, <3>1 DEF Undoable, Restored, Touched
    <3>2. CASE effect[c][k] # "keep"
      <4>1. store[k].val = Written(effect, c, k) /\ store[k].by = Written(effect, c, k)
        BY <1>1, <3>2 DEF Undoable
      <4>2. c # Absent
        BY DEF Calls, Absent
      <4>3. StillAs(c, k)
        BY <4>1, <4>2 DEF StillAs, Written
      <4>4. k \in Touched(effect[c])
        BY <3>2 DEF Touched
      <4> QED BY <1>1, <1>2, <4>3, <4>4 DEF Restored, Undoable
    <3> QED BY <3>1, <3>2
  <2> QED BY <2>1, <2>2 DEF Values, Contents
<1>6. OnFile' = OnFile
  BY <1>2 DEF OnFile, Recovered
<1>7. Vacant'
  BY <1>1, <1>2, <1>3, <1>5, <1>6 DEF Vacant, OneWriter, Values
<1> QED BY <1>4, <1>7 DEF Someone

LEMMA LandKeepsSerial ==
  ASSUME TypeOK, Calm, Someone, Land
  PROVE  Calm' /\ Someone'
<1>1. PICK c \in Calls : OneWriter(c) /\ batch = <<c>> /\ queue = <<>> /\ rejecting = <<>> /\ landed = 0 /\ Undoable(c)
  BY DEF Land, Flushing, Someone, Vacant, OneWriter, Taken
<1>2. /\ walFile' = Append(walFile, c) /\ landed' = 1
      /\ UNCHANGED <<effect, status, store, prev, walState, queue, batch, rejecting, snapFile, phase, lock>>
  BY <1>1 DEF Land, callVars, compactVars
<1>3. walFile \in Seq(Calls) /\ snapFile \in Contents /\ status[c] = "pending"
  BY <1>1 DEF TypeOK, OneWriter
<1>4. \A i \in DOMAIN walFile' : walFile'[i] = c \/ (i \in DOMAIN walFile /\ walFile'[i] = walFile[i])
  BY <1>2, <1>3
<1>5. Calm'
  <2>1. \A i \in DOMAIN walFile' : status'[walFile'[i]] # "idle"
    BY <1>2, <1>3, <1>4 DEF Calm
  <2> QED BY <1>2, <2>1 DEF Calm
<1>6. Values(store) = OnFile'
  <2>1. OnFile' = Replay(snapFile, Append(walFile, c), effect)
    BY <1>2 DEF OnFile, Recovered
  <2>2. \A k \in Keys : OnFile'[k] = IF effect[c][k] = "keep" THEN OnFile[k] ELSE Written(effect, c, k)
    BY <1>3, <2>1, ReplayAppend DEF OnFile, Recovered
  <2>3. \A k \in Keys : store[k].val = OnFile'[k]
    BY <1>1, <2>2 DEF Undoable
  <2>4. Append(walFile, c) \in Seq(Calls)
    BY <1>3
  <2>5. OnFile' \in Contents
    BY <1>3, <2>1, <2>4, ReplayType
  <2> QED BY <2>3, <2>5 DEF Values, Contents
<1>7. OneWriter(c)'
  BY <1>1, <1>2, <1>6 DEF OneWriter, Taken, Values
<1> QED BY <1>5, <1>7 DEF Someone

LEMMA BatchKeepsSerial ==
  ASSUME TypeOK, OneAtATime, Calm, Someone, TakeBatch \/ ResolveBatch \/ FailBatch
  PROVE  Calm' /\ Someone'
<1>1. /\ UNCHANGED <<effect, store, walState, walFile, snapFile, phase, lock>>
      /\ OnFile' = OnFile /\ Values(store') = Values(store)
  BY DEF TakeBatch, ResolveBatch, FailBatch, callVars, diskVars, compactVars, OnFile, Recovered
<1>2. ASSUME NEW c \in Calls, UNCHANGED prev, Undoable(c) PROVE Undoable(c)'
  BY <1>1, <1>2 DEF Undoable
<1>3. CASE TakeBatch
  <2>1. PICK c \in Calls : OneWriter(c) /\ queue = <<c>> /\ batch = <<>> /\ rejecting = <<>> /\ Undoable(c)
    BY <1>3 DEF TakeBatch, Flushing, Someone, Vacant, OneWriter, Taken
  <2>2. queue' = <<>> /\ batch' = <<c>> /\ rejecting' = <<>> /\ landed' = 0 /\ UNCHANGED <<status, prev>>
    BY <1>3, <2>1 DEF TakeBatch, callVars
  <2>3. Taken(c)' /\ OneWriter(c)'
    BY <1>2, <2>1, <2>2 DEF Taken, OneWriter
  <2> QED BY <1>1, <2>2, <2>3 DEF Calm, Someone
<1>4. CASE FailBatch
  <2>1. ~db.always /\ landed # Len(batch)
    BY <1>4 DEF FailBatch, BatchDurable, OneAtATime, TypeOK
  <2>2. PICK c \in Calls : OneWriter(c) /\ batch = <<c>> /\ queue = <<>> /\ Undoable(c)
    BY <1>4, <2>1 DEF FailBatch, Flushing, Someone, Vacant, OneWriter, Taken
  <2>3. queue' = <<>> /\ batch' = <<>> /\ rejecting' = <<c>> /\ UNCHANGED <<status, prev>>
    BY <1>4, <2>2 DEF FailBatch, callVars
  <2>4. Taken(c)' /\ OneWriter(c)'
    BY <1>2, <2>2, <2>3 DEF Taken, OneWriter
  <2> QED BY <1>1, <2>3, <2>4 DEF Calm, Someone
<1>5. CASE ResolveBatch
  <2>1. PICK c \in Calls : OneWriter(c) /\ batch = <<c>> /\ queue = <<>> /\ rejecting = <<>> /\ Values(store) = OnFile
    BY <1>5 DEF ResolveBatch, BatchDurable, Flushing, Someone, Vacant, OneWriter, Taken
  <2>2. queue' = <<>> /\ batch' = <<>> /\ rejecting' = <<>>
    BY <1>5, <2>1 DEF ResolveBatch
  <2>3. Range(batch) = {c}
    BY <2>1 DEF Range
  <2>4. \A d \in Calls : status'[d] = IF d = c THEN "acked" ELSE status[d]
    BY <1>5, <2>3 DEF ResolveBatch
  <2>5. Vacant'
    BY <1>1, <2>1, <2>2, <2>4 DEF Vacant, OneWriter, Values
  <2>6. status[c] = "pending" /\ \A i \in DOMAIN walFile : walFile[i] \in Calls
    BY <2>1 DEF OneWriter, TypeOK
  <2>7. \A i \in DOMAIN walFile : status'[walFile[i]] # "idle"
    BY <2>4, <2>6 DEF Calm
  <2> QED BY <1>1, <2>4, <2>5, <2>6, <2>7 DEF Calm, Someone
<1> QED BY <1>3, <1>4, <1>5

LEMMA CrashKeepsSerial ==
  ASSUME TypeOK, Calm, ProcessCrash
  PROVE  Calm' /\ Someone'
<1>1. /\ walFile' = walFile /\ snapFile' = snapFile /\ effect' = effect /\ store' = Fresh(OnFile)
      /\ status' = [d \in Calls |-> IF status[d] \in {"idle", "acked", "failed"} THEN status[d] ELSE "lost"]
      /\ queue' = <<>> /\ batch' = <<>> /\ rejecting' = <<>>
      /\ walState' = "open" /\ lock' = FALSE /\ phase' = "idle"
  BY DEF ProcessCrash, CrashTo, Release, OnFile
<1>2. \A d \in Calls : /\ status'[d] \in {"idle", "acked", "failed", "lost"}
                       /\ status'[d] = "idle" <=> status[d] = "idle"
  BY <1>1
<1>3. \A i \in DOMAIN walFile : walFile[i] \in Calls
  BY DEF TypeOK
<1>4. Calm'
  <2>1. \A i \in DOMAIN walFile : status'[walFile[i]] # "idle"
    BY <1>2, <1>3 DEF Calm
  <2>2. \A d \in Calls : status'[d] \notin {"gated", "bounced", "refused", "parked"}
    BY <1>2
  <2>3. \A d \in Calls : status'[d] # "idle" => effect'[d] \in Writes
    BY <1>1, <1>2 DEF Calm
  <2> QED BY <1>1, <2>1, <2>2, <2>3 DEF Calm
<1>5. OnFile' = OnFile
  BY <1>1 DEF OnFile, Recovered
<1>6. Values(store') = OnFile
  <2>1. OnFile \in Contents
    BY ReplayType DEF OnFile, Recovered, TypeOK
  <2> QED BY <1>1, <2>1 DEF Values, Fresh, Contents
<1>7. Vacant'
  BY <1>1, <1>2, <1>5, <1>6 DEF Vacant, Values
<1> QED BY <1>4, <1>7 DEF Someone

LEMMA RestKeepsSerial ==
  ASSUME Calm, Someone, UNCHANGED vars \/ FsyncDir
  PROVE  Calm' /\ Someone'
<1>1. UNCHANGED <<effect, store, prev, status, queue, batch, rejecting, landed, walState, walFile, snapFile, phase, lock>>
  BY DEF vars, FsyncDir, callVars, walVars, diskVars, compactVars
<1>2. UNCHANGED Vacant /\ Calm' /\ \A c \in Calls : UNCHANGED OneWriter(c)
  BY <1>1 DEF Vacant, Calm, OneWriter, Taken, Undoable, OnFile, Recovered, Values
<1> QED BY <1>2 DEF Someone

LEMMA SerialKept ==
  ASSUME TypeOK, OneAtATime, SerialInv, [Next]_vars
  PROVE  SerialInv'
<1>1. BoundsCount' /\ bounds["compactions"] <= bounds'["compactions"]
  BY BoundsCounted DEF SerialInv
<1>2. ASSUME bounds'["compactions"] = 0 PROVE Calm' /\ Someone'
  <2>1. bounds["compactions"] = 0
    BY <1>1, <1>2 DEF SerialInv, BoundsCount
  <2>2. Calm /\ Someone
    BY <2>1 DEF SerialInv, Someone
  <2> QED
    BY <1>2, <2>2, CalmSteps, InvokeKeepsSerial, CommitKeepsSerial, RejectKeepsSerial, LandKeepsSerial,
      BatchKeepsSerial, CrashKeepsSerial, RestKeepsSerial DEF SerialInv
<1> QED BY <1>1, <1>2 DEF SerialInv, Someone

(* A write that failed leaves no trace: once the log has settled memory is  *)
(* what a restart would recover (index.ts:741-743), whichever batches fail. *)
(* The hypotheses serialise the writers (a unique index, and no del() of one *)
(* key, which goes past its lock) and have a frame done with once it is in  *)
(* the file (no policy "always"); without any of them the property fails.   *)
THEOREM FailuresLeaveNoTrace ==
  ASSUME \A d \in Databases : d.unique /\ ~d.always,
         \A e \in Writes : ~SingleDelete(e)
  PROVE  Spec => []MemoryIsDurable
<1>1. OneAtATime
  BY DEF OneAtATime
<1>2. TypeOK /\ SerialInv /\ [Next]_vars => SerialInv'
  BY <1>1, SerialKept
<1>3. SerialInv => MemoryIsDurable
  <2> SUFFICES ASSUME SerialInv, Flushed, bounds["compactions"] = 0 PROVE Values(store) = Recovered(snapFile, walFile)
    BY DEF MemoryIsDurable
  <2>1. Vacant \/ \E c \in Calls : OneWriter(c)
    BY DEF SerialInv
  <2>2. Vacant
    BY <2>1 DEF Flushed, Flushing, OneWriter, Taken
  <2> QED BY <2>2 DEF Vacant, OnFile
<1> QED BY InitSerial, <1>2, <1>3, TypeInvariant, PTL DEF Spec
=============================================================================
