------------------------- MODULE ToolExecutorProofs -------------------------
(* The batch executor keeps its promises for every number of calls, every   *)
(* declaration of accesses and every schedule of the event loop.            *)
EXTENDS ToolExecutor, TLAPS

-----------------------------------------------------------------------------
(* The conflict test decides exactly whether two access lists clash, for    *)
(* every set of files and every case folding.                               *)

(* A normalized path is a path (normalizePath keeps the segments' number).  *)
LEMMA NormalizedIsPath ==
  ASSUME NEW p \in Seq(Segment)
  PROVE  /\ normalizePath(p) \in Seq(Segment)
         /\ Len(normalizePath(p)) \in Nat
<1>1. Fold \in [Segment -> Segment]
  BY FilesAssumption
<1>2. normalizePath(p) \in [1..Len(p) -> Segment] /\ Len(p) \in Nat
  BY <1>1 DEF normalizePath
<1>3. normalizePath(p) \in Seq(Segment)
  BY <1>2
<1> QED
  BY <1>3

(* conflict() does not depend on which call is asked about which.           *)
LEMMA ConflictSymmetric ==
  ASSUME NEW left, NEW right
  PROVE  conflict(left, right) <=> conflict(right, left)
<1>1. ASSUME NEW l, NEW r
      PROVE  resourceAccessesConflict(l, r) <=> resourceAccessesConflict(r, l)
  BY DEF resourceAccessesConflict, fileAccessesOverlap
<1> QED
  BY <1>1 DEF conflict

(* Two prefixes of one path: the shorter one is a prefix of the other.      *)
LEMMA PrefixesNest ==
  ASSUME NEW a \in Seq(Segment), NEW b \in Seq(Segment), NEW f \in Seq(Segment),
         Under(a, f), Under(b, f)
  PROVE  Under(a, b) \/ Under(b, a)
<1>1. CASE Len(a) <= Len(b)
  BY <1>1 DEF Under
<1>2. CASE Len(b) <= Len(a)
  BY <1>2 DEF Under
<1> QED
  BY <1>1, <1>2

(* One access of each list: the test and the reference definition agree.    *)
LEMMA AccessesClash ==
  ASSUME NEW l \in Access, NEW r \in Access
  PROVE  resourceAccessesConflict(l, r) <=>
           /\ MayChange(l) \/ MayChange(r)
           /\ \E file \in Files : Touches(l, file) /\ Touches(r, file)
<1>0. ASSUME NEW p \in Files PROVE normalizePath(p) \in Seq(Segment)
  BY NormalizedIsPath, FilesAssumption
<1>1. PICK some \in Files : TRUE
  BY FilesAssumption
<1>2. CASE l.kind = "all"
  <2>1. \A file \in Files : Touches(l, file)
    BY <1>2 DEF Touches
  <2>2. \E file \in Files : Touches(r, file)
    <3>1. CASE r.kind = "all"
      BY <1>1, <3>1 DEF Touches
    <3>2. CASE r \in FileAccess
      BY <3>2 DEF FileAccess, Touches, SameFile
    <3> QED
      BY <3>1, <3>2 DEF Access, AllAccess
  <2> QED
    BY <1>2, <2>1, <2>2 DEF resourceAccessesConflict, MayChange
<1>3. CASE r.kind = "all"
  <2>1. \A file \in Files : Touches(r, file)
    BY <1>3 DEF Touches
  <2>2. \E file \in Files : Touches(l, file)
    <3>1. CASE l.kind = "all"
      BY <1>1, <3>1 DEF Touches
    <3>2. CASE l \in FileAccess
      BY <3>2 DEF FileAccess, Touches, SameFile
    <3> QED
      BY <3>1, <3>2 DEF Access, AllAccess
  <2> QED
    BY <1>3, <2>1, <2>2 DEF resourceAccessesConflict, MayChange
<1>4. CASE l.kind # "all" /\ r.kind # "all"
  <2>1. l \in FileAccess /\ r \in FileAccess
    BY <1>4 DEF Access, AllAccess
  <2> DEFINE lp == normalizePath(l.path)
             rp == normalizePath(r.path)
  <2>2. /\ l.kind = "file" /\ r.kind = "file"
        /\ l.path \in Files /\ r.path \in Files
        /\ l.recursive \in BOOLEAN /\ r.recursive \in BOOLEAN
    BY <2>1 DEF FileAccess
  <2>3. lp \in Seq(Segment) /\ rp \in Seq(Segment)
    BY <1>0, <2>2
  <2>4. fileAccessesOverlap(l, r) <=>
          \E file \in Files : Touches(l, file) /\ Touches(r, file)
    <3>1. ASSUME fileAccessesOverlap(l, r)
          PROVE  \E file \in Files : Touches(l, file) /\ Touches(r, file)
      BY <3>1, <2>2 DEF fileAccessesOverlap, Touches, SameFile
    <3>2. ASSUME NEW file \in Files, Touches(l, file), Touches(r, file)
          PROVE  fileAccessesOverlap(l, r)
      <4> DEFINE f == normalizePath(file)
      <4>1. f \in Seq(Segment)
        BY <1>0
      <4>2. lp = f \/ (l.recursive /\ Under(lp, f))
        BY <3>2, <2>2 DEF Touches, SameFile
      <4>3. rp = f \/ (r.recursive /\ Under(rp, f))
        BY <3>2, <2>2 DEF Touches, SameFile
      <4>4. CASE lp = f \/ rp = f
        BY <4>2, <4>3, <4>4 DEF fileAccessesOverlap
      <4>5. CASE lp # f /\ rp # f
        <5>1. Under(lp, rp) \/ Under(rp, lp)
          BY <2>3, <4>1, <4>2, <4>3, <4>5, PrefixesNest
        <5> QED
          BY <4>2, <4>3, <4>5, <5>1 DEF fileAccessesOverlap
      <4> QED
        BY <4>4, <4>5
    <3> QED
      BY <3>1, <3>2
  <2>5. (MayChange(l) \/ MayChange(r)) <=>
          (fileOperationWrites(l.operation) \/ fileOperationWrites(r.operation))
    BY <2>2 DEF MayChange
  <2> QED
    BY <1>4, <2>4, <2>5 DEF resourceAccessesConflict
<1> QED
  BY <1>2, <1>3, <1>4

(* ToolAccesses.conflict: two calls are kept apart exactly when some file is *)
(* touched by both and one of them may change it.                           *)
THEOREM ConflictIsClash ==
  ASSUME NEW left \in SUBSET Access, NEW right \in SUBSET Access
  PROVE  conflict(left, right) <=> Clash(left, right)
<1>1. \A l \in left, r \in right :
        resourceAccessesConflict(l, r) <=>
          /\ MayChange(l) \/ MayChange(r)
          /\ \E file \in Files : Touches(l, file) /\ Touches(r, file)
  BY AccessesClash
<1> QED
  BY <1>1 DEF conflict, Clash


-----------------------------------------------------------------------------
(* The inductive invariant. *)

Waiting(c)   == status[c] \in {"unseen", "prepared"}
Scheduled(c) == status[c] \in {"active", "settled", "finished"}

(* The calls are scheduled all together, and every phase of execute() knows *)
(* how far they can be.                                                     *)
Phases ==
  /\ \A c, d \in Calls : Waiting(c) => Waiting(d)
  /\ phase = "preparing" => \A c \in Calls : Waiting(c) /\ out[c] = "none"
  /\ phase \in {"running", "draining"} => \A c \in Calls : ~Waiting(c)
  /\ phase = "over" => \A c \in Calls : status[c] \notin {"queued", "active"} /\ out[c] # "finalizing"
  /\ phase = "draining" => threw
  /\ phase = "over" /\ ~threw => \A c \in Calls : out[c] = "yielded"

(* Preparation goes from the first call to the last and turns nothing into  *)
(* a runnable task behind the call that stopped the batch.                  *)
Preparation ==
  /\ \A c \in Calls : status[c] = "unseen" => kind[c] = "none"
  /\ \A c, d \in Calls : c < d /\ status[d] # "unseen" => status[c] # "unseen"
  /\ stopAt # 0 => \A c \in Calls : c > stopAt => kind[c] # "runnable"

(* A body belongs to a scheduled runnable task, and is forgotten by the     *)
(* scheduler while it runs only after an abort.                             *)
Bodies ==
  \A c \in Calls :
    /\ body[c] # "none" => kind[c] = "runnable" /\ Scheduled(c)
    /\ body[c] = "running" /\ status[c] # "active" => aborted
    /\ out[c] # "none" => status[c] \in {"settled", "finished"}

(* What conflicts runs in the order of the calls. *)
Order ==
  \A c, d \in Calls :
    c < d /\ Scheduled(d) /\ conflicting(d, c) => status[c] = "finished"

Exclusive ==
  \A c, d \in Calls :
    c # d /\ body[c] = "running" /\ body[d] = "running" => ~conflicting(c, d)

Waits ==
  \A c \in queuedTasks :
    \E d \in activeTasks \cup {q \in queuedTasks : q < c} : conflicting(c, d)

IInv == TypeOK /\ Phases /\ Preparation /\ Bodies /\ Order /\ Exclusive /\ Waits

-----------------------------------------------------------------------------
(* Types. *)

(* What one call's preparation puts in place is well typed.                 *)
LEMMA PreparedTypes ==
  ASSUME TypeOK, NEW c \in Calls, NEW k \in {"resolved", "runnable"},
         NEW list \in SUBSET Access, NEW stops \in BOOLEAN, Prepared(c, k, list, stops)
  PROVE  TypeOK'
BY DEF TypeOK, Prepared, Status

(* Every step keeps the types of the executor's state.                      *)
LEMMA TypeStep ==
  ASSUME TypeOK, [Next]_vars
  PROVE  TypeOK'
<1>1. ASSUME NEW c \in Calls, Prepare(c)
      PROVE  TypeOK'
  <2>1. CASE PrepareSkipped(c)
    BY <2>1, PreparedTypes DEF PrepareSkipped
  <2>2. ASSUME NEW stops \in BOOLEAN, PrepareSettled(c, stops)
        PROVE  TypeOK'
    BY <2>2, PreparedTypes DEF PrepareSettled
  <2>3. ASSUME NEW stops \in BOOLEAN, NEW list \in AccessLists, PrepareRunnable(c, list, stops)
        PROVE  TypeOK'
    BY <2>3, PreparedTypes, BatchAssumption DEF PrepareRunnable
  <2>4. CASE PrepareThrows(c)
    BY <2>4 DEF PrepareThrows, TypeOK
  <2> QED
    BY <1>1, <2>1, <2>2, <2>3, <2>4 DEF Prepare
<1>2. CASE ExecuteBatch
  BY <1>2 DEF ExecuteBatch, BodiesAfterStarting, TypeOK, Status
<1>3. ASSUME NEW c \in Calls, Finish(c)
      PROVE  TypeOK'
  BY <1>3 DEF Finish, BodiesAfterStarting, TypeOK, Status
<1>4. ASSUME NEW c \in Calls, BodyEnds(c)
      PROVE  TypeOK'
  BY <1>4 DEF BodyEnds, TypeOK
<1>5. ASSUME NEW c \in Calls, Settle(c) \/ GraceExpires(c)
      PROVE  TypeOK'
  BY <1>5 DEF Settle, GraceExpires, TypeOK, Status
<1>6. ASSUME NEW c \in Calls, BeginFinalize(c) \/ FinalizeResult(c) \/ FinalizeThrows(c)
      PROVE  TypeOK'
  BY <1>6 DEF BeginFinalize, FinalizeResult, FinalizeThrows, TypeOK
<1>7. CASE ExecuteEnds \/ Abort
  BY <1>7 DEF ExecuteEnds, Abort, TypeOK
<1>8. CASE UNCHANGED vars
  BY <1>8 DEF vars, TypeOK
<1> QED
  BY <1>1, <1>2, <1>3, <1>4, <1>5, <1>6, <1>7, <1>8 DEF Next

-----------------------------------------------------------------------------
(* Helpers. *)

(* The executor asks about two calls in either order.                       *)
LEMMA ConflictingSymmetric ==
  \A c, d : conflicting(c, d) <=> conflicting(d, c)
BY ConflictSymmetric DEF conflicting

(* Whether two calls conflict is settled once they are prepared.            *)
LEMMA ConflictingUnchanged ==
  ASSUME accesses' = accesses
  PROVE  \A c, d : conflicting(c, d)' <=> conflicting(c, d)
BY DEF conflicting

-----------------------------------------------------------------------------
(* The other parts of the invariant, one lemma each. *)

(* Phases is kept by every step.                                            *)
LEMMA PhasesStep ==
  ASSUME IInv, [Next]_vars
  PROVE  Phases'
<1> USE DEF IInv, TypeOK, Phases, Bodies, Waiting
<1>1. ASSUME NEW c \in Calls, Prepare(c)
      PROVE  Phases'
  BY <1>1 DEF Prepare, PrepareSkipped, PrepareSettled, PrepareRunnable, PrepareThrows, Turn, Prepared
<1>2. CASE ExecuteBatch
  BY <1>2 DEF ExecuteBatch
<1>3. ASSUME NEW c \in Calls, Finish(c)
      PROVE  Phases'
  BY <1>3 DEF Finish, Unblocked, queuedTasks
<1>4. ASSUME NEW c \in Calls, BodyEnds(c) \/ Settle(c) \/ GraceExpires(c)
      PROVE  Phases'
  BY <1>4 DEF BodyEnds, Settle, GraceExpires
<1>5. ASSUME NEW c \in Calls, BeginFinalize(c) \/ FinalizeResult(c) \/ FinalizeThrows(c)
      PROVE  Phases'
  BY <1>5 DEF BeginFinalize, FinalizeResult, FinalizeThrows
<1>6. CASE ExecuteEnds
  BY <1>6 DEF ExecuteEnds, Resolved
<1>7. CASE Abort \/ UNCHANGED vars
  BY <1>7 DEF Abort, vars
<1> QED
  BY <1>1, <1>2, <1>3, <1>4, <1>5, <1>6, <1>7 DEF Next

(* Preparation is kept by every step: only Prepare(c) touches what it says. *)
LEMMA PreparationStep ==
  ASSUME IInv, [Next]_vars
  PROVE  Preparation'
<1> USE DEF IInv, TypeOK, Phases, Preparation, Waiting
<1>1. ASSUME NEW c \in Calls, Prepare(c)
      PROVE  Preparation'
  <2>0. c \in Nat /\ c # 0 /\ \A d \in Calls : d \in Nat
    BY BatchAssumption DEF Calls
  <2>1. CASE PrepareSkipped(c)
    BY <2>0, <2>1 DEF PrepareSkipped, Turn, Prepared
  <2>2. ASSUME NEW stops \in BOOLEAN, PrepareSettled(c, stops)
        PROVE  Preparation'
    BY <2>0, <2>2 DEF PrepareSettled, Turn, Prepared
  <2>3. ASSUME NEW stops \in BOOLEAN, NEW list \in AccessLists, PrepareRunnable(c, list, stops)
        PROVE  Preparation'
    BY <2>0, <2>3 DEF PrepareRunnable, Turn, Prepared
  <2>4. CASE PrepareThrows(c)
    BY <2>4 DEF PrepareThrows
  <2> QED
    BY <1>1, <2>1, <2>2, <2>3, <2>4 DEF Prepare
<1>2. CASE ExecuteBatch
  BY <1>2 DEF ExecuteBatch
<1>3. ASSUME NEW c \in Calls, Finish(c)
      PROVE  Preparation'
  BY <1>3 DEF Finish, Unblocked, queuedTasks
<1>4. ASSUME NEW c \in Calls, BodyEnds(c) \/ Settle(c) \/ GraceExpires(c)
      PROVE  Preparation'
  BY <1>4 DEF BodyEnds, Settle, GraceExpires
<1>5. ASSUME NEW c \in Calls, BeginFinalize(c) \/ FinalizeResult(c) \/ FinalizeThrows(c)
      PROVE  Preparation'
  BY <1>5 DEF BeginFinalize, FinalizeResult, FinalizeThrows
<1>6. CASE ExecuteEnds \/ Abort \/ UNCHANGED vars
  BY <1>6 DEF ExecuteEnds, Abort, vars
<1> QED
  BY <1>1, <1>2, <1>3, <1>4, <1>5, <1>6 DEF Next

(* Bodies is kept by every step: a body begins only for a runnable task that *)
(* has just become active, and never after the abort.                       *)
LEMMA BodiesStep ==
  ASSUME IInv, [Next]_vars
  PROVE  Bodies'
<1> USE DEF IInv, TypeOK, Phases, Bodies, Scheduled, Waiting
<1>1. ASSUME NEW c \in Calls, Prepare(c)
      PROVE  Bodies'
  BY <1>1 DEF Prepare, PrepareSkipped, PrepareSettled, PrepareRunnable, PrepareThrows, Turn, Prepared
<1>2. CASE ExecuteBatch
  BY <1>2 DEF ExecuteBatch, BodiesAfterStarting
<1>3. ASSUME NEW c \in Calls, Finish(c)
      PROVE  Bodies'
  BY <1>3 DEF Finish, Unblocked, queuedTasks, BodiesAfterStarting
<1>4. ASSUME NEW c \in Calls, BodyEnds(c) \/ Settle(c) \/ GraceExpires(c)
      PROVE  Bodies'
  BY <1>4 DEF BodyEnds, Settle, GraceExpires
<1>5. ASSUME NEW c \in Calls, BeginFinalize(c) \/ FinalizeResult(c) \/ FinalizeThrows(c)
      PROVE  Bodies'
  BY <1>5 DEF BeginFinalize, FinalizeResult, FinalizeThrows, Resolved
<1>6. CASE ExecuteEnds \/ Abort \/ UNCHANGED vars
  BY <1>6 DEF ExecuteEnds, Abort, vars
<1> QED
  BY <1>1, <1>2, <1>3, <1>4, <1>5, <1>6 DEF Next

(* Order is kept: a task starts only when no conflicting task before it is  *)
(* active or queued.                                                        *)
LEMMA OrderStep ==
  ASSUME IInv, [Next]_vars
  PROVE  Order'
<1> USE DEF IInv, TypeOK, Phases, Order, Scheduled, Waiting
<1>1. ASSUME NEW c \in Calls, Prepare(c)
      PROVE  Order'
  BY <1>1 DEF Prepare, PrepareSkipped, PrepareSettled, PrepareRunnable, PrepareThrows, Turn, Prepared
<1>2. CASE ExecuteBatch
  BY <1>2, ConflictingUnchanged DEF ExecuteBatch
<1>3. ASSUME NEW c \in Calls, Finish(c)
      PROVE  Order'
  <2>1. \A e, d : conflicting(e, d)' <=> conflicting(e, d)
    BY <1>3, ConflictingUnchanged DEF Finish
  <2>2. SUFFICES ASSUME NEW e \in Calls, NEW d \in Calls,
                        e < d, Scheduled(d)', conflicting(d, e)
                 PROVE  status'[e] = "finished"
    BY <2>1
  <2>3. CASE d \in Unblocked(c)
    BY <1>3, <2>2, <2>3 DEF Finish, Unblocked, queuedTasks, activeTasks, Status
  <2>4. CASE d \notin Unblocked(c)
    BY <1>3, <2>2, <2>4 DEF Finish, Unblocked, queuedTasks
  <2> QED
    BY <2>3, <2>4
<1>4. ASSUME NEW c \in Calls, BodyEnds(c) \/ Settle(c) \/ GraceExpires(c)
      PROVE  Order'
  BY <1>4, ConflictingUnchanged DEF BodyEnds, Settle, GraceExpires
<1>5. ASSUME NEW c \in Calls, BeginFinalize(c) \/ FinalizeResult(c) \/ FinalizeThrows(c)
      PROVE  Order'
  BY <1>5, ConflictingUnchanged DEF BeginFinalize, FinalizeResult, FinalizeThrows
<1>6. CASE ExecuteEnds \/ Abort \/ UNCHANGED vars
  BY <1>6, ConflictingUnchanged DEF ExecuteEnds, Abort, vars
<1> QED
  BY <1>1, <1>2, <1>3, <1>4, <1>5, <1>6 DEF Next

(* Exclusive is kept: bodies begin only before the abort, when every running *)
(* body still counts as active; after the abort bodies only end.            *)
LEMMA ExclusiveStep ==
  ASSUME IInv, [Next]_vars
  PROVE  Exclusive'
<1>1. CASE ~aborted'
  <2>1. Bodies' /\ Order'
    BY BodiesStep, OrderStep
  <2>2. ASSUME NEW c \in Calls, NEW d \in Calls, c < d, body'[c] = "running", body'[d] = "running"
        PROVE  ~conflicting(d, c)'
    <3>1. status'[c] = "active" /\ status'[d] = "active"
      BY <1>1, <2>1, <2>2 DEF Bodies
    <3> QED
      BY <2>1, <2>2, <3>1 DEF Order, Scheduled
  <2>3. \A c, d : conflicting(c, d)' <=> conflicting(d, c)'
    BY ConflictSymmetric DEF conflicting
  <2>4. \A c, d \in Calls : c # d => c < d \/ d < c
    BY BatchAssumption DEF Calls
  <2> QED
    BY <2>2, <2>3, <2>4 DEF Exclusive
<1>2. CASE aborted'
  <2> USE DEF IInv, TypeOK, Exclusive
  <2>1. CASE Abort
    BY <2>1, ConflictingUnchanged DEF Abort
  <2>2. CASE ~Abort
    <3>1. aborted
      BY <1>2, <2>2 DEF Next, Prepare, PrepareSkipped, PrepareSettled, PrepareRunnable, PrepareThrows,
        Prepared, ExecuteBatch, Finish, BodyEnds, Settle, GraceExpires, BeginFinalize, FinalizeResult,
        FinalizeThrows, ExecuteEnds, vars
    <3>2. ASSUME NEW c \in Calls, Prepare(c)
          PROVE  Exclusive'
      BY <3>2 DEF Prepare, PrepareSkipped, PrepareSettled, PrepareRunnable, PrepareThrows, Turn, Prepared,
        Phases, Bodies, Scheduled, Waiting
    <3>3. CASE ExecuteBatch \/ \E c \in Calls : Finish(c)
      BY <3>1, <3>3, ConflictingUnchanged DEF ExecuteBatch, Finish, BodiesAfterStarting
    <3>4. ASSUME NEW c \in Calls, BodyEnds(c) \/ Settle(c) \/ GraceExpires(c)
          PROVE  Exclusive'
      BY <3>4, ConflictingUnchanged DEF BodyEnds, Settle, GraceExpires
    <3>5. ASSUME NEW c \in Calls, BeginFinalize(c) \/ FinalizeResult(c) \/ FinalizeThrows(c)
          PROVE  Exclusive'
      BY <3>5, ConflictingUnchanged DEF BeginFinalize, FinalizeResult, FinalizeThrows
    <3>6. CASE ExecuteEnds \/ UNCHANGED vars
      BY <3>6, ConflictingUnchanged DEF ExecuteEnds, vars
    <3> QED
      BY <2>2, <3>2, <3>3, <3>4, <3>5, <3>6 DEF Next
  <2> QED
    BY <2>1, <2>2
<1> QED
  BY <1>1, <1>2 DEF TypeOK, IInv

(* Waits is kept: when a task leaves, startQueuedTasks() starts every queued *)
(* task that nothing active or queued before it holds back.                 *)
LEMMA WaitsStep ==
  ASSUME IInv, [Next]_vars
  PROVE  Waits'
<1> USE DEF IInv, TypeOK, Phases, Waits, Waiting, queuedTasks, activeTasks
<1>1. ASSUME NEW c \in Calls, Prepare(c)
      PROVE  Waits'
  BY <1>1 DEF Prepare, PrepareSkipped, PrepareSettled, PrepareRunnable, PrepareThrows, Turn, Prepared
<1>2. CASE ExecuteBatch
  BY <1>2, ConflictingUnchanged DEF ExecuteBatch
<1>3. ASSUME NEW c \in Calls, Finish(c)
      PROVE  Waits'
  <2>1. \A e, d : conflicting(e, d)' <=> conflicting(e, d)
    BY <1>3, ConflictingUnchanged DEF Finish
  <2>2. SUFFICES ASSUME NEW e \in Calls, status'[e] = "queued"
                 PROVE  \E d \in Calls :
                          /\ status'[d] \in {"active", "settled"} \/ (status'[d] = "queued" /\ d < e)
                          /\ conflicting(e, d)
    BY <2>1
  <2>3. status[e] = "queued" /\ e \notin Unblocked(c)
    BY <1>3, <2>2 DEF Finish, Unblocked
  <2>4. PICK d \in Calls : /\ \/ status[d] \in {"active", "settled"} /\ d # c
                              \/ status[d] = "queued" /\ d < e
                           /\ conflicting(e, d)
    BY <2>3 DEF Unblocked
  <2>5. status'[d] \in {"active", "settled"} \/ (status'[d] = "queued" /\ d < e)
    BY <1>3, <2>4 DEF Finish, Unblocked
  <2> QED
    BY <2>4, <2>5
<1>4. ASSUME NEW c \in Calls, BodyEnds(c) \/ Settle(c) \/ GraceExpires(c)
      PROVE  Waits'
  BY <1>4, ConflictingUnchanged DEF BodyEnds, Settle, GraceExpires
<1>5. ASSUME NEW c \in Calls, BeginFinalize(c) \/ FinalizeResult(c) \/ FinalizeThrows(c)
      PROVE  Waits'
  BY <1>5, ConflictingUnchanged DEF BeginFinalize, FinalizeResult, FinalizeThrows
<1>6. CASE ExecuteEnds \/ Abort \/ UNCHANGED vars
  BY <1>6, ConflictingUnchanged DEF ExecuteEnds, Abort, vars
<1> QED
  BY <1>1, <1>2, <1>3, <1>4, <1>5, <1>6 DEF Next

-----------------------------------------------------------------------------
(* The theorems. *)

(* IInv holds in every reachable state of every batch.                      *)
THEOREM Invariant == Spec => []IInv
<1>1. Init => IInv
  BY BatchAssumption DEF Init, IInv, TypeOK, Phases, Preparation, Bodies, Order, Exclusive, Waits,
    Waiting, Scheduled, queuedTasks, Status, Calls
<1>2. IInv /\ [Next]_vars => IInv'
  <2> SUFFICES ASSUME IInv, [Next]_vars
               PROVE  IInv'
    OBVIOUS
  <2>1. TypeOK'
    BY TypeStep DEF IInv
  <2> QED
    BY <2>1, PhasesStep, PreparationStep, BodiesStep, OrderStep, ExclusiveStep, WaitsStep DEF IInv
<1> QED
  BY <1>1, <1>2, PTL DEF Spec

(* The executor's variables keep their types.                               *)
THEOREM TypeCorrect == Spec => []TypeOK
<1>1. IInv => TypeOK
  BY DEF IInv
<1> QED
  BY <1>1, Invariant, PTL

(* What conflicting() answers about two calls is whether they clash.        *)
LEMMA ConflictingIsClash ==
  ASSUME TypeOK, NEW c \in Calls, NEW d \in Calls
  PROVE  conflicting(c, d) <=> Clash(accesses[c], accesses[d])
BY ConflictIsClash DEF TypeOK, conflicting

(* Bodies of clashing calls never overlap, not even after the abort grace.  *)
THEOREM BodiesNeverClash == Spec => []NoConflictingBodies
<1>1. IInv => NoConflictingBodies
  BY ConflictingIsClash DEF IInv, Exclusive, NoConflictingBodies
<1> QED
  BY <1>1, Invariant, PTL

(* Clashing calls take effect in the order the model wrote them.            *)
THEOREM RunsInProviderOrder == Spec => []ProviderOrder
<1>1. IInv => ProviderOrder
  BY ConflictingIsClash, ConflictingSymmetric DEF IInv, Order, Bodies, ProviderOrder
<1> QED
  BY <1>1, Invariant, PTL

(* A queued task always has a clashing task to wait for.                    *)
THEOREM NoIdleWaiting == Spec => []WaitsOnlyForClashes
<1>1. IInv => WaitsOnlyForClashes
  <2> SUFFICES ASSUME IInv, NEW c \in queuedTasks
               PROVE  \E d \in activeTasks \cup {q \in queuedTasks : q < c} :
                        Clash(accesses[c], accesses[d])
    BY DEF WaitsOnlyForClashes
  <2>1. PICK d \in activeTasks \cup {q \in queuedTasks : q < c} : conflicting(c, d)
    BY DEF IInv, Waits
  <2>2. c \in Calls /\ d \in Calls
    BY DEF queuedTasks, activeTasks
  <2> QED
    BY <2>1, <2>2, ConflictingIsClash DEF IInv
<1> QED
  BY <1>1, Invariant, PTL

(* Nothing after the call that stopped the batch has an effect.             *)
THEOREM StopIsFinal == Spec => []NothingRunsAfterStop
<1>1. IInv => NothingRunsAfterStop
  BY DEF IInv, TypeOK, Preparation, Bodies, NothingRunsAfterStop
<1> QED
  BY <1>1, Invariant, PTL

(* When execute() is over nothing of its batch runs, unless it was aborted, *)
(* and it has yielded every result, unless it threw.                        *)
THEOREM EndsQuietly == Spec => []EndsQuiet
<1>1. IInv => EndsQuiet
  BY DEF IInv, Phases, Bodies, EndsQuiet
<1> QED
  BY <1>1, Invariant, PTL

=============================================================================
