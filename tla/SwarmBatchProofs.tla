-------------------------- MODULE SwarmBatchProofs --------------------------
(***************************************************************************)
(* A swarm of any size loses no task, starts none twice, launches at the   *)
(* learned pace, and what it returned is final, for every limit, interval  *)
(* and number of refusals.                                                 *)
(***************************************************************************)
EXTENDS SwarmBatch, SequenceFacts

-----------------------------------------------------------------------------
(* The inductive invariant. *)

Queued(t) == \E i \in DOMAIN pending : pending[i] = t

Types ==
  /\ pending \in Seq(Tasks) /\ Distinct(pending) /\ active \in SUBSET Tasks
  /\ results \in [Tasks -> Results \union {"none"}]

(* Where a task is while the batch runs: in one of three places. *)
Placed ==
  finished = "no" =>
    \A t \in Tasks :
      /\ Queued(t) \/ t \in active \/ results[t] # "none"
      /\ Queued(t) => t \notin active /\ results[t] = "none"
      /\ t \in active => results[t] = "none"

(* cleanup() leaves nothing that could come back to the batch. *)
CleanEnd ==
  finished # "no" =>
    active = {} /\ due = FALSE /\ normalTimer = Unset /\ rateLimitTimer = Unset

IInv == Types /\ Placed /\ CleanEnd

-----------------------------------------------------------------------------
(* Counting the places gives the property. *)
LEMMA PlacedIsAccounted ==
  Types /\ Placed => TasksAccountedFor
<1> SUFFICES ASSUME Types, Placed, finished = "no", NEW t \in Tasks
             PROVE  LET queued == Cardinality({i \in DOMAIN pending : pending[i] = t}) IN
                    queued + (IF t \in active THEN 1 ELSE 0)
                           + (IF results[t] # "none" THEN 1 ELSE 0) = 1
  BY DEF TasksAccountedFor
<1> DEFINE P == {i \in DOMAIN pending : pending[i] = t}
<1>1. CASE Queued(t)
  <2>1. PICK i \in DOMAIN pending : pending[i] = t
    BY <1>1 DEF Queued
  <2>2. P = {i}
    BY <2>1 DEF Types, Distinct
  <2>3. Cardinality(P) = 1
    BY <2>2, FS_Singleton
  <2> QED
    BY <1>1, <2>3 DEF Placed
<1>2. CASE ~Queued(t)
  <2>1. P = {}
    BY <1>2 DEF Queued
  <2>2. Cardinality(P) = 0
    BY <2>1, FS_EmptySet
  <2> QED
    BY <1>2, <2>2 DEF Placed
<1> QED
  BY <1>1, <1>2

-----------------------------------------------------------------------------
(* The moves of a task. *)

(* Nothing moves.                                                           *)
LEMMA NothingMoves ==
  ASSUME Types, Placed, UNCHANGED <<pending, active, results>>, finished' # "no" \/ UNCHANGED finished
  PROVE  Types' /\ Placed'
BY DEF Types, Placed, Queued, Distinct

(* From the queue to an attempt.                                            *)
LEMMA StartMoves ==
  ASSUME Types, Placed, NEW i \in DOMAIN pending, StartAttempt(i), finished = "no", UNCHANGED finished
  PROVE  Types' /\ Placed'
<1>1. /\ active' = active \union {pending[i]} /\ pending' = RemoveAt(pending, i)
      /\ results' = results /\ pending[i] \in Tasks
  BY DEF StartAttempt, Types
<1>2. /\ pending' \in Seq(Tasks) /\ Distinct(pending')
      /\ \A t : Queued(t)' <=> t # pending[i] /\ Queued(t)
  <2>1. pending \in Seq(Tasks) /\ Distinct(pending)
    BY DEF Types
  <2>2. /\ RemoveAt(pending, i) \in Seq(Tasks) /\ Distinct(RemoveAt(pending, i))
        /\ \A t : (\E j \in DOMAIN RemoveAt(pending, i) : RemoveAt(pending, i)[j] = t)
                    <=> t # pending[i] /\ \E j \in DOMAIN pending : pending[j] = t
    BY <2>1, RemoveAtFromDistinct
  <2> QED
    BY <1>1, <2>2, Zenon DEF Queued
<1>3. Queued(pending[i])
  BY DEF Queued
<1> QED
  BY <1>1, <1>2, <1>3 DEF Types, Placed

(* From an attempt back to the head of the queue.                           *)
LEMMA RequeueMoves ==
  ASSUME Types, Placed, finished = "no", UNCHANGED finished, NEW t \in active,
         active' = active \ {t}, pending' = Requeued(t), UNCHANGED results
  PROVE  Types' /\ Placed'
<1>1. t \in Tasks /\ ~Queued(t) /\ results[t] = "none"
  BY DEF Types, Placed
<1>2. pending' = <<t>> \o pending
  BY DEF Requeued
<1>3. /\ pending' \in Seq(Tasks) /\ Len(pending') = Len(pending) + 1
      /\ pending'[1] = t /\ \A j \in DOMAIN pending : pending'[j + 1] = pending[j]
  BY <1>1, <1>2 DEF Types
<1>4. /\ DOMAIN pending' = 1..(Len(pending) + 1) /\ DOMAIN pending = 1..Len(pending)
      /\ Len(pending) \in Nat
  BY <1>3 DEF Types
<1>5. \A j \in DOMAIN pending' : j # 1 => j - 1 \in DOMAIN pending /\ pending'[j] = pending[j - 1]
  BY <1>3, <1>4
<1>6. \A u : Queued(u)' <=> u = t \/ Queued(u)
  <2>1. ASSUME NEW u, Queued(u)' PROVE u = t \/ Queued(u)
    BY <1>3, <1>5, <2>1 DEF Queued
  <2>2. Queued(t)'
    BY <1>3, <1>4 DEF Queued
  <2>3. ASSUME NEW u, Queued(u) PROVE Queued(u)'
    <3>1. PICK j \in DOMAIN pending : pending[j] = u
      BY <2>3 DEF Queued
    <3>2. j + 1 \in DOMAIN pending' /\ pending'[j + 1] = u
      BY <1>3, <1>4, <3>1
    <3> QED
      BY <3>2 DEF Queued
  <2> QED
    BY <2>1, <2>2, <2>3
<1>7. Distinct(pending')
  <2> SUFFICES ASSUME NEW j \in DOMAIN pending', NEW k \in DOMAIN pending', pending'[j] = pending'[k]
               PROVE  j = k
    BY DEF Distinct
  <2>1. CASE j = 1 /\ k # 1
    BY <1>1, <1>3, <1>5, <2>1 DEF Queued
  <2>2. CASE j # 1 /\ k = 1
    BY <1>1, <1>3, <1>5, <2>2 DEF Queued
  <2>3. CASE j # 1 /\ k # 1
    BY <1>4, <1>5, <2>3 DEF Types, Distinct
  <2> QED
    BY <2>1, <2>2, <2>3
<1> QED
  BY <1>1, <1>3, <1>6, <1>7 DEF Types, Placed

(* From an attempt to a result; an attempt that no longer counts moves       *)
(* nothing.                                                                  *)
LEMMA AnswerMoves ==
  ASSUME Types, Placed, NEW t \in Tasks, NEW outcome \in Results,
         active' = active \ {t}, UNCHANGED <<pending, finished>>,
         results' = IF t \in active THEN [results EXCEPT ![t] = outcome] ELSE results
  PROVE  Types' /\ Placed'
<1>1. outcome # "none"
  BY DEF Results
<1>2. Types' /\ \A u : Queued(u)' <=> Queued(u)
  BY DEF Types, Distinct, Queued
<1>3. \A u \in Tasks : results'[u] = IF u = t /\ t \in active THEN outcome ELSE results[u]
  BY DEF Types
<1> QED
  BY <1>1, <1>2, <1>3 DEF Placed

-----------------------------------------------------------------------------
(* The theorems. *)

(* The queue starts with every task in it.                                  *)
LEMMA InitHolds == Init => IInv
<1> SUFFICES ASSUME Init PROVE IInv
  OBVIOUS
<1>1. /\ pending \in Seq(Tasks) /\ Distinct(pending) /\ \A t \in Tasks : Queued(t)
  BY SwarmAssumption, SetToSeqLists DEF Init, Queued
<1> QED
  BY <1>1 DEF Init, IInv, Types, Placed, CleanEnd, Nobody

(* The end of the batch.                                                    *)
LEMMA FinishKeeps ==
  ASSUME IInv, NEW how, how # "no", NEW report, Finish(how, report)
  PROVE  IInv'
BY DEF IInv, Types, Placed, CleanEnd, Finish, Distinct

(* One pass of schedule() launches a task or none.                          *)
LEMMA ScheduleKeeps ==
  ASSUME IInv, Schedule
  PROVE  IInv'
<1>0. finished = "no"
  BY DEF Schedule
<1>1. CASE Finish("done", results)
  BY <1>1, FinishKeeps
<1>2. CASE NormalLaunch
  <2>1. UNCHANGED finished
    BY <1>2 DEF NormalLaunch, endVars
  <2>2. CASE StartAttempt(1) /\ pending # <<>>
    <3>1. 1 \in DOMAIN pending
      BY <2>2 DEF IInv, Types
    <3> QED
      BY <1>0, <2>1, <2>2, <3>1, StartMoves DEF IInv, CleanEnd
  <2>3. CASE UNCHANGED tasksVars
    BY <1>0, <2>1, <2>3, NothingMoves DEF IInv, CleanEnd, tasksVars
  <2> QED
    BY <1>2, <2>2, <2>3 DEF NormalLaunch
<1>3. CASE RateLimitLaunch
  <2>1. UNCHANGED finished
    BY <1>3 DEF RateLimitLaunch, endVars
  <2>2. UNCHANGED tasksVars \/ \E i \in DOMAIN pending : StartAttempt(i)
    BY <1>3 DEF RateLimitLaunch
  <2>3. Types' /\ Placed'
    BY <1>0, <2>1, <2>2, StartMoves, NothingMoves DEF IInv, tasksVars
  <2> QED
    BY <1>0, <2>1, <2>3 DEF IInv, CleanEnd
<1> QED
  BY <1>1, <1>2, <1>3 DEF Schedule

(* The end of an attempt gives its task a result or puts it back.           *)
LEMMA EndsKeeps ==
  ASSUME IInv, NEW t \in Tasks, Ends(t)
  PROVE  IInv'
<1>1. ASSUME NEW outcome \in Results, Answer(t, outcome) PROVE IInv'
  <2>1. /\ active' = active \ {t} /\ UNCHANGED <<pending, finished, normalTimer, rateLimitTimer>>
        /\ results' = IF t \in active THEN [results EXCEPT ![t] = outcome] ELSE results
        /\ due' = (t \in active)
    BY <1>1 DEF Answer, Released, Counts, endVars, timerVars
  <2>2. Types' /\ Placed'
    BY <2>1, AnswerMoves DEF IInv
  <2>3. CleanEnd'
    <3>1. finished' # "no" => t \notin active
      BY <2>1 DEF IInv, CleanEnd
    <3>2. finished' # "no" => active' = {} /\ normalTimer' = Unset /\ rateLimitTimer' = Unset
      BY <2>1 DEF IInv, CleanEnd
    <3>3. t \notin active => due' = FALSE
      <4>1. t \notin active => (t \in active) = FALSE
        OBVIOUS
      <4> QED
        BY <2>1, <4>1
    <3> QED
      BY <3>1, <3>2, <3>3 DEF CleanEnd
  <2> QED
    BY <2>2, <2>3 DEF IInv
<1>2. CASE RateLimited(t)
  <2>1. /\ active' = active \ {t} /\ t \in active /\ UNCHANGED finished
    BY <1>2 DEF RateLimited, Released, Counts, endVars
  <2>2. finished = "no"
    BY <2>1 DEF IInv, CleanEnd
  <2>3. Types' /\ Placed'
    <3>1. \/ results' = [results EXCEPT ![t] = "failed"] /\ UNCHANGED pending
          \/ pending' = Requeued(t) /\ UNCHANGED results
      BY <1>2 DEF RateLimited
    <3>2. ASSUME results' = [results EXCEPT ![t] = "failed"], UNCHANGED pending
          PROVE  Types' /\ Placed'
      BY <2>1, <3>2, AnswerMoves DEF IInv, Results
    <3>3. ASSUME pending' = Requeued(t), UNCHANGED results
          PROVE  Types' /\ Placed'
      BY <2>1, <2>2, <3>3, RequeueMoves DEF IInv
    <3> QED
      BY <3>1, <3>2, <3>3
  <2> QED
    BY <2>1, <2>2, <2>3 DEF IInv, CleanEnd
<1> QED
  BY <1>1, <1>2 DEF Ends

(* Every step keeps the invariant.                                          *)
LEMMA StepKeeps == IInv /\ [Next]_vars => IInv'
<1> SUFFICES ASSUME IInv, [Next]_vars PROVE IInv'
  OBVIOUS
<1>a. ASSUME UNCHANGED <<pending, active, results, finished>>,
             finished # "no" => UNCHANGED <<due, normalTimer, rateLimitTimer>>
      PROVE  IInv'
  BY <1>a, NothingMoves DEF IInv, CleanEnd
<1>1. CASE UNCHANGED vars
  BY <1>1, <1>a DEF vars, tasksVars, timerVars, endVars
<1>2. CASE Schedule
  BY <1>2, ScheduleKeeps
<1>3. CASE NormalTimerFires
  <2>1. UNCHANGED finished /\ normalTimer = 0
    BY <1>3 DEF NormalTimerFires, endVars
  <2>2. finished = "no"
    BY <2>1 DEF IInv, CleanEnd, Unset
  <2>3. CASE UNCHANGED tasksVars
    BY <2>1, <2>2, <2>3, <1>a DEF tasksVars
  <2>4. CASE StartAttempt(1) /\ pending # <<>>
    <3>1. 1 \in DOMAIN pending
      BY <2>4 DEF IInv, Types
    <3> QED
      BY <2>1, <2>2, <2>4, <3>1, StartMoves DEF IInv, CleanEnd
  <2> QED
    BY <1>3, <2>3, <2>4 DEF NormalTimerFires
<1>4. CASE RateLimitTimerFires
  <2>1. UNCHANGED <<pending, active, results, finished>> /\ rateLimitTimer = 0
    BY <1>4 DEF RateLimitTimerFires, tasksVars, endVars
  <2>2. finished = "no"
    BY <2>1 DEF IInv, CleanEnd, Unset
  <2> QED
    BY <2>1, <2>2, <1>a
<1>5. CASE Tick
  BY <1>5, <1>a DEF Tick, tasksVars, endVars
<1>6. ASSUME NEW t \in Tasks, Handled(t) PROVE IInv'
  BY <1>6, <1>a DEF Handled, timerVars, endVars
<1>7. ASSUME NEW t \in Tasks, MarkAttemptReady(t) PROVE IInv'
  <2>1. t \in active /\ UNCHANGED <<pending, active, results, finished>>
    BY <1>7 DEF MarkAttemptReady, endVars
  <2>2. finished = "no"
    BY <2>1 DEF IInv, CleanEnd
  <2> QED
    BY <2>1, <2>2, <1>a
<1>8. ASSUME NEW t \in Tasks, Ends(t) PROVE IInv'
  BY <1>8, EndsKeeps
<1>9. ASSUME NEW how \in {"cancelled", "failed"}, Abort(how) PROVE IInv'
  <2>1. how # "no" /\ \E report : Finish(how, report)
    BY <1>9 DEF Abort
  <2> QED
    BY <2>1, FinishKeeps
<1> QED
  BY <1>1, <1>2, <1>3, <1>4, <1>5, <1>6, <1>7, <1>8, <1>9 DEF Next

(* The invariant holds in every reachable state.                            *)
THEOREM BatchInvariant == Spec => []IInv
BY InitHolds, StepKeeps, PTL DEF Spec

(* No task slips through and none runs twice, whatever order refusals,       *)
(* timers, answers and the batch signal come in (pending, active, results).  *)
THEOREM NoTaskLost == Spec => []TasksAccountedFor
<1>1. IInv => TasksAccountedFor
  BY PlacedIsAccounted DEF IInv
<1> QED
  BY <1>1, BatchInvariant, PTL

(* What run() returned stays: no timer, late answer or readiness of an       *)
(* attempt that goes on reaches the batch again (finish and cleanup).        *)
THEOREM LateAnswersChangeNothing == Spec => ReturnedIsFinal
<1> DEFINE Kept == finished # "no" => UNCHANGED <<finished, returned, results, active>>
<1>1. ASSUME IInv, Next, finished # "no" PROVE UNCHANGED <<finished, returned, results, active>>
  <2>1. active = {} /\ due = FALSE /\ normalTimer # 0 /\ rateLimitTimer # 0
    BY <1>1 DEF IInv, CleanEnd, Unset
  <2>2. ~Schedule /\ ~NormalTimerFires /\ ~RateLimitTimerFires /\ ~Tick
    BY <1>1, <2>1 DEF Schedule, NormalTimerFires, RateLimitTimerFires, Tick
  <2>3. ASSUME NEW how, Abort(how) PROVE FALSE
    BY <1>1, <2>3 DEF Abort
  <2>4. ASSUME NEW t \in Tasks, Handled(t) PROVE UNCHANGED <<finished, returned, results, active>>
    BY <2>4 DEF Handled, endVars
  <2>5. ASSUME NEW t \in Tasks, MarkAttemptReady(t) PROVE FALSE
    BY <2>1, <2>5 DEF MarkAttemptReady
  <2>6. ASSUME NEW t \in Tasks, RateLimited(t) PROVE FALSE
    BY <2>1, <2>6 DEF RateLimited, Counts
  <2>7. ASSUME NEW t \in Tasks, NEW outcome \in Results, Answer(t, outcome)
        PROVE  UNCHANGED <<finished, returned, results, active>>
    BY <2>1, <2>7 DEF Answer, Released, Counts, endVars
  <2> QED
    BY <1>1, <2>2, <2>3, <2>4, <2>5, <2>6, <2>7 DEF Next, Ends
<1>2. IInv /\ [Next]_vars => [Kept]_vars
  BY <1>1
<1> QED
  BY <1>2, BatchInvariant, PTL DEF Spec, ReturnedIsFinal

-----------------------------------------------------------------------------
(* Backoffs and the times derived from them. *)

(* The backoffs are natural numbers: a power of two counts the subsets of a *)
(* set.                                                                     *)
LEMMA PowersOfTwo == \A n \in Nat : 2^n \in Nat
<1> SUFFICES ASSUME NEW n \in Nat PROVE 2^n \in Nat
  OBVIOUS
<1>1. IsFiniteSet(1..n) /\ Cardinality(1..n) = n
  BY FS_Interval
<1>2. IsFiniteSet(SUBSET (1..n)) /\ Cardinality(SUBSET (1..n)) = 2^n
  BY <1>1, FS_SUBSET
<1> QED BY <1>2, FS_CardinalityType

LEMMA LeastIs ==
  ASSUME NEW S, S \subseteq Nat, S # {}
  PROVE  Min(S) \in S /\ \A y \in S : Min(S) <= y
<1> DEFINE R == {ss \in Nat \X Nat : ss[1] < ss[2]}
<1>1. IsWellFoundedOn(R, Nat)
  BY NatLessThanWellFounded DEF OpToRel
<1>2. PICK x \in S : \A y \in S : ~(<<y, x>> \in R)
  <2> HIDE DEF R
  <2> QED BY <1>1, WFMin
<1>3. ASSUME NEW y \in S PROVE x <= y
  <2>1. x \in Nat /\ y \in Nat
    OBVIOUS
  <2>2. ~(y < x)
    BY <1>2, <2>1
  <2> QED BY <2>1, <2>2
<1> QED BY <1>3 DEF Min

(* The next retry of a queue comes in time, and at once if a task in it is  *)
(* ripe.                                                                    *)
LEMMA NextRetryIs ==
  ASSUME NEW queue \in Seq(Tasks), queue # <<>>, untilRetry \in [Tasks -> Nat]
  PROVE  /\ NextRetry(queue) \in Nat
         /\ (\E i \in DOMAIN queue : Ripe(queue[i])) => NextRetry(queue) = 0
<1> DEFINE S == {untilRetry[u] : u \in ToSet(queue)}
<1>1. \A i \in DOMAIN queue : queue[i] \in Tasks /\ untilRetry[queue[i]] \in S
  BY DEF ToSet
<1>2. S \subseteq Nat
  BY DEF ToSet
<1>3. S # {}
  <2>1. 1 \in DOMAIN queue
    OBVIOUS
  <2> QED BY <1>1, <2>1
<1>4. Min(S) \in S /\ \A y \in S : Min(S) <= y
  <2> HIDE DEF S
  <2> QED BY <1>2, <1>3, LeastIs
<1>5. NextRetry(queue) = Min(S)
  BY DEF NextRetry
<1>6. Min(S) \in Nat
  BY <1>2, <1>4
<1>7. ASSUME NEW i \in DOMAIN queue, Ripe(queue[i]) PROVE Min(S) = 0
  <2>1. untilRetry[queue[i]] = 0
    BY <1>7 DEF Ripe
  <2>2. 0 \in S
    BY <1>1, <2>1
  <2>3. Min(S) <= 0
    BY <1>4, <2>2
  <2> QED BY <1>6, <2>3
<1> QED BY <1>5, <1>6, <1>7

LEMMA Choice ==
  ASSUME NEW a \in Nat, NEW b \in Nat
  PROVE  /\ Smaller(a, b) \in Nat /\ Larger(a, b) \in Nat
         /\ Smaller(a, b) <= a /\ Smaller(a, b) <= b
         /\ a <= Larger(a, b) /\ b <= Larger(a, b)
         /\ Smaller(a, b) = 0 => a = 0 \/ b = 0
BY DEF Smaller, Larger

-----------------------------------------------------------------------------
(* The types, in parts. *)

TasksTyped ==
  /\ pending \in Seq(Tasks) /\ active \subseteq Tasks /\ ready \subseteq Tasks
  /\ attempt \in [Tasks -> {"none", "launching", "running"}]
  /\ results \in [Tasks -> Results \union {"none"}]
  /\ known \subseteq Tasks /\ started \subseteq Tasks

ModeTyped ==
  /\ rateLimitMode \in BOOLEAN
  /\ startedSuccessCount \in Nat /\ rateLimitCapacity \in Nat \ {0}
  /\ normalLaunchCount \in 0..LaunchLimit

PaceTyped ==
  /\ retryCount \in [Tasks -> Nat] /\ untilRetry \in [Tasks -> Nat]
  /\ globalRetryInterval \in Nat /\ untilLaunch \in Nat /\ untilShrink \in Nat /\ untilRecover \in Nat

TimersTyped ==
  /\ normalTimer \in Nat \union {Unset} /\ rateLimitTimer \in Nat \union {Unset}
  /\ due \in BOOLEAN

EndTyped ==
  /\ finished \in {"no", "done", "cancelled", "failed"}
  /\ returned \in [Tasks -> Results \union {"none", "aborted", "not_started"}]

(* The throttle's timer is dead once the provider has refused.              *)
Throttle == rateLimitMode => normalTimer = Unset

PaceInv == TasksTyped /\ ModeTyped /\ PaceTyped /\ TimersTyped /\ EndTyped /\ Throttle

LEMMA PartsAreTypes == PaceInv => TypeOK
BY DEF PaceInv, TasksTyped, ModeTyped, PaceTyped, TimersTyped, EndTyped, TypeOK

LEMMA InitTyped == Init => PaceInv
<1> SUFFICES ASSUME Init PROVE PaceInv
  OBVIOUS
<1>1. TasksTyped
  <2>1. pending \in Seq(Tasks)
    BY SwarmAssumption, SetToSeqLists DEF Init
  <2> QED BY <2>1 DEF Init, TasksTyped, Nobody
<1>2. ModeTyped /\ PaceTyped
  <2>1. RetryBase \in Nat /\ LaunchLimit \in Nat
    BY SwarmAssumption
  <2>2. ModeTyped
    <3>1. rateLimitMode \in BOOLEAN
      BY DEF Init
    <3>2. startedSuccessCount = 0 /\ rateLimitCapacity = 1 /\ normalLaunchCount = 0
      BY DEF Init
    <3> QED BY <2>1, <3>1, <3>2 DEF ModeTyped
  <2> QED BY <2>1, <2>2 DEF Init, PaceTyped
<1>3. TimersTyped /\ EndTyped /\ Throttle
  BY DEF Init, TimersTyped, EndTyped, Throttle, Nobody
<1> QED BY <1>1, <1>2, <1>3 DEF PaceInv

(* A launch.                                                                *)
LEMMA StartTyped ==
  ASSUME IInv, TasksTyped, NEW i \in DOMAIN pending, StartAttempt(i)
  PROVE  TasksTyped' /\ active' = active \union {pending[i]}
<1>1. pending' \in Seq(Tasks)
  BY RemoveAtFromDistinct DEF StartAttempt, IInv, Types
<1>2. pending[i] \in Tasks
  BY DEF TasksTyped
<1> QED BY <1>1, <1>2 DEF StartAttempt, TasksTyped

LEMMA CountTyped ==
  ASSUME ModeTyped, CountLaunch
  PROVE  normalLaunchCount' \in 0..LaunchLimit
<1>1. LaunchLimit \in Nat /\ normalLaunchCount + 1 \in Nat
  BY SwarmAssumption DEF ModeTyped
<1> QED BY <1>1 DEF CountLaunch, Smaller

LEMMA FinishTyped ==
  ASSUME PaceInv, NEW how \in {"done", "cancelled", "failed"},
         NEW report \in [Tasks -> Results \union {"none", "aborted", "not_started"}], Finish(how, report)
  PROVE  PaceInv'
<1>1. TasksTyped' /\ ModeTyped' /\ PaceTyped'
  BY DEF Finish, PaceInv, TasksTyped, ModeTyped, PaceTyped, modeVars, paceVars
<1>2. TimersTyped' /\ EndTyped' /\ Throttle'
  BY DEF Finish, TimersTyped, EndTyped, Throttle
<1> QED BY <1>1, <1>2 DEF PaceInv

LEMMA NormalLaunchTyped ==
  ASSUME IInv, PaceInv, ~rateLimitMode, NormalLaunch
  PROVE  PaceInv'
<1>1. TasksTyped' /\ normalLaunchCount' \in 0..LaunchLimit
  <2>1. CASE StartAttempt(1) /\ CountLaunch /\ pending # <<>>
    <3>1. 1 \in DOMAIN pending
      BY <2>1 DEF PaceInv, TasksTyped
    <3> QED BY <2>1, <3>1, StartTyped, CountTyped DEF PaceInv
  <2>2. CASE UNCHANGED <<tasksVars, modeVars>>
    BY <2>2 DEF PaceInv, TasksTyped, ModeTyped, tasksVars, modeVars
  <2> QED BY <2>1, <2>2 DEF NormalLaunch
<1>2. UNCHANGED <<rateLimitMode, startedSuccessCount, rateLimitCapacity, paceVars, rateLimitTimer, endVars>>
  BY DEF NormalLaunch, modeVars, timerVars
<1>3. TimersTyped'
  BY <1>2, SwarmAssumption DEF NormalLaunch, PaceInv, TimersTyped, timerVars
<1>4. ModeTyped' /\ PaceTyped' /\ EndTyped' /\ Throttle'
  BY <1>1, <1>2 DEF PaceInv, ModeTyped, PaceTyped, EndTyped, Throttle, paceVars, endVars
<1> QED BY <1>1, <1>3, <1>4 DEF PaceInv

(* The times and the capacity one pass in rate-limit mode works with.       *)
Recovers == pending # <<>> /\ untilRecover = 0
Capacity == IF Recovers THEN rateLimitCapacity + 1 ELSE rateLimitCapacity
Recovery == IF Recovers THEN RecoverInterval ELSE untilRecover
LaunchTime == IF Recovers THEN 0 ELSE untilLaunch

LEMMA PassTyped ==
  ASSUME PaceInv
  PROVE  Capacity \in Nat \ {0} /\ Recovery \in Nat /\ LaunchTime \in Nat /\ (pending # <<>> => Recovery > 0)
<1>1. rateLimitCapacity \in Nat \ {0} /\ untilRecover \in Nat /\ untilLaunch \in Nat /\ RecoverInterval \in Nat \ {0}
  BY SwarmAssumption DEF PaceInv, ModeTyped, PaceTyped
<1> QED BY <1>1 DEF Capacity, Recovery, LaunchTime, Recovers

(* One pass launches nobody, or the first ripe task when the pace and the   *)
(* capacity let it.                                                         *)
LEMMA PassIs ==
  ASSUME PaceInv, RateLimitLaunch
  PROVE  /\ due' = FALSE /\ rateLimitCapacity' = Capacity /\ untilRecover' = Recovery
         /\ UNCHANGED <<rateLimitMode, startedSuccessCount, normalLaunchCount, retryCount,
                        globalRetryInterval, untilRetry, untilShrink, normalTimer, endVars>>
         /\ \/ /\ UNCHANGED tasksVars
               /\ untilLaunch' \in Nat /\ rateLimitTimer' \in Nat \union {Unset}
            \/ /\ \E i \in DOMAIN pending : Ripe(pending[i]) /\ StartAttempt(i)
               /\ pending # <<>> /\ ~(Cardinality(active) >= Capacity)
               /\ ~(Smaller(Larger(LaunchTime, NextRetry(pending)), Recovery) > 0)
               /\ untilLaunch' = globalRetryInterval
               /\ rateLimitTimer' = WakeAfterLaunch(pending', Capacity, Recovery)
<1> DEFINE wakeup == Smaller(Larger(LaunchTime, NextRetry(pending)), Recovery)
           first(i) == Ripe(pending[i]) /\ \A j \in 1..(i - 1) : ~Ripe(pending[j])
<1>0. /\ due' = FALSE /\ rateLimitCapacity' = Capacity /\ untilRecover' = Recovery
      /\ UNCHANGED <<rateLimitMode, startedSuccessCount, normalLaunchCount, retryCount,
                     globalRetryInterval, untilRetry, untilShrink, normalTimer, endVars>>
      /\ IF pending = <<>>
         THEN rateLimitTimer' = Unset /\ UNCHANGED <<tasksVars, untilLaunch>>
         ELSE IF Cardinality(active) >= Capacity
         THEN /\ rateLimitTimer' = Recovery
              /\ untilLaunch' = LaunchTime /\ UNCHANGED tasksVars
         ELSE IF wakeup > 0 \/ \A i \in DOMAIN pending : ~Ripe(pending[i])
         THEN /\ rateLimitTimer' = IF wakeup > 0 THEN wakeup ELSE Unset
              /\ untilLaunch' = LaunchTime /\ UNCHANGED tasksVars
         ELSE /\ \E i \in DOMAIN pending : first(i) /\ StartAttempt(i)
              /\ untilLaunch' = globalRetryInterval
              /\ rateLimitTimer' = WakeAfterLaunch(pending', Capacity, Recovery)
  BY Zenon DEF RateLimitLaunch, Capacity, Recovery, LaunchTime, Recovers
<1>1. untilLaunch \in Nat /\ LaunchTime \in Nat /\ Recovery \in Nat
  BY PassTyped DEF PaceInv, PaceTyped
<1>2. pending # <<>> => wakeup \in Nat
  <2> SUFFICES ASSUME pending # <<>> PROVE wakeup \in Nat
    OBVIOUS
  <2>1. NextRetry(pending) \in Nat
    BY NextRetryIs DEF PaceInv, TasksTyped, PaceTyped
  <2>2. Larger(LaunchTime, NextRetry(pending)) \in Nat
    BY <1>1, <2>1, Choice
  <2> QED BY <1>1, <2>2, Choice
<1> HIDE DEF wakeup
<1>3. CASE pending = <<>>
  BY <1>0, <1>1, <1>3
<1>4. CASE pending # <<>> /\ Cardinality(active) >= Capacity
  BY <1>0, <1>1, <1>4
<1>5. CASE pending # <<>> /\ ~(Cardinality(active) >= Capacity)
           /\ (wakeup > 0 \/ \A i \in DOMAIN pending : ~Ripe(pending[i]))
  BY <1>0, <1>1, <1>2, <1>5
<1>6. CASE pending # <<>> /\ ~(Cardinality(active) >= Capacity)
           /\ ~(wakeup > 0 \/ \A i \in DOMAIN pending : ~Ripe(pending[i]))
  BY <1>0, <1>6, Zenon DEF wakeup
<1> QED BY <1>3, <1>4, <1>5, <1>6

LEMMA RateLimitLaunchTyped ==
  ASSUME IInv, PaceInv, RateLimitLaunch
  PROVE  PaceInv'
<1>1. Capacity \in Nat \ {0} /\ Recovery \in Nat /\ globalRetryInterval \in Nat
  BY PassTyped DEF PaceInv, PaceTyped
<1>2. /\ due' = FALSE /\ rateLimitCapacity' = Capacity /\ untilRecover' = Recovery
      /\ UNCHANGED <<rateLimitMode, startedSuccessCount, normalLaunchCount, retryCount,
                     globalRetryInterval, untilRetry, untilShrink, normalTimer, endVars>>
  BY PassIs
<1>3. TasksTyped' /\ untilLaunch' \in Nat /\ rateLimitTimer' \in Nat \union {Unset}
  <2>1. CASE UNCHANGED tasksVars /\ untilLaunch' \in Nat /\ rateLimitTimer' \in Nat \union {Unset}
    BY <2>1 DEF PaceInv, TasksTyped, tasksVars
  <2>2. ASSUME NEW i \in DOMAIN pending, StartAttempt(i), untilLaunch' = globalRetryInterval,
               rateLimitTimer' = WakeAfterLaunch(pending', Capacity, Recovery)
        PROVE  TasksTyped' /\ untilLaunch' \in Nat /\ rateLimitTimer' \in Nat \union {Unset}
    <3>1. TasksTyped'
      BY <2>2, StartTyped DEF PaceInv
    <3>2. CASE pending' = <<>>
      BY <1>1, <2>2, <3>1, <3>2 DEF WakeAfterLaunch
    <3>3. CASE pending' # <<>>
      <4>1. NextRetry(pending') \in Nat
        <5>1. pending' \in Seq(Tasks) /\ untilRetry \in [Tasks -> Nat]
          BY <3>1 DEF TasksTyped, PaceInv, PaceTyped
        <5> QED BY <3>3, <5>1, NextRetryIs
      <4>2. Larger(globalRetryInterval, NextRetry(pending')) \in Nat
        BY <1>1, <4>1, Choice
      <4>3. Smaller(Larger(globalRetryInterval, NextRetry(pending')), Recovery) \in Nat
        BY <1>1, <4>2, Choice
      <4> QED BY <1>1, <2>2, <3>1, <3>3, <4>3 DEF WakeAfterLaunch
    <3> QED BY <3>2, <3>3
  <2> QED BY <2>1, <2>2, PassIs
<1>4. ModeTyped' /\ PaceTyped' /\ TimersTyped' /\ EndTyped' /\ Throttle'
  BY <1>1, <1>2, <1>3 DEF PaceInv, ModeTyped, PaceTyped, TimersTyped, EndTyped, Throttle, endVars
<1> QED BY <1>3, <1>4 DEF PaceInv

LEMMA RateLimitedTyped ==
  ASSUME PaceInv, NEW t \in Tasks, RateLimited(t)
  PROVE  PaceInv'
<1>1. /\ attempt' = [attempt EXCEPT ![t] = "none"] /\ active' = active \ {t} /\ ready' = ready \ {t}
      /\ UNCHANGED <<known, started, finished, returned>> /\ due' = TRUE
  BY DEF RateLimited, Released, endVars
<1>2. CASE OthersDone(t)
  <2>1. results' = [results EXCEPT ![t] = "failed"] /\ UNCHANGED <<pending, modeVars, paceVars, timerVars>>
    BY <1>2 DEF RateLimited
  <2>2. TasksTyped'
    BY <1>1, <2>1 DEF PaceInv, TasksTyped, Results
  <2>3. ModeTyped' /\ PaceTyped' /\ TimersTyped' /\ EndTyped' /\ Throttle'
    BY <1>1, <2>1 DEF PaceInv, ModeTyped, PaceTyped, TimersTyped, EndTyped, Throttle, modeVars, paceVars, timerVars
  <2> QED BY <2>2, <2>3 DEF PaceInv
<1>3. CASE ~OthersDone(t)
  <2> DEFINE delay == RetryBase * 2^retryCount[t]
             pace == Larger(globalRetryInterval * 2, delay)
  <2>1. /\ pending' = Requeued(t) /\ EnterRateLimitMode
        /\ retryCount' = [retryCount EXCEPT ![t] = @ + 1]
        /\ untilRetry' = [untilRetry EXCEPT ![t] = delay]
        /\ untilRecover' = RecoverInterval
        /\ globalRetryInterval' = IF t \in ready THEN globalRetryInterval ELSE pace
        /\ untilLaunch' = Larger(untilLaunch, IF t \in ready THEN RetryBase ELSE pace)
        /\ UNCHANGED <<results, startedSuccessCount, normalLaunchCount, rateLimitTimer>>
    BY <1>3 DEF RateLimited
  <2>2. delay \in Nat
    <3>1. 2^retryCount[t] \in Nat
      BY PowersOfTwo DEF PaceInv, PaceTyped
    <3>2. RetryBase \in Nat
      BY SwarmAssumption
    <3>3. \A a, b \in Nat : a * b \in Nat
      OBVIOUS
    <3> QED BY <3>1, <3>2, <3>3
  <2> HIDE DEF delay
  <2>3. pace \in Nat
    <3>1. globalRetryInterval * 2 \in Nat
      BY DEF PaceInv, PaceTyped
    <3> QED BY <2>2, <3>1, Choice
  <2> HIDE DEF pace
  <2>4. TasksTyped'
    <3>1. pending' \in Seq(Tasks)
      BY <2>1 DEF Requeued, PaceInv, TasksTyped
    <3> QED BY <1>1, <2>1, <3>1 DEF PaceInv, TasksTyped
  <2>5. PaceTyped'
    <3>1. RetryBase \in Nat /\ RecoverInterval \in Nat /\ ShrinkInterval \in Nat
      BY SwarmAssumption
    <3>2. untilLaunch' \in Nat
      BY <2>1, <2>3, <3>1, Choice DEF PaceInv, PaceTyped
    <3>3. untilShrink' \in Nat
      BY <2>1, <3>1 DEF EnterRateLimitMode, PaceInv, PaceTyped
    <3> QED BY <2>1, <2>2, <2>3, <3>1, <3>2, <3>3 DEF PaceInv, PaceTyped
  <2>6. ModeTyped'
    <3>1. \A n \in Nat \ {0} : Shrunk(n) \in Nat \ {0}
      BY DEF Shrunk, Larger
    <3>2. Larger(1, startedSuccessCount) \in Nat \ {0}
      BY DEF Larger, PaceInv, ModeTyped
    <3> QED BY <2>1, <3>1, <3>2 DEF EnterRateLimitMode, PaceInv, ModeTyped
  <2>7. TimersTyped' /\ EndTyped' /\ Throttle'
    BY <1>1, <2>1 DEF EnterRateLimitMode, PaceInv, TimersTyped, EndTyped, Throttle
  <2> QED BY <2>4, <2>5, <2>6, <2>7 DEF PaceInv
<1> QED BY <1>2, <1>3

LEMMA TickTyped ==
  ASSUME PaceInv, Tick
  PROVE  PaceInv'
<1>1. \A n \in Nat : Less(n) \in Nat
  BY DEF Less
<1>2. Less(Unset) = Unset
  BY DEF Less, Unset
<1>3. PaceTyped'
  BY <1>1 DEF Tick, PaceInv, PaceTyped
<1>4. TimersTyped' /\ Throttle'
  BY <1>1, <1>2 DEF Tick, PaceInv, TimersTyped, Throttle, modeVars
<1>5. TasksTyped' /\ ModeTyped' /\ EndTyped'
  BY DEF Tick, PaceInv, TasksTyped, ModeTyped, EndTyped, tasksVars, modeVars, endVars
<1> QED BY <1>3, <1>4, <1>5 DEF PaceInv

LEMMA TypesKept ==
  ASSUME IInv, PaceInv, [Next]_vars
  PROVE  PaceInv'
<1> USE DEF PaceInv
<1>1. CASE Schedule
  <2>1. results \in [Tasks -> Results \union {"none", "aborted", "not_started"}]
    BY DEF TasksTyped
  <2> QED BY <1>1, <2>1, FinishTyped, NormalLaunchTyped, RateLimitLaunchTyped DEF Schedule
<1>2. CASE NormalTimerFires
  <2>1. TasksTyped' /\ normalLaunchCount' \in 0..LaunchLimit /\ due' \in BOOLEAN
    <3>1. CASE StartAttempt(1) /\ CountLaunch /\ pending # <<>> /\ due' = TRUE
      <4>1. 1 \in DOMAIN pending
        BY <3>1 DEF TasksTyped
      <4> QED BY <3>1, <4>1, StartTyped, CountTyped
    <3>2. CASE UNCHANGED <<tasksVars, normalLaunchCount, due>>
      BY <3>2 DEF TasksTyped, ModeTyped, TimersTyped, tasksVars
    <3> QED BY <1>2, <3>1, <3>2 DEF NormalTimerFires
  <2> QED BY <1>2, <2>1 DEF NormalTimerFires, ModeTyped, PaceTyped, TimersTyped, EndTyped, Throttle, paceVars, endVars
<1>3. CASE RateLimitTimerFires
  BY <1>3 DEF RateLimitTimerFires, TasksTyped, ModeTyped, PaceTyped, TimersTyped, EndTyped, Throttle,
    tasksVars, modeVars, paceVars, endVars
<1>4. CASE Tick
  BY <1>4, TickTyped
<1>5. ASSUME NEW t \in Tasks, Handled(t) PROVE PaceInv'
  <2>1. TasksTyped'
    BY <1>5 DEF Handled, TasksTyped
  <2> QED BY <1>5, <2>1 DEF Handled, ModeTyped, PaceTyped, TimersTyped, EndTyped, Throttle,
        modeVars, paceVars, timerVars, endVars
<1>6. ASSUME NEW t \in Tasks, MarkAttemptReady(t) PROVE PaceInv'
  <2>1. TasksTyped'
    BY <1>6 DEF MarkAttemptReady, TasksTyped
  <2>2. PaceTyped' /\ ModeTyped'
    BY <1>6, SwarmAssumption DEF MarkAttemptReady, PaceTyped, ModeTyped
  <2>3. TimersTyped' /\ EndTyped' /\ Throttle'
    BY <1>6 DEF MarkAttemptReady, TimersTyped, EndTyped, Throttle, timerVars, endVars
  <2> QED BY <2>1, <2>2, <2>3
<1>7. ASSUME NEW t \in Tasks, NEW outcome \in Results, Answer(t, outcome) PROVE PaceInv'
  <2>1. TasksTyped'
    BY <1>7 DEF Answer, Released, TasksTyped
  <2>2. due' \in BOOLEAN
    BY <1>7 DEF Answer, Counts
  <2> QED BY <1>7, <2>1, <2>2 DEF Answer, ModeTyped, PaceTyped, TimersTyped, EndTyped, Throttle,
        modeVars, paceVars, timerVars, endVars
<1>8. ASSUME NEW t \in Tasks, RateLimited(t) PROVE PaceInv'
  BY <1>8, RateLimitedTyped
<1>9. ASSUME NEW how \in {"cancelled", "failed"}, Abort(how) PROVE PaceInv'
  <2>1. Report \in [Tasks -> Results \union {"none", "aborted", "not_started"}]
    BY DEF Report, TasksTyped
  <2>2. Nobody \in [Tasks -> Results \union {"none", "aborted", "not_started"}]
    BY DEF Nobody
  <2> QED BY <1>9, <2>1, <2>2, FinishTyped DEF Abort
<1>10. CASE UNCHANGED vars
  BY <1>10 DEF vars, TasksTyped, ModeTyped, PaceTyped, TimersTyped, EndTyped, Throttle,
    tasksVars, modeVars, paceVars, timerVars, endVars
<1> QED BY <1>1, <1>2, <1>3, <1>4, <1>5, <1>6, <1>7, <1>8, <1>9, <1>10 DEF Next, Ends

THEOREM PaceInvariant == Spec => []PaceInv
BY InitTyped, TypesKept, BatchInvariant, PTL DEF Spec

(* Every variable keeps its type: times and backoffs stay natural numbers.  *)
THEOREM SwarmTypes == Spec => []TypeOK
BY PaceInvariant, PartsAreTypes, PTL

-----------------------------------------------------------------------------
(* The pace. *)

Paced(t) ==
  IF rateLimitMode
  THEN /\ Cardinality(active') <= rateLimitCapacity'
       /\ untilRetry[t] = 0 /\ (untilLaunch = 0 \/ untilRecover = 0)
  ELSE Cardinality(active') <= MaxConcurrency

(* One more attempt is within a limit that was not reached.                 *)
LEMMA OneMore ==
  ASSUME TasksTyped, NEW t, NEW limit \in Nat, ~(Cardinality(active) >= limit), active' = active \union {t}
  PROVE  Cardinality(active') <= limit
<1>1. IsFiniteSet(active)
  BY SwarmAssumption, FS_Subset DEF TasksTyped
<1>2. Cardinality(active) \in Nat
  BY <1>1, FS_CardinalityType
<1>3. Cardinality(active \union {t}) = IF t \in active THEN Cardinality(active) ELSE Cardinality(active) + 1
  BY <1>1, FS_AddElement
<1> QED BY <1>2, <1>3

(* The ramp.                                                                *)
LEMMA RampIsPaced ==
  ASSUME IInv, PaceInv, ~rateLimitMode, ~AtConcurrencyLimit, pending # <<>>, StartAttempt(1),
         NEW t \in Tasks
  PROVE  Paced(t)
<1>1. 1 \in DOMAIN pending
  BY DEF PaceInv, TasksTyped
<1>2. active' = active \union {pending[1]}
  BY <1>1, StartTyped DEF PaceInv
<1>3. MaxConcurrency \in Nat
  BY SwarmAssumption
<1>4. Cardinality(active') <= MaxConcurrency
  BY <1>2, <1>3, OneMore DEF PaceInv, AtConcurrencyLimit
<1> QED BY <1>4 DEF Paced

(* A pass in rate-limit mode: with a ripe task in the queue nothing but the *)
(* pace keeps the wakeup off, and a recovery lifts it.                      *)
LEMMA PassIsPaced ==
  ASSUME IInv, PaceInv, rateLimitMode, RateLimitLaunch, NEW t \in active' \ active
  PROVE  Paced(t)
<1>1. PICK i \in DOMAIN pending :
        /\ Ripe(pending[i]) /\ StartAttempt(i) /\ pending # <<>> /\ ~(Cardinality(active) >= Capacity)
        /\ ~(Smaller(Larger(LaunchTime, NextRetry(pending)), Recovery) > 0)
  BY PassIs DEF tasksVars
<1>2. active' = active \union {pending[i]}
  BY <1>1, StartTyped DEF PaceInv
<1>3. t = pending[i] /\ untilRetry[t] = 0
  BY <1>1, <1>2 DEF Ripe
<1>4. Capacity \in Nat /\ Recovery \in Nat /\ LaunchTime \in Nat /\ Recovery > 0
  BY <1>1, PassTyped
<1>5. Cardinality(active') <= rateLimitCapacity'
  <2>1. rateLimitCapacity' = Capacity
    BY PassIs
  <2> QED BY <1>1, <1>2, <1>4, <2>1, OneMore DEF PaceInv
<1>6. LaunchTime = 0
  <2>1. NextRetry(pending) = 0
    BY <1>1, NextRetryIs DEF PaceInv, TasksTyped, PaceTyped
  <2>2. Larger(LaunchTime, 0) = LaunchTime
    BY <1>4 DEF Larger
  <2>3. ~(Smaller(LaunchTime, Recovery) > 0)
    BY <1>1, <2>1, <2>2
  <2> QED BY <1>4, <2>3 DEF Smaller
<1>7. untilLaunch = 0 \/ untilRecover = 0
  BY <1>6 DEF LaunchTime, Recovers
<1> QED BY <1>3, <1>5, <1>7 DEF Paced

(* Launches are paced: neither the ramp nor its timer passes the cap, which *)
(* the timer respects because the first refusal stops it for good; and in   *)
(* rate-limit mode no pass exceeds the learned capacity, starts a task in   *)
(* its backoff, or another one within the pace unless a recovery of the     *)
(* capacity lifts it (scheduleNormalLaunch, scheduleRateLimitLaunch).       *)
THEOREM LaunchesKeepPace == Spec => LaunchesArePaced
<1> DEFINE Step == \A t \in Tasks : t \in active' \ active => Paced(t)
<1>1. ASSUME IInv, PaceInv, Next PROVE Step
  <2> SUFFICES ASSUME NEW t \in Tasks, t \in active' \ active PROVE Paced(t)
    OBVIOUS
  <2>1. ~Finish("done", results) /\ \A how : ~Abort(how)
    BY DEF Finish, Abort
  <2>2. ~RateLimitTimerFires /\ ~Tick
    BY DEF RateLimitTimerFires, Tick, tasksVars
  <2>3. \A u \in Tasks : ~Handled(u) /\ ~MarkAttemptReady(u) /\ ~Ends(u)
    BY DEF Handled, MarkAttemptReady, Ends, Answer, RateLimited, Released
  <2>4. CASE Schedule
    <3>1. CASE rateLimitMode
      BY <1>1, <2>1, <2>4, <3>1, PassIsPaced DEF Schedule
    <3>2. CASE ~rateLimitMode
      <4>1. NormalLaunch
        BY <2>1, <2>4, <3>2 DEF Schedule
      <4>2. ~AtConcurrencyLimit /\ pending # <<>> /\ StartAttempt(1)
        BY <4>1 DEF NormalLaunch, tasksVars
      <4> QED BY <1>1, <3>2, <4>2, RampIsPaced
    <3> QED BY <3>1, <3>2
  <2>5. CASE NormalTimerFires
    <3>1. ~rateLimitMode
      BY <1>1, <2>5 DEF NormalTimerFires, PaceInv, Throttle, Unset
    <3>2. ~AtConcurrencyLimit /\ pending # <<>> /\ StartAttempt(1)
      BY <2>5 DEF NormalTimerFires, tasksVars
    <3> QED BY <1>1, <3>1, <3>2, RampIsPaced
  <2> QED BY <1>1, <2>1, <2>2, <2>3, <2>4, <2>5 DEF Next
<1>2. IInv /\ PaceInv /\ [Next]_vars => [Step]_vars
  BY <1>1
<1>3. LaunchesArePaced <=> [][Step]_vars
  BY PTL DEF LaunchesArePaced, Paced
<1> QED BY <1>2, <1>3, BatchInvariant, PaceInvariant, PTL DEF Spec
=============================================================================
