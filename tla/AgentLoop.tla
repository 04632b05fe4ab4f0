------------------------------ MODULE AgentLoop ------------------------------
(***************************************************************************)
(* The turn loop of one agent: AgentLoopService with its StepRequestQueue, *)
(* the loop-continuation hook and the step-retry error handler             *)
(* (agent-core-v2, agent/loop and agent/stepRetry).                        *)
(*                                                                         *)
(* Senders enqueue step requests; a request opens a turn, joins the active *)
(* one or waits for the next.  One turn runs at a time and drains its own  *)
(* queue one batch per step.  JavaScript runs each synchronous stretch     *)
(* without interruption, so the points `pump` and `begin` below belong to  *)
(* the stretch that led to them: no other action is enabled there.         *)
(***************************************************************************)
EXTENDS Integers, Sequences, SequencesExt, FiniteSets, Queues

CONSTANTS
  MaxRequests,   \* bound: requests ever created in one process
  MaxSteps,      \* loop control maxStepsPerTurn (0: unlimited)
  MaxAttempts,   \* loop control maxRetriesPerStep
  MaxCrashes,    \* bound: process crashes
  Outside        \* bound: which of {"settled", "dispose"} other code calls

ASSUME LoopAssumption ==
  /\ MaxRequests \in Nat \ {0}
  /\ MaxSteps \in Nat
  /\ MaxAttempts \in Nat \ {0}
  /\ MaxCrashes \in Nat
  /\ Outside \subseteq {"settled", "dispose"}

Requests == 1..MaxRequests
TurnIds  == 0..((MaxCrashes + 1) * MaxRequests)
NoTurn   == -1
NoReq    == 0

VARIABLES
  req,          \* request -> its kind ("none": not created) and StepRequestState
  step,         \* request -> its Step: owning turn and state; cancelled: its signal is aborted
  turn,         \* turn id -> its state
  queue,        \* turn id -> the turn's StepRequestQueue
  standalone,   \* standaloneStepQueue
  pendingTurns, \* turn ids waiting
  active,       \* activeTurnJob
  turnAborted,  \* the active turn's controller is aborted
  pc,           \* where runTurn stands
  driver,       \* driver of the current step, NoReq between steps
  steps,        \* runtime.steps
  finish,       \* finish reason of the last finished step, and how its hooks went
  result,       \* what run() returned
  retries,      \* stepRetry: last failed driver and its failed attempts
  nextTurnId,   \* TurnModel.nextTurnId, rebuilt from the wire records on restart
  reserved,     \* nextReservedTurnId
  history,      \* turn ids that loop events on the wire carry
  waiter,       \* a caller of settled(): "none", "waiting", "resolved"
  disposing,
  crashes

reqVars  == <<req, step, queue, standalone>>
turnVars == <<turn, pendingTurns, active, turnAborted>>
runVars  == <<pc, driver, steps, finish, result, retries>>
idVars   == <<nextTurnId, reserved, history>>
envVars  == <<waiter, disposing, crashes>>
vars     == <<reqVars, turnVars, runVars, idVars, envVars>>

(* prompt/retry: newTurn.  inject: activeOrNewTurn and steer: activeTurnOnly, *)
(* both mergeable and agent-scoped.  next: activeOrNextTurn, the default.     *)
(* continuation: the same, sent by the loop-continuation hook, which keeps no *)
(* receipt, so nobody can cancel it.                                          *)
Kinds == {"prompt", "inject", "steer", "next", "continuation"}

mergeable(i)  == req[i].kind \in {"inject", "steer"}
turnScoped(i) == req[i].kind \in {"prompt", "next", "continuation"}
aborted(i)    == req[i].state = "aborted"
Wanted        == {i \in Requests : ~aborted(i)}

NoStep == [turn |-> NoTurn, state |-> "none"]

NoFinish == [reason |-> "none", hooks |-> "none"]
NoRetries == [driver |-> NoReq, failed |-> 0]

NoReqs   == [i \in Requests |-> [kind |-> "none", state |-> "pending"]]
NoSteps  == [i \in Requests |-> NoStep]
NoTurns  == [t \in TurnIds |-> "none"]
NoQueues == [t \in TurnIds |-> <<>>]

Init ==
  /\ req = NoReqs /\ step = NoSteps /\ queue = NoQueues /\ standalone = <<>>
  /\ turn = NoTurns /\ pendingTurns = <<>> /\ active = NoTurn /\ turnAborted = FALSE
  /\ pc = "idle" /\ driver = NoReq /\ steps = 0
  /\ finish = NoFinish /\ result = "none" /\ retries = NoRetries
  /\ nextTurnId = 0 /\ reserved = 0 /\ history = {}
  /\ waiter = "none" /\ disposing = FALSE /\ crashes = 0

(* Other code runs only where the loop awaits or is idle. *)
Yielded == pc \notin {"pump", "begin"}

MaxOf(a, b) == IF a >= b THEN a ELSE b

-----------------------------------------------------------------------------
(* Aborting requests and cancelling steps. *)

AbortReqs(S) ==
  [i \in Requests |-> IF i \in S /\ req[i].state = "pending"
                      THEN [req[i] EXCEPT !.state = "aborted"] ELSE req[i]]

LiveSteps(t) == {i \in Requests : step[i].turn = t /\ step[i].state \in {"queued", "running"}}

(* Step.cancel() for each step in S. *)
CancelSteps(S) ==
  [i \in Requests |-> IF i \in S THEN [step[i] EXCEPT !.state = "cancelled"]
                      ELSE step[i]]

(* Mutant: nobody wakes the callers of settled(). *)
SettledByNobody(w) == w

Settled(w) == IF w = "waiting" THEN "resolved" ELSE w

-----------------------------------------------------------------------------
(* enqueue() *)

(* Mutant: no continuation while something else is queued.                  *)
ContinuesIfEmpty ==
  finish = [reason |-> "tool_calls", hooks |-> "done"] /\ queue[active] = <<>>

(* The loop-continuation hook enqueues one more step for the tool results,  *)
(* unless a hook before it in the chain threw.                              *)
Continues == finish = [reason |-> "tool_calls", hooks |-> "done"]

Unused == {i \in Requests : req[i].kind = "none"}
NextReq == CHOOSE i \in Unused : \A j \in Unused : i <= j

Create(i, k) == [req EXCEPT ![i] = [kind |-> k, state |-> "pending"]]
AssignedPending(t) == [turn |-> t, state |-> "pending"]  \* mutant
AssignedTo(t) == [turn |-> t, state |-> "queued"]

(* assignStep to the active turn: the request joins the tail of its queue. *)
JoinActive(k) ==
  LET i == NextReq
  IN  /\ active # NoTurn
      /\ req' = Create(i, k)
      /\ step' = [step EXCEPT ![i] = AssignedTo(active)]
      /\ queue' = [queue EXCEPT ![active] = Append(@, i)]
      /\ UNCHANGED <<standalone, turnVars, runVars, idVars, envVars>>

(* Mutant: ids handed out to turns that have not started are forgotten. *)
ReserveNext == nextTurnId

reserveTurnId == MaxOf(nextTurnId, MaxOf(reserved, nextTurnId))

(* createAndQueueTurn: the seeding request first, then what waited for a    *)
(* next turn; pumpTurns follows at once and does nothing while one is active.*)
OpenTurn(k) ==
  LET i == NextReq
      t == reserveTurnId
      moved == Only(standalone, Wanted)
  IN  /\ req' = Create(i, k)
      /\ step' = [j \in Requests |-> IF j = i \/ j \in Range(moved) THEN AssignedTo(t) ELSE step[j]]
      /\ queue' = [queue EXCEPT ![t] = <<i>> \o moved]
      /\ standalone' = <<>>
      /\ turn' = [turn EXCEPT ![t] = "queued"]
      /\ pendingTurns' = Append(pendingTurns, t)
      /\ reserved' = t + 1
      /\ pc' = IF active = NoTurn THEN "pump" ELSE pc
      /\ UNCHANGED <<active, turnAborted, driver, steps, finish, result, retries, nextTurnId, history, envVars>>

(* The bound on requests leaves one for a continuation that is due. *)
Enqueueable ==
  /\ Yielded
  /\ ~disposing
  /\ Cardinality(Unused) > IF pc = "after" /\ Continues THEN 1 ELSE 0

EnqueuePrompt == Enqueueable /\ OpenTurn("prompt")

EnqueueInject ==
  /\ Enqueueable
  /\ IF active = NoTurn THEN OpenTurn("inject") ELSE JoinActive("inject")

(* Without an active turn a steer is refused, and nothing changes. *)
EnqueueSteer == Enqueueable /\ JoinActive("steer")

EnqueueNext ==
  /\ Enqueueable
  /\ \/ JoinActive("next")
     \/ /\ active = NoTurn
        /\ req' = Create(NextReq, "next")
        /\ standalone' = Append(standalone, NextReq)
        /\ UNCHANGED <<step, queue, turnVars, runVars, idVars, envVars>>

-----------------------------------------------------------------------------
(* pumpTurns / startTurn *)

PumpIdle ==
  /\ pc = "pump"
  /\ disposing \/ pendingTurns = <<>>
  /\ pc' = "idle"
  /\ waiter' = IF disposing THEN waiter ELSE Settled(waiter)
  /\ UNCHANGED <<reqVars, turnVars, driver, steps, finish, result, retries, idVars, disposing, crashes>>

StartTurn ==
  LET t == Head(pendingTurns)
  IN  /\ pc = "pump"
      /\ ~disposing
      /\ pendingTurns # <<>>
      /\ pendingTurns' = Tail(pendingTurns)
      /\ active' = t
      /\ turnAborted' = FALSE
      /\ turn' = [turn EXCEPT ![t] = "running"]
      /\ nextTurnId' = nextTurnId + 1
      /\ pc' = "begin"
      /\ UNCHANGED <<reqVars, driver, steps, finish, result, retries, reserved, history, envVars>>

-----------------------------------------------------------------------------
(* run() *)

(* Mutant: run() empties the queue, whatever the scope of its requests. *)
ReturnClearing(r) ==
  /\ pc' = "returned"
  /\ result' = r
  /\ req' = AbortReqs({i \in Range(queue[active]) : turnScoped(i)})
  /\ queue' = [queue EXCEPT ![active] = <<>>]

(* run() returns r; its finally aborts the turn-scoped requests still queued. *)
ReturnRun(r) ==
  /\ pc' = "returned"
  /\ result' = r
  /\ req' = AbortReqs({i \in Range(queue[active]) : turnScoped(i)})
  /\ queue' = [queue EXCEPT ![active] =
                 Only(@, {i \in Wanted : ~(turnScoped(i) /\ req[i].state = "pending")})]

(* Mutant: withdrawn requests are not pruned. *)
LiveUnpruned(t) == queue[t]

Live(t) == Only(queue[t], Wanted)

BeginReturns ==
  /\ pc = "begin"
  /\ \/ turnAborted /\ ReturnRun("cancelled")
     \/ ~turnAborted /\ Live(active) = <<>> /\ ReturnRun("completed")
     \/ /\ ~turnAborted
        /\ Live(active) # <<>>
        /\ MaxSteps > 0 /\ steps >= MaxSteps
        /\ ReturnRun("failed")
  /\ driver' = NoReq
  /\ UNCHANGED <<step, standalone, turnVars, steps, finish, retries, idVars, envVars>>

(* Mutant: the loop does not look at the turn's signal. *)
MayBeginUnchecked == Live(active) # <<>> /\ (MaxSteps = 0 \/ steps < MaxSteps)

MayBegin ==
  /\ ~turnAborted
  /\ Live(active) # <<>>
  /\ MaxSteps = 0 \/ steps < MaxSteps

(* takeNextBatch: the first non-mergeable request, else the first, drives;  *)
(* every other mergeable one is folded into its step.                       *)
BatchDriver(items) ==
  LET at == {n \in DOMAIN items : ~mergeable(items[n])}
  IN  IF at = {} THEN items[1] ELSE items[CHOOSE n \in at : \A m \in at : n <= m]

BeginStep ==
  LET items == Live(active)
      d     == BatchDriver(items)
      batch == {d} \cup {i \in Range(items) : mergeable(i)}
  IN  /\ pc = "begin"
      /\ MayBegin
      /\ queue' = [queue EXCEPT ![active] = Only(items, Requests \ batch)]
      /\ step' = [step EXCEPT ![d].state = "running"]
      /\ req' = [i \in Requests |-> IF i \in batch /\ req[i].state = "pending"
                                    THEN [req[i] EXCEPT !.state = "materialized"] ELSE req[i]]
      /\ driver' = d
      /\ steps' = steps + 1
      /\ pc' = "hooks"
      /\ UNCHANGED <<standalone, turnVars, finish, result, retries, idVars, envVars>>

SignalAborted == turnAborted \/ step[driver].state = "cancelled"

(* TurnModel's reducer for loop events; mutant: it does not look at the id. *)
NotCounted(id) == nextTurnId
Counted(id) == MaxOf(nextTurnId, id + 1)

(* beginStep, after the onWillBeginStep hooks: step.begin goes to the wire, *)
(* and TurnModel's reducer raises the counter past the turn's id.           *)
StepBegins ==
  /\ pc = "hooks"
  /\ ~SignalAborted
  /\ pc' = "llm"
  /\ history' = history \cup {active}
  /\ nextTurnId' = Counted(active)
  /\ UNCHANGED <<reqVars, turnVars, driver, steps, finish, result, retries, reserved, envVars>>

(* finishStep: the answer and its tools are in, the signal is not aborted;   *)
(* resetAttempts runs among the onDidFinishStep hooks.  A hook that throws   *)
(* cuts the chain short and runAfterStep swallows its error, which matters   *)
(* only after tool calls; completeLoopStep looks at "filtered" first.       *)
StepFinishes(reason, hooks) ==
  /\ pc = "llm"
  /\ ~SignalAborted
  /\ reason = "tool_calls" => Unused # {}
  /\ hooks = "threw" => reason = "tool_calls"
  /\ reason = "filtered" => hooks = "done"
  /\ pc' = "after"
  /\ finish' = [reason |-> reason, hooks |-> hooks]
  /\ retries' \in IF hooks = "threw" THEN {retries, NoRetries} ELSE {NoRetries}
  /\ UNCHANGED <<reqVars, turnVars, driver, steps, result, idVars, envVars>>

(* completeLoopStep; the step is completed whatever its state was.  (With   *)
(* the loop disposed the hook's enqueue throws an abort: StepAborts.)       *)
CompleteStep ==
  /\ pc = "after"
  /\ Continues => ~disposing
  /\ LET i == NextReq
         done == [step EXCEPT ![driver].state = "completed"]
     IN  /\ step' = IF Continues THEN [done EXCEPT ![i] = AssignedTo(active)] ELSE done
         /\ IF finish.reason = "filtered" \/ finish.hooks = "stopTurn"
            THEN ReturnRun(IF finish.reason # "filtered" THEN "completed"
                           ELSE IF turnAborted THEN "cancelled" ELSE "failed")
            ELSE /\ req' = IF Continues THEN Create(i, "continuation") ELSE req
                 /\ queue' = IF Continues THEN [queue EXCEPT ![active] = Append(@, i)] ELSE queue
                 /\ pc' = "begin"
                 /\ UNCHANGED result
  /\ driver' = NoReq
  /\ UNCHANGED <<standalone, turnVars, steps, finish, retries, idVars, envVars>>

-----------------------------------------------------------------------------
(* handleLoopStepError *)

(* handleLoopCancellation: the turn ends only if it was itself aborted.     *)
CancellationOf ==
  \/ turnAborted /\ ReturnRun("cancelled") /\ UNCHANGED driver
  \/ /\ ~turnAborted
     /\ step[driver].state = "cancelled"
     /\ pc' = "begin"
     /\ driver' = NoReq
     /\ UNCHANGED <<req, queue, result>>

(* The awaited step rejects once its signal is aborted; after finishStep a   *)
(* hook does, and then the step does not count as finished.                 *)
StepAborts ==
  /\ pc \in {"hooks", "llm", "after"}
  /\ SignalAborted
  /\ CancellationOf
  /\ finish' = IF pc = "after" THEN NoFinish ELSE finish
  /\ UNCHANGED <<step, standalone, turnVars, steps, retries, idVars, envVars>>

(* A hook, the provider or a tool batch throws; no handler recovers it. *)
StepFails ==
  /\ pc \in {"hooks", "llm"}
  /\ ~SignalAborted
  /\ ReturnRun("failed")
  /\ UNCHANGED <<step, standalone, turnVars, driver, steps, finish, retries, idVars, envVars>>

(* A retryable provider error: step-retry counts it per driver. *)
StepFailsRetryably ==
  LET failed == (IF retries.driver = driver THEN retries.failed ELSE 0) + 1
  IN  /\ pc = "llm"
      /\ ~SignalAborted
      /\ IF failed >= MaxAttempts
         THEN /\ retries' = NoRetries
              /\ ReturnRun("failed")
         ELSE /\ retries' = [driver |-> driver, failed |-> failed]
              /\ pc' = "recovering"
              /\ UNCHANGED <<req, queue, result>>
      /\ UNCHANGED <<step, standalone, turnVars, driver, steps, finish, idVars, envVars>>

(* Mutant: only the turn's own abort ends the wait. *)
RecoverFailsForTurn ==
  /\ pc = "recovering" /\ turnAborted
  /\ ReturnRun("cancelled")
  /\ UNCHANGED <<step, standalone, turnVars, driver, steps, finish, retries, idVars, envVars>>

(* The backoff is over (or the turn's abort cut it short).  A step whose    *)
(* own signal was aborted meanwhile is not retried and fails the turn.      *)
RecoverFails ==
  /\ pc = "recovering"
  /\ turnAborted \/ step[driver].state = "cancelled"
  /\ ReturnRun(IF turnAborted THEN "cancelled" ELSE "failed")
  /\ UNCHANGED <<step, standalone, turnVars, driver, steps, finish, retries, idVars, envVars>>

Retry ==
  /\ pc = "recovering"
  /\ ~SignalAborted
  /\ queue' = [queue EXCEPT ![active] = <<driver>> \o @]
  /\ step' = [step EXCEPT ![driver].state = "queued"]
  /\ pc' = "begin"
  /\ driver' = NoReq
  /\ UNCHANGED <<req, standalone, turnVars, steps, finish, result, retries, idVars, envVars>>

(* runTurn's finally, a few promise jobs after run() returned.  The run's   *)
(* own state and the turn's queue become unreachable.                       *)
ReleaseActiveTurn ==
  LET live == LiveSteps(active)
  IN  /\ pc = "returned"
      /\ turn' = [turn EXCEPT ![active] = result]
      /\ step' = CancelSteps(live)
      /\ req' = AbortReqs(live)
      /\ active' = NoTurn
      /\ turnAborted' = FALSE
      /\ driver' = NoReq
      /\ pc' = "pump"
      /\ steps' = 0 /\ finish' = NoFinish /\ result' = "none" /\ retries' = NoRetries
      /\ queue' = [queue EXCEPT ![active] = <<>>]
      /\ UNCHANGED <<standalone, pendingTurns, idVars, envVars>>

-----------------------------------------------------------------------------
(* cancel(), Step.cancel(), EnqueueReceipt.abort(), settled(), dispose() *)

CancelActiveTurn ==
  /\ Yielded
  /\ active # NoTurn
  /\ ~turnAborted
  /\ turnAborted' = TRUE
  /\ UNCHANGED <<reqVars, turn, pendingTurns, active, runVars, idVars, envVars>>

(* Mutant: steps that have not begun are forgotten. *)
RunningStepsOf(T) == {i \in Requests : step[i].turn \in T /\ step[i].state = "running"}

StepsOf(T) == UNION {LiveSteps(t) : t \in T}

(* cancelQueuedTurn for each turn in T, which leaves rest waiting;           *)
(* maybeSettle follows.                                                      *)
DropQueuedTurns(T, rest) ==
  /\ pendingTurns' = rest
  /\ turn' = [t \in TurnIds |-> IF t \in T THEN "cancelled" ELSE turn[t]]
  /\ step' = CancelSteps(StepsOf(T))
  /\ waiter' = IF active = NoTurn /\ rest = <<>> THEN Settled(waiter) ELSE waiter

CancelQueuedTurn(t) ==
  /\ Yielded
  /\ \E n \in DOMAIN pendingTurns :
       pendingTurns[n] = t /\ DropQueuedTurns({t}, RemoveAt(pendingTurns, n))
  /\ req' = AbortReqs(StepsOf({t}))
  /\ UNCHANGED <<queue, standalone, active, turnAborted, runVars, idVars, disposing, crashes>>

CancelStep(i) ==
  /\ Yielded
  /\ req[i].kind # "continuation"
  /\ step[i].state \in {"queued", "running"}
  /\ step' = CancelSteps({i})
  /\ req' = AbortReqs({i})
  /\ UNCHANGED <<queue, standalone, turnVars, runVars, idVars, envVars>>

(* abortRequest of a request that waits for a next turn; for an assigned    *)
(* one it is CancelQueuedTurn or CancelStep.                                *)
AbortStandalone(i) ==
  /\ Yielded
  /\ i \in Range(standalone)
  /\ ~aborted(i)
  /\ req' = AbortReqs({i})
  /\ UNCHANGED <<step, queue, standalone, turnVars, runVars, idVars, envVars>>

AwaitSettled ==
  /\ Yielded
  /\ "settled" \in Outside
  /\ waiter = "none"
  /\ waiter' = IF active = NoTurn /\ pendingTurns = <<>> THEN "resolved" ELSE "waiting"
  /\ UNCHANGED <<reqVars, turnVars, runVars, idVars, disposing, crashes>>

Dispose ==
  LET T == Range(pendingTurns)
  IN  /\ Yielded
      /\ "dispose" \in Outside
      /\ ~disposing
      /\ disposing' = TRUE
      /\ DropQueuedTurns(T, <<>>)
      /\ turnAborted' = (active # NoTurn)
      /\ req' = AbortReqs(StepsOf(T) \cup Range(standalone))
      /\ standalone' = <<>>
      /\ UNCHANGED <<queue, active, runVars, idVars, crashes>>

(* The process dies and a new one restores TurnModel from the wire log. *)
Crash ==
  /\ Yielded
  /\ crashes < MaxCrashes
  /\ crashes' = crashes + 1
  /\ req' = NoReqs /\ step' = NoSteps /\ queue' = NoQueues /\ standalone' = <<>>
  /\ turn' = NoTurns /\ pendingTurns' = <<>> /\ active' = NoTurn /\ turnAborted' = FALSE
  /\ pc' = "idle" /\ driver' = NoReq /\ steps' = 0
  /\ finish' = NoFinish /\ result' = "none" /\ retries' = NoRetries
  /\ reserved' = 0 /\ waiter' = "none" /\ disposing' = FALSE
  /\ UNCHANGED <<nextTurnId, history>>

-----------------------------------------------------------------------------
Enqueue == EnqueuePrompt \/ EnqueueInject \/ EnqueueSteer \/ EnqueueNext

Cancel ==
  \/ CancelActiveTurn
  \/ \E t \in TurnIds : CancelQueuedTurn(t)
  \/ \E i \in Requests : CancelStep(i) \/ AbortStandalone(i)

Pump == PumpIdle \/ StartTurn
Begin == BeginReturns \/ BeginStep

StepProgress ==
  \/ StepBegins
  \/ \E reason \in {"stop", "tool_calls", "filtered"}, hooks \in {"done", "stopTurn", "threw"} :
       StepFinishes(reason, hooks)
  \/ CompleteStep
  \/ StepAborts
  \/ StepFails
  \/ StepFailsRetryably

Recover == RecoverFails \/ Retry

Next ==
  \/ Enqueue \/ Cancel \/ AwaitSettled \/ Dispose \/ Crash
  \/ Pump \/ Begin \/ StepProgress \/ Recover \/ ReleaseActiveTurn

(* Promise jobs and the backoff timer run; the provider and the tools       *)
(* answer, fail or notice the abort.  Senders and cancellers need not act.  *)
Fairness == WF_vars(Pump \/ Begin \/ StepProgress \/ Recover \/ ReleaseActiveTurn)

Spec == Init /\ [][Next]_vars
FairSpec == Spec /\ Fairness

-----------------------------------------------------------------------------
(* Properties. *)

Enders == {"completed", "failed", "cancelled"}
Pending(i) == req[i].kind # "none" /\ req[i].state = "pending"
Places(i) == {t \in TurnIds : i \in Range(queue[t])}

(* The variables keep their types (AgentLoopService's fields).              *)
TypeOK ==
  /\ req \in [Requests -> [kind: Kinds \cup {"none"}, state: {"pending", "materialized", "aborted"}]]
  /\ step \in [Requests -> [turn: TurnIds \cup {NoTurn},
                           state: {"none", "queued", "running", "completed", "cancelled"}]]
  /\ turn \in [TurnIds -> {"none", "queued", "running"} \cup Enders]
  /\ turnAborted \in BOOLEAN
  /\ queue \in [TurnIds -> Seq(Requests)]
  /\ standalone \in Seq(Requests)
  /\ pendingTurns \in Seq(TurnIds)
  /\ active \in TurnIds \cup {NoTurn}
  /\ pc \in {"idle", "pump", "begin", "hooks", "llm", "after", "recovering", "returned"}
  /\ driver \in Requests \cup {NoReq}
  /\ steps \in Nat
  /\ finish \in [reason: {"none", "stop", "tool_calls", "filtered"},
                 hooks: {"none", "done", "stopTurn", "threw"}]
  /\ result \in Enders \cup {"none"}
  /\ retries \in [driver: Requests \cup {NoReq}, failed: Nat]
  /\ nextTurnId \in Nat
  /\ reserved \in Nat
  /\ history \subseteq TurnIds
  /\ waiter \in {"none", "waiting", "resolved"}
  /\ disposing \in BOOLEAN
  /\ crashes \in 0..MaxCrashes

(* Turns run one at a time and in the order they were opened: the active    *)
(* turn is the only running one, the waiting ones are exactly the queued    *)
(* ones, and no turn with a smaller id is still waiting behind a later one. *)
TurnsRunInOrder ==
  /\ {t \in TurnIds : turn[t] = "running"} = {active} \ {NoTurn}
  /\ {t \in TurnIds : turn[t] = "queued"} = Range(pendingTurns)
  /\ \A m, n \in DOMAIN pendingTurns : m < n => pendingTurns[m] < pendingTurns[n]
  /\ \A n \in DOMAIN pendingTurns : active < pendingTurns[n]

(* No request is lost or duplicated: one that has not materialized and was  *)
(* not aborted waits in exactly one queue, of the active or a waiting turn  *)
(* or the standalone queue.                                                 *)
PendingIsQueuedOnce ==
  \A i \in Requests : Pending(i) =>
    \/ Places(i) = {} /\ Cardinality({n \in DOMAIN standalone : standalone[n] = i}) = 1
    \/ /\ i \notin Range(standalone)
       /\ \E t \in Range(pendingTurns) \cup {active} :
            Places(i) = {t} /\ Cardinality({n \in DOMAIN queue[t] : queue[t][n] = i}) = 1

(* A step request withdrawn before its step began never drives a step: what *)
(* the current step works on has reached the context.                       *)
NoStepForWithdrawn ==
  pc \in {"hooks", "llm", "after", "recovering"} => req[driver].state = "materialized"

(* When a turn has ended nothing of it is left alive: each of its steps is  *)
(* completed or cancelled (so their result promises are resolved).          *)
EndedTurnHasNoLiveSteps ==
  \A t \in TurnIds : turn[t] \in Enders => LiveSteps(t) = {}

(* A turn whose last finished step asked for tools never completes without  *)
(* one more step that shows the model their results, unless a hook stopped  *)
(* it or threw; whatever was cancelled or withdrawn meanwhile.              *)
ToolResultsConsumed ==
  pc = "returned" /\ result = "completed" /\ finish.reason = "tool_calls"
    => finish.hooks # "done"

(* Once a turn is cancelled no further step of it begins.                   *)
NoStepAfterCancel ==
  [][active # NoTurn /\ turnAborted /\ active' = active => steps' = steps]_vars

(* A turn id that loop events already carry is never given to a new turn,   *)
(* not even after a restart that rebuilt the counter from the wire.         *)
TurnIdsFresh ==
  [][\A t \in TurnIds :
       turn[t] = "none" /\ turn'[t] # "none" => t \notin history]_vars

(* Every turn that is opened ends, unless the process dies.                 *)
TurnsEnd ==
  \A t \in TurnIds : turn[t] = "queued" ~> turn[t] \notin {"queued", "running"}

(* settled() resolves, unless the loop is disposed (or the process dies).   *)
SettledResolves == waiter = "waiting" ~> waiter # "waiting" \/ disposing
=============================================================================
