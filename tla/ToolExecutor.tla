---------------------------- MODULE ToolExecutor ----------------------------
(***************************************************************************)
(* One batch of tool calls of one model step: AgentToolExecutorService     *)
(* (agent/toolExecutor/toolExecutorService.ts) driving a ToolScheduler     *)
(* (agent/toolExecutor/toolScheduler.ts).                                  *)
(*                                                                         *)
(* The calls are prepared one after the other, with awaits between them,   *)
(* then all added to the scheduler in one synchronous loop.  A scheduled   *)
(* task starts at once or waits behind the conflicting tasks before it;    *)
(* its tool body, the settling of its promise, the scheduler's finish and  *)
(* the finalization of its result are separate turns of the event loop.    *)
(***************************************************************************)
EXTENDS ToolAccesses

CONSTANTS
  N,            \* number of tool calls in the batch
  AccessLists   \* the access declarations a tool may resolve to (sets of Access)

ASSUME BatchAssumption ==
  /\ N \in Nat \ {0}
  /\ AccessLists \subseteq SUBSET Access

Calls == 1..N

VARIABLES
  phase,     \* of execute(): "preparing", "running", "draining" (its finally after a throw), "over"
  threw,     \* execute() ends by throwing
  aborted,   \* options.signal.aborted
  stopAt,    \* the call that set stopBatch, 0 while none has
  kind,      \* of the prepared task: "none" before, "resolved" (makeResolvedTask) or "runnable"
  accesses,  \* task.accesses
  status,    \* of the call in the scheduler
  body,      \* of the tool's own execute(): "none", "running", "ended"
  out        \* of the result: "none", "finalizing", "yielded", "lost"

vars == <<phase, threw, aborted, stopAt, kind, accesses, status, body, out>>

Status == {"unseen", "prepared", "queued", "active", "settled", "finished"}

activeTasks == {c \in Calls : status[c] \in {"active", "settled"}}
queuedTasks == {c \in Calls : status[c] = "queued"}

Init ==
  /\ phase = "preparing"
  /\ threw = FALSE
  /\ aborted = FALSE
  /\ stopAt = 0
  /\ kind = [c \in Calls |-> "none"]
  /\ accesses = [c \in Calls |-> {}]
  /\ status = [c \in Calls |-> "unseen"]
  /\ body = [c \in Calls |-> "none"]
  /\ out = [c \in Calls |-> "none"]

-----------------------------------------------------------------------------
(* Preparation: `for (const call of preflighted)`. *)

Turn(c) ==
  /\ phase = "preparing"
  /\ status[c] = "unseen"
  /\ \A d \in Calls : d < c => status[d] = "prepared"

Prepared(c, k, list, stops) ==
  /\ kind' = [kind EXCEPT ![c] = k]
  /\ accesses' = [accesses EXCEPT ![c] = list]
  /\ status' = [status EXCEPT ![c] = "prepared"]
  /\ stopAt' = IF stops THEN c ELSE stopAt
  /\ UNCHANGED <<phase, threw, aborted, body, out>>

PrepareSkipped(c) ==
  /\ Turn(c)
  /\ stopAt # 0
  /\ Prepared(c, "resolved", {}, FALSE)

(* A rejected, failed, blocked or aborted call, or a synthetic result; only *)
(* the latter can stop the batch, and not after an abort.                   *)
PrepareSettled(c, stops) ==
  /\ Turn(c)
  /\ stopAt = 0
  /\ aborted => ~stops
  /\ Prepared(c, "resolved", {}, stops)

(* Mutant: a call after the one that stopped the batch is not skipped. *)
PrepareDespiteStop(c, list, stops) == Turn(c) /\ Prepared(c, "runnable", list, stops)

(* The abort may arrive while the hooks before this point are awaited. *)
PrepareRunnable(c, list, stops) ==
  /\ Turn(c)
  /\ stopAt = 0
  /\ Prepared(c, "runnable", list, stops)

(* Mutant: a phase of its own, which nothing else knows. *)
PrepareThrowsError(c) ==
  /\ Turn(c) /\ stopAt = 0
  /\ phase' = "failed"
  /\ threw' = TRUE
  /\ UNCHANGED <<aborted, stopAt, kind, accesses, status, body, out>>

(* An onBeforeExecuteTool hook throws: nothing has been scheduled yet. *)
PrepareThrows(c) ==
  /\ Turn(c)
  /\ stopAt = 0
  /\ phase' = "over"
  /\ threw' = TRUE
  /\ UNCHANGED <<aborted, stopAt, kind, accesses, status, body, out>>

-----------------------------------------------------------------------------
(* The scheduler. *)

conflicting(c, d) == conflict(accesses[c], accesses[d])

(* start() runs the task synchronously up to runSingleExecution's check of  *)
(* the signal: the body begins unless the task is resolved or aborted.      *)
BodiesAfterStarting(S) ==
  [c \in Calls |-> IF c \in S /\ kind[c] = "runnable" /\ ~aborted THEN "running" ELSE body[c]]

(* add() for each task in order: a task starts iff it conflicts with no     *)
(* task before it, since those are all active or queued.                    *)
ExecuteBatch ==
  LET starting == {c \in Calls : \A d \in Calls : d < c => ~conflicting(c, d)}
  IN  /\ phase = "preparing"
      /\ \A c \in Calls : status[c] = "prepared"
      /\ phase' = "running"
      /\ status' = [c \in Calls |-> IF c \in starting THEN "active" ELSE "queued"]
      /\ body' = BodiesAfterStarting(starting)
      /\ UNCHANGED <<threw, aborted, stopAt, kind, accesses, out>>

(* Mutant: a queued task is compared with the active ones only. *)
UnblockedByActive(gone) ==
  {c \in queuedTasks : \A d \in activeTasks \ {gone} : ~conflicting(c, d)}

(* startQueuedTasks() after `gone` left activeTasks: a queued task starts   *)
(* iff it conflicts with no active task and with no task queued before it   *)
(* (that one either just became active or is still queued).                 *)
Unblocked(gone) ==
  {c \in queuedTasks :
     /\ \A d \in activeTasks \ {gone} : ~conflicting(c, d)
     /\ \A d \in queuedTasks : d < c => ~conflicting(c, d)}

Finish(c) ==
  LET starting == Unblocked(c)
  IN  /\ status[c] = "settled"
      /\ status' = [d \in Calls |-> IF d = c THEN "finished"
                                    ELSE IF d \in starting THEN "active" ELSE status[d]]
      /\ body' = BodiesAfterStarting(starting)
      /\ UNCHANGED <<phase, threw, aborted, stopAt, kind, accesses, out>>

(* The tool's own promise settles, whether or not anyone still waits for it. *)
BodyEnds(c) ==
  /\ body[c] = "running"
  /\ body' = [body EXCEPT ![c] = "ended"]
  /\ UNCHANGED <<phase, threw, aborted, stopAt, kind, accesses, status, out>>

(* task.result is resolved; the scheduler's finish follows in a later job. *)
Settle(c) ==
  /\ status[c] = "active"
  /\ body[c] # "running"
  /\ status' = [status EXCEPT ![c] = "settled"]
  /\ UNCHANGED <<phase, threw, aborted, stopAt, kind, accesses, body, out>>

(* Mutant: no grace timer once execute() is on its way out. *)
GraceWhileRunning(c) ==
  /\ phase = "running"
  /\ status[c] = "active" /\ body[c] = "running" /\ aborted
  /\ status' = [status EXCEPT ![c] = "settled"]
  /\ UNCHANGED <<phase, threw, aborted, stopAt, kind, accesses, body, out>>

(* raceWithAbortGrace: the grace timer wins and the body is left behind. *)
GraceExpires(c) ==
  /\ status[c] = "active"
  /\ body[c] = "running"
  /\ aborted
  /\ status' = [status EXCEPT ![c] = "settled"]
  /\ UNCHANGED <<phase, threw, aborted, stopAt, kind, accesses, body, out>>

-----------------------------------------------------------------------------
(* Results: the drain loop of execute(). *)

Resolved(c) == status[c] \in {"settled", "finished"}

BeginFinalize(c) ==
  /\ phase = "running"
  /\ Resolved(c)
  /\ out[c] = "none"
  /\ out' = [out EXCEPT ![c] = "finalizing"]
  /\ UNCHANGED <<phase, threw, aborted, stopAt, kind, accesses, status, body>>

(* The finalized result is yielded, or dropped once execute() is throwing. *)
FinalizeResult(c) ==
  /\ out[c] = "finalizing"
  /\ out' = [out EXCEPT ![c] = IF phase = "running" THEN "yielded" ELSE "lost"]
  /\ UNCHANGED <<phase, threw, aborted, stopAt, kind, accesses, status, body>>

(* Finalization rejects (truncateForModel writes a file): execute() throws. *)
FinalizeThrows(c) ==
  /\ out[c] = "finalizing"
  /\ out' = [out EXCEPT ![c] = "lost"]
  /\ phase' = "draining"
  /\ threw' = TRUE
  /\ UNCHANGED <<aborted, stopAt, kind, accesses, status, body>>

(* Mutant: execute() throws at once, without its finally. *)
EndsWithoutWaiting ==
  /\ phase = "draining" \/ (phase = "running" /\ \A c \in Calls : out[c] = "yielded")
  /\ phase' = "over"
  /\ UNCHANGED <<threw, aborted, stopAt, kind, accesses, status, body, out>>

(* The loop ends when every result was yielded; its finally waits for every *)
(* scheduled task and every finalization already begun.                     *)
ExecuteEnds ==
  /\ \/ phase = "running" /\ \A c \in Calls : out[c] = "yielded"
     \/ /\ phase = "draining"
        /\ \A c \in Calls : Resolved(c) /\ out[c] # "finalizing"
  /\ phase' = "over"
  /\ UNCHANGED <<threw, aborted, stopAt, kind, accesses, status, body, out>>

Abort ==
  /\ phase # "over"
  /\ ~aborted
  /\ aborted' = TRUE
  /\ UNCHANGED <<phase, threw, stopAt, kind, accesses, status, body, out>>

-----------------------------------------------------------------------------
Prepare(c) ==
  \/ PrepareSkipped(c)
  \/ \E stops \in BOOLEAN : PrepareSettled(c, stops)
  \/ \E stops \in BOOLEAN, list \in AccessLists : PrepareRunnable(c, list, stops)
  \/ PrepareThrows(c)

Next ==
  \/ \E c \in Calls :
       \/ Prepare(c) \/ Finish(c) \/ BodyEnds(c) \/ Settle(c) \/ GraceExpires(c)
       \/ BeginFinalize(c) \/ FinalizeResult(c) \/ FinalizeThrows(c)
  \/ ExecuteBatch
  \/ ExecuteEnds
  \/ Abort

(* Promise jobs, the grace timer and the awaited hooks eventually run; a    *)
(* tool's body need not end and nobody need abort.                          *)
Fairness ==
  /\ \A c \in Calls :
       /\ WF_vars(Prepare(c))
       /\ WF_vars(Settle(c))
       /\ WF_vars(GraceExpires(c))
       /\ WF_vars(Finish(c))
       /\ WF_vars(BeginFinalize(c))
       /\ WF_vars(FinalizeResult(c) \/ FinalizeThrows(c))
  /\ WF_vars(ExecuteBatch)
  /\ WF_vars(ExecuteEnds)

Spec == Init /\ [][Next]_vars
FairSpec == Spec /\ Fairness

-----------------------------------------------------------------------------
(* Properties. *)

(* The variables keep their types (the state ToolScheduler and execute()    *)
(* keep between two jobs of the event loop).                                *)
TypeOK ==
  /\ phase \in {"preparing", "running", "draining", "over"}
  /\ threw \in BOOLEAN
  /\ aborted \in BOOLEAN
  /\ stopAt \in Calls \cup {0}
  /\ kind \in [Calls -> {"none", "resolved", "runnable"}]
  /\ accesses \in [Calls -> SUBSET Access]
  /\ status \in [Calls -> Status]
  /\ body \in [Calls -> {"none", "running", "ended"}]
  /\ out \in [Calls -> {"none", "finalizing", "yielded", "lost"}]

(* Two tool bodies of a batch never run at the same time when one may       *)
(* change a file the other touches, even when the abort grace let the       *)
(* scheduler forget a body that is still running.                           *)
NoConflictingBodies ==
  \A c, d \in Calls :
    c # d /\ body[c] = "running" /\ body[d] = "running"
      => ~Clash(accesses[c], accesses[d])

(* Calls that clash take effect in the order the model wrote them: when a   *)
(* body has begun, every earlier clashing call has left the scheduler.      *)
ProviderOrder ==
  \A c, d \in Calls :
    c < d /\ body[d] # "none" /\ Clash(accesses[c], accesses[d])
      => status[c] = "finished"

(* A task waits only for a reason: some active task, or a task queued       *)
(* before it, clashes with it.  So the scheduler never holds tasks back     *)
(* with nothing running (startQueuedTasks misses nobody).                   *)
WaitsOnlyForClashes ==
  \A c \in queuedTasks :
    \E d \in activeTasks \cup {q \in queuedTasks : q < c} :
      Clash(accesses[c], accesses[d])

(* No call after the one that stopped the batch ever runs its body, and     *)
(* the batch still answers it.                                              *)
NothingRunsAfterStop ==
  \A c \in Calls : stopAt # 0 /\ c > stopAt => body[c] = "none"

(* execute() never returns, normally or by throwing, while a tool body of   *)
(* its batch is still running, except for bodies abandoned after an abort;  *)
(* and a normal return has yielded one result for every call.               *)
EndsQuiet ==
  phase = "over" =>
    /\ ~aborted => \A c \in Calls : body[c] # "running"
    /\ ~threw => \A c \in Calls : out[c] = "yielded"

(* Once aborted, the batch ends although tool bodies may hang forever.      *)
AbortEndsBatch == aborted ~> (phase = "over")

=============================================================================
