-------------------------------- MODULE Prompt --------------------------------
(***************************************************************************)
(* The prompt scheduler of one agent: AgentPromptService over the part it  *)
(* sees of the turn loop (who runs, who waits) and of full compaction      *)
(* (which task runs, which worker has not unwound).                        *)
(*                                                                         *)
(* A synchronous stretch of JavaScript is one action; `relaunch` marks a   *)
(* stretch that still has to call startNext(), and nothing else runs then. *)
(* A prompt opens at most one turn, so that turn goes by the prompt's name. *)
(***************************************************************************)
EXTENDS Integers, Sequences, SequencesExt, FiniteSets, Queues

CONSTANTS
  MaxPrompts,      \* bound: prompts, numbered in the order they arrive
  SystemTurns,     \* turns other services queue: injections, retries, reminders
  MaxCompactions,  \* bound: full compactions
  LateSteers       \* is steer() called between a turn's end and its settlement?

ASSUME PromptAssumption ==
  /\ MaxPrompts \in Nat \ {0} /\ MaxCompactions \in Nat
  /\ SystemTurns \cap 0..MaxPrompts = {}
  /\ LateSteers \in BOOLEAN

Prompts == 1..MaxPrompts
Turns   == Prompts \union SystemTurns
Tasks   == 1..MaxCompactions
None    == 0

VARIABLES
  state,       \* prompt -> PromptState; "new": not submitted
  pending,     \* the FIFO
  active,      \* the prompt whose turn was launched and has not settled
  launching,   \* the prompt startNext() holds; stage: what it awaits for it
  stage,
  steering,    \* steer() calls that await their assignment
  host,        \* steered prompt -> active prompt it was filed under
  relaunch,
  turn,        \* turn -> its state in the loop
  running,     \* activeTurnJob
  queued,      \* pendingTurns
  compacting,  \* fullCompaction.compacting
  worker       \* compaction -> its worker: "none", "live" or "done"

queueVars   == <<state, pending, active, launching, stage>>
steerVars   == <<steering, host>>
loopVars    == <<turn, running, queued>>
compactVars == <<compacting, worker>>
vars == <<queueVars, steerVars, relaunch, loopVars, compactVars>>

Final == {"completed", "failed", "cancelled", "blocked"}
Ended == {"completed", "failed", "cancelled"}
Live  == {"queued", "running", "aborted"}

Init ==
  /\ state = [p \in Prompts |-> "new"] /\ pending = <<>>
  /\ active = None /\ launching = None /\ stage = "none"
  /\ steering = {} /\ host = [p \in Prompts |-> None] /\ relaunch = FALSE
  /\ turn = [t \in Turns |-> "none"] /\ running = None /\ queued = <<>>
  /\ compacting = None /\ worker = [k \in Tasks |-> "none"]

Idle     == running = None
Held     == compacting # None /\ Idle     \* a launch would run into the compaction
Settled(S, s) == [p \in Prompts |-> IF p \in S THEN s ELSE state[p]]

(* Mutants: a withdrawn prompt stays queued, a newcomer overtakes, a launch *)
(* in progress does not count, steered prompts are not the host's.          *)
StaysQueued(S)  == pending
QueuedFirst(p)  == <<p>> \o pending
BusyWhenActive  == active # None
NoChildren(p)   == {}

Without(S)    == Only(pending, Prompts \ S)
QueuedLast(p) == Append(pending, p)
Busy          == active # None \/ launching # None
ChildrenOf(p) == {q \in Prompts : host[q] = p}

-----------------------------------------------------------------------------
(* The loop, as the scheduler uses it. *)

(* enqueue() of a request that opens a turn. *)
OpenTurn(t) ==
  IF Idle THEN /\ turn' = [turn EXCEPT ![t] = "running"]
               /\ running' = t /\ UNCHANGED queued
  ELSE /\ turn' = [turn EXCEPT ![t] = "queued"]
       /\ queued' = Append(queued, t) /\ UNCHANGED running

(* cancel(): a running turn is told to stop, a queued one is over at once. *)
CancelTurn(t) ==
  \/ turn[t] = "running" /\ turn' = [turn EXCEPT ![t] = "aborted"] /\ UNCHANGED <<running, queued>>
  \/ /\ turn[t] = "queued" /\ turn' = [turn EXCEPT ![t] = "cancelled"]
     /\ \E i \in DOMAIN queued : queued[i] = t /\ queued' = RemoveAt(queued, i)
     /\ UNCHANGED running
  \/ turn[t] \notin {"running", "queued"} /\ UNCHANGED loopVars

SystemTurn(t) ==
  /\ ~relaunch /\ turn[t] = "none" /\ OpenTurn(t)
  /\ UNCHANGED <<queueVars, steerVars, relaunch, compactVars>>

(* runTurn() ends: the turn is released and the next one pumped; its result *)
(* is seen by the prompt scheduler only later, in Settle.                   *)
TurnEnds(r) ==
  /\ ~relaunch /\ ~Idle /\ launching # running
  /\ r = "cancelled" => turn[running] = "aborted"
  /\ LET ended == [turn EXCEPT ![running] = r] IN
       IF queued = <<>>
       THEN turn' = ended /\ running' = None /\ UNCHANGED queued
       ELSE /\ turn' = [ended EXCEPT ![Head(queued)] = "running"]
            /\ running' = Head(queued) /\ queued' = Tail(queued)
  /\ UNCHANGED <<queueVars, steerVars, relaunch, compactVars>>

(* cancel() of whatever turn runs. *)
CancelActive ==
  /\ ~relaunch /\ ~Idle /\ turn[running] = "running" /\ CancelTurn(running)
  /\ UNCHANGED <<queueVars, steerVars, relaunch, compactVars>>

-----------------------------------------------------------------------------
(* Full compaction, as the scheduler sees it. *)

(* begin(): manual ones only while the loop is idle, automatic ones from a   *)
(* step of a turn.                                                           *)
BeginCompaction(k) ==
  /\ ~relaunch /\ compacting = None /\ worker[k] = "none"
  /\ compacting' = k /\ worker' = [worker EXCEPT ![k] = "live"]
  /\ UNCHANGED <<queueVars, steerVars, relaunch, loopVars>>

(* Mutant: the end of a compaction does not start the next prompt. *)
FinishQuietly(k) ==
  /\ ~relaunch /\ worker[k] = "live"
  /\ worker' = [worker EXCEPT ![k] = "done"]
  /\ compacting' = (IF compacting = k THEN None ELSE compacting)
  /\ UNCHANGED <<queueVars, steerVars, relaunch, loopVars>>

(* compactionWorker() ends: done, failed, or cancelled before; its finally   *)
(* block fires onDidFinishCompaction.                                        *)
FinishCompaction(k) ==
  /\ ~relaunch /\ worker[k] = "live"
  /\ worker' = [worker EXCEPT ![k] = "done"]
  /\ compacting' = (IF compacting = k THEN None ELSE compacting)
  /\ relaunch' = TRUE
  /\ UNCHANGED <<queueVars, steerVars, loopVars>>

(* cancelActive(): the slot is free before the worker has unwound. *)
CancelCompaction ==
  /\ ~relaunch /\ compacting # None /\ compacting' = None
  /\ UNCHANGED <<queueVars, steerVars, relaunch, loopVars, worker>>

-----------------------------------------------------------------------------
(* Submitting and launching. *)

(* enqueue(): launches only when nothing is active or launching, and not     *)
(* during a compaction of an idle agent.                                     *)
Enqueue(p) ==
  /\ ~relaunch /\ state[p] = "new" /\ \A q \in 1..(p - 1) : state[q] # "new"
  /\ state' = [state EXCEPT ![p] = "pending"] /\ pending' = QueuedLast(p)
  /\ relaunch' = (~Busy /\ ~Held)
  /\ UNCHANGED <<active, launching, stage, steerVars, loopVars, compactVars>>

(* startNext() puts the prompt back and calls itself from finally until the  *)
(* stack is exhausted.  A launch at its end fails the prompt it holds and     *)
(* goes on with the next one, or the error escapes: any number of prompts     *)
(* fails, the others stay.                                                    *)
RunAway ==
  /\ \E n \in 0..Len(pending) :
       /\ state' = Settled(ToSet(SubSeq(pending, 1, n)), "failed")
       /\ pending' = SubSeq(pending, n + 1, Len(pending))
  /\ UNCHANGED <<active, launching, stage>>

StartNext ==
  /\ relaunch /\ relaunch' = FALSE
  /\ IF Busy \/ pending = <<>> THEN UNCHANGED queueVars
     ELSE IF Held THEN RunAway
     ELSE /\ \E p \in Prompts : Head(pending) = p /\ launching' = p
          /\ pending' = Tail(pending) /\ stage' = "hook"
          /\ UNCHANGED <<state, active>>
  /\ UNCHANGED <<steerVars, loopVars, compactVars>>

(* onBeforeSubmitPrompt blocks the prompt, or it or the launch throws. *)
LaunchStops(outcome) ==
  /\ ~relaunch /\ stage = "hook" /\ steering = {}
  /\ state' = Settled({launching}, outcome)
  /\ launching' = None /\ stage' = "none" /\ relaunch' = TRUE
  /\ UNCHANGED <<pending, active, steerVars, loopVars, compactVars>>

(* The hooks let it pass: the loop opens its turn. *)
LaunchOpens ==
  /\ ~relaunch /\ stage = "hook" /\ steering = {}
  /\ OpenTurn(launching) /\ stage' = "assign"
  /\ UNCHANGED <<state, pending, active, launching, steerVars, relaunch, compactVars>>

(* The assignment arrives. *)
Launched ==
  /\ ~relaunch /\ stage = "assign"
  /\ state' = [state EXCEPT ![launching] = "running"]
  /\ active' = launching /\ launching' = None /\ stage' = "none"
  /\ UNCHANGED <<pending, steerVars, relaunch, loopVars, compactVars>>

-----------------------------------------------------------------------------
(* Settling, steering, aborting. *)

(* settle(): the prompt and all steered into it get the turn's outcome.  A   *)
(* steer called before the turn ended has its continuation queued first.     *)
Settle ==
  /\ ~relaunch /\ active # None /\ turn[active] \in Ended
  /\ \A x \in steering : x.late
  /\ state' = Settled({active} \union ChildrenOf(active), turn[active])
  /\ host' = [p \in Prompts |-> IF host[p] = active THEN None ELSE host[p]]
  /\ active' = None /\ relaunch' = TRUE
  /\ UNCHANGED <<pending, launching, stage, steering, loopVars, compactVars>>

(* steer(): the prompts leave the queue first; with no turn running, the     *)
(* loop then throws and nobody holds them any more.                          *)
Steer(S) ==
  /\ ~relaunch /\ active # None /\ S # {} /\ S \subseteq ToSet(pending)
  /\ LateSteers \/ turn[active] \notin Ended
  /\ pending' = Without(S)
  /\ steering' = IF Idle THEN steering
                 ELSE steering \union {[items |-> S, late |-> turn[active] \in Ended]}
  /\ UNCHANGED <<state, active, launching, stage, host, relaunch, loopVars, compactVars>>

(* The rest of steer(), which reads this.active again: if it is gone the     *)
(* call throws after the prompts were marked.                                *)
Steered(x) ==
  /\ ~relaunch
  /\ state' = Settled(x.items, "steered")
  /\ steering' = steering \ {x}
  /\ host' = [p \in Prompts |-> IF p \in x.items THEN active ELSE host[p]]
  /\ UNCHANGED <<pending, active, launching, stage, relaunch, loopVars, compactVars>>

Abort(p) ==
  /\ ~relaunch
  /\ \/ /\ p = active /\ CancelTurn(p) /\ UNCHANGED <<state, pending>>
     \/ /\ p \in ToSet(pending) /\ state' = Settled({p}, "cancelled")
        /\ pending' = Without({p}) /\ UNCHANGED loopVars
  /\ UNCHANGED <<active, launching, stage, steerVars, relaunch, compactVars>>

(* clear(): every pending prompt, then the active one. *)
Clear ==
  /\ ~relaunch
  /\ state' = Settled(ToSet(pending), "cancelled") /\ pending' = <<>>
  /\ IF active = None THEN UNCHANGED loopVars ELSE CancelTurn(active)
  /\ UNCHANGED <<active, launching, stage, steerVars, relaunch, compactVars>>

-----------------------------------------------------------------------------
Callers ==
  \/ \E p \in Prompts : Enqueue(p) \/ Abort(p)
  \/ \E S \in SUBSET Prompts : Steer(S)
  \/ Clear \/ CancelActive \/ CancelCompaction
  \/ \E t \in SystemTurns : SystemTurn(t)
  \/ \E k \in Tasks : BeginCompaction(k)

(* What the event loop, the hooks, the model and the summariser bring about. *)
LaunchSettles == LaunchOpens \/ \E o \in {"blocked", "failed"} : LaunchStops(o)
LoopProceeds  == \E r \in Ended : TurnEnds(r)
SteerProceeds == \E x \in steering : Steered(x)
WorkerEnds(k) == FinishCompaction(k)

Next ==
  \/ Callers \/ StartNext \/ LaunchSettles \/ Launched \/ LoopProceeds
  \/ SteerProceeds \/ Settle \/ \E k \in Tasks : WorkerEnds(k)

Spec == Init /\ [][Next]_vars

(* A microtask runs; hooks, turns and summaries come to an end. *)
Fairness ==
  /\ WF_vars(StartNext) /\ WF_vars(LaunchSettles) /\ WF_vars(Launched)
  /\ WF_vars(LoopProceeds) /\ WF_vars(SteerProceeds) /\ WF_vars(Settle)
  /\ \A k \in Tasks : WF_vars(WorkerEnds(k))

FairSpec == Spec /\ Fairness

-----------------------------------------------------------------------------
(* Every variable holds the kind of value the code gives it. *)
TypeOK ==
  /\ state \in [Prompts -> {"new", "pending", "running", "steered"} \union Final]
  /\ pending \in Seq(Prompts) /\ IsInjective(pending)
  /\ active \in Prompts \union {None} /\ launching \in Prompts \union {None}
  /\ stage \in {"none", "hook", "assign"} /\ (stage = "none" <=> launching = None)
  /\ steering \subseteq [items : SUBSET Prompts, late : BOOLEAN]
  /\ host \in [Prompts -> Prompts \union {None}] /\ relaunch \in BOOLEAN
  /\ turn \in [Turns -> {"none"} \union Live \union Ended]
  /\ running \in Turns \union {None} /\ queued \in Seq(Turns)
  /\ compacting \in Tasks \union {None}
  /\ worker \in [Tasks -> {"none", "live", "done"}]

InSteer == UNION {x.items : x \in steering}

(* No prompt is forgotten: one that was accepted and has no outcome is in    *)
(* exactly one place that will settle it - the queue, the launch in          *)
(* progress, the active slot, a steer() under way, or the active prompt's    *)
(* list of steered ones.                                                     *)
NobodyLost ==
  \A p \in Prompts : state[p] \notin {"new"} \union Final =>
    Cardinality({w \in {"pending", "launching", "active", "steer", "host"} :
      CASE w = "pending"   -> p \in ToSet(pending)
        [] w = "launching" -> launching = p
        [] w = "active"    -> active = p
        [] w = "steer"     -> p \in InSteer
        [] w = "host"      -> host[p] # None /\ host[p] = active}) = 1

(* Prompts are serialised: no two of them have a turn queued or running in   *)
(* the loop, whatever other turns, steers and compactions do.                *)
OneTurnAtATime ==
  \A p, q \in Prompts : turn[p] \in Live /\ turn[q] \in Live => p = q

(* First come, first served: a prompt's turn opens only when no earlier      *)
(* prompt still waits, also after launches were put back.                    *)
InOrder ==
  [][\A p \in Prompts : turn[p] = "none" /\ turn'[p] # "none" =>
       \A q \in 1..(p - 1) : q \notin ToSet(pending)]_vars

(* An outcome is final: a prompt reported completed, failed, cancelled or    *)
(* blocked is never launched, steered or reported again.                     *)
OutcomeIsFinal ==
  [][\A p \in Prompts : state[p] \in Final =>
       /\ state'[p] = state[p]
       /\ launching' = p => launching = p]_vars

(* A prompt that a caller submitted settles in the end: deferred by a        *)
(* compaction, queued behind others or steered into a turn, its completion   *)
(* promise resolves.                                                         *)
EveryPromptSettles ==
  \A p \in Prompts : state[p] = "pending" ~> state[p] \in Final
=============================================================================
