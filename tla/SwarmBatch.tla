----------------------------- MODULE SwarmBatch -----------------------------
(***************************************************************************)
(* The scheduler of one swarm of subagents: AgentRunBatch.  A burst and a  *)
(* throttle launch the tasks; the first rate limit of the provider changes *)
(* the mode for good, and from then on a learned capacity, a global pace   *)
(* and a backoff per task decide who may start.                            *)
(*                                                                         *)
(* Points in time are kept as the time left until them; Tick lets one unit *)
(* pass.  A timer that is due fires at any later moment.  `due` marks a    *)
(* stretch of code that still has to run schedule().                       *)
(***************************************************************************)
EXTENDS Integers, Sequences, SequencesExt, FiniteSets, FiniteSetsExt

CONSTANTS
  Tasks,
  MaxConcurrency,  \* cap of the launch ramp
  LaunchLimit,     \* INITIAL_LAUNCH_LIMIT
  LaunchInterval,  \* INITIAL_LAUNCH_INTERVAL_MS
  RetryBase,       \* RATE_LIMIT_RETRY_BASE_MS
  ShrinkInterval,  \* RATE_LIMIT_CAPACITY_SHRINK_INTERVAL_MS
  RecoverInterval, \* RATE_LIMIT_CAPACITY_RECOVERY_INTERVAL_MS
  MaxRateLimits    \* bound: how often the provider refuses

ASSUME SwarmAssumption ==
  /\ IsFiniteSet(Tasks) /\ Tasks # {}
  /\ {MaxConcurrency, LaunchLimit, LaunchInterval} \subseteq Nat \ {0}
  /\ {RetryBase, ShrinkInterval, RecoverInterval} \subseteq Nat \ {0}
  /\ MaxRateLimits \in Nat

VARIABLES
  pending,      \* tasks to launch, in order
  active,       \* tasks whose attempt the batch still counts
  attempt,      \* task -> its last attempt: "none", "launching" or "running"
  ready,        \* tasks whose active attempt reported onReady
  results,      \* task -> its result, "none" yet
  known,        \* tasks with an agent: agentId
  started,      \* tasks that were ready once
  retryCount,   \* task -> its rate limits
  rateLimitMode, startedSuccessCount, rateLimitCapacity, normalLaunchCount,
  globalRetryInterval,
  untilRetry,   \* task -> time to retryReadyAt
  untilLaunch,  \* time to nextRateLimitLaunchAt
  untilShrink,  \* time in which the capacity does not shrink again
  untilRecover, \* time to the next recovery of the capacity
  normalTimer, rateLimitTimer, \* time to their firing, or Unset
  due,
  finished,     \* "no", "done", "cancelled" or "failed"
  returned      \* what run() resolved with

tasksVars == <<pending, active, attempt, ready, results, known, started>>
modeVars  == <<rateLimitMode, startedSuccessCount, rateLimitCapacity, normalLaunchCount>>
paceVars  == <<retryCount, globalRetryInterval, untilRetry, untilLaunch, untilShrink, untilRecover>>
timerVars == <<normalTimer, rateLimitTimer>>
endVars   == <<finished, returned>>
vars == <<tasksVars, modeVars, paceVars, timerVars, due, endVars>>

Unset == -1
Nobody == [t \in Tasks |-> "none"]

Smaller(a, b) == IF a <= b THEN a ELSE b
Larger(a, b)  == IF a >= b THEN a ELSE b

Init ==
  /\ pending = SetToSeq(Tasks) /\ active = {} /\ attempt = Nobody /\ ready = {}
  /\ results = Nobody /\ known = {} /\ started = {}
  /\ rateLimitMode = FALSE /\ startedSuccessCount = 0 /\ rateLimitCapacity = 1
  /\ normalLaunchCount = 0
  /\ retryCount = [t \in Tasks |-> 0] /\ globalRetryInterval = RetryBase
  /\ untilRetry = [t \in Tasks |-> 0] /\ untilLaunch = 0 /\ untilShrink = 0
  /\ untilRecover = 0
  /\ normalTimer = Unset /\ rateLimitTimer = Unset
  /\ due = TRUE /\ finished = "no" /\ returned = Nobody

AtConcurrencyLimit == Cardinality(active) >= MaxConcurrency
OthersDone(t) == \A u \in Tasks \ {t} : results[u] # "none"

-----------------------------------------------------------------------------
(* Launching *)

(* The task at one place of the queue leaves it and starts. *)
StartAttempt(i) ==
  /\ active' = active \union {pending[i]}
  /\ attempt' = [attempt EXCEPT ![pending[i]] = "launching"]
  /\ pending' = RemoveAt(pending, i)
  /\ UNCHANGED <<ready, results, known, started>>

CountLaunch == normalLaunchCount' = Smaller(normalLaunchCount + 1, LaunchLimit)

(* finish(), fail() and their cleanup(). *)
Finish(how, report) ==
  /\ finished' = how /\ returned' = report /\ due' = FALSE
  /\ active' = {} /\ normalTimer' = Unset /\ rateLimitTimer' = Unset
  /\ UNCHANGED <<pending, attempt, ready, results, known, started, modeVars, paceVars>>

(* scheduleNormalLaunch(): one pass of its loop, or the timer behind it. *)
NormalLaunch ==
  IF normalLaunchCount < LaunchLimit /\ pending # <<>> /\ ~AtConcurrencyLimit
  THEN /\ StartAttempt(1) /\ CountLaunch
       /\ UNCHANGED <<rateLimitMode, startedSuccessCount, rateLimitCapacity,
                      paceVars, timerVars, due, endVars>>
  ELSE /\ due' = FALSE
       /\ normalTimer' = IF pending = <<>> \/ normalTimer # Unset \/ AtConcurrencyLimit
                         THEN normalTimer ELSE LaunchInterval
       /\ UNCHANGED <<tasksVars, modeVars, paceVars, rateLimitTimer, endVars>>

(* Mutant: any pending task will do. *)
AlwaysRipe(t) == TRUE

Ripe(t) == untilRetry[t] = 0
NextRetry(queue) == Min({untilRetry[u] : u \in ToSet(queue)})

(* scheduleNextRateLimitWakeup(), after a launch at the given capacity. *)
WakeAfterLaunch(queue, capacity, recover) ==
  IF queue = <<>> THEN Unset
  ELSE IF Cardinality(active) + 1 >= capacity THEN recover
  ELSE Smaller(Larger(globalRetryInterval, NextRetry(queue)), recover)

(* scheduleRateLimitLaunch(): recover the capacity if its time has come,     *)
(* then launch the first task whose backoff is over, or set the timer.       *)
RateLimitLaunch ==
  LET recovers == pending # <<>> /\ untilRecover = 0
      capacity == IF recovers THEN rateLimitCapacity + 1 ELSE rateLimitCapacity
      recover  == IF recovers THEN RecoverInterval ELSE untilRecover
      launch   == IF recovers THEN 0 ELSE untilLaunch
      wakeup   == Smaller(Larger(launch, NextRetry(pending)), recover)
      first(i) == Ripe(pending[i]) /\ \A j \in 1..(i - 1) : ~Ripe(pending[j])
  IN /\ due' = FALSE /\ rateLimitCapacity' = capacity /\ untilRecover' = recover
     /\ IF pending = <<>>
        THEN rateLimitTimer' = Unset /\ UNCHANGED <<tasksVars, untilLaunch>>
        ELSE IF Cardinality(active) >= capacity
        THEN /\ rateLimitTimer' = recover
             /\ untilLaunch' = launch /\ UNCHANGED tasksVars
        ELSE IF wakeup > 0 \/ \A i \in DOMAIN pending : ~Ripe(pending[i])
        THEN /\ rateLimitTimer' = IF wakeup > 0 THEN wakeup ELSE Unset
             /\ untilLaunch' = launch /\ UNCHANGED tasksVars
        ELSE /\ \E i \in DOMAIN pending : first(i) /\ StartAttempt(i)
             /\ untilLaunch' = globalRetryInterval
             /\ rateLimitTimer' = WakeAfterLaunch(pending', capacity, recover)
     /\ UNCHANGED <<rateLimitMode, startedSuccessCount, normalLaunchCount, retryCount,
                    globalRetryInterval, untilRetry, untilShrink, normalTimer, endVars>>

(* schedule() *)
Schedule ==
  /\ due /\ finished = "no"
  /\ IF \A t \in Tasks : results[t] # "none" THEN Finish("done", results)
     ELSE IF rateLimitMode THEN RateLimitLaunch
     ELSE NormalLaunch

NormalTimerFires ==
  /\ ~due /\ normalTimer = 0 /\ normalTimer' = Unset
  /\ IF pending = <<>> \/ AtConcurrencyLimit
     THEN UNCHANGED <<tasksVars, normalLaunchCount, due>>
     ELSE StartAttempt(1) /\ CountLaunch /\ due' = TRUE
  /\ UNCHANGED <<rateLimitMode, startedSuccessCount, rateLimitCapacity, paceVars,
                 rateLimitTimer, endVars>>

RateLimitTimerFires ==
  /\ ~due /\ rateLimitTimer = 0 /\ rateLimitTimer' = Unset /\ due' = TRUE
  /\ UNCHANGED <<tasksVars, modeVars, paceVars, normalTimer, endVars>>

-----------------------------------------------------------------------------
(* The attempts. *)

(* The launcher hands over the agent. *)
Handled(t) ==
  /\ ~due /\ attempt[t] = "launching" /\ attempt' = [attempt EXCEPT ![t] = "running"]
  /\ known' = known \union {t}
  /\ UNCHANGED <<pending, active, ready, results, started, modeVars, paceVars, timerVars,
                 due, endVars>>

(* markAttemptReady(): in rate-limit mode a success resets the pace. *)
MarkAttemptReady(t) ==
  /\ ~due /\ t \in active \ ready
  /\ ready' = ready \union {t} /\ started' = started \union {t}
  /\ IF rateLimitMode
     THEN /\ globalRetryInterval' = RetryBase /\ untilLaunch' = RetryBase /\ due' = TRUE
          /\ UNCHANGED startedSuccessCount
     ELSE /\ startedSuccessCount' = startedSuccessCount + 1
          /\ UNCHANGED <<globalRetryInterval, untilLaunch, due>>
  /\ UNCHANGED <<pending, active, attempt, results, known, rateLimitMode, rateLimitCapacity,
                 normalLaunchCount, retryCount, untilRetry, untilShrink, untilRecover,
                 timerVars, endVars>>

(* Mutants: late attempts still count; only attempts that got ready count. *)
CountsForever(t)  == TRUE
CountsIfReady(t)  == t \in active /\ t \in ready

Counts(t) == t \in active

(* The attempt's promise settles; releaseAttempt() counts it only once. *)
Released(t) ==
  /\ ~due /\ attempt[t] # "none" /\ attempt' = [attempt EXCEPT ![t] = "none"]
  /\ active' = active \ {t} /\ ready' = ready \ {t} /\ UNCHANGED <<known, started>>

(* handleAttemptOutcome() and handleAttemptError(): an answer, a failure or  *)
(* a timeout.  After the end the attempt no longer counts.                   *)
Answer(t, outcome) ==
  /\ Released(t)
  /\ attempt[t] = "launching" => outcome = "failed"
  /\ results' = IF Counts(t) THEN [results EXCEPT ![t] = outcome] ELSE results
  /\ due' = Counts(t)
  /\ UNCHANGED <<pending, modeVars, paceVars, timerVars, endVars>>

(* shrinkRateLimitCapacity() from the given capacity. *)
Shrunk(capacity) == Larger(1, capacity - 1)

(* enterRateLimitMode() *)
EnterRateLimitMode ==
  /\ rateLimitMode' = TRUE /\ normalTimer' = Unset
  /\ IF ~rateLimitMode
     THEN /\ rateLimitCapacity' = Shrunk(Larger(1, startedSuccessCount))
          /\ untilShrink' = ShrinkInterval
     ELSE IF untilShrink = 0
     THEN rateLimitCapacity' = Shrunk(rateLimitCapacity) /\ untilShrink' = ShrinkInterval
     ELSE UNCHANGED <<rateLimitCapacity, untilShrink>>

(* Mutant: the refused task is not put back. *)
Forgotten(t) == pending

Requeued(t) == <<t>> \o pending

(* A refusal: the last unfinished task fails, any other is requeued behind   *)
(* its backoff.  The attempt's wish to start again slows everyone down.      *)
RateLimited(t) ==
  /\ Released(t) /\ attempt[t] = "running" /\ Counts(t)
  /\ FoldSet(LAMBDA u, n : retryCount[u] + n, 0, Tasks) < MaxRateLimits
  /\ due' = TRUE
  /\ IF OthersDone(t)
     THEN results' = [results EXCEPT ![t] = "failed"]
          /\ UNCHANGED <<pending, modeVars, paceVars, timerVars>>
     ELSE LET delay == RetryBase * 2^retryCount[t]
              pace  == Larger(globalRetryInterval * 2, delay)
          IN /\ pending' = Requeued(t) /\ EnterRateLimitMode
             /\ retryCount' = [retryCount EXCEPT ![t] = @ + 1]
             /\ untilRetry' = [untilRetry EXCEPT ![t] = delay]
             /\ untilRecover' = RecoverInterval
             /\ globalRetryInterval' = IF t \in ready THEN globalRetryInterval ELSE pace
             /\ untilLaunch' = Larger(untilLaunch, IF t \in ready THEN RetryBase ELSE pace)
             /\ UNCHANGED <<results, startedSuccessCount, normalLaunchCount, rateLimitTimer>>
  /\ UNCHANGED endVars

(* What a user's cancellation reports of a task. *)
Report == [t \in Tasks |->
  IF results[t] # "none" THEN results[t]
  ELSE IF t \in started \union known THEN "aborted" ELSE "not_started"]

(* The batch signal: the user's cancellation reports every task, any other   *)
(* reason rejects.                                                           *)
Abort(how) ==
  /\ finished = "no"
  /\ due => normalLaunchCount = 0
  /\ Finish(how, IF how = "cancelled" THEN Report ELSE Nobody)

Less(n) == IF n > 0 THEN n - 1 ELSE n

Tick ==
  /\ ~due /\ finished = "no"
  /\ normalTimer' = Less(normalTimer) /\ rateLimitTimer' = Less(rateLimitTimer)
  /\ untilRetry' = [t \in Tasks |-> Less(untilRetry[t])]
  /\ untilLaunch' = Less(untilLaunch) /\ untilShrink' = Less(untilShrink)
  /\ untilRecover' = Less(untilRecover)
  /\ UNCHANGED <<tasksVars, modeVars, retryCount, globalRetryInterval, due, endVars>>

Results == {"completed", "failed"}
Ends(t) == RateLimited(t) \/ \E outcome \in Results : Answer(t, outcome)

Next ==
  \/ Schedule \/ NormalTimerFires \/ RateLimitTimerFires \/ Tick
  \/ \E t \in Tasks : Handled(t) \/ MarkAttemptReady(t) \/ Ends(t)
  \/ \E how \in {"cancelled", "failed"} : Abort(how)

Spec == Init /\ [][Next]_vars

(* Time passes, timers fire, launchers and agents answer in the end. *)
Fairness ==
  /\ WF_vars(Schedule) /\ WF_vars(NormalTimerFires) /\ WF_vars(RateLimitTimerFires)
  /\ WF_vars(Tick)
  /\ \A t \in Tasks : WF_vars(Handled(t)) /\ WF_vars(Ends(t))

FairSpec == Spec /\ Fairness

-----------------------------------------------------------------------------
(* Every variable holds the kind of value the code gives it. *)
TypeOK ==
  /\ pending \in Seq(Tasks) /\ active \subseteq Tasks /\ ready \subseteq Tasks
  /\ attempt \in [Tasks -> {"none", "launching", "running"}]
  /\ results \in [Tasks -> Results \union {"none"}]
  /\ known \subseteq Tasks /\ started \subseteq Tasks
  /\ rateLimitMode \in BOOLEAN /\ due \in BOOLEAN
  /\ startedSuccessCount \in Nat /\ rateLimitCapacity \in Nat \ {0}
  /\ normalLaunchCount \in 0..LaunchLimit
  /\ retryCount \in [Tasks -> Nat] /\ untilRetry \in [Tasks -> Nat]
  /\ {globalRetryInterval, untilLaunch, untilShrink, untilRecover} \subseteq Nat
  /\ {normalTimer, rateLimitTimer} \subseteq Nat \union {Unset}
  /\ finished \in {"no", "done", "cancelled", "failed"}
  /\ returned \in [Tasks -> Results \union {"none", "aborted", "not_started"}]

(* No task slips through and none runs twice: while the batch runs, a task   *)
(* has a result, waits in the queue once, or has its one active attempt,     *)
(* however refusals, timers and answers interleave.                          *)
TasksAccountedFor ==
  finished = "no" =>
    \A t \in Tasks :
      LET queued == Cardinality({i \in DOMAIN pending : pending[i] = t}) IN
      queued + (IF t \in active THEN 1 ELSE 0) + (IF results[t] # "none" THEN 1 ELSE 0) = 1

(* Launches are paced: the ramp never exceeds its cap, and once the provider *)
(* refused, no launch exceeds the capacity learned, repeats a refused task   *)
(* before its backoff is over, or follows another one within the pace.       *)
LaunchesArePaced ==
  [][\A t \in Tasks : t \in active' \ active =>
       IF rateLimitMode
       THEN /\ Cardinality(active') <= rateLimitCapacity'
            /\ untilRetry[t] = 0 /\ (untilLaunch = 0 \/ untilRecover = 0)
       ELSE Cardinality(active') <= MaxConcurrency]_vars

(* What the caller got is final: after the batch returned, late answers of   *)
(* attempts that go on change nothing and no attempt starts.                 *)
ReturnedIsFinal ==
  [][finished # "no" => UNCHANGED <<finished, returned, results, active>>]_vars

(* The batch comes to an end if attempts do: no mode, timer or capacity      *)
(* leaves a queued task without a launch to come.                            *)
BatchEnds == <>(finished # "no")
=============================================================================
