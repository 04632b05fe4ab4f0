# Verification of the Kimi Code agent engine

TLA+ models, TLC runs and TLAPS proofs for the parts of this repository where
order, concurrency and failure decide whether the program is right: the turn
loop, the tool executor, the prompt scheduler, the swarm scheduler, the wire and
the append log of `packages/agent-core-v2`, and the embedded database
`packages/minidb`.

## 1. The system

The repository is a coding agent. A front end (`apps/*`) talks over a protocol
(`packages/kap-server`, `klient`, `acp-adapter`, `node-sdk`) to the engine
`packages/agent-core-v2`, which is built from services in three scopes.

| Scope | Component | State it keeps | Operations | Correct when |
| --- | --- | --- | --- | --- |
| agent | turn loop (`agent/loop`) | active and waiting turns, one step queue per turn, the standalone queue, reserved turn ids | enqueue with four admissions, cancel of turns, steps and requests, settled, dispose, the run itself | turns run one at a time and in order; no request is lost or runs twice; a cancelled turn starts nothing; every turn ends; ids stay unique over a restart |
| agent | step retry (`agent/stepRetry`) | attempts of the failing step | recover, reset | a retry never begins after a cancel, and a cancelled step spares its turn |
| agent | tool executor and scheduler (`agent/toolExecutor`, `agent/loop/toolScheduler`) | one batch: tasks, running bodies, results | preflight, schedule, abort with a grace period, finalize, drain | clashing bodies never overlap and keep their order; nothing runs behind a stop; the batch ends |
| agent | tool accesses (`tool/toolContract`) | none | the conflict test | it answers yes exactly when a file may be changed by one and touched by the other |
| agent | prompt service (`agent/prompt`) | active prompt, pending prompts, steered ones | enqueue, steer, abort, clear, launch, settle | every prompt reaches one outcome, in order, however it is steered or aborted |
| agent | wire (`wire`) | models, dispatch queue, persist queue | dispatch, restore, flush | the journal replays to the models' state |
| app | append log (`persistence/backends/node-fs`) | per log: pending records, flush owner, cut-over epoch, sticky failure | append, rewrite, read, flush, acquire, release | accepted records are on disk once and in order, or the failure is reported |
| agent | tasks (`agent/task`) | task table, notifications | register, detach, stop, restore | each background task ends in one status and is reported once |
| agent | full compaction, goals | a running summary; a goal's status | begin, cancel, apply; status changes | no message is lost; one owner at a time |
| session | interactions, approvals, questions | parked requests | park, respond, cancel for a turn | every parked request is answered |
| session | swarm batch (`session/swarm`) | pending, active, suspended runs; learned capacity | launch, retry, time out, abort | all runs settle, within the limits |
| session | agent lifecycle, session lifecycle | handles, phases | create, resume, remove, close | a removed agent is quiet |
| session | cron | timers, due tasks | schedule, fire, restore | no tick is lost or fired twice |
| library | MiniDb (`packages/minidb`) | store, write-ahead log, snapshot, rotation lock | set, del, batch, compact, open | what was acknowledged survives a crash; batches are atomic; memory is what the files say |
| library | MiniDb lock file | lock, watch, bid files | acquire, take over, release | one writer per directory |

How they interact. The prompt service, the tasks, the goals and cron only ever
*enqueue step requests* in the loop; a step asks the model and hands the tool
calls of its answer to the executor as one batch; the executor's tools park
interactions and start tasks. State changes go through the wire, which applies
an op to its models and appends a record to the append log. MiniDb stands beside
this and is used by the services as a store.

What is hard. JavaScript runs one synchronous stretch at a time, so every
`await` is a point where anything else may happen: a request may be withdrawn
while it waits, while its step runs, while a retry backs off, or in the microtask
after it finished; several aborts (request, step, turn, disposal) race each
other. The executor adds real overlap of tool bodies and timers. MiniDb adds
crashes, partial writes and a rotation of two files under running writers.
`PROJECT.json` lists the hazards line by line, with the property that watches
each one.

## 2. The modules

| Module | Models |
| --- | --- |
| `ToolAccesses` | the conflict test on declared accesses, and the reference definition `Clash` on files |
| `ToolExecutor` | `ToolExecutor.execute` for one batch, with `ToolScheduler` and the abort grace |
| `AgentLoop` | `AgentLoopService` with `StepRequestQueue`, the loop-continuation hook, `stepRetry`, and a restart that rebuilds the turn counter |
| `Prompt` | `AgentPromptService` over the part it sees of the loop (who runs, who waits) and of full compaction (which task runs) |
| `SwarmBatch` | `AgentRunBatch`: both modes of launching, timers, refusals, cancellation |
| `Journal` | abstract: what an append log promises its callers |
| `AppendLog` | one key of `AppendLogStore` over `FileStorageService`: buffers, flush chains, rewrites, the file |
| `AgentWire` | creation and removal of an agent with its `WireService` (seal, restore, dispatch, persist queue, flush), on top of `Journal` |
| `KvData` | contents of a database, effects of calls, replay of a log |
| `DurableKv` | abstract: what a durable key-value store promises (a safe part, a tail a crash may cut, effects that are all or nothing) |
| `MiniDb` | the write path, group commit, compaction, crashes and recovery of one database |
| `MC_*` | instances for TLC; `MC_PromptDeferred` adds a history variable |
| `Queues` | filtering a queue by membership (`Only`), as a recursive function |
| `SequenceFacts` | lemmas on sequences, queues without repetitions, filters and numbered records that the proofs share |
| `ToolExecutorProofs`, `AgentLoopProofs`, `AgentWireProofs`, `AppendLogProofs`, `PromptProofs`, `SwarmBatchProofs`, `MiniDbProofs` | the theorems (those on the conflict test are in `ToolExecutorProofs`, those on replay in `MiniDbProofs`) |

`ToolExecutor` extends `ToolAccesses`; `MiniDb` extends `KvData` and instantiates
`DurableKv` (`Kv`, with `safeNow`, `tailNow`, `callsNow` as the refinement
mapping). `AppendLog` instantiates `Journal` (`J`: the history is what is on disk
and waits in no buffer, the tail what waits in the buffers that still matter), and
`AgentWire` extends `Journal`: the wire is checked against what the log promises, the
log against its buffers and its file. The loop and the executor are not composed: a batch is inside the loop
one step that finishes, fails or is aborted, and what the loop relies on (it ends,
and nothing of it runs on) is what `EndsQuiet` and `AbortEndsBatch` say.

Correspondence with the code (line by line in `map`):

* **ToolExecutor.** `status` follows a call through the scheduler (`unseen`,
  `prepared`, `queued`, `active`, `settled`, `finished`), `body` is the tool's own
  execution, which the scheduler may forget (grace) before it ends, `out` is the
  finalization and the result stream. Preparation takes calls in order and awaits
  hooks between them; `ExecuteBatch` submits the whole batch in one stretch;
  `Finish` removes a task and starts what it held back. Lists of accesses are
  chosen freely from `AccessLists`; the paths are sequences of segments under a
  case folding.
* **AgentLoop.** `pc` is where `runTurn` and `run` stand between awaits: `idle`,
  `hooks` (before the request materializes), `llm`, `after` (after-step hooks),
  `recovering` (error handler and backoff), `returned`; `pump` and `begin` are
  points of a synchronous stretch at which nothing else is enabled. Every sender,
  cancel and abort is an action of its own. Cancelled queued turns consume an id
  without a record, as in the code, which is what the restart has to cope with.
* **MiniDb.** A call is gated (waits for the rotation lock), passed, committed
  (append and apply in one stretch), possibly bounced (the append was refused),
  parked (waits for its one retry), and acknowledged, failed or lost in a crash.
  `Quiet` says that promise jobs run before the next I/O completes: the
  compaction's and the log's asynchronous steps need it. Frames are call numbers;
  a value is the number of the call that wrote it. A batch may land frame by frame;
  an I/O error may strike at any length. `unsynced` keeps what a power loss
  between a rename and the directory sync may bring back.
* **AppendLog.** `bufs` are the `LogState`s the key has had; `chain` is what hangs on
  a buffer's `flushPromise`: a drain, and behind it the rewrites that took the promise
  over. `stage` is where the head of the chain awaits; `NoJobLeft` says that promise
  jobs run before a storage call that ended is taken up. A line of the file is a
  record, an unfinished last line, or one glued to an unfinished one.
* **AgentWire.** The models' state is the sequence of ops applied; an op is its record.
  `phase` follows `create` through seal, read, migration and readiness; `queue` is the
  persist queue, whose head may wait for its blobs, also after the agent is disposed.
  The log is `Journal`, with a crash, a failure, and the end of a failed buffer.
* **Prompt.** A synchronous stretch is one action; `relaunch` marks a stretch that still
  has to call `startNext()`. `launching` and `stage` say what `startNext` awaits (the
  hooks, then the assignment); `steering` are the calls of `steer()` that await theirs;
  `host` is the prompt they were filed under. A prompt opens at most one turn, so turns
  go by their prompt's name; `SystemTurns` are those of other services. `RunAway` is the
  recursion of `startNext` described below.
* **SwarmBatch.** A point in time is the time left until it; `Tick` lets one unit pass.
  `due` marks a stretch that still runs `schedule()`. `attempt` outlives `active`: an
  attempt the batch no longer counts goes on and may answer late. A timeout is an
  attempt that fails. The concurrency cap holds only during the ramp, as
  `env-vars.md:128` says; in rate-limit mode the learned capacity decides.

## 3. The runs

| Run | Bounds | Shows |
| --- | --- | --- |
| `tool_executor` | 3 calls; a directory, a file below it, two spellings | no overlap of clashing bodies, provider order, nobody waits without a clash, a stop is final, the batch ends quietly, an abort ends it |
| `agent_loop` | 3 requests, 2 steps per turn, 2 attempts | types, order of turns, no request lost or doubled, nothing withdrawn drives a step, ended turns leave nothing alive, tool results are consumed, no step after a cancel |
| `agent_loop_live` | 2 requests, 3 steps, 2 attempts, `settled()` | every turn ends and `settled()` resolves |
| `agent_loop_restart` | 3 requests in each of two processes, 1 crash | ids on the wire are never given again |
| `mini_db` | 3 calls (set, delete, two-key batch) on 2 keys, 1 compaction that may fail at every phase, 1 crash; with and without unique indexes and fsync | refinement of `DurableKv`, memory agrees with log, no append to an unopened WAL, types |
| `mini_db_rollback` | 3 calls, 1 failed batch, 1 failed compaction, writers serialised | a failed write leaves no trace, every call settles |
| `append_log` | 3 records, 2 rewrites, 2 buffers, 1 crash, failing appends and rewrites | refinement of `Journal`: every record once and in order, promises kept, a failure stops the log; nobody is forgotten, flushes end |
| `agent_wire` | 3 records, 2 agents one after the other, 1 crash, 1 failure, blobs that fail, an old journal or none | the journal is what the models saw; promised records are in every later replay; flushes end |
| `prompt` | 3 prompts, 1 turn of another service, 2 compactions | nobody is lost, one turn at a time, in order, outcomes final, every prompt settles |
| `swarm` | 3 tasks, cap 2, ramp of 2, 2 refusals | no task lost or doubled, launches paced, the return value final, the batch ends |
| `append_log_torn` | the same log, torn lines | violated: see below |
| `prompt_deferred` | 2 prompts, 2 compactions | violated: see below |

Why these bounds are enough. Three calls are the least with a conflict, a
bystander and something queued behind both; three requests give an active turn, a
waiting turn and one that is merged, withdrawn or left over. Two attempts give one
retry and one exhaustion, two steps one continuation and the step limit. For
MiniDb one key that everybody writes and one that only a batch writes are what
tells a torn batch from a whole one; three calls can lie before, within and behind
one rotation; one rotation and one crash meet in each of their phases. (The overtaking
delete below takes four; the theorems cover it.) A second
compaction repeats the first from a state the first one also starts from
(a snapshot and a log). Three records are one on disk, one in flight and one behind
it; two rewrites one that overtakes a drain and one that overtakes a rewrite; two
buffers a retired one and its successor, which waits for nothing older. Two agents
are one whose queue is still draining and one that replays. Three prompts are the
active one, one being steered or launched and one that waits; two compactions one
that was cancelled but not unwound and its successor. With three tasks, a cap of two
and two refusals the capacity shrinks, recovers and is reached, and a task is refused
twice or two of them once. Each mutant in `PROJECT.json` shows its bound to be
sufficient for one plausible bug.

`CHECK_DEADLOCK FALSE`: every component stops once its bounded calls are used
up; progress is what the liveness properties are for.

### Fairness

`ToolExecutor`: promise jobs, the grace timer and awaited hooks run; a tool's body
need not ever end and nobody need abort. `AgentLoop`: the loop's own steps run, in
which the provider and the tools answer, fail or notice an abort (they have
timeouts, and the executor's end is `AbortEndsBatch`). `MiniDb`: promise jobs run and
I/O completes, well or badly. `AppendLog`: promise jobs run and storage answers, well
or badly. `AgentWire`: the same, blobs are offloaded or fail, and a removed agent's loop
settles. `Prompt`: hooks, turns, summaries and assignments end (`TurnsEnd` of the loop is
what entitles it to the second). `SwarmBatch`: time passes, timers fire, launchers and
agents answer (each attempt has a timeout). Nothing is assumed of senders, cancellers, crashes.
The event loop justifies weak fairness: a job that is ready is eventually run.

### Disagreements between code and documentation

Two are runs expected to be violated:

* `append_log_torn`: an append goes right behind an unfinished last line, which makes
  the line neither last nor readable: the log throws from then on, although
  `appendLogStore.ts:7-8` says that a torn final line is dropped.
* `prompt_deferred`: `startNext()` that meets a compaction of an idle agent puts its
  prompt back, and its `finally` calls it again before any await
  (`promptService.ts:196`): it recurses until the stack is exhausted and then fails the
  prompt, although `fullCompaction.test.ts:2965` says that it is deferred and replayed.
  It takes a prompt that waits behind a turn while a compaction runs. `Prompt` has
  this as `RunAway`, with any number of prompts failed.

Others were met while modelling. The models have the behaviour and the properties
make room for it; no run is kept for them:

* The end of a turn aborts the steers still queued, although
  `stepRequestQueue.ts:11-13` says they carry into the next turn (`ReturnRun`).
* A step cancelled during its retry backoff fails its turn, where a step cancelled at
  any other await spares it (`RecoverFails`).
* A hook that throws before the continuation hook keeps the model from seeing the tool
  results (`Continues`; `ToolResultsConsumed` excepts it).
* After `dispose()` a caller of `settled()` waits for ever (`SettledResolves` excepts it).
* Two writes of one key that fail in one WAL batch leave the first one's value in
  memory, although `index.ts:741-743` promises that memory never diverges from what is
  durable: the seq guard of `restoreKey` skips the first rollback and the second restores
  what it saw. With a unique index writers are serialised and the property holds
  (`mini_db_rollback`).
* The snapshot phase copies a value whose frame is in flight; when that frame fails,
  memory is rolled back and the snapshot is not, so its rename makes a failed write
  durable.
* Two writers of one key that meet the seal of a rotation together roll each other back:
  the first restores what it replaced, the second finds the record changed and keeps it,
  or restores the first one's effect. Until both were retried memory shows an effect that
  is in no log, and a `del()` that waited at the gate may answer `false` by it
  (`index.ts:773`) although the key's acknowledged value is still in force; the comment at
  `index.ts:567-569` has the roll back complete. The proof of `PromiseIsKept` found it,
  with four calls; `DurableKv` allows such a delete to overtake the one it saw
  (`FindsNothing`), which is the order in which they then take effect.

Three options of the modules turn on what no caller does today, or does only in a
window of a few promise jobs; with them the named property fails in TLC:

* `LateSteers` (`Prompt`): a steer between the end of a turn and its settlement. Its
  prompts are lost or settle with another turn (`NobodyLost`).
* `Overlap` (`AgentWire`): an agent is created again while the removed one still
  offloads (`JournalIsModel`). A session resumed while it closes would do it:
  `sessionLifecycleService.ts:287-288` forgets it before its agents are drained.
* `RewriteEarly` (`AppendLog`): a rewrite on a new buffer while the retired one drains
  replaces records in flight (`KeepsJournal`).

`KeepsPromise` and `MemoryIsLog` are therefore checked without failed batches:
with one, the abstract store would have to lose part of its tail, which is not what
it promises. Their theorems have the same hypothesis, `MaxFailedBatches = 0`.

## 4. The proofs

All theorems hold for every value of the constants under the named assumptions of
the modules (`KvAssumption`, `MiniDbAssumption`, `BatchAssumption`, `LoopAssumption`,
`PromptAssumption`, `SwarmAssumption` and those of `ToolAccesses`), which type the
constants; `PromptAssumption` also keeps the names of other services' turns apart from
the prompts, and `SwarmAssumption` has finitely many tasks.

* **The conflict test** (`ConflictIsClash`): the test on paths answers yes exactly
  when some file is touched by both lists and may be changed through one. The one
  idea is `PrefixesNest`: two paths that are prefixes of one file are prefixes of
  each other. Without it the other theorems would only speak of the test.
* **The executor** (`ToolExecutorProofs`): `IInv` adds to the types that all calls
  are scheduled together (`Phases`), that preparation goes in order and makes
  nothing runnable behind a stop (`Preparation`), that a body belongs to a scheduled
  task and is forgotten only after an abort (`Bodies`), and `Order`, `Exclusive`,
  `Waits` over the code's own test. None of the three is inductive alone:
  exclusion needs the order of the queue, the order needs that everything is
  submitted at once, and waiting needs the symmetry of the test. With
  `ConflictIsClash` they become `BodiesNeverClash`, `RunsInProviderOrder`,
  `NoIdleWaiting`, `StopIsFinal`, `EndsQuietly`.
* **Replay** (`ReplayInParts`): replaying `a \o b` is replaying `b` over the
  replay of `a`; the last writer of a key in a concatenation is found in the second
  part if there is one. `ReplayAgrees` adds that replay looks only at the effects of
  the calls in the log. These two are what a snapshot plus a tail relies on.
* **MiniDb** (`MiniDbProofs`): `TypeInvariant`, and `NeverAppendsUnopened`: between
  `db.wal = fresh` and the end of its `open()` no frame is queued, though `commit`
  does not check it. The inductive invariant is `StillInv`: from `Rotate` on the
  lock is held (`Locked`); once the log was drained the queue and batch are empty and
  no call stands between gate and append (`StandStill`), because `Quiet` was true
  then and every call since met the lock; and an unopened log is seen only in the
  phase `open`.
  `LogInv` is about contents, for databases whose log batches do not fail. `Held` is what
  the files and the frames on their way to them add up to; memory shows `Held`, or what a
  call that was refused and waits for its retry left there (`Memory`). Compaction has two
  parts. `CopySound`: the copy of the log is its end from the fence on, and the new
  snapshot is right for each key that nothing behind the fence touches, so the copied
  tail repairs the rest (`ReplayCopy`); the renames therefore keep `Held`
  (`RenamesKeepHeld`), one after the other. `Renamed`: what a power loss brings back before
  the directory is synced holds the same. `Control`, `Pendings` and `Logged` say who can be
  where: nobody waits behind the lock before there is one, and whatever is in a batch or a
  file was called. From it `MemoryShowsLog` and `PromiseIsKept`, the refinement of
  `DurableKv`: the safe part and the tail are the two parts of one log (`SafeIsPart`), a
  batch or a sync moves the cut (`KvCutMoves`), a crash cuts behind it (`KvCrashAt`), a
  rename is a stutter.
  `SerialInv` is about failed batches, until a first compaction: at most one call is
  writing (`OneWriter`), and until its frame is in the file memory differs from the files
  by its effect alone, each record still carries its seq, and what it replaced is what
  the files hold (`Undoable`), so the guard of `restoreKey` lets the rollback through.
  From it `FailuresLeaveNoTrace`.
* **The turn loop** (`AgentLoopProofs`), in two invariants. `IInv` is about turns and
  gives `TurnsInOrder`, `IdsStayFresh`, `CancelIsFinal`: it relates the two id counters to
  the waiting turns (`Ids`: `nextTurnId` is at most every waiting id, `reserved` is beyond
  all of them, and wire events carry only ids below `nextTurnId`), the turns' states to
  `active` and `pendingTurns` (`Waits`) and the place in `runTurn` to there being an
  active turn (`Runs`). A cancelled turn skips an id that no record mentions and a restart
  forgets `reserved`; that `StepBegins` raises the counter past the active id and not past
  a waiting one is the step both survive on. `IdBound` shows that ids never run out: a
  restart adds at most `MaxRequests` of them. `QInv` is about requests and steps and gives
  `NoRequestLost`, `WithdrawnNeverDrives`, `EndedTurnsAreQuiet`, `ResultsAreShown`: a request
  in a line knows whose line it is (`Seats`), so merging, leftovers and `adopt` cannot
  double it; what is pending is in a line, with a queued step unless it has no turn yet
  (`Waiters`); live steps belong to turns that wait or run (`Alive`); a driver has left its
  queue and reached the context (`Driving`); and from a step that asked for tools to the
  end of the next one a continuation is in the active queue or drives (`Due`) -- it
  survives a clearing of the queue because nobody holds its receipt. `LoopTypes` rests on
  both.
* **The append log** (`AppendLogProofs`): `BuffersInvariant` (the chains of promises are
  well formed; from it the types and `NobodyForgotten`, without any hypothesis), and
  `FileInvariant`, which is about content: the file is a history `h` followed by what the
  first living buffer has written and not yet dropped; older buffers are settled, later
  ones have touched nothing; a rewrite on its way carries `h`; a flush waits only for
  records in `h` or in a buffer. From it `FileIsHistoryAndTail`, `PromisedIsInFile`, and
  `LogImplementsJournal`: every step is a step of `Journal` or a stutter under the
  refinement mapping of the run, one lemma per kind of journal step. Hypotheses of the
  second group: no `"torn"` fault and not `RewriteEarly`.
* **The wire** (`AgentWireProofs`): what is on disk, in the log's buffers and behind
  blobs is together what the running agent's models saw, and what an older agent still
  drains is a prefix of it; a flush waits for exactly what was queued before it. From it
  `JournalIsModel` and `PromisesAreReplayed`, if agents do not overlap (`~Overlap`), and
  `WireUsesJournal`: each wire step is one of `Journal` or leaves the log alone, which
  is what lets `LogImplementsJournal` stand below it.
* **Prompts** (`PromptProofs`): `PromptsSerialised`. A prompt with a live turn is the
  active one, or the one launching whose assignment is under way (`HolderInv`), and
  nothing is active while something is launching. For the loop's side the queue must
  have no turn twice (`LoopInv`), or a cancel would leave its double behind. `SeatInv` says
  for each outcome which place the prompt is in, `OrderInv` that the queue is in order of
  arrival and behind whatever is launching; they give the types, `OutcomesStand` and
  `FirstComeFirstServed`. `NobodyIsLost` (with `~LateSteers`) adds that each prompt the
  scheduler holds is one the loop or a pending stretch will report on (`LoopHas`, `Begun`,
  `KeptInv`).
* **The swarm** (`SwarmBatchProofs`): `NoTaskLost`, `LateAnswersChangeNothing`,
  `LaunchesKeepPace`, `SwarmTypes`. While the
  batch runs each task is in one of three places (`Placed`), which needs the queue to be
  free of repetitions: a refused task goes back to its head. When it has ended nothing
  is active, due or timed (`CleanEnd`), so an attempt that answers late finds nothing to
  count in. For the pace: the throttle's timer is dead once the provider has refused
  (`Throttle`), or it would launch by the ramp's cap in rate-limit mode; and in a pass
  that finds a ripe task only the pace can hold the wakeup off, since a recovery time of
  zero was just used up (`PassIs`, `PassIsPaced`). The backoffs being natural numbers is
  part of it; that `2^n` is one is had from the number of subsets of `1..n`.
* `SequenceFacts` proves what the operators of the community modules and `Only` do to
  sequences: `RemoveAt`, `SetToSeq`, ranges and concatenations, filters, folds over
  concatenations. Where a fact takes an induction (over a set, or the length of a
  queue) it is had from well-foundedness of a strict order, whose theorem takes no operator.

The hypotheses `~Overlap`, `~RewriteEarly`, `~LateSteers` and the absence of torn lines are
constants the passing runs have at the same values; section 3 says what fails without
them and that no caller does the former three. `PromptTypes`, `OutcomesStand`,
`AppendLogTypes`, `NobodyForgottenTheorem` and `WireUsesJournal` need none. Likewise
`MaxFailedBatches = 0` of `LogInvariant`, `MemoryShowsLog` and `PromiseIsKept` is what
`mini_db` has; compactions may fail and crashes may happen in them, any number of times.
The hypotheses of `FailuresLeaveNoTrace` are the instance of `mini_db_rollback`: every
database has a unique index and does not fsync each write, and no call is a `del()` of
one key, which goes past the index's lock. TLC finds a counterexample without any one of
them: two writers in a batch (section 3), or under `"always"` a frame that is in the file
when its fsync fails.

Only model-checked: all liveness (fairness is beyond the prover).

## 5. Not modelled, and why

* The loop's runs outside a turn, and wire events and telemetry of a turn.
* MiniDb: value mode `disk` and its pointers, expiry, eviction, derived indexes,
  read-only followers, the timer of `everysec`, the lock file, cluster and server. A
  rename is taken to be on disk once the directory was synced or the process died
  (a process crash and then a power loss before the next sync is not modelled), and
  so is a failure of the compaction's own rollback.
* The append log: several keys (they share nothing), the debounce of flushes, blob
  storage. The wire: ops inside ops, cascades of models, subscriptions; records whose
  migration fails. Its bounds let one agent follow another, not forks.
* Prompts: undo, captions, the delivery of tool results, ids given twice, and `clear()`
  racing a launch beyond what it does in the code (it does not see the launching
  prompt, which goes on). Full compaction is only its task's life; its summary and
  rewrite of the context are not modelled.
* The swarm: the per-attempt timer (it only decides when an attempt fails), suspension
  messages. A task whose launcher has not returned is reported `not_started` on a
  cancellation although an agent may exist; `Report` has it so.
* Tasks, interactions, goals, cron, session lifecycle beyond create and remove: services
  that enqueue in the loop and keep small tables. The composition of `AgentWire` and
  `Prompt` with `AgentLoop` is not built: each uses the other's face, and their product
  is beyond TLC at bounds that mean anything.
* Front ends, servers, providers, OAuth, telemetry and migration are I/O and
  rendering; `agent-core` is the predecessor of the engine modelled here.

## 6. Order of work, and what could follow

Done, in this order: `ToolAccesses`, `ToolExecutor` and their proofs; `AgentLoop`;
`MiniDb` refining `DurableKv`; `Journal`, `AppendLog` and `AgentWire`; `Prompt`;
`SwarmBatch`; the proofs of the three schedulers; those of the wire, the append log and
its refinement of `Journal`; those of the loop's requests; MiniDb's refinement of
`DurableKv`; MiniDb's rollback and the pace of the swarm.

What could follow, the most useful first:

1. `LockFile`: several processes, takeover over watch, bid and lock files, with
   one writer as its abstract specification; MiniDb's value mode `disk` (pointers
   after a rotation and after a failed batch).
2. The task service (a finished task is reported once, although its notification may
   be dropped with a turn) and `Interaction` (a parked request is answered once).
3. A theorem on failed batches together with a compaction, for which the snapshot's
   values that are rolled back later have to be told apart.
