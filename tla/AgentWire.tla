----------------------------- MODULE AgentWire -----------------------------
(***************************************************************************)
(* The main agent of a session and its wire: AgentLifecycleService creates *)
(* and removes the agent, its WireService replays the journal into the     *)
(* models, applies ops and appends their records, some behind the offload  *)
(* of their blobs.  The append log is the abstract Journal.  The state of  *)
(* the models is the sequence of ops applied to them; an op is its record. *)
(***************************************************************************)
EXTENDS Journal, SequencesExt, Queues

CONSTANTS
  MaxAgents,    \* bound on the agents created one after the other
  MaxCrashes,   \* bound on crashes
  MaxFailures,  \* bound on storage failures
  Overlap,      \* whether create() may meet a removal under way, and remove() a creation
  BlobsFail     \* whether an offload may fail

ASSUME AgentBounds == MaxAgents \in Nat /\ MaxCrashes \in Nat /\ MaxFailures \in Nat
ASSUME AgentOptions == Overlap \in BOOLEAN /\ BlobsFail \in BOOLEAN
ASSUME RecordsNumbered == 1 \in Records /\ Records \subseteq Nat \ {0} /\ \A r \in Records : 1..r \subseteq Records

VARIABLES
  version,   \* metadata line of the journal: "none", "old", "current"
  agents,    \* the agents in the order of their creation
  handle,    \* the agent in the lifecycle's handles, or 0
  creating,  \* the agent whose creation is in flight, or 0
  next,      \* the next record
  dropped,   \* records whose blobs could not be offloaded
  crashes, failures

wireVars == <<version, agents, handle, creating, next, dropped, crashes, failures>>
allVars == <<journalVars, wireVars>>

(* need: what the flush of a read, or flush() itself, waits for.            *)
NewAgent ==
  [phase |-> "sealing", removed |-> FALSE, model |-> <<>>, queue |-> <<>>,
   need |-> Range(tail), flushing |-> {}]

Init ==
  /\ \E n \in 0..1 : history = [i \in 1..n |-> i] /\ next = n + 1
  /\ version \in IF history = <<>> THEN {"none"} ELSE {"old", "current"}
  /\ tail = <<>> /\ landed = 0 /\ sticky = FALSE /\ promised = {}
  /\ agents = <<>> /\ handle = 0 /\ creating = 0
  /\ dropped = {} /\ crashes = 0 /\ failures = 0

OnDisk == history \o SubSeq(tail, 1, landed)
Gone(a) == a.phase \in {"disposed", "failed"}
QueuedRecords(a) == [i \in DOMAIN a.queue |-> a.queue[i].record]
AllGone == \A a \in Range(agents) : Gone(a)
Quiet == AllGone /\ \A a \in Range(agents) : a.queue = <<>>

InPhase(i, p) == agents[i].phase = p
To(i, p) == agents' = [agents EXCEPT ![i].phase = p]

(* The creation pipeline fails: the handle is dropped, the scope disposed.  *)
CreationFails(i) ==
  /\ agents' = [agents EXCEPT ![i].phase = "failed"]
  /\ handle' = IF handle = i THEN 0 ELSE handle
  /\ creating' = 0
  /\ UNCHANGED <<journalVars, version, next, dropped, crashes, failures>>
-----------------------------------------------------------------------------
(* create(): one creation per id; a call that meets a creation or an agent  *)
(* joins it.  The wire acquires the log, and seal() reads it.               *)
Create ==
  /\ handle = 0 /\ creating = 0
  /\ Len(agents) < MaxAgents
  /\ ~Overlap => Quiet
  /\ agents' = Append(agents, NewAgent)
  /\ handle' = Len(agents) + 1 /\ creating' = Len(agents) + 1
  /\ UNCHANGED <<journalVars, version, next, dropped, crashes, failures>>

Flushed(i) == agents[i].need \subseteq Range(history)

(* seal(): a journal without a record gets its metadata line; then restore()*)
(* starts to read.                                                          *)
Seal(i) ==
  /\ InPhase(i, "sealing") /\ Flushed(i)
  /\ version' = IF version = "none" /\ OnDisk = <<>> THEN "current" ELSE version
  /\ agents' = [agents EXCEPT ![i].phase = "reading", ![i].need = Range(tail)]
  /\ UNCHANGED <<journalVars, handle, creating, next, dropped, crashes, failures>>

(* restore(): every record is replayed in order; an old journal is rewritten *)
(* in its new version.                                                      *)
Replay(i) ==
  /\ InPhase(i, "reading") /\ Flushed(i)
  /\ agents' = [agents EXCEPT ![i].model = OnDisk,
                  ![i].phase = IF version = "current" THEN "ready" ELSE "rewriting",
                  ![i].need = IF version = "current" THEN {} ELSE Range(OnDisk)]
  /\ creating' = IF version = "current" THEN 0 ELSE creating
  /\ UNCHANGED <<journalVars, version, handle, next, dropped, crashes, failures>>

ReadFails(i) ==
  /\ agents[i].phase \in {"sealing", "reading"} /\ ~Flushed(i) /\ sticky
  /\ CreationFails(i)

Rewritten(i) == Only(agents[i].model, agents[i].need)

RewriteEnds(i) ==
  /\ InPhase(i, "rewriting")
  /\ Replace(Rewritten(i)) /\ ~sticky'
  /\ version' = "current"
  /\ To(i, "ready") /\ creating' = 0
  /\ UNCHANGED <<handle, next, dropped, crashes, failures>>

RewriteFails(i) ==
  /\ InPhase(i, "rewriting")
  /\ failures < MaxFailures /\ failures' = failures + 1
  /\ agents' = [agents EXCEPT ![i].phase = "failed"]
  /\ handle' = IF handle = i THEN 0 ELSE handle
  /\ creating' = 0
  /\ \/ Replace(Rewritten(i)) /\ sticky' /\ version' = "current"
     \/ sticky' = TRUE /\ UNCHANGED <<history, tail, landed, promised, version>>
  /\ UNCHANGED <<next, dropped, crashes>>

(* remove(): the handle is gone at once; the loop settles, then the scope is *)
(* disposed, whatever still waits for its blobs.                            *)
RemoveAgent ==
  /\ handle # 0
  /\ ~Overlap => creating = 0
  /\ agents' = [agents EXCEPT ![handle].removed = TRUE]
  /\ handle' = 0
  /\ UNCHANGED <<journalVars, version, creating, next, dropped, crashes, failures>>

Dispose(i) ==
  /\ agents[i].removed /\ InPhase(i, "ready")
  /\ To(i, "disposed")
  /\ UNCHANGED <<journalVars, version, handle, creating, next, dropped, crashes, failures>>
-----------------------------------------------------------------------------
(* Mutant: a record without blobs does not wait for those that have some.   *)
Overtakes(i, blob) == ~blob

(* Whether a record goes to the log at once.                                *)
Direct(i, blob) == ~blob /\ agents[i].queue = <<>>

(* dispatch(): the op is applied; its record goes to the log at once, or    *)
(* behind the records that wait for their blobs.  Nobody dispatches before  *)
(* the replay is over.                                                      *)
Dispatch(i, blob) ==
  /\ agents[i].phase \in {"rewriting", "ready"}
  /\ next \in Records /\ next' = next + 1
  /\ LET direct == Direct(i, blob)
     IN /\ agents' = [agents EXCEPT ![i].model = Append(@, next),
                        ![i].queue = IF direct THEN @ ELSE Append(@, [record |-> next, blob |-> blob])]
        /\ IF direct THEN Accept(next) ELSE UNCHANGED journalVars
  /\ UNCHANGED <<version, handle, creating, dropped, crashes, failures>>

(* The oldest record of the persist queue is ready and joins the log, also  *)
(* when its agent is gone.                                                  *)
Offload(i) ==
  /\ agents[i].queue # <<>>
  /\ Accept(Head(agents[i].queue).record)
  /\ agents' = [agents EXCEPT ![i].queue = Tail(@)]
  /\ UNCHANGED <<version, handle, creating, next, dropped, crashes, failures>>

(* An offload that fails loses its record; the error is only reported.      *)
OffloadFails(i) ==
  /\ BlobsFail
  /\ agents[i].queue # <<>> /\ Head(agents[i].queue).blob
  /\ dropped' = dropped \cup {Head(agents[i].queue).record}
  /\ agents' = [agents EXCEPT ![i].queue = Tail(@)]
  /\ UNCHANGED <<journalVars, version, handle, creating, next, crashes, failures>>

(* flush(): the persist queue of now, then the log.                         *)
FlushCall(i) ==
  /\ InPhase(i, "ready") /\ agents[i].flushing = {}
  /\ agents' = [agents EXCEPT ![i].flushing = Range(agents[i].model) \ dropped]
  /\ UNCHANGED <<journalVars, version, handle, creating, next, dropped, crashes, failures>>

StillQueued(i) == agents[i].flushing \cap Range(QueuedRecords(agents[i]))

(* Mutants: it is content with what the log has accepted; it has no answer  *)
(* when the log has failed.                                                 *)
FlushEndsEarly(i) ==
  /\ agents[i].flushing # {} /\ StillQueued(i) = {}
  /\ promised' = promised \cup (agents[i].flushing \ dropped)
  /\ agents' = [agents EXCEPT ![i].flushing = {}]
  /\ UNCHANGED <<history, tail, landed, sticky, version, handle, creating, next, dropped,
                 crashes, failures>>

FlushEndsWell(i) ==
  /\ agents[i].flushing # {} /\ StillQueued(i) = {}
  /\ Promise(agents[i].flushing \ dropped)
  /\ agents' = [agents EXCEPT ![i].flushing = {}]
  /\ UNCHANGED <<version, handle, creating, next, dropped, crashes, failures>>

(* It fails behind a failure.  Records that ended with a failed buffer are  *)
(* promised to nobody here, although a flush that only then reaches the log *)
(* finds nothing left to wait for.                                          *)
FlushEnds(i) ==
  /\ agents[i].flushing # {} /\ StillQueued(i) = {}
  /\ LET wanted == agents[i].flushing \ dropped
         durable == wanted \subseteq Range(history)
         lost == ~(wanted \subseteq Range(history) \cup Range(tail))
     IN \/ durable /\ Promise(wanted)
        \/ ~durable /\ (sticky \/ lost) /\ UNCHANGED journalVars
  /\ agents' = [agents EXCEPT ![i].flushing = {}]
  /\ UNCHANGED <<version, handle, creating, next, dropped, crashes, failures>>
-----------------------------------------------------------------------------
(* The log works on its own, except behind a rewrite in flight; when it     *)
(* fails it stays failed until its buffer ends with the last agent.         *)
Rewriting == \E a \in Range(agents) : a.phase = "rewriting"

LogWorks ==
  /\ ~Rewriting
  /\ \/ \E n \in 1..Len(tail) : Confirm(n) /\ UNCHANGED failures
     \/ Land /\ ~sticky' /\ UNCHANGED failures
     \/ Land /\ sticky' /\ ~sticky /\ failures < MaxFailures /\ failures' = failures + 1
     \/ AllGone /\ sticky /\ Abandon(Len(tail)) /\ UNCHANGED failures
  /\ UNCHANGED <<version, agents, handle, creating, next, dropped, crashes>>

ProcessCrash ==
  /\ crashes < MaxCrashes /\ crashes' = crashes + 1
  /\ Crash
  /\ agents' = [i \in DOMAIN agents |-> [agents[i] EXCEPT !.phase = "disposed", !.removed = TRUE,
                                           !.queue = <<>>, !.flushing = {}, !.need = {}]]
  /\ handle' = 0 /\ creating' = 0
  /\ version' \in {version} \cup (IF Rewriting THEN {"current"} ELSE {})
  /\ UNCHANGED <<next, dropped, failures>>

Work(i) ==
  \/ Seal(i) \/ Replay(i) \/ ReadFails(i) \/ RewriteEnds(i) \/ RewriteFails(i)
  \/ Offload(i) \/ OffloadFails(i) \/ FlushEnds(i) \/ Dispose(i)

Next ==
  \/ Create \/ RemoveAgent \/ LogWorks \/ ProcessCrash
  \/ \E i \in DOMAIN agents :
       \/ Work(i) \/ FlushCall(i)
       \/ \E blob \in BOOLEAN : Dispatch(i, blob)

Spec == Init /\ [][Next]_allVars

(* Storage answers, promise jobs run, a removed agent's loop settles.       *)
FairSpec ==
  /\ Spec /\ WF_allVars(LogWorks)
  /\ \A i \in 1..MaxAgents : WF_allVars(i \in DOMAIN agents /\ Work(i))
-----------------------------------------------------------------------------
(* Every variable keeps its shape.                                          *)
TypeOK ==
  /\ version \in {"none", "old", "current"}
  /\ handle \in 0..Len(agents) /\ creating \in 0..Len(agents)
  /\ next \in Nat \ {0} /\ dropped \subseteq Records
  /\ \A a \in Range(agents) :
       /\ a.phase \in {"sealing", "reading", "rewriting", "ready", "disposed", "failed"}
       /\ Range(a.model) \subseteq Records
  /\ creating # 0 => ~Gone(agents[creating])

(* wire.ts: the wire owns "one Agent's replayable model state and its       *)
(* journal as one consistency boundary": what is on disk, in the log's      *)
(* buffer and in the persist queue is what the models have seen, in order;  *)
(* behind a failure the disk holds a prefix of it.                          *)
JournalIsModel ==
  \A i \in DOMAIN agents :
    agents[i].phase \in {"rewriting", "ready"} =>
      LET kept == Only(agents[i].model, Records \ dropped)
      IN IF sticky THEN IsPrefix(OnDisk, kept)
         ELSE history \o tail \o QueuedRecords(agents[i]) = kept

(* What a flush reported as durable is in every later replay, in spite of   *)
(* failures, removals and crashes.                                          *)
PromisesAreReplayed ==
  \A i \in DOMAIN agents :
    agents[i].phase \in {"rewriting", "ready"} => promised \subseteq Range(agents[i].model)

(* Every flush() of the wire ends, well or badly, whatever the blobs, the   *)
(* log and removals do meanwhile.                                           *)
Flushing(i) == i \in DOMAIN agents /\ agents[i].flushing # {}
FlushesEnd == \A i \in 1..MaxAgents : Flushing(i) ~> ~Flushing(i)
=============================================================================
