--------------------------- MODULE AgentWireProofs ---------------------------
(***************************************************************************)
(* The journal is what the models saw, for any number of records, agents,  *)
(* failures and crashes, as long as no agent is created while the one      *)
(* before still works (Overlap).                                           *)
(***************************************************************************)
EXTENDS AgentWire, SequenceFacts

-----------------------------------------------------------------------------
(* The inductive invariant. *)

Phases == {"sealing", "reading", "rewriting", "ready", "disposed", "failed"}
Entry  == [record : Records, blob : BOOLEAN]
Agent  == [phase : Phases, removed : BOOLEAN, model : Seq(Records),
           queue : Seq(Entry), need : SUBSET Records, flushing : SUBSET Records]

Types ==
  /\ history \in Seq(Records) /\ tail \in Seq(Records) /\ landed \in 0..Len(tail)
  /\ sticky \in BOOLEAN /\ promised \subseteq Range(history)
  /\ agents \in Seq(Agent) /\ handle \in 0..Len(agents) /\ creating \in 0..Len(agents)
  /\ next \in Nat \ {0} /\ dropped \subseteq Records

(* Only the last agent may still work, or have records in its queue.        *)
Old == \A i \in DOMAIN agents : i < Len(agents) => Gone(agents[i]) /\ agents[i].queue = <<>>

(* Its records on their way to the disk, oldest first.                      *)
Queued == IF agents = <<>> THEN <<>> ELSE QueuedRecords(agents[Len(agents)])
Stream == history \o tail \o Queued

(* No record is on its way twice, none that was dropped or is yet to come.  *)
Fresh ==
  /\ Distinct(Stream)
  /\ \A r \in Range(Stream) : r < next /\ r \notin dropped
  /\ \A r \in dropped : r < next

Kept(a) == Only(a.model, Records \ dropped)

(* What an agent that replays finds: nothing is queued before it is ready,   *)
(* and what its read waits for is all the log still has to write.            *)
Reading(a) ==
  /\ a.phase \in {"sealing", "reading"} => a.queue = <<>>
  /\ a.phase = "reading" => Range(tail) \subseteq a.need

(* An agent that rewrites holds the log up: it writes what is there.        *)
Rewrites(a) ==
  a.phase = "rewriting" =>
    /\ landed = 0
    /\ Only(a.model, a.need) = history
    /\ \A r \in a.need : r < next
    /\ Stream = Kept(a)

(* What is on its way is what the models saw; behind a failure, only what   *)
(* is on disk is known.                                                     *)
Agrees(a) ==
  a.phase = "ready" =>
    IF sticky THEN IsPrefix(OnDisk, Kept(a)) ELSE Stream = Kept(a)

Works == \A i \in DOMAIN agents : Reading(agents[i]) /\ Rewrites(agents[i]) /\ Agrees(agents[i])

IInv == Types /\ Old /\ Fresh /\ Works

-----------------------------------------------------------------------------
(* Facts about the data. *)

(* The records of a queue, when it grows and when its head leaves.          *)
LEMMA QueueRecords ==
  ASSUME NEW a \in Agent
  PROVE  /\ QueuedRecords(a) \in Seq(Records)
         /\ a.queue = <<>> => QueuedRecords(a) = <<>>
         /\ \A b \in Agent, e \in Entry :
              b.queue = Append(a.queue, e) => QueuedRecords(b) = Append(QueuedRecords(a), e.record)
         /\ \A b \in Agent :
              a.queue # <<>> /\ b.queue = Tail(a.queue) =>
                /\ Head(a.queue).record \in Records
                /\ QueuedRecords(a) = <<Head(a.queue).record>> \o QueuedRecords(b)
<1>1. a.queue \in Seq(Entry)
  BY DEF Agent
<1>a. \A e \in Entry : e.record \in Records
  BY DEF Entry
<1>2. QueuedRecords(a) \in Seq(Records) /\ (a.queue = <<>> => QueuedRecords(a) = <<>>)
  BY <1>1, <1>a DEF QueuedRecords
<1>3. ASSUME NEW b \in Agent, NEW e \in Entry, b.queue = Append(a.queue, e)
      PROVE  QueuedRecords(b) = Append(QueuedRecords(a), e.record)
  BY <1>1, <1>3, <1>a DEF QueuedRecords
<1>4. ASSUME NEW b \in Agent, a.queue # <<>>, b.queue = Tail(a.queue)
      PROVE  /\ Head(a.queue).record \in Records
             /\ QueuedRecords(a) = <<Head(a.queue).record>> \o QueuedRecords(b)
  <2>1. Head(a.queue) = a.queue[1] /\ Len(a.queue) \in Nat \ {0} /\ DOMAIN a.queue = 1..Len(a.queue)
    BY <1>1, <1>4
  <2>2. b.queue \in Seq(Entry) /\ Len(b.queue) = Len(a.queue) - 1
        /\ \A i \in 1..(Len(a.queue) - 1) : b.queue[i] = a.queue[i + 1]
    BY <1>1, <1>4
  <2>3. Head(a.queue).record \in Records
    BY <1>1, <1>a, <2>1
  <2> DEFINE q == QueuedRecords(a)
             t == QueuedRecords(b)
  <2>4. q \in Seq(Records) /\ Len(q) = Len(a.queue) /\ \A i \in 1..Len(a.queue) : q[i] = a.queue[i].record
    <3>1. \A i \in 1..Len(a.queue) : a.queue[i].record \in Records
      BY <1>1, <1>a
    <3>2. q = [i \in 1..Len(a.queue) |-> a.queue[i].record]
      BY <1>1 DEF QueuedRecords
    <3> QED
      BY <2>1, <3>1, <3>2
  <2>5. t \in Seq(Records) /\ Len(t) = Len(a.queue) - 1 /\ \A i \in 1..(Len(a.queue) - 1) : t[i] = a.queue[i + 1].record
    <3>1. \A i \in 1..(Len(a.queue) - 1) : b.queue[i].record \in Records /\ b.queue[i].record = a.queue[i + 1].record
      BY <2>2, <1>a
    <3>2. t = [i \in 1..(Len(a.queue) - 1) |-> b.queue[i].record]
      BY <2>2 DEF QueuedRecords
    <3> QED
      BY <2>1, <3>1, <3>2
  <2> HIDE DEF q, t
  <2> DEFINE c == <<Head(a.queue).record>> \o t
  <2>6. c \in Seq(Records) /\ Len(c) = Len(a.queue) /\ c[1] = Head(a.queue).record
        /\ \A i \in 1..(Len(a.queue) - 1) : c[i + 1] = t[i]
    BY <2>1, <2>3, <2>5
  <2> HIDE DEF c
  <2>7. ASSUME NEW i \in 1..Len(a.queue) PROVE q[i] = c[i]
    <3>1. CASE i = 1
      BY <2>1, <2>4, <2>6, <3>1
    <3>2. CASE i # 1
      <4>1. i - 1 \in 1..(Len(a.queue) - 1) /\ (i - 1) + 1 = i
        BY <2>1, <3>2
      <4> QED
        BY <2>4, <2>5, <2>6, <4>1
    <3> QED
      BY <3>1, <3>2
  <2>8. q = c
    BY <2>4, <2>6, <2>7, SeqEqual
  <2> QED
    BY <2>3, <2>8 DEF q, t, c
<1> QED
  BY <1>2, <1>3, <1>4

(* Appending records is associative.                                        *)
LEMMA RecordsAssociate ==
  \A a, b, c \in Seq(Records) : (a \o b) \o c = a \o (b \o c)
<1>1. Associative(Records)
  BY Associates
<1> QED
  BY <1>1, Zenon DEF Associative

(* The parts of the stream.                                                 *)
LEMMA StreamType ==
  ASSUME Types
  PROVE  /\ Queued \in Seq(Records) /\ Stream \in Seq(Records) /\ history \o tail \in Seq(Records)
         /\ Range(Stream) = Range(history) \cup Range(tail) \cup Range(Queued)
         /\ Distinct(Stream) <=> DistinctParts(history, tail, Queued)
         /\ OnDisk \in Seq(Records)
         /\ Range(history) \subseteq Range(OnDisk)
         /\ Range(OnDisk) \subseteq Range(history) \cup Range(tail)
         /\ OnDisk \o SubSeq(tail, landed + 1, Len(tail)) \o Queued = Stream
         /\ SubSeq(tail, landed + 1, Len(tail)) \in Seq(Records)
<1>1. Queued \in Seq(Records)
  <2>1. CASE agents = <<>>
    BY <2>1 DEF Queued
  <2>2. CASE agents # <<>>
    <3>1. agents[Len(agents)] \in Agent
      BY <2>2 DEF Types
    <3> QED
      BY <2>2, <3>1, QueueRecords DEF Queued
  <2> QED
    BY <2>1, <2>2
<1>2. history \in Seq(Records) /\ tail \in Seq(Records) /\ landed \in 0..Len(tail)
  BY DEF Types
<1> DEFINE a == SubSeq(tail, 1, landed)
           b == SubSeq(tail, landed + 1, Len(tail))
<1>3. a \in Seq(Records) /\ b \in Seq(Records) /\ tail = a \o b
  BY <1>2, CutAnywhere
<1> HIDE DEF a, b
<1>4. /\ history \o tail \in Seq(Records) /\ Stream \in Seq(Records)
      /\ Range(Stream) = Range(history) \cup Range(tail) \cup Range(Queued)
      /\ Distinct(Stream) <=> DistinctParts(history, tail, Queued)
  BY <1>1, <1>2, ThreeParts DEF Stream
<1>5. history \o a \in Seq(Records) /\ (history \o a) \o b = history \o (a \o b)
  <2>1. history \in Seq(Records) /\ a \in Seq(Records) /\ b \in Seq(Records)
    BY <1>2, <1>3
  <2>2. (history \o a) \o b = history \o (a \o b)
    BY <2>1, RecordsAssociate, Zenon
  <2>3. history \o a \in Seq(Records)
    BY <2>1
  <2> QED
    BY <2>2, <2>3, Zenon
<1>6. Range(tail) = Range(a) \cup Range(b) /\ Range(history \o a) = Range(history) \cup Range(a)
  BY <1>2, <1>3, RangeConcatenation
<1>7. ((history \o a) \o b) \o Queued = Stream
  BY <1>3, <1>5 DEF Stream
<1>8. OnDisk = history \o a
  BY DEF OnDisk, a
<1> QED
  BY <1>1, <1>3, <1>4, <1>5, <1>6, <1>7, <1>8 DEF b

-----------------------------------------------------------------------------
(* The steps. *)

(* Agents end, are marked or flush: nothing moves.                          *)
LEMMA NothingMoves ==
  ASSUME IInv, UNCHANGED <<history, tail, next, dropped>>,
         landed' \in 0..Len(tail), sticky' \in BOOLEAN, promised' \subseteq Range(history),
         agents' \in Seq(Agent), Len(agents') = Len(agents),
         handle' \in 0..Len(agents), creating' \in 0..Len(agents),
         \A i \in DOMAIN agents :
           /\ agents'[i].queue = agents[i].queue /\ agents'[i].model = agents[i].model
           /\ agents'[i].need = agents[i].need
           /\ \/ agents'[i].phase \in {"disposed", "failed"}
              \/ agents'[i].phase = agents[i].phase /\ landed' = landed /\ sticky' = sticky
  PROVE  IInv'
<1>1. Types'
  BY DEF IInv, Types
<1>2. DOMAIN agents = 1..Len(agents) /\ DOMAIN agents' = 1..Len(agents) /\ Len(agents) \in Nat
  BY DEF IInv, Types
<1>3. Old'
  BY <1>2 DEF IInv, Old, Gone
<1>4. Queued' = Queued
  <2>1. CASE agents = <<>>
    <3>1. agents' = <<>>
      BY <1>2, <2>1
    <3> QED
      BY <2>1, <3>1 DEF Queued
  <2>2. CASE agents # <<>>
    <3>1. agents' # <<>> /\ Len(agents) \in DOMAIN agents
      BY <1>2, <2>2 DEF IInv, Types
    <3>2. agents'[Len(agents')].queue = agents[Len(agents)].queue
      BY <3>1
    <3> QED
      BY <2>2, <3>1, <3>2 DEF Queued, QueuedRecords
  <2> QED
    BY <2>1, <2>2
<1>5. Stream' = Stream
  BY <1>4 DEF Stream
<1>6. Fresh'
  BY <1>5 DEF IInv, Fresh
<1>7. ASSUME NEW i \in DOMAIN agents'
      PROVE  (Reading(agents[i]) /\ Rewrites(agents[i]) /\ Agrees(agents[i]))'
  <2>1. i \in DOMAIN agents /\ Reading(agents[i]) /\ Rewrites(agents[i]) /\ Agrees(agents[i])
    BY <1>2, <1>7 DEF IInv, Works
  <2>2. CASE agents'[i].phase \in {"disposed", "failed"}
    BY <2>2 DEF Reading, Rewrites, Agrees
  <2>3. CASE agents'[i].phase = agents[i].phase /\ landed' = landed /\ sticky' = sticky
    <3>1. OnDisk' = OnDisk /\ Kept(agents[i])' = Kept(agents[i])
      BY <2>1, <2>3 DEF OnDisk, Kept
    <3> QED
      BY <1>5, <2>1, <2>3, <3>1 DEF Reading, Rewrites, Agrees
  <2> QED
    BY <2>1, <2>2, <2>3
<1> QED
  BY <1>1, <1>3, <1>6, <1>7 DEF IInv, Works

(* A step of an agent that works, or has records in its queue, is one of    *)
(* the last agent.                                                          *)
LEMMA LastMoves ==
  ASSUME Types, Old, NEW i \in DOMAIN agents, ~(Gone(agents[i]) /\ agents[i].queue = <<>>),
         agents' \in Seq(Agent), Len(agents') = Len(agents),
         \A j \in DOMAIN agents : j # i => agents'[j] = agents[j]
  PROVE  /\ Queued = QueuedRecords(agents[i])
         /\ Queued' = QueuedRecords(agents[i])'
         /\ Old'
         /\ (Reading(agents[i]) /\ Rewrites(agents[i]) /\ Agrees(agents[i]))' => Works'
<1>1. DOMAIN agents = 1..Len(agents) /\ DOMAIN agents' = 1..Len(agents) /\ Len(agents) \in Nat
  BY DEF Types
<1>2. i = Len(agents) /\ agents # <<>> /\ agents' # <<>>
  BY <1>1 DEF Old
<1>3. \A j \in DOMAIN agents' : j < Len(agents') =>
        Gone(agents'[j]) /\ agents'[j].queue = <<>>
  BY <1>1, <1>2 DEF Old
<1>4. \A j \in DOMAIN agents' : Gone(agents'[j]) => (Reading(agents[j]) /\ Rewrites(agents[j]) /\ Agrees(agents[j]))'
  BY DEF Gone, Reading, Rewrites, Agrees
<1>5. Old'
  BY <1>3 DEF Old, Gone
<1>6. ASSUME (Reading(agents[i]) /\ Rewrites(agents[i]) /\ Agrees(agents[i]))',
             NEW j \in DOMAIN agents'
      PROVE  (Reading(agents[j]) /\ Rewrites(agents[j]) /\ Agrees(agents[j]))'
  <2>1. CASE j = i
    BY <1>6, <2>1
  <2>2. CASE j # i
    <3>1. j < Len(agents')
      BY <1>1, <1>2, <2>2
    <3> QED
      BY <1>3, <1>4, <3>1
  <2> QED
    BY <2>1, <2>2
<1>7. Queued = QueuedRecords(agents[i]) /\ Queued' = QueuedRecords(agents[i])'
  BY <1>2 DEF Queued
<1> QED
  BY <1>5, <1>6, <1>7 DEF Works

(* create(): behind agents that are gone and have nothing to persist.       *)
LEMMA CreateKeeps ==
  ASSUME IInv, ~Overlap, Create
  PROVE  IInv'
<1>1. /\ agents \in Seq(Agent) /\ Len(agents) \in Nat /\ DOMAIN agents = 1..Len(agents)
      /\ UNCHANGED <<history, tail, landed, sticky, promised, next, dropped>>
  BY DEF IInv, Types, Create, journalVars
<1>2. NewAgent \in Agent
  BY DEF IInv, Types, NewAgent, Agent, Phases, Entry, Range
<1>3. /\ agents' \in Seq(Agent) /\ Len(agents') = Len(agents) + 1
      /\ agents'[Len(agents) + 1] = NewAgent
      /\ \A j \in 1..Len(agents) : agents'[j] = agents[j]
  BY <1>1, <1>2 DEF Create
<1>4. DOMAIN agents' = 1..(Len(agents) + 1) /\ agents' # <<>>
  BY <1>1, <1>3
<1>5. \A j \in 1..Len(agents) : Gone(agents[j]) /\ agents[j].queue = <<>>
  BY <1>1 DEF Create, Quiet, AllGone, Range
<1>6. Types'
  <2>1. handle' \in 0..Len(agents') /\ creating' \in 0..Len(agents')
    BY <1>1, <1>3 DEF Create
  <2> QED
    BY <1>1, <1>3, <2>1 DEF IInv, Types
<1>7. Old'
  BY <1>1, <1>3, <1>4, <1>5 DEF Old, Gone
<1>8. Queued = <<>> /\ Queued' = <<>>
  <2>1. QueuedRecords(NewAgent) = <<>>
    BY <1>2, QueueRecords DEF NewAgent
  <2>2. Queued' = <<>>
    BY <1>1, <1>3, <1>4, <2>1 DEF Queued, QueuedRecords
  <2>3. CASE agents = <<>>
    BY <2>2, <2>3 DEF Queued
  <2>4. CASE agents # <<>>
    <3>1. Len(agents) \in 1..Len(agents) /\ agents[Len(agents)] \in Agent
      BY <1>1, <2>4
    <3>2. QueuedRecords(agents[Len(agents)]) = <<>>
      BY <1>5, <3>1, QueueRecords
    <3> QED
      BY <2>2, <2>4, <3>2 DEF Queued
  <2> QED
    BY <2>3, <2>4
<1>9. Fresh'
  <2>1. Stream' = Stream
    BY <1>1, <1>8 DEF Stream
  <2> QED
    BY <1>1, <2>1 DEF IInv, Fresh
<1>10. ASSUME NEW j \in DOMAIN agents'
       PROVE  (Reading(agents[j]) /\ Rewrites(agents[j]) /\ Agrees(agents[j]))'
  <2>1. CASE j = Len(agents) + 1
    BY <1>3, <2>1 DEF NewAgent, Reading, Rewrites, Agrees
  <2>2. CASE j \in 1..Len(agents)
    <3>1. Gone(agents'[j])
      BY <1>3, <1>5, <2>2 DEF Gone
    <3> QED
      BY <3>1 DEF Gone, Reading, Rewrites, Agrees
  <2> QED
    BY <1>1, <1>4, <2>1, <2>2
<1> QED
  BY <1>6, <1>7, <1>9, <1>10 DEF IInv, Works

(* seal(): the read waits for what is in the log.                           *)
LEMMA SealKeeps ==
  ASSUME IInv, NEW i \in DOMAIN agents, Seal(i)
  PROVE  IInv'
<1>1. agents[i] \in Agent /\ agents \in Seq(Agent) /\ Reading(agents[i])
  BY DEF IInv, Types, Works
<1>2. UNCHANGED <<history, tail, landed, sticky, promised, next, dropped, handle, creating>>
  BY DEF Seal, journalVars
<1> DEFINE b == [agents[i] EXCEPT !.phase = "reading", !.need = Range(tail)]
<1>3. b \in Agent /\ b.queue = agents[i].queue /\ b.phase = "reading" /\ b.need = Range(tail)
  <2>1. Range(tail) \in SUBSET Records
    BY DEF IInv, Types, Range
  <2> QED
    BY <1>1, <2>1 DEF Agent, Phases
<1>4. agents' = [agents EXCEPT ![i] = b]
  BY DEF Seal
<1> HIDE DEF b
<1>5. /\ agents' \in Seq(Agent) /\ Len(agents') = Len(agents) /\ agents'[i] = b
      /\ \A j \in DOMAIN agents : j # i => agents'[j] = agents[j]
  BY <1>1, <1>3, <1>4
<1>6. agents[i].phase = "sealing"
  BY DEF Seal, InPhase
<1>7. /\ Queued = QueuedRecords(agents[i])
      /\ Queued' = QueuedRecords(agents[i])'
      /\ Old'
      /\ (Reading(agents[i]) /\ Rewrites(agents[i]) /\ Agrees(agents[i]))' => Works'
  BY <1>5, <1>6, LastMoves DEF IInv, Gone
<1>8. Stream' = Stream
  BY <1>2, <1>3, <1>5, <1>7 DEF Stream, QueuedRecords
<1>9. Types'
  BY <1>2, <1>5 DEF IInv, Types
<1>10. Fresh'
  BY <1>2, <1>8 DEF IInv, Fresh
<1>11. (Reading(agents[i]) /\ Rewrites(agents[i]) /\ Agrees(agents[i]))'
  BY <1>1, <1>2, <1>3, <1>5, <1>6 DEF Reading, Rewrites, Agrees
<1> QED
  BY <1>7, <1>9, <1>10, <1>11 DEF IInv

(* restore() ends: all that was written is in the model.                    *)
LEMMA ReplayKeeps ==
  ASSUME IInv, NEW i \in DOMAIN agents, Replay(i)
  PROVE  IInv'
<1>1. agents[i] \in Agent /\ agents \in Seq(Agent) /\ Reading(agents[i]) /\ creating \in 0..Len(agents)
  BY DEF IInv, Types, Works
<1>2. UNCHANGED <<history, tail, landed, sticky, promised, next, dropped, handle>>
  BY DEF Replay, journalVars
<1>3. /\ history \in Seq(Records) /\ tail \in Seq(Records) /\ landed \in 0..Len(tail)
      /\ OnDisk \in Seq(Records) /\ Queued \in Seq(Records) /\ DistinctParts(history, tail, Queued)
  BY StreamType DEF IInv, Types, Fresh
<1>4. agents[i].phase = "reading" /\ agents[i].need \subseteq Range(history)
  BY DEF Replay, InPhase, Flushed
<1>5. tail = <<>> /\ landed = 0 /\ OnDisk = history
  <2>1. \A r \in Range(tail) : r \in Range(history)
    BY <1>1, <1>4 DEF Reading
  <2>2. Range(tail) = {}
    BY <1>3, <2>1 DEF DistinctParts
  <2>3. Len(tail) = 0
    <3>1. Len(tail) \in Nat /\ DOMAIN tail = 1..Len(tail)
      BY <1>3
    <3>2. 1 \notin DOMAIN tail
      BY <2>2 DEF Range
    <3> QED
      BY <3>1, <3>2
  <2>4. tail = <<>> /\ landed = 0
    BY <1>3, <2>3
  <2>5. SubSeq(tail, 1, landed) = <<>>
    BY <2>4
  <2> QED
    BY <1>3, <2>4, <2>5 DEF OnDisk
<1> DEFINE p == IF version = "current" THEN "ready" ELSE "rewriting"
           m == IF version = "current" THEN {} ELSE Range(history)
           b == [agents[i] EXCEPT !.model = history, !.phase = p, !.need = m]
<1>6. p \in {"ready", "rewriting"} /\ m \in SUBSET Records /\ (p = "rewriting" => m = Range(history))
  BY <1>3 DEF Range
<1>7. /\ b \in Agent /\ b.queue = agents[i].queue /\ b.phase = p
      /\ b.model = history /\ b.need = m
  <2> HIDE DEF p, m
  <2> QED
    BY <1>1, <1>3, <1>6 DEF Agent, Phases
<1>8. agents' = [agents EXCEPT ![i] = b]
  BY <1>5 DEF Replay
<1> HIDE DEF b, p, m
<1>9. /\ agents' \in Seq(Agent) /\ Len(agents') = Len(agents) /\ agents'[i] = b
      /\ \A j \in DOMAIN agents : j # i => agents'[j] = agents[j]
  BY <1>1, <1>7, <1>8
<1>10. /\ Queued = QueuedRecords(agents[i])
       /\ Queued' = QueuedRecords(agents[i])'
       /\ Old'
       /\ (Reading(agents[i]) /\ Rewrites(agents[i]) /\ Agrees(agents[i]))' => Works'
  BY <1>4, <1>9, LastMoves DEF IInv, Gone
<1>11. Queued' = <<>> /\ Queued = <<>>
  <2>1. agents[i].queue = <<>> /\ b.queue = <<>>
    BY <1>1, <1>4, <1>7 DEF Reading
  <2> QED
    BY <1>1, <1>7, <1>9, <1>10, <2>1, QueueRecords
<1>12. Stream' = history /\ Stream = history
  BY <1>2, <1>3, <1>5, <1>11 DEF Stream
<1>13. Types'
  <2>1. creating' \in 0..Len(agents)
    BY <1>1 DEF Replay
  <2> QED
    BY <1>2, <1>9, <2>1 DEF IInv, Types
<1>14. Fresh'
  BY <1>2, <1>12 DEF IInv, Fresh
<1>15. \A r \in Range(history) : r < next /\ r \notin dropped /\ r \in Records
  BY <1>3, <1>12 DEF IInv, Fresh, Range
<1>16. Kept(agents[i])' = history /\ Only(history, Range(history)) = history
  <2>1. Range(history) \subseteq Records \ dropped
    BY <1>15
  <2> QED
    BY <1>2, <1>3, <1>7, <1>9, <2>1, OnlyAll DEF Kept
<1>17. IsPrefix(history, history)
  BY <1>3 DEF IsPrefix
<1>18. (Reading(agents[i]) /\ Rewrites(agents[i]) /\ Agrees(agents[i]))'
  <2>1. Reading(agents[i])'
    BY <1>6, <1>7, <1>9 DEF Reading
  <2>2. Rewrites(agents[i])'
    BY <1>2, <1>5, <1>6, <1>7, <1>9, <1>12, <1>15, <1>16 DEF Rewrites
  <2>3. Agrees(agents[i])'
    <3>1. OnDisk' = OnDisk
      BY <1>2 DEF OnDisk
    <3> QED
      BY <1>2, <1>5, <1>9, <1>12, <1>16, <1>17, <3>1 DEF Agrees
  <2> QED
    BY <2>1, <2>2, <2>3
<1> QED
  BY <1>10, <1>13, <1>14, <1>18 DEF IInv

(* The rewrite puts on disk what was there, and clears a failure.           *)
LEMMA RewriteEndsKeeps ==
  ASSUME IInv, NEW i \in DOMAIN agents, RewriteEnds(i)
  PROVE  IInv'
<1>1. agents[i] \in Agent /\ agents \in Seq(Agent) /\ Rewrites(agents[i])
  BY DEF IInv, Types, Works
<1>2. agents[i].phase = "rewriting"
  BY DEF RewriteEnds, InPhase
<1>3. UNCHANGED <<history, tail, landed, promised, next, dropped, handle>> /\ sticky' = FALSE /\ creating' = 0
  BY <1>1, <1>2 DEF RewriteEnds, Replace, Rewritten, Rewrites
<1> DEFINE b == [agents[i] EXCEPT !.phase = "ready"]
<1>4. b \in Agent /\ b.queue = agents[i].queue /\ b.phase = "ready" /\ b.model = agents[i].model
  BY <1>1 DEF Agent, Phases
<1>5. agents' = [agents EXCEPT ![i] = b]
  BY DEF RewriteEnds, To
<1> HIDE DEF b
<1>6. /\ agents' \in Seq(Agent) /\ Len(agents') = Len(agents) /\ agents'[i] = b
      /\ \A j \in DOMAIN agents : j # i => agents'[j] = agents[j]
  BY <1>1, <1>4, <1>5
<1>7. /\ Queued = QueuedRecords(agents[i])
      /\ Queued' = QueuedRecords(agents[i])'
      /\ Old'
      /\ (Reading(agents[i]) /\ Rewrites(agents[i]) /\ Agrees(agents[i]))' => Works'
  BY <1>2, <1>6, LastMoves DEF IInv, Gone
<1>8. Stream' = Stream
  BY <1>3, <1>4, <1>6, <1>7 DEF Stream, QueuedRecords
<1>9. Types'
  <2>1. creating' \in 0..Len(agents)
    BY <1>1, <1>3
  <2> QED
    BY <1>3, <1>6, <2>1 DEF IInv, Types
<1>10. Fresh'
  BY <1>3, <1>8 DEF IInv, Fresh
<1>11. (Reading(agents[i]) /\ Rewrites(agents[i]) /\ Agrees(agents[i]))'
  <2>1. Kept(agents[i])' = Kept(agents[i])
    BY <1>3, <1>4, <1>6 DEF Kept
  <2> QED
    BY <1>1, <1>2, <1>3, <1>4, <1>6, <1>8, <2>1 DEF Reading, Rewrites, Agrees
<1> QED
  BY <1>7, <1>9, <1>10, <1>11 DEF IInv

(* The update of the record of the agent that acts.                         *)
LEMMA AgentChanges ==
  ASSUME Types, NEW i \in DOMAIN agents, NEW b \in Agent, agents' = [agents EXCEPT ![i] = b]
  PROVE  /\ agents' \in Seq(Agent) /\ Len(agents') = Len(agents) /\ agents'[i] = b
         /\ \A j \in DOMAIN agents : j # i => agents'[j] = agents[j]
BY DEF Types

(* dispatch(): the new record is the last of the model and of what is on    *)
(* its way, whichever way it takes.                                         *)
LEMMA DispatchKeeps ==
  ASSUME IInv, NEW i \in DOMAIN agents, NEW blob \in BOOLEAN, Dispatch(i, blob)
  PROVE  IInv'
<1>1. /\ agents[i] \in Agent /\ agents \in Seq(Agent)
      /\ Reading(agents[i]) /\ Rewrites(agents[i]) /\ Agrees(agents[i])
  BY DEF IInv, Types, Works
<1>2. /\ history \in Seq(Records) /\ tail \in Seq(Records) /\ landed \in 0..Len(tail)
      /\ OnDisk \in Seq(Records) /\ Queued \in Seq(Records) /\ Stream \in Seq(Records)
      /\ history \o tail \in Seq(Records)
      /\ agents[i].model \in Seq(Records) /\ agents[i].queue \in Seq(Entry) /\ next \in Records
      /\ Kept(agents[i]) \in Seq(Records)
  BY <1>1, StreamType, OnlyProperties DEF IInv, Types, Agent, Kept, Dispatch
<1>3. /\ UNCHANGED <<history, landed, sticky, promised, dropped, handle, creating>>
      /\ next' = next + 1 /\ agents[i].phase \in {"rewriting", "ready"}
  BY DEF Dispatch, Accept, journalVars
<1> DEFINE d == Direct(i, blob)
           e == [record |-> next, blob |-> blob]
           q == IF d THEN agents[i].queue ELSE Append(agents[i].queue, e)
           b == [agents[i] EXCEPT !.model = Append(agents[i].model, next), !.queue = q]
<1>4. e \in Entry /\ e.record = next /\ q \in Seq(Entry)
  <2>1. e \in Entry /\ e.record = next
    BY <1>2 DEF Entry
  <2> HIDE DEF e, d
  <2> QED
    BY <1>2, <2>1
<1>5. b \in Agent /\ b.queue = q /\ b.model = Append(agents[i].model, next)
      /\ b.phase = agents[i].phase /\ b.need = agents[i].need
  <2>1. Append(agents[i].model, next) \in Seq(Records)
    BY <1>2
  <2> HIDE DEF q, e, d
  <2> QED
    BY <1>1, <1>4, <2>1 DEF Agent
<1>6. agents' = [agents EXCEPT ![i] = b]
  BY DEF Dispatch
<1>7. IF d THEN tail' = Append(tail, next) ELSE tail' = tail
  BY DEF Dispatch, Accept, journalVars
<1>8. q = IF d THEN agents[i].queue ELSE Append(agents[i].queue, e)
  OBVIOUS
<1>9. d => agents[i].queue = <<>>
  BY DEF Direct
<1> HIDE DEF b, q, e, d
<1>10. /\ agents' \in Seq(Agent) /\ Len(agents') = Len(agents) /\ agents'[i] = b
       /\ \A j \in DOMAIN agents : j # i => agents'[j] = agents[j]
  BY <1>5, <1>6, AgentChanges DEF IInv
<1>11. /\ Queued = QueuedRecords(agents[i])
       /\ Queued' = QueuedRecords(agents[i])'
       /\ Old'
       /\ (Reading(agents[i]) /\ Rewrites(agents[i]) /\ Agrees(agents[i]))' => Works'
  BY <1>3, <1>10, LastMoves DEF IInv, Gone
<1>12. /\ Stream' = Append(Stream, next) /\ tail' \in Seq(Records) /\ landed' \in 0..Len(tail')
       /\ OnDisk' = OnDisk
  <2>1. CASE d
    <3>1. Queued = <<>> /\ Queued' = <<>>
      <4>1. b.queue = <<>> /\ agents[i].queue = <<>>
        BY <1>5, <1>8, <1>9, <2>1
      <4> QED
        BY <1>1, <1>5, <1>10, <1>11, <4>1, QueueRecords
    <3>2. tail' = Append(tail, next)
      BY <1>7, <2>1
    <3>3. Stream = history \o tail /\ Stream' = history \o Append(tail, next)
      BY <1>2, <1>3, <3>1, <3>2 DEF Stream
    <3>4. SubSeq(Append(tail, next), 1, landed) = SubSeq(tail, 1, landed)
      BY <1>2
    <3>5. Append(tail, next) \in Seq(Records) /\ landed \in 0..Len(Append(tail, next))
      BY <1>2
    <3>6. history \o Append(tail, next) = Append(history \o tail, next)
      BY <1>2
    <3>7. OnDisk' = OnDisk
      BY <1>3, <3>2, <3>4 DEF OnDisk
    <3> QED
      BY <1>3, <3>2, <3>3, <3>5, <3>6, <3>7
  <2>2. CASE ~d
    <3>1. Queued' = Append(Queued, next)
      <4>1. b.queue = Append(agents[i].queue, e)
        BY <1>5, <1>8, <2>2
      <4> QED
        BY <1>1, <1>4, <1>5, <1>10, <1>11, <4>1, QueueRecords
    <3>2. tail' = tail
      BY <1>7, <2>2
    <3>3. Stream' = (history \o tail) \o Append(Queued, next)
      BY <1>3, <3>1, <3>2 DEF Stream
    <3>4. Stream' = Append((history \o tail) \o Queued, next)
      <4> DEFINE p == history \o tail
                 o == Queued
      <4>1. p \in Seq(Records) /\ o \in Seq(Records) /\ next \in Records
        BY <1>2
      <4>2. Stream' = p \o Append(o, next)
        BY <3>3
      <4> HIDE DEF p, o
      <4>3. p \o Append(o, next) = Append(p \o o, next)
        BY <4>1, ConcatAppend
      <4>4. Stream' = Append(p \o o, next)
        BY <4>2, <4>3, Zenon
      <4> QED
        BY <4>4 DEF p, o
    <3> QED
      BY <1>2, <1>3, <3>2, <3>4 DEF OnDisk, Stream
  <2> QED
    BY <2>1, <2>2
<1>13. next \in Nat /\ next \notin Range(Stream) /\ next \notin dropped
       /\ Range(Append(Stream, next)) = Range(Stream) \cup {next}
  BY <1>2, RangeAppend DEF IInv, Types, Fresh
<1>14. Types'
  BY <1>3, <1>10, <1>12, <1>13 DEF IInv, Types
<1>15. Fresh'
  <2>1. Distinct(Append(Stream, next))
    BY <1>2, <1>13, DistinctAppend DEF IInv, Fresh
  <2>2. \A r \in Range(Append(Stream, next)) : r < next + 1 /\ r \notin dropped
    <3>1. \A r \in Range(Stream) : r \in Nat
      <4> DEFINE t == Stream
      <4>1. t \in Seq(Records) /\ Records \subseteq Nat
        BY <1>2, RecordsNumbered
      <4> HIDE DEF t
      <4>2. \A r \in Range(t) : r \in Nat
        BY <4>1, RangeOfSeq
      <4> QED
        BY <4>2 DEF t
    <3> QED
      BY <1>13, <3>1 DEF IInv, Fresh
  <2>3. \A r \in dropped : r < next + 1
    <3>1. \A r \in dropped : r \in Nat
      BY RecordsNumbered DEF IInv, Types
    <3> QED
      BY <1>13, <3>1 DEF IInv, Fresh
  <2> QED
    BY <1>3, <1>12, <2>1, <2>2, <2>3 DEF Fresh
<1>16. Kept(agents[i])' = Append(Kept(agents[i]), next)
  <2>1. next \in Records \ dropped
    BY <1>2, <1>13
  <2>2. Only(Append(agents[i].model, next), Records \ dropped) = Append(Kept(agents[i]), next)
    <3> DEFINE m == agents[i].model
    <3>1. m \in Seq(Records) /\ next \in Records
      BY <1>2
    <3> HIDE DEF m
    <3>2. Only(Append(m, next), Records \ dropped) = Append(Only(m, Records \ dropped), next)
      BY <2>1, <3>1, OnlyAppend
    <3> QED
      BY <3>2 DEF m, Kept
  <2> QED
    BY <1>3, <1>5, <1>10, <2>2 DEF Kept
<1>17. Reading(agents[i])'
  BY <1>3, <1>5, <1>10 DEF Reading
<1>18. Rewrites(agents[i])'
  <2> SUFFICES ASSUME agents[i].phase = "rewriting" PROVE Rewrites(agents[i])'
    BY <1>5, <1>10 DEF Rewrites
  <2>1. /\ landed = 0 /\ Only(agents[i].model, agents[i].need) = history
        /\ \A r \in agents[i].need : r < next
        /\ Stream = Kept(agents[i])
    BY <1>1 DEF Rewrites
  <2>2. next \notin agents[i].need /\ \A r \in agents[i].need : r < next + 1
    <3>1. \A r \in agents[i].need : r \in Nat
      BY <1>1, RecordsNumbered DEF Agent
    <3> QED
      BY <1>13, <2>1, <3>1
  <2>3. Only(Append(agents[i].model, next), agents[i].need) = history
    <3> DEFINE m == agents[i].model
           S == agents[i].need
    <3>1. m \in Seq(Records) /\ next \in Records /\ next \notin S
      BY <1>2, <2>2
    <3> HIDE DEF m, S
    <3>2. Only(Append(m, next), S) = Only(m, S)
      BY <3>1, OnlyAppend
    <3> QED
      BY <2>1, <3>2 DEF m, S
  <2> QED
    BY <1>3, <1>5, <1>10, <1>12, <1>16, <2>1, <2>2, <2>3 DEF Rewrites
<1>19. Agrees(agents[i])'
  <2> SUFFICES ASSUME agents[i].phase = "ready" PROVE Agrees(agents[i])'
    BY <1>5, <1>10 DEF Agrees
  <2>1. CASE sticky
    <3>1. IsPrefix(OnDisk, Kept(agents[i]))
      BY <1>1, <2>1 DEF Agrees
    <3>2. IsPrefix(OnDisk, Append(Kept(agents[i]), next))
      BY <1>2, <3>1, PrefixAppend
    <3> QED
      BY <1>3, <1>12, <1>16, <2>1, <3>2 DEF Agrees
  <2>2. CASE ~sticky
    BY <1>1, <1>3, <1>12, <1>16, <2>2 DEF Agrees
  <2> QED
    BY <2>1, <2>2
<1> QED
  BY <1>11, <1>14, <1>15, <1>17, <1>18, <1>19 DEF IInv

(* The head of a queue: what both ways it may leave by have in common.      *)
LEMMA HeadLeaves ==
  ASSUME IInv, NEW i \in DOMAIN agents, agents[i].queue # <<>>,
         agents' = [agents EXCEPT ![i].queue = Tail(@)]
  PROVE  /\ agents' \in Seq(Agent) /\ Len(agents') = Len(agents) /\ Old'
         /\ Queued' \in Seq(Records) /\ Head(agents[i].queue).record \in Records
         /\ Queued = <<Head(agents[i].queue).record>> \o Queued'
         /\ agents'[i].phase = agents[i].phase /\ agents'[i].model = agents[i].model
         /\ agents'[i].need = agents[i].need
         /\ agents[i].phase \notin {"sealing", "reading"}
         /\ (Reading(agents[i]) /\ Rewrites(agents[i]) /\ Agrees(agents[i]))' => Works'
<1>1. agents[i] \in Agent /\ agents \in Seq(Agent) /\ Reading(agents[i])
  BY DEF IInv, Types, Works
<1> DEFINE b == [agents[i] EXCEPT !.queue = Tail(agents[i].queue)]
<1>2. b \in Agent /\ b.queue = Tail(agents[i].queue) /\ b.phase = agents[i].phase
      /\ b.model = agents[i].model /\ b.need = agents[i].need
  <2>1. Tail(agents[i].queue) \in Seq(Entry)
    BY <1>1 DEF Agent
  <2> QED
    BY <1>1, <2>1 DEF Agent
<1>3. agents' = [agents EXCEPT ![i] = b]
  OBVIOUS
<1> HIDE DEF b
<1>4. /\ agents' \in Seq(Agent) /\ Len(agents') = Len(agents) /\ agents'[i] = b
      /\ \A j \in DOMAIN agents : j # i => agents'[j] = agents[j]
  BY <1>2, <1>3, AgentChanges DEF IInv
<1>5. /\ Queued = QueuedRecords(agents[i])
      /\ Queued' = QueuedRecords(agents[i])'
      /\ Old'
      /\ (Reading(agents[i]) /\ Rewrites(agents[i]) /\ Agrees(agents[i]))' => Works'
  BY <1>4, LastMoves DEF IInv
<1>6. QueuedRecords(agents[i])' = QueuedRecords(b)
  <2>1. agents'[i] = b
    BY <1>4
  <2>2. QueuedRecords(agents[i])' = QueuedRecords(agents'[i])
    BY Zenon DEF QueuedRecords
  <2> QED
    BY <2>1, <2>2, Zenon
<1>7. QueuedRecords(b) \in Seq(Records) /\ Head(agents[i].queue).record \in Records
      /\ QueuedRecords(agents[i]) = <<Head(agents[i].queue).record>> \o QueuedRecords(b)
  BY <1>1, <1>2, QueueRecords
<1> QED
  BY <1>1, <1>2, <1>4, <1>5, <1>6, <1>7 DEF Reading

(* A record whose blobs are stored goes from the queue to the log.          *)
LEMMA OffloadKeeps ==
  ASSUME IInv, NEW i \in DOMAIN agents, Offload(i)
  PROVE  IInv'
<1> DEFINE r == Head(agents[i].queue).record
<1>1. /\ agents[i].queue # <<>> /\ agents' = [agents EXCEPT ![i].queue = Tail(@)]
      /\ tail' = Append(tail, r)
      /\ UNCHANGED <<history, landed, sticky, promised, next, dropped, handle, creating>>
  BY DEF Offload, Accept
<1>2. /\ agents' \in Seq(Agent) /\ Len(agents') = Len(agents) /\ Old'
      /\ Queued' \in Seq(Records) /\ r \in Records
      /\ Queued = <<r>> \o Queued'
      /\ agents'[i].phase = agents[i].phase /\ agents'[i].model = agents[i].model
      /\ agents'[i].need = agents[i].need
      /\ agents[i].phase \notin {"sealing", "reading"}
      /\ (Reading(agents[i]) /\ Rewrites(agents[i]) /\ Agrees(agents[i]))' => Works'
  BY <1>1, HeadLeaves
<1>3. history \in Seq(Records) /\ tail \in Seq(Records) /\ landed \in 0..Len(tail)
  BY DEF IInv, Types
<1> HIDE DEF r
<1>4. Stream' = Stream
  <2> DEFINE q == Queued'
             p == history \o tail
  <2>1. q \in Seq(Records) /\ p \in Seq(Records) /\ Queued = <<r>> \o q /\ r \in Records
    BY <1>2, <1>3
  <2>2. history \o Append(tail, r) = Append(p, r)
    <3>1. history \in Seq(Records) /\ tail \in Seq(Records) /\ r \in Records
      BY <1>2, <1>3
    <3> QED
      BY <3>1, ConcatAppend
  <2>3. Stream' = Append(p, r) \o q /\ Stream = p \o (<<r>> \o q)
    BY <1>1, <2>1, <2>2 DEF Stream
  <2> HIDE DEF p, q
  <2>4. Append(p, r) = p \o <<r>> /\ <<r>> \in Seq(Records)
    <3>1. p \in Seq(Records) /\ r \in Records
      BY <2>1
    <3> QED
      BY <3>1
  <2>5. (p \o <<r>>) \o q = p \o (<<r>> \o q)
    <3> DEFINE o == <<r>>
    <3>1. p \in Seq(Records) /\ o \in Seq(Records) /\ q \in Seq(Records)
      BY <2>1, <2>4
    <3> HIDE DEF o
    <3>2. (p \o o) \o q = p \o (o \o q)
      BY <3>1, RecordsAssociate, Zenon
    <3> QED
      BY <3>2 DEF o
  <2> QED
    BY <2>3, <2>4, <2>5
<1>5. tail' \in Seq(Records) /\ landed' \in 0..Len(tail') /\ OnDisk' = OnDisk
  <2>1. Append(tail, r) \in Seq(Records) /\ landed \in 0..Len(Append(tail, r))
    BY <1>2, <1>3
  <2>2. SubSeq(Append(tail, r), 1, landed) = SubSeq(tail, 1, landed)
    BY <1>2, <1>3
  <2> QED
    BY <1>1, <2>1, <2>2 DEF OnDisk
<1>6. Types'
  BY <1>1, <1>2, <1>5 DEF IInv, Types
<1>7. Fresh'
  BY <1>1, <1>4 DEF IInv, Fresh
<1>8. (Reading(agents[i]) /\ Rewrites(agents[i]) /\ Agrees(agents[i]))'
  <2>1. Kept(agents[i])' = Kept(agents[i])
    BY <1>1, <1>2 DEF Kept
  <2>2. Rewrites(agents[i]) /\ Agrees(agents[i])
    BY DEF IInv, Works
  <2> QED
    BY <1>1, <1>2, <1>4, <1>5, <2>1, <2>2 DEF Reading, Rewrites, Agrees
<1> QED
  BY <1>2, <1>6, <1>7, <1>8 DEF IInv

(* A record whose blobs are lost leaves the stream and what the models are  *)
(* held to.                                                                 *)
LEMMA OffloadFailsKeeps ==
  ASSUME IInv, NEW i \in DOMAIN agents, OffloadFails(i)
  PROVE  IInv'
<1> DEFINE r == Head(agents[i].queue).record
<1>1. /\ agents[i].queue # <<>> /\ agents' = [agents EXCEPT ![i].queue = Tail(@)]
      /\ dropped' = dropped \cup {r}
      /\ UNCHANGED <<history, tail, landed, sticky, promised, next, handle, creating>>
  BY DEF OffloadFails, journalVars
<1>2. /\ agents' \in Seq(Agent) /\ Len(agents') = Len(agents) /\ Old'
      /\ Queued' \in Seq(Records) /\ r \in Records
      /\ Queued = <<r>> \o Queued'
      /\ agents'[i].phase = agents[i].phase /\ agents'[i].model = agents[i].model
      /\ agents'[i].need = agents[i].need
      /\ agents[i].phase \notin {"sealing", "reading"}
      /\ (Reading(agents[i]) /\ Rewrites(agents[i]) /\ Agrees(agents[i]))' => Works'
  BY <1>1, HeadLeaves
<1>3. /\ history \in Seq(Records) /\ tail \in Seq(Records) /\ landed \in 0..Len(tail)
      /\ agents[i].model \in Seq(Records) /\ OnDisk \in Seq(Records)
      /\ Range(OnDisk) \subseteq Range(history) \cup Range(tail)
  <2>1. agents[i] \in Agent
    BY DEF IInv, Types
  <2> QED
    BY <2>1, StreamType DEF IInv, Types, Agent
<1> DEFINE q == Queued'
           p == history \o tail
           o == <<r>>
<1>4. /\ q \in Seq(Records) /\ p \in Seq(Records) /\ o \in Seq(Records)
      /\ Stream = p \o (o \o q) /\ Stream' = p \o q
  BY <1>1, <1>2, <1>3 DEF Stream
<1>5. Range(OnDisk) \subseteq Range(p) /\ Range(o) = {r}
  <2>1. Range(o) = {r}
    BY DEF Range
  <2>2. Range(p) = Range(history) \cup Range(tail)
    BY <1>3, RangeConcatenation
  <2> QED
    BY <1>3, <2>1, <2>2
<1> HIDE DEF q, p, r, o
<1>6. Distinct(Stream) /\ \A x \in Range(Stream) : x < next /\ x \notin dropped
  BY DEF IInv, Fresh
<1>7. Stream = (p \o o) \o q
  BY <1>4, RecordsAssociate, Zenon
<1>8. /\ Range(Stream) = Range(p) \cup {r} \cup Range(q)
      /\ Range(p \o q) = Range(p) \cup Range(q)
      /\ r \notin Range(p) /\ r \notin Range(q) /\ Distinct(p \o q)
      /\ Only(Stream, Records \ {r}) = p \o q
  <2>1. Distinct((p \o o) \o q)
    BY <1>6, <1>7
  <2>0. q \in Seq(Records) /\ p \in Seq(Records) /\ o \in Seq(Records)
    BY <1>4
  <2>2. Remains(Records, p, o, q)
    BY <2>0, <2>1, TakenOut
  <2>3. r \in Range(o)
    BY <1>5
  <2>4. r \notin Range(p) /\ r \notin Range(q)
    BY <2>2, <2>3, Zenon DEF Remains
  <2> QED
    BY <1>5, <1>7, <2>2, <2>4 DEF Remains
<1>9. Types'
  BY <1>1, <1>2 DEF IInv, Types
<1>10. Fresh'
  <2>1. \A x \in Range(p \o q) : x < next /\ x \notin dropped \cup {r}
    BY <1>6, <1>8
  <2>2. \A x \in dropped \cup {r} : x < next
    BY <1>6, <1>8 DEF IInv, Fresh
  <2> QED
    BY <1>1, <1>4, <1>8, <2>1, <2>2 DEF Fresh
<1> DEFINE S == Records \ dropped
           R == Records \ {r}
           k == Kept(agents[i])
<1>11. Kept(agents[i])' = Only(k, R) /\ k \in Seq(Records)
  <2>1. Records \ (dropped \cup {r}) = S \cap R
    OBVIOUS
  <2>2. Only(agents[i].model, S \cap R) = Only(Only(agents[i].model, S), R)
    <3> DEFINE m == agents[i].model
    <3>1. m \in Seq(Records)
      BY <1>3
    <3> HIDE DEF m, S, R
    <3>2. Only(m, S \cap R) = Only(Only(m, S), R)
      BY <3>1, OnlyOnly
    <3> QED
      BY <3>2 DEF m
  <2>3. Kept(agents[i])' = Only(agents[i].model, Records \ (dropped \cup {r}))
    BY <1>1, <1>2 DEF Kept
  <2>4. k \in Seq(Records)
    BY <1>3, OnlyProperties DEF Kept
  <2> QED
    BY <2>1, <2>2, <2>3, <2>4 DEF Kept
<1>12. Only(Stream, R) = p \o q
  BY <1>8
<1>13. IsPrefix(OnDisk, k) => IsPrefix(OnDisk, Only(k, R))
  <2> DEFINE disk == OnDisk
  <2>1. disk \in Seq(Records) /\ Range(disk) \subseteq R
    BY <1>3, <1>5, <1>8, RangeOfSeq
  <2> HIDE DEF disk, k, S, R
  <2>2. Only(disk, R) = disk
    BY <2>1, OnlyAll
  <2>3. IsPrefix(disk, k) => IsPrefix(Only(disk, R), Only(k, R))
    BY <1>11, <2>1, PrefixOnly
  <2> QED
    BY <2>2, <2>3 DEF disk
<1> HIDE DEF k, S, R
<1>14. (Reading(agents[i]) /\ Rewrites(agents[i]) /\ Agrees(agents[i]))'
  <2>1. Rewrites(agents[i]) /\ Agrees(agents[i])
    BY DEF IInv, Works
  <2>2. OnDisk' = OnDisk
    BY <1>1 DEF OnDisk
  <2>3. Stream = k => Stream' = Kept(agents[i])'
    BY <1>4, <1>11, <1>12
  <2> QED
    BY <1>1, <1>2, <1>11, <1>13, <2>1, <2>2, <2>3 DEF Reading, Rewrites, Agrees, k
<1> QED
  BY <1>2, <1>9, <1>10, <1>14 DEF IInv

(* The log works: what it lands is the front of the stream, what it         *)
(* confirms moves within it, and it gives up only behind the last agent.    *)
LEMMA LogKeeps ==
  ASSUME IInv, LogWorks
  PROVE  IInv'
<1>1. UNCHANGED <<agents, handle, creating, next, dropped>> /\ Queued' = Queued
  BY DEF LogWorks, Queued, QueuedRecords
<1>2. /\ history \in Seq(Records) /\ tail \in Seq(Records) /\ landed \in 0..Len(tail)
      /\ sticky \in BOOLEAN /\ Queued \in Seq(Records) /\ Stream \in Seq(Records)
      /\ Len(tail) \in Nat /\ DistinctParts(history, tail, Queued)
      /\ Range(Stream) = Range(history) \cup Range(tail) \cup Range(Queued)
  BY StreamType DEF IInv, Types, Fresh
<1>3. Old'
  BY <1>1 DEF IInv, Old, Gone
<1>4. \A i \in DOMAIN agents : agents[i].phase # "rewriting"
  BY DEF LogWorks, Rewriting, Range
<1>5. CASE \E n \in 1..Len(tail) : Confirm(n)
  <2>1. PICK n \in 1..Len(tail) : Confirm(n)
    BY <1>5
  <2> DEFINE a == SubSeq(tail, 1, n)
             b == SubSeq(tail, n + 1, Len(tail))
  <2>2. /\ history' = history \o a /\ tail' = b /\ landed' = 0
        /\ sticky = FALSE /\ sticky' = FALSE /\ promised' = promised
    BY <1>2, <2>1 DEF Confirm
  <2>3. a \in Seq(Records) /\ b \in Seq(Records) /\ tail = a \o b
    <3>1. n \in 0..Len(tail)
      BY <1>2
    <3> QED
      BY <1>2, <3>1, CutAnywhere
  <2> HIDE DEF a, b
  <2>4. (history \o a) \o b = history \o tail /\ history \o a \in Seq(Records)
    <3>1. (history \o a) \o b = history \o (a \o b)
      <4>1. history \in Seq(Records) /\ a \in Seq(Records) /\ b \in Seq(Records)
        BY <1>2, <2>3
      <4> QED
        BY <4>1, RecordsAssociate, Zenon
    <3>2. history \o a \in Seq(Records)
      BY <1>2, <2>3
    <3> QED
      BY <2>3, <3>1, <3>2, Zenon
  <2>5. Stream' = Stream
    BY <1>1, <2>2, <2>4 DEF Stream
  <2>6. Range(history \o a) = Range(history) \cup Range(a) /\ Range(tail) = Range(a) \cup Range(b)
    BY <1>2, <2>3, RangeConcatenation
  <2>7. Types'
    <3>1. landed' \in 0..Len(tail')
      BY <2>2, <2>3
    <3> QED
      BY <1>1, <2>2, <2>3, <2>4, <2>6, <3>1 DEF IInv, Types
  <2>8. Fresh'
    BY <1>1, <2>5 DEF IInv, Fresh
  <2>9. ASSUME NEW i \in DOMAIN agents' PROVE (Reading(agents[i]) /\ Rewrites(agents[i]) /\ Agrees(agents[i]))'
    <3>1. Reading(agents[i]) /\ Agrees(agents[i]) /\ agents[i].phase # "rewriting"
      BY <1>1, <1>4 DEF IInv, Works
    <3>2. Kept(agents[i])' = Kept(agents[i])
      BY <1>1 DEF Kept
    <3> QED
      BY <1>1, <2>2, <2>5, <2>6, <3>1, <3>2 DEF Reading, Rewrites, Agrees
  <2> QED
    BY <1>3, <2>7, <2>8, <2>9 DEF IInv, Works
<1>6. CASE Land
  <2>1. /\ UNCHANGED <<history, tail, promised>> /\ landed' \in 0..Len(tail) /\ sticky' \in BOOLEAN
        /\ sticky => sticky' = sticky /\ landed' = landed
    BY <1>2, <1>6 DEF Land
  <2>2. Stream' = Stream
    BY <1>1, <2>1 DEF Stream
  <2>3. Types'
    BY <1>1, <2>1 DEF IInv, Types
  <2>4. Fresh'
    BY <1>1, <2>2 DEF IInv, Fresh
  <2>5. IsPrefix(OnDisk', Stream)
    <3> DEFINE a == SubSeq(tail, 1, landed')
               b == SubSeq(tail, landed' + 1, Len(tail))
    <3>1. a \in Seq(Records) /\ b \in Seq(Records) /\ tail = a \o b
      BY <1>2, <2>1, CutAnywhere
    <3>2. OnDisk' = history \o a
      BY <2>1 DEF OnDisk
    <3> HIDE DEF a, b
    <3>3. (history \o a) \o b = history \o tail /\ history \o a \in Seq(Records)
      <4>1. (history \o a) \o b = history \o (a \o b)
        <5>1. history \in Seq(Records) /\ a \in Seq(Records) /\ b \in Seq(Records)
          BY <1>2, <3>1
        <5> QED
          BY <5>1, RecordsAssociate, Zenon
      <4>2. history \o a \in Seq(Records)
        BY <1>2, <3>1
      <4> QED
        BY <3>1, <4>1, <4>2, Zenon
    <3>4. ((history \o a) \o b) \o Queued = (history \o a) \o (b \o Queued) /\ b \o Queued \in Seq(Records)
      <4> DEFINE h == history \o a
                 q == Queued
      <4>1. h \in Seq(Records) /\ b \in Seq(Records) /\ q \in Seq(Records)
        BY <1>2, <3>1, <3>3
      <4> HIDE DEF h, q
      <4>2. (h \o b) \o q = h \o (b \o q) /\ b \o q \in Seq(Records)
        BY <4>1, ThreeParts
      <4> QED
        BY <4>2 DEF h, q
    <3>5. Stream = (history \o a) \o (b \o Queued)
      BY <3>3, <3>4 DEF Stream
    <3> QED
      BY <1>2, <3>2, <3>3, <3>4, <3>5, PrefixSplits
  <2>6. ASSUME NEW i \in DOMAIN agents' PROVE (Reading(agents[i]) /\ Rewrites(agents[i]) /\ Agrees(agents[i]))'
    <3>1. Reading(agents[i]) /\ Agrees(agents[i]) /\ agents[i].phase # "rewriting"
      BY <1>1, <1>4 DEF IInv, Works
    <3>2. Kept(agents[i])' = Kept(agents[i])
      BY <1>1 DEF Kept
    <3>3. (Reading(agents[i]) /\ Rewrites(agents[i]))'
      BY <1>1, <2>1, <3>1 DEF Reading, Rewrites
    <3>4. Agrees(agents[i])'
      <4>1. CASE sticky
        <5>1. OnDisk' = OnDisk
          BY <2>1, <4>1 DEF OnDisk
        <5> QED
          BY <1>1, <2>1, <3>1, <3>2, <4>1, <5>1 DEF Agrees
      <4>2. CASE ~sticky
        BY <1>1, <2>2, <2>5, <3>1, <3>2, <4>2 DEF Agrees
      <4> QED
        BY <4>1, <4>2
    <3> QED
      BY <3>3, <3>4
  <2> QED
    BY <1>3, <2>3, <2>4, <2>6 DEF IInv, Works
<1>7. CASE AllGone /\ Abandon(Len(tail))
  <2> DEFINE a == SubSeq(tail, 1, landed)
             b == SubSeq(tail, landed + 1, Len(tail))
  <2>1. /\ history' = history \o a /\ tail' = <<>> /\ landed' = 0 /\ sticky' = FALSE
        /\ promised' = promised
    BY <1>2, <1>7 DEF Abandon
  <2>2. a \in Seq(Records) /\ b \in Seq(Records) /\ tail = a \o b
    BY <1>2, CutAnywhere
  <2> HIDE DEF a, b
  <2>3. /\ history \o a \in Seq(Records) /\ (history \o a) \o <<>> = history \o a
        /\ Range(history \o a) = Range(history) \cup Range(a)
        /\ Range(tail) = Range(a) \cup Range(b)
    BY <1>2, <2>2, RangeConcatenation
  <2>4. Stream' = (history \o a) \o Queued
    BY <1>1, <2>1, <2>3 DEF Stream
  <2>5. Distinct((history \o a) \o Queued)
    <3>1. /\ Distinct(a \o b) /\ Distinct(history) /\ Distinct(Queued)
          /\ \A x \in Range(history) : x \notin Range(tail) /\ x \notin Range(Queued)
          /\ \A x \in Range(tail) : x \notin Range(Queued)
      BY <1>2, <2>2 DEF DistinctParts
    <3>2. Distinct(a)
      BY <2>2, <3>1, DistinctConcat
    <3>3. DistinctParts(history, a, Queued)
      <4>1. Range(a) \subseteq Range(tail)
        BY <2>3
      <4> QED
        BY <3>1, <3>2, <4>1 DEF DistinctParts
    <3> QED
      BY <1>2, <2>2, <3>3, ThreeParts
  <2>6. Range((history \o a) \o Queued) \subseteq Range(Stream)
    <3>1. Range((history \o a) \o Queued) = Range(history) \cup Range(a) \cup Range(Queued)
      BY <1>2, <2>2, ThreeParts
    <3> QED
      BY <1>2, <2>3, <3>1
  <2>7. Types'
    <3>1. tail' \in Seq(Records) /\ landed' \in 0..Len(tail')
      BY <2>1
    <3> QED
      BY <1>1, <2>1, <2>3, <3>1 DEF IInv, Types
  <2>8. Fresh'
    BY <1>1, <2>4, <2>5, <2>6 DEF IInv, Fresh
  <2>9. \A i \in DOMAIN agents' : (Reading(agents[i]) /\ Rewrites(agents[i]) /\ Agrees(agents[i]))'
    BY <1>1, <1>7 DEF AllGone, Gone, Range, Reading, Rewrites, Agrees
  <2> QED
    BY <1>3, <2>7, <2>8, <2>9 DEF IInv, Works
<1> QED
  BY <1>5, <1>6, <1>7 DEF LogWorks

(* A crash ends every agent and its queue; the disk keeps the front of the  *)
(* stream.                                                                  *)
LEMMA CrashKeeps ==
  ASSUME IInv, ProcessCrash
  PROVE  IInv'
<1>1. /\ history \in Seq(Records) /\ tail \in Seq(Records) /\ Queued \in Seq(Records)
      /\ Len(tail) \in Nat /\ DistinctParts(history, tail, Queued)
      /\ Range(Stream) = Range(history) \cup Range(tail) \cup Range(Queued)
      /\ agents \in Seq(Agent) /\ Len(agents) \in Nat /\ DOMAIN agents = 1..Len(agents)
  BY StreamType DEF IInv, Types, Fresh
<1>2. PICK n \in 0..Len(tail) : history' = history \o SubSeq(tail, 1, n)
  BY DEF ProcessCrash, Crash
<1> DEFINE a == SubSeq(tail, 1, n)
           b == SubSeq(tail, n + 1, Len(tail))
<1>3. /\ history' = history \o a /\ tail' = <<>> /\ landed' = 0 /\ sticky' = FALSE
      /\ UNCHANGED <<promised, next, dropped>> /\ handle' = 0 /\ creating' = 0
  BY <1>2 DEF ProcessCrash, Crash
<1>4. a \in Seq(Records) /\ b \in Seq(Records) /\ tail = a \o b
  BY <1>1, <1>2, CutAnywhere
<1> HIDE DEF a, b
<1>5. /\ history \o a \in Seq(Records)
      /\ Range(history \o a) = Range(history) \cup Range(a)
      /\ Range(tail) = Range(a) \cup Range(b)
  BY <1>1, <1>4, RangeConcatenation
<1>6. Distinct(history \o a)
  <2>1. Distinct(a \o b) /\ Distinct(history) /\ \A x \in Range(history) : x \notin Range(tail)
    BY <1>1, <1>4 DEF DistinctParts
  <2>2. Distinct(a) /\ \A x \in Range(history) : x \notin Range(a)
    BY <1>4, <1>5, <2>1, DistinctConcat
  <2> QED
    BY <1>1, <1>4, <2>1, <2>2, DistinctConcat
<1>7. /\ agents' \in Seq(Agent) /\ Len(agents') = Len(agents)
      /\ \A i \in 1..Len(agents) : agents'[i].phase = "disposed" /\ agents'[i].queue = <<>>
  <2> DEFINE new(i) == [agents[i] EXCEPT !.phase = "disposed", !.removed = TRUE,
                                         !.queue = <<>>, !.flushing = {}, !.need = {}]
  <2>1. ASSUME NEW i \in 1..Len(agents)
        PROVE  new(i) \in Agent /\ new(i).phase = "disposed" /\ new(i).queue = <<>>
    <3>1. agents[i] \in Agent
      BY <1>1
    <3>2. <<>> \in Seq(Entry)
      OBVIOUS
    <3> QED
      BY <3>1, <3>2 DEF Agent, Phases
  <2>2. agents' = [i \in 1..Len(agents) |-> new(i)]
    BY <1>1 DEF ProcessCrash
  <2> HIDE DEF new
  <2> QED
    BY <1>1, <2>1, <2>2
<1>8. DOMAIN agents' = 1..Len(agents)
  BY <1>7
<1>9. Queued' = <<>>
  <2>1. CASE agents' = <<>>
    BY <2>1 DEF Queued
  <2>2. CASE agents' # <<>>
    <3>1. Len(agents) \in 1..Len(agents)
      BY <1>1, <1>7, <2>2
    <3>2. agents'[Len(agents')].queue = <<>>
      BY <1>7, <3>1
    <3>3. QueuedRecords(agents[Len(agents)])' = <<>>
      BY <3>2 DEF QueuedRecords
    <3> QED
      BY <2>2, <3>3 DEF Queued
  <2> QED
    BY <2>1, <2>2
<1>10. Stream' = history \o a
  BY <1>3, <1>5, <1>9 DEF Stream
<1>11. Types'
  <2>1. tail' \in Seq(Records) /\ landed' \in 0..Len(tail')
    BY <1>3
  <2>2. handle' \in 0..Len(agents') /\ creating' \in 0..Len(agents')
    BY <1>1, <1>3, <1>7
  <2> QED
    BY <1>3, <1>5, <1>7, <2>1, <2>2 DEF IInv, Types
<1>12. Fresh'
  BY <1>1, <1>3, <1>5, <1>6, <1>10 DEF IInv, Fresh
<1>13. Old'
  BY <1>7, <1>8 DEF Old, Gone
<1>14. \A i \in DOMAIN agents' : (Reading(agents[i]) /\ Rewrites(agents[i]) /\ Agrees(agents[i]))'
  BY <1>7, <1>8 DEF Reading, Rewrites, Agrees
<1> QED
  BY <1>11, <1>12, <1>13, <1>14 DEF IInv, Works

-----------------------------------------------------------------------------
(* The theorems. *)

LEMMA InitOK == Init => IInv
<1> SUFFICES ASSUME Init PROVE IInv
  OBVIOUS
<1>1. PICK n \in 0..1 : history = [i \in 1..n |-> i] /\ next = n + 1
  BY DEF Init
<1>2. /\ tail = <<>> /\ landed = 0 /\ sticky = FALSE /\ promised = {} /\ agents = <<>>
      /\ handle = 0 /\ creating = 0 /\ dropped = {}
  BY DEF Init
<1>3. history \in Seq(Records) /\ Distinct(history) /\ \A r \in Range(history) : r < next
  <2>1. CASE n = 0
    <3>1. history = <<>>
      BY <1>1, <2>1
    <3> QED
      BY <3>1 DEF Distinct, Range
  <2>2. CASE n = 1
    <3>1. history = <<1>> /\ next = 2
      BY <1>1, <2>2
    <3>2. 1 \in Records
      BY RecordsNumbered
    <3> QED
      BY <3>1, <3>2 DEF Distinct, Range
  <2> QED
    BY <2>1, <2>2
<1>4. Stream = history
  BY <1>2, <1>3 DEF Stream, Queued
<1>5. Types
  <2>1. next \in Nat \ {0} /\ tail \in Seq(Records) /\ landed \in 0..Len(tail)
    BY <1>1, <1>2
  <2>2. agents \in Seq(Agent) /\ handle \in 0..Len(agents) /\ creating \in 0..Len(agents)
    BY <1>2
  <2> QED
    BY <1>2, <1>3, <2>1, <2>2 DEF Types
<1>6. Fresh
  BY <1>2, <1>3, <1>4 DEF Fresh
<1>7. Old /\ Works
  BY <1>2 DEF Old, Works
<1> QED
  BY <1>5, <1>6, <1>7 DEF IInv

(* The steps that NothingMoves covers.                                      *)
LEMMA FailureKeeps ==
  ASSUME IInv, NEW i \in DOMAIN agents, CreationFails(i) \/ RewriteFails(i) \/ Dispose(i)
  PROVE  IInv'
<1>1. /\ agents \in Seq(Agent) /\ agents[i] \in Agent /\ Rewrites(agents[i])
      /\ landed \in 0..Len(tail) /\ sticky \in BOOLEAN /\ promised \subseteq Range(history)
      /\ handle \in 0..Len(agents) /\ creating \in 0..Len(agents) /\ Len(agents) \in Nat
  BY DEF IInv, Types, Works
<1> DEFINE p == agents'[i].phase
           b == [agents[i] EXCEPT !.phase = p]
<1>2. /\ p \in {"disposed", "failed"} /\ agents' = [agents EXCEPT ![i].phase = p]
      /\ handle' \in 0..Len(agents) /\ creating' \in 0..Len(agents)
      /\ UNCHANGED <<next, dropped>>
  <2>1. ASSUME NEW x \in Phases, agents' = [agents EXCEPT ![i].phase = x] PROVE p = x
    <3>1. agents'[i] = [agents[i] EXCEPT !.phase = x]
      BY <1>1, <2>1
    <3> QED
      BY <1>1, <3>1 DEF Agent
  <2> HIDE DEF p
  <2>2. CASE CreationFails(i)
    <3>1. p = "failed"
      BY <2>1, <2>2 DEF CreationFails, Phases
    <3> QED
      BY <1>1, <2>2, <3>1 DEF CreationFails
  <2>3. CASE RewriteFails(i)
    <3>1. p = "failed"
      BY <2>1, <2>3 DEF RewriteFails, Phases
    <3> QED
      BY <1>1, <2>3, <3>1 DEF RewriteFails
  <2>4. CASE Dispose(i)
    <3>1. p = "disposed"
      BY <2>1, <2>4 DEF Dispose, To, Phases
    <3> QED
      BY <1>1, <2>4, <3>1 DEF Dispose, To
  <2> QED
    BY <2>2, <2>3, <2>4
<1>3. /\ UNCHANGED <<history, tail>> /\ landed' \in 0..Len(tail) /\ sticky' \in BOOLEAN
      /\ promised' \subseteq Range(history)
  <2>1. CASE CreationFails(i) \/ Dispose(i)
    BY <1>1, <2>1 DEF CreationFails, Dispose, journalVars
  <2>2. CASE RewriteFails(i)
    <3>1. agents[i].phase = "rewriting"
      BY <2>2 DEF RewriteFails, InPhase
    <3>2. Only(agents[i].model, agents[i].need) = history /\ landed = 0
      BY <1>1, <3>1 DEF Rewrites
    <3> QED
      BY <1>1, <2>2, <3>2 DEF RewriteFails, Replace, Rewritten
  <2> QED
    BY <2>1, <2>2
<1> HIDE DEF p
<1>4. b \in Agent /\ b.queue = agents[i].queue /\ b.model = agents[i].model /\ b.need = agents[i].need
      /\ b.phase = p
  BY <1>1, <1>2 DEF Agent, Phases
<1>5. agents' = [agents EXCEPT ![i] = b]
  BY <1>2
<1> HIDE DEF b
<1>6. /\ agents' \in Seq(Agent) /\ Len(agents') = Len(agents) /\ agents'[i] = b
      /\ \A j \in DOMAIN agents : j # i => agents'[j] = agents[j]
  BY <1>4, <1>5, AgentChanges DEF IInv
<1>7. ASSUME NEW j \in DOMAIN agents
      PROVE  /\ agents'[j].queue = agents[j].queue /\ agents'[j].model = agents[j].model
             /\ agents'[j].need = agents[j].need
             /\ \/ agents'[j].phase \in {"disposed", "failed"}
                \/ agents'[j].phase = agents[j].phase /\ landed' = landed /\ sticky' = sticky
  <2>1. CASE j = i
    BY <1>2, <1>4, <1>6, <2>1
  <2>2. CASE j # i
    <3>1. CASE Gone(agents[j])
      BY <1>6, <2>2, <3>1 DEF Gone
    <3>2. CASE ~Gone(agents[j])
      \* i works in a rewrite, and only the last agent does
      <4>1. CASE CreationFails(i) \/ Dispose(i)
        BY <1>6, <2>2, <4>1 DEF CreationFails, Dispose, journalVars
      <4>2. CASE RewriteFails(i)
        <5>1. ~Gone(agents[i])
          BY <4>2 DEF RewriteFails, InPhase, Gone
        <5>2. i = Len(agents) /\ j = Len(agents)
          BY <1>1, <3>2, <5>1 DEF IInv, Old
        <5> QED
          BY <2>2, <5>2
      <4> QED
        BY <4>1, <4>2
    <3> QED
      BY <3>1, <3>2
  <2> QED
    BY <2>1, <2>2
<1> QED
  BY <1>2, <1>3, <1>6, <1>7, NothingMoves

(* A flush begins and ends, an agent is removed: nothing moves either.      *)
LEMMA FlushKeeps ==
  ASSUME IInv, NEW i \in DOMAIN agents, FlushCall(i) \/ FlushEnds(i)
  PROVE  IInv'
<1>1. /\ agents \in Seq(Agent) /\ agents[i] \in Agent /\ agents[i].flushing \in SUBSET Records
      /\ landed \in 0..Len(tail) /\ sticky \in BOOLEAN /\ promised \subseteq Range(history)
      /\ handle \in 0..Len(agents) /\ creating \in 0..Len(agents)
  <2>1. agents \in Seq(Agent) /\ agents[i] \in Agent
    BY DEF IInv, Types
  <2>2. agents[i].flushing \in SUBSET Records
    BY <2>1 DEF Agent
  <2> QED
    BY <2>1, <2>2 DEF IInv, Types
<1> DEFINE f == agents'[i].flushing
           b == [agents[i] EXCEPT !.flushing = f]
<1>2. f \in SUBSET Records /\ agents' = [agents EXCEPT ![i].flushing = f]
  <2>1. \A x \in SUBSET Records : agents' = [agents EXCEPT ![i].flushing = x] => f = x
    <3> SUFFICES ASSUME NEW x \in SUBSET Records, agents' = [agents EXCEPT ![i].flushing = x] PROVE f = x
      OBVIOUS
    <3>1. agents'[i] = [agents[i] EXCEPT !.flushing = x]
      BY <1>1
    <3> QED
      BY <1>1, <3>1 DEF Agent
  <2> HIDE DEF f
  <2>2. CASE FlushCall(i)
    <3>1. agents[i].model \in Seq(Records)
      BY <1>1 DEF Agent
    <3>2. Range(agents[i].model) \ dropped \in SUBSET Records
      BY <3>1, RangeOfSeq
    <3> QED
      BY <2>1, <2>2, <3>2 DEF FlushCall
  <2>3. CASE FlushEnds(i)
    BY <2>1, <2>3 DEF FlushEnds
  <2> QED
    BY <2>2, <2>3
<1>3. /\ UNCHANGED <<history, tail, landed, sticky, next, dropped, handle, creating>>
      /\ promised' \subseteq Range(history)
  BY <1>1 DEF FlushCall, FlushEnds, Promise, journalVars
<1> HIDE DEF f
<1>4. b \in Agent /\ b.queue = agents[i].queue /\ b.model = agents[i].model /\ b.need = agents[i].need
      /\ b.phase = agents[i].phase
  BY <1>1, <1>2 DEF Agent
<1>5. agents' = [agents EXCEPT ![i] = b]
  BY <1>2
<1> HIDE DEF b
<1>6. /\ agents' \in Seq(Agent) /\ Len(agents') = Len(agents) /\ agents'[i] = b
      /\ \A j \in DOMAIN agents : j # i => agents'[j] = agents[j]
  BY <1>4, <1>5, AgentChanges DEF IInv
<1>7. ASSUME NEW j \in DOMAIN agents
      PROVE  /\ agents'[j].queue = agents[j].queue /\ agents'[j].model = agents[j].model
             /\ agents'[j].need = agents[j].need /\ agents'[j].phase = agents[j].phase
  <2>1. CASE j = i
    BY <1>4, <1>6, <2>1
  <2>2. CASE j # i
    BY <1>6, <2>2
  <2> QED
    BY <2>1, <2>2
<1> QED
  BY <1>1, <1>3, <1>6, <1>7, NothingMoves

LEMMA RemoveKeeps ==
  ASSUME IInv, RemoveAgent
  PROVE  IInv'
<1>1. /\ agents \in Seq(Agent) /\ landed \in 0..Len(tail) /\ sticky \in BOOLEAN
      /\ promised \subseteq Range(history) /\ handle \in 1..Len(agents) /\ creating \in 0..Len(agents)
      /\ Len(agents) \in Nat /\ handle \in DOMAIN agents
  BY DEF IInv, Types, RemoveAgent
<1>2. /\ UNCHANGED <<history, tail, landed, sticky, promised, next, dropped, creating>> /\ handle' = 0
      /\ agents' = [agents EXCEPT ![handle].removed = TRUE]
  BY DEF RemoveAgent, journalVars
<1> DEFINE b == [agents[handle] EXCEPT !.removed = TRUE]
<1>3. b \in Agent /\ b.queue = agents[handle].queue /\ b.model = agents[handle].model
      /\ b.need = agents[handle].need /\ b.phase = agents[handle].phase
  <2>1. agents[handle] \in Agent
    BY <1>1
  <2> QED
    BY <2>1 DEF Agent
<1>4. agents' = [agents EXCEPT ![handle] = b]
  BY <1>2
<1> HIDE DEF b
<1>5. /\ agents' \in Seq(Agent) /\ Len(agents') = Len(agents) /\ agents'[handle] = b
      /\ \A j \in DOMAIN agents : j # handle => agents'[j] = agents[j]
  BY <1>1, <1>3, <1>4
<1>6. ASSUME NEW j \in DOMAIN agents
      PROVE  /\ agents'[j].queue = agents[j].queue /\ agents'[j].model = agents[j].model
             /\ agents'[j].need = agents[j].need /\ agents'[j].phase = agents[j].phase
  <2>1. CASE j = handle
    BY <1>3, <1>5, <2>1
  <2>2. CASE j # handle
    BY <1>5, <2>2
  <2> QED
    BY <2>1, <2>2
<1>7. handle' \in 0..Len(agents)
  BY <1>1, <1>2
<1> QED
  BY <1>1, <1>2, <1>5, <1>6, <1>7, NothingMoves

LEMMA StutterKeeps ==
  ASSUME IInv, UNCHANGED allVars
  PROVE  IInv'
<1>1. /\ UNCHANGED <<history, tail, landed, sticky, promised, agents, handle, creating, next, dropped>>
      /\ agents \in Seq(Agent) /\ landed \in 0..Len(tail) /\ sticky \in BOOLEAN
      /\ promised \subseteq Range(history) /\ handle \in 0..Len(agents) /\ creating \in 0..Len(agents)
  BY DEF IInv, Types, allVars, journalVars, wireVars
<1> QED
  BY <1>1, NothingMoves

LEMMA StepOK == ~Overlap /\ IInv /\ [Next]_allVars => IInv'
<1> SUFFICES ASSUME ~Overlap, IInv, [Next]_allVars PROVE IInv'
  OBVIOUS
<1>1. CASE Create
  BY <1>1, CreateKeeps
<1>2. CASE RemoveAgent
  BY <1>2, RemoveKeeps
<1>3. CASE LogWorks
  BY <1>3, LogKeeps
<1>4. CASE ProcessCrash
  BY <1>4, CrashKeeps
<1>5. ASSUME NEW i \in DOMAIN agents, Work(i) \/ FlushCall(i) \/ \E blob \in BOOLEAN : Dispatch(i, blob)
      PROVE  IInv'
  <2>1. CASE Seal(i)
    BY <2>1, SealKeeps
  <2>2. CASE Replay(i)
    BY <2>2, ReplayKeeps
  <2>3. CASE ReadFails(i)
    BY <2>3, FailureKeeps DEF ReadFails
  <2>4. CASE RewriteEnds(i)
    BY <2>4, RewriteEndsKeeps
  <2>5. CASE RewriteFails(i) \/ Dispose(i)
    BY <2>5, FailureKeeps
  <2>6. CASE Offload(i)
    BY <2>6, OffloadKeeps
  <2>7. CASE OffloadFails(i)
    BY <2>7, OffloadFailsKeeps
  <2>8. CASE FlushEnds(i) \/ FlushCall(i)
    BY <2>8, FlushKeeps
  <2>9. CASE \E blob \in BOOLEAN : Dispatch(i, blob)
    BY <2>9, DispatchKeeps
  <2> QED
    BY <1>5, <2>1, <2>2, <2>3, <2>4, <2>5, <2>6, <2>7, <2>8, <2>9 DEF Work
<1>6. CASE UNCHANGED allVars
  BY <1>6, StutterKeeps
<1> QED
  BY <1>1, <1>2, <1>3, <1>4, <1>5, <1>6 DEF Next

(* The parts of the invariant hold together.                                *)
THEOREM WireInvariant ==
  ASSUME ~Overlap PROVE Spec => []IInv
<1>1. IInv /\ [Next]_allVars => IInv'
  BY StepOK
<1> QED
  BY <1>1, InitOK, PTL DEF Spec

(* What is on disk, in the log and in the persist queue is what the models  *)
(* saw, in order and less the records whose blobs were lost, whatever       *)
(* fails, ends or crashes: an agent that replays starts from what its       *)
(* predecessors left, and no record overtakes another.                      *)
THEOREM JournalTheorem ==
  ASSUME ~Overlap PROVE Spec => []JournalIsModel
<1>1. IInv => JournalIsModel
  <2> SUFFICES ASSUME IInv, NEW i \in DOMAIN agents, agents[i].phase \in {"rewriting", "ready"}
               PROVE  IF sticky THEN IsPrefix(OnDisk, Kept(agents[i]))
                      ELSE history \o tail \o QueuedRecords(agents[i]) = Kept(agents[i])
    BY DEF JournalIsModel, Kept
  <2>1. Rewrites(agents[i]) /\ Agrees(agents[i]) /\ agents \in Seq(Agent)
    BY DEF IInv, Works, Types
  <2>2. Queued = QueuedRecords(agents[i])
    <3>1. i = Len(agents) /\ agents # <<>>
      BY <2>1 DEF IInv, Old, Gone
    <3> QED
      BY <3>1 DEF Queued
  <2>3. CASE agents[i].phase = "rewriting"
    <3>1. Stream = Kept(agents[i])
      BY <2>1, <2>3 DEF Rewrites
    <3>2. Stream \in Seq(Records) /\ OnDisk \in Seq(Records) /\ Queued \in Seq(Records)
          /\ OnDisk \o SubSeq(tail, landed + 1, Len(tail)) \o Queued = Stream
          /\ SubSeq(tail, landed + 1, Len(tail)) \in Seq(Records)
      BY StreamType DEF IInv
    <3>3. IsPrefix(OnDisk, Stream)
      <4> DEFINE o == OnDisk
                 b == SubSeq(tail, landed + 1, Len(tail))
                 q == Queued
      <4>0. (o \o b) \o q = Stream
        BY <3>2
      <4>1. o \in Seq(Records) /\ b \in Seq(Records) /\ q \in Seq(Records)
        BY <3>2
      <4> HIDE DEF o, b, q
      <4>2. (o \o b) \o q = o \o (b \o q) /\ b \o q \in Seq(Records)
        BY <4>1, ThreeParts
      <4> QED
        BY <3>2, <4>0, <4>1, <4>2, PrefixSplits DEF o
    <3> QED
      BY <2>2, <3>1, <3>3 DEF Stream
  <2>4. CASE agents[i].phase = "ready"
    BY <2>1, <2>2, <2>4 DEF Agrees, Stream
  <2> QED
    BY <2>3, <2>4
<1> QED
  BY <1>1, WireInvariant, PTL

(* A flush is never reported for a record that a later replay may miss.     *)
THEOREM PromiseTheorem ==
  ASSUME ~Overlap PROVE Spec => []PromisesAreReplayed
<1>1. IInv /\ JournalIsModel => PromisesAreReplayed
  <2> SUFFICES ASSUME IInv, JournalIsModel,
                      NEW i \in DOMAIN agents, agents[i].phase \in {"rewriting", "ready"}
               PROVE  promised \subseteq Range(agents[i].model)
    BY DEF PromisesAreReplayed
  <2>1. /\ promised \subseteq Range(history) /\ Range(history) \subseteq Range(OnDisk)
        /\ history \in Seq(Records) /\ tail \in Seq(Records) /\ OnDisk \in Seq(Records)
        /\ agents[i] \in Agent
    BY StreamType DEF IInv, Types
  <2> DEFINE k == Kept(agents[i])
  <2>2. k \in Seq(Records) /\ Range(k) \subseteq Range(agents[i].model)
    <3>1. agents[i].model \in Seq(Records)
      BY <2>1 DEF Agent
    <3> QED
      BY <3>1, OnlyProperties DEF Kept
  <2>3. IF sticky THEN IsPrefix(OnDisk, k) ELSE history \o tail \o QueuedRecords(agents[i]) = k
    BY DEF JournalIsModel, Kept
  <2> HIDE DEF k
  <2>4. CASE sticky
    <3>1. PICK u \in Seq(Records) : k = OnDisk \o u
      BY <2>1, <2>2, <2>3, <2>4, PrefixSplits
    <3>2. Range(OnDisk \o u) = Range(OnDisk) \cup Range(u)
      BY <2>1, RangeConcatenation
    <3> QED
      BY <2>1, <2>2, <3>1, <3>2
  <2>5. CASE ~sticky
    <3>1. QueuedRecords(agents[i]) \in Seq(Records)
      BY <2>1, QueueRecords
    <3>2. Range(history \o tail \o QueuedRecords(agents[i]))
            = Range(history) \cup Range(tail) \cup Range(QueuedRecords(agents[i]))
      <4> DEFINE q == QueuedRecords(agents[i])
      <4>1. q \in Seq(Records)
        BY <3>1
      <4> HIDE DEF q
      <4>2. Range((history \o tail) \o q) = Range(history) \cup Range(tail) \cup Range(q)
        BY <2>1, <4>1, ThreeParts
      <4> QED
        BY <4>2 DEF q
    <3> QED
      BY <2>1, <2>2, <2>3, <2>5, <3>2
  <2> QED
    BY <2>4, <2>5
<1> QED
  BY <1>1, WireInvariant, JournalTheorem, PTL

(* The wire asks of its log only what Journal allows: every accepted record *)
(* is new to it, a rewrite replaces the history by itself, only what is     *)
(* durable is promised.                                                     *)
THEOREM WireUsesJournal ==
  ASSUME ~Overlap PROVE Spec => [][JNext]_journalVars
<1>1. IInv /\ IInv' /\ [Next]_allVars => [JNext]_journalVars
  <2> SUFFICES ASSUME IInv, IInv', [Next]_allVars PROVE [JNext]_journalVars
    OBVIOUS
  <2>1. CASE Create \/ RemoveAgent \/ UNCHANGED allVars
    BY <2>1 DEF Create, RemoveAgent, allVars
  <2>2. CASE LogWorks
    <3>1. Len(tail) \in 0..Len(tail)
      BY DEF IInv, Types
    <3> QED
      BY <2>2, <3>1 DEF LogWorks, JNext
  <2>3. CASE ProcessCrash
    BY <2>3 DEF ProcessCrash, JNext
  <2>4. ASSUME NEW i \in DOMAIN agents, Work(i) \/ FlushCall(i) \/ \E blob \in BOOLEAN : Dispatch(i, blob)
        PROVE  [JNext]_journalVars
    <3>1. CASE Seal(i) \/ Replay(i) \/ ReadFails(i) \/ OffloadFails(i) \/ FlushCall(i) \/ Dispose(i)
      BY <3>1 DEF Seal, Replay, ReadFails, CreationFails, OffloadFails, FlushCall, Dispose
    <3>2. CASE RewriteEnds(i) \/ RewriteFails(i)
      <4>1. Rewritten(i) = history /\ landed = 0
        BY <3>2 DEF RewriteEnds, RewriteFails, InPhase, IInv, Works, Rewrites, Rewritten
      <4>2. CASE Replace(Rewritten(i))
        BY <4>1, <4>2 DEF JNext
      <4>3. CASE sticky' = TRUE /\ UNCHANGED <<history, tail, landed, promised>>
        <5>1. Land
          <6>1. sticky \in BOOLEAN /\ landed \in landed..Len(tail)
            BY DEF IInv, Types
          <6> QED
            BY <4>3, <6>1 DEF Land
        <5> QED
          BY <5>1 DEF JNext
      <4> QED
        BY <3>2, <4>2, <4>3 DEF RewriteEnds, RewriteFails
    <3>3. CASE Offload(i)
      <4>1. Head(agents[i].queue).record \in Records /\ Accept(Head(agents[i].queue).record)
        BY <3>3, HeadLeaves DEF Offload
      <4> QED
        BY <4>1 DEF JNext
    <3>4. CASE FlushEnds(i)
      BY <3>4 DEF FlushEnds, JNext, Promise
    <3>5. CASE \E blob \in BOOLEAN : Dispatch(i, blob)
      BY <3>5 DEF Dispatch, JNext
    <3> QED
      BY <2>4, <3>1, <3>2, <3>3, <3>4, <3>5 DEF Work
  <2> QED
    BY <2>1, <2>2, <2>3, <2>4 DEF Next
<1> QED
  BY <1>1, WireInvariant, PTL DEF Spec
=============================================================================
