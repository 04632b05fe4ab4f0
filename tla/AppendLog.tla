----------------------------- MODULE AppendLog -----------------------------
(***************************************************************************)
(* One log of AppendLogStore on the node-fs storage: the buffers a key has *)
(* one after the other, the chain of flush promises of each, the file.     *)
(* Records are numbers in the order of their acceptance; a batch is a run  *)
(* of them.  Between two actions the event loop may run anything else.     *)
(***************************************************************************)
EXTENDS Integers, Sequences, SequencesExt, Queues

CONSTANTS
  MaxRecords,    \* bound on accepted records
  MaxRewrites,   \* bound on rewrites
  MaxBuffers,    \* bound on the buffers of the key
  MaxCrashes,    \* bound on crashes
  Callers,       \* callers of flush and read, each waiting for one thing at a time
  RewriteEarly,  \* whether a rewrite may be called while the buffer before still retires
  Faults         \* what storage may do: "append" and "write" fail, a crash or failure leaves "torn" lines

ASSUME Bounds == /\ MaxRecords \in Nat /\ MaxRewrites \in Nat
                 /\ MaxBuffers \in Nat \ {0} /\ MaxCrashes \in Nat
ASSUME Options == RewriteEarly \in BOOLEAN /\ Faults \subseteq {"append", "write", "torn"}

(* A line of the file is a record, an unfinished last line or a line that   *)
(* was written behind an unfinished one.                                    *)
Torn == -1
Corrupted == -2

VARIABLES
  file,       \* lines of the file
  bufs,       \* LogStates of the key, oldest first; the map holds the last one
  accepted,   \* records accepted so far
  promised,   \* records that a flush or read of a caller reported as durable
  rewrites, crashes

vars == <<file, bufs, accepted, promised, rewrites, crashes>>

(* A flush promise: the operation at the head of the chain runs, each other *)
(* one is a rewrite that waits for those before it.  promises: per waiting  *)
(* caller what it wants to be durable.                                      *)
Operation(kind, records) ==
  [kind |-> kind, stage |-> "start", data |-> records, promises |-> <<>>]
Drain == Operation("drain", <<>>)

NewBuffer ==
  [pending |-> <<>>, chain |-> <<>>, scheduled |-> FALSE, failure |-> FALSE,
   refs |-> 0, retired |-> FALSE]

(* Retired and settled: its retirement promise has resolved.                *)
Settled(b) == b.retired /\ b.chain = <<>>

(* ready: the storage operations of the buffer before are over.             *)
Ready(g) == g > 1 => Settled(bufs[g - 1])

(* Mutant: a buffer without owners is replaced although it is not retired.  *)
BuffersByOwner ==
  IF bufs = <<>> \/ Last(bufs).refs = 0 THEN Append(bufs, NewBuffer) ELSE bufs

(* The map entry, replaced when its buffer is retired.                      *)
StateBuffers ==
  IF bufs = <<>> \/ Last(bufs).retired THEN Append(bufs, NewBuffer) ELSE bufs
InState(Change(_)) ==
  /\ Len(StateBuffers) <= MaxBuffers
  /\ bufs' = [StateBuffers EXCEPT ![Len(StateBuffers)] = Change(@)]

(* Whether a rewrite took over: flushPromise is another one, the epoch too. *)
Overtaken(b) == Len(b.chain) > 1

Lines(s) == Only(s, 1..accepted)
Unfinished(f) == f # <<>> /\ Last(f) = Torn

(* Bytes are appended behind the last line, finished or not.                *)
Written(f, lines) ==
  IF lines = <<>> \/ ~Unfinished(f) THEN f \o lines
  ELSE Front(f) \o (IF Head(lines) = Torn THEN <<Torn>> ELSE <<Corrupted>>) \o Tail(lines)

(* What an append of lines may leave when it does not end well.             *)
Partial(f, lines) ==
  {Written(f, SubSeq(lines, 1, n)) : n \in 0..Len(lines)} \cup
  (IF "torn" \in Faults
   THEN {Written(f, Append(SubSeq(lines, 1, n), Torn)) : n \in 0..(Len(lines) - 1)}
   ELSE {})

Init ==
  /\ file = <<>> /\ bufs = <<>>
  /\ accepted = 0 /\ promised = {}
  /\ rewrites = 0 /\ crashes = 0

-----------------------------------------------------------------------------
(* The records that wait in the buffers that still matter.                  *)
Waits(b) == IF Settled(b) THEN <<>> ELSE b.pending
Waiting == FlattenSeq([g \in DOMAIN bufs |-> Waits(bufs[g])])
History == Only(file, (1..accepted) \ Range(Waiting))

(* append(): the record joins the buffer; a microtask flushes it unless one *)
(* is scheduled or a flush is under way.                                    *)
AppendRecord ==
  /\ accepted < MaxRecords
  /\ accepted' = accepted + 1
  /\ InState(LAMBDA b : [b EXCEPT !.pending = Append(@, accepted + 1),
                                  !.scheduled = @ \/ b.chain = <<>>])
  /\ UNCHANGED <<file, promised, rewrites, crashes>>

(* Mutant: a failed log is drained again.                                   *)
FlushedAnyway(b, ticket) ==
  IF b.chain # <<>>
  THEN [b EXCEPT !.chain[Len(b.chain)].promises = @ \o ticket]
  ELSE [b EXCEPT !.chain = <<[Drain EXCEPT !.promises = ticket]>>]

(* flushState(): join the flush under way, fail at once behind a failure,   *)
(* or own a new drain.                                                      *)
Flushed(b, ticket) ==
  IF b.chain # <<>>
  THEN [b EXCEPT !.chain[Len(b.chain)].promises = @ \o ticket]
  ELSE IF b.failure THEN b
  ELSE [b EXCEPT !.chain = <<[Drain EXCEPT !.promises = ticket]>>]

Microtask(g) ==
  /\ bufs[g].scheduled
  /\ bufs' = [bufs EXCEPT ![g] = Flushed([@ EXCEPT !.scheduled = FALSE], <<>>)]
  /\ UNCHANGED <<file, accepted, promised, rewrites, crashes>>

Tickets(b) == FlattenSeq([i \in DOMAIN b.chain |-> b.chain[i].promises])
CallerWaits(c) == \E g \in DOMAIN bufs : \E t \in Range(Tickets(bufs[g])) : t.caller = c

(* What a caller that flushes buffer b may rely on once it resolves: what   *)
(* is durable already and what b holds.  The failure of a buffer that       *)
(* retires is swallowed, so the records of earlier buffers are not in it.   *)
Ticket(c, b) == <<[caller |-> c, records |-> Range(History) \cup Range(b.pending)]>>

(* flush() joins the buffer the map holds; with nothing to wait for it      *)
(* resolves at once.                                                        *)
FlushCall(c) ==
  /\ ~CallerWaits(c)
  /\ bufs # <<>> /\ ~Settled(Last(bufs))
  /\ Last(bufs).chain = <<>> => ~Last(bufs).failure
  /\ bufs' = [bufs EXCEPT ![Len(bufs)] = Flushed(@, Ticket(c, @))]
  /\ UNCHANGED <<file, accepted, promised, rewrites, crashes>>

(* read() flushes the key's buffer, a new one if the last has retired.      *)
ReadCall(c) ==
  /\ ~CallerWaits(c)
  /\ bufs # <<>> => Last(bufs).retired
  /\ InState(LAMBDA b : Flushed(b, Ticket(c, b)))
  /\ UNCHANGED <<file, accepted, promised, rewrites, crashes>>

(* rewrite(): takes over the flush promise at the call; the caller replaces *)
(* the history by the same records (a migration, a copy).                   *)
RewriteCall ==
  /\ rewrites < MaxRewrites
  /\ rewrites' = rewrites + 1
  /\ ~RewriteEarly => \A g \in DOMAIN bufs : bufs[g].retired => Settled(bufs[g])
  /\ InState(LAMBDA b : [b EXCEPT !.chain = Append(@, Operation("rewrite", History))])
  /\ UNCHANGED <<file, accepted, promised, crashes>>

Acquire ==
  /\ bufs # <<>> => Last(bufs).refs = 0
  /\ InState(LAMBDA b : [b EXCEPT !.refs = @ + 1])
  /\ UNCHANGED <<file, accepted, promised, rewrites, crashes>>

(* The last owner leaves: the buffer retires behind a last flush.           *)
Release ==
  /\ bufs # <<>> /\ Last(bufs).refs = 1
  /\ bufs' = [bufs EXCEPT ![Len(bufs)] =
                Flushed([@ EXCEPT !.refs = 0, !.retired = TRUE], <<>>)]
  /\ UNCHANGED <<file, accepted, promised, rewrites, crashes>>
-----------------------------------------------------------------------------
Op(g) == Head(bufs[g].chain)
Runs(g, kind, stage) ==
  /\ bufs[g].chain # <<>>
  /\ Op(g).kind = kind /\ Op(g).stage = stage

(* Promise jobs run before the event loop takes up a finished storage call. *)
NoJobLeft ==
  \A g \in DOMAIN bufs :
    /\ ~bufs[g].scheduled
    /\ bufs[g].chain # <<>> =>
         Op(g).stage = "io" \/ (Op(g).stage = "start" /\ ~Ready(g))

InStage(b, stage) == [b EXCEPT !.chain[1].stage = stage]

(* The loop of drain(): the next batch, or the end.                         *)
NextBatch(b) ==
  IF Overtaken(b) \/ b.pending = <<>> THEN InStage(b, "ok")
  ELSE [InStage(b, "io") EXCEPT !.chain[1].data = b.pending]

DrainStarts(g) ==
  /\ Runs(g, "drain", "start") /\ Ready(g)
  /\ bufs' = [bufs EXCEPT ![g] = NextBatch(@)]
  /\ UNCHANGED <<file, accepted, promised, rewrites, crashes>>

(* What the head of the chain wrote is not pending any more.                *)
Confirmed(b) ==
  [b EXCEPT !.pending = SubSeq(b.pending, Len(Head(b.chain).data) + 1, Len(b.pending))]

(* The batch is durable; a batch that a rewrite overtook stays pending.     *)
AppendEnds(g) ==
  /\ Runs(g, "drain", "io") /\ NoJobLeft
  /\ file' = Written(file, Op(g).data)
  /\ bufs' = [bufs EXCEPT ![g] =
       IF Overtaken(@) THEN InStage(@, "ok") ELSE NextBatch(Confirmed(@))]
  /\ UNCHANGED <<accepted, promised, rewrites, crashes>>

AppendFails(g) ==
  /\ "append" \in Faults
  /\ Runs(g, "drain", "io") /\ NoJobLeft
  /\ file' \in Partial(file, Op(g).data)
  /\ bufs' = [bufs EXCEPT ![g] = InStage([@ EXCEPT !.failure = TRUE], "failed")]
  /\ UNCHANGED <<accepted, promised, rewrites, crashes>>

RewriteStarts(g) ==
  /\ Runs(g, "rewrite", "start") /\ Ready(g)
  /\ bufs' = [bufs EXCEPT ![g] = InStage(@, "io")]
  /\ UNCHANGED <<file, accepted, promised, rewrites, crashes>>

RewriteEnds(g) ==
  /\ Runs(g, "rewrite", "io") /\ NoJobLeft
  /\ file' = Op(g).data
  /\ bufs' = [bufs EXCEPT ![g] = InStage([@ EXCEPT !.failure = FALSE], "ok")]
  /\ UNCHANGED <<accepted, promised, rewrites, crashes>>

(* Before the rename, or behind it while the directory is synced.           *)
RewriteFails(g) ==
  /\ "write" \in Faults
  /\ Runs(g, "rewrite", "io") /\ NoJobLeft
  /\ file' \in {file, Op(g).data}
  /\ bufs' = [bufs EXCEPT ![g] = InStage([@ EXCEPT !.failure = TRUE], "failed")]
  /\ UNCHANGED <<accepted, promised, rewrites, crashes>>

(* Mutants: nobody drains what came in meanwhile; a failed flush promises;  *)
(* a failed flush is never cleared.                                         *)
DrainsOnce(b)      == FALSE
KeptRegardless(b)  == UNION {t.records : t \in Range(Head(b.chain).promises)}
ClearedIfWell(b)   == IF Head(b.chain).stage = "ok" THEN Tail(b.chain) ELSE b.chain

DrainsAgain(b) == Head(b.chain).stage = "ok" /\ ~Overtaken(b) /\ b.pending # <<>>
Kept(b) == IF Head(b.chain).stage = "failed" \/ Overtaken(b) THEN {}
           ELSE UNION {t.records : t \in Range(Head(b.chain).promises)}
Cleared(b) == Tail(b.chain)

(* finishOwnedFlush(): still the owner and records came in meanwhile: drain *)
(* again; else the promise settles and wakes its callers.  What a flush     *)
(* that a rewrite overtook reports is not counted as a promise.             *)
Finish(g) ==
  /\ bufs[g].chain # <<>>
  /\ Op(g).stage \in {"ok", "failed"}
  /\ IF DrainsAgain(bufs[g])
     THEN /\ bufs' = [bufs EXCEPT ![g].chain[1] = [Drain EXCEPT !.promises = Op(g).promises]]
          /\ UNCHANGED promised
     ELSE /\ bufs' = [bufs EXCEPT ![g].chain = Cleared(bufs[g])]
          /\ promised' = promised \cup Kept(bufs[g])
  /\ UNCHANGED <<file, accepted, rewrites, crashes>>

(* The process dies; a storage operation may have gone any part of its way. *)
Crash ==
  /\ crashes < MaxCrashes
  /\ crashes' = crashes + 1
  /\ \/ UNCHANGED file
     \/ \E g \in DOMAIN bufs : Runs(g, "drain", "io") /\ file' \in Partial(file, Op(g).data)
     \/ \E g \in DOMAIN bufs : Runs(g, "rewrite", "io") /\ file' = Op(g).data
  /\ bufs' = <<>>
  /\ UNCHANGED <<accepted, promised, rewrites>>
-----------------------------------------------------------------------------
Clients ==
  \/ AppendRecord \/ RewriteCall \/ Acquire \/ Release
  \/ \E c \in Callers : FlushCall(c) \/ ReadCall(c)

Work(g) ==
  \/ Microtask(g) \/ DrainStarts(g) \/ RewriteStarts(g) \/ Finish(g)
  \/ AppendEnds(g) \/ AppendFails(g) \/ RewriteEnds(g) \/ RewriteFails(g)

Next == Clients \/ Crash \/ \E g \in DOMAIN bufs : Work(g)

Spec == Init /\ [][Next]_vars

(* Promise jobs run and storage answers, well or badly.                     *)
FairSpec == Spec /\ \A g \in 1..MaxBuffers : WF_vars(g \in DOMAIN bufs /\ Work(g))
-----------------------------------------------------------------------------
(* Every variable keeps its shape, and only the last buffer is not retired. *)
TypeOK ==
  /\ accepted \in 0..MaxRecords
  /\ rewrites \in 0..MaxRewrites /\ crashes \in 0..MaxCrashes
  /\ Range(file) \subseteq (1..accepted) \cup {Torn, Corrupted}
  /\ promised \subseteq 1..accepted
  /\ Len(bufs) <= MaxBuffers
  /\ \A g \in DOMAIN bufs :
       /\ Range(bufs[g].pending) \subseteq 1..accepted
       /\ bufs[g].refs \in 0..1
       /\ g < Len(bufs) => bufs[g].retired
       /\ \A i \in DOMAIN bufs[g].chain :
            /\ bufs[g].chain[i].kind \in {"drain", "rewrite"}
            /\ bufs[g].chain[i].stage \in {"start", "io", "ok", "failed"}
            /\ i > 1 => bufs[g].chain[i].kind = "rewrite" /\ bufs[g].chain[i].stage = "start"

(* The file is the history and then a prefix of what waits: no record is    *)
(* lost in between, none is there twice, whatever rewrites, failures and    *)
(* buffers come between its acceptance and its line.                        *)
FileIsHistoryAndTail == IsPrefix(Lines(file), History \o Waiting)

(* Unless a failure stops the log, records that wait have someone who will  *)
(* write them: a scheduled microtask or a flush under way.                  *)
NobodyForgotten ==
  \A g \in DOMAIN bufs :
    bufs[g].pending # <<>> /\ ~bufs[g].failure => bufs[g].scheduled \/ bufs[g].chain # <<>>

(* A flush or read that waits is answered.                                  *)
FlushesSettle == \A c \in Callers : CallerWaits(c) ~> ~CallerWaits(c)

(* "crash-tolerant decoding (a torn final line is dropped; corruption       *)
(* anywhere else throws)": whatever a crash or a failed append leaves, the  *)
(* log stays readable.                                                      *)
AlwaysReadable == ~Contains(file, Corrupted)

(* The log refines the abstract journal.                                    *)
J == INSTANCE Journal WITH
       Records <- 1..MaxRecords, history <- History, tail <- Waiting,
       landed <- Len(Only(file, Range(Waiting))),
       sticky <- \E g \in DOMAIN bufs : ~Settled(bufs[g]) /\ bufs[g].failure
KeepsJournal == J!JSpec
=============================================================================
