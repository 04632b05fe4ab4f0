--------------------------- MODULE AppendLogProofs ---------------------------
(***************************************************************************)
(* What AppendLog's records, buffers and file keep, for any bounds; and    *)
(* that the log implements Journal as long as no rewrite is called while a *)
(* buffer retires (RewriteEarly) and storage leaves no unfinished lines.   *)
(***************************************************************************)
EXTENDS AppendLog, SequenceFacts

-----------------------------------------------------------------------------
(* The shape of a buffer, whatever storage does.  n: records accepted.      *)

TicketSet(n) == [caller : Callers, records : SUBSET (1..n)]
Stages == {"start", "io", "ok", "failed"}
OpSet(n) == [kind : {"drain", "rewrite"}, stage : Stages, data : Seq(1..n), promises : Seq(TicketSet(n))]
BufferSet(n) ==
  [pending : Seq(1..n), chain : Seq(OpSet(n)), scheduled : BOOLEAN, failure : BOOLEAN,
   refs : 0..1, retired : BOOLEAN]

LineSet(n) == (1..n) \cup {Torn, Corrupted}

Types ==
  /\ accepted \in 0..MaxRecords /\ rewrites \in 0..MaxRewrites /\ crashes \in 0..MaxCrashes
  /\ file \in Seq(LineSet(accepted))
  /\ promised \subseteq 1..accepted
  /\ Len(bufs) <= MaxBuffers

(* Only the head of the chain runs; a failure stops the log until a rewrite *)
(* succeeds, which is why no drain is ever started behind one.              *)
HeadOk(o, failure, pending) ==
  /\ o.stage = "failed" => failure
  /\ o.kind = "drain" /\ o.stage # "failed" => ~failure
  /\ o.kind = "rewrite" /\ o.stage = "ok" => ~failure
  /\ o.kind = "drain" /\ o.stage = "io" => o.data # <<>> /\ IsPrefix(o.data, pending)
HeadSound(b) == b.chain # <<>> => HeadOk(b.chain[1], b.failure, b.pending)

RestSound(b) ==
  \A i \in DOMAIN b.chain : i > 1 => b.chain[i].kind = "rewrite" /\ b.chain[i].stage = "start"

(* What waits is taken care of, and a microtask finds something to do.      *)
PendingSound(b) ==
  /\ b.pending # <<>> /\ ~b.failure => b.scheduled \/ b.chain # <<>>
  /\ b.scheduled => b.pending # <<>>
  /\ b.retired => b.refs = 0
  /\ Settled(b) /\ b.scheduled => b.failure

Sound(b) == HeadSound(b) /\ RestSound(b) /\ PendingSound(b)

(* Buffers of one key: all but the last are retired.                        *)
Buffers(B, n) ==
  /\ B \in Seq(BufferSet(n))
  /\ \A g \in DOMAIN B : g < Len(B) => B[g].retired
  /\ \A g \in DOMAIN B : Sound(B[g])

BInv == Types /\ Buffers(bufs, accepted)

-----------------------------------------------------------------------------
(* What the steps make of one buffer. *)

LEMMA NewBufferSound ==
  ASSUME NEW n \in Nat
  PROVE  /\ NewBuffer \in BufferSet(n) /\ Sound(NewBuffer) /\ ~NewBuffer.retired
         /\ NewBuffer.pending = <<>> /\ NewBuffer.chain = <<>> /\ ~NewBuffer.failure
         /\ NewBuffer.refs = 0 /\ ~NewBuffer.scheduled
BY DEF NewBuffer, BufferSet, Sound, HeadSound, HeadOk, RestSound, PendingSound, Settled

(* Two chains that differ in their promises only.                           *)
SameOps(b, c) ==
  /\ Len(c.chain) = Len(b.chain)
  /\ \A i \in DOMAIN b.chain :
       /\ c.chain[i].kind = b.chain[i].kind /\ c.chain[i].stage = b.chain[i].stage
       /\ c.chain[i].data = b.chain[i].data
SameRest(b, c) ==
  /\ c.pending = b.pending /\ c.scheduled = b.scheduled /\ c.failure = b.failure
  /\ c.refs = b.refs /\ c.retired = b.retired

LEMMA OpFields ==
  ASSUME NEW n \in Nat, NEW b \in BufferSet(n)
  PROVE  /\ b.chain \in Seq(OpSet(n)) /\ b.pending \in Seq(1..n) /\ Len(b.chain) \in Nat
         /\ b.scheduled \in BOOLEAN /\ b.failure \in BOOLEAN /\ b.refs \in 0..1 /\ b.retired \in BOOLEAN
         /\ DOMAIN b.chain = 1..Len(b.chain)
         /\ b.chain # <<>> <=> Len(b.chain) > 0
         /\ \A i \in DOMAIN b.chain :
              /\ b.chain[i] \in OpSet(n) /\ b.chain[i].data \in Seq(1..n)
              /\ b.chain[i].promises \in Seq(TicketSet(n)) /\ b.chain[i].stage \in Stages
              /\ b.chain[i].kind \in {"drain", "rewrite"}
         /\ b.chain # <<>> => Head(b.chain) = b.chain[1] /\ 1 \in DOMAIN b.chain
<1>1. /\ b.chain \in Seq(OpSet(n)) /\ b.pending \in Seq(1..n)
      /\ b.scheduled \in BOOLEAN /\ b.failure \in BOOLEAN /\ b.refs \in 0..1 /\ b.retired \in BOOLEAN
  BY DEF BufferSet
<1>2. /\ Len(b.chain) \in Nat /\ DOMAIN b.chain = 1..Len(b.chain)
      /\ b.chain # <<>> <=> Len(b.chain) > 0
      /\ \A i \in DOMAIN b.chain : b.chain[i] \in OpSet(n)
      /\ b.chain # <<>> => Head(b.chain) = b.chain[1] /\ 1 \in DOMAIN b.chain
  BY <1>1
<1>3. \A o \in OpSet(n) : /\ o.data \in Seq(1..n) /\ o.promises \in Seq(TicketSet(n))
                          /\ o.stage \in Stages /\ o.kind \in {"drain", "rewrite"}
  BY DEF OpSet
<1> QED
  BY <1>1, <1>2, <1>3

(* flushState() joins, starts a drain, or finds a failure.                  *)
LEMMA FlushedIs ==
  ASSUME NEW n \in Nat, NEW b \in BufferSet(n), NEW k \in Seq(TicketSet(n))
  PROVE  /\ Flushed(b, k) \in BufferSet(n) /\ SameRest(b, Flushed(b, k))
         /\ \/ /\ b.chain # <<>> /\ SameOps(b, Flushed(b, k))
               /\ \A i \in DOMAIN b.chain :
                    Flushed(b, k).chain[i].promises =
                      IF i = Len(b.chain) THEN b.chain[i].promises \o k ELSE b.chain[i].promises
            \/ b.chain = <<>> /\ b.failure /\ Flushed(b, k) = b
            \/ b.chain = <<>> /\ ~b.failure /\ Flushed(b, k).chain = <<[Drain EXCEPT !.promises = k]>>
<1>1. CASE b.chain # <<>>
  <2> DEFINE m == Len(b.chain)
             p == b.chain[m].promises \o k
             o == [b.chain[m] EXCEPT !.promises = p]
             ch == [b.chain EXCEPT ![m] = o]
             c == [b EXCEPT !.chain = ch]
  <2>1. m \in DOMAIN b.chain /\ b.chain[m] \in OpSet(n) /\ b.chain[m].promises \in Seq(TicketSet(n))
    BY <1>1, OpFields
  <2>2. p \in Seq(TicketSet(n))
    BY <2>1
  <2> HIDE DEF p
  <2>3. o \in OpSet(n) /\ o.promises = p /\ o.kind = b.chain[m].kind /\ o.stage = b.chain[m].stage
        /\ o.data = b.chain[m].data
    BY <2>1, <2>2 DEF OpSet
  <2>4. Flushed(b, k) = c
    BY <1>1 DEF Flushed, p
  <2> HIDE DEF o
  <2>5. ch \in Seq(OpSet(n)) /\ Len(ch) = m /\ ch[m] = o /\ \A i \in DOMAIN b.chain : i # m => ch[i] = b.chain[i]
    BY <2>1, <2>3, OpFields
  <2> HIDE DEF ch
  <2>6. c \in BufferSet(n) /\ SameRest(b, c) /\ c.chain = ch
    BY <2>5 DEF BufferSet, SameRest
  <2>7. SameOps(b, c)
    BY <2>3, <2>5, <2>6 DEF SameOps
  <2>8. ASSUME NEW i \in DOMAIN b.chain
        PROVE  c.chain[i].promises = IF i = m THEN b.chain[i].promises \o k ELSE b.chain[i].promises
    <3>1. i = m => c.chain[i].promises = p
      BY <2>3, <2>5, <2>6
    <3>2. i # m => c.chain[i] = b.chain[i]
      BY <2>5, <2>6
    <3>3. p = b.chain[m].promises \o k
      BY DEF p
    <3> HIDE DEF c
    <3>4. CASE i = m
      BY <3>1, <3>3, <3>4
    <3>5. CASE i # m
      BY <3>2, <3>5
    <3> QED
      BY <3>4, <3>5
  <2> QED
    BY <1>1, <2>4, <2>6, <2>7, <2>8
<1>2. CASE b.chain = <<>> /\ b.failure
  BY <1>2 DEF Flushed, SameRest
<1>3. CASE b.chain = <<>> /\ ~b.failure
  <2> DEFINE o == [Drain EXCEPT !.promises = k]
  <2>0. <<>> \in Seq(1..n)
    OBVIOUS
  <2>1. o \in OpSet(n)
    BY <2>0 DEF Drain, Operation, OpSet, Stages
  <2> HIDE DEF o
  <2>2. <<o>> \in Seq(OpSet(n))
    BY <2>1
  <2>3. Flushed(b, k) = [b EXCEPT !.chain = <<o>>]
    BY <1>3 DEF Flushed, o
  <2>4. Flushed(b, k) \in BufferSet(n) /\ SameRest(b, Flushed(b, k)) /\ Flushed(b, k).chain = <<o>>
    BY <2>2, <2>3 DEF BufferSet, SameRest
  <2> QED
    BY <1>3, <2>4 DEF o
<1> QED
  BY <1>1, <1>2, <1>3, OpFields

LEMMA FlushedSound ==
  ASSUME NEW n \in Nat, NEW b \in BufferSet(n), NEW k \in Seq(TicketSet(n)),
         HeadSound(b), RestSound(b), b.scheduled => b.pending # <<>>, b.retired => b.refs = 0
  PROVE  Flushed(b, k) \in BufferSet(n) /\ Sound(Flushed(b, k))
<1> DEFINE c == Flushed(b, k)
<1>1. /\ c \in BufferSet(n) /\ SameRest(b, c)
      /\ \/ b.chain # <<>> /\ SameOps(b, c)
         \/ b.chain = <<>> /\ b.failure /\ c = b
         \/ b.chain = <<>> /\ ~b.failure /\ c.chain = <<[Drain EXCEPT !.promises = k]>>
  BY FlushedIs
<1> HIDE DEF c
<1>2. CASE b.chain # <<>> /\ SameOps(b, c)
  <2>1. DOMAIN c.chain = DOMAIN b.chain /\ c.chain # <<>> /\ 1 \in DOMAIN b.chain
    BY <1>1, <1>2, OpFields DEF SameOps
  <2>2. HeadSound(c) /\ RestSound(c)
    BY <1>1, <1>2, <2>1, SMTT(30) DEF HeadSound, HeadOk, RestSound, SameRest, SameOps
  <2>3. PendingSound(c)
    BY <1>1, <2>1 DEF PendingSound, SameRest, Settled
  <2> QED
    BY <1>1, <2>2, <2>3 DEF Sound, c
<1>3. CASE b.chain = <<>> /\ b.failure /\ c = b
  BY <1>1, <1>3 DEF Sound, PendingSound, c
<1>4. CASE b.chain = <<>> /\ ~b.failure /\ c.chain = <<[Drain EXCEPT !.promises = k]>>
  <2>1. /\ Len(c.chain) = 1 /\ c.chain # <<>> /\ DOMAIN c.chain = 1..1
        /\ c.chain[1].kind = "drain" /\ c.chain[1].stage = "start"
    BY <1>4 DEF Drain, Operation
  <2>2. HeadSound(c) /\ RestSound(c)
    BY <1>1, <1>4, <2>1 DEF HeadSound, HeadOk, RestSound, SameRest
  <2>3. PendingSound(c)
    BY <1>1, <2>1 DEF PendingSound, SameRest, Settled
  <2> QED
    BY <1>1, <2>2, <2>3 DEF Sound, c
<1> QED
  BY <1>1, <1>2, <1>3, <1>4

(* The first operation of a chain becomes o.                                *)
HeadIs(b, c, o) ==
  /\ SameRest(b, c) /\ Len(c.chain) = Len(b.chain) /\ c.chain # <<>>
  /\ c.chain[1] = o
  /\ \A i \in DOMAIN b.chain : i > 1 => c.chain[i] = b.chain[i]

LEMMA HeadChanges ==
  ASSUME NEW n \in Nat, NEW b \in BufferSet(n), b.chain # <<>>, NEW o \in OpSet(n)
  PROVE  LET c == [b EXCEPT !.chain = [b.chain EXCEPT ![1] = o]]
         IN c \in BufferSet(n) /\ HeadIs(b, c, o)
<1> DEFINE ch == [b.chain EXCEPT ![1] = o]
           c == [b EXCEPT !.chain = ch]
<1>1. 1 \in DOMAIN b.chain /\ b.chain \in Seq(OpSet(n)) /\ Len(b.chain) > 0
  BY OpFields
<1>2. /\ ch \in Seq(OpSet(n)) /\ Len(ch) = Len(b.chain) /\ ch[1] = o
      /\ \A i \in DOMAIN b.chain : i > 1 => ch[i] = b.chain[i]
  BY <1>1
<1> HIDE DEF ch
<1>3. ch # <<>>
  BY <1>1, <1>2
<1>4. c \in BufferSet(n) /\ SameRest(b, c) /\ c.chain = ch
  BY <1>2 DEF BufferSet, SameRest
<1>5. HeadIs(b, c, o)
  BY <1>2, <1>3, <1>4 DEF HeadIs
<1> QED
  BY <1>4, <1>5 DEF ch

(* An operation in another stage, or with a batch.                          *)
LEMMA StageIs ==
  ASSUME NEW n \in Nat, NEW b \in BufferSet(n), b.chain # <<>>, NEW st \in Stages
  PROVE  /\ InStage(b, st) \in BufferSet(n)
         /\ HeadIs(b, InStage(b, st), [b.chain[1] EXCEPT !.stage = st])
         /\ [b.chain[1] EXCEPT !.stage = st] \in OpSet(n)
<1> DEFINE o == [b.chain[1] EXCEPT !.stage = st]
<1>1. b.chain[1] \in OpSet(n)
  BY OpFields
<1>2. o \in OpSet(n)
  BY <1>1 DEF OpSet
<1>3. InStage(b, st) = [b EXCEPT !.chain = [b.chain EXCEPT ![1] = o]]
  BY DEF InStage
<1> HIDE DEF o
<1>4. InStage(b, st) \in BufferSet(n) /\ HeadIs(b, InStage(b, st), o)
  BY <1>2, <1>3, HeadChanges
<1> QED
  BY <1>2, <1>4 DEF o

(* The loop of a drain ends, or takes all that is pending.                  *)
LEMMA BatchIs ==
  ASSUME NEW n \in Nat, NEW b \in BufferSet(n), b.chain # <<>>
  PROVE  /\ NextBatch(b) \in BufferSet(n)
         /\ \/ /\ Overtaken(b) \/ b.pending = <<>>
               /\ HeadIs(b, NextBatch(b), [b.chain[1] EXCEPT !.stage = "ok"])
            \/ /\ ~Overtaken(b) /\ b.pending # <<>>
               /\ HeadIs(b, NextBatch(b), [b.chain[1] EXCEPT !.stage = "io", !.data = b.pending])
<1>1. b.chain[1] \in OpSet(n) /\ b.pending \in Seq(1..n)
  BY OpFields
<1>2. CASE Overtaken(b) \/ b.pending = <<>>
  <2>1. NextBatch(b) = InStage(b, "ok")
    BY <1>2 DEF NextBatch
  <2> QED
    BY <1>2, <2>1, StageIs DEF Stages
<1>3. CASE ~Overtaken(b) /\ b.pending # <<>>
  <2> DEFINE o == [b.chain[1] EXCEPT !.stage = "io", !.data = b.pending]
  <2>1. o \in OpSet(n)
    BY <1>1 DEF OpSet, Stages
  <2>2. NextBatch(b) = [b EXCEPT !.chain = [b.chain EXCEPT ![1] = o]]
    <3>1. NextBatch(b) = [InStage(b, "io") EXCEPT !.chain[1].data = b.pending]
      BY <1>3 DEF NextBatch
    <3>2. InStage(b, "io") = [b EXCEPT !.chain = [b.chain EXCEPT ![1] = [b.chain[1] EXCEPT !.stage = "io"]]]
      BY DEF InStage
    <3>3. 1 \in DOMAIN b.chain /\ b.chain \in Seq(OpSet(n))
      BY OpFields
    <3> QED
      BY <1>1, <3>1, <3>2, <3>3, ZenonT(30) DEF BufferSet, OpSet
  <2> HIDE DEF o
  <2>3. NextBatch(b) \in BufferSet(n) /\ HeadIs(b, NextBatch(b), o)
    BY <2>1, <2>2, HeadChanges
  <2> QED
    BY <1>3, <2>3 DEF o
<1> QED
  BY <1>2, <1>3

LEMMA HeadChangeSound ==
  ASSUME NEW n \in Nat, NEW b \in BufferSet(n), b.chain # <<>>, RestSound(b), PendingSound(b),
         NEW c, NEW o, HeadIs(b, c, o), HeadOk(o, b.failure, b.pending), c \in BufferSet(n)
  PROVE  Sound(c)
<1>1. DOMAIN b.chain = 1..Len(b.chain) /\ DOMAIN c.chain = 1..Len(c.chain)
  BY OpFields
<1>2. HeadSound(c)
  BY DEF HeadIs, HeadSound, SameRest
<1>3. RestSound(c)
  BY <1>1 DEF HeadIs, RestSound
<1>4. PendingSound(c)
  BY DEF HeadIs, PendingSound, SameRest, Settled
<1> QED
  BY <1>2, <1>3, <1>4 DEF Sound

LEMMA StageSound ==
  ASSUME NEW n \in Nat, NEW b \in BufferSet(n), b.chain # <<>>, RestSound(b), PendingSound(b),
         NEW st \in Stages, HeadOk([b.chain[1] EXCEPT !.stage = st], b.failure, b.pending)
  PROVE  InStage(b, st) \in BufferSet(n) /\ Sound(InStage(b, st))
BY StageIs, HeadChangeSound

LEMMA BatchSound ==
  ASSUME NEW n \in Nat, NEW b \in BufferSet(n), b.chain # <<>>, RestSound(b), PendingSound(b),
         b.chain[1].kind = "drain", ~b.failure
  PROVE  NextBatch(b) \in BufferSet(n) /\ Sound(NextBatch(b))
<1>1. b.chain[1] \in OpSet(n) /\ b.pending \in Seq(1..n)
  BY OpFields
<1>2. HeadOk([b.chain[1] EXCEPT !.stage = "ok"], b.failure, b.pending)
  BY <1>1 DEF HeadOk, OpSet
<1>3. b.pending # <<>> =>
        HeadOk([b.chain[1] EXCEPT !.stage = "io", !.data = b.pending], b.failure, b.pending)
  BY <1>1, PrefixAppend DEF HeadOk, OpSet, IsPrefix
<1> QED
  BY <1>2, <1>3, BatchIs, HeadChangeSound

(* A buffer of fewer records is one of more.                                *)
LEMMA MoreRecords ==
  ASSUME NEW n \in Nat, NEW m \in Nat, n <= m
  PROVE  BufferSet(n) \subseteq BufferSet(m) /\ OpSet(n) \subseteq OpSet(m) /\ Seq(1..n) \subseteq Seq(1..m)
<1>1. 1..n \subseteq 1..m /\ Seq(1..n) \subseteq Seq(1..m)
  OBVIOUS
<1>2. TicketSet(n) \subseteq TicketSet(m)
  BY <1>1 DEF TicketSet
<1>3. Seq(TicketSet(n)) \subseteq Seq(TicketSet(m))
  BY <1>2
<1>4. OpSet(n) \subseteq OpSet(m)
  BY <1>1, <1>3 DEF OpSet
<1>5. Seq(OpSet(n)) \subseteq Seq(OpSet(m))
  BY <1>4
<1> QED
  BY <1>1, <1>4, <1>5 DEF BufferSet

-----------------------------------------------------------------------------
(* What the steps make of the buffers and of the file. *)

LEMMA OneChanges ==
  ASSUME NEW n \in Nat, NEW m \in Nat, n <= m, NEW B, Buffers(B, n), NEW g \in DOMAIN B,
         NEW c \in BufferSet(m), Sound(c), B[g].retired => c.retired,
         NEW C, C = [B EXCEPT ![g] = c]
  PROVE  Buffers(C, m)
<1>1. B \in Seq(BufferSet(n)) /\ B \in Seq(BufferSet(m)) /\ Len(B) \in Nat /\ DOMAIN B = 1..Len(B)
  BY MoreRecords DEF Buffers
<1>2. /\ C \in Seq(BufferSet(m)) /\ Len(C) = Len(B) /\ DOMAIN C = DOMAIN B /\ C[g] = c
      /\ \A k \in DOMAIN B : k # g => C[k] = B[k]
  BY <1>1
<1> QED
  BY <1>2 DEF Buffers

LEMMA StateIs ==
  ASSUME NEW n \in Nat, Buffers(bufs, n)
  PROVE  /\ Buffers(StateBuffers, n) /\ Len(StateBuffers) \in DOMAIN StateBuffers
         /\ ~StateBuffers[Len(StateBuffers)].retired
         /\ \/ StateBuffers = bufs /\ bufs # <<>> /\ Last(bufs) = bufs[Len(bufs)]
            \/ /\ bufs = <<>> \/ Last(bufs).retired
               /\ StateBuffers = Append(bufs, NewBuffer)
               /\ StateBuffers[Len(StateBuffers)] = NewBuffer
<1>1. bufs \in Seq(BufferSet(n)) /\ Len(bufs) \in Nat /\ DOMAIN bufs = 1..Len(bufs)
  BY DEF Buffers
<1>2. Last(bufs) = bufs[Len(bufs)]
  BY DEF Last
<1>3. CASE bufs = <<>> \/ Last(bufs).retired
  <2> DEFINE C == Append(bufs, NewBuffer)
  <2>1. NewBuffer \in BufferSet(n) /\ Sound(NewBuffer) /\ ~NewBuffer.retired
    BY NewBufferSound
  <2>2. /\ C \in Seq(BufferSet(n)) /\ Len(C) = Len(bufs) + 1 /\ DOMAIN C = 1..Len(C)
        /\ C[Len(C)] = NewBuffer /\ \A g \in DOMAIN bufs : C[g] = bufs[g]
    BY <1>1, <2>1
  <2> HIDE DEF C
  <2>3. \A g \in DOMAIN bufs : bufs[g].retired
    BY <1>1, <1>2, <1>3 DEF Buffers
  <2>4. Buffers(C, n) /\ Len(C) \in DOMAIN C
    BY <1>1, <2>1, <2>2, <2>3 DEF Buffers
  <2>5. StateBuffers = C
    BY <1>3 DEF StateBuffers, C
  <2> QED
    BY <1>3, <2>1, <2>2, <2>4, <2>5 DEF C
<1>4. CASE ~(bufs = <<>> \/ Last(bufs).retired)
  <2>1. StateBuffers = bufs /\ Len(bufs) \in DOMAIN bufs
    BY <1>1, <1>4 DEF StateBuffers
  <2> QED
    BY <1>2, <1>4, <2>1
<1> QED
  BY <1>3, <1>4

LEMMA WrittenTypes ==
  ASSUME NEW T, Torn \in T, Corrupted \in T, NEW f \in Seq(T), NEW s \in Seq(T)
  PROVE  Written(f, s) \in Seq(T)
<1>1. CASE s = <<>> \/ ~Unfinished(f)
  BY <1>1 DEF Written
<1>2. CASE ~(s = <<>> \/ ~Unfinished(f))
  <2> DEFINE x == IF Head(s) = Torn THEN <<Torn>> ELSE <<Corrupted>>
  <2>1. f # <<>> /\ s # <<>>
    BY <1>2 DEF Unfinished
  <2>2. Front(f) \in Seq(T) /\ Tail(s) \in Seq(T)
    BY <2>1 DEF Front
  <2>3. x \in Seq(T)
    OBVIOUS
  <2>4. Written(f, s) = Front(f) \o x \o Tail(s)
    BY <1>2 DEF Written
  <2> HIDE DEF x
  <2> QED
    BY <2>2, <2>3, <2>4
<1> QED
  BY <1>1, <1>2

LEMMA PartialTypes ==
  ASSUME NEW T, Torn \in T, Corrupted \in T, NEW f \in Seq(T), NEW s \in Seq(T)
  PROVE  Partial(f, s) \subseteq Seq(T)
<1>1. \A n \in 0..Len(s) : SubSeq(s, 1, n) \in Seq(T)
  OBVIOUS
<1>2. \A n \in 0..Len(s) : Append(SubSeq(s, 1, n), Torn) \in Seq(T)
  BY <1>1
<1>3. \A n \in 0..(Len(s) - 1) : n \in 0..Len(s)
  OBVIOUS
<1> QED
  BY <1>1, <1>2, <1>3, WrittenTypes DEF Partial

LEMMA RecordsAreLines ==
  ASSUME NEW n \in Nat, NEW s \in Seq(1..n)
  PROVE  s \in Seq(LineSet(n)) /\ Torn \in LineSet(n) /\ Corrupted \in LineSet(n)
<1>1. 1..n \subseteq LineSet(n) /\ Torn \in LineSet(n) /\ Corrupted \in LineSet(n)
  BY DEF LineSet
<1> QED
  BY <1>1

LEMMA InvFacts ==
  ASSUME BInv
  PROVE  /\ accepted \in Nat /\ bufs \in Seq(BufferSet(accepted)) /\ DOMAIN bufs = 1..Len(bufs)
         /\ Len(bufs) \in Nat /\ accepted <= MaxRecords
         /\ file \in Seq(LineSet(accepted)) /\ promised \subseteq 1..accepted
         /\ History \in Seq(1..accepted)
         /\ \A g \in DOMAIN bufs :
              bufs[g] \in BufferSet(accepted) /\ HeadSound(bufs[g]) /\ RestSound(bufs[g]) /\ PendingSound(bufs[g])
<1>1. /\ accepted \in Nat /\ bufs \in Seq(BufferSet(accepted)) /\ file \in Seq(LineSet(accepted))
      /\ accepted <= MaxRecords
  BY Bounds DEF BInv, Types, Buffers
<1>2. /\ DOMAIN bufs = 1..Len(bufs) /\ Len(bufs) \in Nat
      /\ \A g \in DOMAIN bufs : bufs[g] \in BufferSet(accepted)
  BY <1>1
<1>3. History \in Seq(1..accepted)
  <2> DEFINE S == (1..accepted) \ Range(Waiting)
  <2>1. History \in Seq(LineSet(accepted)) /\ Range(History) = Range(file) \cap S
    BY <1>1, OnlyProperties DEF History
  <2>2. Range(History) \subseteq 1..accepted
    BY <2>1
  <2> QED
    BY <2>1, <2>2, SeqOver
<1>4. \A g \in DOMAIN bufs : Sound(bufs[g])
  BY DEF BInv, Buffers
<1>5. promised \subseteq 1..accepted
  BY DEF BInv, Types
<1> QED
  BY <1>1, <1>2, <1>3, <1>4, <1>5 DEF Sound

(* One buffer changes, an old one or the one of the map entry.              *)
LEMMA OneStep ==
  ASSUME BInv, NEW g \in DOMAIN bufs, NEW c \in BufferSet(accepted), Sound(c), bufs[g].retired => c.retired,
         bufs' = [bufs EXCEPT ![g] = c], accepted' = accepted, rewrites' = rewrites, crashes' = crashes,
         file' \in Seq(LineSet(accepted)), promised' \subseteq 1..accepted
  PROVE  BInv'
<1>1. Buffers(bufs', accepted) /\ Len(bufs') = Len(bufs)
  <2>1. accepted \in Nat /\ accepted <= accepted /\ Buffers(bufs, accepted)
    BY InvFacts DEF BInv
  <2>2. Buffers(bufs', accepted)
    BY <2>1, OneChanges
  <2>3. Len(bufs') = Len(bufs)
    BY InvFacts
  <2> QED
    BY <2>2, <2>3
<1>2. Types'
  BY <1>1 DEF BInv, Types
<1> QED
  BY <1>1, <1>2 DEF BInv

LEMMA LastStep ==
  ASSUME BInv, NEW c \in BufferSet(accepted'), Sound(c), Len(StateBuffers) <= MaxBuffers,
         bufs' = [StateBuffers EXCEPT ![Len(StateBuffers)] = c],
         accepted' \in 0..MaxRecords, accepted <= accepted', rewrites' \in 0..MaxRewrites,
         crashes' = crashes, file' = file, promised' = promised
  PROVE  BInv'
<1>1. accepted \in Nat /\ accepted' \in Nat
  BY InvFacts, Bounds
<1>2. Buffers(bufs', accepted') /\ Len(bufs') <= MaxBuffers
  <2>1. /\ Buffers(StateBuffers, accepted) /\ Len(StateBuffers) \in DOMAIN StateBuffers
        /\ ~StateBuffers[Len(StateBuffers)].retired
    BY <1>1, StateIs DEF BInv
  <2>2. Buffers(bufs', accepted')
    BY <1>1, <2>1, OneChanges
  <2>3. Len(bufs') = Len(StateBuffers)
    BY <2>1 DEF Buffers
  <2> QED
    BY <2>2, <2>3
<1>3. LineSet(accepted) \subseteq LineSet(accepted')
  BY <1>1 DEF LineSet
<1>4. file \in Seq(LineSet(accepted'))
  BY <1>3, InvFacts
<1>5. promised \subseteq 1..accepted'
  BY <1>1, InvFacts
<1>6. Types'
  BY <1>2, <1>4, <1>5 DEF BInv, Types
<1> QED
  BY <1>2, <1>6 DEF BInv

LEMMA InitB == Init => BInv
<1> SUFFICES ASSUME Init PROVE BInv
  OBVIOUS
<1>1. Types
  BY Bounds DEF Init, Types
<1>2. Buffers(bufs, accepted)
  BY DEF Init, Buffers
<1> QED
  BY <1>1, <1>2 DEF BInv

LEMMA AppendRecordB == BInv /\ AppendRecord => BInv'
<1> SUFFICES ASSUME BInv, AppendRecord PROVE BInv'
  OBVIOUS
<1> DEFINE n == accepted
           L == Len(StateBuffers)
           b == StateBuffers[L]
           c == [b EXCEPT !.pending = Append(b.pending, n + 1), !.scheduled = @ \/ b.chain = <<>>]
<1>1. n \in Nat /\ n + 1 \in Nat /\ n + 1 \in 0..MaxRecords /\ accepted' = n + 1
  BY InvFacts, Bounds DEF AppendRecord
<1>2. bufs' = [StateBuffers EXCEPT ![L] = c] /\ L <= MaxBuffers
  BY DEF AppendRecord, InState
<1>3. Buffers(StateBuffers, n) /\ L \in DOMAIN StateBuffers /\ ~b.retired
  BY <1>1, StateIs DEF BInv
<1>4. b \in BufferSet(n) /\ b \in BufferSet(n + 1) /\ Sound(b)
  BY <1>1, <1>3, MoreRecords DEF Buffers
<1> HIDE DEF b
<1>5. b.pending \in Seq(1..(n + 1)) /\ n + 1 \in 1..(n + 1) /\ Append(b.pending, n + 1) \in Seq(1..(n + 1))
  BY <1>1, <1>4, OpFields
<1>6. c \in BufferSet(n + 1) /\ c.chain = b.chain /\ c.failure = b.failure
      /\ c.pending = Append(b.pending, n + 1) /\ c.retired = b.retired
      /\ c.scheduled = (b.scheduled \/ b.chain = <<>>) /\ c.refs = b.refs
  <2>1. (b.scheduled \/ b.chain = <<>>) \in BOOLEAN
    OBVIOUS
  <2> DEFINE q == Append(b.pending, n + 1)
             s == b.scheduled \/ b.chain = <<>>
  <2>2. q \in Seq(1..(n + 1))
    BY <1>5
  <2>3. c = [b EXCEPT !.pending = q, !.scheduled = s]
    BY <1>4 DEF BufferSet
  <2> HIDE DEF q, s, c
  <2>4. s \in BOOLEAN
    BY <2>1 DEF s
  <2>5. c \in BufferSet(n + 1) /\ c.chain = b.chain /\ c.failure = b.failure
        /\ c.pending = q /\ c.retired = b.retired /\ c.scheduled = s /\ c.refs = b.refs
    BY <1>4, <2>2, <2>3, <2>4 DEF BufferSet
  <2> QED
    BY <2>5 DEF q, s
<1> HIDE DEF c
<1>7. HeadSound(c)
  <2> SUFFICES ASSUME b.chain # <<>> PROVE HeadOk(b.chain[1], b.failure, c.pending)
    BY <1>6 DEF HeadSound
  <2>1. b.chain[1].data \in Seq(1..(n + 1))
    BY <1>1, <1>4, OpFields
  <2>2. HeadOk(b.chain[1], b.failure, b.pending)
    BY <1>4 DEF Sound, HeadSound
  <2>3. IsPrefix(b.chain[1].data, b.pending) => IsPrefix(b.chain[1].data, c.pending)
    BY <1>5, <1>6, <2>1, PrefixAppend
  <2> QED
    BY <2>2, <2>3 DEF HeadOk
<1>8. RestSound(c)
  BY <1>4, <1>6 DEF Sound, RestSound
<1>9. PendingSound(c)
  <2>1. c.pending # <<>>
    BY <1>5, <1>6
  <2> QED
    BY <1>3, <1>4, <1>6, <2>1 DEF Sound, PendingSound, Settled
<1>10. Sound(c)
  BY <1>7, <1>8, <1>9 DEF Sound
<1>11. rewrites' \in 0..MaxRewrites /\ accepted <= accepted' /\ accepted' \in 0..MaxRecords
  BY <1>1 DEF AppendRecord, BInv, Types
<1>12. crashes' = crashes /\ file' = file /\ promised' = promised
  BY DEF AppendRecord
<1>13. c \in BufferSet(accepted')
  BY <1>1, <1>6
<1> HIDE DEF n, L
<1> QED
  BY <1>2, <1>10, <1>11, <1>12, <1>13, LastStep DEF L

(* The buffer of the map entry.                                             *)
LEMMA EntryFacts ==
  ASSUME BInv, NEW b, b = StateBuffers[Len(StateBuffers)]
  PROVE  /\ accepted \in Nat /\ b \in BufferSet(accepted)
         /\ HeadSound(b) /\ RestSound(b) /\ PendingSound(b) /\ Sound(b) /\ ~b.retired
         /\ (bufs # <<>> => Last(bufs).refs = 0) => b.refs = 0
<1>1. accepted \in Nat /\ Buffers(bufs, accepted)
  BY InvFacts DEF BInv
<1>2. /\ Buffers(StateBuffers, accepted) /\ Len(StateBuffers) \in DOMAIN StateBuffers /\ ~b.retired
      /\ \/ bufs # <<>> /\ b = Last(bufs)
         \/ b = NewBuffer
  BY <1>1, StateIs
<1>3. b \in BufferSet(accepted) /\ Sound(b)
  BY <1>2 DEF Buffers
<1>4. (bufs # <<>> => Last(bufs).refs = 0) => b.refs = 0
  BY <1>1, <1>2, NewBufferSound
<1> QED
  BY <1>1, <1>2, <1>3, <1>4 DEF Sound

LEMMA RewriteCallB == BInv /\ RewriteCall => BInv'
<1> SUFFICES ASSUME BInv, RewriteCall PROVE BInv'
  OBVIOUS
<1> DEFINE L == Len(StateBuffers)
           o == Operation("rewrite", History)
<1>1. PICK b : b = StateBuffers[L]
  OBVIOUS
<1> DEFINE ch == Append(b.chain, o)
           c == [b EXCEPT !.chain = ch]
<1>2. bufs' = [StateBuffers EXCEPT ![L] = c] /\ L <= MaxBuffers
  BY <1>1 DEF RewriteCall, InState
<1>3. /\ accepted \in Nat /\ b \in BufferSet(accepted) /\ HeadSound(b) /\ RestSound(b) /\ PendingSound(b)
      /\ ~b.retired
  BY <1>1, EntryFacts
<1>4. o \in OpSet(accepted) /\ o.kind = "rewrite" /\ o.stage = "start"
  <2>1. History \in Seq(1..accepted)
    BY InvFacts
  <2> QED
    BY <2>1 DEF Operation, OpSet, Stages
<1> HIDE DEF o
<1>5. /\ ch \in Seq(OpSet(accepted)) /\ Len(ch) = Len(b.chain) + 1 /\ ch # <<>> /\ DOMAIN ch = 1..Len(ch)
      /\ ch[Len(ch)] = o /\ \A i \in DOMAIN b.chain : ch[i] = b.chain[i]
  <2>1. b.chain \in Seq(OpSet(accepted))
    BY <1>3, OpFields
  <2> QED
    BY <1>4, <2>1
<1> HIDE DEF ch
<1>6. c \in BufferSet(accepted) /\ c.chain = ch /\ SameRest(b, c)
  BY <1>3, <1>5 DEF BufferSet, SameRest
<1> HIDE DEF c
<1>7. HeadSound(c)
  <2>1. CASE b.chain = <<>>
    <3>1. c.chain[1] = o
      BY <1>5, <1>6, <2>1
    <3> QED
      BY <1>4, <3>1 DEF HeadSound, HeadOk
  <2>2. CASE b.chain # <<>>
    <3>1. c.chain[1] = b.chain[1]
      BY <1>3, <1>5, <1>6, <2>2, OpFields
    <3> QED
      BY <1>3, <1>6, <2>2, <3>1 DEF HeadSound, SameRest
  <2> QED
    BY <2>1, <2>2
<1>8. RestSound(c)
  <2> SUFFICES ASSUME NEW i \in DOMAIN c.chain, i > 1
               PROVE  c.chain[i].kind = "rewrite" /\ c.chain[i].stage = "start"
    BY DEF RestSound
  <2>1. i \in DOMAIN b.chain \/ i = Len(ch)
    BY <1>3, <1>5, <1>6, OpFields
  <2> QED
    BY <1>3, <1>4, <1>5, <1>6, <2>1 DEF RestSound
<1>9. Sound(c)
  BY <1>3, <1>5, <1>6, <1>7, <1>8 DEF Sound, PendingSound, SameRest, Settled
<1>10. rewrites' \in 0..MaxRewrites
  BY Bounds DEF RewriteCall, BInv, Types
<1>11. /\ accepted' \in 0..MaxRecords /\ accepted <= accepted' /\ c \in BufferSet(accepted')
       /\ crashes' = crashes /\ file' = file /\ promised' = promised
  BY <1>3, <1>6 DEF RewriteCall, BInv, Types
<1> HIDE DEF L
<1> QED
  BY <1>2, <1>9, <1>10, <1>11, LastStep DEF L

LEMMA AcquireB == BInv /\ Acquire => BInv'
<1> SUFFICES ASSUME BInv, Acquire PROVE BInv'
  OBVIOUS
<1> DEFINE L == Len(StateBuffers)
<1>1. PICK b : b = StateBuffers[L]
  OBVIOUS
<1> DEFINE c == [b EXCEPT !.refs = b.refs + 1]
<1>2. bufs' = [StateBuffers EXCEPT ![L] = c] /\ L <= MaxBuffers
  BY <1>1 DEF Acquire, InState
<1>3. /\ accepted \in Nat /\ b \in BufferSet(accepted) /\ HeadSound(b) /\ RestSound(b) /\ PendingSound(b)
      /\ ~b.retired /\ b.refs = 0
  BY <1>1, EntryFacts DEF Acquire
<1>4. /\ c \in BufferSet(accepted) /\ c.chain = b.chain /\ c.pending = b.pending /\ c.scheduled = b.scheduled
      /\ c.failure = b.failure /\ c.retired = b.retired
  BY <1>3 DEF BufferSet
<1> HIDE DEF c
<1>5. Sound(c)
  BY <1>3, <1>4 DEF Sound, HeadSound, RestSound, PendingSound, Settled
<1>6. /\ accepted' \in 0..MaxRecords /\ accepted <= accepted' /\ c \in BufferSet(accepted')
      /\ rewrites' \in 0..MaxRewrites
      /\ crashes' = crashes /\ file' = file /\ promised' = promised
  BY <1>3, <1>4 DEF Acquire, BInv, Types
<1> HIDE DEF L
<1> QED
  BY <1>2, <1>5, <1>6, LastStep DEF L

(* What a caller waits for is accepted.                                     *)
LEMMA TicketTypes ==
  ASSUME BInv, NEW k \in Callers, NEW b \in BufferSet(accepted)
  PROVE  Ticket(k, b) \in Seq(TicketSet(accepted))
<1>1. Range(History) \subseteq 1..accepted /\ Range(b.pending) \subseteq 1..accepted
  <2>1. History \in Seq(1..accepted) /\ b.pending \in Seq(1..accepted)
    BY InvFacts, OpFields
  <2> QED
    BY <2>1, RangeIn
<1> DEFINE t == [caller |-> k, records |-> Range(History) \cup Range(b.pending)]
<1>2. t \in TicketSet(accepted)
  BY <1>1 DEF TicketSet
<1> HIDE DEF t
<1>3. Ticket(k, b) = <<t>>
  BY DEF Ticket, t
<1> QED
  BY <1>2, <1>3

LEMMA ReadCallB ==
  ASSUME BInv, NEW k \in Callers, ReadCall(k)
  PROVE  BInv'
<1> DEFINE L == Len(StateBuffers)
<1>1. PICK b : b = StateBuffers[L]
  OBVIOUS
<1> DEFINE c == Flushed(b, Ticket(k, b))
<1>2. bufs' = [StateBuffers EXCEPT ![L] = c] /\ L <= MaxBuffers
  BY <1>1 DEF ReadCall, InState
<1>3. /\ accepted \in Nat /\ b \in BufferSet(accepted) /\ HeadSound(b) /\ RestSound(b) /\ PendingSound(b)
  BY <1>1, EntryFacts
<1>4. c \in BufferSet(accepted) /\ Sound(c)
  BY <1>3, TicketTypes, FlushedSound DEF PendingSound
<1> HIDE DEF c
<1>5. /\ accepted' \in 0..MaxRecords /\ accepted <= accepted' /\ c \in BufferSet(accepted')
      /\ rewrites' \in 0..MaxRewrites
      /\ crashes' = crashes /\ file' = file /\ promised' = promised
  BY <1>3, <1>4 DEF ReadCall, BInv, Types
<1> HIDE DEF L
<1> QED
  BY <1>2, <1>4, <1>5, LastStep DEF L

LEMMA FlushCallB ==
  ASSUME BInv, NEW k \in Callers, FlushCall(k)
  PROVE  BInv'
<1> DEFINE L == Len(bufs)
<1>1. L \in DOMAIN bufs
  BY InvFacts DEF FlushCall
<1>2. PICK b : b = bufs[L]
  OBVIOUS
<1> DEFINE c == Flushed(b, Ticket(k, b))
<1>3. bufs' = [bufs EXCEPT ![L] = c]
  BY <1>1, <1>2, InvFacts DEF FlushCall
<1>4. /\ accepted \in Nat /\ b \in BufferSet(accepted) /\ HeadSound(b) /\ RestSound(b) /\ PendingSound(b)
  BY <1>1, <1>2, InvFacts
<1>5. Ticket(k, b) \in Seq(TicketSet(accepted))
  BY <1>4, TicketTypes
<1>6. c \in BufferSet(accepted) /\ Sound(c) /\ c.retired = b.retired
  BY <1>4, <1>5, FlushedSound, FlushedIs DEF PendingSound, SameRest
<1> HIDE DEF c, L
<1> QED
  BY <1>1, <1>2, <1>3, <1>6, InvFacts, OneStep DEF FlushCall

LEMMA ReleaseB == BInv /\ Release => BInv'
<1> SUFFICES ASSUME BInv, Release PROVE BInv'
  OBVIOUS
<1> DEFINE L == Len(bufs)
<1>1. L \in DOMAIN bufs
  BY InvFacts DEF Release
<1>2. PICK b : b = bufs[L]
  OBVIOUS
<1> DEFINE d == [b EXCEPT !.refs = 0, !.retired = TRUE]
           c == Flushed(d, <<>>)
<1>3. bufs' = [bufs EXCEPT ![L] = c]
  BY <1>1, <1>2, InvFacts DEF Release
<1>4. /\ accepted \in Nat /\ b \in BufferSet(accepted) /\ HeadSound(b) /\ RestSound(b) /\ PendingSound(b)
  BY <1>1, <1>2, InvFacts
<1>5. /\ d \in BufferSet(accepted) /\ d.chain = b.chain /\ d.pending = b.pending /\ d.failure = b.failure
      /\ d.scheduled = b.scheduled /\ d.refs = 0 /\ d.retired
  <2>1. DOMAIN b = {"pending", "chain", "scheduled", "failure", "refs", "retired"}
    BY <1>4 DEF BufferSet
  <2>2. /\ d.chain = b.chain /\ d.pending = b.pending /\ d.failure = b.failure
        /\ d.scheduled = b.scheduled /\ d.refs = 0 /\ d.retired = TRUE
    BY <2>1
  <2>3. 0 \in 0..1 /\ TRUE \in BOOLEAN
    OBVIOUS
  <2>4. d \in BufferSet(accepted)
    BY <1>4, <2>3 DEF BufferSet
  <2> QED
    BY <2>2, <2>4
<1> HIDE DEF d
<1>6. HeadSound(d) /\ RestSound(d) /\ (d.scheduled => d.pending # <<>>)
  BY <1>4, <1>5 DEF HeadSound, RestSound, PendingSound
<1>7. <<>> \in Seq(TicketSet(accepted))
  OBVIOUS
<1>8. c \in BufferSet(accepted) /\ Sound(c)
  BY <1>4, <1>5, <1>6, <1>7, FlushedSound
<1>9. c.retired
  BY <1>4, <1>5, <1>7, FlushedIs DEF SameRest
<1> HIDE DEF c, L
<1> QED
  BY <1>1, <1>3, <1>8, <1>9, InvFacts, OneStep DEF Release

LEMMA MicrotaskB ==
  ASSUME BInv, NEW g \in DOMAIN bufs, Microtask(g)
  PROVE  BInv'
<1>2. PICK b : b = bufs[g]
  OBVIOUS
<1> DEFINE d == [b EXCEPT !.scheduled = FALSE]
           c == Flushed(d, <<>>)
<1>3. bufs' = [bufs EXCEPT ![g] = c]
  BY <1>2, InvFacts DEF Microtask
<1>4. /\ accepted \in Nat /\ b \in BufferSet(accepted) /\ HeadSound(b) /\ RestSound(b) /\ PendingSound(b)
  BY <1>2, InvFacts
<1>5. /\ d \in BufferSet(accepted) /\ d.chain = b.chain /\ d.pending = b.pending /\ d.failure = b.failure
      /\ ~d.scheduled /\ d.refs = b.refs /\ d.retired = b.retired
  BY <1>4 DEF BufferSet
<1> HIDE DEF d
<1>6. HeadSound(d) /\ RestSound(d) /\ (d.retired => d.refs = 0)
  BY <1>4, <1>5 DEF HeadSound, RestSound, PendingSound
<1>7. <<>> \in Seq(TicketSet(accepted))
  OBVIOUS
<1>8. c \in BufferSet(accepted) /\ Sound(c)
  BY <1>4, <1>5, <1>6, <1>7, FlushedSound
<1>9. c.retired = b.retired
  BY <1>4, <1>5, <1>7, FlushedIs DEF SameRest
<1> HIDE DEF c
<1> QED
  BY <1>2, <1>3, <1>8, <1>9, InvFacts, OneStep DEF Microtask

(* The operation at the head of a chain, as Runs names it.                  *)
LEMMA RunsIs ==
  ASSUME BInv, NEW g \in DOMAIN bufs, NEW b, b = bufs[g], NEW kind, NEW stage, Runs(g, kind, stage)
  PROVE  /\ accepted \in Nat /\ b \in BufferSet(accepted) /\ HeadSound(b) /\ RestSound(b) /\ PendingSound(b)
         /\ b.chain # <<>> /\ Op(g) = b.chain[1] /\ b.chain[1] \in OpSet(accepted)
         /\ b.chain[1].kind = kind /\ b.chain[1].stage = stage
         /\ b.chain[1].data \in Seq(1..accepted)
<1>1. /\ accepted \in Nat /\ b \in BufferSet(accepted) /\ HeadSound(b) /\ RestSound(b) /\ PendingSound(b)
  BY InvFacts
<1>2. b.chain # <<>> /\ Op(g).kind = kind /\ Op(g).stage = stage
  BY DEF Runs
<1>3. Head(b.chain) = b.chain[1] /\ b.chain[1] \in OpSet(accepted) /\ b.chain[1].data \in Seq(1..accepted)
  BY <1>1, <1>2, OpFields
<1>4. Op(g) = b.chain[1]
  BY <1>3 DEF Op
<1> QED
  BY <1>1, <1>2, <1>3, <1>4

LEMMA DrainStartsB ==
  ASSUME BInv, NEW g \in DOMAIN bufs, DrainStarts(g)
  PROVE  BInv'
<1>1. PICK b : b = bufs[g]
  OBVIOUS
<1>2. /\ accepted \in Nat /\ b \in BufferSet(accepted) /\ HeadSound(b) /\ RestSound(b) /\ PendingSound(b)
      /\ b.chain # <<>> /\ b.chain[1].kind = "drain" /\ b.chain[1].stage = "start"
  BY <1>1, RunsIs DEF DrainStarts
<1> DEFINE c == NextBatch(b)
<1>3. ~b.failure
  BY <1>2 DEF HeadSound, HeadOk
<1>4. c \in BufferSet(accepted) /\ Sound(c)
  BY <1>2, <1>3, BatchSound
<1>5. c.retired = b.retired
  BY <1>2, BatchIs DEF HeadIs, SameRest
<1>6. bufs' = [bufs EXCEPT ![g] = c]
  BY <1>1 DEF DrainStarts
<1> HIDE DEF c
<1> QED
  BY <1>1, <1>4, <1>5, <1>6, InvFacts, OneStep DEF DrainStarts

LEMMA RewriteStartsB ==
  ASSUME BInv, NEW g \in DOMAIN bufs, RewriteStarts(g)
  PROVE  BInv'
<1>1. PICK b : b = bufs[g]
  OBVIOUS
<1>2. /\ accepted \in Nat /\ b \in BufferSet(accepted) /\ HeadSound(b) /\ RestSound(b) /\ PendingSound(b)
      /\ b.chain # <<>> /\ b.chain[1].kind = "rewrite" /\ b.chain[1].stage = "start"
      /\ b.chain[1] \in OpSet(accepted)
  BY <1>1, RunsIs DEF RewriteStarts
<1> DEFINE c == InStage(b, "io")
<1>3. HeadOk([b.chain[1] EXCEPT !.stage = "io"], b.failure, b.pending)
  BY <1>2 DEF HeadOk, OpSet
<1>4. c \in BufferSet(accepted) /\ Sound(c)
  BY <1>2, <1>3, StageSound DEF Stages
<1>5. c.retired = b.retired
  BY <1>2, StageIs DEF HeadIs, SameRest, Stages
<1>6. bufs' = [bufs EXCEPT ![g] = c]
  BY <1>1 DEF RewriteStarts
<1> HIDE DEF c
<1> QED
  BY <1>1, <1>4, <1>5, <1>6, InvFacts, OneStep DEF RewriteStarts

(* What fails or ends well leaves its mark in the buffer.                   *)
Marked(b, c) ==
  \E st \in {"ok", "failed"} : c = InStage([b EXCEPT !.failure = (st = "failed")], st)

LEMMA MarkedSound ==
  ASSUME NEW n \in Nat, NEW b \in BufferSet(n), RestSound(b), PendingSound(b), b.chain # <<>>,
         NEW c, Marked(b, c)
  PROVE  c \in BufferSet(n) /\ Sound(c) /\ c.retired = b.retired
<1>0. PICK st \in {"ok", "failed"} : c = InStage([b EXCEPT !.failure = (st = "failed")], st)
  BY DEF Marked
<1> DEFINE failure == st = "failed"
           d == [b EXCEPT !.failure = failure]
<1>1. failure \in BOOLEAN /\ failure = (st = "failed")
  OBVIOUS
<1> HIDE DEF failure
<1>2. /\ d \in BufferSet(n) /\ d.chain = b.chain /\ d.pending = b.pending /\ d.failure = failure
      /\ d.scheduled = b.scheduled /\ d.refs = b.refs /\ d.retired = b.retired
  BY <1>1 DEF BufferSet
<1> HIDE DEF d
<1>3. RestSound(d) /\ PendingSound(d)
  BY <1>2 DEF RestSound, PendingSound, Settled
<1>4. b.chain[1] \in OpSet(n)
  BY OpFields
<1>5. HeadOk([d.chain[1] EXCEPT !.stage = st], d.failure, d.pending)
  BY <1>1, <1>2, <1>4 DEF HeadOk, OpSet
<1>6. c = InStage(d, st)
  BY <1>0, <1>1 DEF d
<1>7. c \in BufferSet(n) /\ Sound(c)
  BY <1>2, <1>3, <1>5, <1>6, StageSound DEF Stages
<1>8. HeadIs(d, InStage(d, st), [d.chain[1] EXCEPT !.stage = st])
  BY <1>2, StageIs DEF Stages
<1>9. c.retired = b.retired
  BY <1>2, <1>6, <1>8 DEF HeadIs, SameRest
<1> QED
  BY <1>7, <1>9

LEMMA AppendFailsB ==
  ASSUME BInv, NEW g \in DOMAIN bufs, AppendFails(g)
  PROVE  BInv'
<1>1. PICK b : b = bufs[g]
  OBVIOUS
<1>2. /\ accepted \in Nat /\ b \in BufferSet(accepted) /\ RestSound(b) /\ PendingSound(b)
      /\ b.chain # <<>> /\ Op(g).data \in Seq(1..accepted)
  BY <1>1, RunsIs DEF AppendFails
<1>3. PICK c : c = InStage([b EXCEPT !.failure = TRUE], "failed")
  OBVIOUS
<1>4. c \in BufferSet(accepted) /\ Sound(c) /\ c.retired = b.retired
  <2>1. Marked(b, c)
    BY <1>3 DEF Marked
  <2> QED
    BY <1>2, <2>1, MarkedSound
<1>5. bufs' = [bufs EXCEPT ![g] = c]
  BY <1>1, <1>3 DEF AppendFails
<1>6. file' \in Seq(LineSet(accepted))
  <2>1. Op(g).data \in Seq(LineSet(accepted))
    BY <1>2 DEF LineSet
  <2>2. Torn \in LineSet(accepted) /\ Corrupted \in LineSet(accepted)
    BY DEF LineSet
  <2> QED
    BY <2>1, <2>2, InvFacts, PartialTypes DEF AppendFails
<1> QED
  BY <1>1, <1>4, <1>5, <1>6, InvFacts, OneStep DEF AppendFails

LEMMA RewriteEndsB ==
  ASSUME BInv, NEW g \in DOMAIN bufs, RewriteEnds(g) \/ RewriteFails(g)
  PROVE  BInv'
<1>1. PICK b : b = bufs[g]
  OBVIOUS
<1>2. /\ accepted \in Nat /\ b \in BufferSet(accepted) /\ RestSound(b) /\ PendingSound(b)
      /\ b.chain # <<>> /\ Op(g).data \in Seq(1..accepted)
  BY <1>1, RunsIs DEF RewriteEnds, RewriteFails
<1>3. PICK c : /\ bufs' = [bufs EXCEPT ![g] = c]
               /\ \/ c = InStage([b EXCEPT !.failure = FALSE], "ok")
                  \/ c = InStage([b EXCEPT !.failure = TRUE], "failed")
  BY <1>1 DEF RewriteEnds, RewriteFails
<1>4. c \in BufferSet(accepted) /\ Sound(c) /\ c.retired = b.retired
  <2>1. Marked(b, c)
    BY <1>3 DEF Marked
  <2> QED
    BY <1>2, <2>1, MarkedSound
<1>5. file' \in Seq(LineSet(accepted))
  <2>1. Op(g).data \in Seq(LineSet(accepted))
    BY <1>2 DEF LineSet
  <2> QED
    BY <2>1, InvFacts DEF RewriteEnds, RewriteFails
<1> QED
  BY <1>1, <1>3, <1>4, <1>5, InvFacts, OneStep DEF RewriteEnds, RewriteFails

(* A durable batch: what waits is the rest of it, and the drain goes on.    *)
AfterBatch(b) ==
  IF Overtaken(b) THEN InStage(b, "ok")
  ELSE NextBatch(Confirmed(b))

LEMMA AfterBatchIs ==
  ASSUME BInv, NEW g \in DOMAIN bufs, NEW b, b = bufs[g], AppendEnds(g)
  PROVE  file' = Written(file, b.chain[1].data) /\ bufs' = [bufs EXCEPT ![g] = AfterBatch(b)]
<1>1. Op(g) = b.chain[1]
  BY RunsIs DEF AppendEnds
<1> QED
  BY <1>1, InvFacts DEF AppendEnds, AfterBatch

LEMMA AppendEndsB ==
  ASSUME BInv, NEW g \in DOMAIN bufs, AppendEnds(g)
  PROVE  BInv'
<1>1. PICK b : b = bufs[g]
  OBVIOUS
<1>2. /\ accepted \in Nat /\ b \in BufferSet(accepted) /\ HeadSound(b) /\ RestSound(b) /\ PendingSound(b)
      /\ b.chain # <<>> /\ b.chain[1].kind = "drain" /\ b.chain[1].stage = "io"
      /\ b.chain[1].data \in Seq(1..accepted) /\ b.chain[1] \in OpSet(accepted)
  BY <1>1, RunsIs DEF AppendEnds
<1>3. ~b.failure /\ ~b.scheduled
  BY <1>1, <1>2 DEF HeadSound, HeadOk, AppendEnds, NoJobLeft
<1> DEFINE c == AfterBatch(b)
<1>4. c \in BufferSet(accepted) /\ Sound(c) /\ c.retired = b.retired
  <2>1. CASE Overtaken(b)
    <3>1. c = InStage(b, "ok")
      BY <2>1 DEF AfterBatch
    <3>2. HeadOk([b.chain[1] EXCEPT !.stage = "ok"], b.failure, b.pending)
      BY <1>2, <1>3 DEF HeadOk, OpSet
    <3>3. InStage(b, "ok") \in BufferSet(accepted) /\ Sound(InStage(b, "ok"))
      BY <1>2, <3>2, StageSound DEF Stages
    <3>4. InStage(b, "ok").retired = b.retired
      BY <1>2, StageIs DEF HeadIs, SameRest, Stages
    <3> QED
      BY <3>1, <3>3, <3>4
  <2>2. CASE ~Overtaken(b)
    <3> DEFINE q == SubSeq(b.pending, Len(b.chain[1].data) + 1, Len(b.pending))
               d == [b EXCEPT !.pending = q]
    <3>1. c = NextBatch(d)
      <4>1. Head(b.chain) = b.chain[1]
        BY <1>2, OpFields
      <4> QED
        BY <2>2, <4>1 DEF AfterBatch, Confirmed
    <3>2. q \in Seq(1..accepted)
      <4>1. b.pending \in Seq(1..accepted) /\ Len(b.chain[1].data) \in Nat
        BY <1>2, OpFields
      <4>2. Len(b.chain[1].data) <= Len(b.pending)
        <5>1. IsPrefix(b.chain[1].data, b.pending)
          BY <1>2 DEF HeadSound, HeadOk
        <5> QED
          BY <1>2, <4>1, <5>1 DEF IsPrefix
      <4>3. PICK p \in Seq(1..accepted) : p = b.pending
        BY <4>1
      <4>4. PICK k \in 0..Len(p) : k = Len(b.chain[1].data)
        BY <4>1, <4>2, <4>3
      <4>5. SubSeq(p, k + 1, Len(p)) \in Seq(1..accepted)
        BY CutAnywhere
      <4> QED
        BY <4>3, <4>4, <4>5
    <3> HIDE DEF q
    <3>3. /\ d \in BufferSet(accepted) /\ d.chain = b.chain /\ d.failure = b.failure
          /\ d.scheduled = b.scheduled /\ d.refs = b.refs /\ d.retired = b.retired
      BY <1>2, <3>2 DEF BufferSet
    <3> HIDE DEF d
    <3>4. RestSound(d) /\ PendingSound(d)
      BY <1>2, <1>3, <3>3 DEF RestSound, PendingSound, Settled
    <3>5. NextBatch(d) \in BufferSet(accepted) /\ Sound(NextBatch(d))
      BY <1>2, <1>3, <3>3, <3>4, BatchSound
    <3>6. NextBatch(d).retired = b.retired
      BY <1>2, <3>3, BatchIs DEF HeadIs, SameRest
    <3> QED
      BY <3>1, <3>5, <3>6
  <2> QED
    BY <2>1, <2>2
<1>5. bufs' = [bufs EXCEPT ![g] = c] /\ file' = Written(file, b.chain[1].data)
  BY <1>1, AfterBatchIs
<1> HIDE DEF c
<1>6. file' \in Seq(LineSet(accepted))
  <2>1. b.chain[1].data \in Seq(LineSet(accepted))
    BY <1>2 DEF LineSet
  <2>2. Torn \in LineSet(accepted) /\ Corrupted \in LineSet(accepted)
    BY DEF LineSet
  <2> QED
    BY <1>5, <2>1, <2>2, InvFacts, WrittenTypes
<1> QED
  BY <1>1, <1>4, <1>5, <1>6, InvFacts, OneStep DEF AppendEnds

(* The flush is over: it drains once more, or the next one gets its turn.   *)
AfterFlush(b) ==
  IF DrainsAgain(b)
  THEN [b EXCEPT !.chain = [b.chain EXCEPT ![1] = [Drain EXCEPT !.promises = b.chain[1].promises]]]
  ELSE [b EXCEPT !.chain = Tail(b.chain)]

LEMMA AfterFlushIs ==
  ASSUME BInv, NEW g \in DOMAIN bufs, NEW b, b = bufs[g], Finish(g)
  PROVE  /\ bufs' = [bufs EXCEPT ![g] = AfterFlush(b)]
         /\ accepted \in Nat /\ b \in BufferSet(accepted) /\ HeadSound(b) /\ RestSound(b) /\ PendingSound(b)
         /\ b.chain # <<>> /\ b.chain[1].stage \in {"ok", "failed"} /\ Head(b.chain) = b.chain[1]
         /\ b.chain[1].promises \in Seq(TicketSet(accepted)) /\ b.chain[1].kind \in {"drain", "rewrite"}
<1>1. /\ accepted \in Nat /\ b \in BufferSet(accepted) /\ HeadSound(b) /\ RestSound(b) /\ PendingSound(b)
  BY InvFacts
<1>2. b.chain # <<>> /\ Op(g).stage \in {"ok", "failed"}
  BY DEF Finish
<1>3. /\ Head(b.chain) = b.chain[1] /\ 1 \in DOMAIN b.chain
      /\ b.chain[1].promises \in Seq(TicketSet(accepted)) /\ b.chain[1].kind \in {"drain", "rewrite"}
  BY <1>1, <1>2, OpFields
<1>4. Op(g) = b.chain[1]
  BY <1>3 DEF Op
<1>5. bufs' = [bufs EXCEPT ![g] = AfterFlush(b)]
  <2>1. CASE DrainsAgain(b)
    BY <1>4, <2>1 DEF Finish, AfterFlush
  <2>2. CASE ~DrainsAgain(b)
    BY <2>2 DEF Finish, AfterFlush, Cleared
  <2> QED
    BY <2>1, <2>2
<1> QED
  BY <1>1, <1>2, <1>3, <1>4, <1>5

LEMMA FinishB ==
  ASSUME BInv, NEW g \in DOMAIN bufs, Finish(g)
  PROVE  BInv'
<1>1. PICK b : b = bufs[g]
  OBVIOUS
<1> DEFINE n == accepted
           c == AfterFlush(b)
<1>2. /\ bufs' = [bufs EXCEPT ![g] = c]
      /\ n \in Nat /\ b \in BufferSet(n) /\ HeadSound(b) /\ RestSound(b) /\ PendingSound(b)
      /\ b.chain # <<>> /\ b.chain[1].stage \in {"ok", "failed"} /\ Head(b.chain) = b.chain[1]
      /\ b.chain[1].promises \in Seq(TicketSet(n)) /\ b.chain[1].kind \in {"drain", "rewrite"}
  BY <1>1, AfterFlushIs
<1>3. c \in BufferSet(n) /\ Sound(c) /\ c.retired = b.retired
  <2>1. CASE DrainsAgain(b)
    <3> DEFINE o == [Drain EXCEPT !.promises = b.chain[1].promises]
    <3>0. <<>> \in Seq(1..n)
      OBVIOUS
    <3>1. o \in OpSet(n) /\ o.kind = "drain" /\ o.stage = "start"
      BY <1>2, <3>0 DEF Drain, Operation, OpSet, Stages
    <3> HIDE DEF o
    <3>2. c = [b EXCEPT !.chain = [b.chain EXCEPT ![1] = o]]
      BY <2>1 DEF AfterFlush, o
    <3>3. c \in BufferSet(n) /\ HeadIs(b, c, o)
      BY <1>2, <3>1, <3>2, HeadChanges
    <3>4. ~b.failure
      BY <1>2, <2>1 DEF DrainsAgain, HeadSound, HeadOk
    <3>5. HeadOk(o, b.failure, b.pending)
      BY <3>1, <3>4 DEF HeadOk
    <3>6. Sound(c)
      BY <1>2, <3>3, <3>5, HeadChangeSound
    <3> QED
      BY <3>3, <3>6 DEF HeadIs, SameRest
  <2>2. CASE ~DrainsAgain(b)
    <3> DEFINE ch == Tail(b.chain)
    <3>1. b.chain \in Seq(OpSet(n)) /\ Len(b.chain) > 0 /\ DOMAIN b.chain = 1..Len(b.chain)
      BY <1>2, OpFields
    <3>2. /\ ch \in Seq(OpSet(n)) /\ Len(ch) = Len(b.chain) - 1 /\ DOMAIN ch = 1..Len(ch)
          /\ \A i \in DOMAIN ch : ch[i] = b.chain[i + 1] /\ i + 1 \in DOMAIN b.chain /\ i + 1 > 1
      BY <3>1
    <3>3. c = [b EXCEPT !.chain = ch]
      BY <2>2 DEF AfterFlush
    <3> HIDE DEF ch, c
    <3>4. c \in BufferSet(n) /\ SameRest(b, c) /\ c.chain = ch
      BY <1>2, <3>2, <3>3 DEF BufferSet, SameRest
    <3>5. RestSound(c) /\ \A i \in DOMAIN c.chain : c.chain[i].kind = "rewrite" /\ c.chain[i].stage = "start"
      BY <1>2, <3>2, <3>4 DEF RestSound
    <3>6. HeadSound(c)
      <4>1. c.chain # <<>> => 1 \in DOMAIN c.chain
        BY <3>2, <3>4
      <4> QED
        BY <3>5, <4>1 DEF HeadSound, HeadOk
    <3>7. c.chain = <<>> => c.pending = <<>> \/ c.failure
      <4> SUFFICES ASSUME c.chain = <<>>, ~b.failure PROVE b.pending = <<>>
        BY <3>4 DEF SameRest
      <4>1. ~Overtaken(b)
        BY <3>1, <3>2, <3>4 DEF Overtaken
      <4>2. b.chain[1].stage = "ok"
        BY <1>2 DEF HeadSound, HeadOk
      <4> QED
        BY <1>2, <2>2, <4>1, <4>2 DEF DrainsAgain
    <3>8. PendingSound(c)
      BY <1>2, <3>4, <3>7 DEF PendingSound, SameRest, Settled
    <3> QED
      BY <3>4, <3>5, <3>6, <3>8 DEF Sound, SameRest
  <2> QED
    BY <2>1, <2>2
<1>4. promised' \subseteq 1..accepted
  <2>1. Kept(b) \subseteq 1..accepted
    <3>1. \A t \in Range(b.chain[1].promises) : t \in TicketSet(n)
      BY <1>2, RangeIn
    <3>2. \A t \in Range(b.chain[1].promises) : t.records \subseteq 1..n
      BY <3>1 DEF TicketSet
    <3> QED
      BY <1>2, <3>2 DEF Kept
  <2> QED
    BY <1>1, <2>1, InvFacts DEF Finish
<1> HIDE DEF c
<1> QED
  BY <1>1, <1>2, <1>3, <1>4, InvFacts, OneStep DEF Finish

LEMMA CrashB == BInv /\ Crash => BInv'
<1> SUFFICES ASSUME BInv, Crash PROVE BInv'
  OBVIOUS
<1>1. file' \in Seq(LineSet(accepted))
  <2>1. CASE file' = file
    BY <2>1, InvFacts
  <2>2. ASSUME NEW g \in DOMAIN bufs, Runs(g, "drain", "io"), file' \in Partial(file, Op(g).data)
        PROVE  file' \in Seq(LineSet(accepted))
    <3>1. Op(g).data \in Seq(1..accepted)
      BY <2>2, RunsIs
    <3>2. Op(g).data \in Seq(LineSet(accepted)) /\ Torn \in LineSet(accepted) /\ Corrupted \in LineSet(accepted)
      BY <3>1, InvFacts, RecordsAreLines
    <3> QED
      BY <2>2, <3>2, InvFacts, PartialTypes
  <2>3. ASSUME NEW g \in DOMAIN bufs, Runs(g, "rewrite", "io"), file' = Op(g).data
        PROVE  file' \in Seq(LineSet(accepted))
    <3>1. Op(g).data \in Seq(1..accepted)
      BY <2>3, RunsIs
    <3> QED
      BY <2>3, <3>1, InvFacts, RecordsAreLines
  <2> QED
    BY <2>1, <2>2, <2>3 DEF Crash
<1>2. crashes' \in 0..MaxCrashes
  BY Bounds DEF Crash, BInv, Types
<1>3. bufs' = <<>> /\ UNCHANGED <<accepted, promised, rewrites>>
  BY DEF Crash
<1>4. Buffers(bufs', accepted)
  BY <1>3 DEF Buffers
<1>5. Types'
  BY <1>1, <1>2, <1>3, Bounds DEF BInv, Types
<1> QED
  BY <1>3, <1>4, <1>5 DEF BInv

LEMMA NextB == BInv /\ [Next]_vars => BInv'
<1> SUFFICES ASSUME BInv, [Next]_vars PROVE BInv'
  OBVIOUS
<1>1. CASE Clients
  BY <1>1, AppendRecordB, RewriteCallB, AcquireB, ReleaseB, FlushCallB, ReadCallB DEF Clients
<1>2. ASSUME NEW g \in DOMAIN bufs, Work(g) PROVE BInv'
  BY <1>2, MicrotaskB, DrainStartsB, RewriteStartsB, FinishB, AppendEndsB, AppendFailsB, RewriteEndsB DEF Work
<1>3. CASE UNCHANGED vars
  BY <1>3 DEF vars, BInv, Types, Buffers
<1> QED
  BY <1>1, <1>2, <1>3, CrashB DEF Next

(* Whatever storage does and whoever calls, the buffers of a key stay sound: *)
(* only the head of a chain of flushes runs, no drain starts behind a        *)
(* failure, and what waits has someone who will write it.                    *)
THEOREM BuffersInvariant == Spec => []BInv
<1>1. BInv /\ [Next]_vars => BInv'
  BY NextB
<1> QED
  BY <1>1, InitB, PTL DEF Spec

(* Every variable keeps its shape: a chain is one running flush and rewrites *)
(* that wait for it, and only the last buffer of the key is not retired.     *)
THEOREM AppendLogTypes == Spec => []TypeOK
<1>1. BInv => TypeOK
  <2> SUFFICES ASSUME BInv PROVE TypeOK
    OBVIOUS
  <2>1. Range(file) \subseteq (1..accepted) \cup {Torn, Corrupted}
    BY InvFacts, RangeIn DEF LineSet
  <2>2. ASSUME NEW g \in DOMAIN bufs
        PROVE  /\ Range(bufs[g].pending) \subseteq 1..accepted
               /\ bufs[g].refs \in 0..1
               /\ g < Len(bufs) => bufs[g].retired
               /\ \A i \in DOMAIN bufs[g].chain :
                    /\ bufs[g].chain[i].kind \in {"drain", "rewrite"}
                    /\ bufs[g].chain[i].stage \in Stages
                    /\ i > 1 => bufs[g].chain[i].kind = "rewrite" /\ bufs[g].chain[i].stage = "start"
    <3>1. accepted \in Nat /\ bufs[g] \in BufferSet(accepted) /\ RestSound(bufs[g])
      BY <2>2, InvFacts
    <3>2. bufs[g].pending \in Seq(1..accepted) /\ bufs[g].refs \in 0..1
      BY <3>1, OpFields
    <3>3. \A i \in DOMAIN bufs[g].chain :
            bufs[g].chain[i].kind \in {"drain", "rewrite"} /\ bufs[g].chain[i].stage \in Stages
      BY <3>1, OpFields
    <3>4. g < Len(bufs) => bufs[g].retired
      BY DEF BInv, Buffers
    <3> QED
      BY <3>1, <3>2, <3>3, <3>4, RangeIn DEF RestSound
  <2> QED
    BY <2>1, <2>2 DEF TypeOK, BInv, Types, Stages
<1> QED
  BY <1>1, BuffersInvariant, PTL

(* Unless a failure stops the log, a record that waits has a scheduled       *)
(* microtask or a flush under way that will write it, also when it came in   *)
(* while a drain ended, a rewrite took over or the owner released the log.   *)
THEOREM NobodyForgottenTheorem == Spec => []NobodyForgotten
<1>1. BInv => NobodyForgotten
  BY InvFacts DEF NobodyForgotten, PendingSound
<1> QED
  BY <1>1, BuffersInvariant, PTL

-----------------------------------------------------------------------------
(* The file, if no rewrite is called while a buffer retires and no write    *)
(* leaves an unfinished line.  F: file, B: buffers, n: accepted.            *)

(* The records that wait in buffers B.                                      *)
Queue(B) == FlattenSeq([g \in DOMAIN B |-> Waits(B[g])])

(* A buffer behind one that lives: it collects, and its drain is not ready. *)
Untouched(b) ==
  /\ ~b.failure
  /\ b.chain # <<>> =>
       Len(b.chain) = 1 /\ b.chain[1].kind = "drain" /\ b.chain[1].stage = "start"

(* A rewrite will write the history h; who waits may rely on h and on what  *)
(* the buffer holds.                                                        *)
Keeps(b, h) ==
  \A i \in DOMAIN b.chain :
    /\ b.chain[i].kind = "rewrite" /\ b.chain[i].stage \in {"start", "io"} => b.chain[i].data = h
    /\ \A t \in Range(b.chain[i].promises) : t.records \subseteq Range(h) \cup Range(b.pending)

(* Nothing of what waits is in the file.                                    *)
Clean(b) ==
  /\ ~b.failure
  /\ b.chain # <<>> =>
       \/ b.chain[1].kind = "drain" /\ (b.chain[1].stage \in {"start", "io"} \/ Len(b.chain) = 1)
       \/ b.chain[1].kind = "rewrite" /\ b.chain[1].stage = "ok"
Ahead(b, w) == IsPrefix(w, b.pending) /\ (Clean(b) => w = <<>>)

(* The file is h and then w.  The buffers before f have settled, f may have *)
(* written w of what it holds, and those behind f wait for it.              *)
Holds(B, n, h, w, f) ==
  /\ h \in Seq(1..n) /\ w \in Seq(1..n) /\ f \in 1..(Len(B) + 1)
  /\ Distinct(h \o Queue(B))
  /\ \A k \in DOMAIN B :
       /\ k < f => Settled(B[k])
       /\ k >= f => ~Settled(B[k]) /\ Keeps(B[k], h)
       /\ k > f => Untouched(B[k])
  /\ f \in DOMAIN B => Ahead(B[f], w)
  /\ f \notin DOMAIN B => w = <<>>

One(B, C, g) == Len(C) = Len(B) /\ \A k \in DOMAIN B : k # g => C[k] = B[k]

LEMMA QueueParts ==
  ASSUME NEW n \in Nat, NEW B \in Seq(BufferSet(n))
  PROVE  LET s == [g \in DOMAIN B |-> Waits(B[g])]
         IN s \in Seq(Seq(1..n)) /\ Len(s) = Len(B) /\ Queue(B) \in Seq(1..n)
<1> DEFINE s == [g \in DOMAIN B |-> Waits(B[g])]
<1>1. \A g \in DOMAIN B : Waits(B[g]) \in Seq(1..n)
  <2>1. ASSUME NEW b \in BufferSet(n) PROVE Waits(b) \in Seq(1..n)
    <3>1. b.pending \in Seq(1..n)
      BY OpFields
    <3>2. <<>> \in Seq(1..n)
      OBVIOUS
    <3> QED
      BY <3>1, <3>2 DEF Waits
  <2> QED
    BY <2>1
<1>2. DOMAIN B = 1..Len(B) /\ Len(B) \in Nat
  OBVIOUS
<1>3. s \in Seq(Seq(1..n)) /\ Len(s) = Len(B)
  BY <1>1, <1>2
<1> HIDE DEF s
<1>4. FlattenSeq(s) \in Seq(1..n)
  <2>1. <<>> \in Seq(1..n)
    OBVIOUS
  <2> QED
    BY <1>3, <2>1, FlattenAppend
<1>5. Queue(B) = FlattenSeq(s)
  BY DEF Queue, s
<1> QED
  BY <1>3, <1>4, <1>5 DEF s

LEMMA QueueIn ==
  ASSUME NEW n \in Nat, NEW B \in Seq(BufferSet(n))
  PROVE  Queue(B) \in Seq(1..n)
BY QueueParts

(* What waits before and behind a buffer stays when the buffer changes.     *)
Beside(n, B, C, g) ==
  \E p, q \in Seq(1..n) :
    /\ Queue(B) = (p \o Waits(B[g])) \o q
    /\ Queue(C) = (p \o Waits(C[g])) \o q
    /\ (\A k \in 1..(g - 1) : Settled(B[k])) => p = <<>>
    /\ g = Len(B) => q = <<>>

LEMMA QueueBeside ==
  ASSUME NEW n \in Nat, NEW B \in Seq(BufferSet(n)), NEW C \in Seq(BufferSet(n)),
         NEW g \in 1..Len(B), One(B, C, g)
  PROVE  Beside(n, B, C, g)
<1> DEFINE s == [k \in DOMAIN B |-> Waits(B[k])]
           t == [k \in DOMAIN C |-> Waits(C[k])]
<1>1. s \in Seq(Seq(1..n)) /\ Len(s) = Len(B) /\ t \in Seq(Seq(1..n)) /\ Len(t) = Len(C)
  BY QueueParts
<1>2. DOMAIN B = 1..Len(B) /\ DOMAIN C = 1..Len(B) /\ Len(C) = Len(B) /\ Len(B) \in Nat
  BY DEF One
<1>3. \A k \in 1..Len(B) : k # g => t[k] = s[k]
  BY <1>2 DEF One
<1>4. s[g] = Waits(B[g]) /\ t[g] = Waits(C[g])
  BY <1>2
<1>5. (\A k \in 1..(g - 1) : Settled(B[k])) => \A k \in 1..(g - 1) : s[k] = <<>>
  BY <1>2 DEF Waits
<1>6. Queue(B) = FlattenSeq(s) /\ Queue(C) = FlattenSeq(t)
  BY DEF Queue
<1> HIDE DEF s, t
<1>8. Around(1..n, s, t, g)
  BY <1>1, <1>2, <1>3, FlattenAround
<1>9. PICK p, q \in Seq(1..n) :
        /\ FlattenSeq(s) = (p \o s[g]) \o q
        /\ FlattenSeq(t) = (p \o t[g]) \o q
        /\ (\A k \in 1..(g - 1) : s[k] = <<>>) => p = <<>>
        /\ (\A k \in (g + 1)..Len(s) : s[k] = <<>>) => q = <<>>
  BY <1>8 DEF Around
<1>10. g = Len(B) => q = <<>>
  BY <1>1, <1>2, <1>9
<1> QED
  BY <1>4, <1>5, <1>6, <1>9, <1>10 DEF Beside

LEMMA QueueStays ==
  ASSUME NEW n \in Nat, NEW B \in Seq(BufferSet(n)), NEW C, NEW g \in DOMAIN B, One(B, C, g),
         C \in Seq(BufferSet(n)), Waits(C[g]) = Waits(B[g])
  PROVE  Queue(C) = Queue(B)
<1>1. Beside(n, B, C, g)
  BY QueueBeside
<1>2. PICK p, q \in Seq(1..n) : /\ Queue(B) = (p \o Waits(B[g])) \o q
                                /\ Queue(C) = (p \o Waits(C[g])) \o q
  BY <1>1 DEF Beside
<1> QED
  BY <1>2

(* A step of the first buffer that lives, or of one that waits behind it.   *)
LEMMA WorksOn ==
  ASSUME NEW n \in Nat, NEW B \in Seq(BufferSet(n)), NEW C \in Seq(BufferSet(n)), NEW g \in DOMAIN B,
         One(B, C, g), NEW h, NEW w, NEW f, Holds(B, n, h, w, f), g >= f,
         C[g].pending = B[g].pending, ~Settled(C[g]), Keeps(C[g], h),
         NEW v \in Seq(1..n), g = f => Ahead(C[g], v), g > f => Untouched(C[g]) /\ v = w
  PROVE  Holds(C, n, h, v, f)
<1>1. DOMAIN C = DOMAIN B /\ Len(C) = Len(B) /\ f \in 1..(Len(B) + 1) /\ DOMAIN B = 1..Len(B) /\ Len(B) \in Nat
  BY DEF One, Holds
<1>2. Queue(C) = Queue(B)
  <2>1. ~Settled(B[g])
    BY DEF Holds
  <2> QED
    BY <2>1, QueueStays DEF Waits
<1>3. \A k \in DOMAIN C :
        /\ k < f => Settled(C[k])
        /\ k >= f => ~Settled(C[k]) /\ Keeps(C[k], h)
        /\ k > f => Untouched(C[k])
  <2> SUFFICES ASSUME NEW k \in DOMAIN C
               PROVE  /\ k < f => Settled(C[k])
                      /\ k >= f => ~Settled(C[k]) /\ Keeps(C[k], h)
                      /\ k > f => Untouched(C[k])
    OBVIOUS
  <2>1. CASE k # g
    <3>1. C[k] = B[k] /\ k \in DOMAIN B
      BY <1>1, <2>1 DEF One
    <3> QED
      BY <3>1 DEF Holds
  <2>2. CASE k = g
    BY <1>1, <2>2
  <2> QED
    BY <2>1, <2>2
<1>4. f \in DOMAIN C => Ahead(C[f], v)
  <2>1. CASE f = g
    BY <2>1
  <2>2. CASE f # g
    <3>1. v = w /\ (f \in DOMAIN B => C[f] = B[f])
      BY <1>1, <2>2 DEF One
    <3> QED
      BY <1>1, <3>1 DEF Holds
  <2> QED
    BY <2>1, <2>2
<1>5. f \in DOMAIN C
  BY <1>1
<1> QED
  BY <1>1, <1>2, <1>3, <1>4, <1>5 DEF Holds

(* A buffer that has settled stays settled.                                 *)
LEMMA WorksBefore ==
  ASSUME NEW n \in Nat, NEW B \in Seq(BufferSet(n)), NEW C \in Seq(BufferSet(n)), NEW g \in DOMAIN B,
         One(B, C, g), NEW h, NEW w, NEW f, Holds(B, n, h, w, f), g < f, Settled(C[g])
  PROVE  Holds(C, n, h, w, f) /\ Queue(C) = Queue(B)
<1>1. DOMAIN C = DOMAIN B /\ Len(C) = Len(B) /\ f \in 1..(Len(B) + 1) /\ DOMAIN B = 1..Len(B) /\ Len(B) \in Nat
  BY DEF One, Holds
<1>2. Queue(C) = Queue(B)
  <2>1. Settled(B[g])
    BY DEF Holds
  <2> QED
    BY <2>1, QueueStays DEF Waits
<1>3. \A k \in DOMAIN C : k # g => C[k] = B[k]
  BY <1>1 DEF One
<1>4. g # f
  BY <1>1
<1>5. \A k \in DOMAIN C :
        /\ k < f => Settled(C[k])
        /\ k >= f => ~Settled(C[k]) /\ Keeps(C[k], h)
        /\ k > f => Untouched(C[k])
  <2> SUFFICES ASSUME NEW k \in DOMAIN C, k # g
               PROVE  /\ k < f => Settled(C[k])
                      /\ k >= f => ~Settled(C[k]) /\ Keeps(C[k], h)
                      /\ k > f => Untouched(C[k])
    BY <1>1
  <2>1. C[k] = B[k] /\ k \in DOMAIN B
    BY <1>1, <1>3
  <2> QED
    BY <2>1 DEF Holds
<1>6. f \in DOMAIN C => Ahead(C[f], w)
  BY <1>1, <1>3, <1>4 DEF Holds
<1>7. f \notin DOMAIN C => w = <<>>
  BY <1>1 DEF Holds
<1>8. h \in Seq(1..n) /\ w \in Seq(1..n) /\ Distinct(h \o Queue(C))
  BY <1>2 DEF Holds
<1>9. Holds(C, n, h, w, f)
  BY <1>1, <1>5, <1>6, <1>7, <1>8 DEF Holds
<1> QED
  BY <1>2, <1>9

LEMMA KeepsUntouched ==
  ASSUME NEW n \in Nat, NEW b \in BufferSet(n), Untouched(b), NEW h \in Seq(1..n), NEW x \in Seq(1..n),
         Keeps(b, h)
  PROVE  Keeps(b, h \o x)
<1>1. \A i \in DOMAIN b.chain : b.chain[i].kind # "rewrite"
  <2>1. b.chain \in Seq(OpSet(n)) /\ (b.chain # <<>> => Len(b.chain) = 1 /\ b.chain[1].kind = "drain")
    BY OpFields DEF Untouched
  <2> QED
    BY <2>1
<1>2. Range(h) \subseteq Range(h \o x)
  BY RangeConcatenation
<1> QED
  BY <1>1, <1>2 DEF Keeps

LEMMA AheadNothing ==
  ASSUME NEW n \in Nat, NEW b \in BufferSet(n)
  PROVE  Ahead(b, <<>>)
<1>1. b.pending \in Seq(1..n)
  BY OpFields
<1>2. <<>> \in Seq(1..n)
  OBVIOUS
<1>3. b.pending = <<>> \o b.pending
  BY <1>1
<1>4. IsPrefix(<<>>, b.pending)
  BY <1>1, <1>2, <1>3, PrefixSplits
<1> QED
  BY <1>4 DEF Ahead

(* x is confirmed.                                                          *)
Splits(s, x, r) == s = x \o r

LEMMA WorksOff ==
  ASSUME NEW n \in Nat, NEW B \in Seq(BufferSet(n)), NEW C \in Seq(BufferSet(n)), NEW f \in DOMAIN B,
         One(B, C, f), NEW h, NEW w, Holds(B, n, h, w, f),
         NEW x \in Seq(1..n), Splits(B[f].pending, x, C[f].pending), ~Settled(C[f]), Keeps(C[f], h \o x)
  PROVE  Holds(C, n, h \o x, <<>>, f) /\ Queue(B) = x \o Queue(C)
<1>1. /\ DOMAIN C = DOMAIN B /\ Len(C) = Len(B) /\ f \in 1..(Len(B) + 1) /\ DOMAIN B = 1..Len(B) /\ Len(B) \in Nat
      /\ h \in Seq(1..n) /\ C[f] \in BufferSet(n)
  BY DEF One, Holds
<1>2. PICK p, q \in Seq(1..n) : /\ Queue(B) = (p \o Waits(B[f])) \o q
                                /\ Queue(C) = (p \o Waits(C[f])) \o q
                                /\ (\A k \in 1..(f - 1) : Settled(B[k])) => p = <<>>
  <2>1. Beside(n, B, C, f)
    BY QueueBeside
  <2> QED
    BY <2>1 DEF Beside
<1>3. p = <<>>
  <2>1. \A k \in 1..(f - 1) : k \in DOMAIN B /\ k < f
    BY <1>1
  <2> QED
    BY <1>2, <2>1 DEF Holds
<1>4. Waits(B[f]) = x \o C[f].pending /\ Waits(C[f]) = C[f].pending
  BY SMTT(30) DEF Waits, Holds, Splits
<1>5. PICK u \in Seq(1..n) : u = C[f].pending
  BY <1>1, OpFields
<1>6. Queue(B) = (x \o u) \o q /\ Queue(C) = u \o q
  BY <1>2, <1>3, <1>4, <1>5
<1>7. Queue(C) \in Seq(1..n) /\ Queue(B) = x \o Queue(C) /\ h \o x \in Seq(1..n)
  <2>1. u \o q \in Seq(1..n) /\ (x \o u) \o q = x \o (u \o q)
    <3>1. u \in Seq(1..n) /\ q \in Seq(1..n)
      BY <1>2, <1>5
    <3>2. u \o q \in Seq(1..n)
      BY <3>1
    <3>3. (x \o u) \o q = x \o (u \o q)
      <4>1. Associative(1..n)
        BY Associates
      <4> QED
        BY <3>1, <4>1, Zenon DEF Associative
    <3> QED
      BY <3>2, <3>3
  <2>2. h \o x \in Seq(1..n)
    BY <1>1
  <2> QED
    BY <1>6, <2>1, <2>2
<1>8. Distinct((h \o x) \o Queue(C))
  <2>1. Distinct(h \o (x \o Queue(C)))
    BY <1>7 DEF Holds
  <2> QED
    BY <1>1, <1>7, <2>1, ThreeParts
<1>9. <<>> \in Seq(1..n)
  OBVIOUS
<1>10. \A k \in DOMAIN C :
         /\ k < f => Settled(C[k])
         /\ k >= f => ~Settled(C[k]) /\ Keeps(C[k], h \o x)
         /\ k > f => Untouched(C[k])
  <2> SUFFICES ASSUME NEW k \in DOMAIN C, k # f
               PROVE  /\ k < f => Settled(C[k])
                      /\ k >= f => ~Settled(C[k]) /\ Keeps(C[k], h \o x)
                      /\ k > f => Untouched(C[k])
    BY <1>1
  <2>1. C[k] = B[k] /\ k \in DOMAIN B
    BY <1>1 DEF One
  <2>2. CASE k < f
    BY <1>1, <2>1, <2>2 DEF Holds
  <2>3. CASE k > f
    <3>1. ~Settled(C[k]) /\ Keeps(C[k], h) /\ Untouched(C[k])
      BY <1>1, <2>1, <2>3 DEF Holds
    <3>2. Keeps(C[k], h \o x)
      BY <1>1, <3>1, KeepsUntouched
    <3> QED
      BY <1>1, <2>3, <3>1, <3>2
  <2> QED
    BY <1>1, <2>2, <2>3
<1>11. Ahead(C[f], <<>>)
  BY <1>1, AheadNothing
<1> QED
  BY <1>1, <1>7, <1>8, <1>9, <1>10, <1>11 DEF Holds

(* The first buffer that lives settles: what it wrote is history, the rest  *)
(* of what it held is gone.                                                 *)
LEMMA WorksNoMore ==
  ASSUME NEW n \in Nat, NEW B \in Seq(BufferSet(n)), NEW C \in Seq(BufferSet(n)), NEW f \in DOMAIN B,
         One(B, C, f), NEW h, NEW w, Holds(B, n, h, w, f), Settled(C[f])
  PROVE  Holds(C, n, h \o w, <<>>, f + 1) /\ Splits(Queue(B), B[f].pending, Queue(C))
<1>1. /\ DOMAIN C = DOMAIN B /\ Len(C) = Len(B) /\ f \in 1..Len(B) /\ DOMAIN B = 1..Len(B) /\ Len(B) \in Nat
      /\ h \in Seq(1..n) /\ w \in Seq(1..n) /\ B[f] \in BufferSet(n)
  BY DEF One, Holds
<1>2. PICK p, q \in Seq(1..n) : /\ Queue(B) = (p \o Waits(B[f])) \o q
                                /\ Queue(C) = (p \o Waits(C[f])) \o q
                                /\ (\A k \in 1..(f - 1) : Settled(B[k])) => p = <<>>
  <2>1. Beside(n, B, C, f)
    BY <1>1, QueueBeside
  <2> QED
    BY <2>1 DEF Beside
<1>3. p = <<>>
  <2>1. \A k \in 1..(f - 1) : k \in DOMAIN B /\ k < f
    BY <1>1
  <2> QED
    BY <1>2, <2>1 DEF Holds
<1>4. Waits(B[f]) = B[f].pending /\ Waits(C[f]) = <<>> /\ Ahead(B[f], w)
  BY <1>1 DEF Waits, Holds
<1>5. PICK u \in Seq(1..n) : u = B[f].pending
  BY <1>1, OpFields
<1>6. PICK r \in Seq(1..n) : u = w \o r
  BY <1>1, <1>4, <1>5, PrefixSplits DEF Ahead
<1>7. Queue(B) = u \o q /\ Queue(C) = q
  BY <1>2, <1>3, <1>4, <1>5
<1>8. Distinct((h \o w) \o Queue(C)) /\ h \o w \in Seq(1..n)
  <2>1. Distinct(h \o ((w \o r) \o q))
    BY <1>6, <1>7 DEF Holds
  <2>2. w \in Seq(1..n) /\ r \in Seq(1..n) /\ q \in Seq(1..n) /\ h \in Seq(1..n)
    BY <1>1, <1>2, <1>6
  <2>3. Distinct((h \o w) \o q)
    BY <2>1, <2>2, DistinctDrop
  <2> QED
    BY <1>7, <2>2, <2>3
<1>9. <<>> \in Seq(1..n)
  OBVIOUS
<1>10. \A k \in DOMAIN C :
         /\ k < f + 1 => Settled(C[k])
         /\ k >= f + 1 => ~Settled(C[k]) /\ Keeps(C[k], h \o w)
         /\ k > f + 1 => Untouched(C[k])
  <2> SUFFICES ASSUME NEW k \in DOMAIN C, k # f
               PROVE  /\ k < f + 1 => Settled(C[k])
                      /\ k >= f + 1 => ~Settled(C[k]) /\ Keeps(C[k], h \o w)
                      /\ k > f + 1 => Untouched(C[k])
    BY <1>1
  <2>1. C[k] = B[k] /\ k \in DOMAIN B /\ B[k] \in BufferSet(n)
    BY <1>1 DEF One
  <2>2. CASE k < f
    BY <1>1, <2>1, <2>2 DEF Holds
  <2>3. CASE k > f
    <3>1. ~Settled(B[k]) /\ Keeps(B[k], h) /\ Untouched(B[k])
      BY <1>1, <2>1, <2>3 DEF Holds
    <3>2. Keeps(B[k], h \o w)
      BY <1>1, <2>1, <3>1, KeepsUntouched
    <3> QED
      BY <1>1, <2>1, <2>3, <3>1, <3>2
  <2> QED
    BY <1>1, <2>2, <2>3
<1>11. f + 1 \in DOMAIN C => Ahead(C[f + 1], <<>>)
  BY AheadNothing
<1>12. f + 1 \in 1..(Len(C) + 1)
  BY <1>1
<1>13. Holds(C, n, h \o w, <<>>, f + 1)
  BY <1>8, <1>9, <1>10, <1>11, <1>12 DEF Holds
<1> QED
  BY <1>5, <1>7, <1>13 DEF Splits

(* A new buffer behind the others.                                          *)
LEMMA OpensBehind ==
  ASSUME NEW n \in Nat, NEW B \in Seq(BufferSet(n)), NEW h, NEW w, NEW f, Holds(B, n, h, w, f),
         NEW C, C = Append(B, NewBuffer)
  PROVE  Holds(C, n, h, w, f) /\ Queue(C) = Queue(B)
<1>1. /\ NewBuffer \in BufferSet(n) /\ ~Settled(NewBuffer) /\ NewBuffer.chain = <<>> /\ ~NewBuffer.failure
      /\ NewBuffer.pending = <<>>
  BY NewBufferSound DEF Settled
<1>2. /\ C \in Seq(BufferSet(n)) /\ Len(C) = Len(B) + 1 /\ DOMAIN C = 1..Len(C) /\ DOMAIN B = 1..Len(B)
      /\ C[Len(C)] = NewBuffer /\ Len(B) \in Nat /\ \A k \in DOMAIN B : C[k] = B[k]
  BY <1>1
<1>3. Queue(C) = Queue(B)
  <2> DEFINE s == [k \in DOMAIN B |-> Waits(B[k])]
             t == [k \in DOMAIN C |-> Waits(C[k])]
  <2>1. s \in Seq(Seq(1..n)) /\ t \in Seq(Seq(1..n)) /\ Len(s) = Len(B) /\ Len(t) = Len(C)
    BY <1>2, QueueParts
  <2>2. <<>> \in Seq(1..n)
    OBVIOUS
  <2>3. \A k \in 1..Len(B) : t[k] = s[k]
    BY <1>2
  <2>4. t[Len(B) + 1] = <<>>
    BY <1>1, <1>2 DEF Waits
  <2> HIDE DEF s, t
  <2>5. PICK e \in Seq(1..n) : e = <<>>
    BY <2>2
  <2>6. t = Append(s, e)
    <3> DEFINE r == Append(s, e)
    <3>1. /\ r \in Seq(Seq(1..n)) /\ Len(r) = Len(B) + 1 /\ r[Len(B) + 1] = e
          /\ \A k \in 1..Len(B) : r[k] = s[k]
      BY <1>2, <2>1, <2>5
    <3> HIDE DEF r
    <3>2. Len(t) = Len(r) /\ \A k \in 1..Len(t) : t[k] = r[k]
      <4>1. Len(t) = Len(B) + 1 /\ Len(r) = Len(B) + 1 /\ Len(B) \in Nat
        BY <1>2, <2>1, <3>1
      <4>2. t[Len(B) + 1] = r[Len(B) + 1]
        BY <2>4, <2>5, <3>1
      <4>3. \A k \in 1..Len(B) : t[k] = r[k]
        BY <2>3, <3>1
      <4>4. \A k \in 1..(Len(B) + 1) : k \in 1..Len(B) \/ k = Len(B) + 1
        BY <4>1
      <4> QED
        BY <4>1, <4>2, <4>3, <4>4
    <3>3. t = r
      BY <2>1, <3>1, <3>2, SeqEqual
    <3> QED
      BY <3>3 DEF r
  <2>7. FlattenSeq(t) = FlattenSeq(s) \o e /\ FlattenSeq(s) \in Seq(1..n)
    BY <2>1, <2>5, <2>6, FlattenAppend
  <2>8. FlattenSeq(t) = FlattenSeq(s)
    BY <2>5, <2>7, ConcatEmptySeq
  <2> QED
    BY <2>8 DEF Queue, s, t
<1>4. Keeps(NewBuffer, h) /\ Untouched(NewBuffer) /\ Ahead(NewBuffer, <<>>)
  BY <1>1, AheadNothing DEF Keeps, Untouched
<1>5. f \in 1..(Len(B) + 1)
  BY DEF Holds
<1>6. \A k \in DOMAIN C :
        /\ k < f => Settled(C[k])
        /\ k >= f => ~Settled(C[k]) /\ Keeps(C[k], h)
        /\ k > f => Untouched(C[k])
  <2> SUFFICES ASSUME NEW k \in DOMAIN C
               PROVE  /\ k < f => Settled(C[k])
                      /\ k >= f => ~Settled(C[k]) /\ Keeps(C[k], h)
                      /\ k > f => Untouched(C[k])
    OBVIOUS
  <2>1. CASE k \in DOMAIN B
    <3>1. C[k] = B[k]
      BY <1>2, <2>1
    <3> QED
      BY <2>1, <3>1 DEF Holds
  <2>2. CASE k \notin DOMAIN B
    <3>1. k = Len(C) /\ C[k] = NewBuffer /\ ~(k < f)
      BY <1>2, <1>5, <2>2
    <3> QED
      BY <1>1, <1>4, <3>1
  <2> QED
    BY <2>1, <2>2
<1>7. f \in DOMAIN C /\ Ahead(C[f], w)
  <2>1. CASE f \in DOMAIN B
    BY <1>2, <2>1 DEF Holds
  <2>2. CASE f \notin DOMAIN B
    <3>1. f = Len(C) /\ w = <<>>
      BY <1>2, <1>5, <2>2 DEF Holds
    <3> QED
      BY <1>2, <1>4, <3>1
  <2> QED
    BY <2>1, <2>2
<1>8. h \in Seq(1..n) /\ w \in Seq(1..n) /\ Distinct(h \o Queue(C)) /\ f \in 1..(Len(C) + 1)
  BY <1>2, <1>3 DEF Holds
<1>9. Holds(C, n, h, w, f)
  BY <1>6, <1>7, <1>8 DEF Holds
<1> QED
  BY <1>3, <1>9

(* A record joins the last buffer.                                          *)
Joined(b, c, x) ==
  c.pending = Append(b.pending, x) /\ c.chain = b.chain /\ c.failure = b.failure

Succeeds(m, n) == m = n + 1

LEMMA AppendInside ==
  ASSUME NEW m \in Nat, m # 0, NEW p \in Seq(1..m), NEW u \in Seq(1..m), NEW q, q = <<>>
  PROVE  (p \o Append(u, m)) \o q = Append((p \o u) \o q, m)
<1> DEFINE T == 1..m
<1>1. p \in Seq(T) /\ u \in Seq(T) /\ m \in T
  OBVIOUS
<1> HIDE DEF T
<1>2. p \o u \in Seq(T) /\ Append(u, m) \in Seq(T)
  BY <1>1
<1>3. p \o Append(u, m) \in Seq(T) /\ p \o Append(u, m) = Append(p \o u, m)
  BY <1>1, <1>2, ConcatAppend
<1> QED
  BY <1>2, <1>3, ConcatEmptySeq

LEMMA Joins ==
  ASSUME NEW n \in Nat, NEW m \in Nat, Succeeds(m, n), NEW B \in Seq(BufferSet(n)), NEW C \in Seq(BufferSet(m)), NEW g \in DOMAIN B,
         g = Len(B), One(B, C, g), NEW h, NEW w, NEW f, Holds(B, n, h, w, f), g >= f,
         Joined(B[g], C[g], m), ~Settled(C[g])
  PROVE  Holds(C, m, h, w, f) /\ Queue(C) = Append(Queue(B), m)
<1>1. /\ DOMAIN C = DOMAIN B /\ Len(C) = Len(B) /\ f \in 1..(Len(B) + 1) /\ DOMAIN B = 1..Len(B) /\ Len(B) \in Nat
      /\ m \in 1..m /\ f \in DOMAIN C
  <2>1. m \in 1..m
    BY DEF Succeeds
  <2> QED
    BY <2>1 DEF One, Holds
<1>2. Seq(1..n) \subseteq Seq(1..m) /\ B \in Seq(BufferSet(m))
  BY MoreRecords DEF Succeeds
<1>3. h \in Seq(1..n) /\ w \in Seq(1..n) /\ Queue(B) \in Seq(1..n) /\ B[g] \in BufferSet(n) /\ ~Settled(B[g])
  BY QueueIn DEF Holds
<1>4. PICK p, q \in Seq(1..m) :
        /\ Queue(B) = (p \o Waits(B[g])) \o q
        /\ Queue(C) = (p \o Waits(C[g])) \o q
        /\ g = Len(B) => q = <<>>
  <2>1. Beside(m, B, C, g)
    BY <1>1, <1>2, QueueBeside
  <2> QED
    BY <2>1 DEF Beside
<1>5. PICK u \in Seq(1..m) : u = B[g].pending
  BY <1>2, <1>3, OpFields
<1>6. Waits(B[g]) = u /\ Waits(C[g]) = Append(u, m)
  BY <1>3, <1>5 DEF Waits, Joined
<1>7. Queue(C) = Append(Queue(B), m)
  <2>1. m # 0 /\ q = <<>> /\ p \in Seq(1..m) /\ q \in Seq(1..m) /\ u \in Seq(1..m)
    BY <1>4, <1>5 DEF Succeeds
  <2>2. (p \o Append(u, m)) \o q = Append((p \o u) \o q, m)
    BY <2>1, AppendInside
  <2>3. Queue(B) = (p \o u) \o q /\ Queue(C) = (p \o Append(u, m)) \o q
    BY <1>4, <1>6, Zenon
  <2> QED
    BY <2>2, <2>3, Zenon
<1>8. Distinct(h \o Queue(C))
  <2> DEFINE T == 1..m
             s == h \o Queue(B)
  <2>1. s \in Seq(1..n) /\ Distinct(s) /\ h \in Seq(T) /\ Queue(B) \in Seq(T) /\ s \in Seq(T) /\ m \in T
    BY <1>1, <1>2, <1>3 DEF Holds
  <2> HIDE DEF T
  <2>2. m \notin Range(s)
    <3>1. Range(s) \subseteq 1..n
      BY <2>1, RangeIn
    <3>2. m \notin 1..n
      BY DEF Succeeds
    <3> QED
      BY <3>1, <3>2
  <2>3. h \o Append(Queue(B), m) = Append(s, m)
    <3> DEFINE Q == Queue(B)
    <3>1. h \in Seq(T) /\ Q \in Seq(T) /\ m \in T
      BY <2>1
    <3> HIDE DEF Q
    <3>2. h \o Append(Q, m) = Append(h \o Q, m)
      BY <3>1, ConcatAppend, SMTT(30)
    <3> QED
      BY <3>2 DEF Q
  <2> HIDE DEF s
  <2>4. Distinct(Append(s, m))
    BY <2>1, <2>2, DistinctAppend
  <2> QED
    BY <1>7, <2>3, <2>4
<1>9. Keeps(B[g], h) => Keeps(C[g], h)
  <2>1. Range(u) \subseteq Range(Append(u, m))
    <3> DEFINE T == 1..m
    <3>1. u \in Seq(T) /\ m \in T
      BY <1>1, <1>5
    <3> HIDE DEF T
    <3>2. Range(Append(u, m)) = Range(u) \cup {m}
      BY <3>1, RangeAppend
    <3> QED
      BY <3>2
  <2>2. Range(B[g].pending) \subseteq Range(C[g].pending) /\ C[g].chain = B[g].chain
    BY <1>5, <2>1 DEF Joined
  <2> QED
    BY <2>2 DEF Keeps
<1>10. Untouched(B[g]) => Untouched(C[g])
  BY DEF Untouched, Joined
<1>11. Ahead(B[g], w) => Ahead(C[g], w)
  <2>1. IsPrefix(w, u) => IsPrefix(w, Append(u, m))
    BY <1>1, <1>2, <1>3, <1>5, PrefixAppend
  <2>2. Clean(C[g]) = Clean(B[g])
    BY DEF Clean, Joined
  <2> QED
    BY <1>5, <2>1, <2>2 DEF Ahead, Joined
<1>12. \A k \in DOMAIN C :
         /\ k < f => Settled(C[k])
         /\ k >= f => ~Settled(C[k]) /\ Keeps(C[k], h)
         /\ k > f => Untouched(C[k])
  <2> SUFFICES ASSUME NEW k \in DOMAIN C
               PROVE  /\ k < f => Settled(C[k])
                      /\ k >= f => ~Settled(C[k]) /\ Keeps(C[k], h)
                      /\ k > f => Untouched(C[k])
    OBVIOUS
  <2>1. CASE k # g
    <3>1. C[k] = B[k] /\ k \in DOMAIN B
      BY <1>1, <2>1 DEF One
    <3> QED
      BY <3>1 DEF Holds
  <2>2. CASE k = g
    <3>1. Keeps(B[g], h) /\ (g > f => Untouched(B[g]))
      BY DEF Holds
    <3> QED
      BY <1>1, <1>9, <1>10, <2>2, <3>1
  <2> QED
    BY <2>1, <2>2
<1>13. Ahead(C[f], w)
  <2>1. f \in DOMAIN B /\ Ahead(B[f], w)
    BY <1>1 DEF Holds
  <2>2. f # g => C[f] = B[f]
    BY <2>1 DEF One
  <2> QED
    BY <1>11, <2>1, <2>2
<1>14. h \in Seq(1..m) /\ w \in Seq(1..m) /\ f \in 1..(Len(C) + 1)
  BY <1>1, <1>2, <1>3
<1>15. Holds(C, m, h, w, f)
  BY <1>1, <1>8, <1>12, <1>13, <1>14 DEF Holds
<1> QED
  BY <1>7, <1>15

(* History, tail and what landed of it, read from the file and the buffers. *)
Reads(n, F, B, h, w) ==
  /\ Only(F, (1..n) \ Range(Queue(B))) = h
  /\ Only(F, Range(Queue(B))) = w
  /\ Only(F, 1..n) = F
  /\ IsPrefix(w, Queue(B))

(* What the first buffer that lives holds is at the head of what waits.     *)
LEMMA FirstWaits ==
  ASSUME NEW n \in Nat, NEW B \in Seq(BufferSet(n)), NEW h, NEW w, NEW f, Holds(B, n, h, w, f),
         f \in DOMAIN B, NEW x \in Seq(1..n), IsPrefix(x, B[f].pending)
  PROVE  IsPrefix(x, Queue(B))
<1>1. One(B, B, f) /\ f \in 1..Len(B)
  BY DEF One
<1>2. Beside(n, B, B, f)
  BY <1>1, QueueBeside
<1>3. PICK p, q \in Seq(1..n) : /\ Queue(B) = (p \o Waits(B[f])) \o q
                                /\ (\A k \in 1..(f - 1) : Settled(B[k])) => p = <<>>
  BY <1>2 DEF Beside
<1>4. p = <<>>
  <2>1. \A k \in 1..(f - 1) : k \in DOMAIN B /\ k < f
    BY <1>1
  <2> QED
    BY <1>3, <2>1 DEF Holds
<1>5. PICK u \in Seq(1..n) : u = B[f].pending
  BY OpFields
<1>6. Waits(B[f]) = u
  BY <1>5 DEF Holds, Waits
<1>7. Queue(B) = u \o q
  BY <1>3, <1>4, <1>5, <1>6
<1> QED
  BY <1>3, <1>5, <1>7, PrefixConcat

LEMMA HoldsReads ==
  ASSUME NEW n \in Nat, NEW B \in Seq(BufferSet(n)), NEW h, NEW w, NEW f, Holds(B, n, h, w, f)
  PROVE  Reads(n, h \o w, B, h, w)
<1> DEFINE Q == Queue(B)
           R == Range(Q)
           S == (1..n) \ R
<1>1. h \in Seq(1..n) /\ w \in Seq(1..n) /\ Q \in Seq(1..n) /\ h \o w \in Seq(1..n) /\ Distinct(h \o Q)
  BY QueueIn DEF Holds
<1>2. IsPrefix(w, Q)
  <2>1. CASE f \notin DOMAIN B
    <3>1. w = <<>> /\ Q = w \o Q
      BY <1>1, <2>1 DEF Holds
    <3> QED
      BY <1>1, <3>1, PrefixSplits
  <2>2. CASE f \in DOMAIN B
    <3>1. IsPrefix(w, B[f].pending)
      BY <2>2 DEF Holds, Ahead
    <3> QED
      BY <1>1, <2>2, <3>1, FirstWaits
  <2> QED
    BY <2>1, <2>2
<1> HIDE DEF Q
<1>3. Range(w) \subseteq R
  <2>1. PICK v \in Seq(1..n) : Q = w \o v
    BY <1>1, <1>2, PrefixSplits
  <2> QED
    BY <1>1, <2>1, RangeConcatenation
<1>4. Range(h) \cap R = {} /\ Range(h) \subseteq 1..n /\ Range(w) \subseteq 1..n
  <2>1. \A x \in Range(h) : x \notin Range(Q)
    BY <1>1, DistinctConcat
  <2> QED
    BY <1>1, <2>1, RangeIn
<1>5. Only(h \o w, 1..n) = h \o w
  BY <1>1, RangeIn, OnlyAll
<1>6. Only(h \o w, S) = h
  <2>1. Only(h \o w, S) = Only(h, S) \o Only(w, S)
    BY <1>1, OnlyConcat, SMTT(30)
  <2>2. Range(h) \subseteq S /\ Range(w) \cap S = {}
    BY <1>3, <1>4
  <2>3. Only(h, S) = h /\ Only(w, S) = <<>>
    BY <1>1, <2>2, OnlyAll, OnlyNone
  <2> QED
    BY <1>1, <2>1, <2>3, ConcatEmptySeq
<1>7. Only(h \o w, R) = w
  <2>1. Only(h \o w, R) = Only(h, R) \o Only(w, R)
    BY <1>1, OnlyConcat
  <2>2. Only(h, R) = <<>> /\ Only(w, R) = w
    BY <1>1, <1>3, <1>4, OnlyAll, OnlyNone
  <2> QED
    BY <1>1, <2>1, <2>2, ConcatEmptySeq
<1> QED
  BY <1>2, <1>5, <1>6, <1>7 DEF Reads, Q

(* A failure stops the log while its buffer is the first that lives.        *)
Stuck(B) == \E g \in DOMAIN B : ~Settled(B[g]) /\ B[g].failure

LEMMA StuckIs ==
  ASSUME NEW n, NEW B \in Seq(BufferSet(n)), NEW h, NEW w, NEW f, Holds(B, n, h, w, f)
  PROVE  Stuck(B) <=> f \in DOMAIN B /\ B[f].failure
<1>1. ASSUME NEW g \in DOMAIN B, ~Settled(B[g]), B[g].failure
      PROVE  f \in DOMAIN B /\ B[f].failure
  <2>1. g \in Int /\ f \in Int
    <3>1. DOMAIN B = 1..Len(B) /\ Len(B) \in Nat
      OBVIOUS
    <3> QED
      BY <3>1 DEF Holds
  <2>2. ~(g < f) /\ ~(g > f)
    BY <1>1 DEF Holds, Untouched
  <2>3. g = f
    BY <2>1, <2>2
  <2> QED
    BY <1>1, <2>3
<1>2. ASSUME f \in DOMAIN B, B[f].failure
      PROVE  Stuck(B)
  <2>1. ~Settled(B[f])
    BY <1>2 DEF Holds
  <2> QED
    BY <1>2, <2>1 DEF Stuck
<1> QED
  BY <1>1, <1>2 DEF Stuck

(* A step that leaves file, history and tail as they are.                   *)
Alike(B, C, n, h, w, f) ==
  Holds(C, n, h, w, f) /\ Queue(C) = Queue(B) /\ Stuck(C) = Stuck(B)

LEMMA Quiet ==
  ASSUME NEW n \in Nat, NEW B \in Seq(BufferSet(n)), NEW h, NEW w, NEW f, Holds(B, n, h, w, f),
         NEW g \in DOMAIN B, g >= f, NEW c \in BufferSet(n), NEW C, C = [B EXCEPT ![g] = c],
         c.pending = B[g].pending, c.failure = B[g].failure, ~Settled(c), Keeps(c, h),
         g = f => (Clean(c) => w = <<>>), g > f => Untouched(c)
  PROVE  Alike(B, C, n, h, w, f)
<1>1. C \in Seq(BufferSet(n)) /\ One(B, C, g) /\ C[g] = c /\ DOMAIN C = DOMAIN B
  BY DEF One
<1>2. w \in Seq(1..n) /\ (g = f => Ahead(c, w))
  BY DEF Holds, Ahead
<1>3. Holds(C, n, h, w, f)
  BY <1>1, <1>2, WorksOn
<1>4. Queue(C) = Queue(B)
  <2>1. Waits(C[g]) = Waits(B[g])
    BY <1>1 DEF Waits, Holds
  <2> QED
    BY <1>1, <2>1, QueueStays
<1>5. f \in DOMAIN B => C[f].failure = B[f].failure
  BY <1>1 DEF One
<1>6. Stuck(C) = Stuck(B)
  <2>1. Stuck(C) <=> Stuck(B)
    BY <1>1, <1>3, <1>5, StuckIs
  <2> QED
    BY <2>1 DEF Stuck
<1> QED
  BY <1>3, <1>4, <1>6 DEF Alike

(* A flush joins or starts behind what runs.                                *)
LEMMA FlushedKeeps ==
  ASSUME NEW n \in Nat, NEW b \in BufferSet(n), NEW k \in Seq(TicketSet(n)), NEW h, Keeps(b, h),
         \A t \in Range(k) : t.records \subseteq Range(h) \cup Range(b.pending)
  PROVE  /\ Keeps(Flushed(b, k), h)
         /\ Untouched(b) => Untouched(Flushed(b, k))
         /\ Clean(Flushed(b, k)) => Clean(b)
<1> DEFINE c == Flushed(b, k)
<1>1. /\ c \in BufferSet(n) /\ SameRest(b, c)
      /\ \/ /\ b.chain # <<>> /\ SameOps(b, c)
            /\ \A i \in DOMAIN b.chain :
                 c.chain[i].promises =
                   IF i = Len(b.chain) THEN b.chain[i].promises \o k ELSE b.chain[i].promises
         \/ b.chain = <<>> /\ b.failure /\ c = b
         \/ b.chain = <<>> /\ ~b.failure /\ c.chain = <<[Drain EXCEPT !.promises = k]>>
  BY FlushedIs
<1> HIDE DEF c
<1>2. CASE /\ b.chain # <<>> /\ SameOps(b, c)
           /\ \A i \in DOMAIN b.chain :
                c.chain[i].promises =
                  IF i = Len(b.chain) THEN b.chain[i].promises \o k ELSE b.chain[i].promises
  <2>1. DOMAIN c.chain = DOMAIN b.chain /\ 1 \in DOMAIN b.chain /\ c.chain # <<>>
    BY <1>1, <1>2, OpFields DEF SameOps
  <2>2. ASSUME NEW i \in DOMAIN b.chain
        PROVE  \A t \in Range(c.chain[i].promises) : t.records \subseteq Range(h) \cup Range(b.pending)
    <3>1. b.chain[i].promises \in Seq(TicketSet(n))
      BY OpFields
    <3>2. Range(b.chain[i].promises \o k) = Range(b.chain[i].promises) \cup Range(k)
      BY <3>1, RangeConcatenation
    <3>3. \A t \in Range(b.chain[i].promises) : t.records \subseteq Range(h) \cup Range(b.pending)
      BY DEF Keeps
    <3>4. c.chain[i].promises = b.chain[i].promises \/ c.chain[i].promises = b.chain[i].promises \o k
      BY <1>2
    <3> QED
      BY <3>2, <3>3, <3>4
  <2>3. Keeps(c, h)
    BY <1>1, <1>2, <2>1, <2>2 DEF Keeps, SameOps, SameRest
  <2>4. Untouched(b) => Untouched(c)
    BY <1>1, <1>2, <2>1 DEF Untouched, SameOps, SameRest
  <2>5. Clean(c) => Clean(b)
    BY <1>1, <1>2, <2>1 DEF Clean, SameOps, SameRest
  <2> QED
    BY <2>3, <2>4, <2>5 DEF c
<1>3. CASE b.chain = <<>> /\ b.failure /\ c = b
  BY <1>3 DEF c
<1>4. CASE b.chain = <<>> /\ ~b.failure /\ c.chain = <<[Drain EXCEPT !.promises = k]>>
  <2>1. /\ Len(c.chain) = 1 /\ DOMAIN c.chain = 1..1 /\ c.chain[1].kind = "drain" /\ c.chain[1].stage = "start"
        /\ c.chain[1].promises = k
    BY <1>4 DEF Drain, Operation
  <2>2. Keeps(c, h)
    BY <1>1, <2>1 DEF Keeps, SameRest
  <2>3. Untouched(c) /\ Clean(b)
    BY <1>1, <1>4, <2>1 DEF Untouched, SameRest, Clean
  <2> QED
    BY <2>2, <2>3 DEF c
<1> QED
  BY <1>1, <1>2, <1>3, <1>4

-----------------------------------------------------------------------------
(* The steps. *)

File(h, w, f) ==
  file = h \o w /\ Holds(bufs, accepted, h, w, f) /\ promised \subseteq Range(h)
FileInv == \E h, w, f : File(h, w, f)

(* What the journal sees.                                                   *)
Sees(h, t, l, s) ==
  /\ History = h /\ Waiting = t
  /\ Len(Only(file, Range(Waiting))) = l
  /\ s = \E g \in DOMAIN bufs : ~Settled(bufs[g]) /\ bufs[g].failure

LEMMA FileSees ==
  ASSUME BInv, NEW h, NEW w, NEW f, File(h, w, f), NEW t, t = Queue(bufs), NEW s, s = Stuck(bufs)
  PROVE  Sees(h, t, Len(w), s)
<1>1. Waiting = Queue(bufs)
  BY DEF Waiting, Queue
<1>2. Reads(accepted, file, bufs, h, w)
  BY InvFacts, HoldsReads DEF File
<1>3. History = h /\ Only(file, Range(Waiting)) = w
  BY <1>1, <1>2 DEF Reads, History
<1> QED
  BY <1>1, <1>2, <1>3 DEF Sees, Stuck

LEMMA FileSeesNext ==
  ASSUME BInv', NEW h, NEW w, NEW f, File(h, w, f)',
         NEW t, t = Queue(bufs'), NEW s, s = Stuck(bufs')
  PROVE  Sees(h, t, Len(w), s)'
<1>1. Waiting' = Queue(bufs')
  BY DEF Waiting, Queue
<1>2. accepted' \in Nat /\ bufs' \in Seq(BufferSet(accepted'))
  BY Bounds DEF BInv, Types, Buffers
<1>3. Reads(accepted', file', bufs', h, w)
  BY <1>2, HoldsReads DEF File
<1>4. History' = h /\ Only(file', Range(Waiting')) = w
  BY <1>1, <1>3 DEF Reads, History
<1>5. s = \E g \in DOMAIN bufs' : ~Settled(bufs'[g]) /\ bufs'[g].failure
  BY DEF Stuck
<1> QED
  BY <1>1, <1>4, <1>5 DEF Sees
(* What a step is for the journal, from what the journal sees of it.        *)
Carried == [J!JNext]_(J!journalVars)

LEMMA JStays ==
  ASSUME NEW h, NEW t, NEW l, NEW s, Sees(h, t, l, s), Sees(h, t, l, s)', promised' = promised
  PROVE  Carried
BY DEF Sees, Carried, J!journalVars

LEMMA JAccept ==
  ASSUME NEW h, NEW t, NEW l, NEW s, NEW r \in 1..MaxRecords, Sees(h, t, l, s), Sees(h, Append(t, r), l, s)',
         promised' = promised, r \notin Range(h) \cup Range(t)
  PROVE  Carried
<1>1. J!Accept(r)
  BY DEF Sees, J!Accept, J!Range, Range
<1> QED
  BY <1>1 DEF Carried, J!JNext

LEMMA JLand ==
  ASSUME NEW h, NEW t, NEW l, NEW m, NEW s \in BOOLEAN, Sees(h, t, l, FALSE), Sees(h, t, m, s)',
         promised' = promised, m \in l..Len(t)
  PROVE  Carried
<1>1. J!Land
  BY DEF Sees, J!Land
<1> QED
  BY <1>1 DEF Carried, J!JNext

LEMMA JConfirm ==
  ASSUME NEW h, NEW x, NEW t, NEW u, NEW l, NEW n \in 1..Len(t),
         Sees(h, t, l, FALSE), Sees(h \o x, u, 0, FALSE)', promised' = promised,
         l <= n, x = SubSeq(t, 1, n), u = SubSeq(t, n + 1, Len(t))
  PROVE  Carried
<1>1. J!Confirm(n)
  BY DEF Sees, J!Confirm
<1>2. n \in 1..Len(Waiting)
  BY DEF Sees
<1> QED
  BY <1>1, <1>2 DEF Carried, J!JNext

LEMMA JPromise ==
  ASSUME NEW h, NEW t, NEW l, NEW s, NEW S, Sees(h, t, l, s), Sees(h, t, l, s)',
         promised' = promised \cup S, S \subseteq Range(h)
  PROVE  Carried
<1>1. J!Promise(S)
  BY DEF Sees, J!Promise, J!Range, Range
<1>2. S \in SUBSET J!Range(History)
  BY DEF Sees, J!Range, Range
<1> QED
  BY <1>1, <1>2 DEF Carried, J!JNext

LEMMA JReplace ==
  ASSUME NEW h, NEW t, NEW l, NEW s, NEW r \in BOOLEAN, Sees(h, t, l, s), Sees(h, t, 0, r)',
         promised' = promised
  PROVE  Carried
<1>1. J!Replace(History)
  BY DEF Sees, J!Replace
<1> QED
  BY <1>1 DEF Carried, J!JNext

LEMMA JAbandon ==
  ASSUME NEW h, NEW w, NEW t, NEW u, NEW l, NEW s, NEW n \in 0..Len(t),
         Sees(h, t, l, s), Sees(h \o w, u, 0, FALSE)', promised' = promised,
         l <= n, w = SubSeq(t, 1, l), u = SubSeq(t, n + 1, Len(t))
  PROVE  Carried
<1>1. J!Abandon(n)
  BY DEF Sees, J!Abandon
<1>2. n \in 0..Len(Waiting)
  BY DEF Sees
<1> QED
  BY <1>1, <1>2 DEF Carried, J!JNext

LEMMA JCrash ==
  ASSUME NEW h, NEW x, NEW t, NEW l, NEW s, NEW n \in 0..Len(t),
         Sees(h, t, l, s), Sees(h \o x, <<>>, 0, FALSE)', promised' = promised,
         x = SubSeq(t, 1, n)
  PROVE  Carried
<1>1. J!Crash
  BY DEF Sees, J!Crash
<1> QED
  BY <1>1 DEF Carried, J!JNext

(* Where tail splits at what was written or held.                           *)
LEMMA SplitsAt ==
  ASSUME NEW T, NEW t \in Seq(T), NEW x \in Seq(T), NEW u \in Seq(T), Splits(t, x, u)
  PROVE  x = SubSeq(t, 1, Len(x)) /\ u = SubSeq(t, Len(x) + 1, Len(t)) /\ Len(x) \in 0..Len(t)
BY DEF Splits

LEMMA PrefixAt ==
  ASSUME NEW T, NEW t \in Seq(T), NEW x \in Seq(T), IsPrefix(x, t)
  PROVE  x = SubSeq(t, 1, Len(x)) /\ Len(x) \in 0..Len(t)
<1>1. PICK u \in Seq(T) : t = x \o u
  BY PrefixSplits
<1> QED
  BY <1>1, SplitsAt DEF Splits

LEMMA PrefixRest ==
  ASSUME NEW T, NEW t \in Seq(T), NEW x \in Seq(T), IsPrefix(x, t)
  PROVE  /\ SubSeq(t, Len(x) + 1, Len(t)) \in Seq(T)
         /\ Splits(t, x, SubSeq(t, Len(x) + 1, Len(t)))
<1>1. PICK u \in Seq(T) : t = x \o u
  BY PrefixSplits
<1>2. Splits(t, x, u)
  BY <1>1 DEF Splits
<1>3. u = SubSeq(t, Len(x) + 1, Len(t))
  BY <1>1, <1>2, SplitsAt
<1> QED
  BY <1>1, <1>2, <1>3

LEMMA PrefixBehind ==
  ASSUME NEW T, NEW a \in Seq(T), NEW t \in Seq(T), NEW x \in Seq(T), IsPrefix(x, t)
  PROVE  IsPrefix(a \o x, a \o t) /\ (Distinct(a \o t) => Distinct(a \o x))
<1>1. PICK u \in Seq(T) : t = x \o u
  BY PrefixSplits
<1>2. a \o t = (a \o x) \o u
  <2>1. Associative(T)
    BY Associates
  <2>2. (a \o x) \o u = a \o (x \o u)
    BY <2>1, Zenon DEF Associative
  <2> QED
    BY <1>1, <2>2, Zenon
<1>3. a \o x \in Seq(T) /\ a \o t \in Seq(T)
  OBVIOUS
<1>4. ASSUME NEW y \in Seq(T), NEW z \in Seq(T), NEW v \in Seq(T), y = z \o v
      PROVE  IsPrefix(z, y) /\ (Distinct(y) => Distinct(z))
  <2>1. IsPrefix(z, y)
    BY <1>4, PrefixSplits
  <2>2. Distinct(z \o v) => Distinct(z)
    BY DistinctConcat
  <2> QED
    BY <1>4, <2>1, <2>2
<1> QED
  BY <1>1, <1>2, <1>3, <1>4

(* A step that nobody outside notices.                                      *)
LEMMA QuietStep ==
  ASSUME BInv, BInv', NEW h, NEW w, NEW f, File(h, w, f), file' = file, accepted' = accepted,
         promised' = promised, Alike(bufs, bufs', accepted, h, w, f)
  PROVE  FileInv' /\ Carried
<1>1. File(h, w, f)'
  BY DEF File, Alike
<1>2. ASSUME NEW t, NEW s, t = Queue(bufs), s = Stuck(bufs)
      PROVE  Carried
  <2>1. Sees(h, t, Len(w), s)
    BY <1>2, FileSees
  <2>2. t = Queue(bufs') /\ s = Stuck(bufs')
    BY <1>2 DEF Alike
  <2>3. Sees(h, t, Len(w), s)'
    BY <1>1, <2>2, FileSeesNext
  <2> QED
    BY <2>1, <2>3, JStays
<1>3. FileInv'
  BY <1>1 DEF FileInv
<1> QED
  BY <1>2, <1>3
(* A step of a buffer that lives, as Quiet has it, from the buffer before.  *)
LEMMA QuietOf ==
  ASSUME NEW n \in Nat, NEW B \in Seq(BufferSet(n)), NEW h, NEW w, NEW f, Holds(B, n, h, w, f),
         NEW g \in DOMAIN B, g >= f, NEW c \in BufferSet(n), NEW C, C = [B EXCEPT ![g] = c],
         NEW b, b = B[g],
         c.pending = b.pending, c.failure = b.failure, ~Settled(c), Keeps(c, h),
         Clean(c) => Clean(b), Untouched(b) => Untouched(c)
  PROVE  Alike(B, C, n, h, w, f)
<1>1. g = f => (Clean(c) => w = <<>>)
  BY DEF Holds, Ahead
<1>2. g > f => Untouched(c)
  BY DEF Holds
<1> QED
  BY <1>1, <1>2, Quiet

LEMMA AlikeTwice ==
  ASSUME NEW A, NEW B, NEW C, NEW n, NEW h, NEW w, NEW f, Alike(A, B, n, h, w, f), Alike(B, C, n, h, w, f)
  PROVE  Alike(A, C, n, h, w, f)
BY DEF Alike

(* Chain, pending records and failure are all that counts here.             *)
LEMMA SameWork ==
  ASSUME NEW b, NEW c, c.chain = b.chain, c.pending = b.pending, c.failure = b.failure, NEW h
  PROVE  /\ Keeps(b, h) => Keeps(c, h)
         /\ Clean(c) => Clean(b)
         /\ Untouched(b) => Untouched(c)
BY DEF Keeps, Clean, Untouched

(* The map's buffer, opened behind the others if need be, lives.            *)
LEMMA EntryHolds ==
  ASSUME BInv, NEW h, NEW w, NEW f, File(h, w, f), NEW B, B = StateBuffers, NEW b, b = B[Len(B)]
  PROVE  /\ Alike(bufs, B, accepted, h, w, f) /\ Holds(B, accepted, h, w, f)
         /\ B \in Seq(BufferSet(accepted)) /\ Len(B) \in DOMAIN B /\ Len(B) >= f
         /\ b \in BufferSet(accepted) /\ ~b.retired /\ Keeps(b, h)
<1>1. /\ accepted \in Nat /\ bufs \in Seq(BufferSet(accepted)) /\ DOMAIN bufs = 1..Len(bufs) /\ Len(bufs) \in Nat
      /\ Buffers(bufs, accepted) /\ Holds(bufs, accepted, h, w, f)
  BY InvFacts DEF BInv, File
<1>2. /\ Buffers(B, accepted) /\ Len(B) \in DOMAIN B /\ ~b.retired
      /\ \/ B = bufs
         \/ B = Append(bufs, NewBuffer)
  BY <1>1, StateIs
<1>3. B \in Seq(BufferSet(accepted)) /\ DOMAIN B = 1..Len(B) /\ Len(B) \in Nat /\ b \in BufferSet(accepted)
  BY <1>2 DEF Buffers
<1>4. Alike(bufs, B, accepted, h, w, f)
  <2>1. CASE B = bufs
    BY <1>1, <2>1 DEF Alike
  <2>2. CASE B = Append(bufs, NewBuffer)
    <3>1. Holds(B, accepted, h, w, f) /\ Queue(B) = Queue(bufs)
      BY <1>1, <2>2, OpensBehind
    <3>2. /\ Len(B) = Len(bufs) + 1 /\ \A k \in DOMAIN bufs : B[k] = bufs[k]
          /\ B[Len(bufs) + 1] = NewBuffer /\ ~NewBuffer.failure
      BY <1>1, <2>2, NewBufferSound
    <3>3. f \in DOMAIN B /\ B[f].failure <=> f \in DOMAIN bufs /\ bufs[f].failure
      BY <1>1, <1>3, <3>2
    <3>4. Stuck(B) <=> Stuck(bufs)
      BY <1>1, <1>3, <3>1, <3>3, StuckIs
    <3>5. Stuck(B) = Stuck(bufs)
      BY <3>4 DEF Stuck
    <3> QED
      BY <3>1, <3>5 DEF Alike
  <2> QED
    BY <1>2, <2>1, <2>2
<1>5. Holds(B, accepted, h, w, f)
  BY <1>4 DEF Alike
<1>6. ~Settled(b)
  BY <1>2 DEF Settled
<1>7. Len(B) >= f
  <2>1. ~(Len(B) < f)
    BY <1>2, <1>5, <1>6 DEF Holds
  <2>2. f \in Int
    BY <1>3, <1>5 DEF Holds
  <2> QED
    BY <1>3, <2>1, <2>2
<1>8. Keeps(b, h)
  BY <1>2, <1>5, <1>7 DEF Holds
<1> QED
  BY <1>2, <1>3, <1>4, <1>5, <1>7, <1>8

LEMMA AcquireF ==
  ASSUME BInv, BInv', NEW h, NEW w, NEW f, File(h, w, f), Acquire
  PROVE  FileInv' /\ Carried
<1>1. PICK B : B = StateBuffers
  OBVIOUS
<1>2. PICK b : b = B[Len(B)]
  OBVIOUS
<1> DEFINE c == [b EXCEPT !.refs = b.refs + 1]
<1>3. /\ Alike(bufs, B, accepted, h, w, f) /\ Holds(B, accepted, h, w, f)
      /\ B \in Seq(BufferSet(accepted)) /\ Len(B) \in DOMAIN B /\ Len(B) >= f
      /\ b \in BufferSet(accepted) /\ ~b.retired /\ Keeps(b, h)
  BY <1>1, <1>2, EntryHolds
<1>4. bufs' = [B EXCEPT ![Len(B)] = c]
  BY <1>1, <1>2 DEF Acquire, InState
<1>5. b.refs = 0 /\ accepted \in Nat /\ b \in BufferSet(accepted)
  BY <1>1, <1>2, EntryFacts DEF Acquire
<1>6. /\ c \in BufferSet(accepted) /\ c.chain = b.chain /\ c.pending = b.pending
      /\ c.failure = b.failure /\ c.retired = b.retired
  BY <1>5 DEF BufferSet
<1> HIDE DEF c
<1>7. ~Settled(c)
  BY <1>3, <1>6 DEF Settled
<1>8. Alike(B, bufs', accepted, h, w, f)
  BY <1>2, <1>3, <1>4, <1>5, <1>6, <1>7, SameWork, QuietOf
<1>9. Alike(bufs, bufs', accepted, h, w, f)
  BY <1>3, <1>8, AlikeTwice
<1> QED
  BY <1>9, QuietStep DEF Acquire

(* What a caller relies on is in the history or in the buffer.              *)
LEMMA TicketKeeps ==
  ASSUME BInv, NEW h, NEW w, NEW f, File(h, w, f), NEW k, NEW b \in BufferSet(accepted)
  PROVE  \A t \in Range(Ticket(k, b)) : t.records \subseteq Range(h) \cup Range(b.pending)
<1>1. History = h
  <2>1. PICK t, s : t = Queue(bufs) /\ s = Stuck(bufs)
    OBVIOUS
  <2> QED
    BY <2>1, FileSees DEF Sees
<1>2. ASSUME NEW t \in Range(Ticket(k, b))
      PROVE  t = [caller |-> k, records |-> Range(History) \cup Range(b.pending)]
  BY DEF Ticket, Range
<1> QED
  BY <1>1, <1>2

LEMMA ReadCallF ==
  ASSUME BInv, BInv', NEW h, NEW w, NEW f, File(h, w, f), NEW k \in Callers, ReadCall(k)
  PROVE  FileInv' /\ Carried
<1>1. PICK B : B = StateBuffers
  OBVIOUS
<1>2. PICK b : b = B[Len(B)]
  OBVIOUS
<1>3. /\ Alike(bufs, B, accepted, h, w, f) /\ Holds(B, accepted, h, w, f)
      /\ B \in Seq(BufferSet(accepted)) /\ Len(B) \in DOMAIN B /\ Len(B) >= f
      /\ b \in BufferSet(accepted) /\ ~b.retired /\ Keeps(b, h)
  BY <1>1, <1>2, EntryHolds
<1> DEFINE c == Flushed(b, Ticket(k, b))
<1>4. bufs' = [B EXCEPT ![Len(B)] = c]
  BY <1>1, <1>2 DEF ReadCall, InState
<1>5. accepted \in Nat /\ Ticket(k, b) \in Seq(TicketSet(accepted))
  BY <1>3, TicketTypes, InvFacts
<1>6. c \in BufferSet(accepted) /\ SameRest(b, c)
  BY <1>3, <1>5, FlushedIs
<1>7. Keeps(c, h) /\ (Untouched(b) => Untouched(c)) /\ (Clean(c) => Clean(b))
  BY <1>3, <1>5, TicketKeeps, FlushedKeeps
<1> HIDE DEF c
<1>8. c.pending = b.pending /\ c.failure = b.failure /\ ~Settled(c)
  BY <1>3, <1>6 DEF Settled, SameRest
<1>9. Alike(B, bufs', accepted, h, w, f)
  BY <1>2, <1>3, <1>4, <1>5, <1>6, <1>7, <1>8, QuietOf
<1>10. Alike(bufs, bufs', accepted, h, w, f)
  BY <1>3, <1>9, AlikeTwice
<1> QED
  BY <1>10, QuietStep DEF ReadCall

(* A failure with nothing under way is all that keeps a flush from starting. *)
LEMMA FlushedLives ==
  ASSUME NEW n \in Nat, NEW b \in BufferSet(n), NEW k \in Seq(TicketSet(n))
  PROVE  IF b.chain = <<>> /\ b.failure THEN Flushed(b, k) = b ELSE Flushed(b, k).chain # <<>>
<1> DEFINE c == Flushed(b, k)
<1>1. c \in BufferSet(n)
  BY FlushedIs
<1>2. CASE b.chain # <<>>
  <2>1. SameOps(b, c)
    BY <1>2, FlushedIs
  <2>2. Len(c.chain) > 0
    BY <1>2, <2>1, OpFields DEF SameOps
  <2> QED
    BY <1>1, <1>2, <2>2, OpFields
<1>3. CASE b.chain = <<>> /\ b.failure
  BY <1>3 DEF Flushed
<1>4. CASE b.chain = <<>> /\ ~b.failure
  <2>1. c.chain = <<[Drain EXCEPT !.promises = k]>>
    BY <1>4, FlushedIs
  <2> QED
    BY <1>4, <2>1
<1> QED
  BY <1>2, <1>3, <1>4

(* A buffer of the store that has not settled.                              *)
LEMMA LivesIs ==
  ASSUME BInv, NEW h, NEW w, NEW f, File(h, w, f), NEW g \in DOMAIN bufs, NEW b, b = bufs[g], ~Settled(b)
  PROVE  g >= f /\ Keeps(b, h) /\ g \in Int /\ f \in Int
<1>1. Holds(bufs, accepted, h, w, f) /\ DOMAIN bufs = 1..Len(bufs) /\ Len(bufs) \in Nat
  BY InvFacts DEF File
<1>2. ~(g < f) /\ g \in Int /\ f \in Int
  BY <1>1 DEF Holds
<1>3. g >= f
  BY <1>2
<1> QED
  BY <1>1, <1>2, <1>3 DEF Holds

LEMMA FlushCallF ==
  ASSUME BInv, BInv', NEW h, NEW w, NEW f, File(h, w, f), NEW k \in Callers, FlushCall(k)
  PROVE  FileInv' /\ Carried
<1> DEFINE L == Len(bufs)
<1>1. L \in DOMAIN bufs /\ bufs \in Seq(BufferSet(accepted)) /\ Last(bufs) = bufs[L]
  BY InvFacts DEF FlushCall, Last
<1>2. PICK b : b = bufs[L]
  OBVIOUS
<1> DEFINE c == Flushed(b, Ticket(k, b))
<1>3. bufs' = [bufs EXCEPT ![L] = c]
  BY <1>1, <1>2, InvFacts DEF FlushCall
<1>4. /\ accepted \in Nat /\ b \in BufferSet(accepted) /\ ~Settled(b) /\ (b.chain = <<>> => ~b.failure)
  BY <1>1, <1>2, InvFacts DEF FlushCall
<1>5. Ticket(k, b) \in Seq(TicketSet(accepted))
  BY <1>4, TicketTypes
<1>6. L >= f /\ Keeps(b, h) /\ Holds(bufs, accepted, h, w, f)
  BY <1>1, <1>2, <1>4, LivesIs DEF File
<1>7. c \in BufferSet(accepted) /\ SameRest(b, c)
  BY <1>4, <1>5, FlushedIs
<1>8. Keeps(c, h) /\ (Untouched(b) => Untouched(c)) /\ (Clean(c) => Clean(b))
  BY <1>4, <1>5, <1>6, TicketKeeps, FlushedKeeps
<1>9. c.chain # <<>>
  BY <1>4, <1>5, FlushedLives
<1> HIDE DEF c, L
<1>10. c.pending = b.pending /\ c.failure = b.failure /\ ~Settled(c)
  BY <1>7, <1>9 DEF Settled, SameRest
<1>11. Alike(bufs, bufs', accepted, h, w, f)
  BY <1>1, <1>2, <1>3, <1>4, <1>6, <1>7, <1>8, <1>10, QuietOf
<1> QED
  BY <1>11, QuietStep DEF FlushCall
LEMMA AppendRecordF ==
  ASSUME BInv, BInv', NEW h, NEW w, NEW f, File(h, w, f), AppendRecord
  PROVE  FileInv' /\ Carried
<1>1. PICK B : B = StateBuffers
  OBVIOUS
<1>2. PICK b : b = B[Len(B)]
  OBVIOUS
<1>3. PICK m : m = accepted + 1
  OBVIOUS
<1>4. /\ Alike(bufs, B, accepted, h, w, f) /\ Holds(B, accepted, h, w, f)
      /\ B \in Seq(BufferSet(accepted)) /\ Len(B) \in DOMAIN B /\ Len(B) >= f
      /\ b \in BufferSet(accepted) /\ ~b.retired
  BY <1>1, <1>2, EntryHolds
<1>5. /\ accepted \in Nat /\ m \in Nat /\ Succeeds(m, accepted) /\ accepted' = m /\ m \in 1..MaxRecords
      /\ bufs' \in Seq(BufferSet(m)) /\ h \in Seq(1..accepted)
  <2>1. accepted \in Nat /\ accepted' = m /\ m \in 1..MaxRecords /\ h \in Seq(1..accepted)
    BY <1>3, InvFacts, Bounds DEF AppendRecord, File, Holds
  <2>2. bufs' \in Seq(BufferSet(m))
    BY <2>1 DEF BInv, Buffers
  <2> QED
    BY <1>3, <2>1, <2>2 DEF Succeeds
<1> DEFINE c == [b EXCEPT !.pending = Append(@, m), !.scheduled = @ \/ b.chain = <<>>]
<1>6. bufs' = [B EXCEPT ![Len(B)] = c]
  BY <1>1, <1>2, <1>3 DEF AppendRecord, InState
<1>7. Joined(b, c, m) /\ c.retired = b.retired
  BY <1>4 DEF Joined, BufferSet
<1> HIDE DEF c
<1>8. One(B, bufs', Len(B)) /\ bufs'[Len(B)] = c
  BY <1>4, <1>6 DEF One
<1>9. ~Settled(c)
  BY <1>4, <1>7 DEF Settled
<1>10. Holds(bufs', m, h, w, f) /\ Queue(bufs') = Append(Queue(B), m)
  BY <1>2, <1>4, <1>5, <1>7, <1>8, <1>9, Joins
<1>11. Stuck(bufs') = Stuck(bufs)
  <2>1. f \in DOMAIN bufs' /\ bufs'[f].failure <=> f \in DOMAIN B /\ B[f].failure
    <3>1. DOMAIN bufs' = DOMAIN B
      BY <1>6
    <3>2. f \in DOMAIN B => bufs'[f].failure = B[f].failure
      BY <1>2, <1>7, <1>8 DEF One, Joined
    <3> QED
      BY <3>1, <3>2
  <2>2. Stuck(bufs') <=> Stuck(B)
    BY <1>4, <1>5, <1>10, <2>1, StuckIs
  <2>3. Stuck(bufs') = Stuck(B)
    BY <2>2 DEF Stuck
  <2> QED
    BY <1>4, <2>3 DEF Alike
<1>12. File(h, w, f)'
  BY <1>5, <1>10 DEF File, AppendRecord
<1>13. m \notin Range(h) \cup Range(Queue(bufs))
  <2>1. Queue(bufs) \in Seq(1..accepted) /\ h \in Seq(1..accepted)
    BY <1>5, InvFacts, QueueIn
  <2>2. Range(h) \subseteq 1..accepted /\ Range(Queue(bufs)) \subseteq 1..accepted
    BY <2>1, RangeIn
  <2> QED
    BY <1>3, <1>5, <2>2
<1>14. PICK t, s : t = Queue(bufs) /\ s = Stuck(bufs)
  OBVIOUS
<1>15. Sees(h, t, Len(w), s)
  BY <1>14, FileSees
<1>16. Append(t, m) = Queue(bufs') /\ s = Stuck(bufs')
  BY <1>4, <1>10, <1>11, <1>14 DEF Alike
<1>17. Sees(h, Append(t, m), Len(w), s)'
  BY <1>12, <1>16, FileSeesNext
<1>18. Carried
  BY <1>5, <1>13, <1>14, <1>15, <1>17, JAccept DEF AppendRecord
<1> QED
  BY <1>12, <1>18 DEF FileInv

(* A rewrite joins the chain behind what may already have been written.     *)
Queued(b, c, h) ==
  c.pending = b.pending /\ c.failure = b.failure /\ c.chain = Append(b.chain, Operation("rewrite", h))

LEMMA MoreThanOne ==
  ASSUME NEW m \in Nat
  PROVE  (m > 1 => m # 1) /\ (m > 0 /\ ~(m > 1) => m = 1)
OBVIOUS

LEMMA RewriteJoins ==
  ASSUME NEW n \in Nat, NEW b \in BufferSet(n), NEW h \in Seq(1..n), Keeps(b, h),
         NEW c \in BufferSet(n), Queued(b, c, h)
  PROVE  Keeps(c, h) /\ (Clean(c) => Clean(b))
<1> DEFINE o == Operation("rewrite", h)
<1>1. o.kind = "rewrite" /\ o.stage = "start" /\ o.data = h /\ o.promises = <<>>
  BY DEF Operation
<1>2. o \in OpSet(n)
  BY DEF Operation, OpSet, Stages
<1> HIDE DEF o
<1>3. /\ c.chain = Append(b.chain, o) /\ b.chain \in Seq(OpSet(n))
  BY OpFields DEF o, Queued
<1>4. /\ Len(c.chain) = Len(b.chain) + 1 /\ DOMAIN c.chain = 1..Len(c.chain) /\ Len(b.chain) \in Nat
      /\ c.chain[Len(c.chain)] = o /\ \A i \in DOMAIN b.chain : c.chain[i] = b.chain[i]
      /\ DOMAIN b.chain = 1..Len(b.chain)
  BY <1>2, <1>3
<1>5. Keeps(c, h)
  <2>1. ASSUME NEW i \in DOMAIN c.chain
        PROVE  i \in DOMAIN b.chain \/ c.chain[i] = o
    BY <1>4
  <2>2. Range(o.promises) = {}
    BY <1>1 DEF Range
  <2> QED
    BY <1>1, <1>4, <2>1, <2>2 DEF Keeps, Queued
<1>6. Clean(c) => Clean(b)
  <2>1. CASE b.chain = <<>>
    BY <1>1, <1>4, <2>1 DEF Clean, Queued
  <2>2. CASE b.chain # <<>>
    <3>1. 1 \in DOMAIN b.chain /\ Len(c.chain) # 1 /\ c.chain # <<>>
      <4>1. Len(b.chain) > 0 /\ 1 \in DOMAIN b.chain
        BY <2>2, OpFields
      <4>2. Len(c.chain) \in Nat /\ Len(c.chain) > 1
        BY <1>4, <4>1
      <4>3. c.chain # <<>>
        BY <4>2
      <4>4. Len(c.chain) # 1
        BY <4>2, MoreThanOne, Zenon
      <4> QED
        BY <4>1, <4>3, <4>4
    <3> QED
      BY <1>4, <3>1 DEF Clean, Queued
  <2> QED
    BY <2>1, <2>2
<1> QED
  BY <1>5, <1>6

LEMMA RewriteCallF ==
  ASSUME ~RewriteEarly, BInv, BInv', NEW h, NEW w, NEW f, File(h, w, f), RewriteCall
  PROVE  FileInv' /\ Carried
<1>1. PICK B : B = StateBuffers
  OBVIOUS
<1>2. PICK b : b = B[Len(B)]
  OBVIOUS
<1>3. /\ Alike(bufs, B, accepted, h, w, f) /\ Holds(B, accepted, h, w, f)
      /\ B \in Seq(BufferSet(accepted)) /\ Len(B) \in DOMAIN B /\ Len(B) >= f
      /\ b \in BufferSet(accepted) /\ ~b.retired /\ Keeps(b, h)
  BY <1>1, <1>2, EntryHolds
<1>4. History = h /\ h \in Seq(1..accepted) /\ accepted \in Nat
  <2>1. PICK t, s : t = Queue(bufs) /\ s = Stuck(bufs)
    OBVIOUS
  <2>2. History = h
    BY <2>1, FileSees DEF Sees
  <2> QED
    BY <1>3, <2>2, InvFacts DEF Holds
<1> DEFINE c == [b EXCEPT !.chain = Append(@, Operation("rewrite", h))]
<1>5. bufs' = [B EXCEPT ![Len(B)] = c]
  BY <1>1, <1>2, <1>4 DEF RewriteCall, InState
<1>6. /\ c.pending = b.pending /\ c.failure = b.failure /\ c.retired = b.retired
      /\ Queued(b, c, h)
  BY <1>3 DEF BufferSet, Queued
<1>7. bufs' \in Seq(BufferSet(accepted)) /\ c \in BufferSet(accepted)
  <2>1. bufs' \in Seq(BufferSet(accepted))
    BY DEF BInv, Buffers, RewriteCall
  <2>2. bufs'[Len(B)] = c /\ Len(B) \in DOMAIN bufs'
    BY <1>3, <1>5
  <2> QED
    BY <2>1, <2>2, SMTT(30)
<1> HIDE DEF c
<1>8. Keeps(c, h) /\ (Clean(c) => Clean(b)) /\ ~Settled(c)
  BY <1>3, <1>4, <1>6, <1>7, RewriteJoins DEF Settled
<1>9. Len(B) = f
  <2>1. \A k \in DOMAIN bufs : bufs[k].retired => Settled(bufs[k])
    BY DEF RewriteCall
  <2>2. \A k \in DOMAIN B : k < Len(B) => Settled(B[k])
    <3> SUFFICES ASSUME NEW k \in DOMAIN B, k < Len(B) PROVE Settled(B[k])
      OBVIOUS
    <3>1. Buffers(B, accepted) /\ (B = bufs \/ B = Append(bufs, NewBuffer))
      BY <1>1, <1>4, StateIs DEF BInv
    <3>2. B[k].retired
      BY <3>1 DEF Buffers
    <3>3. k \in DOMAIN bufs /\ bufs[k] = B[k]
      BY <1>3, <3>1, InvFacts
    <3> QED
      BY <2>1, <3>2, <3>3
  <2>3. DOMAIN B = 1..Len(B) /\ Len(B) \in Nat /\ f \in 1..(Len(B) + 1)
    BY <1>3 DEF Holds
  <2>4. ~(f < Len(B))
    BY <1>3, <2>2, <2>3 DEF Holds
  <2>5. Len(B) >= f
    BY <1>3
  <2>6. f \in Int /\ Len(B) \in Int
    BY <2>3
  <2> QED
    BY <2>4, <2>5, <2>6
<1>10. Clean(c) => w = <<>>
  BY <1>2, <1>3, <1>8, <1>9 DEF Holds, Ahead
<1>11. ~(Len(B) > f)
  BY <1>3, <1>9
<1>12. Alike(B, bufs', accepted, h, w, f)
  BY <1>2, <1>3, <1>4, <1>5, <1>6, <1>7, <1>8, <1>10, <1>11, Quiet
<1>13. Alike(bufs, bufs', accepted, h, w, f)
  BY <1>3, <1>12, AlikeTwice
<1> QED
  BY <1>13, QuietStep DEF RewriteCall

(* The first buffer that lives settles: its promise has failed, or nothing  *)
(* of it waits.                                                             *)
LEMMA EndsHolds ==
  ASSUME NEW n \in Nat, NEW B \in Seq(BufferSet(n)), NEW h, NEW w, NEW f, Holds(B, n, h, w, f),
         NEW C \in Seq(BufferSet(n)), f \in DOMAIN B, One(B, C, f), Settled(C[f])
  PROVE  /\ Holds(C, n, h \o w, <<>>, f + 1) /\ Splits(Queue(B), B[f].pending, Queue(C))
         /\ Stuck(C) = FALSE
<1>1. Holds(C, n, h \o w, <<>>, f + 1) /\ Splits(Queue(B), B[f].pending, Queue(C))
  BY WorksNoMore
<1>2. ~(f + 1 \in DOMAIN C /\ C[f + 1].failure)
  <2>1. f + 1 \in DOMAIN C => f + 1 \in DOMAIN B /\ C[f + 1] = B[f + 1] /\ f + 1 > f
    BY DEF One
  <2> QED
    BY <2>1 DEF Holds, Untouched
<1>3. ~Stuck(C)
  BY <1>1, <1>2, StuckIs
<1>4. Stuck(C) = FALSE
  BY <1>3 DEF Stuck
<1> QED
  BY <1>1, <1>4

LEMMA EndsStep ==
  ASSUME BInv, BInv', NEW h, NEW w, NEW f, File(h, w, f), f \in DOMAIN bufs,
         One(bufs, bufs', f), Settled(bufs'[f]),
         file' = file, accepted' = accepted, promised' = promised
  PROVE  FileInv' /\ Carried
<1>1. /\ accepted \in Nat /\ bufs \in Seq(BufferSet(accepted)) /\ bufs' \in Seq(BufferSet(accepted))
      /\ Holds(bufs, accepted, h, w, f) /\ h \in Seq(1..accepted) /\ w \in Seq(1..accepted)
      /\ bufs[f].pending \in Seq(1..accepted) /\ Queue(bufs) \in Seq(1..accepted)
  <2>1. /\ accepted \in Nat /\ bufs \in Seq(BufferSet(accepted)) /\ bufs' \in Seq(BufferSet(accepted))
        /\ Holds(bufs, accepted, h, w, f)
    BY InvFacts DEF BInv, Buffers, File
  <2>2. bufs[f].pending \in Seq(1..accepted)
    BY <2>1, OpFields
  <2> QED
    BY <2>1, <2>2, QueueIn DEF Holds
<1>2. /\ Holds(bufs', accepted, h \o w, <<>>, f + 1) /\ Splits(Queue(bufs), bufs[f].pending, Queue(bufs'))
      /\ Stuck(bufs') = FALSE
  BY <1>1, EndsHolds
<1>3. File(h \o w, <<>>, f + 1)'
  <2>1. h \o w = (h \o w) \o <<>>
    BY <1>1
  <2>2. Range(h) \subseteq Range(h \o w)
    BY <1>1, RangeConcatenation
  <2> QED
    BY <1>2, <2>1, <2>2 DEF File
<1>4. PICK t, s : t = Queue(bufs) /\ s = Stuck(bufs)
  OBVIOUS
<1>5. PICK u : u = Queue(bufs')
  OBVIOUS
<1>6. Sees(h, t, Len(w), s)
  BY <1>4, FileSees
<1>7. Sees(h \o w, u, 0, FALSE)'
  <2>1. Len(<<>>) = 0
    OBVIOUS
  <2> QED
    BY <1>2, <1>3, <1>5, <2>1, FileSeesNext
<1>8. PICK x : x = bufs[f].pending
  OBVIOUS
<1>9. u = SubSeq(t, Len(x) + 1, Len(t)) /\ Len(x) \in 0..Len(t)
  <2> DEFINE T == 1..accepted
  <2>1. u \in Seq(T) /\ t \in Seq(T) /\ x \in Seq(T)
    BY <1>1, <1>4, <1>5, <1>8, QueueIn
  <2>2. Splits(t, x, u)
    BY <1>2, <1>4, <1>5, <1>8
  <2> HIDE DEF T
  <2> QED
    BY <2>1, <2>2, SplitsAt
<1>10. w = SubSeq(t, 1, Len(w)) /\ Len(w) <= Len(x)
  <2>1. IsPrefix(w, t)
    BY <1>1, <1>4, HoldsReads DEF Reads
  <2>2. w = SubSeq(t, 1, Len(w))
    BY <1>1, <1>4, <2>1, PrefixAt
  <2>3. IsPrefix(w, x)
    BY <1>1, <1>8 DEF Holds, Ahead
  <2>4. Len(w) \in 0..Len(x)
    BY <1>1, <1>8, <2>3, PrefixAt
  <2> QED
    BY <1>1, <1>8, <2>2, <2>4
<1>11. Carried
  BY <1>6, <1>7, <1>9, <1>10, JAbandon
<1> QED
  BY <1>3, <1>11 DEF FileInv

LEMMA ReleaseF ==
  ASSUME BInv, BInv', NEW h, NEW w, NEW f, File(h, w, f), Release
  PROVE  FileInv' /\ Carried
<1> DEFINE L == Len(bufs)
<1>1. L \in DOMAIN bufs /\ bufs \in Seq(BufferSet(accepted)) /\ Last(bufs) = bufs[L] /\ accepted \in Nat
  BY InvFacts DEF Release, Last
<1>2. PICK b : b = bufs[L]
  OBVIOUS
<1> DEFINE d == [b EXCEPT !.refs = 0, !.retired = TRUE]
           c == Flushed(d, <<>>)
<1>3. bufs' = [bufs EXCEPT ![L] = c]
  BY <1>1, <1>2, InvFacts DEF Release
<1>4. /\ b \in BufferSet(accepted) /\ PendingSound(b) /\ b.refs = 1
  BY <1>1, <1>2, InvFacts DEF Release
<1>5. /\ d \in BufferSet(accepted) /\ d.chain = b.chain /\ d.pending = b.pending /\ d.failure = b.failure
      /\ d.retired
  <2>1. d.chain = b.chain /\ d.pending = b.pending /\ d.failure = b.failure /\ d.retired = TRUE
    BY <1>4 DEF BufferSet
  <2>2. 0 \in 0..1 /\ TRUE \in BOOLEAN
    OBVIOUS
  <2>3. d \in BufferSet(accepted)
    BY <1>4, <2>2 DEF BufferSet
  <2> QED
    BY <2>1, <2>3
<1> HIDE DEF d
<1>6. ~Settled(b)
  BY <1>4 DEF PendingSound, Settled
<1>7. L >= f /\ Keeps(b, h) /\ Holds(bufs, accepted, h, w, f) /\ L \in Int /\ f \in Int
  BY <1>1, <1>2, <1>6, LivesIs DEF File
<1>8. <<>> \in Seq(TicketSet(accepted)) /\ \A t \in Range(<<>>) : t.records \subseteq Range(h) \cup Range(d.pending)
  BY DEF Range
<1>9. c \in BufferSet(accepted) /\ SameRest(d, c)
  BY <1>1, <1>5, <1>8, FlushedIs
<1>10. Keeps(c, h) /\ (Untouched(b) => Untouched(c)) /\ (Clean(c) => Clean(b))
  <2>1. Keeps(d, h) /\ (Untouched(b) => Untouched(d)) /\ (Clean(d) => Clean(b))
    BY <1>5, <1>7, SameWork
  <2> QED
    BY <1>1, <1>5, <1>8, <2>1, FlushedKeeps
<1>11. IF d.chain = <<>> /\ d.failure THEN c = d ELSE c.chain # <<>>
  BY <1>1, <1>5, <1>8, FlushedLives
<1> HIDE DEF c, L
<1>12. CASE c.chain # <<>>
  <2>1. c.pending = b.pending /\ c.failure = b.failure /\ ~Settled(c)
    BY <1>5, <1>9, <1>12 DEF Settled, SameRest
  <2>2. Alike(bufs, bufs', accepted, h, w, f)
    BY <1>1, <1>2, <1>3, <1>7, <1>9, <1>10, <2>1, QuietOf
  <2> QED
    BY <2>2, QuietStep DEF Release
<1>13. CASE c.chain = <<>>
  <2>1. c = d /\ d.failure
    BY <1>11, <1>13
  <2>2. Settled(c)
    BY <1>5, <1>13, <2>1 DEF Settled
  <2>3. L = f
    <3>1. ~(L > f)
      BY <1>1, <1>2, <1>5, <1>7, <2>1 DEF Holds, Untouched
    <3> QED
      BY <1>7, <3>1
  <2>4. One(bufs, bufs', f) /\ bufs'[f] = c /\ f \in DOMAIN bufs
    BY <1>1, <1>3, <2>3 DEF One
  <2> QED
    BY <2>2, <2>4, EndsStep DEF Release
<1> QED
  BY <1>12, <1>13
LEMMA MicrotaskF ==
  ASSUME BInv, BInv', NEW h, NEW w, NEW f, File(h, w, f), NEW g \in DOMAIN bufs, Microtask(g)
  PROVE  FileInv' /\ Carried
<1>1. /\ accepted \in Nat /\ bufs \in Seq(BufferSet(accepted)) /\ Holds(bufs, accepted, h, w, f)
      /\ g \in Int /\ f \in Int
  BY InvFacts DEF File, Holds
<1>2. PICK b : b = bufs[g]
  OBVIOUS
<1> DEFINE d == [b EXCEPT !.scheduled = FALSE]
           c == Flushed(d, <<>>)
<1>3. bufs' = [bufs EXCEPT ![g] = c]
  BY <1>2, InvFacts DEF Microtask
<1>4. b \in BufferSet(accepted) /\ PendingSound(b) /\ b.scheduled
  BY <1>2, InvFacts DEF Microtask
<1>5. /\ d \in BufferSet(accepted) /\ d.chain = b.chain /\ d.pending = b.pending /\ d.failure = b.failure
      /\ d.retired = b.retired
  BY <1>4 DEF BufferSet
<1> HIDE DEF d
<1>6. <<>> \in Seq(TicketSet(accepted)) /\ \A t \in Range(<<>>) : t.records \subseteq Range(h) \cup Range(d.pending)
  BY DEF Range
<1>7. c \in BufferSet(accepted) /\ SameRest(d, c)
  BY <1>1, <1>5, <1>6, FlushedIs
<1>8. IF d.chain = <<>> /\ d.failure THEN c = d ELSE c.chain # <<>>
  BY <1>1, <1>5, <1>6, FlushedLives
<1>9. Keeps(b, h) => Keeps(c, h) /\ (Untouched(b) => Untouched(c)) /\ (Clean(c) => Clean(b))
  <2> SUFFICES ASSUME Keeps(b, h)
               PROVE  Keeps(c, h) /\ (Untouched(b) => Untouched(c)) /\ (Clean(c) => Clean(b))
    OBVIOUS
  <2>1. Keeps(d, h) /\ (Untouched(b) => Untouched(d)) /\ (Clean(d) => Clean(b))
    BY <1>5, SameWork
  <2> QED
    BY <1>1, <1>5, <1>6, <2>1, FlushedKeeps
<1> HIDE DEF c
<1>10. CASE g < f
  <2>1. Settled(b)
    BY <1>1, <1>2, <1>10 DEF Holds
  <2>2. c = d /\ Settled(c)
    BY <1>4, <1>5, <1>8, <2>1 DEF PendingSound, Settled
  <2>3. One(bufs, bufs', g) /\ bufs'[g] = c
    BY <1>1, <1>3 DEF One
  <2>4. bufs' \in Seq(BufferSet(accepted))
    BY DEF BInv, Buffers, Microtask
  <2>5. Holds(bufs', accepted, h, w, f) /\ Queue(bufs') = Queue(bufs)
    BY <1>1, <1>10, <2>2, <2>3, <2>4, WorksBefore
  <2>6. f \in DOMAIN bufs' /\ bufs'[f].failure <=> f \in DOMAIN bufs /\ bufs[f].failure
    BY <1>1, <1>3, <1>10
  <2>7. Stuck(bufs') <=> Stuck(bufs)
    BY <1>1, <2>4, <2>5, <2>6, StuckIs
  <2>8. Stuck(bufs') = Stuck(bufs)
    BY <2>7 DEF Stuck
  <2>9. Alike(bufs, bufs', accepted, h, w, f)
    BY <2>5, <2>8 DEF Alike
  <2> QED
    BY <2>9, QuietStep DEF Microtask
<1>11. CASE g >= f
  <2>1. Keeps(b, h) /\ ~Settled(b)
    BY <1>1, <1>2, <1>11 DEF Holds
  <2>2. c.pending = b.pending /\ c.failure = b.failure /\ ~Settled(c)
    BY <1>5, <1>7, <1>8, <2>1 DEF Settled, SameRest
  <2>3. Alike(bufs, bufs', accepted, h, w, f)
    BY <1>1, <1>2, <1>3, <1>7, <1>9, <1>11, <2>1, <2>2, QuietOf
  <2> QED
    BY <2>3, QuietStep DEF Microtask
<1> QED
  BY <1>1, <1>10, <1>11

(* Where an operation runs: in the first buffer that lives.                 *)
LEMMA RunsFirst ==
  ASSUME BInv, NEW h, NEW w, NEW f, File(h, w, f), NEW g \in DOMAIN bufs, bufs[g].chain # <<>>,
         Ready(g) \/ bufs[g].chain[1].kind = "rewrite" \/ bufs[g].chain[1].stage # "start"
  PROVE  g = f
<1>1. /\ Holds(bufs, accepted, h, w, f) /\ DOMAIN bufs = 1..Len(bufs) /\ Len(bufs) \in Nat
      /\ g \in Int /\ f \in Int /\ f >= 1
  BY InvFacts DEF File, Holds
<1>2. g >= f
  <2>1. ~Settled(bufs[g])
    BY DEF Settled
  <2> QED
    BY <2>1, LivesIs
<1>3. ~(g > f)
  <2>1. CASE bufs[g].chain[1].kind = "rewrite" \/ bufs[g].chain[1].stage # "start"
    BY <1>1, <2>1 DEF Holds, Untouched
  <2>2. CASE Ready(g)
    <3> SUFFICES ASSUME g > f PROVE FALSE
      OBVIOUS
    <3>1. g - 1 \in DOMAIN bufs /\ g - 1 >= f /\ g > 1
      BY <1>1
    <3> QED
      BY <1>1, <2>2, <3>1 DEF Ready, Holds
  <2> QED
    BY <2>1, <2>2
<1> QED
  BY <1>1, <1>2, <1>3

(* The head of the chain in another stage or with another batch.            *)
LEMMA HeadKeeps ==
  ASSUME NEW n \in Nat, NEW b \in BufferSet(n), b.chain # <<>>, NEW h, Keeps(b, h),
         NEW c \in BufferSet(n), c.pending = b.pending, Len(c.chain) = Len(b.chain),
         \A i \in DOMAIN b.chain : i > 1 => c.chain[i] = b.chain[i],
         c.chain[1].promises = b.chain[1].promises,
         c.chain[1].kind = "rewrite" /\ c.chain[1].stage \in {"start", "io"} => c.chain[1].data = h
  PROVE  Keeps(c, h)
<1>1. DOMAIN c.chain = DOMAIN b.chain /\ DOMAIN b.chain = 1..Len(b.chain)
  BY OpFields
<1>2. \A i \in DOMAIN b.chain : i = 1 \/ i > 1
  BY <1>1
<1>3. 1 \in DOMAIN b.chain
  BY OpFields
<1> QED
  BY <1>1, <1>2, <1>3 DEF Keeps

LEMMA DrainStartsF ==
  ASSUME BInv, BInv', NEW h, NEW w, NEW f, File(h, w, f), NEW g \in DOMAIN bufs, DrainStarts(g)
  PROVE  FileInv' /\ Carried
<1>1. PICK b : b = bufs[g]
  OBVIOUS
<1>2. /\ accepted \in Nat /\ b \in BufferSet(accepted) /\ HeadSound(b)
      /\ b.chain # <<>> /\ b.chain[1].kind = "drain" /\ b.chain[1].stage = "start"
      /\ b.chain[1] \in OpSet(accepted)
  BY <1>1, RunsIs DEF DrainStarts
<1>3. g = f /\ Keeps(b, h) /\ Holds(bufs, accepted, h, w, f) /\ bufs \in Seq(BufferSet(accepted)) /\ f \in Int
  <2>1. g = f
    BY <1>1, <1>2, RunsFirst DEF DrainStarts
  <2>2. ~Settled(b)
    BY <1>2 DEF Settled
  <2> QED
    BY <1>1, <2>1, <2>2, LivesIs, InvFacts DEF File
<1> DEFINE c == NextBatch(b)
<1>4. bufs' = [bufs EXCEPT ![g] = c]
  BY <1>1 DEF DrainStarts
<1>5. ~b.failure /\ Clean(b)
  BY <1>2 DEF HeadSound, HeadOk, Clean
<1>6. /\ c \in BufferSet(accepted)
      /\ \/ HeadIs(b, c, [b.chain[1] EXCEPT !.stage = "ok"])
         \/ HeadIs(b, c, [b.chain[1] EXCEPT !.stage = "io", !.data = b.pending])
  BY <1>2, BatchIs
<1> HIDE DEF c
<1>7. /\ SameRest(b, c) /\ Len(c.chain) = Len(b.chain) /\ c.chain # <<>>
      /\ \A i \in DOMAIN b.chain : i > 1 => c.chain[i] = b.chain[i]
      /\ c.chain[1].promises = b.chain[1].promises /\ c.chain[1].kind = "drain"
  BY <1>2, <1>6 DEF HeadIs, OpSet
<1>8. Keeps(c, h) /\ c.pending = b.pending /\ c.failure = b.failure /\ ~Settled(c)
  BY <1>2, <1>3, <1>6, <1>7, HeadKeeps DEF SameRest, Settled
<1>9. w = <<>> /\ ~(g > f) /\ g >= f
  BY <1>1, <1>3, <1>5 DEF Holds, Ahead
<1>10. Alike(bufs, bufs', accepted, h, w, f)
  BY <1>1, <1>2, <1>3, <1>4, <1>6, <1>8, <1>9, Quiet
<1> QED
  BY <1>10, QuietStep DEF DrainStarts

LEMMA RewriteStartsF ==
  ASSUME BInv, BInv', NEW h, NEW w, NEW f, File(h, w, f), NEW g \in DOMAIN bufs, RewriteStarts(g)
  PROVE  FileInv' /\ Carried
<1>1. PICK b : b = bufs[g]
  OBVIOUS
<1>2. /\ accepted \in Nat /\ b \in BufferSet(accepted)
      /\ b.chain # <<>> /\ b.chain[1].kind = "rewrite" /\ b.chain[1].stage = "start"
      /\ b.chain[1] \in OpSet(accepted)
  BY <1>1, RunsIs DEF RewriteStarts
<1>3. g = f /\ Keeps(b, h) /\ Holds(bufs, accepted, h, w, f) /\ bufs \in Seq(BufferSet(accepted)) /\ f \in Int
  <2>1. g = f
    BY <1>1, <1>2, RunsFirst DEF RewriteStarts
  <2>2. ~Settled(b)
    BY <1>2 DEF Settled
  <2> QED
    BY <1>1, <2>1, <2>2, LivesIs, InvFacts DEF File
<1> DEFINE c == InStage(b, "io")
<1>4. bufs' = [bufs EXCEPT ![g] = c]
  BY <1>1 DEF RewriteStarts
<1>5. c \in BufferSet(accepted) /\ HeadIs(b, c, [b.chain[1] EXCEPT !.stage = "io"])
  BY <1>2, StageIs DEF Stages
<1> HIDE DEF c
<1>6. /\ SameRest(b, c) /\ Len(c.chain) = Len(b.chain) /\ c.chain # <<>>
      /\ \A i \in DOMAIN b.chain : i > 1 => c.chain[i] = b.chain[i]
      /\ c.chain[1].promises = b.chain[1].promises /\ c.chain[1].kind = "rewrite"
      /\ c.chain[1].data = b.chain[1].data /\ c.chain[1].stage = "io"
  BY <1>2, <1>5 DEF HeadIs, OpSet
<1>7. b.chain[1].data = h
  <2>1. 1 \in DOMAIN b.chain
    BY <1>2, OpFields
  <2> QED
    BY <1>2, <1>3, <2>1 DEF Keeps
<1>8. Keeps(c, h) /\ c.pending = b.pending /\ c.failure = b.failure /\ ~Settled(c)
  BY <1>2, <1>3, <1>5, <1>6, <1>7, HeadKeeps DEF SameRest, Settled
<1>9. ~Clean(c) /\ ~(g > f) /\ g >= f
  BY <1>3, <1>6 DEF Clean
<1>10. Alike(bufs, bufs', accepted, h, w, f)
  BY <1>1, <1>2, <1>3, <1>4, <1>5, <1>8, <1>9, Quiet
<1> QED
  BY <1>10, QuietStep DEF RewriteStarts
(* What is written behind a file without unfinished lines.                  *)
LEMMA WrittenIs ==
  ASSUME NEW n \in Nat, NEW F \in Seq(1..n), NEW x \in Seq(1..n)
  PROVE  Written(F, x) = F \o x
<1>1. ~Unfinished(F)
  <2> SUFFICES ASSUME F # <<>> PROVE Last(F) # Torn
    BY DEF Unfinished
  <2>1. Last(F) \in 1..n
    BY DEF Last
  <2> QED
    BY <2>1 DEF Torn
<1> QED
  BY <1>1 DEF Written

LEMMA PartialIs ==
  ASSUME "torn" \notin Faults, NEW n \in Nat, NEW F \in Seq(1..n), NEW x \in Seq(1..n), NEW G \in Partial(F, x)
  PROVE  \E k \in 0..Len(x) : G = F \o SubSeq(x, 1, k)
<1>1. PICK k \in 0..Len(x) : G = Written(F, SubSeq(x, 1, k))
  BY DEF Partial
<1>2. SubSeq(x, 1, k) \in Seq(1..n)
  OBVIOUS
<1> QED
  BY <1>1, <1>2, WrittenIs

(* A step of the operation that runs: the file is h and then v, the         *)
(* failure s.                                                               *)
LEMMA WritesOn ==
  ASSUME BInv, BInv', NEW h, NEW w, NEW f, File(h, w, f), f \in DOMAIN bufs,
         NEW c, bufs' = [bufs EXCEPT ![f] = c], c.pending = bufs[f].pending, c.chain # <<>>, Keeps(c, h),
         accepted' = accepted, promised' = promised,
         NEW v \in Seq(1..accepted), Ahead(c, v), file' = h \o v
  PROVE  /\ File(h, v, f)' /\ Queue(bufs') = Queue(bufs) /\ (Stuck(bufs') <=> c.failure)
         /\ (Stuck(bufs) <=> bufs[f].failure)
<1>1. /\ accepted \in Nat /\ bufs \in Seq(BufferSet(accepted)) /\ Holds(bufs, accepted, h, w, f)
      /\ f \in Int /\ bufs' \in Seq(BufferSet(accepted))
  BY InvFacts DEF File, Holds, BInv, Buffers
<1>2. One(bufs, bufs', f) /\ bufs'[f] = c /\ DOMAIN bufs' = DOMAIN bufs
  BY <1>1 DEF One
<1>3. ~Settled(c) /\ f >= f /\ ~(f > f)
  BY <1>1 DEF Settled
<1>4. Holds(bufs', accepted, h, v, f)
  BY <1>1, <1>2, <1>3, WorksOn
<1>5. Queue(bufs') = Queue(bufs)
  <2>1. Waits(bufs'[f]) = Waits(bufs[f])
    BY <1>1, <1>2, <1>3 DEF Waits, Holds
  <2> QED
    BY <1>1, <1>2, <2>1, QueueStays
<1>6. File(h, v, f)'
  BY <1>4 DEF File
<1>7. (Stuck(bufs') <=> c.failure) /\ (Stuck(bufs) <=> bufs[f].failure)
  BY <1>1, <1>2, <1>4, StuckIs
<1> QED
  BY <1>5, <1>6, <1>7

LEMMA StuckValue ==
  ASSUME NEW B, NEW s \in BOOLEAN, Stuck(B) <=> s
  PROVE  Stuck(B) = s
BY DEF Stuck

(* More of what waits may have landed.                                      *)
LEMMA LandStep ==
  ASSUME BInv, BInv', NEW h, NEW w, NEW f, File(h, w, f), f \in DOMAIN bufs, ~bufs[f].failure,
         NEW c, bufs' = [bufs EXCEPT ![f] = c], c.pending = bufs[f].pending, c.chain # <<>>, Keeps(c, h),
         c.failure \in BOOLEAN, accepted' = accepted, promised' = promised,
         NEW v \in Seq(1..accepted), Ahead(c, v), file' = h \o v, Len(w) <= Len(v)
  PROVE  FileInv' /\ Carried
<1>1. /\ File(h, v, f)' /\ Queue(bufs') = Queue(bufs) /\ (Stuck(bufs') <=> c.failure)
      /\ (Stuck(bufs) <=> bufs[f].failure)
  BY WritesOn
<1>2. PICK t, s : t = Queue(bufs) /\ s = c.failure
  OBVIOUS
<1>3. s \in BOOLEAN /\ s = Stuck(bufs') /\ FALSE = Stuck(bufs)
  BY <1>1, <1>2, StuckValue
<1>4. Sees(h, t, Len(w), FALSE) /\ Sees(h, t, Len(v), s)'
  BY <1>1, <1>2, <1>3, FileSees, FileSeesNext
<1>5. Len(v) \in Len(w)..Len(t)
  <2>1. /\ accepted \in Nat /\ t \in Seq(1..accepted) /\ w \in Seq(1..accepted)
        /\ bufs' \in Seq(BufferSet(accepted)) /\ Holds(bufs', accepted, h, v, f)
    BY <1>1, <1>2, InvFacts, QueueIn DEF File, Holds, BInv, Buffers
  <2>2. IsPrefix(v, t)
    BY <1>1, <1>2, <2>1, HoldsReads DEF Reads
  <2>3. Len(v) \in 0..Len(t)
    BY <2>1, <2>2, PrefixAt
  <2> QED
    BY <2>1, <2>3
<1>6. Carried
  BY <1>3, <1>4, <1>5, JLand
<1> QED
  BY <1>1, <1>6 DEF FileInv

(* The file is the history, whatever had landed in the one it replaces.     *)
LEMMA ReplaceStep ==
  ASSUME BInv, BInv', NEW h, NEW w, NEW f, File(h, w, f), f \in DOMAIN bufs,
         NEW c, bufs' = [bufs EXCEPT ![f] = c], c.pending = bufs[f].pending, c.chain # <<>>, Keeps(c, h),
         c.failure \in BOOLEAN, accepted' = accepted, promised' = promised, file' = h
  PROVE  FileInv' /\ Carried
<1>1. /\ accepted \in Nat /\ h \in Seq(1..accepted) /\ <<>> \in Seq(1..accepted)
      /\ bufs' \in Seq(BufferSet(accepted)) /\ bufs'[f] = c /\ f \in DOMAIN bufs'
  BY InvFacts DEF File, Holds, BInv, Buffers
<1>2. file' = h \o <<>> /\ Ahead(c, <<>>) /\ Len(<<>>) = 0
  <2>1. c \in BufferSet(accepted)
    BY <1>1
  <2> QED
    BY <1>1, <2>1, AheadNothing
<1>3. /\ File(h, <<>>, f)' /\ Queue(bufs') = Queue(bufs) /\ (Stuck(bufs') <=> c.failure)
  BY <1>1, <1>2, WritesOn
<1>4. PICK t, s, r : t = Queue(bufs) /\ s = Stuck(bufs) /\ r = c.failure
  OBVIOUS
<1>5. r \in BOOLEAN /\ r = Stuck(bufs')
  BY <1>3, <1>4, StuckValue
<1>6. Sees(h, t, Len(w), s) /\ Sees(h, t, 0, r)'
  BY <1>2, <1>3, <1>4, <1>5, FileSees, FileSeesNext
<1>7. Carried
  BY <1>5, <1>6, JReplace
<1> QED
  BY <1>3, <1>7 DEF FileInv

(* The head of the chain is marked: failed, or well.                        *)
LEMMA MarkedKeeps ==
  ASSUME NEW n \in Nat, NEW b \in BufferSet(n), b.chain # <<>>, NEW h, Keeps(b, h),
         NEW v \in BOOLEAN, NEW st \in {"ok", "failed"}, NEW c, c = InStage([b EXCEPT !.failure = v], st)
  PROVE  /\ c \in BufferSet(n) /\ c.pending = b.pending /\ c.failure = v /\ c.chain # <<>> /\ Keeps(c, h)
         /\ c.chain[1].stage = st /\ Len(c.chain) = Len(b.chain)
         /\ c.chain[1].kind = b.chain[1].kind
<1> DEFINE d == [b EXCEPT !.failure = v]
<1>1. d \in BufferSet(n) /\ d.chain = b.chain /\ d.pending = b.pending /\ d.failure = v
  BY DEF BufferSet
<1> HIDE DEF d
<1>2. c \in BufferSet(n) /\ HeadIs(d, c, [d.chain[1] EXCEPT !.stage = st])
  BY <1>1, StageIs DEF Stages, d
<1>3. b.chain[1] \in OpSet(n)
  BY OpFields
<1>4. /\ c.pending = b.pending /\ c.failure = v /\ c.chain # <<>> /\ Len(c.chain) = Len(b.chain)
      /\ \A i \in DOMAIN b.chain : i > 1 => c.chain[i] = b.chain[i]
      /\ c.chain[1].promises = b.chain[1].promises /\ c.chain[1].stage = st
      /\ c.chain[1].kind = b.chain[1].kind
  BY <1>1, <1>2, <1>3 DEF HeadIs, SameRest, OpSet
<1>5. Keeps(c, h)
  BY <1>2, <1>4, HeadKeeps
<1> QED
  BY <1>2, <1>4, <1>5
(* What an operation under way finds.                                       *)
LEMMA WorkIs ==
  ASSUME BInv, NEW h, NEW w, NEW f, File(h, w, f), NEW g \in DOMAIN bufs, NEW b, b = bufs[g],
         NEW kind, Runs(g, kind, "io")
  PROVE  /\ accepted \in Nat /\ b \in BufferSet(accepted) /\ HeadSound(b)
         /\ b.chain # <<>> /\ b.chain[1].kind = kind /\ b.chain[1].stage = "io"
         /\ Op(g) = b.chain[1] /\ b.chain[1] \in OpSet(accepted) /\ b.chain[1].data \in Seq(1..accepted)
         /\ g = f /\ Keeps(b, h) /\ b.pending \in Seq(1..accepted)
         /\ h \in Seq(1..accepted) /\ w \in Seq(1..accepted) /\ Ahead(b, w)
<1>1. /\ accepted \in Nat /\ b \in BufferSet(accepted) /\ HeadSound(b)
      /\ b.chain # <<>> /\ b.chain[1].kind = kind /\ b.chain[1].stage = "io"
      /\ Op(g) = b.chain[1] /\ b.chain[1] \in OpSet(accepted) /\ b.chain[1].data \in Seq(1..accepted)
  BY RunsIs
<1>2. g = f
  BY <1>1, RunsFirst
<1>3. ~Settled(b)
  BY <1>1 DEF Settled
<1>4. Keeps(b, h)
  BY <1>3, LivesIs
<1>5. h \in Seq(1..accepted) /\ w \in Seq(1..accepted) /\ Ahead(b, w)
  BY <1>2 DEF File, Holds
<1>6. b.pending \in Seq(1..accepted)
  BY <1>1, OpFields
<1> QED
  BY <1>1, <1>2, <1>4, <1>5, <1>6

(* A batch under way: nothing of what waits is in the file, and what is     *)
(* written is the first of what waits.                                      *)
LEMMA BatchUnderWay ==
  ASSUME BInv, NEW h, NEW w, NEW f, File(h, w, f), NEW g \in DOMAIN bufs, NEW b, b = bufs[g],
         Runs(g, "drain", "io")
  PROVE  /\ w = <<>> /\ file = h /\ ~b.failure
         /\ b.chain[1].data # <<>> /\ IsPrefix(b.chain[1].data, b.pending)
<1>1. /\ accepted \in Nat /\ HeadSound(b) /\ b.chain # <<>> /\ b.chain[1].kind = "drain"
      /\ b.chain[1].stage = "io" /\ Ahead(b, w) /\ h \in Seq(1..accepted)
  BY WorkIs
<1>2. ~b.failure /\ b.chain[1].data # <<>> /\ IsPrefix(b.chain[1].data, b.pending)
  BY <1>1 DEF HeadSound, HeadOk
<1>3. Clean(b)
  BY <1>1, <1>2 DEF Clean
<1>4. w = <<>>
  BY <1>1, <1>3 DEF Ahead
<1> QED
  BY <1>1, <1>2, <1>4, ConcatEmptySeq DEF File

(* What an append that does not end well leaves.                            *)
LEMMA PartOfBatch ==
  ASSUME "torn" \notin Faults, BInv, NEW h, NEW w, NEW f, File(h, w, f), NEW g \in DOMAIN bufs,
         Runs(g, "drain", "io"), NEW G \in Partial(file, Op(g).data)
  PROVE  \E v \in Seq(1..accepted) : G = h \o v /\ IsPrefix(v, bufs[g].pending)
<1> DEFINE T == 1..accepted
<1>1. PICK b : b = bufs[g]
  OBVIOUS
<1>2. PICK x : x = b.chain[1].data
  OBVIOUS
<1>3. /\ accepted \in Nat /\ b.pending \in Seq(T) /\ h \in Seq(T) /\ x \in Seq(T) /\ Op(g).data = x
  BY <1>1, <1>2, WorkIs
<1>4. file = h /\ IsPrefix(x, b.pending)
  BY <1>1, <1>2, BatchUnderWay
<1>5. PICK k \in 0..Len(x) : G = h \o SubSeq(x, 1, k)
  BY <1>3, <1>4, PartialIs
<1>6. SubSeq(x, 1, k) \in Seq(T)
  BY <1>3
<1>7. IsPrefix(SubSeq(x, 1, k), b.pending)
  <2>1. PICK u \in Seq(T) : b.pending = x \o u
    BY <1>3, <1>4, PrefixSplits
  <2>2. x = SubSeq(x, 1, k) \o SubSeq(x, k + 1, Len(x)) /\ SubSeq(x, k + 1, Len(x)) \in Seq(T)
    <3> HIDE DEF T
    <3> QED
      BY <1>3, CutAnywhere
  <2>3. IsPrefix(SubSeq(x, 1, k), x)
    BY <1>3, <1>6, <2>2, PrefixSplits
  <2> QED
    BY <1>3, <1>6, <2>1, <2>3, PrefixConcat
<1> QED
  BY <1>1, <1>5, <1>6, <1>7

LEMMA AppendFailsF ==
  ASSUME "torn" \notin Faults, BInv, BInv', NEW h, NEW w, NEW f, File(h, w, f), NEW g \in DOMAIN bufs, AppendFails(g)
  PROVE  FileInv' /\ Carried
<1>1. PICK b : b = bufs[g]
  OBVIOUS
<1>2. PICK r \in BOOLEAN, st \in {"ok", "failed"} : r = TRUE /\ st = "failed"
  OBVIOUS
<1>2a. PICK c : c = InStage([b EXCEPT !.failure = r], st)
  OBVIOUS
<1>3. /\ accepted \in Nat /\ b \in BufferSet(accepted) /\ b.chain # <<>> /\ g = f /\ Keeps(b, h)
      /\ b.pending \in Seq(1..accepted)
  BY <1>1, WorkIs DEF AppendFails
<1>4. w = <<>> /\ ~b.failure
  BY <1>1, BatchUnderWay DEF AppendFails
<1>5. PICK v \in Seq(1..accepted) : file' = h \o v /\ IsPrefix(v, b.pending)
  BY <1>1, PartOfBatch DEF AppendFails
<1>6. bufs' = [bufs EXCEPT ![f] = c]
  BY <1>1, <1>2, <1>2a, <1>3 DEF AppendFails
<1>7. /\ c.pending = b.pending /\ c.failure = TRUE /\ c.chain # <<>> /\ Keeps(c, h)
  <2>1. r \in BOOLEAN /\ st \in {"ok", "failed"} /\ c = InStage([b EXCEPT !.failure = r], st)
    BY <1>2, <1>2a
  <2>2. accepted \in Nat /\ b \in BufferSet(accepted) /\ b.chain # <<>> /\ Keeps(b, h)
    BY <1>3
  <2>3. c.pending = b.pending /\ c.failure = r /\ c.chain # <<>> /\ Keeps(c, h)
    BY <2>1, <2>2, MarkedKeeps
  <2> QED
    BY <1>2, <2>3
<1>8. Ahead(c, v)
  BY <1>5, <1>7 DEF Ahead, Clean
<1>9. Len(w) <= Len(v)
  BY <1>4, <1>5
<1>10. c.failure \in BOOLEAN /\ f \in DOMAIN bufs /\ ~bufs[f].failure /\ c.pending = bufs[f].pending
  BY <1>1, <1>3, <1>4, <1>7
<1> QED
  BY <1>5, <1>6, <1>7, <1>8, <1>9, <1>10, LandStep DEF AppendFails

LEMMA RewriteDone ==
  ASSUME BInv, BInv', NEW h, NEW w, NEW f, File(h, w, f), NEW g \in DOMAIN bufs,
         RewriteEnds(g) \/ RewriteFails(g)
  PROVE  FileInv' /\ Carried
<1>1. PICK b : b = bufs[g]
  OBVIOUS
<1>2a. PICK v \in BOOLEAN, st \in {"ok", "failed"} :
         /\ bufs' = [bufs EXCEPT ![g] = InStage([b EXCEPT !.failure = v], st)]
         /\ RewriteFails(g) => v = TRUE
  BY <1>1 DEF RewriteEnds, RewriteFails
<1>2b. PICK c : c = InStage([b EXCEPT !.failure = v], st)
  OBVIOUS
<1>2. /\ bufs' = [bufs EXCEPT ![g] = c] /\ c = InStage([b EXCEPT !.failure = v], st)
      /\ v \in BOOLEAN /\ st \in {"ok", "failed"} /\ (RewriteFails(g) => v = TRUE)
  BY <1>2a, <1>2b
<1>3. /\ accepted \in Nat /\ b \in BufferSet(accepted) /\ b.chain # <<>> /\ g = f /\ Keeps(b, h)
      /\ b.chain[1].kind = "rewrite" /\ b.chain[1].stage = "io" /\ Op(g) = b.chain[1]
      /\ w \in Seq(1..accepted) /\ Ahead(b, w)
  BY <1>1, WorkIs DEF RewriteEnds, RewriteFails
<1>4. /\ c.pending = b.pending /\ c.failure = v /\ c.chain # <<>> /\ Keeps(c, h)
  BY <1>2, <1>3, MarkedKeeps
<1>5. Op(g).data = h
  <2>1. 1 \in DOMAIN b.chain
    BY <1>3, OpFields
  <2> QED
    BY <1>3, <2>1 DEF Keeps
<1>6. /\ bufs' = [bufs EXCEPT ![f] = c] /\ c.failure \in BOOLEAN /\ f \in DOMAIN bufs
      /\ c.pending = bufs[f].pending
  BY <1>1, <1>2, <1>3, <1>4
<1>7. accepted' = accepted /\ promised' = promised /\ (RewriteEnds(g) => file' = h)
  BY <1>5 DEF RewriteEnds, RewriteFails
<1>8. CASE file' = h
  BY <1>4, <1>6, <1>7, <1>8, ReplaceStep
<1>9. CASE RewriteFails(g) /\ file' = file
  <2>1. c.failure = TRUE /\ Ahead(c, w) /\ file' = h \o w
    BY <1>2, <1>3, <1>4, <1>9 DEF Ahead, Clean, File
  <2>2. CASE ~b.failure
    <3>1. ~bufs[f].failure /\ Len(w) <= Len(w)
      BY <1>1, <1>3, <2>2
    <3> QED
      BY <1>3, <1>4, <1>6, <1>7, <2>1, <3>1, LandStep
  <2>3. CASE b.failure
    <3>1. /\ File(h, w, f)' /\ Queue(bufs') = Queue(bufs) /\ (Stuck(bufs') <=> c.failure)
          /\ (Stuck(bufs) <=> bufs[f].failure)
      BY <1>3, <1>4, <1>6, <1>7, <2>1, WritesOn
    <3>2. Stuck(bufs') = TRUE /\ Stuck(bufs) = TRUE
      BY <1>1, <1>3, <2>1, <2>3, <3>1, StuckValue
    <3>3. PICK t : t = Queue(bufs)
      OBVIOUS
    <3>4. Sees(h, t, Len(w), TRUE) /\ Sees(h, t, Len(w), TRUE)'
      BY <3>1, <3>2, <3>3, FileSees, FileSeesNext
    <3>5. Carried
      BY <1>7, <3>4, JStays
    <3> QED
      BY <3>1, <3>5 DEF FileInv
  <2> QED
    BY <2>2, <2>3
<1> QED
  BY <1>5, <1>7, <1>8, <1>9 DEF RewriteFails
(* A durable batch enters the history: what it held waits no more, and what *)
(* callers wait for is in the history or still in the buffer.               *)
LEMMA ConfirmedKeeps ==
  ASSUME NEW n \in Nat, NEW b \in BufferSet(n), NEW h \in Seq(1..n), Keeps(b, h), b.chain # <<>>,
         ~Overtaken(b), b.chain[1].kind = "drain", NEW x \in Seq(1..n), x = b.chain[1].data,
         IsPrefix(x, b.pending), NEW c, c = AfterBatch(b)
  PROVE  /\ c \in BufferSet(n) /\ Splits(b.pending, x, c.pending) /\ c.chain # <<>>
         /\ c.failure = b.failure /\ Keeps(c, h \o x)
<1> DEFINE T == 1..n
           r == SubSeq(b.pending, Len(x) + 1, Len(b.pending))
           d == [b EXCEPT !.pending = r]
<1>1. /\ b.pending \in Seq(T) /\ b.chain \in Seq(OpSet(n)) /\ Head(b.chain) = b.chain[1]
      /\ Len(b.chain) \in Nat /\ Len(b.chain) > 0 /\ DOMAIN b.chain = 1..Len(b.chain)
      /\ 1 \in DOMAIN b.chain /\ b.chain[1] \in OpSet(n)
  BY OpFields
<1>2. r \in Seq(T) /\ b.pending = x \o r
  <2>1. x \in Seq(T)
    OBVIOUS
  <2> HIDE DEF T
  <2>2. r \in Seq(T) /\ Splits(b.pending, x, r)
    BY <1>1, <2>1, PrefixRest
  <2> QED
    BY <2>2 DEF Splits
<1>3. d = Confirmed(b)
  BY <1>1 DEF Confirmed
<1> HIDE DEF r
<1>4. d \in BufferSet(n) /\ d.pending = r /\ d.chain = b.chain /\ d.failure = b.failure
  BY <1>2 DEF BufferSet
<1> HIDE DEF d
<1>5. c = NextBatch(d)
  BY <1>3 DEF AfterBatch
<1>6. /\ c \in BufferSet(n)
      /\ \/ HeadIs(d, c, [d.chain[1] EXCEPT !.stage = "ok"])
         \/ HeadIs(d, c, [d.chain[1] EXCEPT !.stage = "io", !.data = d.pending])
  BY <1>4, <1>5, BatchIs
<1> DEFINE o == c.chain[1]
<1>12. /\ HeadIs(d, c, o) /\ o.promises = b.chain[1].promises /\ o.kind = b.chain[1].kind
  <2>1. CASE HeadIs(d, c, [d.chain[1] EXCEPT !.stage = "ok"])
    <3>1. c.chain[1] = [b.chain[1] EXCEPT !.stage = "ok"]
      BY <1>4, <2>1 DEF HeadIs
    <3> QED
      BY <1>1, <1>4, <2>1, <3>1 DEF OpSet, HeadIs
  <2>2. CASE HeadIs(d, c, [d.chain[1] EXCEPT !.stage = "io", !.data = d.pending])
    <3>1. c.chain[1] = [b.chain[1] EXCEPT !.stage = "io", !.data = d.pending]
      BY <1>4, <2>2 DEF HeadIs
    <3> QED
      BY <1>1, <1>4, <2>2, <3>1 DEF OpSet, HeadIs
  <2> QED
    BY <1>6, <2>1, <2>2
<1>7. /\ c.pending = r /\ c.failure = b.failure /\ Len(c.chain) = Len(b.chain) /\ c.chain # <<>>
      /\ c.chain[1].promises = b.chain[1].promises /\ c.chain[1].kind = "drain"
  BY <1>4, <1>12 DEF HeadIs, SameRest
<1>8. DOMAIN c.chain = {1}
  <2>1. Len(b.chain) = 1
    <3>1. Len(b.chain) \in Nat /\ Len(b.chain) > 0 /\ ~(Len(b.chain) > 1)
      BY <1>1 DEF Overtaken
    <3> QED
      BY <3>1, MoreThanOne, Zenon
  <2>2. DOMAIN c.chain = 1..Len(c.chain)
    BY <1>6, OpFields
  <2>3. DOMAIN c.chain = 1..1
    BY <1>7, <2>1, <2>2
  <2> QED
    BY <2>3
<1>9. Range(b.pending) = Range(x) \cup Range(r) /\ Range(h \o x) = Range(h) \cup Range(x)
  BY <1>2, RangeConcatenation
<1>10. Keeps(c, h \o x)
  <2>1. \A t \in Range(b.chain[1].promises) : t.records \subseteq Range(h) \cup Range(b.pending)
    BY <1>1 DEF Keeps
  <2> QED
    BY <1>7, <1>8, <1>9, <2>1 DEF Keeps
<1>11. Splits(b.pending, x, c.pending)
  BY <1>2, <1>7 DEF Splits
<1> QED
  BY <1>6, <1>7, <1>10, <1>11

LEMMA AppendEndsF ==
  ASSUME BInv, BInv', NEW h, NEW w, NEW f, File(h, w, f), NEW g \in DOMAIN bufs, AppendEnds(g)
  PROVE  FileInv' /\ Carried
<1>1. PICK b : b = bufs[g]
  OBVIOUS
<1>2. PICK x : x = b.chain[1].data
  OBVIOUS
<1>3. PICK c : c = AfterBatch(b)
  OBVIOUS
<1>4. /\ accepted \in Nat /\ b \in BufferSet(accepted) /\ b.chain # <<>> /\ g = f /\ Keeps(b, h)
      /\ b.chain[1].kind = "drain" /\ b.chain[1].stage = "io" /\ x \in Seq(1..accepted)
      /\ h \in Seq(1..accepted) /\ b.pending \in Seq(1..accepted)
  BY <1>1, <1>2, WorkIs DEF AppendEnds
<1>5. w = <<>> /\ file = h /\ ~b.failure /\ x # <<>> /\ IsPrefix(x, b.pending) /\ Len(w) = 0
  <2>1. w = <<>> /\ file = h /\ ~b.failure /\ x # <<>> /\ IsPrefix(x, b.pending)
    BY <1>1, <1>2, BatchUnderWay DEF AppendEnds
  <2> QED
    BY <2>1
<1>6. file' = h \o x /\ bufs' = [bufs EXCEPT ![f] = c]
  <2>1. file' = Written(file, x) /\ bufs' = [bufs EXCEPT ![f] = c]
    BY <1>1, <1>2, <1>3, <1>4, AfterBatchIs
  <2>2. Written(h, x) = h \o x
    BY <1>4, WrittenIs
  <2> QED
    BY <1>5, <2>1, <2>2
<1>7. accepted' = accepted /\ promised' = promised
  BY DEF AppendEnds
<1>8. CASE Overtaken(b)
  <2>1. c = InStage(b, "ok") /\ "ok" \in Stages
    BY <1>3, <1>8 DEF AfterBatch, Stages
  <2>2. c \in BufferSet(accepted) /\ HeadIs(b, c, [b.chain[1] EXCEPT !.stage = "ok"]) /\ b.chain[1] \in OpSet(accepted)
    BY <1>4, <2>1, StageIs, OpFields
  <2>3. /\ SameRest(b, c) /\ Len(c.chain) = Len(b.chain) /\ c.chain # <<>>
        /\ \A i \in DOMAIN b.chain : i > 1 => c.chain[i] = b.chain[i]
        /\ c.chain[1].promises = b.chain[1].promises /\ c.chain[1].kind = "drain" /\ c.chain[1].stage = "ok"
    BY <1>4, <2>2 DEF HeadIs, OpSet
  <2>4. Keeps(c, h) /\ c.pending = b.pending /\ c.failure = b.failure
    BY <1>4, <2>2, <2>3, HeadKeeps DEF SameRest
  <2>5. ~Clean(c)
    <3>1. Len(c.chain) \in Nat /\ Len(c.chain) > 1
      BY <1>4, <1>8, <2>3, OpFields DEF Overtaken
    <3>2. Len(c.chain) # 1
      BY <3>1, MoreThanOne, Zenon
    <3> QED
      BY <2>3, <3>2 DEF Clean
  <2>6. Ahead(c, x)
    BY <1>5, <2>4, <2>5 DEF Ahead
  <2>7. Len(w) <= Len(x)
    BY <1>4, <1>5
  <2>8. c.failure \in BOOLEAN /\ f \in DOMAIN bufs /\ ~bufs[f].failure /\ c.pending = bufs[f].pending
    BY <1>1, <1>4, <1>5, <2>4, OpFields
  <2> QED
    BY <1>4, <1>6, <1>7, <2>3, <2>4, <2>6, <2>7, <2>8, LandStep
<1>9. CASE ~Overtaken(b)
  <2>1. /\ c \in BufferSet(accepted) /\ Splits(b.pending, x, c.pending) /\ c.chain # <<>>
        /\ c.failure = b.failure /\ Keeps(c, h \o x)
    BY <1>2, <1>3, <1>4, <1>5, <1>9, ConfirmedKeeps
  <2>2. /\ bufs \in Seq(BufferSet(accepted)) /\ bufs' \in Seq(BufferSet(accepted)) /\ f \in DOMAIN bufs
        /\ Holds(bufs, accepted, h, w, f) /\ One(bufs, bufs', f) /\ bufs'[f] = c
    BY <1>4, <1>6, <1>7, InvFacts DEF BInv, Buffers, File, One
  <2>3. Holds(bufs', accepted, h \o x, <<>>, f) /\ Queue(bufs) = x \o Queue(bufs')
    BY <1>1, <1>4, <2>1, <2>2, WorksOff DEF Settled
  <2>4. File(h \o x, <<>>, f)'
    <3>1. h \o x = (h \o x) \o <<>>
      BY <1>4
    <3>2. Range(h) \subseteq Range(h \o x)
      BY <1>4, RangeConcatenation
    <3> QED
      BY <1>6, <1>7, <2>3, <3>1, <3>2 DEF File
  <2>5. Stuck(bufs) = FALSE /\ Stuck(bufs') = FALSE
    <3>1. ~bufs[f].failure /\ ~bufs'[f].failure
      BY <1>1, <1>4, <1>5, <2>1, <2>2
    <3>2. (Stuck(bufs) <=> FALSE) /\ (Stuck(bufs') <=> FALSE)
      BY <2>2, <2>3, <3>1, StuckIs
    <3> QED
      BY <3>2, StuckValue
  <2>6. PICK t, u : t = Queue(bufs) /\ u = Queue(bufs')
    OBVIOUS
  <2>7. x = SubSeq(t, 1, Len(x)) /\ u = SubSeq(t, Len(x) + 1, Len(t)) /\ Len(x) \in 1..Len(t)
    <3> DEFINE T == 1..accepted
    <3>1. t \in Seq(T) /\ x \in Seq(T) /\ u \in Seq(T) /\ Splits(t, x, u)
      BY <1>4, <2>2, <2>3, <2>6, QueueIn DEF Splits
    <3> HIDE DEF T
    <3>2. x = SubSeq(t, 1, Len(x)) /\ u = SubSeq(t, Len(x) + 1, Len(t)) /\ Len(x) \in 0..Len(t)
      BY <3>1, SplitsAt
    <3>3. Len(x) # 0 /\ Len(x) \in Nat
      BY <1>5, <3>1
    <3> QED
      BY <3>2, <3>3
  <2>8. Sees(h, t, 0, FALSE) /\ Sees(h \o x, u, 0, FALSE)'
    BY <1>5, <2>4, <2>5, <2>6, FileSees, FileSeesNext
  <2>9. Carried
    <3>1. PICK m, y : m = Len(x) /\ y = h \o x
      OBVIOUS
    <3>2. m \in 1..Len(t) /\ 0 <= m /\ x = SubSeq(t, 1, m) /\ u = SubSeq(t, m + 1, Len(t))
      BY <2>7, <3>1
    <3> QED
      BY <1>7, <2>8, <3>2, JConfirm
  <2> QED
    BY <2>4, <2>9 DEF FileInv
<1> QED
  BY <1>8, <1>9
(* The end of a flush: the next operation of the chain, or none.            *)
LEMMA TailKeeps ==
  ASSUME NEW n \in Nat, NEW b \in BufferSet(n), NEW h, Keeps(b, h), b.chain # <<>>, HeadSound(b), RestSound(b),
         b.chain[1].stage \in {"ok", "failed"}, NEW c, c = [b EXCEPT !.chain = Tail(b.chain)]
  PROVE  /\ c \in BufferSet(n) /\ c.pending = b.pending /\ c.failure = b.failure /\ c.retired = b.retired
         /\ Keeps(c, h) /\ (Clean(c) => Clean(b)) /\ (c.chain = <<>> => ~Overtaken(b))
<1> DEFINE ch == Tail(b.chain)
<1>1. b.chain \in Seq(OpSet(n)) /\ Len(b.chain) \in Nat /\ Len(b.chain) > 0 /\ DOMAIN b.chain = 1..Len(b.chain)
      /\ 1 \in DOMAIN b.chain /\ b.chain[1].kind \in {"drain", "rewrite"}
  BY OpFields
<1>2. /\ ch \in Seq(OpSet(n)) /\ Len(ch) = Len(b.chain) - 1 /\ DOMAIN ch = 1..Len(ch)
      /\ \A i \in DOMAIN ch : ch[i] = b.chain[i + 1] /\ i + 1 \in DOMAIN b.chain /\ i + 1 > 1
  BY <1>1
<1> HIDE DEF ch
<1>3. /\ c \in BufferSet(n) /\ c.pending = b.pending /\ c.failure = b.failure /\ c.retired = b.retired
      /\ c.chain = ch
  BY <1>2 DEF BufferSet, ch
<1>4. Keeps(c, h)
  BY <1>2, <1>3 DEF Keeps
<1>5. c.chain = <<>> => ~(Len(b.chain) > 1)
  BY <1>1, <1>2, <1>3
<1>6. Clean(c) => Clean(b)
  <2>1. CASE c.chain = <<>>
    <3>1. Len(b.chain) = 1
      BY <1>1, <1>5, <2>1, MoreThanOne, Zenon
    <3>2. ~b.failure => b.chain[1].stage = "ok"
      BY DEF HeadSound, HeadOk
    <3> QED
      BY <1>1, <1>3, <3>1, <3>2 DEF Clean
  <2>2. CASE c.chain # <<>>
    <3>1. 1 \in DOMAIN ch
      BY <1>2, <1>3, <2>2
    <3>2. c.chain[1].kind = "rewrite" /\ c.chain[1].stage = "start"
      BY <1>2, <1>3, <3>1 DEF RestSound
    <3> QED
      BY <2>2, <3>2 DEF Clean
  <2> QED
    BY <2>1, <2>2
<1> QED
  BY <1>3, <1>4, <1>5, <1>6 DEF Overtaken

(* Records came in meanwhile: the next drain takes over the promise.        *)
LEMMA AgainKeeps ==
  ASSUME NEW n \in Nat, NEW b \in BufferSet(n), NEW h, Keeps(b, h), b.chain # <<>>, HeadSound(b),
         DrainsAgain(b), NEW c,
         c = [b EXCEPT !.chain = [b.chain EXCEPT ![1] = [Drain EXCEPT !.promises = b.chain[1].promises]]]
  PROVE  /\ c \in BufferSet(n) /\ c.pending = b.pending /\ c.failure = b.failure /\ c.chain # <<>>
         /\ Keeps(c, h) /\ Clean(b)
<1> DEFINE o == [Drain EXCEPT !.promises = b.chain[1].promises]
<1>1. /\ b.chain[1].promises \in Seq(TicketSet(n)) /\ Head(b.chain) = b.chain[1] /\ Len(b.chain) \in Nat
      /\ Len(b.chain) > 0 /\ b.chain[1].kind \in {"drain", "rewrite"}
  BY OpFields
<1>2. <<>> \in Seq(1..n)
  OBVIOUS
<1>3. o \in OpSet(n) /\ o.kind = "drain" /\ o.stage = "start" /\ o.promises = b.chain[1].promises
  BY <1>1, <1>2 DEF Drain, Operation, OpSet, Stages
<1> HIDE DEF o
<1>4. c \in BufferSet(n) /\ HeadIs(b, c, o)
  BY <1>3, HeadChanges DEF o
<1>5. /\ c.pending = b.pending /\ c.failure = b.failure /\ c.chain # <<>> /\ Len(c.chain) = Len(b.chain)
      /\ \A i \in DOMAIN b.chain : i > 1 => c.chain[i] = b.chain[i]
      /\ c.chain[1].promises = b.chain[1].promises /\ c.chain[1].kind = "drain"
  BY <1>3, <1>4 DEF HeadIs, SameRest
<1>6. Keeps(c, h)
  BY <1>4, <1>5, HeadKeeps
<1>7. Clean(b)
  <2>1. b.chain[1].stage = "ok" /\ ~(Len(b.chain) > 1)
    BY <1>1 DEF DrainsAgain, Overtaken
  <2>2. Len(b.chain) = 1
    BY <1>1, <2>1, MoreThanOne, Zenon
  <2>3. ~b.failure
    BY <1>1, <2>1 DEF HeadSound, HeadOk
  <2> QED
    BY <1>1, <2>1, <2>2, <2>3 DEF Clean
<1> QED
  BY <1>4, <1>5, <1>6, <1>7

(* Only what is in the history is reported as durable.                      *)
LEMMA KeptIsHistory ==
  ASSUME NEW n \in Nat, NEW b \in BufferSet(n), NEW h, Keeps(b, h), b.chain # <<>>, ~DrainsAgain(b),
         b.chain[1].stage \in {"ok", "failed"}
  PROVE  /\ Kept(b) \subseteq Range(h)
         /\ b.chain[1].stage = "failed" \/ Overtaken(b) => Kept(b) = {}
         /\ b.chain[1].stage = "failed" \/ Overtaken(b) \/ b.pending = <<>>
<1>1. Head(b.chain) = b.chain[1] /\ 1 \in DOMAIN b.chain
  BY OpFields
<1>2. b.chain[1].stage = "failed" \/ Overtaken(b) => Kept(b) = {}
  BY <1>1 DEF Kept
<1>3. b.chain[1].stage = "failed" \/ Overtaken(b) \/ b.pending = <<>>
  BY <1>1 DEF DrainsAgain
<1>4. CASE b.pending = <<>>
  <2>1. Range(b.pending) = {}
    BY <1>4 DEF Range
  <2>2. \A t \in Range(b.chain[1].promises) : t.records \subseteq Range(h)
    BY <1>1, <2>1 DEF Keeps
  <2>3. Kept(b) \subseteq UNION {t.records : t \in Range(b.chain[1].promises)}
    BY <1>1 DEF Kept
  <2>4. UNION {t.records : t \in Range(b.chain[1].promises)} \subseteq Range(h)
    BY <2>2
  <2> QED
    BY <1>2, <1>3, <2>3, <2>4
<1> QED
  BY <1>2, <1>3, <1>4

LEMMA FinishF ==
  ASSUME BInv, BInv', NEW h, NEW w, NEW f, File(h, w, f), NEW g \in DOMAIN bufs, Finish(g)
  PROVE  FileInv' /\ Carried
<1>1. PICK b : b = bufs[g]
  OBVIOUS
<1>2. PICK c : c = AfterFlush(b)
  OBVIOUS
<1>3. /\ bufs' = [bufs EXCEPT ![g] = c]
      /\ accepted \in Nat /\ b \in BufferSet(accepted) /\ HeadSound(b)
      /\ b.chain # <<>> /\ b.chain[1].stage \in {"ok", "failed"}
      /\ RestSound(b)
  BY <1>1, <1>2, AfterFlushIs
<1>4. /\ g = f /\ Keeps(b, h) /\ Holds(bufs, accepted, h, w, f) /\ bufs \in Seq(BufferSet(accepted))
      /\ f \in Int /\ Ahead(b, w) /\ w \in Seq(1..accepted) /\ f >= f /\ ~(f > f)
  <2>1. g = f
    BY <1>1, <1>3, RunsFirst
  <2>2. ~Settled(b)
    BY <1>3 DEF Settled
  <2>3. Keeps(b, h) /\ f \in Int
    BY <1>1, <2>2, LivesIs
  <2>4. Holds(bufs, accepted, h, w, f) /\ bufs \in Seq(BufferSet(accepted))
    BY InvFacts DEF File
  <2> QED
    BY <1>1, <2>1, <2>3, <2>4 DEF Holds
<1>5. file' = file /\ accepted' = accepted
  BY DEF Finish
<1>6. CASE DrainsAgain(b)
  <2>1. c = [b EXCEPT !.chain = [b.chain EXCEPT ![1] = [Drain EXCEPT !.promises = b.chain[1].promises]]]
    BY <1>2, <1>6 DEF AfterFlush
  <2>2. /\ c \in BufferSet(accepted) /\ c.pending = b.pending /\ c.failure = b.failure /\ c.chain # <<>>
        /\ Keeps(c, h) /\ Clean(b)
    BY <1>3, <1>4, <1>6, <2>1, AgainKeeps
  <2>3. ~Settled(c) /\ w = <<>>
    BY <1>4, <2>2 DEF Settled, Ahead
  <2>4. Alike(bufs, bufs', accepted, h, w, f)
    BY <1>1, <1>3, <1>4, <2>2, <2>3, Quiet
  <2>5. promised' = promised
    BY <1>1, <1>6 DEF Finish
  <2> QED
    BY <1>5, <2>4, <2>5, QuietStep
<1>7. CASE ~DrainsAgain(b)
  <2>1. c = [b EXCEPT !.chain = Tail(b.chain)]
    BY <1>2, <1>7 DEF AfterFlush
  <2>2. /\ c \in BufferSet(accepted) /\ c.pending = b.pending /\ c.failure = b.failure /\ c.retired = b.retired
        /\ Keeps(c, h) /\ (Clean(c) => Clean(b)) /\ (c.chain = <<>> => ~Overtaken(b))
    BY <1>3, <1>4, <2>1, TailKeeps, ZenonT(30)
  <2>3. PICK K : K = Kept(b)
    OBVIOUS
  <2>4. /\ K \subseteq Range(h)
        /\ b.chain[1].stage = "failed" \/ Overtaken(b) => K = {}
        /\ b.chain[1].stage = "failed" \/ Overtaken(b) \/ b.pending = <<>>
    BY <1>3, <1>4, <1>7, <2>3, KeptIsHistory
  <2>5. promised' = promised \cup K
    BY <1>1, <1>7, <2>3 DEF Finish
  <2>6. CASE ~Settled(c)
    <3>1. Clean(c) => w = <<>>
      BY <1>4, <2>2 DEF Ahead
    <3>2. Alike(bufs, bufs', accepted, h, w, f)
      BY <1>1, <1>3, <1>4, <2>2, <2>6, <3>1, Quiet
    <3>3. File(h, w, f)'
      BY <1>5, <2>4, <2>5, <3>2 DEF File, Alike
    <3>4. PICK t, s : t = Queue(bufs) /\ s = Stuck(bufs)
      OBVIOUS
    <3>5. Sees(h, t, Len(w), s) /\ Sees(h, t, Len(w), s)'
      BY <3>2, <3>3, <3>4, FileSees, FileSeesNext DEF Alike
    <3>6. Carried
      BY <2>4, <2>5, <3>5, JPromise
    <3> QED
      BY <3>3, <3>6 DEF FileInv
  <2>7. CASE Settled(c)
    <3>1. One(bufs, bufs', f) /\ bufs'[f] = c /\ f \in DOMAIN bufs
      BY <1>3, <1>4 DEF One
    <3>2. CASE b.chain[1].stage = "failed"
      <4>1. promised' = promised
        BY <2>4, <2>5, <3>2
      <4> QED
        BY <1>5, <2>7, <3>1, <4>1, EndsStep
    <3>3. CASE b.chain[1].stage # "failed"
      <4>1. b.pending = <<>> /\ ~b.failure
        BY <1>3, <2>2, <2>4, <2>7, <3>3, OpFields DEF Settled, HeadSound, HeadOk
      <4>2. w = <<>>
        <5>1. IsPrefix(w, <<>>) /\ <<>> \in Seq(1..accepted)
          BY <1>4, <4>1 DEF Ahead
        <5>2. Len(w) \in 0..Len(<<>>)
          BY <1>4, <5>1, PrefixAt
        <5> QED
          BY <1>4, <5>2
      <4>3. /\ bufs' \in Seq(BufferSet(accepted)) /\ h \in Seq(1..accepted)
        BY <1>4, <1>5 DEF BInv, Buffers, Holds
      <4>4. /\ Holds(bufs', accepted, h \o w, <<>>, f + 1) /\ Splits(Queue(bufs), b.pending, Queue(bufs'))
            /\ Stuck(bufs') = FALSE
        BY <1>1, <1>3, <1>4, <2>7, <3>1, <4>3, EndsHolds
      <4>5. Holds(bufs', accepted, h, <<>>, f + 1) /\ file' = h \o <<>>
        <5>1. h \o w = h
          BY <4>2, <4>3
        <5> QED
          BY <1>5, <4>2, <4>4, <5>1 DEF File
      <4>6. Queue(bufs') = Queue(bufs)
        <5>1. Queue(bufs') \in Seq(1..accepted)
          BY <1>3, <4>3, QueueIn
        <5> QED
          BY <4>1, <4>4, <5>1 DEF Splits
      <4>7. Stuck(bufs) = FALSE
        <5>1. Stuck(bufs) <=> FALSE
          BY <1>1, <1>4, <4>1, StuckIs
        <5> QED
          BY <5>1, StuckValue
      <4>8. File(h, <<>>, f + 1)'
        BY <1>5, <2>4, <2>5, <4>5 DEF File
      <4>9. PICK t : t = Queue(bufs)
        OBVIOUS
      <4>10. Sees(h, t, Len(w), FALSE) /\ Sees(h, t, Len(w), FALSE)'
        BY <4>2, <4>4, <4>6, <4>7, <4>8, <4>9, FileSees, FileSeesNext
      <4>11. Carried
        BY <2>4, <2>5, <4>10, JPromise
      <4> QED
        BY <4>8, <4>11 DEF FileInv
    <3> QED
      BY <3>2, <3>3
  <2> QED
    BY <2>6, <2>7
<1> QED
  BY <1>6, <1>7
(* Nothing of the buffers survives: the file is the history.                *)
LEMMA NothingLeft ==
  ASSUME NEW n \in Nat, NEW B \in Seq(BufferSet(n)), NEW h, NEW w, NEW f, Holds(B, n, h, w, f),
         NEW x \in Seq(1..n), IsPrefix(x, Queue(B)), NEW C, C = <<>>
  PROVE  Holds(C, n, h \o x, <<>>, 1) /\ Queue(C) = <<>> /\ Stuck(C) = FALSE
<1> DEFINE T == 1..n
<1>1. h \in Seq(T) /\ Queue(B) \in Seq(T) /\ <<>> \in Seq(T) /\ x \in Seq(T) /\ Distinct(h \o Queue(B))
  BY QueueIn DEF Holds
<1>2. DOMAIN C = {} /\ Len(C) = 0 /\ C \in Seq(BufferSet(n)) /\ 1 \in 1..(Len(C) + 1)
  OBVIOUS
<1>3. Queue(C) = <<>>
  <2>1. [g \in DOMAIN C |-> Waits(C[g])] = <<>>
    BY <1>2
  <2> QED
    BY <2>1, FlattenEmpty DEF Queue
<1>4. Distinct(h \o x)
  <2> HIDE DEF T
  <2> QED
    BY <1>1, PrefixBehind
<1>5. (h \o x) \o <<>> = h \o x /\ h \o x \in Seq(T)
  BY <1>1
<1>6. Holds(C, n, h \o x, <<>>, 1)
  BY <1>1, <1>2, <1>3, <1>4, <1>5 DEF Holds
<1>7. Stuck(C) = FALSE
  BY <1>2 DEF Stuck
<1> QED
  BY <1>3, <1>6, <1>7

LEMMA CrashF ==
  ASSUME "torn" \notin Faults, BInv, BInv', NEW h, NEW w, NEW f, File(h, w, f), Crash
  PROVE  FileInv' /\ Carried
<1>1. /\ accepted \in Nat /\ bufs \in Seq(BufferSet(accepted)) /\ Holds(bufs, accepted, h, w, f)
      /\ h \in Seq(1..accepted) /\ w \in Seq(1..accepted) /\ file = h \o w
  BY InvFacts DEF File, Holds
<1>2. accepted' = accepted /\ promised' = promised /\ bufs' = <<>>
  BY DEF Crash
<1>3. PICK x \in Seq(1..accepted) : file' = h \o x /\ IsPrefix(x, Queue(bufs))
  <2>1. CASE file' = file
    <3>1. IsPrefix(w, Queue(bufs))
      BY <1>1, HoldsReads DEF Reads
    <3> QED
      BY <1>1, <2>1, <3>1
  <2>2. ASSUME NEW g \in DOMAIN bufs, Runs(g, "drain", "io"), file' \in Partial(file, Op(g).data)
        PROVE  \E x \in Seq(1..accepted) : file' = h \o x /\ IsPrefix(x, Queue(bufs))
    <3>1. PICK v \in Seq(1..accepted) : file' = h \o v /\ IsPrefix(v, bufs[g].pending)
      BY <2>2, PartOfBatch
    <3>2. PICK b : b = bufs[g]
      OBVIOUS
    <3>3. g = f
      BY <2>2, <3>2, WorkIs
    <3>4. IsPrefix(v, Queue(bufs))
      BY <1>1, <3>1, <3>3, FirstWaits
    <3> QED
      BY <3>1, <3>4
  <2>3. ASSUME NEW g \in DOMAIN bufs, Runs(g, "rewrite", "io"), file' = Op(g).data
        PROVE  \E x \in Seq(1..accepted) : file' = h \o x /\ IsPrefix(x, Queue(bufs))
    <3>1. PICK b : b = bufs[g]
      OBVIOUS
    <3>2. /\ Keeps(b, h) /\ b.chain # <<>> /\ b.chain[1].kind = "rewrite" /\ b.chain[1].stage = "io"
          /\ Op(g) = b.chain[1] /\ b \in BufferSet(accepted)
      BY <2>3, <3>1, WorkIs
    <3>3. 1 \in DOMAIN b.chain
      BY <1>1, <3>2, OpFields
    <3>4. file' = h
      BY <2>3, <3>2, <3>3 DEF Keeps
    <3>5. <<>> \in Seq(1..accepted) /\ Queue(bufs) \in Seq(1..accepted)
      BY <1>1, QueueIn
    <3>6. Queue(bufs) = <<>> \o Queue(bufs) /\ h = h \o <<>>
      BY <1>1, <3>5
    <3>7. IsPrefix(<<>>, Queue(bufs))
      BY <3>5, <3>6, PrefixSplits
    <3> QED
      BY <3>4, <3>5, <3>6, <3>7
  <2> QED
    BY <2>1, <2>2, <2>3 DEF Crash
<1>4. Holds(bufs', accepted, h \o x, <<>>, 1) /\ Queue(bufs') = <<>> /\ Stuck(bufs') = FALSE
  BY <1>1, <1>2, <1>3, NothingLeft
<1>5. File(h \o x, <<>>, 1)'
  <2>1. (h \o x) \o <<>> = h \o x
    BY <1>1
  <2>2. Range(h) \subseteq Range(h \o x)
    BY <1>1, RangeConcatenation
  <2> QED
    BY <1>2, <1>3, <1>4, <2>1, <2>2 DEF File
<1>6. PICK t, s : t = Queue(bufs) /\ s = Stuck(bufs)
  OBVIOUS
<1>7. PICK u : u = Queue(bufs')
  OBVIOUS
<1>8. Sees(h, t, Len(w), s)
  BY <1>6, FileSees
<1>9. Sees(h \o x, <<>>, 0, FALSE)'
  <2>1. Len(<<>>) = 0 /\ FALSE = Stuck(bufs') /\ u = <<>>
    BY <1>4, <1>7
  <2>2. Sees(h \o x, u, Len(<<>>), FALSE)'
    BY <1>5, <1>7, <2>1, FileSeesNext
  <2> QED
    BY <2>1, <2>2
<1>10. x = SubSeq(t, 1, Len(x)) /\ Len(x) \in 0..Len(t)
  <2> DEFINE T == 1..accepted
  <2>1. t \in Seq(T) /\ x \in Seq(T) /\ IsPrefix(x, t)
    BY <1>1, <1>3, <1>6, QueueIn
  <2> HIDE DEF T
  <2> QED
    BY <2>1, PrefixAt
<1>11. Carried
  BY <1>2, <1>8, <1>9, <1>10, JCrash
<1> QED
  BY <1>5, <1>11 DEF FileInv

LEMMA InitF == Init => FileInv /\ J!JInit
<1> SUFFICES ASSUME Init PROVE FileInv /\ J!JInit
  OBVIOUS
<1>1. /\ file = <<>> /\ bufs = <<>> /\ accepted = 0 /\ promised = {} /\ BInv
  BY InitB DEF Init
<1>2. PICK B : B = bufs
  OBVIOUS
<1>3. Queue(B) = <<>>
  <2>1. [g \in DOMAIN B |-> Waits(B[g])] = <<>>
    BY <1>1, <1>2
  <2> QED
    BY <2>1, FlattenEmpty DEF Queue
<1>4. Holds(B, accepted, <<>>, <<>>, 1)
  <2>1. DOMAIN B = {} /\ Len(B) = 0
    BY <1>1, <1>2
  <2>2. <<>> \in Seq(1..accepted) /\ <<>> \o <<>> = <<>> /\ Distinct(<<>>)
    BY DEF Distinct
  <2> QED
    BY <1>3, <2>1, <2>2 DEF Holds
<1>5. File(<<>>, <<>>, 1)
  BY <1>1, <1>2, <1>4 DEF File
<1>6. PICK t, s : t = Queue(bufs) /\ s = Stuck(bufs)
  OBVIOUS
<1>7. t = <<>> /\ s = FALSE
  BY <1>1, <1>2, <1>3, <1>6 DEF Stuck
<1>8. Sees(<<>>, t, Len(<<>>), s)
  BY <1>1, <1>5, <1>6, FileSees
<1>9. J!JInit
  BY <1>1, <1>7, <1>8 DEF Sees, J!JInit
<1> QED
  BY <1>5, <1>9 DEF FileInv

LEMMA StutterF ==
  ASSUME BInv, BInv', NEW h, NEW w, NEW f, File(h, w, f), UNCHANGED vars
  PROVE  FileInv' /\ Carried
<1>1. Alike(bufs, bufs', accepted, h, w, f)
  BY DEF File, Alike, vars
<1> QED
  BY <1>1, QuietStep DEF vars

LEMMA NextF ==
  ASSUME ~RewriteEarly, "torn" \notin Faults, BInv, BInv', FileInv, [Next]_vars
  PROVE  FileInv' /\ Carried
<1>1. PICK h, w, f : File(h, w, f)
  BY DEF FileInv
<1>2. CASE AppendRecord
  BY <1>1, <1>2, AppendRecordF
<1>3. CASE RewriteCall
  BY <1>1, <1>3, RewriteCallF
<1>4. CASE Acquire
  BY <1>1, <1>4, AcquireF
<1>5. CASE Release
  BY <1>1, <1>5, ReleaseF
<1>6. ASSUME NEW k \in Callers, FlushCall(k) PROVE FileInv' /\ Carried
  BY <1>1, <1>6, FlushCallF
<1>7. ASSUME NEW k \in Callers, ReadCall(k) PROVE FileInv' /\ Carried
  BY <1>1, <1>7, ReadCallF
<1>8. CASE Crash
  BY <1>1, <1>8, CrashF
<1>9. ASSUME NEW g \in DOMAIN bufs, Work(g) PROVE FileInv' /\ Carried
  <2>1. CASE Microtask(g)
    BY <1>1, <2>1, MicrotaskF
  <2>2. CASE DrainStarts(g)
    BY <1>1, <2>2, DrainStartsF
  <2>3. CASE RewriteStarts(g)
    BY <1>1, <2>3, RewriteStartsF
  <2>4. CASE Finish(g)
    BY <1>1, <2>4, FinishF
  <2>5. CASE AppendEnds(g)
    BY <1>1, <2>5, AppendEndsF
  <2>6. CASE AppendFails(g)
    BY <1>1, <2>6, AppendFailsF
  <2>7. CASE RewriteEnds(g) \/ RewriteFails(g)
    BY <1>1, <2>7, RewriteDone
  <2> QED
    BY <1>9, <2>1, <2>2, <2>3, <2>4, <2>5, <2>6, <2>7 DEF Work
<1>10. CASE UNCHANGED vars
  BY <1>1, <1>10, StutterF
<1> QED
  BY <1>2, <1>3, <1>4, <1>5, <1>6, <1>7, <1>8, <1>9, <1>10 DEF Next, Clients

(* The file is the history and then the first of what waits, whatever       *)
(* buffers follow each other; every rewrite that waits carries the history; *)
(* whoever waits for a flush waits for what its buffer or the history holds. *)
THEOREM FileInvariant ==
  ASSUME ~RewriteEarly, "torn" \notin Faults
  PROVE  Spec => []FileInv
<1>1. Init => FileInv
  BY InitF
<1>2. BInv /\ BInv' /\ FileInv /\ [Next]_vars => FileInv'
  BY NextF
<1> QED
  BY <1>1, <1>2, BuffersInvariant, PTL DEF Spec

(* No record is lost or doubled between its acceptance and its line in the  *)
(* file, whatever rewrites, failures, crashes and buffers come between.     *)
THEOREM FileTheorem ==
  ASSUME ~RewriteEarly, "torn" \notin Faults
  PROVE  Spec => []FileIsHistoryAndTail
<1>1. BInv /\ FileInv => FileIsHistoryAndTail
  <2> SUFFICES ASSUME BInv, FileInv PROVE FileIsHistoryAndTail
    OBVIOUS
  <2>1. PICK h, w, f : File(h, w, f)
    BY DEF FileInv
  <2>2. PICK t, s : t = Queue(bufs) /\ s = Stuck(bufs)
    OBVIOUS
  <2>3. History = h /\ Waiting = t
    BY <2>1, <2>2, FileSees DEF Sees
  <2>4. /\ accepted \in Nat /\ bufs \in Seq(BufferSet(accepted)) /\ Holds(bufs, accepted, h, w, f)
        /\ h \in Seq(1..accepted) /\ w \in Seq(1..accepted) /\ t \in Seq(1..accepted) /\ file = h \o w
    BY <2>1, <2>2, InvFacts, QueueIn DEF File, Holds
  <2>5. Lines(file) = h \o w /\ IsPrefix(w, t)
    <3>1. Reads(accepted, h \o w, bufs, h, w)
      BY <2>4, HoldsReads
    <3>2. Only(h \o w, 1..accepted) = h \o w /\ IsPrefix(w, Queue(bufs))
      BY <3>1 DEF Reads
    <3> QED
      BY <2>2, <2>4, <3>2 DEF Lines
  <2> DEFINE T == 1..accepted
  <2>6. h \in Seq(T) /\ w \in Seq(T) /\ t \in Seq(T)
    BY <2>4
  <2> HIDE DEF T
  <2>9. IsPrefix(h \o w, h \o t)
    BY <2>5, <2>6, PrefixBehind
  <2> QED
    BY <2>3, <2>5, <2>9 DEF FileIsHistoryAndTail
<1> QED
  BY <1>1, BuffersInvariant, FileInvariant, PTL

(* What a flush or read reported as durable is in the file, and stays there. *)
THEOREM PromisedIsInFile ==
  ASSUME ~RewriteEarly, "torn" \notin Faults
  PROVE  Spec => [](promised \subseteq Range(file))
<1>1. FileInv /\ BInv => promised \subseteq Range(file)
  <2> SUFFICES ASSUME FileInv, BInv PROVE promised \subseteq Range(file)
    OBVIOUS
  <2>1. PICK h, w, f : File(h, w, f)
    BY DEF FileInv
  <2>2. h \in Seq(1..accepted) /\ w \in Seq(1..accepted)
    BY <2>1 DEF File, Holds
  <2> QED
    BY <2>1, <2>2, RangeConcatenation DEF File
<1> QED
  BY <1>1, BuffersInvariant, FileInvariant, PTL

(* The log, with its buffers, flush promises and file, is a Journal: every  *)
(* step accepts, lands, confirms, promises, replaces, abandons or crashes   *)
(* as the journal may, or is none of its business.                          *)
THEOREM LogImplementsJournal ==
  ASSUME ~RewriteEarly, "torn" \notin Faults
  PROVE  Spec => KeepsJournal
<1>1. Init => J!JInit
  BY InitF
<1>2. BInv /\ BInv' /\ FileInv /\ [Next]_vars => [J!JNext]_(J!journalVars)
  BY NextF DEF Carried
<1> QED
  BY <1>1, <1>2, BuffersInvariant, FileInvariant, PTL DEF Spec, KeepsJournal, J!JSpec
=============================================================================
