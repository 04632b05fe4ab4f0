------------------------------ MODULE Journal ------------------------------
(***************************************************************************)
(* What an append log promises its callers, buffers and files aside.       *)
(* Accepted records wait in the order of their acceptance; a prefix of     *)
(* them may already be on disk without anybody knowing; they enter the     *)
(* history in order, each once.  A replacement swaps the history and puts  *)
(* every waiting record behind it.  A failure nobody can judge stops the   *)
(* log until a replacement succeeds or its buffer ends.  A flush may       *)
(* promise only what the history holds, and the history keeps it.          *)
(***************************************************************************)
EXTENDS Integers, Sequences, Functions

CONSTANTS Records

VARIABLES
  history,   \* records known to be durable
  tail,      \* records accepted and not yet known to be durable, oldest first
  landed,    \* how many of the tail are on disk already
  sticky,    \* an append or a replacement failed: nothing may be retried
  promised   \* records some flush reported as durable

journalVars == <<history, tail, landed, sticky, promised>>

JInit ==
  /\ history = <<>>
  /\ tail = <<>>
  /\ landed = 0
  /\ sticky = FALSE
  /\ promised = {}

Accept(r) ==
  /\ r \notin Range(history) \cup Range(tail)
  /\ tail' = Append(tail, r)
  /\ UNCHANGED <<history, landed, sticky, promised>>

(* Writes reach the disk in order; how they ended may be unknown.           *)
Land ==
  /\ \/ ~sticky /\ sticky' \in BOOLEAN /\ landed' \in landed..Len(tail)
     \/ sticky /\ UNCHANGED <<sticky, landed>>
  /\ UNCHANGED <<history, tail, promised>>

Confirm(n) ==
  /\ ~sticky
  /\ landed <= n /\ n <= Len(tail)
  /\ history' = history \o SubSeq(tail, 1, n)
  /\ tail' = SubSeq(tail, n + 1, Len(tail))
  /\ landed' = 0
  /\ UNCHANGED <<sticky, promised>>

Promise(S) ==
  /\ S \subseteq Range(history)
  /\ promised' = promised \cup S
  /\ UNCHANGED <<history, tail, landed, sticky>>

(* The new content, then everything that waits: also what had landed in the *)
(* replaced file.  The outcome may stay unknown.                            *)
Replace(recs) ==
  /\ history' = recs
  /\ landed' = 0
  /\ sticky' \in BOOLEAN
  /\ UNCHANGED <<tail, promised>>

(* A process or a buffer that failed ends: the landed part stays, the rest  *)
(* of what the ended buffers held is gone.                                  *)
Abandon(n) ==
  /\ landed <= n /\ n <= Len(tail)
  /\ history' = history \o SubSeq(tail, 1, landed)
  /\ tail' = SubSeq(tail, n + 1, Len(tail))
  /\ landed' = 0
  /\ sticky' = FALSE
  /\ UNCHANGED promised

Crash ==
  /\ \E n \in 0..Len(tail) : history' = history \o SubSeq(tail, 1, n)
  /\ tail' = <<>>
  /\ landed' = 0
  /\ sticky' = FALSE
  /\ UNCHANGED promised

JNext ==
  \/ \E r \in Records : Accept(r)
  \/ Land
  \/ \E n \in 1..Len(tail) : Confirm(n)
  \/ \E S \in SUBSET Range(history) : Promise(S)
  \/ Replace(history)
  \/ \E n \in 0..Len(tail) : Abandon(n)
  \/ Crash

JSpec == JInit /\ [][JNext]_journalVars
=============================================================================
