------------------------------ MODULE KvData ------------------------------
(***************************************************************************)
(* What a MiniDb stores.  A value is named by the call that wrote it, so   *)
(* the contents of a database are a function from keys to calls.           *)
(***************************************************************************)
EXTENDS Naturals, Sequences, FiniteSetsExt

CONSTANTS
  Keys,
  MaxCalls   \* bound: write calls made over the lifetime of the directory

ASSUME KvAssumption == MaxCalls \in Nat

Calls == 1..MaxCalls
Absent == 0
Effects == [Keys -> {"keep", "set", "del"}]   \* of set(), del() or batch()
Contents == [Keys -> Calls \cup {Absent}]
Empty == [k \in Keys |-> Absent]
Nothing == [k \in Keys |-> "keep"]

Touched(e) == {k \in Keys : e[k] # "keep"}

(* The places in a log whose calls touch k, and what such a call leaves.    *)
Writers(log, effectOf, k) == {i \in DOMAIN log : effectOf[log[i]][k] # "keep"}
Written(effectOf, c, k) == IF effectOf[c][k] = "set" THEN c ELSE Absent

(* What the calls of a log make of contents: last writer wins.              *)
Replay(contents, log, effectOf) ==
  [k \in Keys |->
     IF Writers(log, effectOf, k) = {} THEN contents[k]
     ELSE Written(effectOf, log[Max(Writers(log, effectOf, k))], k)]
=============================================================================
