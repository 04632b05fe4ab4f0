----------------------------- MODULE DurableKv -----------------------------
(***************************************************************************)
(* What a MiniDb promises its callers, files and compactions aside: writes *)
(* take effect one after the other; a write is acknowledged only once no   *)
(* crash can undo it; a crash undoes the youngest of the others, never one *)
(* in the middle and never half a batch.                                   *)
(***************************************************************************)
EXTENDS KvData

VARIABLES
  safe,     \* contents that no crash can undo
  tail,     \* the calls in effect since, oldest first
  effect,   \* what each call writes
  calls     \* "idle", "called", "written" (in effect), "acked", "lost" (the process died)

kvVars == <<safe, tail, effect, calls>>

View == Replay(safe, tail, effect)

KvInit ==
  /\ safe = Empty
  /\ tail = <<>>
  /\ effect = [c \in Calls |-> Nothing]
  /\ calls = [c \in Calls |-> "idle"]

Call(c, e) ==
  /\ calls[c] = "idle"
  /\ calls' = [calls EXCEPT ![c] = "called"]
  /\ effect' = [effect EXCEPT ![c] = e]
  /\ UNCHANGED <<safe, tail>>

Write(c) ==
  /\ calls[c] = "called"
  /\ calls' = [calls EXCEPT ![c] = "written"]
  /\ tail' = Append(tail, c)
  /\ UNCHANGED <<safe, effect>>

Persist(n) ==
  /\ safe' = Replay(safe, SubSeq(tail, 1, n), effect)
  /\ tail' = SubSeq(tail, n + 1, Len(tail))
  /\ UNCHANGED <<effect, calls>>

(* A delete that found nothing is acknowledged without having been written. *)
(* What it saw may be the work of a delete that is not in effect yet.       *)
FindsNothing(c) ==
  \A k \in Touched(effect[c]) :
    /\ effect[c][k] = "del"
    /\ \/ View[k] = Absent
       \/ \E d \in Calls \ {c} : calls[d] = "called" /\ effect[d][k] = "del"

Ack(S) ==
  /\ \A c \in S :
       \/ calls[c] = "written" /\ \A i \in DOMAIN tail : tail[i] # c
       \/ calls[c] = "called" /\ FindsNothing(c)
  /\ calls' = [c \in Calls |-> IF c \in S THEN "acked" ELSE calls[c]]
  /\ UNCHANGED <<safe, tail, effect>>

CrashKeeping(n) ==
  /\ tail' = SubSeq(tail, 1, n)
  /\ calls' = [c \in Calls |-> IF calls[c] \in {"called", "written"} THEN "lost" ELSE calls[c]]
  /\ UNCHANGED <<safe, effect>>

KvNext ==
  \/ \E c \in Calls, e \in Effects : Call(c, e)
  \/ \E c \in Calls : Write(c)
  \/ \E n \in 1..Len(tail) : Persist(n)
  \/ \E S \in SUBSET Calls : Ack(S)
  \/ \E n \in 0..Len(tail) : CrashKeeping(n)

KvSpec == KvInit /\ [][KvNext]_kvVars
=============================================================================
