--------------------------- MODULE AgentLoopProofs ---------------------------
(***************************************************************************)
(* The turn loop is right for any number of requests, steps, retries and   *)
(* restarts.  Turns run one at a time and in order, ids are never given    *)
(* twice, and a cancelled turn begins no step (IInv); no request is lost   *)
(* or queued twice, none drives a step once withdrawn, a turn that ended   *)
(* leaves no step alive, and the results of tools reach the model (QInv).  *)
(***************************************************************************)
EXTENDS AgentLoop, SequenceFacts, WellFoundedInduction

-----------------------------------------------------------------------------
(* The inductive invariant. *)

Used == {i \in Requests : req[i].kind # "none"}

(* No id is handed out beyond this: each restart and each request adds to it. *)
IdBound == crashes * MaxRequests + Cardinality(Used)

ReqType == [Requests -> [kind: Kinds \cup {"none"}, state: {"pending", "materialized", "aborted"}]]

Types ==
  /\ req \in ReqType
  /\ turn \in [TurnIds -> {"none", "queued", "running"} \cup Enders]
  /\ pendingTurns \in Seq(TurnIds) /\ active \in TurnIds \cup {NoTurn}
  /\ nextTurnId \in Nat /\ reserved \in Nat /\ crashes \in 0..MaxCrashes
  /\ history \subseteq TurnIds

(* runTurn stands somewhere exactly while a turn is active. *)
Runs ==
  /\ pc \in {"idle", "pump"} <=> active = NoTurn
  /\ pc = "returned" => result \in Enders

(* The waiting turns, oldest id first, all behind the active one. *)
Waits ==
  /\ \A t \in TurnIds : turn[t] = "running" <=> t = active
  /\ \A t \in TurnIds : turn[t] = "queued" <=> \E n \in DOMAIN pendingTurns : pendingTurns[n] = t
  /\ \A m, n \in DOMAIN pendingTurns : m < n => pendingTurns[m] < pendingTurns[n]
  /\ \A n \in DOMAIN pendingTurns : active < pendingTurns[n]

(* The two counters: ids below the first were used or skipped, ids from the  *)
(* larger one on are free, and there are enough of them.                     *)
Ids ==
  /\ \A n \in DOMAIN pendingTurns : nextTurnId <= pendingTurns[n] /\ pendingTurns[n] < reserved
  /\ active < reserved
  /\ \A h \in history : h < nextTurnId
  /\ nextTurnId <= IdBound /\ reserved <= IdBound

IInv == Types /\ Runs /\ Waits /\ Ids

-----------------------------------------------------------------------------
(* Numbers. *)

(* A set of numbers that is not empty has a least member.                   *)
LEMMA LeastExists ==
  ASSUME NEW S \in SUBSET Nat, S # {}
  PROVE  \E i \in S : \A j \in S : i <= j
<1>1. PICK i \in S : \A j \in S : <<j, i>> \notin OpToRel(<, Nat)
  BY NatLessThanWellFounded, WFMin
<1>2. ASSUME NEW j \in S, j < i PROVE FALSE
  <2> DEFINE p == <<j, i>>
  <2>1. p \in Nat \X Nat /\ p[1] = j /\ p[2] = i
    BY <1>1
  <2>2. p[1] < p[2]
    BY <1>2, <2>1
  <2>3. p \in OpToRel(<, Nat)
    BY <2>1, <2>2, Zenon DEF OpToRel
  <2> QED
    BY <1>1, <2>3
<1>3. \A j \in S : i <= j
  <2> SUFFICES ASSUME NEW j \in S PROVE i <= j
    OBVIOUS
  <2>1. i \in Nat /\ j \in Nat /\ ~(j < i)
    BY <1>1, <1>2
  <2> QED
    BY <2>1
<1> QED
  BY <1>1, <1>3

(* The least request that is not used exists.                               *)
LEMMA NextReqUnused ==
  ASSUME Unused # {}
  PROVE  NextReq \in Unused /\ NextReq \in Requests
<1>1. Unused \in SUBSET Nat /\ Unused \subseteq Requests
  BY DEF Unused, Requests
<1>2. \E i \in Unused : \A j \in Unused : i <= j
  BY <1>1, LeastExists
<1> QED
  BY <1>1, <1>2 DEF NextReq

(* Restarts and requests bound the ids.                                     *)
LEMMA BoundIsNat ==
  ASSUME Types
  PROVE  /\ IsFiniteSet(Used) /\ Cardinality(Used) \in 0..MaxRequests
         /\ crashes * MaxRequests \in Nat /\ IdBound \in Nat
<1>1. IsFiniteSet(Requests) /\ Cardinality(Requests) = MaxRequests
  BY LoopAssumption, FS_Interval DEF Requests
<1>2. IsFiniteSet(Used) /\ Cardinality(Used) <= Cardinality(Requests)
  BY <1>1, FS_Subset DEF Used
<1>3. Cardinality(Used) \in Nat
  BY <1>2, FS_CardinalityType
<1>4. crashes \in Nat /\ MaxRequests \in Nat
  BY LoopAssumption DEF Types
<1>5. crashes * MaxRequests \in Nat
  BY <1>4
<1> QED
  BY <1>1, <1>2, <1>3, <1>4, <1>5 DEF IdBound

(* An id below the bound of a state with a request to spare is a turn id.   *)
LEMMA FreshIdIsTurnId ==
  ASSUME Types, NEW t \in Nat, t <= IdBound
  PROVE  t \in TurnIds
<1>1. /\ Cardinality(Used) \in 0..MaxRequests /\ crashes \in Nat
      /\ crashes <= MaxCrashes /\ MaxCrashes \in Nat /\ MaxRequests \in Nat
  BY BoundIsNat, LoopAssumption DEF Types
<1>2. \A c, d, m \in Nat : c <= d => c * m <= d * m
  OBVIOUS
<1>3. crashes * MaxRequests <= MaxCrashes * MaxRequests
  BY <1>1, <1>2
<1>4. (MaxCrashes + 1) * MaxRequests = MaxCrashes * MaxRequests + MaxRequests
  BY <1>1
<1>5. MaxCrashes * MaxRequests \in Nat /\ crashes * MaxRequests \in Nat
  BY <1>1
<1> QED
  BY <1>1, <1>3, <1>4, <1>5 DEF IdBound, TurnIds

-----------------------------------------------------------------------------
(* Steps that leave the turns alone. *)

(* Nothing about turns changes; requests may only be added or end.          *)
LEMMA TurnsUntouched ==
  ASSUME IInv, req' \in ReqType, \A i \in Requests : req[i].kind # "none" => req'[i].kind # "none",
         UNCHANGED <<turn, pendingTurns, active, nextTurnId, reserved, crashes, history>>,
         Runs'
  PROVE  IInv'
<1>1. Types'
  BY DEF IInv, Types
<1>2. Used \subseteq Used'
  BY DEF Used
<1>3. IsFiniteSet(Used') /\ Cardinality(Used') \in Nat
  <2>1. IsFiniteSet(Requests)
    BY LoopAssumption, FS_Interval DEF Requests
  <2>2. Used' \subseteq Requests
    BY DEF Used
  <2> QED
    BY <2>1, <2>2, FS_Subset, FS_CardinalityType
<1>4. Cardinality(Used) <= Cardinality(Used')
  BY <1>2, <1>3, FS_Subset
<1>5. IdBound <= IdBound' /\ IdBound' \in Nat /\ IdBound \in Nat
  <2>1. Cardinality(Used) \in Nat /\ crashes * MaxRequests \in Nat
    BY BoundIsNat DEF IInv
  <2> QED
    BY <1>3, <1>4, <2>1 DEF IdBound
<1>6. Ids'
  BY <1>1, <1>5 DEF IInv, Ids, Types
<1>7. Waits'
  BY DEF IInv, Waits
<1> QED
  BY <1>1, <1>6, <1>7 DEF IInv

(* Aborting requests keeps their kinds.                                     *)
LEMMA AbortReqsKeeps ==
  ASSUME req \in ReqType, NEW S
  PROVE  /\ AbortReqs(S) \in ReqType
         /\ \A i \in Requests : AbortReqs(S)[i].kind = req[i].kind
BY DEF ReqType, AbortReqs

(* The end of run() touches only the turn's requests.                       *)
LEMMA ReturnRunKeeps ==
  ASSUME IInv, NEW r \in Enders, ReturnRun(r), pc \notin {"idle", "pump"},
         UNCHANGED <<turn, pendingTurns, active, nextTurnId, reserved, crashes, history>>
  PROVE  IInv'
<1>1. pc' = "returned" /\ result' = r /\ \E S : req' = AbortReqs(S)
  BY DEF ReturnRun
<1>2. req' \in ReqType /\ \A i \in Requests : req'[i].kind = req[i].kind
  BY <1>1, AbortReqsKeeps DEF IInv, Types
<1>3. Runs'
  BY <1>1 DEF IInv, Runs
<1> QED
  BY <1>2, <1>3, TurnsUntouched

(* So does every other step of run().                                       *)
LEMMA RunMovesOn ==
  ASSUME IInv, UNCHANGED req, pc \notin {"idle", "pump"}, pc' \notin {"idle", "pump", "returned"},
         UNCHANGED <<turn, pendingTurns, active, nextTurnId, reserved, crashes, history>>
  PROVE  IInv'
<1>1. Runs'
  BY DEF IInv, Runs
<1>2. req' \in ReqType /\ \A i \in Requests : req'[i].kind = req[i].kind
  BY DEF IInv, Types
<1> QED
  BY <1>1, <1>2, TurnsUntouched

(* And what other code does to requests and steps.                          *)
LEMMA RequestsChange ==
  ASSUME IInv, req' \in ReqType, \A i \in Requests : req[i].kind # "none" => req'[i].kind # "none",
         UNCHANGED <<turn, pendingTurns, active, nextTurnId, reserved, crashes, history, pc, result>>
  PROVE  IInv'
BY TurnsUntouched DEF IInv, Runs

-----------------------------------------------------------------------------
(* enqueue(). *)

(* Creating a request adds one to the used ones.                            *)
LEMMA CreateAddsOne ==
  ASSUME Types, Unused # {}, NEW k \in Kinds, req' = Create(NextReq, k)
  PROVE  /\ req' \in ReqType /\ \A i \in Requests : req[i].kind # "none" => req'[i].kind # "none"
         /\ Cardinality(Used') = Cardinality(Used) + 1
<1>1. NextReq \in Requests /\ req[NextReq].kind = "none"
  BY NextReqUnused DEF Unused
<1>2. k # "none"
  BY DEF Kinds
<1>3. req' = [req EXCEPT ![NextReq] = [kind |-> k, state |-> "pending"]]
  BY DEF Create
<1>4. req' \in ReqType
  BY <1>1, <1>3 DEF Types, ReqType
<1>5. Used' = Used \cup {NextReq} /\ NextReq \notin Used
  BY <1>1, <1>2, <1>3 DEF Used, Types, ReqType
<1>6. Cardinality(Used') = Cardinality(Used) + 1
  BY <1>5, BoundIsNat, FS_AddElement
<1> QED
  BY <1>1, <1>2, <1>3, <1>4, <1>6 DEF Types, ReqType

LEMMA JoinKeeps ==
  ASSUME IInv, Unused # {}, NEW k \in Kinds, JoinActive(k)
  PROVE  IInv'
<1>1. req' = Create(NextReq, k) /\ UNCHANGED <<turn, pendingTurns, active, nextTurnId, reserved, crashes, history, pc, result>>
  BY DEF JoinActive, turnVars, runVars, idVars, envVars
<1> QED
  BY <1>1, CreateAddsOne, RequestsChange DEF IInv

(* A new turn's id is beyond all that wait, and still one of TurnIds.       *)
LEMMA OpenKeeps ==
  ASSUME IInv, Unused # {}, NEW k \in Kinds, OpenTurn(k), Yielded
  PROVE  IInv'
<1> DEFINE t == reserveTurnId
<1>a. Types /\ Runs /\ Waits /\ Ids
  BY DEF IInv
<1>1. /\ req' = Create(NextReq, k)
      /\ turn' = [turn EXCEPT ![t] = "queued"] /\ pendingTurns' = Append(pendingTurns, t)
      /\ reserved' = t + 1 /\ pc' = (IF active = NoTurn THEN "pump" ELSE pc)
      /\ UNCHANGED <<active, nextTurnId, history, crashes, result>>
  BY DEF OpenTurn, envVars
<1>2. /\ req' \in ReqType /\ Cardinality(Used') = Cardinality(Used) + 1
  BY <1>1, <1>a, CreateAddsOne
<1>3. /\ IdBound \in Nat /\ Cardinality(Used) \in Nat /\ crashes * MaxRequests \in Nat
  BY <1>a, BoundIsNat
<1>4. t \in Nat /\ nextTurnId <= t /\ reserved <= t /\ t <= IdBound
  BY <1>a DEF Types, Ids, reserveTurnId, MaxOf
<1>5. t \in TurnIds
  BY <1>3, <1>4, <1>a, FreshIdIsTurnId
<1>6. IdBound' = IdBound + 1
  BY <1>1, <1>2, <1>3 DEF IdBound
<1> HIDE DEF t
<1>7. /\ pendingTurns' \in Seq(TurnIds) /\ Len(pendingTurns') = Len(pendingTurns) + 1
      /\ pendingTurns'[Len(pendingTurns) + 1] = t
      /\ \A n \in 1..Len(pendingTurns) : pendingTurns'[n] = pendingTurns[n]
  BY <1>1, <1>5, <1>a, AppendProperties DEF Types
<1>8. /\ DOMAIN pendingTurns = 1..Len(pendingTurns) /\ DOMAIN pendingTurns' = 1..(Len(pendingTurns) + 1)
      /\ Len(pendingTurns) \in Nat /\ \A n \in DOMAIN pendingTurns : pendingTurns[n] \in TurnIds
  BY <1>7, <1>a DEF Types
<1>9. TurnIds \subseteq Nat /\ active \in Int
  BY <1>a DEF Types, TurnIds, NoTurn
<1>10. Types'
  BY <1>1, <1>2, <1>4, <1>5, <1>7, <1>a DEF Types
<1>11. Runs'
  BY <1>1, <1>a DEF Runs, Yielded
<1>12. Ids'
  <2>1. \A n \in DOMAIN pendingTurns' : nextTurnId <= pendingTurns'[n] /\ pendingTurns'[n] < t + 1
    <3>1. nextTurnId \in Nat /\ reserved \in Nat
      BY <1>a DEF Types
    <3>2. ASSUME NEW n \in DOMAIN pendingTurns
          PROVE  nextTurnId <= pendingTurns'[n] /\ pendingTurns'[n] < t + 1
      <4>1. /\ pendingTurns'[n] = pendingTurns[n] /\ pendingTurns[n] \in Nat
            /\ nextTurnId <= pendingTurns[n] /\ pendingTurns[n] < reserved
        BY <1>7, <1>8, <1>9, <1>a DEF Ids
      <4> QED
        BY <1>4, <3>1, <4>1
    <3> QED
      BY <1>4, <1>7, <1>8, <3>2
  <2>2. active < t + 1 /\ nextTurnId <= IdBound + 1 /\ t + 1 <= IdBound + 1
    <3>1. active \in Int /\ reserved \in Nat /\ active < reserved /\ nextTurnId \in Nat /\ nextTurnId <= IdBound
      BY <1>9, <1>a DEF Ids, Types
    <3> QED
      BY <1>3, <1>4, <3>1
  <2> QED
    BY <1>1, <1>6, <2>1, <2>2, <1>a DEF Ids
<1>13. Waits'
  <2>1. \A n \in DOMAIN pendingTurns : pendingTurns[n] < t /\ active < t
    <3>1. active \in Int /\ reserved \in Nat /\ active < reserved /\ t \in Nat /\ reserved <= t
      BY <1>4, <1>9, <1>a DEF Ids, Types
    <3>2. \A n \in DOMAIN pendingTurns : pendingTurns[n] \in Nat /\ pendingTurns[n] < reserved
      BY <1>8, <1>9, <1>a DEF Ids
    <3> QED
      BY <3>1, <3>2
  <2>2. active # t
    BY <1>4, <1>9, <1>a DEF Ids, Types
  <2>3. \A u \in TurnIds : turn'[u] = "running" <=> u = active'
    BY <1>1, <1>5, <2>2, <1>a DEF Waits, Types
  <2>4. \A u \in TurnIds : turn'[u] = "queued" <=> u = t \/ turn[u] = "queued"
    BY <1>1, <1>5, <1>a DEF Types
  <2>5. \A u \in TurnIds : turn'[u] = "queued" <=> \E n \in DOMAIN pendingTurns' : pendingTurns'[n] = u
    BY <2>4, <1>7, <1>8, <1>a DEF Waits
  <2>6. \A m, n \in DOMAIN pendingTurns' : m < n => pendingTurns'[m] < pendingTurns'[n]
    BY <2>1, <1>7, <1>8, <1>a DEF Waits
  <2>7. \A n \in DOMAIN pendingTurns' : active' < pendingTurns'[n]
    BY <1>1, <2>1, <1>4, <1>7, <1>8, <1>9, <1>a DEF Waits, Ids, Types
  <2> QED
    BY <2>3, <2>5, <2>6, <2>7 DEF Waits
<1> QED
  BY <1>10, <1>11, <1>12, <1>13 DEF IInv

LEMMA EnqueueKeeps ==
  ASSUME IInv, Enqueue
  PROVE  IInv'
<1>1. Enqueueable /\ Yielded
  BY DEF Enqueue, EnqueuePrompt, EnqueueInject, EnqueueSteer, EnqueueNext, Enqueueable
<1>2. Unused # {}
  <2>1. Cardinality({}) = 0
    BY FS_EmptySet
  <2>2. Cardinality(Unused) > 0
    <3>1. IsFiniteSet(Requests) /\ Unused \subseteq Requests
      BY LoopAssumption, FS_Interval DEF Requests, Unused
    <3>2. Cardinality(Unused) \in Nat
      BY <3>1, FS_Subset, FS_CardinalityType
    <3> QED
      BY <1>1, <3>2 DEF Enqueueable
  <2> QED
    BY <2>1, <2>2
<1>3. {"prompt", "inject", "steer", "next"} \subseteq Kinds
  BY DEF Kinds
<1>4. ASSUME NEW k \in Kinds, OpenTurn(k) \/ JoinActive(k) PROVE IInv'
  BY <1>1, <1>2, <1>4, OpenKeeps, JoinKeeps
<1>5. CASE /\ req' = Create(NextReq, "next")
           /\ UNCHANGED <<turn, pendingTurns, active, nextTurnId, reserved, crashes, history, pc, result>>
  BY <1>2, <1>3, <1>5, CreateAddsOne, RequestsChange DEF IInv
<1> QED
  BY <1>3, <1>4, <1>5
     DEF Enqueue, EnqueuePrompt, EnqueueInject, EnqueueSteer, EnqueueNext,
         turnVars, runVars, idVars, envVars

-----------------------------------------------------------------------------
(* The steps of the loop itself. *)

(* The oldest waiting turn becomes the active one.                          *)
LEMMA StartTurnKeeps ==
  ASSUME IInv, StartTurn
  PROVE  IInv'
<1> DEFINE t == Head(pendingTurns)
<1>a. Types /\ Runs /\ Waits /\ Ids
  BY DEF IInv
<1>1. /\ pc = "pump" /\ pendingTurns # <<>> /\ pendingTurns' = Tail(pendingTurns) /\ active' = t
      /\ turn' = [turn EXCEPT ![t] = "running"] /\ nextTurnId' = nextTurnId + 1 /\ pc' = "begin"
      /\ UNCHANGED <<req, reserved, history, crashes>>
  BY DEF StartTurn, reqVars, envVars
<1>2. active = NoTurn
  BY <1>1, <1>a DEF Runs
<1>3. /\ 1 \in DOMAIN pendingTurns /\ t = pendingTurns[1] /\ t \in TurnIds
      /\ Tail(pendingTurns) \in Seq(TurnIds)
      /\ \A n \in DOMAIN Tail(pendingTurns) :
           n \in Nat /\ n + 1 \in DOMAIN pendingTurns /\ 1 < n + 1 /\ Tail(pendingTurns)[n] = pendingTurns[n + 1]
      /\ \A n \in DOMAIN pendingTurns : n # 1 => n - 1 \in DOMAIN Tail(pendingTurns)
      /\ \A n \in DOMAIN pendingTurns : n \in Nat /\ pendingTurns[n] \in TurnIds
  BY <1>1, <1>a DEF Types
<1> HIDE DEF t
<1>4. TurnIds \subseteq Nat /\ NoTurn \notin TurnIds
  BY DEF TurnIds, NoTurn
<1>5. \A n \in DOMAIN pendingTurns' : t < pendingTurns'[n] /\ pendingTurns'[n] \in TurnIds
  BY <1>1, <1>3, <1>a DEF Waits
<1>6. turn[t] = "queued" /\ nextTurnId <= t /\ t < reserved /\ t \in Nat /\ nextTurnId \in Nat /\ reserved \in Nat
  BY <1>3, <1>4, <1>a DEF Waits, Ids, Types
<1>7. Types'
  BY <1>1, <1>3, <1>a DEF Types
<1>8. Runs'
  BY <1>1, <1>3, <1>4 DEF Runs
<1>9. Ids'
  <2>1. \A n \in DOMAIN pendingTurns' : nextTurnId' <= pendingTurns'[n] /\ pendingTurns'[n] < reserved'
    <3> SUFFICES ASSUME NEW n \in DOMAIN pendingTurns'
                 PROVE  nextTurnId' <= pendingTurns'[n] /\ pendingTurns'[n] < reserved'
      OBVIOUS
    <3>1. t < pendingTurns'[n] /\ pendingTurns'[n] \in Nat
      BY <1>4, <1>5
    <3>2. pendingTurns'[n] < reserved
      BY <1>1, <1>3, <1>a DEF Ids
    <3> QED
      BY <1>1, <1>6, <3>1, <3>2
  <2>2. IdBound' = IdBound /\ IdBound \in Nat
    BY <1>1, <1>a, BoundIsNat DEF IdBound, Used
  <2>3. reserved <= IdBound
    BY <1>a DEF Ids
  <2>4. nextTurnId' <= IdBound
    BY <1>1, <1>6, <2>2, <2>3
  <2>5. \A h \in history : h < nextTurnId'
    <3>1. \A h \in history : h < nextTurnId /\ h \in Nat
      BY <1>4, <1>a DEF Ids, Types
    <3> QED
      BY <1>1, <1>6, <3>1
  <2> QED
    BY <1>1, <1>6, <2>1, <2>2, <2>3, <2>4, <2>5 DEF Ids
<1>10. Waits'
  <2>1. \A u \in TurnIds : turn'[u] = IF u = t THEN "running" ELSE turn[u]
    BY <1>1, <1>a DEF Types
  <2>2. \A u \in TurnIds : turn'[u] = "running" <=> u = active'
    BY <1>1, <1>2, <1>4, <2>1, <1>a DEF Waits
  <2>3. \A n \in DOMAIN pendingTurns' : pendingTurns'[n] # t
    BY <1>4, <1>5, <1>6
  <2>4. \A u \in TurnIds : (\E n \in DOMAIN pendingTurns' : pendingTurns'[n] = u)
                             <=> u # t /\ \E n \in DOMAIN pendingTurns : pendingTurns[n] = u
    <3>1. ASSUME NEW n \in DOMAIN pendingTurns, pendingTurns[n] # t
          PROVE  \E k \in DOMAIN pendingTurns' : pendingTurns'[k] = pendingTurns[n]
      <4>1. n # 1 /\ n \in Nat
        BY <1>3, <3>1
      <4>2. n - 1 \in DOMAIN pendingTurns' /\ (n - 1) + 1 = n
        BY <1>1, <1>3, <4>1
      <4> QED
        BY <1>1, <1>3, <4>2
    <3>2. \A n \in DOMAIN pendingTurns' : \E k \in DOMAIN pendingTurns : pendingTurns[k] = pendingTurns'[n]
      BY <1>1, <1>3
    <3> QED
      BY <2>3, <3>1, <3>2
  <2>5. \A u \in TurnIds : turn'[u] = "queued" <=> \E n \in DOMAIN pendingTurns' : pendingTurns'[n] = u
    BY <2>1, <2>4, <1>a DEF Waits
  <2>6. \A m, n \in DOMAIN pendingTurns' : m < n => pendingTurns'[m] < pendingTurns'[n]
    BY <1>1, <1>3, <1>a DEF Waits
  <2> QED
    BY <1>1, <1>5, <2>2, <2>5, <2>6 DEF Waits
<1> QED
  BY <1>7, <1>8, <1>9, <1>10 DEF IInv

(* step.begin reaches the wire: the counter goes past the turn's id, which   *)
(* is still before those that wait.                                          *)
LEMMA StepBeginsKeeps ==
  ASSUME IInv, StepBegins
  PROVE  IInv'
<1>a. Types /\ Runs /\ Waits /\ Ids
  BY DEF IInv
<1>1. /\ pc = "hooks" /\ pc' = "llm" /\ history' = history \cup {active}
      /\ nextTurnId' = MaxOf(nextTurnId, active + 1)
      /\ UNCHANGED <<req, turn, pendingTurns, active, reserved, crashes>>
  BY DEF StepBegins, reqVars, turnVars, envVars, Counted
<1>2. active \in TurnIds /\ TurnIds \subseteq Nat
  BY <1>1, <1>a DEF Runs, Types, TurnIds
<1>3. /\ nextTurnId' \in Nat /\ nextTurnId <= nextTurnId' /\ active < nextTurnId'
      /\ nextTurnId' = nextTurnId \/ nextTurnId' = active + 1
  BY <1>1, <1>2, <1>a DEF MaxOf, Types
<1>4. Types'
  BY <1>1, <1>2, <1>3, <1>a DEF Types
<1>5. Runs'
  BY <1>1, <1>a DEF Runs
<1>6. Waits'
  BY <1>1, <1>a DEF Waits
<1>7. IdBound' = IdBound /\ IdBound \in Nat
  BY <1>1, <1>a, BoundIsNat DEF IdBound, Used
<1>8. Ids'
  <2>1. nextTurnId \in Nat /\ reserved \in Nat /\ active \in Nat
    BY <1>2, <1>a DEF Types
  <2>2. \A n \in DOMAIN pendingTurns : pendingTurns[n] \in Nat
    BY <1>2, <1>a DEF Types
  <2>3. \A n \in DOMAIN pendingTurns : nextTurnId' <= pendingTurns[n] /\ pendingTurns[n] < reserved
    BY <1>3, <2>1, <2>2, <1>a DEF Waits, Ids
  <2>4. nextTurnId' <= IdBound
    BY <1>3, <1>7, <2>1, <1>a DEF Ids
  <2>5. \A h \in history : h < nextTurnId'
    <3>1. \A h \in history : h \in Nat /\ h < nextTurnId
      BY <1>2, <1>a DEF Types, Ids
    <3> QED
      BY <1>3, <2>1, <3>1
  <2> QED
    BY <1>1, <1>3, <1>7, <2>3, <2>4, <2>5, <1>a DEF Ids
<1> QED
  BY <1>4, <1>5, <1>6, <1>8 DEF IInv

(* The active turn is released, with a result.                              *)
LEMMA ReleaseKeeps ==
  ASSUME IInv, ReleaseActiveTurn
  PROVE  IInv'
<1>a. Types /\ Runs /\ Waits /\ Ids
  BY DEF IInv
<1>1. /\ pc = "returned" /\ pc' = "pump" /\ active' = NoTurn
      /\ turn' = [turn EXCEPT ![active] = result] /\ (\E S : req' = AbortReqs(S))
      /\ UNCHANGED <<pendingTurns, nextTurnId, reserved, history, crashes>>
  BY DEF ReleaseActiveTurn, idVars, envVars
<1>2. active \in TurnIds /\ result \in Enders /\ TurnIds \subseteq Nat /\ NoTurn \notin TurnIds
  BY <1>1, <1>a DEF Runs, Types, TurnIds, NoTurn
<1>3. req' \in ReqType /\ \A i \in Requests : req'[i].kind = req[i].kind
  BY <1>1, <1>a, AbortReqsKeeps DEF Types
<1>4. IdBound' = IdBound
  BY <1>1, <1>3 DEF IdBound, Used
<1>5. Types'
  BY <1>1, <1>2, <1>3, <1>a DEF Types
<1>6. Runs'
  BY <1>1 DEF Runs
<1>7. Waits'
  <2>1. \A u \in TurnIds : turn'[u] = IF u = active THEN result ELSE turn[u]
    BY <1>1, <1>a DEF Types
  <2>2. result # "running" /\ result # "queued"
    BY <1>2 DEF Enders
  <2>3. turn[active] = "running"
    BY <1>2, <1>a DEF Waits
  <2>4. \A n \in DOMAIN pendingTurns : active' < pendingTurns[n]
    <3>1. \A n \in DOMAIN pendingTurns : pendingTurns[n] \in Nat
      BY <1>2, <1>a DEF Types
    <3> QED
      BY <1>1, <3>1 DEF NoTurn
  <2> QED
    BY <1>1, <1>2, <2>1, <2>2, <2>3, <2>4, <1>a DEF Waits
<1>8. Ids'
  BY <1>1, <1>4, <1>a DEF Ids, Types, NoTurn
<1> QED
  BY <1>5, <1>6, <1>7, <1>8 DEF IInv

(* run(): every way on keeps to the active turn.                            *)
LEMMA BeginKeeps ==
  ASSUME IInv, Begin
  PROVE  IInv'
<1>1. CASE BeginReturns
  <2>1. \E r \in Enders : ReturnRun(r)
    BY <1>1 DEF BeginReturns, Enders
  <2>2. /\ pc \notin {"idle", "pump"}
        /\ UNCHANGED <<turn, pendingTurns, active, nextTurnId, reserved, crashes, history>>
    BY <1>1 DEF BeginReturns, turnVars, idVars, envVars
  <2> QED
    BY <2>1, <2>2, ReturnRunKeeps
<1>2. CASE BeginStep
  <2>1. /\ pc = "begin" /\ pc' = "hooks"
        /\ UNCHANGED <<turn, pendingTurns, active, nextTurnId, reserved, crashes, history>>
        /\ \E S : req' = [i \in Requests |-> IF i \in S /\ req[i].state = "pending"
                                             THEN [req[i] EXCEPT !.state = "materialized"] ELSE req[i]]
    BY <1>2 DEF BeginStep, turnVars, idVars, envVars
  <2>2. req' \in ReqType /\ \A i \in Requests : req'[i].kind = req[i].kind
    BY <2>1 DEF IInv, Types, ReqType
  <2>3. Runs'
    BY <2>1 DEF IInv, Runs
  <2> QED
    BY <2>1, <2>2, <2>3, TurnsUntouched
<1> QED
  BY <1>1, <1>2 DEF Begin

LEMMA StepProgressKeeps ==
  ASSUME IInv, StepProgress
  PROVE  IInv'
<1>1. CASE StepBegins
  BY <1>1, StepBeginsKeeps
<1>2. ASSUME NEW reason, NEW hooks, StepFinishes(reason, hooks) PROVE IInv'
  BY <1>2, RunMovesOn DEF StepFinishes, reqVars, turnVars, idVars, envVars
<1>3. CASE CompleteStep
  <2>1. /\ pc = "after"
        /\ UNCHANGED <<turn, pendingTurns, active, nextTurnId, reserved, crashes, history>>
    BY <1>3 DEF CompleteStep, turnVars, idVars, envVars
  <2>2. CASE \E r \in Enders : ReturnRun(r)
    BY <2>1, <2>2, ReturnRunKeeps
  <2>3. CASE pc' = "begin" /\ req' = req
    BY <2>1, <2>3, RunMovesOn
  <2>4. CASE pc' = "begin" /\ req' = Create(NextReq, "continuation")
    <3>1. req' \in ReqType /\ \A i \in Requests : req[i].kind # "none" => req'[i].kind # "none"
      BY <2>4 DEF IInv, Types, ReqType, Create, Kinds
    <3>2. Runs'
      BY <2>1, <2>4 DEF IInv, Runs
    <3> QED
      BY <2>1, <3>1, <3>2, TurnsUntouched
  <2>5. \/ \E r \in Enders : ReturnRun(r)
        \/ pc' = "begin" /\ req' = req
        \/ pc' = "begin" /\ req' = Create(NextReq, "continuation")
    BY <1>3 DEF CompleteStep, Enders
  <2> QED
    BY <2>2, <2>3, <2>4, <2>5
<1>4. CASE StepAborts
  <2>1. /\ pc \in {"hooks", "llm", "after"}
        /\ UNCHANGED <<turn, pendingTurns, active, nextTurnId, reserved, crashes, history>>
    BY <1>4 DEF StepAborts, turnVars, idVars, envVars
  <2>2. ReturnRun("cancelled") \/ (pc' = "begin" /\ req' = req)
    BY <1>4 DEF StepAborts, CancellationOf
  <2> QED
    BY <2>1, <2>2, ReturnRunKeeps, RunMovesOn DEF Enders
<1>5. CASE StepFails
  BY <1>5, ReturnRunKeeps DEF StepFails, Enders, turnVars, idVars, envVars
<1>6. CASE StepFailsRetryably
  <2>1. /\ pc = "llm"
        /\ UNCHANGED <<turn, pendingTurns, active, nextTurnId, reserved, crashes, history>>
    BY <1>6 DEF StepFailsRetryably, turnVars, idVars, envVars
  <2>2. ReturnRun("failed") \/ (pc' = "recovering" /\ req' = req)
    BY <1>6 DEF StepFailsRetryably
  <2> QED
    BY <2>1, <2>2, ReturnRunKeeps, RunMovesOn DEF Enders
<1> QED
  BY <1>1, <1>2, <1>3, <1>4, <1>5, <1>6 DEF StepProgress

LEMMA RecoverKeeps ==
  ASSUME IInv, Recover
  PROVE  IInv'
<1>1. /\ pc = "recovering"
      /\ UNCHANGED <<turn, pendingTurns, active, nextTurnId, reserved, crashes, history>>
  BY DEF Recover, RecoverFails, Retry, turnVars, idVars, envVars
<1>2. (\E r \in Enders : ReturnRun(r)) \/ (pc' = "begin" /\ req' = req)
  BY DEF Recover, RecoverFails, Retry, Enders
<1> QED
  BY <1>1, <1>2, ReturnRunKeeps, RunMovesOn

-----------------------------------------------------------------------------
(* cancel(), dispose() and a restart. *)

(* Waiting turns leave, all at once or one of them.                         *)
LEMMA DropKeeps ==
  ASSUME IInv, NEW T \in SUBSET TurnIds, NEW rest \in Seq(TurnIds), DropQueuedTurns(T, rest),
         \A t \in TurnIds : (\E n \in DOMAIN rest : rest[n] = t)
                              <=> t \notin T /\ \E n \in DOMAIN pendingTurns : pendingTurns[n] = t,
         \A t \in T : \E n \in DOMAIN pendingTurns : pendingTurns[n] = t,
         \A m, n \in DOMAIN rest : m < n => rest[m] < rest[n],
         NEW S, req' = AbortReqs(S),
         UNCHANGED <<active, nextTurnId, reserved, crashes, history, pc, result>>
  PROVE  IInv'
<1>a. Types /\ Runs /\ Waits /\ Ids
  BY DEF IInv
<1>1. pendingTurns' = rest /\ turn' = [t \in TurnIds |-> IF t \in T THEN "cancelled" ELSE turn[t]]
  BY DEF DropQueuedTurns
<1>2. req' \in ReqType /\ \A i \in Requests : req'[i].kind = req[i].kind
  BY <1>a, AbortReqsKeeps DEF Types
<1>3. IdBound' = IdBound
  BY <1>2 DEF IdBound, Used
<1>4. \A n \in DOMAIN rest : \E k \in DOMAIN pendingTurns : pendingTurns[k] = rest[n]
  OBVIOUS
<1>5. Types'
  BY <1>1, <1>2, <1>a DEF Types, Enders
<1>6. Runs'
  BY <1>a DEF Runs
<1>7. Ids'
  BY <1>1, <1>3, <1>4, <1>a DEF Ids
<1>8. Waits'
  <2>1. \A t \in T : turn[t] = "queued" /\ t # active
    BY <1>a DEF Waits
  <2>2. \A t \in TurnIds : turn'[t] = "running" <=> t = active'
    BY <1>1, <2>1, <1>a DEF Waits
  <2>3. \A t \in TurnIds : turn'[t] = "queued" <=> \E n \in DOMAIN pendingTurns' : pendingTurns'[n] = t
    BY <1>1, <1>a DEF Waits
  <2>4. \A n \in DOMAIN pendingTurns' : active' < pendingTurns'[n]
    BY <1>1, <1>4, <1>a DEF Waits
  <2> QED
    BY <1>1, <2>2, <2>3, <2>4 DEF Waits
<1> QED
  BY <1>5, <1>6, <1>7, <1>8 DEF IInv

LEMMA CancelQueuedKeeps ==
  ASSUME IInv, NEW t \in TurnIds, CancelQueuedTurn(t)
  PROVE  IInv'
<1>a. Types /\ Waits
  BY DEF IInv
<1>1. PICK k \in DOMAIN pendingTurns :
        pendingTurns[k] = t /\ DropQueuedTurns({t}, RemoveAt(pendingTurns, k))
  BY DEF CancelQueuedTurn
<1>2. \E S : req' = AbortReqs(S)
  BY DEF CancelQueuedTurn
<1>3. UNCHANGED <<active, nextTurnId, reserved, crashes, history, pc, result>>
  BY DEF CancelQueuedTurn, runVars, idVars
<1> DEFINE rest == RemoveAt(pendingTurns, k)
<1>4. /\ pendingTurns \in Seq(TurnIds) /\ k \in 1..Len(pendingTurns)
      /\ \A n \in DOMAIN pendingTurns : n \in Nat /\ pendingTurns[n] \in Nat
  <2>1. TurnIds \subseteq Nat
    BY DEF TurnIds
  <2>2. pendingTurns \in Seq(TurnIds)
    BY <1>a DEF Types
  <2>3. DOMAIN pendingTurns = 1..Len(pendingTurns) /\ Len(pendingTurns) \in Nat
    BY <2>2
  <2>4. \A n \in DOMAIN pendingTurns : n \in Nat /\ pendingTurns[n] \in TurnIds
    BY <2>2
  <2>5. \A n \in DOMAIN pendingTurns : n \in Nat /\ pendingTurns[n] \in Nat
    BY <2>1, <2>4
  <2>6. k \in 1..Len(pendingTurns)
    BY <1>1, <2>3, Zenon
  <2> QED
    BY <2>2, <2>5, <2>6, Zenon
<1>5. Distinct(pendingTurns)
  <2>1. \A m, n \in DOMAIN pendingTurns : m < n => pendingTurns[m] < pendingTurns[n]
    BY <1>a DEF Waits
  <2> QED
    BY <1>4, <2>1 DEF Distinct
<1>6. /\ rest \in Seq(TurnIds)
      /\ \A u : (\E n \in DOMAIN rest : rest[n] = u) <=> u # t /\ \E n \in DOMAIN pendingTurns : pendingTurns[n] = u
  <2>1. /\ RemoveAt(pendingTurns, k) \in Seq(TurnIds) /\ Distinct(RemoveAt(pendingTurns, k))
        /\ \A u : (\E n \in DOMAIN RemoveAt(pendingTurns, k) : RemoveAt(pendingTurns, k)[n] = u)
                     <=> u # pendingTurns[k] /\ \E n \in DOMAIN pendingTurns : pendingTurns[n] = u
    BY <1>4, <1>5, RemoveAtFromDistinct
  <2> QED
    BY <1>1, <2>1, Zenon
<1>7. /\ Len(rest) = Len(pendingTurns) - 1
      /\ \A n \in 1..(Len(pendingTurns) - 1) : rest[n] = IF n < k THEN pendingTurns[n] ELSE pendingTurns[n + 1]
  BY <1>4, RemoveAtProperties
<1> HIDE DEF rest
<1>8. \A m, n \in DOMAIN rest : m < n => rest[m] < rest[n]
  <2> SUFFICES ASSUME NEW m \in DOMAIN rest, NEW n \in DOMAIN rest, m < n PROVE rest[m] < rest[n]
    OBVIOUS
  <2> DEFINE x == IF m < k THEN m ELSE m + 1
             y == IF n < k THEN n ELSE n + 1
  <2>1. m \in 1..(Len(pendingTurns) - 1) /\ n \in 1..(Len(pendingTurns) - 1)
    BY <1>4, <1>6, <1>7
  <2>2. rest[m] = pendingTurns[x] /\ rest[n] = pendingTurns[y]
    BY <1>7, <2>1
  <2>3. x \in DOMAIN pendingTurns /\ y \in DOMAIN pendingTurns /\ x < y
    BY <1>4, <2>1
  <2> QED
    BY <2>2, <2>3, <1>a DEF Waits
<1>9. DropQueuedTurns({t}, rest)
  BY <1>1 DEF rest
<1> QED
  <2>1. {t} \in SUBSET TurnIds
    OBVIOUS
  <2>2. PICK S : req' = AbortReqs(S)
    BY <1>2
  <2>3. \A u \in TurnIds : (\E n \in DOMAIN rest : rest[n] = u)
                               <=> u \notin {t} /\ \E n \in DOMAIN pendingTurns : pendingTurns[n] = u
    BY <1>6
  <2>4. \A u \in {t} : \E n \in DOMAIN pendingTurns : pendingTurns[n] = u
    BY <1>1
  <2> QED
    BY <1>3, <1>6, <1>8, <1>9, <2>1, <2>2, <2>3, <2>4, DropKeeps

LEMMA CancelKeeps ==
  ASSUME IInv, Cancel
  PROVE  IInv'
<1>1. CASE CancelActiveTurn
  BY <1>1, RequestsChange DEF CancelActiveTurn, reqVars, runVars, idVars, envVars, IInv, Types
<1>2. ASSUME NEW i \in Requests, CancelStep(i) \/ AbortStandalone(i) PROVE IInv'
  <2>1. /\ \E S : req' = AbortReqs(S)
        /\ UNCHANGED <<turn, pendingTurns, active, nextTurnId, reserved, crashes, history, pc, result>>
    BY <1>2 DEF CancelStep, AbortStandalone, turnVars, runVars, idVars, envVars
  <2>2. req' \in ReqType /\ \A j \in Requests : req'[j].kind = req[j].kind
    BY <2>1, AbortReqsKeeps DEF IInv, Types
  <2> QED
    BY <2>1, <2>2, RequestsChange
<1> QED
  BY <1>1, <1>2, CancelQueuedKeeps DEF Cancel

LEMMA DisposeKeeps ==
  ASSUME IInv, Dispose
  PROVE  IInv'
<1>1. /\ DropQueuedTurns(Range(pendingTurns), <<>>) /\ \E S : req' = AbortReqs(S)
      /\ UNCHANGED <<active, nextTurnId, reserved, crashes, history, pc, result>>
  BY DEF Dispose, runVars, idVars
<1>2. Range(pendingTurns) \in SUBSET TurnIds
  BY DEF IInv, Types, Range
<1>3. \A t : t \in Range(pendingTurns) <=> \E n \in DOMAIN pendingTurns : pendingTurns[n] = t
  BY DEF Range
<1>4. <<>> \in Seq(TurnIds) /\ DOMAIN <<>> = {}
  OBVIOUS
<1> QED
  BY <1>1, <1>2, <1>3, <1>4, DropKeeps

(* A restart forgets the turns, not the counter.                            *)
LEMMA CrashKeeps ==
  ASSUME IInv, Crash
  PROVE  IInv'
<1>a. Types /\ Ids
  BY DEF IInv
<1>1. /\ req' = NoReqs /\ turn' = NoTurns /\ pendingTurns' = <<>> /\ active' = NoTurn
      /\ pc' = "idle" /\ reserved' = 0 /\ crashes' = crashes + 1 /\ crashes < MaxCrashes
      /\ UNCHANGED <<nextTurnId, history>>
  BY DEF Crash
<1>2. Types'
  BY <1>1, <1>a, LoopAssumption DEF Types, NoReqs, NoTurns, ReqType
<1>3. Runs'
  BY <1>1 DEF Runs
<1>4. NoTurn \notin TurnIds
  BY DEF TurnIds, NoTurn
<1>5. Waits'
  BY <1>1, <1>4 DEF Waits, NoTurns
<1>6. Used' = {}
  BY <1>1 DEF Used, NoReqs
<1>7. IdBound <= IdBound' /\ IdBound \in Nat /\ IdBound' \in Nat
  <2>1. /\ crashes \in Nat /\ MaxRequests \in Nat /\ Cardinality(Used) \in 0..MaxRequests
        /\ crashes * MaxRequests \in Nat
    BY <1>a, BoundIsNat, LoopAssumption DEF Types
  <2>2. (crashes + 1) * MaxRequests = crashes * MaxRequests + MaxRequests
    BY <2>1
  <2>3. IdBound' = crashes * MaxRequests + MaxRequests + 0
    BY <1>1, <1>6, <2>2, FS_EmptySet DEF IdBound
  <2> QED
    BY <2>1, <2>3 DEF IdBound
<1>8. Ids'
  BY <1>1, <1>7, <1>a DEF Ids, Types, NoTurn
<1> QED
  BY <1>2, <1>3, <1>5, <1>8 DEF IInv

-----------------------------------------------------------------------------
(* The theorems. *)

LEMMA InitHolds == Init => IInv
<1> SUFFICES ASSUME Init PROVE IInv
  OBVIOUS
<1>1. Types
  BY LoopAssumption DEF Init, Types, NoReqs, NoTurns, ReqType
<1>2. IdBound \in Nat
  BY <1>1, BoundIsNat
<1> QED
  BY <1>1, <1>2 DEF Init, IInv, Runs, Waits, Ids, NoTurns, NoTurn, TurnIds

LEMMA StepKeeps == IInv /\ [Next]_vars => IInv'
<1> SUFFICES ASSUME IInv, [Next]_vars PROVE IInv'
  OBVIOUS
<1>1. CASE UNCHANGED vars
  BY <1>1, RequestsChange DEF vars, reqVars, turnVars, runVars, idVars, envVars, IInv, Types
<1>2. CASE PumpIdle
  <2>1. /\ pc = "pump" /\ pc' = "idle" /\ UNCHANGED req
        /\ UNCHANGED <<turn, pendingTurns, active, nextTurnId, reserved, crashes, history>>
    BY <1>2 DEF PumpIdle, reqVars, turnVars, idVars
  <2>2. Runs'
    BY <2>1 DEF IInv, Runs
  <2> QED
    BY <2>1, <2>2, TurnsUntouched DEF IInv, Types
<1>3. CASE AwaitSettled
  BY <1>3, RequestsChange DEF AwaitSettled, reqVars, turnVars, runVars, idVars, IInv, Types
<1> QED
  BY <1>1, <1>2, <1>3, EnqueueKeeps, CancelKeeps, DisposeKeeps, CrashKeeps, StartTurnKeeps, BeginKeeps,
     StepProgressKeeps, RecoverKeeps, ReleaseKeeps DEF Next, Pump

(* The bookkeeping of turns holds in every reachable state.                 *)
THEOREM TurnsInvariant == Spec => []IInv
BY InitHolds, StepKeeps, PTL DEF Spec

(* Turns run one at a time, in the order they were opened, and the waiting   *)
(* ones are exactly the queued ones (pumpTurns, cancelQueuedTurn, dispose).  *)
THEOREM TurnsInOrder == Spec => []TurnsRunInOrder
<1>1. IInv => TurnsRunInOrder
  <2> SUFFICES ASSUME IInv PROVE TurnsRunInOrder
    OBVIOUS
  <2>1. {t \in TurnIds : turn[t] = "running"} = {active} \ {NoTurn}
    BY DEF IInv, Types, Waits, TurnIds, NoTurn
  <2>2. {t \in TurnIds : turn[t] = "queued"} = Range(pendingTurns)
    BY DEF IInv, Types, Waits, Range
  <2> QED
    BY <2>1, <2>2 DEF IInv, Waits, TurnsRunInOrder
<1> QED
  BY <1>1, TurnsInvariant, PTL

(* An id that loop events on the wire carry is never given to a new turn:    *)
(* the counter rebuilt from them is past it (reserveTurnId, TurnModel).      *)
THEOREM IdsStayFresh == Spec => TurnIdsFresh
<1> DEFINE Fresh == \A t \in TurnIds : turn[t] = "none" /\ turn'[t] # "none" => t \notin history
<1>1. ASSUME IInv, Next PROVE Fresh
  <2>a. Types /\ Runs /\ Waits /\ Ids
    BY <1>1 DEF IInv
  <2>1. CASE UNCHANGED turn
    BY <2>1
  <2>2. ASSUME NEW k, OpenTurn(k) PROVE Fresh
    <3>1. turn' = [turn EXCEPT ![reserveTurnId] = "queued"]
      BY <2>2 DEF OpenTurn
    <3>2. reserveTurnId \in Nat /\ nextTurnId <= reserveTurnId
      BY <2>a DEF Types, reserveTurnId, MaxOf
    <3>3. reserveTurnId \notin history
      <4>1. nextTurnId \in Nat /\ TurnIds \subseteq Nat
        BY <2>a DEF Types, TurnIds
      <4> QED
        BY <3>2, <4>1, <2>a DEF Ids, Types
    <3> QED
      BY <3>1, <3>3, <2>a DEF Types
  <2>3. ASSUME NEW T, NEW rest, DropQueuedTurns(T, rest), \A t \in T : t \in Range(pendingTurns)
        PROVE  Fresh
    <3>1. \A t \in TurnIds : t \in T => turn[t] = "queued"
      BY <2>3, <2>a DEF Waits, Range
    <3> QED
      BY <2>3, <3>1 DEF DropQueuedTurns
  <2>4. CASE StartTurn
    <3>1. turn[Head(pendingTurns)] = "queued" /\ turn' = [turn EXCEPT ![Head(pendingTurns)] = "running"]
      BY <2>4, <2>a DEF StartTurn, Waits, Types
    <3> QED
      BY <3>1, <2>a DEF Types
  <2>5. CASE ReleaseActiveTurn
    <3>1. active \in TurnIds /\ turn' = [turn EXCEPT ![active] = result]
      BY <2>5, <2>a DEF ReleaseActiveTurn, Runs, Types
    <3>2. turn[active] = "running"
      BY <3>1, <2>a DEF Waits
    <3> QED
      BY <3>1, <3>2, <2>a DEF Types
  <2>6. CASE Crash
    BY <2>6 DEF Crash, NoTurns
  <2>7. ASSUME NEW t \in TurnIds, CancelQueuedTurn(t) PROVE Fresh
    <3>1. \E rest : DropQueuedTurns({t}, rest)
      BY <2>7 DEF CancelQueuedTurn
    <3>2. t \in Range(pendingTurns)
      BY <2>7 DEF CancelQueuedTurn, Range
    <3> QED
      BY <2>3, <3>1, <3>2
  <2>8. CASE Dispose
    BY <2>3, <2>8 DEF Dispose
  <2>9. CASE Enqueue
    BY <2>1, <2>2, <2>9 DEF Enqueue, EnqueuePrompt, EnqueueInject, EnqueueSteer, EnqueueNext,
                            JoinActive, turnVars
  <2>10. CASE Cancel
    BY <2>1, <2>7, <2>10 DEF Cancel, CancelActiveTurn, CancelStep, AbortStandalone, turnVars
  <2>11. CASE PumpIdle \/ Begin \/ StepProgress \/ Recover \/ AwaitSettled
    <3>1. UNCHANGED turn
      BY <2>11 DEF PumpIdle, Begin, BeginReturns, BeginStep, StepProgress, StepBegins, StepFinishes,
                   CompleteStep, StepAborts, StepFails, StepFailsRetryably, Recover, RecoverFails,
                   Retry, AwaitSettled, turnVars
    <3> QED
      BY <2>1, <3>1
  <2> QED
    BY <1>1, <2>4, <2>5, <2>6, <2>8, <2>9, <2>10, <2>11 DEF Next, Pump
<1>2. IInv /\ [Next]_vars => [Fresh]_vars
  BY <1>1
<1> QED
  BY <1>2, TurnsInvariant, PTL DEF Spec, TurnIdsFresh

(* Once a turn is cancelled no step of it begins: beginStep looks at the     *)
(* turn's signal in the stretch that takes the batch.                        *)
THEOREM CancelIsFinal == Spec => NoStepAfterCancel
<1> DEFINE Stopped == active # NoTurn /\ turnAborted /\ active' = active => steps' = steps
<1>1. ASSUME Next PROVE Stopped
  <2>1. CASE UNCHANGED steps
    BY <2>1
  <2>2. CASE BeginStep
    BY <2>2 DEF BeginStep, MayBegin
  <2>3. CASE ReleaseActiveTurn \/ Crash
    BY <2>3 DEF ReleaseActiveTurn, Crash
  <2>4. CASE Enqueue \/ Cancel \/ AwaitSettled \/ Dispose \/ Pump
    <3>1. CASE \E k : OpenTurn(k) \/ JoinActive(k)
      BY <3>1, <2>1 DEF OpenTurn, JoinActive, runVars
    <3> QED
      BY <2>4, <3>1, <2>1
         DEF Enqueue, EnqueuePrompt, EnqueueInject, EnqueueSteer, EnqueueNext, Cancel, CancelActiveTurn,
             CancelQueuedTurn, CancelStep, AbortStandalone, AwaitSettled, Dispose, Pump, PumpIdle,
             StartTurn, runVars
  <2>5. CASE BeginReturns \/ StepProgress \/ Recover
    <3>1. UNCHANGED steps
      BY <2>5 DEF BeginReturns, StepProgress, StepBegins, StepFinishes, CompleteStep, StepAborts,
                  StepFails, StepFailsRetryably, Recover, RecoverFails, Retry
    <3> QED
      BY <2>1, <3>1
  <2> QED
    BY <1>1, <2>2, <2>3, <2>4, <2>5 DEF Next, Begin
<1>2. [Next]_vars => [Stopped]_vars
  BY <1>1
<1> QED
  BY <1>2, PTL DEF Spec, NoStepAfterCancel

-----------------------------------------------------------------------------
(* Where requests and steps are. *)

Working == {"hooks", "llm", "after", "recovering"}
Opened  == {"queued", "running"}

StepType   == [turn: TurnIds \cup {NoTurn}, state: {"none", "queued", "running", "completed", "cancelled"}]
FinishType == [reason: {"none", "stop", "tool_calls", "filtered"}, hooks: {"none", "done", "stopTurn", "threw"}]

(* Types of what a run and its queues hold.                                   *)
MoreTypes ==
  /\ step \in [Requests -> StepType]
  /\ queue \in [TurnIds -> Seq(Requests)] /\ standalone \in Seq(Requests)
  /\ driver \in Requests \cup {NoReq}
  /\ finish \in FinishType /\ result \in Enders \cup {"none"}

(* A request in a line knows the line it is in, so it is in no other; no      *)
(* line has it twice, and a request to come belongs to no turn.              *)
Sits(i, t) == req[i].kind # "none" /\ step[i].turn = t

Seats ==
  /\ Distinct(standalone) /\ \A i \in Range(standalone) : Sits(i, NoTurn)
  /\ \A t \in TurnIds : Distinct(queue[t]) /\ \A i \in Range(queue[t]) : Sits(i, t)
  /\ \A i \in Requests : req[i].kind = "none" => step[i].turn = NoTurn

(* Whatever has neither materialized nor been aborted is in a line.           *)
Waiters ==
  \A i \in Requests : Pending(i) =>
    \/ i \in Range(standalone)
    \/ step[i].turn \in TurnIds /\ i \in Range(queue[step[i].turn]) /\ step[i].state = "queued"

(* A live step belongs to a turn that waits or runs.                          *)
Alive ==
  \A i \in Requests : step[i].state \in {"queued", "running"} =>
    step[i].turn \in TurnIds /\ turn[step[i].turn] \in Opened

(* The current step's driver left the queue, reached the context, and, when   *)
(* it continues after tools, was not cancelled: nobody holds its receipt.    *)
Driving ==
  pc \in Working =>
    /\ driver \in Requests /\ req[driver].kind # "none" /\ req[driver].state = "materialized"
    /\ step[driver].turn = active /\ driver \notin Range(queue[active])
    /\ req[driver].kind = "continuation" => step[driver].state # "cancelled"

(* From the step that asked for tools until the next one has finished, a      *)
(* continuation waits in the active turn's queue or drives its step.         *)
IsDue(i) ==
  /\ req[i].kind = "continuation" /\ ~aborted(i)
  /\ i \in Range(queue[active]) \/ (pc # "begin" /\ i = driver)

Due ==
  /\ pc \in {"idle", "pump"} => finish = NoFinish
  /\ pc = "after" /\ Continues => Unused # {}
  /\ pc \in {"begin", "hooks", "llm", "recovering"} /\ Continues => \E i \in Requests : IsDue(i)
  /\ pc = "returned" /\ result = "completed" => ~Continues

QInv == MoreTypes /\ Seats /\ Waiters /\ Alive /\ Driving /\ Due

-----------------------------------------------------------------------------
(* What leaves the queue of the active turn and what stays.                 *)
LEMMA OnlyOfQueue ==
  ASSUME QInv, NEW t \in TurnIds, NEW S
  PROVE  /\ Only(queue[t], S) \in Seq(Requests) /\ Distinct(Only(queue[t], S))
         /\ Range(Only(queue[t], S)) = Range(queue[t]) \cap S
         /\ Range(queue[t]) \subseteq Requests
<1>1. queue[t] \in Seq(Requests) /\ Distinct(queue[t])
  BY DEF QInv, MoreTypes, Seats
<1> QED
  BY <1>1, OnlyProperties, OnlyDistinct, RangeIn

LEMMA Running ==
  ASSUME IInv, pc \notin {"idle", "pump"}
  PROVE  active \in TurnIds /\ active # NoTurn /\ turn[active] = "running" /\ NoTurn \notin TurnIds
<1>1. NoTurn \notin TurnIds
  BY DEF NoTurn, TurnIds
<1> QED
  BY <1>1 DEF IInv, Runs, Types, Waits

(* Requests leave the loop: some are aborted, their steps cancelled and      *)
(* their waiting turns dropped.                                              *)
LEMMA WithdrawSeats ==
  ASSUME IInv, QInv, MoreTypes', NEW T \in SUBSET TurnIds, active \notin T,
         NEW A \in SUBSET Requests, NEW C \in SUBSET A,
         req' = AbortReqs(A), step' = CancelSteps(C), \A t \in TurnIds : t \notin T => turn'[t] = turn[t],
         \A i \in Requests : step[i].turn \in T /\ step[i].state \in {"queued", "running"} => i \in C,
         \A i \in A : req[i].kind = "continuation" => step[i].turn # active \/ active = NoTurn,
         standalone' = standalone \/ (standalone' = <<>> /\ Range(standalone) \subseteq A),
         UNCHANGED <<queue, active, pc, driver, finish, result>>
  PROVE  QInv'
<1>a. MoreTypes /\ Seats /\ Waiters /\ Alive /\ Driving /\ Due /\ req \in ReqType
  BY DEF QInv, IInv, Types
<1>1. \A i \in Requests : /\ req'[i].kind = req[i].kind
                          /\ req'[i].state = (IF i \in A /\ req[i].state = "pending" THEN "aborted" ELSE req[i].state)
  BY <1>a DEF AbortReqs, ReqType
<1>2. \A i \in Requests : /\ step'[i].turn = step[i].turn
                          /\ step'[i].state = (IF i \in C THEN "cancelled" ELSE step[i].state)
  BY <1>a DEF CancelSteps, MoreTypes, StepType
<1>3. Range(standalone') \subseteq Range(standalone) /\ Distinct(standalone') /\ Range(standalone) \subseteq Requests
      /\ \A t \in TurnIds : Range(queue[t]) \subseteq Requests
  BY <1>a DEF Seats, Range, Distinct, MoreTypes
<1>4. Seats'
  BY <1>1, <1>2, <1>3, <1>a DEF Seats, Sits
<1>5. Waiters'
  <2> SUFFICES ASSUME NEW i \in Requests, Pending(i)'
               PROVE  (\/ i \in Range(standalone)
                       \/ step[i].turn \in TurnIds /\ i \in Range(queue[step[i].turn]) /\ step[i].state = "queued")'
    BY DEF Waiters
  <2>1. Pending(i) /\ i \notin A
    BY <1>1 DEF Pending
  <2> QED
    BY <1>2, <2>1, <1>a DEF Waiters
<1>6. Alive'
  BY <1>2, <1>a DEF Alive
<1>7. Driving'
  BY <1>1, <1>2, <1>a, Running DEF Driving, Working
<1>8. Due'
  <2>1. Unused' = Unused /\ (Continues' <=> Continues)
    BY <1>1 DEF Unused, Continues
  <2>2. ASSUME pc \in {"begin", "hooks", "llm", "recovering"}, NEW i \in Requests, IsDue(i) PROVE IsDue(i)'
    <3>1. active \in TurnIds /\ active # NoTurn
      BY <2>2, Running
    <3>2. step[i].turn = active
      BY <2>2, <3>1, <1>a DEF IsDue, Seats, Sits, Driving, Working
    <3>3. i \notin A
      BY <2>2, <3>1, <3>2 DEF IsDue
    <3> QED
      BY <1>1, <2>2, <3>3 DEF IsDue, aborted
  <2> QED
    BY <2>1, <2>2, <1>a DEF Due
<1> QED
  BY <1>4, <1>5, <1>6, <1>7, <1>8 DEF QInv

(* run() returns.                                                            *)
LEMMA ReturnSeats ==
  ASSUME IInv, QInv, MoreTypes', NEW r, ReturnRun(r), r = "completed" => ~Continues,
         pc \notin {"idle", "pump"},
         \A i \in Requests : /\ step'[i].turn = step[i].turn
                             /\ step'[i] = step[i] \/ (~Pending(i) /\ step'[i].state = "completed"),
         finish' \in {finish, NoFinish},
         UNCHANGED <<standalone, turn, active>>
  PROVE  QInv'
<1>a. MoreTypes /\ Seats /\ Waiters /\ Alive /\ req \in ReqType /\ active \in TurnIds
  BY Running DEF QInv, IInv, Types
<1> DEFINE A == {i \in Range(queue[active]) : turnScoped(i)}
           S == {i \in Wanted : ~(turnScoped(i) /\ req[i].state = "pending")}
<1>1. pc' = "returned" /\ result' = r /\ req' = AbortReqs(A)
      /\ queue' = [queue EXCEPT ![active] = Only(queue[active], S)]
  BY DEF ReturnRun
<1>2. \A i \in Requests : /\ req'[i].kind = req[i].kind
                          /\ req'[i].state = (IF i \in A /\ req[i].state = "pending" THEN "aborted" ELSE req[i].state)
  BY <1>1, <1>a DEF AbortReqs, ReqType
<1>3. \A t \in TurnIds : /\ Range(queue[t]) \subseteq Requests /\ Range(queue'[t]) \subseteq Range(queue[t])
                         /\ Distinct(queue'[t])
                         /\ Range(queue'[t]) = IF t = active THEN Range(queue[t]) \cap S ELSE Range(queue[t])
  <2> DEFINE o == Only(queue[active], S)
  <2>1. \A t \in TurnIds : queue'[t] = IF t = active THEN o ELSE queue[t]
    BY <1>1, <1>a DEF MoreTypes
  <2> HIDE DEF S
  <2>2. Distinct(o) /\ Range(o) = Range(queue[active]) \cap S
    BY <1>a, OnlyOfQueue
  <2>3. \A t \in TurnIds : Range(queue[t]) \subseteq Requests /\ Distinct(queue[t])
    BY <1>a, RangeIn DEF MoreTypes, Seats
  <2> HIDE DEF o
  <2> QED
    BY <2>1, <2>2, <2>3
<1>4. \A i \in Range(standalone) : i \in Requests
  BY <1>a, RangeIn DEF MoreTypes
<1>5. Seats'
  <2>1. \A i \in Range(standalone) : Sits(i, NoTurn)'
    BY <1>2, <1>4, <1>a DEF Seats, Sits
  <2>2. \A t \in TurnIds : \A i \in Range(queue'[t]) : Sits(i, t)'
    BY <1>2, <1>3, <1>a DEF Seats, Sits
  <2>3. \A i \in Requests : req'[i].kind = "none" => step'[i].turn = NoTurn
    BY <1>2, <1>a DEF Seats
  <2> QED
    BY <1>3, <2>1, <2>2, <2>3, <1>a DEF Seats
<1>6. Waiters'
  <2> SUFFICES ASSUME NEW i \in Requests, Pending(i)'
               PROVE  (\/ i \in Range(standalone)
                       \/ step[i].turn \in TurnIds /\ i \in Range(queue[step[i].turn]) /\ step[i].state = "queued")'
    BY DEF Waiters
  <2>1. Pending(i) /\ i \notin A /\ step'[i] = step[i]
    BY <1>2 DEF Pending
  <2>2. i \in Range(queue[active]) => i \in S
    BY <2>1 DEF Pending, Wanted, aborted
  <2> QED
    BY <1>3, <2>1, <2>2, <1>a DEF Waiters
<1>7. Alive'
  BY <1>a DEF Alive
<1>8. Driving'
  BY <1>1 DEF Driving, Working
<1>9. Due'
  BY <1>1 DEF Due, Continues, NoFinish
<1> QED
  BY <1>5, <1>6, <1>7, <1>8, <1>9 DEF QInv

(* What creating a request at the tail of the active turn's queue changes.   *)
LEMMA JoinFacts ==
  ASSUME QInv, req \in ReqType, Unused # {}, NEW k \in Kinds, req' = Create(NextReq, k), active \in TurnIds,
         queue' = [queue EXCEPT ![active] = Append(queue[active], NextReq)]
  PROVE  /\ NextReq \in Requests /\ req[NextReq].kind = "none"
         /\ \A j \in Requests : req'[j] = IF j = NextReq THEN [kind |-> k, state |-> "pending"] ELSE req[j]
         /\ \A t \in TurnIds : /\ Distinct(queue'[t])
                               /\ \A j : j \in Range(queue'[t]) <=> j \in Range(queue[t]) \/ (t = active /\ j = NextReq)
<1>a. MoreTypes /\ Seats
  BY DEF QInv
<1>1. NextReq \in Requests /\ req[NextReq].kind = "none"
  BY NextReqUnused DEF Unused
<1> DEFINE n == NextReq
<1>2. \A j \in Requests : req'[j] = IF j = n THEN [kind |-> k, state |-> "pending"] ELSE req[j]
  BY <1>1 DEF Create, ReqType
<1>3. \A t \in TurnIds : queue[t] \in Seq(Requests) /\ Distinct(queue[t]) /\ n \notin Range(queue[t])
  BY <1>1, <1>a DEF MoreTypes, Seats, Sits
<1>4. \A t \in TurnIds : queue'[t] = IF t = active THEN Append(queue[active], n) ELSE queue[t]
  BY <1>a DEF MoreTypes
<1> HIDE DEF n
<1>5. /\ Range(Append(queue[active], n)) = Range(queue[active]) \cup {n}
      /\ Distinct(Append(queue[active], n))
  BY <1>1, <1>3, RangeAppend, DistinctAppend DEF n
<1>6. ASSUME NEW t \in TurnIds
      PROVE  /\ Distinct(queue'[t])
             /\ \A j : j \in Range(queue'[t]) <=> j \in Range(queue[t]) \/ (t = active /\ j = n)
  <2>1. CASE t = active
    <3>1. queue'[t] = Append(queue[t], n) /\ Range(Append(queue[t], n)) = Range(queue[t]) \cup {n}
          /\ Distinct(Append(queue[t], n))
      BY <1>4, <1>5, <2>1
    <3> QED
      BY <2>1, <3>1
  <2>2. CASE t # active
    <3>1. queue'[t] = queue[t] /\ Distinct(queue[t])
      BY <1>3, <1>4, <2>2
    <3> QED
      BY <2>2, <3>1
  <2> QED
    BY <2>1, <2>2
<1> QED
  BY <1>1, <1>2, <1>6 DEF n

(* A request n is created at the tail of the active turn's queue; the        *)
(* driver's step may be completed in the same stretch.                       *)
JoinChanges(n, k) ==
  /\ n \in Requests /\ req[n].kind = "none" /\ k # "none"
  /\ \A j \in Requests : req'[j] = IF j = n THEN [kind |-> k, state |-> "pending"] ELSE req[j]
  /\ \A t \in TurnIds : /\ Distinct(queue'[t])
                        /\ \A j : j \in Range(queue'[t]) <=> j \in Range(queue[t]) \/ (t = active /\ j = n)
  /\ step'[n] = AssignedTo(active)
  /\ \A j \in Requests : j # n => /\ step'[j].turn = step[j].turn
                                  /\ step'[j] = step[j] \/ (~Pending(j) /\ step'[j].state = "completed")

LEMMA JoinSeats ==
  ASSUME QInv, NEW n, NEW k, JoinChanges(n, k), active \in TurnIds, turn[active] \in Opened,
         UNCHANGED <<standalone, turn, active>>
  PROVE  Seats' /\ Waiters' /\ Alive'
<1>a. MoreTypes /\ Seats /\ Waiters /\ Alive
  BY DEF QInv
<1>b. n \in Requests /\ req[n].kind = "none" /\ k # "none"
  BY DEF JoinChanges
<1>c. \A j \in Requests : req'[j] = IF j = n THEN [kind |-> k, state |-> "pending"] ELSE req[j]
  BY DEF JoinChanges
<1>d. \A t \in TurnIds : /\ Distinct(queue'[t])
                         /\ \A j : j \in Range(queue'[t]) <=> j \in Range(queue[t]) \/ (t = active /\ j = n)
  BY DEF JoinChanges
<1>e. /\ step'[n] = AssignedTo(active)
      /\ \A j \in Requests : j # n => /\ step'[j].turn = step[j].turn
                                      /\ step'[j] = step[j] \/ (~Pending(j) /\ step'[j].state = "completed")
  BY DEF JoinChanges
<1>1. \A t \in TurnIds : Range(queue[t]) \subseteq Requests
  BY <1>a, RangeIn DEF MoreTypes
<1>2. Range(standalone) \subseteq Requests /\ n \notin Range(standalone)
  BY <1>a, <1>b, RangeIn DEF MoreTypes, Seats, Sits
<1>3. step'[n].turn = active /\ step'[n].state = "queued" /\ k # "none"
  BY <1>b, <1>e DEF AssignedTo
<1>4. Seats'
  <2>1. \A j \in Range(standalone) : Sits(j, NoTurn)'
    BY <1>2, <1>a, <1>c, <1>e DEF Seats, Sits
  <2>2. ASSUME NEW t \in TurnIds, NEW j \in Range(queue'[t]) PROVE Sits(j, t)'
    <3>1. CASE j = n
      <4>1. t = active
        <5>1. n \notin Range(queue[t])
          BY <1>a, <1>b DEF Seats, Sits
        <5> QED
          BY <1>d, <2>2, <3>1, <5>1
      <4> QED
        BY <1>3, <1>b, <1>c, <3>1, <4>1 DEF Sits
    <3>2. CASE j # n
      <4>1. j \in Range(queue[t]) /\ j \in Requests
        BY <1>1, <1>d, <2>2, <3>2
      <4> QED
        BY <1>a, <1>c, <1>e, <3>2, <4>1 DEF Seats, Sits
    <3> QED
      BY <3>1, <3>2
  <2>3. \A j \in Requests : req'[j].kind = "none" => step'[j].turn = NoTurn
    BY <1>3, <1>a, <1>b, <1>c, <1>e DEF Seats
  <2>4. Distinct(standalone) /\ standalone' = standalone
    BY <1>a DEF Seats
  <2> QED
    BY <1>d, <2>1, <2>2, <2>3, <2>4 DEF Seats
<1>5. Waiters'
  <2> SUFFICES ASSUME NEW i \in Requests, Pending(i)'
               PROVE  \/ i \in Range(standalone)
                      \/ step'[i].turn \in TurnIds /\ i \in Range(queue'[step'[i].turn]) /\ step'[i].state = "queued"
    BY DEF Waiters
  <2>1. CASE i = n
    BY <1>3, <1>d, <2>1
  <2>2. CASE i # n
    <3>1. Pending(i)
      BY <1>c, <2>2 DEF Pending
    <3>2. step'[i] = step[i]
      BY <1>e, <2>2, <3>1
    <3>3. \/ i \in Range(standalone)
          \/ step[i].turn \in TurnIds /\ i \in Range(queue[step[i].turn]) /\ step[i].state = "queued"
      BY <3>1, <1>a DEF Waiters
    <3> QED
      BY <1>d, <3>2, <3>3
  <2> QED
    BY <2>1, <2>2
<1>6. Alive'
  <2> SUFFICES ASSUME NEW i \in Requests, step'[i].state \in {"queued", "running"}
               PROVE  step'[i].turn \in TurnIds /\ turn[step'[i].turn] \in Opened
    BY DEF Alive
  <2>2. CASE i = n
    BY <1>3, <2>2
  <2>3. CASE i # n
    BY <1>e, <2>3, <1>a DEF Alive
  <2> QED
    BY <2>2, <2>3
<1> QED
  BY <1>4, <1>5, <1>6

(* inject, steer and next requests join the active turn.                     *)
LEMMA JoinActiveSeats ==
  ASSUME IInv, QInv, MoreTypes', Enqueueable, NEW k \in Kinds, JoinActive(k), Unused # {},
         pc = "after" /\ Continues => Unused' # {}
  PROVE  QInv'
<1>a. MoreTypes /\ Driving /\ Due /\ Runs
  BY DEF QInv, IInv
<1> DEFINE n == NextReq
<1>1. /\ req' = Create(n, k) /\ active \in TurnIds /\ step' = [step EXCEPT ![n] = AssignedTo(active)]
      /\ queue' = [queue EXCEPT ![active] = Append(queue[active], n)]
      /\ UNCHANGED <<standalone, turn, active, pc, driver, finish, result>>
  BY DEF JoinActive, turnVars, runVars, IInv, Types
<1>2. n \in Requests
  BY NextReqUnused
<1>3. step'[n] = AssignedTo(active) /\ \A j \in Requests : j # n => step'[j] = step[j]
  BY <1>1, <1>2, <1>a DEF MoreTypes
<1>b. /\ req[n].kind = "none"
      /\ \A j \in Requests : req'[j] = IF j = n THEN [kind |-> k, state |-> "pending"] ELSE req[j]
      /\ \A t \in TurnIds : /\ Distinct(queue'[t])
                            /\ \A j : j \in Range(queue'[t]) <=> j \in Range(queue[t]) \/ (t = active /\ j = n)
  BY <1>1, JoinFacts DEF IInv, Types
<1>c. turn[active] \in Opened
  BY <1>1 DEF IInv, Waits, Opened
<1>4. Seats' /\ Waiters' /\ Alive'
  <2> HIDE DEF n
  <2> QED
    <3>1. JoinChanges(n, k)
      BY <1>2, <1>3, <1>b DEF JoinChanges, Kinds
    <3> QED
      BY <1>1, <1>c, <3>1, JoinSeats
<1> HIDE DEF n
<1>d. UNCHANGED <<standalone, turn, active, pc, driver, finish, result>> /\ active \in TurnIds
  BY <1>1
<1>5. Driving'
  <2> SUFFICES ASSUME pc \in Working PROVE Driving'
    BY <1>d DEF Driving
  <2>1. driver \in Requests /\ driver # n /\ driver \notin Range(queue'[active])
    BY <1>b, <1>d, <1>a DEF Driving
  <2> QED
    BY <1>3, <1>b, <1>d, <2>1, <1>a DEF Driving
<1>6. Due'
  <2>1. ASSUME NEW i \in Requests, IsDue(i) PROVE IsDue(i)'
    <3>1. i # n
      BY <1>b, <2>1 DEF IsDue
    <3> QED
      BY <1>b, <1>d, <2>1, <3>1 DEF IsDue, aborted
  <2>2. Continues' <=> Continues
    BY <1>1 DEF Continues
  <2> QED
    BY <1>1, <2>1, <2>2, <1>a DEF Due
<1> QED
  BY <1>4, <1>5, <1>6 DEF QInv

(* A request without an active turn waits for the next one.                  *)
LEMMA StandaloneSeats ==
  ASSUME IInv, QInv, Unused # {}, NEW k \in Kinds, req' = Create(NextReq, k), active = NoTurn,
         standalone' = Append(standalone, NextReq), MoreTypes',
         UNCHANGED <<step, queue, turn, active, pc, driver, finish, result>>
  PROVE  QInv'
<1>a. MoreTypes /\ Seats /\ Waiters /\ Alive /\ Due /\ req \in ReqType /\ pc \in {"idle", "pump"}
  BY DEF QInv, IInv, Types, Runs
<1> DEFINE n == NextReq
<1>1. n \in Requests /\ req[n].kind = "none" /\ k # "none"
  BY NextReqUnused DEF Unused, Kinds
<1>2. \A j \in Requests : req'[j] = IF j = n THEN [kind |-> k, state |-> "pending"] ELSE req[j]
  BY <1>1, <1>a DEF Create, ReqType
<1>3. standalone \in Seq(Requests) /\ Distinct(standalone) /\ n \notin Range(standalone)
      /\ \A t \in TurnIds : n \notin Range(queue[t]) /\ Range(queue[t]) \subseteq Requests
  BY <1>1, <1>a, RangeIn DEF MoreTypes, Seats, Sits
<1> HIDE DEF n
<1>4. Distinct(standalone') /\ Range(standalone') = Range(standalone) \cup {n} /\ Range(standalone) \subseteq Requests
  <2>1. standalone' = Append(standalone, n)
    BY DEF n
  <2> QED
    BY <1>1, <1>3, <2>1, RangeAppend, DistinctAppend, RangeIn
<1>5. \A j : j \in Range(standalone') <=> j \in Range(standalone) \/ j = n
  BY <1>4
<1>6. Seats'
  <2>1. ASSUME NEW j \in Range(standalone') PROVE Sits(j, NoTurn)'
    <3>1. CASE j = n
      BY <1>1, <1>2, <3>1, <1>a DEF Seats, Sits
    <3>2. CASE j # n
      <4>1. j \in Range(standalone) /\ j \in Requests
        BY <1>4, <1>5, <2>1, <3>2
      <4> QED
        BY <1>2, <3>2, <4>1, <1>a DEF Seats, Sits
    <3> QED
      BY <3>1, <3>2
  <2>2. \A t \in TurnIds : \A j \in Range(queue[t]) : Sits(j, t)'
    BY <1>2, <1>3, <1>a DEF Seats, Sits
  <2>3. \A j \in Requests : req'[j].kind = "none" => step[j].turn = NoTurn
    BY <1>1, <1>2, <1>a DEF Seats
  <2>4. (\A t \in TurnIds : Distinct(queue[t])) /\ queue' = queue /\ step' = step
    BY <1>a DEF Seats
  <2> QED
    BY <1>4, <2>1, <2>2, <2>3, <2>4 DEF Seats
<1>7. Waiters'
  <2> SUFFICES ASSUME NEW i \in Requests, Pending(i)'
               PROVE  \/ i \in Range(standalone')
                      \/ step[i].turn \in TurnIds /\ i \in Range(queue[step[i].turn]) /\ step[i].state = "queued"
    BY DEF Waiters
  <2>1. i = n \/ Pending(i)
    BY <1>2 DEF Pending
  <2> QED
    BY <1>5, <2>1, <1>a DEF Waiters
<1>8. Alive'
  BY <1>a DEF Alive
<1>9. Driving'
  BY <1>a DEF Driving, Working
<1>10. Due'
  BY <1>a DEF Due, Continues, NoFinish
<1> QED
  BY <1>6, <1>7, <1>8, <1>9, <1>10 DEF QInv

(* The id of a new turn belongs to no turn that waits or runs.               *)
LEMMA FreshTurn ==
  ASSUME IInv
  PROVE  /\ reserveTurnId \in TurnIds /\ turn[reserveTurnId] \notin Opened
         /\ reserveTurnId # active
<1> DEFINE t == reserveTurnId
<1>a. Types /\ Waits /\ Ids /\ IdBound \in Nat
  BY BoundIsNat DEF IInv
<1>1. t \in Nat /\ nextTurnId <= t /\ reserved <= t /\ t <= IdBound /\ reserved \in Nat
  BY <1>a DEF Types, Ids, reserveTurnId, MaxOf
<1>2. t \in TurnIds
  BY <1>1, <1>a, FreshIdIsTurnId
<1> HIDE DEF t
<1>3. TurnIds \subseteq Nat /\ active \in Int
  BY <1>a DEF Types, TurnIds, NoTurn
<1>4. t # active
  BY <1>1, <1>3, <1>a DEF Ids
<1>5. \A n \in DOMAIN pendingTurns : pendingTurns[n] \in Nat /\ pendingTurns[n] < reserved
  BY <1>3, <1>a DEF Types, Ids
<1>6. \A n \in DOMAIN pendingTurns : pendingTurns[n] # t
  BY <1>1, <1>5
<1>7. turn[t] # "running" /\ turn[t] # "queued"
  BY <1>2, <1>4, <1>6, <1>a DEF Waits
<1> QED
  BY <1>2, <1>4, <1>7 DEF t, Opened

(* What opening turn t with request n changes: the request at the head of    *)
(* its queue, then those that waited for a turn and are still wanted.        *)
OpenChanges(n, t, k) ==
  /\ n \in Requests /\ req[n].kind = "none" /\ k # "none" /\ t \in TurnIds
  /\ \A j \in Requests : req'[j] = IF j = n THEN [kind |-> k, state |-> "pending"] ELSE req[j]
  /\ \A j \in Requests : step'[j] = IF j = n \/ (j \in Range(standalone) /\ ~aborted(j))
                                    THEN AssignedTo(t) ELSE step[j]
  /\ \A u \in TurnIds : /\ Distinct(queue'[u])
                        /\ \A j : j \in Range(queue'[u]) <=>
                             IF u = t THEN j = n \/ (j \in Range(standalone) /\ ~aborted(j)) ELSE j \in Range(queue[u])
  /\ standalone' = <<>>
  /\ \A u \in TurnIds : turn'[u] = IF u = t THEN "queued" ELSE turn[u]

LEMMA OpenFacts ==
  ASSUME IInv, QInv, Unused # {}, NEW k \in Kinds, OpenTurn(k)
  PROVE  OpenChanges(NextReq, reserveTurnId, k)
<1> DEFINE n == NextReq
           t == reserveTurnId
           moved == Only(standalone, Wanted)
<1>a. MoreTypes /\ Seats /\ Types
  BY DEF QInv, IInv
<1>1. n \in Requests /\ req[n].kind = "none" /\ k # "none"
  BY NextReqUnused DEF Unused, Kinds
<1>2. t \in TurnIds
  BY FreshTurn
<1>3. /\ req' = Create(n, k) /\ queue' = [queue EXCEPT ![t] = <<n>> \o moved] /\ standalone' = <<>>
      /\ step' = [j \in Requests |-> IF j = n \/ j \in Range(moved) THEN AssignedTo(t) ELSE step[j]]
      /\ turn' = [turn EXCEPT ![t] = "queued"]
  BY DEF OpenTurn
<1>4. Distinct(standalone) /\ standalone \in Seq(Requests) /\ n \notin Range(standalone) /\ Range(standalone) \subseteq Requests
  BY <1>1, <1>a, RangeIn DEF MoreTypes, Seats, Sits
<1>5. moved \in Seq(Requests) /\ Distinct(moved) /\ Range(moved) = Range(standalone) \cap Wanted
  BY <1>4, OnlyProperties, OnlyDistinct
<1>6. \A j : j \in Range(moved) <=> j \in Range(standalone) /\ ~aborted(j)
  BY <1>4, <1>5 DEF Wanted
<1> HIDE DEF n, t, moved
<1>7. /\ Distinct(<<n>> \o moved) /\ \A j : j \in Range(<<n>> \o moved) <=> j = n \/ j \in Range(moved)
  <2>1. n \notin Range(moved)
    BY <1>4, <1>6
  <2> QED
    BY <1>1, <1>5, <2>1, Prepend
<1>8. \A j \in Requests : req'[j] = IF j = n THEN [kind |-> k, state |-> "pending"] ELSE req[j]
  BY <1>1, <1>3, <1>a DEF Create, ReqType, Types
<1>9. \A j \in Requests : step'[j] = IF j = n \/ (j \in Range(standalone) /\ ~aborted(j))
                                     THEN AssignedTo(t) ELSE step[j]
  BY <1>3, <1>6
<1>10. ASSUME NEW u \in TurnIds
       PROVE  /\ Distinct(queue'[u])
              /\ \A j : j \in Range(queue'[u]) <=>
                   IF u = t THEN j = n \/ (j \in Range(standalone) /\ ~aborted(j)) ELSE j \in Range(queue[u])
  <2>1. CASE u = t
    <3>1. queue'[u] = <<n>> \o moved
      BY <1>2, <1>3, <2>1, <1>a DEF MoreTypes
    <3>2. \A j : j \in Range(queue'[u]) <=> j = n \/ (j \in Range(standalone) /\ ~aborted(j))
      BY <1>6, <1>7, <3>1
    <3> QED
      BY <1>7, <2>1, <3>1, <3>2
  <2>2. CASE u # t
    <3>1. queue'[u] = queue[u] /\ Distinct(queue[u])
      BY <1>3, <2>2, <1>a DEF MoreTypes, Seats
    <3> QED
      BY <2>2, <3>1
  <2> QED
    BY <2>1, <2>2
<1>11. \A u \in TurnIds : turn'[u] = IF u = t THEN "queued" ELSE turn[u]
  BY <1>2, <1>3, <1>a DEF Types
<1>12. OpenChanges(n, t, k)
  BY <1>1, <1>2, <1>3, <1>8, <1>9, <1>10, <1>11 DEF OpenChanges
<1> QED
  BY <1>12 DEF n, t

LEMMA OpenSeats ==
  ASSUME IInv, QInv, MoreTypes', NEW n, NEW t, NEW k, OpenChanges(n, t, k), turn[t] \notin Opened, t # active,
         pc = "after" /\ Continues => Unused' # {},
         pc' = (IF active = NoTurn THEN "pump" ELSE pc),
         UNCHANGED <<active, driver, finish, result>>
  PROVE  QInv'
<1>a. MoreTypes /\ Seats /\ Waiters /\ Alive /\ Driving /\ Due /\ Runs /\ active \in TurnIds \cup {NoTurn}
  BY DEF QInv, IInv, Types
<1>1. NoTurn \notin TurnIds
  BY DEF NoTurn, TurnIds
<1>2. /\ n \in Requests /\ req[n].kind = "none" /\ k # "none" /\ t \in TurnIds
      /\ \A j \in Requests : req'[j] = IF j = n THEN [kind |-> k, state |-> "pending"] ELSE req[j]
      /\ \A u \in TurnIds : turn'[u] = IF u = t THEN "queued" ELSE turn[u]
      /\ standalone' = <<>>
  BY DEF OpenChanges
<1> DEFINE moves(j) == j = n \/ (j \in Range(standalone) /\ ~aborted(j))
<1>3. \A j \in Requests : /\ moves(j) => step'[j].turn = t /\ step'[j].state = "queued"
                          /\ ~moves(j) => step'[j] = step[j]
  BY DEF OpenChanges, AssignedTo
<1>4. \A u \in TurnIds : /\ Distinct(queue'[u])
                         /\ \A j : j \in Range(queue'[u]) <=> IF u = t THEN moves(j) ELSE j \in Range(queue[u])
  BY DEF OpenChanges
<1>5. /\ \A j \in Requests : moves(j) => step[j].turn = NoTurn /\ (j = n \/ req[j].kind # "none")
      /\ \A j : moves(j) => j \in Requests
      /\ \A u \in TurnIds : Range(queue[u]) \subseteq Requests
  BY <1>2, <1>a, RangeIn DEF Seats, Sits, MoreTypes
<1> HIDE DEF moves
<1>6. Range(<<>>) = {} /\ Distinct(<<>>)
  BY DEF Range, Distinct
<1>7. Seats'
  <2>1. ASSUME NEW u \in TurnIds, NEW j \in Range(queue'[u]) PROVE Sits(j, u)'
    <3>1. CASE u = t
      <4>1. moves(j) /\ j \in Requests
        BY <1>4, <1>5, <2>1, <3>1
      <4> QED
        BY <1>2, <1>3, <1>5, <3>1, <4>1 DEF Sits
    <3>2. CASE u # t
      <4>1. j \in Range(queue[u]) /\ j \in Requests
        BY <1>4, <1>5, <2>1, <3>2
      <4>2. req[j].kind # "none" /\ step[j].turn = u
        BY <4>1, <1>a DEF Seats, Sits
      <4>3. ~moves(j) /\ j # n
        BY <1>1, <1>2, <1>5, <4>1, <4>2
      <4> QED
        BY <1>2, <1>3, <4>1, <4>2, <4>3 DEF Sits
    <3> QED
      BY <3>1, <3>2
  <2>2. ASSUME NEW j \in Requests, req'[j].kind = "none" PROVE step'[j].turn = NoTurn
    <3>1. j # n /\ req[j].kind = "none"
      BY <1>2, <2>2
    <3>2. ~moves(j)
      BY <1>5, <3>1
    <3> QED
      BY <1>3, <3>1, <3>2, <1>a DEF Seats
  <2>3. \A u \in TurnIds : Distinct(queue'[u])
    BY <1>4
  <2> QED
    BY <1>2, <1>6, <2>1, <2>2, <2>3 DEF Seats
<1>8. Waiters'
  <2> SUFFICES ASSUME NEW i \in Requests, Pending(i)'
               PROVE  step'[i].turn \in TurnIds /\ i \in Range(queue'[step'[i].turn]) /\ step'[i].state = "queued"
    BY DEF Waiters
  <2>1. CASE moves(i)
    BY <1>2, <1>3, <1>4, <2>1
  <2>2. CASE ~moves(i)
    <3>1. i # n
      BY <2>2 DEF moves
    <3>2. Pending(i)
      BY <1>2, <3>1 DEF Pending
    <3>3. i \notin Range(standalone)
      BY <2>2, <3>2 DEF moves, Pending, aborted
    <3>4. step[i].turn \in TurnIds /\ i \in Range(queue[step[i].turn]) /\ step[i].state = "queued"
      BY <3>2, <3>3, <1>a DEF Waiters
    <3>5. step[i].turn # t
      BY <3>4, <1>a DEF Alive
    <3> QED
      BY <1>3, <1>4, <2>2, <3>4, <3>5
  <2> QED
    BY <2>1, <2>2
<1>9. Alive'
  <2> SUFFICES ASSUME NEW i \in Requests, step'[i].state \in {"queued", "running"}
               PROVE  step'[i].turn \in TurnIds /\ turn'[step'[i].turn] \in Opened
    BY DEF Alive
  <2>1. CASE moves(i)
    BY <1>2, <1>3, <2>1 DEF Opened
  <2>2. CASE ~moves(i)
    BY <1>2, <1>3, <2>2, <1>a DEF Alive, Opened
  <2> QED
    BY <2>1, <2>2
<1>10. Driving'
  <2> SUFFICES ASSUME pc \in Working, active \in TurnIds PROVE Driving'
    BY <1>a DEF Driving, Runs, Working
  <2>1. pc' = pc /\ active # NoTurn /\ driver \in Requests
    BY <1>1, <1>a DEF Driving
  <2>2. driver # n /\ ~moves(driver) /\ driver \notin Range(queue'[active])
    BY <1>2, <1>4, <1>5, <2>1, <1>a DEF Driving
  <2> QED
    BY <1>2, <1>3, <2>1, <2>2, <1>a DEF Driving
<1>11. Due'
  <2>1. CASE active = NoTurn
    BY <2>1, <1>a DEF Due, Runs, Continues, NoFinish
  <2>2. CASE active # NoTurn
    <3>1. pc' = pc /\ active \in TurnIds /\ (Continues' <=> Continues)
      BY <2>2, <1>a DEF Continues
    <3>2. ASSUME NEW i \in Requests, IsDue(i) PROVE IsDue(i)'
      <4>1. i # n
        BY <1>2, <3>2 DEF IsDue
      <4> QED
        BY <1>2, <1>4, <3>1, <3>2, <4>1 DEF IsDue, aborted
    <3> QED
      BY <3>1, <3>2, <1>a DEF Due
  <2> QED
    BY <2>1, <2>2
<1> QED
  BY <1>7, <1>8, <1>9, <1>10, <1>11 DEF QInv

(* Queues stay as they are, and steps go on without losing their turn.       *)
LEMMA SameSeats ==
  ASSUME QInv, UNCHANGED <<req, queue, standalone>>,
         \A t \in TurnIds : turn[t] \in Opened => turn'[t] \in Opened,
         \A i \in Requests : /\ step'[i].turn = step[i].turn
                             /\ step'[i] = step[i] \/ (~Pending(i) /\ step'[i].state \notin {"queued", "running"})
  PROVE  Seats' /\ Waiters' /\ Alive'
<1>a. MoreTypes /\ Seats /\ Waiters /\ Alive
  BY DEF QInv
<1>1. /\ Range(standalone) \subseteq Requests
      /\ \A t \in TurnIds : Range(queue[t]) \subseteq Requests
  BY <1>a, RangeIn DEF MoreTypes
<1>2. Seats'
  BY <1>1, <1>a DEF Seats, Sits
<1>3. Waiters'
  BY <1>a DEF Waiters, Pending
<1>4. Alive'
  BY <1>a DEF Alive
<1> QED
  BY <1>2, <1>3, <1>4

LEMMA PumpIdleSeats ==
  ASSUME QInv, MoreTypes', PumpIdle
  PROVE  QInv'
<1>a. MoreTypes /\ Due
  BY DEF QInv
<1>1. pc = "pump" /\ pc' = "idle" /\ UNCHANGED <<req, step, queue, standalone, turn, active, driver, finish, result>>
  BY DEF PumpIdle, reqVars, turnVars
<1>2. Seats' /\ Waiters' /\ Alive'
  BY <1>1, SameSeats
<1>3. Driving' /\ Due'
  BY <1>1, <1>a DEF Driving, Due, Working, Continues, NoFinish
<1> QED
  BY <1>2, <1>3 DEF QInv

LEMMA StartTurnSeats ==
  ASSUME IInv, QInv, MoreTypes', StartTurn
  PROVE  QInv'
<1>a. MoreTypes /\ Due /\ Types
  BY DEF QInv, IInv
<1> DEFINE t == Head(pendingTurns)
<1>1. /\ pc = "pump" /\ pc' = "begin" /\ UNCHANGED <<req, step, queue, standalone, driver, finish, result>>
      /\ turn' = [turn EXCEPT ![t] = "running"]
  BY DEF StartTurn, reqVars
<1>2. Seats' /\ Waiters' /\ Alive'
  <2>1. \A u \in TurnIds : turn[u] \in Opened => turn'[u] \in Opened
    BY <1>1, <1>a DEF Types, Opened
  <2> QED
    BY <1>1, <2>1, SameSeats
<1>3. Driving' /\ Due'
  BY <1>1, <1>a DEF Driving, Due, Working, Continues, NoFinish
<1> QED
  BY <1>2, <1>3 DEF QInv

(* Only where run() stands changes, or how its last step finished.           *)
LEMMA RunGoesOn ==
  ASSUME QInv, MoreTypes', UNCHANGED <<req, step, queue, standalone, turn, active, driver>>,
         pc' = "after" /\ Continues' => Unused # {},
         pc' = "returned" => UNCHANGED <<pc, finish, result>>,
         \/ UNCHANGED <<pc, finish>>
         \/ pc \in Working /\ pc' = "after"
         \/ pc \in Working \ {"after"} /\ pc' \in Working \ {"after"} /\ UNCHANGED finish
  PROVE  QInv'
<1>a. MoreTypes /\ Due /\ Driving
  BY DEF QInv
<1>1. Seats' /\ Waiters' /\ Alive'
  BY SameSeats
<1>2. Driving'
  BY <1>a DEF Driving, Working
<1>3. Due'
  <2>1. Unused' = Unused
    BY DEF Unused
  <2>2. CASE pc' = "after"
    BY <2>1, <2>2 DEF Due
  <2>3. CASE pc' # "after"
    <3>1. finish' = finish /\ (Continues' <=> Continues)
      BY <2>3 DEF Continues
    <3>2. pc' = pc \/ (pc \in Working \ {"after"} /\ pc' \in Working \ {"after"})
      BY <2>3
    <3>3. \A i \in Requests : IsDue(i) /\ pc \in {"begin", "hooks", "llm", "recovering"} => IsDue(i)'
      BY <3>2 DEF IsDue, aborted, Working
    <3> QED
      BY <2>3, <3>1, <3>2, <3>3, <1>a DEF Due, Working
  <2> QED
    BY <2>2, <2>3
<1> QED
  BY <1>1, <1>2, <1>3 DEF QInv

(* The step's own signal cut it short: the turn goes on without it.  What it *)
(* was to show the model was asked for by a request nobody can cancel.       *)
LEMMA StepAbortSeats ==
  ASSUME QInv, MoreTypes', pc \in {"hooks", "llm", "after"}, pc' = "begin", driver' = NoReq,
         step[driver].state = "cancelled", finish' = (IF pc = "after" THEN NoFinish ELSE finish),
         UNCHANGED <<req, step, queue, standalone, turn, active, result>>
  PROVE  QInv'
<1>a. MoreTypes /\ Due /\ Driving
  BY DEF QInv
<1>1. Seats' /\ Waiters' /\ Alive'
  BY SameSeats
<1>2. Driving'
  BY DEF Driving, Working
<1>3. Due'
  <2>1. CASE pc = "after"
    BY <2>1 DEF Due, Continues, NoFinish
  <2>2. CASE pc # "after"
    <3>1. Continues' <=> Continues
      BY <2>2 DEF Continues
    <3>2. ASSUME NEW i \in Requests, IsDue(i) PROVE IsDue(i)'
      BY <3>2, <1>a DEF IsDue, aborted, Driving, Working
    <3> QED
      BY <2>2, <3>1, <3>2, <1>a DEF Due
  <2> QED
    BY <2>1, <2>2
<1> QED
  BY <1>1, <1>2, <1>3 DEF QInv

(* A step finishes and the turn goes on, with a continuation if one is due.  *)
LEMMA CompleteSeats ==
  ASSUME IInv, QInv, MoreTypes', CompleteStep
  PROVE  QInv'
<1>a. MoreTypes /\ Due /\ Driving /\ req \in ReqType
  BY DEF QInv, IInv, Types
<1>1. /\ pc = "after" /\ driver' = NoReq /\ UNCHANGED <<standalone, turn, active, finish>>
      /\ Continues' <=> Continues
  BY DEF CompleteStep, turnVars, Continues
<1>2. driver \in Requests /\ ~Pending(driver) /\ req[driver].kind # "none"
  BY <1>1, <1>a DEF Driving, Working, Pending
<1> DEFINE done == [step EXCEPT ![driver].state = "completed"]
<1>3. \A i \in Requests : /\ done[i].turn = step[i].turn
                          /\ done[i] = step[i] \/ (~Pending(i) /\ done[i].state = "completed")
  BY <1>2, <1>a DEF MoreTypes, StepType
<1>4. active \in TurnIds /\ turn[active] \in Opened
  BY <1>1, Running DEF Opened
<1>5. CASE finish.reason = "filtered" \/ finish.hooks = "stopTurn"
  <2>1. ~Continues
    BY <1>5 DEF Continues
  <2>2. step' = done /\ \E r : ReturnRun(r)
    BY <1>5, <2>1 DEF CompleteStep
  <2> HIDE DEF done
  <2> QED
    BY <1>1, <1>3, <2>1, <2>2, ReturnSeats
<1>6. CASE ~(finish.reason = "filtered" \/ finish.hooks = "stopTurn") /\ ~Continues
  <2>1. step' = done /\ UNCHANGED <<req, queue>> /\ pc' = "begin"
    BY <1>6 DEF CompleteStep
  <2>2. \A i \in Requests : /\ step'[i].turn = step[i].turn
                            /\ step'[i] = step[i] \/ (~Pending(i) /\ step'[i].state \notin {"queued", "running"})
    BY <1>3, <2>1
  <2> HIDE DEF done
  <2>3. Seats' /\ Waiters' /\ Alive'
    BY <1>1, <2>1, <2>2, SameSeats
  <2>4. Driving' /\ Due'
    BY <1>1, <1>6, <2>1 DEF Driving, Due, Working
  <2> QED
    BY <2>3, <2>4 DEF QInv
<1>7. CASE ~(finish.reason = "filtered" \/ finish.hooks = "stopTurn") /\ Continues
  <2> DEFINE n == NextReq
  <2>1. /\ step' = [done EXCEPT ![n] = AssignedTo(active)] /\ req' = Create(n, "continuation")
        /\ queue' = [queue EXCEPT ![active] = Append(queue[active], n)] /\ pc' = "begin"
    BY <1>7 DEF CompleteStep
  <2>2. Unused # {} /\ "continuation" \in Kinds
    BY <1>1, <1>7, <1>a DEF Due, Kinds
  <2>3. /\ n \in Requests /\ req[n].kind = "none"
        /\ \A j \in Requests : req'[j] = IF j = n THEN [kind |-> "continuation", state |-> "pending"] ELSE req[j]
        /\ \A t \in TurnIds : /\ Distinct(queue'[t])
                              /\ \A j : j \in Range(queue'[t]) <=> j \in Range(queue[t]) \/ (t = active /\ j = n)
    BY <1>4, <2>1, <2>2, <1>a, JoinFacts
  <2> HIDE DEF n
  <2>4. step'[n] = AssignedTo(active) /\ \A j \in Requests : j # n => step'[j] = done[j]
    BY <2>1, <2>3, <1>a DEF MoreTypes
  <2> HIDE DEF done
  <2>5. \A j \in Requests : j # n => /\ step'[j].turn = step[j].turn
                                     /\ step'[j] = step[j] \/ (~Pending(j) /\ step'[j].state = "completed")
    BY <1>3, <2>4
  <2>6. Seats' /\ Waiters' /\ Alive'
    <3>1. JoinChanges(n, "continuation")
      BY <2>2, <2>3, <2>4, <2>5 DEF JoinChanges, Kinds
    <3> QED
      BY <1>1, <1>4, <3>1, JoinSeats
  <2>7. Driving'
    BY <2>1 DEF Driving, Working
  <2>8. \A i \in Requests : i = n => IsDue(i)'
    BY <1>1, <1>4, <2>3 DEF IsDue, aborted
  <2>9. Due'
    BY <2>1, <2>3, <2>8 DEF Due
  <2> QED
    BY <2>6, <2>7, <2>9 DEF QInv
<1> QED
  BY <1>5, <1>6, <1>7

(* The driver is one of the batch's requests.                                *)
LEMMA DriverIsFirst ==
  ASSUME NEW T, NEW items \in Seq(T), items # <<>>
  PROVE  BatchDriver(items) \in Range(items)
<1> DEFINE at == {n \in DOMAIN items : ~mergeable(items[n])}
<1>1. DOMAIN items \subseteq Nat /\ 1 \in DOMAIN items
  BY DEF Range
<1>2. CASE at = {}
  BY <1>1, <1>2 DEF BatchDriver, Range
<1>3. CASE at # {}
  <2>1. \E n \in at : \A m \in at : n <= m
    <3>1. at \in SUBSET Nat
      BY <1>1
    <3> HIDE DEF at
    <3> QED
      BY <1>3, <3>1, LeastExists
  <2>2. (CHOOSE n \in at : \A m \in at : n <= m) \in at
    <3> HIDE DEF at
    <3> QED
      BY <2>1
  <2>3. BatchDriver(items) = items[CHOOSE n \in at : \A m \in at : n <= m]
    BY <1>3 DEF BatchDriver
  <2>4. (CHOOSE n \in at : \A m \in at : n <= m) \in DOMAIN items
    BY <2>2
  <2> QED
    BY <2>3, <2>4 DEF Range
<1> QED
  BY <1>2, <1>3

(* A step begins with the batch B of the turn's live requests, driven by d.  *)
StepChanges(d, B) ==
  /\ d \in B /\ B \subseteq Range(queue[active]) \cap Wanted
  /\ \A i \in B : mergeable(i) \/ i = d
  /\ \A t \in TurnIds : /\ Distinct(queue'[t])
                        /\ \A j : j \in Range(queue'[t]) <=>
                             j \in Range(queue[t]) /\ (t = active => j \in Wanted /\ j \notin B)
  /\ \A i \in Requests : /\ step'[i].turn = step[i].turn
                         /\ step'[i] = step[i] \/ (i = d /\ step'[i].state = "running")
  /\ \A i \in Requests : /\ req'[i].kind = req[i].kind
                         /\ req'[i].state = IF i \in B /\ req[i].state = "pending" THEN "materialized" ELSE req[i].state
  /\ step'[d].state = "running"
  /\ driver' = d /\ pc' = "hooks"

LEMMA BeginFacts ==
  ASSUME IInv, QInv, BeginStep
  PROVE  \E d, B : StepChanges(d, B)
<1> DEFINE items == Only(queue[active], Wanted)
           d == BatchDriver(items)
           B == {d} \cup {i \in Range(items) : mergeable(i)}
<1>a. MoreTypes /\ Seats /\ req \in ReqType /\ active \in TurnIds
  BY Running DEF QInv, IInv, Types, BeginStep
<1>1. /\ items # <<>> /\ queue' = [queue EXCEPT ![active] = Only(items, Requests \ B)]
      /\ step' = [step EXCEPT ![d].state = "running"]
      /\ req' = [i \in Requests |-> IF i \in B /\ req[i].state = "pending"
                                    THEN [req[i] EXCEPT !.state = "materialized"] ELSE req[i]]
      /\ driver' = d /\ pc' = "hooks"
  BY DEF BeginStep, MayBegin, Live
<1>2. /\ items \in Seq(Requests) /\ Distinct(items) /\ Range(items) = Range(queue[active]) \cap Wanted
      /\ Range(items) \subseteq Requests
  <2>1. Range(queue[active]) \subseteq Requests
    BY <1>a, RangeIn DEF MoreTypes
  <2> QED
    BY <1>a, <2>1, OnlyOfQueue
<1>3. d \in Range(items)
  <2> HIDE DEF items
  <2> QED
    BY <1>1, <1>2, DriverIsFirst
<1> DEFINE rest == Only(items, Requests \ B)
<1>4. rest \in Seq(Requests) /\ Distinct(rest) /\ Range(rest) = Range(items) \cap (Requests \ B)
  <2> HIDE DEF items, B
  <2> QED
    BY <1>2, OnlyProperties, OnlyDistinct
<1>5. d \in B /\ B \subseteq Range(items) /\ \A i \in B : mergeable(i) \/ i = d
  BY <1>3
<1>6. \A t \in TurnIds : queue'[t] = IF t = active THEN rest ELSE queue[t]
  BY <1>1, <1>a DEF MoreTypes
<1> HIDE DEF items, d, B, rest
<1>7. \A j : j \in Range(rest) <=> j \in Range(queue[active]) /\ j \in Wanted /\ j \notin B
  BY <1>2, <1>4
<1>8. ASSUME NEW t \in TurnIds
      PROVE  /\ Distinct(queue'[t])
             /\ \A j : j \in Range(queue'[t]) <=>
                  j \in Range(queue[t]) /\ (t = active => j \in Wanted /\ j \notin B)
  <2>1. CASE t = active
    <3>1. queue'[t] = rest
      BY <1>6, <2>1
    <3> QED
      BY <1>4, <1>7, <2>1, <3>1
  <2>2. CASE t # active
    <3>1. queue'[t] = queue[t] /\ Distinct(queue[t])
      BY <1>6, <2>2, <1>a DEF Seats
    <3> QED
      BY <2>2, <3>1
  <2> QED
    BY <2>1, <2>2
<1>9. /\ \A i \in Requests : /\ step'[i].turn = step[i].turn
                             /\ step'[i] = step[i] \/ (i = d /\ step'[i].state = "running")
      /\ step'[d].state = "running"
  <2>1. d \in Requests
    BY <1>2, <1>3
  <2> QED
    BY <1>1, <2>1, <1>a DEF MoreTypes, StepType
<1>10. \A i \in Requests : /\ req'[i].kind = req[i].kind
                           /\ req'[i].state = IF i \in B /\ req[i].state = "pending" THEN "materialized" ELSE req[i].state
  BY <1>1, <1>a DEF ReqType
<1>11. StepChanges(d, B)
  BY <1>1, <1>2, <1>5, <1>8, <1>9, <1>10 DEF StepChanges
<1> QED
  BY <1>11

LEMMA BeginSeats ==
  ASSUME IInv, QInv, MoreTypes', pc = "begin", NEW d, NEW B, StepChanges(d, B),
         UNCHANGED <<standalone, turn, active, finish>>
  PROVE  QInv'
<1>a. MoreTypes /\ Seats /\ Waiters /\ Alive /\ Due /\ req \in ReqType
      /\ active \in TurnIds /\ turn[active] \in Opened
  BY Running DEF QInv, IInv, Types, Opened
<1>1. \A t \in TurnIds : Range(queue[t]) \subseteq Requests
  BY <1>a, RangeIn DEF MoreTypes
<1>2. d \in B /\ B \subseteq Range(queue[active]) /\ B \subseteq Requests /\ \A i \in B : mergeable(i) \/ i = d
  BY <1>1, <1>a DEF StepChanges
<1>3. /\ \A i \in Requests : step'[i].turn = step[i].turn
      /\ step'[d].state = "running"
      /\ \A i \in Requests : i # d => step'[i] = step[i]
  BY DEF StepChanges
<1>4. \A i \in Requests : /\ req'[i].kind = req[i].kind
                          /\ req'[i].state = IF i \in B /\ req[i].state = "pending" THEN "materialized" ELSE req[i].state
  BY DEF StepChanges
<1>5. \A t \in TurnIds : /\ Distinct(queue'[t])
                         /\ \A j : j \in Range(queue'[t]) <=>
                              j \in Range(queue[t]) /\ (t = active => j \in Wanted /\ j \notin B)
  BY DEF StepChanges
<1>6. driver' = d /\ pc' = "hooks" /\ d \in Wanted
  BY DEF StepChanges
<1>7. Seats'
  <2>1. \A j \in Range(standalone) : Sits(j, NoTurn)'
    <3>1. Range(standalone) \subseteq Requests
      BY <1>a, RangeIn DEF MoreTypes
    <3> QED
      BY <1>3, <1>4, <3>1, <1>a DEF Seats, Sits
  <2>2. ASSUME NEW t \in TurnIds, NEW j \in Range(queue'[t]) PROVE Sits(j, t)'
    <3>1. j \in Range(queue[t]) /\ j \in Requests
      BY <1>1, <1>5, <2>2
    <3> QED
      BY <1>3, <1>4, <3>1, <1>a DEF Seats, Sits
  <2>3. \A j \in Requests : req'[j].kind = "none" => step'[j].turn = NoTurn
    BY <1>3, <1>4, <1>a DEF Seats
  <2>4. Distinct(standalone) /\ standalone' = standalone /\ \A t \in TurnIds : Distinct(queue'[t])
    BY <1>5, <1>a DEF Seats
  <2> QED
    BY <2>1, <2>2, <2>3, <2>4 DEF Seats
<1>8. Waiters'
  <2> SUFFICES ASSUME NEW i \in Requests, Pending(i)'
               PROVE  \/ i \in Range(standalone)
                      \/ step'[i].turn \in TurnIds /\ i \in Range(queue'[step'[i].turn]) /\ step'[i].state = "queued"
    BY DEF Waiters
  <2>1. Pending(i) /\ i \notin B /\ i \in Wanted
    BY <1>4 DEF Pending, Wanted, aborted
  <2>2. step'[i] = step[i]
    BY <1>2, <1>3, <2>1
  <2>3. \/ i \in Range(standalone)
        \/ step[i].turn \in TurnIds /\ i \in Range(queue[step[i].turn]) /\ step[i].state = "queued"
    BY <2>1, <1>a DEF Waiters
  <2> QED
    BY <1>5, <2>1, <2>2, <2>3
<1>9. Alive'
  <2>1. step[d].turn = active
    BY <1>2, <1>a DEF Seats, Sits
  <2> QED
    BY <1>2, <1>3, <2>1, <1>a DEF Alive
<1>10. Driving'
  <2>1. step'[d].turn = active /\ req[d].kind # "none"
    BY <1>2, <1>3, <1>a DEF Seats, Sits
  <2>2. req'[d].state = "materialized"
    BY <1>2, <1>4, <1>6, <1>a DEF Wanted, aborted, ReqType
  <2>3. d \notin Range(queue'[active])
    BY <1>2, <1>5, <1>a
  <2> QED
    BY <1>2, <1>3, <1>4, <1>6, <2>1, <2>2, <2>3 DEF Driving
<1>11. Due'
  <2>1. Continues' <=> Continues
    BY DEF Continues
  <2>2. ASSUME NEW i \in Requests, IsDue(i) PROVE IsDue(i)'
    <3>1. i \in Range(queue[active]) /\ i \in Wanted /\ req[i].kind = "continuation" /\ ~mergeable(i)
      BY <2>2 DEF IsDue, Wanted, mergeable
    <3>2. i = d \/ i \notin B
      BY <1>2, <3>1
    <3>3. i = d \/ i \in Range(queue'[active])
      BY <1>5, <3>1, <3>2, <1>a
    <3>4. req'[i].kind = "continuation" /\ ~aborted(i)'
      BY <1>4, <3>1, <2>2 DEF aborted, IsDue
    <3> QED
      BY <1>6, <3>3, <3>4 DEF IsDue
  <2> QED
    BY <1>6, <2>1, <2>2, <1>a DEF Due
<1> QED
  BY <1>7, <1>8, <1>9, <1>10, <1>11 DEF QInv

(* A failed step is asked for again, ahead of what waits.                    *)
LEMMA RetrySeats ==
  ASSUME IInv, QInv, MoreTypes', Retry
  PROVE  QInv'
<1>a. MoreTypes /\ Seats /\ Waiters /\ Alive /\ Driving /\ Due /\ active \in TurnIds /\ turn[active] \in Opened
  BY Running DEF QInv, Retry, Opened
<1>1. /\ pc = "recovering" /\ pc' = "begin" /\ driver' = NoReq
      /\ queue' = [queue EXCEPT ![active] = <<driver>> \o queue[active]]
      /\ step' = [step EXCEPT ![driver].state = "queued"]
      /\ UNCHANGED <<req, standalone, turn, active, finish>>
  BY DEF Retry, turnVars
<1>2. driver \in Requests /\ req[driver].kind # "none" /\ ~Pending(driver) /\ ~aborted(driver)
      /\ step[driver].turn = active /\ driver \notin Range(queue[active])
  BY <1>1, <1>a DEF Driving, Working, Pending, aborted
<1>3. /\ Distinct(<<driver>> \o queue[active])
      /\ \A y : y \in Range(<<driver>> \o queue[active]) <=> y = driver \/ y \in Range(queue[active])
  BY <1>2, <1>a, Prepend DEF MoreTypes, Seats
<1>4. ASSUME NEW t \in TurnIds
      PROVE  /\ Distinct(queue'[t])
             /\ \A j : j \in Range(queue'[t]) <=> j \in Range(queue[t]) \/ (t = active /\ j = driver)
  <2>1. CASE t = active
    <3>1. queue'[t] = <<driver>> \o queue[active]
      BY <1>1, <2>1, <1>a DEF MoreTypes
    <3> QED
      BY <1>3, <2>1, <3>1
  <2>2. CASE t # active
    <3>1. queue'[t] = queue[t] /\ Distinct(queue[t])
      BY <1>1, <2>2, <1>a DEF MoreTypes, Seats
    <3> QED
      BY <2>2, <3>1
  <2> QED
    BY <2>1, <2>2
<1>5. \A i \in Requests : /\ step'[i].turn = step[i].turn
                          /\ i # driver => step'[i] = step[i]
  BY <1>1, <1>2, <1>a DEF MoreTypes, StepType
<1>6. UNCHANGED <<req, standalone, turn, active, finish>> /\ pc = "recovering" /\ pc' = "begin"
  BY <1>1
<1>7. Seats'
  <2>1. \A t \in TurnIds : Range(queue[t]) \subseteq Requests
    BY <1>a, RangeIn DEF MoreTypes
  <2>2. ASSUME NEW t \in TurnIds, NEW j \in Range(queue'[t]) PROVE Sits(j, t)'
    <3>1. j \in Requests /\ Sits(j, t)
      BY <1>2, <1>4, <2>1, <2>2, <1>a DEF Seats, Sits
    <3> QED
      BY <1>5, <1>6, <3>1 DEF Sits
  <2>3. \A j \in Range(standalone) : Sits(j, NoTurn)'
    <3>1. Range(standalone) \subseteq Requests
      BY <1>a, RangeIn DEF MoreTypes
    <3> QED
      BY <1>5, <1>6, <3>1, <1>a DEF Seats, Sits
  <2>4. (\A j \in Requests : req[j].kind = "none" => step'[j].turn = NoTurn) /\ Distinct(standalone)
    BY <1>5, <1>a DEF Seats
  <2> QED
    BY <1>4, <1>6, <2>2, <2>3, <2>4 DEF Seats
<1>8. Waiters'
  <2> SUFFICES ASSUME NEW i \in Requests, Pending(i)
               PROVE  \/ i \in Range(standalone)
                      \/ step'[i].turn \in TurnIds /\ i \in Range(queue'[step'[i].turn]) /\ step'[i].state = "queued"
    BY <1>6 DEF Waiters, Pending
  <2>1. step'[i] = step[i]
    BY <1>2, <1>5
  <2> QED
    BY <1>4, <2>1, <1>a DEF Waiters
<1>9. Alive'
  BY <1>2, <1>5, <1>6, <1>a DEF Alive
<1>10. Driving' /\ Due'
  <2>1. ASSUME NEW i \in Requests, IsDue(i) PROVE IsDue(i)'
    BY <1>4, <1>6, <2>1, <1>a DEF IsDue, aborted
  <2> QED
    BY <1>6, <2>1, <1>a DEF Driving, Due, Working, Continues
<1> QED
  BY <1>7, <1>8, <1>9, <1>10 DEF QInv

(* The turn is released: what it still had is aborted and cancelled.         *)
LEMMA ReleaseSeats ==
  ASSUME IInv, QInv, MoreTypes', ReleaseActiveTurn
  PROVE  QInv'
<1>a. MoreTypes /\ Seats /\ Waiters /\ Alive /\ Types /\ active \in TurnIds
  BY Running DEF QInv, IInv, ReleaseActiveTurn
<1>1. /\ pc' = "pump" /\ finish' = NoFinish /\ UNCHANGED standalone
      /\ turn' = [turn EXCEPT ![active] = result] /\ queue' = [queue EXCEPT ![active] = <<>>]
      /\ step' = CancelSteps(LiveSteps(active)) /\ req' = AbortReqs(LiveSteps(active))
  BY DEF ReleaseActiveTurn
<1>2. \A i \in Requests : i \in LiveSteps(active) <=> step[i].turn = active /\ step[i].state \in {"queued", "running"}
  BY DEF LiveSteps
<1>3. \A i \in Requests : /\ req'[i].kind = req[i].kind
                          /\ req'[i] = req[i] \/ req'[i].state = "aborted"
                          /\ i \in LiveSteps(active) => req'[i].state # "pending"
  BY <1>1, <1>a DEF AbortReqs, Types, ReqType
<1>4. \A i \in Requests : /\ step'[i].turn = step[i].turn
                          /\ i \notin LiveSteps(active) => step'[i] = step[i]
                          /\ i \in LiveSteps(active) => step'[i].state = "cancelled"
  BY <1>1, <1>a DEF CancelSteps, MoreTypes, StepType
<1>5. /\ \A t \in TurnIds : queue'[t] = IF t = active THEN <<>> ELSE queue[t]
      /\ \A t \in TurnIds : t # active => turn'[t] = turn[t]
  BY <1>1, <1>a DEF MoreTypes, Types
<1>6. Range(<<>>) = {} /\ Distinct(<<>>)
  BY DEF Range, Distinct
<1>7. Seats'
  <2>1. \A t \in TurnIds : Range(queue[t]) \subseteq Requests /\ Range(standalone) \subseteq Requests
    BY <1>a, RangeIn DEF MoreTypes
  <2>2. ASSUME NEW t \in TurnIds PROVE Distinct(queue'[t]) /\ \A j \in Range(queue'[t]) : Sits(j, t)'
    <3>1. CASE t = active
      BY <1>5, <1>6, <3>1
    <3>2. CASE t # active
      <4>1. queue'[t] = queue[t]
        BY <1>5, <3>2
      <4> QED
        BY <1>3, <1>4, <2>1, <4>1, <1>a DEF Seats, Sits
    <3> QED
      BY <3>1, <3>2
  <2>3. \A j \in Range(standalone) : Sits(j, NoTurn)'
    BY <1>3, <1>4, <2>1, <1>a DEF Seats, Sits
  <2>4. (\A j \in Requests : req'[j].kind = "none" => step'[j].turn = NoTurn) /\ Distinct(standalone)
    BY <1>3, <1>4, <1>a DEF Seats
  <2> QED
    BY <1>1, <2>2, <2>3, <2>4 DEF Seats
<1>8. Waiters'
  <2> SUFFICES ASSUME NEW i \in Requests, Pending(i)'
               PROVE  \/ i \in Range(standalone)
                      \/ step'[i].turn \in TurnIds /\ i \in Range(queue'[step'[i].turn]) /\ step'[i].state = "queued"
    BY <1>1 DEF Waiters
  <2>1. Pending(i) /\ i \notin LiveSteps(active)
    BY <1>3 DEF Pending
  <2>2. step'[i] = step[i]
    BY <1>4, <2>1
  <2>3. \/ i \in Range(standalone)
        \/ step[i].turn \in TurnIds /\ i \in Range(queue[step[i].turn]) /\ step[i].state = "queued"
    BY <2>1, <1>a DEF Waiters
  <2>4. step[i].turn = active => step[i].state # "queued"
    BY <1>2, <2>1
  <2> QED
    BY <1>5, <2>2, <2>3, <2>4
<1>9. Alive'
  BY <1>2, <1>4, <1>5, <1>a DEF Alive
<1>10. Driving' /\ Due'
  BY <1>1 DEF Driving, Due, Working, Continues, NoFinish
<1> QED
  BY <1>7, <1>8, <1>9, <1>10 DEF QInv

(* A restart begins with nothing.                                            *)
LEMMA BlankSeats ==
  ASSUME req = NoReqs, step = NoSteps, queue = NoQueues, standalone = <<>>, driver = NoReq,
         pc = "idle", finish = NoFinish, result = "none"
  PROVE  QInv
<1>1. Range(<<>>) = {} /\ Distinct(<<>>)
  BY DEF Range, Distinct
<1>2. MoreTypes
  BY DEF MoreTypes, NoSteps, NoStep, NoQueues, NoFinish, StepType, FinishType
<1>3. Seats
  BY <1>1 DEF Seats, NoQueues, NoSteps, NoStep
<1>4. Waiters /\ Alive
  BY DEF Waiters, Alive, Pending, NoReqs, NoSteps, NoStep
<1>5. Driving /\ Due
  BY DEF Driving, Due, Working, NoFinish, Continues
<1> QED
  BY <1>2, <1>3, <1>4, <1>5 DEF QInv

(* Withdrawing waiting turns, steps or requests.                             *)
LEMMA CancelSeats ==
  ASSUME IInv, QInv, MoreTypes', Cancel
  PROVE  QInv'
<1>a. MoreTypes /\ Seats /\ Waiters /\ Alive /\ Due /\ Types /\ Waits
  BY DEF QInv, IInv
<1>1. CASE CancelActiveTurn
  <2>1. UNCHANGED <<req, step, queue, standalone, turn, active, driver, pc, finish, result>>
    BY <1>1 DEF CancelActiveTurn, reqVars, runVars
  <2>2. pc' = "after" /\ Continues' => Unused # {}
    BY <2>1, <1>a DEF Due, Continues
  <2> QED
    BY <2>1, <2>2, RunGoesOn
<1>2. ASSUME NEW t \in TurnIds, CancelQueuedTurn(t) PROVE QInv'
  <2> DEFINE A == StepsOf({t})
  <2>1. /\ step' = CancelSteps(A) /\ req' = AbortReqs(A) /\ t \in Range(pendingTurns)
        /\ turn' = [u \in TurnIds |-> IF u \in {t} THEN "cancelled" ELSE turn[u]]
        /\ UNCHANGED <<queue, standalone, active, pc, driver, finish, result>>
    BY <1>2 DEF CancelQueuedTurn, DropQueuedTurns, runVars, Range
  <2>2. A = LiveSteps(t)
    BY DEF StepsOf
  <2>3. active # t
    BY <2>1, <1>a DEF Waits, Range
  <2>4. /\ A \in SUBSET Requests /\ \A i \in A : step[i].turn # active
        /\ \A i \in Requests : step[i].turn \in {t} /\ step[i].state \in {"queued", "running"} => i \in A
    BY <2>2, <2>3 DEF LiveSteps
  <2> HIDE DEF A
  <2> QED
    BY <2>1, <2>3, <2>4, WithdrawSeats
<1>3. ASSUME NEW i \in Requests, CancelStep(i) PROVE QInv'
  <2>1. /\ step' = CancelSteps({i}) /\ req' = AbortReqs({i}) /\ req[i].kind # "continuation"
        /\ UNCHANGED <<queue, standalone, turn, active, pc, driver, finish, result>>
    BY <1>3 DEF CancelStep, turnVars, runVars
  <2>2. {i} \in SUBSET Requests /\ {} \in SUBSET TurnIds
    OBVIOUS
  <2> QED
    BY <2>1, <2>2, WithdrawSeats
<1>4. ASSUME NEW i \in Requests, AbortStandalone(i) PROVE QInv'
  <2>1. /\ req' = AbortReqs({i}) /\ i \in Range(standalone)
        /\ UNCHANGED <<step, queue, standalone, turn, active, pc, driver, finish, result>>
    BY <1>4 DEF AbortStandalone, turnVars, runVars
  <2>2. {i} \in SUBSET Requests /\ {} \in SUBSET TurnIds /\ {} \in SUBSET {i}
    OBVIOUS
  <2>3. step' = CancelSteps({})
    BY <2>1, <1>a DEF CancelSteps, MoreTypes
  <2>4. step[i].turn = NoTurn
    BY <2>1, <1>a DEF Seats, Sits
  <2> QED
    BY <2>1, <2>2, <2>3, <2>4, WithdrawSeats
<1> QED
  BY <1>1, <1>2, <1>3, <1>4 DEF Cancel

LEMMA DisposeSeats ==
  ASSUME IInv, QInv, MoreTypes', Dispose
  PROVE  QInv'
<1>a. MoreTypes /\ Seats /\ Types /\ Waits
  BY DEF QInv, IInv
<1> DEFINE T == Range(pendingTurns)
           C == StepsOf(T)
           A == C \cup Range(standalone)
<1>1. /\ step' = CancelSteps(C) /\ req' = AbortReqs(A) /\ standalone' = <<>>
      /\ turn' = [u \in TurnIds |-> IF u \in T THEN "cancelled" ELSE turn[u]]
      /\ UNCHANGED <<queue, active, pc, driver, finish, result>>
  BY DEF Dispose, DropQueuedTurns, runVars
<1>2. T \in SUBSET TurnIds /\ active \notin T
  <2>1. T \subseteq TurnIds
    BY <1>a, RangeIn DEF Types
  <2>2. \A t \in T : turn[t] = "queued"
    BY <2>1, <1>a DEF Waits, Range
  <2> QED
    BY <2>1, <2>2, <1>a DEF Waits
<1>3. Range(standalone) \subseteq Requests /\ \A i \in Range(standalone) : step[i].turn = NoTurn
  BY <1>a, RangeIn DEF MoreTypes, Seats, Sits
<1> HIDE DEF T
<1>4. C \in SUBSET Requests /\ \A i \in Requests : i \in C <=> step[i].turn \in T /\ step[i].state \in {"queued", "running"}
  BY DEF StepsOf, LiveSteps
<1> HIDE DEF C
<1>5. A \in SUBSET Requests /\ C \in SUBSET A /\ Range(standalone) \subseteq A
      /\ \A i \in A : step[i].turn # active \/ active = NoTurn
  BY <1>2, <1>3, <1>4
<1> HIDE DEF A
<1>6. \A t \in TurnIds : t \notin T => turn'[t] = turn[t]
  BY <1>1
<1> QED
  BY <1>1, <1>2, <1>4, <1>5, <1>6, WithdrawSeats

-----------------------------------------------------------------------------
(* The bound on requests leaves one for the continuation that is due.        *)
LEMMA OneLeft ==
  ASSUME req \in ReqType, Enqueueable, NEW k \in Kinds, req' = Create(NextReq, k)
  PROVE  Unused # {} /\ (pc = "after" /\ Continues => Unused' # {})
<1>1. IsFiniteSet(Unused) /\ Cardinality(Unused) \in Nat
  <2>1. IsFiniteSet(Requests) /\ Unused \subseteq Requests
    BY LoopAssumption, FS_Interval DEF Requests, Unused
  <2> QED
    BY <2>1, FS_Subset, FS_CardinalityType
<1>2. Cardinality(Unused) > 0 /\ (pc = "after" /\ Continues => Cardinality(Unused) > 1)
  BY <1>1 DEF Enqueueable
<1>3. Unused # {}
  BY <1>2, FS_EmptySet
<1>4. NextReq \in Unused /\ k # "none"
  BY <1>3, NextReqUnused DEF Kinds
<1>5. Unused' = Unused \ {NextReq}
  BY <1>4 DEF Unused, Create, ReqType
<1>6. Cardinality(Unused') = Cardinality(Unused) - 1
  BY <1>1, <1>4, <1>5, FS_RemoveElement
<1> QED
  BY <1>1, <1>2, <1>3, <1>6, FS_EmptySet

LEMMA EnqueueSeats ==
  ASSUME IInv, QInv, MoreTypes', Enqueue
  PROVE  QInv'
<1>a. req \in ReqType /\ Enqueueable /\ {"prompt", "inject", "steer", "next"} \subseteq Kinds
  BY DEF IInv, Types, Kinds, Enqueue, EnqueuePrompt, EnqueueInject, EnqueueSteer, EnqueueNext
<1>1. ASSUME NEW k \in Kinds, JoinActive(k) PROVE QInv'
  BY <1>1, <1>a, OneLeft, JoinActiveSeats DEF JoinActive
<1>2. ASSUME NEW k \in Kinds, OpenTurn(k) PROVE QInv'
  <2>1. Unused # {} /\ (pc = "after" /\ Continues => Unused' # {})
    BY <1>2, <1>a, OneLeft DEF OpenTurn
  <2>2. pc' = (IF active = NoTurn THEN "pump" ELSE pc) /\ UNCHANGED <<active, driver, finish, result>>
    BY <1>2 DEF OpenTurn
  <2> QED
    BY <1>2, <2>1, <2>2, OpenFacts, FreshTurn, OpenSeats
<1>3. CASE /\ active = NoTurn /\ req' = Create(NextReq, "next") /\ standalone' = Append(standalone, NextReq)
           /\ UNCHANGED <<step, queue, turnVars, runVars, idVars, envVars>>
  <2>1. UNCHANGED <<step, queue, turn, active, pc, driver, finish, result>>
    BY <1>3 DEF turnVars, runVars
  <2>2. Unused # {}
    BY <1>3, <1>a, OneLeft
  <2> QED
    BY <1>3, <1>a, <2>1, <2>2, StandaloneSeats
<1> QED
  BY <1>1, <1>2, <1>3, <1>a DEF Enqueue, EnqueuePrompt, EnqueueInject, EnqueueSteer, EnqueueNext

LEMMA StepProgressSeats ==
  ASSUME IInv, QInv, MoreTypes', StepProgress
  PROVE  QInv'
<1>a. MoreTypes /\ Due /\ Driving
  BY DEF QInv
<1>b. ASSUME NEW r, ReturnRun(r), r # "completed", pc \in Working, finish' \in {finish, NoFinish},
             UNCHANGED <<step, standalone, turn, active>>
      PROVE  QInv'
  <2>1. pc \notin {"idle", "pump"}
    BY <1>b DEF Working
  <2> QED
    BY <1>b, <2>1, ReturnSeats
<1>1. CASE StepBegins
  <2>1. /\ pc = "hooks" /\ pc' = "llm"
        /\ UNCHANGED <<req, step, queue, standalone, turn, active, driver, finish, result>>
    BY <1>1 DEF StepBegins, reqVars, turnVars
  <2> QED
    BY <2>1, RunGoesOn DEF Working
<1>2. ASSUME NEW reason, NEW hooks, StepFinishes(reason, hooks) PROVE QInv'
  <2>1. /\ pc = "llm" /\ pc' = "after" /\ finish' = [reason |-> reason, hooks |-> hooks]
        /\ reason = "tool_calls" => Unused # {}
        /\ UNCHANGED <<req, step, queue, standalone, turn, active, driver, result>>
    BY <1>2 DEF StepFinishes, reqVars, turnVars
  <2>2. Continues' => Unused # {}
    BY <2>1 DEF Continues
  <2> QED
    BY <2>1, <2>2, RunGoesOn DEF Working
<1>3. CASE CompleteStep
  BY <1>3, CompleteSeats
<1>4. CASE StepAborts
  <2>1. /\ pc \in {"hooks", "llm", "after"} /\ CancellationOf
        /\ finish' = IF pc = "after" THEN NoFinish ELSE finish
        /\ UNCHANGED <<step, standalone, turn, active>>
    BY <1>4 DEF StepAborts, turnVars
  <2>2. CASE ReturnRun("cancelled")
    BY <2>1, <2>2, <1>b DEF Working
  <2>3. CASE ~ReturnRun("cancelled")
    BY <2>1, <2>3, StepAbortSeats DEF CancellationOf
  <2> QED
    BY <2>2, <2>3
<1>5. CASE StepFails
  <2>1. /\ pc \in Working /\ ReturnRun("failed") /\ UNCHANGED <<step, standalone, turn, active, finish>>
    BY <1>5 DEF StepFails, turnVars, Working
  <2> QED
    BY <2>1, <1>b
<1>6. CASE StepFailsRetryably
  <2>1. /\ pc = "llm" /\ UNCHANGED <<step, standalone, turn, active, driver, finish>>
        /\ ReturnRun("failed") \/ (pc' = "recovering" /\ UNCHANGED <<req, queue, result>>)
    BY <1>6 DEF StepFailsRetryably, turnVars
  <2>2. CASE ReturnRun("failed")
    BY <2>1, <2>2, <1>b DEF Working
  <2>3. CASE pc' = "recovering" /\ UNCHANGED <<req, queue, result>>
    BY <2>1, <2>3, RunGoesOn DEF Working
  <2> QED
    BY <2>1, <2>2, <2>3
<1> QED
  BY <1>1, <1>2, <1>3, <1>4, <1>5, <1>6 DEF StepProgress

LEMMA BeginKeepsSeats ==
  ASSUME IInv, QInv, MoreTypes', Begin
  PROVE  QInv'
<1>1. CASE BeginReturns
  <2>1. /\ pc = "begin" /\ UNCHANGED <<step, standalone, turn, active, finish>>
    BY <1>1 DEF BeginReturns, turnVars
  <2>2. CASE ReturnRun("cancelled") \/ ReturnRun("failed")
    BY <2>1, <2>2, ReturnSeats
  <2>3. CASE Live(active) = <<>> /\ ReturnRun("completed")
    <3>1. active \in TurnIds
      BY <2>1, Running
    <3>2. ~ \E i \in Requests : IsDue(i)
      <4>1. Range(queue[active]) \cap Wanted = {}
        <5>1. Range(Live(active)) = Range(queue[active]) \cap Wanted
          BY <3>1, OnlyOfQueue DEF Live
        <5> QED
          BY <2>3, <5>1 DEF Range
      <4> QED
        BY <2>1, <4>1 DEF IsDue, Wanted
    <3>3. ~Continues
      BY <2>1, <3>2 DEF QInv, Due
    <3> QED
      BY <2>1, <2>3, <3>3, ReturnSeats
  <2> QED
    BY <1>1, <2>2, <2>3 DEF BeginReturns
<1>2. CASE BeginStep
  <2>1. pc = "begin" /\ UNCHANGED <<standalone, turn, active, finish>>
    BY <1>2 DEF BeginStep, turnVars
  <2>2. PICK d, B : StepChanges(d, B)
    BY <1>2, BeginFacts
  <2> QED
    BY <2>1, <2>2, BeginSeats
<1> QED
  BY <1>1, <1>2 DEF Begin

LEMMA RecoverSeats ==
  ASSUME IInv, QInv, MoreTypes', Recover
  PROVE  QInv'
<1>1. CASE RecoverFails
  <2>1. /\ pc = "recovering" /\ UNCHANGED <<step, standalone, turn, active, finish>>
        /\ ReturnRun("cancelled") \/ ReturnRun("failed")
    BY <1>1 DEF RecoverFails, turnVars
  <2> QED
    BY <2>1, ReturnSeats
<1> QED
  BY <1>1, RetrySeats DEF Recover

-----------------------------------------------------------------------------
(* The variables of a run keep their types. *)

LEMMA AssignedIsStep ==
  ASSUME NEW t \in TurnIds
  PROVE  AssignedTo(t) \in StepType
BY DEF AssignedTo, StepType

LEMMA ReturnTypes ==
  ASSUME IInv, MoreTypes, NEW r \in Enders, ReturnRun(r), pc \notin {"idle", "pump"},
         step' \in [Requests -> StepType], standalone' = standalone,
         driver' \in Requests \cup {NoReq}, finish' \in FinishType
  PROVE  MoreTypes'
<1> DEFINE S == {i \in Wanted : ~(turnScoped(i) /\ req[i].state = "pending")}
<1>1. active \in TurnIds
  BY Running
<1>2. queue' = [queue EXCEPT ![active] = Only(queue[active], S)] /\ result' = r
  BY DEF ReturnRun
<1> HIDE DEF S
<1>3. Only(queue[active], S) \in Seq(Requests)
  BY <1>1, OnlyProperties DEF MoreTypes
<1> QED
  BY <1>1, <1>2, <1>3 DEF MoreTypes

LEMMA EnqueueTypes ==
  ASSUME IInv, QInv, Enqueue
  PROVE  MoreTypes'
<1>a. MoreTypes /\ req \in ReqType /\ Enqueueable /\ {"prompt", "inject", "steer", "next"} \subseteq Kinds
  BY DEF QInv, IInv, Types, Kinds, Enqueue, EnqueuePrompt, EnqueueInject, EnqueueSteer, EnqueueNext
<1>b. ASSUME NEW k \in Kinds, req' = Create(NextReq, k) PROVE NextReq \in Requests
  BY <1>b, <1>a, OneLeft, NextReqUnused
<1>1. ASSUME NEW k \in Kinds, JoinActive(k) PROVE MoreTypes'
  <2> DEFINE n == NextReq
  <2>1. /\ n \in Requests /\ active \in TurnIds
        /\ step' = [step EXCEPT ![n] = AssignedTo(active)]
        /\ queue' = [queue EXCEPT ![active] = Append(queue[active], n)]
        /\ UNCHANGED <<standalone, driver, finish, result>>
    BY <1>1, <1>b DEF JoinActive, runVars, IInv, Types
  <2> HIDE DEF n
  <2>2. AssignedTo(active) \in StepType /\ Append(queue[active], n) \in Seq(Requests)
    BY <2>1, <1>a, AssignedIsStep DEF MoreTypes
  <2> QED
    BY <2>1, <2>2, <1>a DEF MoreTypes
<1>2. ASSUME NEW k \in Kinds, OpenTurn(k) PROVE MoreTypes'
  <2> DEFINE n == NextReq
             t == reserveTurnId
             moved == Only(standalone, Wanted)
  <2>1. /\ n \in Requests /\ t \in TurnIds
        /\ queue' = [queue EXCEPT ![t] = <<n>> \o moved] /\ standalone' = <<>>
        /\ step' = [j \in Requests |-> IF j = n \/ j \in Range(moved) THEN AssignedTo(t) ELSE step[j]]
        /\ UNCHANGED <<driver, finish, result>>
    BY <1>2, <1>b, FreshTurn DEF OpenTurn
  <2>2. moved \in Seq(Requests)
    BY <1>a, OnlyProperties DEF MoreTypes
  <2> HIDE DEF n, t, moved
  <2>3. AssignedTo(t) \in StepType /\ <<n>> \o moved \in Seq(Requests)
    BY <2>1, <2>2, Prepend, AssignedIsStep
  <2>4. queue' \in [TurnIds -> Seq(Requests)] /\ <<>> \in Seq(Requests)
    BY <2>1, <2>3, <1>a DEF MoreTypes
  <2>5. step' \in [Requests -> StepType]
    BY <2>1, <2>3, <1>a DEF MoreTypes
  <2> QED
    BY <2>1, <2>4, <2>5, <1>a DEF MoreTypes
<1>3. CASE /\ req' = Create(NextReq, "next") /\ standalone' = Append(standalone, NextReq)
           /\ UNCHANGED <<step, queue, turnVars, runVars, idVars, envVars>>
  <2>1. NextReq \in Requests /\ UNCHANGED <<driver, finish, result>>
    BY <1>3, <1>a, <1>b DEF runVars
  <2> QED
    BY <1>3, <2>1, <1>a DEF MoreTypes
<1> QED
  BY <1>1, <1>2, <1>3, <1>a DEF Enqueue, EnqueuePrompt, EnqueueInject, EnqueueSteer, EnqueueNext

LEMMA CancelStepsTypes ==
  ASSUME step \in [Requests -> StepType], NEW S
  PROVE  CancelSteps(S) \in [Requests -> StepType]
BY DEF CancelSteps, StepType

LEMMA BeginTypes ==
  ASSUME IInv, QInv, Begin
  PROVE  MoreTypes'
<1>a. MoreTypes /\ pc = "begin" /\ active \in TurnIds
  BY Running DEF QInv, Begin, BeginReturns, BeginStep
<1>1. CASE BeginReturns
  <2>1. driver' = NoReq /\ UNCHANGED <<step, standalone, finish>> /\ \E r \in Enders : ReturnRun(r)
    BY <1>1 DEF BeginReturns, Enders
  <2> QED
    BY <2>1, <1>a, ReturnTypes DEF MoreTypes
<1>2. CASE BeginStep
  <2> DEFINE items == Only(queue[active], Wanted)
             d == BatchDriver(items)
             B == {d} \cup {i \in Range(items) : mergeable(i)}
  <2>1. /\ items # <<>> /\ queue' = [queue EXCEPT ![active] = Only(items, Requests \ B)]
        /\ step' = [step EXCEPT ![d].state = "running"] /\ driver' = d
        /\ UNCHANGED <<standalone, finish, result>>
    BY <1>2 DEF BeginStep, MayBegin, Live
  <2>2. items \in Seq(Requests)
    BY <1>a, OnlyProperties DEF MoreTypes
  <2> HIDE DEF items, B
  <2>3. d \in Requests
    BY <2>1, <2>2, DriverIsFirst, RangeIn
  <2>4. Only(items, Requests \ B) \in Seq(Requests)
    BY <2>2, OnlyProperties
  <2> HIDE DEF d
  <2>5. queue' \in [TurnIds -> Seq(Requests)]
    BY <2>1, <2>4, <1>a DEF MoreTypes
  <2>6. step' \in [Requests -> StepType]
    BY <2>1, <2>3, <1>a DEF MoreTypes, StepType
  <2> QED
    BY <2>1, <2>3, <2>5, <2>6, <1>a DEF MoreTypes
<1> QED
  BY <1>1, <1>2 DEF Begin

LEMMA StepProgressTypes ==
  ASSUME IInv, QInv, StepProgress
  PROVE  MoreTypes'
<1>a. MoreTypes /\ Driving /\ Due /\ NoFinish \in FinishType /\ NoReq \in Requests \cup {NoReq}
  BY DEF QInv, NoFinish, FinishType
<1>1. CASE StepBegins
  BY <1>1, <1>a DEF StepBegins, reqVars, MoreTypes
<1>2. ASSUME NEW reason \in {"stop", "tool_calls", "filtered"}, NEW hooks \in {"done", "stopTurn", "threw"},
             StepFinishes(reason, hooks)
      PROVE  MoreTypes'
  BY <1>2, <1>a DEF StepFinishes, reqVars, MoreTypes, FinishType
<1>3. CASE CompleteStep
  <2> DEFINE done == [step EXCEPT ![driver].state = "completed"]
             n == NextReq
  <2>1. /\ pc = "after" /\ driver' = NoReq /\ UNCHANGED <<standalone, finish>>
        /\ step' = IF Continues THEN [done EXCEPT ![n] = AssignedTo(active)] ELSE done
    BY <1>3 DEF CompleteStep
  <2>2. active \in TurnIds /\ driver \in Requests
    BY <2>1, <1>a, Running DEF Driving, Working
  <2>3. done \in [Requests -> StepType]
    BY <2>2, <1>a DEF MoreTypes, StepType
  <2>4. Continues => n \in Requests
    BY <2>1, <1>a, NextReqUnused DEF Due
  <2> HIDE DEF done, n
  <2>5. step' \in [Requests -> StepType]
    BY <2>1, <2>2, <2>3, <2>4, AssignedIsStep
  <2>6. CASE \E r \in Enders : ReturnRun(r)
    BY <2>1, <2>5, <2>6, <1>a, ReturnTypes DEF MoreTypes
  <2>7. CASE UNCHANGED <<queue, result>>
    BY <2>1, <2>5, <2>7, <1>a DEF MoreTypes
  <2>8. CASE Continues /\ queue' = [queue EXCEPT ![active] = Append(@, n)] /\ UNCHANGED result
    BY <2>1, <2>2, <2>4, <2>5, <2>8, <1>a DEF MoreTypes
  <2>9. \/ \E r \in Enders : ReturnRun(r)
        \/ UNCHANGED <<queue, result>>
        \/ Continues /\ queue' = [queue EXCEPT ![active] = Append(@, n)] /\ UNCHANGED result
    BY <1>3 DEF CompleteStep, Enders, n
  <2> QED
    BY <2>6, <2>7, <2>8, <2>9
<1>4. CASE StepAborts
  <2>1. /\ pc \in {"hooks", "llm", "after"} /\ UNCHANGED <<step, standalone>> /\ finish' \in {finish, NoFinish}
        /\ \/ ReturnRun("cancelled") /\ UNCHANGED driver
           \/ driver' = NoReq /\ UNCHANGED <<queue, result>>
    BY <1>4 DEF StepAborts, CancellationOf
  <2>2. CASE ReturnRun("cancelled") /\ UNCHANGED driver
    BY <2>1, <2>2, <1>a, ReturnTypes DEF MoreTypes, Enders
  <2>3. CASE driver' = NoReq /\ UNCHANGED <<queue, result>>
    BY <2>1, <2>3, <1>a DEF MoreTypes
  <2> QED
    BY <2>1, <2>2, <2>3
<1>5. CASE StepFails
  <2>1. pc \in {"hooks", "llm"} /\ ReturnRun("failed") /\ UNCHANGED <<step, standalone, driver, finish>>
    BY <1>5 DEF StepFails
  <2> QED
    BY <2>1, <1>a, ReturnTypes DEF MoreTypes, Enders
<1>6. CASE StepFailsRetryably
  <2>1. /\ pc = "llm" /\ UNCHANGED <<step, standalone, driver, finish>>
        /\ ReturnRun("failed") \/ UNCHANGED <<queue, result>>
    BY <1>6 DEF StepFailsRetryably
  <2>2. CASE ReturnRun("failed")
    BY <2>1, <2>2, <1>a, ReturnTypes DEF MoreTypes, Enders
  <2>3. CASE UNCHANGED <<queue, result>>
    BY <2>1, <2>3, <1>a DEF MoreTypes
  <2> QED
    BY <2>1, <2>2, <2>3
<1> QED
  BY <1>1, <1>2, <1>3, <1>4, <1>5, <1>6 DEF StepProgress

LEMMA RecoverTypes ==
  ASSUME IInv, QInv, Recover
  PROVE  MoreTypes'
<1>a. MoreTypes /\ Driving /\ pc = "recovering" /\ active \in TurnIds
  BY Running DEF QInv, Recover, RecoverFails, Retry
<1>1. CASE RecoverFails
  <2>1. UNCHANGED <<step, standalone, driver, finish>> /\ \E r \in Enders : ReturnRun(r)
    BY <1>1 DEF RecoverFails, Enders
  <2> QED
    BY <2>1, <1>a, ReturnTypes DEF MoreTypes
<1>2. CASE Retry
  <2>1. /\ queue' = [queue EXCEPT ![active] = <<driver>> \o queue[active]]
        /\ step' = [step EXCEPT ![driver].state = "queued"] /\ driver' = NoReq
        /\ UNCHANGED <<standalone, finish, result>>
    BY <1>2 DEF Retry
  <2>2. driver \in Requests /\ queue[active] \in Seq(Requests)
    BY <1>a DEF Driving, Working, MoreTypes
  <2>3. <<driver>> \o queue[active] \in Seq(Requests)
    BY <2>2, Prepend
  <2>4. step' \in [Requests -> StepType]
    BY <2>1, <2>2, <1>a DEF MoreTypes, StepType
  <2>5. queue' \in [TurnIds -> Seq(Requests)]
    BY <2>1, <2>3, <1>a DEF MoreTypes
  <2> QED
    BY <2>1, <2>4, <2>5, <1>a DEF MoreTypes
<1> QED
  BY <1>1, <1>2 DEF Recover

(* Every other step: what is withdrawn, released, pumped or restarted.       *)
LEMMA OtherTypes ==
  ASSUME IInv, QInv, Cancel \/ AwaitSettled \/ Dispose \/ Pump \/ ReleaseActiveTurn
  PROVE  MoreTypes'
<1>a. MoreTypes
  BY DEF QInv
<1>b. <<>> \in Seq(Requests)
  OBVIOUS
<1>1. CASE AwaitSettled \/ Pump
  BY <1>1, <1>a DEF AwaitSettled, Pump, PumpIdle, StartTurn, reqVars, runVars, MoreTypes
<1>2. CASE Cancel \/ Dispose
  <2>1. /\ UNCHANGED <<queue, driver, finish, result>> /\ standalone' \in {standalone, <<>>}
        /\ step' = step \/ \E S : step' = CancelSteps(S)
    BY <1>2 DEF Cancel, Dispose, CancelActiveTurn, CancelQueuedTurn, CancelStep, AbortStandalone,
                DropQueuedTurns, reqVars, runVars
  <2> QED
    BY <2>1, <1>a, <1>b, CancelStepsTypes DEF MoreTypes
<1>3. CASE ReleaseActiveTurn
  <2>1. /\ queue' = [queue EXCEPT ![active] = <<>>] /\ \E S : step' = CancelSteps(S)
        /\ driver' = NoReq /\ finish' = NoFinish /\ result' = "none" /\ UNCHANGED standalone
    BY <1>3 DEF ReleaseActiveTurn
  <2> QED
    BY <2>1, <1>a, <1>b, CancelStepsTypes DEF MoreTypes, NoFinish, FinishType
<1> QED
  BY <1>1, <1>2, <1>3

-----------------------------------------------------------------------------
(* The invariant of requests holds in every reachable state. *)

LEMMA SeatsInit == Init => QInv
BY BlankSeats DEF Init

LEMMA SeatsStep == IInv /\ QInv /\ [Next]_vars => QInv'
<1> SUFFICES ASSUME IInv, QInv, [Next]_vars PROVE QInv'
  OBVIOUS
<1>a. MoreTypes /\ Due
  BY DEF QInv
<1>1. CASE UNCHANGED vars \/ AwaitSettled
  <2>1. UNCHANGED <<req, step, queue, standalone, turn, active, driver, pc, finish, result>>
    BY <1>1 DEF vars, reqVars, turnVars, runVars, AwaitSettled
  <2>2. MoreTypes' /\ (pc' = "after" /\ Continues' => Unused # {})
    BY <2>1, <1>a DEF MoreTypes, Due, Continues
  <2> QED
    BY <2>1, <2>2, RunGoesOn
<1>2. CASE Crash
  <2>1. /\ req' = NoReqs /\ step' = NoSteps /\ queue' = NoQueues /\ standalone' = <<>> /\ driver' = NoReq
        /\ pc' = "idle" /\ finish' = NoFinish /\ result' = "none"
    BY <1>2 DEF Crash
  <2>2. Range(<<>>) = {} /\ Distinct(<<>>)
    BY DEF Range, Distinct
  <2>3. MoreTypes'
    BY <2>1 DEF MoreTypes, NoSteps, NoStep, NoQueues, NoFinish, StepType, FinishType
  <2>4. Seats'
    BY <2>1, <2>2 DEF Seats, NoQueues, NoSteps, NoStep
  <2>5. Waiters' /\ Alive'
    BY <2>1 DEF Waiters, Alive, Pending, NoReqs, NoSteps, NoStep
  <2>6. Driving' /\ Due'
    BY <2>1 DEF Driving, Due, Working, NoFinish, Continues
  <2> QED
    BY <2>3, <2>4, <2>5, <2>6 DEF QInv
<1>3. CASE Enqueue
  BY <1>3, EnqueueTypes, EnqueueSeats
<1>4. CASE Cancel
  BY <1>4, OtherTypes, CancelSeats
<1>5. CASE Dispose
  BY <1>5, OtherTypes, DisposeSeats
<1>6. CASE Pump
  <2>1. MoreTypes'
    BY <1>6, OtherTypes
  <2> QED
    BY <1>6, <2>1, PumpIdleSeats, StartTurnSeats DEF Pump
<1>7. CASE Begin
  BY <1>7, BeginTypes, BeginKeepsSeats
<1>8. CASE StepProgress
  BY <1>8, StepProgressTypes, StepProgressSeats
<1>9. CASE Recover
  BY <1>9, RecoverTypes, RecoverSeats
<1>10. CASE ReleaseActiveTurn
  BY <1>10, OtherTypes, ReleaseSeats
<1> QED
  BY <1>1, <1>2, <1>3, <1>4, <1>5, <1>6, <1>7, <1>8, <1>9, <1>10 DEF Next

(* Requests sit where enqueue() put them in every reachable state.           *)
THEOREM RequestsInvariant == Spec => [](IInv /\ QInv)
<1>1. Init => IInv /\ QInv
  BY InitHolds, SeatsInit
<1>2. (IInv /\ QInv) /\ [Next]_vars => (IInv /\ QInv)'
  BY StepKeeps, SeatsStep
<1> QED
  BY <1>1, <1>2, PTL DEF Spec

(* No request is lost or queued twice: one that has neither materialized nor *)
(* been aborted waits in exactly one queue (assignStep, createAndQueueTurn,  *)
(* run()'s finally, takeNextBatch).                                          *)
THEOREM NoRequestLost == Spec => []PendingIsQueuedOnce
<1>1. ASSUME NEW s \in Seq(Requests), Distinct(s), NEW i \in Range(s)
      PROVE  Cardinality({n \in DOMAIN s : s[n] = i}) = 1
  <2>1. PICK k \in DOMAIN s : s[k] = i
    BY DEF Range
  <2>2. {n \in DOMAIN s : s[n] = i} = {k}
    BY <1>1, <2>1 DEF Distinct
  <2> QED
    BY <2>2, FS_Singleton
<1>2. ASSUME IInv, QInv PROVE PendingIsQueuedOnce
  <2>a. MoreTypes /\ Seats /\ Waiters /\ Alive /\ Types /\ Waits
    BY <1>2 DEF QInv, IInv
  <2>b. NoTurn \notin TurnIds
    BY DEF NoTurn, TurnIds
  <2> SUFFICES ASSUME NEW i \in Requests, Pending(i)
               PROVE  \/ Places(i) = {} /\ Cardinality({n \in DOMAIN standalone : standalone[n] = i}) = 1
                      \/ /\ i \notin Range(standalone)
                         /\ \E t \in Range(pendingTurns) \cup {active} :
                              Places(i) = {t} /\ Cardinality({n \in DOMAIN queue[t] : queue[t][n] = i}) = 1
    BY DEF PendingIsQueuedOnce
  <2>1. CASE i \in Range(standalone)
    <3>1. Places(i) = {}
      BY <2>1, <2>a, <2>b DEF Places, Seats, Sits
    <3>2. Cardinality({n \in DOMAIN standalone : standalone[n] = i}) = 1
      BY <1>1, <2>1, <2>a DEF MoreTypes, Seats
    <3> QED
      BY <3>1, <3>2
  <2>2. CASE i \notin Range(standalone)
    <3> DEFINE t == step[i].turn
    <3>1. t \in TurnIds /\ i \in Range(queue[t]) /\ step[i].state = "queued"
      BY <2>2, <2>a DEF Waiters
    <3>2. Places(i) = {t}
      BY <3>1, <2>a DEF Places, Seats, Sits
    <3>3. Cardinality({n \in DOMAIN queue[t] : queue[t][n] = i}) = 1
      <4> HIDE DEF t
      <4> QED
        BY <1>1, <3>1, <2>a DEF MoreTypes, Seats
    <3>4. turn[t] \in {"queued", "running"}
      BY <3>1, <2>a DEF Alive, Opened
    <3>5. t \in Range(pendingTurns) \cup {active}
      BY <3>1, <3>4, <2>a DEF Waits, Range
    <3> QED
      BY <2>2, <3>2, <3>3, <3>5
  <2> QED
    BY <2>1, <2>2
<1>3. IInv /\ QInv => PendingIsQueuedOnce
  BY <1>2
<1> QED
  BY <1>3, RequestsInvariant, PTL

(* What the current step works on was not withdrawn before it began          *)
(* (takeNextBatch prunes, and nothing aborts a materialized request).        *)
THEOREM WithdrawnNeverDrives == Spec => []NoStepForWithdrawn
<1>1. IInv /\ QInv => NoStepForWithdrawn
  BY DEF QInv, Driving, Working, NoStepForWithdrawn
<1> QED
  BY <1>1, RequestsInvariant, PTL

(* A turn that has ended leaves no step alive (releaseActiveTurn,            *)
(* cancelQueuedTurn, dispose).                                               *)
THEOREM EndedTurnsAreQuiet == Spec => []EndedTurnHasNoLiveSteps
<1>1. IInv /\ QInv => EndedTurnHasNoLiveSteps
  BY DEF QInv, Alive, Opened, EndedTurnHasNoLiveSteps, LiveSteps, Enders
<1> QED
  BY <1>1, RequestsInvariant, PTL

(* The continuation that shows the model its tools' results is due until it  *)
(* drives a step, so run() does not complete without it (the loop-           *)
(* continuation hook, run()'s empty-queue test).                             *)
THEOREM ResultsAreShown == Spec => []ToolResultsConsumed
<1>1. IInv /\ QInv => ToolResultsConsumed
  <2> SUFFICES ASSUME QInv, pc = "returned", result = "completed", finish.reason = "tool_calls", finish.hooks = "done"
               PROVE  FALSE
    BY DEF ToolResultsConsumed
  <2>1. finish = [reason |-> "tool_calls", hooks |-> "done"]
    BY DEF QInv, MoreTypes, FinishType
  <2> QED
    BY <2>1 DEF QInv, Due, Continues
<1> QED
  BY <1>1, RequestsInvariant, PTL

(* The rest of the types. *)
Stations == {"idle", "pump", "begin", "hooks", "llm", "after", "recovering", "returned"}
RetryType == [driver: Requests \cup {NoReq}, failed: Nat]
RunTypes ==
  /\ turnAborted \in BOOLEAN /\ pc \in Stations /\ steps \in Nat /\ retries \in RetryType
  /\ waiter \in {"none", "waiting", "resolved"} /\ disposing \in BOOLEAN

LEMMA RunTypesStep == IInv /\ QInv /\ RunTypes /\ [Next]_vars => RunTypes'
<1> SUFFICES ASSUME IInv, QInv, RunTypes, [Next]_vars PROVE RunTypes'
  OBVIOUS
<1>a. driver \in Requests \cup {NoReq} /\ NoRetries \in RetryType
  BY DEF QInv, MoreTypes, NoRetries, RetryType
<1>b. ASSUME UNCHANGED <<turnAborted, waiter, disposing, steps, retries>>, pc' \in Stations PROVE RunTypes'
  BY <1>b DEF RunTypes
<1>1. CASE UNCHANGED vars
  BY <1>1 DEF vars, turnVars, runVars, envVars, RunTypes
<1>2. CASE Enqueue
  <2>1. ASSUME NEW k, OpenTurn(k) \/ JoinActive(k) PROVE RunTypes'
    <3>1. UNCHANGED <<turnAborted, waiter, disposing, steps, retries>> /\ pc' \in {pc, "pump"}
      BY <2>1 DEF OpenTurn, JoinActive, turnVars, runVars, envVars
    <3> QED
      BY <3>1 DEF RunTypes, Stations
  <2>2. CASE UNCHANGED <<turnVars, runVars, envVars>>
    BY <2>2 DEF turnVars, runVars, envVars, RunTypes
  <2> QED
    BY <1>2, <2>1, <2>2 DEF Enqueue, EnqueuePrompt, EnqueueInject, EnqueueSteer, EnqueueNext
<1>3. CASE Cancel \/ Dispose \/ AwaitSettled
  <2>1. /\ UNCHANGED <<pc, steps, retries>> /\ turnAborted' \in {turnAborted, TRUE, active # NoTurn}
        /\ waiter' \in {waiter, "resolved", "waiting"} /\ disposing' \in {disposing, TRUE}
    BY <1>3 DEF Cancel, Dispose, AwaitSettled, CancelActiveTurn, CancelQueuedTurn, CancelStep, AbortStandalone,
                DropQueuedTurns, Settled, turnVars, runVars, envVars
  <2> QED
    BY <2>1 DEF RunTypes
<1>4. CASE Pump
  <2>1. /\ UNCHANGED <<steps, retries, disposing>> /\ pc' \in {"idle", "begin"} /\ turnAborted' \in {turnAborted, FALSE}
        /\ waiter' \in {waiter, "resolved"}
    BY <1>4 DEF Pump, PumpIdle, StartTurn, Settled, turnVars, envVars
  <2> QED
    BY <2>1 DEF RunTypes, Stations
<1>5. CASE Begin
  <2>1. /\ UNCHANGED <<turnAborted, waiter, disposing, retries>> /\ pc' \in {"returned", "hooks"}
        /\ steps' \in {steps, steps + 1}
    BY <1>5 DEF Begin, BeginReturns, BeginStep, ReturnRun, turnVars, envVars
  <2> QED
    BY <2>1 DEF RunTypes, Stations
<1>6. CASE StepProgress \/ Recover
  <2>1. UNCHANGED <<turnAborted, waiter, disposing, steps>>
    BY <1>6 DEF StepProgress, StepBegins, StepFinishes, CompleteStep, StepAborts, StepFails, StepFailsRetryably,
                Recover, RecoverFails, Retry, turnVars, envVars
  <2>2. pc' \in Stations
    BY <1>6 DEF StepProgress, StepBegins, StepFinishes, CompleteStep, StepAborts, StepFails, StepFailsRetryably,
                Recover, RecoverFails, Retry, CancellationOf, ReturnRun, Stations
  <2>3. retries' \in RetryType
    <3>1. CASE StepFailsRetryably
      <4> DEFINE failed == (IF retries.driver = driver THEN retries.failed ELSE 0) + 1
      <4>1. failed \in Nat
        BY DEF RunTypes, RetryType
      <4>2. retries' = NoRetries \/ retries' = [driver |-> driver, failed |-> failed]
        BY <3>1 DEF StepFailsRetryably
      <4> QED
        BY <1>a, <4>1, <4>2 DEF RetryType
    <3>2. CASE ~StepFailsRetryably
      <4>1. retries' \in {retries, NoRetries}
        BY <1>6, <3>2 DEF StepProgress, StepBegins, StepFinishes, CompleteStep, StepAborts, StepFails,
                          Recover, RecoverFails, Retry
      <4> QED
        BY <1>a, <4>1 DEF RunTypes
    <3> QED
      BY <3>1, <3>2
  <2> QED
    BY <2>1, <2>2, <2>3 DEF RunTypes
<1>7. CASE ReleaseActiveTurn \/ Crash
  <2>1. /\ turnAborted' = FALSE /\ pc' \in Stations /\ steps' = 0 /\ retries' = NoRetries
        /\ waiter' \in {waiter, "none"} /\ disposing' \in {disposing, FALSE}
    BY <1>7 DEF ReleaseActiveTurn, Crash, Stations, envVars
  <2> QED
    BY <2>1, <1>a DEF RunTypes
<1> QED
  BY <1>1, <1>2, <1>3, <1>4, <1>5, <1>6, <1>7 DEF Next

(* Every variable keeps its type (AgentLoopService's fields).                *)
THEOREM LoopTypes == Spec => []TypeOK
<1>1. Init => RunTypes
  <2> SUFFICES ASSUME Init PROVE RunTypes
    OBVIOUS
  <2>1. NoRetries \in RetryType
    BY DEF NoRetries, RetryType
  <2> QED
    BY <2>1 DEF Init, RunTypes, Stations
<1>2. IInv /\ QInv /\ RunTypes => TypeOK
  BY DEF IInv, Types, QInv, MoreTypes, RunTypes, Stations, RetryType, ReqType, StepType, FinishType, TypeOK
<1> QED
  BY <1>1, <1>2, RunTypesStep, RequestsInvariant, PTL DEF Spec
=============================================================================
