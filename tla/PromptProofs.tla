---------------------------- MODULE PromptProofs ----------------------------
(***************************************************************************)
(* Prompts are serialised, for any number of prompts, turns of other       *)
(* services and compactions.  A prompt with a turn in the loop is the      *)
(* active one or the one being launched, and there is only one of them.    *)
(***************************************************************************)
EXTENDS Prompt, SequenceFacts

-----------------------------------------------------------------------------
(* The inductive invariant. *)

Types ==
  /\ turn \in [Turns -> {"none"} \union Live \union Ended]
  /\ running \in Turns \union {None} /\ queued \in Seq(Turns)
  /\ active \in Prompts \union {None} /\ launching \in Prompts \union {None}

(* Who is in the loop: the running turn and those that wait, once each. *)
LoopInv ==
  /\ running # None => turn[running] \in {"running", "aborted"}
  /\ \A i \in DOMAIN queued : turn[queued[i]] = "queued"
  /\ Distinct(queued)

(* The scheduler holds the one prompt that has a turn. *)
HolderInv ==
  /\ launching # None => active = None
  /\ stage # "none" => launching # None
  /\ \A p \in Prompts : turn[p] \in Live =>
       p = active \/ (p = launching /\ stage = "assign")

IInv == Types /\ LoopInv /\ HolderInv

-----------------------------------------------------------------------------
(* Facts about the data. *)

(* No prompt and no turn of another service goes by the name of nothing.    *)
LEMMA NoneIsNoTurn ==
  None \notin Turns /\ Prompts \subseteq Turns
BY PromptAssumption DEF Turns, Prompts, None

(* The invariant is enough: two prompts with a turn are the same prompt.    *)
LEMMA HolderIsOne ==
  IInv => OneTurnAtATime
BY NoneIsNoTurn DEF IInv, Types, LoopInv, HolderInv, OneTurnAtATime, Live, Turns

-----------------------------------------------------------------------------
(* What the loop's own operations do to the invariant. *)

(* A turn that is not in the loop yet may be opened, if it is not a prompt's *)
(* or is the prompt that the scheduler is launching.                         *)
LEMMA OpenTurnKeepsLoop ==
  ASSUME Types, LoopInv, NEW t \in Turns, turn[t] \notin Live, OpenTurn(t)
  PROVE  /\ turn' \in [Turns -> {"none"} \union Live \union Ended]
         /\ running' \in Turns \union {None} /\ queued' \in Seq(Turns)
         /\ LoopInv'
         /\ \A u \in Turns \ {t} : turn'[u] = turn[u]
<1>1. CASE Idle
  BY <1>1, NoneIsNoTurn DEF OpenTurn, Types, LoopInv, Live, Idle, Distinct
<1>2. CASE ~Idle
  <2>1. /\ turn' = [turn EXCEPT ![t] = "queued"]
        /\ queued' = Append(queued, t) /\ running' = running
    BY <1>2 DEF OpenTurn
  <2>2. \A i \in DOMAIN queued : queued[i] # t
    BY DEF LoopInv, Live
  <2>3. /\ turn' \in [Turns -> {"none"} \union Live \union Ended]
        /\ running' \in Turns \union {None} /\ queued' \in Seq(Turns)
        /\ \A u \in Turns \ {t} : turn'[u] = turn[u]
    BY <2>1 DEF Types, Live
  <2>4. running' # None => turn'[running'] \in {"running", "aborted"}
    BY <2>1, <1>2 DEF Types, LoopInv, Live, Idle
  <2>5. \A i \in DOMAIN queued' : turn'[queued'[i]] = "queued"
    BY <2>1, <2>2 DEF Types, LoopInv, Live
  <2>6. Distinct(queued')
    BY <2>1, <2>2 DEF Types, LoopInv, Distinct
  <2> QED
    BY <2>3, <2>4, <2>5, <2>6 DEF LoopInv
<1> QED
  BY <1>1, <1>2

(* Cancelling a turn brings no turn into the loop.                          *)
LEMMA CancelTurnKeepsLoop ==
  ASSUME Types, LoopInv, NEW t \in Turns, CancelTurn(t)
  PROVE  /\ turn' \in [Turns -> {"none"} \union Live \union Ended]
         /\ running' \in Turns \union {None} /\ queued' \in Seq(Turns)
         /\ LoopInv'
         /\ \A u \in Turns : turn'[u] \in Live => turn[u] \in Live
<1>1. CASE turn[t] = "running"
  BY <1>1, NoneIsNoTurn DEF CancelTurn, Types, LoopInv, Live, Distinct
<1>2. CASE turn[t] = "queued"
  <2>1. PICK k \in DOMAIN queued : queued[k] = t /\ queued' = RemoveAt(queued, k)
    BY <1>2 DEF CancelTurn
  <2>2. turn' = [turn EXCEPT ![t] = "cancelled"] /\ running' = running
    BY <1>2 DEF CancelTurn
  <2>3. /\ queued' \in Seq(Turns)
        /\ Len(queued') = Len(queued) - 1
        /\ \A i \in 1..(Len(queued) - 1) : queued'[i] = IF i < k THEN queued[i] ELSE queued[i + 1]
    <3>1. queued \in Seq(Turns) /\ k \in 1..Len(queued)
      BY DEF Types
    <3> QED
      BY <2>1, <3>1, RemoveAtProperties
  <2>4. DOMAIN queued' = 1..(Len(queued) - 1) /\ DOMAIN queued = 1..Len(queued)
    BY <2>3 DEF Types
  <2>5. \A i \in DOMAIN queued' :
          \E j \in DOMAIN queued : queued'[i] = queued[j] /\ j # k /\ j = IF i < k THEN i ELSE i + 1
    BY <2>1, <2>3, <2>4 DEF Types
  <2>6. \A i \in DOMAIN queued' : queued'[i] # t /\ turn[queued'[i]] = "queued" /\ queued'[i] \in Turns
    BY <2>1, <2>3, <2>4, <2>5 DEF LoopInv, Distinct, Types
  <2>7. Distinct(queued')
    BY <2>1, <2>4, <2>5 DEF LoopInv, Distinct, Types
  <2>8. \A i \in DOMAIN queued' : turn'[queued'[i]] = "queued"
    BY <2>2, <2>6 DEF Types
  <2>9. running' # None => turn'[running'] \in {"running", "aborted"}
    BY <2>2, <1>2 DEF Types, LoopInv
  <2>10. turn' \in [Turns -> {"none"} \union Live \union Ended]
    BY <2>2 DEF Types, Ended
  <2>11. \A u \in Turns : turn'[u] \in Live => turn[u] \in Live
    BY <2>2 DEF Types, Live
  <2> QED
    BY <2>2, <2>3, <2>7, <2>8, <2>9, <2>10, <2>11 DEF LoopInv, Types
<1>3. CASE turn[t] \notin {"running", "queued"}
  BY <1>3 DEF CancelTurn, loopVars, Types, LoopInv
<1> QED
  BY <1>1, <1>2, <1>3

-----------------------------------------------------------------------------
(* The theorem. *)

LEMMA InitHolds == Init => IInv
BY NoneIsNoTurn DEF Init, IInv, Types, LoopInv, HolderInv, Distinct, Live, Ended, None

(* Every step keeps the invariant: the loop changes who is in it, the        *)
(* scheduler who it holds, and only a launch does both.                      *)
LEMMA StepKeeps == IInv /\ [Next]_vars => IInv'
<1> SUFFICES ASSUME IInv, [Next]_vars PROVE IInv'
  OBVIOUS
<1> USE NoneIsNoTurn
<1>a. Types /\ LoopInv /\ HolderInv
  BY DEF IInv
<1>b. ASSUME UNCHANGED loopVars, UNCHANGED <<active, launching, stage>>
      PROVE  IInv'
  BY <1>a, <1>b DEF IInv, Types, LoopInv, HolderInv, loopVars, Distinct
<1>c. ASSUME NEW t \in Turns, CancelTurn(t), UNCHANGED <<active, launching, stage>>
      PROVE  IInv'
  BY <1>a, <1>c, CancelTurnKeepsLoop DEF IInv, Types, HolderInv
<1>1. CASE UNCHANGED vars
  BY <1>1, <1>b DEF vars, loopVars, queueVars
<1>2. ASSUME NEW p \in Prompts, Enqueue(p) PROVE IInv'
  BY <1>2, <1>b DEF Enqueue
<1>3. ASSUME NEW p \in Prompts, Abort(p) PROVE IInv'
  <2>1. UNCHANGED <<active, launching, stage>>
    BY <1>3 DEF Abort
  <2>2. CASE CancelTurn(p)
    BY <2>1, <2>2, <1>c
  <2>3. CASE UNCHANGED loopVars
    BY <2>1, <2>3, <1>b
  <2> QED
    BY <1>3, <2>2, <2>3 DEF Abort
<1>4. ASSUME NEW S \in SUBSET Prompts, Steer(S) PROVE IInv'
  BY <1>4, <1>b DEF Steer
<1>5. CASE Clear
  <2>1. UNCHANGED <<active, launching, stage>>
    BY <1>5 DEF Clear
  <2>2. CASE active = None
    BY <1>5, <2>1, <2>2, <1>b DEF Clear
  <2>3. CASE active # None
    BY <1>5, <1>a, <2>1, <2>3, <1>c DEF Clear, Types
  <2> QED
    BY <2>2, <2>3
<1>6. CASE CancelActive
  BY <1>6, <1>a, <1>c DEF CancelActive, Types, Idle, queueVars
<1>7. CASE CancelCompaction
  BY <1>7, <1>b DEF CancelCompaction, queueVars
<1>8. ASSUME NEW t \in SystemTurns, SystemTurn(t) PROVE IInv'
  <2>1. t \in Turns /\ t \notin Prompts /\ turn[t] \notin Live
    BY <1>8, PromptAssumption DEF SystemTurn, Turns, Prompts, Live
  <2>2. OpenTurn(t) /\ UNCHANGED <<active, launching, stage>>
    BY <1>8 DEF SystemTurn, queueVars
  <2>3. /\ turn' \in [Turns -> {"none"} \union Live \union Ended]
        /\ running' \in Turns \union {None} /\ queued' \in Seq(Turns)
        /\ LoopInv'
        /\ \A u \in Prompts : turn'[u] = turn[u]
    BY <1>a, <2>1, <2>2, OpenTurnKeepsLoop
  <2> QED
    BY <1>a, <2>2, <2>3 DEF IInv, Types, HolderInv
<1>9. ASSUME NEW k \in Tasks, BeginCompaction(k) PROVE IInv'
  BY <1>9, <1>b DEF BeginCompaction, queueVars
<1>10. CASE StartNext
  <2>1. UNCHANGED loopVars
    BY <1>10 DEF StartNext
  <2>2. CASE UNCHANGED <<active, launching, stage>>
    BY <2>1, <2>2, <1>b
  <2>3. CASE /\ ~Busy /\ launching' \in Prompts /\ stage' = "hook" /\ UNCHANGED active
    <3>1. active = None /\ launching = None
      BY <2>3 DEF Busy
    <3>2. \A p \in Prompts : turn[p] \notin Live
      BY <3>1, <1>a DEF HolderInv
    <3> QED
      BY <2>1, <2>3, <3>1, <3>2, <1>a DEF IInv, Types, LoopInv, HolderInv, loopVars, Distinct
  <2> QED
    BY <1>10, <2>2, <2>3 DEF StartNext, RunAway, queueVars
<1>11. ASSUME NEW o, LaunchStops(o) PROVE IInv'
  <2>1. /\ UNCHANGED loopVars /\ UNCHANGED active
        /\ launching' = None /\ stage' = "none" /\ stage = "hook"
    BY <1>11 DEF LaunchStops
  <2> QED
    BY <2>1, <1>a DEF IInv, Types, LoopInv, HolderInv, loopVars, Distinct
<1>12. CASE LaunchOpens
  <2>1. /\ stage = "hook" /\ stage' = "assign" /\ OpenTurn(launching)
        /\ UNCHANGED <<active, launching>>
    BY <1>12 DEF LaunchOpens
  <2>2. launching \in Prompts /\ active = None
    BY <2>1, <1>a DEF Types, HolderInv
  <2>3. \A p \in Prompts : turn[p] \notin Live
    BY <2>1, <2>2, <1>a DEF HolderInv
  <2>4. /\ turn' \in [Turns -> {"none"} \union Live \union Ended]
        /\ running' \in Turns \union {None} /\ queued' \in Seq(Turns)
        /\ LoopInv'
        /\ \A u \in Turns \ {launching} : turn'[u] = turn[u]
    BY <1>a, <2>1, <2>2, <2>3, OpenTurnKeepsLoop
  <2> QED
    BY <1>a, <2>1, <2>2, <2>3, <2>4 DEF IInv, Types, HolderInv
<1>13. CASE Launched
  <2>1. /\ UNCHANGED loopVars /\ active' = launching /\ launching' = None
        /\ stage = "assign" /\ stage' = "none"
    BY <1>13 DEF Launched
  <2>2. launching # None /\ active = None
    BY <2>1, <1>a DEF HolderInv
  <2> QED
    BY <2>1, <2>2, <1>a DEF IInv, Types, LoopInv, HolderInv, loopVars, Distinct
<1>14. ASSUME NEW r \in Ended, TurnEnds(r) PROVE IInv'
  <2>1. UNCHANGED <<active, launching, stage>> /\ running \in Turns /\ turn[running] \in {"running", "aborted"}
    BY <1>14, <1>a DEF TurnEnds, Idle, queueVars, Types, LoopInv
  <2>2. CASE queued = <<>>
    <3>1. turn' = [turn EXCEPT ![running] = r] /\ running' = None /\ queued' = queued
      BY <1>14, <2>2 DEF TurnEnds
    <3> QED
      BY <1>a, <2>1, <2>2, <3>1 DEF IInv, Types, LoopInv, HolderInv, Distinct, Ended, Live
  <2>3. CASE queued # <<>>
    <3>1. /\ turn' = [[turn EXCEPT ![running] = r] EXCEPT ![Head(queued)] = "running"]
          /\ running' = Head(queued) /\ queued' = Tail(queued)
      BY <1>14, <2>3 DEF TurnEnds
    <3>2. /\ 1 \in DOMAIN queued /\ Head(queued) = queued[1] /\ Head(queued) \in Turns
          /\ Tail(queued) \in Seq(Turns)
          /\ \A i \in DOMAIN Tail(queued) : i + 1 \in DOMAIN queued /\ Tail(queued)[i] = queued[i + 1]
                                            /\ i \in Nat /\ i + 1 # 1
      BY <2>3, <1>a DEF Types
    <3>3. turn[Head(queued)] = "queued"
      BY <3>2, <1>a DEF LoopInv
    <3>4. \A i \in DOMAIN queued' : /\ queued'[i] \in Turns /\ turn[queued'[i]] = "queued"
                                    /\ queued'[i] # Head(queued)
      BY <3>1, <3>2, <1>a DEF LoopInv, Distinct, Types
    <3>5. \A i \in DOMAIN queued' : turn'[queued'[i]] = "queued"
      BY <3>1, <3>4, <2>1, <1>a DEF Types
    <3>6. Distinct(queued')
      BY <3>1, <3>2, <1>a DEF LoopInv, Distinct
    <3>7. running' \in Turns /\ turn'[running'] = "running" /\ queued' \in Seq(Turns)
      BY <3>1, <3>2, <1>a DEF Types
    <3>8. turn' \in [Turns -> {"none"} \union Live \union Ended]
      BY <3>1, <1>a, <1>14 DEF Types, Live
    <3>9. \A p \in Prompts : turn'[p] \in Live => turn[p] \in Live
      BY <3>1, <3>3, <2>1, <1>14, <1>a DEF Types, Live, Ended
    <3> QED
      BY <1>a, <2>1, <3>5, <3>6, <3>7, <3>8, <3>9 DEF IInv, Types, LoopInv, HolderInv
  <2> QED
    BY <2>2, <2>3
<1>15. ASSUME NEW x \in steering, Steered(x) PROVE IInv'
  BY <1>15, <1>b DEF Steered
<1>16. CASE Settle
  <2>1. /\ UNCHANGED loopVars /\ UNCHANGED <<launching, stage>>
        /\ active' = None /\ turn[active] \in Ended
    BY <1>16 DEF Settle
  <2>2. turn[active] \notin Live
    BY <2>1 DEF Live, Ended
  <2> QED
    BY <2>1, <2>2, <1>a DEF IInv, Types, LoopInv, HolderInv, loopVars, Distinct
<1>17. ASSUME NEW k \in Tasks, FinishCompaction(k) PROVE IInv'
  BY <1>17, <1>b DEF FinishCompaction, queueVars
<1> QED
  BY <1>1, <1>2, <1>3, <1>4, <1>5, <1>6, <1>7, <1>8, <1>9, <1>10, <1>11, <1>12, <1>13,
     <1>14, <1>15, <1>16, <1>17
     DEF Next, Callers, LaunchSettles, LoopProceeds, SteerProceeds, WorkerEnds

(* The invariant holds in every reachable state.                            *)
THEOREM HolderInvariant == Spec => []IInv
BY InitHolds, StepKeeps, PTL DEF Spec

(* Prompts are serialised: whatever other services queue, whenever a turn,   *)
(* a hook or a compaction ends and however callers steer, abort and clear,   *)
(* no two prompts have a turn queued or running (startNext's two guards).    *)
THEOREM PromptsSerialised == Spec => []OneTurnAtATime
BY HolderInvariant, HolderIsOne, PTL

-----------------------------------------------------------------------------
(* Where the prompts are. *)

Shape ==
  /\ state \in [Prompts -> {"new", "pending", "running", "steered"} \union Final]
  /\ pending \in Seq(Prompts)
  /\ stage \in {"none", "hook", "assign"} /\ (stage = "none" <=> launching = None)
  /\ steering \subseteq [items : SUBSET Prompts, late : BOOLEAN]
  /\ host \in [Prompts -> Prompts \union {None}] /\ relaunch \in BOOLEAN
  /\ compacting \in Tasks \union {None}
  /\ worker \in [Tasks -> {"none", "live", "done"}]

(* What a prompt's state says wherever the prompt is, and that it is in no  *)
(* two places.                                                              *)
SeatInv ==
  /\ \A p \in Range(pending) : state[p] = "pending" /\ p # launching
  /\ \A x \in steering : \A p \in x.items :
       state[p] = "pending" /\ p \notin Range(pending) /\ p # launching
  /\ \A x, y \in steering : x.items \cap y.items # {} => x = y
  /\ launching # None => state[launching] = "pending"
  /\ active # None => state[active] = "running"
  /\ \A p \in Prompts : host[p] # None => state[p] = "steered"

(* The prompts wait in the order of their arrival, behind the launching one. *)
Sorted(s) == \A i, j \in DOMAIN s : i < j => s[i] < s[j]

OrderInv ==
  /\ Sorted(pending)
  /\ launching # None => \A p \in Range(pending) : launching < p
  /\ \A p \in Prompts : \A q \in 1..(p - 1) : state[p] # "new" => state[q] # "new"

SInv == Shape /\ SeatInv /\ OrderInv

-----------------------------------------------------------------------------
(* What the scheduler does to its queue. *)

LEMMA ToSetIsRange == \A s : ToSet(s) = Range(s)
BY DEF ToSet, Range

LEMMA SortedAppend ==
  ASSUME NEW T, T \subseteq Nat, NEW s \in Seq(T), NEW x \in T
  PROVE  Sorted(Append(s, x)) <=> Sorted(s) /\ \A y \in Range(s) : y < x
<1>1. /\ Append(s, x) \in Seq(T) /\ Len(Append(s, x)) = Len(s) + 1 /\ Len(s) \in Nat
      /\ Append(s, x)[Len(s) + 1] = x
      /\ \A i \in 1..Len(s) : Append(s, x)[i] = s[i] /\ s[i] \in T
  BY AppendProperties
<1>2. DOMAIN Append(s, x) = 1..(Len(s) + 1) /\ DOMAIN s = 1..Len(s)
  BY <1>1
<1>3. ASSUME Sorted(Append(s, x)) PROVE Sorted(s) /\ \A y \in Range(s) : y < x
  BY <1>1, <1>2, <1>3 DEF Sorted, Range
<1>4. ASSUME Sorted(s), \A y \in Range(s) : y < x PROVE Sorted(Append(s, x))
  <2> SUFFICES ASSUME NEW i \in 1..(Len(s) + 1), NEW j \in 1..(Len(s) + 1), i < j
               PROVE  Append(s, x)[i] < Append(s, x)[j]
    BY <1>2 DEF Sorted
  <2>1. i \in 1..Len(s) /\ s[i] \in Range(s)
    BY <1>1, <1>2 DEF Range
  <2>2. CASE j = Len(s) + 1
    BY <1>1, <1>4, <2>1, <2>2
  <2>3. CASE j # Len(s) + 1
    <3>1. j \in 1..Len(s)
      BY <1>1, <2>3
    <3> QED BY <1>1, <1>2, <1>4, <2>1, <3>1 DEF Sorted
  <2> QED BY <2>2, <2>3
<1> QED BY <1>3, <1>4

LEMMA SortedOnly ==
  ASSUME NEW T, T \subseteq Nat, NEW s \in Seq(T), NEW S, Sorted(s)
  PROVE  Sorted(Only(s, S))
<1> DEFINE P == {t \in Seq(T) : Sorted(t) => Sorted(Only(t, S))}
<1>1. <<>> \in P
  BY OnlyEmpty
<1>2. ASSUME NEW t \in Seq(T), NEW x \in T, t \in P PROVE Append(t, x) \in P
  <2>1. Append(t, x) \in Seq(T)
    BY AppendProperties
  <2>2. ASSUME Sorted(Append(t, x)) PROVE Sorted(Only(Append(t, x), S))
    <3>1. Sorted(t) /\ \A y \in Range(t) : y < x
      BY <2>2, SortedAppend
    <3>2. Sorted(Only(t, S)) /\ Only(t, S) \in Seq(T) /\ Range(Only(t, S)) \subseteq Range(t)
      BY <1>2, <3>1, OnlyProperties
    <3>3. Sorted(Append(Only(t, S), x))
      BY <3>1, <3>2, SortedAppend
    <3> QED BY <3>2, <3>3, OnlyAppend
  <2> QED BY <2>1, <2>2
<1>3. Seq(T) \subseteq P
  <2> HIDE DEF P
  <2> QED BY <1>1, <1>2, SeqInduction
<1> QED BY <1>3

LEMMA EnqueuedIs ==
  ASSUME Shape, NEW p \in Prompts
  PROVE  /\ QueuedLast(p) \in Seq(Prompts) /\ Range(QueuedLast(p)) = Range(pending) \cup {p}
         /\ Sorted(pending) /\ (\A q \in Range(pending) : q < p) => Sorted(QueuedLast(p))
<1>1. pending \in Seq(Prompts) /\ Prompts \subseteq Nat
  BY PromptAssumption DEF Shape, Prompts
<1>2. Append(pending, p) \in Seq(Prompts) /\ Range(Append(pending, p)) = Range(pending) \cup {p}
  BY <1>1, RangeAppend
<1>3. Sorted(Append(pending, p)) <=> Sorted(pending) /\ \A q \in Range(pending) : q < p
  BY <1>1, SortedAppend
<1> QED
  BY <1>2, <1>3, Zenon DEF QueuedLast

LEMMA WithoutIs ==
  ASSUME Shape, NEW S
  PROVE  /\ Without(S) \in Seq(Prompts) /\ Range(Without(S)) = Range(pending) \ S
         /\ Sorted(pending) => Sorted(Without(S))
<1>1. pending \in Seq(Prompts) /\ Prompts \subseteq Nat
  BY PromptAssumption DEF Shape, Prompts
<1>2. Range(pending) \subseteq Prompts
  BY <1>1, RangeIn
<1> QED
  <2> DEFINE R == Prompts \ S
  <2>1. Range(pending) \cap R = Range(pending) \ S
    BY <1>2
  <2> HIDE DEF R
  <2>2. Only(pending, R) \in Seq(Prompts) /\ Range(Only(pending, R)) = Range(pending) \cap R
    BY <1>1, OnlyProperties
  <2>3. Sorted(pending) => Sorted(Only(pending, R))
    BY <1>1, SortedOnly
  <2>4. Without(S) = Only(pending, R)
    BY DEF Without, R
  <2> QED BY <2>1, <2>2, <2>3, <2>4

(* A sorted queue cut in two: both parts are sorted and share nothing.      *)
LEMMA CutIs ==
  ASSUME NEW s \in Seq(Prompts), Sorted(s), NEW n \in 0..Len(s)
  PROVE  /\ SubSeq(s, n + 1, Len(s)) \in Seq(Prompts)
         /\ Range(s) = Range(SubSeq(s, 1, n)) \cup Range(SubSeq(s, n + 1, Len(s)))
         /\ \A p \in Range(SubSeq(s, 1, n)), q \in Range(SubSeq(s, n + 1, Len(s))) : p < q
         /\ Sorted(SubSeq(s, n + 1, Len(s)))
<1> DEFINE a == SubSeq(s, 1, n)
           b == SubSeq(s, n + 1, Len(s))
<1>1. /\ a \in Seq(Prompts) /\ b \in Seq(Prompts) /\ n \in Nat
      /\ Len(a) = n /\ Len(b) = Len(s) - n /\ Len(s) \in Nat
      /\ DOMAIN a = 1..n /\ DOMAIN b = 1..(Len(s) - n) /\ DOMAIN s = 1..Len(s)
      /\ \A i \in 1..n : a[i] = s[i] /\ i \in DOMAIN s
      /\ \A i \in 1..(Len(s) - n) : b[i] = s[n + i] /\ n + i \in DOMAIN s
  <2>1. a \in Seq(Prompts) /\ Len(a) = n /\ b \in Seq(Prompts) /\ Len(b) = Len(s) - n
    BY CutAnywhere
  <2>2. \A i \in 1..n : a[i] = s[i]
    BY <2>1, SubSeqProperties
  <2>3. \A i \in 1..(Len(s) - n) : b[i] = s[n + i]
    BY <2>1, SubSeqProperties
  <2> QED BY <2>1, <2>2, <2>3
<1> HIDE DEF a, b
<1>2. Sorted(b)
  <2> SUFFICES ASSUME NEW i \in 1..(Len(s) - n), NEW j \in 1..(Len(s) - n), i < j
               PROVE  b[i] < b[j]
    BY <1>1 DEF Sorted
  <2>1. n + i \in DOMAIN s /\ n + j \in DOMAIN s /\ n + i < n + j /\ b[i] = s[n + i] /\ b[j] = s[n + j]
    BY <1>1
  <2> QED BY <2>1 DEF Sorted
<1>3. Range(s) = Range(a) \cup Range(b)
  <2>1. ASSUME NEW i \in DOMAIN s PROVE s[i] \in Range(a) \cup Range(b)
    <3>1. CASE i <= n
      BY <1>1, <3>1 DEF Range
    <3>2. CASE i > n
      <4>1. i - n \in 1..(Len(s) - n) /\ n + (i - n) = i
        BY <1>1, <3>2
      <4> QED BY <1>1, <4>1 DEF Range
    <3> QED BY <1>1, <3>1, <3>2
  <2>2. Range(a) \cup Range(b) \subseteq Range(s)
    <3>1. \A i \in DOMAIN a : a[i] \in Range(s)
      BY <1>1 DEF Range
    <3>2. \A i \in DOMAIN b : b[i] \in Range(s)
      <4> SUFFICES ASSUME NEW i \in 1..(Len(s) - n) PROVE b[i] \in Range(s)
        BY <1>1
      <4>1. b[i] = s[n + i] /\ n + i \in DOMAIN s
        BY <1>1
      <4> QED BY <4>1 DEF Range
    <3> QED BY <3>1, <3>2 DEF Range
  <2> QED BY <2>1, <2>2 DEF Range
<1>4. \A p \in Range(a), q \in Range(b) : p < q
  <2> SUFFICES ASSUME NEW i \in 1..n, NEW j \in 1..(Len(s) - n) PROVE a[i] < b[j]
    BY <1>1 DEF Range
  <2>1. i \in DOMAIN s /\ n + j \in DOMAIN s /\ i < n + j
    BY <1>1
  <2> QED BY <1>1, <2>1 DEF Sorted
<1> QED BY <1>1, <1>2, <1>3, <1>4 DEF a, b

LEMMA HeadIs ==
  ASSUME NEW s \in Seq(Prompts), Sorted(s), s # <<>>
  PROVE  /\ Head(s) \in Prompts /\ Tail(s) \in Seq(Prompts)
         /\ Range(s) = {Head(s)} \cup Range(Tail(s))
         /\ \A q \in Range(Tail(s)) : Head(s) < q
         /\ Sorted(Tail(s))
<1>1. /\ 1 \in 0..Len(s) /\ Head(s) = s[1] /\ Head(s) \in Prompts
      /\ Tail(s) = SubSeq(s, 2, Len(s)) /\ Len(s) \in Nat /\ 1 <= Len(s)
  OBVIOUS
<1>2. Range(SubSeq(s, 1, 1)) = {Head(s)}
  <2>1. Len(SubSeq(s, 1, 1)) = 1 /\ SubSeq(s, 1, 1)[1] = s[1] /\ SubSeq(s, 1, 1) \in Seq(Prompts)
    BY <1>1, CutAnywhere, SubSeqProperties
  <2>2. DOMAIN SubSeq(s, 1, 1) = {1}
    BY <2>1
  <2> QED BY <1>1, <2>1, <2>2 DEF Range
<1>3. Tail(s) = SubSeq(s, 1 + 1, Len(s))
  BY <1>1
<1>4. PICK n \in 0..Len(s) : n = 1
  BY <1>1
<1>5. SubSeq(s, n + 1, Len(s)) = Tail(s) /\ Range(SubSeq(s, 1, n)) = {Head(s)}
  BY <1>2, <1>3, <1>4
<1>6. /\ SubSeq(s, n + 1, Len(s)) \in Seq(Prompts)
      /\ Range(s) = Range(SubSeq(s, 1, n)) \cup Range(SubSeq(s, n + 1, Len(s)))
      /\ \A p \in Range(SubSeq(s, 1, n)), q \in Range(SubSeq(s, n + 1, Len(s))) : p < q
      /\ Sorted(SubSeq(s, n + 1, Len(s)))
  BY <1>4, CutIs
<1> QED BY <1>1, <1>5, <1>6

-----------------------------------------------------------------------------
(* Every step keeps the prompts in their places. *)

LEMMA PromptFacts ==
  ASSUME IInv, Shape
  PROVE  /\ Range(pending) \subseteq Prompts /\ Prompts \subseteq Nat /\ None \notin Prompts
         /\ active \in Prompts \union {None} /\ launching \in Prompts \union {None}
         /\ launching # None => active = None
BY RangeIn, PromptAssumption DEF Shape, Prompts, None, IInv, Types, HolderInv

LEMMA InitSeats == Init => SInv
<1> SUFFICES ASSUME Init PROVE SInv
  OBVIOUS
<1>1. pending = <<>> /\ Range(pending) = {} /\ Sorted(pending)
  BY DEF Init, Range, Sorted
<1>2. <<>> \in Seq(Prompts)
  OBVIOUS
<1>3. Shape
  BY <1>1, <1>2 DEF Init, Shape
<1>4. SeatInv /\ OrderInv
  BY <1>1 DEF Init, SeatInv, OrderInv
<1> QED BY <1>3, <1>4 DEF SInv

LEMMA EnqueueSeats ==
  ASSUME IInv, SInv, NEW p \in Prompts, Enqueue(p) PROVE SInv'
<1>1. /\ state[p] = "new" /\ state' = [state EXCEPT ![p] = "pending"] /\ pending' = QueuedLast(p)
      /\ UNCHANGED <<active, launching, stage, steering, host, compacting, worker>>
      /\ relaunch' \in BOOLEAN
      /\ \A q \in 1..(p - 1) : state[q] # "new"
  BY DEF Enqueue, steerVars, compactVars
<1>2. Shape /\ SeatInv /\ OrderInv
  BY DEF SInv
<1>3. Range(pending) \subseteq Prompts /\ Prompts \subseteq Nat
      /\ launching \in Prompts \union {None} /\ active \in Prompts \union {None} /\ None \notin Prompts
  BY <1>2, PromptFacts
<1>4. \A q \in Prompts : state[q] # "new" => q < p
  <2> SUFFICES ASSUME NEW q \in Prompts, state[q] # "new", ~(q < p) PROVE FALSE
    OBVIOUS
  <2>1. q # p
    BY <1>1
  <2>2. p \in 1..(q - 1)
    BY <1>3, <2>1 DEF Prompts
  <2> QED BY <1>1, <1>2, <2>2 DEF OrderInv
<1>5. \A q \in Range(pending) : q < p
  BY <1>2, <1>3, <1>4 DEF SeatInv
<1>6. /\ pending' \in Seq(Prompts) /\ Range(pending') = Range(pending) \cup {p} /\ Sorted(pending')
  BY <1>1, <1>2, <1>5, EnqueuedIs DEF OrderInv
<1>7. Shape'
  BY <1>1, <1>2, <1>6 DEF Shape
<1>8. SeatInv'
  BY <1>1, <1>2, <1>3, <1>6 DEF SeatInv, Shape
<1>9. launching # None => launching < p
  BY <1>2, <1>3, <1>4 DEF SeatInv
<1>10. \A r \in Prompts : \A q \in 1..(r - 1) : state'[r] # "new" => state'[q] # "new"
  <2> SUFFICES ASSUME NEW r \in Prompts, NEW q \in 1..(r - 1), state'[r] # "new"
               PROVE  state'[q] # "new"
    OBVIOUS
  <2>1. q \in Prompts
    BY PromptAssumption DEF Prompts
  <2> QED BY <1>1, <1>2, <2>1 DEF OrderInv, Shape
<1> QED BY <1>1, <1>2, <1>6, <1>7, <1>8, <1>9, <1>10 DEF SInv, OrderInv

(* Some prompts leave the queue, or stay where they are, and get an outcome  *)
(* or none.                                                                 *)
LEMMA LeaveSeats ==
  ASSUME IInv, SInv, NEW S \in SUBSET Prompts, NEW o \in Final,
         Range(pending') = Range(pending) \ S, pending' \in Seq(Prompts), Sorted(pending'),
         \/ state' = Settled(S, o) /\ S \subseteq Range(pending)
         \/ state' = state,
         UNCHANGED <<active, launching, stage, steering, host, relaunch, compacting, worker>>
  PROVE  SInv'
<1>2. Shape /\ SeatInv /\ OrderInv
  BY DEF SInv
<1>3. Range(pending) \subseteq Prompts /\ Prompts \subseteq Nat
      /\ launching \in Prompts \union {None} /\ active \in Prompts \union {None} /\ None \notin Prompts
  BY <1>2, PromptFacts
<1>4. Shape'
  BY <1>2 DEF Shape, Settled
<1>5. /\ \A p \in Prompts : p \notin S => state'[p] = state[p]
      /\ \A p \in S : state'[p] # state[p] => p \in Range(pending) /\ state'[p] = o
  BY <1>2 DEF Settled, Shape
<1>6. SeatInv'
  <2>1. \A p \in Range(pending') : state'[p] = "pending" /\ p # launching
    BY <1>2, <1>3, <1>5 DEF SeatInv
  <2>2. \A x \in steering : \A p \in x.items :
          state'[p] = "pending" /\ p \notin Range(pending') /\ p # launching
    BY <1>2, <1>5 DEF SeatInv, Shape
  <2>3. (launching # None => state'[launching] = "pending") /\ (active # None => state'[active] = "running")
    BY <1>2, <1>3, <1>5 DEF SeatInv
  <2>4. \A p \in Prompts : host[p] # None => state'[p] = "steered"
    BY <1>2, <1>5 DEF SeatInv
  <2> QED BY <1>2, <2>1, <2>2, <2>3, <2>4 DEF SeatInv
<1>7. \A r \in Prompts : \A q \in 1..(r - 1) : state'[r] # "new" => state'[q] # "new"
  <2> SUFFICES ASSUME NEW r \in Prompts, NEW q \in 1..(r - 1), state'[r] # "new"
               PROVE  state'[q] # "new"
    OBVIOUS
  <2>1. q \in Prompts
    BY PromptAssumption DEF Prompts
  <2>2. state[r] # "new"
    BY <1>2, <1>5 DEF SeatInv
  <2> QED BY <1>2, <1>5, <2>1, <2>2 DEF OrderInv, Final
<1> QED BY <1>2, <1>4, <1>6, <1>7 DEF SInv, OrderInv

LEMMA AbortSeats ==
  ASSUME IInv, SInv, NEW p \in Prompts, Abort(p) PROVE SInv'
<1>1. UNCHANGED <<active, launching, stage, steering, host, relaunch, compacting, worker>>
  BY DEF Abort, steerVars, compactVars
<1>2. Shape /\ SeatInv /\ OrderInv
  BY DEF SInv
<1>3. CASE UNCHANGED <<state, pending>>
  BY <1>1, <1>2, <1>3 DEF SInv, Shape, SeatInv, OrderInv, Sorted
<1>4. CASE p \in ToSet(pending) /\ state' = Settled({p}, "cancelled") /\ pending' = Without({p})
  <2>1. PICK S \in SUBSET Prompts : S = {p}
    OBVIOUS
  <2>2. PICK o \in Final : o = "cancelled"
    BY DEF Final
  <2>3. /\ Range(pending') = Range(pending) \ S /\ pending' \in Seq(Prompts) /\ Sorted(pending')
    BY <1>2, <1>4, <2>1, WithoutIs DEF OrderInv
  <2>4. state' = Settled(S, o) /\ S \subseteq Range(pending)
    BY <1>4, <2>1, <2>2, ToSetIsRange
  <2> QED BY <1>1, <2>3, <2>4, LeaveSeats
<1> QED BY <1>3, <1>4 DEF Abort

LEMMA ClearSeats ==
  ASSUME IInv, SInv, Clear PROVE SInv'
<1>1. UNCHANGED <<active, launching, stage, steering, host, relaunch, compacting, worker>>
  BY DEF Clear, steerVars, compactVars
<1>2. Shape /\ SeatInv /\ OrderInv
  BY DEF SInv
<1>3. PICK S : S = Range(pending)
  OBVIOUS
<1>4. S \in SUBSET Prompts
  BY <1>2, <1>3, PromptFacts
<1>5. PICK o \in Final : o = "cancelled"
  BY DEF Final
<1>6. pending' = <<>> /\ state' = Settled(S, o)
  BY <1>3, <1>5, ToSetIsRange DEF Clear
<1>7. Range(pending') = {} /\ pending' \in Seq(Prompts) /\ Sorted(pending')
  BY <1>6 DEF Range, Sorted
<1>8. Range(pending') = Range(pending) \ S /\ S \subseteq Range(pending)
  BY <1>3, <1>7
<1> QED BY <1>1, <1>4, <1>6, <1>7, <1>8, LeaveSeats

LEMMA EndedValue ==
  ASSUME NEW e, NEW l \in BOOLEAN, e \in Ended <=> l
  PROVE  (e \in Ended) = l
BY DEF Ended

LEMMA SteerSeats ==
  ASSUME IInv, SInv, NEW S \in SUBSET Prompts, Steer(S) PROVE SInv'
<1>1. /\ UNCHANGED <<state, active, launching, stage, host, relaunch, compacting, worker>>
      /\ S # {} /\ S \subseteq Range(pending) /\ pending' = Without(S)
  BY ToSetIsRange DEF Steer, compactVars
<1>2a. PICK l \in BOOLEAN : turn[active] \in Ended <=> l
  OBVIOUS
<1>2. /\ l \in BOOLEAN
      /\ \/ steering' = steering
         \/ steering' = steering \union {[items |-> S, late |-> l]}
  <2>1. (turn[active] \in Ended) = l
    BY <1>2a, EndedValue
  <2> QED BY <2>1 DEF Steer
<1>3. Shape /\ SeatInv /\ OrderInv
  BY DEF SInv
<1>4. /\ Range(pending) \subseteq Prompts
      /\ launching \in Prompts \union {None} /\ active \in Prompts \union {None}
  BY <1>3, PromptFacts
<1>5. Range(pending') = Range(pending) \ S /\ pending' \in Seq(Prompts) /\ Sorted(pending')
  BY <1>1, <1>3, WithoutIs DEF OrderInv
<1>6. PICK new : new = [items |-> S, late |-> l]
  OBVIOUS
<1>7. new.items = S /\ new \in [items : SUBSET Prompts, late : BOOLEAN]
      /\ steering' \subseteq steering \cup {new}
  BY <1>2, <1>6
<1>8. Shape'
  <2>1. steering' \subseteq [items : SUBSET Prompts, late : BOOLEAN]
    BY <1>3, <1>7 DEF Shape
  <2> QED BY <1>1, <1>3, <1>5, <2>1 DEF Shape
<1>9. SeatInv'
  <2>1. \A x \in steering' : \A p \in x.items :
          state[p] = "pending" /\ p \notin Range(pending') /\ p # launching
    BY <1>1, <1>3, <1>5, <1>7 DEF SeatInv
  <2>2. \A x, y \in steering' : x.items \cap y.items # {} => x = y
    <3>1. \A x \in steering : x.items \cap S = {}
      BY <1>1, <1>3 DEF SeatInv
    <3> QED BY <1>3, <1>7, <3>1 DEF SeatInv
  <2>3. \A p \in Range(pending') : state[p] = "pending" /\ p # launching
    BY <1>3, <1>5 DEF SeatInv
  <2> QED BY <1>1, <1>3, <2>1, <2>2, <2>3 DEF SeatInv
<1>10. OrderInv'
  BY <1>1, <1>3, <1>5 DEF OrderInv
<1> QED BY <1>8, <1>9, <1>10 DEF SInv

LEMMA StartNextSeats ==
  ASSUME IInv, SInv, StartNext PROVE SInv'
<1>1. UNCHANGED <<steering, host, compacting, worker>> /\ relaunch' = FALSE
  BY DEF StartNext, steerVars, compactVars
<1>2. Shape /\ SeatInv /\ OrderInv
  BY DEF SInv
<1>3. /\ Range(pending) \subseteq Prompts /\ None \notin Prompts /\ pending \in Seq(Prompts)
      /\ launching \in Prompts \union {None} /\ active \in Prompts \union {None}
  BY <1>2, PromptFacts DEF Shape
<1>4. CASE UNCHANGED queueVars
  BY <1>1, <1>2, <1>4 DEF SInv, Shape, SeatInv, OrderInv, Sorted, queueVars
<1>5. CASE RunAway
  <2>1. PICK n \in 0..Len(pending) :
          /\ state' = Settled(ToSet(SubSeq(pending, 1, n)), "failed")
          /\ pending' = SubSeq(pending, n + 1, Len(pending))
    BY <1>5 DEF RunAway
  <2>2. PICK S : S = Range(SubSeq(pending, 1, n))
    OBVIOUS
  <2>3. /\ pending' \in Seq(Prompts) /\ Range(pending) = S \cup Range(pending')
        /\ \A p \in S, q \in Range(pending') : p < q
        /\ Sorted(pending')
    BY <1>2, <1>3, <2>1, <2>2, CutIs DEF OrderInv
  <2>4. Range(pending') = Range(pending) \ S /\ S \subseteq Range(pending)
    BY <1>3, <2>3, PromptAssumption DEF Prompts
  <2>5. PICK o \in Final : o = "failed"
    BY DEF Final
  <2>6. state' = Settled(S, o)
    BY <2>1, <2>2, <2>5, ToSetIsRange
  <2>7. UNCHANGED <<active, launching, stage>>
    BY <1>5 DEF RunAway
  <2>8. S \in SUBSET Prompts
    BY <1>3, <2>4
  <2>9. Shape' /\ SeatInv' /\ OrderInv'
    <3>1. \A p \in Prompts : p \notin S => state'[p] = state[p]
      BY <2>6 DEF Settled
    <3>2. \A p \in S : state'[p] = o /\ state[p] = "pending" /\ p # launching
      BY <1>2, <2>4, <2>6, <2>8 DEF Settled, SeatInv
    <3>3. Shape'
      BY <1>1, <1>2, <2>3, <2>6, <2>7 DEF Shape, Settled
    <3>4. SeatInv'
      <4>1. \A p \in Range(pending') : state'[p] = "pending" /\ p # launching
        BY <1>2, <1>3, <2>4, <3>1 DEF SeatInv
      <4>2. \A x \in steering : \A p \in x.items :
              state'[p] = "pending" /\ p \notin Range(pending') /\ p # launching
        BY <1>2, <2>4, <3>1 DEF SeatInv, Shape
      <4>3. (launching # None => state'[launching] = "pending") /\ (active # None => state'[active] = "running")
        BY <1>2, <1>3, <3>1, <3>2 DEF SeatInv
      <4>4. \A p \in Prompts : host[p] # None => state'[p] = "steered"
        BY <1>2, <3>1, <3>2 DEF SeatInv
      <4> QED BY <1>1, <1>2, <2>7, <4>1, <4>2, <4>3, <4>4 DEF SeatInv
    <3>5. \A r \in Prompts : \A q \in 1..(r - 1) : state'[r] # "new" => state'[q] # "new"
      <4> SUFFICES ASSUME NEW r \in Prompts, NEW q \in 1..(r - 1), state'[r] # "new"
                   PROVE  state'[q] # "new"
        OBVIOUS
      <4>1. q \in Prompts
        BY PromptAssumption DEF Prompts
      <4>2. state[r] # "new"
        BY <3>1, <3>2
      <4> QED BY <1>2, <3>1, <3>2, <4>1, <4>2 DEF OrderInv, Final
    <3> QED BY <1>2, <2>3, <2>4, <2>7, <3>3, <3>4, <3>5 DEF OrderInv
  <2> QED BY <2>9 DEF SInv
<1>6. CASE /\ ~Busy /\ pending # <<>> /\ launching' = Head(pending) /\ pending' = Tail(pending)
           /\ stage' = "hook" /\ UNCHANGED <<state, active>>
  <2>1. PICK p : p = Head(pending)
    OBVIOUS
  <2>2. /\ p \in Prompts /\ pending' \in Seq(Prompts)
        /\ Range(pending) = {p} \cup Range(pending')
        /\ \A q \in Range(pending') : p < q
        /\ Sorted(pending')
    BY <1>2, <1>3, <1>6, <2>1, HeadIs DEF OrderInv
  <2>3. launching' = p /\ launching = None /\ p # None
    BY <1>3, <1>6, <2>1, <2>2 DEF Busy
  <2>4. Shape'
    BY <1>1, <1>2, <1>6, <2>2, <2>3 DEF Shape
  <2>5. \A q \in Range(pending') : q # p
    BY <1>3, <2>2, PromptAssumption DEF Prompts
  <2>6. SeatInv'
    <3>1. \A q \in Range(pending') : state[q] = "pending" /\ q # p
      BY <1>2, <2>2, <2>5 DEF SeatInv
    <3>2. \A x \in steering : \A q \in x.items :
            state[q] = "pending" /\ q \notin Range(pending') /\ q # p
      BY <1>2, <2>2 DEF SeatInv
    <3>3. state[p] = "pending"
      BY <1>2, <2>2 DEF SeatInv
    <3> QED BY <1>1, <1>2, <1>6, <2>3, <3>1, <3>2, <3>3 DEF SeatInv
  <2>7. OrderInv'
    BY <1>2, <1>6, <2>2, <2>3 DEF OrderInv
  <2> QED BY <2>4, <2>6, <2>7 DEF SInv
<1> QED BY <1>4, <1>5, <1>6 DEF StartNext

LEMMA LaunchSeats ==
  ASSUME IInv, SInv, (\E o \in {"blocked", "failed"} : LaunchStops(o)) \/ LaunchOpens \/ Launched
  PROVE  SInv'
<1>1. /\ UNCHANGED <<pending, steering, host, compacting, worker>> /\ relaunch' \in BOOLEAN
      /\ launching # None
  BY DEF LaunchStops, LaunchOpens, Launched, steerVars, compactVars, SInv, Shape
<1>2. Shape /\ SeatInv /\ OrderInv
  BY DEF SInv
<1>3. /\ Range(pending) \subseteq Prompts /\ None \notin Prompts
      /\ launching \in Prompts /\ active = None
  BY <1>1, <1>2, PromptFacts
<1>4. PICK o \in Final \cup {"running", "pending"} :
        /\ state' = [state EXCEPT ![launching] = o]
        /\ \/ launching' = launching /\ stage' \in {"hook", "assign"} /\ active' = active /\ o = "pending"
           \/ launching' = None /\ stage' = "none" /\ active' = active /\ o \in Final
           \/ launching' = None /\ stage' = "none" /\ active' = launching /\ o = "running"
  <2>1. ASSUME NEW r \in {"blocked", "failed"}, LaunchStops(r)
        PROVE  r \in Final /\ state' = [state EXCEPT ![launching] = r]
               /\ launching' = None /\ stage' = "none" /\ active' = active
    BY <2>1, <1>2, <1>3 DEF LaunchStops, Settled, Final, Shape
  <2>2. CASE LaunchOpens
    BY <2>2, <1>2, <1>3 DEF LaunchOpens, SeatInv, Shape
  <2>3. CASE Launched
    BY <2>3 DEF Launched
  <2> QED BY <2>1, <2>2, <2>3
<1>5. state'[launching] = o /\ \A p \in Prompts : p # launching => state'[p] = state[p]
  BY <1>2, <1>3, <1>4 DEF Shape
<1>6. Shape'
  BY <1>1, <1>2, <1>3, <1>4 DEF Shape
<1>7. SeatInv'
  <2>1. \A p \in Range(pending) : state'[p] = "pending" /\ p # launching'
    BY <1>2, <1>3, <1>4, <1>5 DEF SeatInv
  <2>2. \A x \in steering : \A p \in x.items :
          state'[p] = "pending" /\ p \notin Range(pending) /\ p # launching'
    BY <1>2, <1>3, <1>4, <1>5 DEF SeatInv, Shape
  <2>3. (launching' # None => state'[launching'] = "pending") /\ (active' # None => state'[active'] = "running")
    BY <1>2, <1>3, <1>4, <1>5 DEF SeatInv
  <2>4. \A p \in Prompts : host[p] # None => state'[p] = "steered"
    BY <1>1, <1>2, <1>3, <1>5 DEF SeatInv
  <2> QED BY <1>1, <1>2, <2>1, <2>2, <2>3, <2>4 DEF SeatInv
<1>8. OrderInv'
  <2>1. \A r \in Prompts : \A q \in 1..(r - 1) : state'[r] # "new" => state'[q] # "new"
    <3> SUFFICES ASSUME NEW r \in Prompts, NEW q \in 1..(r - 1), state'[r] # "new"
                 PROVE  state'[q] # "new"
      OBVIOUS
    <3>1. q \in Prompts
      BY PromptAssumption DEF Prompts
    <3>2. state[r] # "new" /\ o # "new"
      BY <1>1, <1>2, <1>5 DEF SeatInv, Final
    <3> QED BY <1>2, <1>5, <3>1, <3>2 DEF OrderInv
  <2> QED BY <1>1, <1>2, <1>4, <2>1 DEF OrderInv
<1> QED BY <1>6, <1>7, <1>8 DEF SInv

(* The active prompt and all that were steered into it get their outcome.   *)
LEMMA SettleSeats ==
  ASSUME IInv, SInv, Settle PROVE SInv'
<1>1. /\ UNCHANGED <<pending, launching, stage, steering, compacting, worker>> /\ relaunch' \in BOOLEAN
      /\ active # None /\ active' = None /\ turn[active] \in Final
      /\ state' = Settled({active} \union ChildrenOf(active), turn[active])
      /\ host' = [p \in Prompts |-> IF host[p] = active THEN None ELSE host[p]]
  BY DEF Settle, compactVars, Ended, Final
<1>2. Shape /\ SeatInv /\ OrderInv
  BY DEF SInv
<1>3. /\ Range(pending) \subseteq Prompts /\ None \notin Prompts /\ launching = None
      /\ active \in Prompts
  BY <1>1, <1>2, PromptFacts
<1>4. PICK o \in Final : o = turn[active]
  BY <1>1
<1>5. \A p \in Prompts : state'[p] = IF p = active \/ host[p] = active THEN o ELSE state[p]
  BY <1>1, <1>4 DEF Settled, ChildrenOf
<1>6. \A p \in Prompts : state[p] # "running" /\ state[p] # "steered" => state'[p] = state[p]
  BY <1>1, <1>2, <1>5 DEF SeatInv
<1>7. Shape'
  BY <1>1, <1>2, <1>3, <1>5 DEF Shape, Settled
<1>8. SeatInv'
  <2>1. \A p \in Range(pending) : state'[p] = "pending" /\ p # launching
    BY <1>2, <1>3, <1>6 DEF SeatInv
  <2>2. \A x \in steering : \A p \in x.items :
          state'[p] = "pending" /\ p \notin Range(pending) /\ p # launching
    BY <1>2, <1>6 DEF SeatInv, Shape
  <2>3. \A p \in Prompts : host'[p] # None => state'[p] = "steered"
    BY <1>1, <1>2, <1>5 DEF SeatInv
  <2> QED BY <1>1, <1>2, <1>3, <2>1, <2>2, <2>3 DEF SeatInv
<1>9. OrderInv'
  <2>1. \A r \in Prompts : \A q \in 1..(r - 1) : state'[r] # "new" => state'[q] # "new"
    <3> SUFFICES ASSUME NEW r \in Prompts, NEW q \in 1..(r - 1), state'[r] # "new"
                 PROVE  state'[q] # "new"
      OBVIOUS
    <3>1. q \in Prompts
      BY PromptAssumption DEF Prompts
    <3>2. state[r] # "new" /\ o # "new"
      BY <1>1, <1>6 DEF Final
    <3> QED BY <1>2, <1>5, <3>1, <3>2 DEF OrderInv
  <2> QED BY <1>1, <1>2, <2>1 DEF OrderInv
<1> QED BY <1>7, <1>8, <1>9 DEF SInv

LEMMA SteeredSeats ==
  ASSUME IInv, SInv, NEW x \in steering, Steered(x) PROVE SInv'
<1>1. /\ UNCHANGED <<pending, active, launching, stage, relaunch, compacting, worker>>
      /\ steering' = steering \ {x}
      /\ state' = Settled(x.items, "steered")
      /\ host' = [p \in Prompts |-> IF p \in x.items THEN active ELSE host[p]]
  BY DEF Steered, compactVars
<1>2. Shape /\ SeatInv /\ OrderInv
  BY DEF SInv
<1>3. /\ Range(pending) \subseteq Prompts /\ None \notin Prompts
      /\ launching \in Prompts \union {None} /\ active \in Prompts \union {None}
      /\ x.items \subseteq Prompts
  BY <1>2, PromptFacts DEF Shape
<1>5. \A p \in Prompts : state'[p] = IF p \in x.items THEN "steered" ELSE state[p]
  BY <1>1 DEF Settled
<1>6. \A p \in x.items : state[p] = "pending" /\ p \notin Range(pending) /\ p # launching
  BY <1>2 DEF SeatInv
<1>7. Shape'
  BY <1>1, <1>2, <1>3 DEF Shape, Settled
<1>8. SeatInv'
  <2>1. \A p \in Range(pending) : state'[p] = "pending" /\ p # launching
    BY <1>2, <1>3, <1>5, <1>6 DEF SeatInv
  <2>2. \A y \in steering' : \A p \in y.items :
          state'[p] = "pending" /\ p \notin Range(pending) /\ p # launching
    <3> SUFFICES ASSUME NEW y \in steering, y # x, NEW p \in y.items
                 PROVE  state'[p] = "pending" /\ p \notin Range(pending) /\ p # launching
      BY <1>1
    <3>1. p \notin x.items /\ p \in Prompts
      BY <1>2 DEF SeatInv, Shape
    <3> QED BY <1>2, <1>5, <3>1 DEF SeatInv
  <2>3. \A p \in Prompts : host'[p] # None => state'[p] = "steered"
    BY <1>1, <1>2, <1>5 DEF SeatInv
  <2>4. (launching # None => state'[launching] = "pending") /\ (active # None => state'[active] = "running")
    BY <1>2, <1>3, <1>5, <1>6 DEF SeatInv
  <2> QED BY <1>1, <1>2, <2>1, <2>2, <2>3, <2>4 DEF SeatInv
<1>9. OrderInv'
  <2>1. \A r \in Prompts : \A q \in 1..(r - 1) : state'[r] # "new" => state'[q] # "new"
    <3> SUFFICES ASSUME NEW r \in Prompts, NEW q \in 1..(r - 1), state'[r] # "new"
                 PROVE  state'[q] # "new"
      OBVIOUS
    <3>1. q \in Prompts
      BY PromptAssumption DEF Prompts
    <3>2. state[r] # "new"
      BY <1>5, <1>6
    <3> QED BY <1>2, <1>5, <3>1, <3>2 DEF OrderInv
  <2> QED BY <1>1, <1>2, <2>1 DEF OrderInv
<1> QED BY <1>7, <1>8, <1>9 DEF SInv

LEMMA StepSeats == IInv /\ SInv /\ [Next]_vars => SInv'
<1> SUFFICES ASSUME IInv, SInv, [Next]_vars PROVE SInv'
  OBVIOUS
<1>0. ASSUME UNCHANGED <<queueVars, steerVars>>, relaunch' \in BOOLEAN,
             compacting' \in Tasks \union {None}, worker' \in [Tasks -> {"none", "live", "done"}]
      PROVE  SInv'
  BY <1>0 DEF SInv, Shape, SeatInv, OrderInv, Sorted, queueVars, steerVars
<1>1. Shape
  BY DEF SInv
<1>2. CASE UNCHANGED <<queueVars, steerVars, relaunch, compactVars>>
  BY <1>0, <1>1, <1>2 DEF Shape, compactVars
<1>3. ASSUME NEW k \in Tasks, BeginCompaction(k) \/ FinishCompaction(k) PROVE SInv'
  BY <1>0, <1>1, <1>3 DEF Shape, BeginCompaction, FinishCompaction
<1>4. CASE CancelCompaction
  BY <1>0, <1>1, <1>4 DEF Shape, CancelCompaction
<1>5. ASSUME NEW t \in SystemTurns, SystemTurn(t) PROVE SInv'
  BY <1>2, <1>5 DEF SystemTurn
<1>6. CASE CancelActive
  BY <1>2, <1>6 DEF CancelActive
<1>7. ASSUME NEW r \in Ended, TurnEnds(r) PROVE SInv'
  BY <1>2, <1>7 DEF TurnEnds
<1>8. CASE UNCHANGED vars
  BY <1>2, <1>8 DEF vars
<1> QED
  BY <1>3, <1>4, <1>5, <1>6, <1>7, <1>8, EnqueueSeats, AbortSeats, ClearSeats, SteerSeats,
     StartNextSeats, LaunchSeats, SettleSeats, SteeredSeats
     DEF Next, Callers, LaunchSettles, LoopProceeds, SteerProceeds, WorkerEnds

(* The scheduler's bookkeeping: what a prompt's state says of the place it   *)
(* is in, and that the queue keeps the order of arrival.                     *)
THEOREM SeatsInvariant == Spec => [](IInv /\ SInv)
<1>1. IInv /\ SInv /\ [Next]_vars => (IInv /\ SInv)'
  BY StepKeeps, StepSeats
<1> QED BY <1>1, InitHolds, InitSeats, PTL DEF Spec

(* The types of all variables; nothing waits twice.                         *)
THEOREM PromptTypes == Spec => []TypeOK
<1>1. IInv /\ SInv => TypeOK
  <2> SUFFICES ASSUME IInv, SInv PROVE TypeOK
    OBVIOUS
  <2>1. \A i, j \in DOMAIN pending : pending[i] = pending[j] => i = j
    <3> SUFFICES ASSUME NEW i \in DOMAIN pending, NEW j \in DOMAIN pending,
                        pending[i] = pending[j], i # j
                 PROVE  FALSE
      OBVIOUS
    <3>1. pending \in Seq(Prompts) /\ Prompts \subseteq Nat
      BY PromptFacts DEF SInv, Shape
    <3>2. i \in Nat /\ j \in Nat /\ pending[i] \in Nat /\ pending[j] \in Nat
      <4>1. i \in Nat /\ j \in Nat
        BY <3>1
      <4>2. pending[i] \in Prompts /\ pending[j] \in Prompts
        BY <3>1
      <4> QED BY <3>1, <4>1, <4>2
    <3>3. CASE i < j
      BY <3>2, <3>3 DEF SInv, OrderInv, Sorted
    <3>4. CASE j < i
      BY <3>2, <3>4 DEF SInv, OrderInv, Sorted
    <3> QED BY <3>2, <3>3, <3>4
  <2> QED BY <2>1 DEF TypeOK, SInv, Shape, IInv, Types, IsInjective
<1> QED BY <1>1, SeatsInvariant, PTL

(* An outcome is final: whatever callers, the loop and compactions do, a     *)
(* prompt that was reported is not launched or reported again.              *)
THEOREM OutcomesStand == Spec => OutcomeIsFinal
<1>1. IInv /\ SInv /\ [Next]_vars =>
        [\A p \in Prompts : state[p] \in Final =>
           /\ state'[p] = state[p]
           /\ launching' = p => launching = p]_vars
  <2> SUFFICES ASSUME IInv, SInv, Next, NEW p \in Prompts, state[p] \in Final
               PROVE  state'[p] = state[p] /\ (launching' = p => launching = p)
    OBVIOUS
  <2>1. Shape /\ SeatInv
    BY DEF SInv
  <2>2. /\ state[p] \notin {"new", "pending", "running", "steered"}
        /\ p \notin Range(pending) /\ p # None
        /\ launching # None => p # launching
        /\ active # None => p # active
        /\ host[p] = None
        /\ \A x \in steering : p \notin x.items
    BY <2>1, PromptFacts DEF Final, SeatInv
  <2>3. \A S, s : p \notin S => Settled(S, s)[p] = state[p]
    BY DEF Settled
  <2>4. CASE UNCHANGED <<state, launching>>
    BY <2>4
  <2>5. ASSUME NEW q \in Prompts, Enqueue(q) PROVE state'[p] = state[p] /\ launching' = launching
    BY <2>1, <2>2, <2>5 DEF Enqueue, Shape
  <2>6. ASSUME NEW q \in Prompts, Abort(q) PROVE state'[p] = state[p] /\ launching' = launching
    BY <2>2, <2>3, <2>6, ToSetIsRange DEF Abort
  <2>7. CASE Clear
    BY <2>2, <2>3, <2>7, ToSetIsRange DEF Clear
  <2>8. CASE StartNext
    <3>1. pending \in Seq(Prompts) /\ Sorted(pending)
      BY <2>1 DEF Shape, SInv, OrderInv
    <3>2. CASE UNCHANGED queueVars
      BY <3>2 DEF queueVars
    <3>3. CASE RunAway
      <4>1. PICK n \in 0..Len(pending) : state' = Settled(ToSet(SubSeq(pending, 1, n)), "failed")
        BY <3>3 DEF RunAway
      <4>2. p \notin ToSet(SubSeq(pending, 1, n))
        BY <2>2, <3>1, CutIs, ToSetIsRange
      <4> QED BY <2>3, <3>3, <4>1, <4>2 DEF RunAway
    <3>4. CASE pending # <<>> /\ launching' = Head(pending) /\ state' = state
      BY <2>2, <3>1, <3>4, HeadIs
    <3> QED BY <2>8, <3>2, <3>3, <3>4 DEF StartNext
  <2>9. ASSUME NEW o, LaunchStops(o) PROVE state'[p] = state[p] /\ launching' # p
    BY <2>1, <2>2, <2>3, <2>9 DEF LaunchStops, Shape
  <2>10. CASE Launched
    BY <2>1, <2>2, <2>10 DEF Launched, Shape
  <2>11. CASE Settle
    BY <2>2, <2>3, <2>11 DEF Settle, ChildrenOf
  <2>12. ASSUME NEW x \in steering, Steered(x) PROVE state'[p] = state[p] /\ launching' = launching
    BY <2>2, <2>3, <2>12 DEF Steered
  <2> QED
    BY <2>4, <2>5, <2>6, <2>7, <2>8, <2>9, <2>10, <2>11, <2>12
       DEF Next, Callers, LaunchSettles, LoopProceeds, SteerProceeds, WorkerEnds, Steer, CancelActive,
           CancelCompaction, SystemTurn, BeginCompaction, FinishCompaction, TurnEnds, LaunchOpens, queueVars
<1> QED BY <1>1, SeatsInvariant, PTL DEF OutcomeIsFinal, Spec

-----------------------------------------------------------------------------
(* What a step does to the loop. *)

Opens(t)  == OpenTurn(t) /\ turn[t] \notin Live
               /\ (t \in SystemTurns \/ (t = launching /\ stage = "hook"))
LoopStep ==
  \/ UNCHANGED loopVars
  \/ \E t \in Turns : Opens(t)
  \/ \E t \in Turns : CancelTurn(t)
  \/ \E r \in Ended : TurnEnds(r)

LEMMA StepOfLoop == IInv /\ SInv /\ [Next]_vars => LoopStep
<1> SUFFICES ASSUME IInv, SInv, [Next]_vars PROVE LoopStep
  OBVIOUS
<1>a. /\ active # None => active \in Turns
      /\ Prompts \subseteq Turns
      /\ running # None => running \in Turns
  BY NoneIsNoTurn DEF IInv, Types
<1>1. CASE UNCHANGED loopVars
  BY <1>1 DEF LoopStep
<1>2. ASSUME NEW p \in Prompts, Abort(p) PROVE LoopStep
  BY <1>2, <1>a DEF Abort, LoopStep
<1>3. CASE Clear
  BY <1>3, <1>a DEF Clear, LoopStep
<1>4. CASE CancelActive
  BY <1>4, <1>a DEF CancelActive, LoopStep, Idle
<1>5. ASSUME NEW t \in SystemTurns, SystemTurn(t) PROVE LoopStep
  BY <1>5 DEF SystemTurn, LoopStep, Opens, Turns, Live
<1>6. CASE LaunchOpens
  <2>1. launching \in Prompts /\ launching # None /\ active = None /\ stage = "hook"
    BY <1>6 DEF LaunchOpens, IInv, Types, HolderInv
  <2>2. turn[launching] \notin Live
    BY <2>1 DEF IInv, HolderInv
  <2> QED BY <1>6, <1>a, <2>1, <2>2 DEF LaunchOpens, LoopStep, Opens
<1>7. ASSUME NEW r \in Ended, TurnEnds(r) PROVE LoopStep
  BY <1>7 DEF LoopStep
<1> QED
  BY <1>1, <1>2, <1>3, <1>4, <1>5, <1>6, <1>7
     DEF Next, Callers, LaunchSettles, LoopProceeds, SteerProceeds, WorkerEnds, vars, Enqueue, Steer,
         CancelCompaction, BeginCompaction, FinishCompaction, StartNext, LaunchStops, Launched,
         Settle, Steered

(* Everyone in the loop is the running turn or waits behind one.            *)
LoopHas ==
  /\ queued # <<>> => running # None
  /\ \A t \in Turns : turn[t] \in Live => t = running \/ t \in Range(queued)

LEMMA TurnSteps ==
  ASSUME IInv, LoopStep
  PROVE  /\ LoopHas => LoopHas'
         /\ \A t \in Turns : turn[t] # "none" => turn'[t] # "none"
         /\ \A t \in Turns : turn[t] = "none" /\ turn'[t] # "none" => Opens(t)
         /\ \A t \in Turns : Opens(t) => turn'[t] # "none"
<1>a. Types /\ LoopInv /\ None \notin Turns
  BY NoneIsNoTurn DEF IInv
<1>0. \A t \in Turns : Opens(t) => turn'[t] # "none"
  BY <1>a DEF Opens, OpenTurn, Types
<1>1. CASE UNCHANGED loopVars
  BY <1>0, <1>1 DEF loopVars, LoopHas, Range
<1>2. ASSUME NEW t \in Turns, Opens(t)
      PROVE  /\ LoopHas => LoopHas'
             /\ \A u \in Turns : turn[u] # "none" => turn'[u] # "none"
             /\ \A u \in Turns : turn[u] = "none" /\ turn'[u] # "none" => u = t
  <2>1. /\ turn'[t] # "none" /\ (\A u \in Turns : u # t => turn'[u] = turn[u])
        /\ \/ running = None /\ running' = t /\ queued' = queued
           \/ running # None /\ running' = running /\ queued' = Append(queued, t)
    BY <1>2, <1>a DEF Opens, OpenTurn, Types, Idle
  <2>2. Range(Append(queued, t)) = Range(queued) \cup {t}
    BY <1>a, RangeAppend DEF Types
  <2>3. ASSUME LoopHas PROVE LoopHas'
    <3>1. running = None => queued = <<>> /\ Range(queued) = {}
      BY <2>3 DEF LoopHas, Range
    <3> QED BY <1>a, <2>1, <2>2, <2>3, <3>1 DEF LoopHas
  <2> QED BY <2>1, <2>3
<1>3. ASSUME NEW t \in Turns, CancelTurn(t)
      PROVE  /\ LoopHas => LoopHas'
             /\ \A u \in Turns : turn[u] # "none" <=> turn'[u] # "none"
  <2>1. CASE turn[t] = "running"
    <3>1. turn' = [turn EXCEPT ![t] = "aborted"] /\ running' = running /\ queued' = queued
      BY <1>3, <2>1 DEF CancelTurn
    <3> QED BY <1>a, <2>1, <3>1 DEF LoopHas, Types, Live
  <2>2. CASE turn[t] = "queued"
    <3>1. /\ turn' = [turn EXCEPT ![t] = "cancelled"] /\ running' = running
          /\ \E k \in DOMAIN queued : queued[k] = t /\ queued' = RemoveAt(queued, k)
      BY <1>3, <2>2 DEF CancelTurn
    <3>2. PICK k \in DOMAIN queued : queued[k] = t /\ queued' = RemoveAt(queued, k)
      BY <3>1
    <3>3. \A u : (\E i \in DOMAIN queued' : queued'[i] = u) <=> u # t /\ \E i \in DOMAIN queued : queued[i] = u
      <4>1. queued \in Seq(Turns) /\ Distinct(queued)
        BY <1>a DEF Types, LoopInv
      <4>2. \A u : (\E i \in DOMAIN RemoveAt(queued, k) : RemoveAt(queued, k)[i] = u)
                      <=> u # queued[k] /\ \E i \in DOMAIN queued : queued[i] = u
        BY <4>1, RemoveAtFromDistinct
      <4> QED BY <3>2, <4>2, Zenon
    <3>4. \A u : u \in Range(queued') <=> u # t /\ u \in Range(queued)
      BY <3>3 DEF Range
    <3>5. queued # <<>>
      BY <3>2
    <3>6. turn'[t] = "cancelled" /\ \A u \in Turns : u # t => turn'[u] = turn[u]
      BY <1>a, <3>1 DEF Types
    <3> QED BY <2>2, <3>1, <3>4, <3>5, <3>6 DEF LoopHas, Live
  <2>3. CASE turn[t] \notin {"running", "queued"}
    BY <1>3, <2>3 DEF CancelTurn, loopVars, LoopHas, Range
  <2> QED BY <2>1, <2>2, <2>3
<1>4. ASSUME NEW r \in Ended, TurnEnds(r)
      PROVE  /\ LoopHas => LoopHas'
             /\ \A u \in Turns : turn[u] # "none" <=> turn'[u] # "none"
  <2>1. running \in Turns /\ turn[running] \in {"running", "aborted"} /\ r # "none" /\ r \notin Live
    BY <1>4, <1>a DEF TurnEnds, Idle, Types, LoopInv, Ended, Live
  <2>2. CASE queued = <<>>
    <3>1. turn' = [turn EXCEPT ![running] = r] /\ running' = None /\ queued' = queued
      BY <1>4, <2>2 DEF TurnEnds
    <3> QED BY <1>a, <2>1, <2>2, <3>1 DEF LoopHas, Types, Range
  <2>3. CASE queued # <<>>
    <3>1. /\ turn' = [[turn EXCEPT ![running] = r] EXCEPT ![Head(queued)] = "running"]
          /\ running' = Head(queued) /\ queued' = Tail(queued)
      BY <1>4, <2>3 DEF TurnEnds
    <3>2. /\ 1 \in DOMAIN queued /\ Head(queued) = queued[1] /\ Head(queued) \in Turns
          /\ turn[Head(queued)] = "queued"
      BY <2>3, <1>a DEF Types, LoopInv
    <3>3. Range(queued) \subseteq Range(Tail(queued)) \cup {Head(queued)}
      <4>1. ASSUME NEW i \in DOMAIN queued, i # 1 PROVE queued[i] \in Range(Tail(queued))
        <5>1. i - 1 \in DOMAIN Tail(queued) /\ Tail(queued)[i - 1] = queued[i]
          BY <1>a, <2>3, <4>1 DEF Types
        <5> QED BY <5>1 DEF Range
      <4> QED BY <3>2, <4>1 DEF Range
    <3>4. /\ turn'[Head(queued)] = "running"
          /\ \A u \in Turns : u # Head(queued) => turn'[u] = IF u = running THEN r ELSE turn[u]
      BY <1>a, <3>1, <3>2 DEF Types
    <3> QED BY <1>a, <2>1, <3>1, <3>2, <3>3, <3>4 DEF LoopHas
  <2> QED BY <2>2, <2>3
<1> QED BY <1>0, <1>1, <1>2, <1>3, <1>4 DEF LoopStep, loopVars

(* First come, first served: only the launching prompt gets a turn, and all *)
(* that wait came after it, whether or not a launch was put back before.    *)
THEOREM FirstComeFirstServed == Spec => InOrder
<1>1. IInv /\ SInv /\ [Next]_vars =>
        [\A p \in Prompts : turn[p] = "none" /\ turn'[p] # "none" =>
           \A q \in 1..(p - 1) : q \notin ToSet(pending)]_vars
  <2> SUFFICES ASSUME IInv, SInv, Next, NEW p \in Prompts, turn[p] = "none", turn'[p] # "none",
                      NEW q \in 1..(p - 1), q \in ToSet(pending)
               PROVE  FALSE
    OBVIOUS
  <2>1. Opens(p)
    BY StepOfLoop, TurnSteps, NoneIsNoTurn
  <2>2. p = launching /\ p # None
    BY <2>1, PromptAssumption, NoneIsNoTurn DEF Opens, Prompts
  <2>3. q \in Range(pending)
    BY ToSetIsRange
  <2>4. p < q
    BY <2>2, <2>3 DEF SInv, OrderInv
  <2> QED BY <2>4, PromptAssumption DEF Prompts
<1> QED BY <1>1, SeatsInvariant, PTL DEF InOrder, Spec

-----------------------------------------------------------------------------
(* Nobody is lost, when steer() is not called between the end of a turn and  *)
(* its settlement.                                                          *)

(* The turn of the active prompt, or of one about to be, was opened.        *)
Begun ==
  /\ active # None => turn[active] # "none"
  /\ stage = "assign" => turn[launching] # "none"

(* What a prompt's state says of the place it must be in.                   *)
KeptInv ==
  /\ \A p \in Prompts : state[p] = "pending" =>
       p \in Range(pending) \/ p = launching \/ \E x \in steering : p \in x.items
  /\ \A p \in Prompts : state[p] = "running" => p = active
  /\ \A p \in Prompts : state[p] = "steered" => host[p] # None
  /\ \A p \in Prompts : host[p] # None => host[p] = active
  /\ \A x \in steering : ~x.late /\ active # None

KInv == LoopHas /\ Begun /\ KeptInv

LEMMA StepBegun == IInv /\ SInv /\ Begun /\ [Next]_vars => Begun'
<1> SUFFICES ASSUME IInv, SInv, Begun, [Next]_vars PROVE Begun'
  OBVIOUS
<1>a. /\ active \in Prompts \union {None} /\ launching \in Prompts \union {None} /\ None \notin Prompts
      /\ launching # None => active = None
      /\ stage # "none" => launching # None
      /\ Prompts \subseteq Turns
  BY PromptFacts, NoneIsNoTurn DEF SInv, IInv, HolderInv
<1>b. /\ \A t \in Turns : turn[t] # "none" => turn'[t] # "none"
      /\ \A t \in Turns : Opens(t) => turn'[t] # "none"
  BY StepOfLoop, TurnSteps
<1>1. CASE UNCHANGED <<active, launching, stage>>
  BY <1>1, <1>a, <1>b DEF Begun
<1>2. CASE StartNext
  <2>1. UNCHANGED <<active, launching, stage>> \/ (stage' = "hook" /\ active' = active)
    BY <1>2 DEF StartNext, RunAway, queueVars
  <2> QED BY <1>1, <1>a, <1>b, <2>1 DEF Begun
<1>3. ASSUME NEW o, LaunchStops(o) PROVE Begun'
  BY <1>3, <1>a, <1>b DEF LaunchStops, Begun
<1>4. CASE LaunchOpens
  <2>1. Opens(launching)
    <3>1. launching \in Prompts /\ stage = "hook" /\ OpenTurn(launching)
      BY <1>4, <1>a DEF LaunchOpens
    <3>2. turn[launching] \notin Live
      BY <3>1, <1>a DEF IInv, HolderInv
    <3> QED BY <3>1, <3>2 DEF Opens
  <2> QED BY <1>4, <1>a, <1>b, <2>1 DEF LaunchOpens, Begun
<1>5. CASE Launched
  BY <1>5, <1>a, <1>b DEF Launched, Begun, loopVars
<1>6. CASE Settle
  BY <1>6, <1>a, <1>b DEF Settle, Begun
<1> QED
  BY <1>1, <1>2, <1>3, <1>4, <1>5, <1>6
     DEF Next, Callers, LaunchSettles, LoopProceeds, SteerProceeds, WorkerEnds, vars, queueVars, Enqueue,
         Abort, Clear, Steer, CancelActive, CancelCompaction, SystemTurn, BeginCompaction,
         FinishCompaction, TurnEnds, Steered

(* The queue loses some prompts, or they get an outcome: nobody else moves. *)
LEMMA LeaveKept ==
  ASSUME SInv, KeptInv, NEW S \in SUBSET Prompts, S \subseteq Range(pending), NEW o \in Final,
         state' = Settled(S, o), Range(pending') = Range(pending) \ S,
         UNCHANGED <<active, launching, steering, host>>
  PROVE  KeptInv'
<1>1. \A p \in Prompts : p \notin S => state'[p] = state[p]
  BY DEF Settled
<1>2. \A p \in S : state'[p] = o /\ o \notin {"pending", "running", "steered"}
  BY DEF Settled, Final
<1> QED BY <1>1, <1>2 DEF KeptInv

LEMMA EnqueueKept ==
  ASSUME SInv, KeptInv, NEW p \in Prompts, Enqueue(p) PROVE KeptInv'
<1>1. /\ state' = [state EXCEPT ![p] = "pending"] /\ pending' = QueuedLast(p)
      /\ UNCHANGED <<active, launching, steering, host>>
  BY DEF Enqueue, steerVars
<1>2. Shape /\ Range(pending') = Range(pending) \cup {p}
  BY <1>1, EnqueuedIs DEF SInv
<1>3. \A q \in Prompts : q # p => state'[q] = state[q]
  BY <1>1, <1>2 DEF Shape
<1>4. state'[p] = "pending"
  BY <1>1, <1>2 DEF Shape
<1> QED BY <1>1, <1>2, <1>3, <1>4 DEF KeptInv

(* The turn of the active prompt has not ended, so that something runs and   *)
(* steer() does not throw with the prompts in its hands.                    *)
LEMMA SteerKept ==
  ASSUME ~LateSteers, IInv, SInv, KInv, NEW S \in SUBSET Prompts, Steer(S) PROVE KeptInv'
<1>1. /\ UNCHANGED <<state, active, launching, host>> /\ active # None
      /\ S \subseteq Range(pending) /\ pending' = Without(S) /\ turn[active] \notin Ended
  BY ToSetIsRange DEF Steer
<1>2. Range(pending') = Range(pending) \ S
  BY <1>1, WithoutIs DEF SInv
<1>3. ~Idle
  <2>1. active \in Turns /\ turn[active] \in Live
    BY <1>1, NoneIsNoTurn DEF KInv, Begun, IInv, Types
  <2>2. active = running \/ queued # <<>>
    BY <2>1 DEF KInv, LoopHas, Range
  <2> QED BY <1>1, <2>2 DEF KInv, LoopHas, Idle
<1>4. PICK l \in BOOLEAN : turn[active] \in Ended <=> l
  OBVIOUS
<1>5. PICK new : new = [items |-> S, late |-> l]
  OBVIOUS
<1>6. steering' = steering \cup {new}
  <2>1. (turn[active] \in Ended) = l
    BY <1>4, EndedValue
  <2> QED BY <1>3, <1>5, <2>1 DEF Steer
<1>7. new.items = S /\ ~new.late
  BY <1>1, <1>4, <1>5
<1> QED BY <1>1, <1>2, <1>6, <1>7 DEF KInv, KeptInv

LEMMA StartNextKept ==
  ASSUME SInv, KeptInv, StartNext PROVE KeptInv'
<1>1. UNCHANGED <<steering, host>>
  BY DEF StartNext, steerVars
<1>2. pending \in Seq(Prompts) /\ Sorted(pending) /\ Range(pending) \subseteq Prompts
  BY RangeIn DEF SInv, Shape, OrderInv
<1>3. CASE UNCHANGED queueVars
  BY <1>1, <1>3 DEF queueVars, KeptInv, Range
<1>4. CASE RunAway
  <2>1. PICK n \in 0..Len(pending) :
          /\ state' = Settled(ToSet(SubSeq(pending, 1, n)), "failed")
          /\ pending' = SubSeq(pending, n + 1, Len(pending))
    BY <1>4 DEF RunAway
  <2>2. PICK S : S = Range(SubSeq(pending, 1, n))
    OBVIOUS
  <2>3. Range(pending) = S \cup Range(pending') /\ \A p \in S, q \in Range(pending') : p < q
    BY <1>2, <2>1, <2>2, CutIs
  <2>4. Range(pending') = Range(pending) \ S /\ S \subseteq Range(pending)
    BY <1>2, <2>3, PromptAssumption DEF Prompts
  <2>5. PICK o \in Final : o = "failed"
    BY DEF Final
  <2>6. state' = Settled(S, o) /\ S \in SUBSET Prompts
    BY <1>2, <2>1, <2>2, <2>4, <2>5, ToSetIsRange
  <2>7. UNCHANGED <<active, launching>>
    BY <1>4 DEF RunAway
  <2> QED BY <1>1, <2>4, <2>6, <2>7, LeaveKept
<1>5. CASE /\ ~Busy /\ pending # <<>> /\ launching' = Head(pending) /\ pending' = Tail(pending)
           /\ UNCHANGED <<state, active>>
  <2>1. PICK p : p = Head(pending)
    OBVIOUS
  <2>2. Range(pending) = {p} \cup Range(pending') /\ launching = None /\ launching' = p
    BY <1>2, <1>5, <2>1, HeadIs DEF Busy
  <2>3. None \notin Prompts
    BY NoneIsNoTurn
  <2> QED BY <1>1, <1>5, <2>2, <2>3 DEF KeptInv
<1> QED BY <1>3, <1>4, <1>5 DEF StartNext

LEMMA LaunchKept ==
  ASSUME IInv, SInv, KeptInv, (\E o \in {"blocked", "failed"} : LaunchStops(o)) \/ Launched
  PROVE  KeptInv'
<1>1. UNCHANGED <<pending, steering, host>> /\ launching # None
  BY DEF LaunchStops, Launched, steerVars, SInv, Shape
<1>2. Shape /\ launching \in Prompts /\ active = None /\ None \notin Prompts
  BY <1>1, PromptFacts DEF SInv
<1>3. PICK o \in Final \cup {"running"} :
        /\ state' = [state EXCEPT ![launching] = o] /\ launching' = None
        /\ \/ active' = active /\ o \in Final
           \/ active' = launching /\ o = "running"
  <2>1. ASSUME NEW r \in {"blocked", "failed"}, LaunchStops(r)
        PROVE  r \in Final /\ state' = [state EXCEPT ![launching] = r]
               /\ launching' = None /\ active' = active
    BY <2>1, <1>2 DEF LaunchStops, Settled, Final, Shape
  <2> QED BY <2>1 DEF Launched
<1>4. state'[launching] = o /\ \A p \in Prompts : p # launching => state'[p] = state[p]
  BY <1>2, <1>3 DEF Shape
<1>5. steering = {} /\ \A p \in Prompts : host[p] = None
  BY <1>2 DEF KeptInv, SInv, Shape
<1>6. o # "pending" /\ o # "steered" /\ (o \in Final => o # "running")
  BY DEF Final
<1> QED BY <1>1, <1>2, <1>3, <1>4, <1>5, <1>6 DEF KeptInv

LEMMA SettleKept ==
  ASSUME IInv, SInv, KeptInv, Settle PROVE KeptInv'
<1>1. /\ UNCHANGED <<pending, launching, steering>> /\ steering = {}
      /\ active # None /\ active' = None /\ turn[active] \in Ended
      /\ state' = Settled({active} \union ChildrenOf(active), turn[active])
      /\ host' = [p \in Prompts |-> IF host[p] = active THEN None ELSE host[p]]
  BY DEF Settle, KeptInv
<1>2. \A p \in Prompts : state'[p] = IF p = active \/ host[p] = active THEN turn[active] ELSE state[p]
  BY <1>1 DEF Settled, ChildrenOf
<1>3. \A p \in Prompts : host'[p] = None
  BY <1>1 DEF KeptInv
<1>4. turn[active] \notin {"pending", "running", "steered"}
  BY <1>1 DEF Ended
<1> QED BY <1>1, <1>2, <1>3, <1>4 DEF KeptInv

LEMMA SteeredKept ==
  ASSUME IInv, SInv, KeptInv, NEW x \in steering, Steered(x) PROVE KeptInv'
<1>1. /\ UNCHANGED <<pending, active, launching>> /\ steering' = steering \ {x} /\ active # None
      /\ state' = Settled(x.items, "steered")
      /\ host' = [p \in Prompts |-> IF p \in x.items THEN active ELSE host[p]]
  BY DEF Steered, KeptInv
<1>2. \A p \in Prompts : /\ p \in x.items => state'[p] = "steered" /\ host'[p] = active
                         /\ p \notin x.items => state'[p] = state[p] /\ host'[p] = host[p]
  BY <1>1 DEF Settled
<1> QED BY <1>1, <1>2 DEF KeptInv

LEMMA StepKept == ~LateSteers /\ IInv /\ SInv /\ KInv /\ [Next]_vars => KInv'
<1> SUFFICES ASSUME ~LateSteers, IInv, SInv, KInv, [Next]_vars PROVE KInv'
  OBVIOUS
<1>a. LoopHas' /\ Begun'
  BY StepOfLoop, TurnSteps, StepBegun DEF KInv
<1>b. KeptInv
  BY DEF KInv
<1>0. ASSUME UNCHANGED <<state, pending, active, launching, steering, host>> PROVE KeptInv'
  BY <1>0, <1>b DEF KeptInv, Range
<1>1. ASSUME NEW p \in Prompts, Abort(p) PROVE KeptInv'
  <2>1. UNCHANGED <<active, launching, steering, host>>
    BY <1>1 DEF Abort, steerVars
  <2>2. CASE p \in ToSet(pending) /\ state' = Settled({p}, "cancelled") /\ pending' = Without({p})
    <3>1. PICK S \in SUBSET Prompts : S = {p}
      OBVIOUS
    <3>2. PICK o \in Final : o = "cancelled"
      BY DEF Final
    <3>3. Range(pending') = Range(pending) \ S /\ state' = Settled(S, o) /\ S \subseteq Range(pending)
      BY <2>2, <3>1, <3>2, WithoutIs, ToSetIsRange DEF SInv
    <3> QED BY <1>b, <2>1, <3>3, LeaveKept
  <2> QED BY <1>0, <1>1, <2>1, <2>2 DEF Abort
<1>2. ASSUME Clear PROVE KeptInv'
  <2>1. UNCHANGED <<active, launching, steering, host>>
    BY <1>2 DEF Clear, steerVars
  <2>2. PICK S : S = Range(pending)
    OBVIOUS
  <2>3. PICK o \in Final : o = "cancelled"
    BY DEF Final
  <2>4. S \in SUBSET Prompts /\ S \subseteq Range(pending) /\ state' = Settled(S, o) /\ pending' = <<>>
    BY <1>2, <2>2, <2>3, ToSetIsRange, PromptFacts DEF Clear, SInv
  <2>5. Range(pending') = Range(pending) \ S
    BY <2>2, <2>4 DEF Range
  <2> QED BY <1>b, <2>1, <2>4, <2>5, LeaveKept
<1>3. KeptInv'
  BY <1>b, <1>0, <1>1, <1>2, EnqueueKept, SteerKept, StartNextKept, LaunchKept, SettleKept, SteeredKept
     DEF Next, Callers, LaunchSettles, LoopProceeds, SteerProceeds, WorkerEnds, vars, queueVars, steerVars,
         CancelActive, CancelCompaction, SystemTurn, BeginCompaction, FinishCompaction, TurnEnds,
         LaunchOpens
<1> QED BY <1>a, <1>3 DEF KInv

(* A prompt that was accepted and has no outcome is in exactly one place     *)
(* that will settle it.                                                     *)
THEOREM NobodyIsLost ==
  ASSUME ~LateSteers
  PROVE  Spec => []NobodyLost
<1>1. Init => KInv
  BY NoneIsNoTurn DEF Init, KInv, LoopHas, Begun, KeptInv, Live
<1>2. IInv /\ SInv /\ KInv => NobodyLost
  <2> SUFFICES ASSUME IInv, SInv, KInv, NEW p \in Prompts, state[p] \notin {"new"} \union Final
               PROVE  Cardinality({w \in {"pending", "launching", "active", "steer", "host"} :
                        CASE w = "pending"   -> p \in ToSet(pending)
                          [] w = "launching" -> launching = p
                          [] w = "active"    -> active = p
                          [] w = "steer"     -> p \in InSteer
                          [] w = "host"      -> host[p] # None /\ host[p] = active}) = 1
    BY DEF NobodyLost
  <2> DEFINE W == {w \in {"pending", "launching", "active", "steer", "host"} :
                     CASE w = "pending"   -> p \in ToSet(pending)
                       [] w = "launching" -> launching = p
                       [] w = "active"    -> active = p
                       [] w = "steer"     -> p \in InSteer
                       [] w = "host"      -> host[p] # None /\ host[p] = active}
  <2>1. \A w : w \in W <=>
          \/ w = "pending"   /\ p \in Range(pending)
          \/ w = "launching" /\ launching = p
          \/ w = "active"    /\ active = p
          \/ w = "steer"     /\ \E x \in steering : p \in x.items
          \/ w = "host"      /\ host[p] # None /\ host[p] = active
    BY ToSetIsRange DEF InSteer
  <2> HIDE DEF W
  <2>2. SeatInv /\ KeptInv /\ Shape /\ p # None
    BY NoneIsNoTurn DEF SInv, KInv
  <2>3. /\ active = p => state[p] = "running"
        /\ launching = p => state[p] = "pending"
        /\ p \in Range(pending) => state[p] = "pending"
        /\ (\E x \in steering : p \in x.items) => state[p] = "pending"
        /\ host[p] # None => state[p] = "steered"
    BY <2>2 DEF SeatInv
  <2>4. \E w : W = {w}
    <3>1. CASE state[p] = "running"
      <4>1. active = p
        BY <2>2, <3>1 DEF KeptInv
      <4>2. W = {"active"}
        BY <2>1, <2>3, <3>1, <4>1
      <4> QED BY <4>2
    <3>2. CASE state[p] = "steered"
      <4>1. host[p] # None /\ host[p] = active
        BY <2>2, <3>2 DEF KeptInv
      <4>2. W = {"host"}
        BY <2>1, <2>3, <3>2, <4>1
      <4> QED BY <4>2
    <3>3. CASE state[p] = "pending"
      <4>1. /\ active # p /\ host[p] = None
            /\ p \in Range(pending) \/ p = launching \/ \E x \in steering : p \in x.items
        BY <2>2, <2>3, <3>3 DEF KeptInv
      <4>2. /\ p \in Range(pending) => p # launching /\ \A x \in steering : p \notin x.items
            /\ (\E x \in steering : p \in x.items) => p # launching
        BY <2>2 DEF SeatInv
      <4>3. W = {"pending"} \/ W = {"launching"} \/ W = {"steer"}
        BY <2>1, <4>1, <4>2
      <4> QED BY <4>3
    <3> QED BY <2>2, <3>1, <3>2, <3>3 DEF Shape
  <2>5. Cardinality(W) = 1
    BY <2>4, FS_Singleton
  <2> QED BY <2>5 DEF W
<1>3. KInv /\ IInv /\ SInv /\ [Next]_vars => KInv'
  BY StepKept
<1> QED BY <1>1, <1>2, <1>3, SeatsInvariant, PTL DEF Spec
=============================================================================
