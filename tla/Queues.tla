------------------------------ MODULE Queues ------------------------------
(* Filtering a queue: what SelectSeq of Sequences does for the membership   *)
(* of a set, as a recursive function, which proofs can expand.              *)
EXTENDS Integers, Sequences

Only(s, S) ==
  LET only[n \in 0..Len(s)] ==
        IF n = 0 THEN <<>>
        ELSE IF s[n] \in S THEN Append(only[n - 1], s[n]) ELSE only[n - 1]
  IN only[Len(s)]
=============================================================================
