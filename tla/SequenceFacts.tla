---------------------------- MODULE SequenceFacts ----------------------------
(* Facts about the queues of the schedulers: sequences in which nothing     *)
(* occurs twice, and the two operators of the community modules that make   *)
(* and shorten them.                                                        *)
EXTENDS Queues, FiniteSets, SequencesExt, SequenceTheorems, FiniteSetTheorems,
        WellFoundedInduction, TLAPS

Distinct(s) == \A i, j \in DOMAIN s : s[i] = s[j] => i = j

(* Induction over the naturals, for a property given as a set: what the     *)
(* well-foundedness of < comes to for the provers at hand.                  *)
LEMMA SetInduction ==
  ASSUME NEW S, 0 \in S, \A n \in Nat : n \in S => n + 1 \in S
  PROVE  Nat \subseteq S
<1> DEFINE R == {ss \in Nat \X Nat : ss[1] < ss[2]}
           B == Nat \ S
<1> SUFFICES ASSUME B # {} PROVE FALSE
  OBVIOUS
<1>1. IsWellFoundedOn(R, Nat)
  BY NatLessThanWellFounded DEF OpToRel
<1>2. \E x \in B : \A y \in B : ~(<<y, x>> \in R)
  <2>1. B \subseteq Nat
    OBVIOUS
  <2> HIDE DEF R, B
  <2> QED
    BY <1>1, <2>1, WFMin
<1>3. PICK x \in B : \A y \in B : ~(<<y, x>> \in R)
  BY <1>2
<1>4. x # 0
  OBVIOUS
<1>5. x - 1 \in Nat /\ (x - 1) + 1 = x /\ <<x - 1, x>> \in R
  BY <1>4
<1>6. x - 1 \notin B
  BY <1>3, <1>5
<1> QED
  BY <1>5, <1>6

(* Induction over finite sequences, from the front to the back.             *)
LEMMA SeqInduction ==
  ASSUME NEW T, NEW P, <<>> \in P,
         \A s \in Seq(T), x \in T : s \in P => Append(s, x) \in P
  PROVE  Seq(T) \subseteq P
<1> DEFINE S == {n \in Nat : \A s \in Seq(T) : Len(s) = n => s \in P}
<1>1. 0 \in S
  BY EmptySeq
<1>2. ASSUME NEW n \in Nat, n \in S PROVE n + 1 \in S
  <2> SUFFICES ASSUME NEW s \in Seq(T), Len(s) = n + 1 PROVE s \in P
    OBVIOUS
  <2> DEFINE t == SubSeq(s, 1, n)
  <2>1. t \in Seq(T) /\ Len(t) = n /\ s[n + 1] \in T
    OBVIOUS
  <2>2. s = Append(t, s[n + 1])
    OBVIOUS
  <2> QED
    BY <1>2, <2>1, <2>2
<1> HIDE DEF S
<1>3. Nat \subseteq S
  BY <1>1, <1>2, SetInduction
<1> QED
  BY <1>3 DEF S

-----------------------------------------------------------------------------
(* The filter Only.  Its recursion has a solution ...                       *)
LEMMA OnlyDef ==
  ASSUME NEW T, NEW s \in Seq(T), NEW S
  PROVE  \E f : /\ f = [n \in 0..Len(s) |->
                         IF n = 0 THEN <<>>
                         ELSE IF s[n] \in S THEN Append(f[n - 1], s[n]) ELSE f[n - 1]]
                /\ Only(s, S) = f[Len(s)]
<1> DEFINE Step(f, n) == IF n = 0 THEN <<>> ELSE IF s[n] \in S THEN Append(f[n - 1], s[n]) ELSE f[n - 1]
           Good(f, m) == f = [n \in 0..m |-> Step(f, n)]
           D == {m \in Nat : \E f : Good(f, m)}
<1>1. 0 \in D
  <2>1. Good([n \in 0..0 |-> <<>>], 0)
    OBVIOUS
  <2> QED BY <2>1
<1>2. ASSUME NEW m \in Nat, m \in D PROVE m + 1 \in D
  <2>1. PICK f : Good(f, m)
    BY <1>2
  <2> DEFINE g == [n \in 0..(m + 1) |-> IF n = m + 1 THEN Step(f, n) ELSE f[n]]
  <2>2. \A n \in 0..m : g[n] = f[n]
    OBVIOUS
  <2>3. \A n \in 0..(m + 1) : Step(g, n) = Step(f, n)
    BY <2>2
  <2>4. \A n \in 0..m : f[n] = Step(f, n)
    BY <2>1
  <2>5. \A n \in 0..(m + 1) : g[n] = Step(g, n)
    BY <2>2, <2>3, <2>4
  <2>6. Good(g, m + 1)
    <3> HIDE DEF Step
    <3> QED BY <2>5
  <2> HIDE DEF Good, g
  <2> QED BY <2>6
<1>3. Nat \subseteq D
  <2> HIDE DEF D
  <2> QED BY <1>1, <1>2, SetInduction
<1>4. \E f : Good(f, Len(s))
  BY <1>3
<1> DEFINE F == CHOOSE f : Good(f, Len(s))
<1>5. Good(F, Len(s))
  <2> HIDE DEF Good
  <2> QED BY <1>4
<1>6. Only(s, S) = F[Len(s)]
  BY DEF Only
<1> QED
  BY <1>5, <1>6

(* ... so that it can be computed from the front to the back.               *)
LEMMA OnlyEmpty ==
  ASSUME NEW S
  PROVE  Only(<<>>, S) = <<>>
<1>1. <<>> \in Seq({})
  OBVIOUS
<1>2. PICK f : /\ f = [n \in 0..Len(<<>>) |->
                         IF n = 0 THEN <<>>
                         ELSE IF <<>>[n] \in S THEN Append(f[n - 1], <<>>[n]) ELSE f[n - 1]]
              /\ Only(<<>>, S) = f[Len(<<>>)]
  BY <1>1, OnlyDef
<1> QED
  BY <1>2

LEMMA OnlyAppend ==
  ASSUME NEW T, NEW s \in Seq(T), NEW x \in T, NEW S
  PROVE  Only(Append(s, x), S) = IF x \in S THEN Append(Only(s, S), x) ELSE Only(s, S)
<1> DEFINE t == Append(s, x)
<1>1. t \in Seq(T) /\ Len(t) = Len(s) + 1 /\ t[Len(s) + 1] = x /\ \A i \in 1..Len(s) : t[i] = s[i]
  OBVIOUS
<1> HIDE DEF t
<1>2. PICK f : /\ f = [n \in 0..Len(s) |->
                         IF n = 0 THEN <<>>
                         ELSE IF s[n] \in S THEN Append(f[n - 1], s[n]) ELSE f[n - 1]]
              /\ Only(s, S) = f[Len(s)]
  BY OnlyDef
<1>3. PICK g : /\ g = [n \in 0..Len(t) |->
                         IF n = 0 THEN <<>>
                         ELSE IF t[n] \in S THEN Append(g[n - 1], t[n]) ELSE g[n - 1]]
              /\ Only(t, S) = g[Len(t)]
  BY <1>1, OnlyDef
<1> DEFINE D == {n \in Nat : n <= Len(s) => g[n] = f[n]}
<1>4. 0 \in D
  BY <1>1, <1>2, <1>3
<1>5. ASSUME NEW n \in Nat, n \in D PROVE n + 1 \in D
  <2> SUFFICES ASSUME n + 1 <= Len(s) PROVE g[n + 1] = f[n + 1]
    OBVIOUS
  <2>1. n + 1 \in 0..Len(s) /\ n + 1 \in 0..Len(t) /\ n + 1 # 0 /\ (n + 1) - 1 = n /\ t[n + 1] = s[n + 1]
    BY <1>1
  <2>2. f[n + 1] = IF s[n + 1] \in S THEN Append(f[n], s[n + 1]) ELSE f[n]
    BY <1>2, <2>1
  <2>3. g[n + 1] = IF t[n + 1] \in S THEN Append(g[n], t[n + 1]) ELSE g[n]
    BY <1>3, <2>1
  <2> QED
    BY <1>5, <2>1, <2>2, <2>3
<1>6. Nat \subseteq D
  <2> HIDE DEF D
  <2> QED
    BY <1>4, <1>5, SetInduction
<1>7. g[Len(s)] = f[Len(s)]
  BY <1>6
<1>8. Len(t) \in 0..Len(t) /\ Len(t) # 0 /\ Len(t) - 1 = Len(s) /\ t[Len(t)] = x
  BY <1>1
<1>9. g[Len(t)] = IF x \in S THEN Append(g[Len(s)], x) ELSE g[Len(s)]
  BY <1>3, <1>8
<1> QED
  BY <1>2, <1>3, <1>7, <1>9 DEF t

(* What is in a queue that was appended to.                                 *)
LEMMA RangeIn ==
  ASSUME NEW T, NEW s \in Seq(T)
  PROVE  Range(s) \subseteq T
BY DEF Range

LEMMA SeqOver ==
  ASSUME NEW T, NEW s \in Seq(T), NEW R, Range(s) \subseteq R
  PROVE  s \in Seq(R)
<1>1. \A i \in 1..Len(s) : s[i] \in R
  BY DEF Range
<1>2. Len(s) \in Nat /\ s = [i \in 1..Len(s) |-> s[i]]
  OBVIOUS
<1> QED
  BY <1>1, <1>2, IsASeq

LEMMA RangeAppend ==
  ASSUME NEW T, NEW s \in Seq(T), NEW x \in T
  PROVE  Range(Append(s, x)) = Range(s) \cup {x}
<1> DEFINE t == Append(s, x)
<1>1. /\ DOMAIN s = 1..Len(s) /\ DOMAIN t = 1..(Len(s) + 1) /\ Len(s) \in Nat
      /\ t[Len(s) + 1] = x /\ \A i \in 1..Len(s) : t[i] = s[i]
  OBVIOUS
<1> HIDE DEF t
<1>2. ASSUME NEW y \in Range(t) PROVE y \in Range(s) \cup {x}
  <2>1. PICK i \in 1..(Len(s) + 1) : y = t[i]
    BY <1>1 DEF Range
  <2>2. i \in 1..Len(s) \/ i = Len(s) + 1
    BY <1>1
  <2> QED
    BY <1>1, <2>1, <2>2 DEF Range
<1>3. Len(s) + 1 \in DOMAIN t /\ \A i \in DOMAIN s : i \in DOMAIN t
  BY <1>1
<1>4. ASSUME NEW y \in Range(s) \cup {x} PROVE y \in Range(t)
  BY <1>1, <1>3 DEF Range
<1> QED
  BY <1>2, <1>4 DEF t

(* The filter keeps the elements of the set and nothing else, ...           *)
LEMMA OnlyProperties ==
  ASSUME NEW T, NEW s \in Seq(T), NEW S
  PROVE  /\ Only(s, S) \in Seq(T)
         /\ Range(Only(s, S)) = Range(s) \cap S
<1> DEFINE Kept(q) == Only(q, S) \in Seq(T) /\ Range(Only(q, S)) = Range(q) \cap S
           P == {q \in Seq(T) : Kept(q)}
<1>1. <<>> \in P
  <2>1. <<>> \in Seq(T) /\ Range(<<>>) = {}
    BY DEF Range
  <2> QED
    BY <2>1, OnlyEmpty
<1>2. ASSUME NEW q \in Seq(T), NEW x \in T, q \in P PROVE Append(q, x) \in P
  <2>1. Append(q, x) \in Seq(T)
    OBVIOUS
  <2>2. Only(Append(q, x), S) = IF x \in S THEN Append(Only(q, S), x) ELSE Only(q, S)
    BY OnlyAppend
  <2>3. Only(q, S) \in Seq(T) /\ Range(Only(q, S)) = Range(q) \cap S
    BY <1>2
  <2>4. Range(Append(q, x)) = Range(q) \cup {x} /\ Range(Append(Only(q, S), x)) = Range(Only(q, S)) \cup {x}
    BY <2>3, RangeAppend
  <2>5. Kept(Append(q, x))
    <3>1. CASE x \in S
      BY <2>2, <2>3, <2>4, <3>1
    <3>2. CASE x \notin S
      BY <2>2, <2>3, <2>4, <3>2
    <3> QED
      BY <3>1, <3>2
  <2> QED
    BY <2>1, <2>5
<1>3. Seq(T) \subseteq P
  <2> HIDE DEF P
  <2> QED
    BY <1>1, <1>2, SeqInduction
<1> QED
  BY <1>3

(* ... changes nothing when all are in the set, ...                         *)
LEMMA OnlyAll ==
  ASSUME NEW T, NEW s \in Seq(T), NEW S, Range(s) \subseteq S
  PROVE  Only(s, S) = s
<1> DEFINE Kept(q) == Range(q) \subseteq S => Only(q, S) = q
           P == {q \in Seq(T) : Kept(q)}
<1>1. <<>> \in P
  BY OnlyEmpty
<1>2. ASSUME NEW q \in Seq(T), NEW x \in T, q \in P PROVE Append(q, x) \in P
  <2>1. Append(q, x) \in Seq(T) /\ Range(Append(q, x)) = Range(q) \cup {x}
    BY RangeAppend
  <2>2. Only(Append(q, x), S) = IF x \in S THEN Append(Only(q, S), x) ELSE Only(q, S)
    BY OnlyAppend
  <2>3. Kept(q)
    BY <1>2
  <2>4. Kept(Append(q, x))
    BY <2>1, <2>2, <2>3
  <2> QED
    BY <2>1, <2>4
<1>3. Seq(T) \subseteq P
  <2> HIDE DEF P
  <2> QED
    BY <1>1, <1>2, SeqInduction
<1> QED
  BY <1>3

(* ... filters a concatenation part by part, ...                            *)
LEMMA OnlyConcat ==
  ASSUME NEW T, NEW s \in Seq(T), NEW t \in Seq(T), NEW S
  PROVE  Only(s \o t, S) = Only(s, S) \o Only(t, S)
<1> DEFINE P == {q \in Seq(T) : Only(s \o q, S) = Only(s, S) \o Only(q, S)}
<1>1. <<>> \in P
  <2>1. Only(s, S) \in Seq(T)
    BY OnlyProperties
  <2>2. s \o <<>> = s /\ Only(s, S) \o <<>> = Only(s, S) /\ <<>> \in Seq(T)
    BY <2>1
  <2> QED
    BY <2>2, OnlyEmpty
<1>2. ASSUME NEW q \in Seq(T), NEW x \in T, q \in P PROVE Append(q, x) \in P
  <2>1. s \o Append(q, x) = Append(s \o q, x) /\ s \o q \in Seq(T) /\ Append(q, x) \in Seq(T)
    OBVIOUS
  <2>2. Only(s, S) \in Seq(T) /\ Only(q, S) \in Seq(T)
    BY OnlyProperties
  <2>3. Only(s, S) \o Append(Only(q, S), x) = Append(Only(s, S) \o Only(q, S), x)
    BY <2>2
  <2>4. Only(Append(q, x), S) = IF x \in S THEN Append(Only(q, S), x) ELSE Only(q, S)
    BY OnlyAppend
  <2>5. Only(Append(s \o q, x), S) = IF x \in S THEN Append(Only(s \o q, S), x) ELSE Only(s \o q, S)
    BY <2>1, OnlyAppend
  <2> QED
    BY <1>2, <2>1, <2>3, <2>4, <2>5
<1> HIDE DEF P
<1>3. Seq(T) \subseteq P
  BY <1>1, <1>2, SeqInduction
<1> QED
  BY <1>3 DEF P

(* ... and looks at the set only where the sequence has elements.           *)
LEMMA OnlyAgree ==
  ASSUME NEW T, NEW s \in Seq(T), NEW S, NEW R, Range(s) \cap S = Range(s) \cap R
  PROVE  Only(s, S) = Only(s, R)
<1> DEFINE P == {q \in Seq(T) : Range(q) \cap S = Range(q) \cap R => Only(q, S) = Only(q, R)}
<1>1. <<>> \in P
  BY OnlyEmpty
<1>2. ASSUME NEW q \in Seq(T), NEW x \in T, q \in P PROVE Append(q, x) \in P
  <2>1. Append(q, x) \in Seq(T) /\ Range(Append(q, x)) = Range(q) \cup {x}
    BY RangeAppend
  <2>2. Only(Append(q, x), S) = IF x \in S THEN Append(Only(q, S), x) ELSE Only(q, S)
    BY OnlyAppend
  <2>3. Only(Append(q, x), R) = IF x \in R THEN Append(Only(q, R), x) ELSE Only(q, R)
    BY OnlyAppend
  <2>4. Range(Append(q, x)) \cap S = Range(Append(q, x)) \cap R =>
          /\ x \in S <=> x \in R
          /\ Range(q) \cap S = Range(q) \cap R
    BY <2>1
  <2> QED
    BY <1>2, <2>1, <2>2, <2>3, <2>4
<1> HIDE DEF P
<1>3. Seq(T) \subseteq P
  BY <1>1, <1>2, SeqInduction
<1> QED
  BY <1>3 DEF P

(* Filtering twice is filtering for both.                                   *)
LEMMA OnlyOnly ==
  ASSUME NEW T, NEW s \in Seq(T), NEW S, NEW R
  PROVE  Only(Only(s, S), R) = Only(s, S \cap R)
<1> DEFINE Good(q) == Only(Only(q, S), R) = Only(q, S \cap R)
           P == {q \in Seq(T) : Good(q)}
<1>1. <<>> \in P
  BY OnlyEmpty
<1>2. ASSUME NEW q \in Seq(T), NEW x \in T, q \in P PROVE Append(q, x) \in P
  <2>1. Append(q, x) \in Seq(T) /\ Only(q, S) \in Seq(T) /\ Good(q)
    BY <1>2, OnlyProperties
  <2>2. Only(Append(q, x), S) = IF x \in S THEN Append(Only(q, S), x) ELSE Only(q, S)
    BY OnlyAppend
  <2>3. Only(Append(q, x), S \cap R) = IF x \in S \cap R THEN Append(Only(q, S \cap R), x) ELSE Only(q, S \cap R)
    BY OnlyAppend
  <2>4. Only(Append(Only(q, S), x), R) = IF x \in R THEN Append(Only(Only(q, S), R), x) ELSE Only(Only(q, S), R)
    <3> DEFINE o == Only(q, S)
    <3>1. o \in Seq(T)
      BY <2>1
    <3> HIDE DEF o, P, Good
    <3>2. Only(Append(o, x), R) = IF x \in R THEN Append(Only(o, R), x) ELSE Only(o, R)
      BY <3>1, OnlyAppend
    <3> QED
      BY <3>2 DEF o
  <2>5. Good(Append(q, x))
    <3>1. CASE x \in S /\ x \in R
      BY <2>1, <2>2, <2>3, <2>4, <3>1
    <3>2. CASE x \in S /\ x \notin R
      BY <2>1, <2>2, <2>3, <2>4, <3>2
    <3>3. CASE x \notin S
      BY <2>1, <2>2, <2>3, <3>3
    <3> QED
      BY <3>1, <3>2, <3>3
  <2> QED
    BY <2>1, <2>5
<1>3. Seq(T) \subseteq P
  <2> HIDE DEF P
  <2> QED
    BY <1>1, <1>2, SeqInduction
<1> QED
  BY <1>3

(* Nothing occurs twice in a concatenation when nothing does in its parts   *)
(* and they share nothing.                                                  *)
LEMMA DistinctConcat ==
  ASSUME NEW T, NEW s \in Seq(T), NEW t \in Seq(T)
  PROVE  Distinct(s \o t) <=> /\ Distinct(s) /\ Distinct(t)
                              /\ \A x \in Range(s) : x \notin Range(t)
<1> DEFINE c == s \o t
<1>1. /\ DOMAIN c = 1..(Len(s) + Len(t)) /\ DOMAIN s = 1..Len(s) /\ DOMAIN t = 1..Len(t)
      /\ Len(s) \in Nat /\ Len(t) \in Nat
      /\ \A i \in 1..Len(s) : c[i] = s[i]
      /\ \A i \in 1..Len(t) : c[Len(s) + i] = t[i]
  OBVIOUS
<1> HIDE DEF c
<1>2. ASSUME Distinct(c)
      PROVE  Distinct(s) /\ Distinct(t) /\ \A x \in Range(s) : x \notin Range(t)
  <2>1. Distinct(s)
    BY <1>1, <1>2 DEF Distinct
  <2>2. Distinct(t)
    <3> SUFFICES ASSUME NEW i \in DOMAIN t, NEW j \in DOMAIN t, t[i] = t[j] PROVE i = j
      BY DEF Distinct
    <3>1. Len(s) + i \in DOMAIN c /\ Len(s) + j \in DOMAIN c /\ c[Len(s) + i] = c[Len(s) + j]
      BY <1>1
    <3>2. Len(s) + i = Len(s) + j
      BY <1>2, <3>1 DEF Distinct
    <3> QED
      BY <1>1, <3>2
  <2>3. ASSUME NEW x \in Range(s), x \in Range(t) PROVE FALSE
    <3>1. PICK i \in DOMAIN s : s[i] = x
      BY DEF Range
    <3>2. PICK j \in DOMAIN t : t[j] = x
      BY <2>3 DEF Range
    <3>3. i \in DOMAIN c /\ Len(s) + j \in DOMAIN c /\ c[i] = c[Len(s) + j] /\ i # Len(s) + j
      BY <1>1, <3>1, <3>2
    <3> QED
      BY <1>2, <3>3 DEF Distinct
  <2> QED
    BY <2>1, <2>2, <2>3
<1>3. ASSUME Distinct(s), Distinct(t), \A x \in Range(s) : x \notin Range(t),
             NEW i \in DOMAIN c, NEW j \in DOMAIN c, c[i] = c[j]
      PROVE  i = j
  <2>1. \A k \in DOMAIN c : \/ k \in DOMAIN s /\ c[k] = s[k]
                            \/ k - Len(s) \in DOMAIN t /\ c[k] = t[k - Len(s)]
    <3> SUFFICES ASSUME NEW k \in DOMAIN c
                 PROVE  \/ k \in DOMAIN s /\ c[k] = s[k]
                        \/ k - Len(s) \in DOMAIN t /\ c[k] = t[k - Len(s)]
      OBVIOUS
    <3>1. CASE k <= Len(s)
      BY <1>1, <3>1
    <3>2. CASE ~(k <= Len(s))
      <4>1. k - Len(s) \in 1..Len(t) /\ Len(s) + (k - Len(s)) = k
        BY <1>1, <3>2
      <4> QED
        BY <1>1, <4>1
    <3> QED
      BY <3>1, <3>2
  <2>2. CASE i \in DOMAIN s /\ c[i] = s[i] /\ j \in DOMAIN s /\ c[j] = s[j]
    BY <1>3, <2>2 DEF Distinct
  <2>3. CASE /\ i - Len(s) \in DOMAIN t /\ c[i] = t[i - Len(s)]
             /\ j - Len(s) \in DOMAIN t /\ c[j] = t[j - Len(s)]
    <3>1. i - Len(s) = j - Len(s)
      BY <1>3, <2>3 DEF Distinct
    <3> QED
      BY <1>1, <3>1
  <2>4. CASE i \in DOMAIN s /\ c[i] = s[i] /\ j - Len(s) \in DOMAIN t /\ c[j] = t[j - Len(s)]
    BY <1>3, <2>4 DEF Range
  <2>5. CASE j \in DOMAIN s /\ c[j] = s[j] /\ i - Len(s) \in DOMAIN t /\ c[i] = t[i - Len(s)]
    BY <1>3, <2>5 DEF Range
  <2> QED
    BY <2>1, <2>2, <2>3, <2>4, <2>5
<1> QED
  BY <1>2, <1>3 DEF c, Distinct

(* Three parts one behind the other.                                        *)
DistinctParts(a, b, c) ==
  /\ Distinct(a) /\ Distinct(b) /\ Distinct(c)
  /\ \A x \in Range(a) : x \notin Range(b) /\ x \notin Range(c)
  /\ \A x \in Range(b) : x \notin Range(c)

(* Appending is associative, for all sequences over a set at once.         *)
Associative(T) == \A a, b, c \in Seq(T) : (a \o b) \o c = a \o (b \o c)

LEMMA Associates ==
  ASSUME NEW T
  PROVE  Associative(T)
BY DEF Associative

LEMMA ThreeParts ==
  ASSUME NEW T, NEW a \in Seq(T), NEW b \in Seq(T), NEW c \in Seq(T)
  PROVE  /\ a \o b \in Seq(T) /\ b \o c \in Seq(T) /\ (a \o b) \o c \in Seq(T)
         /\ (a \o b) \o c = a \o (b \o c)
         /\ Range((a \o b) \o c) = Range(a) \cup Range(b) \cup Range(c)
         /\ Distinct((a \o b) \o c) <=> DistinctParts(a, b, c)
<1>1. a \o b \in Seq(T) /\ b \o c \in Seq(T)
  OBVIOUS
<1>2. (a \o b) \o c = a \o (b \o c)
  OBVIOUS
<1>3. Range(a \o b) = Range(a) \cup Range(b)
  BY RangeConcatenation
<1>4. Distinct(a \o b) <=> Distinct(a) /\ Distinct(b) /\ \A x \in Range(a) : x \notin Range(b)
  BY DistinctConcat, ZenonT(60)
<1> DEFINE d == a \o b
<1>5. d \in Seq(T)
  BY <1>1
<1> HIDE DEF d
<1>6. d \o c \in Seq(T) /\ Range(d \o c) = Range(d) \cup Range(c)
  BY <1>5, RangeConcatenation
<1>7. Distinct(d \o c) <=> Distinct(d) /\ Distinct(c) /\ \A x \in Range(d) : x \notin Range(c)
  BY <1>5, DistinctConcat, ZenonT(60)
<1>8. Range(d) = Range(a) \cup Range(b)
  BY <1>3 DEF d
<1>9. Range(d \o c) = Range(a) \cup Range(b) \cup Range(c)
  BY <1>6, <1>8
<1>10. Distinct(d) <=> Distinct(a) /\ Distinct(b) /\ \A x \in Range(a) : x \notin Range(b)
  BY <1>4 DEF d
<1>11. Distinct(d \o c) <=>
         /\ Distinct(a) /\ Distinct(b) /\ Distinct(c)
         /\ \A x \in Range(a) : x \notin Range(b) /\ x \notin Range(c)
         /\ \A x \in Range(b) : x \notin Range(c)
  BY <1>7, <1>8, <1>10
<1> QED
  BY <1>1, <1>2, <1>6, <1>9, <1>11 DEF d, DistinctParts

(* A sequence is what lies before a place and what lies behind it.          *)
LEMMA CutAnywhere ==
  ASSUME NEW T, NEW s \in Seq(T), NEW n \in 0..Len(s)
  PROVE  /\ SubSeq(s, 1, n) \in Seq(T) /\ Len(SubSeq(s, 1, n)) = n
         /\ SubSeq(s, n + 1, Len(s)) \in Seq(T) /\ Len(SubSeq(s, n + 1, Len(s))) = Len(s) - n
         /\ s = SubSeq(s, 1, n) \o SubSeq(s, n + 1, Len(s))
<1> DEFINE a == SubSeq(s, 1, n)
           b == SubSeq(s, n + 1, Len(s))
<1>1. n \in Nat /\ Len(s) \in Nat /\ n <= Len(s)
  OBVIOUS
<1>2. a \in Seq(T) /\ Len(a) = n /\ \A i \in 1..n : a[i] = s[i]
  BY <1>1
<1>3. b \in Seq(T) /\ Len(b) = Len(s) - n /\ \A i \in 1..(Len(s) - n) : b[i] = s[n + i]
  BY <1>1
<1> HIDE DEF a, b
<1>4. a \o b \in Seq(T) /\ Len(a \o b) = Len(s)
  BY <1>1, <1>2, <1>3
<1>5. ASSUME NEW i \in 1..Len(s) PROVE (a \o b)[i] = s[i]
  <2>1. CASE i <= n
    BY <1>1, <1>2, <1>3, <2>1
  <2>2. CASE ~(i <= n)
    <3>1. i - n \in 1..(Len(s) - n) /\ n + (i - n) = i
      BY <1>1, <2>2
    <3>2. (a \o b)[i] = b[i - n]
      BY <1>1, <1>2, <1>3, <2>2, ConcatProperties
    <3>3. b[i - n] = s[i]
      BY <1>3, <3>1
    <3> QED
      BY <3>2, <3>3
  <2> QED
    BY <2>1, <2>2
<1>6. a \o b = s
  BY <1>4, <1>5, SeqEqual
<1> QED
  BY <1>2, <1>3, <1>6 DEF a, b

(* What is a prefix: the other sequence goes on from it.                    *)
LEMMA PrefixSplits ==
  ASSUME NEW T, NEW s \in Seq(T), NEW t \in Seq(T)
  PROVE  IsPrefix(s, t) <=> \E u \in Seq(T) : t = s \o u
<1>1. ASSUME IsPrefix(s, t) PROVE \E u \in Seq(T) : t = s \o u
  <2>1. Len(s) \in 0..Len(t) /\ Len(t) \in Nat /\ s = SubSeq(t, 1, Len(s))
    BY <1>1 DEF IsPrefix
  <2>2. SubSeq(t, Len(s) + 1, Len(t)) \in Seq(T)
    BY <2>1
  <2>3. t = SubSeq(t, 1, Len(s)) \o SubSeq(t, Len(s) + 1, Len(t))
    BY <2>1, CutAnywhere
  <2> QED
    BY <2>1, <2>2, <2>3
<1>2. ASSUME NEW u \in Seq(T), t = s \o u PROVE IsPrefix(s, t)
  <2>1. Len(s) <= Len(t) /\ Len(s) \in Nat /\ Len(t) \in Nat /\ \A i \in 1..Len(s) : t[i] = s[i]
    BY <1>2
  <2>2. SubSeq(t, 1, Len(s)) = s /\ SubSeq(s, 1, Len(s)) = s
    BY <2>1
  <2> QED
    BY <2>1, <2>2 DEF IsPrefix
<1> QED
  BY <1>1, <1>2

LEMMA PrefixConcat ==
  ASSUME NEW T, NEW s \in Seq(T), NEW t \in Seq(T), NEW u \in Seq(T), IsPrefix(s, t)
  PROVE  IsPrefix(s, t \o u)
<1>1. PICK v \in Seq(T) : t = s \o v
  BY PrefixSplits
<1>2. v \in Seq(T) /\ v \o u \in Seq(T) /\ t \o u \in Seq(T)
  BY <1>1
<1>3. (s \o v) \o u = s \o (v \o u)
  <2>1. Associative(T)
    BY Associates
  <2> QED
    BY <2>1, ZenonT(60) DEF Associative
<1>4. t \o u = s \o (v \o u)
  BY <1>1, <1>3
<1> QED
  BY <1>2, <1>4, PrefixSplits

LEMMA PrefixAppend ==
  ASSUME NEW T, NEW s \in Seq(T), NEW t \in Seq(T), NEW x \in T, IsPrefix(s, t)
  PROVE  IsPrefix(s, Append(t, x))
<1>1. PICK u \in Seq(T) : t = s \o u
  BY PrefixSplits
<1>2. Append(u, x) \in Seq(T) /\ Append(t, x) \in Seq(T)
  OBVIOUS
<1>3. Append(s \o u, x) = s \o Append(u, x)
  BY SMTT(30)
<1>4. Append(t, x) = s \o Append(u, x)
  BY <1>1, <1>3
<1> QED
  BY <1>2, <1>4, PrefixSplits

LEMMA PrefixOnly ==
  ASSUME NEW T, NEW s \in Seq(T), NEW t \in Seq(T), NEW S, IsPrefix(s, t)
  PROVE  IsPrefix(Only(s, S), Only(t, S))
<1>1. PICK u \in Seq(T) : t = s \o u
  BY PrefixSplits
<1>2. Only(t, S) = Only(s, S) \o Only(u, S)
  BY <1>1, OnlyConcat
<1>3. Only(s, S) \in Seq(T) /\ Only(t, S) \in Seq(T) /\ Only(u, S) \in Seq(T)
  BY OnlyProperties
<1> QED
  BY <1>2, <1>3, PrefixSplits

(* What is left when a part of a sequence without repetitions goes.         *)
Remains(T, p, o, q) ==
  /\ Range((p \o o) \o q) = Range(p) \cup Range(o) \cup Range(q)
  /\ Range(p \o q) = Range(p) \cup Range(q)
  /\ Range(o) \cap Range(p) = {} /\ Range(o) \cap Range(q) = {}
  /\ Distinct(p \o q)
  /\ Only((p \o o) \o q, T \ Range(o)) = p \o q

(* The same for all sequences over a set at once.                           *)
OnlyIsFree(T, S) == \A a, b \in Seq(T) : Only(a \o b, S) = Only(a, S) \o Only(b, S)

LEMMA OnlyConcats ==
  ASSUME NEW T, NEW S
  PROVE  OnlyIsFree(T, S)
<1> SUFFICES ASSUME NEW a \in Seq(T), NEW b \in Seq(T) PROVE Only(a \o b, S) = Only(a, S) \o Only(b, S)
  BY DEF OnlyIsFree
<1> QED
  BY OnlyConcat

OnlyOfEach(p, o, q, S) == Only((p \o o) \o q, S) = (Only(p, S) \o Only(o, S)) \o Only(q, S)

LEMMA OnlyThree ==
  ASSUME NEW T, NEW p \in Seq(T), NEW o \in Seq(T), NEW q \in Seq(T), NEW S
  PROVE  OnlyOfEach(p, o, q, S)
<1> DEFINE c == p \o o
<1>1. c \in Seq(T)
  OBVIOUS
<1>2. Only(c, S) = Only(p, S) \o Only(o, S)
  BY OnlyConcat
<1> HIDE DEF c
<1>3. Only(c \o q, S) = Only(c, S) \o Only(q, S)
  <2>1. OnlyIsFree(T, S)
    BY OnlyConcats
  <2> QED
    BY <1>1, <2>1, ZenonT(60) DEF OnlyIsFree
<1> QED
  BY <1>2, <1>3, ZenonT(60) DEF c, OnlyOfEach

LEMMA TakenOut ==
  ASSUME NEW T, NEW p \in Seq(T), NEW o \in Seq(T), NEW q \in Seq(T), Distinct((p \o o) \o q)
  PROVE  Remains(T, p, o, q)
<1>1. /\ p \o o \in Seq(T) /\ (p \o o) \o q \in Seq(T)
      /\ Range((p \o o) \o q) = Range(p) \cup Range(o) \cup Range(q)
      /\ DistinctParts(p, o, q)
  BY ThreeParts
<1>2. p \o q \in Seq(T) /\ Range(p \o q) = Range(p) \cup Range(q)
  BY RangeConcatenation
<1>3. Range(o) \cap Range(p) = {} /\ Range(o) \cap Range(q) = {}
  BY <1>1, ZenonT(60) DEF DistinctParts
<1>4. Distinct(p) /\ Distinct(q) /\ \A x \in Range(p) : x \notin Range(q)
  BY <1>1 DEF DistinctParts
<1>5. Distinct(p \o q)
  BY <1>4, DistinctConcat
<1> DEFINE R == T \ Range(o)
<1>6. Range(p) \subseteq R /\ Range(q) \subseteq R /\ Range(o) \cap R = Range(o) \cap {}
  <2>1. Range(p) \subseteq T /\ Range(q) \subseteq T
    BY RangeOfSeq
  <2> QED
    BY <1>3, <2>1
<1> HIDE DEF R
<1>7. Only(p, R) = p /\ Only(q, R) = q
  BY <1>6, OnlyAll
<1>8. Only(o, R) = <<>>
  <2>1. Only(o, R) \in Seq(T) /\ Range(Only(o, R)) = {}
    BY <1>6, OnlyProperties
  <2> DEFINE e == Only(o, R)
  <2> HIDE DEF e
  <2>2. e \in Seq(T) /\ Range(e) = {}
    BY <2>1 DEF e
  <2>3. Len(e) \in Nat /\ DOMAIN e = 1..Len(e) /\ 1 \notin DOMAIN e
    BY <2>2 DEF Range
  <2>4. e = <<>>
    BY <2>2, <2>3
  <2> QED
    BY <2>4 DEF e
<1>10. Only((p \o o) \o q, R) = p \o q
  <2>1. OnlyOfEach(p, o, q, R)
    BY OnlyThree
  <2>2. p \o <<>> = p
    OBVIOUS
  <2> QED
    BY <1>7, <1>8, <2>1, <2>2, ZenonT(60) DEF OnlyOfEach
<1> QED
  BY <1>1, <1>2, <1>3, <1>5, <1>10 DEF R, Remains

LEMMA ConcatAppend ==
  ASSUME NEW T, NEW a \in Seq(T), NEW b \in Seq(T), NEW x \in T
  PROVE  a \o Append(b, x) = Append(a \o b, x)
OBVIOUS

Regroups(a, b, c, d) == a \o ((b \o c) \o d) = ((a \o b) \o c) \o d

LEMMA FourParts ==
  ASSUME NEW T, NEW a \in Seq(T), NEW b \in Seq(T), NEW c \in Seq(T), NEW d \in Seq(T)
  PROVE  Regroups(a, b, c, d)
<1> DEFINE p == a \o b
<1>1. p \in Seq(T)
  OBVIOUS
<1>2. (b \o c) \o d = b \o (c \o d)
  OBVIOUS
<1>3. a \o (b \o (c \o d)) = p \o (c \o d)
  <2> DEFINE e == c \o d
  <2>1. e \in Seq(T)
    OBVIOUS
  <2> HIDE DEF e
  <2>2. (a \o b) \o e = a \o (b \o e)
    <3>1. Associative(T)
      BY Associates
    <3> QED
      BY <2>1, <3>1, ZenonT(60) DEF Associative
  <2> QED
    BY <2>2 DEF e
<1> HIDE DEF p
<1>4. p \o (c \o d) = (p \o c) \o d
  BY <1>1
<1> QED
  BY <1>2, <1>3, <1>4, ZenonT(60) DEF p, Regroups

(* Something at the seam of two parts goes.                                 *)
LEMMA DistinctDrop ==
  ASSUME NEW T, NEW a \in Seq(T), NEW b \in Seq(T), NEW c \in Seq(T), NEW d \in Seq(T),
         Distinct(a \o ((b \o c) \o d))
  PROVE  Distinct((a \o b) \o d)
<1> DEFINE p == a \o b
<1>1. p \in Seq(T) /\ Regroups(a, b, c, d)
  BY FourParts
<1>2. Distinct((p \o c) \o d)
  BY <1>1, ZenonT(60) DEF Regroups
<1> HIDE DEF p
<1>3. Distinct(p \o d)
  BY <1>1, <1>2, TakenOut DEF Remains
<1> QED
  BY <1>3 DEF p

LEMMA OnlyNone ==
  ASSUME NEW T, NEW s \in Seq(T), NEW S, Range(s) \cap S = {}
  PROVE  Only(s, S) = <<>>
<1>1. Only(s, S) \in Seq(T) /\ Range(Only(s, S)) = {}
  BY OnlyProperties
<1> DEFINE e == Only(s, S)
<1>2. e \in Seq(T) /\ \A i \in DOMAIN e : e[i] \in {}
  BY <1>1 DEF Range
<1> HIDE DEF e
<1>3. Len(e) \in Nat /\ DOMAIN e = 1..Len(e) /\ 1 \notin DOMAIN e
  BY <1>2
<1>4. e = <<>>
  BY <1>2, <1>3
<1> QED
  BY <1>4 DEF e

LEMMA DistinctAppend ==
  ASSUME NEW T, NEW s \in Seq(T), NEW x \in T, Distinct(s), x \notin Range(s)
  PROVE  Distinct(Append(s, x))
<1> DEFINE t == Append(s, x)
<1>1. /\ DOMAIN s = 1..Len(s) /\ DOMAIN t = 1..(Len(s) + 1) /\ Len(s) \in Nat
      /\ t[Len(s) + 1] = x /\ \A i \in 1..Len(s) : t[i] = s[i]
  OBVIOUS
<1>2. \A i \in DOMAIN s : s[i] # x
  BY DEF Range
<1> HIDE DEF t
<1> SUFFICES ASSUME NEW i \in DOMAIN t, NEW j \in DOMAIN t, t[i] = t[j] PROVE i = j
  BY DEF Distinct, t
<1>3. (i \in DOMAIN s \/ i = Len(s) + 1) /\ (j \in DOMAIN s \/ j = Len(s) + 1)
  BY <1>1
<1> QED
  BY <1>1, <1>2, <1>3 DEF Distinct

(* Filtering keeps a sequence free of repetitions.                         *)
LEMMA OnlyDistinct ==
  ASSUME NEW T, NEW s \in Seq(T), NEW S, Distinct(s)
  PROVE  Distinct(Only(s, S))
<1> DEFINE P == {q \in Seq(T) : Distinct(q) => Distinct(Only(q, S))}
<1>1. <<>> \in P
  <2>1. Only(<<>>, S) = <<>> /\ <<>> \in Seq(T)
    BY OnlyEmpty
  <2> QED
    BY <2>1 DEF Distinct
<1>2. ASSUME NEW q \in Seq(T), NEW x \in T, q \in P PROVE Append(q, x) \in P
  <2>1. Append(q, x) \in Seq(T)
    OBVIOUS
  <2>2. ASSUME Distinct(Append(q, x)) PROVE Distinct(Only(Append(q, x), S))
    <3>1. Distinct(q) /\ x \notin Range(q)
      <4>1. /\ DOMAIN q = 1..Len(q) /\ DOMAIN Append(q, x) = 1..(Len(q) + 1) /\ Len(q) \in Nat
            /\ Append(q, x)[Len(q) + 1] = x /\ \A i \in 1..Len(q) : Append(q, x)[i] = q[i]
        BY AppendProperties
      <4> QED
        BY <2>2, <4>1 DEF Distinct, Range
    <3> DEFINE o == Only(q, S)
    <3>2. Distinct(o) /\ o \in Seq(T) /\ Range(o) \subseteq Range(q)
      BY <1>2, <3>1, OnlyProperties
    <3> HIDE DEF o
    <3>3. Distinct(Append(o, x))
      BY <3>1, <3>2, DistinctAppend
    <3>4. Only(Append(q, x), S) = IF x \in S THEN Append(o, x) ELSE o
      BY OnlyAppend DEF o
    <3> QED
      BY <3>2, <3>3, <3>4
  <2> QED
    BY <2>1, <2>2
<1>3. Seq(T) \subseteq P
  <2> HIDE DEF P
  <2> QED BY <1>1, <1>2, SeqInduction
<1> QED
  BY <1>3

(* A member put ahead of a sequence.                                        *)
LEMMA Prepend ==
  ASSUME NEW T, NEW s \in Seq(T), NEW x \in T
  PROVE  /\ <<x>> \o s \in Seq(T) /\ \A y : y \in Range(<<x>> \o s) <=> y = x \/ y \in Range(s)
         /\ Distinct(s) /\ x \notin Range(s) => Distinct(<<x>> \o s)
<1> DEFINE h == <<x>>
<1>1. h \in Seq(T) /\ Range(h) = {x} /\ Distinct(h)
  BY DEF Range, Distinct
<1> HIDE DEF h
<1>2. h \o s \in Seq(T) /\ Range(h \o s) = Range(h) \cup Range(s)
  BY <1>1, RangeConcatenation
<1>3. Distinct(h \o s) <=> Distinct(h) /\ Distinct(s) /\ \A y \in Range(h) : y \notin Range(s)
  BY <1>1, DistinctConcat, ZenonT(60)
<1>4. /\ h \o s \in Seq(T) /\ \A y : y \in Range(h \o s) <=> y = x \/ y \in Range(s)
      /\ Distinct(s) /\ x \notin Range(s) => Distinct(h \o s)
  BY <1>1, <1>2, <1>3
<1> QED
  BY <1>4 DEF h

-----------------------------------------------------------------------------
(* The beginning and the end of a sequence, pointwise.                       *)
LEMMA BeginningIs ==
  ASSUME NEW T, NEW s \in Seq(T), NEW i \in 0..Len(s)
  PROVE  SubSeq(s, 1, i) = [j \in 1..i |-> s[j]]
OBVIOUS

LEMMA EndIs ==
  ASSUME NEW T, NEW s \in Seq(T), NEW i \in 0..Len(s)
  PROVE  SubSeq(s, i + 1, Len(s)) = [j \in 1..(Len(s) - i) |-> s[j + i]]
OBVIOUS

(* FlattenSeq, the concatenation of many: its recursion has a solution ...  *)
LEMMA FlattenDef ==
  ASSUME NEW T, NEW s \in Seq(Seq(T)), Len(s) # 0
  PROVE  \E f : /\ f = [i \in 1..Len(s) |-> IF i = 1 THEN s[i] ELSE f[i - 1] \o s[i]]
                /\ FlattenSeq(s) = f[Len(s)]
<1> DEFINE Step(f, i) == IF i = 1 THEN s[i] ELSE f[i - 1] \o s[i]
           Good(f, m) == f = [i \in 1..m |-> Step(f, i)]
           D == {m \in Nat : \E f : Good(f, m)}
<1>1. 0 \in D
  <2>1. Good([i \in 1..0 |-> <<>>], 0)
    OBVIOUS
  <2> QED BY <2>1
<1>2. ASSUME NEW m \in Nat, m \in D PROVE m + 1 \in D
  <2>1. PICK f : Good(f, m)
    BY <1>2
  <2> DEFINE g == [i \in 1..(m + 1) |-> IF i = m + 1 THEN Step(f, i) ELSE f[i]]
  <2>2. \A i \in 1..m : g[i] = f[i]
    OBVIOUS
  <2>3. \A i \in 1..(m + 1) : Step(g, i) = Step(f, i)
    BY <2>2
  <2>4. \A i \in 1..m : f[i] = Step(f, i)
    BY <2>1
  <2>5. \A i \in 1..(m + 1) : g[i] = Step(g, i)
    BY <2>2, <2>3, <2>4
  <2>6. Good(g, m + 1)
    <3> HIDE DEF Step
    <3> QED BY <2>5
  <2> HIDE DEF Good, g
  <2> QED BY <2>6
<1>3. Nat \subseteq D
  <2> HIDE DEF D
  <2> QED BY <1>1, <1>2, SetInduction
<1>4. \E f : Good(f, Len(s))
  <2>1. Len(s) \in D
    <3>1. Len(s) \in Nat
      OBVIOUS
    <3> HIDE DEF D
    <3> QED
      BY <1>3, <3>1
  <2> HIDE DEF Good
  <2> QED
    BY <2>1
<1> DEFINE F == CHOOSE f : Good(f, Len(s))
<1>5. Good(F, Len(s))
  <2> HIDE DEF Good
  <2> QED BY <1>4
<1>6. FlattenSeq(s) = F[Len(s)]
  BY DEF FlattenSeq
<1> QED
  BY <1>5, <1>6

LEMMA FlattenEmpty == FlattenSeq(<<>>) = <<>>
BY DEF FlattenSeq

(* ... so that it can be computed from the front to the back, ...           *)
LEMMA FlattenStep ==
  ASSUME NEW T, NEW s \in Seq(Seq(T)), NEW x \in Seq(T)
  PROVE  FlattenSeq(Append(s, x)) = IF s = <<>> THEN x ELSE FlattenSeq(s) \o x
<1> DEFINE t == Append(s, x)
<1>1. /\ t \in Seq(Seq(T)) /\ Len(t) = Len(s) + 1 /\ t[Len(s) + 1] = x
      /\ \A i \in 1..Len(s) : t[i] = s[i]
  OBVIOUS
<1> HIDE DEF t
<1>2. Len(s) \in Nat /\ Len(t) # 0
  BY <1>1
<1>3. PICK g : /\ g = [i \in 1..Len(t) |-> IF i = 1 THEN t[i] ELSE g[i - 1] \o t[i]]
               /\ FlattenSeq(t) = g[Len(t)]
  BY <1>1, <1>2, FlattenDef
<1>4. CASE s = <<>>
  <2>1. Len(t) = 1 /\ t[1] = x
    BY <1>1, <1>4
  <2>2. g[1] = t[1]
    BY <1>3, <2>1
  <2> QED
    BY <1>3, <1>4, <2>1, <2>2 DEF t
<1>5. CASE s # <<>>
  <2>1. Len(s) # 0
    BY <1>5
  <2>2. PICK f : /\ f = [i \in 1..Len(s) |-> IF i = 1 THEN s[i] ELSE f[i - 1] \o s[i]]
                 /\ FlattenSeq(s) = f[Len(s)]
    BY <2>1, FlattenDef
  <2> DEFINE D == {n \in Nat : n \in 1..Len(s) => g[n] = f[n]}
  <2>3. 0 \in D
    OBVIOUS
  <2>4. ASSUME NEW n \in Nat, n \in D PROVE n + 1 \in D
    <3> SUFFICES ASSUME n + 1 \in 1..Len(s) PROVE g[n + 1] = f[n + 1]
      OBVIOUS
    <3>1. n + 1 \in 1..Len(t) /\ t[n + 1] = s[n + 1]
      BY <1>1, <1>2
    <3>2. CASE n = 0
      <4>1. g[1] = t[1] /\ f[1] = s[1]
        BY <1>3, <2>2, <3>1, <3>2
      <4> QED
        BY <3>1, <3>2, <4>1
    <3>3. CASE n # 0
      <4>1. n \in 1..Len(s) /\ n + 1 # 1 /\ (n + 1) - 1 = n
        BY <1>2, <3>3
      <4>2. g[n + 1] = g[n] \o t[n + 1]
        BY <1>3, <3>1, <4>1
      <4>3. f[n + 1] = f[n] \o s[n + 1]
        BY <2>2, <4>1
      <4> QED
        BY <2>4, <3>1, <4>1, <4>2, <4>3
    <3> QED
      BY <3>2, <3>3
  <2>5. Nat \subseteq D
    <3> HIDE DEF D
    <3> QED
      BY <2>3, <2>4, SetInduction
  <2>6. g[Len(s)] = f[Len(s)]
    BY <1>2, <2>1, <2>5
  <2>7. Len(t) \in 1..Len(t) /\ Len(t) # 1 /\ Len(t) - 1 = Len(s) /\ t[Len(t)] = x
    BY <1>1, <1>2, <2>1
  <2>8. g[Len(t)] = g[Len(s)] \o x
    BY <1>3, <2>7
  <2> QED
    BY <1>3, <1>5, <2>2, <2>6, <2>8 DEF t
<1> QED
  BY <1>4, <1>5

LEMMA FlattenAppend ==
  ASSUME NEW T, NEW s \in Seq(Seq(T)), NEW x \in Seq(T)
  PROVE  FlattenSeq(s) \in Seq(T) /\ FlattenSeq(Append(s, x)) = FlattenSeq(s) \o x
<1> DEFINE P == {q \in Seq(Seq(T)) : FlattenSeq(q) \in Seq(T)}
<1>1. <<>> \in P
  <2>1. <<>> \in Seq(Seq(T)) /\ <<>> \in Seq(T)
    OBVIOUS
  <2> QED
    BY <2>1, FlattenEmpty
<1>2. ASSUME NEW q \in Seq(Seq(T)), NEW y \in Seq(T), q \in P PROVE Append(q, y) \in P
  <2>1. FlattenSeq(q) \in Seq(T) /\ Append(q, y) \in Seq(Seq(T))
    BY <1>2
  <2>2. FlattenSeq(Append(q, y)) = IF q = <<>> THEN y ELSE FlattenSeq(q) \o y
    BY FlattenStep
  <2>3. FlattenSeq(q) \o y \in Seq(T)
    BY <2>1
  <2> QED
    BY <2>1, <2>2, <2>3
<1> HIDE DEF P
<1>3. Seq(Seq(T)) \subseteq P
  BY <1>1, <1>2, SeqInduction
<1>4. FlattenSeq(s) \in Seq(T)
  BY <1>3 DEF P
<1>5. FlattenSeq(Append(s, x)) = IF s = <<>> THEN x ELSE FlattenSeq(s) \o x
  BY FlattenStep
<1>6. <<>> \o x = x
  OBVIOUS
<1> QED
  BY <1>4, <1>5, <1>6, FlattenEmpty

(* ... part by part, ...                                                    *)
LEMMA FlattenConcat ==
  ASSUME NEW T, NEW s \in Seq(Seq(T)), NEW t \in Seq(Seq(T))
  PROVE  FlattenSeq(s \o t) = FlattenSeq(s) \o FlattenSeq(t)
<1> DEFINE P == {q \in Seq(Seq(T)) : FlattenSeq(s \o q) = FlattenSeq(s) \o FlattenSeq(q)}
<1>1. <<>> \in P
  <2>1. FlattenSeq(s) \in Seq(T)
    BY FlattenAppend, EmptySeq
  <2>2. s \o <<>> = s /\ FlattenSeq(s) \o <<>> = FlattenSeq(s) /\ <<>> \in Seq(Seq(T))
    BY <2>1
  <2> QED
    BY <2>2, FlattenEmpty
<1>2. ASSUME NEW q \in Seq(Seq(T)), NEW x \in Seq(T), q \in P PROVE Append(q, x) \in P
  <2>1. s \o Append(q, x) = Append(s \o q, x) /\ s \o q \in Seq(Seq(T)) /\ Append(q, x) \in Seq(Seq(T))
    <3> DEFINE W == Seq(T)
    <3>1. s \in Seq(W) /\ q \in Seq(W) /\ x \in W
      OBVIOUS
    <3> HIDE DEF W
    <3>2. s \o q \in Seq(W) /\ Append(q, x) \in Seq(W)
      BY <3>1
    <3>3. s \o Append(q, x) = Append(s \o q, x)
      BY <3>1, SMTT(40)
    <3> QED
      BY <3>2, <3>3 DEF W
  <2>2. FlattenSeq(s) \in Seq(T) /\ FlattenSeq(q) \in Seq(T)
    BY FlattenAppend
  <2>3. FlattenSeq(Append(q, x)) = FlattenSeq(q) \o x
    BY FlattenAppend
  <2>4. FlattenSeq(Append(s \o q, x)) = FlattenSeq(s \o q) \o x
    BY <2>1, FlattenAppend
  <2>5. FlattenSeq(s) \o (FlattenSeq(q) \o x) = (FlattenSeq(s) \o FlattenSeq(q)) \o x
    <3>1. Associative(T)
      BY Associates
    <3>2. x \in Seq(T)
      OBVIOUS
    <3> QED
      BY <2>2, <3>1, <3>2, ZenonT(60) DEF Associative
  <2> QED
    BY <1>2, <2>1, <2>3, <2>4, <2>5
<1> HIDE DEF P
<1>3. Seq(Seq(T)) \subseteq P
  BY <1>1, <1>2, SeqInduction
<1> QED
  BY <1>3 DEF P

LEMMA FlattenNothing ==
  ASSUME NEW T, NEW s \in Seq(Seq(T)), \A i \in DOMAIN s : s[i] = <<>>
  PROVE  FlattenSeq(s) = <<>>
<1> DEFINE P == {q \in Seq(Seq(T)) : (\A i \in DOMAIN q : q[i] = <<>>) => FlattenSeq(q) = <<>>}
<1>1. <<>> \in P
  BY FlattenEmpty
<1>2. ASSUME NEW q \in Seq(Seq(T)), NEW x \in Seq(T), q \in P PROVE Append(q, x) \in P
  <2> SUFFICES ASSUME \A i \in DOMAIN Append(q, x) : Append(q, x)[i] = <<>>
               PROVE  FlattenSeq(Append(q, x)) = <<>>
    <3>1. Append(q, x) \in Seq(Seq(T))
      OBVIOUS
    <3> QED
      BY <3>1
  <2>1. x = <<>> /\ \A i \in DOMAIN q : q[i] = <<>>
    <3>1. Len(q) + 1 \in DOMAIN Append(q, x) /\ Append(q, x)[Len(q) + 1] = x
      OBVIOUS
    <3>2. \A i \in DOMAIN q : i \in DOMAIN Append(q, x) /\ Append(q, x)[i] = q[i]
      OBVIOUS
    <3> QED
      BY <3>1, <3>2
  <2>2. FlattenSeq(Append(q, x)) = FlattenSeq(q) \o x
    BY FlattenAppend
  <2>3. FlattenSeq(q) = <<>>
    BY <1>2, <2>1
  <2> QED
    BY <2>1, <2>2, <2>3
<1> HIDE DEF P
<1>3. Seq(Seq(T)) \subseteq P
  BY <1>1, <1>2, SeqInduction
<1> QED
  BY <1>3 DEF P

(* ... and when one part changes, what is before and behind it stays.       *)
Around(T, s, t, i) ==
  \E a, b \in Seq(T) :
    /\ FlattenSeq(s) = (a \o s[i]) \o b
    /\ FlattenSeq(t) = (a \o t[i]) \o b
    /\ (\A j \in 1..(i - 1) : s[j] = <<>>) => a = <<>>
    /\ (\A j \in (i + 1)..Len(s) : s[j] = <<>>) => b = <<>>

LEMMA FlattenPart ==
  ASSUME NEW T, NEW s \in Seq(Seq(T)), NEW i \in 1..Len(s)
  PROVE  /\ SubSeq(s, 1, i - 1) \in Seq(Seq(T)) /\ SubSeq(s, i + 1, Len(s)) \in Seq(Seq(T))
         /\ FlattenSeq(s) = (FlattenSeq(SubSeq(s, 1, i - 1)) \o s[i]) \o FlattenSeq(SubSeq(s, i + 1, Len(s)))
<1> DEFINE p == SubSeq(s, 1, i - 1)
           u == SubSeq(s, 1, i)
           q == SubSeq(s, i + 1, Len(s))
<1>1. i - 1 \in 0..Len(s) /\ i \in 0..Len(s)
  OBVIOUS
<1>2. p \in Seq(Seq(T)) /\ u \in Seq(Seq(T)) /\ q \in Seq(Seq(T)) /\ s = u \o q
  BY <1>1, CutAnywhere
<1>3. s[i] \in Seq(T) /\ u = Append(p, s[i])
  OBVIOUS
<1> HIDE DEF p, u, q
<1>4. FlattenSeq(u \o q) = FlattenSeq(u) \o FlattenSeq(q)
  BY <1>2, FlattenConcat
<1>5. FlattenSeq(Append(p, s[i])) = FlattenSeq(p) \o s[i]
  BY <1>2, <1>3, FlattenAppend
<1> QED
  BY <1>2, <1>3, <1>4, <1>5 DEF p, q

LEMMA FlattenAround ==
  ASSUME NEW T, NEW s \in Seq(Seq(T)), NEW t \in Seq(Seq(T)), NEW i \in 1..Len(s),
         Len(t) = Len(s), \A j \in 1..Len(s) : j # i => t[j] = s[j]
  PROVE  Around(T, s, t, i)
<1> DEFINE p == SubSeq(s, 1, i - 1)
           q == SubSeq(s, i + 1, Len(s))
<1>1. /\ p \in Seq(Seq(T)) /\ q \in Seq(Seq(T))
      /\ FlattenSeq(s) = (FlattenSeq(p) \o s[i]) \o FlattenSeq(q)
  BY FlattenPart
<1>0. i \in Nat /\ Len(s) \in Nat /\ i - 1 \in 0..Len(s) /\ i \in 0..Len(s)
  OBVIOUS
<1>2. SubSeq(t, 1, i - 1) = p
  <2>1. \A j \in 1..(i - 1) : t[j] = s[j]
    BY <1>0
  <2>2. SubSeq(t, 1, i - 1) = [j \in 1..(i - 1) |-> t[j]] /\ p = [j \in 1..(i - 1) |-> s[j]]
    BY <1>0
  <2> QED
    BY <2>1, <2>2
<1>3. SubSeq(t, i + 1, Len(t)) = q
  <2>1. \A j \in 1..(Len(s) - i) : t[j + i] = s[j + i]
    BY <1>0
  <2>2. /\ SubSeq(t, i + 1, Len(t)) = [j \in 1..(Len(s) - i) |-> t[j + i]]
        /\ q = [j \in 1..(Len(s) - i) |-> s[j + i]]
    BY <1>0
  <2> QED
    BY <2>1, <2>2
<1>4. FlattenSeq(t) = (FlattenSeq(p) \o t[i]) \o FlattenSeq(q)
  <2>1. i \in 1..Len(t)
    OBVIOUS
  <2>2. FlattenSeq(t) = (FlattenSeq(SubSeq(t, 1, i - 1)) \o t[i]) \o FlattenSeq(SubSeq(t, i + 1, Len(t)))
    BY <2>1, FlattenPart
  <2> QED
    BY <1>2, <1>3, <2>2
<1>5. (\A j \in 1..(i - 1) : s[j] = <<>>) => \A j \in DOMAIN p : p[j] = <<>>
  <2> DEFINE W == Seq(T)
             k == i - 1
  <2>1. s \in Seq(W) /\ k \in 0..Len(s)
    BY <1>0
  <2> HIDE DEF W, k
  <2>2. SubSeq(s, 1, k) = [j \in 1..k |-> s[j]]
    BY <2>1, BeginningIs, ZenonT(60)
  <2>3. p = SubSeq(s, 1, k) /\ 1..(i - 1) = 1..k
    BY DEF k
  <2> HIDE DEF p
  <2> QED
    BY <2>2, <2>3
<1>6. (\A j \in (i + 1)..Len(s) : s[j] = <<>>) => \A j \in DOMAIN q : q[j] = <<>>
  <2>1. q = [j \in 1..(Len(s) - i) |-> s[j + i]]
    <3> DEFINE W == Seq(T)
    <3>1. s \in Seq(W) /\ i \in 0..Len(s)
      BY <1>0
    <3> HIDE DEF W
    <3> QED
      BY <3>1, EndIs, ZenonT(60)
  <2>2. \A j \in 1..(Len(s) - i) : j + i \in (i + 1)..Len(s)
    BY <1>0
  <2> HIDE DEF q
  <2> QED
    BY <2>1, <2>2
<1> HIDE DEF p, q
<1>7. FlattenSeq(p) \in Seq(T) /\ FlattenSeq(q) \in Seq(T)
  BY <1>1, FlattenAppend, EmptySeq
<1>8. (\A j \in 1..(i - 1) : s[j] = <<>>) => FlattenSeq(p) = <<>>
  BY <1>1, <1>5, FlattenNothing
<1>9. (\A j \in (i + 1)..Len(s) : s[j] = <<>>) => FlattenSeq(q) = <<>>
  BY <1>1, <1>6, FlattenNothing
<1> QED
  BY <1>1, <1>4, <1>7, <1>8, <1>9 DEF Around

-----------------------------------------------------------------------------
(* A sequence without its k-th element: those behind it move up.            *)
LEMMA RemoveAtProperties ==
  ASSUME NEW T, NEW s \in Seq(T), NEW k \in 1..Len(s)
  PROVE  /\ RemoveAt(s, k) \in Seq(T)
         /\ Len(RemoveAt(s, k)) = Len(s) - 1
         /\ \A i \in 1..(Len(s) - 1) : RemoveAt(s, k)[i] = IF i < k THEN s[i] ELSE s[i + 1]
<1> DEFINE a == SubSeq(s, 1, k - 1)
           b == SubSeq(s, k + 1, Len(s))
<1>1. a \in Seq(T) /\ Len(a) = k - 1 /\ \A i \in 1..(k - 1) : a[i] = s[i]
  BY SMTT(30)
<1>2. b \in Seq(T) /\ Len(b) = Len(s) - k /\ \A i \in 1..(Len(s) - k) : b[i] = s[k + i]
  BY SMTT(30)
<1>3. RemoveAt(s, k) = a \o b
  BY DEF RemoveAt
<1> HIDE DEF a, b
<1>4. a \o b \in Seq(T)
  BY <1>1, <1>2, ConcatProperties
<1>5. /\ Len(a \o b) = Len(a) + Len(b)
      /\ \A i \in 1..(Len(a) + Len(b)) : (a \o b)[i] = IF i <= Len(a) THEN a[i] ELSE b[i - Len(a)]
  BY <1>1, <1>2, ConcatProperties
<1>6. k \in Int /\ Len(s) \in Nat /\ 1 <= k /\ k <= Len(s)
  OBVIOUS
<1>7. Len(a \o b) = Len(s) - 1
  BY <1>1, <1>2, <1>5, <1>6
<1>8. ASSUME NEW i \in 1..(Len(s) - 1)
      PROVE  (a \o b)[i] = IF i < k THEN s[i] ELSE s[i + 1]
  <2>1. CASE i < k
    BY <1>1, <1>2, <1>5, <1>6, <2>1
  <2>2. CASE ~(i < k)
    <3>1. i - (k - 1) \in 1..(Len(s) - k) /\ k + (i - (k - 1)) = i + 1
      BY <1>6, <2>2
    <3>2. b[i - (k - 1)] = s[i + 1]
      BY <1>2, <3>1
    <3> QED
      BY <1>1, <1>2, <1>5, <1>6, <2>2, <3>2
  <2> QED
    BY <2>1, <2>2
<1> QED
  BY <1>3, <1>4, <1>7, <1>8

(* What else is known of a queue without repetitions, when it is shortened: *)
(* it has none either, and exactly the element taken out is missing.        *)
LEMMA RemoveAtFromDistinct ==
  ASSUME NEW T, NEW s \in Seq(T), Distinct(s), NEW k \in DOMAIN s
  PROVE  /\ RemoveAt(s, k) \in Seq(T) /\ Distinct(RemoveAt(s, k))
         /\ \A t : (\E i \in DOMAIN RemoveAt(s, k) : RemoveAt(s, k)[i] = t)
                     <=> t # s[k] /\ \E i \in DOMAIN s : s[i] = t
<1> DEFINE r == RemoveAt(s, k)
<1>1. /\ r \in Seq(T) /\ Len(r) = Len(s) - 1
      /\ \A i \in 1..(Len(s) - 1) : r[i] = IF i < k THEN s[i] ELSE s[i + 1]
  <2>1. k \in 1..Len(s)
    OBVIOUS
  <2> QED
    BY <2>1, RemoveAtProperties
<1> HIDE DEF r
<1>2. DOMAIN r = 1..(Len(s) - 1) /\ DOMAIN s = 1..Len(s) /\ Len(s) \in Nat
  BY <1>1
<1>3. \A i \in DOMAIN r :
        \E j \in DOMAIN s : r[i] = s[j] /\ j # k /\ j = IF i < k THEN i ELSE i + 1
  BY <1>1, <1>2
<1>4. Distinct(r)
  BY <1>2, <1>3 DEF Distinct
<1>5. \A i \in DOMAIN r : r[i] # s[k] /\ \E j \in DOMAIN s : s[j] = r[i]
  BY <1>3 DEF Distinct
<1>6. ASSUME NEW j \in DOMAIN s, j # k PROVE \E i \in DOMAIN r : r[i] = s[j]
  <2>1. CASE j < k
    BY <1>1, <1>2, <2>1
  <2>2. CASE j > k
    <3>1. j - 1 \in DOMAIN r /\ ~(j - 1 < k) /\ (j - 1) + 1 = j
      BY <1>2, <2>2
    <3> QED
      BY <1>1, <1>2, <3>1
  <2> QED
    BY <1>2, <1>6, <2>1, <2>2
<1> QED
  BY <1>1, <1>4, <1>5, <1>6 DEF r

(* SetToSeq lists a finite set, every element once.                         *)
LEMMA SetToSeqLists ==
  ASSUME NEW S, IsFiniteSet(S)
  PROVE  /\ SetToSeq(S) \in Seq(S) /\ Distinct(SetToSeq(S))
         /\ \A x \in S : \E i \in DOMAIN SetToSeq(S) : SetToSeq(S)[i] = x
<1> DEFINE N == 1..Cardinality(S)
           f == SetToSeq(S)
<1>1. Cardinality(S) \in Nat /\ ExistsBijection(N, S)
  BY FS_CardinalityType
<1>2. \E g \in [N -> S] : IsInjective(g)
  BY <1>1 DEF ExistsBijection, Bijection, Injection
<1>3. f \in [N -> S] /\ IsInjective(f)
  BY <1>2 DEF SetToSeq
<1>4. f \in Injection(N, S)
  BY <1>3 DEF Injection
<1>5. IsFiniteSet(N) /\ Cardinality(N) = Cardinality(S)
  BY <1>1, FS_Interval
<1>6. f \in Surjection(N, S)
  BY <1>4, <1>5, FS_Injection
<1> HIDE DEF f
<1>7. f \in Seq(S)
  BY <1>1, <1>3
<1>8. DOMAIN f = N
  BY <1>3
<1> QED
  BY <1>3, <1>6, <1>7, <1>8 DEF f, Surjection, IsInjective, Distinct
=============================================================================
