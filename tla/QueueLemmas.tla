------------------------------ MODULE QueueLemmas ------------------------------
(***************************************************************************)
(* What appending, taking the first element and joining do to the content  *)
(* of a queue, for the proofs about the two hubs.                          *)
(***************************************************************************)
EXTENDS Queues, SequenceTheorems, FiniteSetTheorems, FunctionTheorems, TLAPS

LEMMA Wider ==
  ASSUME NEW S, NEW T, S \subseteq T, NEW s \in Seq(S)
  PROVE  s \in Seq(T)
<1>1. s \in [1..Len(s) -> S] /\ Len(s) \in Nat
  BY LenProperties
<1>2. s \in [1..Len(s) -> T]
  BY <1>1
<1>3. QED BY <1>1, <1>2, SeqDef

\* A queue that is not empty, without its first element.
LEMMA LongTail ==
  ASSUME NEW S, NEW s \in Seq(S), s # <<>>
  PROVE  /\ Head(s) \in S /\ Tail(s) \in Seq(S) /\ Len(Tail(s)) = Len(s) - 1
         /\ Len(s) \in Nat /\ Len(s) > 0
         /\ Len(s) > 1 => Tail(s) # <<>>
<1>1. Head(s) \in S /\ Tail(s) \in Seq(S) /\ Len(Tail(s)) = Len(s) - 1
  BY HeadTailProperties
<1>2. Len(s) \in Nat /\ Len(s) # 0
  BY EmptySeq, LenProperties
<1>3. Tail(s) = <<>> => Len(Tail(s)) = 0
  BY <1>1, EmptySeq
<1>4. QED BY <1>1, <1>2, <1>3

LEMMA RanAppend ==
  ASSUME NEW S, NEW s \in Seq(S), NEW x \in S
  PROVE  Ran(Append(s, x)) = Ran(s) \cup {x}
<1>1. /\ Len(Append(s, x)) = Len(s) + 1 /\ Len(s) \in Nat
      /\ \A i \in 1..Len(s) : Append(s, x)[i] = s[i]
      /\ Append(s, x)[Len(s) + 1] = x
  BY AppendProperties, LenProperties
<1>2. \A i \in 1..(Len(s) + 1) : i \in 1..Len(s) \/ i = Len(s) + 1
  BY <1>1
<1>3. /\ \A i \in 1..Len(s) : i \in 1..(Len(s) + 1)
      /\ Len(s) + 1 \in 1..(Len(s) + 1)
  BY <1>1
<1>4. QED BY <1>1, <1>2, <1>3 DEF Ran

LEMMA RanTail ==
  ASSUME NEW S, NEW s \in Seq(S), s # <<>>
  PROVE  Ran(s) = {Head(s)} \cup Ran(Tail(s))
<1>1. /\ Len(Tail(s)) = Len(s) - 1 /\ Len(s) \in Nat /\ Len(s) > 0 /\ Head(s) = s[1]
      /\ \A i \in 1..Len(Tail(s)) : Tail(s)[i] = s[i + 1]
  BY LongTail, HeadTailProperties
<1>2. ASSUME NEW i \in 1..Len(s) PROVE s[i] \in {Head(s)} \cup Ran(Tail(s))
  <2>1. CASE i = 1
    BY <1>1, <2>1
  <2>2. CASE i # 1
    <3>1. i - 1 \in 1..Len(Tail(s)) /\ (i - 1) + 1 = i
      BY <1>1, <2>2
    <3>2. Tail(s)[i - 1] = s[i]
      BY <1>1, <3>1
    <3>3. QED BY <3>1, <3>2 DEF Ran
  <2>3. QED BY <2>1, <2>2
<1>3. ASSUME NEW i \in 1..Len(Tail(s)) PROVE Tail(s)[i] \in Ran(s)
  <2>1. i + 1 \in 1..Len(s) /\ Tail(s)[i] = s[i + 1]
    BY <1>1
  <2>2. QED BY <2>1 DEF Ran
<1>4. 1 \in 1..Len(s) /\ s[1] = Head(s)
  BY <1>1
<1>5. QED BY <1>2, <1>3, <1>4 DEF Ran

LEMMA RanConcat ==
  ASSUME NEW S, NEW s \in Seq(S), NEW t \in Seq(S)
  PROVE  Ran(s \o t) = Ran(s) \cup Ran(t)
<1>1. /\ Len(s \o t) = Len(s) + Len(t) /\ Len(s) \in Nat /\ Len(t) \in Nat
      /\ \A i \in 1..(Len(s) + Len(t)) : (s \o t)[i] = IF i <= Len(s) THEN s[i] ELSE t[i - Len(s)]
  BY ConcatProperties, LenProperties
<1>2. ASSUME NEW i \in 1..(Len(s) + Len(t)) PROVE (s \o t)[i] \in Ran(s) \cup Ran(t)
  <2>1. CASE i <= Len(s)
    <3>1. i \in 1..Len(s) /\ (s \o t)[i] = s[i]
      BY <1>1, <2>1
    <3>2. QED BY <3>1 DEF Ran
  <2>2. CASE ~ (i <= Len(s))
    <3>1. i - Len(s) \in 1..Len(t) /\ (s \o t)[i] = t[i - Len(s)]
      BY <1>1, <2>2
    <3>2. QED BY <3>1 DEF Ran
  <2>3. QED BY <2>1, <2>2
<1>3. ASSUME NEW i \in 1..Len(s) PROVE i \in 1..(Len(s) + Len(t)) /\ (s \o t)[i] = s[i]
  BY <1>1
<1>4. ASSUME NEW i \in 1..Len(t)
      PROVE  Len(s) + i \in 1..(Len(s) + Len(t)) /\ (s \o t)[Len(s) + i] = t[i]
  <2>1. Len(s) + i \in 1..(Len(s) + Len(t)) /\ ~ (Len(s) + i <= Len(s)) /\ (Len(s) + i) - Len(s) = i
    BY <1>1
  <2>2. QED BY <1>1, <2>1
<1>5. QED BY <1>1, <1>2, <1>3, <1>4 DEF Ran

\* Where nothing is twice, the first element is not met again.
LEMMA NoDupTail ==
  ASSUME NEW S, NEW s \in Seq(S), s # <<>>, NoDup(s)
  PROVE  NoDup(Tail(s)) /\ Head(s) \notin Ran(Tail(s))
<1>1. /\ Len(Tail(s)) = Len(s) - 1 /\ Len(s) \in Nat /\ Len(s) > 0 /\ Head(s) = s[1]
      /\ \A i \in 1..Len(Tail(s)) : Tail(s)[i] = s[i + 1]
  BY LongTail, HeadTailProperties
<1>2. \A i \in 1..Len(Tail(s)) : i \in Nat /\ i + 1 \in 1..Len(s) /\ Tail(s)[i] = s[i + 1] /\ 1 # i + 1
  BY <1>1
<1>3. 1 \in 1..Len(s)
  BY <1>1
<1>4. NoDup(Tail(s))
  <2> SUFFICES ASSUME NEW i \in 1..Len(Tail(s)), NEW j \in 1..Len(Tail(s)), Tail(s)[i] = Tail(s)[j]
               PROVE  i = j
    BY DEF NoDup
  <2>1. i + 1 = j + 1
    BY <1>2 DEF NoDup
  <2>2. QED BY <1>2, <2>1
<1>5. ASSUME NEW i \in 1..Len(Tail(s)) PROVE Tail(s)[i] # s[1]
  BY <1>2, <1>3 DEF NoDup
<1>6. QED BY <1>1, <1>4, <1>5 DEF Ran
-----------------------------------------------------------------------------
(* How often a queue holds an element of P                                   *)

Where(q, P) == {i \in 1..Len(q) : q[i] \in P}
Count(q, P) == Cardinality(Where(q, P))

LEMMA CountType ==
  ASSUME NEW S, NEW s \in Seq(S), NEW P
  PROVE  IsFiniteSet(Where(s, P)) /\ Count(s, P) \in Nat
<1>1. Len(s) \in Nat
  BY LenProperties
<1>2. IsFiniteSet(1..Len(s)) /\ Where(s, P) \in SUBSET (1..Len(s))
  BY <1>1, FS_Interval DEF Where
<1>3. IsFiniteSet(Where(s, P))
  BY <1>2, FS_Subset
<1>4. QED BY <1>3, FS_CardinalityType DEF Count

LEMMA CountEmpty == \A P : Count(<<>>, P) = 0
<1> TAKE P
<1>1. Where(<<>>, P) = {}
  BY DEF Where
<1>2. QED BY <1>1, FS_EmptySet DEF Count

LEMMA CountNone ==
  ASSUME NEW S, NEW s \in Seq(S), NEW P
  PROVE  Count(s, P) = 0 <=> \A x \in Ran(s) : x \notin P
<1>1. Count(s, P) = 0 <=> Where(s, P) = {}
  BY CountType, FS_EmptySet DEF Count
<1>2. QED BY <1>1 DEF Where, Ran

LEMMA CountAppend ==
  ASSUME NEW S, NEW s \in Seq(S), NEW x \in S, NEW P
  PROVE  Count(Append(s, x), P) = Count(s, P) + (IF x \in P THEN 1 ELSE 0)
<1>1. /\ Len(Append(s, x)) = Len(s) + 1 /\ Len(s) \in Nat
      /\ \A i \in 1..Len(s) : Append(s, x)[i] = s[i]
      /\ Append(s, x)[Len(s) + 1] = x
  BY AppendProperties, LenProperties
<1>2. IsFiniteSet(Where(s, P)) /\ Count(s, P) \in Nat
  BY CountType
<1>3. \A i \in 1..(Len(s) + 1) : i \in 1..Len(s) \/ i = Len(s) + 1
  BY <1>1
<1>4. /\ \A i \in 1..Len(s) : i \in 1..(Len(s) + 1)
      /\ Len(s) + 1 \in 1..(Len(s) + 1) /\ Len(s) + 1 \notin 1..Len(s)
  BY <1>1
<1>5. CASE x \in P
  <2>1. Where(Append(s, x), P) = Where(s, P) \cup {Len(s) + 1} /\ Len(s) + 1 \notin Where(s, P)
    BY <1>1, <1>3, <1>4, <1>5 DEF Where
  <2>2. QED BY <1>2, <1>5, <2>1, FS_AddElement DEF Count
<1>6. CASE x \notin P
  <2>1. Where(Append(s, x), P) = Where(s, P)
    BY <1>1, <1>3, <1>4, <1>6 DEF Where
  <2>2. QED BY <1>2, <1>6, <2>1 DEF Count
<1>7. QED BY <1>5, <1>6

LEMMA CountTail ==
  ASSUME NEW S, NEW s \in Seq(S), s # <<>>, NEW P
  PROVE  Count(s, P) = Count(Tail(s), P) + (IF Head(s) \in P THEN 1 ELSE 0)
<1> DEFINE W == Where(Tail(s), P)
           V == {i + 1 : i \in W}
           f == [i \in W |-> i + 1]
<1>1. /\ Len(Tail(s)) = Len(s) - 1 /\ Len(s) \in Nat /\ Len(s) > 0 /\ Head(s) = s[1]
      /\ \A i \in 1..Len(Tail(s)) : Tail(s)[i] = s[i + 1]
      /\ Tail(s) \in Seq(S)
  BY LongTail, HeadTailProperties
<1>2. IsFiniteSet(W) /\ Count(Tail(s), P) \in Nat /\ W \subseteq Nat
  <2>1. IsFiniteSet(W) /\ Count(Tail(s), P) \in Nat
    <3>1. Tail(s) \in Seq(S)
      BY <1>1
    <3>2. QED BY <3>1, CountType
  <2>2. W \subseteq Nat
    BY DEF Where
  <2>3. QED BY <2>1, <2>2
<1>3. f \in Bijection(W, V)
  <2>1. f \in [W -> V] /\ \A t \in V : \E i \in W : f[i] = t
    OBVIOUS
  <2>2. \A a, b \in W : f[a] = f[b] => a = b
    BY <1>2
  <2> HIDE DEF f, V, W
  <2>3. QED BY <2>1, <2>2, Fun_IsBij
<1>4. IsFiniteSet(V) /\ Cardinality(V) = Count(Tail(s), P)
  <2>1. ExistsBijection(W, V)
    BY <1>3 DEF ExistsBijection
  <2> HIDE DEF V
  <2>2. IsFiniteSet(V) /\ Cardinality(V) = Cardinality(W)
    BY <1>2, <2>1, FS_Bijection
  <2>3. QED BY <2>2 DEF Count
<1>5. 1 \notin V
  BY <1>1 DEF Where
<1>6. \A i \in 1..Len(s) : i = 1 \/ (i - 1 \in 1..Len(Tail(s)) /\ i = (i - 1) + 1)
  BY <1>1
<1>7. /\ \A i \in 1..Len(Tail(s)) : i + 1 \in 1..Len(s) /\ i + 1 # 1
      /\ 1 \in 1..Len(s)
  BY <1>1
<1>8. Where(s, P) \ {1} = V
  <2>1. ASSUME NEW i \in Where(s, P), i # 1 PROVE i \in V
    <3>1. i \in 1..Len(s) /\ s[i] \in P
      BY <2>1 DEF Where
    <3>2. i - 1 \in 1..Len(Tail(s)) /\ i = (i - 1) + 1
      BY <1>6, <2>1, <3>1
    <3>3. Tail(s)[i - 1] = s[i]
      BY <1>1, <3>2
    <3>4. i - 1 \in W
      BY <3>1, <3>2, <3>3 DEF Where
    <3>5. QED BY <3>2, <3>4
  <2>2. ASSUME NEW i \in W PROVE i + 1 \in Where(s, P) \ {1}
    BY <1>1, <1>7 DEF Where
  <2>3. QED BY <2>1, <2>2
<1> HIDE DEF V, W, f
<1>9. CASE Head(s) \in P
  <2>1. Where(s, P) = V \cup {1}
    <3>1. 1 \in Where(s, P)
      BY <1>1, <1>7, <1>9 DEF Where
    <3>2. QED BY <1>8, <3>1
  <2>2. Cardinality(V \cup {1}) = Cardinality(V) + 1
    BY <1>4, <1>5, FS_AddElement
  <2>3. QED BY <1>4, <1>9, <2>1, <2>2 DEF Count
<1>10. CASE Head(s) \notin P
  <2>1. 1 \notin Where(s, P)
    BY <1>1, <1>10 DEF Where
  <2>2. Where(s, P) = V
    BY <1>8, <2>1
  <2>3. QED BY <1>2, <1>4, <1>10, <2>2 DEF Count
<1>11. QED BY <1>9, <1>10

\* What is counted once is at one place.
LEMMA CountOnce ==
  ASSUME NEW S, NEW s \in Seq(S), NEW P, Count(s, P) <= 1,
         NEW i \in 1..Len(s), NEW j \in 1..Len(s), s[i] \in P, s[j] \in P
  PROVE  i = j
<1>1. SUFFICES ASSUME i # j PROVE FALSE
  OBVIOUS
<1>2. IsFiniteSet(Where(s, P)) /\ Count(s, P) \in Nat /\ {i, j} \in SUBSET Where(s, P)
  BY CountType DEF Where
<1>3. Cardinality({i}) = 1 /\ IsFiniteSet({i})
  BY FS_Singleton
<1>4. Cardinality({i} \cup {j}) = 2
  <2>1. j \notin {i}
    BY <1>1
  <2>2. Cardinality({i} \cup {j}) = 1 + 1
    BY <1>3, <2>1, FS_AddElement, Zenon
  <2>3. QED BY <2>2
<1>5. {i} \cup {j} = {i, j}
  OBVIOUS
<1>6. Cardinality({i, j}) <= Cardinality(Where(s, P))
  BY <1>2, FS_Subset
<1>7. QED BY <1>2, <1>4, <1>5, <1>6 DEF Count
=============================================================================
