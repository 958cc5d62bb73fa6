----------------------------- MODULE ListLemmas -----------------------------
(***************************************************************************)
(* Lemmas about lists.                                                     *)
(***************************************************************************)
EXTENDS Lists, FiniteSets, FiniteSetTheorems, SequenceTheorems, TLAPS

\* An element of the list s.
Member(s, e) == \E k \in 1 .. Len(s) : s[k] = e

\* No element is on the list s twice.
Once(s) == \A j, k \in 1 .. Len(s) : s[j] = s[k] => j = k
-----------------------------------------------------------------------------

\* A sequence without its element at position i.
LEMMA WithoutFacts ==
  ASSUME NEW S, NEW s \in Seq(S), NEW i \in 1 .. Len(s)
  PROVE  /\ Without(s, i) \in Seq(S)
         /\ Len(Without(s, i)) = Len(s) - 1
         /\ \A k \in 1 .. Len(s) - 1 :
              Without(s, i)[k] = IF k < i THEN s[k] ELSE s[k + 1]
<1> DEFINE a == SubSeq(s, 1, i - 1)
           b == SubSeq(s, i + 1, Len(s))
           d == Without(s, i)
<1>1. a \in Seq(S) /\ b \in Seq(S)
  OBVIOUS
<1>2. Len(a) = i - 1 /\ Len(b) = Len(s) - i
  OBVIOUS
<1>3. \A k \in 1 .. i - 1 : a[k] = s[k]
  OBVIOUS
<1>4. \A k \in 1 .. Len(s) - i : b[k] = s[k + i]
  OBVIOUS
<1>5. Len(s) \in Nat
  OBVIOUS
<1>6. d = a \o b
  BY DEF Without
<1> HIDE DEF a, b, d
<1>7. d \in Seq(S)
  BY <1>1, <1>6
<1>8. Len(d) = Len(a) + Len(b)
  BY <1>1, <1>6
<1>9. \A k \in 1 .. Len(a) + Len(b) :
        d[k] = IF k <= Len(a) THEN a[k] ELSE b[k - Len(a)]
  BY <1>1, <1>6, ConcatProperties
<1>10. \A k \in 1 .. Len(s) - 1 : d[k] = IF k < i THEN s[k] ELSE s[k + 1]
  <2> TAKE k \in 1 .. Len(s) - 1
  <2>1. CASE k < i
    BY <1>2, <1>3, <1>5, <1>9, <2>1
  <2>2. CASE k >= i
    <3> DEFINE j == k - (i - 1)
    <3>1. d[k] = b[j]
      BY SMTT(30), <1>2, <1>5, <1>9, <2>2
    <3>2. j \in 1 .. Len(s) - i /\ j + i = k + 1
      BY <1>5, <2>2
    <3> HIDE DEF j
    <3>3. b[j] = s[j + i]
      BY <1>4, <3>2
    <3>4. b[j] = s[k + 1]
      BY <3>2, <3>3, Zenon
    <3> QED BY <2>2, <3>1, <3>4
  <2> QED BY <1>5, <2>1, <2>2
<1>11. Len(d) = Len(s) - 1
  BY <1>2, <1>5, <1>8
<1> QED BY <1>7, <1>10, <1>11 DEF d

\* A list without an element that it contains: the elements before it stay
\* where they are, those after it move up by one.
LEMMA ListDelFacts ==
  ASSUME NEW S, NEW s \in Seq(S), NEW e, \E k \in 1 .. Len(s) : s[k] = e
  PROVE  \E i \in 1 .. Len(s) :
           /\ s[i] = e
           /\ list_del(s, e) \in Seq(S)
           /\ Len(list_del(s, e)) = Len(s) - 1
           /\ \A k \in 1 .. Len(s) - 1 :
                list_del(s, e)[k] = IF k < i THEN s[k] ELSE s[k + 1]
<1> DEFINE i == CHOOSE k \in DOMAIN s : s[k] = e
<1>1. DOMAIN s = 1 .. Len(s)
  BY LenProperties
<1>2. i \in 1 .. Len(s) /\ s[i] = e
  BY <1>1, Zenon
<1>3. list_del(s, e) = Without(s, i)
  BY Zenon DEF list_del
<1> HIDE DEF i
<1> DEFINE d == Without(s, i)
<1>4. /\ d \in Seq(S)
      /\ Len(d) = Len(s) - 1
      /\ \A k \in 1 .. Len(s) - 1 : d[k] = IF k < i THEN s[k] ELSE s[k + 1]
  BY <1>2, WithoutFacts
<1> HIDE DEF d
<1>5. list_del(s, e) = d
  BY <1>3 DEF d
<1> QED BY <1>2, <1>4, <1>5

\* A list on which no element is twice has at most as many elements as there
\* are to choose from.
LEMMA OnceBound ==
  ASSUME NEW S, IsFiniteSet(S), NEW s \in Seq(S), Once(s)
  PROVE  Len(s) <= Cardinality(S)
<1> DEFINE n == Len(s)
<1>1. n \in Nat /\ s \in [1 .. n -> S]
  BY LenProperties, ElementOfSeq
<1>2. s \in Injection(1 .. n, S)
  BY <1>1, Zenon DEF Injection, IsInjective, Once
<1>3. Cardinality(1 .. n) <= Cardinality(S)
  BY <1>2, FS_Injection
<1>4. Cardinality(1 .. n) = n
  BY SMTT(30), <1>1, FS_Interval
<1> QED BY <1>3, <1>4

\* list_add_tail of an element that is not on the list.
LEMMA AppendOnce ==
  ASSUME NEW S, NEW s \in Seq(S), NEW e \in S, Once(s), ~Member(s, e)
  PROVE  /\ Once(Append(s, e))
         /\ \A x : Member(Append(s, e), x) <=> Member(s, x) \/ x = e
<1> DEFINE n == Len(s)
           d == Append(s, e)
<1>1. n \in Nat
  BY LenProperties
<1>2. /\ Len(d) = n + 1
      /\ \A k \in 1 .. n : d[k] = s[k]
      /\ d[n + 1] = e
  BY AppendProperties
<1>3. /\ \A j, k \in 1 .. n : s[j] = s[k] => j = k
      /\ \A k \in 1 .. n : s[k] # e
  BY DEF Once, Member
<1> HIDE DEF n, d
<1>4. Once(d)
  BY <1>1, <1>2, <1>3 DEF Once
<1>5. ASSUME NEW x PROVE Member(d, x) <=> Member(s, x) \/ x = e
  <2>1. Member(d, x) <=> \E k \in 1 .. n + 1 : d[k] = x
    BY <1>2 DEF Member
  <2>2. Member(s, x) <=> \E k \in 1 .. n : s[k] = x
    BY DEF Member, n
  <2> QED BY <1>1, <1>2, <2>1, <2>2
<1> QED BY <1>4, <1>5 DEF d

\* list_del of an element of the list.
LEMMA DelOnce ==
  ASSUME NEW S, NEW s \in Seq(S), NEW e, Once(s), Member(s, e)
  PROVE  /\ Once(list_del(s, e))
         /\ \A x : Member(list_del(s, e), x) <=> Member(s, x) /\ x # e
<1> DEFINE n == Len(s)
           d == list_del(s, e)
<1>1. n \in Nat
  BY LenProperties
<1>2. PICK i \in 1 .. n :
        /\ s[i] = e
        /\ Len(d) = n - 1
        /\ \A k \in 1 .. n - 1 : d[k] = IF k < i THEN s[k] ELSE s[k + 1]
  BY ListDelFacts DEF Member
<1>3. \A j, k \in 1 .. n : s[j] = s[k] => j = k
  BY DEF Once
<1> HIDE DEF n, d
<1>4. Once(d)
  BY SMTT(30), <1>1, <1>2, <1>3 DEF Once
<1>5. ASSUME NEW x PROVE Member(d, x) <=> Member(s, x) /\ x # e
  <2>1. Member(d, x) <=> \E k \in 1 .. n - 1 : d[k] = x
    BY <1>2 DEF Member
  <2>2. Member(s, x) <=> \E k \in 1 .. n : s[k] = x
    BY DEF Member, n
  <2>3. ASSUME NEW k \in 1 .. n - 1, d[k] = x PROVE Member(s, x) /\ x # e
    <3>1. PICK j \in 1 .. n : j # i /\ s[j] = x
      <4>1. CASE k < i
        BY SMTT(30), <1>1, <1>2, <2>3, <4>1
      <4>2. CASE ~(k < i)
        BY <1>1, <1>2, <2>3, <4>2
      <4> QED BY <4>1, <4>2
    <3>2. s[j] # e
      BY <1>2, <1>3, <3>1, Zenon
    <3> QED BY <2>2, <3>1, <3>2, Zenon
  <2>4. ASSUME NEW k \in 1 .. n, s[k] = x, x # e PROVE Member(d, x)
    <3>1. CASE k < i
      BY SMTT(30), <1>1, <1>2, <2>1, <2>4, <3>1
    <3>2. CASE k > i
      <4>1. k - 1 \in 1 .. n - 1 /\ d[k - 1] = x
        BY SMTT(30), <1>1, <1>2, <2>4, <3>2
      <4> QED BY <2>1, <4>1
    <3> QED BY <1>1, <1>2, <2>4, <3>1, <3>2
  <2> QED BY <2>1, <2>2, <2>3, <2>4
<1> QED BY <1>4, <1>5 DEF d

\* list_del of the first element of a list.
LEMMA TailOnce ==
  ASSUME NEW S, NEW s \in Seq(S), s # << >>, Once(s)
  PROVE  /\ Once(Tail(s))
         /\ \A x : Member(Tail(s), x) <=> Member(s, x) /\ x # Head(s)
<1> DEFINE n == Len(s)
           d == Tail(s)
           h == Head(s)
<1>1. n \in Nat /\ n > 0
  BY LenProperties, EmptySeq
<1>2. Len(d) = n - 1 /\ \A k \in 1 .. n - 1 : d[k] = s[k + 1]
  BY HeadTailProperties
<1>3. h = s[1]
  OBVIOUS
<1>4. \A j, k \in 1 .. n : s[j] = s[k] => j = k
  BY DEF Once
<1> HIDE DEF n, d, h
<1>5. Once(d)
  BY SMTT(30), <1>1, <1>2, <1>4 DEF Once
<1>6. ASSUME NEW x PROVE Member(d, x) <=> Member(s, x) /\ x # h
  <2>1. Member(d, x) <=> \E k \in 1 .. n - 1 : d[k] = x
    BY <1>2 DEF Member
  <2>2. Member(s, x) <=> \E k \in 1 .. n : s[k] = x
    BY DEF Member, n
  <2>3. ASSUME NEW k \in 1 .. n - 1, d[k] = x PROVE Member(s, x) /\ x # h
    BY SMTT(30), <1>1, <1>2, <1>3, <1>4, <2>2, <2>3
  <2>4. ASSUME NEW k \in 1 .. n, s[k] = x, x # h PROVE Member(d, x)
    <3>1. k - 1 \in 1 .. n - 1 /\ d[k - 1] = x
      BY <1>1, <1>2, <1>3, <2>4
    <3> QED BY <2>1, <3>1
  <2> QED BY <2>1, <2>2, <2>3, <2>4
<1> QED BY <1>5, <1>6 DEF d, h
=============================================================================
