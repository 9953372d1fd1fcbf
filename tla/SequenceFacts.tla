---------------------------- MODULE SequenceFacts ----------------------------
(***************************************************************************)
(* Facts about sequences and sets of numbers that the proofs about more    *)
(* than one component need.                                                *)
(***************************************************************************)
EXTENDS Enumeration, SequencesExt, SequenceTheorems, FiniteSetTheorems,
        WellFoundedInduction, TLAPS

(***************************************************************************)
(* Sequences.                                                              *)
(***************************************************************************)
\* The elements of a sequence.
LEMMA SeqFacts ==
  ASSUME NEW S, NEW s \in Seq(S)
  PROVE  /\ Len(s) \in Nat /\ DOMAIN s = 1 .. Len(s)
         /\ \A i \in 1 .. Len(s) : s[i] \in S
         /\ s # <<>> => Len(s) >= 1
         /\ s = <<>> => Len(s) = 0
<1>1. Len(s) \in Nat /\ DOMAIN s = 1 .. Len(s)
  BY LenProperties
<1>2. \A i \in 1 .. Len(s) : s[i] \in S
  BY ElementOfSeq
<1>3. QED
  BY <1>1, <1>2, EmptySeq

\* A sequence with one more element at the end.
LEMMA AppendFacts ==
  ASSUME NEW S, NEW s \in Seq(S), NEW x \in S
  PROVE  /\ Append(s, x) \in Seq(S)
         /\ Len(Append(s, x)) = Len(s) + 1
         /\ \A i \in 1 .. Len(s) : Append(s, x)[i] = s[i]
         /\ Append(s, x)[Len(s) + 1] = x
         /\ \A i \in 1 .. Len(Append(s, x)) : i \in 1 .. Len(s) \/ i = Len(s) + 1
<1>1. Len(s) \in Nat
  BY LenProperties
<1>2. QED
  BY <1>1, AppendProperties

\* A sequence without its head.
LEMMA TailFacts ==
  ASSUME NEW S, NEW s \in Seq(S), s # <<>>
  PROVE  /\ Tail(s) \in Seq(S)
         /\ Len(s) \in Nat /\ Len(s) >= 1
         /\ Len(Tail(s)) = Len(s) - 1
         /\ Head(s) = s[1] /\ s[1] \in S
         /\ \A i \in 1 .. Len(Tail(s)) : i + 1 \in 1 .. Len(s) /\ Tail(s)[i] = s[i + 1]
         /\ \A i \in 1 .. Len(s) : i = 1 \/ i - 1 \in 1 .. Len(Tail(s))
<1>1. Len(s) \in Nat /\ Len(s) # 0
  BY LenProperties, EmptySeq
<1>2. 1 \in 1 .. Len(s)
  BY <1>1
<1>3. s[1] \in S
  BY <1>2, ElementOfSeq
<1>4. QED
  BY <1>1, <1>3, HeadTailProperties

\* Two sequences, one after the other.
LEMMA ConcatFacts ==
  ASSUME NEW S, NEW s \in Seq(S), NEW t \in Seq(S)
  PROVE  /\ s \o t \in Seq(S)
         /\ Len(s \o t) = Len(s) + Len(t)
         /\ \A i \in 1 .. Len(s) : i \in 1 .. Len(s \o t) /\ (s \o t)[i] = s[i]
         /\ \A i \in 1 .. Len(t) : /\ Len(s) + i \in 1 .. Len(s \o t)
                                   /\ (s \o t)[Len(s) + i] = t[i]
         /\ \A i \in 1 .. Len(s \o t) : i \in 1 .. Len(s) \/ i - Len(s) \in 1 .. Len(t)
<1>1. Len(s) \in Nat /\ Len(t) \in Nat
  BY LenProperties
<1>2. /\ s \o t \in Seq(S)
      /\ Len(s \o t) = Len(s) + Len(t)
      /\ \A i \in 1 .. Len(s) + Len(t) :
           (s \o t)[i] = IF i <= Len(s) THEN s[i] ELSE t[i - Len(s)]
  BY ConcatProperties
<1>3. \A i \in 1 .. Len(s) : i \in 1 .. Len(s) + Len(t) /\ i <= Len(s)
  BY <1>1
<1>4. \A i \in 1 .. Len(t) : /\ Len(s) + i \in 1 .. Len(s) + Len(t)
                             /\ ~ (Len(s) + i <= Len(s)) /\ (Len(s) + i) - Len(s) = i
  BY <1>1
<1>5. \A i \in 1 .. Len(s) + Len(t) : i \in 1 .. Len(s) \/ i - Len(s) \in 1 .. Len(t)
  BY <1>1
<1>6. QED
  BY <1>2, <1>3, <1>4, <1>5

\* A function on an initial part of the numbers is a sequence.
LEMMA FunctionIsSeq ==
  ASSUME NEW S, NEW n \in Nat, NEW s \in [1 .. n -> S]
  PROVE  s \in Seq(S) /\ Len(s) = n
<1>1. s \in Seq(S)
  BY SeqDef
<1>2. Len(s) \in Nat /\ DOMAIN s = 1 .. Len(s)
  BY <1>1, LenProperties
<1>3. 1 .. Len(s) = 1 .. n
  BY <1>2
<1>4. QED
  BY <1>1, <1>2, <1>3

\* A sequence without one of its elements.
LEMMA RemoveAtFacts ==
  ASSUME NEW S, NEW s \in Seq(S), NEW n \in 1 .. Len(s)
  PROVE  /\ RemoveAt(s, n) \in Seq(S)
         /\ Len(RemoveAt(s, n)) = Len(s) - 1
         /\ \A i \in 1 .. Len(s) - 1 :
              RemoveAt(s, n)[i] = IF i < n THEN s[i] ELSE s[i + 1]
<1> DEFINE a == SubSeq(s, 1, n - 1)
           b == SubSeq(s, n + 1, Len(s))
<1>1. Len(s) \in Nat /\ n \in Nat /\ n >= 1 /\ n <= Len(s)
  BY LenProperties
<1>2. \A i \in 1 .. Len(s) : s[i] \in S
  BY ElementOfSeq
<1>3. /\ a \in Seq(S) /\ Len(a) = n - 1
      /\ \A i \in 1 .. n - 1 : a[i] = s[i]
  <2>1. 1 \in Int /\ n - 1 \in Int /\ \A i \in 1 .. n - 1 : s[i] \in S
    BY <1>1, <1>2
  <2>2. /\ a \in Seq(S)
        /\ Len(a) = IF 1 <= n - 1 THEN (n - 1) - 1 + 1 ELSE 0
        /\ \A i \in 1 .. (n - 1) - 1 + 1 : a[i] = s[1 + i - 1]
    BY <2>1, SubSeqProperties
  <2> HIDE DEF a
  <2>3. Len(a) = n - 1
    BY <1>1, <2>2
  <2>4. \A i \in 1 .. n - 1 : i \in 1 .. (n - 1) - 1 + 1 /\ 1 + i - 1 = i
    BY <1>1
  <2>5. QED
    BY <2>2, <2>3, <2>4
<1>4. /\ b \in Seq(S) /\ Len(b) = Len(s) - n
      /\ \A i \in 1 .. Len(s) - n : b[i] = s[n + i]
  <2>1. n + 1 \in Int /\ Len(s) \in Int /\ \A i \in n + 1 .. Len(s) : s[i] \in S
    BY <1>1, <1>2
  <2>2. /\ b \in Seq(S)
        /\ Len(b) = IF n + 1 <= Len(s) THEN Len(s) - (n + 1) + 1 ELSE 0
        /\ \A i \in 1 .. Len(s) - (n + 1) + 1 : b[i] = s[(n + 1) + i - 1]
    BY <2>1, SubSeqProperties
  <2> HIDE DEF b
  <2>3. (IF n + 1 <= Len(s) THEN Len(s) - (n + 1) + 1 ELSE 0) = Len(s) - n
    BY <1>1
  <2>4. Len(b) = Len(s) - n
    BY <2>2, <2>3
  <2>5. \A i \in 1 .. Len(s) - n : i \in 1 .. Len(s) - (n + 1) + 1 /\ (n + 1) + i - 1 = n + i
    BY <1>1
  <2>6. QED
    BY <2>2, <2>4, <2>5
<1> HIDE DEF a, b
<1>5. /\ a \o b \in Seq(S)
      /\ Len(a \o b) = Len(a) + Len(b)
      /\ \A i \in 1 .. Len(a) + Len(b) :
           (a \o b)[i] = IF i <= Len(a) THEN a[i] ELSE b[i - Len(a)]
  BY <1>3, <1>4, ConcatProperties
<1>6. Len(a) + Len(b) = Len(s) - 1
  BY <1>1, <1>3, <1>4
<1>7. ASSUME NEW i \in 1 .. Len(s) - 1
      PROVE  (a \o b)[i] = IF i < n THEN s[i] ELSE s[i + 1]
  <2>1. CASE i < n
    <3>1. i \in 1 .. n - 1 /\ i <= Len(a)
      BY <1>1, <1>3, <2>1
    <3>2. QED
      BY <1>3, <1>5, <1>6, <2>1, <3>1
  <2>2. CASE ~ (i < n)
    <3>1. /\ ~ (i <= Len(a)) /\ i - Len(a) \in 1 .. Len(s) - n
          /\ n + (i - Len(a)) = i + 1
      BY <1>1, <1>3, <2>2
    <3>2. QED
      BY <1>4, <1>5, <1>6, <2>2, <3>1
  <2>3. QED
    BY <2>1, <2>2
<1>8. RemoveAt(s, n) = a \o b
  BY DEF RemoveAt, a, b
<1>9. QED
  BY <1>5, <1>6, <1>7, <1>8

\* t is what s has but at n, each as often as it stood elsewhere.
Lacks(t, s, n) ==
  /\ \A i \in 1 .. Len(t) : \E k \in 1 .. Len(s) : k # n /\ t[i] = s[k]
  /\ \A k \in 1 .. Len(s) : k # n => \E i \in 1 .. Len(t) : t[i] = s[k]
  /\ (\A i, j \in 1 .. Len(s) : s[i] = s[j] => i = j)
       => \A i, j \in 1 .. Len(t) : t[i] = t[j] => i = j

\* What is left without one element.
LEMMA RemoveAtMembers ==
  ASSUME NEW S, NEW s \in Seq(S), NEW n \in 1 .. Len(s)
  PROVE  Lacks(RemoveAt(s, n), s, n)
<1> DEFINE t == RemoveAt(s, n)
<1>1. /\ Len(s) \in Nat /\ n \in Nat /\ Len(t) = Len(s) - 1
      /\ \A i \in 1 .. Len(s) - 1 : t[i] = IF i < n THEN s[i] ELSE s[i + 1]
  BY RemoveAtFacts, LenProperties
<1> HIDE DEF t
<1>2. ASSUME NEW i \in 1 .. Len(t)
      PROVE  \/ i < n /\ i \in 1 .. Len(s) /\ t[i] = s[i]
             \/ ~ (i < n) /\ i + 1 \in 1 .. Len(s) /\ i + 1 # n /\ t[i] = s[i + 1]
  <2>1. i \in 1 .. Len(s) - 1
    BY <1>1
  <2>2. CASE i < n
    BY <1>1, <2>1, <2>2
  <2>3. CASE ~ (i < n)
    <3>1. i + 1 \in 1 .. Len(s) /\ i + 1 # n
      BY <1>1, <2>1, <2>3
    <3>2. QED
      BY <1>1, <2>1, <2>3, <3>1
  <2>4. QED
    BY <2>2, <2>3
<1>3. \A i \in 1 .. Len(t) : \E k \in 1 .. Len(s) : k # n /\ t[i] = s[k]
  <2>1. ASSUME NEW i \in 1 .. Len(t)
        PROVE  \E k \in 1 .. Len(s) : k # n /\ t[i] = s[k]
    <3>1. CASE i < n
      <4>1. i \in 1 .. Len(s) /\ t[i] = s[i] /\ i # n
        BY <1>1, <1>2, <3>1
      <4>2. QED
        BY <4>1
    <3>2. CASE ~ (i < n)
      <4>1. i + 1 \in 1 .. Len(s) /\ t[i] = s[i + 1] /\ i + 1 # n
        BY <1>2, <3>2
      <4>2. QED
        BY <4>1
    <3>3. QED
      BY <3>1, <3>2
  <2>2. QED
    BY <2>1
<1>4. ASSUME NEW k \in 1 .. Len(s), k # n
      PROVE  \E i \in 1 .. Len(t) : t[i] = s[k]
  <2>1. CASE k < n
    <3>1. k \in 1 .. Len(t) /\ t[k] = s[k]
      BY <1>1, <2>1
    <3>2. QED
      BY <3>1
  <2>2. CASE ~ (k < n)
    <3>1. k - 1 \in 1 .. Len(s) - 1 /\ ~ (k - 1 < n) /\ (k - 1) + 1 = k
      BY <1>1, <1>4, <2>2
    <3>2. k - 1 \in 1 .. Len(t) /\ t[k - 1] = s[k]
      BY <1>1, <3>1
    <3>3. QED
      BY <3>2
  <2>3. QED
    BY <2>1, <2>2
<1>5. ASSUME \A i, j \in 1 .. Len(s) : s[i] = s[j] => i = j,
             NEW i \in 1 .. Len(t), NEW j \in 1 .. Len(t), t[i] = t[j]
      PROVE  i = j
  <2>1. i \in Nat /\ j \in Nat
    BY <1>1
  <2>2. CASE i < n /\ j < n
    BY <1>2, <1>5, <2>2
  <2>3. CASE ~ (i < n) /\ ~ (j < n)
    <3>1. i + 1 = j + 1
      BY <1>2, <1>5, <2>3
    <3>2. QED
      BY <2>1, <3>1
  <2>4. CASE i < n /\ ~ (j < n)
    <3>1. i = j + 1
      BY <1>2, <1>5, <2>4
    <3>2. QED
      BY <1>1, <2>1, <2>4, <3>1
  <2>5. CASE ~ (i < n) /\ j < n
    <3>1. i + 1 = j
      BY <1>2, <1>5, <2>5
    <3>2. QED
      BY <1>1, <2>1, <2>5, <3>1
  <2>6. QED
    BY <2>2, <2>3, <2>4, <2>5
<1>6. Lacks(t, s, n)
  BY <1>3, <1>4, <1>5 DEF Lacks
<1>7. QED
  BY <1>6 DEF t

(***************************************************************************)
(* Sets of numbers.                                                        *)
(***************************************************************************)
\* A set of natural numbers that is not empty has a least member.
LEMMA LeastMember ==
  ASSUME NEW S \in SUBSET Nat, S # {}
  PROVE  \E n \in S : \A m \in S : ~ (m < n)
<1> DEFINE R == OpToRel(<, Nat)
<1>1. \A x, y \in Nat : x < y => <<x, y>> \in R
  BY Zenon DEF OpToRel
<1>2. IsWellFoundedOn(R, Nat)
  BY NatLessThanWellFounded
<1> HIDE DEF R
<1>3. PICK n \in S : \A m \in S : ~ (<<m, n>> \in R)
  BY <1>2, WFMin, Zenon
<1>4. \A m \in S : ~ (m < n)
  <2>1. n \in Nat /\ \A m \in S : m \in Nat
    OBVIOUS
  <2>2. QED
    BY <1>1, <1>3, <2>1, Zenon
<1>5. QED
  BY <1>4

\* The least member.
LEMMA FirstOfFacts ==
  ASSUME NEW S \in SUBSET Nat, S # {}
  PROVE  FirstOf(S) \in S /\ \A j \in S : FirstOf(S) <= j
<1>1. PICK n \in S : \A m \in S : ~ (m < n)
  BY LeastMember
<1>2. n \in Nat /\ \A m \in S : m \in Nat
  OBVIOUS
<1>3. \A m \in S : n <= m
  BY <1>1, <1>2
<1>4. QED
  BY <1>3 DEF FirstOf

\* A set of numbers in ascending order: each of its members once.
LEMMA InOrderFacts ==
  ASSUME NEW S \in SUBSET Nat, IsFiniteSet(S)
  PROVE  /\ Cardinality(S) \in Nat
         /\ InOrder(S) \in [1 .. Cardinality(S) -> S]
         /\ \A i, j \in 1 .. Cardinality(S) : i < j => InOrder(S)[i] < InOrder(S)[j]
<1> DEFINE n == Cardinality(S)
           Below(x) == {y \in S : y <= x}
           r == [x \in S |-> Cardinality(Below(x))]
<1>0. \A x, y \in S : /\ x \in Nat /\ y \in Nat
                      /\ x < y \/ x = y \/ y < x
  OBVIOUS
<1>1. n \in Nat
  BY FS_CardinalityType
<1>2. ASSUME NEW x \in S
      PROVE  /\ IsFiniteSet(Below(x)) /\ r[x] \in Nat /\ r[x] <= n /\ r[x] # 0
             /\ r[x] = Cardinality(Below(x))
  <2>1. Below(x) \in SUBSET S
    OBVIOUS
  <2>2. IsFiniteSet(Below(x)) /\ Cardinality(Below(x)) <= n
    BY <2>1, FS_Subset
  <2>3. Cardinality(Below(x)) \in Nat
    BY <2>2, FS_CardinalityType
  <2>4. x \in Below(x)
    OBVIOUS
  <2>5. Cardinality(Below(x)) # 0
    BY <2>2, <2>4, FS_EmptySet
  <2>6. QED
    BY <2>2, <2>3, <2>5
<1>3. ASSUME NEW x \in S, NEW y \in S, x < y
      PROVE  r[x] < r[y]
  <2>1. (\A z \in S : z <= x => z <= y) /\ y <= y /\ ~ (y <= x)
    BY <1>3, <1>0
  <2>2. /\ Below(x) \in SUBSET Below(y)
        /\ y \in Below(y) /\ y \notin Below(x)
    BY <2>1
  <2> HIDE DEF Below
  <2>3. /\ Cardinality(Below(x)) <= Cardinality(Below(y))
        /\ Cardinality(Below(x)) # Cardinality(Below(y))
    BY <1>2, <2>2, FS_Subset
  <2>4. QED
    BY <1>2, <2>3
<1>4. r \in Injection(S, 1 .. n)
  <2>1. r \in [S -> 1 .. n]
    BY <1>1, <1>2
  <2>2. \A x, y \in S : x # y => x < y \/ y < x
    OBVIOUS
  <2>3. \A x, y \in S : r[x] = r[y] => x = y
    BY <1>2, <1>3, <2>2
  <2>4. QED
    BY <2>1, <2>3 DEF Injection, IsInjective
<1>5. r \in Surjection(S, 1 .. n)
  <2>1. IsFiniteSet(1 .. n) /\ Cardinality(1 .. n) = n
    BY <1>1, FS_Interval
  <2>2. QED
    BY <1>4, <2>1, FS_Injection
<1> DEFINE s == [i \in 1 .. n |-> CHOOSE x \in S : r[x] = i]
<1>6. ASSUME NEW i \in 1 .. n
      PROVE  s[i] \in S /\ r[s[i]] = i
  <2>1. \E x \in S : r[x] = i
    BY <1>5 DEF Surjection
  <2> HIDE DEF r
  <2>2. QED
    BY <2>1
<1> HIDE DEF r
<1>7. s \in [1 .. n -> S]
  BY <1>6
<1>8. \A i, j \in 1 .. n : i < j => s[i] < s[j]
  <2> SUFFICES ASSUME NEW i \in 1 .. n, NEW j \in 1 .. n, i < j PROVE s[i] < s[j]
    OBVIOUS
  <2>1. s[i] \in S /\ s[j] \in S /\ r[s[i]] = i /\ r[s[j]] = j
    BY <1>6
  <2> HIDE DEF s
  <2>2. s[i] \in Nat /\ s[j] \in Nat /\ (s[i] < s[j] \/ s[i] = s[j] \/ s[j] < s[i])
    BY <1>0, <2>1
  <2>3. ~ (s[j] < s[i])
    <3>1. s[j] < s[i] => r[s[j]] < r[s[i]]
      BY <1>3, <2>1
    <3>2. QED
      BY <1>1, <2>1, <3>1
  <2>4. s[i] # s[j]
    BY <1>1, <2>1
  <2>5. QED
    BY <2>2, <2>3, <2>4
<1>9. DOMAIN s = 1 .. n
  OBVIOUS
<1> HIDE DEF s, n
<1>10. \E t \in [1 .. n -> S] : \A i, j \in DOMAIN t : i < j => t[i] < t[j]
  BY <1>7, <1>8, <1>9
<1>11. InOrder(S) \in [1 .. n -> S] /\ \A i, j \in DOMAIN InOrder(S) : i < j => InOrder(S)[i] < InOrder(S)[j]
  BY <1>10 DEF InOrder, n
<1>12. DOMAIN InOrder(S) = 1 .. n
  BY <1>11
<1>13. QED
  BY <1>1, <1>11, <1>12 DEF n

\* Each member is there, once.
LEMMA InOrderOnce ==
  ASSUME NEW S \in SUBSET Nat, IsFiniteSet(S)
  PROVE  /\ InOrder(S) \in Seq(S)
         /\ Len(InOrder(S)) = Cardinality(S)
         /\ \A i, j \in 1 .. Cardinality(S) : InOrder(S)[i] = InOrder(S)[j] => i = j
         /\ \A x \in S : \E i \in 1 .. Cardinality(S) : InOrder(S)[i] = x
<1> DEFINE n == Cardinality(S)
           s == InOrder(S)
<1>1. /\ n \in Nat /\ s \in [1 .. n -> S]
      /\ \A i, j \in 1 .. n : i < j => s[i] < s[j]
  BY InOrderFacts
<1> HIDE DEF n, s
<1>2. s \in Seq(S) /\ Len(s) = n
  BY <1>1, FunctionIsSeq
<1>3. ASSUME NEW i \in 1 .. n, NEW j \in 1 .. n, s[i] = s[j]
      PROVE  i = j
  <2>1. s[i] \in S /\ s[j] \in S /\ i \in Nat /\ j \in Nat
    BY <1>1
  <2>2. s[i] \in Nat /\ s[j] \in Nat /\ i \in Nat /\ j \in Nat
    BY <2>1
  <2>3. ~ (i < j) /\ ~ (j < i)
    BY <1>1, <1>3, <2>2
  <2>4. QED
    BY <2>2, <2>3
<1>4. s \in Injection(1 .. n, S)
  BY <1>1, <1>3 DEF Injection, IsInjective
<1>5. IsFiniteSet(1 .. n) /\ Cardinality(1 .. n) = n
  BY <1>1, FS_Interval
<1>6. s \in Surjection(1 .. n, S)
  BY <1>4, <1>5, FS_Injection DEF n
<1>7. \A x \in S : \E i \in 1 .. n : s[i] = x
  BY <1>6 DEF Surjection
<1>8. QED
  BY <1>2, <1>3, <1>7 DEF n, s
==============================================================================
