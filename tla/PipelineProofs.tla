--------------------------- MODULE PipelineProofs ---------------------------
(***************************************************************************)
(* Theorems about WritePipeline, for any users, writes, refusals, length   *)
(* of the pipeline and bounds: what the queue on disk, the pipeline and    *)
(* the stream are to each other.  First the facts about its operators that *)
(* the invariants need: parts of sequences, queues in the order of their   *)
(* ids, and streams and what they carry.                                   *)
(***************************************************************************)
EXTENDS WritePipeline, SequenceTheorems, FiniteSetTheorems,
        WellFoundedInduction, TLAPS

(***************************************************************************)
(* Facts about queues.                                                     *)
(***************************************************************************)
\* A part of a sequence, possibly empty.
LEMMA SliceFacts ==
  ASSUME NEW S, NEW s \in Seq(S), NEW m \in 1 .. Len(s) + 1,
         NEW n \in m - 1 .. Len(s)
  PROVE  /\ SubSeq(s, m, n) \in Seq(S)
         /\ Len(SubSeq(s, m, n)) = n - m + 1
         /\ \A i \in 1 .. n - m + 1 : SubSeq(s, m, n)[i] = s[m + i - 1]
<1>1. Len(s) \in Nat /\ \A i \in 1 .. Len(s) : s[i] \in S
  BY LenProperties, ElementOfSeq
<1>2. m \in Int /\ n \in Int /\ \A i \in m .. n : s[i] \in S
  BY <1>1
<1>3. /\ SubSeq(s, m, n) \in Seq(S)
      /\ Len(SubSeq(s, m, n)) = IF m <= n THEN n - m + 1 ELSE 0
      /\ \A i \in 1 .. n - m + 1 : SubSeq(s, m, n)[i] = s[m + i - 1]
  BY <1>2, SubSeqProperties
<1>4. Len(SubSeq(s, m, n)) = n - m + 1
  BY <1>1, <1>2, <1>3
<1>5. QED
  BY <1>3, <1>4

\* What is left after n elements.
LEMMA RestFacts ==
  ASSUME NEW S, NEW s \in Seq(S), NEW n \in 0 .. Len(s),
         NEW rest, rest = SubSeq(s, n + 1, Len(s))
  PROVE  /\ rest \in Seq(S)
         /\ Len(rest) = Len(s) - n
         /\ \A i \in 1 .. Len(s) - n : rest[i] = s[n + i]
<1>1. Len(s) \in Nat
  BY LenProperties
<1>2. /\ SubSeq(s, n + 1, Len(s)) \in Seq(S)
      /\ Len(SubSeq(s, n + 1, Len(s))) = Len(s) - (n + 1) + 1
      /\ \A i \in 1 .. Len(s) - (n + 1) + 1 :
           SubSeq(s, n + 1, Len(s))[i] = s[n + 1 + i - 1]
  <2>1. n + 1 \in 1 .. Len(s) + 1 /\ Len(s) \in (n + 1) - 1 .. Len(s)
    BY <1>1
  <2>2. QED
    BY <2>1, SliceFacts
<1>3. /\ rest \in Seq(S)
      /\ Len(rest) = Len(s) - (n + 1) + 1
      /\ \A i \in 1 .. Len(s) - (n + 1) + 1 : rest[i] = s[n + 1 + i - 1]
  BY <1>2, Zenon
<1>4. Len(s) - (n + 1) + 1 = Len(s) - n /\ \A i \in Int : n + 1 + i - 1 = n + i
  BY <1>1
<1>5. Len(rest) = Len(s) - n
  BY <1>3, <1>4, Zenon
<1>6. ASSUME NEW i \in 1 .. Len(s) - n
      PROVE  rest[i] = s[n + i]
  <2>1. i \in 1 .. Len(s) - (n + 1) + 1 /\ n + 1 + i - 1 = n + i
    BY <1>1, <1>4
  <2>2. QED
    BY <1>3, <2>1, Zenon
<1>7. QED
  BY <1>3, <1>5, <1>6

\* The first elements of what is left are the ones that follow.
LEMMA SliceOfRest ==
  ASSUME NEW S, NEW s \in Seq(S), NEW n \in 0 .. Len(s),
         NEW k \in 0 .. Len(s) - n,
         NEW rest, rest = SubSeq(s, n + 1, Len(s))
  PROVE  SubSeq(rest, 1, k) = SubSeq(s, n + 1, n + k)
<1> DEFINE a == SubSeq(rest, 1, k)
           b == SubSeq(s, n + 1, n + k)
<1>1. Len(s) \in Nat
  BY LenProperties
<1>2. /\ rest \in Seq(S)
      /\ Len(rest) = Len(s) - n
      /\ \A i \in 1 .. Len(s) - n : rest[i] = s[n + i]
  BY RestFacts
<1>3. /\ a \in Seq(S)
      /\ Len(a) = k
      /\ \A i \in 1 .. k : a[i] = s[n + i]
  <2>1. /\ a \in Seq(S)
        /\ Len(a) = k - 1 + 1
        /\ \A i \in 1 .. k - 1 + 1 : a[i] = rest[1 + i - 1]
    BY <1>1, <1>2, SliceFacts
  <2> HIDE DEF a
  <2>2. \A i \in 1 .. k : a[i] = rest[i] /\ rest[i] = s[n + i]
    BY <1>1, <1>2, <2>1
  <2>3. QED
    BY <1>1, <2>1, <2>2
<1>4. /\ b \in Seq(S)
      /\ Len(b) = k
      /\ \A i \in 1 .. k : b[i] = s[n + i]
  <2>1. /\ b \in Seq(S)
        /\ Len(b) = n + k - (n + 1) + 1
        /\ \A i \in 1 .. n + k - (n + 1) + 1 : b[i] = s[n + 1 + i - 1]
    BY <1>1, SliceFacts
  <2> HIDE DEF b
  <2>2. QED
    BY <1>1, <2>1
<1> HIDE DEF a, b
<1>5. a = b
  BY <1>3, <1>4, SeqEqual
<1>6. QED
  BY <1>5 DEF a, b

Ordered(q) == \A i, j \in DOMAIN q : i < j => q[i].id < q[j].id

FrontLen(q) == IF Len(q) < MaxPendingWrites THEN Len(q) ELSE MaxPendingWrites

\* What the pipeline is to be.
InPipeline(q) == SubSeq(q, 1, FrontLen(q))

\* The pipeline's share of a queue is a prefix, empty only for an empty queue.
LEMMA FrontFacts ==
  ASSUME NEW q \in Seq(Batch)
  PROVE  /\ FrontLen(q) \in 0 .. Len(q)
         /\ FrontLen(q) <= MaxPendingWrites
         /\ InPipeline(q) \in Seq(Batch)
         /\ Len(InPipeline(q)) = FrontLen(q)
         /\ \A i \in 1 .. FrontLen(q) : InPipeline(q)[i] = q[i]
         /\ InPipeline(q) = <<>> <=> q = <<>>
<1>1. Len(q) \in Nat /\ \A i \in 1 .. Len(q) : q[i] \in Batch
  BY LenProperties, ElementOfSeq
<1>2. MaxPendingWrites \in Nat /\ MaxPendingWrites > 0
  BY PipelineAssumption
<1>3. FrontLen(q) \in 0 .. Len(q) /\ FrontLen(q) <= MaxPendingWrites
  BY <1>1, <1>2 DEF FrontLen
<1>4. \A i \in 1 .. FrontLen(q) : q[i] \in Batch
  BY <1>1, <1>3
<1>5. /\ InPipeline(q) \in Seq(Batch)
      /\ Len(InPipeline(q)) = IF 1 <= FrontLen(q) THEN FrontLen(q) - 1 + 1 ELSE 0
      /\ \A i \in 1 .. FrontLen(q) - 1 + 1 : InPipeline(q)[i] = q[1 + i - 1]
  BY <1>3, <1>4, SubSeqProperties DEF InPipeline
<1>6. Len(InPipeline(q)) = FrontLen(q)
  BY <1>3, <1>5
<1>7. \A i \in 1 .. FrontLen(q) : InPipeline(q)[i] = q[i]
  BY <1>3, <1>5
<1>8. InPipeline(q) = <<>> <=> FrontLen(q) = 0
  BY <1>3, <1>5, <1>6, EmptySeq
<1>9. FrontLen(q) = 0 <=> q = <<>>
  BY <1>1, <1>2, EmptySeq DEF FrontLen
<1>10. QED
  BY <1>3, <1>5, <1>6, <1>7, <1>8, <1>9

\* In an ordered queue a count of smaller ids is a position.
LEMMA PrecedingCounts ==
  ASSUME NEW q \in Seq(Batch), NEW n \in 0 .. Len(q), NEW id \in Int,
         \A i \in 1 .. Len(q) : q[i].id < id <=> i <= n
  PROVE  Preceding(q, id) = n
<1>1. DOMAIN q = 1 .. Len(q) /\ Len(q) \in Nat
  BY LenProperties
<1>2. {i \in DOMAIN q : q[i].id < id} = 1 .. n
  BY <1>1
<1>3. Cardinality(1 .. n) = n
  BY <1>1, FS_Interval
<1>4. QED
  BY <1>2, <1>3 DEF Preceding

\* Filling a pipeline that holds the first batches of the queue makes it the
\* front of the queue.
LEMMA FilledIsFront ==
  ASSUME NEW q \in Seq(Batch), Ordered(q), NEW n \in 0 .. FrontLen(q)
  PROVE  Filled(SubSeq(q, 1, n), q) = InPipeline(q)
<1> DEFINE pipe == SubSeq(q, 1, n)
           rest == After(q, IF pipe = <<>> THEN -1 ELSE Last(pipe).id)
           room == MaxPendingWrites - Len(pipe)
<1>1. /\ Len(q) \in Nat
      /\ DOMAIN q = 1 .. Len(q)
      /\ \A i \in 1 .. Len(q) : q[i] \in Batch /\ q[i].id \in Nat
  <2>1. Len(q) \in Nat /\ DOMAIN q = 1 .. Len(q)
    BY LenProperties
  <2>2. \A i \in 1 .. Len(q) : q[i] \in Batch
    BY ElementOfSeq
  <2>3. \A b \in Batch : b.id \in Nat
    BY DEF Batch
  <2>4. QED
    BY <2>1, <2>2, <2>3
<1>2. FrontLen(q) \in 0 .. Len(q) /\ FrontLen(q) <= MaxPendingWrites
      /\ MaxPendingWrites \in Nat /\ n \in 0 .. Len(q)
  BY <1>1, FrontFacts, PipelineAssumption
<1>3. /\ pipe \in Seq(Batch)
      /\ Len(pipe) = n
      /\ \A i \in 1 .. n : pipe[i] = q[i]
  <2>1. \A i \in 1 .. n : q[i] \in Batch
    BY <1>1, <1>2
  <2>2. /\ pipe \in Seq(Batch)
        /\ Len(pipe) = IF 1 <= n THEN n - 1 + 1 ELSE 0
        /\ \A i \in 1 .. n - 1 + 1 : pipe[i] = q[1 + i - 1]
    BY <1>2, <2>1, SubSeqProperties
  <2>3. QED
    BY <1>1, <1>2, <2>2
<1>4. rest = SubSeq(q, n + 1, Len(q))
  <2>1. CASE n = 0
    <3>1. pipe = <<>>
      BY <1>3, <2>1, EmptySeq
    <3>2. Preceding(q, 0) = 0
      BY <1>1, <2>1, PrecedingCounts
    <3>3. rest = SubSeq(q, Preceding(q, -1 + 1) + 1, Len(q))
      BY <3>1 DEF After
    <3>4. QED
      BY <2>1, <3>2, <3>3
  <2>2. CASE n # 0
    <3>1. n \in 1 .. Len(q)
      BY <1>1, <1>2, <2>2
    <3>2. pipe # <<>> /\ Last(pipe) = q[n]
      BY <1>3, <3>1, EmptySeq DEF Last
    <3>3. \A i \in 1 .. Len(q) : q[i].id < q[n].id + 1 <=> i <= n
      BY <1>1, <3>1 DEF Ordered
    <3>4. q[n].id + 1 \in Int
      BY <1>1, <3>1
    <3>5. Preceding(q, q[n].id + 1) = n
      BY <1>2, <3>3, <3>4, PrecedingCounts
    <3>6. QED
      BY <3>2, <3>5 DEF After
  <2>3. QED
    BY <2>1, <2>2
<1> HIDE DEF rest, pipe
<1>5. Len(rest) = Len(q) - n
  BY <1>2, <1>4, RestFacts
<1> DEFINE taken == IF Len(rest) < room THEN Len(rest) ELSE room
<1>6. taken = FrontLen(q) - n
  BY <1>1, <1>2, <1>3, <1>5 DEF FrontLen
<1>7. SubSeq(rest, 1, taken) = SubSeq(q, n + 1, FrontLen(q))
  <2> HIDE DEF taken
  <2>1. taken \in 0 .. Len(q) - n /\ n + taken = FrontLen(q)
    BY <1>1, <1>2, <1>6
  <2>2. SubSeq(rest, 1, taken) = SubSeq(q, n + 1, n + taken)
    BY <1>2, <1>4, <2>1, SliceOfRest
  <2>3. QED
    BY <2>1, <2>2, Zenon
<1>8. Filled(pipe, q) = pipe \o SubSeq(rest, 1, taken)
  BY DEF Filled, rest, pipe
<1>9. SubSeq(q, 1, n) \o SubSeq(q, n + 1, FrontLen(q)) = InPipeline(q)
  <2>1. CASE Len(q) = 0
    <3>1. FrontLen(q) = 0 /\ n = 0
      BY <1>1, <1>2, <2>1
    <3>2. SubSeq(q, 1, 0) = <<>>
      BY SubSeqEmpty
    <3>3. QED
      BY <3>1, <3>2, EmptySeq, ConcatEmptySeq DEF InPipeline
  <2>2. CASE Len(q) # 0
    <3>1. /\ 1 \in 1 .. Len(q) + 1
          /\ n \in 1 - 1 .. Len(q)
          /\ FrontLen(q) \in n .. Len(q)
      BY <1>1, <1>2, <2>2
    <3>2. QED
      BY <3>1, ConcatAdjacentSubSeq DEF InPipeline
  <2>3. QED
    BY <2>1, <2>2
<1>10. QED
  BY <1>7, <1>8, <1>9 DEF pipe

\* Removing the head's id removes the head and keeps the order.
LEMMA WithoutHead ==
  ASSUME NEW q \in Seq(Batch), Ordered(q), q # <<>>
  PROVE  /\ Without(q, Head(q).id) = Tail(q)
         /\ Tail(q) \in Seq(Batch)
         /\ Ordered(Tail(q))
<1>1. Len(q) \in Nat /\ Len(q) > 0 /\ DOMAIN q = 1 .. Len(q)
  BY LenProperties, EmptySeq
<1>2. \A i \in 1 .. Len(q) : q[i] \in Batch
  BY ElementOfSeq
<1>3. Head(q) = q[1]
  BY <1>1
<1>4. \A i \in 1 .. Len(q) : q[i].id \in Nat
  BY <1>2 DEF Batch
<1>5. Preceding(q, Head(q).id) = 0
  <2>1. \A i \in 1 .. Len(q) : q[i].id < q[1].id <=> i <= 0
    BY <1>1, <1>4 DEF Ordered
  <2>2. q[1].id \in Int /\ 0 \in 0 .. Len(q)
    BY <1>1, <1>4
  <2>3. QED
    BY <1>3, <2>1, <2>2, PrecedingCounts
<1>6. Without(q, Head(q).id) = SubSeq(q, 1, 0) \o SubSeq(q, 2, Len(q))
  <2>1. Without(q, Head(q).id) = RemoveAt(q, 0 + 1)
    BY <1>5 DEF Without
  <2>2. 0 + 1 = 1 /\ 1 - 1 = 0 /\ 1 + 1 = 2
    OBVIOUS
  <2>3. RemoveAt(q, 1) = SubSeq(q, 1, 1 - 1) \o SubSeq(q, 1 + 1, Len(q))
    BY DEF RemoveAt
  <2>4. QED
    BY <2>1, <2>2, <2>3, Zenon
<1>7. SubSeq(q, 1, 0) = <<>>
  BY SubSeqEmpty
<1>8. Tail(q) = SubSeq(q, 2, Len(q))
  BY TailIsSubSeq
<1>9. /\ Tail(q) \in Seq(Batch)
      /\ Len(Tail(q)) = Len(q) - 1
      /\ \A i \in 1 .. Len(Tail(q)) : Tail(q)[i] = q[i + 1]
  BY HeadTailProperties
<1>10. <<>> \o Tail(q) = Tail(q)
  BY <1>9, ConcatEmptySeq
<1>11. Ordered(Tail(q))
  <2> DEFINE t == Tail(q)
  <2>1. DOMAIN t = 1 .. Len(q) - 1
    BY <1>9, LenProperties
  <2>2. \A i \in 1 .. Len(q) - 1 : t[i] = q[i + 1]
    BY <1>9
  <2> HIDE DEF t
  <2>3. Ordered(t)
    BY <1>1, <2>1, <2>2 DEF Ordered
  <2>4. QED
    BY <2>3 DEF t
<1>12. QED
  BY <1>6, <1>7, <1>8, <1>9, <1>10, <1>11

\* A pipeline that lost its head holds the first batches of a queue that lost
\* its head, and no more than it takes.
LEMMA FrontOfTail ==
  ASSUME NEW q \in Seq(Batch), q # <<>>
  PROVE  /\ Tail(InPipeline(q)) = SubSeq(Tail(q), 1, FrontLen(q) - 1)
         /\ FrontLen(q) - 1 \in 0 .. FrontLen(Tail(q))
         /\ Head(InPipeline(q)) = Head(q)
<1>1. Len(q) \in Nat /\ Len(q) > 0
  BY LenProperties, EmptySeq
<1>2. MaxPendingWrites \in Nat /\ MaxPendingWrites > 0
  BY PipelineAssumption
<1>3. /\ FrontLen(q) \in 0 .. Len(q)
      /\ InPipeline(q) \in Seq(Batch)
      /\ Len(InPipeline(q)) = FrontLen(q)
      /\ \A i \in 1 .. FrontLen(q) : InPipeline(q)[i] = q[i]
      /\ InPipeline(q) # <<>>
  BY FrontFacts
<1>4. FrontLen(q) >= 1
  BY <1>1, <1>2 DEF FrontLen
<1>5. /\ Tail(q) \in Seq(Batch)
      /\ Len(Tail(q)) = Len(q) - 1
      /\ \A i \in 1 .. Len(Tail(q)) : Tail(q)[i] = q[i + 1]
  BY HeadTailProperties
<1>6. /\ Tail(InPipeline(q)) \in Seq(Batch)
      /\ Len(Tail(InPipeline(q))) = FrontLen(q) - 1
      /\ \A i \in 1 .. FrontLen(q) - 1 : Tail(InPipeline(q))[i] = InPipeline(q)[i + 1]
  BY <1>3, HeadTailProperties
<1>7. FrontLen(q) - 1 \in 0 .. FrontLen(Tail(q))
  BY <1>1, <1>2, <1>4, <1>5 DEF FrontLen
<1> DEFINE t == Tail(q)
           m == FrontLen(q) - 1
           a == Tail(InPipeline(q))
           b == SubSeq(t, 1, m)
<1>8. m \in 0 .. Len(t) /\ m \in Nat /\ t \in Seq(Batch)
  BY <1>1, <1>3, <1>4, <1>5
<1>9. /\ b \in Seq(Batch)
      /\ Len(b) = m
      /\ \A i \in 1 .. m : b[i] = t[i]
  <2> HIDE DEF t, m
  <2>1. 1 \in 1 .. Len(t) + 1 /\ m \in 1 - 1 .. Len(t)
    BY <1>8, LenProperties
  <2>2. /\ b \in Seq(Batch)
        /\ Len(b) = m - 1 + 1
        /\ \A i \in 1 .. m - 1 + 1 : b[i] = t[1 + i - 1]
    BY <1>8, <2>1, SliceFacts
  <2> HIDE DEF b
  <2>3. QED
    BY <1>8, <2>2
<1>10. \A i \in 1 .. m : a[i] = b[i]
  <2>1. \A i \in 1 .. m : i + 1 \in 1 .. FrontLen(q) /\ i \in 1 .. Len(t)
    BY <1>1, <1>3, <1>5
  <2>2. \A i \in 1 .. m : a[i] = q[i + 1] /\ t[i] = q[i + 1]
    BY <1>3, <1>5, <1>6, <2>1
  <2> HIDE DEF a, b, t, m
  <2>3. QED
    BY <1>9, <2>2
<1>11. a = b
  <2>1. a \in Seq(Batch) /\ Len(a) = m
    BY <1>6
  <2> HIDE DEF a, b, t, m
  <2>2. QED
    BY <1>9, <1>10, <2>1, SeqEqual
<1>12. Head(InPipeline(q)) = Head(q)
  <2>1. InPipeline(q)[1] = q[1]
    BY <1>1, <1>3, <1>4
  <2>2. QED
    BY <1>1, <1>3, <1>4, <2>1
<1>13. QED
  BY <1>7, <1>11, <1>12

\* A batch with an id of its own joins at the end; what was in front stays.
LEMMA FrontOfAppend ==
  ASSUME NEW q \in Seq(Batch), Ordered(q), NEW b \in Batch,
         \A i \in 1 .. Len(q) : q[i].id < b.id
  PROVE  /\ Append(q, b) \in Seq(Batch)
         /\ Ordered(Append(q, b))
         /\ InPipeline(q) = SubSeq(Append(q, b), 1, FrontLen(q))
         /\ FrontLen(q) \in 0 .. FrontLen(Append(q, b))
<1> DEFINE r == Append(q, b)
<1>1. Len(q) \in Nat
  BY LenProperties
<1>2. /\ r \in Seq(Batch)
      /\ Len(r) = Len(q) + 1
      /\ \A i \in 1 .. Len(q) : r[i] = q[i]
      /\ r[Len(q) + 1] = b
      /\ DOMAIN r = 1 .. Len(r)
      /\ DOMAIN q = 1 .. Len(q)
  BY AppendProperties, LenProperties
<1> HIDE DEF r
<1>3. \A i \in 1 .. Len(r) : r[i].id \in Nat
  <2>1. \A i \in 1 .. Len(r) : r[i] \in Batch
    BY <1>2, ElementOfSeq
  <2>2. QED
    BY <2>1 DEF Batch
<1>4. Ordered(r)
  BY <1>1, <1>2, <1>3 DEF Ordered
<1>5. MaxPendingWrites \in Nat
  BY PipelineAssumption
<1>6. FrontLen(q) \in 0 .. FrontLen(r) /\ FrontLen(q) \in 0 .. Len(r)
  BY <1>1, <1>2, <1>5 DEF FrontLen
<1> DEFINE a == InPipeline(q)
           c == SubSeq(r, 1, FrontLen(q))
<1>7. /\ FrontLen(q) \in 0 .. Len(q)
      /\ a \in Seq(Batch)
      /\ Len(a) = FrontLen(q)
      /\ \A i \in 1 .. FrontLen(q) : a[i] = q[i]
  BY FrontFacts
<1>8. /\ c \in Seq(Batch)
      /\ Len(c) = FrontLen(q) - 1 + 1
      /\ \A i \in 1 .. FrontLen(q) - 1 + 1 : c[i] = r[1 + i - 1]
  <2>1. 1 \in 1 .. Len(r) + 1 /\ FrontLen(q) \in 1 - 1 .. Len(r)
    BY <1>1, <1>2, <1>6
  <2>2. QED
    BY <1>2, <2>1, SliceFacts
<1> HIDE DEF a, c
<1>9. Len(c) = FrontLen(q) /\ \A i \in 1 .. FrontLen(q) : c[i] = r[i] /\ r[i] = q[i]
  BY <1>1, <1>2, <1>7, <1>8
<1>10. a = c
  BY <1>7, <1>8, <1>9, SeqEqual
<1>11. QED
  BY <1>2, <1>4, <1>6, <1>10 DEF a, c, r

\* A finite set of naturals has a greatest member.
LEMMA MaxExists ==
  ASSUME NEW S \in SUBSET Nat, S # {}, NEW m \in Nat, \A x \in S : x < m
  PROVE  Max(S) \in S /\ \A x \in S : x <= Max(S)
<1> DEFINE Bounds == {n \in Nat : \A x \in S : x <= n}
<1>1. Bounds \subseteq Nat /\ m \in Bounds
  BY DEF Bounds
<1>2. PICK n \in Bounds : \A y \in Bounds : <<y, n>> \notin OpToRel(<, Nat)
  BY <1>1, NatLessThanWellFounded, WFMin
<1>3. n \in Nat /\ \A x \in S : x <= n
  BY <1>2
<1>4. \A y \in Bounds : ~ (y < n)
  BY <1>1, <1>2, <1>3 DEF OpToRel
<1>5. n \in S
  <2>1. SUFFICES ASSUME n \notin S PROVE FALSE
    OBVIOUS
  <2>2. ASSUME NEW x \in S PROVE x \in Nat /\ x <= n - 1
    <3>1. x \in Nat /\ x <= n /\ x # n
      BY <1>3, <2>1
    <3>2. QED
      BY <1>3, <3>1
  <2>3. n - 1 \in Nat
    <3>1. PICK x : x \in S
      OBVIOUS
    <3>2. QED
      BY <1>3, <2>2, <3>1
  <2>4. QED
    BY <1>3, <1>4, <2>2, <2>3
<1>6. \E x \in S : \A y \in S : x >= y
  BY <1>3, <1>5
<1>7. Max(S) \in S /\ \A y \in S : Max(S) >= y
  BY <1>6 DEF Max
<1>8. QED
  BY <1>7

IdsBelow(q, m) == \A u \in Users : \A i \in 1 .. Len(q[u]) : q[u][i].id < m

\* The next id is beyond every id in use.
LEMMA NextIdIsFresh ==
  ASSUME NEW q \in [Users -> Seq(Batch)], NEW m \in Nat, IdsBelow(q, m), 0 < m
  PROVE  LoadNextBatchId(q) \in Nat /\ 0 < LoadNextBatchId(q)
         /\ IdsBelow(q, LoadNextBatchId(q))
<1> DEFINE S == Ids(q) \cup {0}
<1>1. \A u \in Users : q[u] \in Seq(Batch) /\ DOMAIN q[u] = 1 .. Len(q[u])
  BY LenProperties
<1>2. \A u \in Users : \A i \in 1 .. Len(q[u]) : q[u][i] \in Batch
  BY <1>1, ElementOfSeq
<1>3. \A u \in Users : \A i \in 1 .. Len(q[u]) : q[u][i].id \in Nat /\ q[u][i].id \in S
  <2>1. \A b \in Batch : b.id \in Nat
    BY DEF Batch
  <2>2. QED
    BY <1>1, <1>2, <2>1 DEF Ids
<1>4. \A x \in S : x \in Nat /\ x < m
  BY <1>1, <1>3 DEF Ids, IdsBelow
<1>5. LoadNextBatchId(q) = Max(S) + 1
  BY DEF LoadNextBatchId
<1> HIDE DEF S
<1>6. S # {}
  BY DEF S
<1>7. Max(S) \in S /\ \A x \in S : x <= Max(S)
  BY <1>4, <1>6, MaxExists
<1>8. Max(S) \in Nat
  BY <1>4, <1>7
<1>9. QED
  BY <1>3, <1>5, <1>7, <1>8 DEF IdsBelow

\* The writes of a sequence of batches.
LEMMA WritesOfFacts ==
  ASSUME NEW b \in Seq(Batch)
  PROVE  /\ WritesOf(b) \in Seq(Writes)
         /\ WritesOf(b) \in Seq(Message)
         /\ Len(WritesOf(b)) = Len(b)
         /\ \A i \in 1 .. Len(b) : WritesOf(b)[i] = b[i].write
         /\ WritesOf(b) = <<>> <=> b = <<>>
<1>1. Len(b) \in Nat /\ DOMAIN b = 1 .. Len(b)
  BY LenProperties
<1>2. \A i \in 1 .. Len(b) : b[i] \in Batch
  BY ElementOfSeq
<1>3. \A i \in 1 .. Len(b) : b[i].write \in Writes
  BY <1>2 DEF Batch
<1> DEFINE w == WritesOf(b)
<1>4. w \in [1 .. Len(b) -> Writes] /\ \A i \in 1 .. Len(b) : w[i] = b[i].write
  BY <1>1, <1>3 DEF WritesOf
<1> HIDE DEF w
<1>5. w \in Seq(Writes)
  BY <1>1, <1>4, SeqDef
<1>6. Len(w) = Len(b)
  <2>1. DOMAIN w = 1 .. Len(w) /\ Len(w) \in Nat
    BY <1>5, LenProperties
  <2>2. DOMAIN w = 1 .. Len(b)
    BY <1>4
  <2>3. 1 .. Len(w) = 1 .. Len(b)
    BY <2>1, <2>2, Zenon
  <2>4. \A n \in Nat : Cardinality(1 .. n) = n
    BY FS_Interval
  <2>5. QED
    BY <1>1, <2>1, <2>3, <2>4, Zenon
<1>7. w \in Seq(Message)
  BY <1>5, SeqMonotonic DEF Message
<1>8. w = <<>> <=> b = <<>>
  <2>1. w = <<>> <=> Len(w) = 0
    BY <1>5, EmptySeq
  <2>2. b = <<>> <=> Len(b) = 0
    BY EmptySeq
  <2>3. QED
    BY <1>6, <2>1, <2>2
<1>9. QED
  BY <1>4, <1>5, <1>6, <1>7, <1>8 DEF w

\* Taking a batch off the front takes its write off.
LEMMA WritesOfTail ==
  ASSUME NEW b \in Seq(Batch), b # <<>>
  PROVE  Tail(WritesOf(b)) = WritesOf(Tail(b))
<1> DEFINE w == WritesOf(b)
           t == Tail(b)
           v == WritesOf(t)
           x == Tail(w)
<1>1. /\ t \in Seq(Batch)
      /\ Len(t) = Len(b) - 1
      /\ \A i \in 1 .. Len(t) : t[i] = b[i + 1]
  BY HeadTailProperties
<1>2. /\ w \in Seq(Writes) /\ w # <<>>
      /\ Len(w) = Len(b)
      /\ \A i \in 1 .. Len(b) : w[i] = b[i].write
  BY WritesOfFacts
<1> HIDE DEF t, w
<1>3. /\ v \in Seq(Writes)
      /\ Len(v) = Len(t)
      /\ \A i \in 1 .. Len(t) : v[i] = t[i].write
  BY <1>1, WritesOfFacts
<1>4. /\ x \in Seq(Writes)
      /\ Len(x) = Len(w) - 1
      /\ \A i \in 1 .. Len(x) : x[i] = w[i + 1]
  BY <1>2, HeadTailProperties
<1> HIDE DEF v, x
<1>5. Len(b) \in Nat
  BY LenProperties
<1>6. ASSUME NEW i \in 1 .. Len(x)
      PROVE  x[i] = v[i]
  <2>1. i \in 1 .. Len(t) /\ i + 1 \in 1 .. Len(b)
    BY <1>1, <1>2, <1>4, <1>5
  <2>2. x[i] = b[i + 1].write
    BY <1>2, <1>4, <2>1
  <2>3. v[i] = b[i + 1].write
    BY <1>1, <1>3, <2>1
  <2>4. QED
    BY <2>2, <2>3
<1>7. Len(x) = Len(v)
  BY <1>1, <1>2, <1>3, <1>4
<1>8. x = v
  BY <1>3, <1>4, <1>6, <1>7, SeqEqual
<1>9. QED
  BY <1>8 DEF t, v, w, x

\* A batch added adds its write.
LEMMA WritesOfAppend ==
  ASSUME NEW q \in Seq(Batch), NEW b \in Batch
  PROVE  WritesOf(Append(q, b)) = Append(WritesOf(q), b.write)
<1> DEFINE r == Append(q, b)
           w == WritesOf(q)
           v == WritesOf(r)
           x == Append(w, b.write)
<1>1. Len(q) \in Nat /\ b.write \in Writes
  BY LenProperties DEF Batch
<1>2. /\ r \in Seq(Batch)
      /\ Len(r) = Len(q) + 1
      /\ \A i \in 1 .. Len(q) : r[i] = q[i]
      /\ r[Len(q) + 1] = b
  BY AppendProperties
<1>3. /\ w \in Seq(Writes)
      /\ Len(w) = Len(q)
      /\ \A i \in 1 .. Len(q) : w[i] = q[i].write
  BY WritesOfFacts
<1> HIDE DEF r, w
<1>4. /\ v \in Seq(Writes)
      /\ Len(v) = Len(r)
      /\ \A i \in 1 .. Len(r) : v[i] = r[i].write
  BY <1>2, WritesOfFacts
<1>5. /\ x \in Seq(Writes)
      /\ Len(x) = Len(w) + 1
      /\ \A i \in 1 .. Len(w) : x[i] = w[i]
      /\ x[Len(w) + 1] = b.write
  BY <1>1, <1>3, AppendProperties
<1> HIDE DEF v, x
<1>6. \A i \in 1 .. Len(x) : x[i] = v[i]
  BY <1>1, <1>2, <1>3, <1>4, <1>5
<1>7. x = v
  BY <1>2, <1>3, <1>4, <1>5, <1>6, SeqEqual
<1>8. QED
  BY <1>7 DEF r, v, w, x

\* The first n writes and then the others are the writes.
LEMMA WritesOfParts ==
  ASSUME NEW f \in Seq(Batch), NEW n \in 0 .. Len(f)
  PROVE  /\ SubSeq(f, n + 1, Len(f)) \in Seq(Batch)
         /\ WritesOf(SubSeq(f, 1, n)) \o WritesOf(SubSeq(f, n + 1, Len(f))) = WritesOf(f)
<1> DEFINE a == SubSeq(f, 1, n)
           b == SubSeq(f, n + 1, Len(f))
           wa == WritesOf(a)
           wb == WritesOf(b)
           w == WritesOf(f)
           x == wa \o wb
<1>1. Len(f) \in Nat
  BY LenProperties
<1>2. /\ a \in Seq(Batch)
      /\ Len(a) = n
      /\ \A i \in 1 .. n : a[i] = f[i]
  <2>1. 1 \in 1 .. Len(f) + 1 /\ n \in 1 - 1 .. Len(f)
    BY <1>1
  <2>2. /\ a \in Seq(Batch)
        /\ Len(a) = n - 1 + 1
        /\ \A i \in 1 .. n - 1 + 1 : a[i] = f[1 + i - 1]
    BY <2>1, SliceFacts
  <2> HIDE DEF a
  <2>3. QED
    BY <1>1, <2>2
<1>3. /\ b \in Seq(Batch)
      /\ Len(b) = Len(f) - n
      /\ \A i \in 1 .. Len(f) - n : b[i] = f[n + i]
  BY RestFacts
<1> HIDE DEF a, b
<1>4. /\ wa \in Seq(Writes)
      /\ Len(wa) = n
      /\ \A i \in 1 .. n : wa[i] = a[i].write
  BY <1>2, WritesOfFacts
<1>5. /\ wb \in Seq(Writes)
      /\ Len(wb) = Len(f) - n
      /\ \A i \in 1 .. Len(f) - n : wb[i] = b[i].write
  BY <1>3, WritesOfFacts
<1>6. /\ w \in Seq(Writes)
      /\ Len(w) = Len(f)
      /\ \A i \in 1 .. Len(f) : w[i] = f[i].write
  BY WritesOfFacts
<1> HIDE DEF wa, wb, w
<1>7. /\ x \in Seq(Writes)
      /\ Len(x) = Len(wa) + Len(wb)
      /\ \A i \in 1 .. Len(wa) + Len(wb) :
           x[i] = IF i <= Len(wa) THEN wa[i] ELSE wb[i - Len(wa)]
  BY <1>4, <1>5, ConcatProperties
<1> HIDE DEF x
<1>8. Len(x) = Len(w)
  BY <1>1, <1>4, <1>5, <1>6, <1>7
<1>9. ASSUME NEW i \in 1 .. Len(x)
      PROVE  x[i] = w[i]
  <2>1. CASE i <= n
    <3>1. i \in 1 .. n /\ i \in 1 .. Len(f) /\ i \in 1 .. Len(wa) + Len(wb)
      BY <1>1, <1>4, <1>6, <1>7, <1>8, <2>1
    <3>2. x[i] = wa[i]
      BY <1>4, <1>7, <2>1, <3>1
    <3>3. wa[i] = f[i].write
      BY <1>2, <1>4, <3>1
    <3>4. QED
      BY <1>6, <3>1, <3>2, <3>3
  <2>2. CASE ~ (i <= n)
    <3>1. i - n \in 1 .. Len(f) - n /\ n + (i - n) = i /\ i \in 1 .. Len(f)
      BY <1>1, <1>6, <1>8, <2>2
    <3>2. x[i] = wb[i - n]
      BY <1>1, <1>4, <1>5, <1>7, <2>2, <3>1
    <3>3. wb[i - n] = f[i].write
      BY <1>3, <1>5, <3>1
    <3>4. QED
      BY <1>6, <3>1, <3>2, <3>3
  <2>3. QED
    BY <2>1, <2>2
<1>10. x = w
  BY <1>6, <1>7, <1>8, <1>9, SeqEqual
<1>11. QED
  BY <1>3, <1>10 DEF a, b, wa, wb, w, x

\* What is sent and what is answered stay the same sequence when the backend
\* answers ...
LEMMA MoveHead ==
  ASSUME NEW S, NEW a \in Seq(S), NEW b \in Seq(S), b # <<>>
  PROVE  Append(a, Head(b)) \o Tail(b) = a \o b
<1> DEFINE h == Head(b)
           t == Tail(b)
           c == Append(a, h)
           x == c \o t
           y == a \o b
<1>1. /\ h \in S /\ t \in Seq(S) /\ Len(t) = Len(b) - 1
      /\ \A i \in 1 .. Len(t) : t[i] = b[i + 1]
      /\ h = b[1]
      /\ Len(a) \in Nat /\ Len(b) \in Nat /\ Len(b) > 0
  BY HeadTailProperties, LenProperties, EmptySeq
<1> HIDE DEF h, t
<1>2. /\ c \in Seq(S) /\ Len(c) = Len(a) + 1
      /\ \A i \in 1 .. Len(a) : c[i] = a[i]
      /\ c[Len(a) + 1] = h
  BY <1>1, AppendProperties
<1> HIDE DEF c
<1>3. /\ x \in Seq(S) /\ Len(x) = Len(c) + Len(t)
      /\ \A i \in 1 .. Len(c) + Len(t) :
           x[i] = IF i <= Len(c) THEN c[i] ELSE t[i - Len(c)]
  BY <1>1, <1>2, ConcatProperties
<1>4. /\ y \in Seq(S) /\ Len(y) = Len(a) + Len(b)
      /\ \A i \in 1 .. Len(a) + Len(b) :
           y[i] = IF i <= Len(a) THEN a[i] ELSE b[i - Len(a)]
  BY ConcatProperties
<1> HIDE DEF x, y
<1>5. Len(x) = Len(y)
  BY <1>1, <1>2, <1>3, <1>4
<1>6. ASSUME NEW i \in 1 .. Len(x)
      PROVE  x[i] = y[i]
  <2>1. i \in Int /\ i \in 1 .. Len(c) + Len(t) /\ i \in 1 .. Len(a) + Len(b)
    BY <1>3, <1>4, <1>5
  <2>2. CASE i <= Len(a)
    <3>1. i \in 1 .. Len(a) /\ i <= Len(c)
      BY <1>1, <1>2, <2>1, <2>2
    <3>2. QED
      BY <1>2, <1>3, <1>4, <2>1, <2>2, <3>1
  <2>3. CASE i = Len(a) + 1
    <3>1. i <= Len(c) /\ ~ (i <= Len(a)) /\ i - Len(a) = 1
      BY <1>1, <1>2, <2>1, <2>3
    <3>2. QED
      BY <1>1, <1>2, <1>3, <1>4, <2>1, <2>3, <3>1
  <2>4. CASE i > Len(a) + 1
    <3>1. /\ ~ (i <= Len(c)) /\ ~ (i <= Len(a))
          /\ i - Len(c) \in 1 .. Len(t) /\ (i - Len(c)) + 1 = i - Len(a)
      BY <1>1, <1>2, <2>1, <2>4
    <3>2. x[i] = t[i - Len(c)] /\ y[i] = b[i - Len(a)]
      BY <1>3, <1>4, <2>1, <3>1
    <3>3. t[i - Len(c)] = b[(i - Len(c)) + 1]
      BY <1>1, <3>1
    <3>4. QED
      BY <3>1, <3>2, <3>3
  <2>5. i <= Len(a) \/ i = Len(a) + 1 \/ i > Len(a) + 1
    BY <1>1, <2>1
  <2>6. QED
    BY <2>2, <2>3, <2>4, <2>5, Zenon
<1>7. x = y
  BY <1>3, <1>4, <1>5, <1>6, SeqEqual
<1>8. QED
  BY <1>7 DEF x, y, c, h, t

\* ... and lose its head when an answer is read.
LEMMA TailOfConcat ==
  ASSUME NEW S, NEW a \in Seq(S), NEW b \in Seq(S), a # <<>>
  PROVE  Tail(a) \o b = Tail(a \o b) /\ a \o b # <<>> /\ Head(a \o b) = Head(a)
<1> DEFINE t == Tail(a)
           x == t \o b
           c == a \o b
           y == Tail(c)
<1>1. /\ t \in Seq(S) /\ Len(t) = Len(a) - 1
      /\ \A i \in 1 .. Len(t) : t[i] = a[i + 1]
      /\ Len(a) \in Nat /\ Len(b) \in Nat /\ Len(a) > 0 /\ Len(t) \in Nat
  BY HeadTailProperties, LenProperties, EmptySeq
<1> HIDE DEF t
<1>2. /\ x \in Seq(S) /\ Len(x) = Len(t) + Len(b)
      /\ \A i \in 1 .. Len(t) + Len(b) :
           x[i] = IF i <= Len(t) THEN t[i] ELSE b[i - Len(t)]
  BY <1>1, ConcatProperties
<1>3. /\ c \in Seq(S) /\ Len(c) = Len(a) + Len(b)
      /\ \A i \in 1 .. Len(a) + Len(b) :
           c[i] = IF i <= Len(a) THEN a[i] ELSE b[i - Len(a)]
  BY ConcatProperties
<1> HIDE DEF x, c
<1>4. c # <<>>
  BY <1>1, <1>3, EmptySeq
<1>5. /\ y \in Seq(S) /\ Len(y) = Len(c) - 1
      /\ \A i \in 1 .. Len(y) : y[i] = c[i + 1]
  BY <1>3, <1>4, HeadTailProperties
<1> HIDE DEF y
<1>6. Len(x) = Len(y)
  BY <1>1, <1>2, <1>3, <1>5
<1>7. ASSUME NEW i \in 1 .. Len(x)
      PROVE  x[i] = y[i]
  <2>1. /\ i \in Int /\ i \in 1 .. Len(t) + Len(b) /\ i + 1 \in 1 .. Len(a) + Len(b)
        /\ i \in 1 .. Len(y)
    BY <1>1, <1>2, <1>6
  <2>2. y[i] = IF i + 1 <= Len(a) THEN a[i + 1] ELSE b[(i + 1) - Len(a)]
    BY <1>3, <1>5, <2>1
  <2>3. CASE i <= Len(t)
    <3>1. i \in 1 .. Len(t) /\ i + 1 <= Len(a)
      BY <1>1, <2>1, <2>3
    <3>2. QED
      BY <1>1, <1>2, <2>1, <2>2, <2>3, <3>1
  <2>4. CASE ~ (i <= Len(t))
    <3>1. ~ (i + 1 <= Len(a)) /\ (i + 1) - Len(a) = i - Len(t)
      BY <1>1, <2>1, <2>4
    <3>2. QED
      BY <1>2, <2>1, <2>2, <2>4, <3>1
  <2>5. QED
    BY <2>3, <2>4
<1>8. x = y
  BY <1>2, <1>5, <1>6, <1>7, SeqEqual
<1>9. Head(c) = Head(a)
  <2>1. c[1] = a[1]
    BY <1>1, <1>3
  <2>2. QED
    BY <1>1, <1>3, <1>4, <2>1
<1>10. QED
  BY <1>4, <1>8, <1>9 DEF x, y, c, t

(***************************************************************************)
(* Members of a set in a sequence.                                         *)
(***************************************************************************)
SomeIn(s, T) == \E i \in 1 .. Len(s) : s[i] \in T

OneIn(s, T) == \E i \in 1 .. Len(s) : /\ s[i] \in T
                                       /\ \A j \in 1 .. Len(s) : s[j] \in T => j = i

\* A head in T is an element in T.
LEMMA HeadIsIn ==
  ASSUME NEW S, NEW s \in Seq(S), s # <<>>, NEW T, Head(s) \in T
  PROVE  SomeIn(s, T)
<1>1. Len(s) \in Nat /\ Len(s) > 0
  BY LenProperties, EmptySeq
<1>2. Head(s) = s[1] /\ 1 \in 1 .. Len(s)
  BY <1>1
<1>3. QED
  BY <1>2 DEF SomeIn

\* Appending counts what it appends.
LEMMA AppendIn ==
  ASSUME NEW S, NEW s \in Seq(S), NEW x \in S, NEW T
  PROVE  /\ SomeIn(Append(s, x), T) <=> SomeIn(s, T) \/ x \in T
         /\ x \notin T => (OneIn(Append(s, x), T) <=> OneIn(s, T))
         /\ x \in T /\ ~ SomeIn(s, T) => OneIn(Append(s, x), T)
<1> DEFINE a == Append(s, x)
<1>1. /\ Len(s) \in Nat /\ Len(a) = Len(s) + 1
      /\ \A i \in 1 .. Len(s) : a[i] = s[i]
      /\ a[Len(s) + 1] = x
  BY AppendProperties, LenProperties
<1> HIDE DEF a
<1>2. \A i \in 1 .. Len(a) : i \in 1 .. Len(s) \/ i = Len(s) + 1
  BY <1>1
<1>3. /\ \A i \in 1 .. Len(s) : i \in 1 .. Len(a) /\ i # Len(s) + 1
      /\ Len(s) + 1 \in 1 .. Len(a)
  BY <1>1
<1>4. SomeIn(a, T) <=> SomeIn(s, T) \/ x \in T
  BY <1>1, <1>2, <1>3 DEF SomeIn
<1>5. ASSUME x \notin T
      PROVE  OneIn(a, T) <=> OneIn(s, T)
  BY <1>1, <1>2, <1>3, <1>5 DEF OneIn
<1>6. ASSUME x \in T, ~ SomeIn(s, T)
      PROVE  OneIn(a, T)
  BY <1>1, <1>2, <1>3, <1>6 DEF OneIn, SomeIn
<1>7. QED
  BY <1>4, <1>5, <1>6 DEF a

\* Dropping the head uncounts what it drops.
LEMMA TailIn ==
  ASSUME NEW S, NEW s \in Seq(S), s # <<>>, NEW T
  PROVE  /\ SomeIn(Tail(s), T) => SomeIn(s, T)
         /\ Head(s) \notin T => (SomeIn(Tail(s), T) <=> SomeIn(s, T))
         /\ Head(s) \notin T => (OneIn(Tail(s), T) <=> OneIn(s, T))
         /\ Head(s) \in T /\ OneIn(s, T) => ~ SomeIn(Tail(s), T)
<1> DEFINE t == Tail(s)
<1>1. /\ Len(s) \in Nat /\ Len(s) > 0 /\ Len(t) = Len(s) - 1
      /\ \A i \in 1 .. Len(t) : t[i] = s[i + 1]
  BY HeadTailProperties, LenProperties, EmptySeq
<1> HIDE DEF t
<1>2. Head(s) = s[1]
  BY <1>1
<1>3. /\ 1 \in 1 .. Len(s)
      /\ \A i \in 1 .. Len(t) : i + 1 \in 1 .. Len(s) /\ i + 1 # 1
      /\ \A i \in 1 .. Len(s) : i # 1 => i - 1 \in 1 .. Len(t) /\ (i - 1) + 1 = i
      /\ \A i, j \in 1 .. Len(t) : i + 1 = j + 1 => i = j
  BY <1>1
<1>4. SomeIn(t, T) => SomeIn(s, T)
  BY <1>1, <1>3 DEF SomeIn
<1>5. ASSUME s[1] \notin T, SomeIn(s, T)
      PROVE  SomeIn(t, T)
  <2>1. PICK i \in 1 .. Len(s) : s[i] \in T
    BY <1>5 DEF SomeIn
  <2>2. i - 1 \in 1 .. Len(t) /\ t[i - 1] = s[i]
    BY <1>1, <1>3, <1>5, <2>1
  <2>3. QED
    BY <2>1, <2>2 DEF SomeIn
<1>6. ASSUME s[1] \notin T, OneIn(s, T)
      PROVE  OneIn(t, T)
  <2>1. PICK i \in 1 .. Len(s) : s[i] \in T /\ \A j \in 1 .. Len(s) : s[j] \in T => j = i
    BY <1>6 DEF OneIn
  <2>2. i - 1 \in 1 .. Len(t) /\ t[i - 1] = s[i] /\ (i - 1) + 1 = i
    BY <1>1, <1>3, <1>6, <2>1
  <2>3. ASSUME NEW j \in 1 .. Len(t), t[j] \in T
        PROVE  j = i - 1
    <3>1. j + 1 = i
      BY <1>1, <1>3, <2>1, <2>3
    <3>2. QED
      BY <3>1, <1>3, <2>2
  <2>4. QED
    BY <2>1, <2>2, <2>3 DEF OneIn
<1>7. ASSUME s[1] \notin T, OneIn(t, T)
      PROVE  OneIn(s, T)
  <2>1. PICK i \in 1 .. Len(t) : t[i] \in T /\ \A j \in 1 .. Len(t) : t[j] \in T => j = i
    BY <1>7 DEF OneIn
  <2>2. i + 1 \in 1 .. Len(s) /\ s[i + 1] \in T
    BY <1>1, <1>3, <2>1
  <2>3. ASSUME NEW j \in 1 .. Len(s), s[j] \in T
        PROVE  j = i + 1
    <3>1. j # 1
      BY <1>7, <2>3
    <3>2. j - 1 \in 1 .. Len(t) /\ (j - 1) + 1 = j
      BY <1>3, <3>1
    <3>3. t[j - 1] \in T
      BY <1>1, <2>3, <3>2
    <3>4. j - 1 = i
      BY <2>1, <3>2, <3>3
    <3>5. QED
      BY <3>2, <3>4
  <2>4. QED
    BY <2>2, <2>3 DEF OneIn
<1>8. ASSUME s[1] \in T, OneIn(s, T), SomeIn(t, T)
      PROVE  FALSE
  <2>1. PICK i \in 1 .. Len(t) : t[i] \in T
    BY <1>8 DEF SomeIn
  <2>2. s[i + 1] \in T /\ i + 1 \in 1 .. Len(s) /\ i + 1 # 1
    BY <1>1, <1>3, <2>1
  <2>3. QED
    BY <1>3, <1>8, <2>2 DEF OneIn
<1>9. QED
  BY <1>2, <1>4, <1>5, <1>6, <1>7, <1>8 DEF t

(***************************************************************************)
(* The stream and the pipeline it carries.                                 *)
(***************************************************************************)
StreamOK(s) == s \in Stream /\ (s.state = "Open" <=> s.token # Failed)

\* A stream that is not open carries nothing.  One that is has sent the
\* handshake and then, once it was answered, the pipeline.
Carries(pipe, s) ==
  /\ s.state # "Open" => /\ s.wire = <<>> /\ s.replies = <<>>
                         /\ ~ s.handshake /\ ~ s.idle
  /\ s.state = "Open" /\ ~ s.handshake => s.replies \o s.wire = <<Handshake>>
  /\ s.handshake => s.replies \o s.wire = WritesOf(pipe)
  /\ s.idle => pipe = <<>>

\* A stream is started for a pipeline with something to send, which it keeps
\* until the handshake is complete.
StartedFor(pipe, s) == IsStarted(s) /\ ~ s.handshake => pipe # <<>>

NeedsStarted(pipe, s) == pipe # <<>> => IsStarted(s)

StreamInv(pipe, s) ==
  StreamOK(s) /\ Carries(pipe, s) /\ StartedFor(pipe, s) /\ NeedsStarted(pipe, s)

\* The types of a stream's fields.
LEMMA StreamFields ==
  ASSUME NEW s \in Stream
  PROVE  /\ s.state \in {"Initial", "Starting", "Open", "Error", "Backoff"}
         /\ s.handshake \in BOOLEAN
         /\ s.idle \in BOOLEAN
         /\ s.close \in Nat
         /\ s.token \in Users \cup {Failed}
         /\ s.wire \in Seq(Message)
         /\ s.replies \in Seq(Message)
  BY DEF Stream

\* A closed stream carries nothing.
LEMMA ClosedFacts ==
  ASSUME NEW s \in Stream, NEW state \in {"Initial", "Error"}, NEW pipe
  PROVE  /\ StreamOK(Closed(s, state))
         /\ Carries(pipe, Closed(s, state))
         /\ StartedFor(pipe, Closed(s, state))
         /\ Closed(s, state).close = s.close + 1
         /\ Closed(s, state).state = state
<1> DEFINE c == Closed(s, state)
<1>1. /\ c.state = state /\ c.handshake = FALSE /\ c.idle = FALSE
      /\ c.close = s.close + 1 /\ c.token = Failed
      /\ c.wire = <<>> /\ c.replies = <<>>
  BY DEF Closed, NewStream
<1>2. s.close + 1 \in Nat
  BY StreamFields
<1>3. <<>> \in Seq(Message)
  BY EmptySeq
<1>4. c \in Stream
  BY <1>2, <1>3 DEF Closed, NewStream, Stream
<1>5. QED
  BY <1>1, <1>4 DEF StreamOK, Carries, StartedFor, IsStarted

\* A new stream is fit for any pipeline.
LEMMA NewStreamFacts ==
  ASSUME NEW pipe
  PROVE  StreamOK(NewStream) /\ Carries(pipe, NewStream) /\ StartedFor(pipe, NewStream)
<1>1. <<>> \in Seq(Message)
  BY EmptySeq
<1>2. NewStream \in Stream
  BY <1>1 DEF NewStream, Stream
<1>3. QED
  BY <1>2 DEF NewStream, StreamOK, Carries, StartedFor, IsStarted

\* Starting changes the state alone.
LEMMA StartFacts ==
  ASSUME NEW s, StreamOK(s), ~ IsStarted(s), NEW pipe, Carries(pipe, s),
         NEW f, f # <<>>
  PROVE  StreamInv(f, Start(s)) /\ Start(s).close = s.close
<1> DEFINE c == Start(s)
<1>1. s \in Stream
  BY DEF StreamOK
<1>2. c = [s EXCEPT !.state = IF s.state = "Error" THEN "Backoff" ELSE "Starting"]
  BY DEF Start
<1>3. /\ c \in Stream
      /\ c.state \in {"Backoff", "Starting"}
      /\ c.handshake = s.handshake /\ c.idle = s.idle /\ c.close = s.close
      /\ c.token = s.token /\ c.wire = s.wire /\ c.replies = s.replies
  BY <1>1, <1>2 DEF Stream
<1>4. s.state # "Open"
  BY DEF IsStarted
<1>5. StreamOK(c)
  BY <1>3, <1>4 DEF StreamOK
<1>6. Carries(f, c)
  BY <1>3, <1>4 DEF Carries
<1>7. StartedFor(f, c) /\ NeedsStarted(f, c)
  BY <1>3 DEF StartedFor, NeedsStarted, IsStarted
<1>8. QED
  BY <1>3, <1>5, <1>6, <1>7 DEF StreamInv

\* Sending appends to what is on its way to the backend.
LEMMA SendFacts ==
  ASSUME NEW s \in Stream, NEW m \in Seq(Message)
  PROVE  /\ Send(s, m) \in Stream
         /\ Send(s, m).state = s.state
         /\ Send(s, m).handshake = s.handshake
         /\ Send(s, m).close = s.close
         /\ Send(s, m).token = s.token
         /\ Send(s, m).replies = s.replies
         /\ Send(s, m).replies \o Send(s, m).wire = (s.replies \o s.wire) \o m
         /\ Send(s, m).wire = s.wire \o m
         /\ Send(s, m).idle = (s.idle /\ m = <<>>)
<1> DEFINE c == Send(s, m)
<1>1. s.wire \in Seq(Message) /\ s.replies \in Seq(Message) /\ s.idle \in BOOLEAN
  BY DEF Stream
<1>2. s.wire \o m \in Seq(Message)
  BY <1>1, ConcatProperties
<1>3. (s.idle /\ m = <<>>) \in BOOLEAN
  OBVIOUS
<1>4. c = [s EXCEPT !.wire = s.wire \o m, !.idle = (s.idle /\ m = <<>>)]
  BY DEF Send
<1>5. c \in Stream
  BY <1>2, <1>3, <1>4 DEF Stream
<1>6. /\ c.state = s.state /\ c.handshake = s.handshake /\ c.close = s.close
      /\ c.token = s.token /\ c.replies = s.replies /\ c.wire = s.wire \o m
      /\ c.idle = (s.idle /\ m = <<>>)
  BY <1>4 DEF Stream
<1>7. c.replies \o c.wire = (s.replies \o s.wire) \o m
  <2>1. \A x, y, z \in Seq(Message) : (x \o y) \o z = x \o (y \o z)
    BY ConcatAssociative
  <2>2. (s.replies \o s.wire) \o m = s.replies \o (s.wire \o m)
    BY <1>1, <2>1, Zenon
  <2> HIDE DEF c
  <2>3. QED
    BY <1>6, <2>2, Zenon
<1>8. QED
  BY <1>5, <1>6, <1>7

\* Filling a pipeline that the stream carries leaves a stream that is started
\* if it is needed and carries the filled pipeline.
LEMMA FilledStreamFacts ==
  ASSUME NEW f \in Seq(Batch), NEW n \in 0 .. Len(f),
         NEW s, StreamOK(s), Carries(SubSeq(f, 1, n), s), StartedFor(SubSeq(f, 1, n), s)
  PROVE  /\ StreamInv(f, FilledStream(SubSeq(f, 1, n), f, s))
         /\ FilledStream(SubSeq(f, 1, n), f, s).close = s.close
<1> DEFINE pipe == SubSeq(f, 1, n)
           next == FilledStream(pipe, f, s)
<1>1. s \in Stream
  BY DEF StreamOK
<1>2. Len(f) \in Nat /\ pipe \in Seq(Batch) /\ Len(pipe) = n
  <2>1. Len(f) \in Nat
    BY LenProperties
  <2>2. 1 \in 1 .. Len(f) + 1 /\ n \in 1 - 1 .. Len(f)
    BY <2>1
  <2>3. pipe \in Seq(Batch) /\ Len(pipe) = n - 1 + 1
    BY <2>2, SliceFacts
  <2> HIDE DEF pipe
  <2>4. QED
    BY <2>1, <2>3
<1>3. Carries(pipe, s) /\ StartedFor(pipe, s)
  OBVIOUS
<1>4. f = <<>> => pipe = <<>>
  BY <1>2, EmptySeq
<1>5. CASE f = <<>>
  <2>1. next = [s EXCEPT !.idle = s.idle \/ s.state = "Open"]
    BY <1>5 DEF FilledStream
  <2>2. /\ next \in Stream
        /\ next.state = s.state /\ next.handshake = s.handshake
        /\ next.close = s.close /\ next.token = s.token
        /\ next.wire = s.wire /\ next.replies = s.replies
        /\ next.idle = (s.idle \/ s.state = "Open")
    BY <1>1, <2>1 DEF Stream
  <2> HIDE DEF next
  <2>3. pipe = f
    BY <1>4, <1>5
  <2> HIDE DEF pipe
  <2>4. StreamOK(next)
    BY <2>2 DEF StreamOK
  <2>5. Carries(f, next) /\ StartedFor(f, next) /\ NeedsStarted(f, next)
    BY <1>3, <1>5, <2>2, <2>3 DEF Carries, StartedFor, NeedsStarted, IsStarted
  <2>6. QED
    BY <2>2, <2>4, <2>5 DEF StreamInv, next, pipe
<1>6. CASE f # <<>> /\ ~ IsStarted(s)
  <2>1. next = Start(s)
    BY <1>6 DEF FilledStream
  <2>2. QED
    BY <1>3, <1>6, <2>1, StartFacts
<1>7. CASE f # <<>> /\ IsStarted(s) /\ s.state = "Open" /\ s.handshake
  <2> DEFINE m == WritesOf(SubSeq(f, n + 1, Len(f)))
  <2>1. next = Send(s, m)
    BY <1>2, <1>7 DEF FilledStream
  <2>2. SubSeq(f, n + 1, Len(f)) \in Seq(Batch) /\ WritesOf(pipe) \o m = WritesOf(f)
    BY WritesOfParts
  <2>3. m \in Seq(Message)
    BY <2>2, WritesOfFacts
  <2> HIDE DEF m
  <2>4. /\ next \in Stream
        /\ next.state = s.state /\ next.handshake = s.handshake
        /\ next.close = s.close /\ next.token = s.token
        /\ next.replies \o next.wire = (s.replies \o s.wire) \o m
        /\ next.idle = (s.idle /\ m = <<>>)
    <3> HIDE DEF next
    <3>1. QED
      BY <1>1, <2>1, <2>3, SendFacts, Zenon
  <2> HIDE DEF next, pipe
  <2>5. s.replies \o s.wire = WritesOf(pipe)
    BY <1>3, <1>7 DEF Carries
  <2>6. next.replies \o next.wire = WritesOf(f)
    BY <2>2, <2>4, <2>5
  <2>7. ~ next.idle
    <3>1. CASE pipe = <<>>
      <4>1. WritesOf(pipe) = <<>> /\ WritesOf(f) # <<>>
        BY <1>2, <1>7, <3>1, WritesOfFacts
      <4>2. m # <<>>
        BY <2>2, <2>3, <4>1, ConcatEmptySeq
      <4>3. QED
        BY <2>4, <4>2
    <3>2. CASE pipe # <<>>
      BY <1>3, <2>4, <3>2 DEF Carries
    <3>3. QED
      BY <3>1, <3>2
  <2>8. StreamOK(next)
    BY <2>4 DEF StreamOK
  <2>9. Carries(f, next) /\ StartedFor(f, next) /\ NeedsStarted(f, next)
    BY <1>7, <2>4, <2>6, <2>7 DEF Carries, StartedFor, NeedsStarted, IsStarted
  <2>10. QED
    BY <2>4, <2>8, <2>9 DEF StreamInv, next, pipe
<1>8. CASE f # <<>> /\ IsStarted(s) /\ ~ (s.state = "Open" /\ s.handshake)
  <2>1. next = s
    BY <1>8 DEF FilledStream
  <2> HIDE DEF next, pipe
  <2>2. ~ s.handshake
    BY <1>3, <1>8 DEF Carries
  <2>3. pipe # <<>>
    BY <1>3, <1>8, <2>2 DEF StartedFor
  <2>4. ~ s.idle
    BY <1>3, <2>3 DEF Carries
  <2>5. Carries(f, s) /\ StartedFor(f, s) /\ NeedsStarted(f, s)
    BY <1>3, <1>8, <2>2, <2>4 DEF Carries, StartedFor, NeedsStarted
  <2>6. QED
    BY <2>1, <2>5 DEF StreamInv, next, pipe
<1>9. QED
  BY <1>5, <1>6, <1>7, <1>8

\* The first batches of the front are the first batches of the queue.
LEMMA PartOfFront ==
  ASSUME NEW q \in Seq(Batch), NEW n \in 0 .. FrontLen(q)
  PROVE  SubSeq(InPipeline(q), 1, n) = SubSeq(q, 1, n)
<1> DEFINE f == InPipeline(q)
           a == SubSeq(f, 1, n)
           b == SubSeq(q, 1, n)
<1>1. /\ FrontLen(q) \in 0 .. Len(q) /\ Len(q) \in Nat
      /\ f \in Seq(Batch) /\ Len(f) = FrontLen(q)
      /\ \A i \in 1 .. FrontLen(q) : f[i] = q[i]
  BY FrontFacts, LenProperties
<1> HIDE DEF f
<1>2. /\ 1 \in 1 .. Len(f) + 1 /\ n \in 1 - 1 .. Len(f)
      /\ 1 \in 1 .. Len(q) + 1 /\ n \in 1 - 1 .. Len(q)
  BY <1>1
<1>3. /\ a \in Seq(Batch) /\ Len(a) = n - 1 + 1
      /\ \A i \in 1 .. n - 1 + 1 : a[i] = f[1 + i - 1]
  BY <1>1, <1>2, SliceFacts
<1>4. /\ b \in Seq(Batch) /\ Len(b) = n - 1 + 1
      /\ \A i \in 1 .. n - 1 + 1 : b[i] = q[1 + i - 1]
  BY <1>2, SliceFacts
<1> HIDE DEF a, b
<1>5. n - 1 + 1 = n /\ \A i \in 1 .. n : 1 + i - 1 = i /\ i \in 1 .. FrontLen(q)
  BY <1>1
<1>6. \A i \in 1 .. Len(a) : a[i] = b[i]
  BY <1>1, <1>3, <1>4, <1>5
<1>7. a = b
  BY <1>3, <1>4, <1>6, SeqEqual
<1>8. QED
  BY <1>7 DEF a, b, f

(***************************************************************************)
(* The inductive invariant.                                                *)
(***************************************************************************)
Task == [kind : {"write"}, write : Writes]
        \cup [kind : {"changed"}, user : Users]
        \cup [kind : {"token"}, close : Nat, user : Users \cup {Failed}]

\* Every queue is in the order of its ids, all of them given before.
QueuesInOrder ==
  /\ \A u \in Users : Ordered(queue[u])
  /\ IdsBelow(queue, nextId)
  /\ 0 < nextId

\* What holds in every state: batches are in order, the pipeline is the front
\* of the current queue, and the stream carries it.
PipelineInv ==
  /\ TypeOK
  /\ tasks \in Seq(Task)
  /\ QueuesInOrder
  /\ pipeline = InPipeline(queue[user])
  /\ StreamInv(pipeline, stream)

\* GetToken calls of a start, under way, answered and enqueued ...
CallsOf(k)   == {c \in TokenCall : c.close = k}
AnswersOf(k) == {m \in MainBlock : m.kind = "token" /\ m.call.close = k}
TokensOf(k)  == {t \in Task : t.kind = "token" /\ t.close = k}

\* ... and of the starts after it.
CallsAfter(k)   == {c \in TokenCall : c.close > k}
AnswersAfter(k) == {m \in MainBlock : m.kind = "token" /\ m.call.close > k}
TokensAfter(k)  == {t \in Task : t.kind = "token" /\ t.close > k}

NoneAfter(cs, ms, ts, k) ==
  /\ cs \cap CallsAfter(k) = {}
  /\ ~ SomeIn(ms, AnswersAfter(k))
  /\ ~ SomeIn(ts, TokensAfter(k))

NoneAwaited(cs, ms, ts, k) ==
  /\ cs \cap CallsOf(k) = {}
  /\ ~ SomeIn(ms, AnswersOf(k))
  /\ ~ SomeIn(ts, TokensOf(k))

OneCall(cs, ms, ts, k) ==
  /\ \E c \in cs : cs \cap CallsOf(k) = {c}
  /\ ~ SomeIn(ms, AnswersOf(k))
  /\ ~ SomeIn(ts, TokensOf(k))

OneAnswer(cs, ms, ts, k) ==
  /\ cs \cap CallsOf(k) = {}
  /\ OneIn(ms, AnswersOf(k))
  /\ ~ SomeIn(ts, TokensOf(k))

OneToken(cs, ms, ts, k) ==
  /\ cs \cap CallsOf(k) = {}
  /\ ~ SomeIn(ms, AnswersOf(k))
  /\ OneIn(ts, TokensOf(k))

Awaits(cs, ms, ts, k, state) ==
  IF state = "Starting"
  THEN OneCall(cs, ms, ts, k) \/ OneAnswer(cs, ms, ts, k) \/ OneToken(cs, ms, ts, k)
  ELSE NoneAwaited(cs, ms, ts, k)

\* No call is of a start to come.  One is of the current start while the stream
\* is starting, and none otherwise.
AwaitInv ==
  /\ NoneAfter(calls, main, tasks, stream.close)
  /\ Awaits(calls, main, tasks, stream.close, stream.state)

\* Tasks fit the queue Credentials declares.
LEMMA TaskType == Seq(Task) \subseteq Seq(WorkerTask)
<1>1. Writes \subseteq Nat
  BY DEF Writes
<1>2. Task \subseteq WorkerTask
  BY <1>1 DEF Task, WorkerTask
<1>3. QED
  BY <1>2, SeqMonotonic

\* A start asks for a token with a call of the right type.
LEMMA GetTokenType ==
  ASSUME counter \in Nat, calls \in SUBSET TokenCall, NEW s \in Stream
  PROVE  /\ GetToken(s.close) \in TokenCall
         /\ calls \cup Asks(s) \in SUBSET TokenCall
<1>1. s.close \in Nat
  BY StreamFields
<1>2. GetToken(s.close) \in TokenCall
  BY <1>1 DEF GetToken, TokenCall
<1>3. QED
  BY <1>2 DEF Asks

\* Filling makes the pipeline the front of the queue it is filled from.
LEMMA FillStep ==
  ASSUME counter \in Nat, calls \in SUBSET TokenCall,
         NEW q \in Seq(Batch), Ordered(q), NEW n \in 0 .. FrontLen(q),
         NEW pipe, pipe = SubSeq(q, 1, n),
         NEW s, StreamOK(s), Carries(pipe, s), StartedFor(pipe, s),
         FillWritePipeline(pipe, q, s)
  PROVE  /\ pipeline' = InPipeline(q)
         /\ pipeline' \in Seq(Batch)
         /\ StreamInv(pipeline', stream')
         /\ stream'.close = s.close
         /\ calls' \in SUBSET TokenCall
<1> DEFINE f == InPipeline(q)
           next == FilledStream(pipe, f, s)
<1>1. f \in Seq(Batch) /\ n \in 0 .. Len(f)
  BY FrontFacts
<1>2. Filled(pipe, q) = f
  BY FilledIsFront
<1>3. pipeline' = f /\ stream' = next /\ calls' = calls \cup Asks(next)
  BY <1>2, Zenon DEF FillWritePipeline
<1>4. pipe = SubSeq(f, 1, n)
  BY PartOfFront, Zenon
<1>5. StreamInv(f, next) /\ next.close = s.close
  <2> HIDE DEF f
  <2>1. /\ StreamInv(f, FilledStream(SubSeq(f, 1, n), f, s))
        /\ FilledStream(SubSeq(f, 1, n), f, s).close = s.close
    BY <1>1, <1>4, FilledStreamFacts, Zenon
  <2>2. QED
    BY <1>4, <2>1, Zenon
<1>6. next \in Stream
  BY <1>5 DEF StreamInv, StreamOK
<1> HIDE DEF f, next
<1>7. calls \cup Asks(next) \in SUBSET TokenCall
  BY <1>6, GetTokenType
<1>8. QED
  BY <1>1, <1>3, <1>5, <1>7, Zenon DEF f

\* Settling takes the head off the queue and the pipeline and refills it.
LEMMA SettleStep ==
  ASSUME PipelineInv, pipeline # <<>>,
         NEW s, StreamOK(s), Carries(Tail(pipeline), s), StartedFor(Tail(pipeline), s),
         Settle(s)
  PROVE  /\ queue' = [queue EXCEPT ![user] = Tail(queue[user])]
         /\ queue' \in [Users -> Seq(Batch)]
         /\ queue[user] # <<>>
         /\ Head(pipeline) = Head(queue[user])
         /\ callbacks' = {c \in callbacks : c.user # user \/ c.id # Head(pipeline).id}
         /\ \A u \in Users : Ordered(queue'[u])
         /\ IdsBelow(queue', nextId)
         /\ pipeline' = InPipeline(queue'[user])
         /\ pipeline' \in Seq(Batch)
         /\ StreamInv(pipeline', stream')
         /\ stream'.close = s.close
         /\ calls' \in SUBSET TokenCall
<1> DEFINE Q == queue[user]
           q == [queue EXCEPT ![user] = Without(Q, Head(pipeline).id)]
<1>1. /\ user \in Users /\ queue \in [Users -> Seq(Batch)]
      /\ counter \in Nat /\ calls \in SUBSET TokenCall /\ nextId \in Nat
      /\ Q \in Seq(Batch) /\ Ordered(Q)
      /\ pipeline = InPipeline(Q)
  BY DEF PipelineInv, TypeOK, CredentialsTypeOK, QueuesInOrder
<1> HIDE DEF Q
<1>2. Q # <<>>
  BY <1>1, FrontFacts
<1>3. /\ Head(pipeline) = Head(Q)
      /\ Tail(pipeline) = SubSeq(Tail(Q), 1, FrontLen(Q) - 1)
      /\ FrontLen(Q) - 1 \in 0 .. FrontLen(Tail(Q))
  BY <1>1, <1>2, FrontOfTail, Zenon
<1>4. /\ Without(Q, Head(pipeline).id) = Tail(Q)
      /\ Tail(Q) \in Seq(Batch)
      /\ Ordered(Tail(Q))
  BY <1>1, <1>2, <1>3, WithoutHead, Zenon
<1>5. /\ queue' = q
      /\ callbacks' = {c \in callbacks : c.user # user \/ c.id # Head(pipeline).id}
      /\ FillWritePipeline(Tail(pipeline), q[user], s)
  BY Zenon DEF Settle, Q
<1>6. q = [queue EXCEPT ![user] = Tail(Q)]
  BY <1>4, Zenon
<1>7. q[user] = Tail(Q) /\ \A u \in Users : u # user => q[u] = queue[u]
  BY <1>1, <1>6
<1>8. q \in [Users -> Seq(Batch)]
  BY <1>1, <1>4, <1>6
<1> HIDE DEF q
<1>9. FillWritePipeline(Tail(pipeline), Tail(Q), s)
  BY <1>5, <1>7, Zenon
<1>10. /\ pipeline' = InPipeline(Tail(Q))
       /\ pipeline' \in Seq(Batch)
       /\ StreamInv(pipeline', stream')
       /\ stream'.close = s.close
       /\ calls' \in SUBSET TokenCall
  BY <1>1, <1>3, <1>4, <1>9, FillStep, Zenon
<1>11. \A u \in Users : Ordered(queue'[u])
  BY <1>4, <1>5, <1>7, Zenon DEF PipelineInv, QueuesInOrder
<1>12. IdsBelow(queue', nextId)
  <2>1. /\ Len(Q) \in Nat
        /\ Len(Tail(Q)) = Len(Q) - 1
        /\ \A i \in 1 .. Len(Tail(Q)) : Tail(Q)[i] = Q[i + 1]
    BY <1>1, <1>2, HeadTailProperties, LenProperties
  <2>2. \A i \in 1 .. Len(Q) : Q[i].id < nextId
    BY <1>1 DEF PipelineInv, QueuesInOrder, IdsBelow, Q
  <2>3. \A i \in 1 .. Len(Tail(Q)) : Tail(Q)[i].id < nextId
    BY <2>1, <2>2
  <2>4. \A u \in Users : \A i \in 1 .. Len(queue[u]) : queue[u][i].id < nextId
    BY DEF PipelineInv, QueuesInOrder, IdsBelow
  <2>5. ASSUME NEW u \in Users, NEW i \in 1 .. Len(queue'[u])
        PROVE  queue'[u][i].id < nextId
    <3>1. CASE u = user
      <4>1. queue'[u] = Tail(Q)
        BY <1>5, <1>7, <3>1, Zenon
      <4>2. QED
        BY <2>3, <4>1
    <3>2. CASE u # user
      <4>1. queue'[u] = queue[u]
        BY <1>5, <1>7, <3>2, Zenon
      <4>2. QED
        BY <2>4, <4>1
    <3>3. QED
      BY <3>1, <3>2
  <2>6. QED
    BY <2>5 DEF IdsBelow
<1>13. QED
  BY <1>2, <1>3, <1>5, <1>6, <1>7, <1>8, <1>10, <1>11, <1>12, Zenon DEF Q

(***************************************************************************)
(* Every step preserves the invariant.                                     *)
(***************************************************************************)

\* What the invariant is made of, taken apart.
LEMMA PipelineInvFacts ==
  ASSUME PipelineInv
  PROVE  /\ auth \in Users /\ counter \in Nat /\ calls \in SUBSET TokenCall
         /\ main \in Seq(MainBlock) /\ tasks \in Seq(Task)
         /\ changes \in Nat /\ refreshes \in Nat
         /\ user \in Users /\ queue \in [Users -> Seq(Batch)] /\ nextId \in Nat
         /\ callbacks \in SUBSET [user : Users, id : Nat, write : Writes]
         /\ pipeline \in Seq(Batch)
         /\ committed \in SUBSET (Users \X Writes)
         /\ made \in 0 .. MaxWrites /\ faults \in Nat
         /\ stream \in Stream /\ StreamOK(stream) /\ Carries(pipeline, stream)
         /\ StartedFor(pipeline, stream) /\ NeedsStarted(pipeline, stream)
         /\ QueuesInOrder
         /\ pipeline = InPipeline(queue[user])
  BY DEF PipelineInv, TypeOK, CredentialsTypeOK, StreamInv, StreamOK

\* What a step has to show for the invariant.
LEMMA PipelineInvParts ==
  ASSUME auth' \in Users, counter' \in Nat, calls' \in SUBSET TokenCall,
         main' \in Seq(MainBlock), tasks' \in Seq(Task),
         changes' \in Nat, refreshes' \in Nat,
         user' \in Users, queue' \in [Users -> Seq(Batch)], nextId' \in Nat,
         callbacks' \in SUBSET [user : Users, id : Nat, write : Writes],
         pipeline' \in Seq(Batch), committed' \in SUBSET (Users \X Writes),
         made' \in 0 .. MaxWrites, faults' \in Nat,
         StreamInv(pipeline', stream'), QueuesInOrder', pipeline' = InPipeline(queue'[user'])
  PROVE  PipelineInv'
<1>1. tasks' \in Seq(WorkerTask)
  BY TaskType
<1>2. StreamOK(stream')
  BY DEF StreamInv
<1>3. TypeOK'
  BY <1>1, <1>2 DEF TypeOK, CredentialsTypeOK, StreamOK
<1>4. QED
  BY <1>3, Zenon DEF PipelineInv

\* The threads around the worker queue keep their part of the types.
LEMMA CredentialsStep ==
  ASSUME auth \in Users, counter \in Nat, calls \in SUBSET TokenCall,
         main \in Seq(MainBlock), tasks \in Seq(Task),
         changes \in Nat, refreshes \in Nat,
         CredentialsNext
  PROVE  /\ auth' \in Users /\ counter' \in Nat /\ calls' \in SUBSET TokenCall
         /\ main' \in Seq(MainBlock) /\ tasks' \in Seq(Task)
         /\ changes' \in Nat /\ refreshes' \in Nat
<1>1. \A u \in Users : Changed(u) \in MainBlock /\ Changed(u) \in Task
  BY DEF Changed, MainBlock, Task
<1>2. \A c \in TokenCall, u \in Users \cup {Failed} : Answer(c, u) \in MainBlock
  BY DEF Answer, MainBlock
<1>3. \A m \in MainBlock : main' = Append(main, m) => main' \in Seq(MainBlock)
  BY AppendProperties
<1>4. \A t \in Task : tasks' = Append(tasks, t) => tasks' \in Seq(Task)
  BY AppendProperties
<1>5. main # <<>> => Head(main) \in MainBlock /\ Tail(main) \in Seq(MainBlock)
  BY HeadTailProperties
<1>6. CASE \E u \in Users : UpdateCurrentUser(u)
  BY <1>1, <1>3, <1>6 DEF UpdateCurrentUser
<1>7. CASE \E c \in calls : GiveToken(c)
  BY <1>2, <1>3, <1>7 DEF GiveToken
<1>8. CASE \E c \in calls : StartRefresh(c)
  <2>1. PICK c \in calls : StartRefresh(c)
    BY <1>8
  <2>2. [c EXCEPT !.user = auth] \in TokenCall
    BY DEF TokenCall
  <2>3. QED
    BY <2>1, <2>2 DEF StartRefresh
<1>9. CASE \E c \in calls : FinishRefresh(c)
  <2>1. PICK c \in calls : FinishRefresh(c)
    BY <1>9
  <2>2. c \in TokenCall /\ c.user \in Users \cup {Failed}
    BY DEF TokenCall
  <2>3. Answer(c, c.user) \in MainBlock /\ Answer(c, Failed) \in MainBlock
    BY <1>2, <2>2
  <2> DEFINE h == IF c.user = auth THEN <<Changed(auth)>> ELSE <<>>
  <2>4. h \in Seq(MainBlock) /\ <<Answer(c, c.user)>> \in Seq(MainBlock)
    BY <1>1, <2>3
  <2>5. main \o h \in Seq(MainBlock)
    BY <2>4, ConcatProperties
  <2>6. (main \o h) \o <<Answer(c, c.user)>> \in Seq(MainBlock)
    BY <2>4, <2>5, ConcatProperties
  <2>7. main' \in Seq(MainBlock)
    BY <1>3, <2>1, <2>3, <2>6 DEF FinishRefresh
  <2>8. QED
    BY <2>1, <2>7 DEF FinishRefresh
<1>10. CASE NotifyChange
  <2>1. Head(main).user \in Users
    BY <1>5, <1>10 DEF NotifyChange, MainBlock
  <2>2. QED
    BY <1>1, <1>4, <1>5, <1>10, <2>1 DEF NotifyChange
<1>11. CASE AnswerToken
  <2> DEFINE a == Head(main)
             t == [kind |-> "token", close |-> a.call.close,
                   user |-> IF a.call.counter = counter THEN a.user ELSE Failed]
  <2>1. a \in MainBlock /\ a.kind = "token"
    BY <1>5, <1>11 DEF AnswerToken
  <2>2. a.call \in TokenCall /\ a.user \in Users \cup {Failed}
    BY <2>1 DEF MainBlock
  <2>3. a.call.close \in Nat
    BY <2>2 DEF TokenCall
  <2>4. t \in Task
    BY <2>2, <2>3 DEF Task
  <2>5. tasks' = Append(tasks, t)
    BY <1>11 DEF AnswerToken
  <2>6. QED
    BY <1>4, <1>5, <1>11, <2>4, <2>5 DEF AnswerToken
<1>12. QED
  BY <1>6, <1>7, <1>8, <1>9, <1>10, <1>11 DEF CredentialsNext

\* The worker takes the head off its queue.
LEMMA RunsFacts ==
  ASSUME tasks \in Seq(Task), NEW kind, Runs(kind)
  PROVE  /\ Head(tasks) \in Task /\ Head(tasks).kind = kind
         /\ tasks' \in Seq(Task)
         /\ UNCHANGED <<auth, counter, main, changes, refreshes, made>>
  BY HeadTailProperties DEF Runs, otherThreads

\* Queues that did not change, and ids that did not go back, stay in order.
LEMMA QueuesKept ==
  ASSUME QueuesInOrder, UNCHANGED <<queue, nextId>>
  PROVE  QueuesInOrder'
  BY DEF QueuesInOrder, Ordered, IdsBelow

\* A stream closed on an error is fit for the pipeline it leaves.
LEMMA CloseOnErrorStep ==
  ASSUME PipelineInv, CloseOnError
  PROVE  /\ StreamInv(pipeline', stream')
         /\ stream'.close = stream.close + 1
         /\ UNCHANGED <<calls, pipeline, queue, callbacks>>
<1> DEFINE c == Closed(stream, "Error")
<1>1. stream \in Stream
  BY PipelineInvFacts
<1>2. /\ StreamOK(c) /\ Carries(pipeline, c) /\ StartedFor(pipeline, c)
      /\ c.close = stream.close + 1 /\ c.state = "Error"
  BY <1>1, ClosedFacts
<1>3. /\ stream' = IF pipeline # <<>> THEN Start(c) ELSE c
      /\ UNCHANGED <<calls, pipeline, queue, callbacks>>
  BY DEF CloseOnError
<1> HIDE DEF c
<1>4. CASE pipeline # <<>>
  <2>1. ~ IsStarted(c)
    BY <1>2 DEF IsStarted
  <2>2. StreamInv(pipeline, Start(c)) /\ Start(c).close = c.close
    BY <1>2, <1>4, <2>1, StartFacts
  <2>3. QED
    BY <1>2, <1>3, <1>4, <2>2
<1>5. CASE pipeline = <<>>
  BY <1>2, <1>3, <1>5 DEF StreamInv, NeedsStarted
<1>6. QED
  BY <1>4, <1>5

\* The invariant holds at the start.
LEMMA InitInv ==
  ASSUME Init
  PROVE  PipelineInv
<1>1. <<>> \in Seq(Batch) /\ <<>> \in Seq(MainBlock) /\ <<>> \in Seq(Task)
  BY EmptySeq
<1>2. Seq(Task) \subseteq Seq(WorkerTask)
  BY TaskType
<1>3. Anonymous \in Users /\ MaxWrites \in Nat
  BY CredentialsAssumption, PipelineAssumption
<1>4. StreamOK(NewStream) /\ Carries(<<>>, NewStream) /\ StartedFor(<<>>, NewStream)
  BY NewStreamFacts
<1>5. NewStream \in Stream /\ (NewStream.state = "Open" <=> NewStream.token # Failed)
  BY <1>4 DEF StreamOK
<1>6. queue[user] = <<>>
  BY <1>3 DEF Init, CredentialsInit
<1>7. TypeOK
  BY <1>1, <1>2, <1>3, <1>5 DEF Init, CredentialsInit, TypeOK, CredentialsTypeOK
<1>8. QueuesInOrder
  BY DEF Init, QueuesInOrder, Ordered, IdsBelow
<1>9. InPipeline(<<>>) = <<>>
  BY <1>1, FrontFacts
<1>10. StreamInv(pipeline, stream)
  BY <1>4 DEF Init, StreamInv, NeedsStarted
<1>11. tasks \in Seq(Task) /\ pipeline = InPipeline(queue[user])
  BY <1>1, <1>6, <1>9 DEF Init, CredentialsInit
<1>12. QED
  BY <1>7, <1>8, <1>10, <1>11 DEF PipelineInv

\* A write enqueued leaves the pipeline as it was.
LEMMA MakeWriteInv ==
  ASSUME PipelineInv, MakeWrite
  PROVE  PipelineInv'
<1> USE PipelineInvFacts
<1>1. made + 1 \in Writes /\ made + 1 \in 0 .. MaxWrites
  BY PipelineAssumption DEF MakeWrite, Writes
<1>2. [kind |-> "write", write |-> made + 1] \in Task
  BY <1>1 DEF Task
<1>3. tasks' \in Seq(Task)
  BY <1>2, AppendProperties DEF MakeWrite
<1>4. UNCHANGED <<auth, counter, main, changes, refreshes, calls, user, queue,
                  nextId, callbacks, pipeline, stream, committed, faults>>
  BY DEF MakeWrite, otherThreads, disk
<1>5. QueuesInOrder'
  BY <1>4, QueuesKept
<1>6. made' \in 0 .. MaxWrites
  BY <1>1 DEF MakeWrite
<1>7. StreamInv(pipeline', stream')
  BY <1>4 DEF StreamInv
<1>8. QED
  BY <1>3, <1>4, <1>5, <1>6, <1>7, PipelineInvParts

\* A batch added to the queue fills the pipeline when there is room.
LEMMA WriteMutationsInv ==
  ASSUME PipelineInv, WriteMutations
  PROVE  PipelineInv'
<1> DEFINE b == [id |-> nextId, write |-> Head(tasks).write]
           Q == queue[user]
           q == [queue EXCEPT ![user] = Append(Q, b)]
<1>1. /\ Head(tasks) \in Task /\ Head(tasks).kind = "write"
      /\ tasks' \in Seq(Task)
      /\ UNCHANGED <<auth, counter, main, changes, refreshes, made>>
  BY PipelineInvFacts, RunsFacts DEF WriteMutations
<1>2. b \in Batch /\ b.id = nextId /\ b.write \in Writes
  BY <1>1, PipelineInvFacts DEF Task, Batch
<1>3. /\ Q \in Seq(Batch) /\ Ordered(Q) /\ pipeline = InPipeline(Q)
      /\ \A i \in 1 .. Len(Q) : Q[i].id < b.id
  BY <1>2, PipelineInvFacts DEF QueuesInOrder, IdsBelow
<1>4. /\ queue' = q
      /\ callbacks' = callbacks \cup {[user |-> user, id |-> b.id, write |-> b.write]}
      /\ FillWritePipeline(pipeline, q[user], stream)
      /\ nextId' = nextId + 1
      /\ UNCHANGED <<user, committed, faults>>
  BY DEF WriteMutations
<1> HIDE DEF b, Q
<1>5. /\ Append(Q, b) \in Seq(Batch)
      /\ Ordered(Append(Q, b))
      /\ InPipeline(Q) = SubSeq(Append(Q, b), 1, FrontLen(Q))
      /\ FrontLen(Q) \in 0 .. FrontLen(Append(Q, b))
  BY <1>2, <1>3, FrontOfAppend
<1>6. user \in Users /\ queue \in [Users -> Seq(Batch)] /\ nextId \in Nat
  BY PipelineInvFacts
<1>7. /\ q[user] = Append(Q, b)
      /\ \A u \in Users : u # user => q[u] = queue[u]
      /\ q \in [Users -> Seq(Batch)]
  BY <1>5, <1>6
<1> HIDE DEF q
<1>8. FillWritePipeline(pipeline, Append(Q, b), stream)
  BY <1>4, <1>7, Zenon
<1>9. /\ pipeline' = InPipeline(Append(Q, b))
      /\ pipeline' \in Seq(Batch)
      /\ StreamInv(pipeline', stream')
      /\ calls' \in SUBSET TokenCall
  BY <1>3, <1>5, <1>8, PipelineInvFacts, FillStep, Zenon
<1>10. QueuesInOrder'
  <2>1. \A u \in Users : Ordered(queue'[u])
    BY <1>4, <1>5, <1>7, Zenon DEF PipelineInv, QueuesInOrder
  <2>2. /\ Len(Q) \in Nat /\ Len(Append(Q, b)) = Len(Q) + 1
        /\ \A i \in 1 .. Len(Q) : Append(Q, b)[i] = Q[i]
        /\ Append(Q, b)[Len(Q) + 1] = b
    BY <1>2, <1>3, AppendProperties, LenProperties
  <2>3. \A i \in 1 .. Len(Q) : Q[i] \in Batch /\ Q[i].id \in Nat
    <3>1. \A i \in 1 .. Len(Q) : Q[i] \in Batch
      BY <1>3, ElementOfSeq
    <3>2. QED
      BY <3>1 DEF Batch
  <2>4. \A i \in 1 .. Len(Append(Q, b)) : Append(Q, b)[i].id < nextId + 1
    BY <1>2, <1>3, <1>6, <2>2, <2>3
  <2>5. ASSUME NEW u \in Users, u # user, NEW i \in 1 .. Len(queue'[u])
        PROVE  queue'[u][i].id < nextId + 1
    <3>1. queue'[u] = queue[u] /\ queue[u] \in Seq(Batch)
      BY <1>4, <1>6, <1>7, <2>5
    <3>2. queue[u][i].id < nextId
      BY <3>1, PipelineInvFacts DEF QueuesInOrder, IdsBelow
    <3>3. queue[u][i] \in Batch
      BY <3>1, ElementOfSeq
    <3>4. queue[u][i].id \in Nat
      BY <3>3 DEF Batch
    <3>5. QED
      BY <1>6, <3>1, <3>2, <3>4
  <2>6. IdsBelow(queue', nextId')
    BY <1>4, <1>7, <2>4, <2>5 DEF IdsBelow
  <2>7. 0 < nextId'
    BY <1>4, <1>6
  <2>8. QED
    BY <2>1, <2>6, <2>7 DEF QueuesInOrder
<1>11. callbacks' \in SUBSET [user : Users, id : Nat, write : Writes]
  BY <1>2, <1>4, <1>6, PipelineInvFacts
<1>12. nextId' \in Nat
  BY <1>4, <1>6
<1>13. pipeline' = InPipeline(queue'[user'])
  BY <1>4, <1>7, <1>9, Zenon
<1>14. QED
  BY <1>1, <1>4, <1>7, <1>9, <1>10, <1>11, <1>12, <1>13, PipelineInvFacts,
     PipelineInvParts

\* A stopped stream carries nothing.
LEMMA StoppedFacts ==
  ASSUME NEW s, StreamOK(s), NEW pipe, Carries(pipe, s)
  PROVE  /\ StreamOK(Stopped(s)) /\ Carries(<<>>, Stopped(s))
         /\ StartedFor(<<>>, Stopped(s))
         /\ ~ IsStarted(Stopped(s))
<1>1. s \in Stream
  BY DEF StreamOK
<1>2. CASE IsStarted(s)
  <2>1. Stopped(s) = Closed(s, "Initial")
    BY <1>2 DEF Stopped
  <2>2. /\ StreamOK(Closed(s, "Initial"))
        /\ Carries(<<>>, Closed(s, "Initial"))
        /\ StartedFor(<<>>, Closed(s, "Initial"))
        /\ Closed(s, "Initial").state = "Initial"
    BY <1>1, ClosedFacts
  <2>3. QED
    BY <2>1, <2>2 DEF IsStarted
<1>3. CASE ~ IsStarted(s)
  <2>1. Stopped(s) = s
    BY <1>3 DEF Stopped
  <2>2. s.state # "Open"
    BY <1>3 DEF IsStarted
  <2>3. Carries(<<>>, s) /\ StartedFor(<<>>, s)
    BY <1>3, <2>2 DEF Carries, StartedFor
  <2>4. QED
    BY <1>3, <2>1, <2>3
<1>4. QED
  BY <1>2, <1>3

\* The empty pipeline holds the first batches of any queue.
LEMMA EmptyIsFront ==
  ASSUME NEW q \in Seq(Batch)
  PROVE  0 \in 0 .. FrontLen(q) /\ <<>> = SubSeq(q, 1, 0)
  BY FrontFacts, SubSeqEmpty

\* The new user's front is filled into an empty pipeline.
LEMMA HandleCredentialChangeInv ==
  ASSUME PipelineInv, HandleCredentialChange
  PROVE  PipelineInv'
<1>1. /\ Head(tasks) \in Task /\ Head(tasks).kind = "changed"
      /\ tasks' \in Seq(Task)
      /\ UNCHANGED <<auth, counter, main, changes, refreshes, made>>
  BY PipelineInvFacts, RunsFacts DEF HandleCredentialChange
<1>2. user' \in Users
  BY <1>1 DEF HandleCredentialChange, Task
<1> DEFINE Q == queue[user']
<1>3. Q \in Seq(Batch) /\ Ordered(Q)
  BY <1>2, PipelineInvFacts DEF QueuesInOrder
<1>4. /\ StreamOK(Stopped(stream)) /\ Carries(<<>>, Stopped(stream))
      /\ StartedFor(<<>>, Stopped(stream))
  BY PipelineInvFacts, StoppedFacts
<1>5. /\ FillWritePipeline(<<>>, Q, Stopped(stream))
      /\ nextId' = IF user' = user THEN nextId ELSE LoadNextBatchId(queue)
      /\ UNCHANGED <<queue, callbacks, committed, faults>>
  BY DEF HandleCredentialChange
<1> HIDE DEF Q
<1>6. 0 \in 0 .. FrontLen(Q) /\ <<>> = SubSeq(Q, 1, 0)
  BY <1>3, EmptyIsFront
<1>7. counter \in Nat /\ calls \in SUBSET TokenCall
  BY PipelineInvFacts
<1>8. /\ pipeline' = InPipeline(Q)
      /\ pipeline' \in Seq(Batch)
      /\ StreamInv(pipeline', stream')
      /\ calls' \in SUBSET TokenCall
  BY <1>3, <1>4, <1>5, <1>6, <1>7, FillStep, Zenon
<1>9. /\ queue \in [Users -> Seq(Batch)] /\ nextId \in Nat /\ 0 < nextId
      /\ IdsBelow(queue, nextId)
  BY PipelineInvFacts DEF QueuesInOrder
<1>10. /\ LoadNextBatchId(queue) \in Nat /\ 0 < LoadNextBatchId(queue)
       /\ IdsBelow(queue, LoadNextBatchId(queue))
  BY <1>9, NextIdIsFresh
<1>11. nextId' \in Nat /\ 0 < nextId' /\ IdsBelow(queue, nextId')
  BY <1>5, <1>9, <1>10
<1>12. QueuesInOrder'
  BY <1>5, <1>11, PipelineInvFacts DEF QueuesInOrder
<1>13. pipeline' = InPipeline(queue'[user'])
  BY <1>5, <1>8, Zenon DEF Q
<1>14. QED
  BY <1>1, <1>2, <1>5, <1>8, <1>11, <1>12, <1>13, PipelineInvFacts, PipelineInvParts

\* A token for an earlier start changes nothing.
LEMMA IgnoreTokenInv ==
  ASSUME PipelineInv, IgnoreToken
  PROVE  PipelineInv'
<1>1. /\ tasks' \in Seq(Task)
      /\ UNCHANGED <<auth, counter, main, changes, refreshes, made>>
  BY PipelineInvFacts, RunsFacts DEF IgnoreToken
<1>2. UNCHANGED <<calls, user, queue, nextId, callbacks, pipeline, stream, committed, faults>>
  BY DEF IgnoreToken, disk
<1>3. QueuesInOrder' /\ StreamInv(pipeline', stream')
  BY <1>2, PipelineInvFacts, QueuesKept DEF StreamInv
<1>4. QED
  BY <1>1, <1>2, <1>3, PipelineInvFacts, PipelineInvParts

\* An answer for the current start finds the stream starting.
LEMMA AnswerFindsStarting ==
  ASSUME PipelineInv, AwaitInv, Runs("token"), Head(tasks).close = stream.close
  PROVE  stream.state = "Starting" /\ Head(tasks) \in TokensOf(stream.close)
<1>1. tasks # <<>> /\ Head(tasks).kind = "token" /\ tasks \in Seq(Task)
  BY PipelineInvFacts DEF Runs
<1>2. Head(tasks) \in Task
  BY <1>1, HeadTailProperties
<1>3. Head(tasks) \in TokensOf(stream.close)
  BY <1>1, <1>2 DEF TokensOf
<1>4. SomeIn(tasks, TokensOf(stream.close))
  BY <1>1, <1>3, HeadIsIn
<1>5. QED
  BY <1>3, <1>4 DEF AwaitInv, Awaits, NoneAwaited

\* A stream that opens carries the handshake alone.
LEMMA ResumeStartInv ==
  ASSUME PipelineInv, AwaitInv, ResumeStartWithCredentials
  PROVE  PipelineInv'
<1>1. /\ Head(tasks) \in Task /\ Head(tasks).kind = "token"
      /\ tasks' \in Seq(Task)
      /\ UNCHANGED <<auth, counter, main, changes, refreshes, made>>
  BY PipelineInvFacts, RunsFacts DEF ResumeStartWithCredentials
<1>2. UNCHANGED <<calls, user, queue, nextId, callbacks, pipeline, committed, faults>>
  BY DEF ResumeStartWithCredentials, disk
<1>3. stream.state = "Starting"
  BY AnswerFindsStarting DEF ResumeStartWithCredentials
<1> DEFINE u == Head(tasks).user
           s == [stream EXCEPT !.state = "Open", !.token = u]
<1>4. u \in Users \cup {Failed} /\ u # Failed
  BY <1>1 DEF Task, ResumeStartWithCredentials
<1>5. stream' = Send(s, <<Handshake>>)
  BY DEF ResumeStartWithCredentials
<1>6. /\ stream \in Stream /\ stream.wire = <<>> /\ stream.replies = <<>>
      /\ ~ stream.handshake /\ ~ stream.idle /\ pipeline # <<>>
  BY <1>3, PipelineInvFacts DEF Carries, StartedFor, IsStarted
<1> HIDE DEF u
<1>7. /\ s \in Stream /\ s.state = "Open" /\ s.token = u
      /\ s.wire = <<>> /\ s.replies = <<>> /\ ~ s.handshake /\ ~ s.idle
  BY <1>4, <1>6 DEF Stream
<1> HIDE DEF s
<1>8. <<Handshake>> \in Seq(Message) /\ <<>> \in Seq(Message)
  BY DEF Message
<1>9. /\ stream' \in Stream
      /\ stream'.state = "Open" /\ stream'.handshake = s.handshake
      /\ stream'.token = u
      /\ stream'.replies \o stream'.wire = (s.replies \o s.wire) \o <<Handshake>>
      /\ stream'.idle = (s.idle /\ <<Handshake>> = <<>>)
  BY <1>5, <1>7, <1>8, SendFacts, Zenon
<1>10. (<<>> \o <<>>) \o <<Handshake>> = <<Handshake>>
  BY <1>8, ConcatEmptySeq
<1>11. stream'.replies \o stream'.wire = <<Handshake>>
  BY <1>7, <1>9, <1>10, Zenon
<1>12. StreamInv(pipeline, stream')
  BY <1>4, <1>6, <1>7, <1>9, <1>11
     DEF StreamInv, StreamOK, Carries, StartedFor, NeedsStarted, IsStarted
<1>13. QueuesInOrder' /\ StreamInv(pipeline', stream')
  BY <1>2, <1>12, PipelineInvFacts, QueuesKept
<1>14. QED
  BY <1>1, <1>2, <1>13, PipelineInvFacts, PipelineInvParts

\* A start that fails keeps the pipeline.
LEMMA FailStartInv ==
  ASSUME PipelineInv, FailStartWithCredentials
  PROVE  PipelineInv'
<1>1. /\ tasks' \in Seq(Task)
      /\ UNCHANGED <<auth, counter, main, changes, refreshes, made>>
  BY PipelineInvFacts, RunsFacts DEF FailStartWithCredentials
<1>2. /\ StreamInv(pipeline, stream')
      /\ UNCHANGED <<calls, pipeline, queue, callbacks>>
  BY CloseOnErrorStep DEF FailStartWithCredentials
<1>3. UNCHANGED <<user, nextId, committed, faults>>
  BY DEF FailStartWithCredentials
<1>4. QueuesInOrder' /\ StreamInv(pipeline', stream')
  BY <1>2, <1>3, PipelineInvFacts, QueuesKept
<1>5. QED
  BY <1>1, <1>2, <1>3, <1>4, PipelineInvFacts, PipelineInvParts

\* A stream that backed off starts.
LEMMA BackoffElapsedInv ==
  ASSUME PipelineInv, BackoffElapsed
  PROVE  PipelineInv'
<1>1. UNCHANGED <<auth, counter, main, changes, refreshes, tasks, user, queue, nextId,
                  callbacks, pipeline, committed, made, faults>>
  BY DEF BackoffElapsed, otherThreads, disk, counts
<1>2. /\ stream.state = "Backoff"
      /\ stream' = [stream EXCEPT !.state = "Starting"]
      /\ calls' = calls \cup {GetToken(stream.close)}
  BY DEF BackoffElapsed
<1>3. calls' \in SUBSET TokenCall
  BY <1>2, PipelineInvFacts, GetTokenType
<1>4. stream \in Stream
  BY PipelineInvFacts
<1>5. /\ stream' \in Stream /\ stream'.state = "Starting"
      /\ stream'.handshake = stream.handshake /\ stream'.idle = stream.idle
      /\ stream'.token = stream.token /\ stream'.wire = stream.wire
      /\ stream'.replies = stream.replies
  BY <1>2, <1>4 DEF Stream
<1>6. StreamInv(pipeline, stream')
  BY <1>2, <1>5, PipelineInvFacts
     DEF StreamInv, StreamOK, Carries, StartedFor, NeedsStarted, IsStarted
<1>7. QueuesInOrder' /\ StreamInv(pipeline', stream')
  BY <1>1, <1>6, PipelineInvFacts, QueuesKept
<1>8. QED
  BY <1>1, <1>3, <1>7, PipelineInvFacts, PipelineInvParts

\* Only a stream with an empty pipeline is stopped as idle.
LEMMA IdleTimeoutInv ==
  ASSUME PipelineInv, IdleTimeout
  PROVE  PipelineInv'
<1>1. UNCHANGED <<auth, counter, calls, main, changes, refreshes, tasks, user, queue,
                  nextId, callbacks, pipeline, committed, made, faults>>
  BY DEF IdleTimeout, credentials, disk, counts
<1>2. pipeline = <<>> /\ stream' = Stopped(stream)
  BY PipelineInvFacts DEF IdleTimeout, Carries
<1>3. /\ StreamOK(Stopped(stream)) /\ Carries(<<>>, Stopped(stream))
      /\ StartedFor(<<>>, Stopped(stream))
  BY PipelineInvFacts, StoppedFacts
<1>4. StreamInv(pipeline, stream')
  BY <1>2, <1>3 DEF StreamInv, NeedsStarted
<1>5. QueuesInOrder' /\ StreamInv(pipeline', stream')
  BY <1>1, <1>4, PipelineInvFacts, QueuesKept
<1>6. QED
  BY <1>1, <1>5, PipelineInvFacts, PipelineInvParts

\* What is on a stream past its handshake is there because of the pipeline.
LEMMA HandshakeFacts ==
  ASSUME PipelineInv, stream.handshake
  PROVE  /\ stream.state = "Open" /\ IsStarted(stream)
         /\ stream.token \in Users
         /\ stream.replies \o stream.wire = WritesOf(pipeline)
         /\ stream.replies # <<>> \/ stream.wire # <<>> => pipeline # <<>> /\ ~ stream.idle
<1>1. stream.state = "Open"
  BY PipelineInvFacts DEF Carries
<1>2. stream.replies \o stream.wire = WritesOf(pipeline)
  BY PipelineInvFacts DEF Carries
<1>3. /\ stream \in Stream /\ stream.token # Failed
      /\ stream.wire \in Seq(Message) /\ stream.replies \in Seq(Message)
  BY <1>1, PipelineInvFacts, StreamFields DEF StreamOK
<1>4. stream.token \in Users
  BY <1>3, StreamFields
<1>5. CASE stream.replies # <<>> \/ stream.wire # <<>>
  <2>0. \A x, y \in Seq(Message) : x \o y = <<>> => x = <<>> /\ y = <<>>
    BY ConcatEqualIffEmpty
  <2>1. stream.replies \o stream.wire = <<>> => stream.replies = <<>> /\ stream.wire = <<>>
    BY <1>3, <2>0
  <2>2. WritesOf(pipeline) # <<>>
    BY <1>2, <1>5, <2>1
  <2>3. pipeline # <<>>
    BY <2>2, PipelineInvFacts, WritesOfFacts
  <2>4. QED
    BY <1>1, <1>2, <1>4, <2>3, PipelineInvFacts DEF Carries, IsStarted
<1>6. QED
  BY <1>1, <1>2, <1>4, <1>5 DEF IsStarted

\* An answer takes the place of what it answers.
LEMMA ServeInv ==
  ASSUME PipelineInv, Serve
  PROVE  PipelineInv'
<1> DEFINE m == Head(stream.wire)
<1>1. UNCHANGED <<auth, counter, calls, main, changes, refreshes, tasks, user, queue,
                  nextId, callbacks, pipeline, made, faults>>
  BY DEF Serve, credentials, disk, counts
<1>2. /\ stream.wire # <<>>
      /\ stream' = [stream EXCEPT !.wire = Tail(stream.wire),
                                  !.replies = Append(stream.replies, m)]
      /\ committed' = IF m = Handshake THEN committed
                      ELSE committed \cup {<<stream.token, m>>}
  BY DEF Serve
<1>3. /\ stream \in Stream /\ stream.wire \in Seq(Message)
      /\ stream.replies \in Seq(Message)
  BY PipelineInvFacts, StreamFields
<1>4. m \in Message /\ Tail(stream.wire) \in Seq(Message)
  BY <1>2, <1>3, HeadTailProperties
<1>5. Append(stream.replies, m) \in Seq(Message)
  BY <1>3, <1>4, AppendProperties
<1>6. stream.state = "Open" /\ stream.token \in Users
  BY <1>2, PipelineInvFacts, StreamFields DEF Carries, StreamOK
<1>7. committed' \in SUBSET (Users \X Writes)
  BY <1>2, <1>4, <1>6, PipelineInvFacts DEF Message
<1>8. Append(stream.replies, m) \o Tail(stream.wire) = stream.replies \o stream.wire
  BY <1>2, <1>3, MoveHead, Zenon
<1> HIDE DEF m
<1>9. /\ stream' \in Stream /\ stream'.state = "Open"
      /\ stream'.handshake = stream.handshake /\ stream'.idle = stream.idle
      /\ stream'.token = stream.token
      /\ stream'.wire = Tail(stream.wire)
      /\ stream'.replies = Append(stream.replies, m)
  BY <1>2, <1>3, <1>4, <1>5, <1>6 DEF Stream
<1>10. stream'.replies \o stream'.wire = stream.replies \o stream.wire
  BY <1>8, <1>9, Zenon
<1>11. StreamOK(stream')
  BY <1>6, <1>9, PipelineInvFacts DEF StreamOK
<1>12. Carries(pipeline, stream')
  BY <1>6, <1>9, <1>10, PipelineInvFacts, Zenon DEF Carries
<1>13. StartedFor(pipeline, stream') /\ NeedsStarted(pipeline, stream')
  BY <1>6, <1>9, PipelineInvFacts DEF StartedFor, NeedsStarted, IsStarted
<1>14. QueuesInOrder' /\ StreamInv(pipeline', stream')
  BY <1>1, <1>11, <1>12, <1>13, PipelineInvFacts, QueuesKept DEF StreamInv
<1>15. QED
  BY <1>1, <1>7, <1>14, PipelineInvFacts, PipelineInvParts

\* The answer to a handshake is all there is.
LEMMA FirstAnswer ==
  ASSUME PipelineInv, stream.replies # <<>>, ~ stream.handshake
  PROVE  /\ stream.state = "Open" /\ pipeline # <<>> /\ ~ stream.idle
         /\ stream.wire = <<>> /\ Tail(stream.replies) = <<>>
<1>1. /\ stream \in Stream /\ stream.wire \in Seq(Message)
      /\ stream.replies \in Seq(Message)
  BY PipelineInvFacts, StreamFields
<1>2. stream.state = "Open"
  BY PipelineInvFacts DEF Carries
<1>3. pipeline # <<>> /\ ~ stream.idle
  BY <1>2, PipelineInvFacts DEF Carries, StartedFor, IsStarted
<1>4. stream.replies \o stream.wire = <<Handshake>>
  BY <1>2, PipelineInvFacts DEF Carries
<1>5. Len(stream.replies \o stream.wire) = Len(stream.replies) + Len(stream.wire)
  BY <1>1, ConcatProperties
<1>6. Len(<<Handshake>>) = 1
  OBVIOUS
<1>7. Len(stream.replies) + Len(stream.wire) = 1
  BY <1>4, <1>5, <1>6, Zenon
<1>8. Len(stream.wire) \in Nat /\ Len(stream.replies) \in Nat \ {0}
  BY <1>1, LenProperties, EmptySeq
<1>9. Len(stream.wire) = 0 /\ Len(stream.replies) = 1
  <2>1. \A m \in Nat, n \in Nat \ {0} : n + m = 1 => m = 0 /\ n = 1
    OBVIOUS
  <2>2. QED
    BY <1>7, <1>8, <2>1, Zenon
<1>10. stream.wire = <<>>
  BY <1>1, <1>9, EmptySeq
<1>11. Tail(stream.replies) \in Seq(Message) /\ Len(Tail(stream.replies)) = 0
  BY <1>1, <1>9, HeadTailProperties
<1>12. QED
  BY <1>2, <1>3, <1>10, <1>11, EmptySeq

\* The pipeline is sent whole, once.
LEMMA HandshakeCompleteInv ==
  ASSUME PipelineInv, OnWriteStreamHandshakeComplete
  PROVE  PipelineInv'
<1> DEFINE s == [stream EXCEPT !.handshake = TRUE, !.replies = Tail(stream.replies)]
           w == WritesOf(pipeline)
<1>1. UNCHANGED <<auth, counter, calls, main, changes, refreshes, tasks, user, queue,
                  nextId, callbacks, pipeline, committed, made, faults>>
  BY DEF OnWriteStreamHandshakeComplete, credentials, disk, counts
<1>2. stream' = Send(s, w)
  BY DEF OnWriteStreamHandshakeComplete
<1>3. /\ stream.state = "Open" /\ pipeline # <<>> /\ ~ stream.idle
      /\ stream.wire = <<>> /\ Tail(stream.replies) = <<>>
  BY FirstAnswer DEF OnWriteStreamHandshakeComplete
<1>4. w \in Seq(Message) /\ <<>> \in Seq(Message)
  BY PipelineInvFacts, WritesOfFacts, EmptySeq
<1> HIDE DEF w
<1>5. /\ s \in Stream /\ s.state = "Open" /\ s.handshake
      /\ s.wire = <<>> /\ s.replies = <<>> /\ ~ s.idle /\ s.token = stream.token
  BY <1>3, <1>4, PipelineInvFacts DEF Stream
<1> HIDE DEF s
<1>6. /\ stream' \in Stream /\ stream'.state = "Open" /\ stream'.handshake = s.handshake
      /\ stream'.token = stream.token
      /\ stream'.replies \o stream'.wire = (s.replies \o s.wire) \o w
      /\ stream'.idle = (s.idle /\ w = <<>>)
  BY <1>2, <1>4, <1>5, SendFacts, Zenon
<1>7. (<<>> \o <<>>) \o w = w
  BY <1>4, ConcatEmptySeq
<1>8. stream'.replies \o stream'.wire = w
  BY <1>5, <1>6, <1>7, Zenon
<1>9. StreamOK(stream')
  BY <1>3, <1>6, PipelineInvFacts DEF StreamOK
<1>10. Carries(pipeline, stream')
  BY <1>5, <1>6, <1>8 DEF Carries, w
<1>11. StartedFor(pipeline, stream') /\ NeedsStarted(pipeline, stream')
  BY <1>3, <1>6 DEF StartedFor, NeedsStarted, IsStarted
<1>12. QueuesInOrder' /\ StreamInv(pipeline', stream')
  BY <1>1, <1>9, <1>10, <1>11, PipelineInvFacts, QueuesKept DEF StreamInv
<1>13. QED
  BY <1>1, <1>12, PipelineInvFacts, PipelineInvParts

\* What settling the head leaves the invariant to be shown of.
LEMMA SettleInv ==
  ASSUME PipelineInv, pipeline # <<>>,
         NEW s, StreamOK(s), Carries(Tail(pipeline), s), StartedFor(Tail(pipeline), s),
         Settle(s),
         UNCHANGED <<auth, counter, main, changes, refreshes, tasks, user, nextId,
                     committed, made>>,
         faults' \in Nat
  PROVE  PipelineInv'
<1>1. /\ queue' \in [Users -> Seq(Batch)]
      /\ callbacks' = {c \in callbacks : c.user # user \/ c.id # Head(pipeline).id}
      /\ \A u \in Users : Ordered(queue'[u])
      /\ IdsBelow(queue', nextId)
      /\ pipeline' = InPipeline(queue'[user])
      /\ pipeline' \in Seq(Batch)
      /\ StreamInv(pipeline', stream')
      /\ calls' \in SUBSET TokenCall
  BY SettleStep
<1>2. callbacks' \in SUBSET [user : Users, id : Nat, write : Writes]
  BY <1>1, PipelineInvFacts
<1>3. QueuesInOrder'
  BY <1>1, PipelineInvFacts DEF QueuesInOrder
<1>4. QED
  BY <1>1, <1>2, <1>3, PipelineInvFacts, PipelineInvParts

\* Reading an answer leaves a stream that carries the rest of the pipeline.
LEMMA AnswerRead ==
  ASSUME PipelineInv, stream.replies # <<>>, stream.handshake,
         NEW s, s = [stream EXCEPT !.replies = Tail(stream.replies)]
  PROVE  /\ pipeline # <<>> /\ StreamOK(s)
         /\ Carries(Tail(pipeline), s) /\ StartedFor(Tail(pipeline), s)
         /\ s.close = stream.close /\ s.state = "Open"
<1>1. /\ stream.state = "Open" /\ stream.replies \o stream.wire = WritesOf(pipeline)
      /\ pipeline # <<>> /\ ~ stream.idle
  BY HandshakeFacts
<1>2. /\ stream \in Stream /\ stream.wire \in Seq(Message)
      /\ stream.replies \in Seq(Message)
  BY PipelineInvFacts, StreamFields
<1>3. Tail(stream.replies) \in Seq(Message)
  BY <1>2, HeadTailProperties
<1>4. /\ s \in Stream /\ s.state = "Open" /\ s.handshake /\ ~ s.idle
      /\ s.token = stream.token /\ s.wire = stream.wire
      /\ s.replies = Tail(stream.replies) /\ s.close = stream.close
  BY <1>1, <1>2, <1>3 DEF Stream
<1>5. Tail(stream.replies) \o stream.wire = Tail(stream.replies \o stream.wire)
  BY <1>2, TailOfConcat
<1>6. Tail(WritesOf(pipeline)) = WritesOf(Tail(pipeline))
  BY <1>1, PipelineInvFacts, WritesOfTail
<1>7. s.replies \o s.wire = WritesOf(Tail(pipeline))
  BY <1>1, <1>4, <1>5, <1>6, Zenon
<1>8. StreamOK(s)
  BY <1>1, <1>4, PipelineInvFacts DEF StreamOK
<1>9. Carries(Tail(pipeline), s) /\ StartedFor(Tail(pipeline), s)
  BY <1>4, <1>7 DEF Carries, StartedFor
<1>10. QED
  BY <1>1, <1>4, <1>8, <1>9

\* An answer settles the head of pipeline and queue.
LEMMA MutationResultInv ==
  ASSUME PipelineInv, OnWriteStreamMutationResult
  PROVE  PipelineInv'
<1> DEFINE s == [stream EXCEPT !.replies = Tail(stream.replies)]
<1>1. /\ pipeline # <<>> /\ StreamOK(s)
      /\ Carries(Tail(pipeline), s) /\ StartedFor(Tail(pipeline), s)
  BY AnswerRead DEF OnWriteStreamMutationResult
<1>2. /\ Settle(s)
      /\ UNCHANGED <<auth, counter, main, changes, refreshes, tasks, user, nextId,
                      committed, made, faults>>
  BY DEF OnWriteStreamMutationResult, otherThreads, counts
<1> HIDE DEF s
<1>3. faults' \in Nat
  BY <1>2, PipelineInvFacts
<1>4. QED
  BY <1>1, <1>2, <1>3, SettleInv

\* A broken stream keeps the pipeline.
LEMMA StreamFinishInv ==
  ASSUME PipelineInv, OnStreamFinish
  PROVE  PipelineInv'
<1>1. UNCHANGED <<auth, counter, main, changes, refreshes, tasks, user, nextId,
                  committed, made>>
  BY DEF OnStreamFinish, otherThreads
<1>2. /\ StreamInv(pipeline, stream')
      /\ UNCHANGED <<calls, pipeline, queue, callbacks>>
  BY CloseOnErrorStep DEF OnStreamFinish
<1>3. faults' \in Nat
  BY PipelineInvFacts DEF OnStreamFinish
<1>4. QueuesInOrder' /\ StreamInv(pipeline', stream')
  BY <1>1, <1>2, PipelineInvFacts, QueuesKept
<1>5. QED
  BY <1>1, <1>2, <1>3, <1>4, PipelineInvFacts, PipelineInvParts

\* A refusal settles the head of pipeline and queue.
LEMMA HandleWriteErrorInv ==
  ASSUME PipelineInv, HandleWriteError
  PROVE  PipelineInv'
<1> DEFINE s == Closed(stream, "Initial")
<1>1. pipeline # <<>> /\ stream \in Stream
  BY HandshakeFacts, PipelineInvFacts DEF HandleWriteError
<1>2. StreamOK(s) /\ Carries(Tail(pipeline), s) /\ StartedFor(Tail(pipeline), s)
  BY <1>1, ClosedFacts
<1>3. /\ Settle(s)
      /\ UNCHANGED <<auth, counter, main, changes, refreshes, tasks, user, nextId,
                      committed, made, faults>>
  BY DEF HandleWriteError, otherThreads, counts
<1> HIDE DEF s
<1>4. faults' \in Nat
  BY <1>3, PipelineInvFacts
<1>5. QED
  BY <1>1, <1>2, <1>3, <1>4, SettleInv

\* A restart fills the pipeline from the disk.
LEMMA RestartInv ==
  ASSUME PipelineInv, Restart
  PROVE  PipelineInv'
<1> DEFINE Q == queue[auth]
           f == InPipeline(Q)
<1>1. /\ auth \in Users /\ queue \in [Users -> Seq(Batch)] /\ nextId \in Nat
      /\ IdsBelow(queue, nextId) /\ 0 < nextId
      /\ Q \in Seq(Batch) /\ Ordered(Q)
  BY PipelineInvFacts DEF QueuesInOrder
<1> HIDE DEF Q
<1>2. 0 \in 0 .. FrontLen(Q) /\ <<>> = SubSeq(Q, 1, 0)
  BY <1>1, EmptyIsFront
<1>3. Filled(<<>>, Q) = f
  BY <1>1, <1>2, FilledIsFront, Zenon
<1>4. /\ counter' = 0 /\ main' = <<>> /\ tasks' = <<>> /\ user' = auth
      /\ nextId' = LoadNextBatchId(queue) /\ callbacks' = {}
      /\ pipeline' = f /\ stream' = FilledStream(<<>>, f, NewStream)
      /\ calls' = IF pipeline' = <<>> THEN {}
                  ELSE {[counter |-> 0, close |-> 0, user |-> Failed]}
      /\ faults' = faults + 1
      /\ UNCHANGED <<auth, changes, refreshes, queue, committed, made>>
  BY <1>3, Zenon DEF Restart, Q
<1>5. f \in Seq(Batch) /\ 0 \in 0 .. Len(f) /\ <<>> = SubSeq(f, 1, 0)
  BY <1>1, FrontFacts, LenProperties, SubSeqEmpty
<1> HIDE DEF f
<1>6. StreamOK(NewStream) /\ Carries(<<>>, NewStream) /\ StartedFor(<<>>, NewStream)
  BY NewStreamFacts
<1>7. StreamInv(f, FilledStream(<<>>, f, NewStream))
  BY <1>5, <1>6, FilledStreamFacts, Zenon
<1>8. [counter |-> 0, close |-> 0, user |-> Failed] \in TokenCall
  BY DEF TokenCall
<1>9. calls' \in SUBSET TokenCall
  BY <1>4, <1>8
<1>10. /\ LoadNextBatchId(queue) \in Nat /\ 0 < LoadNextBatchId(queue)
       /\ IdsBelow(queue, LoadNextBatchId(queue))
  BY <1>1, NextIdIsFresh
<1>11. QueuesInOrder'
  BY <1>4, <1>10, PipelineInvFacts DEF QueuesInOrder
<1>12. main' \in Seq(MainBlock) /\ tasks' \in Seq(Task)
  BY <1>4, EmptySeq
<1>13. pipeline' = InPipeline(queue'[user'])
  BY <1>4, Zenon DEF f, Q
<1>14. counter' \in Nat /\ nextId' \in Nat /\ faults' \in Nat /\ pipeline' \in Seq(Batch)
  BY <1>4, <1>5, <1>10, PipelineInvFacts
<1>15. StreamInv(pipeline', stream')
  BY <1>4, <1>7, Zenon
<1>16. callbacks' \in SUBSET [user : Users, id : Nat, write : Writes]
  BY <1>4
<1>17. QED
  BY <1>4, <1>9, <1>11, <1>12, <1>13, <1>14, <1>15, <1>16, PipelineInvFacts,
     PipelineInvParts

\* The other threads touch no queue and no stream.
LEMMA OthersInv ==
  ASSUME PipelineInv, CredentialsNext /\ UNCHANGED pipeVars
  PROVE  PipelineInv'
<1>1. UNCHANGED <<user, queue, nextId, callbacks, pipeline, stream, committed, made, faults>>
  BY DEF pipeVars, disk, counts
<1>2. /\ auth' \in Users /\ counter' \in Nat /\ calls' \in SUBSET TokenCall
      /\ main' \in Seq(MainBlock) /\ tasks' \in Seq(Task)
      /\ changes' \in Nat /\ refreshes' \in Nat
  BY PipelineInvFacts, CredentialsStep
<1>3. QueuesInOrder' /\ StreamInv(pipeline', stream')
  BY <1>1, PipelineInvFacts, QueuesKept DEF StreamInv
<1>4. QED
  BY <1>1, <1>2, <1>3, PipelineInvFacts, PipelineInvParts

\* A stutter keeps the invariant.
LEMMA StutterInv ==
  ASSUME PipelineInv, UNCHANGED vars
  PROVE  PipelineInv'
<1>1. UNCHANGED <<auth, counter, calls, main, tasks, changes, refreshes, user, queue,
                  nextId, callbacks, pipeline, stream, committed, made, faults>>
  BY DEF vars, credentials, pipeVars, disk, counts
<1>2. QueuesInOrder' /\ StreamInv(pipeline', stream')
  BY <1>1, PipelineInvFacts, QueuesKept DEF StreamInv
<1>3. QED
  BY <1>1, <1>2, PipelineInvFacts, PipelineInvParts

\* Every step, given that an answer finds the stream that asked for it.
LEMMA PipelineStep ==
  ASSUME PipelineInv, AwaitInv, [Next]_vars
  PROVE  PipelineInv'
  BY OthersInv, MakeWriteInv, WriteMutationsInv, HandleCredentialChangeInv,
     IgnoreTokenInv, ResumeStartInv, FailStartInv, BackoffElapsedInv,
     IdleTimeoutInv, ServeInv, HandshakeCompleteInv, MutationResultInv,
     StreamFinishInv, HandleWriteErrorInv, RestartInv, StutterInv DEF Next

(***************************************************************************)
(* A stream that is starting waits for one token, any other for none,      *)
(* wherever the calls and their answers are.  With it the invariant above  *)
(* is inductive, and gives the theorems at the end of this module.         *)
(***************************************************************************)

(***************************************************************************)
(* What moving a call does, for calls cs, main queue ms, worker queue ts.  *)
(***************************************************************************)
Waiting(cs, ms, ts, k, state) ==
  NoneAfter(cs, ms, ts, k) /\ Awaits(cs, ms, ts, k, state)

\* Messages that are no answers change nothing.
LEMMA NoToken ==
  ASSUME NEW k
  PROVE  /\ \A m \in MainBlock : m.kind = "changed" =>
              m \notin AnswersOf(k) /\ m \notin AnswersAfter(k)
         /\ \A t \in Task : t.kind # "token" =>
              t \notin TokensOf(k) /\ t \notin TokensAfter(k)
  BY DEF AnswersOf, AnswersAfter, TokensOf, TokensAfter

\* A change of user sent to the main queue answers no call.
LEMMA MainAppended ==
  ASSUME NEW cs, NEW ms \in Seq(MainBlock), NEW ts, NEW k, NEW state,
         Waiting(cs, ms, ts, k, state),
         NEW m \in MainBlock, m.kind = "changed"
  PROVE  Waiting(cs, Append(ms, m), ts, k, state)
<1>1. m \notin AnswersOf(k) /\ m \notin AnswersAfter(k)
  BY NoToken
<1>2. /\ SomeIn(Append(ms, m), AnswersOf(k)) <=> SomeIn(ms, AnswersOf(k))
      /\ SomeIn(Append(ms, m), AnswersAfter(k)) <=> SomeIn(ms, AnswersAfter(k))
      /\ OneIn(Append(ms, m), AnswersOf(k)) <=> OneIn(ms, AnswersOf(k))
  BY <1>1, AppendIn
<1>3. QED
  BY <1>2 DEF Waiting, NoneAfter, Awaits, NoneAwaited, OneCall, OneAnswer, OneToken

\* A task that is no token answers no call.
LEMMA TasksAppended ==
  ASSUME NEW cs, NEW ms, NEW ts \in Seq(Task), NEW k, NEW state,
         Waiting(cs, ms, ts, k, state),
         NEW t \in Task, t.kind # "token"
  PROVE  Waiting(cs, ms, Append(ts, t), k, state)
<1>1. t \notin TokensOf(k) /\ t \notin TokensAfter(k)
  BY NoToken
<1>2. /\ SomeIn(Append(ts, t), TokensOf(k)) <=> SomeIn(ts, TokensOf(k))
      /\ SomeIn(Append(ts, t), TokensAfter(k)) <=> SomeIn(ts, TokensAfter(k))
      /\ OneIn(Append(ts, t), TokensOf(k)) <=> OneIn(ts, TokensOf(k))
  BY <1>1, AppendIn
<1>3. QED
  BY <1>2 DEF Waiting, NoneAfter, Awaits, NoneAwaited, OneCall, OneAnswer, OneToken

\* A change of user taken from the main queue answers no call.
LEMMA MainPopped ==
  ASSUME NEW cs, NEW ms \in Seq(MainBlock), ms # <<>>, NEW ts, NEW k, NEW state,
         Waiting(cs, ms, ts, k, state), Head(ms).kind = "changed"
  PROVE  Waiting(cs, Tail(ms), ts, k, state)
<1>1. Head(ms) \in MainBlock
  BY HeadTailProperties
<1>2. Head(ms) \notin AnswersOf(k) /\ Head(ms) \notin AnswersAfter(k)
  BY <1>1, NoToken
<1>3. /\ SomeIn(Tail(ms), AnswersOf(k)) <=> SomeIn(ms, AnswersOf(k))
      /\ SomeIn(Tail(ms), AnswersAfter(k)) <=> SomeIn(ms, AnswersAfter(k))
      /\ OneIn(Tail(ms), AnswersOf(k)) <=> OneIn(ms, AnswersOf(k))
  BY <1>2, TailIn
<1>4. QED
  BY <1>3 DEF Waiting, NoneAfter, Awaits, NoneAwaited, OneCall, OneAnswer, OneToken

\* A task that is no answer for the current start is done.
LEMMA TasksPopped ==
  ASSUME NEW cs, NEW ms, NEW ts \in Seq(Task), ts # <<>>, NEW k, NEW state,
         Waiting(cs, ms, ts, k, state), Head(ts) \notin TokensOf(k)
  PROVE  Waiting(cs, ms, Tail(ts), k, state)
<1>1. /\ SomeIn(Tail(ts), TokensOf(k)) <=> SomeIn(ts, TokensOf(k))
      /\ SomeIn(Tail(ts), TokensAfter(k)) => SomeIn(ts, TokensAfter(k))
      /\ OneIn(Tail(ts), TokensOf(k)) <=> OneIn(ts, TokensOf(k))
  BY TailIn
<1>2. QED
  BY <1>1 DEF Waiting, NoneAfter, Awaits, NoneAwaited, OneCall, OneAnswer, OneToken

\* The answer for the current start is done: nothing is awaited.
LEMMA AnswerTaken ==
  ASSUME NEW cs, NEW ms, NEW ts \in Seq(Task), ts # <<>>, NEW k, NEW state,
         Waiting(cs, ms, ts, k, state), Head(ts) \in TokensOf(k)
  PROVE  NoneAfter(cs, ms, Tail(ts), k) /\ NoneAwaited(cs, ms, Tail(ts), k)
<1>1. SomeIn(ts, TokensOf(k))
  BY HeadIsIn
<1>2. OneToken(cs, ms, ts, k)
  BY <1>1 DEF Waiting, Awaits, NoneAwaited, OneCall, OneAnswer
<1>3. /\ SomeIn(Tail(ts), TokensAfter(k)) => SomeIn(ts, TokensAfter(k))
      /\ ~ SomeIn(Tail(ts), TokensOf(k))
  BY <1>2, TailIn DEF OneToken
<1>4. QED
  BY <1>2, <1>3 DEF Waiting, NoneAfter, NoneAwaited, OneToken

\* A call becomes an answer.
LEMMA CallAnswered ==
  ASSUME NEW cs \in SUBSET TokenCall, NEW ms \in Seq(MainBlock), NEW ts, NEW k \in Nat,
         NEW state, Waiting(cs, ms, ts, k, state), NEW c \in cs,
         NEW m \in MainBlock, m.kind = "token", m.call = c
  PROVE  Waiting(cs \ {c}, Append(ms, m), ts, k, state)
<1>1. /\ SomeIn(Append(ms, m), AnswersOf(k)) <=> SomeIn(ms, AnswersOf(k)) \/ m \in AnswersOf(k)
      /\ SomeIn(Append(ms, m), AnswersAfter(k)) <=>
           SomeIn(ms, AnswersAfter(k)) \/ m \in AnswersAfter(k)
      /\ m \notin AnswersOf(k) => (OneIn(Append(ms, m), AnswersOf(k)) <=> OneIn(ms, AnswersOf(k)))
      /\ m \in AnswersOf(k) /\ ~ SomeIn(ms, AnswersOf(k)) => OneIn(Append(ms, m), AnswersOf(k))
  BY AppendIn
<1>2. /\ m \in AnswersOf(k) <=> c \in CallsOf(k)
      /\ m \in AnswersAfter(k) <=> c \in CallsAfter(k)
  BY DEF AnswersOf, AnswersAfter, CallsOf, CallsAfter
<1>3. NoneAfter(cs \ {c}, Append(ms, m), ts, k)
  BY <1>1, <1>2 DEF Waiting, NoneAfter
<1>4. CASE c \in CallsOf(k)
  <2>1. state = "Starting" /\ OneCall(cs, ms, ts, k)
    BY <1>4 DEF Waiting, Awaits, NoneAwaited, OneAnswer, OneToken
  <2>2. (cs \ {c}) \cap CallsOf(k) = {}
    BY <1>4, <2>1 DEF OneCall
  <2>3. OneAnswer(cs \ {c}, Append(ms, m), ts, k)
    BY <1>1, <1>2, <1>4, <2>1, <2>2 DEF OneCall, OneAnswer
  <2>4. QED
    BY <1>3, <2>1, <2>3 DEF Waiting, Awaits
<1>5. CASE c \notin CallsOf(k)
  <2>1. (cs \ {c}) \cap CallsOf(k) = cs \cap CallsOf(k)
    BY <1>5
  <2>2. \A d \in cs : d \in CallsOf(k) => d \in cs \ {c}
    BY <1>5
  <2>3. Awaits(cs \ {c}, Append(ms, m), ts, k, state)
    BY <1>1, <1>2, <1>5, <2>1, <2>2
       DEF Waiting, Awaits, NoneAwaited, OneCall, OneAnswer, OneToken
  <2>4. QED
    BY <1>3, <2>3 DEF Waiting
<1>6. QED
  BY <1>4, <1>5

\* A call waits for the authentication service.
LEMMA CallRefreshed ==
  ASSUME NEW cs \in SUBSET TokenCall, NEW ms, NEW ts, NEW k \in Nat,
         NEW state, Waiting(cs, ms, ts, k, state), NEW c \in cs,
         NEW d \in TokenCall, d.close = c.close
  PROVE  Waiting((cs \ {c}) \cup {d}, ms, ts, k, state)
<1> DEFINE e == (cs \ {c}) \cup {d}
<1>1. /\ d \in CallsOf(k) <=> c \in CallsOf(k)
      /\ d \in CallsAfter(k) <=> c \in CallsAfter(k)
  BY DEF CallsOf, CallsAfter
<1>2. NoneAfter(e, ms, ts, k)
  BY <1>1 DEF Waiting, NoneAfter
<1>3. CASE c \in CallsOf(k)
  <2>1. state = "Starting" /\ OneCall(cs, ms, ts, k)
    BY <1>3 DEF Waiting, Awaits, NoneAwaited, OneAnswer, OneToken
  <2>2. cs \cap CallsOf(k) = {c}
    BY <1>3, <2>1 DEF OneCall
  <2>3. e \cap CallsOf(k) = {d}
    BY <1>1, <1>3, <2>2
  <2>4. OneCall(e, ms, ts, k)
    BY <2>1, <2>3 DEF OneCall
  <2>5. QED
    BY <1>2, <2>1, <2>4 DEF Waiting, Awaits
<1>4. CASE c \notin CallsOf(k)
  <2>1. e \cap CallsOf(k) = cs \cap CallsOf(k)
    BY <1>1, <1>4
  <2>2. \A x \in cs : x \in CallsOf(k) => x \in e
    BY <1>4
  <2> HIDE DEF e
  <2>3. Awaits(e, ms, ts, k, state)
    BY <2>1, <2>2 DEF Waiting, Awaits, NoneAwaited, OneCall, OneAnswer, OneToken
  <2>4. QED
    BY <1>2, <2>3 DEF Waiting, e
<1>5. QED
  BY <1>3, <1>4

\* An answer is enqueued for the worker queue.
LEMMA AnswerEnqueued ==
  ASSUME NEW cs, NEW ms \in Seq(MainBlock), ms # <<>>, NEW ts \in Seq(Task), NEW k \in Nat,
         NEW state, Waiting(cs, ms, ts, k, state), Head(ms).kind = "token",
         NEW t \in Task, t.kind = "token", t.close = Head(ms).call.close
  PROVE  Waiting(cs, Tail(ms), Append(ts, t), k, state)
<1> DEFINE m == Head(ms)
<1>1. m \in MainBlock
  BY HeadTailProperties
<1>2. /\ t \in TokensOf(k) <=> m \in AnswersOf(k)
      /\ t \in TokensAfter(k) <=> m \in AnswersAfter(k)
  BY <1>1 DEF TokensOf, TokensAfter, AnswersOf, AnswersAfter
<1>3. m \in AnswersOf(k) => SomeIn(ms, AnswersOf(k))
  BY HeadIsIn
<1>4. m \notin AnswersAfter(k)
  BY HeadIsIn DEF Waiting, NoneAfter
<1>5. /\ SomeIn(Tail(ms), AnswersAfter(k)) => SomeIn(ms, AnswersAfter(k))
      /\ m \notin AnswersOf(k) => (SomeIn(Tail(ms), AnswersOf(k)) <=> SomeIn(ms, AnswersOf(k)))
      /\ m \notin AnswersOf(k) => (OneIn(Tail(ms), AnswersOf(k)) <=> OneIn(ms, AnswersOf(k)))
      /\ m \in AnswersOf(k) /\ OneIn(ms, AnswersOf(k)) => ~ SomeIn(Tail(ms), AnswersOf(k))
  BY TailIn
<1>6. /\ SomeIn(Append(ts, t), TokensOf(k)) <=> SomeIn(ts, TokensOf(k)) \/ t \in TokensOf(k)
      /\ SomeIn(Append(ts, t), TokensAfter(k)) <=>
           SomeIn(ts, TokensAfter(k)) \/ t \in TokensAfter(k)
      /\ t \notin TokensOf(k) => (OneIn(Append(ts, t), TokensOf(k)) <=> OneIn(ts, TokensOf(k)))
      /\ t \in TokensOf(k) /\ ~ SomeIn(ts, TokensOf(k)) => OneIn(Append(ts, t), TokensOf(k))
  BY AppendIn
<1> HIDE DEF m
<1>7. NoneAfter(cs, Tail(ms), Append(ts, t), k)
  BY <1>2, <1>4, <1>5, <1>6 DEF Waiting, NoneAfter
<1>8. CASE m \in AnswersOf(k)
  <2>1. state = "Starting" /\ OneAnswer(cs, ms, ts, k)
    BY <1>3, <1>8 DEF Waiting, Awaits, NoneAwaited, OneCall, OneToken
  <2>2. OneToken(cs, Tail(ms), Append(ts, t), k)
    BY <1>2, <1>5, <1>6, <1>8, <2>1 DEF OneAnswer, OneToken
  <2>3. QED
    BY <1>7, <2>1, <2>2 DEF Waiting, Awaits
<1>9. CASE m \notin AnswersOf(k)
  <2>1. Awaits(cs, Tail(ms), Append(ts, t), k, state)
    BY <1>2, <1>5, <1>6, <1>9
       DEF Waiting, Awaits, NoneAwaited, OneCall, OneAnswer, OneToken
  <2>2. QED
    BY <1>7, <2>1 DEF Waiting
<1>10. QED
  BY <1>8, <1>9

\* A start to come awaits nothing.
LEMMA LaterStart ==
  ASSUME NEW cs, NEW ms, NEW ts, NEW k \in Nat, NEW l \in Nat, k < l,
         NoneAfter(cs, ms, ts, k)
  PROVE  NoneAfter(cs, ms, ts, l) /\ NoneAwaited(cs, ms, ts, l)
<1>1. \A n \in Nat : n = l \/ n > l => n > k
  OBVIOUS
<1>2. CallsOf(l) \subseteq CallsAfter(k) /\ CallsAfter(l) \subseteq CallsAfter(k)
  BY <1>1 DEF CallsOf, CallsAfter, TokenCall
<1>3. \A m \in MainBlock : m.kind = "token" => m.call.close \in Nat
  BY DEF MainBlock, TokenCall
<1>4. AnswersOf(l) \subseteq AnswersAfter(k) /\ AnswersAfter(l) \subseteq AnswersAfter(k)
  BY <1>1, <1>3 DEF AnswersOf, AnswersAfter
<1>5. \A t \in Task : t.kind = "token" => t.close \in Nat
  BY DEF Task
<1>6. TokensOf(l) \subseteq TokensAfter(k) /\ TokensAfter(l) \subseteq TokensAfter(k)
  BY <1>1, <1>5 DEF TokensOf, TokensAfter
<1>7. QED
  BY <1>2, <1>4, <1>6 DEF NoneAfter, NoneAwaited, SomeIn

\* A start asks once.
LEMMA Asked ==
  ASSUME NEW cs, NEW ms, NEW ts, NEW k \in Nat,
         NoneAfter(cs, ms, ts, k), NoneAwaited(cs, ms, ts, k),
         NEW c \in TokenCall, c.close = k
  PROVE  Waiting(cs \cup {c}, ms, ts, k, "Starting")
<1>1. c \in CallsOf(k) /\ c \notin CallsAfter(k)
  BY DEF CallsOf, CallsAfter
<1>2. NoneAfter(cs \cup {c}, ms, ts, k)
  BY <1>1 DEF NoneAfter
<1>3. (cs \cup {c}) \cap CallsOf(k) = {c}
  BY <1>1 DEF NoneAwaited
<1>4. OneCall(cs \cup {c}, ms, ts, k)
  BY <1>3 DEF OneCall, NoneAwaited
<1>5. QED
  BY <1>2, <1>4 DEF Waiting, Awaits

(***************************************************************************)
(* Steps.                                                                  *)
(***************************************************************************)
LEMMA AwaitInvFacts ==
  ASSUME PipelineInv, AwaitInv
  PROVE  /\ Waiting(calls, main, tasks, stream.close, stream.state)
         /\ stream.close \in Nat
         /\ calls \in SUBSET TokenCall /\ main \in Seq(MainBlock) /\ tasks \in Seq(Task)
         /\ auth \in Users
  BY PipelineInvFacts, StreamFields DEF AwaitInv, Waiting

\* The threads around the worker queue hand a call on and lose none.
LEMMA OthersAwait ==
  ASSUME PipelineInv, AwaitInv, CredentialsNext, stream' = stream
  PROVE  AwaitInv'
<1> DEFINE k == stream.close
<1>1. /\ Waiting(calls, main, tasks, k, stream.state) /\ k \in Nat
      /\ calls \in SUBSET TokenCall /\ main \in Seq(MainBlock) /\ tasks \in Seq(Task)
      /\ auth \in Users
  BY AwaitInvFacts
<1> HIDE DEF k
<1>2. SUFFICES Waiting(calls', main', tasks', k, stream.state)
  BY DEF Waiting, AwaitInv, k
<1>3. \A u \in Users : /\ Changed(u) \in MainBlock /\ Changed(u) \in Task
                        /\ Changed(u).kind = "changed"
  BY DEF Changed, MainBlock, Task
<1>4. \A c \in TokenCall, u \in Users \cup {Failed} :
        /\ Answer(c, u) \in MainBlock /\ Answer(c, u).kind = "token"
        /\ Answer(c, u).call = c
  BY DEF Answer, MainBlock
<1>5. CASE \E u \in Users : UpdateCurrentUser(u)
  <2>1. PICK u \in Users : UpdateCurrentUser(u)
    BY <1>5
  <2>2. Waiting(calls, Append(main, Changed(u)), tasks, k, stream.state)
    BY <1>1, <1>3, MainAppended
  <2>3. QED
    BY <2>1, <2>2 DEF UpdateCurrentUser
<1>6. CASE \E c \in calls : GiveToken(c)
  <2>1. PICK c \in calls : GiveToken(c)
    BY <1>6
  <2>2. /\ Answer(c, auth) \in MainBlock /\ Answer(c, auth).kind = "token"
        /\ Answer(c, auth).call = c
    BY <1>1, <1>4
  <2>3. Waiting(calls \ {c}, Append(main, Answer(c, auth)), tasks, k, stream.state)
    BY <1>1, <2>2, CallAnswered
  <2>4. QED
    BY <2>1, <2>3 DEF GiveToken
<1>7. CASE \E c \in calls : StartRefresh(c)
  <2>1. PICK c \in calls : StartRefresh(c)
    BY <1>7
  <2> DEFINE d == [c EXCEPT !.user = auth]
  <2>2. d \in TokenCall /\ d.close = c.close
    BY <1>1 DEF TokenCall
  <2> HIDE DEF d
  <2>3. Waiting((calls \ {c}) \cup {d}, main, tasks, k, stream.state)
    BY <1>1, <2>2, CallRefreshed
  <2>4. QED
    BY <2>1, <2>3 DEF StartRefresh, d
<1>8. CASE \E c \in calls : FinishRefresh(c)
  <2>1. PICK c \in calls : FinishRefresh(c)
    BY <1>8
  <2>2. c \in TokenCall /\ c.user \in Users \cup {Failed}
    BY <1>1 DEF TokenCall
  <2>3. \A u \in {c.user, Failed} :
          /\ Answer(c, u) \in MainBlock /\ Answer(c, u).kind = "token"
          /\ Answer(c, u).call = c
    BY <1>4, <2>2
  <2>4. \A ms \in Seq(MainBlock), u \in {c.user, Failed} :
          Waiting(calls, ms, tasks, k, stream.state) =>
            Waiting(calls \ {c}, Append(ms, Answer(c, u)), tasks, k, stream.state)
    BY <1>1, <2>3, CallAnswered
  <2>5. Append(main, Changed(auth)) \in Seq(MainBlock)
    BY <1>1, <1>3, AppendProperties
  <2>6. Waiting(calls, Append(main, Changed(auth)), tasks, k, stream.state)
    BY <1>1, <1>3, MainAppended
  <2>7. /\ main \o <<Changed(auth)>> = Append(main, Changed(auth))
        /\ main \o <<>> = main
    BY <1>1, <1>3, AppendIsConcat, ConcatEmptySeq
  <2>8. \A ms \in Seq(MainBlock) :
          ms \o <<Answer(c, c.user)>> = Append(ms, Answer(c, c.user))
    BY <2>3, AppendIsConcat
  <2>9. \/ main' = Append(Append(main, Changed(auth)), Answer(c, c.user))
        \/ main' = Append(main, Answer(c, c.user))
        \/ main' = Append(main, Answer(c, Failed))
    <3>1. CASE main' = Append(main, Answer(c, Failed))
      BY <3>1
    <3>2. CASE main' = main \o (IF c.user = auth THEN <<Changed(auth)>> ELSE <<>>)
                            \o <<Answer(c, c.user)>>
      <4>1. CASE c.user = auth
        BY <2>5, <2>7, <2>8, <3>2, <4>1, Zenon
      <4>2. CASE c.user # auth
        BY <1>1, <2>7, <2>8, <3>2, <4>2, Zenon
      <4>3. QED
        BY <4>1, <4>2
    <3>3. QED
      BY <2>1, <3>1, <3>2 DEF FinishRefresh
  <2>10. Waiting(calls \ {c}, main', tasks, k, stream.state)
    BY <1>1, <2>4, <2>5, <2>6, <2>9
  <2>11. QED
    BY <2>1, <2>10 DEF FinishRefresh
<1>9. CASE NotifyChange
  <2>1. Head(main).user \in Users
    BY <1>1, <1>9, HeadTailProperties DEF NotifyChange, MainBlock
  <2>2. Waiting(calls, Tail(main), tasks, k, stream.state)
    BY <1>1, <1>9, MainPopped DEF NotifyChange
  <2>3. Waiting(calls, Tail(main), Append(tasks, Changed(Head(main).user)), k, stream.state)
    BY <1>1, <1>3, <2>1, <2>2, TasksAppended
  <2>4. QED
    BY <1>9, <2>3 DEF NotifyChange
<1>10. CASE AnswerToken
  <2> DEFINE a == Head(main)
             t == [kind |-> "token", close |-> a.call.close,
                   user |-> IF a.call.counter = counter THEN a.user ELSE Failed]
  <2>1. main # <<>> /\ a.kind = "token" /\ a \in MainBlock
    BY <1>1, <1>10, HeadTailProperties DEF AnswerToken
  <2>2. a.call \in TokenCall /\ a.user \in Users \cup {Failed}
    BY <2>1 DEF MainBlock
  <2>3. a.call.close \in Nat
    BY <2>2 DEF TokenCall
  <2>4. t \in Task /\ t.kind = "token" /\ t.close = a.call.close
    BY <2>2, <2>3 DEF Task
  <2>5. tasks' = Append(tasks, t) /\ main' = Tail(main) /\ calls' = calls
    BY <1>10 DEF AnswerToken
  <2> HIDE DEF t
  <2>6. Waiting(calls, Tail(main), Append(tasks, t), k, stream.state)
    BY <1>1, <2>1, <2>4, AnswerEnqueued
  <2>7. QED
    BY <2>5, <2>6
<1>11. QED
  BY <1>5, <1>6, <1>7, <1>8, <1>9, <1>10 DEF CredentialsNext

\* An operation on the stream leaves it waiting as it should when it asks for a
\* token as it starts, and does not interrupt a start except by closing.
LEMMA StreamMoves ==
  ASSUME PipelineInv, NEW next \in Stream, stream' = next,
         Waiting(calls, main, tasks', stream.close, stream.state),
         main' = main,
         calls' = calls \cup Asks(next),
         next.close >= stream.close,
         next.close = stream.close /\ stream.state = "Starting"
           => next.state = "Starting"
  PROVE  AwaitInv'
<1> DEFINE k == stream.close
           l == next.close
<1>1. k \in Nat /\ l \in Nat /\ calls \in SUBSET TokenCall /\ counter \in Nat
  BY PipelineInvFacts, StreamFields
<1>2. GetToken(l) \in TokenCall /\ GetToken(l).close = l
  BY <1>1 DEF GetToken, TokenCall
<1>3. Asks(next) =
        IF next.state = "Starting" /\ (stream.state # "Starting" \/ l # k)
        THEN {GetToken(l)} ELSE {}
  BY DEF Asks
<1> HIDE DEF k, l
<1>4. Waiting(calls, main, tasks', k, stream.state)
  BY DEF k
<1>5. SUFFICES Waiting(calls', main, tasks', l, next.state)
  BY DEF AwaitInv, Waiting, l
<1>6. CASE l = k /\ (stream.state = "Starting" <=> next.state = "Starting")
  <2>1. calls' = calls
    BY <1>3, <1>6
  <2>2. QED
    BY <1>4, <1>6, <2>1 DEF Waiting, Awaits
<1>7. CASE l = k /\ stream.state # "Starting" /\ next.state = "Starting"
  <2>1. calls' = calls \cup {GetToken(l)}
    BY <1>3, <1>7
  <2>2. NoneAfter(calls, main, tasks', l) /\ NoneAwaited(calls, main, tasks', l)
    BY <1>4, <1>7 DEF Waiting, Awaits
  <2>3. Waiting(calls \cup {GetToken(l)}, main, tasks', l, "Starting")
    BY <1>1, <1>2, <2>2, Asked
  <2>4. QED
    BY <1>7, <2>1, <2>3
<1>8. CASE l > k
  <2>1. NoneAfter(calls, main, tasks', l) /\ NoneAwaited(calls, main, tasks', l)
    BY <1>1, <1>4, <1>8, LaterStart DEF Waiting
  <2>2. CASE next.state = "Starting"
    <3>1. calls' = calls \cup {GetToken(l)}
      BY <1>1, <1>3, <1>8, <2>2
    <3>2. Waiting(calls \cup {GetToken(l)}, main, tasks', l, "Starting")
      BY <1>1, <1>2, <2>1, Asked
    <3>3. QED
      BY <2>2, <3>1, <3>2
  <2>3. CASE next.state # "Starting"
    <3>1. Asks(next) = {} /\ calls' = calls \cup Asks(next)
      BY <1>3, <2>3
    <3>2. QED
      BY <2>1, <2>3, <3>1 DEF Waiting, Awaits
  <2>4. QED
    BY <2>2, <2>3
<1>9. QED
  BY <1>1, <1>6, <1>7, <1>8 DEF k, l
\* Filling starts a stream or leaves it as it is.
LEMMA FilledKeeps ==
  ASSUME NEW s \in Stream, NEW pipe, NEW f
  PROVE  /\ FilledStream(pipe, f, s).close = s.close
         /\ s.state = "Starting" => FilledStream(pipe, f, s).state = "Starting"
<1>1. \A messages : /\ Send(s, messages).close = s.close
                     /\ Send(s, messages).state = s.state
  BY DEF Send, Stream
<1>2. Start(s).close = s.close
  BY DEF Start, Stream
<1>3. /\ [s EXCEPT !.idle = s.idle \/ s.state = "Open"].close = s.close
      /\ [s EXCEPT !.idle = s.idle \/ s.state = "Open"].state = s.state
  BY DEF Stream
<1>4. s.state = "Starting" => IsStarted(s)
  BY DEF IsStarted
<1>5. QED
  BY <1>1, <1>2, <1>3, <1>4 DEF FilledStream

\* A filled stream waits as it should when the one it is made from was not
\* opened or interrupted.
LEMMA FillMoves ==
  ASSUME PipelineInv, NEW q, NEW pipe, NEW s \in Stream, FillWritePipeline(pipe, q, s),
         stream' \in Stream, main' = main,
         Waiting(calls, main, tasks', stream.close, stream.state),
         s.close >= stream.close,
         s.close = stream.close /\ stream.state = "Starting" => s.state = "Starting"
  PROVE  AwaitInv'
<1> DEFINE next == FilledStream(pipe, Filled(pipe, q), s)
<1>1. stream' = next /\ calls' = calls \cup Asks(next)
  BY Zenon DEF FillWritePipeline
<1>2. /\ next.close = s.close
      /\ s.state = "Starting" => next.state = "Starting"
  BY FilledKeeps
<1> HIDE DEF next
<1>3. next \in Stream
  BY <1>1
<1>4. next.close >= stream.close
  BY <1>2
<1>5. next.close = stream.close /\ stream.state = "Starting" => next.state = "Starting"
  BY <1>2
<1>6. QED
  BY <1>1, <1>3, <1>4, <1>5, StreamMoves, Zenon

\* A stream stopped is closed or was not starting.
LEMMA StoppedKeeps ==
  ASSUME NEW s \in Stream
  PROVE  /\ Stopped(s) \in Stream /\ Stopped(s).close >= s.close
         /\ Stopped(s).close = s.close => Stopped(s).state = s.state
         /\ Stopped(s).state # "Starting"
<1>1. s.close \in Nat
  BY StreamFields
<1>2. /\ Closed(s, "Initial") \in Stream /\ Closed(s, "Initial").close = s.close + 1
      /\ Closed(s, "Initial").state = "Initial"
  BY ClosedFacts DEF StreamOK
<1>3. CASE IsStarted(s)
  BY <1>1, <1>2, <1>3 DEF Stopped
<1>4. CASE ~ IsStarted(s)
  <2>1. Stopped(s) = s /\ s.state # "Starting"
    BY <1>4 DEF Stopped, IsStarted
  <2>2. QED
    BY <1>1, <2>1
<1>5. QED
  BY <1>3, <1>4

\* A task that is no answer is done, or one for a stream closed since.
LEMMA TaskDone ==
  ASSUME PipelineInv, AwaitInv, NEW kind, Runs(kind),
         kind # "token" \/ Head(tasks).close # stream.close
  PROVE  Waiting(calls, main, tasks', stream.close, stream.state) /\ main' = main
<1>1. Head(tasks) \notin TokensOf(stream.close)
  BY DEF Runs, TokensOf
<1>2. tasks # <<>> /\ tasks' = Tail(tasks) /\ main' = main
  BY DEF Runs, otherThreads
<1>3. QED
  BY <1>1, <1>2, AwaitInvFacts, TasksPopped

\* Closing on an error leaves no start that waits.
LEMMA CloseOnErrorAwait ==
  ASSUME PipelineInv, NoneAfter(calls, main, tasks', stream.close), main' = main,
         CloseOnError
  PROVE  AwaitInv'
<1> DEFINE c == Closed(stream, "Error")
<1>1. stream \in Stream /\ stream.close \in Nat
  BY PipelineInvFacts, StreamFields
<1>2. /\ c \in Stream /\ c.close = stream.close + 1 /\ c.state = "Error"
  BY <1>1, ClosedFacts DEF StreamOK
<1>3. /\ stream' = IF pipeline # <<>> THEN Start(c) ELSE c
      /\ calls' = calls
  BY DEF CloseOnError
<1> HIDE DEF c
<1>4. Start(c).close = c.close /\ Start(c).state = "Backoff"
  BY <1>2 DEF Start, Stream
<1>5. stream'.close = stream.close + 1 /\ stream'.state # "Starting"
  BY <1>2, <1>3, <1>4
<1> DEFINE l == stream.close + 1
<1>6. l \in Nat /\ stream.close < l
  BY <1>1
<1> HIDE DEF l
<1>7. NoneAfter(calls, main, tasks', l) /\ NoneAwaited(calls, main, tasks', l)
  BY <1>1, <1>6, LaterStart
<1>8. stream'.close = l
  BY <1>5 DEF l
<1>9. QED
  BY <1>3, <1>5, <1>7, <1>8 DEF AwaitInv, Awaits

\* A write enqueued is no token.
LEMMA MakeWriteAwait ==
  ASSUME PipelineInv, AwaitInv, MakeWrite
  PROVE  AwaitInv'
<1> DEFINE t == [kind |-> "write", write |-> made + 1]
<1>1. made + 1 \in Writes
  BY PipelineInvFacts, PipelineAssumption DEF MakeWrite, Writes
<1>2. t \in Task /\ t.kind # "token"
  BY <1>1 DEF Task
<1>3. /\ tasks' = Append(tasks, t)
      /\ UNCHANGED <<calls, main, stream>>
  BY DEF MakeWrite, otherThreads
<1> HIDE DEF t
<1>4. Waiting(calls, main, Append(tasks, t), stream.close, stream.state)
  BY <1>2, AwaitInvFacts, TasksAppended
<1>5. QED
  BY <1>3, <1>4 DEF AwaitInv, Waiting

\* A pipeline that starts the stream asks for one token.
LEMMA WriteMutationsAwait ==
  ASSUME PipelineInv, AwaitInv, WriteMutations, stream' \in Stream
  PROVE  AwaitInv'
<1>1. Waiting(calls, main, tasks', stream.close, stream.state) /\ main' = main
  BY TaskDone DEF WriteMutations
<1>2. stream \in Stream /\ stream.close \in Nat
  BY PipelineInvFacts, StreamFields
<1>3. PICK q : FillWritePipeline(pipeline, q, stream)
  BY Zenon DEF WriteMutations
<1>4. QED
  BY <1>1, <1>2, <1>3, FillMoves

\* A change closes the start that waited and may begin another.
LEMMA HandleCredentialChangeAwait ==
  ASSUME PipelineInv, AwaitInv, HandleCredentialChange, stream' \in Stream
  PROVE  AwaitInv'
<1>1. Waiting(calls, main, tasks', stream.close, stream.state) /\ main' = main
  BY TaskDone DEF HandleCredentialChange
<1> DEFINE s == Stopped(stream)
<1>2. /\ s \in Stream /\ s.close >= stream.close
      /\ s.close = stream.close => s.state = stream.state
  BY PipelineInvFacts, StoppedKeeps
<1>3. FillWritePipeline(<<>>, queue[user'], s)
  BY DEF HandleCredentialChange
<1> HIDE DEF s
<1>4. QED
  BY <1>1, <1>2, <1>3, FillMoves

\* A token ignored was asked for by an earlier start.
LEMMA IgnoreTokenAwait ==
  ASSUME PipelineInv, AwaitInv, IgnoreToken
  PROVE  AwaitInv'
<1>1. Waiting(calls, main, tasks', stream.close, stream.state) /\ main' = main
  BY TaskDone DEF IgnoreToken
<1>2. QED
  BY <1>1 DEF IgnoreToken, AwaitInv, Waiting

\* The answer for the current start is done.
LEMMA TokenDone ==
  ASSUME PipelineInv, AwaitInv, Runs("token"), Head(tasks).close = stream.close
  PROVE  /\ NoneAfter(calls, main, tasks', stream.close)
         /\ NoneAwaited(calls, main, tasks', stream.close)
         /\ main' = main
<1>1. Head(tasks) \in TokensOf(stream.close)
  BY AnswerFindsStarting
<1>2. tasks # <<>> /\ tasks' = Tail(tasks) /\ main' = main
  BY DEF Runs, otherThreads
<1>3. QED
  BY <1>1, <1>2, AwaitInvFacts, AnswerTaken

\* The token taken was the only one awaited.
LEMMA ResumeStartAwait ==
  ASSUME PipelineInv, AwaitInv, ResumeStartWithCredentials
  PROVE  AwaitInv'
<1> DEFINE s == [stream EXCEPT !.state = "Open", !.token = Head(tasks).user]
<1>1. /\ NoneAfter(calls, main, tasks', stream.close)
      /\ NoneAwaited(calls, main, tasks', stream.close)
      /\ main' = main
  BY TokenDone DEF ResumeStartWithCredentials
<1>2. s.state = "Open" /\ s.close = stream.close
  BY PipelineInvFacts DEF Stream
<1>3. Send(s, <<Handshake>>).state = s.state /\ Send(s, <<Handshake>>).close = s.close
  BY PipelineInvFacts DEF Send, Stream
<1>4. stream'.state = "Open" /\ stream'.close = stream.close /\ calls' = calls
  BY <1>2, <1>3 DEF ResumeStartWithCredentials
<1>5. QED
  BY <1>1, <1>4 DEF AwaitInv, Awaits

\* The failure taken was the only answer awaited.
LEMMA FailStartAwait ==
  ASSUME PipelineInv, AwaitInv, FailStartWithCredentials
  PROVE  AwaitInv'
  BY TokenDone, CloseOnErrorAwait DEF FailStartWithCredentials

\* A broken stream waits for no token.
LEMMA StreamFinishAwait ==
  ASSUME PipelineInv, AwaitInv, OnStreamFinish
  PROVE  AwaitInv'
<1>1. CloseOnError /\ UNCHANGED <<main, tasks>>
  BY DEF OnStreamFinish, otherThreads
<1>2. QED
  BY <1>1, CloseOnErrorAwait DEF AwaitInv

\* The start after a backoff asks for one token.
LEMMA BackoffElapsedAwait ==
  ASSUME PipelineInv, AwaitInv, BackoffElapsed
  PROVE  AwaitInv'
<1>1. /\ stream.state = "Backoff"
      /\ stream' = [stream EXCEPT !.state = "Starting"]
      /\ calls' = calls \cup {GetToken(stream.close)}
      /\ UNCHANGED <<main, tasks>>
  BY DEF BackoffElapsed, otherThreads
<1>2. stream'.state = "Starting" /\ stream'.close = stream.close
  BY <1>1, PipelineInvFacts DEF Stream
<1>3. GetToken(stream.close) \in TokenCall /\ GetToken(stream.close).close = stream.close
  BY PipelineInvFacts, GetTokenType DEF GetToken
<1>4. Waiting(calls \cup {GetToken(stream.close)}, main, tasks, stream.close, "Starting")
  BY <1>1, <1>3, AwaitInvFacts, Asked DEF AwaitInv, Awaits
<1>5. QED
  BY <1>1, <1>2, <1>4 DEF AwaitInv, Waiting

\* A stream stopped waits for no token.
LEMMA IdleTimeoutAwait ==
  ASSUME PipelineInv, AwaitInv, IdleTimeout
  PROVE  AwaitInv'
<1> DEFINE s == Stopped(stream)
<1>1. stream' = s /\ UNCHANGED <<calls, main, tasks>>
  BY DEF IdleTimeout, credentials
<1>2. /\ s \in Stream /\ s.close >= stream.close
      /\ s.close = stream.close => s.state = stream.state
      /\ s.state # "Starting"
  BY PipelineInvFacts, StoppedKeeps
<1> HIDE DEF s
<1>3. Asks(s) = {}
  BY <1>2 DEF Asks
<1>4. Waiting(calls, main, tasks', stream.close, stream.state)
  BY <1>1, AwaitInvFacts
<1>5. calls' = calls \cup Asks(s)
  BY <1>1, <1>3
<1>6. QED
  BY <1>1, <1>2, <1>4, <1>5, StreamMoves

\* What the channel carries is nothing to the calls.
LEMMA ChannelAwait ==
  ASSUME PipelineInv, AwaitInv, Serve \/ OnWriteStreamHandshakeComplete
  PROVE  AwaitInv'
<1>1. UNCHANGED <<calls, main, tasks>>
  BY DEF Serve, OnWriteStreamHandshakeComplete, credentials
<1>2. stream'.state = stream.state /\ stream'.close = stream.close
  <2>1. CASE Serve
    BY <2>1, PipelineInvFacts DEF Serve, Stream
  <2>2. CASE OnWriteStreamHandshakeComplete
    BY <2>2, PipelineInvFacts DEF OnWriteStreamHandshakeComplete, Send, Stream
  <2>3. QED
    BY <2>1, <2>2
<1>3. QED
  BY <1>1, <1>2 DEF AwaitInv

\* A head settled may start a stream closed before.
LEMMA SettleAwait ==
  ASSUME PipelineInv, AwaitInv, NEW s \in Stream, Settle(s), stream' \in Stream,
         UNCHANGED <<main, tasks>>,
         s.close >= stream.close,
         s.close = stream.close /\ stream.state = "Starting" => s.state = "Starting"
  PROVE  AwaitInv'
<1>1. PICK q : FillWritePipeline(Tail(pipeline), q, s)
  BY Zenon DEF Settle
<1>2. Waiting(calls, main, tasks', stream.close, stream.state)
  BY AwaitInvFacts
<1>3. QED
  BY <1>1, <1>2, FillMoves

\* An answer leaves the open stream open.
LEMMA MutationResultAwait ==
  ASSUME PipelineInv, AwaitInv, OnWriteStreamMutationResult, stream' \in Stream
  PROVE  AwaitInv'
<1> DEFINE s == [stream EXCEPT !.replies = Tail(stream.replies)]
<1>1. StreamOK(s) /\ s.close = stream.close /\ s.state = "Open"
  BY AnswerRead DEF OnWriteStreamMutationResult
<1>2. s \in Stream
  BY <1>1 DEF StreamOK
<1>3. Settle(s) /\ UNCHANGED <<main, tasks>>
  BY DEF OnWriteStreamMutationResult, otherThreads
<1>4. stream.state = "Open" /\ stream.close \in Nat
  BY HandshakeFacts, PipelineInvFacts, StreamFields DEF OnWriteStreamMutationResult
<1> HIDE DEF s
<1>5. QED
  BY <1>1, <1>2, <1>3, <1>4, SettleAwait

\* A refusal closes the stream and may start it afresh.
LEMMA HandleWriteErrorAwait ==
  ASSUME PipelineInv, AwaitInv, HandleWriteError, stream' \in Stream
  PROVE  AwaitInv'
<1> DEFINE s == Closed(stream, "Initial")
<1>1. stream \in Stream /\ stream.close \in Nat
  BY PipelineInvFacts, StreamFields
<1>2. s \in Stream /\ s.close = stream.close + 1
  BY <1>1, ClosedFacts DEF StreamOK
<1>3. Settle(s) /\ UNCHANGED <<main, tasks>>
  BY DEF HandleWriteError, otherThreads
<1> HIDE DEF s
<1>4. s.close >= stream.close /\ s.close # stream.close
  BY <1>1, <1>2
<1>5. QED
  BY <1>2, <1>3, <1>4, SettleAwait

\* A process that starts again has asked for a token when it has writes to send.
LEMMA RestartAwait ==
  ASSUME PipelineInv, Restart
  PROVE  AwaitInv'
<1> DEFINE c == [counter |-> 0, close |-> 0, user |-> Failed]
<1>1. /\ main' = <<>> /\ tasks' = <<>>
      /\ stream' = FilledStream(<<>>, pipeline', NewStream)
      /\ calls' = IF pipeline' = <<>> THEN {} ELSE {c}
  BY Zenon DEF Restart
<1>2. NewStream \in Stream /\ NewStream.state = "Initial" /\ NewStream.close = 0
  BY NewStreamFacts DEF StreamOK, NewStream
<1>3. ~ IsStarted(NewStream)
  BY <1>2 DEF IsStarted
<1>4. stream'.close = 0
  BY <1>1, <1>2, FilledKeeps
<1>5. stream'.state = IF pipeline' = <<>> THEN "Initial" ELSE "Starting"
  <2>1. CASE pipeline' = <<>>
    <3>1. stream' = [NewStream EXCEPT !.idle = NewStream.idle \/ NewStream.state = "Open"]
      BY <1>1, <2>1 DEF FilledStream
    <3>2. QED
      BY <1>2, <2>1, <3>1 DEF Stream
  <2>2. CASE pipeline' # <<>>
    <3>1. stream' = Start(NewStream)
      BY <1>1, <1>3, <2>2 DEF FilledStream
    <3>2. Start(NewStream).state = "Starting"
      BY <1>2 DEF Start, Stream
    <3>3. QED
      BY <2>2, <3>1, <3>2
  <2>3. QED
    BY <2>1, <2>2
<1>6. Len(<<>>) = 0 /\ \A i \in 1 .. 0 : FALSE
  OBVIOUS
<1>7. \A T : ~ SomeIn(<<>>, T)
  BY <1>6 DEF SomeIn
<1>8. NoneAfter({}, <<>>, <<>>, 0) /\ NoneAwaited({}, <<>>, <<>>, 0)
  BY <1>7 DEF NoneAfter, NoneAwaited
<1>9. c \in TokenCall /\ c.close = 0
  BY DEF TokenCall
<1> HIDE DEF c
<1>10. Waiting({} \cup {c}, <<>>, <<>>, 0, "Starting")
  BY <1>8, <1>9, Asked
<1>11. {} \cup {c} = {c}
  OBVIOUS
<1>12. CASE pipeline' = <<>>
  BY <1>1, <1>4, <1>5, <1>8, <1>12 DEF AwaitInv, Awaits
<1>13. CASE pipeline' # <<>>
  <2>1. Waiting({c}, <<>>, <<>>, 0, "Starting")
    BY <1>10, <1>11, Zenon
  <2>2. QED
    BY <1>1, <1>4, <1>5, <1>13, <2>1 DEF AwaitInv, Waiting
<1>14. QED
  BY <1>12, <1>13

(***************************************************************************)
(* The inductive invariant.                                                *)
(***************************************************************************)
IInv == PipelineInv /\ AwaitInv

\* It holds from the start, where nothing is queued and no stream started.
LEMMA InitIInv == Init => IInv
<1> SUFFICES ASSUME Init PROVE IInv
  OBVIOUS
<1>1. PipelineInv
  BY InitInv
<1>2. Len(<<>>) = 0 /\ \A i \in 1 .. 0 : FALSE
  OBVIOUS
<1>3. \A T : ~ SomeIn(<<>>, T)
  BY <1>2 DEF SomeIn
<1>4. calls = {} /\ main = <<>> /\ tasks = <<>> /\ stream.state = "Initial"
  BY DEF Init, CredentialsInit, NewStream
<1>5. AwaitInv
  BY <1>3, <1>4 DEF AwaitInv, NoneAfter, Awaits, NoneAwaited
<1>6. QED
  BY <1>1, <1>5 DEF IInv

\* Every step keeps it.
LEMMA StepIInv == IInv /\ [Next]_vars => IInv'
<1> SUFFICES ASSUME PipelineInv, AwaitInv, [Next]_vars PROVE IInv'
  BY DEF IInv
<1>1. PipelineInv'
  BY PipelineStep
<1>2. stream' \in Stream
  BY <1>1 DEF PipelineInv, TypeOK
<1> SUFFICES AwaitInv'
  BY <1>1 DEF IInv
<1>3. CASE UNCHANGED vars
  BY <1>3 DEF vars, credentials, pipeVars, AwaitInv
<1>4. CASE CredentialsNext /\ UNCHANGED pipeVars
  BY <1>4, OthersAwait DEF pipeVars
<1>5. CASE MakeWrite \/ WriteMutations \/ HandleCredentialChange
  BY <1>2, <1>5, MakeWriteAwait, WriteMutationsAwait, HandleCredentialChangeAwait
<1>6. CASE IgnoreToken \/ ResumeStartWithCredentials \/ FailStartWithCredentials
  BY <1>6, IgnoreTokenAwait, ResumeStartAwait, FailStartAwait
<1>7. CASE BackoffElapsed \/ IdleTimeout
  BY <1>7, BackoffElapsedAwait, IdleTimeoutAwait
<1>8. CASE Serve \/ OnWriteStreamHandshakeComplete
  BY <1>8, ChannelAwait
<1>9. CASE OnWriteStreamMutationResult \/ OnStreamFinish \/ HandleWriteError
  BY <1>2, <1>9, MutationResultAwait, StreamFinishAwait, HandleWriteErrorAwait
<1>10. CASE Restart
  BY <1>10, RestartAwait
<1>11. QED
  BY <1>3, <1>4, <1>5, <1>6, <1>7, <1>8, <1>9, <1>10 DEF Next

(***************************************************************************)
(* What it gives.                                                          *)
(***************************************************************************)
\* From the first step on the pipeline, what the stream carries of it, the ids on
\* disk and the tokens under way fit together, as RemoteStore, the stream and the
\* mutation queue each take for granted of the others.
THEOREM PipelineInvariant == Spec => []IInv
<1>1. Init => IInv
  BY InitIInv
<1>2. IInv /\ [Next]_vars => IInv'
  BY StepIInv
<1>3. QED
  BY <1>1, <1>2, PTL DEF Spec

\* Every variable of the write half keeps its type, the stream's token with its
\* state.
THEOREM PipelineTypes == Spec => []TypeOK
<1>1. IInv => TypeOK
  BY DEF IInv, PipelineInv
<1>2. QED
  BY <1>1, PipelineInvariant, PTL

\* However long the queue and however many writes the pipeline takes, it is the
\* front of the current user's queue and what fills it starts the stream.
THEOREM PipelineFront == Spec => []PipelineIsFront
<1>1. ASSUME IInv
      PROVE  PipelineIsFront
  <2> DEFINE Q == queue[user]
  <2>1. /\ Q \in Seq(Batch) /\ pipeline = InPipeline(Q)
        /\ pipeline # <<>> => IsStarted(stream)
    BY <1>1, PipelineInvFacts DEF IInv, NeedsStarted
  <2> HIDE DEF Q
  <2>2. /\ FrontLen(Q) \in 0 .. Len(Q) /\ Len(Q) \in Nat
        /\ pipeline \in Seq(Batch) /\ Len(pipeline) = FrontLen(Q)
    BY <2>1, FrontFacts, LenProperties
  <2>3. SubSeq(pipeline, 1, Len(pipeline)) = SubSeq(Q, 1, Len(pipeline))
    <3>1. FrontLen(Q) \in 0 .. FrontLen(Q)
      BY <2>2
    <3>2. QED
      BY <2>1, <2>2, <3>1, PartOfFront, Zenon
  <2>4. IsPrefix(pipeline, Q)
    BY <2>2, <2>3 DEF IsPrefix
  <2>5. Min({MaxPendingWrites, Len(Q)}) = FrontLen(Q)
    BY <2>2, PipelineAssumption DEF Min, FrontLen
  <2>6. QED
    BY <2>1, <2>2, <2>4, <2>5 DEF PipelineIsFront, Q
<1>2. QED
  BY <1>1, PipelineInvariant, PTL

\* Whatever was resent, refused or overtaken, an answer read past the handshake
\* is the answer to the head of the pipeline.
THEOREM AnswersInOrder == Spec => []ResponsesMatchPipeline
<1>1. IInv => ResponsesMatchPipeline
  BY PipelineInvFacts DEF IInv, Carries, ResponsesMatchPipeline
<1>2. QED
  BY <1>1, PipelineInvariant, PTL

\* The idle timer runs only over an empty pipeline.
THEOREM IdleHasNothingLeft == Spec => []IdleIsDrained
<1>1. IInv => IdleIsDrained
  BY PipelineInvFacts DEF IInv, Carries, IdleIsDrained
<1>2. QED
  BY <1>1, PipelineInvariant, PTL

\* How many places of a sequence hold a message of a kind.
LEMMA CountIn ==
  ASSUME NEW s, NEW T
  PROVE  /\ ~ SomeIn(s, T) => Cardinality({i \in 1 .. Len(s) : s[i] \in T}) = 0
         /\ OneIn(s, T) => Cardinality({i \in 1 .. Len(s) : s[i] \in T}) = 1
<1>1. ASSUME ~ SomeIn(s, T)
      PROVE  {i \in 1 .. Len(s) : s[i] \in T} = {}
  BY <1>1 DEF SomeIn
<1>2. ASSUME OneIn(s, T)
      PROVE  \E i : {j \in 1 .. Len(s) : s[j] \in T} = {i}
  BY <1>2 DEF OneIn
<1>3. QED
  BY <1>1, <1>2, FS_EmptySet, FS_Singleton

\* A token that comes late, or twice, or for a stream closed since, never finds
\* a start it was not asked for.
THEOREM StartsAwaitOneToken == Spec => []StartAwaitsToken
<1>1. ASSUME IInv
      PROVE  StartAwaitsToken
  <2> DEFINE k == stream.close
             C == {c \in calls : c.close = k}
             M == {i \in DOMAIN main : main[i].kind = "token" /\ main[i].call.close = k}
             T == {i \in DOMAIN tasks : tasks[i].kind = "token" /\ tasks[i].close = k}
             A == {i \in 1 .. Len(main) : main[i] \in AnswersOf(k)}
             B == {i \in 1 .. Len(tasks) : tasks[i] \in TokensOf(k)}
  <2>1. /\ calls \in SUBSET TokenCall /\ main \in Seq(MainBlock) /\ tasks \in Seq(Task)
        /\ Awaits(calls, main, tasks, k, stream.state)
    BY <1>1, AwaitInvFacts DEF IInv, Waiting
  <2> HIDE DEF k
  <2>2. C = calls \cap CallsOf(k)
    BY <2>1 DEF CallsOf
  <2>3. M = A
    <3>1. DOMAIN main = 1 .. Len(main) /\ \A i \in 1 .. Len(main) : main[i] \in MainBlock
      BY <2>1, LenProperties, ElementOfSeq
    <3>2. QED
      BY <3>1 DEF AnswersOf
  <2>4. T = B
    <3>1. DOMAIN tasks = 1 .. Len(tasks) /\ \A i \in 1 .. Len(tasks) : tasks[i] \in Task
      BY <2>1, LenProperties, ElementOfSeq
    <3>2. QED
      BY <3>1 DEF TokensOf
  <2>5. /\ ~ SomeIn(main, AnswersOf(k)) => Cardinality(A) = 0
        /\ OneIn(main, AnswersOf(k)) => Cardinality(A) = 1
        /\ ~ SomeIn(tasks, TokensOf(k)) => Cardinality(B) = 0
        /\ OneIn(tasks, TokensOf(k)) => Cardinality(B) = 1
    BY CountIn
  <2>6. /\ C = {} => Cardinality(C) = 0
        /\ (\E c : C = {c}) => Cardinality(C) = 1
    BY FS_EmptySet, FS_Singleton
  <2>7. TokensAwaited = Cardinality(C) + Cardinality(M) + Cardinality(T)
    BY DEF TokensAwaited, k
  <2> HIDE DEF C, M, T, A, B
  <2>8. CASE stream.state = "Starting"
    <3>1. CASE OneCall(calls, main, tasks, k)
      BY <2>2, <2>3, <2>4, <2>5, <2>6, <2>7, <2>8, <3>1 DEF OneCall, StartAwaitsToken
    <3>2. CASE OneAnswer(calls, main, tasks, k)
      BY <2>2, <2>3, <2>4, <2>5, <2>6, <2>7, <2>8, <3>2 DEF OneAnswer, StartAwaitsToken
    <3>3. CASE OneToken(calls, main, tasks, k)
      BY <2>2, <2>3, <2>4, <2>5, <2>6, <2>7, <2>8, <3>3 DEF OneToken, StartAwaitsToken
    <3>4. QED
      BY <2>1, <2>8, <3>1, <3>2, <3>3 DEF Awaits
  <2>9. CASE stream.state # "Starting"
    BY <2>1, <2>2, <2>3, <2>4, <2>5, <2>6, <2>7, <2>9
       DEF Awaits, NoneAwaited, StartAwaitsToken
  <2>10. QED
    BY <2>8, <2>9
<1>2. QED
  BY <1>1, PipelineInvariant, PTL

(***************************************************************************)
(* Tokens.  An open stream carries the token of the user whose queue it    *)
(* sends.  What makes it so: every change of user passes through the main  *)
(* queue and the worker queue in order, the counter tells answers a change *)
(* has overtaken, and a change closes the start that waits.                *)
(***************************************************************************)

(***************************************************************************)
(* Changes of user under way in a queue of messages.                       *)
(***************************************************************************)
NoChange(s) == \A i \in 1 .. Len(s) : s[i].kind # "changed"

\* The user known to whoever has handled all of s, having known w before.
Knows(s, w, u) ==
  \/ NoChange(s) /\ w = u
  \/ \E i \in 1 .. Len(s) :
       /\ s[i].kind = "changed" /\ s[i].user = u
       /\ \A j \in 1 .. Len(s) : j > i => s[j].kind # "changed"

\* Messages no change is ahead of.
Leading(s) == {s[i] : i \in {k \in 1 .. Len(s) :
                               \A j \in 1 .. Len(s) : j < k => s[j].kind # "changed"}}

\* What a message appended does to the changes under way.
LEMMA AppendChange ==
  ASSUME NEW S, NEW s \in Seq(S), NEW x \in S
  PROVE  /\ x.kind # "changed" =>
              \A w, u : Knows(s, w, u) => Knows(Append(s, x), w, u)
         /\ x.kind = "changed" => \A w : Knows(Append(s, x), w, x.user)
         /\ x.kind = "changed" => ~ NoChange(Append(s, x))
         /\ ~ NoChange(s) => ~ NoChange(Append(s, x))
         /\ Leading(Append(s, x)) \subseteq Leading(s) \cup {x}
         /\ ~ NoChange(s) => Leading(Append(s, x)) \subseteq Leading(s)
<1> DEFINE a == Append(s, x)
<1>1. /\ Len(s) \in Nat /\ Len(a) = Len(s) + 1
      /\ \A i \in 1 .. Len(s) : a[i] = s[i]
      /\ a[Len(s) + 1] = x
  BY AppendProperties, LenProperties
<1> HIDE DEF a
<1>2. /\ \A i \in 1 .. Len(a) : i \in 1 .. Len(s) \/ i = Len(s) + 1
      /\ \A i \in 1 .. Len(s) : i \in 1 .. Len(a) /\ i < Len(s) + 1
      /\ Len(s) + 1 \in 1 .. Len(a)
      /\ \A i \in 1 .. Len(a) : ~ i > Len(s) + 1
  BY <1>1
<1>3. ASSUME x.kind # "changed", NEW w, NEW u, Knows(s, w, u)
      PROVE  Knows(a, w, u)
  BY <1>1, <1>2, <1>3 DEF Knows, NoChange
<1>4. ASSUME x.kind = "changed", NEW w
      PROVE  Knows(a, w, x.user)
  BY <1>1, <1>2, <1>4 DEF Knows
<1>5. /\ x.kind = "changed" => ~ NoChange(a)
      /\ ~ NoChange(s) => ~ NoChange(a)
  BY <1>1, <1>2 DEF NoChange
<1>6. Leading(a) \subseteq Leading(s) \cup {x}
  BY <1>1, <1>2 DEF Leading
<1>7. ASSUME ~ NoChange(s)
      PROVE  Leading(a) \subseteq Leading(s)
  BY <1>1, <1>2, <1>7 DEF Leading, NoChange
<1>8. QED
  BY <1>3, <1>4, <1>5, <1>6, <1>7 DEF a

\* What a message handled does to the changes under way.
LEMMA TailChange ==
  ASSUME NEW S, NEW s \in Seq(S), s # <<>>
  PROVE  /\ Head(s).kind # "changed" =>
              \A w, u : Knows(s, w, u) => Knows(Tail(s), w, u)
         /\ Head(s).kind = "changed" =>
              \A w, u : Knows(s, w, u) => Knows(Tail(s), Head(s).user, u)
         /\ Head(s).kind # "changed" => Leading(Tail(s)) \subseteq Leading(s)
         /\ Head(s).kind # "changed" /\ ~ NoChange(s) => ~ NoChange(Tail(s))
         /\ Head(s) \in Leading(s)
<1> DEFINE t == Tail(s)
<1>1. /\ Len(s) \in Nat /\ Len(s) > 0 /\ Len(t) = Len(s) - 1
      /\ \A i \in 1 .. Len(t) : t[i] = s[i + 1]
  BY HeadTailProperties, LenProperties, EmptySeq
<1> HIDE DEF t
<1>2. Head(s) = s[1]
  BY <1>1
<1>3. /\ 1 \in 1 .. Len(s)
      /\ \A i \in 1 .. Len(t) : i + 1 \in 1 .. Len(s) /\ i + 1 > 1
      /\ \A i \in 1 .. Len(s) : i # 1 => i - 1 \in 1 .. Len(t) /\ (i - 1) + 1 = i
      /\ \A i, j \in 1 .. Len(t) : i < j <=> i + 1 < j + 1
      /\ \A i \in 1 .. Len(s) : ~ i < 1 /\ (i # 1 => i > 1)
  BY <1>1
<1>4. \A i \in 1 .. Len(s) : i # 1 =>
        \E j \in 1 .. Len(t) : j + 1 = i /\ t[j] = s[i]
  <2>1. ASSUME NEW i \in 1 .. Len(s), i # 1
        PROVE  i - 1 \in 1 .. Len(t) /\ (i - 1) + 1 = i /\ t[i - 1] = s[i]
    <3>1. i - 1 \in 1 .. Len(t) /\ (i - 1) + 1 = i
      BY <1>3, <2>1
    <3>2. t[i - 1] = s[(i - 1) + 1]
      BY <1>1, <3>1
    <3>3. QED
      BY <3>1, <3>2, Zenon
  <2>2. QED
    BY <2>1, Zenon
<1>5. NoChange(s) => NoChange(t)
  BY <1>1, <1>3 DEF NoChange
<1>6. ASSUME NEW w, NEW u, Knows(s, w, u)
      PROVE  Knows(t, IF s[1].kind = "changed" THEN s[1].user ELSE w, u)
  <2>1. CASE NoChange(s) /\ w = u
    BY <1>3, <1>5, <2>1 DEF Knows, NoChange
  <2>2. CASE \E i \in 1 .. Len(s) :
               /\ s[i].kind = "changed" /\ s[i].user = u
               /\ \A j \in 1 .. Len(s) : j > i => s[j].kind # "changed"
    <3>1. PICK i \in 1 .. Len(s) :
                 /\ s[i].kind = "changed" /\ s[i].user = u
                 /\ \A j \in 1 .. Len(s) : j > i => s[j].kind # "changed"
      BY <2>2
    <3>2. CASE i = 1
      <4>1. \A j \in 1 .. Len(t) : t[j].kind # "changed"
        BY <1>1, <1>3, <3>1, <3>2
      <4>2. QED
        BY <3>1, <3>2, <4>1 DEF Knows, NoChange
    <3>3. CASE i # 1
      <4>1. PICK k \in 1 .. Len(t) : k + 1 = i /\ t[k] = s[i]
        BY <1>4, <3>3
      <4>2. \A j \in 1 .. Len(t) : j > k => j + 1 \in 1 .. Len(s) /\ j + 1 > i
        BY <1>1, <4>1
      <4>3. \A j \in 1 .. Len(t) : j > k => t[j].kind # "changed"
        BY <1>1, <3>1, <4>2
      <4>4. QED
        BY <3>1, <4>1, <4>3 DEF Knows
    <3>4. QED
      BY <3>2, <3>3
  <2>3. QED
    BY <1>6, <2>1, <2>2 DEF Knows
<1>7. ASSUME s[1].kind # "changed", NEW x \in Leading(t)
      PROVE  x \in Leading(s)
  <2>1. PICK k \in 1 .. Len(t) :
               /\ x = t[k]
               /\ \A j \in 1 .. Len(t) : j < k => t[j].kind # "changed"
    BY DEF Leading
  <2>2. ASSUME NEW j \in 1 .. Len(s), j < k + 1
        PROVE  s[j].kind # "changed"
    <3>1. CASE j = 1
      BY <1>7, <3>1
    <3>2. CASE j # 1
      <4>1. PICK i \in 1 .. Len(t) : i + 1 = j /\ t[i] = s[j]
        BY <1>4, <3>2
      <4>2. i < k
        BY <2>2, <4>1
      <4>3. QED
        BY <2>1, <4>1, <4>2
    <3>3. QED
      BY <3>1, <3>2
  <2>3. k + 1 \in 1 .. Len(s) /\ x = s[k + 1]
    BY <1>1, <1>3, <2>1
  <2>4. QED
    BY <2>2, <2>3 DEF Leading
<1>8. ASSUME s[1].kind # "changed", ~ NoChange(s)
      PROVE  ~ NoChange(t)
  BY <1>1, <1>3, <1>4, <1>8 DEF NoChange
<1>9. s[1] \in Leading(s)
  BY <1>3 DEF Leading
<1>10. QED
  BY <1>2, <1>6, <1>7, <1>8, <1>9 DEF t
(***************************************************************************)
(* The invariant.                                                          *)
(***************************************************************************)

\* A call notes a counter of now or before; one that fetches a token of a user
\* who is gone has a change ahead of its answer, or had.
CallsCurrent ==
  \A c \in calls :
    /\ c.counter <= counter
    /\ c.user # Failed /\ c.counter = counter => ~ NoChange(main) \/ c.user = auth

AnswersCounted ==
  \A i \in 1 .. Len(main) : main[i].kind = "token" => main[i].call.counter <= counter

\* An answer the counter lets pass is for the user the worker queue hears of
\* last.
AnswersCurrent ==
  \A m \in Leading(main) :
    m.kind = "token" /\ m.user # Failed /\ m.call.counter = counter
      => Knows(tasks, user, m.user)

\* A token enqueued for the current start with no change ahead of it is the
\* current user's.
TokensCurrent ==
  \A t \in Leading(tasks) :
    t.kind = "token" /\ t.user # Failed /\ t.close = stream.close => t.user = user

\* The user signed in is known to the worker queue once it has handled what is
\* under way.
AuthKnown == \E w \in Users : Knows(tasks, user, w) /\ Knows(main, w, auth)

TokenInv ==
  /\ AuthKnown /\ CallsCurrent /\ AnswersCounted /\ AnswersCurrent /\ TokensCurrent
  /\ TokenIsOfUser

(***************************************************************************)
(* The threads around the worker queue.                                    *)
(***************************************************************************)

\* A block posted on the main queue, for a call that is answered with it or
\* none.
LEMMA Posted ==
  ASSUME PipelineInv, TokenInv,
         NEW x \in MainBlock, main' = Append(main, x),
         x.kind = "changed" => x.user = auth',
         x.kind = "token" => /\ auth' = auth /\ x.call.counter <= counter
                             /\ x.user # Failed /\ x.call.counter = counter
                                  => ~ NoChange(main) \/ x.user = auth,
         calls' \in SUBSET calls,
         UNCHANGED <<counter, tasks, user, stream>>
  PROVE  TokenInv'
<1>1. /\ main \in Seq(MainBlock) /\ calls \in SUBSET TokenCall
      /\ x.kind = "changed" \/ x.kind = "token"
      /\ auth \in Users
  BY PipelineInvFacts DEF MainBlock
<1>2. /\ x.kind # "changed" => \A w, u : Knows(main, w, u) => Knows(main', w, u)
      /\ x.kind = "changed" => \A w : Knows(main', w, x.user)
      /\ x.kind = "changed" => ~ NoChange(main')
      /\ ~ NoChange(main) => ~ NoChange(main')
      /\ Leading(main') \subseteq Leading(main) \cup {x}
      /\ ~ NoChange(main) => Leading(main') \subseteq Leading(main)
  BY <1>1, AppendChange, Zenon
<1>3. PICK w \in Users : Knows(tasks, user, w) /\ Knows(main, w, auth)
  BY DEF TokenInv, AuthKnown
<1>4. AuthKnown'
  <2>1. Knows(main', w, auth')
    BY <1>1, <1>2, <1>3
  <2>2. QED
    BY <1>3, <2>1 DEF AuthKnown
<1>5. CallsCurrent'
  BY <1>1, <1>2 DEF TokenInv, CallsCurrent
<1>6. AnswersCounted'
  <2>1. /\ Len(main) \in Nat /\ Len(main') = Len(main) + 1
        /\ \A i \in 1 .. Len(main) : main'[i] = main[i]
        /\ main'[Len(main) + 1] = x
    BY <1>1, AppendProperties, LenProperties
  <2>2. \A i \in 1 .. Len(main') : i \in 1 .. Len(main) \/ i = Len(main) + 1
    BY <2>1
  <2>3. \A i \in 1 .. Len(main') : main'[i].kind = "token" => main'[i].call.counter <= counter
    BY <2>1, <2>2 DEF TokenInv, AnswersCounted
  <2>4. QED
    BY <2>3 DEF AnswersCounted
<1>7. AnswersCurrent'
  <2>1. ASSUME NEW m \in Leading(main'),
               m.kind = "token", m.user # Failed, m.call.counter = counter
        PROVE  Knows(tasks, user, m.user)
    <3>1. CASE m \in Leading(main)
      BY <2>1, <3>1 DEF TokenInv, AnswersCurrent
    <3>2. CASE m \notin Leading(main)
      <4>1. m = x /\ NoChange(main)
        BY <1>2, <2>1, <3>2
      <4>2. m.user = auth
        BY <2>1, <4>1
      <4>3. w = auth
        BY <1>3, <4>1 DEF Knows, NoChange
      <4>4. QED
        BY <1>3, <4>2, <4>3
    <3>3. QED
      BY <3>1, <3>2
  <2>2. QED
    BY <2>1 DEF AnswersCurrent
<1>8. TokensCurrent' /\ TokenIsOfUser'
  BY DEF TokenInv, TokensCurrent, TokenIsOfUser
<1>9. QED
  BY <1>4, <1>5, <1>6, <1>7, <1>8 DEF TokenInv

\* A call starts to fetch the token of the user of now.
LEMMA RefreshTokens ==
  ASSUME PipelineInv, TokenInv, NEW c \in calls, StartRefresh(c), UNCHANGED pipeVars
  PROVE  TokenInv'
<1>1. c \in TokenCall
  BY PipelineInvFacts
<1> DEFINE d == [c EXCEPT !.user = auth]
<1>2. d.counter = c.counter /\ d.user = auth
  BY <1>1 DEF TokenCall
<1>3. calls' = (calls \ {c}) \cup {d} /\ UNCHANGED <<auth, counter, main, tasks>>
  BY DEF StartRefresh
<1> HIDE DEF d
<1>4. CallsCurrent'
  BY <1>2, <1>3 DEF TokenInv, CallsCurrent
<1>5. UNCHANGED <<user, stream>>
  BY DEF pipeVars
<1>6. QED
  BY <1>3, <1>4, <1>5
     DEF TokenInv, AuthKnown, AnswersCounted, AnswersCurrent, TokensCurrent, TokenIsOfUser

\* A notification: no answer from before it passes any more.
LEMMA NotifyTokens ==
  ASSUME PipelineInv, TokenInv, NotifyChange, UNCHANGED pipeVars
  PROVE  TokenInv'
<1> DEFINE x == Changed(Head(main).user)
<1>1. /\ main # <<>> /\ main \in Seq(MainBlock) /\ tasks \in Seq(Task)
      /\ counter \in Nat /\ calls \in SUBSET TokenCall
      /\ Head(main).kind = "changed"
      /\ counter' = counter + 1 /\ tasks' = Append(tasks, x) /\ main' = Tail(main)
      /\ UNCHANGED <<auth, calls, user, stream>>
  BY PipelineInvFacts DEF NotifyChange, pipeVars
<1>2. Head(main) \in MainBlock
  BY <1>1, HeadTailProperties
<1>3. Head(main).user \in Users /\ x \in Task /\ x.kind = "changed" /\ x.user = Head(main).user
  BY <1>1, <1>2 DEF MainBlock, Task, Changed
<1> HIDE DEF x
<1>4. /\ \A u : Knows(main, u, auth) => Knows(main', x.user, auth)
      /\ Knows(tasks', user, x.user)
      /\ Leading(tasks') \subseteq Leading(tasks) \cup {x}
  BY <1>1, <1>3, TailChange, AppendChange
<1>5. AuthKnown'
  BY <1>1, <1>3, <1>4 DEF TokenInv, AuthKnown
<1>6. \A c \in calls : c.counter \in Nat
  BY <1>1 DEF TokenCall
<1>7. CallsCurrent'
  BY <1>1, <1>6 DEF TokenInv, CallsCurrent
<1>8. \A i \in 1 .. Len(main') :
        main'[i].kind = "token" => main'[i].call.counter <= counter
                                   /\ main'[i].call.counter \in Nat
  <2>1. /\ Len(main) \in Nat /\ Len(main') = Len(main) - 1 /\ Len(main) > 0
        /\ \A i \in 1 .. Len(main') : main'[i] = main[i + 1]
    BY <1>1, HeadTailProperties, LenProperties, EmptySeq
  <2>2. \A i \in 1 .. Len(main') : i + 1 \in 1 .. Len(main)
    BY <2>1
  <2>3. \A i \in 1 .. Len(main) : main[i] \in MainBlock
    BY <1>1, ElementOfSeq
  <2>4. \A m \in MainBlock : m.kind = "token" => m.call.counter \in Nat
    BY DEF MainBlock, TokenCall
  <2>5. QED
    BY <2>1, <2>2, <2>3, <2>4 DEF TokenInv, AnswersCounted
<1>9. AnswersCounted'
  BY <1>1, <1>8 DEF AnswersCounted
<1>10. AnswersCurrent'
  <2>1. \A m \in Leading(main') : \E i \in 1 .. Len(main') : m = main'[i]
    BY DEF Leading
  <2>2. \A m \in Leading(main') : m.kind = "token" => m.call.counter # counter + 1
    BY <1>1, <1>8, <2>1
  <2>3. QED
    BY <1>1, <2>2 DEF AnswersCurrent
<1>11. TokensCurrent'
  BY <1>1, <1>3, <1>4 DEF TokenInv, TokensCurrent
<1>12. QED
  BY <1>1, <1>5, <1>7, <1>9, <1>10, <1>11 DEF TokenInv, TokenIsOfUser

\* An answer is enqueued: with the token when no change has overtaken the call.
LEMMA AnswerTokens ==
  ASSUME PipelineInv, TokenInv, AnswerToken, UNCHANGED pipeVars
  PROVE  TokenInv'
<1> DEFINE a == Head(main)
           x == [kind |-> "token", close |-> a.call.close,
                 user |-> IF a.call.counter = counter THEN a.user ELSE Failed]
<1>1. /\ main # <<>> /\ main \in Seq(MainBlock) /\ tasks \in Seq(Task)
      /\ a.kind = "token"
      /\ tasks' = Append(tasks, x) /\ main' = Tail(main)
      /\ UNCHANGED <<auth, counter, calls, user, stream>>
  BY PipelineInvFacts DEF AnswerToken, pipeVars
<1>2. a \in MainBlock
  BY <1>1, HeadTailProperties
<1>3. a.call.close \in Nat /\ a.user \in Users \cup {Failed}
  BY <1>1, <1>2 DEF MainBlock, TokenCall
<1>4. x \in Task /\ x.kind = "token"
  BY <1>3 DEF Task
<1>5. x.user # Failed => a.user = x.user /\ a.call.counter = counter
  OBVIOUS
<1> HIDE DEF x
<1>6. /\ \A w, u : Knows(main, w, u) => Knows(main', w, u)
      /\ Leading(main') \subseteq Leading(main)
      /\ ~ NoChange(main) => ~ NoChange(main')
      /\ a \in Leading(main)
  BY <1>1, TailChange
<1>7. /\ \A w, u : Knows(tasks, w, u) => Knows(tasks', w, u)
      /\ Leading(tasks') \subseteq Leading(tasks) \cup {x}
      /\ ~ NoChange(tasks) => Leading(tasks') \subseteq Leading(tasks)
  BY <1>1, <1>4, AppendChange
<1>8. AuthKnown'
  BY <1>1, <1>6, <1>7 DEF TokenInv, AuthKnown
<1>9. CallsCurrent'
  BY <1>1, <1>6 DEF TokenInv, CallsCurrent
<1>10. AnswersCounted'
  <2>1. /\ Len(main) \in Nat /\ Len(main') = Len(main) - 1 /\ Len(main) > 0
        /\ \A i \in 1 .. Len(main') : main'[i] = main[i + 1]
    BY <1>1, HeadTailProperties, LenProperties, EmptySeq
  <2>2. \A i \in 1 .. Len(main') : i + 1 \in 1 .. Len(main)
    BY <2>1
  <2>3. QED
    BY <1>1, <2>1, <2>2 DEF TokenInv, AnswersCounted
<1>11. AnswersCurrent'
  BY <1>1, <1>6, <1>7 DEF TokenInv, AnswersCurrent
<1>12. TokensCurrent'
  <2>1. ASSUME NEW t \in Leading(tasks'),
               t.kind = "token", t.user # Failed, t.close = stream.close
        PROVE  t.user = user
    <3>1. CASE t \in Leading(tasks)
      BY <2>1, <3>1 DEF TokenInv, TokensCurrent
    <3>2. CASE t \notin Leading(tasks)
      <4>1. t = x /\ NoChange(tasks)
        BY <1>7, <2>1, <3>2
      <4>2. Knows(tasks, user, t.user)
        BY <1>1, <1>5, <1>6, <2>1, <4>1 DEF TokenInv, AnswersCurrent
      <4>3. QED
        BY <4>1, <4>2 DEF Knows, NoChange
    <3>3. QED
      BY <3>1, <3>2
  <2>2. QED
    BY <1>1, <2>1 DEF TokensCurrent
<1>13. QED
  BY <1>1, <1>8, <1>9, <1>10, <1>11, <1>12 DEF TokenInv, TokenIsOfUser
\* A fetched token is a change of credentials, posted ahead of the answer.
LEMMA FetchedTokens ==
  ASSUME PipelineInv, TokenInv, NEW c \in calls,
         main' = Append(Append(main, Changed(auth)), Answer(c, c.user)),
         calls' \in SUBSET calls,
         UNCHANGED <<auth, counter, tasks, user, stream>>
  PROVE  TokenInv'
<1> DEFINE x == Changed(auth)
           y == Answer(c, c.user)
           n == Append(main, x)
<1>1. /\ main \in Seq(MainBlock) /\ calls \in SUBSET TokenCall /\ auth \in Users
      /\ c \in TokenCall /\ c.user \in Users \cup {Failed}
  BY PipelineInvFacts DEF TokenCall
<1>2. /\ x \in MainBlock /\ x.kind = "changed" /\ x.user = auth
      /\ y \in MainBlock /\ y.kind = "token" /\ y.call = c
  BY <1>1 DEF Changed, Answer, MainBlock
<1> HIDE DEF x, y
<1>3. /\ \A w : Knows(n, w, auth)
      /\ ~ NoChange(n)
      /\ Leading(n) \subseteq Leading(main) \cup {x}
      /\ n \in Seq(MainBlock)
  BY <1>1, <1>2, AppendChange, AppendProperties
<1>4. main' = Append(n, y)
  BY DEF x, y
<1>5. /\ Len(main) \in Nat /\ Len(n) = Len(main) + 1
      /\ \A i \in 1 .. Len(main) : n[i] = main[i]
      /\ n[Len(main) + 1] = x
  BY <1>1, <1>2, AppendProperties, LenProperties
<1> HIDE DEF n
<1>6. /\ \A w : Knows(main', w, auth)
      /\ ~ NoChange(main')
      /\ Leading(main') \subseteq Leading(n)
  BY <1>2, <1>3, <1>4, AppendChange
<1>7. AuthKnown'
  BY <1>6 DEF TokenInv, AuthKnown
<1>8. CallsCurrent'
  BY <1>6 DEF TokenInv, CallsCurrent
<1>9. AnswersCounted'
  <2>1. /\ Len(n) \in Nat /\ Len(main') = Len(n) + 1
        /\ \A i \in 1 .. Len(n) : main'[i] = n[i]
        /\ main'[Len(n) + 1] = y
    BY <1>2, <1>3, <1>4, AppendProperties, LenProperties
  <2>2. \A i \in 1 .. Len(main') :
          i \in 1 .. Len(main) \/ i = Len(main) + 1 \/ i = Len(n) + 1
    BY <1>5, <2>1
  <2>3. \A i \in 1 .. Len(main) : i \in 1 .. Len(n)
    BY <1>5
  <2>4. Len(main) + 1 \in 1 .. Len(n)
    BY <1>5
  <2>5. c.counter <= counter
    BY DEF TokenInv, CallsCurrent
  <2>6. \A i \in 1 .. Len(main') : main'[i].kind = "token" => main'[i].call.counter <= counter
    BY <1>2, <1>5, <2>1, <2>2, <2>3, <2>4, <2>5 DEF TokenInv, AnswersCounted
  <2>7. QED
    BY <2>6 DEF AnswersCounted
<1>10. AnswersCurrent'
  BY <1>2, <1>3, <1>6 DEF TokenInv, AnswersCurrent
<1>11. QED
  BY <1>7, <1>8, <1>9, <1>10 DEF TokenInv, TokensCurrent, TokenIsOfUser

\* The other threads hand changes and answers on in order.
LEMMA OthersTokens ==
  ASSUME PipelineInv, TokenInv, CredentialsNext, UNCHANGED pipeVars
  PROVE  TokenInv'
<1>1. /\ main \in Seq(MainBlock) /\ calls \in SUBSET TokenCall /\ auth \in Users
      /\ UNCHANGED <<user, stream>>
  BY PipelineInvFacts DEF pipeVars
<1>2. \A u \in Users : /\ Changed(u) \in MainBlock /\ Changed(u).kind = "changed"
                        /\ Changed(u).user = u
  BY DEF Changed, MainBlock
<1>3. \A c \in TokenCall, u \in Users \cup {Failed} :
        /\ Answer(c, u) \in MainBlock /\ Answer(c, u).kind = "token"
        /\ Answer(c, u).call = c /\ Answer(c, u).user = u
  BY DEF Answer, MainBlock
<1>4. CASE \E u \in Users : UpdateCurrentUser(u)
  <2>1. PICK u \in Users : UpdateCurrentUser(u)
    BY <1>4
  <2> DEFINE x == Changed(u)
  <2>2. x \in MainBlock /\ x.kind = "changed" /\ x.user = u
    BY <1>2
  <2>3. /\ main' = Append(main, x) /\ auth' = u
        /\ UNCHANGED <<counter, calls, tasks>>
    BY <2>1 DEF UpdateCurrentUser
  <2> HIDE DEF x
  <2>4. QED
    BY <1>1, <2>2, <2>3, Posted
<1>5. CASE \E c \in calls : GiveToken(c)
  <2>1. PICK c \in calls : GiveToken(c)
    BY <1>5
  <2> DEFINE x == Answer(c, auth)
  <2>2. x \in MainBlock /\ x.kind = "token" /\ x.call = c /\ x.user = auth
    BY <1>1, <1>3
  <2>3. /\ main' = Append(main, x) /\ calls' = calls \ {c}
        /\ UNCHANGED <<auth, counter, tasks>>
    BY <2>1 DEF GiveToken
  <2>4. c.counter <= counter
    BY DEF TokenInv, CallsCurrent
  <2> HIDE DEF x
  <2>5. QED
    BY <1>1, <2>2, <2>3, <2>4, Posted
<1>6. CASE \E c \in calls : StartRefresh(c)
  BY <1>6, RefreshTokens
<1>7. CASE \E c \in calls : FinishRefresh(c)
  <2>1. PICK c \in calls : FinishRefresh(c)
    BY <1>7
  <2>2. /\ c \in TokenCall /\ c.user \in Users \cup {Failed}
        /\ c.counter <= counter
        /\ c.user # Failed /\ c.counter = counter => ~ NoChange(main) \/ c.user = auth
    BY <1>1 DEF TokenCall, TokenInv, CallsCurrent
  <2>3. calls' = calls \ {c} /\ UNCHANGED <<auth, counter, tasks>>
    BY <2>1 DEF FinishRefresh
  <2>4. CASE main' = Append(main, Answer(c, Failed))
    <3> DEFINE x == Answer(c, Failed)
    <3>1. x \in MainBlock /\ x.kind = "token" /\ x.call = c /\ x.user = Failed
      BY <1>3, <2>2
    <3>2. main' = Append(main, x)
      BY <2>4
    <3> HIDE DEF x
    <3>3. QED
      BY <1>1, <2>2, <2>3, <3>1, <3>2, Posted
  <2>5. CASE main' = main \o (IF c.user = auth THEN <<Changed(auth)>> ELSE <<>>)
                          \o <<Answer(c, c.user)>>
    <3>1. \A n \in Seq(MainBlock) :
            n \o <<Answer(c, c.user)>> = Append(n, Answer(c, c.user))
      BY <1>3, <2>2, AppendIsConcat
    <3>2. CASE c.user = auth
      <4>1. /\ main \o <<Changed(auth)>> = Append(main, Changed(auth))
            /\ Append(main, Changed(auth)) \in Seq(MainBlock)
        BY <1>1, <1>2, AppendIsConcat, AppendProperties
      <4>2. main' = Append(Append(main, Changed(auth)), Answer(c, c.user))
        BY <2>5, <3>1, <3>2, <4>1, Zenon
      <4>3. calls' \in SUBSET calls
        BY <2>3
      <4>4. QED
        BY <1>1, <2>3, <4>2, <4>3, FetchedTokens
    <3>3. CASE c.user # auth
      <4> DEFINE x == Answer(c, c.user)
      <4>1. main \o <<>> = main
        BY <1>1, ConcatEmptySeq
      <4>2. main' = Append(main, x)
        BY <1>1, <2>5, <3>1, <3>3, <4>1, Zenon
      <4>3. x \in MainBlock /\ x.kind = "token" /\ x.call = c /\ x.user = c.user
        BY <1>3, <2>2
      <4> HIDE DEF x
      <4>4. QED
        BY <1>1, <2>2, <2>3, <4>2, <4>3, Posted
    <3>4. QED
      BY <3>2, <3>3
  <2>6. QED
    BY <2>1, <2>4, <2>5 DEF FinishRefresh
<1>8. CASE NotifyChange
  BY <1>8, NotifyTokens
<1>9. CASE AnswerToken
  BY <1>9, AnswerTokens
<1>10. QED
  BY <1>4, <1>5, <1>6, <1>7, <1>8, <1>9 DEF CredentialsNext

(***************************************************************************)
(* The worker queue.                                                       *)
(***************************************************************************)

\* What an operation of the worker queue leaves to be shown.
LEMMA WorkerTokens ==
  ASSUME TokenInv, UNCHANGED <<auth, counter, main>>,
         counter \in Nat,
         \A c \in calls' : c \in calls \/ (c.counter = counter /\ c.user = Failed),
         \A u : Knows(tasks, user, u) => Knows(tasks', user', u),
         TokensCurrent', TokenIsOfUser'
  PROVE  TokenInv'
<1>1. AuthKnown'
  BY DEF TokenInv, AuthKnown
<1>2. CallsCurrent'
  BY DEF TokenInv, CallsCurrent
<1>3. AnswersCounted' /\ AnswersCurrent'
  BY DEF TokenInv, AnswersCounted, AnswersCurrent
<1>4. QED
  BY <1>1, <1>2, <1>3 DEF TokenInv

\* No token of a start to come is enqueued.
LEMMA NoLaterToken ==
  ASSUME NEW cs, NEW ms, NEW ts \in Seq(Task), NEW k \in Nat, NEW l \in Nat, k < l,
         NoneAfter(cs, ms, ts, k)
  PROVE  \A t \in Leading(ts) : ~ (t.kind = "token" /\ t.close = l)
<1>1. ~ SomeIn(ts, TokensOf(l))
  BY LaterStart DEF NoneAwaited
<1>2. \A i \in 1 .. Len(ts) : ts[i] \in Task
  BY ElementOfSeq
<1>3. QED
  BY <1>1, <1>2 DEF SomeIn, TokensOf, Leading

\* A message that is no change has been handled, or none.
LEMMA Handled ==
  ASSUME PipelineInv, AwaitInv, TokenInv,
         tasks' = tasks \/ (tasks # <<>> /\ Head(tasks).kind # "changed" /\ tasks' = Tail(tasks)),
         user' = user, stream'.close \in Nat, stream'.close >= stream.close
  PROVE  /\ \A u : Knows(tasks, user, u) => Knows(tasks', user', u)
         /\ TokensCurrent'
<1>1. tasks \in Seq(Task) /\ stream.close \in Nat
  BY PipelineInvFacts, StreamFields
<1>2. /\ \A u : Knows(tasks, user, u) => Knows(tasks', user', u)
      /\ Leading(tasks') \subseteq Leading(tasks)
  BY <1>1, TailChange
<1> DEFINE l == stream'.close
<1>3. l \in Nat /\ l >= stream.close
  OBVIOUS
<1> HIDE DEF l
<1>4. ASSUME l # stream.close
      PROVE  \A t \in Leading(tasks) : ~ (t.kind = "token" /\ t.close = l)
  <2>1. stream.close < l
    BY <1>1, <1>3, <1>4
  <2>2. NoneAfter(calls, main, tasks, stream.close)
    BY DEF AwaitInv
  <2>3. QED
    BY <1>1, <1>3, <2>1, <2>2, NoLaterToken
<1>5. \A t \in Leading(tasks') :
        t.kind = "token" /\ t.user # Failed /\ t.close = l => t.user = user
  BY <1>2, <1>4 DEF TokenInv, TokensCurrent
<1>6. TokensCurrent'
  BY <1>5 DEF TokensCurrent, l
<1>7. QED
  BY <1>2, <1>6
\* Filling opens no stream and asks with the counter of now.
LEMMA FillTokens ==
  ASSUME PipelineInv, NEW q, NEW pipe, NEW s \in Stream, FillWritePipeline(pipe, q, s)
  PROVE  /\ stream'.close = s.close
         /\ stream'.state = "Open" => s.state = "Open" /\ stream'.token = s.token
         /\ \A c \in calls' : c \in calls \/ (c.counter = counter /\ c.user = Failed)
<1> DEFINE f == Filled(pipe, q)
           next == FilledStream(pipe, f, s)
<1>1. stream' = next /\ calls' = calls \cup Asks(next)
  BY Zenon DEF FillWritePipeline
<1>2. next.close = s.close
  BY FilledKeeps
<1>3. next.state = "Open" => s.state = "Open" /\ next.token = s.token
  <2>1. \A messages : /\ Send(s, messages).token = s.token
                       /\ Send(s, messages).state = s.state
    BY DEF Send, Stream
  <2>2. Start(s).state # "Open"
    BY DEF Start, Stream
  <2>3. /\ [s EXCEPT !.idle = s.idle \/ s.state = "Open"].token = s.token
        /\ [s EXCEPT !.idle = s.idle \/ s.state = "Open"].state = s.state
    BY DEF Stream
  <2>4. QED
    BY <2>1, <2>2, <2>3 DEF FilledStream
<1>4. \A c \in Asks(next) : c.counter = counter /\ c.user = Failed
  BY DEF Asks, GetToken
<1> HIDE DEF next
<1>5. QED
  BY <1>1, <1>2, <1>3, <1>4

\* An error leaves a stream that is not open.
LEMMA CloseOnErrorTokens ==
  ASSUME PipelineInv, CloseOnError
  PROVE  /\ stream'.close \in Nat /\ stream'.close >= stream.close
         /\ stream'.state # "Open"
         /\ calls' = calls
<1> DEFINE c == Closed(stream, "Error")
<1>1. stream \in Stream /\ stream.close \in Nat
  BY PipelineInvFacts, StreamFields
<1>2. c \in Stream /\ c.close = stream.close + 1 /\ c.state = "Error"
  BY <1>1, ClosedFacts DEF StreamOK
<1>3. (stream' = IF pipeline # <<>> THEN Start(c) ELSE c) /\ calls' = calls
  BY DEF CloseOnError
<1> HIDE DEF c
<1>4. Start(c).close = c.close /\ Start(c).state = "Backoff"
  BY <1>2 DEF Start, Stream
<1>5. QED
  BY <1>1, <1>2, <1>3, <1>4

\* A write enqueued is no change of user.
LEMMA MakeWriteTokens ==
  ASSUME PipelineInv, TokenInv, MakeWrite
  PROVE  TokenInv'
<1> DEFINE x == [kind |-> "write", write |-> made + 1]
<1>1. made + 1 \in Writes /\ tasks \in Seq(Task) /\ counter \in Nat
  BY PipelineInvFacts, PipelineAssumption DEF MakeWrite, Writes
<1>2. x \in Task /\ x.kind = "write"
  BY <1>1 DEF Task
<1>3. /\ tasks' = Append(tasks, x)
      /\ UNCHANGED <<auth, counter, calls, main, user, stream>>
  BY DEF MakeWrite, otherThreads
<1> HIDE DEF x
<1>4. /\ \A u : Knows(tasks, user, u) => Knows(tasks', user, u)
      /\ Leading(tasks') \subseteq Leading(tasks) \cup {x}
  BY <1>1, <1>2, <1>3, AppendChange
<1>5. TokensCurrent'
  BY <1>2, <1>3, <1>4 DEF TokenInv, TokensCurrent
<1>6. TokenIsOfUser'
  BY <1>3 DEF TokenInv, TokenIsOfUser
<1>7. QED
  BY <1>1, <1>3, <1>4, <1>5, <1>6, WorkerTokens

\* A start asks in the name of the counter of now.
LEMMA WriteMutationsTokens ==
  ASSUME PipelineInv, AwaitInv, TokenInv, WriteMutations
  PROVE  TokenInv'
<1>1. /\ tasks # <<>> /\ Head(tasks).kind # "changed" /\ tasks' = Tail(tasks)
      /\ UNCHANGED <<auth, counter, main, user>>
  BY DEF WriteMutations, Runs, otherThreads
<1>2. PICK q : FillWritePipeline(pipeline, q, stream)
  BY Zenon DEF WriteMutations
<1>3. stream \in Stream /\ stream.close \in Nat /\ counter \in Nat
  BY PipelineInvFacts, StreamFields
<1>4. /\ stream'.close = stream.close
      /\ stream'.state = "Open" => stream.state = "Open" /\ stream'.token = stream.token
      /\ \A c \in calls' : c \in calls \/ (c.counter = counter /\ c.user = Failed)
  BY <1>2, <1>3, FillTokens
<1>5. /\ \A u : Knows(tasks, user, u) => Knows(tasks', user', u)
      /\ TokensCurrent'
  BY <1>1, <1>3, <1>4, Handled
<1>6. TokenIsOfUser'
  BY <1>1, <1>4 DEF TokenInv, TokenIsOfUser
<1>7. QED
  BY <1>1, <1>3, <1>4, <1>5, <1>6, WorkerTokens

\* The stream of the user before is closed, with every token asked for it.
LEMMA HandleCredentialChangeTokens ==
  ASSUME PipelineInv, AwaitInv, TokenInv, HandleCredentialChange
  PROVE  TokenInv'
<1>1. /\ tasks # <<>> /\ Head(tasks).kind = "changed" /\ tasks' = Tail(tasks)
      /\ user' = Head(tasks).user /\ tasks \in Seq(Task)
      /\ UNCHANGED <<auth, counter, main>>
      /\ stream \in Stream /\ stream.close \in Nat /\ counter \in Nat
  BY PipelineInvFacts, StreamFields DEF HandleCredentialChange, Runs, otherThreads
<1> DEFINE s == Stopped(stream)
<1>2. /\ s \in Stream /\ s.close \in Nat /\ s.close >= stream.close
      /\ s.close = stream.close => s.state = stream.state
      /\ s.state # "Starting"
  BY <1>1, StoppedKeeps, StreamFields
<1>3. s.state # "Open"
  <2>1. ~ IsStarted(s)
    BY PipelineInvFacts, StoppedFacts
  <2>2. QED
    BY <2>1 DEF IsStarted
<1>4. FillWritePipeline(<<>>, queue[user'], s)
  BY DEF HandleCredentialChange
<1> HIDE DEF s
<1>5. /\ stream'.close = s.close
      /\ stream'.state # "Open"
      /\ \A c \in calls' : c \in calls \/ (c.counter = counter /\ c.user = Failed)
  BY <1>2, <1>3, <1>4, FillTokens
<1>6. Tail(tasks) \in Seq(Task)
  BY <1>1, HeadTailProperties
<1>7. NoneAfter(calls, main, Tail(tasks), stream.close)
  <2>1. SomeIn(Tail(tasks), TokensAfter(stream.close)) => SomeIn(tasks, TokensAfter(stream.close))
    BY <1>1, TailIn
  <2>2. QED
    BY <2>1 DEF AwaitInv, NoneAfter
<1>8. \A t \in Leading(Tail(tasks)) : ~ (t.kind = "token" /\ t.close = s.close)
  <2>1. CASE s.close = stream.close
    <3>1. ~ SomeIn(tasks, TokensOf(stream.close))
      BY <1>2, <2>1 DEF AwaitInv, Awaits, NoneAwaited
    <3>2. ~ SomeIn(Tail(tasks), TokensOf(stream.close))
      BY <1>1, <3>1, TailIn
    <3>3. \A i \in 1 .. Len(Tail(tasks)) : Tail(tasks)[i] \in Task
      BY <1>6, ElementOfSeq
    <3>4. QED
      BY <2>1, <3>2, <3>3 DEF SomeIn, TokensOf, Leading
  <2>2. CASE s.close # stream.close
    <3> DEFINE k == stream.close
               l == s.close
    <3>1. k \in Nat /\ l \in Nat /\ k < l
      BY <1>1, <1>2, <2>2
    <3>2. NoneAfter(calls, main, Tail(tasks), k)
      BY <1>7
    <3> HIDE DEF k, l
    <3>3. \A t \in Leading(Tail(tasks)) : ~ (t.kind = "token" /\ t.close = l)
      BY <1>6, <3>1, <3>2, NoLaterToken
    <3>4. QED
      BY <3>3 DEF l
  <2>3. QED
    BY <2>1, <2>2
<1>9. TokensCurrent'
  BY <1>1, <1>5, <1>8 DEF TokensCurrent
<1>10. TokenIsOfUser'
  BY <1>5 DEF TokenIsOfUser
<1>11. \A u : Knows(tasks, user, u) => Knows(tasks', user', u)
  BY <1>1, TailChange
<1>12. QED
  BY <1>1, <1>5, <1>9, <1>10, <1>11, WorkerTokens

\* A token ignored changes nothing.
LEMMA IgnoreTokenTokens ==
  ASSUME PipelineInv, AwaitInv, TokenInv, IgnoreToken
  PROVE  TokenInv'
<1>1. /\ tasks # <<>> /\ Head(tasks).kind # "changed" /\ tasks' = Tail(tasks)
      /\ UNCHANGED <<auth, counter, main, user, calls, stream>>
      /\ stream.close \in Nat /\ counter \in Nat
  BY PipelineInvFacts, StreamFields DEF IgnoreToken, Runs, otherThreads
<1>2. /\ \A u : Knows(tasks, user, u) => Knows(tasks', user', u)
      /\ TokensCurrent'
  BY <1>1, Handled
<1>3. QED
  BY <1>1, <1>2, WorkerTokens DEF TokenInv, TokenIsOfUser

\* The token a stream opens with is the current user's.
LEMMA ResumeStartTokens ==
  ASSUME PipelineInv, AwaitInv, TokenInv, ResumeStartWithCredentials
  PROVE  TokenInv'
<1> DEFINE s == [stream EXCEPT !.state = "Open", !.token = Head(tasks).user]
<1>1. /\ tasks # <<>> /\ Head(tasks).kind = "token" /\ tasks' = Tail(tasks)
      /\ Head(tasks).close = stream.close /\ Head(tasks).user # Failed
      /\ UNCHANGED <<auth, counter, main, user, calls>>
      /\ stream \in Stream /\ stream.close \in Nat /\ counter \in Nat /\ tasks \in Seq(Task)
      /\ stream' = Send(s, <<Handshake>>)
  BY PipelineInvFacts, StreamFields
     DEF ResumeStartWithCredentials, Runs, otherThreads
<1>2. s.close = stream.close /\ s.token = Head(tasks).user
  BY <1>1 DEF Stream
<1>3. Send(s, <<Handshake>>).close = s.close /\ Send(s, <<Handshake>>).token = s.token
  BY <1>1 DEF Send, Stream
<1> HIDE DEF s
<1>4. stream'.close = stream.close /\ stream'.token = Head(tasks).user
  BY <1>1, <1>2, <1>3
<1>5. Head(tasks) \in Leading(tasks)
  BY <1>1, TailChange
<1>6. TokenIsOfUser'
  BY <1>1, <1>4, <1>5 DEF TokenInv, TokensCurrent, TokenIsOfUser
<1>7. /\ \A u : Knows(tasks, user, u) => Knows(tasks', user', u)
      /\ TokensCurrent'
  BY <1>1, <1>4, Handled
<1>8. QED
  BY <1>1, <1>6, <1>7, WorkerTokens

\* A stream that failed carries no token.
LEMMA FailedStreamTokens ==
  ASSUME PipelineInv, AwaitInv, TokenInv, FailStartWithCredentials \/ OnStreamFinish
  PROVE  TokenInv'
<1>1. /\ CloseOnError /\ counter \in Nat
      /\ \/ tasks # <<>> /\ Head(tasks).kind # "changed" /\ tasks' = Tail(tasks)
         \/ tasks' = tasks
      /\ UNCHANGED <<auth, counter, main, user>>
  BY PipelineInvFacts DEF FailStartWithCredentials, OnStreamFinish, Runs, otherThreads
<1>2. /\ stream'.close \in Nat /\ stream'.close >= stream.close
      /\ stream'.state # "Open"
      /\ calls' = calls
  BY <1>1, CloseOnErrorTokens
<1>3. /\ \A u : Knows(tasks, user, u) => Knows(tasks', user', u)
      /\ TokensCurrent'
  BY <1>1, <1>2, Handled
<1>4. TokenIsOfUser'
  BY <1>2 DEF TokenIsOfUser
<1>5. QED
  BY <1>1, <1>2, <1>3, <1>4, WorkerTokens

\* A timer starts or stops the stream, and opens none.
LEMMA TimerTokens ==
  ASSUME PipelineInv, AwaitInv, TokenInv, BackoffElapsed \/ IdleTimeout
  PROVE  TokenInv'
<1>1. /\ UNCHANGED <<auth, counter, main, tasks, user>>
      /\ counter \in Nat /\ stream \in Stream /\ stream.close \in Nat
  BY PipelineInvFacts, StreamFields
     DEF BackoffElapsed, IdleTimeout, otherThreads, credentials
<1>2. stream'.close \in Nat /\ stream'.close >= stream.close /\ stream'.state # "Open"
  <2>1. CASE BackoffElapsed
    BY <1>1, <2>1 DEF BackoffElapsed, Stream
  <2>2. CASE IdleTimeout
    <3>1. Stopped(stream) \in Stream /\ Stopped(stream).close >= stream.close
      BY <1>1, StoppedKeeps
    <3>2. ~ IsStarted(Stopped(stream))
      BY PipelineInvFacts, StoppedFacts
    <3>3. Stopped(stream).close \in Nat /\ Stopped(stream).state # "Open"
      BY <3>1, <3>2, StreamFields DEF IsStarted
    <3>4. stream' = Stopped(stream)
      BY <2>2 DEF IdleTimeout
    <3>5. QED
      BY <3>1, <3>3, <3>4
  <2>3. QED
    BY <2>1, <2>2
<1>3. \A c \in calls' : c \in calls \/ (c.counter = counter /\ c.user = Failed)
  BY DEF BackoffElapsed, IdleTimeout, credentials, GetToken
<1>4. /\ \A u : Knows(tasks, user, u) => Knows(tasks', user', u)
      /\ TokensCurrent'
  BY <1>1, <1>2, Handled
<1>5. TokenIsOfUser'
  BY <1>2 DEF TokenIsOfUser
<1>6. QED
  BY <1>1, <1>3, <1>4, <1>5, WorkerTokens

\* Messages leave the stream's token alone.
LEMMA ChannelTokens ==
  ASSUME PipelineInv, AwaitInv, TokenInv, Serve \/ OnWriteStreamHandshakeComplete
  PROVE  TokenInv'
<1>1. /\ UNCHANGED <<auth, counter, calls, main, tasks, user>>
      /\ counter \in Nat /\ stream \in Stream /\ stream.close \in Nat
  BY PipelineInvFacts, StreamFields DEF Serve, OnWriteStreamHandshakeComplete, credentials
<1>2. /\ stream'.state = stream.state /\ stream'.close = stream.close
      /\ stream'.token = stream.token
  <2>1. CASE Serve
    BY <1>1, <2>1 DEF Serve, Stream
  <2>2. CASE OnWriteStreamHandshakeComplete
    BY <1>1, <2>2 DEF OnWriteStreamHandshakeComplete, Send, Stream
  <2>3. QED
    BY <2>1, <2>2
<1>3. QED
  BY <1>1, <1>2 DEF TokenInv, AuthKnown, CallsCurrent, AnswersCounted, AnswersCurrent,
                    TokensCurrent, TokenIsOfUser

\* A head settled leaves the token of the stream that stays open.
LEMMA SettleTokens ==
  ASSUME PipelineInv, AwaitInv, TokenInv,
         OnWriteStreamMutationResult \/ HandleWriteError
  PROVE  TokenInv'
<1>1. /\ UNCHANGED <<auth, counter, main, tasks, user>>
      /\ counter \in Nat /\ stream \in Stream /\ stream.close \in Nat
  BY PipelineInvFacts, StreamFields
     DEF OnWriteStreamMutationResult, HandleWriteError, otherThreads
<1>2. PICK s \in Stream : /\ Settle(s) /\ s.close \in Nat /\ s.close >= stream.close
                          /\ s.state = "Open" => stream.state = "Open" /\ s.token = stream.token
  <2>1. CASE OnWriteStreamMutationResult
    <3> DEFINE s == [stream EXCEPT !.replies = Tail(stream.replies)]
    <3>1. StreamOK(s) /\ s.close = stream.close
      BY <2>1, AnswerRead DEF OnWriteStreamMutationResult
    <3>2. s.token = stream.token /\ s.state = stream.state /\ Settle(s)
      BY <1>1, <2>1 DEF OnWriteStreamMutationResult, Stream
    <3> HIDE DEF s
    <3>3. s \in Stream
      BY <3>1 DEF StreamOK
    <3>4. QED
      BY <1>1, <3>1, <3>2, <3>3
  <2>2. CASE HandleWriteError
    <3> DEFINE s == Closed(stream, "Initial")
    <3>1. s \in Stream /\ s.close = stream.close + 1 /\ s.state = "Initial"
      BY <1>1, ClosedFacts DEF StreamOK
    <3>2. Settle(s)
      BY <2>2 DEF HandleWriteError
    <3> HIDE DEF s
    <3>3. QED
      BY <1>1, <3>1, <3>2
  <2>3. QED
    BY <2>1, <2>2
<1>3. PICK q : FillWritePipeline(Tail(pipeline), q, s)
  BY <1>2, Zenon DEF Settle
<1>4. /\ stream'.close = s.close
      /\ stream'.state = "Open" => s.state = "Open" /\ stream'.token = s.token
      /\ \A c \in calls' : c \in calls \/ (c.counter = counter /\ c.user = Failed)
  BY <1>3, FillTokens
<1>5. /\ \A u : Knows(tasks, user, u) => Knows(tasks', user', u)
      /\ TokensCurrent'
  BY <1>1, <1>2, <1>4, Handled
<1>6. TokenIsOfUser'
  BY <1>1, <1>2, <1>4 DEF TokenInv, TokenIsOfUser
<1>7. QED
  BY <1>1, <1>4, <1>5, <1>6, WorkerTokens

\* A process that starts again knows who is signed in.
LEMMA RestartTokens ==
  ASSUME PipelineInv, Restart
  PROVE  TokenInv'
<1> DEFINE c == [counter |-> 0, close |-> 0, user |-> Failed]
<1>1. /\ counter' = 0 /\ main' = <<>> /\ tasks' = <<>> /\ user' = auth /\ auth' = auth
      /\ auth \in Users
      /\ calls' \in SUBSET {c}
      /\ stream' = FilledStream(<<>>, pipeline', NewStream)
  BY PipelineInvFacts, Zenon DEF Restart
<1>2. NewStream \in Stream /\ NewStream.state = "Initial"
  BY NewStreamFacts DEF StreamOK, NewStream
<1>3. c.counter = 0 /\ c.user = Failed
  OBVIOUS
<1> HIDE DEF c
<1>4. ~ \E i : i \in 1 .. Len(<<>>)
  OBVIOUS
<1>5. NoChange(<<>>) /\ Leading(<<>>) = {}
  BY <1>4 DEF NoChange, Leading
<1>6. AuthKnown'
  BY <1>1, <1>5 DEF AuthKnown, Knows
<1>7. CallsCurrent'
  BY <1>1, <1>3 DEF CallsCurrent
<1>8. AnswersCounted' /\ AnswersCurrent' /\ TokensCurrent'
  BY <1>1, <1>4, <1>5 DEF AnswersCounted, AnswersCurrent, TokensCurrent
<1>9. stream'.state # "Open"
  <2>1. CASE pipeline' = <<>>
    <3>1. stream' = [NewStream EXCEPT !.idle = NewStream.idle \/ NewStream.state = "Open"]
      BY <1>1, <2>1 DEF FilledStream
    <3>2. QED
      BY <1>2, <3>1 DEF Stream
  <2>2. CASE pipeline' # <<>>
    <3>1. stream' = Start(NewStream)
      BY <1>1, <1>2, <2>2 DEF FilledStream, IsStarted
    <3>2. Start(NewStream).state = "Starting"
      BY <1>2 DEF Start, Stream
    <3>3. QED
      BY <3>1, <3>2
  <2>3. QED
    BY <2>1, <2>2
<1>10. QED
  BY <1>6, <1>7, <1>8, <1>9 DEF TokenInv, TokenIsOfUser

(***************************************************************************)
(* The theorem.                                                            *)
(***************************************************************************)
LEMMA InitTokens == Init => TokenInv
<1> SUFFICES ASSUME Init PROVE TokenInv
  OBVIOUS
<1>1. /\ auth = Anonymous /\ user = auth /\ counter = 0 /\ calls = {}
      /\ main = <<>> /\ tasks = <<>> /\ stream.state = "Initial"
  BY DEF Init, CredentialsInit, NewStream
<1>2. ~ \E i : i \in 1 .. Len(<<>>)
  OBVIOUS
<1>3. NoChange(<<>>) /\ Leading(<<>>) = {}
  BY <1>2 DEF NoChange, Leading
<1>4. AuthKnown
  BY <1>1, <1>3, CredentialsAssumption DEF AuthKnown, Knows
<1>5. CallsCurrent /\ AnswersCounted /\ AnswersCurrent /\ TokensCurrent /\ TokenIsOfUser
  BY <1>1, <1>2, <1>3
     DEF CallsCurrent, AnswersCounted, AnswersCurrent, TokensCurrent, TokenIsOfUser
<1>6. QED
  BY <1>4, <1>5 DEF TokenInv

\* Every step keeps the token's invariant.
LEMMA StepTokens == IInv /\ TokenInv /\ [Next]_vars => TokenInv'
<1> SUFFICES ASSUME PipelineInv, AwaitInv, TokenInv, [Next]_vars
             PROVE  TokenInv'
  BY DEF IInv
<1>1. CASE UNCHANGED vars
  BY <1>1 DEF vars, credentials, pipeVars, TokenInv, AuthKnown, CallsCurrent, AnswersCounted,
              AnswersCurrent, TokensCurrent, TokenIsOfUser
<1>2. CASE CredentialsNext /\ UNCHANGED pipeVars
  BY <1>2, OthersTokens
<1>3. CASE MakeWrite \/ WriteMutations \/ HandleCredentialChange
  BY <1>3, MakeWriteTokens, WriteMutationsTokens, HandleCredentialChangeTokens
<1>4. CASE IgnoreToken \/ ResumeStartWithCredentials
  BY <1>4, IgnoreTokenTokens, ResumeStartTokens
<1>5. CASE FailStartWithCredentials \/ OnStreamFinish
  BY <1>5, FailedStreamTokens
<1>6. CASE BackoffElapsed \/ IdleTimeout
  BY <1>6, TimerTokens
<1>7. CASE Serve \/ OnWriteStreamHandshakeComplete
  BY <1>7, ChannelTokens
<1>8. CASE OnWriteStreamMutationResult \/ HandleWriteError
  BY <1>8, SettleTokens
<1>9. CASE Restart
  BY <1>9, RestartTokens
<1>10. QED
  BY <1>1, <1>2, <1>3, <1>4, <1>5, <1>6, <1>7, <1>8, <1>9 DEF Next

\* Wherever the tokens asked for, the changes of user and the answers to both are
\* on their way between the SDK, the main queue and the worker queue, the token
\* given to ResumeStartWithCredentials for the current start is current.
THEOREM TokenInvariant == Spec => [](IInv /\ TokenInv)
<1>1. Init => IInv /\ TokenInv
  BY InitIInv, InitTokens
<1>2. IInv /\ TokenInv /\ [Next]_vars => IInv' /\ TokenInv'
  BY StepIInv, StepTokens
<1>3. QED
  BY <1>1, <1>2, PTL DEF Spec

\* For any number of users and changes, wherever a change overtakes the fetch of
\* a token: no write is sent in the name of another user.
THEOREM StreamsAreOfTheUser == Spec => []TokenIsOfUser
<1>1. IInv /\ TokenInv => TokenIsOfUser
  BY DEF TokenInv
<1>2. QED
  BY <1>1, TokenInvariant, PTL

(***************************************************************************)
(* What WritePipeline promises a client: a completion callback waits only  *)
(* for the write it was handed in with, and the queues of all users are    *)
(* DurableQueue, whatever is resent, refused or restarted.                 *)
(***************************************************************************)

(***************************************************************************)
(* Operations of the worker queue that settle a write.                     *)
(***************************************************************************)
LEMMA SettledHead ==
  ASSUME PipelineInv, OnWriteStreamMutationResult \/ HandleWriteError
  PROVE  /\ queue' = [queue EXCEPT ![user] = Tail(queue[user])]
         /\ queue[user] # <<>>
         /\ callbacks' = {c \in callbacks : c.user # user \/ c.id # Head(queue[user]).id}
<1>1. CASE OnWriteStreamMutationResult
  <2> DEFINE s == [stream EXCEPT !.replies = Tail(stream.replies)]
  <2>1. /\ pipeline # <<>> /\ StreamOK(s)
        /\ Carries(Tail(pipeline), s) /\ StartedFor(Tail(pipeline), s)
    BY <1>1, AnswerRead DEF OnWriteStreamMutationResult
  <2>2. Settle(s)
    BY <1>1 DEF OnWriteStreamMutationResult
  <2> HIDE DEF s
  <2>3. QED
    BY <2>1, <2>2, SettleStep, Zenon
<1>2. CASE HandleWriteError
  <2> DEFINE s == Closed(stream, "Initial")
  <2>1. pipeline # <<>> /\ stream \in Stream
    BY <1>2, HandshakeFacts, PipelineInvFacts DEF HandleWriteError
  <2>2. StreamOK(s) /\ Carries(Tail(pipeline), s) /\ StartedFor(Tail(pipeline), s)
    BY <2>1, ClosedFacts
  <2>3. Settle(s)
    BY <1>2 DEF HandleWriteError
  <2> HIDE DEF s
  <2>4. QED
    BY <2>1, <2>2, <2>3, SettleStep, Zenon
<1>3. QED
  BY <1>1, <1>2

\* Every other operation but WriteMutations leaves the queues alone and adds no
\* callback.
LEMMA QueuesAlone ==
  ASSUME \/ UNCHANGED vars \/ (CredentialsNext /\ UNCHANGED pipeVars)
         \/ MakeWrite \/ HandleCredentialChange
         \/ IgnoreToken \/ ResumeStartWithCredentials \/ FailStartWithCredentials
         \/ BackoffElapsed \/ IdleTimeout
         \/ Serve \/ OnWriteStreamHandshakeComplete \/ OnStreamFinish \/ Restart
  PROVE  queue' = queue /\ callbacks' \subseteq callbacks
  BY DEF vars, pipeVars, disk, MakeWrite, HandleCredentialChange, IgnoreToken,
         ResumeStartWithCredentials, FailStartWithCredentials, CloseOnError,
         BackoffElapsed, IdleTimeout, Serve, OnWriteStreamHandshakeComplete,
         OnStreamFinish, Restart

\* A write is queued.
LEMMA QueuedWrite ==
  ASSUME PipelineInv, WriteMutations
  PROVE  \E b \in Batch :
           /\ b.write \in Writes
           /\ queue' = [queue EXCEPT ![user] = Append(queue[user], b)]
           /\ callbacks' = callbacks \cup {[user |-> user, id |-> b.id, write |-> b.write]}
<1> DEFINE b == [id |-> nextId, write |-> Head(tasks).write]
<1>1. Head(tasks) \in Task /\ Head(tasks).kind = "write"
  BY PipelineInvFacts, RunsFacts DEF WriteMutations
<1>2. b \in Batch /\ b.write \in Writes
  BY <1>1, PipelineInvFacts DEF Task, Batch
<1>3. /\ queue' = [queue EXCEPT ![user] = Append(queue[user], b)]
      /\ callbacks' = callbacks \cup {[user |-> user, id |-> b.id, write |-> b.write]}
  BY DEF WriteMutations
<1> HIDE DEF b
<1>4. QED
  BY <1>2, <1>3

(***************************************************************************)
(* Callbacks.                                                              *)
(***************************************************************************)
\* A batch queued brings its callback.
LEMMA QueuedCallbacks ==
  ASSUME PipelineInv, CallbackIsForItsWrite, WriteMutations
  PROVE  CallbackIsForItsWrite'
<1>1. PICK b \in Batch :
             /\ b.write \in Writes
             /\ queue' = [queue EXCEPT ![user] = Append(queue[user], b)]
             /\ callbacks' = callbacks \cup {[user |-> user, id |-> b.id, write |-> b.write]}
  BY QueuedWrite
<1> DEFINE Q == queue[user]
<1>2. /\ user \in Users /\ queue \in [Users -> Seq(Batch)] /\ Q \in Seq(Batch)
      /\ callbacks \in SUBSET [user : Users, id : Nat, write : Writes]
  BY PipelineInvFacts
<1>3. /\ queue'[user] = Append(Q, b)
      /\ \A u \in Users : u # user => queue'[u] = queue[u]
  BY <1>1, <1>2
<1> HIDE DEF Q
<1>4. ToSet(Append(Q, b)) = ToSet(Q) \cup {b}
  <2>1. /\ Len(Q) \in Nat /\ Len(Append(Q, b)) = Len(Q) + 1
        /\ \A i \in 1 .. Len(Q) : Append(Q, b)[i] = Q[i]
        /\ Append(Q, b)[Len(Q) + 1] = b
        /\ Append(Q, b) \in Seq(Batch)
    BY <1>2, AppendProperties, LenProperties
  <2>2. DOMAIN Q = 1 .. Len(Q) /\ DOMAIN Append(Q, b) = 1 .. Len(Q) + 1
    BY <1>2, <2>1, LenProperties
  <2>3. 1 .. Len(Q) + 1 = 1 .. Len(Q) \cup {Len(Q) + 1}
    BY <2>1
  <2>4. QED
    BY <2>1, <2>2, <2>3 DEF ToSet
<1>5. [id |-> b.id, write |-> b.write] = b
  BY DEF Batch
<1>6. ASSUME NEW c \in callbacks'
      PROVE  [id |-> c.id, write |-> c.write] \in ToSet(queue'[c.user])
  <2>1. CASE c \in callbacks
    <3>1. [id |-> c.id, write |-> c.write] \in ToSet(queue[c.user]) /\ c.user \in Users
      BY <1>2, <2>1 DEF CallbackIsForItsWrite
    <3>2. CASE c.user = user
      <4>1. [id |-> c.id, write |-> c.write] \in ToSet(Q)
        BY <3>1, <3>2, Zenon DEF Q
      <4>2. [id |-> c.id, write |-> c.write] \in ToSet(Append(Q, b))
        BY <1>4, <4>1, Zenon
      <4>3. QED
        BY <1>3, <3>2, <4>2, Zenon
    <3>3. CASE c.user # user
      BY <1>3, <3>1, <3>3, Zenon
    <3>4. QED
      BY <3>2, <3>3
  <2>2. CASE c = [user |-> user, id |-> b.id, write |-> b.write]
    <3>1. c.user = user /\ c.id = b.id /\ c.write = b.write
      BY <2>2
    <3>2. b \in ToSet(queue'[user])
      BY <1>3, <1>4, Zenon
    <3>3. QED
      BY <1>5, <3>1, <3>2, Zenon
  <2>3. QED
    BY <1>1, <1>6, <2>1, <2>2
<1>7. QED
  BY <1>6 DEF CallbackIsForItsWrite

\* The callback of a batch settled is gone before its id is.
LEMMA SettledCallbacks ==
  ASSUME PipelineInv, CallbackIsForItsWrite,
         OnWriteStreamMutationResult \/ HandleWriteError
  PROVE  CallbackIsForItsWrite'
<1> DEFINE Q == queue[user]
<1>1. /\ queue' = [queue EXCEPT ![user] = Tail(Q)]
      /\ Q # <<>>
      /\ callbacks' = {c \in callbacks : c.user # user \/ c.id # Head(Q).id}
  BY SettledHead
<1>2. /\ user \in Users /\ queue \in [Users -> Seq(Batch)] /\ Q \in Seq(Batch)
      /\ callbacks \in SUBSET [user : Users, id : Nat, write : Writes]
  BY PipelineInvFacts
<1>3. /\ queue'[user] = Tail(Q)
      /\ \A u \in Users : u # user => queue'[u] = queue[u]
  BY <1>1, <1>2
<1> HIDE DEF Q
<1>4. \A b \in ToSet(Q) : b = Head(Q) \/ b \in ToSet(Tail(Q))
  <2>1. /\ Len(Q) \in Nat /\ Len(Tail(Q)) = Len(Q) - 1 /\ Len(Q) > 0
        /\ \A i \in 1 .. Len(Tail(Q)) : Tail(Q)[i] = Q[i + 1]
        /\ Tail(Q) \in Seq(Batch)
    BY <1>1, <1>2, HeadTailProperties, LenProperties, EmptySeq
  <2>2. DOMAIN Q = 1 .. Len(Q) /\ DOMAIN Tail(Q) = 1 .. Len(Q) - 1
    BY <1>2, <2>1, LenProperties
  <2>3. Head(Q) = Q[1]
    BY <2>1
  <2>4. \A i \in 1 .. Len(Q) : i # 1 => i - 1 \in 1 .. Len(Q) - 1 /\ (i - 1) + 1 = i
    BY <2>1
  <2>5. \A i \in 1 .. Len(Q) : i # 1 => Tail(Q)[i - 1] = Q[i]
    BY <2>1, <2>4
  <2>6. ASSUME NEW b \in ToSet(Q), b # Head(Q)
        PROVE  b \in ToSet(Tail(Q))
    <3>1. PICK i \in 1 .. Len(Q) : b = Q[i]
      BY <2>2 DEF ToSet
    <3>2. i # 1
      BY <2>3, <2>6, <3>1
    <3>3. i - 1 \in DOMAIN Tail(Q) /\ Tail(Q)[i - 1] = b
      BY <2>2, <2>4, <2>5, <3>1, <3>2
    <3> DEFINE k == i - 1
               T == Tail(Q)
    <3>4. k \in DOMAIN T /\ T[k] = b
      BY <3>3
    <3> HIDE DEF k, T
    <3>5. b \in ToSet(T)
      BY <3>4 DEF ToSet
    <3>6. QED
      BY <3>5 DEF T
  <2>7. QED
    BY <2>6
<1>5. ASSUME NEW c \in callbacks'
      PROVE  [id |-> c.id, write |-> c.write] \in ToSet(queue'[c.user])
  <2>1. /\ c \in callbacks /\ c.user \in Users
        /\ c.user # user \/ c.id # Head(Q).id
        /\ [id |-> c.id, write |-> c.write] \in ToSet(queue[c.user])
    BY <1>1, <1>2, <1>5 DEF CallbackIsForItsWrite
  <2>2. CASE c.user # user
    BY <1>3, <2>1, <2>2, Zenon
  <2>3. CASE c.user = user
    <3> DEFINE b == [id |-> c.id, write |-> c.write]
    <3>1. b.id = c.id
      OBVIOUS
    <3>2. b \in ToSet(Q)
      BY <2>1, <2>3, Zenon DEF Q
    <3> HIDE DEF b
    <3>3. b # Head(Q)
      BY <2>1, <2>3, <3>1
    <3>4. b \in ToSet(Tail(Q))
      BY <1>4, <3>2, <3>3
    <3>5. b \in ToSet(queue'[c.user])
      BY <1>3, <2>3, <3>4, Zenon
    <3>6. QED
      BY <3>5 DEF b
  <2>4. QED
    BY <2>2, <2>3
<1>6. QED
  BY <1>5 DEF CallbackIsForItsWrite

\* Ids given again included, no callback is ever run for another's write.
THEOREM CallbacksAreForTheirWrites == Spec => []CallbackIsForItsWrite
<1>1. Init => CallbackIsForItsWrite
  BY DEF Init, CallbackIsForItsWrite
<1>2. IInv /\ CallbackIsForItsWrite /\ [Next]_vars => CallbackIsForItsWrite'
  <2> SUFFICES ASSUME PipelineInv, CallbackIsForItsWrite, [Next]_vars
               PROVE  CallbackIsForItsWrite'
    BY DEF IInv
  <2>1. CASE WriteMutations
    BY <2>1, QueuedCallbacks
  <2>2. CASE OnWriteStreamMutationResult \/ HandleWriteError
    BY <2>2, SettledCallbacks
  <2>3. CASE queue' = queue /\ callbacks' \subseteq callbacks
    BY <2>3 DEF CallbackIsForItsWrite
  <2>4. QED
    BY <2>1, <2>2, <2>3, QueuesAlone DEF Next
<1>3. QED
  BY <1>1, <1>2, PipelineInvariant, PTL DEF Spec

(***************************************************************************)
(* What the backend has answered.                                          *)
(***************************************************************************)

\* Past the handshake every answer under way is of a write committed.
Acknowledged ==
  stream.handshake =>
    \A i \in 1 .. Len(stream.replies) : <<user, stream.replies[i]>> \in committed

DurableInv == IInv /\ TokenInv /\ Acknowledged

\* Where the two parts of a sequence are in it.
LEMMA PartsOfConcat ==
  ASSUME NEW S, NEW a \in Seq(S), NEW b \in Seq(S)
  PROVE  /\ Len(a) \in Nat
         /\ \A i \in 1 .. Len(a) : i \in 1 .. Len(a \o b) /\ (a \o b)[i] = a[i]
         /\ b # <<>> => Len(a) + 1 \in 1 .. Len(a \o b) /\ (a \o b)[Len(a) + 1] = Head(b)
<1> DEFINE n == Len(a)
           m == Len(b)
           v == a \o b
<1>1. /\ n \in Nat /\ m \in Nat
      /\ Len(v) = n + m
      /\ \A i \in 1 .. n + m : v[i] = IF i <= n THEN a[i] ELSE b[i - n]
  BY ConcatProperties, LenProperties
<1>2. b # <<>> => m # 0 /\ Head(b) = b[1]
  BY EmptySeq
<1> HIDE DEF n, m, v
<1>3. \A i \in 1 .. n : i \in 1 .. n + m /\ i <= n
  BY <1>1
<1>4. \A i \in 1 .. n : i \in 1 .. Len(v) /\ v[i] = a[i]
  BY <1>1, <1>3
<1>5. ASSUME b # <<>>
      PROVE  n + 1 \in 1 .. Len(v) /\ v[n + 1] = Head(b)
  <2>1. n + 1 \in 1 .. n + m /\ ~ n + 1 <= n /\ (n + 1) - n = 1
    BY <1>1, <1>2, <1>5
  <2>2. v[n + 1] = b[(n + 1) - n]
    BY <1>1, <2>1
  <2>3. QED
    BY <1>1, <1>2, <1>5, <2>1, <2>2
<1>6. QED
  BY <1>1, <1>4, <1>5 DEF n, v

\* The second part of a sequence starts behind the first.
LEMMA HeadAfter ==
  ASSUME NEW S, NEW a \in Seq(S), NEW b \in Seq(S), b # <<>>
  PROVE  (a \o b)[Len(a) + 1] = Head(b)
  BY PartsOfConcat

\* What is under way past the handshake is the front of the current queue: the
\* answers first, the writes not yet answered behind them.
LEMMA UnderWay ==
  ASSUME PipelineInv, stream.handshake
  PROVE  LET w == WritesOf(queue[user])
             n == Len(stream.replies)
         IN  /\ w \in Seq(Writes) /\ n \in Nat
             /\ \A i \in 1 .. n : i \in DOMAIN w /\ stream.replies[i] = w[i]
             /\ stream.wire # <<>> => n + 1 \in DOMAIN w /\ Head(stream.wire) = w[n + 1]
<1> DEFINE Q == queue[user]
           w == WritesOf(Q)
           v == WritesOf(pipeline)
           n == Len(stream.replies)
<1>1. /\ Q \in Seq(Batch) /\ pipeline \in Seq(Batch) /\ pipeline = InPipeline(Q)
      /\ stream.replies \in Seq(Message) /\ stream.wire \in Seq(Message)
  BY PipelineInvFacts, StreamFields
<1>2. stream.replies \o stream.wire = v
  BY HandshakeFacts
<1> HIDE DEF Q
<1>3. /\ w \in Seq(Writes) /\ Len(w) = Len(Q)
      /\ \A i \in 1 .. Len(Q) : w[i] = Q[i].write
      /\ Len(v) = Len(pipeline)
      /\ \A i \in 1 .. Len(pipeline) : v[i] = pipeline[i].write
  BY <1>1, WritesOfFacts
<1>4. /\ FrontLen(Q) \in 0 .. Len(Q) /\ Len(pipeline) = FrontLen(Q)
      /\ \A i \in 1 .. FrontLen(Q) : pipeline[i] = Q[i]
      /\ Len(Q) \in Nat
  BY <1>1, FrontFacts, LenProperties
<1>5. DOMAIN w = 1 .. Len(Q)
  BY <1>3, LenProperties
<1> HIDE DEF v, w
<1>6. \A i \in 1 .. Len(pipeline) : i \in DOMAIN w /\ v[i] = w[i]
  BY <1>3, <1>4, <1>5
<1>7. /\ n \in Nat
      /\ \A i \in 1 .. n : i \in 1 .. Len(v) /\ v[i] = stream.replies[i]
      /\ stream.wire # <<>> => n + 1 \in 1 .. Len(v) /\ v[n + 1] = Head(stream.wire)
  <2> DEFINE c == stream.replies \o stream.wire
  <2>1. /\ n \in Nat
        /\ \A i \in 1 .. n : i \in 1 .. Len(c) /\ c[i] = stream.replies[i]
        /\ stream.wire # <<>> => n + 1 \in 1 .. Len(c) /\ c[n + 1] = Head(stream.wire)
    <3>1. stream.replies \in Seq(Message) /\ stream.wire \in Seq(Message)
      BY <1>1
    <3>2. n \in Nat
      BY <3>1, PartsOfConcat, Zenon
    <3>3. \A i \in 1 .. n : i \in 1 .. Len(c)
      BY <3>1, PartsOfConcat, Zenon
    <3>4. \A i \in 1 .. n : c[i] = stream.replies[i]
      BY <3>1, PartsOfConcat, Zenon
    <3>5. stream.wire # <<>> => n + 1 \in 1 .. Len(c)
      BY <3>1, PartsOfConcat, Zenon
    <3>6. stream.wire # <<>> => c[n + 1] = Head(stream.wire)
      BY <3>1, HeadAfter, Zenon
    <3>7. QED
      BY <3>2, <3>3, <3>4, <3>5, <3>6, Zenon
  <2>2. c = v
    BY <1>2
  <2> HIDE DEF c
  <2>3. QED
    BY <2>1, <2>2, Zenon
<1> HIDE DEF n
<1>8. Len(v) = Len(pipeline)
  BY <1>3
<1>9. \A i \in 1 .. n : i \in DOMAIN w /\ stream.replies[i] = w[i]
  BY <1>6, <1>7, <1>8
<1>10. stream.wire # <<>> => n + 1 \in DOMAIN w /\ Head(stream.wire) = w[n + 1]
  BY <1>6, <1>7, <1>8
<1>11. QED
  BY <1>3, <1>7, <1>9, <1>10, Zenon DEF w, n, Q

\* Filling keeps the answers.
LEMMA FillAnswers ==
  ASSUME NEW q, NEW pipe, NEW s \in Stream, FillWritePipeline(pipe, q, s)
  PROVE  stream'.handshake = s.handshake /\ stream'.replies = s.replies
<1>1. stream' = FilledStream(pipe, Filled(pipe, q), s)
  BY Zenon DEF FillWritePipeline
<1>2. \A messages : /\ Send(s, messages).handshake = s.handshake
                     /\ Send(s, messages).replies = s.replies
  BY DEF Send, Stream
<1>3. Start(s).handshake = s.handshake /\ Start(s).replies = s.replies
  BY DEF Start, Stream
<1>4. /\ [s EXCEPT !.idle = s.idle \/ s.state = "Open"].handshake = s.handshake
      /\ [s EXCEPT !.idle = s.idle \/ s.state = "Open"].replies = s.replies
  BY DEF Stream
<1>5. QED
  BY <1>1, <1>2, <1>3, <1>4 DEF FilledStream

\* The backend commits the first write not answered, for the current user.
LEMMA ServeAnswers ==
  ASSUME PipelineInv, TokenInv, Acknowledged, Serve
  PROVE  /\ Acknowledged'
         /\ stream.handshake => committed' = committed \cup {<<user, Head(stream.wire)>>}
         /\ ~ stream.handshake => committed' = committed
<1> DEFINE m == Head(stream.wire)
<1>1. /\ stream \in Stream /\ stream.wire \in Seq(Message)
      /\ stream.replies \in Seq(Message) /\ stream.wire # <<>>
      /\ stream' = [stream EXCEPT !.wire = Tail(stream.wire),
                                  !.replies = Append(stream.replies, m)]
      /\ committed' = IF m = Handshake THEN committed
                      ELSE committed \cup {<<stream.token, m>>}
      /\ user' = user
  BY PipelineInvFacts, StreamFields DEF Serve
<1>2. m \in Message
  BY <1>1, HeadTailProperties
<1> HIDE DEF m
<1>3. stream'.handshake = stream.handshake /\ stream'.replies = Append(stream.replies, m)
  BY <1>1 DEF Stream
<1>4. CASE stream.handshake
  <2>1. m \in Writes
    <3> DEFINE w == WritesOf(queue[user])
               n == Len(stream.replies)
    <3>1. w \in Seq(Writes) /\ n + 1 \in DOMAIN w /\ m = w[n + 1]
      BY <1>1, <1>4, UnderWay DEF m
    <3> HIDE DEF w, n
    <3>2. n + 1 \in 1 .. Len(w)
      BY <3>1, LenProperties
    <3>3. w[n + 1] \in Writes
      BY <3>1, <3>2, ElementOfSeq
    <3>4. QED
      BY <3>1, <3>3
  <2>2. m # Handshake
    BY <2>1, PipelineAssumption DEF Writes, Handshake
  <2>3. stream.token = user
    BY <1>4, HandshakeFacts DEF TokenInv, TokenIsOfUser
  <2>4. committed' = committed \cup {<<user, m>>}
    BY <1>1, <2>2, <2>3
  <2> DEFINE r == Append(stream.replies, m)
  <2>5. /\ Len(stream.replies) \in Nat /\ Len(r) = Len(stream.replies) + 1
        /\ \A i \in 1 .. Len(stream.replies) : r[i] = stream.replies[i]
        /\ r[Len(stream.replies) + 1] = m
    BY <1>1, <1>2, AppendProperties, LenProperties
  <2> HIDE DEF r
  <2>6. \A i \in 1 .. Len(r) : i \in 1 .. Len(stream.replies) \/ i = Len(stream.replies) + 1
    BY <2>5
  <2>7. \A i \in 1 .. Len(r) : <<user, r[i]>> \in committed'
    BY <1>4, <2>4, <2>5, <2>6 DEF Acknowledged
  <2>8. Acknowledged'
    BY <1>1, <1>3, <2>7, Zenon DEF Acknowledged, r
  <2>9. QED
    BY <1>4, <2>4, <2>8 DEF m
<1>5. CASE ~ stream.handshake
  <2>1. m = Handshake
    <3>1. stream.state = "Open"
      BY <1>1, PipelineInvFacts DEF Carries
    <3>2. stream.replies \o stream.wire = <<Handshake>>
      BY <1>5, <3>1, PipelineInvFacts DEF Carries
    <3> DEFINE n == Len(stream.replies)
               v == stream.replies \o stream.wire
    <3>3. Len(<<Handshake>>) = 1 /\ <<Handshake>>[1] = Handshake
      OBVIOUS
    <3>4. n \in Nat /\ n + 1 \in 1 .. Len(v) /\ v[n + 1] = m
      <4>1. /\ stream.replies \in Seq(Message) /\ stream.wire \in Seq(Message)
            /\ stream.wire # <<>>
        BY <1>1
      <4>2. n \in Nat
        BY <4>1, PartsOfConcat, Zenon
      <4>3. n + 1 \in 1 .. Len(v)
        BY <4>1, PartsOfConcat, Zenon
      <4>4. v[n + 1] = m
        BY <4>1, HeadAfter, Zenon DEF m
      <4>5. QED
        BY <4>2, <4>3, <4>4, Zenon
    <3>5. v = <<Handshake>>
      BY <3>2
    <3> HIDE DEF v
    <3> HIDE DEF n
    <3>6. Len(v) = 1 /\ v[1] = Handshake
      BY <3>3, <3>5, Zenon
    <3>7. n + 1 = 1
      BY <3>4, <3>6
    <3>8. QED
      BY <3>4, <3>6, <3>7, Zenon
  <2>2. QED
    BY <1>1, <1>3, <1>5, <2>1 DEF Acknowledged
<1>6. QED
  BY <1>4, <1>5

\* No step but Serve has the backend commit.
LEMMA CommittedAlone ==
  ASSUME [Next]_vars, ~ Serve
  PROVE  committed' = committed
  BY DEF Next, vars, pipeVars, MakeWrite, WriteMutations, HandleCredentialChange, IgnoreToken,
         ResumeStartWithCredentials, FailStartWithCredentials, BackoffElapsed, IdleTimeout,
         OnWriteStreamHandshakeComplete, OnWriteStreamMutationResult, OnStreamFinish,
         HandleWriteError, Restart

\* A stream that is closed, or was not past its handshake, has no answers left.
LEMMA AcknowledgedStep ==
  ASSUME PipelineInv, AwaitInv, TokenInv, Acknowledged, [Next]_vars
  PROVE  Acknowledged'
<1>0. stream \in Stream /\ StreamOK(stream) /\ Carries(pipeline, stream)
  BY PipelineInvFacts
<1>1. CASE Serve
  BY <1>1, ServeAnswers
<1>2. ASSUME ~ Serve, user' = user, stream'.handshake => stream.handshake,
             stream'.handshake => stream'.replies = stream.replies
      PROVE  Acknowledged'
  <2>1. committed' = committed
    BY <1>2, CommittedAlone
  <2>2. QED
    BY <1>2, <2>1 DEF Acknowledged
<1>3. ASSUME ~ stream'.handshake
      PROVE  Acknowledged'
  BY <1>3 DEF Acknowledged
<1>4. CASE ~ Serve /\ user' = user /\ stream' = stream
  BY <1>2, <1>4
<1>5. CASE ~ Serve /\ WriteMutations
  <2>1. PICK q : FillWritePipeline(pipeline, q, stream)
    BY <1>5, Zenon DEF WriteMutations
  <2>2. stream'.handshake = stream.handshake /\ stream'.replies = stream.replies
    BY <1>0, <2>1, FillAnswers
  <2>3. user' = user
    BY <1>5 DEF WriteMutations
  <2>4. QED
    BY <1>2, <1>5, <2>2, <2>3
<1>6. CASE HandleCredentialChange
  <2> DEFINE t == Stopped(stream)
  <2>1. FillWritePipeline(<<>>, queue[user'], t)
    BY <1>6 DEF HandleCredentialChange
  <2>2. StreamOK(t) /\ Carries(<<>>, t) /\ ~ IsStarted(t)
    BY <1>0, StoppedFacts
  <2> HIDE DEF t
  <2>3. t \in Stream /\ ~ t.handshake
    BY <2>2 DEF StreamOK, Carries, IsStarted
  <2>4. stream'.handshake = t.handshake
    BY <2>1, <2>3, FillAnswers
  <2>5. QED
    BY <1>3, <2>3, <2>4
<1>7. CASE ResumeStartWithCredentials
  <2> DEFINE t == [stream EXCEPT !.state = "Open", !.token = Head(tasks).user]
  <2>1. stream.state = "Starting"
    BY <1>7, AnswerFindsStarting DEF ResumeStartWithCredentials
  <2>2. ~ stream.handshake
    BY <1>0, <2>1 DEF Carries
  <2>3. stream' = Send(t, <<Handshake>>)
    BY <1>7 DEF ResumeStartWithCredentials
  <2>4. Send(t, <<Handshake>>).handshake = stream.handshake
    BY <1>0 DEF Send, Stream
  <2> HIDE DEF t
  <2>5. QED
    BY <1>3, <2>2, <2>3, <2>4
<1>8. CASE FailStartWithCredentials \/ OnStreamFinish
  <2> DEFINE c == Closed(stream, "Error")
  <2>1. c \in Stream /\ c.state = "Error" /\ Carries(pipeline, c)
    BY <1>0, ClosedFacts DEF StreamOK
  <2>2. stream' = IF pipeline # <<>> THEN Start(c) ELSE c
    BY <1>8 DEF FailStartWithCredentials, OnStreamFinish, CloseOnError
  <2> HIDE DEF c
  <2>3. Start(c).handshake = c.handshake /\ ~ c.handshake
    BY <2>1 DEF Start, Stream, Carries
  <2>4. QED
    BY <1>3, <2>2, <2>3
<1>9. CASE BackoffElapsed
  <2>1. ~ stream.handshake
    BY <1>0, <1>9 DEF BackoffElapsed, Carries
  <2>2. stream'.handshake = stream.handshake
    BY <1>0, <1>9 DEF BackoffElapsed, Stream
  <2>3. QED
    BY <1>3, <2>1, <2>2
<1>10. CASE IdleTimeout
  <2>1. stream' = Stopped(stream)
    BY <1>10 DEF IdleTimeout
  <2>2. Carries(<<>>, Stopped(stream)) /\ ~ IsStarted(Stopped(stream))
    BY <1>0, StoppedFacts
  <2>3. ~ Stopped(stream).handshake
    BY <2>2 DEF Carries, IsStarted
  <2>4. QED
    BY <1>3, <2>1, <2>3
<1>11. CASE OnWriteStreamHandshakeComplete
  <2> DEFINE t == [stream EXCEPT !.handshake = TRUE, !.replies = Tail(stream.replies)]
  <2>1. Tail(stream.replies) = <<>>
    BY <1>11, FirstAnswer DEF OnWriteStreamHandshakeComplete
  <2>2. stream' = Send(t, WritesOf(pipeline))
    BY <1>11 DEF OnWriteStreamHandshakeComplete
  <2>3. Send(t, WritesOf(pipeline)).replies = Tail(stream.replies)
    BY <1>0 DEF Send, Stream
  <2> HIDE DEF t
  <2>4. stream'.replies = <<>>
    BY <2>1, <2>2, <2>3
  <2>5. ~ \E k : k \in 1 .. Len(<<>>)
    OBVIOUS
  <2>6. QED
    BY <2>4, <2>5 DEF Acknowledged
<1>12. CASE OnWriteStreamMutationResult
  <2> DEFINE t == [stream EXCEPT !.replies = Tail(stream.replies)]
             r == stream.replies
  <2>1. StreamOK(t)
    BY <1>12, AnswerRead DEF OnWriteStreamMutationResult
  <2>2. PICK q : FillWritePipeline(Tail(pipeline), q, t)
    BY <1>12, Zenon DEF OnWriteStreamMutationResult, Settle
  <2>3. t.replies = Tail(r)
    BY <1>0 DEF Stream
  <2> HIDE DEF t
  <2>4. stream'.replies = Tail(r)
    BY <2>1, <2>2, <2>3, FillAnswers DEF StreamOK
  <2>5. /\ r \in Seq(Message) /\ r # <<>> /\ stream.handshake
        /\ user' = user /\ committed' = committed
    BY <1>0, <1>12, StreamFields DEF OnWriteStreamMutationResult
  <2>6. \A k \in 1 .. Len(r) : <<user, r[k]>> \in committed
    BY <2>5 DEF Acknowledged
  <2> HIDE DEF r
  <2>7. /\ Len(r) \in Nat /\ Len(Tail(r)) = Len(r) - 1 /\ Len(r) > 0
        /\ \A k \in 1 .. Len(Tail(r)) : Tail(r)[k] = r[k + 1]
    BY <2>5, HeadTailProperties, LenProperties, EmptySeq
  <2>8. \A k \in 1 .. Len(Tail(r)) : k + 1 \in 1 .. Len(r)
    BY <2>7
  <2>9. \A k \in 1 .. Len(Tail(r)) : <<user, Tail(r)[k]>> \in committed
    BY <2>6, <2>7, <2>8
  <2>10. QED
    BY <2>4, <2>5, <2>9 DEF Acknowledged
<1>13. CASE HandleWriteError
  <2> DEFINE t == Closed(stream, "Initial")
  <2>1. t \in Stream /\ ~ t.handshake
    <3>1. StreamOK(t) /\ Carries(pipeline, t) /\ t.state = "Initial"
      BY <1>0, ClosedFacts
    <3>2. QED
      BY <3>1 DEF StreamOK, Carries
  <2>2. PICK q : FillWritePipeline(Tail(pipeline), q, t)
    BY <1>13, Zenon DEF HandleWriteError, Settle
  <2> HIDE DEF t
  <2>3. ~ stream'.handshake
    BY <2>1, <2>2, FillAnswers
  <2>4. QED
    BY <1>3, <2>3
<1>14. CASE Restart
  <2>1. stream' = FilledStream(<<>>, pipeline', NewStream)
    BY <1>14, Zenon DEF Restart
  <2>2. NewStream \in Stream /\ ~ NewStream.handshake /\ NewStream.state = "Initial"
    BY NewStreamFacts DEF StreamOK, NewStream
  <2>3. CASE pipeline' = <<>>
    <3>1. stream' = [NewStream EXCEPT !.idle = NewStream.idle \/ NewStream.state = "Open"]
      BY <2>1, <2>3 DEF FilledStream
    <3>2. ~ stream'.handshake
      BY <2>2, <3>1 DEF Stream
    <3>3. QED
      BY <1>3, <3>2
  <2>4. CASE pipeline' # <<>>
    <3>1. stream' = Start(NewStream)
      BY <2>1, <2>2, <2>4 DEF FilledStream, IsStarted
    <3>2. ~ Start(NewStream).handshake
      BY <2>2 DEF Start, Stream
    <3>3. QED
      BY <1>3, <3>1, <3>2
  <2>5. QED
    BY <2>3, <2>4
<1>15. ASSUME ~ Serve,
              \/ UNCHANGED vars \/ (CredentialsNext /\ UNCHANGED pipeVars)
              \/ MakeWrite \/ IgnoreToken
       PROVE  Acknowledged'
  <2>1. user' = user /\ stream' = stream
    BY <1>15 DEF vars, pipeVars, MakeWrite, IgnoreToken
  <2>2. QED
    BY <1>4, <1>15, <2>1
<1>16. QED
  BY <1>1, <1>5, <1>6, <1>7, <1>8, <1>9, <1>10, <1>11, <1>12, <1>13, <1>14, <1>15 DEF Next

(***************************************************************************)
(* The queues of all users are DurableQueue.                               *)
(***************************************************************************)

\* What a client sees of the queues.
Pending == [u \in Users |-> WritesOf(queue[u])]

\* Only the current user's queue changes, in one step of the abstract one.
LEMMA PendingFacts ==
  ASSUME PipelineInv
  PROVE  /\ user \in Users
         /\ queue \in [Users -> Seq(Batch)]
         /\ Pending[user] = WritesOf(queue[user])
         /\ \A q : queue' = [queue EXCEPT ![user] = q] =>
                     Pending' = [Pending EXCEPT ![user] = WritesOf(q)]
<1>1. user \in Users /\ queue \in [Users -> Seq(Batch)]
  BY PipelineInvFacts
<1>2. ASSUME NEW q, queue' = [queue EXCEPT ![user] = q]
      PROVE  Pending' = [Pending EXCEPT ![user] = WritesOf(q)]
  <2>1. \A u \in Users : queue'[u] = IF u = user THEN q ELSE queue[u]
    BY <1>1, <1>2
  <2>2. \A u \in Users : WritesOf(queue'[u]) = IF u = user THEN WritesOf(q)
                                                ELSE WritesOf(queue[u])
    BY <2>1, Zenon
  <2>3. Pending' = [u \in Users |-> WritesOf(queue'[u])]
    BY DEF Pending
  <2>4. QED
    BY <1>1, <2>2, <2>3 DEF Pending
<1>3. QED
  BY <1>1, <1>2 DEF Pending

\* A write queued is a write submitted.
LEMMA QueuedIsSubmitted ==
  ASSUME PipelineInv, WriteMutations
  PROVE  \E w \in Writes : /\ Pending' = [Pending EXCEPT ![user] = Append(Pending[user], w)]
                           /\ committed' = committed
<1>1. PICK b \in Batch : /\ b.write \in Writes
                         /\ queue' = [queue EXCEPT ![user] = Append(queue[user], b)]
  BY QueuedWrite
<1>2. queue[user] \in Seq(Batch)
  BY PendingFacts
<1>3. Pending' = [Pending EXCEPT ![user] = WritesOf(Append(queue[user], b))]
  BY <1>1, PendingFacts
<1>4. WritesOf(Append(queue[user], b)) = Append(Pending[user], b.write)
  BY <1>2, PendingFacts, WritesOfAppend
<1>5. committed' = committed
  BY DEF WriteMutations
<1>6. QED
  BY <1>1, <1>3, <1>4, <1>5

\* The backend commits a write past the handshake only when those ahead of it in
\* the queue have been committed.
LEMMA ServedIsCommitted ==
  ASSUME DurableInv, Serve, stream.handshake
  PROVE  \E i \in DOMAIN Pending[user] :
           /\ Pending[user][i] \notin Refused
           /\ \A j \in 1 .. (i - 1) : <<user, Pending[user][j]>> \in committed
           /\ committed' = committed \cup {<<user, Pending[user][i]>>}
           /\ Pending' = Pending
<1> DEFINE w == Pending[user]
           n == Len(stream.replies)
<1>1. PipelineInv /\ TokenInv /\ Acknowledged
  BY DEF DurableInv, IInv
<1>2. w = WritesOf(queue[user])
  BY <1>1, PendingFacts
<1>3. stream.wire # <<>> /\ Head(stream.wire) \notin Refused /\ queue' = queue
  BY DEF Serve, disk
<1>4. /\ n \in Nat
      /\ \A i \in 1 .. n : stream.replies[i] = w[i]
      /\ n + 1 \in DOMAIN w /\ Head(stream.wire) = w[n + 1]
  BY <1>1, <1>2, <1>3, UnderWay
<1>5. committed' = committed \cup {<<user, w[n + 1]>>}
  BY <1>1, <1>4, ServeAnswers
<1>6. \A j \in 1 .. n : <<user, stream.replies[j]>> \in committed
  BY <1>1 DEF Acknowledged
<1>7. Pending' = Pending
  BY <1>3 DEF Pending
<1> HIDE DEF w, n
<1>8. \A j \in 1 .. (n + 1 - 1) : <<user, w[j]>> \in committed
  BY <1>4, <1>6
<1>9. QED
  BY <1>3, <1>4, <1>5, <1>7, <1>8 DEF w

\* A write leaves its queue once it was committed, or when one was refused.
LEMMA SettledIsSettled ==
  ASSUME DurableInv, OnWriteStreamMutationResult \/ HandleWriteError
  PROVE  /\ Pending[user] # <<>>
         /\ \/ <<user, Head(Pending[user])>> \in committed
            \/ \E i \in DOMAIN Pending[user] : Pending[user][i] \in Refused
         /\ Pending' = [Pending EXCEPT ![user] = Tail(Pending[user])]
         /\ committed' = committed
<1> DEFINE w == Pending[user]
           n == Len(stream.replies)
<1>1. PipelineInv /\ TokenInv /\ Acknowledged
  BY DEF DurableInv, IInv
<1>2. w = WritesOf(queue[user]) /\ queue[user] \in Seq(Batch)
  BY <1>1, PendingFacts
<1>3. queue' = [queue EXCEPT ![user] = Tail(queue[user])] /\ queue[user] # <<>>
  BY <1>1, SettledHead
<1>4. Pending' = [Pending EXCEPT ![user] = Tail(w)] /\ w # <<>>
  BY <1>1, <1>2, <1>3, PendingFacts, WritesOfTail, WritesOfFacts
<1>5. stream.handshake /\ committed' = committed
  BY DEF OnWriteStreamMutationResult, HandleWriteError
<1>6. /\ w \in Seq(Writes) /\ n \in Nat
      /\ \A i \in 1 .. n : stream.replies[i] = w[i]
      /\ stream.wire # <<>> => n + 1 \in DOMAIN w /\ Head(stream.wire) = w[n + 1]
  BY <1>1, <1>2, <1>5, UnderWay
<1> HIDE DEF w
<1>7. CASE OnWriteStreamMutationResult
  <2>1. stream.replies # <<>> /\ stream.replies \in Seq(Message)
    BY <1>1, <1>7, PipelineInvFacts, StreamFields DEF OnWriteStreamMutationResult
  <2>2. n > 0
    BY <1>6, <2>1, EmptySeq
  <2>3. 1 \in 1 .. n
    BY <1>6, <2>2
  <2>4. <<user, w[1]>> \in committed
    BY <1>1, <1>5, <1>6, <2>3 DEF Acknowledged
  <2>5. Head(w) = w[1]
    BY <1>4, <1>6
  <2>6. QED
    BY <1>4, <1>5, <2>4, <2>5 DEF w
<1>8. CASE HandleWriteError
  <2>1. stream.wire # <<>> /\ Head(stream.wire) \in Refused
    BY <1>8 DEF HandleWriteError
  <2>2. n + 1 \in DOMAIN w /\ w[n + 1] \in Refused
    BY <1>6, <2>1
  <2>3. QED
    BY <1>4, <1>5, <2>2 DEF w
<1>9. QED
  BY <1>7, <1>8

\* Every other step leaves what a client sees alone.
LEMMA OthersStutter ==
  ASSUME DurableInv, [Next]_vars, ~ WriteMutations, ~ OnWriteStreamMutationResult,
         ~ HandleWriteError, Serve => ~ stream.handshake
  PROVE  Pending' = Pending /\ committed' = committed
<1>1. queue' = queue
  BY QueuesAlone DEF Next
<1>2. committed' = committed
  BY CommittedAlone, ServeAnswers DEF DurableInv, IInv
<1>3. QED
  BY <1>1, <1>2 DEF Pending

\* Every step is one of the durable queue or none.
LEMMA QueueStep ==
  ASSUME DurableInv, [Next]_vars
  PROVE  [Durable!Next]_(Durable!vars)
<1>0. PipelineInv /\ user \in Users
  BY PendingFacts DEF DurableInv, IInv
<1>1. CASE WriteMutations
  <2>1. \E w \in Writes : Durable!Submit(user, w)
    BY <1>0, <1>1, QueuedIsSubmitted DEF Durable!Submit, Pending
  <2>2. QED
    BY <1>0, <2>1 DEF Durable!Next
<1>2. CASE Serve /\ stream.handshake
  <2>1. \E i \in DOMAIN Pending[user] : Durable!Commit(user, i)
    BY <1>2, ServedIsCommitted DEF Durable!Commit, Pending
  <2>2. QED
    BY <1>0, <2>1 DEF Durable!Next, Pending
<1>3. CASE OnWriteStreamMutationResult \/ HandleWriteError
  <2>1. Durable!Settle(user)
    BY <1>3, SettledIsSettled DEF Durable!Settle, Pending
  <2>2. QED
    BY <1>0, <2>1 DEF Durable!Next
<1>4. CASE Pending' = Pending /\ committed' = committed
  BY <1>4 DEF Durable!vars, Pending
<1>5. QED
  BY <1>1, <1>2, <1>3, <1>4, OthersStutter

\* For every number of users, writes, faults and changes of user, whatever is
\* resent, refused or lost in a restart: FillWritePipeline, the stream and
\* LocalStore together keep every write until it is settled and have the backend
\* commit the writes of a user in the order they were made.
THEOREM QueueImplements == Spec => IsDurableQueue
<1>1. Init => DurableInv
  <2>1. Init => Acknowledged
    BY DEF Init, NewStream, Acknowledged
  <2>2. QED
    BY <2>1, InitIInv, InitTokens DEF DurableInv
<1>2. DurableInv /\ [Next]_vars => DurableInv'
  BY StepIInv, StepTokens, AcknowledgedStep DEF DurableInv, IInv
<1>3. Init => Durable!Init
  <2>1. \A q : q = <<>> => WritesOf(q) = <<>>
    BY DEF WritesOf
  <2>2. QED
    BY <2>1 DEF Init, Durable!Init
<1>4. DurableInv /\ [Next]_vars => [Durable!Next]_(Durable!vars)
  BY QueueStep
<1>5. QED
  BY <1>1, <1>2, <1>3, <1>4, PTL DEF Spec, IsDurableQueue, Durable!Spec
=============================================================================
