----------------------------- MODULE ListsProofs -----------------------------
(***************************************************************************)
(* Theorems about PropertyLists, for any documents, tenants, writes,       *)
(* changes from elsewhere and logins: what the two lists, the events on    *)
(* the main queue and the SDK's view are to each other.                    *)
(***************************************************************************)
EXTENDS PropertyLists, SequenceFacts

Docs == [Ids -> Doc \cup {None}]

(***************************************************************************)
(* Changes of a snapshot.                                                  *)
(***************************************************************************)

\* Sets of documents are finite sets of numbers.
LEMMA IdSets ==
  ASSUME NEW S \in SUBSET Ids
  PROVE  IsFiniteSet(S) /\ S \in SUBSET Nat
<1>1. Ids \subseteq Nat /\ IsFiniteSet(Ids)
  BY ListsAssumption
<1>2. QED
  BY <1>1, FS_Subset

\* Changes of one kind: one for each of the documents, with its version.
Changes(cs, type, S, d) ==
  /\ cs \in Seq(Change)
  /\ Len(cs) = Cardinality(S)
  /\ \A i \in 1 .. Len(cs) : cs[i].type = type /\ cs[i].id \in S /\ cs[i].doc = d[cs[i].id]
  /\ \A i, j \in 1 .. Len(cs) : cs[i].id = cs[j].id => i = j
  /\ \A x \in S : \E i \in 1 .. Len(cs) : cs[i].id = x

\* That is what ChangesOf makes.
LEMMA ChangesOfFacts ==
  ASSUME NEW type \in {"removed", "added", "modified"}, NEW S \in SUBSET Ids, NEW d \in Docs
  PROVE  Changes(ChangesOf(type, S, d), type, S, d)
<1> DEFINE keys == InOrder(S)
           cs == ChangesOf(type, S, d)
<1>1. IsFiniteSet(S) /\ S \in SUBSET Nat
  BY IdSets
<1>2. /\ keys \in Seq(S) /\ Len(keys) = Cardinality(S)
      /\ \A i, j \in 1 .. Cardinality(S) : keys[i] = keys[j] => i = j
      /\ \A x \in S : \E i \in 1 .. Cardinality(S) : keys[i] = x
  BY <1>1, InOrderOnce
<1>3. cs = [i \in DOMAIN keys |-> [type |-> type, id |-> keys[i], doc |-> d[keys[i]]]]
  BY DEF ChangesOf
<1> HIDE DEF keys, cs
<1>4. /\ Len(keys) \in Nat /\ DOMAIN keys = 1 .. Len(keys)
      /\ \A i \in 1 .. Len(keys) : keys[i] \in S
  BY <1>2, SeqFacts
<1>5. \A i \in 1 .. Len(keys) : cs[i] = [type |-> type, id |-> keys[i], doc |-> d[keys[i]]]
  BY <1>3, <1>4
<1>6. \A i \in 1 .. Len(keys) : cs[i] \in Change
  <2>1. \A x \in S : x \in Ids /\ d[x] \in Doc \cup {None}
    BY DEF Docs
  <2>2. ASSUME NEW i \in 1 .. Len(keys) PROVE cs[i] \in Change
    <3>1. keys[i] \in Ids /\ d[keys[i]] \in Doc \cup {None}
      BY <1>4, <2>1
    <3>2. cs[i] = [type |-> type, id |-> keys[i], doc |-> d[keys[i]]]
      BY <1>5
    <3>3. QED
      BY <3>1, <3>2 DEF Change
  <2>3. QED
    BY <2>2
<1>7. cs \in [1 .. Len(keys) -> Change]
  BY <1>3, <1>4, <1>5, <1>6
<1>8. cs \in Seq(Change) /\ Len(cs) = Len(keys)
  BY <1>4, <1>7, FunctionIsSeq
<1>9. \A i \in 1 .. Len(keys) : cs[i].type = type /\ cs[i].id = keys[i] /\ cs[i].doc = d[keys[i]]
  <2>1. SUFFICES ASSUME NEW i \in 1 .. Len(keys)
                 PROVE  cs[i].type = type /\ cs[i].id = keys[i] /\ cs[i].doc = d[keys[i]]
    OBVIOUS
  <2>2. cs[i] = [type |-> type, id |-> keys[i], doc |-> d[keys[i]]]
    BY <1>5
  <2>3. QED
    BY <2>2
<1>10. QED
  BY <1>2, <1>4, <1>8, <1>9 DEF cs, Changes

\* No documents, no changes.
LEMMA NoChanges ==
  ASSUME NEW type \in {"removed", "added", "modified"}, NEW d \in Docs
  PROVE  ChangesOf(type, {}, d) = <<>>
<1>1. {} \in SUBSET Ids /\ Cardinality({}) = 0
  BY FS_EmptySet
<1>2. ChangesOf(type, {}, d) \in Seq(Change) /\ Len(ChangesOf(type, {}, d)) = 0
  BY <1>1, ChangesOfFacts DEF Changes
<1>3. QED
  BY <1>2, EmptySeq

\* A change that is no removal comes with its document.
Fitting(c) == c.type = "removed" \/ c.doc \in Doc

\* What a change between two views is.
Fits(c, old, new) ==
  /\ c.id \in Ids /\ c.doc = new[c.id]
  /\ \/ c.type = "removed" /\ old[c.id] # None /\ new[c.id] = None
     \/ c.type = "added" /\ old[c.id] = None /\ new[c.id] # None
     \/ c.type = "modified" /\ old[c.id] # None /\ new[c.id] # None /\ old[c.id] # new[c.id]

\* Every change of a snapshot is the difference of the two views there.
LEMMA ComputedFacts ==
  ASSUME NEW old \in Docs, NEW new \in Docs
  PROVE  /\ ComputeDocumentChanges(old, new) \in Seq(Change)
         /\ \A k \in 1 .. Len(ComputeDocumentChanges(old, new)) :
              /\ Fits(ComputeDocumentChanges(old, new)[k], old, new)
              /\ Fitting(ComputeDocumentChanges(old, new)[k])
<1> DEFINE gone == Present(old) \ Present(new)
           come == Present(new) \ Present(old)
           both == {id \in Present(old) \cap Present(new) : (old[id] # new[id])}
           a == ChangesOf("removed", gone, new)
           b == ChangesOf("added", come, new)
           c == ChangesOf("modified", both, new)
           ab == a \o b
<1>1. gone \in SUBSET Ids /\ come \in SUBSET Ids /\ both \in SUBSET Ids
  BY DEF Present
<1>2. /\ \A id \in gone : old[id] # None /\ new[id] = None
      /\ \A id \in come : old[id] = None /\ new[id] # None
      /\ \A id \in both : old[id] # None /\ new[id] # None /\ old[id] # new[id]
  BY DEF Present
<1>3. \A id \in Ids : new[id] # None => new[id] \in Doc
  BY DEF Docs
<1> HIDE DEF gone, come, both
<1>4. /\ a \in Seq(Change)
      /\ \A i \in 1 .. Len(a) : a[i].type = "removed" /\ a[i].id \in gone /\ a[i].doc = new[a[i].id]
  BY <1>1, ChangesOfFacts DEF Changes
<1>5. /\ b \in Seq(Change)
      /\ \A i \in 1 .. Len(b) : b[i].type = "added" /\ b[i].id \in come /\ b[i].doc = new[b[i].id]
  BY <1>1, ChangesOfFacts DEF Changes
<1>6. /\ c \in Seq(Change)
      /\ \A i \in 1 .. Len(c) : c[i].type = "modified" /\ c[i].id \in both /\ c[i].doc = new[c[i].id]
  BY <1>1, ChangesOfFacts DEF Changes
<1> HIDE DEF a, b, c
<1>7. /\ \A i \in 1 .. Len(a) : Fits(a[i], old, new) /\ Fitting(a[i])
      /\ \A i \in 1 .. Len(b) : Fits(b[i], old, new) /\ Fitting(b[i])
      /\ \A i \in 1 .. Len(c) : Fits(c[i], old, new) /\ Fitting(c[i])
  BY <1>1, <1>2, <1>3, <1>4, <1>5, <1>6 DEF Fits, Fitting
<1>8. /\ ab \in Seq(Change) /\ Len(ab) \in Nat /\ Len(a) \in Nat
      /\ \A i \in 1 .. Len(ab) : Fits(ab[i], old, new) /\ Fitting(ab[i])
  <2>1. /\ ab \in Seq(Change)
        /\ \A i \in 1 .. Len(a) : ab[i] = a[i]
        /\ \A i \in 1 .. Len(b) : ab[Len(a) + i] = b[i]
        /\ \A i \in 1 .. Len(ab) : i \in 1 .. Len(a) \/ i - Len(a) \in 1 .. Len(b)
    BY <1>4, <1>5, ConcatFacts
  <2>2. Len(ab) \in Nat /\ Len(a) \in Nat
    BY <1>4, <2>1, LenProperties
  <2> HIDE DEF ab
  <2>3. ASSUME NEW i \in 1 .. Len(ab) PROVE Fits(ab[i], old, new) /\ Fitting(ab[i])
    <3>1. CASE i \in 1 .. Len(a)
      BY <1>7, <2>1, <3>1
    <3>2. CASE i - Len(a) \in 1 .. Len(b)
      <4> DEFINE k == i - Len(a)
      <4>1. k \in 1 .. Len(b) /\ Len(a) + k = i
        BY <2>2, <3>2
      <4> HIDE DEF k
      <4>2. QED
        BY <1>7, <2>1, <4>1
    <3>3. QED
      BY <2>1, <3>1, <3>2
  <2>4. QED
    BY <2>1, <2>2, <2>3
<1>9. ComputeDocumentChanges(old, new) = ab \o c
  BY DEF ComputeDocumentChanges, ab, a, b, c, gone, come, both
<1> HIDE DEF ab
<1> DEFINE abc == ab \o c
<1>10. /\ abc \in Seq(Change)
       /\ \A i \in 1 .. Len(ab) : abc[i] = ab[i]
       /\ \A i \in 1 .. Len(c) : abc[Len(ab) + i] = c[i]
       /\ \A i \in 1 .. Len(abc) : i \in 1 .. Len(ab) \/ i - Len(ab) \in 1 .. Len(c)
  BY <1>6, <1>8, ConcatFacts
<1> HIDE DEF abc
<1>11. Len(abc) \in Nat
  BY <1>10, LenProperties
<1>12. ASSUME NEW i \in 1 .. Len(abc) PROVE Fits(abc[i], old, new) /\ Fitting(abc[i])
  <2>1. CASE i \in 1 .. Len(ab)
    BY <1>8, <1>10, <2>1
  <2>2. CASE i - Len(ab) \in 1 .. Len(c)
    <3> DEFINE k == i - Len(ab)
    <3>1. k \in 1 .. Len(c) /\ Len(ab) + k = i
      BY <1>8, <1>11, <2>2
    <3> HIDE DEF k
    <3>2. QED
      BY <1>7, <1>10, <3>1
  <2>3. QED
    BY <1>10, <2>1, <2>2
<1>13. QED
  BY <1>9, <1>10, <1>12 DEF abc

\* The same view raises no changes.
LEMMA SameView ==
  ASSUME NEW d \in Docs
  PROVE  ComputeDocumentChanges(d, d) = <<>>
<1> DEFINE cs == ComputeDocumentChanges(d, d)
<1>1. cs \in Seq(Change) /\ \A k \in 1 .. Len(cs) : Fits(cs[k], d, d)
  BY ComputedFacts
<1> HIDE DEF cs
<1>2. \A k \in 1 .. Len(cs) : FALSE
  BY <1>1 DEF Fits
<1>3. Len(cs) \in Nat
  BY <1>1, LenProperties
<1>4. Len(cs) = 0
  BY <1>2, <1>3
<1>5. QED
  BY <1>1, <1>4, EmptySeq DEF cs

(***************************************************************************)
(* What a device sees: the cache's documents with the pending writes       *)
(* applied one after the other.                                            *)
(***************************************************************************)

\* A write changes one document.
LEMMA ApplyWriteFacts ==
  ASSUME NEW d \in Docs, NEW w \in Write
  PROVE  /\ ApplyWrite(d, w) \in Docs /\ w.id \in Ids
         /\ \A x \in Ids : x # w.id => ApplyWrite(d, w)[x] = d[x]
         /\ \/ ApplyWrite(d, w)[w.id] = None
            \/ ApplyWrite(d, w)[w.id] \in Doc /\ ApplyWrite(d, w)[w.id].name = NoName
            \/ /\ w.op = "name" /\ w.name \in Tenants
               /\ ApplyWrite(d, w)[w.id] \in Doc /\ ApplyWrite(d, w)[w.id].name = w.name
<1>1. w.id \in Ids /\ w.op \in {"register", "delete", "name"}
      /\ (w.op = "name" => w.name \in Tenants)
  BY DEF Write
<1>2. ASSUME NEW doc \in Doc \cup {None}, ApplyWrite(d, w) = [d EXCEPT ![w.id] = doc]
      PROVE  /\ ApplyWrite(d, w) \in Docs /\ ApplyWrite(d, w)[w.id] = doc
             /\ \A x \in Ids : x # w.id => ApplyWrite(d, w)[x] = d[x]
  BY <1>1, <1>2 DEF Docs
<1>3. CASE w.op = "register"
  <2> DEFINE doc == [full |-> TRUE, name |-> NoName]
  <2>1. doc \in Doc /\ doc.name = NoName
    BY DEF Doc
  <2>2. ApplyWrite(d, w) = [d EXCEPT ![w.id] = doc]
    BY <1>3 DEF ApplyWrite
  <2> HIDE DEF doc
  <2>3. QED
    BY <1>1, <1>2, <2>1, <2>2
<1>4. CASE w.op = "delete"
  <2>1. ApplyWrite(d, w) = [d EXCEPT ![w.id] = None]
    BY <1>4 DEF ApplyWrite
  <2>2. QED
    BY <1>1, <1>2, <2>1
<1>5. CASE w.op = "name"
  <2> DEFINE doc == Merge(d[w.id], w.name)
  <2>1. doc \in Doc /\ doc.name = w.name
    <3>1. d[w.id] \in Doc \cup {None}
      BY <1>1 DEF Docs
    <3>2. (d[w.id] # None /\ d[w.id].full) \in BOOLEAN
      OBVIOUS
    <3>3. w.name \in Tenants \cup {NoName}
      BY <1>1, <1>5
    <3>4. QED
      BY <3>2, <3>3 DEF Merge, Doc
  <2>2. ApplyWrite(d, w) = [d EXCEPT ![w.id] = doc]
    BY <1>1, <1>5 DEF ApplyWrite, Docs
  <2> HIDE DEF doc
  <2>3. QED
    BY <1>1, <1>2, <1>5, <2>1, <2>2
<1>6. QED
  BY <1>1, <1>3, <1>4, <1>5

\* The documents after each of the pending writes, up to the n-th.
Views(d, pending, n) ==
  {f \in [0 .. n -> Docs] :
     /\ f[0] = d
     /\ \A i \in 1 .. n : f[i] = ApplyWrite(f[i - 1], pending[i])}

\* One more write makes one more version.
LEMMA ViewsGrow ==
  ASSUME NEW d \in Docs, NEW pending, NEW n \in Nat, NEW f \in Views(d, pending, n),
         NEW w \in Write, NEW longer, longer[n + 1] = w,
         \A i \in 1 .. n : longer[i] = pending[i]
  PROVE  \E g \in Views(d, longer, n + 1) : g[n + 1] = ApplyWrite(f[n], w)
<1> DEFINE last == ApplyWrite(f[n], w)
           g == [i \in 0 .. n + 1 |-> IF i < n + 1 THEN f[i] ELSE last]
<1>1. /\ f \in [0 .. n -> Docs] /\ f[0] = d
      /\ \A i \in 1 .. n : f[i] = ApplyWrite(f[i - 1], pending[i])
  BY DEF Views
<1>2. last \in Docs
  BY <1>1, ApplyWriteFacts
<1>3. last = ApplyWrite(f[n], w)
  OBVIOUS
<1> HIDE DEF last
<1>4. /\ g \in [0 .. n + 1 -> Docs] /\ g[n + 1] = last
      /\ \A i \in 0 .. n : g[i] = f[i]
  BY <1>1, <1>2
<1> HIDE DEF g
<1>5. g[0] = d
  BY <1>1, <1>4
<1>6. ASSUME NEW i \in 1 .. n + 1 PROVE g[i] = ApplyWrite(g[i - 1], longer[i])
  <2>1. i - 1 \in 0 .. n /\ g[i - 1] = f[i - 1]
    BY <1>4
  <2>2. CASE i = n + 1
    BY <1>3, <1>4, <2>1, <2>2
  <2>3. CASE i # n + 1
    <3>1. i \in 1 .. n /\ i \in 0 .. n
      BY <2>3
    <3>2. QED
      BY <1>1, <1>4, <2>1, <3>1
  <2>4. QED
    BY <2>2, <2>3
<1>7. g \in Views(d, longer, n + 1)
  BY <1>4, <1>5, <1>6 DEF Views
<1>8. QED
  BY <1>3, <1>4, <1>7

\* There are such documents however many writes are pending.
LEMMA ViewsExist ==
  ASSUME NEW d \in Docs, NEW pending \in Seq(Write)
  PROVE  \A n \in 0 .. Len(pending) : Views(d, pending, n) # {}
<1> DEFINE bad == {n \in 0 .. Len(pending) : Views(d, pending, n) = {}}
<1>1. Len(pending) \in Nat /\ \A i \in 1 .. Len(pending) : pending[i] \in Write
  BY LenProperties, ElementOfSeq
<1>2. SUFFICES ASSUME bad # {} PROVE FALSE
  OBVIOUS
<1>3. bad \in SUBSET Nat
  BY <1>1
<1>4. PICK n \in bad : \A m \in bad : ~ (m < n)
  BY <1>2, <1>3, LeastMember
<1>5. n \in 0 .. Len(pending) /\ n \in Nat /\ Views(d, pending, n) = {}
  BY <1>1
<1>6. CASE n = 0
  <2> DEFINE f == [i \in 0 .. 0 |-> d]
  <2>1. f \in [0 .. n -> Docs] /\ f[0] = d /\ 1 .. n = {}
    BY <1>6
  <2>2. f \in Views(d, pending, n)
    BY <2>1 DEF Views
  <2>3. QED
    BY <1>5, <2>2
<1>7. CASE n # 0
  <2> DEFINE m == n - 1
  <2>1. m \in 0 .. Len(pending) /\ m < n /\ n \in 1 .. Len(pending) /\ m \in Nat /\ m + 1 = n
    BY <1>1, <1>5, <1>7
  <2> HIDE DEF m
  <2>2. PICK f \in Views(d, pending, m) : TRUE
    BY <1>4, <2>1
  <2>3. \E g \in Views(d, pending, m + 1) : g[m + 1] = ApplyWrite(f[m], pending[n])
    BY <1>1, <2>1, ViewsGrow
  <2>4. QED
    BY <1>5, <2>1, <2>3
<1>8. QED
  BY <1>6, <1>7

\* What a device sees is the last of them.
LEMMA LocalViewIs ==
  ASSUME NEW d \in Docs, NEW pending \in Seq(Write), NEW f \in Views(d, pending, Len(pending))
  PROVE  LocalView(d, pending) = f[Len(pending)] /\ LocalView(d, pending) \in Docs
<1> DEFINE N == Len(pending)
           Goes(g) == g = [n \in 0 .. N |-> IF n = 0 THEN d
                                            ELSE ApplyWrite(g[n - 1], pending[n])]
           after == CHOOSE g : Goes(g)
<1>1. N \in Nat
  BY LenProperties
<1>2. /\ f \in [0 .. N -> Docs] /\ f[0] = d
      /\ \A n \in 1 .. N : f[n] = ApplyWrite(f[n - 1], pending[n])
  BY DEF Views
<1>3. LocalView(d, pending) = after[N]
  BY Zenon DEF LocalView
<1> HIDE DEF N
<1>4. Goes(f)
  <2>1. \A n \in 0 .. N : n = 0 \/ n \in 1 .. N
    BY <1>1
  <2>2. f = [n \in 0 .. N |-> f[n]]
    BY <1>2
  <2>3. \A n \in 0 .. N : f[n] = IF n = 0 THEN d ELSE ApplyWrite(f[n - 1], pending[n])
    BY <1>2, <2>1
  <2>4. [n \in 0 .. N |-> f[n]] = [n \in 0 .. N |-> IF n = 0 THEN d
                                          ELSE ApplyWrite(f[n - 1], pending[n])]
    BY <2>3, Zenon
  <2>5. QED
    BY <2>2, <2>4, Zenon
<1>5. Goes(after)
  <2> HIDE DEF Goes
  <2>1. QED
    BY <1>4, Zenon
<1> HIDE DEF after
<1>6. /\ after[0] = d
      /\ \A n \in 1 .. N : after[n] = ApplyWrite(after[n - 1], pending[n])
  <2>1. \A n \in 0 .. N : after[n] = IF n = 0 THEN d ELSE ApplyWrite(after[n - 1], pending[n])
    BY <1>5, Zenon
  <2>2. 0 \in 0 .. N /\ \A n \in 1 .. N : n \in 0 .. N /\ n # 0
    BY <1>1
  <2>3. QED
    BY <2>1, <2>2, Zenon
<1> HIDE DEF Goes
<1> DEFINE bad == {n \in 0 .. N : after[n] # f[n]}
<1>7. ASSUME bad # {} PROVE FALSE
  <2>1. bad \in SUBSET Nat
    BY <1>1
  <2>2. PICK n \in bad : \A m \in bad : ~ (m < n)
    BY <1>7, <2>1, LeastMember
  <2>3. n \in 0 .. N /\ n \in Nat /\ after[n] # f[n]
    BY <1>1
  <2>4. n # 0
    BY <1>2, <1>6, <2>3
  <2>5. n \in 1 .. N /\ n - 1 \in 0 .. N /\ n - 1 < n
    BY <1>1, <2>3, <2>4
  <2>6. after[n - 1] = f[n - 1]
    BY <2>2, <2>5
  <2>7. QED
    BY <1>2, <1>6, <2>3, <2>5, <2>6
<1>8. N \in 0 .. N
  BY <1>1
<1>9. after[N] = f[N] /\ f[N] \in Docs
  BY <1>2, <1>7, <1>8
<1>10. QED
  BY <1>3, <1>9 DEF N

\* A new write comes on top of what the device sees.
LEMMA NewestWrite ==
  ASSUME NEW d \in Docs, NEW pending \in Seq(Write), NEW w \in Write
  PROVE  /\ LocalView(d, pending) \in Docs
         /\ LocalView(d, Append(pending, w)) = ApplyWrite(LocalView(d, pending), w)
<1> DEFINE n == Len(pending)
           longer == Append(pending, w)
<1>1. n \in Nat /\ n \in 0 .. n
  <2>1. n \in Nat
    BY LenProperties
  <2>2. QED
    BY <2>1
<1>2. /\ longer \in Seq(Write) /\ Len(longer) = n + 1 /\ longer[n + 1] = w
      /\ \A i \in 1 .. n : longer[i] = pending[i]
  BY AppendFacts
<1>3. PICK f \in Views(d, pending, n) : TRUE
  BY <1>1, ViewsExist
<1>4. LocalView(d, pending) = f[n] /\ LocalView(d, pending) \in Docs
  BY <1>3, LocalViewIs
<1> HIDE DEF n, longer
<1>5. PICK g \in Views(d, longer, n + 1) : g[n + 1] = ApplyWrite(f[n], w)
  BY <1>1, <1>2, <1>3, ViewsGrow
<1>6. LocalView(d, longer) = g[n + 1]
  BY <1>2, <1>5, LocalViewIs
<1>7. QED
  BY <1>4, <1>5, <1>6 DEF longer

\* The oldest write moves from the queue to the cache unseen.
LEMMA OldestWrite ==
  ASSUME NEW d \in Docs, NEW pending \in Seq(Write), pending # <<>>
  PROVE  LocalView(ApplyWrite(d, Head(pending)), Tail(pending)) = LocalView(d, pending)
<1> DEFINE n == Len(pending)
           rest == Tail(pending)
           first == ApplyWrite(d, Head(pending))
           m == n - 1
<1>1. /\ rest \in Seq(Write) /\ n \in Nat /\ n >= 1 /\ Len(rest) = m
      /\ Head(pending) = pending[1] /\ pending[1] \in Write
      /\ \A i \in 1 .. Len(rest) : i + 1 \in 1 .. n /\ rest[i] = pending[i + 1]
  BY TailFacts
<1>2. m \in Nat /\ m + 1 = n /\ n \in 0 .. n /\ 1 \in 1 .. n
  BY <1>1
<1>3. PICK f \in Views(d, pending, n) : TRUE
  BY <1>2, ViewsExist
<1>4. /\ f \in [0 .. n -> Docs] /\ f[0] = d
      /\ \A i \in 1 .. n : f[i] = ApplyWrite(f[i - 1], pending[i])
  BY <1>3 DEF Views
<1>5. LocalView(d, pending) = f[n]
  BY <1>3, LocalViewIs
<1>6. first = f[1] /\ first \in Docs
  <2>1. first = ApplyWrite(d, pending[1])
    BY <1>1
  <2>2. 1 \in 0 .. n /\ 1 - 1 = 0
    BY <1>1
  <2>3. f[1] = ApplyWrite(f[1 - 1], pending[1])
    BY <1>2, <1>4
  <2>4. QED
    BY <1>4, <2>1, <2>2, <2>3
<1> HIDE DEF n, rest, first, m
<1> DEFINE g == [i \in 0 .. m |-> f[i + 1]]
<1>7. /\ g \in [0 .. m -> Docs] /\ g[0] = f[1] /\ g[m] = f[n]
      /\ \A i \in 0 .. m : g[i] = f[i + 1]
  <2>1. \A i \in 0 .. m : i + 1 \in 0 .. n
    BY <1>2
  <2>2. g \in [0 .. m -> Docs] /\ \A i \in 0 .. m : g[i] = f[i + 1]
    BY <1>4, <2>1
  <2> HIDE DEF g
  <2>3. 0 \in 0 .. m /\ m \in 0 .. m /\ 0 + 1 = 1
    BY <1>2
  <2>4. g[0] = f[1] /\ g[m] = f[n]
    BY <1>2, <2>2, <2>3
  <2>5. QED
    BY <2>2, <2>4
<1> HIDE DEF g
<1>8. ASSUME NEW i \in 1 .. m PROVE g[i] = ApplyWrite(g[i - 1], rest[i])
  <2>1. i \in 0 .. m /\ i - 1 \in 0 .. m /\ i + 1 \in 1 .. n /\ (i - 1) + 1 = i /\ (i + 1) - 1 = i
    BY <1>2
  <2>2. g[i] = f[i + 1] /\ g[i - 1] = f[i] /\ rest[i] = pending[i + 1]
    BY <1>1, <1>7, <2>1
  <2>3. f[i + 1] = ApplyWrite(f[(i + 1) - 1], pending[i + 1])
    BY <1>4, <2>1
  <2>4. QED
    BY <2>1, <2>2, <2>3
<1>9. g \in Views(first, rest, Len(rest))
  BY <1>1, <1>6, <1>7, <1>8 DEF Views
<1>10. LocalView(first, rest) = g[m]
  BY <1>1, <1>6, <1>9, LocalViewIs
<1>11. QED
  BY <1>5, <1>7, <1>10 DEF first, rest

(***************************************************************************)
(* Rows.                                                                   *)
(***************************************************************************)

\* Renaming keeps the rows and their properties.
LEMMA RenamedFacts ==
  ASSUME NEW rows \in Seq(Row), NEW c, c.doc \in Doc
  PROVE  /\ Renamed(rows, c) \in Seq(Row)
         /\ Len(Renamed(rows, c)) = Len(rows)
         /\ \A i \in 1 .. Len(rows) :
              /\ Renamed(rows, c)[i].id = rows[i].id
              /\ Renamed(rows, c)[i].name = IF rows[i].id = c.id THEN c.doc.name ELSE rows[i].name
         /\ HasId(Renamed(rows, c), c.id) <=> HasId(rows, c.id)
<1> DEFINE s == Renamed(rows, c)
<1>1. /\ Len(rows) \in Nat /\ DOMAIN rows = 1 .. Len(rows)
      /\ \A i \in 1 .. Len(rows) : rows[i] \in Row
  BY SeqFacts
<1>2. /\ s = [i \in 1 .. Len(rows) |-> s[i]]
      /\ \A i \in 1 .. Len(rows) :
           s[i] = IF rows[i].id = c.id THEN [rows[i] EXCEPT !.name = c.doc.name] ELSE rows[i]
  BY <1>1 DEF Renamed
<1>3. c.doc.name \in Tenants \cup {NoName}
  BY DEF Doc
<1> HIDE DEF s
<1>4. ASSUME NEW i \in 1 .. Len(rows)
      PROVE  /\ s[i] \in Row /\ s[i].id = rows[i].id
             /\ s[i].name = IF rows[i].id = c.id THEN c.doc.name ELSE rows[i].name
  <2>1. rows[i] \in Row
    BY <1>1
  <2>2. CASE rows[i].id = c.id
    <3>1. s[i] = [rows[i] EXCEPT !.name = c.doc.name]
      BY <1>2, <2>2
    <3>2. QED
      BY <1>3, <2>1, <2>2, <3>1 DEF Row
  <2>3. CASE rows[i].id # c.id
    BY <1>2, <2>1, <2>3
  <2>4. QED
    BY <2>2, <2>3
<1>5. s \in [1 .. Len(rows) -> Row]
  BY <1>2, <1>4
<1>6. s \in Seq(Row) /\ Len(s) = Len(rows)
  BY <1>1, <1>5, FunctionIsSeq
<1>7. DOMAIN s = 1 .. Len(rows)
  BY <1>5
<1>8. HasId(s, c.id) <=> HasId(rows, c.id)
  BY <1>1, <1>4, <1>7 DEF HasId
<1>9. QED
  BY <1>4, <1>6, <1>8 DEF s

\* A row of the property goes, if there is one.
LEMMA RemoveIdFacts ==
  ASSUME NEW rows \in Seq(Row), NEW id
  PROVE  /\ RemoveId(rows, id) \in Seq(Row)
         /\ \/ /\ HasId(rows, id)
               /\ \E n \in 1 .. Len(rows) : rows[n].id = id /\ Lacks(RemoveId(rows, id), rows, n)
            \/ /\ ~ HasId(rows, id) /\ RemoveId(rows, id) = rows
<1>1. Len(rows) \in Nat /\ DOMAIN rows = 1 .. Len(rows)
  BY SeqFacts
<1>2. CASE HasId(rows, id)
  <2> DEFINE S == {i \in DOMAIN rows : (rows[i].id = id)}
             n == FirstOf(S)
  <2>1. S \in SUBSET Nat /\ S # {}
    BY <1>1, <1>2 DEF HasId
  <2> HIDE DEF S
  <2>2. n \in S
    BY <2>1, FirstOfFacts
  <2>3. RemoveId(rows, id) = RemoveAt(rows, n)
    BY <1>2 DEF RemoveId, S, n
  <2> HIDE DEF n
  <2>4. n \in 1 .. Len(rows) /\ rows[n].id = id
    BY <1>1, <2>2 DEF S
  <2>5. RemoveAt(rows, n) \in Seq(Row) /\ Lacks(RemoveAt(rows, n), rows, n)
    BY <2>4, RemoveAtFacts, RemoveAtMembers
  <2>6. QED
    BY <1>2, <2>3, <2>4, <2>5
<1>3. CASE ~ HasId(rows, id)
  BY <1>3 DEF RemoveId
<1>4. QED
  BY <1>2, <1>3

(***************************************************************************)
(* What a change does to the lists.                                        *)
(***************************************************************************)
Lists == [all : Seq(Row), rented : Seq(Row), status : {"running", "returned", "crashed"}]

\* An added property gets a row, and one among the rented if it is.
LEMMA AddedFacts ==
  ASSUME NEW st \in Lists, NEW c \in Change, c.doc \in Doc
  PROVE  \/ Added(st, c) \in Lists /\ Added(st, c).status = "crashed"
            /\ Added(st, c).all = st.all /\ Added(st, c).rented = st.rented
         \/ \E row \in Row :
              /\ row.id = c.id /\ row.name = c.doc.name
              /\ Added(st, c) \in Lists /\ Added(st, c).status = st.status
              /\ Added(st, c).all = Append(st.all, row)
              /\ Added(st, c).rented = IF c.doc.name = NoName THEN st.rented
                                       ELSE Append(st.rented, row)
<1> DEFINE row == [id |-> c.id, name |-> c.doc.name]
<1>1. st.all \in Seq(Row) /\ st.rented \in Seq(Row) /\ st.status \in {"running", "returned", "crashed"}
  BY DEF Lists
<1>2. c.id \in Ids /\ c.doc.name \in Tenants \cup {NoName}
  BY DEF Change, Doc
<1>3. row \in Row /\ row.id = c.id /\ row.name = c.doc.name
  BY <1>2 DEF Row
<1>4. CASE ~ c.doc.full
  <2>1. Added(st, c) = [st EXCEPT !.status = "crashed"]
    BY <1>4 DEF Added
  <2>2. QED
    BY <1>1, <2>1 DEF Lists
<1>5. CASE c.doc.full
  <2>1. Added(st, c) = [st EXCEPT !.all = Append(@, row),
                                  !.rented = IF row.name = NoName THEN @ ELSE Append(@, row)]
    BY <1>5 DEF Added
  <2> HIDE DEF row
  <2>2. Append(st.all, row) \in Seq(Row) /\ Append(st.rented, row) \in Seq(Row)
    BY <1>1, <1>3, AppendFacts
  <2> DEFINE rented == IF row.name = NoName THEN st.rented ELSE Append(st.rented, row)
  <2>3. rented \in Seq(Row)
    BY <1>1, <2>2
  <2>4. Added(st, c) = [st EXCEPT !.all = Append(st.all, row), !.rented = rented]
    BY <2>1 DEF Lists
  <2>5. rented = IF c.doc.name = NoName THEN st.rented ELSE Append(st.rented, row)
    BY <1>3
  <2> HIDE DEF rented
  <2>6. /\ Added(st, c) \in Lists /\ Added(st, c).status = st.status
        /\ Added(st, c).all = Append(st.all, row) /\ Added(st, c).rented = rented
    BY <1>1, <2>2, <2>3, <2>4 DEF Lists
  <2>7. QED
    BY <1>3, <2>5, <2>6
<1>6. QED
  BY <1>4, <1>5

\* A modified property is renamed; without a row among the rented ones it gets
\* one, or the first property does.
LEMMA ModifiedFacts ==
  ASSUME NEW st \in Lists, NEW c \in Change, c.doc \in Doc
  PROVE  \/ Modified(st, c) \in Lists /\ Modified(st, c).status = "crashed"
            /\ Modified(st, c).all = st.all /\ Modified(st, c).rented = st.rented
         \/ /\ c.doc.name # NoName /\ Len(st.all) >= 1
            /\ Modified(st, c) \in Lists /\ Modified(st, c).status = st.status
            /\ Modified(st, c).all = Renamed(st.all, c)
            /\ \/ HasId(st.rented, c.id) /\ Modified(st, c).rented = Renamed(st.rented, c)
               \/ /\ ~ HasId(st.rented, c.id)
                  /\ \E row \in Row :
                       /\ Modified(st, c).rented = Append(st.rented, row)
                       /\ IF HasId(st.all, c.id) THEN row.id = c.id /\ row.name = c.doc.name
                          ELSE row = st.all[1]
<1> DEFINE row == IF HasId(Renamed(st.all, c), c.id) THEN [id |-> c.id, name |-> c.doc.name] ELSE st.all[1]
           rented == IF HasId(st.rented, c.id) THEN Renamed(st.rented, c)
                     ELSE Append(st.rented, row)
           all == Renamed(st.all, c)
<1>1. st.all \in Seq(Row) /\ st.rented \in Seq(Row) /\ st.status \in {"running", "returned", "crashed"}
  BY DEF Lists
<1>2. c.id \in Ids /\ c.doc.name \in Tenants \cup {NoName}
  BY DEF Change, Doc
<1>3. CASE c.doc.name = NoName \/ st.all = <<>>
  <2>1. Modified(st, c) = [st EXCEPT !.status = "crashed"]
    BY <1>3 DEF Modified
  <2>2. QED
    BY <1>1, <2>1 DEF Lists
<1>4. CASE ~ (c.doc.name = NoName \/ st.all = <<>>)
  <2>1. Len(st.all) \in Nat /\ Len(st.all) >= 1
    BY <1>1, <1>4, SeqFacts
  <2>2. 1 \in 1 .. Len(st.all)
    BY <2>1
  <2>3. row \in Row
    <3>1. st.all[1] \in Row
      BY <1>1, <2>2, SeqFacts
    <3>2. [id |-> c.id, name |-> c.doc.name] \in Row
      BY <1>2 DEF Row
    <3>3. QED
      BY <3>1, <3>2
  <2>4. IF HasId(st.all, c.id) THEN row.id = c.id /\ row.name = c.doc.name ELSE row = st.all[1]
    BY <1>1, RenamedFacts
  <2>5. Modified(st, c) = [st EXCEPT !.all = all, !.rented = rented]
    BY <1>4 DEF Modified, Lists
  <2> HIDE DEF row
  <2>6. all \in Seq(Row) /\ rented \in Seq(Row)
    BY <1>1, <2>3, RenamedFacts, AppendFacts
  <2>7. \/ HasId(st.rented, c.id) /\ rented = Renamed(st.rented, c)
        \/ ~ HasId(st.rented, c.id) /\ rented = Append(st.rented, row)
    OBVIOUS
  <2>8. all = Renamed(st.all, c)
    OBVIOUS
  <2> HIDE DEF all, rented
  <2>9. /\ Modified(st, c) \in Lists /\ Modified(st, c).status = st.status
        /\ Modified(st, c).all = all /\ Modified(st, c).rented = rented
    BY <1>1, <2>5, <2>6 DEF Lists
  <2>10. QED
    BY <1>4, <2>1, <2>3, <2>4, <2>7, <2>8, <2>9
<1>5. QED
  BY <1>3, <1>4

\* A removed property's rows go.
LEMMA RemovedFacts ==
  ASSUME NEW st \in Lists, NEW c \in Change
  PROVE  /\ Removed(st, c) \in Lists
         /\ Removed(st, c).all = RemoveId(st.all, c.id)
         /\ Removed(st, c).rented = RemoveId(st.rented, c.id)
         /\ Removed(st, c).status \in {st.status, "returned"}
<1> DEFINE all == RemoveId(st.all, c.id)
           rented == RemoveId(st.rented, c.id)
           status == IF HasId(st.rented, c.id) THEN "returned" ELSE st.status
<1>1. st.all \in Seq(Row) /\ st.rented \in Seq(Row) /\ st.status \in {"running", "returned", "crashed"}
  BY DEF Lists
<1>2. all \in Seq(Row) /\ rented \in Seq(Row)
  BY <1>1, RemoveIdFacts
<1>3. status \in {st.status, "returned"} /\ status \in {"running", "returned", "crashed"}
  BY <1>1
<1>4. Removed(st, c) = [st EXCEPT !.all = all, !.rented = rented, !.status = status]
  BY DEF Removed, Lists
<1> HIDE DEF all, rented, status
<1>5. /\ Removed(st, c) \in Lists
      /\ Removed(st, c).all = all /\ Removed(st, c).rented = rented
      /\ Removed(st, c).status = status
  BY <1>1, <1>2, <1>3, <1>4 DEF Lists
<1>6. QED
  BY <1>3, <1>5 DEF all, rented

\* The lists stay lists.
LEMMA HandleChangeType ==
  ASSUME NEW st \in Lists, NEW c \in Change, Fitting(c)
  PROVE  HandleChange(st, c) \in Lists
<1>1. c.type \in {"removed", "added", "modified"}
  BY DEF Change
<1>2. CASE st.status # "running"
  BY <1>2 DEF HandleChange
<1>3. CASE st.status = "running" /\ c.type = "removed"
  BY <1>3, RemovedFacts DEF HandleChange
<1>4. CASE st.status = "running" /\ c.type = "added"
  <2>1. HandleChange(st, c) = Added(st, c) /\ c.doc \in Doc
    BY <1>4 DEF HandleChange, Fitting
  <2>2. QED
    BY <2>1, AddedFacts
<1>5. CASE st.status = "running" /\ c.type = "modified"
  <2>1. HandleChange(st, c) = Modified(st, c) /\ c.doc \in Doc
    BY <1>5 DEF HandleChange, Fitting
  <2>2. QED
    BY <2>1, ModifiedFacts
<1>6. QED
  BY <1>1, <1>2, <1>3, <1>4, <1>5

\* The lists after each change of an event, up to the n-th.
Start == [all |-> properties, rented |-> tenantProperties, status |-> "running"]

Runs(cs, n) ==
  {f \in [0 .. n -> Lists] :
     /\ f[0] = Start
     /\ \A i \in 1 .. n : f[i] = HandleChange(f[i - 1], cs[i])}

\* There are such lists however many changes an event has.
LEMMA RunsExist ==
  ASSUME Start \in Lists, NEW cs \in Seq(Change), \A k \in 1 .. Len(cs) : Fitting(cs[k])
  PROVE  \A n \in 0 .. Len(cs) : Runs(cs, n) # {}
<1> DEFINE bad == {n \in 0 .. Len(cs) : Runs(cs, n) = {}}
<1>1. Len(cs) \in Nat /\ \A i \in 1 .. Len(cs) : cs[i] \in Change
  BY LenProperties, ElementOfSeq
<1>2. SUFFICES ASSUME bad # {} PROVE FALSE
  OBVIOUS
<1>3. bad \in SUBSET Nat
  BY <1>1
<1>4. PICK n \in bad : \A m \in bad : ~ (m < n)
  BY <1>2, <1>3, LeastMember
<1>5. n \in 0 .. Len(cs) /\ n \in Nat /\ Runs(cs, n) = {}
  BY <1>1
<1>6. CASE n = 0
  <2> DEFINE f == [i \in 0 .. 0 |-> Start]
  <2>1. f \in [0 .. n -> Lists] /\ f[0] = Start /\ 1 .. n = {}
    BY <1>6
  <2>2. f \in Runs(cs, n)
    BY <2>1 DEF Runs
  <2>3. QED
    BY <1>5, <2>2
<1>7. CASE n # 0
  <2>1. n - 1 \in 0 .. Len(cs) /\ n - 1 < n /\ n \in 1 .. Len(cs)
    BY <1>1, <1>5, <1>7
  <2>2. PICK f \in Runs(cs, n - 1) : TRUE
    BY <1>4, <2>1
  <2>3. /\ f \in [0 .. n - 1 -> Lists] /\ f[0] = Start
        /\ \A i \in 1 .. n - 1 : f[i] = HandleChange(f[i - 1], cs[i])
    BY <2>2 DEF Runs
  <2> DEFINE last == HandleChange(f[n - 1], cs[n])
             g == [i \in 0 .. n |-> IF i < n THEN f[i] ELSE last]
  <2>4. last \in Lists
    <3>1. f[n - 1] \in Lists
      BY <1>5, <1>7, <2>3
    <3>2. QED
      BY <1>1, <2>1, <3>1, HandleChangeType
  <2> HIDE DEF last
  <2>5. g \in [0 .. n -> Lists]
    BY <1>5, <2>3, <2>4
  <2>6. g[0] = Start
    BY <1>5, <1>7, <2>3
  <2>7. ASSUME NEW i \in 1 .. n
        PROVE  g[i] = HandleChange(g[i - 1], cs[i])
    <3>1. g[i - 1] = f[i - 1]
      BY <1>5
    <3>2. CASE i = n
      <4>1. g[i] = last
        BY <1>5, <3>2
      <4>2. QED
        BY <3>1, <3>2, <4>1 DEF last
    <3>3. CASE i # n
      <4>1. g[i] = f[i] /\ i \in 1 .. n - 1
        BY <1>5, <3>3
      <4> HIDE DEF g
      <4>2. QED
        BY <2>3, <3>1, <4>1
    <3>4. QED
      BY <3>2, <3>3
  <2> HIDE DEF g
  <2>8. g \in Runs(cs, n)
    BY <2>5, <2>6, <2>7 DEF Runs
  <2>9. QED
    BY <1>5, <2>8
<1>8. QED
  BY <1>6, <1>7

\* The callback leaves the last of them.
LEMMA HandledIs ==
  ASSUME NEW cs \in Seq(Change), NEW f \in Runs(cs, Len(cs))
  PROVE  HandleChanges(cs) = f[Len(cs)] /\ HandleChanges(cs) \in Lists
<1> DEFINE N == Len(cs)
           Goes(g) ==
             g = [n \in 0 .. N |->
                    IF n = 0
                    THEN [all |-> properties, rented |-> tenantProperties, status |-> "running"]
                    ELSE HandleChange(g[n - 1], cs[n])]
           after == CHOOSE g : Goes(g)
<1>1. N \in Nat
  BY LenProperties
<1>2. /\ f \in [0 .. N -> Lists] /\ f[0] = Start
      /\ \A n \in 1 .. N : f[n] = HandleChange(f[n - 1], cs[n])
  BY DEF Runs
<1>3. HandleChanges(cs) = after[N]
  BY Zenon DEF HandleChanges
<1> HIDE DEF N
<1>4. Goes(f)
  <2>1. \A n \in 0 .. N : n = 0 \/ n \in 1 .. N
    BY <1>1
  <2>2. f = [n \in 0 .. N |-> f[n]]
    BY <1>2
  <2>3. \A n \in 0 .. N : f[n] = IF n = 0 THEN Start ELSE HandleChange(f[n - 1], cs[n])
    BY <1>2, <2>1
  <2>4. [n \in 0 .. N |-> f[n]] = [n \in 0 .. N |-> IF n = 0 THEN Start
                                          ELSE HandleChange(f[n - 1], cs[n])]
    BY <2>3, Zenon
  <2>5. QED
    BY <2>2, <2>4, Zenon DEF Start
<1>5. Goes(after)
  <2> HIDE DEF Goes
  <2>1. QED
    BY <1>4, Zenon
<1> HIDE DEF after
<1>6. /\ after[0] = Start
      /\ \A n \in 1 .. N : after[n] = HandleChange(after[n - 1], cs[n])
  <2>1. \A n \in 0 .. N : after[n] = IF n = 0 THEN Start ELSE HandleChange(after[n - 1], cs[n])
    BY <1>5, Zenon DEF Start
  <2>2. 0 \in 0 .. N /\ \A n \in 1 .. N : n \in 0 .. N /\ n # 0
    BY <1>1
  <2>3. QED
    BY <2>1, <2>2, Zenon
<1> HIDE DEF Goes
<1> DEFINE bad == {n \in 0 .. N : after[n] # f[n]}
<1>7. ASSUME bad # {} PROVE FALSE
  <2>1. bad \in SUBSET Nat
    BY <1>1
  <2>2. PICK n \in bad : \A m \in bad : ~ (m < n)
    BY <1>7, <2>1, LeastMember
  <2>3. n \in 0 .. N /\ n \in Nat /\ after[n] # f[n]
    BY <1>1
  <2>4. n # 0
    BY <1>2, <1>6, <2>3
  <2>5. n \in 1 .. N /\ n - 1 \in 0 .. N /\ n - 1 < n
    BY <1>1, <2>3, <2>4
  <2>6. after[n - 1] = f[n - 1]
    BY <2>2, <2>5
  <2>7. QED
    BY <1>2, <1>6, <2>3, <2>5, <2>6
<1>8. N \in 0 .. N
  BY <1>1
<1>9. after[N] = f[N] /\ f[N] \in Lists
  BY <1>2, <1>7, <1>8
<1>10. QED
  BY <1>3, <1>9 DEF N

(***************************************************************************)
(* Types.                                                                  *)
(***************************************************************************)
WellFormed ==
  \A i \in 1 .. Len(inbox) : \A k \in 1 .. Len(inbox[i].changes) : Fitting(inbox[i].changes[k])

\* A screen is being loaded.
Due == \E i \in 1 .. Len(inbox) : inbox[i].load

\* At most one screen is being loaded.
Alone == \A i, j \in 1 .. Len(inbox) : inbox[i].load /\ inbox[j].load => i = j

\* Every listener, with or without its first event, is of a login of its own.
Counted ==
  /\ Alone
  /\ Due => signedIn /\ listeners < logins
  /\ listening => listeners < logins
  /\ listening /\ Due => listeners + 1 < logins

TypeInv == TypeOK /\ WellFormed /\ Counted

\* The events of a new view, one for each listener.
LEMMA EventsFacts ==
  ASSUME TypeOK, NEW new \in Docs
  PROVE  /\ Events(new) \in Seq(Block)
         /\ \A i \in 1 .. Len(Events(new)) :
              Events(new)[i] = Event(ComputeDocumentChanges(view, new))
         /\ listeners = 0 => Events(new) = <<>>
         /\ ComputeDocumentChanges(view, new) = <<>> => Events(new) = <<>>
         /\ listeners = 1 /\ ComputeDocumentChanges(view, new) # <<>> => Len(Events(new)) = 1
<1> DEFINE cs == ComputeDocumentChanges(view, new)
           es == Events(new)
           b == Event(cs)
<1>1. view \in Docs /\ listeners \in Nat
  BY DEF TypeOK, Docs
<1>2. cs \in Seq(Change)
  BY <1>1, ComputedFacts
<1>3. es = IF cs = <<>> THEN <<>> ELSE [i \in 1 .. listeners |-> b]
  BY DEF Events
<1>4. b \in Block
  BY <1>2 DEF Event, Block
<1> HIDE DEF cs, es, b
<1>5. CASE cs = <<>>
  <2>1. es = <<>> /\ es \in Seq(Block) /\ Len(es) = 0
    BY <1>3, <1>5, EmptySeq
  <2>2. \A i \in 1 .. Len(es) : FALSE
    BY <2>1
  <2>3. QED
    BY <1>5, <2>1, <2>2 DEF cs, es
<1>6. CASE cs # <<>>
  <2>1. es \in [1 .. listeners -> Block] /\ \A i \in 1 .. listeners : es[i] = b
    BY <1>3, <1>4, <1>6
  <2>2. es \in Seq(Block) /\ Len(es) = listeners
    BY <1>1, <2>1, FunctionIsSeq
  <2>3. listeners = 0 => es = <<>>
    BY <2>2, EmptySeq
  <2>4. QED
    BY <1>6, <2>1, <2>2, <2>3 DEF cs, es, b
<1>7. QED
  BY <1>5, <1>6

\* What a snapshot adds to the main queue.
LEMMA EmitFacts ==
  ASSUME TypeOK, NEW new \in Docs, NEW box, box = inbox \o Events(new)
  PROVE  /\ box \in Seq(Block)
         /\ \A i \in 1 .. Len(inbox) : box[i] = inbox[i]
         /\ \A i \in 1 .. Len(box) :
              \/ i \in 1 .. Len(inbox) /\ box[i] = inbox[i]
              \/ box[i] = Event(ComputeDocumentChanges(view, new))
         /\ Events(new) = <<>> => box = inbox
         /\ Len(Events(new)) = 1 => /\ Len(box) = Len(inbox) + 1
                                    /\ box[Len(inbox) + 1]
                                         = Event(ComputeDocumentChanges(view, new))
<1> DEFINE es == Events(new)
           b == Event(ComputeDocumentChanges(view, new))
<1>1. es \in Seq(Block) /\ \A i \in 1 .. Len(es) : es[i] = b
  BY EventsFacts
<1>2. inbox \in Seq(Block)
  BY DEF TypeOK
<1> HIDE DEF es, b
<1>3. /\ inbox \o es \in Seq(Block)
      /\ Len(inbox \o es) = Len(inbox) + Len(es)
      /\ \A i \in 1 .. Len(inbox) : /\ i \in 1 .. Len(inbox \o es)
                                    /\ (inbox \o es)[i] = inbox[i]
      /\ \A i \in 1 .. Len(es) : /\ Len(inbox) + i \in 1 .. Len(inbox \o es)
                                 /\ (inbox \o es)[Len(inbox) + i] = es[i]
      /\ \A i \in 1 .. Len(inbox \o es) : i \in 1 .. Len(inbox) \/ i - Len(inbox) \in 1 .. Len(es)
  BY <1>1, <1>2, ConcatFacts, Zenon
<1>4. Len(inbox) \in Nat /\ Len(es) \in Nat
  BY <1>1, <1>2, LenProperties
<1>5. box = inbox \o es
  BY DEF es
<1>6. ASSUME NEW i \in 1 .. Len(box)
      PROVE  \/ i \in 1 .. Len(inbox) /\ box[i] = inbox[i]
             \/ box[i] = b
  <2>1. CASE i \in 1 .. Len(inbox)
    BY <1>3, <1>5, <2>1
  <2>2. CASE i - Len(inbox) \in 1 .. Len(es)
    <3> DEFINE k == i - Len(inbox)
    <3>1. k \in 1 .. Len(es) /\ Len(inbox) + k = i
      BY <1>3, <1>4, <1>5, <2>2
    <3> HIDE DEF k
    <3>2. box[i] = es[k]
      BY <1>3, <1>5, <3>1
    <3>3. QED
      BY <1>1, <3>1, <3>2
  <2>3. QED
    BY <1>3, <1>5, <2>1, <2>2
<1>7. es = <<>> => box = inbox
  BY <1>2, <1>5, ConcatEmptySeq
<1>8. ASSUME Len(es) = 1
      PROVE  Len(box) = Len(inbox) + 1 /\ box[Len(inbox) + 1] = b
  <2>1. 1 \in 1 .. Len(es)
    BY <1>8
  <2>2. QED
    BY <1>1, <1>3, <1>5, <1>8, <2>1
<1>9. QED
  BY <1>3, <1>5, <1>6, <1>7, <1>8 DEF es, b

\* What a device sees are documents.
LEMMA LocalViewType ==
  ASSUME NEW d \in Docs, NEW pending \in Seq(Write)
  PROVE  LocalView(d, pending) \in Docs
<1>1. Len(pending) \in Nat
  BY LenProperties
<1>2. Len(pending) \in 0 .. Len(pending)
  BY <1>1
<1>3. PICK f \in Views(d, pending, Len(pending)) : TRUE
  BY <1>2, ViewsExist
<1>4. QED
  BY <1>3, LocalViewIs

\* The writes of the screens.
LEMMA ScreenWrites ==
  ASSUME NEW id \in Ids
  PROVE  /\ [op |-> "register", id |-> id] \in Write
         /\ [op |-> "delete", id |-> id] \in Write
         /\ \A t \in Tenants : [op |-> "name", id |-> id, name |-> t] \in Write
BY DEF Write

\* A write is put in the queue and seen at once.
LEMMA WriteFacts ==
  ASSUME TypeOK, NEW w \in Write, WriteLocally(w)
  PROVE  /\ signedIn /\ ~ crashed
         /\ \A i \in 1 .. Len(inbox) : ~ inbox[i].load
         /\ writes' \in Nat
         /\ queue' = Append(queue, w) /\ queue' \in Seq(Write)
         /\ view' = LocalView(base, queue') /\ view' \in Docs
         /\ inbox' = inbox \o Events(view')
         /\ UNCHANGED <<base, signedIn, listening, listeners, lists, logins, remote>>
<1>1. queue \in Seq(Write) /\ base \in Docs /\ writes \in Nat /\ inbox \in Seq(Block)
  BY DEF TypeOK, Docs
<1>2. queue' = Append(queue, w) /\ queue' \in Seq(Write)
  BY <1>1, AppendFacts DEF WriteLocally
<1>3. view' = LocalView(base, queue') /\ inbox' = inbox \o Events(view')
  BY DEF WriteLocally, EmitSnapshot
<1>4. view' \in Docs
  BY <1>1, <1>2, <1>3, LocalViewType
<1>5. DOMAIN inbox = 1 .. Len(inbox)
  BY <1>1, SeqFacts
<1>6. QED
  BY <1>1, <1>2, <1>3, <1>4, <1>5 DEF WriteLocally

\* What another device can make of documents.
LEMMA RemoteFacts ==
  ASSUME TypeOK, RemoteEvent
  PROVE  /\ ~ crashed
         /\ \E S \in SUBSET Ids : \E new \in [S -> Doc \cup {None}] :
              /\ S # {} /\ remote' = remote + Cardinality(S) /\ Cardinality(S) \in Nat \ {0}
              /\ registered' = registered \cup S
              /\ named' = named \cup {<<id, new[id].name>> :
                            id \in {i \in S : new[i] # None /\ new[i].name # NoName}}
              /\ base' = [id \in Ids |-> IF id \in S THEN new[id] ELSE base[id]]
         /\ base' \in Docs /\ named' \subseteq Ids \X Tenants
         /\ view' = (IF signedIn THEN LocalView(base', queue) ELSE base') /\ view' \in Docs
         /\ inbox' = inbox \o Events(view')
         /\ UNCHANGED <<queue, signedIn, listening, listeners, lists, logins, writes>>
<1>1. base \in Docs /\ queue \in Seq(Write) /\ named \subseteq Ids \X Tenants
  BY DEF TypeOK, Docs
<1>2. PICK S \in (SUBSET Ids) \ {{}} : \E new \in [S -> Doc \cup {None}] :
        /\ remote' = remote + Cardinality(S)
        /\ registered' = registered \cup S
        /\ named' = named \cup {<<id, new[id].name>> :
                      id \in {i \in S : new[i] # None /\ new[i].name # NoName}}
        /\ base' = [id \in Ids |-> IF id \in S THEN new[id] ELSE base[id]]
  BY DEF RemoteEvent
<1>3. PICK new \in [S -> Doc \cup {None}] :
        /\ remote' = remote + Cardinality(S)
        /\ registered' = registered \cup S
        /\ named' = named \cup {<<id, new[id].name>> :
                      id \in {i \in S : new[i] # None /\ new[i].name # NoName}}
        /\ base' = [id \in Ids |-> IF id \in S THEN new[id] ELSE base[id]]
  BY <1>2
<1>4. S \in SUBSET Ids /\ S # {}
  OBVIOUS
<1>5. IsFiniteSet(S)
  BY <1>4, IdSets
<1>6. Cardinality(S) \in Nat \ {0}
  BY <1>4, <1>5, FS_CardinalityType, FS_EmptySet
<1>7. base' \in Docs
  BY <1>1, <1>3, <1>4 DEF Docs
<1>8. \A id \in S : new[id] # None /\ new[id].name # NoName => <<id, new[id].name>> \in Ids \X Tenants
  BY <1>4 DEF Doc
<1>9. named' \subseteq Ids \X Tenants
  BY <1>1, <1>3, <1>8
<1>10. /\ view' = (IF signedIn THEN LocalView(base', queue) ELSE base')
       /\ inbox' = inbox \o Events(view') /\ ~ crashed
       /\ UNCHANGED <<queue, signedIn, listening, listeners, lists, logins, writes>>
  BY DEF RemoteEvent, EmitSnapshot
<1>11. view' \in Docs
  BY <1>1, <1>7, <1>10, LocalViewType
<1>12. QED
  BY <1>3, <1>4, <1>6, <1>7, <1>9, <1>10, <1>11

\* The oldest write moves to the cache.
LEMMA AcknowledgeFacts ==
  ASSUME TypeOK, AcknowledgeBatch
  PROVE  /\ signedIn /\ ~ crashed /\ queue # <<>>
         /\ Head(queue) = queue[1] /\ queue[1] \in Write /\ 1 \in 1 .. Len(queue)
         /\ base' = ApplyWrite(base, queue[1]) /\ base' \in Docs
         /\ queue' = Tail(queue) /\ queue' \in Seq(Write)
         /\ \A i \in 1 .. Len(queue') : i + 1 \in 1 .. Len(queue) /\ queue'[i] = queue[i + 1]
         /\ UNCHANGED <<signedIn, view, listening, listeners, inbox, lists, history>>
<1>1. queue \in Seq(Write) /\ base \in Docs
  BY DEF TypeOK, Docs
<1>2. /\ queue # <<>> /\ base' = ApplyWrite(base, Head(queue)) /\ queue' = Tail(queue)
      /\ signedIn /\ ~ crashed
      /\ UNCHANGED <<signedIn, view, listening, listeners, inbox, lists, history>>
  BY DEF AcknowledgeBatch
<1>3. /\ Tail(queue) \in Seq(Write) /\ Head(queue) = queue[1] /\ queue[1] \in Write
      /\ Len(queue) \in Nat /\ Len(queue) >= 1
      /\ \A i \in 1 .. Len(Tail(queue)) : i + 1 \in 1 .. Len(queue) /\ Tail(queue)[i] = queue[i + 1]
  BY <1>1, <1>2, TailFacts
<1>4. base' \in Docs
  BY <1>1, <1>2, <1>3, ApplyWriteFacts
<1>5. QED
  BY <1>2, <1>3, <1>4

\* The first event of a listener.
FirstEvent == Event(ChangesOf("added", Present(view), view))

\* It adds every document of the view.
LEMMA AddedEventFacts ==
  ASSUME TypeOK
  PROVE  /\ FirstEvent \in Block /\ ~ FirstEvent.load
         /\ FirstEvent.changes = ChangesOf("added", Present(view), view)
         /\ FirstEvent.changes \in Seq(Change)
         /\ \A k \in 1 .. Len(FirstEvent.changes) :
              /\ FirstEvent.changes[k].id \in Ids
              /\ FirstEvent.changes[k].doc = view[FirstEvent.changes[k].id]
              /\ Fitting(FirstEvent.changes[k])
<1> DEFINE cs == ChangesOf("added", Present(view), view)
<1>1. view \in Docs /\ Present(view) \in SUBSET Ids
  BY DEF TypeOK, Docs, Present
<1>2. /\ cs \in Seq(Change)
      /\ \A k \in 1 .. Len(cs) : cs[k].id \in Present(view) /\ cs[k].doc = view[cs[k].id]
  BY <1>1, ChangesOfFacts DEF Changes
<1> HIDE DEF cs
<1>3. \A id \in Present(view) : id \in Ids /\ view[id] \in Doc
  BY <1>1 DEF Present, Docs
<1>4. \A k \in 1 .. Len(cs) : cs[k].id \in Ids /\ Fitting(cs[k])
  BY <1>2, <1>3 DEF Fitting
<1>5. FirstEvent = [load |-> FALSE, changes |-> cs]
  BY DEF FirstEvent, Event, cs
<1>6. FirstEvent \in Block /\ ~ FirstEvent.load /\ FirstEvent.changes = cs
  BY <1>2, <1>5 DEF Block
<1>7. QED
  BY <1>2, <1>4, <1>6 DEF cs

\* A listener's callback handles the changes of its event.
LEMMA CallbackFacts ==
  ASSUME TypeInv, RunCallback
  PROVE  /\ ~ crashed /\ inbox # <<>> /\ ~ inbox[1].load /\ 1 \in 1 .. Len(inbox)
         /\ inbox' = Tail(inbox)
         /\ inbox[1].changes \in Seq(Change)
         /\ \A k \in 1 .. Len(inbox[1].changes) : Fitting(inbox[1].changes[k])
         /\ Start \in Lists
         /\ HandleChanges(inbox[1].changes) \in Lists
         /\ properties' = HandleChanges(inbox[1].changes).all
         /\ tenantProperties' = HandleChanges(inbox[1].changes).rented
         /\ crashed' = (HandleChanges(inbox[1].changes).status = "crashed")
         /\ UNCHANGED <<sdk, listening, listeners, history>>
<1> DEFINE cs == inbox[1].changes
<1>1. inbox \in Seq(Block) /\ inbox # <<>> /\ properties \in Seq(Row) /\ tenantProperties \in Seq(Row)
  BY DEF TypeInv, TypeOK, RunCallback
<1>2. Head(inbox) = inbox[1] /\ inbox[1] \in Block /\ Len(inbox) \in Nat /\ Len(inbox) >= 1
  BY <1>1, TailFacts
<1>3. 1 \in 1 .. Len(inbox)
  BY <1>2
<1>4. cs \in Seq(Change) /\ \A k \in 1 .. Len(cs) : Fitting(cs[k])
  BY <1>2, <1>3 DEF Block, TypeInv, WellFormed
<1>5. Start \in Lists
  BY <1>1 DEF Start, Lists
<1>6. ~ crashed /\ ~ inbox[1].load /\ inbox' = Tail(inbox)
      /\ properties' = HandleChanges(cs).all /\ tenantProperties' = HandleChanges(cs).rented
      /\ crashed' = (HandleChanges(cs).status = "crashed")
      /\ UNCHANGED <<sdk, listening, listeners, history>>
  BY <1>2 DEF RunCallback
<1> HIDE DEF cs
<1>7. HandleChanges(cs) \in Lists
  <2>1. Len(cs) \in 0 .. Len(cs)
    BY <1>4, LenProperties
  <2>2. PICK f \in Runs(cs, Len(cs)) : TRUE
    BY <1>4, <1>5, <2>1, RunsExist
  <2>3. QED
    BY <1>4, <2>2, HandledIs
<1>8. QED
  BY <1>1, <1>3, <1>4, <1>5, <1>6, <1>7 DEF cs

\* A listener's first event, unless there is nothing to tell.
LEMMA ListenerFacts ==
  ASSUME TypeOK, ListenerAdded
  PROVE  /\ listening /\ ~ crashed /\ ~ listening' /\ listeners' = listeners + 1
         /\ inbox' \in Seq(Block)
         /\ \/ Present(view) = {} /\ UNCHANGED inbox
            \/ /\ Len(inbox') = Len(inbox) + 1
               /\ inbox'[Len(inbox) + 1] = FirstEvent
               /\ \A i \in 1 .. Len(inbox) : inbox'[i] = inbox[i]
         /\ UNCHANGED <<sdk, lists, history>>
<1>1. inbox \in Seq(Block) /\ FirstEvent \in Block
  BY AddedEventFacts DEF TypeOK
<1>2. inbox' = IF Present(view) = {} THEN inbox ELSE Append(inbox, FirstEvent)
  BY DEF ListenerAdded, FirstEvent
<1>3. /\ Append(inbox, FirstEvent) \in Seq(Block)
      /\ Len(Append(inbox, FirstEvent)) = Len(inbox) + 1
      /\ Append(inbox, FirstEvent)[Len(inbox) + 1] = FirstEvent
      /\ \A i \in 1 .. Len(inbox) : Append(inbox, FirstEvent)[i] = inbox[i]
  BY <1>1, AppendFacts
<1>4. /\ listening /\ ~ crashed /\ ~ listening' /\ listeners' = listeners + 1
      /\ UNCHANGED <<sdk, lists, history>>
  BY DEF ListenerAdded
<1> HIDE DEF FirstEvent
<1>5. CASE Present(view) = {}
  BY <1>1, <1>2, <1>4, <1>5
<1>6. CASE Present(view) # {}
  <2>1. inbox' = Append(inbox, FirstEvent)
    BY <1>2, <1>6
  <2>2. QED
    BY <1>3, <1>4, <2>1
<1>7. QED
  BY <1>5, <1>6

\* Logging in shows the pending writes again and loads a new screen.
LEMMA LogInFacts ==
  ASSUME TypeOK, LogIn
  PROVE  /\ logins' = logins + 1 /\ signedIn' /\ view' \in Docs
         /\ view' = LocalView(base, queue)
         /\ inbox' \in Seq(Block)
         /\ \A i \in 1 .. Len(inbox') :
              \/ i \in 1 .. Len(inbox) /\ inbox'[i] = inbox[i]
              \/ inbox'[i] = Event(ComputeDocumentChanges(view, view'))
              \/ inbox'[i] = Load
         /\ UNCHANGED <<base, queue, listening, listeners, lists, registered, named, writes, remote>>
<1> DEFINE box == inbox \o Events(view')
<1>1. /\ logins' = logins + 1 /\ signedIn' /\ view' = LocalView(base, queue)
      /\ inbox' = Append(box, Load)
      /\ UNCHANGED <<base, queue, listening, listeners, lists, registered, named, writes, remote>>
  BY DEF LogIn
<1>2. view' \in Docs
  <2>1. base \in Docs /\ queue \in Seq(Write)
    BY DEF TypeOK, Docs
  <2>2. QED
    BY <1>1, <2>1, LocalViewType
<1>3. /\ box \in Seq(Block)
      /\ \A i \in 1 .. Len(box) : \/ i \in 1 .. Len(inbox) /\ box[i] = inbox[i]
                                  \/ box[i] = Event(ComputeDocumentChanges(view, view'))
  BY <1>2, EmitFacts
<1> HIDE DEF box
<1>4. Load \in Block
  <2>1. <<>> \in Seq(Change)
    BY EmptySeq
  <2>2. QED
    BY <2>1 DEF Load, Block
<1>5. /\ Append(box, Load) \in Seq(Block)
      /\ \A i \in 1 .. Len(box) : Append(box, Load)[i] = box[i]
      /\ Append(box, Load)[Len(box) + 1] = Load
      /\ \A i \in 1 .. Len(Append(box, Load)) : i \in 1 .. Len(box) \/ i = Len(box) + 1
  BY <1>3, <1>4, AppendFacts
<1>6. ASSUME NEW i \in 1 .. Len(inbox')
      PROVE  \/ i \in 1 .. Len(inbox) /\ inbox'[i] = inbox[i]
             \/ inbox'[i] = Event(ComputeDocumentChanges(view, view'))
             \/ inbox'[i] = Load
  <2>1. CASE i \in 1 .. Len(box)
    BY <1>1, <1>3, <1>5, <2>1
  <2>2. CASE i = Len(box) + 1
    BY <1>1, <1>5, <2>2
  <2>3. QED
    BY <1>1, <1>5, <2>1, <2>2
<1>7. QED
  BY <1>1, <1>2, <1>5, <1>6

\* Logging out takes the pending writes out of the view.
LEMMA LogOutFacts ==
  ASSUME TypeOK, LogOut
  PROVE  /\ ~ crashed /\ ~ signedIn' /\ signedIn' \in BOOLEAN
         /\ view' = base /\ view' \in Docs /\ inbox' = inbox \o Events(view')
         /\ UNCHANGED <<base, queue, listening, listeners, lists, history>>
<1>1. base \in Docs
  BY DEF TypeOK, Docs
<1>2. QED
  BY <1>1 DEF LogOut, EmitSnapshot

\* Where the blocks of the main queue come from.
LEMMA BoxStep ==
  ASSUME TypeInv, Next
  PROVE  /\ inbox' \in Seq(Block) /\ view' \in Docs
         /\ \A i \in 1 .. Len(inbox') :
              \/ \E j \in 1 .. Len(inbox) : inbox'[i] = inbox[j]
              \/ inbox'[i] = Load
              \/ inbox'[i] = FirstEvent
              \/ inbox'[i] = Event(ComputeDocumentChanges(view, view'))
<1>1. TypeOK /\ inbox \in Seq(Block) /\ view \in Docs
  BY DEF TypeInv, TypeOK, Docs
<1>2. ASSUME inbox # <<>>, inbox' = Tail(inbox), UNCHANGED view
      PROVE  /\ inbox' \in Seq(Block) /\ view' \in Docs
             /\ \A i \in 1 .. Len(inbox') : \E j \in 1 .. Len(inbox) : inbox'[i] = inbox[j]
  <2>1. /\ Tail(inbox) \in Seq(Block)
        /\ \A i \in 1 .. Len(Tail(inbox)) : i + 1 \in 1 .. Len(inbox) /\ Tail(inbox)[i] = inbox[i + 1]
    BY <1>1, <1>2, TailFacts
  <2>2. QED
    BY <1>1, <1>2, <2>1
<1>3. ASSUME view' \in Docs, inbox' = inbox \o Events(view')
      PROVE  /\ inbox' \in Seq(Block)
             /\ \A i \in 1 .. Len(inbox') :
                  \/ \E j \in 1 .. Len(inbox) : inbox'[i] = inbox[j]
                  \/ inbox'[i] = Event(ComputeDocumentChanges(view, view'))
  BY <1>1, <1>3, EmitFacts
<1>4. CASE ViewDidLoad
  BY <1>2, <1>4 DEF ViewDidLoad, sdk
<1>5. CASE RunCallback
  BY <1>2, <1>5 DEF RunCallback, sdk
<1>6. CASE ListenerAdded
  <2>1. /\ inbox' \in Seq(Block) /\ UNCHANGED view
        /\ \/ UNCHANGED inbox
           \/ /\ Len(inbox') = Len(inbox) + 1
              /\ inbox'[Len(inbox) + 1] = FirstEvent
              /\ \A i \in 1 .. Len(inbox) : inbox'[i] = inbox[i]
    BY <1>1, <1>6, ListenerFacts DEF sdk
  <2>2. Len(inbox) \in Nat
    BY <1>1, LenProperties
  <2>3. \A i \in 1 .. Len(inbox) + 1 : i \in 1 .. Len(inbox) \/ i = Len(inbox) + 1
    BY <2>2
  <2>4. QED
    BY <1>1, <2>1, <2>3
<1>7. ASSUME NEW w \in Write, WriteLocally(w)
      PROVE  view' \in Docs /\ inbox' = inbox \o Events(view')
  BY <1>1, <1>7, WriteFacts
<1>8. CASE \E id \in Ids : \/ RegisterTapped(id) \/ DeleteTapped(id)
                           \/ \E t \in Tenants : AddNameToProperty(id, t)
  <2>1. view' \in Docs /\ inbox' = inbox \o Events(view')
    BY <1>7, <1>8, ScreenWrites DEF RegisterTapped, DeleteTapped, AddNameToProperty
  <2>2. QED
    BY <1>3, <2>1
<1>9. CASE AcknowledgeBatch
  BY <1>1, <1>9, AcknowledgeFacts
<1>10. CASE RemoteEvent
  BY <1>1, <1>3, <1>10, RemoteFacts
<1>11. CASE LogOut
  BY <1>1, <1>3, <1>11, LogOutFacts
<1>12. CASE LogIn
  BY <1>1, <1>12, LogInFacts
<1>13. QED
  BY <1>4, <1>5, <1>6, <1>8, <1>9, <1>10, <1>11, <1>12 DEF Next

\* What the changes under way are in the next state.
LEMMA ChangesStep ==
  ASSUME TypeInv, Next, NEW i \in 1 .. Len(inbox'), NEW k \in 1 .. Len(inbox'[i].changes)
  PROVE  /\ Fitting(inbox'[i].changes[k])
         /\ \/ \E j \in 1 .. Len(inbox) : k \in 1 .. Len(inbox[j].changes) /\ inbox'[i] = inbox[j]
            \/ /\ inbox'[i].changes[k].id \in Ids
               /\ \/ inbox'[i].changes[k].doc = view[inbox'[i].changes[k].id]
                  \/ inbox'[i].changes[k].doc = view'[inbox'[i].changes[k].id]
<1>1. TypeOK /\ view \in Docs /\ view' \in Docs
  BY BoxStep DEF TypeInv, TypeOK, Docs
<1>2. CASE \E j \in 1 .. Len(inbox) : inbox'[i] = inbox[j]
  BY <1>2 DEF TypeInv, WellFormed
<1>3. CASE inbox'[i] = Load
  <2>1. Load.changes = <<>> /\ Len(<<>>) = 0
    BY EmptySeq DEF Load
  <2>2. k \in 1 .. 0
    BY <1>3, <2>1
  <2>3. QED
    BY <2>2
<1>4. CASE inbox'[i] = FirstEvent
  BY <1>1, <1>4, AddedEventFacts
<1>5. CASE inbox'[i] = Event(ComputeDocumentChanges(view, view'))
  <2>1. inbox'[i].changes = ComputeDocumentChanges(view, view')
    BY <1>5 DEF Event
  <2>2. Fitting(inbox'[i].changes[k]) /\ Fits(inbox'[i].changes[k], view, view')
    BY <1>1, <2>1, ComputedFacts
  <2>3. QED
    BY <2>2 DEF Fits
<1>6. QED
  BY <1>2, <1>3, <1>4, <1>5, BoxStep

\* Blocks that load nothing leave the loading of a screen as it was.
LEMMA NothingLoaded ==
  ASSUME Alone,
         \A i \in 1 .. Len(inbox') :
           \/ i \in 1 .. Len(inbox) /\ inbox'[i] = inbox[i]
           \/ ~ inbox'[i].load
  PROVE  Alone' /\ (Due' => Due)
<1>1. ASSUME NEW i \in 1 .. Len(inbox'), inbox'[i].load
      PROVE  i \in 1 .. Len(inbox) /\ inbox[i].load
  BY <1>1
<1>2. Alone'
  BY <1>1 DEF Alone
<1>3. Due' => Due
  BY <1>1 DEF Due
<1>4. QED
  BY <1>2, <1>3

\* The first block goes.
LEMMA LoadsLeft ==
  ASSUME TypeOK, Alone, inbox # <<>>, inbox' = Tail(inbox)
  PROVE  Alone' /\ (Due' => Due) /\ (inbox[1].load => ~ Due')
<1>1. inbox \in Seq(Block)
  BY DEF TypeOK
<1>2. /\ Len(inbox) \in Nat /\ Len(inbox) >= 1 /\ Len(inbox') = Len(inbox) - 1
      /\ \A i \in 1 .. Len(inbox') : i + 1 \in 1 .. Len(inbox) /\ inbox'[i] = inbox[i + 1]
  BY <1>1, TailFacts
<1>3. ASSUME NEW i \in 1 .. Len(inbox'), inbox'[i].load
      PROVE  i + 1 \in 1 .. Len(inbox) /\ inbox[i + 1].load
  BY <1>2, <1>3
<1>4. Alone'
  <2>1. SUFFICES ASSUME NEW i \in 1 .. Len(inbox'), NEW j \in 1 .. Len(inbox'),
                        inbox'[i].load, inbox'[j].load
                 PROVE  i = j
    BY DEF Alone
  <2>2. i + 1 = j + 1
    BY <1>3, <2>1 DEF Alone
  <2>3. QED
    BY <1>2, <2>2
<1>5. Due' => Due
  BY <1>3 DEF Due
<1>6. ASSUME inbox[1].load, Due' PROVE FALSE
  <2>1. PICK i \in 1 .. Len(inbox') : inbox'[i].load
    BY <1>6 DEF Due
  <2>2. i + 1 \in 1 .. Len(inbox) /\ inbox[i + 1].load /\ 1 \in 1 .. Len(inbox)
    BY <1>2, <1>3, <2>1
  <2>3. i + 1 = 1
    BY <1>6, <2>2 DEF Alone
  <2>4. QED
    BY <1>2, <2>1, <2>3
<1>7. QED
  BY <1>4, <1>5, <1>6

\* Blocks of the main queue that are no loadings.
LEMMA EventsLoadNothing ==
  ASSUME TypeOK
  PROVE  ~ FirstEvent.load /\ \A cs : ~ Event(cs).load
BY AddedEventFacts DEF Event

\* Every step keeps the count of the listeners.
LEMMA CountStep ==
  ASSUME TypeInv, Next
  PROVE  Counted' /\ listeners' \in 0 .. logins'
<1>1. /\ TypeOK /\ Counted /\ Alone /\ inbox \in Seq(Block) /\ Len(inbox) \in Nat
      /\ listeners \in Nat /\ logins \in Nat /\ listeners <= logins
      /\ listening \in BOOLEAN /\ signedIn \in BOOLEAN
  BY SeqFacts DEF TypeInv, TypeOK, Counted
<1>2. ASSUME Alone', Due' => Due, UNCHANGED <<signedIn, listening, listeners, logins>>
      PROVE  Counted' /\ listeners' \in 0 .. logins'
  BY <1>1, <1>2 DEF Counted
<1>3. ASSUME view' \in Docs, inbox' = inbox \o Events(view')
      PROVE  Alone' /\ (Due' => Due)
  <2>1. \A i \in 1 .. Len(inbox') :
          \/ i \in 1 .. Len(inbox) /\ inbox'[i] = inbox[i]
          \/ inbox'[i] = Event(ComputeDocumentChanges(view, view'))
    BY <1>1, <1>3, EmitFacts
  <2>2. QED
    BY <1>1, <2>1, EventsLoadNothing, NothingLoaded
<1>4. CASE ViewDidLoad
  <2>1. /\ inbox # <<>> /\ inbox[1].load /\ inbox' = Tail(inbox) /\ listening'
        /\ UNCHANGED <<signedIn, listeners, logins>>
    <3>1. inbox # <<>>
      BY <1>4 DEF ViewDidLoad
    <3>2. Head(inbox) = inbox[1]
      BY <1>1, <3>1, TailFacts
    <3>3. QED
      BY <1>4, <3>2 DEF ViewDidLoad, sdk, history
  <2>2. Alone' /\ ~ Due'
    BY <1>1, <2>1, LoadsLeft
  <2>3. Due
    <3>1. 1 \in 1 .. Len(inbox)
      BY <1>1, <2>1, TailFacts
    <3>2. QED
      BY <2>1, <3>1 DEF Due
  <2>4. QED
    BY <1>1, <2>1, <2>2, <2>3 DEF Counted
<1>5. CASE RunCallback
  <2>1. inbox # <<>> /\ inbox' = Tail(inbox) /\ UNCHANGED <<signedIn, listening, listeners, logins>>
    BY <1>5 DEF RunCallback, sdk, history
  <2>2. QED
    BY <1>1, <1>2, <2>1, LoadsLeft
<1>6. CASE ListenerAdded
  <2>1. /\ listening /\ ~ listening' /\ listeners' = listeners + 1
        /\ UNCHANGED <<signedIn, logins>>
        /\ \/ UNCHANGED inbox
           \/ /\ Len(inbox') = Len(inbox) + 1
              /\ inbox'[Len(inbox) + 1] = FirstEvent
              /\ \A i \in 1 .. Len(inbox) : inbox'[i] = inbox[i]
    BY <1>1, <1>6, ListenerFacts DEF sdk, history
  <2>2. \A i \in 1 .. Len(inbox) + 1 : i \in 1 .. Len(inbox) \/ i = Len(inbox) + 1
    BY <1>1
  <2>3. Alone' /\ (Due' => Due)
    BY <1>1, <2>1, <2>2, EventsLoadNothing, NothingLoaded
  <2>4. QED
    BY <1>1, <2>1, <2>3 DEF Counted
<1>7. CASE \E id \in Ids : \/ RegisterTapped(id) \/ DeleteTapped(id)
                           \/ \E t \in Tenants : AddNameToProperty(id, t)
  <2>1. ASSUME NEW w \in Write, WriteLocally(w)
        PROVE  Counted' /\ listeners' \in 0 .. logins'
    BY <1>1, <1>2, <1>3, <2>1, WriteFacts
  <2>2. QED
    BY <1>7, <2>1, ScreenWrites DEF RegisterTapped, DeleteTapped, AddNameToProperty
<1>8. CASE AcknowledgeBatch
  <2>1. UNCHANGED <<signedIn, listening, listeners, logins, inbox>>
    BY <1>8 DEF AcknowledgeBatch, history
  <2>2. Alone' /\ (Due' => Due)
    BY <1>1, <2>1 DEF Alone, Due
  <2>3. QED
    BY <1>2, <2>1, <2>2
<1>9. CASE RemoteEvent
  BY <1>1, <1>2, <1>3, <1>9, RemoteFacts
<1>10. CASE LogOut
  <2>1. /\ view' \in Docs /\ inbox' = inbox \o Events(view')
        /\ UNCHANGED <<listening, listeners, logins>>
    BY <1>1, <1>10, LogOutFacts DEF history
  <2>2. ~ Due
    BY <1>1, <1>10, SeqFacts DEF LogOut, Due
  <2>3. QED
    BY <1>1, <1>3, <2>1, <2>2 DEF Counted
<1>11. CASE LogIn
  <2>1. /\ ~ signedIn /\ signedIn' /\ logins' = logins + 1
        /\ UNCHANGED <<listening, listeners>>
    BY <1>1, <1>11, LogInFacts DEF LogIn
  <2>2. ~ Due
    BY <1>1, <2>1 DEF Counted
  <2>3. Alone'
    <3>1. inbox' = Append(inbox \o Events(view'), Load) /\ view' \in Docs
      BY <1>1, <1>11, LogInFacts DEF LogIn
    <3> DEFINE box == inbox \o Events(view')
    <3>2. /\ box \in Seq(Block)
          /\ \A i \in 1 .. Len(box) :
               \/ i \in 1 .. Len(inbox) /\ box[i] = inbox[i]
               \/ box[i] = Event(ComputeDocumentChanges(view, view'))
      BY <1>1, <3>1, EmitFacts
    <3>3. \A i \in 1 .. Len(box) : ~ box[i].load
      BY <1>1, <2>2, <3>2, EventsLoadNothing DEF Due
    <3>4. inbox' = Append(box, Load)
      BY <3>1
    <3> HIDE DEF box
    <3>5. /\ \A i \in 1 .. Len(box) : Append(box, Load)[i] = box[i]
          /\ \A i \in 1 .. Len(Append(box, Load)) : i \in 1 .. Len(box) \/ i = Len(box) + 1
      <4>1. Load \in Block
        BY EmptySeq DEF Load, Block
      <4>2. QED
        BY <3>2, <4>1, AppendFacts
    <3>6. \A i \in 1 .. Len(inbox') : inbox'[i].load => i = Len(box) + 1
      BY <3>3, <3>4, <3>5
    <3>7. QED
      BY <3>6 DEF Alone
  <2>4. QED
    BY <1>1, <2>1, <2>3 DEF Counted
<1>12. QED
  BY <1>4, <1>5, <1>6, <1>7, <1>8, <1>9, <1>10, <1>11 DEF Next

\* Every step keeps the types.
LEMMA TypeStep == TypeInv /\ [Next]_vars => TypeInv'
<1> SUFFICES ASSUME TypeInv, [Next]_vars PROVE TypeInv'
  OBVIOUS
<1>1. CASE UNCHANGED vars
  BY <1>1 DEF vars, sdk, lists, history, TypeInv, TypeOK, WellFormed, Counted, Alone, Due
<1>2. CASE Next
  <2>1. TypeOK
    BY DEF TypeInv
  <2>2. /\ base \in Docs /\ queue \in Seq(Write) /\ view \in Docs /\ listeners \in 0 .. logins
        /\ signedIn \in BOOLEAN /\ listening \in BOOLEAN /\ crashed \in BOOLEAN
        /\ properties \in Seq(Row) /\ tenantProperties \in Seq(Row)
        /\ registered \in SUBSET Ids /\ named \in SUBSET (Ids \X Tenants)
        /\ logins \in Nat /\ writes \in Nat /\ remote \in Nat
    BY <2>1 DEF TypeOK, Docs
  <2>3. inbox' \in Seq(Block) /\ view' \in Docs
    BY <1>2, BoxStep
  <2>4. WellFormed' /\ Counted' /\ listeners' \in 0 .. logins'
    BY <1>2, ChangesStep, CountStep DEF WellFormed
  <2>5. /\ base' \in Docs /\ queue' \in Seq(Write)
        /\ signedIn' \in BOOLEAN /\ listening' \in BOOLEAN /\ crashed' \in BOOLEAN
        /\ properties' \in Seq(Row) /\ tenantProperties' \in Seq(Row)
        /\ registered' \in SUBSET Ids /\ named' \in SUBSET (Ids \X Tenants)
        /\ logins' \in Nat /\ writes' \in Nat /\ remote' \in Nat
    <3>1. CASE ViewDidLoad
      <4>1. properties' \in Seq(Row) /\ tenantProperties' \in Seq(Row)
        BY <3>1, EmptySeq DEF ViewDidLoad
      <4>2. QED
        BY <2>2, <3>1, <4>1 DEF ViewDidLoad, sdk, history
    <3>2. CASE RunCallback
      <4>1. properties' \in Seq(Row) /\ tenantProperties' \in Seq(Row) /\ crashed' \in BOOLEAN
        BY <3>2, CallbackFacts DEF Lists
      <4>2. QED
        BY <2>2, <3>2, <4>1 DEF RunCallback, sdk, history
    <3>3. CASE ListenerAdded
      <4>1. listening' \in BOOLEAN /\ UNCHANGED <<sdk, lists, history>>
        BY <3>3 DEF ListenerAdded
      <4>2. QED
        BY <2>2, <4>1 DEF sdk, lists, history
    <3>4. CASE /\ \E w \in Write : WriteLocally(w)
                /\ registered' \in SUBSET Ids /\ named' \in SUBSET (Ids \X Tenants)
      <4>1. PICK w \in Write : WriteLocally(w)
        BY <3>4
      <4>2. registered' \in SUBSET Ids /\ named' \in SUBSET (Ids \X Tenants)
        BY <3>4
      <4>3. QED
        BY <2>1, <2>2, <4>1, <4>2, WriteFacts DEF lists
    <3>5. CASE \E id \in Ids : RegisterTapped(id)
      <4>1. PICK id \in Ids : RegisterTapped(id)
        BY <3>5
      <4>2. registered' \in SUBSET Ids /\ named' \in SUBSET (Ids \X Tenants)
        BY <2>2, <4>1 DEF RegisterTapped
      <4>3. \E w \in Write : WriteLocally(w)
        BY <4>1, ScreenWrites DEF RegisterTapped
      <4>4. QED
        BY <3>4, <4>2, <4>3
    <3>6. CASE \E id \in Ids : DeleteTapped(id)
      <4>1. PICK id \in Ids : DeleteTapped(id)
        BY <3>6
      <4>2. registered' \in SUBSET Ids /\ named' \in SUBSET (Ids \X Tenants)
        BY <2>2, <4>1 DEF DeleteTapped
      <4>3. \E w \in Write : WriteLocally(w)
        BY <4>1, ScreenWrites DEF DeleteTapped
      <4>4. QED
        BY <3>4, <4>2, <4>3
    <3>7. CASE \E id \in Ids : \E t \in Tenants : AddNameToProperty(id, t)
      <4>1. PICK id \in Ids : \E t \in Tenants : AddNameToProperty(id, t)
        BY <3>7
      <4>2. PICK t \in Tenants : AddNameToProperty(id, t)
        BY <4>1
      <4>3. registered' \in SUBSET Ids /\ named' \in SUBSET (Ids \X Tenants)
        BY <2>2, <4>2 DEF AddNameToProperty
      <4>4. \E w \in Write : WriteLocally(w)
        BY <4>2, ScreenWrites DEF AddNameToProperty
      <4>5. QED
        BY <3>4, <4>3, <4>4
    <3>8. CASE AcknowledgeBatch
      BY <2>1, <2>2, <3>8, AcknowledgeFacts DEF lists, history
    <3>9. CASE RemoteEvent
      <4>1. /\ base' \in Docs /\ named' \subseteq Ids \X Tenants
            /\ UNCHANGED <<queue, signedIn, listening, lists, logins, writes>>
        BY <2>1, <3>9, RemoteFacts
      <4>2. registered' \in SUBSET Ids /\ remote' \in Nat
        BY <2>1, <2>2, <3>9, RemoteFacts
      <4>3. QED
        BY <2>2, <4>1, <4>2 DEF lists
    <3>10. CASE LogOut
      BY <2>1, <2>2, <3>10, LogOutFacts DEF lists, history
    <3>11. CASE LogIn
      <4>1. /\ signedIn' = TRUE /\ logins' = logins + 1
            /\ UNCHANGED <<base, queue, listening, lists, registered, named, writes, remote>>
        BY <3>11 DEF LogIn
      <4>2. QED
        BY <2>2, <4>1 DEF lists
    <3>12. QED
      BY <1>2, <3>1, <3>2, <3>3, <3>5, <3>6, <3>7, <3>8, <3>9, <3>10, <3>11 DEF Next
  <2>6. QED
    BY <2>3, <2>4, <2>5 DEF TypeInv, TypeOK, Docs
<1>3. QED
  BY <1>1, <1>2

\* Nothing is known at first.
LEMMA TypeInit == Init => TypeInv
<1> SUFFICES ASSUME Init PROVE TypeInv
  OBVIOUS
<1>1. inbox = <<Load>> /\ Load \in Block /\ listening = FALSE /\ signedIn = TRUE /\ listeners = 0 /\ logins = 1
  BY EmptySeq DEF Init, Load, Block
<1>2. inbox \in Seq(Block) /\ Len(inbox) = 1 /\ inbox[1] = Load
  BY <1>1
<1>3. \A i \in 1 .. Len(inbox) : i = 1
  BY <1>2
<1>4. TypeOK
  <2>1. base \in Docs
    BY DEF Init, Docs
  <2>2. queue \in Seq(Write) /\ properties \in Seq(Row) /\ tenantProperties \in Seq(Row)
    BY EmptySeq DEF Init
  <2>3. /\ listeners \in 0 .. logins /\ view \in Docs
        /\ signedIn \in BOOLEAN /\ listening \in BOOLEAN /\ crashed \in BOOLEAN
    <3>1. view = base /\ crashed = FALSE /\ 0 \in 0 .. 1
      BY DEF Init
    <3>2. QED
      BY <1>1, <2>1, <3>1
  <2>4. registered \in SUBSET Ids /\ named \in SUBSET (Ids \X Tenants)
    BY DEF Init
  <2>5. logins \in Nat /\ writes \in Nat /\ remote \in Nat
    BY DEF Init
  <2>6. QED
    BY <1>2, <2>1, <2>2, <2>3, <2>4, <2>5 DEF TypeOK, Docs
<1>5. WellFormed
  <2>1. Load.changes = <<>> /\ Len(<<>>) = 0 /\ 1 .. 0 = {}
    BY EmptySeq DEF Load
  <2>2. QED
    BY <1>2, <1>3, <2>1 DEF WellFormed
<1>6. Counted
  BY <1>1, <1>3 DEF Counted, Alone
<1>7. QED
  BY <1>4, <1>5, <1>6 DEF TypeInv

\* The types always hold, and there are no more listeners than logins.
THEOREM ListsTypes == Spec => []TypeOK
<1>1. TypeInv => TypeOK
  BY DEF TypeInv
<1>2. QED
  BY <1>1, TypeInit, TypeStep, PTL DEF Spec

(***************************************************************************)
(* Names.  Every tenant's name, in the cache, in the view, in a pending    *)
(* write, in an event or in a row, was given to that property once.        *)
(***************************************************************************)
Given(ns, id, doc) == doc \in Doc /\ doc.name # NoName => <<id, doc.name>> \in ns

\* The names of documents, of pending writes and of rows.
DocsGiven(ns, d) == \A id \in Ids : Given(ns, id, d[id])
WritesGiven(ns, pending) ==
  \A i \in 1 .. Len(pending) :
    pending[i].op = "name" => <<pending[i].id, pending[i].name>> \in ns
RowsGiven(ns, rows) ==
  \A i \in 1 .. Len(rows) : rows[i].name # NoName => <<rows[i].id, rows[i].name>> \in ns

\* A write names what it says.
LEMMA WriteGives ==
  ASSUME NEW ns, NEW d \in Docs, NEW w \in Write, DocsGiven(ns, d),
         w.op = "name" => <<w.id, w.name>> \in ns
  PROVE  DocsGiven(ns, ApplyWrite(d, w))
<1>1. /\ w.id \in Ids
      /\ \A x \in Ids : x # w.id => ApplyWrite(d, w)[x] = d[x]
      /\ \/ ApplyWrite(d, w)[w.id] = None
         \/ ApplyWrite(d, w)[w.id] \in Doc /\ ApplyWrite(d, w)[w.id].name = NoName
         \/ w.op = "name" /\ ApplyWrite(d, w)[w.id].name = w.name
  BY ApplyWriteFacts
<1>2. Given(ns, w.id, ApplyWrite(d, w)[w.id])
  BY <1>1, ListsAssumption DEF Given
<1>3. ASSUME NEW x \in Ids PROVE Given(ns, x, ApplyWrite(d, w)[x])
  <2>1. CASE x = w.id
    BY <1>2, <2>1
  <2>2. CASE x # w.id
    BY <1>1, <2>2 DEF DocsGiven
  <2>3. QED
    BY <2>1, <2>2
<1>4. QED
  BY <1>3 DEF DocsGiven

\* What a device sees was named in its cache or by a pending write.
LEMMA ViewGiven ==
  ASSUME NEW ns, NEW d \in Docs, NEW pending \in Seq(Write),
         DocsGiven(ns, d), WritesGiven(ns, pending)
  PROVE  DocsGiven(ns, LocalView(d, pending))
<1> DEFINE N == Len(pending)
<1>1. N \in Nat /\ N \in 0 .. N /\ \A i \in 1 .. N : pending[i] \in Write
  <2>1. N \in Nat /\ \A i \in 1 .. N : pending[i] \in Write
    BY SeqFacts
  <2>2. QED
    BY <2>1
<1>2. PICK f \in Views(d, pending, N) : TRUE
  BY <1>1, ViewsExist
<1>3. /\ f \in [0 .. N -> Docs] /\ f[0] = d
      /\ \A i \in 1 .. N : f[i] = ApplyWrite(f[i - 1], pending[i])
  BY <1>2 DEF Views
<1>4. LocalView(d, pending) = f[N]
  BY <1>2, LocalViewIs
<1>5. \A i \in 1 .. N : pending[i].op = "name" => <<pending[i].id, pending[i].name>> \in ns
  BY DEF WritesGiven
<1> HIDE DEF N
<1> DEFINE bad == {n \in 0 .. N : (~ DocsGiven(ns, f[n]))}
<1>6. ASSUME bad # {} PROVE FALSE
  <2>1. bad \in SUBSET Nat
    BY <1>1
  <2>2. PICK n \in bad : \A m \in bad : ~ (m < n)
    BY <1>6, <2>1, LeastMember
  <2>3. n \in 0 .. N /\ ~ DocsGiven(ns, f[n])
    OBVIOUS
  <2>4. n # 0
    BY <1>3, <2>3
  <2>5. n \in 1 .. N /\ n - 1 \in 0 .. N /\ n - 1 < n
    BY <1>1, <2>3, <2>4
  <2>6. DocsGiven(ns, f[n - 1])
    BY <2>2, <2>5
  <2>7. DocsGiven(ns, ApplyWrite(f[n - 1], pending[n]))
    BY <1>1, <1>3, <1>5, <2>5, <2>6, WriteGives
  <2>8. QED
    BY <1>3, <2>3, <2>5, <2>7
<1>7. QED
  BY <1>1, <1>4, <1>6

\* The rows a change leaves name what the rows before or the change name.
LEMMA ChangeGives ==
  ASSUME NEW ns, NEW st \in Lists, NEW c \in Change, Fitting(c), Given(ns, c.id, c.doc),
         RowsGiven(ns, st.all), RowsGiven(ns, st.rented)
  PROVE  RowsGiven(ns, HandleChange(st, c).all) /\ RowsGiven(ns, HandleChange(st, c).rented)
<1>1. c.type \in {"removed", "added", "modified"}
  BY DEF Change
<1>2. st.all \in Seq(Row) /\ st.rented \in Seq(Row)
  BY DEF Lists
<1>3. ASSUME NEW rows \in Seq(Row), NEW row \in Row, RowsGiven(ns, rows),
             row.name # NoName => <<row.id, row.name>> \in ns
      PROVE  RowsGiven(ns, Append(rows, row))
  <2> DEFINE more == Append(rows, row)
  <2>1. /\ \A i \in 1 .. Len(rows) : more[i] = rows[i]
        /\ more[Len(rows) + 1] = row
        /\ \A i \in 1 .. Len(more) : i \in 1 .. Len(rows) \/ i = Len(rows) + 1
    BY AppendFacts
  <2> HIDE DEF more
  <2>2. RowsGiven(ns, more)
    BY <1>3, <2>1 DEF RowsGiven
  <2>3. QED
    BY <2>2 DEF more
<1>4. ASSUME NEW rows \in Seq(Row), RowsGiven(ns, rows), c.doc \in Doc
      PROVE  RowsGiven(ns, Renamed(rows, c))
  <2>1. /\ Len(Renamed(rows, c)) = Len(rows)
        /\ \A i \in 1 .. Len(rows) :
             /\ Renamed(rows, c)[i].id = rows[i].id
             /\ Renamed(rows, c)[i].name = IF rows[i].id = c.id THEN c.doc.name ELSE rows[i].name
    BY <1>4, RenamedFacts
  <2>2. c.doc.name # NoName => <<c.id, c.doc.name>> \in ns
    BY <1>4 DEF Given
  <2>3. ASSUME NEW i \in 1 .. Len(rows), Renamed(rows, c)[i].name # NoName
        PROVE  <<Renamed(rows, c)[i].id, Renamed(rows, c)[i].name>> \in ns
    <3>1. CASE rows[i].id = c.id
      BY <2>1, <2>2, <2>3, <3>1
    <3>2. CASE rows[i].id # c.id
      BY <1>4, <2>1, <2>3, <3>2 DEF RowsGiven
    <3>3. QED
      BY <3>1, <3>2
  <2>4. QED
    BY <2>1, <2>3 DEF RowsGiven
<1>5. ASSUME NEW rows \in Seq(Row), RowsGiven(ns, rows)
      PROVE  RowsGiven(ns, RemoveId(rows, c.id))
  <2>1. CASE RemoveId(rows, c.id) = rows
    BY <1>5, <2>1
  <2>2. CASE \E n \in 1 .. Len(rows) : Lacks(RemoveId(rows, c.id), rows, n)
    <3>1. \A i \in 1 .. Len(RemoveId(rows, c.id)) :
            \E k \in 1 .. Len(rows) : RemoveId(rows, c.id)[i] = rows[k]
      BY <2>2 DEF Lacks
    <3>2. QED
      BY <1>5, <3>1 DEF RowsGiven
  <2>3. QED
    BY <2>1, <2>2, RemoveIdFacts
<1>6. CASE st.status # "running"
  BY <1>6 DEF HandleChange
<1>7. CASE st.status = "running" /\ c.type = "removed"
  <2>1. /\ HandleChange(st, c).all = RemoveId(st.all, c.id)
        /\ HandleChange(st, c).rented = RemoveId(st.rented, c.id)
    BY <1>7, RemovedFacts DEF HandleChange
  <2>2. QED
    BY <1>2, <1>5, <2>1
<1>8. CASE st.status = "running" /\ c.type = "added"
  <2>1. HandleChange(st, c) = Added(st, c) /\ c.doc \in Doc
    BY <1>8 DEF HandleChange, Fitting
  <2>2. CASE Added(st, c).all = st.all /\ Added(st, c).rented = st.rented
    BY <2>1, <2>2
  <2>3. CASE \E row \in Row :
               /\ row.id = c.id /\ row.name = c.doc.name
               /\ Added(st, c).all = Append(st.all, row)
               /\ Added(st, c).rented = IF c.doc.name = NoName THEN st.rented
                                        ELSE Append(st.rented, row)
    <3>1. PICK row \in Row :
               /\ row.id = c.id /\ row.name = c.doc.name
               /\ Added(st, c).all = Append(st.all, row)
               /\ Added(st, c).rented = IF c.doc.name = NoName THEN st.rented
                                        ELSE Append(st.rented, row)
      BY <2>3
    <3>2. row.name # NoName => <<row.id, row.name>> \in ns
      BY <2>1, <3>1 DEF Given
    <3>3. RowsGiven(ns, Append(st.all, row)) /\ RowsGiven(ns, Append(st.rented, row))
      BY <1>2, <1>3, <3>2
    <3>4. QED
      BY <2>1, <3>1, <3>3
  <2>4. QED
    BY <2>1, <2>2, <2>3, AddedFacts
<1>9. CASE st.status = "running" /\ c.type = "modified"
  <2>1. HandleChange(st, c) = Modified(st, c) /\ c.doc \in Doc
    BY <1>9 DEF HandleChange, Fitting
  <2>2. CASE Modified(st, c).all = st.all /\ Modified(st, c).rented = st.rented
    BY <2>1, <2>2
  <2>3. CASE /\ Len(st.all) >= 1 /\ Modified(st, c).all = Renamed(st.all, c)
             /\ \/ Modified(st, c).rented = Renamed(st.rented, c)
                \/ \E row \in Row :
                     /\ Modified(st, c).rented = Append(st.rented, row)
                     /\ IF HasId(st.all, c.id) THEN row.id = c.id /\ row.name = c.doc.name
                        ELSE row = st.all[1]
    <3>1. RowsGiven(ns, Modified(st, c).all)
      BY <1>2, <1>4, <2>1, <2>3
    <3>2. CASE Modified(st, c).rented = Renamed(st.rented, c)
      BY <1>2, <1>4, <2>1, <3>1, <3>2
    <3>3. CASE \E row \in Row :
                 /\ Modified(st, c).rented = Append(st.rented, row)
                 /\ IF HasId(st.all, c.id) THEN row.id = c.id /\ row.name = c.doc.name
                    ELSE row = st.all[1]
      <4>1. PICK row \in Row :
                 /\ Modified(st, c).rented = Append(st.rented, row)
                 /\ IF HasId(st.all, c.id) THEN row.id = c.id /\ row.name = c.doc.name
                    ELSE row = st.all[1]
        BY <3>3
      <4>2. 1 \in 1 .. Len(st.all)
        BY <1>2, <2>3, LenProperties
      <4>3. row.name # NoName => <<row.id, row.name>> \in ns
        BY <2>1, <4>1, <4>2 DEF Given, RowsGiven
      <4>4. QED
        BY <1>2, <1>3, <2>1, <3>1, <4>1, <4>3
    <3>4. QED
      BY <2>3, <3>2, <3>3
  <2>4. QED
    BY <2>1, <2>2, <2>3, ModifiedFacts
<1>10. QED
  BY <1>1, <1>6, <1>7, <1>8, <1>9

\* So do the rows a whole event leaves.
LEMMA CallbackGives ==
  ASSUME NEW ns, NEW cs \in Seq(Change), Start \in Lists,
         \A k \in 1 .. Len(cs) : Fitting(cs[k]) /\ Given(ns, cs[k].id, cs[k].doc),
         RowsGiven(ns, properties), RowsGiven(ns, tenantProperties)
  PROVE  /\ RowsGiven(ns, HandleChanges(cs).all)
         /\ RowsGiven(ns, HandleChanges(cs).rented)
<1> DEFINE N == Len(cs)
           Right(st) == RowsGiven(ns, st.all) /\ RowsGiven(ns, st.rented)
<1>1. N \in Nat /\ N \in 0 .. N /\ \A i \in 1 .. N : cs[i] \in Change
  <2>1. N \in Nat /\ \A i \in 1 .. N : cs[i] \in Change
    BY SeqFacts
  <2>2. QED
    BY <2>1
<1>2. PICK f \in Runs(cs, N) : TRUE
  BY <1>1, RunsExist
<1>3. /\ f \in [0 .. N -> Lists] /\ f[0] = Start
      /\ \A i \in 1 .. N : f[i] = HandleChange(f[i - 1], cs[i])
  BY <1>2 DEF Runs
<1>4. HandleChanges(cs) = f[N]
  BY <1>2, HandledIs
<1>5. Right(Start)
  BY DEF Start
<1>6. \A k \in 1 .. N : Fitting(cs[k]) /\ Given(ns, cs[k].id, cs[k].doc)
  OBVIOUS
<1> HIDE DEF N
<1>7. ASSUME NEW i \in 1 .. N, Right(f[i - 1]), i - 1 \in 0 .. N PROVE Right(f[i])
  BY <1>1, <1>3, <1>6, <1>7, ChangeGives
<1> HIDE DEF Right
<1> DEFINE bad == {n \in 0 .. N : (~ Right(f[n]))}
<1>8. ASSUME bad # {} PROVE FALSE
  <2>1. bad \in SUBSET Nat
    BY <1>1
  <2>2. PICK n \in bad : \A m \in bad : ~ (m < n)
    BY <1>8, <2>1, LeastMember
  <2>3. n \in 0 .. N /\ ~ Right(f[n])
    OBVIOUS
  <2>4. n # 0
    BY <1>3, <1>5, <2>3
  <2>5. n \in 1 .. N /\ n - 1 \in 0 .. N /\ n - 1 < n
    BY <1>1, <2>3, <2>4
  <2>6. Right(f[n - 1])
    BY <2>2, <2>5
  <2>7. QED
    BY <1>7, <2>3, <2>5, <2>6
<1>9. Right(f[N])
  BY <1>1, <1>8
<1>10. QED
  BY <1>4, <1>9 DEF Right

\* Every tenant's name on the way was given.
BoxGiven(ns, box) ==
  \A i \in 1 .. Len(box) : \A k \in 1 .. Len(box[i].changes) :
    Given(ns, box[i].changes[k].id, box[i].changes[k].doc)

NamesInv ==
  /\ TypeInv
  /\ DocsGiven(named, base) /\ DocsGiven(named, view)
  /\ WritesGiven(named, queue)
  /\ BoxGiven(named, inbox)
  /\ RowsGiven(named, properties) /\ RowsGiven(named, tenantProperties)

\* The names ever given are never forgotten.
LEMMA GivenStays ==
  ASSUME NEW ns, NEW more, ns \subseteq more
  PROVE  /\ \A d : DocsGiven(ns, d) => DocsGiven(more, d)
         /\ \A pending : WritesGiven(ns, pending) => WritesGiven(more, pending)
         /\ \A rows : RowsGiven(ns, rows) => RowsGiven(more, rows)
         /\ \A box : BoxGiven(ns, box) => BoxGiven(more, box)
BY DEF DocsGiven, WritesGiven, RowsGiven, BoxGiven, Given

\* Blocks made of the views tell the names of the views.
LEMMA BoxGives ==
  ASSUME TypeInv, Next, NEW ns, DocsGiven(ns, view), DocsGiven(ns, view'),
         BoxGiven(ns, inbox)
  PROVE  BoxGiven(ns, inbox')
<1>1. ASSUME NEW i \in 1 .. Len(inbox'), NEW k \in 1 .. Len(inbox'[i].changes)
      PROVE  Given(ns, inbox'[i].changes[k].id, inbox'[i].changes[k].doc)
  <2>1. CASE \E j \in 1 .. Len(inbox) : k \in 1 .. Len(inbox[j].changes) /\ inbox'[i] = inbox[j]
    BY <2>1 DEF BoxGiven
  <2>2. CASE /\ inbox'[i].changes[k].id \in Ids
             /\ \/ inbox'[i].changes[k].doc = view[inbox'[i].changes[k].id]
                \/ inbox'[i].changes[k].doc = view'[inbox'[i].changes[k].id]
    BY <2>2 DEF DocsGiven
  <2>3. QED
    BY <2>1, <2>2, ChangesStep
<1>2. QED
  BY <1>1 DEF BoxGiven

\* A write of a screen gives the name it says.
LEMMA NamesWritten ==
  ASSUME NamesInv, NEW w \in Write, WriteLocally(w), named \subseteq named',
         w.op = "name" => <<w.id, w.name>> \in named'
  PROVE  /\ DocsGiven(named', base') /\ DocsGiven(named', view')
         /\ WritesGiven(named', queue') /\ UNCHANGED lists
<1>1. /\ TypeOK /\ base \in Docs /\ queue \in Seq(Write)
      /\ DocsGiven(named, base) /\ WritesGiven(named, queue)
  BY DEF NamesInv, TypeInv, TypeOK, Docs
<1>2. /\ queue' = Append(queue, w) /\ queue' \in Seq(Write)
      /\ view' = LocalView(base, queue') /\ UNCHANGED <<base, lists>>
  BY <1>1, WriteFacts
<1>3. DocsGiven(named', base') /\ WritesGiven(named', queue)
  BY <1>1, <1>2, GivenStays
<1>4. WritesGiven(named', queue')
  <2>1. /\ \A i \in 1 .. Len(queue) : queue'[i] = queue[i]
        /\ queue'[Len(queue) + 1] = w
        /\ \A i \in 1 .. Len(queue') : i \in 1 .. Len(queue) \/ i = Len(queue) + 1
    BY <1>1, <1>2, AppendFacts
  <2>2. QED
    BY <1>3, <2>1 DEF WritesGiven
<1>5. DocsGiven(named', view')
  BY <1>1, <1>2, <1>3, <1>4, ViewGiven
<1>6. QED
  BY <1>2, <1>3, <1>4, <1>5

\* What another device named was named.
LEMMA NamesElsewhere ==
  ASSUME NamesInv, RemoteEvent
  PROVE  named \subseteq named' /\ DocsGiven(named', base') /\ DocsGiven(named', view')
<1>1. /\ TypeOK /\ base \in Docs /\ queue \in Seq(Write)
      /\ DocsGiven(named, base) /\ WritesGiven(named, queue)
  BY DEF NamesInv, TypeInv, TypeOK, Docs
<1>2. PICK S \in SUBSET Ids : \E new \in [S -> Doc \cup {None}] :
        /\ named' = named \cup {<<id, new[id].name>> :
                      id \in {i \in S : new[i] # None /\ new[i].name # NoName}}
        /\ base' = [id \in Ids |-> IF id \in S THEN new[id] ELSE base[id]]
  BY <1>1, RemoteFacts
<1>3. PICK new \in [S -> Doc \cup {None}] :
        /\ named' = named \cup {<<id, new[id].name>> :
                      id \in {i \in S : new[i] # None /\ new[i].name # NoName}}
        /\ base' = [id \in Ids |-> IF id \in S THEN new[id] ELSE base[id]]
  BY <1>2
<1>4. named \subseteq named'
  BY <1>3
<1>5. DocsGiven(named', base) /\ WritesGiven(named', queue)
  BY <1>1, <1>4, GivenStays
<1>6. ASSUME NEW id \in Ids PROVE Given(named', id, base'[id])
  <2>1. CASE id \in S
    <3>1. base'[id] = new[id]
      BY <1>3, <2>1
    <3>2. new[id] # None /\ new[id].name # NoName => <<id, new[id].name>> \in named'
      BY <1>3, <2>1
    <3>3. QED
      BY <3>1, <3>2, ListsAssumption DEF Given
  <2>2. CASE id \notin S
    <3>1. base'[id] = base[id]
      BY <1>3, <2>2
    <3>2. QED
      BY <1>5, <3>1 DEF DocsGiven
  <2>3. QED
    BY <2>1, <2>2
<1>7. DocsGiven(named', base')
  BY <1>6 DEF DocsGiven
<1>8. /\ base' \in Docs
      /\ view' = (IF signedIn THEN LocalView(base', queue) ELSE base')
  BY <1>1, RemoteFacts
<1>9. DocsGiven(named', LocalView(base', queue))
  BY <1>1, <1>5, <1>7, <1>8, ViewGiven
<1>10. QED
  BY <1>4, <1>7, <1>8, <1>9

\* Every step of the worker queue and of the screens gives the names it uses.
LEMMA NamesStep == NamesInv /\ [Next]_vars => NamesInv'
<1> SUFFICES ASSUME NamesInv, [Next]_vars PROVE NamesInv'
  OBVIOUS
<1>1. CASE UNCHANGED vars
  <2>1. TypeInv'
    BY TypeStep DEF NamesInv
  <2>2. UNCHANGED <<named, base, view, queue, inbox, properties, tenantProperties>>
    BY <1>1 DEF vars, sdk, lists, history
  <2>3. QED
    BY <2>1, <2>2 DEF NamesInv
<1>2. CASE Next
  <2>1. /\ TypeInv /\ TypeOK /\ base \in Docs /\ queue \in Seq(Write)
        /\ DocsGiven(named, base) /\ DocsGiven(named, view) /\ WritesGiven(named, queue)
        /\ BoxGiven(named, inbox)
        /\ RowsGiven(named, properties) /\ RowsGiven(named, tenantProperties)
    BY DEF NamesInv, TypeInv, TypeOK, Docs
  <2>2. TypeInv'
    BY <2>1, TypeStep
  <2>3. SUFFICES /\ named \subseteq named'
                 /\ DocsGiven(named', base') /\ DocsGiven(named', view')
                 /\ WritesGiven(named', queue')
                 /\ RowsGiven(named', properties') /\ RowsGiven(named', tenantProperties')
    <3>1. BoxGiven(named', inbox) /\ DocsGiven(named', view)
      BY <2>1, <2>3, GivenStays
    <3>2. BoxGiven(named', inbox')
      BY <1>2, <2>1, <2>3, <3>1, BoxGives
    <3>3. QED
      BY <2>2, <2>3, <3>2 DEF NamesInv
  <2>4. CASE ViewDidLoad
    <3>1. UNCHANGED <<named, base, view, queue>> /\ properties' = <<>> /\ tenantProperties' = <<>>
      BY <2>4 DEF ViewDidLoad, sdk, history
    <3>2. RowsGiven(named', <<>>)
      <4>1. Len(<<>>) = 0 /\ 1 .. 0 = {}
        BY EmptySeq
      <4>2. QED
        BY <4>1 DEF RowsGiven
    <3>3. QED
      BY <2>1, <3>1, <3>2
  <2>5. CASE RunCallback
    <3> DEFINE cs == inbox[1].changes
    <3>1. /\ 1 \in 1 .. Len(inbox) /\ cs \in Seq(Change) /\ Start \in Lists
          /\ \A k \in 1 .. Len(cs) : Fitting(cs[k])
          /\ properties' = HandleChanges(cs).all
          /\ tenantProperties' = HandleChanges(cs).rented
          /\ UNCHANGED <<named, base, view, queue>>
      BY <2>1, <2>5, CallbackFacts DEF sdk, history
    <3>2. \A k \in 1 .. Len(cs) : Given(named, cs[k].id, cs[k].doc)
      BY <2>1, <3>1 DEF BoxGiven
    <3> HIDE DEF cs
    <3>3. RowsGiven(named, HandleChanges(cs).all) /\ RowsGiven(named, HandleChanges(cs).rented)
      BY <2>1, <3>1, <3>2, CallbackGives
    <3>4. QED
      BY <2>1, <3>1, <3>3
  <2>6. CASE ListenerAdded
    BY <2>1, <2>6 DEF ListenerAdded, sdk, lists, history
  <2>7. CASE /\ named \subseteq named'
             /\ \E w \in Write : /\ WriteLocally(w)
                                 /\ w.op = "name" => <<w.id, w.name>> \in named'
    <3>1. PICK w \in Write : WriteLocally(w) /\ (w.op = "name" => <<w.id, w.name>> \in named')
      BY <2>7
    <3>2. /\ DocsGiven(named', base') /\ DocsGiven(named', view')
          /\ WritesGiven(named', queue') /\ UNCHANGED lists
      BY <2>7, <3>1, NamesWritten
    <3>3. RowsGiven(named', properties) /\ RowsGiven(named', tenantProperties)
      BY <2>1, <2>7, GivenStays
    <3>4. QED
      BY <2>7, <3>2, <3>3 DEF lists
  <2>8. CASE \E id \in Ids : RegisterTapped(id)
    <3>1. PICK id \in Ids : RegisterTapped(id)
      BY <2>8
    <3> DEFINE w == [op |-> "register", id |-> id]
    <3>2. w \in Write /\ WriteLocally(w) /\ w.op # "name" /\ UNCHANGED named
      BY <3>1, ScreenWrites DEF RegisterTapped
    <3> HIDE DEF w
    <3>3. QED
      BY <2>7, <3>2
  <2>9. CASE \E id \in Ids : DeleteTapped(id)
    <3>1. PICK id \in Ids : DeleteTapped(id)
      BY <2>9
    <3> DEFINE w == [op |-> "delete", id |-> id]
    <3>2. w \in Write /\ WriteLocally(w) /\ w.op # "name" /\ UNCHANGED named
      BY <3>1, ScreenWrites DEF DeleteTapped
    <3> HIDE DEF w
    <3>3. QED
      BY <2>7, <3>2
  <2>10. CASE \E id \in Ids : \E t \in Tenants : AddNameToProperty(id, t)
    <3>1. PICK id \in Ids : \E t \in Tenants : AddNameToProperty(id, t)
      BY <2>10
    <3>2. PICK t \in Tenants : AddNameToProperty(id, t)
      BY <3>1
    <3> DEFINE w == [op |-> "name", id |-> id, name |-> t]
    <3>3. /\ w \in Write /\ WriteLocally(w) /\ w.id = id /\ w.name = t
          /\ named' = named \cup {<<id, t>>}
      BY <3>2, ScreenWrites DEF AddNameToProperty
    <3> HIDE DEF w
    <3>4. <<w.id, w.name>> \in named' /\ named \subseteq named'
      BY <3>3
    <3>5. QED
      BY <2>7, <3>3, <3>4
  <2>11. CASE AcknowledgeBatch
    <3>1. /\ queue[1] \in Write /\ 1 \in 1 .. Len(queue) /\ base' = ApplyWrite(base, queue[1])
          /\ \A i \in 1 .. Len(queue') : i + 1 \in 1 .. Len(queue) /\ queue'[i] = queue[i + 1]
          /\ UNCHANGED <<view, lists, history>>
      BY <2>1, <2>11, AcknowledgeFacts
    <3>2. DocsGiven(named, base')
      BY <2>1, <3>1, WriteGives DEF WritesGiven
    <3>3. WritesGiven(named, queue')
      BY <2>1, <3>1 DEF WritesGiven
    <3>4. QED
      BY <2>1, <3>1, <3>2, <3>3 DEF lists, history
  <2>12. CASE RemoteEvent
    <3>1. UNCHANGED <<queue, lists>>
      BY <2>1, <2>12, RemoteFacts
    <3>2. named \subseteq named' /\ DocsGiven(named', base') /\ DocsGiven(named', view')
      BY <2>12, NamesElsewhere
    <3>3. /\ WritesGiven(named', queue)
          /\ RowsGiven(named', properties) /\ RowsGiven(named', tenantProperties)
      BY <2>1, <3>2, GivenStays
    <3>4. QED
      BY <3>1, <3>2, <3>3 DEF lists
  <2>13. CASE LogOut
    <3>1. view' = base /\ UNCHANGED <<base, queue, lists, history>>
      BY <2>1, <2>13, LogOutFacts
    <3>2. QED
      BY <2>1, <3>1 DEF lists, history
  <2>14. CASE LogIn
    <3>1. view' = LocalView(base, queue) /\ UNCHANGED <<base, queue, lists, named>>
      BY <2>1, <2>14, LogInFacts
    <3>2. DocsGiven(named, view')
      BY <2>1, <3>1, ViewGiven
    <3>3. QED
      BY <2>1, <3>1, <3>2 DEF lists
  <2>15. QED
    BY <1>2, <2>4, <2>5, <2>6, <2>8, <2>9, <2>10, <2>11, <2>12, <2>13, <2>14 DEF Next
<1>3. QED
  BY <1>1, <1>2

\* No name is given at first.
LEMMA NamesInit == Init => NamesInv
<1> SUFFICES ASSUME Init PROVE NamesInv
  OBVIOUS
<1>1. TypeInv
  BY TypeInit
<1>2. Len(<<>>) = 0 /\ 1 .. 0 = {}
  BY EmptySeq
<1>3. DocsGiven(named, base) /\ view = base
  <2>1. \A id \in Ids : base[id] = None
    BY DEF Init
  <2>2. QED
    BY <2>1, ListsAssumption DEF Init, DocsGiven, Given
<1>4. WritesGiven(named, <<>>) /\ RowsGiven(named, <<>>)
  BY <1>2 DEF WritesGiven, RowsGiven
<1>5. BoxGiven(named, inbox)
  <2>1. inbox = <<Load>> /\ Len(inbox) = 1 /\ inbox[1] = Load /\ Load.changes = <<>>
    BY DEF Init, Load
  <2>2. \A i \in 1 .. Len(inbox) : i = 1
    BY <2>1
  <2>3. QED
    BY <1>2, <2>1, <2>2 DEF BoxGiven
<1>6. QED
  BY <1>1, <1>3, <1>4, <1>5 DEF NamesInv, Init

\* No list ever shows a tenant on a property the tenant was never named on.
THEOREM RowsTellTruth == Spec => []RowsAreTruthful
<1>1. NamesInv => RowsAreTruthful
  <2>1. SUFFICES ASSUME NamesInv, NEW rows \in {properties, tenantProperties},
                        NEW i \in DOMAIN rows, rows[i].name # NoName
                 PROVE  <<rows[i].id, rows[i].name>> \in named
    BY DEF RowsAreTruthful
  <2>2. rows \in Seq(Row) /\ RowsGiven(named, rows)
    BY <2>1 DEF NamesInv, TypeInv, TypeOK
  <2>3. DOMAIN rows = 1 .. Len(rows)
    BY <2>2, SeqFacts
  <2>4. QED
    BY <2>1, <2>2, <2>3 DEF RowsGiven
<1>2. QED
  BY <1>1, NamesInit, NamesStep, PTL DEF Spec

(***************************************************************************)
(* The first session.  Until the landlord logs out, or another device      *)
(* writes, the lists show a view of the past, and every event on the main  *)
(* queue leads from one view to the next, the last one being the view.     *)
(***************************************************************************)

\* rows shows the documents of ids, each once, under its name.
RowsOf(rows, d, ids) ==
  /\ \A i, j \in 1 .. Len(rows) : rows[i].id = rows[j].id => i = j
  /\ \A i \in 1 .. Len(rows) : rows[i].id \in ids /\ rows[i].name = d[rows[i].id].name
  /\ \A id \in ids : \E i \in 1 .. Len(rows) : rows[i].id = id

RentedOut(d) == {id \in Present(d) : d[id].name # NoName}

Show(all, rented, d) == RowsOf(all, d, Present(d)) /\ RowsOf(rented, d, RentedOut(d))

\* A property with a row is shown.
LEMMA HasRow ==
  ASSUME NEW rows \in Seq(Row), NEW d, NEW S, RowsOf(rows, d, S), NEW id
  PROVE  HasId(rows, id) <=> id \in S
<1>1. DOMAIN rows = 1 .. Len(rows)
  BY SeqFacts
<1>2. QED
  BY <1>1 DEF HasId, RowsOf

\* A new row.
LEMMA RowsAdded ==
  ASSUME NEW rows \in Seq(Row), NEW d, NEW e, NEW S, RowsOf(rows, d, S),
         NEW row \in Row, row.id \notin S, row.name = e[row.id].name,
         \A x \in S : e[x] = d[x]
  PROVE  RowsOf(Append(rows, row), e, S \cup {row.id})
<1> DEFINE more == Append(rows, row)
           n == Len(rows) + 1
<1>1. /\ Len(rows) \in Nat /\ Len(more) = n
      /\ \A i \in 1 .. Len(rows) : more[i] = rows[i]
      /\ more[n] = row
      /\ \A i \in 1 .. Len(more) : i \in 1 .. Len(rows) \/ i = n
  BY AppendFacts, LenProperties
<1>2. n \in 1 .. Len(more) /\ \A i \in 1 .. Len(rows) : i \in 1 .. Len(more)
  BY <1>1
<1> HIDE DEF more, n
<1>3. /\ \A i, j \in 1 .. Len(rows) : rows[i].id = rows[j].id => i = j
      /\ \A i \in 1 .. Len(rows) : rows[i].id \in S /\ rows[i].name = d[rows[i].id].name
      /\ \A id \in S : \E i \in 1 .. Len(rows) : rows[i].id = id
  BY DEF RowsOf
<1>4. \A i, j \in 1 .. Len(more) : more[i].id = more[j].id => i = j
  BY <1>1, <1>3
<1>5. \A i \in 1 .. Len(more) :
        more[i].id \in S \cup {row.id} /\ more[i].name = e[more[i].id].name
  BY <1>1, <1>3
<1>6. \A id \in S \cup {row.id} : \E i \in 1 .. Len(more) : more[i].id = id
  BY <1>1, <1>2, <1>3
<1>7. QED
  BY <1>4, <1>5, <1>6 DEF RowsOf, more

\* A row renamed.
LEMMA RowsRenamed ==
  ASSUME NEW rows \in Seq(Row), NEW d, NEW e, NEW S, RowsOf(rows, d, S),
         NEW c, c.doc \in Doc, e[c.id] = c.doc,
         \A x \in S : x # c.id => e[x] = d[x]
  PROVE  RowsOf(Renamed(rows, c), e, S)
<1> DEFINE s == Renamed(rows, c)
<1>1. /\ Len(s) = Len(rows)
      /\ \A i \in 1 .. Len(rows) :
           /\ s[i].id = rows[i].id
           /\ s[i].name = IF rows[i].id = c.id THEN c.doc.name ELSE rows[i].name
  BY RenamedFacts
<1> HIDE DEF s
<1>2. /\ \A i, j \in 1 .. Len(rows) : rows[i].id = rows[j].id => i = j
      /\ \A i \in 1 .. Len(rows) : rows[i].id \in S /\ rows[i].name = d[rows[i].id].name
      /\ \A id \in S : \E i \in 1 .. Len(rows) : rows[i].id = id
  BY DEF RowsOf
<1>3. ASSUME NEW i \in 1 .. Len(s) PROVE s[i].id \in S /\ s[i].name = e[s[i].id].name
  <2>1. CASE rows[i].id = c.id
    BY <1>1, <1>2, <2>1
  <2>2. CASE rows[i].id # c.id
    BY <1>1, <1>2, <2>2
  <2>3. QED
    BY <2>1, <2>2
<1>4. QED
  BY <1>1, <1>2, <1>3 DEF RowsOf, s

\* A row removed.
LEMMA RowsRemoved ==
  ASSUME NEW rows \in Seq(Row), NEW d, NEW e, NEW S, RowsOf(rows, d, S), NEW id,
         \A x \in S : x # id => e[x] = d[x]
  PROVE  RowsOf(RemoveId(rows, id), e, S \ {id})
<1> DEFINE t == RemoveId(rows, id)
<1>1. /\ \A i, j \in 1 .. Len(rows) : rows[i].id = rows[j].id => i = j
      /\ \A i \in 1 .. Len(rows) : rows[i].id \in S /\ rows[i].name = d[rows[i].id].name
      /\ \A x \in S : \E i \in 1 .. Len(rows) : rows[i].id = x
  BY DEF RowsOf
<1>2. CASE ~ HasId(rows, id)
  <2>1. id \notin S
    BY <1>2, HasRow
  <2>2. t = rows
    BY <1>2, RemoveIdFacts
  <2>3. \A i \in 1 .. Len(rows) : rows[i].id \in S \ {id} /\ rows[i].name = e[rows[i].id].name
    BY <1>1, <2>1
  <2>4. QED
    BY <1>1, <2>2, <2>3 DEF RowsOf
<1>3. CASE HasId(rows, id)
  <2>1. PICK n \in 1 .. Len(rows) : rows[n].id = id /\ Lacks(t, rows, n)
    BY <1>3, RemoveIdFacts
  <2> HIDE DEF t
  <2>2. /\ \A i \in 1 .. Len(t) : \E k \in 1 .. Len(rows) : k # n /\ t[i] = rows[k]
        /\ \A k \in 1 .. Len(rows) : k # n => \E i \in 1 .. Len(t) : t[i] = rows[k]
    BY <2>1 DEF Lacks
  <2>3. \A i, j \in 1 .. Len(t) : t[i] = t[j] => i = j
    <3>1. \A i, j \in 1 .. Len(rows) : rows[i] = rows[j] => i = j
      BY <1>1
    <3>2. QED
      BY <2>1, <3>1 DEF Lacks
  <2>4. ASSUME NEW i \in 1 .. Len(t), NEW j \in 1 .. Len(t), t[i].id = t[j].id
        PROVE  i = j
    <3>1. PICK k \in 1 .. Len(rows) : t[i] = rows[k]
      BY <2>2
    <3>2. PICK l \in 1 .. Len(rows) : t[j] = rows[l]
      BY <2>2
    <3>3. k = l
      BY <1>1, <2>4, <3>1, <3>2
    <3>4. QED
      BY <2>3, <3>1, <3>2, <3>3
  <2>5. ASSUME NEW i \in 1 .. Len(t)
        PROVE  t[i].id \in S \ {id} /\ t[i].name = e[t[i].id].name
    <3>1. PICK k \in 1 .. Len(rows) : k # n /\ t[i] = rows[k]
      BY <2>2
    <3>2. rows[k].id \in S /\ rows[k].id # id /\ rows[k].name = d[rows[k].id].name
      BY <1>1, <2>1, <3>1
    <3>3. QED
      BY <3>1, <3>2
  <2>6. ASSUME NEW x \in S \ {id} PROVE \E i \in 1 .. Len(t) : t[i].id = x
    <3>1. PICK k \in 1 .. Len(rows) : rows[k].id = x
      BY <1>1
    <3>2. k # n
      BY <2>1, <3>1
    <3>3. QED
      BY <2>2, <3>1, <3>2
  <2>7. QED
    BY <2>4, <2>5, <2>6 DEF RowsOf, t
<1>4. QED
  BY <1>2, <1>3

\* A change keeps the lists up with the documents, or the process dies.
LEMMA OneChange ==
  ASSUME NEW st \in Lists, NEW c \in Change, Fitting(c), st.status = "running",
         NEW d \in Docs, NEW e \in Docs, Fits(c, d, e),
         \A x \in Ids : x # c.id => e[x] = d[x],
         Show(st.all, st.rented, d)
  PROVE  \/ HandleChange(st, c).status = "crashed"
         \/ /\ Show(HandleChange(st, c).all, HandleChange(st, c).rented, e)
            /\ HandleChange(st, c).status = "running" \/ c.type = "removed"
<1> DEFINE id == c.id
<1>1. /\ id \in Ids /\ c.doc = e[id] /\ st.all \in Seq(Row) /\ st.rented \in Seq(Row)
      /\ \/ c.type = "removed" /\ d[id] # None /\ e[id] = None
         \/ c.type = "added" /\ d[id] = None /\ e[id] # None
         \/ c.type = "modified" /\ d[id] # None /\ e[id] # None
  BY DEF Fits, Lists
<1>2. RowsOf(st.all, d, Present(d)) /\ RowsOf(st.rented, d, RentedOut(d))
  BY DEF Show
<1>3. \A x \in Ids : x # id => e[x] = d[x]
  OBVIOUS
<1>4. /\ \A x \in Present(d) : x # id => e[x] = d[x]
      /\ \A x \in RentedOut(d) : x # id => e[x] = d[x]
      /\ RentedOut(d) \subseteq Present(d)
  BY DEF Present, RentedOut
<1> HIDE DEF id
<1>5. CASE c.type = "removed"
  <2>1. Present(e) = Present(d) \ {id} /\ RentedOut(e) = RentedOut(d) \ {id}
    BY <1>1, <1>3, <1>5 DEF Present, RentedOut
  <2>2. /\ HandleChange(st, c).all = RemoveId(st.all, id)
        /\ HandleChange(st, c).rented = RemoveId(st.rented, id)
    BY <1>5, RemovedFacts DEF HandleChange, id
  <2>3. RowsOf(RemoveId(st.all, id), e, Present(e))
    BY <1>1, <1>2, <1>4, <2>1, RowsRemoved
  <2>4. RowsOf(RemoveId(st.rented, id), e, RentedOut(e))
    BY <1>1, <1>2, <1>4, <2>1, RowsRemoved
  <2>5. QED
    BY <1>5, <2>2, <2>3, <2>4 DEF Show
<1>6. CASE c.type = "added"
  <2>1. HandleChange(st, c) = Added(st, c) /\ c.doc \in Doc
    BY <1>6 DEF HandleChange, Fitting
  <2>2. CASE Added(st, c).status = "crashed"
    BY <2>1, <2>2
  <2>3. CASE \E row \in Row :
               /\ row.id = c.id /\ row.name = c.doc.name
               /\ Added(st, c).status = st.status
               /\ Added(st, c).all = Append(st.all, row)
               /\ Added(st, c).rented = IF c.doc.name = NoName THEN st.rented
                                        ELSE Append(st.rented, row)
    <3>1. PICK row \in Row :
               /\ row.id = c.id /\ row.name = c.doc.name
               /\ Added(st, c).status = st.status
               /\ Added(st, c).all = Append(st.all, row)
               /\ Added(st, c).rented = IF c.doc.name = NoName THEN st.rented
                                        ELSE Append(st.rented, row)
      BY <2>3
    <3>2. row.id = id /\ row.name = e[id].name
      BY <1>1, <3>1 DEF id
    <3>3. id \notin Present(d) /\ id \notin RentedOut(d)
      BY <1>1, <1>6 DEF Present, RentedOut
    <3>4. Present(e) = Present(d) \cup {id}
      BY <1>1, <1>3, <1>6 DEF Present
    <3>5. RowsOf(Append(st.all, row), e, Present(e))
      BY <1>1, <1>2, <1>4, <3>2, <3>3, <3>4, RowsAdded
    <3>6. RowsOf(Added(st, c).rented, e, RentedOut(e))
      <4>1. CASE c.doc.name = NoName
        <5>1. RentedOut(e) = RentedOut(d)
          BY <1>1, <1>3, <1>6, <4>1 DEF RentedOut, Present
        <5>2. RowsOf(st.rented, e, RentedOut(d))
          BY <1>2, <1>4, <3>3 DEF RowsOf
        <5>3. QED
          BY <3>1, <4>1, <5>1, <5>2
      <4>2. CASE c.doc.name # NoName
        <5>1. RentedOut(e) = RentedOut(d) \cup {id}
          BY <1>1, <1>3, <1>6, <4>2 DEF RentedOut, Present
        <5>2. RowsOf(Append(st.rented, row), e, RentedOut(e))
          BY <1>1, <1>2, <1>4, <3>2, <3>3, <5>1, RowsAdded
        <5>3. QED
          BY <3>1, <4>2, <5>2
      <4>3. QED
        BY <4>1, <4>2
    <3>7. QED
      BY <2>1, <3>1, <3>5, <3>6 DEF Show
  <2>4. QED
    BY <2>1, <2>2, <2>3, AddedFacts
<1>7. CASE c.type = "modified"
  <2>1. HandleChange(st, c) = Modified(st, c) /\ c.doc \in Doc
    BY <1>7 DEF HandleChange, Fitting
  <2>2. CASE Modified(st, c).status = "crashed"
    BY <2>1, <2>2
  <2>3. CASE /\ c.doc.name # NoName
             /\ Modified(st, c).status = st.status
             /\ Modified(st, c).all = Renamed(st.all, c)
             /\ \/ HasId(st.rented, c.id) /\ Modified(st, c).rented = Renamed(st.rented, c)
                \/ /\ ~ HasId(st.rented, c.id)
                   /\ \E row \in Row :
                        /\ Modified(st, c).rented = Append(st.rented, row)
                        /\ IF HasId(st.all, c.id) THEN row.id = c.id /\ row.name = c.doc.name
                           ELSE row = st.all[1]
    <3>1. Present(e) = Present(d) /\ id \in Present(d)
      BY <1>1, <1>3, <1>7 DEF Present
    <3>2. RowsOf(Renamed(st.all, c), e, Present(e))
      BY <1>1, <1>2, <1>4, <2>1, <3>1, RowsRenamed DEF id
    <3>3. e[id].name # NoName
      BY <1>1, <2>3
    <3>4. RowsOf(Modified(st, c).rented, e, RentedOut(e))
      <4>1. CASE HasId(st.rented, id)
        <5>1. id \in RentedOut(d)
          BY <1>1, <1>2, <4>1, HasRow
        <5>2. RentedOut(e) = RentedOut(d)
          BY <1>4, <3>1, <3>3, <5>1 DEF RentedOut
        <5>3. RowsOf(Renamed(st.rented, c), e, RentedOut(e))
          BY <1>1, <1>2, <1>4, <2>1, <5>2, RowsRenamed DEF id
        <5>4. QED
          BY <2>3, <4>1, <5>3 DEF id
      <4>2. CASE ~ HasId(st.rented, id)
        <5>1. id \notin RentedOut(d) /\ HasId(st.all, id)
          BY <1>1, <1>2, <3>1, <4>2, HasRow
        <5>2. PICK row \in Row : /\ Modified(st, c).rented = Append(st.rented, row)
                                 /\ row.id = id /\ row.name = c.doc.name
          BY <2>3, <4>2, <5>1 DEF id
        <5>3. RentedOut(e) = RentedOut(d) \cup {id}
          BY <1>4, <3>1, <3>3 DEF RentedOut
        <5>4. row.name = e[id].name
          BY <1>1, <5>2
        <5>5. RowsOf(Append(st.rented, row), e, RentedOut(e))
          BY <1>1, <1>2, <1>4, <5>1, <5>2, <5>3, <5>4, RowsAdded
        <5>6. QED
          BY <5>2, <5>5
      <4>3. QED
        BY <4>1, <4>2
    <3>5. QED
      BY <2>1, <2>3, <3>2, <3>4 DEF Show
  <2>4. QED
    BY <2>1, <2>2, <2>3, ModifiedFacts
<1>8. QED
  BY <1>1, <1>5, <1>6, <1>7

\* One change for each document of S.
OnceEach(cs, S) ==
  /\ \A i \in 1 .. Len(cs) : cs[i].id \in S
  /\ \A i, j \in 1 .. Len(cs) : cs[i].id = cs[j].id => i = j
  /\ \A x \in S : \E i \in 1 .. Len(cs) : cs[i].id = x

\* Changes of different documents, one after the other.
LEMMA OnceJoined ==
  ASSUME NEW S, NEW T, S \cap T = {}, NEW s \in Seq(Change), NEW t \in Seq(Change),
         OnceEach(s, S), OnceEach(t, T)
  PROVE  s \o t \in Seq(Change) /\ OnceEach(s \o t, S \cup T)
<1> DEFINE st == s \o t
           n == Len(s)
<1>1. /\ st \in Seq(Change) /\ n \in Nat /\ Len(t) \in Nat
      /\ \A i \in 1 .. n : i \in 1 .. Len(st) /\ st[i] = s[i]
      /\ \A i \in 1 .. Len(t) : n + i \in 1 .. Len(st) /\ st[n + i] = t[i]
      /\ \A i \in 1 .. Len(st) : i \in 1 .. n \/ i - n \in 1 .. Len(t)
  BY ConcatFacts, LenProperties
<1>2. /\ \A i \in 1 .. n : s[i].id \in S
      /\ \A i, j \in 1 .. n : s[i].id = s[j].id => i = j
      /\ \A x \in S : \E i \in 1 .. n : s[i].id = x
      /\ \A i \in 1 .. Len(t) : t[i].id \in T
      /\ \A i, j \in 1 .. Len(t) : t[i].id = t[j].id => i = j
      /\ \A x \in T : \E i \in 1 .. Len(t) : t[i].id = x
  BY DEF OnceEach
<1> HIDE DEF st, n
<1>3. ASSUME NEW i \in 1 .. Len(st)
      PROVE  \/ i \in 1 .. n /\ st[i] = s[i] /\ st[i].id \in S
             \/ i - n \in 1 .. Len(t) /\ st[i] = t[i - n] /\ st[i].id \in T
  <2>1. CASE i \in 1 .. n
    BY <1>1, <1>2, <2>1
  <2>2. CASE i - n \in 1 .. Len(t)
    <3> DEFINE k == i - n
    <3>1. i \in Int /\ n + k = i /\ k \in 1 .. Len(t)
      BY <1>1, <2>2
    <3> HIDE DEF k
    <3>2. st[i] = t[k] /\ st[i].id \in T
      BY <1>1, <1>2, <3>1
    <3>3. QED
      BY <2>2, <3>2 DEF k
  <2>3. QED
    BY <1>1, <2>1, <2>2
<1>4. ASSUME NEW i \in 1 .. Len(st), NEW j \in 1 .. Len(st), st[i].id = st[j].id
      PROVE  i = j
  <2>1. CASE i \in 1 .. n /\ st[i] = s[i] /\ st[i].id \in S
    <3>1. j \in 1 .. n /\ st[j] = s[j]
      BY <1>3, <1>4, <2>1
    <3>2. QED
      BY <1>2, <1>4, <2>1, <3>1
  <2>2. CASE i - n \in 1 .. Len(t) /\ st[i] = t[i - n] /\ st[i].id \in T
    <3>1. j - n \in 1 .. Len(t) /\ st[j] = t[j - n]
      BY <1>3, <1>4, <2>2
    <3>2. i - n = j - n
      BY <1>2, <1>4, <2>2, <3>1
    <3>3. QED
      BY <1>1, <3>2
  <2>3. QED
    BY <1>3, <2>1, <2>2
<1>5. ASSUME NEW x \in S \cup T PROVE \E i \in 1 .. Len(st) : st[i].id = x
  <2>1. CASE x \in S
    BY <1>1, <1>2, <2>1
  <2>2. CASE x \in T
    <3>1. PICK k \in 1 .. Len(t) : t[k].id = x
      BY <1>2, <2>2
    <3>2. QED
      BY <1>1, <3>1
  <2>3. QED
    BY <2>1, <2>2
<1>6. \A i \in 1 .. Len(st) : st[i].id \in S \cup T
  BY <1>3
<1>7. QED
  BY <1>1, <1>4, <1>5, <1>6 DEF OnceEach, st

\* The changes of one kind are one for each of their documents.
LEMMA KindOnce ==
  ASSUME NEW type \in {"removed", "added", "modified"}, NEW S \in SUBSET Ids, NEW d \in Docs
  PROVE  ChangesOf(type, S, d) \in Seq(Change) /\ OnceEach(ChangesOf(type, S, d), S)
<1>1. Changes(ChangesOf(type, S, d), type, S, d)
  BY ChangesOfFacts
<1>2. QED
  BY <1>1 DEF Changes, OnceEach

\* A snapshot has one change for each document that differs.
LEMMA ComputedOnce ==
  ASSUME NEW old \in Docs, NEW new \in Docs
  PROVE  OnceEach(ComputeDocumentChanges(old, new), {id \in Ids : old[id] # new[id]})
<1> DEFINE gone == Present(old) \ Present(new)
           come == Present(new) \ Present(old)
           both == {id \in Present(old) \cap Present(new) : (old[id] # new[id])}
           a == ChangesOf("removed", gone, new)
           b == ChangesOf("added", come, new)
           c == ChangesOf("modified", both, new)
<1>1. /\ gone \in SUBSET Ids /\ come \in SUBSET Ids /\ both \in SUBSET Ids
      /\ gone \cap come = {} /\ (gone \cup come) \cap both = {}
      /\ (gone \cup come) \cup both = {id \in Ids : old[id] # new[id]}
  BY DEF Present
<1> HIDE DEF gone, come, both
<1>2. /\ a \in Seq(Change) /\ OnceEach(a, gone)
      /\ b \in Seq(Change) /\ OnceEach(b, come)
      /\ c \in Seq(Change) /\ OnceEach(c, both)
  BY <1>1, KindOnce
<1> HIDE DEF a, b, c
<1>3. a \o b \in Seq(Change) /\ OnceEach(a \o b, gone \cup come)
  BY <1>1, <1>2, OnceJoined
<1>4. OnceEach((a \o b) \o c, (gone \cup come) \cup both)
  BY <1>1, <1>2, <1>3, OnceJoined
<1>5. ComputeDocumentChanges(old, new) = (a \o b) \o c
  BY DEF ComputeDocumentChanges, a, b, c, gone, come, both
<1>6. QED
  BY <1>1, <1>4, <1>5

\* Without changes nothing differs.
LEMMA Unchanged ==
  ASSUME NEW old \in Docs, NEW new \in Docs, ComputeDocumentChanges(old, new) = <<>>
  PROVE  new = old
<1>1. OnceEach(<<>>, {id \in Ids : old[id] # new[id]})
  BY ComputedOnce
<1>2. Len(<<>>) = 0 /\ 1 .. 0 = {}
  BY EmptySeq
<1>3. \A id \in Ids : old[id] = new[id]
  BY <1>1, <1>2 DEF OnceEach
<1>4. QED
  BY <1>3 DEF Docs

\* No documents at all.
Nothing == [id \in Ids |-> None]

\* An event tells all the documents there are, or of one document.
Leads(old, new) ==
  \/ old = Nothing
  \/ \E id \in Ids : \A x \in Ids : x # id => new[x] = old[x]

\* Such an event takes the lists from one view to the next.
LEMMA OneEvent ==
  ASSUME Start \in Lists, NEW old \in Docs, NEW new \in Docs, Leads(old, new),
         Show(properties, tenantProperties, old),
         NEW cs, cs = ComputeDocumentChanges(old, new)
  PROVE  \/ HandleChanges(cs).status = "crashed"
         \/ Show(HandleChanges(cs).all, HandleChanges(cs).rented, new)
<1> DEFINE N == Len(cs)
           S == {id \in Ids : (old[id] # new[id])}
           Seen(n) == {id \in Ids : (\E k \in 1 .. n : cs[k].id = id)}
           d(n) == [id \in Ids |-> IF id \in Seen(n) THEN new[id] ELSE old[id]]
           Right(n, st) == \/ st.status = "crashed"
                           \/ /\ Show(st.all, st.rented, d(n))
                              /\ n < N => st.status = "running"
<1>1. /\ cs \in Seq(Change)
      /\ \A k \in 1 .. N : Fits(cs[k], old, new) /\ Fitting(cs[k])
      /\ OnceEach(cs, S)
  BY ComputedFacts, ComputedOnce
<1>2. N \in Nat /\ N \in 0 .. N /\ \A k \in 1 .. N : cs[k] \in Change
  <2>1. N \in Nat /\ \A k \in 1 .. N : cs[k] \in Change
    BY <1>1, SeqFacts
  <2>2. QED
    BY <2>1
<1>3. PICK f \in Runs(cs, N) : TRUE
  BY <1>1, <1>2, RunsExist
<1>4. /\ f \in [0 .. N -> Lists] /\ f[0] = Start
      /\ \A i \in 1 .. N : f[i] = HandleChange(f[i - 1], cs[i])
  BY <1>3 DEF Runs
<1>5. HandleChanges(cs) = f[N]
  BY <1>1, <1>3, HandledIs
<1>6. /\ \A i \in 1 .. N : cs[i].id \in S
      /\ \A i, j \in 1 .. N : cs[i].id = cs[j].id => i = j
      /\ \A x \in S : \E i \in 1 .. N : cs[i].id = x
  BY <1>1 DEF OnceEach
<1> HIDE DEF N
<1>7. \A n : d(n) \in Docs
  BY DEF Docs
<1>8. d(0) = old
  <2>1. Seen(0) = {}
    OBVIOUS
  <2>2. \A id \in Ids : d(0)[id] = old[id]
    BY <2>1
  <2>3. QED
    BY <1>7, <2>2 DEF Docs
<1>9. d(N) = new
  <2>1. \A id \in Ids : d(N)[id] = new[id]
    BY <1>6
  <2>2. QED
    BY <1>7, <2>1 DEF Docs
<1>10. ASSUME NEW n \in 1 .. N
       PROVE  /\ Fits(cs[n], d(n - 1), d(n))
              /\ \A x \in Ids : x # cs[n].id => d(n)[x] = d(n - 1)[x]
  <2>1. \A k \in 1 .. n - 1 : k \in 1 .. N /\ k # n /\ k \in 1 .. n
    BY <1>2
  <2>2. \A k \in 1 .. n : k = n \/ k \in 1 .. n - 1
    BY <1>2
  <2>3. n \in 1 .. n
    BY <1>2
  <2>4. cs[n].id \notin Seen(n - 1)
    BY <1>6, <2>1
  <2>5. Seen(n) = Seen(n - 1) \cup {cs[n].id}
    <3>1. cs[n].id \in Ids
      BY <1>1 DEF Fits, N
    <3>2. QED
      BY <2>1, <2>2, <2>3, <3>1
  <2>6. Fits(cs[n], old, new)
    BY <1>1 DEF N
  <2> HIDE DEF Seen
  <2>7. cs[n].id \in Ids
    BY <2>6 DEF Fits
  <2>8. d(n - 1)[cs[n].id] = old[cs[n].id] /\ d(n)[cs[n].id] = new[cs[n].id]
    BY <2>4, <2>5, <2>7
  <2>9. \A x \in Ids : x # cs[n].id => d(n)[x] = d(n - 1)[x]
    BY <2>5
  <2> HIDE DEF d
  <2>10. QED
    BY <2>6, <2>8, <2>9 DEF Fits
<1>11. ASSUME NEW n \in 1 .. N, cs[n].type = "removed" PROVE n = N
  <2>1. old[cs[n].id] # None /\ cs[n].id \in Ids
    BY <1>1, <1>11 DEF Fits, N
  <2>2. old # Nothing
    BY <2>1 DEF Nothing
  <2>3. PICK id \in Ids : \A x \in Ids : x # id => new[x] = old[x]
    BY <2>2 DEF Leads
  <2>4. N \in 1 .. N
    BY <1>2
  <2>5. cs[n].id = id /\ cs[N].id = id
    BY <1>6, <2>3, <2>4
  <2>6. QED
    BY <1>6, <2>4, <2>5
<1>12. Right(0, f[0])
  BY <1>4, <1>8 DEF Start
<1> HIDE DEF d
<1>13. ASSUME NEW n \in 1 .. N, n - 1 \in 0 .. N, Right(n - 1, f[n - 1]) PROVE Right(n, f[n])
  <2>1. f[n - 1] \in Lists /\ f[n] = HandleChange(f[n - 1], cs[n])
    BY <1>4, <1>13
  <2>2. CASE f[n - 1].status = "crashed"
    <3>1. f[n] = f[n - 1]
      BY <2>1, <2>2 DEF HandleChange
    <3>2. QED
      BY <2>2, <3>1
  <2>3. CASE f[n - 1].status # "crashed"
    <3>1. n - 1 < N
      BY <1>2
    <3>2. Show(f[n - 1].all, f[n - 1].rented, d(n - 1)) /\ f[n - 1].status = "running"
      BY <1>13, <2>3, <3>1
    <3>3. cs[n] \in Change /\ Fitting(cs[n])
      BY <1>1, <1>2 DEF N
    <3>4. \/ HandleChange(f[n - 1], cs[n]).status = "crashed"
          \/ /\ Show(HandleChange(f[n - 1], cs[n]).all, HandleChange(f[n - 1], cs[n]).rented, d(n))
             /\ HandleChange(f[n - 1], cs[n]).status = "running" \/ cs[n].type = "removed"
      BY <1>7, <1>10, <2>1, <3>2, <3>3, OneChange
    <3>5. n < N => cs[n].type # "removed"
      BY <1>2, <1>11
    <3>6. QED
      BY <2>1, <3>4, <3>5
  <2>4. QED
    BY <2>2, <2>3
<1> HIDE DEF Right
<1> DEFINE bad == {n \in 0 .. N : (~ Right(n, f[n]))}
<1>14. ASSUME bad # {} PROVE FALSE
  <2>1. bad \in SUBSET Nat
    BY <1>2
  <2>2. PICK n \in bad : \A m \in bad : ~ (m < n)
    BY <1>14, <2>1, LeastMember
  <2>3. n \in 0 .. N /\ ~ Right(n, f[n])
    OBVIOUS
  <2>4. n # 0
    BY <1>12, <2>3
  <2>5. n \in 1 .. N /\ n - 1 \in 0 .. N /\ n - 1 < n
    BY <1>2, <2>3, <2>4
  <2>6. Right(n - 1, f[n - 1])
    BY <2>2, <2>5
  <2>7. QED
    BY <1>13, <2>3, <2>5, <2>6
<1>15. Right(N, f[N])
  BY <1>2, <1>14
<1>16. QED
  BY <1>5, <1>9, <1>15 DEF Right

\* v holds the view the lists show and the view after each event under way.
Accounts(v, box, d, all, rented) ==
  /\ v[Len(box)] = d
  /\ Show(all, rented, v[0])
  /\ \A k \in 1 .. Len(box) :
       /\ ~ box[k].load
       /\ box[k].changes = ComputeDocumentChanges(v[k - 1], v[k])
       /\ Leads(v[k - 1], v[k])

FirstSession == signedIn /\ ~ crashed /\ logins = 1 /\ remote = 0

\* Nothing is shown before the listener's first event.
Unlistened ==
  /\ listeners = 0 /\ properties = <<>> /\ tenantProperties = <<>>
  /\ IF listening THEN inbox = <<>> ELSE inbox = <<Load>>

Listened ==
  /\ listeners = 1 /\ ~ listening
  /\ \E v \in [0 .. Len(inbox) -> Docs] : Accounts(v, inbox, view, properties, tenantProperties)

Told == FirstSession => view = LocalView(base, queue) /\ (Unlistened \/ Listened)

ToldInv == TypeInv /\ logins >= 1 /\ Told

\* A new view, whose event leads there, is accounted for.
LEMMA MoreTold ==
  ASSUME TypeOK, Listened, view' \in Docs, inbox' = inbox \o Events(view'),
         Leads(view, view'), UNCHANGED <<listening, listeners, lists>>
  PROVE  Listened'
<1>1. listeners = 1 /\ ~ listening /\ view \in Docs /\ inbox \in Seq(Block) /\ Len(inbox) \in Nat
  BY LenProperties DEF Listened, TypeOK, Docs
<1>2. PICK v \in [0 .. Len(inbox) -> Docs] : Accounts(v, inbox, view, properties, tenantProperties)
  BY DEF Listened
<1> DEFINE n == Len(inbox)
           m == Len(inbox')
<1>3. /\ v[n] = view /\ Show(properties, tenantProperties, v[0])
      /\ \A k \in 1 .. n : /\ ~ inbox[k].load
                           /\ inbox[k].changes = ComputeDocumentChanges(v[k - 1], v[k])
                           /\ Leads(v[k - 1], v[k])
  BY <1>2 DEF Accounts
<1>4. CASE ComputeDocumentChanges(view, view') = <<>>
  <2>1. Events(view') = <<>>
    BY <1>4, EventsFacts
  <2>2. inbox' = inbox
    BY <2>1, EmitFacts
  <2>3. view' = view
    BY <1>1, <1>4, Unchanged
  <2>4. \E w \in [0 .. Len(inbox') -> Docs] : Accounts(w, inbox', view', properties', tenantProperties')
    BY <1>2, <2>2, <2>3 DEF Accounts, lists
  <2>5. QED
    BY <1>1, <2>4 DEF Listened
<1>5. CASE ComputeDocumentChanges(view, view') # <<>>
  <2> DEFINE b == Event(ComputeDocumentChanges(view, view'))
  <2>1. Len(Events(view')) = 1
    BY <1>1, <1>5, EventsFacts
  <2>2. /\ m = n + 1 /\ inbox'[n + 1] = b
        /\ \A i \in 1 .. n : inbox'[i] = inbox[i]
    BY <2>1, EmitFacts
  <2>3. ~ b.load /\ b.changes = ComputeDocumentChanges(view, view')
    BY DEF Event
  <2> HIDE DEF b, n, m
  <2> DEFINE w == [k \in 0 .. m |-> IF k = m THEN view' ELSE v[k]]
  <2>4. w \in [0 .. m -> Docs] /\ w[m] = view' /\ \A k \in 0 .. n : w[k] = v[k]
    BY <1>1, <1>2, <2>2 DEF n
  <2> HIDE DEF w
  <2>5. w[0] = v[0]
    BY <1>1, <2>4 DEF n
  <2>6. ASSUME NEW k \in 1 .. m
        PROVE  /\ ~ inbox'[k].load
               /\ inbox'[k].changes = ComputeDocumentChanges(w[k - 1], w[k])
               /\ Leads(w[k - 1], w[k])
    <3>1. n \in Nat /\ k - 1 \in 0 .. n
      BY <1>1, <2>2 DEF n
    <3>2. CASE k = m
      <4>1. k - 1 = n /\ k = n + 1
        BY <2>2, <3>1, <3>2
      <4>2. w[k - 1] = view /\ w[k] = view' /\ inbox'[k] = b
        BY <1>3, <2>2, <2>4, <3>1, <3>2, <4>1
      <4>3. QED
        BY <2>3, <4>2
    <3>3. CASE k # m
      <4>1. k \in 1 .. n /\ k \in 0 .. n
        BY <2>2, <3>1, <3>3
      <4>2. w[k - 1] = v[k - 1] /\ w[k] = v[k] /\ inbox'[k] = inbox[k]
        BY <2>2, <2>4, <3>1, <4>1
      <4>3. QED
        BY <1>3, <4>1, <4>2
    <3>4. QED
      BY <3>2, <3>3
  <2>7. Show(properties', tenantProperties', w[0])
    BY <1>3, <2>5 DEF lists
  <2>8. Accounts(w, inbox', view', properties', tenantProperties')
    BY <2>4, <2>6, <2>7 DEF Accounts, m
  <2>9. QED
    BY <1>1, <2>4, <2>8 DEF Listened, m
<1>6. QED
  BY <1>4, <1>5

\* The listener's first event tells everything there is.
LEMMA FirstTold ==
  ASSUME TypeOK, Unlistened, ListenerAdded
  PROVE  Listened'
<1>1. listening /\ listeners = 0 /\ inbox = <<>> /\ properties = <<>> /\ tenantProperties = <<>>
  BY DEF Unlistened, ListenerAdded
<1>2. view \in Docs /\ Len(<<>>) = 0 /\ 1 .. 0 = {}
  BY EmptySeq DEF TypeOK, Docs
<1>3. /\ ~ listening' /\ listeners' = 1
      /\ UNCHANGED <<view, properties, tenantProperties>>
  BY <1>1, ListenerFacts DEF sdk, lists
<1>4. RowsOf(<<>>, view, {}) /\ RowsOf(<<>>, Nothing, {})
  BY <1>2 DEF RowsOf
<1>5. Present(Nothing) = {} /\ RentedOut(Nothing) = {} /\ Nothing \in Docs
  BY DEF Present, RentedOut, Nothing, Docs
<1>6. CASE Present(view) = {} /\ UNCHANGED inbox
  <2> DEFINE w == [k \in 0 .. 0 |-> view]
  <2>1. w \in [0 .. Len(inbox') -> Docs] /\ w[0] = view /\ Len(inbox') = 0
    BY <1>1, <1>2, <1>6
  <2>2. RentedOut(view) = {}
    BY <1>6 DEF RentedOut
  <2>3. Show(properties', tenantProperties', w[0])
    BY <1>1, <1>3, <1>4, <1>6, <2>1, <2>2 DEF Show
  <2> HIDE DEF w
  <2>4. Accounts(w, inbox', view', properties', tenantProperties')
    BY <1>2, <1>3, <2>1, <2>3 DEF Accounts
  <2>5. QED
    BY <1>3, <2>1, <2>4 DEF Listened
<1>7. CASE Len(inbox') = Len(inbox) + 1 /\ inbox'[Len(inbox) + 1] = FirstEvent
  <2>1. Len(inbox') = 1 /\ inbox'[1] = FirstEvent
    BY <1>1, <1>2, <1>7
  <2>2. ~ FirstEvent.load /\ FirstEvent.changes = ComputeDocumentChanges(Nothing, view)
    <3> DEFINE cs == ChangesOf("added", Present(view), view)
               none == {id \in Present(Nothing) \cap Present(view) : (Nothing[id] # view[id])}
    <3>1. ~ FirstEvent.load /\ FirstEvent.changes = cs /\ cs \in Seq(Change)
      BY AddedEventFacts
    <3>2. /\ Present(Nothing) \ Present(view) = {} /\ none = {}
          /\ Present(view) \ Present(Nothing) = Present(view)
      BY <1>5
    <3>3. ComputeDocumentChanges(Nothing, view)
            = ChangesOf("removed", Present(Nothing) \ Present(view), view)
              \o ChangesOf("added", Present(view) \ Present(Nothing), view)
              \o ChangesOf("modified", none, view)
      BY DEF ComputeDocumentChanges
    <3> HIDE DEF none
    <3>4. ChangesOf("removed", {}, view) = <<>> /\ ChangesOf("modified", {}, view) = <<>>
      BY <1>2, NoChanges
    <3>5. ComputeDocumentChanges(Nothing, view) = <<>> \o cs \o <<>>
      BY <3>2, <3>3, <3>4
    <3> HIDE DEF cs
    <3>6. <<>> \o cs = cs /\ cs \o <<>> = cs
      BY <3>1, ConcatEmptySeq
    <3>7. QED
      BY <3>1, <3>5, <3>6
  <2> DEFINE w == [k \in 0 .. 1 |-> IF k = 0 THEN Nothing ELSE view]
  <2>3. w \in [0 .. 1 -> Docs] /\ w[0] = Nothing /\ w[1] = view
    BY <1>2, <1>5
  <2> HIDE DEF w
  <2>4. Show(properties', tenantProperties', w[0])
    BY <1>1, <1>3, <1>4, <1>5, <2>3 DEF Show
  <2>5. Leads(w[0], w[1])
    BY <2>3 DEF Leads
  <2>6. \A k \in 1 .. 1 : k = 1 /\ k - 1 = 0
    OBVIOUS
  <2>7. Accounts(w, inbox', view', properties', tenantProperties')
    BY <1>3, <2>1, <2>2, <2>3, <2>4, <2>5, <2>6 DEF Accounts
  <2>8. QED
    BY <1>3, <2>1, <2>3, <2>7 DEF Listened
<1>8. QED
  BY <1>6, <1>7, ListenerFacts

\* The callback shows the next view, or the process dies.
LEMMA OneTold ==
  ASSUME TypeInv, Listened, RunCallback, ~ crashed'
  PROVE  Listened'
<1>1. /\ TypeOK /\ inbox # <<>> /\ inbox \in Seq(Block) /\ listeners = 1 /\ ~ listening
      /\ Start \in Lists /\ inbox' = Tail(inbox)
      /\ properties' = HandleChanges(inbox[1].changes).all
      /\ tenantProperties' = HandleChanges(inbox[1].changes).rented
      /\ HandleChanges(inbox[1].changes).status # "crashed"
      /\ UNCHANGED <<view, listening, listeners>>
  BY CallbackFacts DEF TypeInv, TypeOK, Listened, sdk
<1> DEFINE n == Len(inbox)
           m == Len(inbox')
<1>2. PICK v \in [0 .. n -> Docs] : Accounts(v, inbox, view, properties, tenantProperties)
  BY DEF Listened
<1>3. /\ v[n] = view /\ Show(properties, tenantProperties, v[0])
      /\ \A k \in 1 .. n : /\ ~ inbox[k].load
                           /\ inbox[k].changes = ComputeDocumentChanges(v[k - 1], v[k])
                           /\ Leads(v[k - 1], v[k])
  BY <1>2 DEF Accounts
<1>4. /\ n \in Nat /\ n >= 1 /\ m = n - 1
      /\ \A i \in 1 .. m : i + 1 \in 1 .. n /\ inbox'[i] = inbox[i + 1]
  BY <1>1, TailFacts
<1> HIDE DEF n, m
<1>5. m \in Nat /\ m + 1 = n /\ 1 \in 1 .. n /\ 0 \in 0 .. n /\ 1 \in 0 .. n /\ 0 \in 0 .. m
      /\ m \in 0 .. m /\ 1 - 1 = 0
  BY <1>4
<1>6. Show(properties', tenantProperties', v[1])
  <2>1. v[0] \in Docs /\ v[1] \in Docs
    BY <1>2, <1>5
  <2>2. /\ inbox[1].changes = ComputeDocumentChanges(v[1 - 1], v[1])
        /\ Leads(v[1 - 1], v[1])
    BY <1>3, <1>5
  <2>3. QED
    BY <1>1, <1>3, <1>5, <2>1, <2>2, OneEvent
<1> DEFINE w == [k \in 0 .. m |-> v[k + 1]]
<1>7. w \in [0 .. m -> Docs] /\ \A k \in 0 .. m : w[k] = v[k + 1]
  <2>1. \A k \in 0 .. m : k + 1 \in 0 .. n
    BY <1>5
  <2>2. QED
    BY <1>2, <2>1
<1> HIDE DEF w
<1>8. w[0] = v[1] /\ w[m] = view'
  <2>1. 0 + 1 = 1
    OBVIOUS
  <2>2. QED
    BY <1>1, <1>3, <1>5, <1>7, <2>1
<1>9. ASSUME NEW k \in 1 .. m
      PROVE  /\ ~ inbox'[k].load
             /\ inbox'[k].changes = ComputeDocumentChanges(w[k - 1], w[k])
             /\ Leads(w[k - 1], w[k])
  <2>1. /\ k + 1 \in 1 .. n /\ k \in 0 .. m /\ k - 1 \in 0 .. m
        /\ (k + 1) - 1 = k /\ (k - 1) + 1 = k
    BY <1>5
  <2>2. w[k - 1] = v[k] /\ w[k] = v[k + 1] /\ inbox'[k] = inbox[k + 1]
    BY <1>4, <1>7, <2>1
  <2>3. /\ ~ inbox[k + 1].load
        /\ inbox[k + 1].changes = ComputeDocumentChanges(v[(k + 1) - 1], v[k + 1])
        /\ Leads(v[(k + 1) - 1], v[k + 1])
    BY <1>3, <2>1
  <2>4. QED
    BY <2>1, <2>2, <2>3
<1>10. Accounts(w, inbox', view', properties', tenantProperties')
  BY <1>6, <1>8, <1>9 DEF Accounts, m
<1>11. QED
  BY <1>1, <1>7, <1>10 DEF Listened, m

\* A write of a screen is told to the listener, if there is one.
LEMMA WriteTold ==
  ASSUME ToldInv, FirstSession, NEW w \in Write, WriteLocally(w)
  PROVE  view' = LocalView(base', queue') /\ (Unlistened' \/ Listened')
<1>1. /\ TypeOK /\ base \in Docs /\ queue \in Seq(Write) /\ inbox \in Seq(Block)
      /\ view = LocalView(base, queue) /\ (Unlistened \/ Listened)
  BY DEF ToldInv, Told, TypeInv, TypeOK, Docs
<1>2. /\ \A i \in 1 .. Len(inbox) : ~ inbox[i].load
      /\ queue' = Append(queue, w) /\ view' = LocalView(base, queue') /\ view' \in Docs
      /\ inbox' = inbox \o Events(view')
      /\ UNCHANGED <<base, listening, listeners, lists>>
  BY <1>1, WriteFacts
<1>3. CASE Unlistened
  <2>1. listening /\ inbox = <<>>
    <3>1. ASSUME inbox = <<Load>> PROVE FALSE
      <4>1. Len(inbox) = 1 /\ inbox[1] = Load /\ Load.load /\ 1 \in 1 .. 1
        BY <3>1 DEF Load
      <4>2. QED
        BY <1>2, <4>1
    <3>2. QED
      BY <1>3, <3>1 DEF Unlistened
  <2>2. listeners = 0
    BY <1>3 DEF Unlistened
  <2>3. Events(view') = <<>>
    BY <1>1, <1>2, <2>2, EventsFacts
  <2>4. inbox' = inbox
    BY <1>1, <1>2, <2>3, EmitFacts
  <2>5. Unlistened'
    BY <1>2, <1>3, <2>1, <2>4 DEF Unlistened, lists
  <2>6. QED
    BY <1>2, <2>5
<1>4. CASE Listened
  <2>1. view \in Docs /\ view' = ApplyWrite(view, w)
    BY <1>1, <1>2, NewestWrite
  <2>2. w.id \in Ids /\ \A x \in Ids : x # w.id => view'[x] = view[x]
    BY <2>1, ApplyWriteFacts
  <2>3. Leads(view, view')
    BY <2>2 DEF Leads
  <2>4. QED
    BY <1>1, <1>2, <1>4, <2>3, MoreTold
<1>5. QED
  BY <1>1, <1>3, <1>4

\* Every step of the first session is accounted for.
LEMMA ToldStep == ToldInv /\ [Next]_vars => ToldInv'
<1> SUFFICES ASSUME ToldInv, [Next]_vars PROVE ToldInv'
  OBVIOUS
<1>1. TypeInv' /\ TypeInv /\ TypeOK /\ logins \in Nat /\ logins >= 1 /\ remote \in Nat
      /\ signedIn \in BOOLEAN
  BY TypeStep DEF ToldInv, TypeInv, TypeOK
<1>2. CASE UNCHANGED vars
  BY <1>1, <1>2 DEF vars, sdk, lists, history, ToldInv, Told, FirstSession, Unlistened, Listened
<1>3. CASE Next
  <2>1. logins' >= 1
    <3>1. CASE LogIn
      BY <1>1, <3>1, LogInFacts
    <3>2. CASE ~ LogIn
      <4>1. UNCHANGED logins
        BY <1>1, <1>3, <3>2, RemoteFacts DEF Next, ViewDidLoad, RunCallback, ListenerAdded,
           RegisterTapped, DeleteTapped, AddNameToProperty, WriteLocally, AcknowledgeBatch,
           LogOut, history
      <4>2. QED
        BY <1>1, <4>1
    <3>3. QED
      BY <3>1, <3>2
  <2>2. SUFFICES ASSUME FirstSession'
                 PROVE  view' = LocalView(base', queue') /\ (Unlistened' \/ Listened')
    BY <1>1, <2>1 DEF ToldInv, Told
  <2>3. ASSUME FirstSession PROVE view = LocalView(base, queue) /\ (Unlistened \/ Listened)
    BY <2>3 DEF ToldInv, Told
  <2>4. CASE ViewDidLoad
    <3>1. /\ inbox # <<>> /\ inbox[1].load /\ inbox' = Tail(inbox) /\ listening'
          /\ properties' = <<>> /\ tenantProperties' = <<>>
          /\ UNCHANGED <<sdk, listeners, crashed, history>>
      <4>1. inbox # <<>> /\ inbox \in Seq(Block)
        BY <1>1, <2>4 DEF ViewDidLoad, TypeOK
      <4>2. Head(inbox) = inbox[1]
        BY <4>1, TailFacts
      <4>3. QED
        BY <2>4, <4>1, <4>2 DEF ViewDidLoad
    <3>2. FirstSession
      BY <2>2, <3>1 DEF FirstSession, sdk, history
    <3>3. CASE Unlistened
      <4>1. inbox = <<Load>> /\ Tail(<<Load>>) = <<>>
        BY <3>1, <3>3 DEF Unlistened
      <4>2. Unlistened'
        BY <3>1, <3>3, <4>1 DEF Unlistened
      <4>3. QED
        BY <2>3, <3>1, <3>2, <4>2 DEF sdk
    <3>4. CASE Listened
      <4>1. 1 \in 1 .. Len(inbox)
        <5>1. inbox \in Seq(Block)
          BY <1>1 DEF TypeOK
        <5>2. QED
          BY <3>1, <5>1, TailFacts
      <4>2. QED
        BY <3>1, <3>4, <4>1 DEF Listened, Accounts
    <3>5. QED
      BY <2>3, <3>2, <3>3, <3>4
  <2>5. CASE RunCallback
    <3>1. /\ ~ crashed /\ inbox # <<>> /\ ~ inbox[1].load /\ ~ crashed'
          /\ UNCHANGED <<sdk, listening, listeners, history>>
      BY <1>1, <2>2, <2>5, CallbackFacts DEF FirstSession
    <3>2. FirstSession
      BY <2>2, <3>1 DEF FirstSession, sdk, history
    <3>3. ~ Unlistened
      <4>1. <<Load>>[1].load
        BY DEF Load
      <4>2. QED
        BY <3>1, <4>1 DEF Unlistened
    <3>4. Listened'
      BY <1>1, <2>3, <2>5, <3>1, <3>2, <3>3, OneTold
    <3>5. QED
      BY <2>3, <3>1, <3>2, <3>4 DEF sdk
  <2>6. CASE ListenerAdded
    <3>1. listening /\ UNCHANGED <<sdk, lists, history>>
      BY <1>1, <2>6, ListenerFacts
    <3>2. FirstSession
      BY <2>2, <3>1 DEF FirstSession, sdk, lists, history
    <3>3. Unlistened
      BY <2>3, <3>1, <3>2 DEF Listened
    <3>4. Listened'
      BY <1>1, <2>6, <3>3, FirstTold
    <3>5. QED
      BY <2>3, <3>1, <3>2, <3>4 DEF sdk
  <2>7. CASE \E id \in Ids : \/ RegisterTapped(id) \/ DeleteTapped(id)
                             \/ \E t \in Tenants : AddNameToProperty(id, t)
    <3>1. PICK w \in Write : WriteLocally(w)
      BY <2>7, ScreenWrites DEF RegisterTapped, DeleteTapped, AddNameToProperty
    <3>2. FirstSession
      BY <1>1, <2>2, <3>1, WriteFacts DEF FirstSession, lists
    <3>3. QED
      BY <3>1, <3>2, WriteTold
  <2>8. CASE AcknowledgeBatch
    <3>1. /\ queue # <<>> /\ base' = ApplyWrite(base, Head(queue)) /\ queue' = Tail(queue)
          /\ UNCHANGED <<signedIn, view, listening, listeners, inbox, lists, history>>
      BY <2>8 DEF AcknowledgeBatch
    <3>2. FirstSession
      BY <2>2, <3>1 DEF FirstSession, lists, history
    <3>3. base \in Docs /\ queue \in Seq(Write)
      BY <1>1 DEF TypeOK, Docs
    <3>4. LocalView(base', queue') = LocalView(base, queue)
      BY <3>1, <3>3, OldestWrite
    <3>5. (Unlistened => Unlistened') /\ (Listened => Listened')
      BY <3>1 DEF Unlistened, Listened, lists
    <3>6. QED
      BY <2>3, <3>1, <3>2, <3>4, <3>5
  <2>9. CASE RemoteEvent
    <3>1. PICK n \in Nat \ {0} : remote' = remote + n
      BY <1>1, <2>9, RemoteFacts
    <3>2. QED
      BY <1>1, <2>2, <3>1 DEF FirstSession
  <2>10. CASE LogOut
    BY <1>1, <2>2, <2>10, LogOutFacts DEF FirstSession
  <2>11. CASE LogIn
    BY <1>1, <2>2, <2>11, LogInFacts DEF FirstSession
  <2>12. QED
    BY <1>3, <2>4, <2>5, <2>6, <2>7, <2>8, <2>9, <2>10, <2>11 DEF Next
<1>4. QED
  BY <1>2, <1>3

\* The first screen is about to be loaded.
LEMMA ToldInit == Init => ToldInv
<1> SUFFICES ASSUME Init PROVE ToldInv
  OBVIOUS
<1>1. TypeInv
  BY TypeInit
<1>2. Unlistened
  BY DEF Init, Unlistened
<1>3. view = LocalView(base, queue)
  <2>1. queue = <<>> /\ view = base /\ base \in Docs /\ <<>> \in Seq(Write) /\ Len(<<>>) = 0
    BY EmptySeq DEF Init, Docs
  <2>2. 0 \in 0 .. 0
    OBVIOUS
  <2>3. PICK f \in Views(base, <<>>, 0) : TRUE
    BY <2>1, <2>2, ViewsExist
  <2>4. LocalView(base, <<>>) = f[0] /\ f[0] = base
    BY <2>1, <2>3, LocalViewIs DEF Views
  <2>5. QED
    BY <2>1, <2>4
<1>4. logins >= 1
  BY DEF Init
<1>5. QED
  BY <1>1, <1>2, <1>3, <1>4 DEF ToldInv, Told

\* In the landlord's first session the lists settle on the landlord's
\* properties and the rented ones among them.
THEOREM ListsFollowView == Spec => []ListsMirrorView
<1>1. ToldInv => ListsMirrorView
  <2>1. SUFFICES ASSUME ToldInv, Settled, logins = 1, remote = 0
                 PROVE  /\ Mirrors(properties, Present(view))
                        /\ Mirrors(tenantProperties, RentedOut(view))
    BY DEF ListsMirrorView, RentedOut
  <2>2. /\ properties \in Seq(Row) /\ tenantProperties \in Seq(Row)
        /\ inbox = <<>> /\ listeners > 0 /\ FirstSession
    BY <2>1 DEF ToldInv, TypeInv, TypeOK, Settled, FirstSession
  <2>3. Listened
    BY <2>1, <2>2 DEF ToldInv, Told, Unlistened
  <2>4. Show(properties, tenantProperties, view)
    <3>1. Len(inbox) = 0
      BY <2>2, EmptySeq
    <3>2. QED
      BY <2>3, <3>1 DEF Listened, Accounts
  <2>5. ASSUME NEW rows \in Seq(Row), NEW ids \in SUBSET Ids, RowsOf(rows, view, ids)
        PROVE  Mirrors(rows, ids)
    <3>1. DOMAIN rows = 1 .. Len(rows) /\ \A i \in 1 .. Len(rows) : rows[i] \in Row
      BY <2>5, SeqFacts
    <3>2. /\ \A i, j \in 1 .. Len(rows) : rows[i].id = rows[j].id => i = j
          /\ \A i \in 1 .. Len(rows) : rows[i].id \in ids /\ rows[i].name = view[rows[i].id].name
          /\ \A id \in ids : \E i \in 1 .. Len(rows) : rows[i].id = id
      BY <2>5 DEF RowsOf
    <3>3. \A i \in 1 .. Len(rows) : rows[i] = [id |-> rows[i].id, name |-> rows[i].name]
      BY <3>1 DEF Row
    <3>4. {rows[i] : i \in DOMAIN rows} = {[id |-> id, name |-> view[id].name] : id \in ids}
      BY <3>1, <3>2, <3>3
    <3>5. QED
      BY <3>1, <3>2, <3>4 DEF Mirrors
  <2>6. Present(view) \in SUBSET Ids /\ RentedOut(view) \in SUBSET Ids
    BY DEF Present, RentedOut
  <2>7. QED
    BY <2>2, <2>4, <2>5, <2>6 DEF Show
<1>2. QED
  BY <1>1, ToldInit, ToldStep, PTL DEF Spec
==============================================================================
