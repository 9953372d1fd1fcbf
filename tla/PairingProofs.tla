---------------------------- MODULE PairingProofs ----------------------------
(***************************************************************************)
(* Theorems about Pairing, for any number of landlords, tenants and        *)
(* properties and for every bound.                                         *)
(***************************************************************************)
EXTENDS Pairing, SequenceFacts

(***************************************************************************)
(* Facts about documents and writes.                                       *)
(***************************************************************************)

\* A write applied to well-typed documents leaves them well typed.
LEMMA ApplyWriteType ==
  ASSUME NEW d \in Database, NEW w \in Write
  PROVE  ApplyWrite(d, w) \in Database
<1>1. /\ d.users \in [Tenants -> UserDoc]
      /\ d.rentals \in [Landlords -> [Props -> RentalDoc]]
      /\ d.listings \in [Props -> Landlords \cup {None}]
      /\ d.requests \in [Landlords -> SUBSET Request]
      /\ d.payments \in [Tenants -> SUBSET Payment]
  BY DEF Database
<1>2. /\ w.landlord \in Landlords
      /\ w.prop \in Props
      /\ w.id \in Nat
      /\ w.op \in PropertyOps \cup TenancyOps
      /\ w.op \in TenancyOps => w.tenant \in Tenants
  BY DEF Write, PropertyOps, TenancyOps
<1>3. ASSUME NEW r \in RentalDoc
      PROVE  [d EXCEPT !.rentals[w.landlord][w.prop] = r] \in Database
  BY <1>1, <1>2 DEF Database
<1>4. CASE w.op = "addProperty"
  <2>1. FullRental \in RentalDoc
    BY DEF FullRental, RentalDoc
  <2>2. QED
    BY <1>3, <1>4, <2>1 DEF ApplyWrite
<1>5. CASE w.op = "addListing"
  BY <1>1, <1>2, <1>5 DEF ApplyWrite, Database
<1>6. CASE w.op = "deleteProperty"
  <2>1. NoRental \in RentalDoc
    BY DEF NoRental, RentalDoc
  <2>2. QED
    BY <1>3, <1>6, <2>1 DEF ApplyWrite
<1>7. CASE w.op = "addRequest"
  <2>1. RequestOf(w) \in Request
    BY <1>2, <1>7 DEF RequestOf, Request, TenancyOps
  <2>2. d.requests[w.landlord] \cup {RequestOf(w)} \in SUBSET Request
    BY <1>1, <1>2, <2>1
  <2>3. QED
    BY <1>1, <1>2, <1>7, <2>2 DEF ApplyWrite, Database
<1>8. CASE w.op = "deleteRequest"
  <2>1. {r \in d.requests[w.landlord] : r.id # w.id} \in SUBSET Request
    BY <1>1, <1>2
  <2>2. QED
    BY <1>1, <1>2, <1>8, <2>1 DEF ApplyWrite, Database
<1>9. CASE w.op = "pair"
  BY <1>1, <1>2, <1>9 DEF ApplyWrite, Database, UserDoc, TenancyOps
<1>10. CASE w.op = "name"
  <2>1. d.rentals[w.landlord][w.prop] \in RentalDoc
    BY <1>1, <1>2
  <2>2. MergeTenant(d.rentals[w.landlord][w.prop], w.tenant) \in RentalDoc
    BY <1>2, <1>10, <2>1 DEF MergeTenant, RentalDoc, TenancyOps
  <2>3. QED
    BY <1>3, <1>10, <2>2 DEF ApplyWrite
<1>11. CASE w.op = "pay"
  <2>1. PaymentOf(w) \in Payment
    BY <1>2, <1>11 DEF PaymentOf, Payment, TenancyOps
  <2>2. d.payments[w.tenant] \cup {PaymentOf(w)} \in SUBSET Payment
    BY <1>1, <1>2, <1>11, <2>1 DEF TenancyOps
  <2>3. QED
    BY <1>1, <1>2, <1>11, <2>2 DEF ApplyWrite, Database, TenancyOps
<1>12. QED
  BY <1>2, <1>4, <1>5, <1>6, <1>7, <1>8, <1>9, <1>10, <1>11
     DEF PropertyOps, TenancyOps

(***************************************************************************)
(* The two ways a queue changes.                                           *)
(***************************************************************************)

\* Enqueue extends the current queue of a user and leaves the others alone.
LEMMA EnqueueFacts ==
  ASSUME TypeOK, NEW u \in Users, NEW ws \in Seq(Write), Enqueue(u, ws)
  PROVE  /\ queue' \in [Queues -> Seq(Write)]
         /\ \A q \in Queues : q # Current(u) => queue'[q] = queue[q]
         /\ Len(queue'[Current(u)]) = Len(Pending(u)) + Len(ws)
         /\ \A i \in 1 .. Len(Pending(u)) : queue'[Current(u)][i] = Pending(u)[i]
         /\ \A i \in 1 .. Len(ws) :
              queue'[Current(u)][Len(Pending(u)) + i] = ws[i]
<1>1. Current(u) \in Queues
  BY DEF Current, Queues
<1>2. Pending(u) \in Seq(Write)
  BY <1>1 DEF TypeOK, Pending
<1>3. queue' = [queue EXCEPT ![Current(u)] = Pending(u) \o ws]
  BY DEF Enqueue, Pending
<1>4. queue'[Current(u)] = Pending(u) \o ws
  BY <1>1, <1>3 DEF TypeOK
<1>5. /\ Pending(u) \o ws \in Seq(Write)
      /\ Len(Pending(u) \o ws) = Len(Pending(u)) + Len(ws)
      /\ \A i \in 1 .. Len(Pending(u)) + Len(ws) :
           (Pending(u) \o ws)[i] = IF i <= Len(Pending(u)) THEN Pending(u)[i]
                                   ELSE ws[i - Len(Pending(u))]
  BY <1>2, ConcatProperties
<1>6. Len(Pending(u)) \in Nat /\ Len(ws) \in Nat
  BY <1>2, LenProperties
<1>7. queue' \in [Queues -> Seq(Write)]
  BY <1>1, <1>3, <1>5 DEF TypeOK
<1>8. \A q \in Queues : q # Current(u) => queue'[q] = queue[q]
  BY <1>3 DEF TypeOK
<1>9. \A i \in 1 .. Len(Pending(u)) : queue'[Current(u)][i] = Pending(u)[i]
  BY <1>4, <1>5, <1>6
<1>10. \A i \in 1 .. Len(ws) : queue'[Current(u)][Len(Pending(u)) + i] = ws[i]
  BY <1>4, <1>5, <1>6
<1>11. QED
  BY <1>4, <1>5, <1>7, <1>8, <1>9, <1>10

\* Removing the oldest batch shifts the current queue by one.
LEMMA PopFacts ==
  ASSUME TypeOK, NEW u \in Users, Pending(u) # <<>>,
         queue' = [queue EXCEPT ![Current(u)] = Tail(@)]
  PROVE  /\ queue' \in [Queues -> Seq(Write)]
         /\ \A q \in Queues : q # Current(u) => queue'[q] = queue[q]
         /\ Len(queue'[Current(u)]) = Len(Pending(u)) - 1
         /\ \A i \in 1 .. Len(Pending(u)) - 1 :
              queue'[Current(u)][i] = Pending(u)[i + 1]
<1>1. Current(u) \in Queues
  BY DEF Current, Queues
<1>2. Pending(u) \in Seq(Write)
  BY <1>1 DEF TypeOK, Pending
<1>3. queue' = [queue EXCEPT ![Current(u)] = Tail(Pending(u))]
  BY DEF Pending
<1>4. /\ Tail(Pending(u)) \in Seq(Write)
      /\ Len(Tail(Pending(u))) = Len(Pending(u)) - 1
      /\ \A i \in 1 .. Len(Tail(Pending(u))) :
           Tail(Pending(u))[i] = Pending(u)[i + 1]
  BY <1>2, HeadTailProperties
<1>5. queue'[Current(u)] = Tail(Pending(u))
  BY <1>1, <1>3 DEF TypeOK
<1>6. QED
  BY <1>1, <1>3, <1>4, <1>5 DEF TypeOK

\* A handler made the writes ws durable: all of them, or a proper prefix in
\* which the process died.
Outcome(l, writes, calls, ws) ==
  /\ Enqueue(l, ws)
  /\ Len(ws) \in 1 .. Len(writes)
  /\ \A i \in 1 .. Len(ws) : ws[i] = writes[i]
  /\ \/ /\ ws = writes
        /\ accepting' = [accepting EXCEPT ![l] = @ \cup calls]
        /\ UNCHANGED <<client, sent, list>>
     \/ Die(l)

\* A handler queues its first writes, all of them or those before its process died.
LEMMA HandlerFacts ==
  ASSUME NEW l, NEW writes \in Seq(Write), NEW calls, Len(writes) > 0,
         Handler(l, writes, calls)
  PROVE  \E ws \in Seq(Write) : Outcome(l, writes, calls, ws)
<1>1. /\ Len(writes) \in Nat
      /\ \A i \in 1 .. Len(writes) : writes[i] \in Write
  BY LenProperties, ElementOfSeq
<1>2. CASE /\ Enqueue(l, writes)
           /\ accepting' = [accepting EXCEPT ![l] = @ \cup calls]
           /\ UNCHANGED <<client, sent, list>>
  <2>1. Len(writes) \in 1 .. Len(writes)
    BY <1>1
  <2>2. Outcome(l, writes, calls, writes)
    BY <1>2, <2>1 DEF Outcome
  <2>3. QED
    BY <2>2
<1>3. CASE \E n \in 1 .. Len(writes) - 1 :
             Enqueue(l, SubSeq(writes, 1, n)) /\ Die(l)
  <2>1. PICK n \in 1 .. Len(writes) - 1 :
          Enqueue(l, SubSeq(writes, 1, n)) /\ Die(l)
    BY <1>3
  <2>2. \A i \in 1 .. n : writes[i] \in Write
    BY <1>1
  <2>3. /\ SubSeq(writes, 1, n) \in Seq(Write)
        /\ Len(SubSeq(writes, 1, n)) = IF 1 <= n THEN n - 1 + 1 ELSE 0
        /\ \A i \in 1 .. n - 1 + 1 : SubSeq(writes, 1, n)[i] = writes[1 + i - 1]
    BY <1>1, <2>2, SubSeqProperties
  <2>4. /\ Len(SubSeq(writes, 1, n)) = n
        /\ \A i \in 1 .. n : SubSeq(writes, 1, n)[i] = writes[i]
    BY <1>1, <2>3
  <2>5. n \in 1 .. Len(writes)
    BY <1>1
  <2>6. Outcome(l, writes, calls, SubSeq(writes, 1, n))
    BY <2>1, <2>4, <2>5 DEF Outcome
  <2>7. QED
    BY <2>3, <2>6
<1>4. QED
  BY <1>2, <1>3 DEF Handler

(***************************************************************************)
(* Type correctness.                                                       *)
(***************************************************************************)

\* The backend has committed no more than the queue holds.  TypeOK needs it:
\* an acknowledgement removes the head of a queue that must not be empty.
SentWithinQueue == \A u \in Users : sent[u] <= Len(Pending(u))

TypeInv == TypeOK /\ SentWithinQueue

\* Pending is a sequence of writes.
LEMMA PendingFacts ==
  ASSUME TypeOK, NEW u \in Users
  PROVE  /\ Current(u) \in Queues
         /\ Pending(u) = queue[Current(u)]
         /\ Pending(u) \in Seq(Write)
         /\ Len(Pending(u)) \in Nat
         /\ \A i \in 1 .. Len(Pending(u)) : Pending(u)[i] \in Write
<1>1. Pending(u) \in Seq(Write) /\ Current(u) \in Queues
  BY DEF TypeOK, Pending, Current, Queues
<1>2. QED
  BY <1>1, LenProperties, ElementOfSeq DEF Pending

\* The entries of the queues after writing ws: the old ones, then ws.
LEMMA EnqueueEntries ==
  ASSUME TypeOK, NEW u \in Users, NEW ws \in Seq(Write), Enqueue(u, ws),
         NEW q \in Queues
  PROVE  /\ Len(queue[q]) \in Nat
         /\ \A i \in 1 .. Len(queue[q]) : /\ i \in 1 .. Len(queue'[q])
                                          /\ queue'[q][i] = queue[q][i]
         /\ \A i \in 1 .. Len(queue'[q]) :
              \/ i \in 1 .. Len(queue[q])
              \/ /\ q = Current(u)
                 /\ \E j \in 1 .. Len(ws) : /\ i = Len(queue[q]) + j
                                            /\ queue'[q][i] = ws[j]
         /\ q = Current(u) =>
              \A j \in 1 .. Len(ws) : /\ Len(queue[q]) + j \in 1 .. Len(queue'[q])
                                      /\ queue'[q][Len(queue[q]) + j] = ws[j]
<1>1. Len(queue[q]) \in Nat /\ Len(ws) \in Nat
  BY LenProperties DEF TypeOK
<1>2. CASE q # Current(u)
  <2>1. queue'[q] = queue[q]
    BY <1>2, EnqueueFacts
  <2>2. /\ \A i \in 1 .. Len(queue[q]) : /\ i \in 1 .. Len(queue'[q])
                                         /\ queue'[q][i] = queue[q][i]
        /\ \A i \in 1 .. Len(queue'[q]) : i \in 1 .. Len(queue[q])
    BY <2>1, Zenon
  <2>3. QED
    BY <1>1, <1>2, <2>2, Zenon
<1>3. CASE q = Current(u)
  <2>1. /\ Len(queue'[q]) = Len(queue[q]) + Len(ws)
        /\ \A j \in 1 .. Len(queue[q]) : queue'[q][j] = queue[q][j]
        /\ \A j \in 1 .. Len(ws) : queue'[q][Len(queue[q]) + j] = ws[j]
    <3>1. Pending(u) = queue[q]
      BY <1>3, PendingFacts
    <3>2. /\ Len(queue'[Current(u)]) = Len(Pending(u)) + Len(ws)
          /\ \A j \in 1 .. Len(Pending(u)) :
               queue'[Current(u)][j] = Pending(u)[j]
          /\ \A j \in 1 .. Len(ws) :
               queue'[Current(u)][Len(Pending(u)) + j] = ws[j]
      BY EnqueueFacts
    <3>3. QED
      BY <1>3, <3>1, <3>2, Zenon
  <2>2. ASSUME NEW i \in 1 .. Len(queue'[q]), i \notin 1 .. Len(queue[q])
        PROVE  \E j \in 1 .. Len(ws) : /\ i = Len(queue[q]) + j
                                       /\ queue'[q][i] = ws[j]
    <3>1. /\ i - Len(queue[q]) \in 1 .. Len(ws)
          /\ i = Len(queue[q]) + (i - Len(queue[q]))
      BY <1>1, <2>1, <2>2
    <3>2. QED
      BY <2>1, <3>1
  <2>3. \A j \in 1 .. Len(ws) : Len(queue[q]) + j \in 1 .. Len(queue'[q])
    BY <1>1, <2>1
  <2>4. \A i \in 1 .. Len(queue[q]) : i \in 1 .. Len(queue'[q])
    BY <1>1, <2>1
  <2>5. QED
    BY <1>1, <1>3, <2>1, <2>2, <2>3, <2>4
<1>4. QED
  BY <1>2, <1>3

\* The entries of the queues after removing the oldest of one of them.
LEMMA PopEntries ==
  ASSUME TypeOK, NEW u \in Users, Pending(u) # <<>>,
         queue' = [queue EXCEPT ![Current(u)] = Tail(@)], NEW q \in Queues
  PROVE  \/ q # Current(u) /\ queue'[q] = queue[q]
         \/ /\ q = Current(u)
            /\ Len(queue[q]) \in Nat
            /\ \A i \in 1 .. Len(queue'[q]) : /\ i + 1 \in 1 .. Len(queue[q])
                                              /\ queue'[q][i] = queue[q][i + 1]
            /\ \A i \in 2 .. Len(queue[q]) : /\ i - 1 \in 1 .. Len(queue'[q])
                                             /\ queue'[q][i - 1] = queue[q][i]
<1>1. CASE q # Current(u)
  BY <1>1, PopFacts
<1>2. CASE q = Current(u)
  <2>1. /\ Len(queue'[q]) = Len(queue[q]) - 1
        /\ \A i \in 1 .. Len(queue[q]) - 1 : queue'[q][i] = queue[q][i + 1]
        /\ Len(queue[q]) \in Nat
    BY <1>2, PopFacts, PendingFacts
  <2>2. \A i \in 1 .. Len(queue'[q]) : i + 1 \in 1 .. Len(queue[q])
    BY <2>1
  <2>3. ASSUME NEW i \in 2 .. Len(queue[q])
        PROVE  /\ i - 1 \in 1 .. Len(queue'[q])
               /\ queue'[q][i - 1] = queue[q][i]
    <3>1. i - 1 \in 1 .. Len(queue[q]) - 1 /\ (i - 1) + 1 = i
      BY <2>1
    <3>2. QED
      BY <2>1, <3>1
  <2>4. QED
    BY <1>2, <2>1, <2>2, <2>3
<1>3. QED
  BY <1>1, <1>2

\* What the end of a process leaves behind.
LEMMA DieType ==
  ASSUME TypeOK, NEW l \in Landlords, Die(l)
  PROVE  /\ sent' \in [Users -> Nat]
         /\ sent'[l] = 0
         /\ \A u \in Users \ {l} : /\ sent'[u] = sent[u]
                                   /\ Current(u)' = Current(u)
         /\ client' \in [Users -> {"off", "anon", "user"}]
         /\ list' \in [Landlords -> SUBSET Request]
         /\ accepting' \in [Landlords -> SUBSET Acceptance]
BY DEF Die, TypeOK, Users, Current

\* Lengthening a queue keeps SentWithinQueue, also when the process of the
\* user dies.
LEMMA EnqueueBound ==
  ASSUME TypeInv, NEW l \in Users, NEW ws \in Seq(Write), Enqueue(l, ws),
         \/ UNCHANGED <<client, sent>>
         \/ l \in Landlords /\ Die(l)
  PROVE  SentWithinQueue'
<1>1. SUFFICES ASSUME NEW u \in Users
               PROVE  sent'[u] <= Len(Pending(u)')
  BY DEF SentWithinQueue
<1>2. /\ queue' \in [Queues -> Seq(Write)]
      /\ \A q \in Queues : q # Current(l) => queue'[q] = queue[q]
      /\ Len(queue'[Current(l)]) = Len(Pending(l)) + Len(ws)
  BY EnqueueFacts DEF TypeInv
<1>3. Len(ws) \in Nat
  BY LenProperties
<1>4. /\ Current(u) \in Queues
      /\ Len(Pending(u)) \in Nat
      /\ Len(Pending(l)) \in Nat
      /\ Pending(u) = queue[Current(u)]
      /\ Pending(l) = queue[Current(l)]
  BY PendingFacts DEF TypeInv
<1>5. Len(queue'[Current(u)]) >= Len(Pending(u))
  BY <1>2, <1>3, <1>4
<1>6. sent[u] <= Len(Pending(u)) /\ sent[u] \in Nat
  BY DEF TypeInv, SentWithinQueue, TypeOK
<1>7. Pending(u)' = queue'[Current(u)']
  BY DEF Pending
<1>8. CASE sent'[u] = sent[u] /\ Current(u)' = Current(u)
  BY <1>2, <1>4, <1>5, <1>6, <1>7, <1>8, LenProperties
<1>9. CASE sent'[u] = 0
  <2>1. Current(u)' \in Queues
    BY DEF Current, Queues
  <2>2. QED
    BY <1>2, <1>7, <1>9, <2>1, LenProperties
<1>10. CASE UNCHANGED <<client, sent>>
  BY <1>8, <1>10 DEF Current
<1>11. CASE l \in Landlords /\ Die(l)
  BY <1>8, <1>9, <1>11, DieType DEF TypeInv
<1>12. QED
  BY <1>10, <1>11

\* Every step of a device keeps the types.
LEMMA DeviceType ==
  ASSUME TypeInv, NEW u \in Users, Device(u)
  PROVE  TypeInv'
<1> USE DEF TypeInv
<1>1. PICK n : n = sent[u] /\ n \in Nat /\ n <= Len(Pending(u))
  BY DEF TypeOK, SentWithinQueue
<1>2. /\ Len(Pending(u)) \in Nat
      /\ \A i \in 1 .. Len(Pending(u)) : Pending(u)[i] \in Write
      /\ \A v \in Users : Pending(v) = queue[Current(v)] /\ Current(v) \in Queues
  BY PendingFacts
<1>3. UNCHANGED client
  BY DEF Device, Commit, OnWriteStreamMutationResult, OnWriteStreamClose,
         HandleRejectedWrite, clients
<1>4. \A v \in Users : Current(v)' = Current(v) /\ Pending(v)' = queue'[Current(v)]
  BY <1>3 DEF Current, Pending
<1>5. \A v \in Users \ {u} : Current(v) # Current(u)
  BY DEF Current
<1>6. CASE Commit(u)
  <2> DEFINE w == Pending(u)[sent[u] + 1]
  <2>1. w \in Write
    BY <1>1, <1>2, <1>6 DEF Commit
  <2>2. db' \in Database
    BY <1>6, <2>1, ApplyWriteType DEF Commit, TypeOK
  <2>3. w.op = "pair" => w.tenant \in Tenants /\ w.prop \in Props
    BY <2>1 DEF Write, PropertyOps
  <2>4. pairings' \in SUBSET (Tenants \X Props)
    BY <1>6, <2>3 DEF Commit, TypeOK
  <2>5. SentWithinQueue'
    BY <1>1, <1>2, <1>4, <1>6 DEF Commit, SentWithinQueue, TypeOK
  <2>6. QED
    BY <1>6, <2>2, <2>4, <2>5 DEF Commit, TypeOK, clients, history
<1>7. CASE OnWriteStreamMutationResult(u)
  <2>1. Pending(u) # <<>>
    BY <1>1, <1>2, <1>7, EmptySeq DEF OnWriteStreamMutationResult
  <2>2. /\ queue' \in [Queues -> Seq(Write)]
        /\ \A q \in Queues : q # Current(u) => queue'[q] = queue[q]
        /\ Len(queue'[Current(u)]) = Len(Pending(u)) - 1
    BY <1>7, <2>1, PopFacts DEF OnWriteStreamMutationResult
  <2>3. sent' \in [Users -> Nat]
    BY <1>7 DEF OnWriteStreamMutationResult, TypeOK
  <2>4. SentWithinQueue'
    BY <1>1, <1>2, <1>4, <1>5, <1>7, <2>2
       DEF OnWriteStreamMutationResult, SentWithinQueue, TypeOK
  <2>5. QED
    BY <1>7, <2>2, <2>3, <2>4
       DEF OnWriteStreamMutationResult, TypeOK, backend, clients, history
<1>8. CASE OnWriteStreamClose(u)
  <2>1. SentWithinQueue'
    BY <1>1, <1>2, <1>4, <1>8 DEF OnWriteStreamClose, SentWithinQueue, TypeOK
  <2>2. QED
    BY <1>8, <2>1 DEF OnWriteStreamClose, TypeOK, backend, clients, history
<1>9. CASE HandleRejectedWrite(u)
  <2>1. /\ queue' \in [Queues -> Seq(Write)]
        /\ \A q \in Queues : q # Current(u) => queue'[q] = queue[q]
        /\ Len(queue'[Current(u)]) = Len(Pending(u)) - 1
    BY <1>9, PopFacts DEF HandleRejectedWrite
  <2>2. Len(Pending(u)) # 0
    BY <1>9, PendingFacts, EmptySeq DEF HandleRejectedWrite
  <2>3. SentWithinQueue'
    BY <1>1, <1>2, <1>4, <1>5, <1>9, <2>1, <2>2
       DEF HandleRejectedWrite, SentWithinQueue, TypeOK
  <2>4. QED
    BY <1>9, <2>1, <2>3 DEF HandleRejectedWrite, TypeOK, backend, clients, history
<1>10. QED
  BY <1>6, <1>7, <1>8, <1>9 DEF Device

\* Every step of a landlord keeps the types.
LEMMA LandlordType ==
  ASSUME TypeInv, NEW l \in Landlords, Landlord(l)
  PROVE  TypeInv'
<1> USE DEF TypeInv
<1>1. l \in Users
  BY DEF Users
<1>2. \A u \in Users : /\ Pending(u) = queue[Current(u)]
                       /\ Current(u) \in Queues
                       /\ Current(u)' \in Queues
  BY DEF Pending, Current, Queues
<1>3. ASSUME UNCHANGED queue, sent'[l] = 0,
             \A u \in Users \ {l} : sent'[u] = sent[u] /\ client'[u] = client[u]
      PROVE  SentWithinQueue'
  <2>1. \A q \in Queues : Len(queue[q]) \in Nat
    BY LenProperties DEF TypeOK
  <2>2. \A u \in Users : Pending(u)' = queue[Current(u)']
    BY <1>3 DEF Pending
  <2>3. \A u \in Users \ {l} : Current(u)' = Current(u)
    BY <1>3 DEF Current
  <2>4. QED
    BY <1>2, <1>3, <2>1, <2>2, <2>3 DEF SentWithinQueue
<1>4. CASE Kill(l)
  BY <1>1, <1>3, <1>4 DEF Kill, Die, TypeOK, backend, history
<1>5. CASE LogIn(l)
  BY <1>1, <1>3, <1>5 DEF LogIn, TypeOK, backend, history
<1>6. CASE LogOut(l)
  BY <1>1, <1>3, <1>6 DEF LogOut, TypeOK, backend, history
<1>7. CASE RequestsSnapshot(l)
  <2>1. RequestsView(l) \in SUBSET Request
    BY DEF RequestsView, LocalRequests, TypeOK, Database
  <2>2. SentWithinQueue'
    BY <1>7 DEF RequestsSnapshot, SentWithinQueue, Pending, Current
  <2>3. QED
    BY <1>7, <2>1, <2>2 DEF RequestsSnapshot, TypeOK, backend, history
<1>8. CASE PropertiesSnapshotCrash(l)
  BY <1>1, <1>3, <1>8 DEF PropertiesSnapshotCrash, Die, TypeOK, backend, history
<1>9. ASSUME NEW p \in Props, RegisterTapped(l, p)
      PROVE  TypeInv'
  <2>1. RegisterWrites(l, p) \in Seq(Write) /\ Len(RegisterWrites(l, p)) > 0
    <3>1. AddProperty(l, p) \in Write /\ AddListing(l, p) \in Write
      BY DEF AddProperty, AddListing, AWrite, Write, PropertyOps
    <3>2. QED
      BY <3>1 DEF RegisterWrites
  <2>2. Handler(l, RegisterWrites(l, p), {})
    BY <1>9 DEF RegisterTapped
  <2>3. PICK ws \in Seq(Write) : Outcome(l, RegisterWrites(l, p), {}, ws)
    BY <2>1, <2>2, HandlerFacts
  <2>4. queue' \in [Queues -> Seq(Write)]
    BY <1>1, <2>3, EnqueueFacts DEF Outcome
  <2>5. SentWithinQueue'
    BY <1>1, <2>3, EnqueueBound DEF Outcome
  <2>6. registered' \in SUBSET (Landlords \X Props)
    BY <1>9 DEF RegisterTapped, TypeOK
  <2>7. /\ UNCHANGED <<backend, typed, asking, deleted, requestIds, swipes, accepted>>
        /\ Die(l) \/ (/\ accepting' = [accepting EXCEPT ![l] = @ \cup {}]
                      /\ UNCHANGED <<client, sent, list>>)
    BY <1>9, <2>3 DEF RegisterTapped, Outcome
  <2>8. QED
    BY <2>4, <2>5, <2>6, <2>7, DieType DEF TypeOK, backend
<1>10. ASSUME NEW p \in Props, DeleteTapped(l, p)
       PROVE  TypeInv'
  <2>1. <<DeleteProperty(l, p)>> \in Seq(Write)
    BY DEF DeleteProperty, AWrite, Write, PropertyOps
  <2>2. Enqueue(l, <<DeleteProperty(l, p)>>) /\ UNCHANGED <<client, sent>>
    BY <1>10 DEF DeleteTapped, clients
  <2>3. queue' \in [Queues -> Seq(Write)] /\ SentWithinQueue'
    BY <1>1, <2>1, <2>2, EnqueueFacts, EnqueueBound
  <2>4. QED
    BY <1>10, <2>3 DEF DeleteTapped, TypeOK, backend, clients
<1>11. ASSUME NEW r \in list[l], Decline(l, r)
       PROVE  TypeInv'
  <2>1. r \in Request
    BY DEF TypeOK
  <2>2. DeclineWrites(l, r) \in Seq(Write)
    BY <2>1 DEF DeclineWrites, RemoveRequest, AWrite, Write, TenancyOps, Request
  <2>3. Enqueue(l, DeclineWrites(l, r)) /\ UNCHANGED <<client, sent>>
    BY <1>11 DEF Decline, clients
  <2>4. queue' \in [Queues -> Seq(Write)] /\ SentWithinQueue'
    BY <1>1, <2>2, <2>3, EnqueueFacts, EnqueueBound
  <2>5. QED
    BY <1>11, <2>4 DEF Decline, TypeOK, backend, clients
<1>12. ASSUME NEW r \in list[l], Accept(l, r)
       PROVE  TypeInv'
  <2> DEFINE a == [landlord |-> l, tenant |-> r.tenant, prop |-> r.prop,
                   id |-> swipes + 1]
  <2>1. r \in Request /\ a \in Acceptance
    BY DEF TypeOK, Request, Acceptance
  <2>2. AcceptWrites(l, r) \in Seq(Write) /\ Len(AcceptWrites(l, r)) > 0
    BY <2>1 DEF AcceptWrites, RemoveRequest, MakePairedTrue, AddNameToProperty,
                AWrite, Write, TenancyOps, Request
  <2>3. Handler(l, AcceptWrites(l, r), {a})
    BY <1>12 DEF Accept
  <2>4. PICK ws \in Seq(Write) : Outcome(l, AcceptWrites(l, r), {a}, ws)
    BY <2>2, <2>3, HandlerFacts
  <2>5. queue' \in [Queues -> Seq(Write)]
    BY <1>1, <2>4, EnqueueFacts DEF Outcome
  <2>6. SentWithinQueue'
    BY <1>1, <2>4, EnqueueBound DEF Outcome
  <2>7. accepted' \in SUBSET Acceptance /\ swipes' \in Nat
    BY <1>12, <2>1 DEF Accept, TypeOK
  <2>8. CASE Die(l)
    BY <1>12, <2>5, <2>6, <2>7, <2>8, DieType DEF Accept, TypeOK, backend
  <2>9. CASE /\ UNCHANGED <<client, sent, list>>
             /\ accepting' = [accepting EXCEPT ![l] = @ \cup {a}]
    <3>1. accepting' \in [Landlords -> SUBSET Acceptance]
      BY <2>1, <2>9 DEF TypeOK
    <3>2. QED
      BY <1>12, <2>5, <2>6, <2>7, <2>9, <3>1 DEF Accept, TypeOK, backend
  <2>10. QED
    BY <2>4, <2>8, <2>9 DEF Outcome
<1>13. ASSUME NEW a \in accepting[l], PropertyForPayment(l, a)
       PROVE  TypeInv'
  <2>1. a \in Acceptance
    BY DEF TypeOK
  <2>2. CASE /\ Enqueue(l, <<AddPayment(l, a.tenant, a.prop, a.id)>>)
             /\ accepting' = [accepting EXCEPT ![l] = @ \ {a}]
             /\ UNCHANGED <<sent, client, list>>
    <3>1. <<AddPayment(l, a.tenant, a.prop, a.id)>> \in Seq(Write)
      BY <2>1 DEF AddPayment, AWrite, Write, TenancyOps, Acceptance
    <3>2. queue' \in [Queues -> Seq(Write)] /\ SentWithinQueue'
      BY <1>1, <2>2, <3>1, EnqueueFacts, EnqueueBound
    <3>3. QED
      BY <1>13, <2>2, <3>2 DEF PropertyForPayment, TypeOK, backend, history
  <2>3. CASE /\ accepting' = [accepting EXCEPT ![l] = @ \ {a}]
             /\ UNCHANGED <<queue, sent, client, list>>
    <3>1. SentWithinQueue'
      BY <2>3 DEF SentWithinQueue, Pending, Current
    <3>2. QED
      BY <1>13, <2>3, <3>1 DEF PropertyForPayment, TypeOK, backend, history
  <2>4. CASE Die(l) /\ UNCHANGED queue
    BY <1>1, <1>3, <1>13, <2>4
       DEF PropertyForPayment, Die, TypeOK, backend, history
  <2>5. QED
    BY <1>13, <2>2, <2>3, <2>4 DEF PropertyForPayment
<1>14. QED
  BY <1>4, <1>5, <1>6, <1>7, <1>8, <1>9, <1>10, <1>11, <1>12, <1>13 DEF Landlord

\* Every step of a tenant keeps the types.
LEMMA TenantType ==
  ASSUME TypeInv, NEW t \in Tenants, Tenant(t)
  PROVE  TypeInv'
<1> USE DEF TypeInv
<1>1. t \in Users
  BY DEF Users
<1>2. ASSUME UNCHANGED <<queue, sent, client>>
      PROVE  SentWithinQueue'
  BY <1>2 DEF SentWithinQueue, Pending, Current
<1>3. ASSUME NEW p \in Props, EditPropertyID(t, p)
      PROVE  TypeInv'
  BY <1>2, <1>3 DEF EditPropertyID, TypeOK, backend, history
<1>4. CASE SendRequestTapped(t)
  BY <1>2, <1>4 DEF SendRequestTapped, TypeOK, backend, history
<1>5. CASE ListingNotFound(t)
  BY <1>2, <1>5 DEF ListingNotFound, TypeOK, backend, history
<1>6. CASE ListingFound(t)
  <2> DEFINE r == [id |-> requestIds + 1, tenant |-> t, prop |-> typed[t]]
             l == db.listings[asking[t]]
  <2>1. r \in Request
    BY DEF TypeOK, Request
  <2>2. l \in Landlords
    BY <1>6 DEF ListingFound, DocumentExists, TypeOK, Database
  <2>3. <<AddRequest(l, r)>> \in Seq(Write)
    BY <2>1, <2>2 DEF AddRequest, AWrite, Write, TenancyOps, Request
  <2>4. Enqueue(t, <<AddRequest(l, r)>>) /\ UNCHANGED <<client, sent>>
    BY <1>6 DEF ListingFound
  <2>5. queue' \in [Queues -> Seq(Write)] /\ SentWithinQueue'
    BY <1>1, <2>3, <2>4, EnqueueFacts, EnqueueBound
  <2>6. QED
    BY <1>6, <2>5 DEF ListingFound, TypeOK, backend
<1>7. QED
  BY <1>3, <1>4, <1>5, <1>6 DEF Tenant

\* A fresh installation is well typed.
LEMMA TypeInit == Init => TypeInv
<1> SUFFICES ASSUME Init PROVE TypeInv
  OBVIOUS
<1>1. db \in Database
  BY DEF Init, EmptyDatabase, Database, UserDoc, RentalDoc, NoRental
<1>2. queue \in [Queues -> Seq(Write)]
  BY EmptySeq DEF Init
<1>3. SentWithinQueue
  BY EmptySeq DEF Init, SentWithinQueue, Pending, Current, Queues
<1>4. QED
  BY <1>1, <1>2, <1>3 DEF Init, TypeInv, TypeOK

\* Every step keeps the types, and counts no write as sent that is not queued.
LEMMA TypeStep == TypeInv /\ [Next]_vars => TypeInv'
<1> SUFFICES ASSUME TypeInv, [Next]_vars PROVE TypeInv'
  OBVIOUS
<1>1. CASE UNCHANGED vars
  BY <1>1 DEF vars, backend, clients, history, TypeInv, TypeOK,
              SentWithinQueue, Pending, Current
<1>2. QED
  BY <1>1, DeviceType, LandlordType, TenantType DEF Next

\* The documents, the queues and the state of the apps always have the shape
\* the code gives them, and no device waits for more acknowledgements than it
\* has writes queued.
THEOREM TypeCorrect == Spec => []TypeOK
<1>1. Spec => []TypeInv
  BY TypeInit, TypeStep, PTL DEF Spec
<1>2. TypeInv => TypeOK
  BY DEF TypeInv
<1>3. QED
  BY <1>1, <1>2, PTL

(***************************************************************************)
(* The kinds of steps, as far as tenancies are concerned.                  *)
(***************************************************************************)

\* The writes of a user that the backend has committed stay the first ones of
\* its queue, or none is remembered as committed.
SentKept ==
  \A u \in Users : sent'[u] = 0 \/ (sent'[u] = sent[u] /\ Current(u)' = Current(u))

CallsKept == \A l \in Landlords : accepting'[l] \subseteq accepting[l]

\* Nothing is written and no call is made.
QuietStep == UNCHANGED <<backend, queue, accepted>> /\ SentKept /\ CallsKept

\* The user u writes ws.
WriteStep(u, ws) == UNCHANGED backend /\ SentKept /\ Enqueue(u, ws)

\* None of the writes concerns a tenancy.
PlainStep(u, ws) ==
  /\ WriteStep(u, ws)
  /\ UNCHANGED accepted /\ CallsKept
  /\ \A i \in 1 .. Len(ws) : ws[i].op \notin {"pair", "name", "pay"}

\* The landlord l accepts a request by the gesture a.
AcceptStep(l, ws, a) ==
  /\ WriteStep(l, ws)
  /\ client[l] = "user"
  /\ a.landlord = l
  /\ accepted' = accepted \cup {a}
  /\ Len(ws) \in 1 .. 3
  /\ ws[1].op = "deleteRequest"
  /\ Len(ws) > 1 => ws[2] = MakePairedTrue(l, a.tenant, a.prop)
  /\ Len(ws) > 2 => ws[3] = AddNameToProperty(l, a.tenant, a.prop)
  /\ \A m \in Landlords \ {l} : accepting'[m] \subseteq accepting[m]
  /\ \/ Len(ws) = 3 /\ accepting'[l] \subseteq accepting[l] \cup {a}
     \/ accepting'[l] = {}

\* The property for the payment of a has been read.
PayStep(l, a) ==
  /\ WriteStep(l, <<AddPayment(l, a.tenant, a.prop, a.id)>>)
  /\ a \in accepting[l]
  /\ UNCHANGED accepted /\ CallsKept

TenancyStep ==
  \/ \E u \in Users : Device(u)
  \/ QuietStep
  \/ \E u \in Users : \E ws \in Seq(Write) : PlainStep(u, ws)
  \/ \E l \in Landlords : \E ws \in Seq(Write), a \in Acceptance :
       AcceptStep(l, ws, a)
  \/ \E l \in Landlords : \E a \in accepting[l] : PayStep(l, a)

\* A dying process keeps what SentKept and CallsKept say.
LEMMA DieKept ==
  ASSUME TypeOK, NEW l \in Landlords, Die(l)
  PROVE  SentKept /\ CallsKept /\ accepting'[l] = {}
<1>1. SentKept
  BY DieType DEF SentKept
<1>2. QED
  BY <1>1 DEF Die, CallsKept, TypeOK

\* Handlers of the landlord.
LEMMA LandlordTenancyStep ==
  ASSUME TypeInv, NEW l \in Landlords, Landlord(l)
  PROVE  TenancyStep
<1> USE DEF TypeInv
<1>1. l \in Users
  BY DEF Users
<1>2. ASSUME UNCHANGED <<client, sent>> PROVE SentKept
  BY <1>2 DEF SentKept, Current
<1>3. ASSUME UNCHANGED accepting PROVE CallsKept
  BY <1>3 DEF CallsKept
<1>4. CASE Kill(l) \/ PropertiesSnapshotCrash(l)
  <2>1. QuietStep
    BY <1>4, DieKept DEF Kill, PropertiesSnapshotCrash, QuietStep, history
  <2>2. QED
    BY <2>1 DEF TenancyStep
<1>5. CASE LogIn(l) \/ LogOut(l)
  <2>1. SentKept
    BY <1>5 DEF LogIn, LogOut, SentKept, Current, TypeOK
  <2>2. QuietStep
    BY <1>3, <1>5, <2>1 DEF LogIn, LogOut, QuietStep, history
  <2>3. QED
    BY <2>2 DEF TenancyStep
<1>6. CASE RequestsSnapshot(l)
  <2>1. QuietStep
    BY <1>2, <1>3, <1>6 DEF RequestsSnapshot, QuietStep, history
  <2>2. QED
    BY <2>1 DEF TenancyStep
<1>7. ASSUME NEW p \in Props, RegisterTapped(l, p)
      PROVE  TenancyStep
  <2>1. /\ RegisterWrites(l, p) \in Seq(Write)
        /\ Len(RegisterWrites(l, p)) = 2
        /\ \A i \in 1 .. 2 : RegisterWrites(l, p)[i].op \in PropertyOps
    <3>1. AddProperty(l, p) \in Write /\ AddListing(l, p) \in Write
      BY DEF AddProperty, AddListing, AWrite, Write, PropertyOps
    <3>2. QED
      BY <3>1 DEF RegisterWrites, AddProperty, AddListing, AWrite, PropertyOps
  <2>2. PICK ws \in Seq(Write) : Outcome(l, RegisterWrites(l, p), {}, ws)
    <3>1. Len(RegisterWrites(l, p)) > 0
      BY <2>1
    <3>2. Handler(l, RegisterWrites(l, p), {})
      BY <1>7 DEF RegisterTapped
    <3>3. QED
      BY <2>1, <3>1, <3>2, HandlerFacts
  <2>3. SentKept /\ CallsKept
    <3>1. CASE Die(l)
      BY <3>1, DieKept
    <3>2. CASE /\ accepting' = [accepting EXCEPT ![l] = @ \cup {}]
               /\ UNCHANGED <<client, sent, list>>
      BY <1>2, <3>2 DEF CallsKept, TypeOK
    <3>3. QED
      BY <2>2, <3>1, <3>2 DEF Outcome
  <2>4. \A i \in 1 .. Len(ws) : ws[i].op \notin {"pair", "name", "pay"}
    BY <2>1, <2>2 DEF Outcome, PropertyOps
  <2>5. PlainStep(l, ws)
    BY <1>7, <2>2, <2>3, <2>4 DEF PlainStep, WriteStep, Outcome, RegisterTapped
  <2>6. QED
    BY <1>1, <2>5 DEF TenancyStep
<1>8. ASSUME NEW p \in Props, DeleteTapped(l, p)
      PROVE  TenancyStep
  <2>1. /\ <<DeleteProperty(l, p)>> \in Seq(Write)
        /\ <<DeleteProperty(l, p)>>[1].op \notin {"pair", "name", "pay"}
    BY DEF DeleteProperty, AWrite, Write, PropertyOps
  <2>2. PlainStep(l, <<DeleteProperty(l, p)>>)
    BY <1>2, <1>3, <1>8, <2>1 DEF PlainStep, WriteStep, DeleteTapped, clients
  <2>3. QED
    BY <1>1, <2>1, <2>2 DEF TenancyStep
<1>9. ASSUME NEW r \in list[l], Decline(l, r)
      PROVE  TenancyStep
  <2>1. r \in Request
    BY DEF TypeOK
  <2>2. /\ DeclineWrites(l, r) \in Seq(Write)
        /\ Len(DeclineWrites(l, r)) = 1
        /\ DeclineWrites(l, r)[1].op \notin {"pair", "name", "pay"}
    BY <2>1 DEF DeclineWrites, RemoveRequest, AWrite, Write, TenancyOps, Request
  <2>3. PlainStep(l, DeclineWrites(l, r))
    BY <1>2, <1>3, <1>9, <2>2 DEF PlainStep, WriteStep, Decline, clients
  <2>4. QED
    BY <1>1, <2>2, <2>3 DEF TenancyStep
<1>10. ASSUME NEW r \in list[l], Accept(l, r)
       PROVE  TenancyStep
  <2> DEFINE a == [landlord |-> l, tenant |-> r.tenant, prop |-> r.prop,
                   id |-> swipes + 1]
  <2>1. r \in Request /\ a \in Acceptance
    BY DEF TypeOK, Request, Acceptance
  <2>2. /\ AcceptWrites(l, r) \in Seq(Write)
        /\ Len(AcceptWrites(l, r)) = 3
        /\ AcceptWrites(l, r)[1].op = "deleteRequest"
        /\ AcceptWrites(l, r)[2] = MakePairedTrue(l, a.tenant, a.prop)
        /\ AcceptWrites(l, r)[3] = AddNameToProperty(l, a.tenant, a.prop)
    BY <2>1 DEF AcceptWrites, RemoveRequest, MakePairedTrue, AddNameToProperty,
                AWrite, Write, TenancyOps, Request
  <2>3. PICK ws \in Seq(Write) : Outcome(l, AcceptWrites(l, r), {a}, ws)
    BY <1>10, <2>2, HandlerFacts DEF Accept
  <2>4. /\ SentKept
        /\ \A m \in Landlords \ {l} : accepting'[m] \subseteq accepting[m]
        /\ \/ Len(ws) = 3 /\ accepting'[l] \subseteq accepting[l] \cup {a}
           \/ accepting'[l] = {}
    <3>1. CASE Die(l)
      BY <3>1, DieKept DEF CallsKept
    <3>2. CASE /\ ws = AcceptWrites(l, r)
               /\ accepting' = [accepting EXCEPT ![l] = @ \cup {a}]
               /\ UNCHANGED <<client, sent, list>>
      BY <1>2, <2>2, <3>2 DEF TypeOK
    <3>3. QED
      BY <2>3, <3>1, <3>2 DEF Outcome
  <2>5. /\ Len(ws) \in 1 .. 3
        /\ \A i \in 1 .. Len(ws) : ws[i] = AcceptWrites(l, r)[i]
        /\ Enqueue(l, ws)
    BY <2>2, <2>3 DEF Outcome
  <2>6. /\ ws[1].op = "deleteRequest"
        /\ Len(ws) > 1 => ws[2] = MakePairedTrue(l, a.tenant, a.prop)
        /\ Len(ws) > 2 => ws[3] = AddNameToProperty(l, a.tenant, a.prop)
    BY <2>2, <2>5
  <2>7. a.landlord = l /\ accepted' = accepted \cup {a}
    BY <1>10 DEF Accept
  <2>8. UNCHANGED backend /\ client[l] = "user"
    BY <1>10 DEF Accept
  <2>9. AcceptStep(l, ws, a)
    BY <2>4, <2>5, <2>6, <2>7, <2>8 DEF AcceptStep, WriteStep
  <2>10. QED
    BY <2>1, <2>9 DEF TenancyStep
<1>11. ASSUME NEW a \in accepting[l], PropertyForPayment(l, a)
       PROVE  TenancyStep
  <2>1. ASSUME accepting' = [accepting EXCEPT ![l] = @ \ {a}]
        PROVE  CallsKept
    BY <2>1 DEF CallsKept, TypeOK
  <2>2. CASE /\ Enqueue(l, <<AddPayment(l, a.tenant, a.prop, a.id)>>)
             /\ accepting' = [accepting EXCEPT ![l] = @ \ {a}]
             /\ UNCHANGED <<sent, client, list>>
    <3>1. PayStep(l, a)
      BY <1>2, <1>11, <2>1, <2>2 DEF PayStep, WriteStep, PropertyForPayment, history
    <3>2. QED
      BY <3>1 DEF TenancyStep
  <2>3. CASE /\ accepting' = [accepting EXCEPT ![l] = @ \ {a}]
             /\ UNCHANGED <<queue, sent, client, list>>
    <3>1. QuietStep
      BY <1>2, <1>11, <2>1, <2>3 DEF QuietStep, PropertyForPayment, history
    <3>2. QED
      BY <3>1 DEF TenancyStep
  <2>4. CASE Die(l) /\ UNCHANGED queue
    <3>1. QuietStep
      BY <1>11, <2>4, DieKept DEF QuietStep, PropertyForPayment, history
    <3>2. QED
      BY <3>1 DEF TenancyStep
  <2>5. QED
    BY <1>11, <2>2, <2>3, <2>4 DEF PropertyForPayment
<1>12. QED
  BY <1>4, <1>5, <1>6, <1>7, <1>8, <1>9, <1>10, <1>11 DEF Landlord

\* Handlers of the tenant.
LEMMA TenantTenancyStep ==
  ASSUME TypeInv, NEW t \in Tenants, Tenant(t)
  PROVE  TenancyStep
<1> USE DEF TypeInv
<1>1. t \in Users
  BY DEF Users
<1>2. ASSUME UNCHANGED <<client, sent, accepting>> PROVE SentKept /\ CallsKept
  BY <1>2 DEF SentKept, Current, CallsKept
<1>3. ASSUME \/ \E p \in Props : EditPropertyID(t, p)
             \/ SendRequestTapped(t)
             \/ ListingNotFound(t)
      PROVE  TenancyStep
  <2>1. QuietStep
    BY <1>2, <1>3
       DEF QuietStep, EditPropertyID, SendRequestTapped, ListingNotFound, history
  <2>2. QED
    BY <2>1 DEF TenancyStep
<1>4. CASE ListingFound(t)
  <2> DEFINE r == [id |-> requestIds + 1, tenant |-> t, prop |-> typed[t]]
             l == db.listings[asking[t]]
  <2>1. r \in Request /\ l \in Landlords
    BY <1>4 DEF TypeOK, Request, ListingFound, DocumentExists, Database
  <2>2. /\ <<AddRequest(l, r)>> \in Seq(Write)
        /\ <<AddRequest(l, r)>>[1].op \notin {"pair", "name", "pay"}
    BY <2>1 DEF AddRequest, AWrite, Write, TenancyOps, Request
  <2>3. Enqueue(t, <<AddRequest(l, r)>>) /\ UNCHANGED <<backend, accepted>>
    BY <1>4 DEF ListingFound
  <2>4. SentKept /\ CallsKept
    BY <1>2, <1>4 DEF ListingFound
  <2>5. PlainStep(t, <<AddRequest(l, r)>>)
    BY <2>2, <2>3, <2>4 DEF PlainStep, WriteStep
  <2>6. QED
    BY <1>1, <2>2, <2>5 DEF TenancyStep
<1>5. QED
  BY <1>3, <1>4 DEF Tenant

\* Every step of the system is of one of these kinds.
LEMMA EveryTenancyStep ==
  ASSUME TypeInv, [Next]_vars
  PROVE  TenancyStep
<1>1. CASE UNCHANGED vars
  <2>1. QuietStep
    BY <1>1 DEF QuietStep, SentKept, CallsKept, Current, vars, backend, clients, history
  <2>2. QED
    BY <2>1 DEF TenancyStep
<1>2. CASE \E u \in Users : Device(u)
  BY <1>2 DEF TenancyStep
<1>3. QED
  BY <1>1, <1>2, LandlordTenancyStep, TenantTenancyStep DEF Next

(***************************************************************************)
(* Every trace of a tenancy comes from an acceptance.                      *)
(***************************************************************************)

\* A write about a tenancy goes back to an accept gesture.
Traced(w, acc) ==
  /\ w.op = "pair" =>
       \E a \in acc : a.tenant = w.tenant /\ a.prop = w.prop
  /\ w.op = "name" =>
       \E a \in acc : /\ a.landlord = w.landlord
                           /\ a.tenant = w.tenant /\ a.prop = w.prop
  /\ w.op = "pay" =>
       [landlord |-> w.landlord, tenant |-> w.tenant, prop |-> w.prop,
        id |-> w.id] \in acc

QueuesTraced ==
  \A q \in Queues : \A i \in 1 .. Len(queue[q]) : Traced(queue[q][i], accepted)

CallsTraced ==
  \A l \in Landlords : \A a \in accepting[l] : a \in accepted /\ a.landlord = l

\* TracesToAcceptance is about the backend alone; what reaches the backend
\* waits in the queues and in the calls before.
TraceInv == TypeInv /\ QueuesTraced /\ CallsTraced /\ TracesToAcceptance

\* What traces to an accept gesture still does after more gestures.
LEMMA TracedKept ==
  ASSUME NEW w, NEW acc, NEW new, Traced(w, acc), acc \subseteq new
  PROVE  Traced(w, new)
BY DEF Traced

\* A write to the end of a queue.
LEMMA TracedWrite ==
  ASSUME TypeOK, NEW u \in Users, NEW ws \in Seq(Write), Enqueue(u, ws),
         QueuesTraced, accepted \subseteq accepted',
         \A i \in 1 .. Len(ws) : Traced(ws[i], accepted')
  PROVE  QueuesTraced'
<1>1. SUFFICES ASSUME NEW q \in Queues, NEW i \in 1 .. Len(queue'[q])
               PROVE  Traced(queue'[q][i], accepted')
  BY DEF QueuesTraced, Queues
<1>2. CASE i \in 1 .. Len(queue[q])
  <2>1. queue'[q][i] = queue[q][i]
    BY <1>2, EnqueueEntries
  <2>2. Traced(queue[q][i], accepted)
    BY <1>2 DEF QueuesTraced
  <2>3. QED
    BY <2>1, <2>2, TracedKept
<1>3. CASE i \notin 1 .. Len(queue[q])
  <2>1. \E j \in 1 .. Len(ws) : queue'[q][i] = ws[j]
    BY <1>3, EnqueueEntries
  <2>2. QED
    BY <2>1
<1>4. QED
  BY <1>2, <1>3

\* The end of the oldest write of a queue.
LEMMA TracedPop ==
  ASSUME TypeOK, NEW u \in Users, Pending(u) # <<>>,
         queue' = [queue EXCEPT ![Current(u)] = Tail(@)],
         QueuesTraced, accepted' = accepted
  PROVE  QueuesTraced'
<1>1. SUFFICES ASSUME NEW q \in Queues, NEW i \in 1 .. Len(queue'[q])
               PROVE  Traced(queue'[q][i], accepted')
  BY DEF QueuesTraced, Queues
<1>2. \E j \in 1 .. Len(queue[q]) : queue'[q][i] = queue[q][j]
  BY PopEntries
<1>3. QED
  BY <1>2, TracedKept DEF QueuesTraced

\* How a write changes the name on a property.
LEMMA RentalCommit ==
  ASSUME TypeOK, NEW w \in Write, db' = ApplyWrite(db, w),
         NEW l \in Landlords, NEW p \in Props
  PROVE  \/ db'.rentals[l][p].tenant \in {None, db.rentals[l][p].tenant}
         \/ /\ w.op = "name"
            /\ l = w.landlord /\ p = w.prop
            /\ db'.rentals[l][p].tenant = w.tenant
<1>1. /\ db.rentals \in [Landlords -> [Props -> RentalDoc]]
      /\ w.landlord \in Landlords
      /\ w.prop \in Props
      /\ w.op \in PropertyOps \cup TenancyOps
  BY DEF TypeOK, Database, Write, PropertyOps, TenancyOps
<1>2. CASE w.op \in {"addListing", "addRequest", "deleteRequest", "pair", "pay"}
  BY <1>2 DEF ApplyWrite, TypeOK, Database
<1>3. CASE w.op \in {"addProperty", "deleteProperty"}
  <2>1. PICK doc : /\ doc.tenant = None
                   /\ db' = [db EXCEPT !.rentals[w.landlord][w.prop] = doc]
    BY <1>3 DEF ApplyWrite, FullRental, NoRental
  <2>2. db'.rentals[l][p] = db.rentals[l][p] \/ db'.rentals[l][p] = doc
    BY <1>1, <2>1 DEF TypeOK, Database
  <2>3. QED
    BY <2>1, <2>2
<1>4. CASE w.op = "name"
  <2> DEFINE doc == MergeTenant(db.rentals[w.landlord][w.prop], w.tenant)
  <2>1. db' = [db EXCEPT !.rentals[w.landlord][w.prop] = doc]
    BY <1>4 DEF ApplyWrite
  <2>2. doc.tenant = w.tenant
    BY DEF MergeTenant
  <2> HIDE DEF doc
  <2>3. \/ db'.rentals[l][p] = db.rentals[l][p]
        \/ db'.rentals[l][p] = doc /\ l = w.landlord /\ p = w.prop
    BY <1>1, <2>1 DEF TypeOK, Database
  <2>4. QED
    BY <1>4, <2>2, <2>3
<1>5. QED
  BY <1>1, <1>2, <1>3, <1>4 DEF PropertyOps, TenancyOps

\* How a write changes the payments of a tenant.
LEMMA PaymentCommit ==
  ASSUME TypeOK, NEW w \in Write, db' = ApplyWrite(db, w), NEW t \in Tenants,
         NEW k \in db'.payments[t]
  PROVE  \/ k \in db.payments[t]
         \/ w.op = "pay" /\ t = w.tenant /\ k = PaymentOf(w)
<1>1. /\ db.payments \in [Tenants -> SUBSET Payment]
      /\ w.op \in PropertyOps \cup TenancyOps
  BY DEF TypeOK, Database, Write, PropertyOps, TenancyOps
<1>2. CASE w.op = "pay"
  <2>1. db'.payments = [db.payments EXCEPT ![w.tenant] = @ \cup {PaymentOf(w)}]
    BY <1>2 DEF ApplyWrite, TypeOK, Database
  <2>2. QED
    BY <1>1, <1>2, <2>1
<1>3. CASE w.op # "pay"
  <2>1. db'.payments = db.payments
    BY <1>1, <1>3 DEF ApplyWrite, TypeOK, Database, PropertyOps, TenancyOps
  <2>2. QED
    BY <2>1
<1>4. QED
  BY <1>2, <1>3

\* A traced write leaves the backend traced.
LEMMA TracedCommit ==
  ASSUME TypeOK, TracesToAcceptance, NEW w \in Write, Traced(w, accepted),
         db' = ApplyWrite(db, w), accepted' = accepted
  PROVE  TracesToAcceptance'
<1>1. ASSUME NEW t \in Tenants, db'.users[t].paired = "true"
      PROVE  \E a \in accepted : a.tenant = t /\ a.prop = db'.users[t].prop
  <2>1. /\ db.users \in [Tenants -> UserDoc]
        /\ w.op \in PropertyOps \cup TenancyOps
    BY DEF TypeOK, Database, Write, PropertyOps, TenancyOps
  <2>2. CASE w.op = "pair"
    <3>1. db'.users = [db.users EXCEPT
                         ![w.tenant] = [paired |-> "true", prop |-> w.prop]]
      BY <2>2 DEF ApplyWrite, TypeOK, Database
    <3>2. CASE t = w.tenant
      BY <2>1, <2>2, <3>1, <3>2 DEF Traced
    <3>3. CASE t # w.tenant
      BY <1>1, <2>1, <3>1, <3>3 DEF TracesToAcceptance
    <3>4. QED
      BY <3>2, <3>3
  <2>3. CASE w.op # "pair"
    <3>1. db'.users = db.users
      BY <2>1, <2>3 DEF ApplyWrite, TypeOK, Database, PropertyOps, TenancyOps
    <3>2. QED
      BY <1>1, <3>1 DEF TracesToAcceptance
  <2>4. QED
    BY <2>2, <2>3
<1>2. ASSUME NEW l \in Landlords, NEW p \in Props, db'.rentals[l][p].tenant # None
      PROVE  \E a \in accepted : /\ a.landlord = l /\ a.prop = p
                                 /\ a.tenant = db'.rentals[l][p].tenant
  BY <1>2, RentalCommit DEF TracesToAcceptance, Traced
<1>3. ASSUME NEW t \in Tenants, NEW k \in db'.payments[t]
      PROVE  [landlord |-> k.landlord, tenant |-> t, prop |-> k.prop,
              id |-> k.id] \in accepted
  BY PaymentCommit DEF TracesToAcceptance, Traced, PaymentOf
<1>4. QED
  BY <1>1, <1>2, <1>3 DEF TracesToAcceptance

\* A step of a device.
LEMMA TracedDevice ==
  ASSUME TraceInv, NEW u \in Users, Device(u)
  PROVE  QueuesTraced' /\ CallsTraced' /\ TracesToAcceptance'
<1> USE DEF TraceInv, TypeInv
<1>1. UNCHANGED <<accepting, accepted>>
  BY DEF Device, Commit, OnWriteStreamMutationResult, OnWriteStreamClose,
         HandleRejectedWrite, clients, history
<1>2. CallsTraced'
  BY <1>1 DEF CallsTraced
<1>3. ASSUME UNCHANGED queue PROVE QueuesTraced'
  BY <1>1, <1>3, TracedKept DEF QueuesTraced, Queues
<1>4. ASSUME UNCHANGED db PROVE TracesToAcceptance'
  BY <1>1, <1>4 DEF TracesToAcceptance
<1>5. CASE Commit(u)
  <2> DEFINE w == Pending(u)[sent[u] + 1]
  <2>1. sent[u] + 1 \in 1 .. Len(Pending(u))
    BY <1>5, PendingFacts DEF Commit, TypeOK
  <2>2. w \in Write /\ Traced(w, accepted)
    BY <2>1, PendingFacts DEF QueuesTraced
  <2>3. db' = ApplyWrite(db, w) /\ UNCHANGED queue
    BY <1>5 DEF Commit
  <2>4. TracesToAcceptance'
    BY <1>1, <2>2, <2>3, TracedCommit
  <2>5. QED
    BY <1>2, <1>3, <2>3, <2>4
<1>6. CASE OnWriteStreamMutationResult(u) \/ HandleRejectedWrite(u)
  <2>1. Pending(u) # <<>>
    <3>1. Pending(u) = <<>> => Len(Pending(u)) = 0
      BY PendingFacts, EmptySeq
    <3>2. sent[u] \in Nat /\ sent[u] <= Len(Pending(u))
      BY DEF TypeOK, SentWithinQueue
    <3>3. QED
      BY <1>6, <3>1, <3>2 DEF OnWriteStreamMutationResult, HandleRejectedWrite
  <2>2. /\ queue' = [queue EXCEPT ![Current(u)] = Tail(@)]
        /\ UNCHANGED db
    BY <1>6 DEF OnWriteStreamMutationResult, HandleRejectedWrite, backend
  <2>3. QueuesTraced'
    BY <1>1, <2>1, <2>2, TracedPop
  <2>4. QED
    BY <1>2, <1>4, <2>2, <2>3
<1>7. CASE OnWriteStreamClose(u)
  BY <1>2, <1>3, <1>4, <1>7 DEF OnWriteStreamClose, backend
<1>8. QED
  BY <1>5, <1>6, <1>7 DEF Device

\* Every step keeps what there is of a tenancy traced to a gesture: queued writes,
\* calls under way, and documents.
LEMMA TraceStep == TraceInv /\ [Next]_vars => TraceInv'
<1> SUFFICES ASSUME TraceInv, [Next]_vars PROVE TraceInv'
  OBVIOUS
<1> USE DEF TraceInv
<1>1. TypeInv' /\ TypeOK
  BY TypeStep DEF TypeInv
<1>2. TenancyStep
  BY EveryTenancyStep
<1>3. ASSUME UNCHANGED backend, accepted \subseteq accepted'
      PROVE  TracesToAcceptance'
  BY <1>3 DEF TracesToAcceptance, backend
<1>4. CASE \E u \in Users : Device(u)
  BY <1>1, <1>4, TracedDevice
<1>5. CASE QuietStep
  <2>1. QueuesTraced'
    BY <1>5, TracedKept DEF QuietStep, QueuesTraced, Queues
  <2>2. CallsTraced'
    BY <1>5 DEF QuietStep, CallsKept, CallsTraced
  <2>3. QED
    BY <1>1, <1>3, <1>5, <2>1, <2>2 DEF QuietStep
<1>6. ASSUME NEW u \in Users, NEW ws \in Seq(Write), PlainStep(u, ws)
      PROVE  TraceInv'
  <2>1. \A i \in 1 .. Len(ws) : Traced(ws[i], accepted')
    BY <1>6 DEF PlainStep, Traced
  <2>2. QueuesTraced'
    BY <1>1, <1>6, <2>1, TracedWrite DEF PlainStep, WriteStep
  <2>3. CallsTraced'
    BY <1>6 DEF PlainStep, CallsKept, CallsTraced
  <2>4. QED
    BY <1>1, <1>3, <1>6, <2>2, <2>3 DEF PlainStep, WriteStep
<1>7. ASSUME NEW l \in Landlords, NEW ws \in Seq(Write), NEW a \in Acceptance,
             AcceptStep(l, ws, a)
      PROVE  TraceInv'
  <2>1. a \in accepted' /\ a.landlord = l /\ accepted \subseteq accepted'
    BY <1>7 DEF AcceptStep
  <2>2. Traced(MakePairedTrue(l, a.tenant, a.prop), accepted')
    BY <2>1 DEF Traced, MakePairedTrue, AWrite
  <2>3. Traced(AddNameToProperty(l, a.tenant, a.prop), accepted')
    BY <2>1 DEF Traced, AddNameToProperty, AWrite
  <2>4. Traced(ws[1], accepted')
    BY <1>7 DEF AcceptStep, Traced
  <2>5. \A i \in 1 .. Len(ws) : Traced(ws[i], accepted')
    <3>1. SUFFICES ASSUME NEW i \in 1 .. Len(ws) PROVE Traced(ws[i], accepted')
      OBVIOUS
    <3>2. i = 1 \/ (i = 2 /\ Len(ws) > 1) \/ (i = 3 /\ Len(ws) > 2)
      <4>1. Len(ws) \in 1 .. 3
        BY <1>7 DEF AcceptStep
      <4>2. \A n \in 1 .. 3 : \A j \in 1 .. n :
              j = 1 \/ (j = 2 /\ n > 1) \/ (j = 3 /\ n > 2)
        OBVIOUS
      <4>3. QED
        BY <4>1, <4>2
    <3>3. QED
      BY <1>7, <2>2, <2>3, <2>4, <3>2 DEF AcceptStep
  <2>6. QueuesTraced'
    BY <1>1, <1>7, <2>1, <2>5, TracedWrite DEF AcceptStep, WriteStep, Users
  <2>7. CallsTraced'
    BY <1>7, <2>1 DEF AcceptStep, CallsTraced
  <2>8. QED
    BY <1>1, <1>3, <1>7, <2>1, <2>6, <2>7 DEF AcceptStep, WriteStep
<1>8. ASSUME NEW l \in Landlords, NEW a \in accepting[l], PayStep(l, a)
      PROVE  TraceInv'
  <2> DEFINE w == AddPayment(l, a.tenant, a.prop, a.id)
  <2>1. a \in accepted /\ a.landlord = l /\ a \in Acceptance
    BY <1>1 DEF CallsTraced, TypeOK
  <2>2. a = [landlord |-> l, tenant |-> a.tenant, prop |-> a.prop, id |-> a.id]
    BY <2>1 DEF Acceptance
  <2>3. accepted' = accepted
    BY <1>8 DEF PayStep
  <2>4. Traced(w, accepted')
    BY <2>1, <2>2, <2>3 DEF Traced, AddPayment, AWrite
  <2>5. w \in Write
    BY <2>1 DEF AddPayment, AWrite, Write, TenancyOps, Acceptance
  <2>6. <<w>> \in Seq(Write) /\ \A i \in 1 .. Len(<<w>>) : Traced(<<w>>[i], accepted')
    BY <2>4, <2>5
  <2>7. QueuesTraced'
    BY <1>1, <1>8, <2>3, <2>6, TracedWrite DEF PayStep, WriteStep, Users
  <2>8. CallsTraced'
    BY <1>8 DEF PayStep, CallsKept, CallsTraced
  <2>9. QED
    BY <1>1, <1>3, <1>8, <2>3, <2>7, <2>8 DEF PayStep, WriteStep
<1>9. QED
  BY <1>2, <1>4, <1>5, <1>6, <1>7, <1>8 DEF TenancyStep

\* The paired flag of a tenant, the name on a property and every payment on
\* the backend come from an accept gesture for that tenant, whatever is lost,
\* sent again or cut short by the end of a process.
THEOREM AcceptanceTraced == Spec => []TracesToAcceptance
<1>1. Init => TraceInv
  <2>1. SUFFICES ASSUME Init PROVE TraceInv
    OBVIOUS
  <2>2. \A q \in Queues : Len(queue[q]) = 0
    BY <2>1, EmptySeq DEF Init
  <2>3. QueuesTraced
    BY <2>2 DEF QueuesTraced
  <2>4. CallsTraced
    BY <2>1 DEF Init, CallsTraced
  <2>5. TracesToAcceptance
    BY <2>1 DEF Init, EmptyDatabase, NoRental, TracesToAcceptance
  <2>6. QED
    BY <2>1, <2>3, <2>4, <2>5, TypeInit DEF TraceInv
<1>2. TraceInv => TracesToAcceptance
  BY DEF TraceInv
<1>3. QED
  BY <1>1, <1>2, TraceStep, PTL DEF Spec


(***************************************************************************)
(* The order in which the parts of a tenancy reach the backend.            *)
(***************************************************************************)

(***************************************************************************)
(* What the device takes for committed is committed.                       *)
(***************************************************************************)

\* A pairing among the writes sent since the stream opened is on the backend.
SentPaired ==
  \A u \in Users : \A i \in 1 .. sent[u] :
    Pending(u)[i].op = "pair" =>
      <<Pending(u)[i].tenant, Pending(u)[i].prop>> \in pairings

PipelineInv == TypeInv /\ SentPaired

\* The facts about a device on which the rest of the module builds.
LEMMA DeviceFacts ==
  ASSUME TypeInv, NEW u \in Users
  PROVE  /\ Len(Pending(u)) \in Nat
         /\ sent[u] \in Nat
         /\ sent[u] <= Len(Pending(u))
         /\ \A i \in 1 .. sent[u] : i \in 1 .. Len(Pending(u))
         /\ \A v \in Users \ {u} : Current(v) # Current(u)
<1>1. \A v \in Users \ {u} : Current(v) # Current(u)
  BY DEF Current
<1>2. Len(Pending(u)) \in Nat
  BY PendingFacts DEF TypeInv
<1>3. sent[u] \in Nat /\ sent[u] <= Len(Pending(u))
  BY DEF TypeInv, TypeOK, SentWithinQueue
<1>4. QED
  BY <1>1, <1>2, <1>3

\* A commit records the pairing it carries and forgets none.
LEMMA CommitFacts ==
  ASSUME TypeInv, NEW u \in Users, Commit(u)
  PROVE  \E w \in Write :
           /\ sent[u] + 1 \in 1 .. Len(Pending(u))
           /\ w = Pending(u)[sent[u] + 1]
           /\ db' = ApplyWrite(db, w)
           /\ pairings \subseteq pairings'
           /\ w.op = "pair" => <<w.tenant, w.prop>> \in pairings'
           /\ sent' = [sent EXCEPT ![u] = @ + 1]
           /\ UNCHANGED <<queue, client, accepting>>
<1> DEFINE w == Pending(u)[sent[u] + 1]
<1>1. sent[u] + 1 \in 1 .. Len(Pending(u))
  BY DeviceFacts DEF Commit
<1>2. w \in Write
  BY <1>1, PendingFacts DEF TypeInv
<1>3. pairings' = IF w.op = "pair" THEN pairings \cup {<<w.tenant, w.prop>>}
                                   ELSE pairings
  BY DEF Commit
<1>4. /\ db' = ApplyWrite(db, w)
      /\ sent' = [sent EXCEPT ![u] = @ + 1]
      /\ UNCHANGED <<queue, client, accepting>>
  BY DEF Commit, clients
<1>5. QED
  BY <1>1, <1>2, <1>3, <1>4

\* What an acknowledgement or a refusal does.
LEMMA RemovalFacts ==
  ASSUME TypeInv, NEW u \in Users,
         OnWriteStreamMutationResult(u) \/ HandleRejectedWrite(u)
  PROVE  /\ Pending(u) # <<>>
         /\ queue' = [queue EXCEPT ![Current(u)] = Tail(@)]
         /\ UNCHANGED <<backend, client, accepting>>
<1>1. Pending(u) = <<>> => Len(Pending(u)) = 0
  BY PendingFacts, EmptySeq DEF TypeInv
<1>2. QED
  BY <1>1, DeviceFacts
     DEF OnWriteStreamMutationResult, HandleRejectedWrite, clients

\* A commit records the pairing it counts as sent.
LEMMA PipelineCommit ==
  ASSUME PipelineInv, NEW u \in Users, Commit(u)
  PROVE  SentPaired'
<1> USE DEF PipelineInv
<1>1. PICK w \in Write :
        /\ w = Pending(u)[sent[u] + 1]
        /\ pairings \subseteq pairings'
        /\ w.op = "pair" => <<w.tenant, w.prop>> \in pairings'
        /\ sent' = [sent EXCEPT ![u] = @ + 1]
        /\ UNCHANGED <<queue, client>>
  BY CommitFacts
<1>2. SUFFICES ASSUME NEW v \in Users, NEW i \in 1 .. sent'[v],
                      Pending(v)[i].op = "pair"
               PROVE  <<Pending(v)[i].tenant, Pending(v)[i].prop>> \in pairings'
  BY <1>1 DEF SentPaired, Pending, Current
<1>3. CASE i \in 1 .. sent[v]
  BY <1>1, <1>2, <1>3 DEF SentPaired
<1>4. CASE i \notin 1 .. sent[v]
  <2>1. v = u /\ i = sent[u] + 1
    BY <1>1, <1>4, DeviceFacts DEF TypeInv, TypeOK
  <2>2. QED
    BY <1>1, <1>2, <2>1
<1>5. QED
  BY <1>3, <1>4

\* An acknowledgement removes a write and what is still sent is still recorded.
LEMMA PipelineAck ==
  ASSUME PipelineInv, NEW u \in Users, OnWriteStreamMutationResult(u)
  PROVE  SentPaired'
<1> USE DEF PipelineInv
<1>1. SUFFICES ASSUME NEW v \in Users, NEW i \in 1 .. sent'[v],
                      queue'[Current(v)][i].op = "pair"
               PROVE  <<queue'[Current(v)][i].tenant,
                        queue'[Current(v)][i].prop>> \in pairings
  BY RemovalFacts DEF SentPaired, Pending, Current, backend
<1>2. /\ Pending(u) # <<>>
      /\ queue' = [queue EXCEPT ![Current(u)] = Tail(@)]
      /\ sent' = [sent EXCEPT ![u] = @ - 1]
      /\ sent[u] > 0
  BY RemovalFacts DEF OnWriteStreamMutationResult
<1>3. Current(v) \in Queues /\ Pending(v) = queue[Current(v)]
  BY PendingFacts DEF TypeInv
<1>4. CASE v = u
  <2>1. i + 1 \in 1 .. sent[u] /\ i \in 1 .. Len(Pending(u)) - 1
    BY <1>2, <1>4, DeviceFacts DEF TypeInv, TypeOK
  <2>2. queue'[Current(u)][i] = Pending(u)[i + 1]
    BY <1>2, <2>1, PopFacts DEF TypeInv
  <2>3. QED
    BY <1>1, <1>4, <2>1, <2>2 DEF SentPaired
<1>5. CASE v # u
  <2>1. Current(v) # Current(u)
    BY <1>5 DEF Current
  <2>2. queue'[Current(v)] = Pending(v)
    BY <1>2, <1>3, <2>1, PopFacts DEF TypeInv
  <2>3. i \in 1 .. sent[v]
    BY <1>2, <1>5 DEF TypeInv, TypeOK
  <2>4. QED
    BY <1>1, <2>2, <2>3 DEF SentPaired
<1>6. QED
  BY <1>4, <1>5

\* A step that leaves the committed writes at the head of each queue.
LEMMA PipelineKept ==
  ASSUME PipelineInv, UNCHANGED backend, SentKept,
         \A u \in Users : \A i \in 1 .. sent[u] :
           queue'[Current(u)][i] = queue[Current(u)][i]
  PROVE  SentPaired'
<1>1. SUFFICES ASSUME NEW u \in Users, NEW i \in 1 .. sent'[u],
                      queue'[Current(u)'][i].op = "pair"
               PROVE  <<queue'[Current(u)'][i].tenant,
                        queue'[Current(u)'][i].prop>> \in pairings
  BY DEF SentPaired, Pending, backend
<1>2. sent'[u] # 0
  BY <1>1
<1>3. sent'[u] = sent[u] /\ Current(u)' = Current(u)
  BY <1>2 DEF SentKept
<1>4. queue'[Current(u)][i] = Pending(u)[i] /\ i \in 1 .. sent[u]
  BY <1>1, <1>3 DEF Pending
<1>5. QED
  BY <1>1, <1>3, <1>4 DEF PipelineInv, SentPaired

\* Writing lengthens a queue behind what is committed.
LEMMA PipelineWrite ==
  ASSUME PipelineInv, NEW u \in Users, NEW ws \in Seq(Write), WriteStep(u, ws)
  PROVE  SentPaired'
<1>1. ASSUME NEW v \in Users, NEW i \in 1 .. sent[v]
      PROVE  queue'[Current(v)][i] = queue[Current(v)][i]
  <2>1. Current(v) \in Queues /\ i \in 1 .. Len(queue[Current(v)])
    BY <1>1, PendingFacts, DeviceFacts DEF PipelineInv, TypeInv
  <2>2. QED
    BY <2>1, EnqueueEntries DEF PipelineInv, TypeInv, WriteStep
<1>2. QED
  BY <1>1, PipelineKept DEF WriteStep

\* Every step leaves the pairings that count as sent recorded.
LEMMA PipelineStep == PipelineInv /\ [Next]_vars => PipelineInv'
<1> SUFFICES ASSUME PipelineInv, [Next]_vars PROVE PipelineInv'
  OBVIOUS
<1> USE DEF PipelineInv
<1>1. TypeInv' /\ TenancyStep
  BY TypeStep, EveryTenancyStep
<1>2. ASSUME NEW u \in Users, Device(u)
      PROVE  SentPaired'
  <2>1. CASE OnWriteStreamClose(u)
    <3>1. SentKept
      BY <2>1 DEF OnWriteStreamClose, SentKept, Current, clients, TypeInv, TypeOK
    <3>2. QED
      BY <2>1, <3>1, PipelineKept DEF OnWriteStreamClose
  <2>2. CASE HandleRejectedWrite(u)
    <3>1. /\ UNCHANGED <<backend, sent, client>>
          /\ sent[u] = 0
          /\ Pending(u) # <<>>
          /\ queue' = [queue EXCEPT ![Current(u)] = Tail(@)]
      BY <2>2 DEF HandleRejectedWrite, clients
    <3>2. SentKept
      BY <3>1 DEF SentKept, Current
    <3>3. ASSUME NEW v \in Users, NEW i \in 1 .. sent[v]
          PROVE  queue'[Current(v)][i] = queue[Current(v)][i]
      <4>1. v # u
        BY <3>1, <3>3
      <4>2. Current(v) \in Queues /\ Current(v) # Current(u)
        BY <4>1 DEF Current, Queues
      <4>3. QED
        BY <3>1, <4>2, PopFacts DEF TypeInv
    <3>4. QED
      BY <3>1, <3>2, <3>3, PipelineKept
  <2>3. QED
    BY <1>2, <2>1, <2>2, PipelineCommit, PipelineAck DEF Device
<1>3. CASE QuietStep
  BY <1>1, <1>3, PipelineKept DEF QuietStep
<1>4. ASSUME NEW u \in Users, NEW ws \in Seq(Write), PlainStep(u, ws)
      PROVE  SentPaired'
  BY <1>4, PipelineWrite DEF PlainStep
<1>5. ASSUME NEW l \in Landlords, NEW ws \in Seq(Write), NEW a \in Acceptance,
             AcceptStep(l, ws, a)
      PROVE  SentPaired'
  BY <1>5, PipelineWrite DEF AcceptStep, Users
<1>6. ASSUME NEW l \in Landlords, NEW a \in accepting[l], PayStep(l, a)
      PROVE  SentPaired'
  <2>1. a \in Acceptance
    BY DEF TypeInv, TypeOK
  <2>2. <<AddPayment(l, a.tenant, a.prop, a.id)>> \in Seq(Write)
    BY <2>1 DEF AddPayment, AWrite, Write, TenancyOps, Acceptance
  <2>3. QED
    BY <1>6, <2>2, PipelineWrite DEF PayStep, Users
<1>7. QED
  BY <1>1, <1>2, <1>3, <1>4, <1>5, <1>6 DEF TenancyStep

\* Nothing is sent at first.
LEMMA PipelineInit == Init => PipelineInv
<1>1. Init => SentPaired
  BY DEF Init, SentPaired
<1>2. QED
  BY <1>1, TypeInit DEF PipelineInv

\* The write of a payment is well typed.
LEMMA PayWriteType ==
  ASSUME TypeOK, NEW l \in Landlords, NEW a \in accepting[l]
  PROVE  <<AddPayment(l, a.tenant, a.prop, a.id)>> \in Seq(Write)
<1>1. a \in Acceptance
  BY DEF TypeOK
<1>2. QED
  BY <1>1 DEF AddPayment, AWrite, Write, TenancyOps, Acceptance

\* There is one queue per user and sign-in, whatever happens.
LEMMA QueuesConstant == Queues' = Queues
BY DEF Queues

(***************************************************************************)
(* A tenant is named on a property only after being paired with it.        *)
(***************************************************************************)

\* The tenancy of the i-th write is recorded, or its pairing comes before it.
BehindPair(s, i, recorded) ==
  \/ <<s[i].tenant, s[i].prop>> \in recorded
  \/ \E j \in 1 .. i - 1 : /\ s[j].op = "pair"
                           /\ s[j].tenant = s[i].tenant
                           /\ s[j].prop = s[i].prop

\* A queued name stands behind its pairing, or the pairing is committed.
NamesBehindPairs ==
  \A q \in Queues : \A i \in 1 .. Len(queue[q]) :
    queue[q][i].op = "name" => BehindPair(queue[q], i, pairings)

\* Writes that may be refused name nobody.
NamesSignedIn ==
  \A u \in Users : \A i \in 1 .. Len(queue[<<u, FALSE>>]) :
    queue[<<u, FALSE>>][i].op # "name"

\* NamedAfterPaired speaks of what is committed.  A name is committed after
\* what stands before it in its queue; when its pairing has left the queue it
\* was acknowledged, so it had been sent and is committed (SentPaired).
OrderInv ==
  PipelineInv /\ NamesBehindPairs /\ NamesSignedIn /\ NamedAfterPaired

\* A name is committed after its pairing, which stands before it in the queue.
LEMMA OrderCommit ==
  ASSUME OrderInv, NEW u \in Users, Commit(u)
  PROVE  NamesBehindPairs' /\ NamesSignedIn' /\ NamedAfterPaired'
<1> USE DEF OrderInv, PipelineInv
<1>1. PICK w \in Write :
        /\ sent[u] + 1 \in 1 .. Len(Pending(u))
        /\ w = Pending(u)[sent[u] + 1]
        /\ db' = ApplyWrite(db, w)
        /\ pairings \subseteq pairings'
        /\ UNCHANGED queue
  BY CommitFacts
<1>2. NamesBehindPairs' /\ NamesSignedIn'
  <2>1. ASSUME NEW q \in Queues, NEW i \in 1 .. Len(queue[q]),
               queue[q][i].op = "name"
        PROVE  BehindPair(queue[q], i, pairings')
    BY <1>1, <2>1 DEF NamesBehindPairs, BehindPair
  <2>2. NamesBehindPairs'
    BY <1>1, <2>1, QueuesConstant DEF NamesBehindPairs
  <2>3. NamesSignedIn'
    BY <1>1 DEF NamesSignedIn
  <2>4. QED
    BY <2>2, <2>3
<1>3. ASSUME w.op = "name"
      PROVE  <<w.tenant, w.prop>> \in pairings
  <2>1. Current(u) \in Queues /\ Pending(u) = queue[Current(u)]
    BY PendingFacts DEF TypeInv
  <2>2. CASE \E j \in 1 .. (sent[u] + 1) - 1 :
               /\ Pending(u)[j].op = "pair"
               /\ Pending(u)[j].tenant = w.tenant
               /\ Pending(u)[j].prop = w.prop
    <3>1. PICK j \in 1 .. sent[u] : /\ Pending(u)[j].op = "pair"
                                    /\ Pending(u)[j].tenant = w.tenant
                                    /\ Pending(u)[j].prop = w.prop
      BY <2>2, DeviceFacts
    <3>2. QED
      BY <3>1 DEF SentPaired
  <2>3. QED
    <3>1. BehindPair(Pending(u), sent[u] + 1, pairings)
      BY <1>1, <1>3, <2>1 DEF NamesBehindPairs
    <3>2. QED
      BY <1>1, <2>2, <3>1 DEF BehindPair
<1>4. ASSUME NEW l \in Landlords, NEW p \in Props, db'.rentals[l][p].tenant # None
      PROVE  <<db'.rentals[l][p].tenant, p>> \in pairings'
  BY <1>1, <1>3, <1>4, RentalCommit DEF TypeInv, NamedAfterPaired
<1>5. QED
  BY <1>2, <1>4 DEF NamedAfterPaired

\* A pairing that leaves the queue is recorded: a refusal takes anonymous writes only,
\* and no name is among those.
LEMMA OrderRemoval ==
  ASSUME OrderInv, NEW u \in Users,
         OnWriteStreamMutationResult(u) \/ HandleRejectedWrite(u)
  PROVE  NamesBehindPairs' /\ NamesSignedIn' /\ NamedAfterPaired'
<1> USE DEF OrderInv, PipelineInv
<1>1. /\ Pending(u) # <<>>
      /\ queue' = [queue EXCEPT ![Current(u)] = Tail(@)]
      /\ UNCHANGED <<db, pairings>>
  BY RemovalFacts DEF backend
<1>2. Current(u) \in Queues /\ Pending(u) = queue[Current(u)] /\ TypeOK
  BY PendingFacts DEF TypeInv
<1>3. NamesSignedIn'
  <2>1. SUFFICES ASSUME NEW v \in Users, NEW i \in 1 .. Len(queue'[<<v, FALSE>>])
                 PROVE  queue'[<<v, FALSE>>][i].op # "name"
    BY DEF NamesSignedIn
  <2>2. <<v, FALSE>> \in Queues
    BY DEF Queues
  <2>3. \E j \in 1 .. Len(queue[<<v, FALSE>>]) :
          queue'[<<v, FALSE>>][i] = queue[<<v, FALSE>>][j]
    BY <1>1, <1>2, <2>2, PopEntries
  <2>4. QED
    BY <2>3 DEF NamesSignedIn
<1>4. NamesBehindPairs'
  <2>1. SUFFICES ASSUME NEW q \in Queues, NEW i \in 1 .. Len(queue'[q]),
                        queue'[q][i].op = "name"
                 PROVE  BehindPair(queue'[q], i, pairings)
    BY <1>1, QueuesConstant DEF NamesBehindPairs
  <2>2. CASE q # Current(u)
    <3>1. queue'[q] = queue[q]
      BY <1>1, <1>2, <2>2, PopEntries
    <3>2. QED
      BY <2>1, <3>1 DEF NamesBehindPairs
  <2>3. CASE q = Current(u)
    <3>1. /\ Len(queue[q]) \in Nat
          /\ i + 1 \in 1 .. Len(queue[q])
          /\ queue'[q][i] = queue[q][i + 1]
          /\ \A k \in 2 .. Len(queue[q]) : /\ k - 1 \in 1 .. Len(queue'[q])
                                           /\ queue'[q][k - 1] = queue[q][k]
      BY <1>1, <1>2, <2>3, PopEntries
    <3>2. CASE <<queue[q][i + 1].tenant, queue[q][i + 1].prop>> \in pairings
      BY <3>1, <3>2 DEF BehindPair
    <3>3. ASSUME NEW j \in 1 .. (i + 1) - 1,
                 queue[q][j].op = "pair",
                 queue[q][j].tenant = queue[q][i + 1].tenant,
                 queue[q][j].prop = queue[q][i + 1].prop
          PROVE  BehindPair(queue'[q], i, pairings)
      <4>1. CASE j = 1
        <5>1. CASE OnWriteStreamMutationResult(u)
          <6>1. 1 \in 1 .. sent[u]
            BY <5>1, DeviceFacts DEF OnWriteStreamMutationResult
          <6>2. <<queue[q][1].tenant, queue[q][1].prop>> \in pairings
            BY <1>2, <2>3, <3>3, <4>1, <6>1 DEF SentPaired
          <6>3. QED
            BY <3>1, <3>3, <4>1, <6>2 DEF BehindPair
        <5>2. CASE HandleRejectedWrite(u)
          <6>1. q = <<u, FALSE>>
            BY <2>3, <5>2 DEF HandleRejectedWrite, Current
          <6>2. queue[q][i + 1].op = "name"
            BY <2>1, <3>1
          <6>3. QED
            BY <3>1, <6>1, <6>2 DEF NamesSignedIn
        <5>3. QED
          BY <5>1, <5>2
      <4>2. CASE j # 1
        <5>1. j \in 2 .. Len(queue[q]) /\ j - 1 \in 1 .. i - 1
          BY <3>1, <3>3, <4>2
        <5>2. queue'[q][j - 1] = queue[q][j]
          BY <3>1, <5>1
        <5>3. QED
          BY <3>1, <3>3, <5>1, <5>2 DEF BehindPair
      <4>3. QED
        BY <4>1, <4>2
    <3>4. queue[q][i + 1].op = "name"
      BY <2>1, <3>1
    <3>5. QED
      BY <3>1, <3>2, <3>3, <3>4 DEF NamesBehindPairs, BehindPair
  <2>4. QED
    BY <2>2, <2>3
<1>5. NamedAfterPaired'
  BY <1>1 DEF NamedAfterPaired
<1>6. QED
  BY <1>3, <1>4, <1>5

\* Writing keeps the order when every name written follows its pairing.
LEMMA OrderWrite ==
  ASSUME OrderInv, NEW u \in Users, NEW ws \in Seq(Write), WriteStep(u, ws),
         \A i \in 1 .. Len(ws) : ws[i].op = "name" =>
           /\ client[u] = "user"
           /\ \E j \in 1 .. i - 1 : /\ ws[j].op = "pair"
                                    /\ ws[j].tenant = ws[i].tenant
                                    /\ ws[j].prop = ws[i].prop
  PROVE  NamesBehindPairs' /\ NamesSignedIn' /\ NamedAfterPaired'
<1> USE DEF OrderInv, PipelineInv
<1>1. TypeOK /\ Enqueue(u, ws) /\ UNCHANGED <<db, pairings>>
  BY DEF TypeInv, WriteStep, backend
<1>2. NamedAfterPaired'
  BY <1>1 DEF NamedAfterPaired
<1>3. NamesSignedIn'
  <2>1. SUFFICES ASSUME NEW v \in Users, NEW i \in 1 .. Len(queue'[<<v, FALSE>>])
                 PROVE  queue'[<<v, FALSE>>][i].op # "name"
    BY DEF NamesSignedIn
  <2>2. <<v, FALSE>> \in Queues
    BY DEF Queues
  <2>3. CASE i \in 1 .. Len(queue[<<v, FALSE>>])
    <3>1. queue'[<<v, FALSE>>][i] = queue[<<v, FALSE>>][i]
      BY <1>1, <2>2, <2>3, EnqueueEntries
    <3>2. QED
      BY <2>3, <3>1 DEF NamesSignedIn
  <2>4. CASE i \notin 1 .. Len(queue[<<v, FALSE>>])
    <3>1. PICK j \in 1 .. Len(ws) : /\ <<v, FALSE>> = Current(u)
                                    /\ queue'[<<v, FALSE>>][i] = ws[j]
      <4> DEFINE q == <<v, FALSE>>
      <4>1. q \in Queues /\ i \in 1 .. Len(queue'[q]) /\ i \notin 1 .. Len(queue[q])
        BY <2>2, <2>4
      <4> HIDE DEF q
      <4>2. \E j \in 1 .. Len(ws) : q = Current(u) /\ queue'[q][i] = ws[j]
        BY <1>1, <4>1, EnqueueEntries
      <4>3. QED
        BY <4>2 DEF q
    <3>2. client[u] # "user"
      BY <3>1 DEF Current
    <3>3. QED
      BY <3>1, <3>2
  <2>5. QED
    BY <2>3, <2>4
<1>4. NamesBehindPairs'
  <2>1. SUFFICES ASSUME NEW q \in Queues, NEW i \in 1 .. Len(queue'[q]),
                        queue'[q][i].op = "name"
                 PROVE  BehindPair(queue'[q], i, pairings)
    BY <1>1, QueuesConstant DEF NamesBehindPairs
  <2>2. /\ Len(queue[q]) \in Nat
        /\ \A k \in 1 .. Len(queue[q]) : queue'[q][k] = queue[q][k]
    BY <1>1, EnqueueEntries
  <2>3. CASE i \in 1 .. Len(queue[q])
    <3>1. \A j \in 1 .. i - 1 : j \in 1 .. Len(queue[q])
      BY <2>2, <2>3
    <3>2. queue[q][i].op = "name" /\ queue'[q][i] = queue[q][i]
      BY <2>1, <2>2, <2>3
    <3>3. BehindPair(queue[q], i, pairings)
      BY <2>3, <3>2 DEF NamesBehindPairs
    <3>4. QED
      BY <2>2, <3>1, <3>2, <3>3 DEF BehindPair
  <2>4. CASE i \notin 1 .. Len(queue[q])
    <3>1. PICK j \in 1 .. Len(ws) : /\ q = Current(u)
                                    /\ i = Len(queue[q]) + j
                                    /\ queue'[q][i] = ws[j]
      <4>1. \A n \in 1 .. Len(queue'[q]) :
              \/ n \in 1 .. Len(queue[q])
              \/ /\ q = Current(u)
                 /\ \E j \in 1 .. Len(ws) : /\ n = Len(queue[q]) + j
                                            /\ queue'[q][n] = ws[j]
        BY <1>1, EnqueueEntries, Zenon
      <4>2. QED
        BY <2>4, <4>1, Zenon
    <3>2. PICK k \in 1 .. j - 1 : /\ ws[k].op = "pair"
                                  /\ ws[k].tenant = ws[j].tenant
                                  /\ ws[k].prop = ws[j].prop
      BY <2>1, <3>1
    <3>3. k \in 1 .. Len(ws) /\ Len(queue[q]) + k \in 1 .. i - 1
      BY <2>2, <3>1, <3>2, LenProperties
    <3>4. queue'[q][Len(queue[q]) + k] = ws[k]
      BY <1>1, <3>1, <3>3, EnqueueEntries
    <3>5. QED
      BY <3>1, <3>2, <3>3, <3>4 DEF BehindPair
  <2>5. QED
    BY <2>3, <2>4
<1>5. QED
  BY <1>2, <1>3, <1>4

\* Every step keeps each name behind its pairing.
LEMMA OrderStep == OrderInv /\ [Next]_vars => OrderInv'
<1> SUFFICES ASSUME OrderInv, [Next]_vars PROVE OrderInv'
  OBVIOUS
<1>1. PipelineInv' /\ TenancyStep
  BY PipelineStep, EveryTenancyStep DEF OrderInv, PipelineInv
<1>2. ASSUME UNCHANGED <<backend, queue>>
      PROVE  OrderInv'
  <2>1. NamesBehindPairs'
    BY <1>2, QueuesConstant DEF OrderInv, NamesBehindPairs, backend
  <2>2. NamesSignedIn' /\ NamedAfterPaired'
    BY <1>2 DEF OrderInv, NamesSignedIn, NamedAfterPaired, backend
  <2>3. QED
    BY <1>1, <2>1, <2>2 DEF OrderInv
<1>3. ASSUME NEW u \in Users, Device(u)
      PROVE  OrderInv'
  <2>1. CASE OnWriteStreamClose(u)
    BY <1>2, <2>1 DEF OnWriteStreamClose
  <2>2. QED
    BY <1>1, <1>3, <2>1, OrderCommit, OrderRemoval DEF Device, OrderInv
<1>4. CASE QuietStep
  BY <1>2, <1>4 DEF QuietStep
<1>5. ASSUME NEW u \in Users, NEW ws \in Seq(Write), PlainStep(u, ws)
      PROVE  OrderInv'
  <2>1. WriteStep(u, ws) /\ \A i \in 1 .. Len(ws) : ws[i].op # "name"
    BY <1>5 DEF PlainStep
  <2>2. QED
    BY <1>1, <2>1, OrderWrite DEF OrderInv
<1>6. ASSUME NEW l \in Landlords, NEW ws \in Seq(Write), NEW a \in Acceptance,
             AcceptStep(l, ws, a)
      PROVE  OrderInv'
  <2>1. l \in Users /\ WriteStep(l, ws) /\ client[l] = "user"
    BY <1>6 DEF AcceptStep, Users
  <2>2. ASSUME NEW i \in 1 .. Len(ws), ws[i].op = "name"
        PROVE  \E j \in 1 .. i - 1 : /\ ws[j].op = "pair"
                                     /\ ws[j].tenant = ws[i].tenant
                                     /\ ws[j].prop = ws[i].prop
    <3>1. Len(ws) \in 1 .. 3
      BY <1>6 DEF AcceptStep
    <3>2. \A n \in 1 .. 3 : \A j \in 1 .. n :
            j = 1 \/ (j = 2 /\ n > 1) \/ (j = 3 /\ n > 2)
      OBVIOUS
    <3>3. i = 1 \/ (i = 2 /\ Len(ws) > 1) \/ (i = 3 /\ Len(ws) > 2)
      BY <3>1, <3>2
    <3>4. i = 3 /\ Len(ws) > 2 /\ Len(ws) > 1
      BY <1>6, <2>2, <3>1, <3>3 DEF AcceptStep, MakePairedTrue, AWrite
    <3>5. ws[2].op = "pair" /\ ws[2].tenant = ws[i].tenant /\ ws[2].prop = ws[i].prop
      BY <1>6, <3>4 DEF AcceptStep, MakePairedTrue, AddNameToProperty, AWrite
    <3>6. 2 \in 1 .. i - 1
      BY <3>4
    <3>7. QED
      BY <3>5, <3>6
  <2>3. QED
    BY <1>1, <2>1, <2>2, OrderWrite DEF OrderInv
<1>7. ASSUME NEW l \in Landlords, NEW a \in accepting[l], PayStep(l, a)
      PROVE  OrderInv'
  <2> DEFINE ws == <<AddPayment(l, a.tenant, a.prop, a.id)>>
  <2>1. l \in Users /\ WriteStep(l, ws) /\ a \in Acceptance
    BY <1>7 DEF PayStep, Users, OrderInv, PipelineInv, TypeInv, TypeOK
  <2>2. ws \in Seq(Write)
    BY <2>1 DEF AddPayment, AWrite, Write, TenancyOps, Acceptance
  <2>3. \A i \in 1 .. Len(ws) : ws[i].op # "name"
    BY DEF AddPayment, AWrite
  <2> HIDE DEF ws
  <2>4. QED
    BY <1>1, <2>1, <2>2, <2>3, OrderWrite DEF OrderInv
<1>8. QED
  BY <1>1, <1>3, <1>4, <1>5, <1>6, <1>7 DEF TenancyStep

\* No property ever names a tenant whose pairing the backend has not recorded
\* before, whatever is lost, sent again or cut short.  The writes of a signed-in
\* landlord are taken not to be refused.
THEOREM NamingFollowsPairing == Spec => []NamedAfterPaired
<1>1. Init => OrderInv
  <2>1. SUFFICES ASSUME Init PROVE OrderInv
    OBVIOUS
  <2>2. \A q \in Queues : Len(queue[q]) = 0
    BY <2>1, EmptySeq DEF Init
  <2>3. NamesBehindPairs /\ NamesSignedIn
    <3>1. NamesBehindPairs
      BY <2>2 DEF NamesBehindPairs
    <3>2. ASSUME NEW u \in Users, NEW i \in 1 .. Len(queue[<<u, FALSE>>])
          PROVE  queue[<<u, FALSE>>][i].op # "name"
      <4>1. <<u, FALSE>> \in Queues
        BY DEF Queues
      <4>2. Len(queue[<<u, FALSE>>]) = 0
        BY <2>2, <4>1
      <4>3. QED
        BY <4>2
    <3>3. QED
      BY <3>1, <3>2, Zenon DEF NamesSignedIn
  <2>4. NamedAfterPaired
    BY <2>1 DEF Init, EmptyDatabase, NoRental, NamedAfterPaired
  <2>5. QED
    BY <2>1, <2>3, <2>4, PipelineInit DEF OrderInv
<1>2. OrderInv => NamedAfterPaired
  BY DEF OrderInv
<1>3. QED
  BY <1>1, <1>2, OrderStep, PTL DEF Spec

(***************************************************************************)
(* A payment is backed by a pairing.                                       *)
(***************************************************************************)

\* The pairing of t with p is recorded, or waits in the queue of l.
Backed(l, t, p) ==
  \/ <<t, p>> \in pairings
  \/ \E i \in 1 .. Len(queue[<<l, TRUE>>]) :
       queue[<<l, TRUE>>][i] = MakePairedTrue(l, t, p)

CallsBacked ==
  \A l \in Landlords : \A a \in accepting[l] :
    a.landlord = l /\ Backed(l, a.tenant, a.prop)

\* The write is a payment of t to l for p.
PayOf(w, l, t, p) ==
  w.op = "pay" /\ w.landlord = l /\ w.tenant = t /\ w.prop = p

PaysBacked ==
  \A q \in Queues, l \in Landlords, t \in Tenants, p \in Props :
    \A i \in 1 .. Len(queue[q]) : PayOf(queue[q][i], l, t, p) => Backed(l, t, p)

\* The payment on the backend was written by the call of an accept gesture
\* whose three writes were all made: what backs it backed the queued write and
\* the call before.
BackedInv == PipelineInv /\ CallsBacked /\ PaysBacked /\ PaymentBacked

\* What is backed stays backed.
LEMMA BackedKept ==
  ASSUME PipelineInv, TenancyStep,
         NEW l \in Landlords, NEW t \in Tenants, NEW p \in Props, Backed(l, t, p)
  PROVE  Backed(l, t, p)'
<1> DEFINE q == <<l, TRUE>>
           w == MakePairedTrue(l, t, p)
<1> USE DEF PipelineInv, TypeInv
<1>1. q \in Queues
  BY DEF Queues, Users
<1>2. w.op = "pair" /\ w.tenant = t /\ w.prop = p
  BY DEF MakePairedTrue, AWrite
<1>3. \/ <<t, p>> \in pairings
      \/ \E i \in 1 .. Len(queue[q]) : queue[q][i] = w
  BY DEF Backed
<1> HIDE DEF q, w
<1>4. SUFFICES \/ <<t, p>> \in pairings'
               \/ \E i \in 1 .. Len(queue'[q]) : queue'[q][i] = w
  BY DEF Backed, q, w
<1>5. ASSUME NEW u \in Users, NEW ws \in Seq(Write), WriteStep(u, ws)
      PROVE  \/ <<t, p>> \in pairings'
             \/ \E i \in 1 .. Len(queue'[q]) : queue'[q][i] = w
  <2>1. Enqueue(u, ws) /\ pairings' = pairings
    BY <1>5 DEF WriteStep, backend
  <2>2. \A i \in 1 .. Len(queue[q]) : /\ i \in 1 .. Len(queue'[q])
                                      /\ queue'[q][i] = queue[q][i]
    BY <1>1, <2>1, EnqueueEntries
  <2>3. QED
    BY <1>3, <2>1, <2>2
<1>6. ASSUME NEW u \in Users, Device(u)
      PROVE  \/ <<t, p>> \in pairings'
             \/ \E i \in 1 .. Len(queue'[q]) : queue'[q][i] = w
  <2>1. CASE Commit(u)
    <3>1. pairings \subseteq pairings' /\ UNCHANGED queue
      BY <2>1, CommitFacts
    <3>2. QED
      BY <1>3, <3>1
  <2>2. CASE OnWriteStreamClose(u)
    BY <1>3, <2>2 DEF OnWriteStreamClose, backend
  <2>3. CASE OnWriteStreamMutationResult(u) \/ HandleRejectedWrite(u)
    <3>1. /\ Pending(u) # <<>>
          /\ queue' = [queue EXCEPT ![Current(u)] = Tail(@)]
          /\ UNCHANGED pairings
      BY <2>3, RemovalFacts DEF backend
    <3>2. CASE q # Current(u)
      <4>1. queue'[q] = queue[q]
        BY <1>1, <3>1, <3>2, PopEntries
      <4>2. QED
        BY <1>3, <3>1, <4>1
    <3>3. CASE q = Current(u)
      <4>1. OnWriteStreamMutationResult(u)
        BY <2>3, <3>3 DEF HandleRejectedWrite, Current, q
      <4>2. 1 \in 1 .. sent[u] /\ Pending(u) = queue[q]
        BY <3>3, <4>1, DeviceFacts, PendingFacts DEF OnWriteStreamMutationResult
      <4>3. ASSUME queue[q][1] = w
            PROVE  <<t, p>> \in pairings
        BY <1>2, <4>2, <4>3 DEF SentPaired
      <4>4. /\ Len(queue[q]) \in Nat
            /\ \A i \in 2 .. Len(queue[q]) : /\ i - 1 \in 1 .. Len(queue'[q])
                                             /\ queue'[q][i - 1] = queue[q][i]
        BY <1>1, <3>1, <3>3, PopEntries
      <4>5. ASSUME NEW i \in 1 .. Len(queue[q]), queue[q][i] = w, i # 1
            PROVE  \E j \in 1 .. Len(queue'[q]) : queue'[q][j] = w
        <5>1. i \in 2 .. Len(queue[q])
          BY <4>4, <4>5
        <5>2. QED
          BY <4>4, <4>5, <5>1
      <4>6. QED
        BY <1>3, <3>1, <4>3, <4>5
    <3>4. QED
      BY <3>2, <3>3
  <2>4. QED
    BY <1>6, <2>1, <2>2, <2>3 DEF Device
<1>7. CASE QuietStep
  BY <1>3, <1>7 DEF QuietStep, backend
<1>8. ASSUME NEW m \in Landlords, NEW a \in accepting[m], PayStep(m, a)
      PROVE  \/ <<t, p>> \in pairings'
             \/ \E i \in 1 .. Len(queue'[q]) : queue'[q][i] = w
  <2>1. m \in Users /\ <<AddPayment(m, a.tenant, a.prop, a.id)>> \in Seq(Write)
    BY PayWriteType DEF Users
  <2>2. QED
    BY <1>5, <1>8, <2>1 DEF PayStep
<1>9. QED
  BY <1>5, <1>6, <1>7, <1>8 DEF TenancyStep, PlainStep, AcceptStep, Users

\* The calls in flight stay backed.
LEMMA CallsBackedStep ==
  ASSUME BackedInv, TenancyStep
  PROVE  CallsBacked'
<1> USE DEF BackedInv, PipelineInv, TypeInv
<1>1. SUFFICES ASSUME NEW l \in Landlords, NEW a \in accepting'[l]
               PROVE  a.landlord = l /\ Backed(l, a.tenant, a.prop)'
  BY DEF CallsBacked
<1>2. CASE a \in accepting[l]
  <2>1. a \in Acceptance
    BY <1>2 DEF TypeOK
  <2>2. a.tenant \in Tenants /\ a.prop \in Props
    BY <2>1 DEF Acceptance
  <2>3. a.landlord = l /\ Backed(l, a.tenant, a.prop)
    BY <1>2 DEF CallsBacked
  <2>4. QED
    BY <2>2, <2>3, BackedKept
<1>3. CASE a \notin accepting[l]
  <2>1. PICK m \in Landlords, ws \in Seq(Write), b \in Acceptance :
          AcceptStep(m, ws, b)
    <3>1. ~ CallsKept
      BY <1>1, <1>3 DEF CallsKept
    <3>2. ASSUME NEW u \in Users, Device(u)
          PROVE  CallsKept
      BY <3>2 DEF Device, Commit, OnWriteStreamMutationResult, OnWriteStreamClose,
                  HandleRejectedWrite, clients, CallsKept
    <3>3. QED
      BY <3>1, <3>2 DEF TenancyStep, QuietStep, PlainStep, PayStep
  <2>2. /\ l = m /\ a = b /\ a.landlord = l
        /\ Len(ws) = 3
        /\ ws[2] = MakePairedTrue(l, a.tenant, a.prop)
        /\ client[l] = "user"
    BY <1>1, <1>3, <2>1 DEF AcceptStep
  <2>3. Enqueue(l, ws) /\ l \in Users
    BY <2>1, <2>2 DEF AcceptStep, WriteStep, Users
  <2>4. <<l, TRUE>> = Current(l) /\ Current(l) \in Queues
    BY <2>2, <2>3 DEF Current, Queues
  <2>5. 2 \in 1 .. Len(ws)
    BY <2>2
  <2>6. /\ Len(queue[Current(l)]) + 2 \in 1 .. Len(queue'[Current(l)])
        /\ queue'[Current(l)][Len(queue[Current(l)]) + 2] = ws[2]
    BY <2>3, <2>4, <2>5, EnqueueEntries
  <2>7. QED
    BY <2>2, <2>4, <2>6 DEF Backed
<1>4. QED
  BY <1>2, <1>3

\* The queued payments stay backed.
LEMMA PaysBackedStep ==
  ASSUME BackedInv, TenancyStep
  PROVE  PaysBacked'
<1> USE DEF BackedInv, PipelineInv, TypeInv
<1>1. SUFFICES ASSUME NEW q \in Queues,
                      NEW h \in Landlords, NEW t \in Tenants, NEW p \in Props,
                      NEW i \in 1 .. Len(queue'[q]),
                      PayOf(queue'[q][i], h, t, p)
               PROVE  Backed(h, t, p)'
  BY QueuesConstant DEF PaysBacked, PayOf
<1>2. ASSUME NEW j \in 1 .. Len(queue[q]), queue'[q][i] = queue[q][j]
      PROVE  Backed(h, t, p)'
  <2>1. Backed(h, t, p)
    BY <1>1, <1>2 DEF PaysBacked
  <2>2. QED
    BY <2>1, BackedKept
<1>3. ASSUME NEW u \in Users, NEW ws \in Seq(Write), WriteStep(u, ws),
             \A j \in 1 .. Len(ws) : ws[j].op # "pay"
      PROVE  Backed(h, t, p)'
  <2>1. CASE i \in 1 .. Len(queue[q])
    <3>1. queue'[q][i] = queue[q][i]
      BY <1>3, <2>1, EnqueueEntries DEF WriteStep
    <3>2. QED
      BY <1>2, <2>1, <3>1
  <2>2. CASE i \notin 1 .. Len(queue[q])
    <3>1. \E j \in 1 .. Len(ws) : queue'[q][i] = ws[j]
      BY <1>3, <2>2, EnqueueEntries DEF WriteStep
    <3>2. QED
      BY <1>1, <1>3, <3>1 DEF PayOf
  <2>3. QED
    BY <2>1, <2>2
<1>4. CASE \E u \in Users : Device(u)
  <2>1. PICK u \in Users : Device(u)
    BY <1>4
  <2>2. CASE UNCHANGED queue
    BY <1>2, <2>2
  <2>3. CASE OnWriteStreamMutationResult(u) \/ HandleRejectedWrite(u)
    <3>1. /\ Pending(u) # <<>>
          /\ queue' = [queue EXCEPT ![Current(u)] = Tail(@)]
      BY <2>3, RemovalFacts
    <3>2. \E j \in 1 .. Len(queue[q]) : queue'[q][i] = queue[q][j]
      BY <3>1, PopEntries
    <3>3. QED
      BY <1>2, <3>2
  <2>4. QED
    BY <2>1, <2>2, <2>3 DEF Device, Commit, OnWriteStreamClose
<1>5. CASE QuietStep
  BY <1>2, <1>5 DEF QuietStep
<1>6. ASSUME NEW l \in Landlords, NEW ws \in Seq(Write), NEW a \in Acceptance,
             AcceptStep(l, ws, a)
      PROVE  \A j \in 1 .. Len(ws) : ws[j].op # "pay"
  <2>1. SUFFICES ASSUME NEW j \in 1 .. Len(ws) PROVE ws[j].op # "pay"
    OBVIOUS
  <2>2. Len(ws) \in 1 .. 3
    BY <1>6 DEF AcceptStep
  <2>3. \A n \in 1 .. 3 : \A k \in 1 .. n :
          k = 1 \/ (k = 2 /\ n > 1) \/ (k = 3 /\ n > 2)
    OBVIOUS
  <2>4. j = 1 \/ (j = 2 /\ Len(ws) > 1) \/ (j = 3 /\ Len(ws) > 2)
    BY <2>2, <2>3
  <2>5. QED
    BY <1>6, <2>4 DEF AcceptStep, MakePairedTrue, AddNameToProperty, AWrite
<1>7. ASSUME NEW l \in Landlords, NEW a \in accepting[l], PayStep(l, a)
      PROVE  Backed(h, t, p)'
  <2>1. PICK ws \in Seq(Write) : ws = <<AddPayment(l, a.tenant, a.prop, a.id)>>
    BY PayWriteType
  <2>2. Enqueue(l, ws) /\ l \in Users
    BY <1>7, <2>1 DEF PayStep, WriteStep, Users
  <2>3. CASE i \in 1 .. Len(queue[q])
    <3>1. queue'[q][i] = queue[q][i]
      BY <2>2, <2>3, EnqueueEntries
    <3>2. QED
      BY <1>2, <2>3, <3>1
  <2>4. CASE i \notin 1 .. Len(queue[q])
    <3>1. \E j \in 1 .. Len(ws) : queue'[q][i] = ws[j]
      BY <2>2, <2>4, EnqueueEntries
    <3>2. queue'[q][i] = AddPayment(l, a.tenant, a.prop, a.id)
      <4>1. /\ Len(ws) = 1
            /\ ws[1] = AddPayment(l, a.tenant, a.prop, a.id)
        BY <2>1
      <4>2. \A j \in 1 .. 1 : j = 1
        OBVIOUS
      <4>3. QED
        BY <3>1, <4>1, <4>2
    <3>3. h = l /\ t = a.tenant /\ p = a.prop
      BY <1>1, <3>2 DEF PayOf, AddPayment, AWrite
    <3>4. Backed(h, t, p)
      BY <3>3 DEF CallsBacked
    <3>5. QED
      BY <3>4, BackedKept
  <2>5. QED
    BY <2>3, <2>4
<1>8. QED
  BY <1>3, <1>4, <1>5, <1>6, <1>7 DEF TenancyStep, PlainStep, AcceptStep, Users

\* PaymentBacked in terms of Backed.
LEMMA PaymentBackedForm ==
  ASSUME TypeOK, PaymentBacked, NEW t \in Tenants, NEW k \in db.payments[t]
  PROVE  Backed(k.landlord, t, k.prop)
<1>1. k.landlord \in Landlords
  BY DEF TypeOK, Database, Payment
<1>2. <<k.landlord, TRUE>> \in Queues
  BY <1>1 DEF Queues, Users
<1>3. DOMAIN queue[<<k.landlord, TRUE>>] = 1 .. Len(queue[<<k.landlord, TRUE>>])
  BY <1>2, LenProperties DEF TypeOK
<1>4. QED
  BY <1>3 DEF PaymentBacked, Backed

\* Every step keeps payments, and the calls that will make them, backed by a pairing.
LEMMA BackedStep == BackedInv /\ [Next]_vars => BackedInv'
<1> SUFFICES ASSUME BackedInv, [Next]_vars PROVE BackedInv'
  OBVIOUS
<1>1. PipelineInv' /\ TenancyStep
  BY PipelineStep, EveryTenancyStep DEF BackedInv, PipelineInv
<1>2. CallsBacked' /\ PaysBacked'
  BY <1>1, CallsBackedStep, PaysBackedStep
<1>3. ASSUME NEW t \in Tenants, NEW k \in db'.payments[t]
      PROVE  Backed(k.landlord, t, k.prop)'
  <2> USE DEF BackedInv, PipelineInv, TypeInv
  <2>1. CASE k \in db.payments[t]
    <3>1. k.landlord \in Landlords /\ k.prop \in Props
      BY <2>1 DEF TypeOK, Database, Payment
    <3>2. Backed(k.landlord, t, k.prop)
      BY <2>1, PaymentBackedForm
    <3>3. QED
      BY <1>1, <3>1, <3>2, BackedKept
  <2>2. CASE k \notin db.payments[t]
    <3>1. PICK u \in Users : Commit(u)
      BY <1>1, <1>3, <2>2
         DEF TenancyStep, Device, OnWriteStreamMutationResult, OnWriteStreamClose,
             HandleRejectedWrite, QuietStep, PlainStep, AcceptStep, PayStep,
             WriteStep, backend
    <3>2. PICK w \in Write : /\ sent[u] + 1 \in 1 .. Len(Pending(u))
                             /\ w = Pending(u)[sent[u] + 1]
                             /\ db' = ApplyWrite(db, w)
      BY <3>1, CommitFacts
    <3>3. w.op = "pay" /\ t = w.tenant /\ k = PaymentOf(w)
      BY <1>3, <2>2, <3>2, PaymentCommit
    <3>4. Current(u) \in Queues /\ Pending(u) = queue[Current(u)]
      BY PendingFacts
    <3>5. w.landlord \in Landlords /\ w.prop \in Props
      BY DEF Write
    <3>6. Backed(w.landlord, w.tenant, w.prop)
      BY <3>2, <3>3, <3>4, <3>5 DEF PaysBacked, PayOf
    <3>7. QED
      BY <1>1, <3>3, <3>5, <3>6, BackedKept DEF PaymentOf
  <2>3. QED
    BY <2>1, <2>2
<1>4. PaymentBacked'
  <2>1. SUFFICES ASSUME NEW t \in Tenants, NEW k \in db'.payments[t]
                 PROVE  \/ <<t, k.prop>> \in pairings'
                        \/ \E i \in DOMAIN queue'[<<k.landlord, TRUE>>] :
                             queue'[<<k.landlord, TRUE>>][i]
                               = MakePairedTrue(k.landlord, t, k.prop)
    BY DEF PaymentBacked
  <2>2. k.landlord \in Landlords /\ TypeOK'
    BY <1>1 DEF PipelineInv, TypeInv, TypeOK, Database, Payment
  <2>3. <<k.landlord, TRUE>> \in Queues
    BY <2>2 DEF Queues, Users
  <2>4. DOMAIN queue'[<<k.landlord, TRUE>>] = 1 .. Len(queue'[<<k.landlord, TRUE>>])
    BY <2>2, <2>3, QueuesConstant, LenProperties DEF TypeOK
  <2>5. QED
    BY <1>3, <2>4 DEF Backed
<1>5. QED
  BY <1>1, <1>2, <1>4 DEF BackedInv

\* A payment on the backend is backed by a recorded pairing, or by one that
\* waits on disk in the queue of the landlord who accepted the tenant.
THEOREM PaymentsBacked == Spec => []PaymentBacked
<1>1. Init => BackedInv
  <2>1. SUFFICES ASSUME Init PROVE BackedInv
    OBVIOUS
  <2>2. \A q \in Queues : Len(queue[q]) = 0
    BY <2>1, EmptySeq DEF Init
  <2>3. PaysBacked
    BY <2>2 DEF PaysBacked
  <2>4. CallsBacked /\ PaymentBacked
    BY <2>1 DEF Init, EmptyDatabase, CallsBacked, PaymentBacked
  <2>5. QED
    BY <2>1, <2>3, <2>4, PipelineInit DEF BackedInv
<1>2. BackedInv => PaymentBacked
  BY DEF BackedInv
<1>3. QED
  BY <1>1, <1>2, BackedStep, PTL DEF Spec


(***************************************************************************)
(* What a device sees: the backend's documents with the pending writes     *)
(* applied one after the other.                                            *)
(***************************************************************************)

\* The documents after each of the pending writes, up to the n-th.
Views(d, pending, n) ==
  {f \in [0 .. n -> Database] :
     /\ f[0] = d
     /\ \A i \in 1 .. n : f[i] = ApplyWrite(f[i - 1], pending[i])}

\* There are such documents however many writes are pending.
LEMMA ViewsExist ==
  ASSUME NEW d \in Database, NEW pending \in Seq(Write)
  PROVE  \A n \in 0 .. Len(pending) : Views(d, pending, n) # {}
<1> DEFINE bad == {n \in 0 .. Len(pending) : Views(d, pending, n) = {}}
<1>1. Len(pending) \in Nat /\ \A i \in 1 .. Len(pending) : pending[i] \in Write
  BY LenProperties, ElementOfSeq
<1>2. SUFFICES ASSUME bad # {} PROVE FALSE
  OBVIOUS
<1>3. bad \in SUBSET Nat
  BY <1>1
<1>4. PICK n \in bad : \A m \in bad : ~ (m < n)
  BY <1>2, <1>3, LeastMember
<1>5. n \in 0 .. Len(pending) /\ n \in Nat /\ Views(d, pending, n) = {}
  BY <1>1
<1>6. CASE n = 0
  <2> DEFINE f == [i \in 0 .. 0 |-> d]
  <2>1. f \in [0 .. n -> Database] /\ f[0] = d /\ 1 .. n = {}
    BY <1>6
  <2>2. f \in Views(d, pending, n)
    BY <2>1 DEF Views
  <2>3. QED
    BY <1>5, <2>2
<1>7. CASE n # 0
  <2>1. n - 1 \in 0 .. Len(pending) /\ n - 1 < n /\ n \in 1 .. Len(pending)
    BY <1>1, <1>5, <1>7
  <2>2. Views(d, pending, n - 1) # {}
    BY <1>4, <2>1
  <2>3. PICK f \in Views(d, pending, n - 1) : TRUE
    BY <2>2
  <2>4. /\ f \in [0 .. n - 1 -> Database] /\ f[0] = d
        /\ \A i \in 1 .. n - 1 : f[i] = ApplyWrite(f[i - 1], pending[i])
    BY <2>3 DEF Views
  <2> DEFINE last == ApplyWrite(f[n - 1], pending[n])
             g == [i \in 0 .. n |-> IF i < n THEN f[i] ELSE last]
  <2>5. last \in Database
    <3>1. f[n - 1] \in Database
      BY <1>5, <1>7, <2>4
    <3>2. pending[n] \in Write
      BY <1>1, <2>1
    <3>3. QED
      BY <3>1, <3>2, ApplyWriteType
  <2> HIDE DEF last
  <2>6. g \in [0 .. n -> Database]
    BY <1>5, <2>4, <2>5
  <2>7. g[0] = d
    BY <1>5, <1>7, <2>4
  <2>8. ASSUME NEW i \in 1 .. n
        PROVE  g[i] = ApplyWrite(g[i - 1], pending[i])
    <3>1. g[i - 1] = f[i - 1]
      BY <1>5
    <3>2. CASE i = n
      <4>1. g[i] = last
        BY <1>5, <3>2
      <4>2. QED
        BY <3>1, <3>2, <4>1 DEF last
    <3>3. CASE i # n
      <4>1. g[i] = f[i] /\ i \in 1 .. n - 1
        BY <1>5, <3>3
      <4> HIDE DEF g
      <4>2. QED
        BY <2>4, <3>1, <4>1
    <3>4. QED
      BY <3>2, <3>3
  <2> HIDE DEF g
  <2>9. g \in Views(d, pending, n)
    BY <2>6, <2>7, <2>8 DEF Views
  <2>10. QED
    BY <1>5, <2>9
<1>8. QED
  BY <1>6, <1>7

\* What a device sees is the last of them.
LEMMA LocalViewIs ==
  ASSUME NEW d \in Database, NEW pending \in Seq(Write)
  PROVE  \E f \in Views(d, pending, Len(pending)) : LocalView(d, pending) = f[Len(pending)]
<1> DEFINE N == Len(pending)
           Goes(g) == g = [n \in 0 .. N |-> IF n = 0 THEN d
                                            ELSE ApplyWrite(g[n - 1], pending[n])]
           after == CHOOSE g : Goes(g)
<1>1. N \in Nat
  BY LenProperties
<1>2. PICK f \in Views(d, pending, N) : TRUE
  BY <1>1, ViewsExist
<1>3. /\ f \in [0 .. N -> Database] /\ f[0] = d
      /\ \A n \in 1 .. N : f[n] = ApplyWrite(f[n - 1], pending[n])
  BY DEF Views
<1>4. LocalView(d, pending) = after[N]
  BY Zenon DEF LocalView
<1> HIDE DEF N
<1>5. Goes(f)
  <2>1. \A n \in 0 .. N : n = 0 \/ n \in 1 .. N
    BY <1>1
  <2>2. f = [n \in 0 .. N |-> f[n]]
    BY <1>3
  <2>3. \A n \in 0 .. N : f[n] = IF n = 0 THEN d ELSE ApplyWrite(f[n - 1], pending[n])
    BY <1>3, <2>1
  <2>4. [n \in 0 .. N |-> f[n]] = [n \in 0 .. N |-> IF n = 0 THEN d
                                          ELSE ApplyWrite(f[n - 1], pending[n])]
    BY <2>3, Zenon
  <2>5. QED
    BY <2>2, <2>4, Zenon
<1>6. Goes(after)
  <2> HIDE DEF Goes
  <2>1. QED
    BY <1>5, Zenon
<1> HIDE DEF after
<1>7. /\ after[0] = d
      /\ \A n \in 1 .. N : after[n] = ApplyWrite(after[n - 1], pending[n])
  <2>1. \A n \in 0 .. N : after[n] = IF n = 0 THEN d ELSE ApplyWrite(after[n - 1], pending[n])
    BY <1>6, Zenon
  <2>2. 0 \in 0 .. N /\ \A n \in 1 .. N : n \in 0 .. N /\ n # 0
    BY <1>1
  <2>3. QED
    BY <2>1, <2>2, Zenon
<1> HIDE DEF Goes
<1> DEFINE bad == {n \in 0 .. N : after[n] # f[n]}
<1>8. ASSUME bad # {} PROVE FALSE
  <2>1. bad \in SUBSET Nat
    BY <1>1
  <2>2. PICK n \in bad : \A m \in bad : ~ (m < n)
    BY <1>8, <2>1, LeastMember
  <2>3. n \in 0 .. N /\ n \in Nat /\ after[n] # f[n]
    BY <1>1
  <2>4. n # 0
    BY <1>3, <1>7, <2>3
  <2>5. n \in 1 .. N /\ n - 1 \in 0 .. N /\ n - 1 < n
    BY <1>1, <2>3, <2>4
  <2>6. after[n - 1] = f[n - 1]
    BY <2>2, <2>5
  <2>7. QED
    BY <1>3, <1>7, <2>3, <2>5, <2>6
<1>9. N \in 0 .. N
  BY <1>1
<1>10. after[N] = f[N]
  BY <1>8, <1>9
<1>11. QED
  BY <1>4, <1>10 DEF N

IsAddProperty(w, l, p) == w.op = "addProperty" /\ w.landlord = l /\ w.prop = p

\* Only registering a property makes its record full, and only deleting it
\* takes that away: a merge leaves a full record full and no other becomes so.
LEMMA FullWrite ==
  ASSUME NEW d \in Database, NEW w \in Write, NEW l \in Landlords, NEW p \in Props
  PROVE  /\ ApplyWrite(d, w).rentals[l][p].state = "full" =>
              d.rentals[l][p].state = "full" \/ IsAddProperty(w, l, p)
         /\ IsAddProperty(w, l, p) => ApplyWrite(d, w).rentals[l][p].state = "full"
         /\ d.rentals[l][p].state = "full" =>
              \/ ApplyWrite(d, w).rentals[l][p].state = "full"
              \/ w.op = "deleteProperty" /\ w.prop = p
<1>1. /\ d.rentals \in [Landlords -> [Props -> RentalDoc]]
      /\ w.landlord \in Landlords /\ w.prop \in Props
      /\ w.op \in PropertyOps \cup TenancyOps
  BY DEF Database, Write, PropertyOps, TenancyOps
<1>2. CASE w.op \in {"addListing", "addRequest", "deleteRequest", "pair", "pay"}
  <2>1. ApplyWrite(d, w).rentals = d.rentals
    BY <1>2 DEF ApplyWrite, Database
  <2>2. QED
    BY <1>2, <2>1 DEF IsAddProperty
<1>3. ASSUME NEW doc, ApplyWrite(d, w) = [d EXCEPT !.rentals[w.landlord][w.prop] = doc]
      PROVE  IF l = w.landlord /\ p = w.prop
             THEN ApplyWrite(d, w).rentals[l][p] = doc
             ELSE ApplyWrite(d, w).rentals[l][p] = d.rentals[l][p]
  BY <1>1, <1>3 DEF Database
<1>4. CASE w.op = "addProperty"
  <2>1. ApplyWrite(d, w) = [d EXCEPT !.rentals[w.landlord][w.prop] = FullRental]
    BY <1>4 DEF ApplyWrite
  <2>2. FullRental.state = "full"
    BY DEF FullRental
  <2>3. QED
    BY <1>3, <1>4, <2>1, <2>2 DEF IsAddProperty
<1>5. CASE w.op = "deleteProperty"
  <2>1. ApplyWrite(d, w) = [d EXCEPT !.rentals[w.landlord][w.prop] = NoRental]
    BY <1>5 DEF ApplyWrite
  <2>2. NoRental.state # "full"
    BY DEF NoRental
  <2>3. QED
    BY <1>3, <1>5, <2>1, <2>2 DEF IsAddProperty
<1>6. CASE w.op = "name"
  <2> DEFINE old == d.rentals[w.landlord][w.prop]
  <2>1. ApplyWrite(d, w) = [d EXCEPT !.rentals[w.landlord][w.prop]
                              = MergeTenant(d.rentals[w.landlord][w.prop], w.tenant)]
    BY <1>6 DEF ApplyWrite
  <2>2. MergeTenant(old, w.tenant).state = "full" <=> old.state = "full"
    BY DEF MergeTenant
  <2>3. QED
    BY <1>3, <1>6, <2>1, <2>2 DEF IsAddProperty
<1>7. QED
  BY <1>1, <1>2, <1>4, <1>5, <1>6 DEF PropertyOps, TenancyOps

\* A record a device sees in full is full on the backend, or was registered on
\* this device.
LEMMA FullView ==
  ASSUME NEW d \in Database, NEW pending \in Seq(Write),
         NEW l \in Landlords, NEW p \in Props,
         LocalView(d, pending).rentals[l][p].state = "full"
  PROVE  \/ d.rentals[l][p].state = "full"
         \/ \E i \in 1 .. Len(pending) : IsAddProperty(pending[i], l, p)
<1>1. Len(pending) \in Nat /\ \A i \in 1 .. Len(pending) : pending[i] \in Write
  BY LenProperties, ElementOfSeq
<1>2. PICK f \in Views(d, pending, Len(pending)) : LocalView(d, pending) = f[Len(pending)]
  BY LocalViewIs
<1>3. /\ f \in [0 .. Len(pending) -> Database] /\ f[0] = d
      /\ \A i \in 1 .. Len(pending) : f[i] = ApplyWrite(f[i - 1], pending[i])
  BY DEF Views
<1> DEFINE full == {n \in 0 .. Len(pending) : f[n].rentals[l][p].state = "full"}
<1>4. full \in SUBSET Nat /\ Len(pending) \in full
  BY <1>1, <1>2
<1>5. PICK n \in full : \A m \in full : ~ (m < n)
  BY <1>4, LeastMember
<1>6. n \in 0 .. Len(pending) /\ n \in Nat /\ f[n].rentals[l][p].state = "full"
  BY <1>1
<1>7. CASE n = 0
  BY <1>3, <1>6, <1>7
<1>8. CASE n # 0
  <2>1. n \in 1 .. Len(pending) /\ n - 1 \in 0 .. Len(pending) /\ n - 1 < n
    BY <1>1, <1>6, <1>8
  <2>2. f[n - 1].rentals[l][p].state # "full"
    BY <1>5, <2>1
  <2>3. f[n - 1] \in Database /\ pending[n] \in Write
    BY <1>1, <1>3, <2>1
  <2>4. f[n] = ApplyWrite(f[n - 1], pending[n])
    BY <1>3, <2>1
  <2>5. IsAddProperty(pending[n], l, p)
    BY <1>6, <2>2, <2>3, <2>4, FullWrite
  <2>6. QED
    BY <2>1, <2>5
<1>9. QED
  BY <1>7, <1>8

(***************************************************************************)
(* The kinds of steps, as far as properties are concerned.                 *)
(***************************************************************************)

\* What the writes ws of the user u are, when they are about properties.
PropertyWrites(u, ws) ==
  \A i \in 1 .. Len(ws) :
    /\ ws[i].op \in {"addProperty", "addListing"} =>
         client[u] = "user" /\ <<ws[i].landlord, ws[i].prop>> \in registered'
    /\ ws[i].op = "addListing" =>
         \E j \in 1 .. Len(ws) : j < i /\ IsAddProperty(ws[j], ws[i].landlord, ws[i].prop)
    /\ ws[i].op = "deleteProperty" => ws[i].prop \in deleted'
    /\ ws[i].op = "pay" => ws[i].landlord = u /\ RentalView(u, ws[i].prop) = "full"

PropertyStep ==
  /\ UNCHANGED backend /\ SentKept
  /\ registered \subseteq registered' /\ deleted \subseteq deleted'
  /\ \/ UNCHANGED queue
     \/ \E u \in Users : \E ws \in Seq(Write) : Enqueue(u, ws) /\ PropertyWrites(u, ws)

\* Handlers of the landlord.
LEMMA LandlordPropertyStep ==
  ASSUME TypeInv, NEW l \in Landlords, Landlord(l)
  PROVE  PropertyStep
<1> USE DEF TypeInv
<1>1. l \in Users
  BY DEF Users
<1>2. ASSUME UNCHANGED <<client, sent>> PROVE SentKept
  BY <1>2 DEF SentKept, Current
<1>3. CASE Kill(l) \/ PropertiesSnapshotCrash(l)
  BY <1>3, DieKept DEF Kill, PropertiesSnapshotCrash, PropertyStep, history
<1>4. CASE LogIn(l) \/ LogOut(l)
  <2>1. SentKept
    BY <1>4 DEF LogIn, LogOut, SentKept, Current, TypeOK
  <2>2. QED
    BY <1>4, <2>1 DEF LogIn, LogOut, PropertyStep, history
<1>5. CASE RequestsSnapshot(l)
  BY <1>2, <1>5 DEF RequestsSnapshot, PropertyStep, history
<1>6. ASSUME NEW p \in Props, RegisterTapped(l, p)
      PROVE  PropertyStep
  <2>1. /\ RegisterWrites(l, p) \in Seq(Write)
        /\ Len(RegisterWrites(l, p)) = 2
        /\ RegisterWrites(l, p)[1] = AddProperty(l, p)
        /\ RegisterWrites(l, p)[2] = AddListing(l, p)
    <3>1. AddProperty(l, p) \in Write /\ AddListing(l, p) \in Write
      BY DEF AddProperty, AddListing, AWrite, Write, PropertyOps
    <3>2. QED
      BY <3>1 DEF RegisterWrites
  <2>2. Handler(l, RegisterWrites(l, p), {}) /\ client[l] = "user"
        /\ UNCHANGED <<backend, deleted>> /\ registered' = registered \cup {<<l, p>>}
    BY <1>6 DEF RegisterTapped
  <2>3. PICK ws \in Seq(Write) : Outcome(l, RegisterWrites(l, p), {}, ws)
    <3>1. Len(RegisterWrites(l, p)) > 0
      BY <2>1
    <3>2. QED
      BY <2>1, <2>2, <3>1, HandlerFacts
  <2>4. /\ Enqueue(l, ws) /\ Len(ws) \in 1 .. 2
        /\ \A i \in 1 .. Len(ws) : ws[i] = RegisterWrites(l, p)[i]
        /\ SentKept
    <3>1. CASE Die(l)
      BY <2>1, <2>3, <3>1, DieKept DEF Outcome
    <3>2. CASE UNCHANGED <<client, sent, list>>
      BY <1>2, <2>1, <2>3, <3>2 DEF Outcome
    <3>3. QED
      BY <2>3, <3>1, <3>2 DEF Outcome
  <2>5. /\ IsAddProperty(AddProperty(l, p), l, p)
        /\ AddProperty(l, p).op = "addProperty" /\ AddProperty(l, p).prop = p
        /\ AddProperty(l, p).landlord = l
        /\ AddListing(l, p).op = "addListing" /\ AddListing(l, p).prop = p
        /\ AddListing(l, p).landlord = l
    BY DEF IsAddProperty, AddProperty, AddListing, AWrite
  <2>6. PropertyWrites(l, ws)
    <3>1. ASSUME NEW i \in 1 .. Len(ws)
          PROVE  i = 1 \/ (i = 2 /\ 1 \in 1 .. Len(ws) /\ 1 < i)
      BY <2>4
    <3>2. 1 \in 1 .. Len(ws) /\ ws[1] = AddProperty(l, p)
      BY <2>1, <2>4
    <3>3. \A i \in 1 .. Len(ws) : i = 1 \/ (i = 2 /\ 1 < i /\ ws[i] = AddListing(l, p))
      BY <2>1, <2>4, <3>1
    <3>4. QED
      BY <2>2, <2>5, <3>2, <3>3 DEF PropertyWrites
  <2>7. QED
    BY <1>1, <2>2, <2>4, <2>6 DEF PropertyStep
<1>7. ASSUME NEW p \in Props, DeleteTapped(l, p)
      PROVE  PropertyStep
  <2> DEFINE w == DeleteProperty(l, p)
  <2>1. w \in Write /\ w.op = "deleteProperty" /\ w.prop = p
    BY DEF DeleteProperty, AWrite, Write, PropertyOps
  <2>2. /\ Enqueue(l, <<w>>) /\ deleted' = deleted \cup {p}
        /\ UNCHANGED <<backend, client, sent, registered>>
    BY <1>7 DEF DeleteTapped, clients
  <2> HIDE DEF w
  <2>3. <<w>> \in Seq(Write) /\ PropertyWrites(l, <<w>>)
    BY <2>1, <2>2 DEF PropertyWrites
  <2>4. QED
    BY <1>1, <1>2, <2>2, <2>3 DEF PropertyStep
<1>8. ASSUME NEW r \in list[l], Decline(l, r)
      PROVE  PropertyStep
  <2> DEFINE w == RemoveRequest(l, r)
  <2>1. r \in Request
    BY DEF TypeOK
  <2>2. w \in Write /\ w.op = "deleteRequest"
    BY <2>1 DEF RemoveRequest, AWrite, Write, TenancyOps, Request
  <2>3. /\ Enqueue(l, <<w>>)
        /\ UNCHANGED <<backend, client, sent, registered, deleted>>
    BY <1>8 DEF Decline, DeclineWrites, clients
  <2> HIDE DEF w
  <2>4. <<w>> \in Seq(Write) /\ PropertyWrites(l, <<w>>)
    BY <2>2 DEF PropertyWrites
  <2>5. QED
    BY <1>1, <1>2, <2>3, <2>4 DEF PropertyStep
<1>9. ASSUME NEW r \in list[l], Accept(l, r)
      PROVE  PropertyStep
  <2>1. r \in Request
    BY DEF TypeOK
  <2>2. /\ AcceptWrites(l, r) \in Seq(Write)
        /\ Len(AcceptWrites(l, r)) = 3
        /\ \A i \in 1 .. 3 : AcceptWrites(l, r)[i].op \in {"deleteRequest", "pair", "name"}
    BY <2>1 DEF AcceptWrites, RemoveRequest, MakePairedTrue, AddNameToProperty,
                AWrite, Write, TenancyOps, Request
  <2>3. PICK a : /\ Handler(l, AcceptWrites(l, r), {a})
                 /\ UNCHANGED <<backend, registered, deleted>>
    BY <1>9 DEF Accept
  <2>4. PICK ws \in Seq(Write) : Outcome(l, AcceptWrites(l, r), {a}, ws)
    BY <2>2, <2>3, HandlerFacts
  <2>5. SentKept
    <3>1. CASE Die(l)
      BY <3>1, DieKept
    <3>2. CASE UNCHANGED <<client, sent, list>>
      BY <1>2, <3>2
    <3>3. QED
      BY <2>4, <3>1, <3>2 DEF Outcome
  <2>6. /\ Enqueue(l, ws)
        /\ \A i \in 1 .. Len(ws) : ws[i].op \in {"deleteRequest", "pair", "name"}
    BY <2>2, <2>4 DEF Outcome
  <2>7. PropertyWrites(l, ws)
    BY <2>6 DEF PropertyWrites
  <2>8. QED
    BY <1>1, <2>3, <2>5, <2>6, <2>7 DEF PropertyStep
<1>10. ASSUME NEW a \in accepting[l], PropertyForPayment(l, a)
       PROVE  PropertyStep
  <2>1. UNCHANGED <<backend, registered, deleted>>
    BY <1>10 DEF PropertyForPayment, history
  <2>2. CASE /\ RentKnown(RentalView(l, a.prop))
             /\ Enqueue(l, <<AddPayment(l, a.tenant, a.prop, a.id)>>)
             /\ UNCHANGED <<sent, client, list>>
    <3> DEFINE w == AddPayment(l, a.tenant, a.prop, a.id)
    <3>1. w.op = "pay" /\ w.landlord = l /\ w.prop = a.prop
      BY DEF AddPayment, AWrite
    <3>2. <<w>> \in Seq(Write)
      BY PayWriteType
    <3>3. RentalView(l, a.prop) = "full" /\ Enqueue(l, <<w>>)
      BY <2>2 DEF RentKnown
    <3> HIDE DEF w
    <3>4. PropertyWrites(l, <<w>>)
      BY <3>1, <3>3 DEF PropertyWrites
    <3>5. QED
      BY <1>1, <1>2, <2>1, <2>2, <3>2, <3>3, <3>4 DEF PropertyStep
  <2>3. CASE UNCHANGED <<queue, sent, client, list>>
    BY <1>2, <2>1, <2>3 DEF PropertyStep
  <2>4. CASE Die(l) /\ UNCHANGED queue
    BY <2>1, <2>4, DieKept DEF PropertyStep
  <2>5. QED
    BY <1>10, <2>2, <2>3, <2>4 DEF PropertyForPayment
<1>11. QED
  BY <1>3, <1>4, <1>5, <1>6, <1>7, <1>8, <1>9, <1>10 DEF Landlord

\* Every step of the system is a step of a device or of this kind.
LEMMA EveryPropertyStep ==
  ASSUME TypeInv, [Next]_vars
  PROVE  PropertyStep \/ \E u \in Users : Device(u)
<1> USE DEF TypeInv
<1>1. ASSUME UNCHANGED <<client, sent>> PROVE SentKept
  BY <1>1 DEF SentKept, Current
<1>2. CASE UNCHANGED vars
  BY <1>1, <1>2 DEF PropertyStep, vars, backend, clients, history
<1>3. ASSUME NEW t \in Tenants, Tenant(t)
      PROVE  PropertyStep
  <2>1. CASE \/ \E p \in Props : EditPropertyID(t, p)
             \/ SendRequestTapped(t)
             \/ ListingNotFound(t)
    BY <1>1, <2>1
       DEF PropertyStep, EditPropertyID, SendRequestTapped, ListingNotFound, history
  <2>2. CASE ListingFound(t)
    <3> DEFINE r == [id |-> requestIds + 1, tenant |-> t, prop |-> typed[t]]
               l == db.listings[asking[t]]
               w == AddRequest(l, r)
    <3>1. r \in Request /\ l \in Landlords
      BY <2>2 DEF TypeOK, Request, ListingFound, DocumentExists, Database
    <3>2. w \in Write /\ w.op = "addRequest"
      BY <3>1 DEF AddRequest, AWrite, Write, TenancyOps, Request
    <3>3. Enqueue(t, <<w>>) /\ UNCHANGED <<backend, client, sent, registered, deleted>>
      BY <2>2 DEF ListingFound
    <3> HIDE DEF w
    <3>4. <<w>> \in Seq(Write) /\ PropertyWrites(t, <<w>>)
      BY <3>2 DEF PropertyWrites
    <3>5. QED
      BY <1>1, <3>3, <3>4 DEF PropertyStep, Users
  <2>3. QED
    BY <1>3, <2>1, <2>2 DEF Tenant
<1>4. QED
  BY <1>2, <1>3, LandlordPropertyStep DEF Next

(***************************************************************************)
(* A property tenants can find is one its landlord's records hold.         *)
(***************************************************************************)

\* Properties whose record is full, or that were deleted.
Own == {x \in Landlords \X Props :
          x[2] \in deleted \/ db.rentals[x[1]][x[2]].state = "full"}

\* A listing is written behind the record of its property, or that is there.
BehindProperty(s, i, own) ==
  \/ <<s[i].landlord, s[i].prop>> \in own
  \/ \E j \in 1 .. i - 1 : IsAddProperty(s[j], s[i].landlord, s[i].prop)

\* What is deleted or paid for was registered and is remembered.
Remembered(w, reg, del) ==
  /\ w.op = "deleteProperty" => w.prop \in del
  /\ w.op \in {"addProperty", "pay"} => <<w.landlord, w.prop>> \in reg

WritesRemembered ==
  \A q \in Queues : \A i \in 1 .. Len(queue[q]) :
    Remembered(queue[q][i], registered, deleted)

\* Writes that may be refused register nothing.
RegisteredSignedIn ==
  \A u \in Users : \A i \in 1 .. Len(queue[<<u, FALSE>>]) :
    queue[<<u, FALSE>>][i].op \notin {"addProperty", "addListing"}

ListingsBehind ==
  \A q \in Queues : \A i \in 1 .. Len(queue[q]) :
    queue[q][i].op = "addListing" => BehindProperty(queue[q], i, Own)

\* A record among the writes sent since the stream opened is on the backend.
SentOwned ==
  \A u \in Users : \A i \in 1 .. sent[u] :
    Pending(u)[i].op = "addProperty" =>
      <<Pending(u)[i].landlord, Pending(u)[i].prop>> \in Own

FullRegistered ==
  \A l \in Landlords, p \in Props : db.rentals[l][p].state = "full" =>
    <<l, p>> \in registered

QueuesOwned ==
  /\ WritesRemembered
  /\ RegisteredSignedIn
  /\ ListingsBehind
  /\ SentOwned

\* ListedIsOwned speaks of what is committed, RentIsForRegistered of what a
\* device saw before that, which comes from its queue or from the backend.
OwnInv ==
  /\ TypeInv
  /\ QueuesOwned
  /\ ListedIsOwned
  /\ FullRegistered
  /\ RentIsForRegistered

\* What is owned.
LEMMA OwnFacts ==
  ASSUME NEW l \in Landlords, NEW p \in Props
  PROVE  <<l, p>> \in Own <=> p \in deleted \/ db.rentals[l][p].state = "full"
BY DEF Own

\* A listing with a record keeps it while no document changes.
LEMMA OwnKept ==
  ASSUME UNCHANGED db, deleted \subseteq deleted'
  PROVE  Own \subseteq Own'
BY DEF Own

\* A committed write takes no record away but of a property deleted.
LEMMA OwnCommit ==
  ASSUME TypeOK, NEW w \in Write, db' = ApplyWrite(db, w), UNCHANGED deleted,
         w.op = "deleteProperty" => w.prop \in deleted
  PROVE  /\ Own \subseteq Own'
         /\ w.op = "addProperty" => <<w.landlord, w.prop>> \in Own'
<1>1. db \in Database /\ w.landlord \in Landlords /\ w.prop \in Props
  BY DEF TypeOK, Write
<1>2. ASSUME NEW l \in Landlords, NEW p \in Props,
             p \in deleted \/ db.rentals[l][p].state = "full"
      PROVE  p \in deleted \/ db'.rentals[l][p].state = "full"
  BY <1>1, <1>2, FullWrite
<1>3. Own \subseteq Own'
  BY <1>2 DEF Own
<1>4. ASSUME w.op = "addProperty" PROVE db'.rentals[w.landlord][w.prop].state = "full"
  BY <1>1, <1>4, FullWrite DEF IsAddProperty
<1>5. w.op = "addProperty" => <<w.landlord, w.prop>> \in Own'
  BY <1>1, <1>4 DEF Own
<1>6. QED
  BY <1>3, <1>5

\* How a write changes the listings.
LEMMA ListingCommit ==
  ASSUME NEW d \in Database, NEW w \in Write, NEW p \in Props
  PROVE  \/ ApplyWrite(d, w).listings[p] = d.listings[p]
         \/ w.op = "addListing" /\ p = w.prop /\ ApplyWrite(d, w).listings[p] = w.landlord
<1>1. /\ d.listings \in [Props -> Landlords \cup {None}]
      /\ w.op \in PropertyOps \cup TenancyOps
  BY DEF Database, Write, PropertyOps, TenancyOps
<1>2. CASE w.op = "addListing"
  <2>1. ApplyWrite(d, w).listings = [d.listings EXCEPT ![w.prop] = w.landlord]
    BY <1>2 DEF ApplyWrite, Database
  <2>2. QED
    BY <1>1, <1>2, <2>1
<1>3. CASE w.op # "addListing"
  <2>1. ApplyWrite(d, w).listings = d.listings
    BY <1>1, <1>3 DEF ApplyWrite, Database, PropertyOps, TenancyOps
  <2>2. QED
    BY <2>1
<1>4. QED
  BY <1>2, <1>3

\* The queues of a device that committed or did nothing, when what is owned
\* and remembered grows.
LEMMA OwnedStill ==
  ASSUME UNCHANGED queue, QueuesOwned, Own \subseteq Own',
         registered \subseteq registered', deleted \subseteq deleted'
  PROVE  WritesRemembered' /\ RegisteredSignedIn' /\ ListingsBehind'
<1>1. WritesRemembered'
  BY QueuesConstant DEF QueuesOwned, WritesRemembered, Remembered
<1>2. RegisteredSignedIn'
  BY DEF QueuesOwned, RegisteredSignedIn
<1>3. ListingsBehind'
  <2>1. ASSUME NEW q \in Queues, NEW i \in 1 .. Len(queue[q]), queue[q][i].op = "addListing"
        PROVE  BehindProperty(queue[q], i, Own')
    BY <2>1 DEF QueuesOwned, ListingsBehind, BehindProperty
  <2>2. QED
    BY <2>1, QueuesConstant DEF ListingsBehind
<1>4. QED
  BY <1>1, <1>2, <1>3

\* The backend commits a write.
LEMMA OwnCommitStep ==
  ASSUME OwnInv, NEW u \in Users, Commit(u)
  PROVE  QueuesOwned' /\ ListedIsOwned' /\ FullRegistered' /\ RentIsForRegistered'
<1> USE DEF OwnInv, QueuesOwned
<1>1. PICK w \in Write :
        /\ sent[u] + 1 \in 1 .. Len(Pending(u))
        /\ w = Pending(u)[sent[u] + 1]
        /\ db' = ApplyWrite(db, w)
        /\ sent' = [sent EXCEPT ![u] = @ + 1]
        /\ UNCHANGED <<queue, client>>
  BY CommitFacts
<1>2. UNCHANGED <<registered, deleted>> /\ TypeOK /\ db \in Database
  BY DEF Commit, history, TypeInv, TypeOK
<1>3. Current(u) \in Queues /\ Pending(u) = queue[Current(u)]
  BY PendingFacts DEF TypeInv
<1>4. Remembered(w, registered, deleted)
  BY <1>1, <1>3 DEF WritesRemembered
<1>5. Own \subseteq Own' /\ (w.op = "addProperty" => <<w.landlord, w.prop>> \in Own')
  BY <1>1, <1>2, <1>4, OwnCommit DEF Remembered
<1>6. WritesRemembered' /\ RegisteredSignedIn' /\ ListingsBehind'
  BY <1>1, <1>2, <1>5, OwnedStill
<1>7. SentOwned'
  <2>1. SUFFICES ASSUME NEW v \in Users, NEW i \in 1 .. sent'[v],
                        Pending(v)[i].op = "addProperty"
                 PROVE  <<Pending(v)[i].landlord, Pending(v)[i].prop>> \in Own'
    BY <1>1 DEF SentOwned, Pending, Current
  <2>2. CASE i \in 1 .. sent[v]
    BY <1>5, <2>1, <2>2 DEF SentOwned
  <2>3. CASE i \notin 1 .. sent[v]
    <3>1. v = u /\ i = sent[u] + 1
      BY <1>1, <2>3, DeviceFacts DEF TypeInv, TypeOK
    <3>2. QED
      BY <1>1, <1>5, <2>1, <3>1
  <2>4. QED
    BY <2>2, <2>3
<1>8. ASSUME w.op = "addListing"
      PROVE  <<w.landlord, w.prop>> \in Own
  <2>1. BehindProperty(Pending(u), sent[u] + 1, Own)
    BY <1>1, <1>3, <1>8 DEF ListingsBehind
  <2>2. CASE \E j \in 1 .. (sent[u] + 1) - 1 :
               IsAddProperty(Pending(u)[j], w.landlord, w.prop)
    <3>1. PICK j \in 1 .. sent[u] : IsAddProperty(Pending(u)[j], w.landlord, w.prop)
      BY <2>2, DeviceFacts
    <3>2. QED
      BY <3>1 DEF SentOwned, IsAddProperty
  <2>3. QED
    BY <1>1, <2>1, <2>2 DEF BehindProperty
<1>9. ListedIsOwned'
  <2>1. SUFFICES ASSUME NEW p \in Props \ deleted', NEW l \in Landlords, db'.listings[p] = l
                 PROVE  db'.rentals[l][p].state = "full"
    BY DEF ListedIsOwned
  <2>2. \/ db.listings[p] = l
        \/ w.op = "addListing" /\ p = w.prop /\ l = w.landlord
    BY <1>1, <1>2, <2>1, ListingCommit
  <2>3. <<l, p>> \in Own
    BY <1>2, <1>8, <2>2, OwnFacts DEF ListedIsOwned
  <2>4. <<l, p>> \in Own'
    BY <1>5, <2>3
  <2>5. QED
    BY <2>4 DEF Own
<1>10. FullRegistered'
  <2>1. SUFFICES ASSUME NEW l \in Landlords, NEW p \in Props,
                        db'.rentals[l][p].state = "full"
                 PROVE  <<l, p>> \in registered
    BY <1>2 DEF FullRegistered
  <2>2. db.rentals[l][p].state = "full" \/ IsAddProperty(w, l, p)
    BY <1>1, <1>2, <2>1, FullWrite
  <2>3. QED
    BY <1>4, <2>2 DEF FullRegistered, IsAddProperty, Remembered
<1>11. RentIsForRegistered'
  <2>1. SUFFICES ASSUME NEW t \in Tenants, NEW k \in db'.payments[t]
                 PROVE  <<k.landlord, k.prop>> \in registered
    BY <1>2 DEF RentIsForRegistered
  <2>2. k \in db.payments[t] \/ (w.op = "pay" /\ k = PaymentOf(w))
    BY <1>1, <1>2, PaymentCommit
  <2>3. PaymentOf(w).prop = w.prop /\ PaymentOf(w).landlord = w.landlord
    BY DEF PaymentOf
  <2>4. QED
    BY <1>4, <2>2, <2>3 DEF RentIsForRegistered, Remembered
<1>12. QED
  BY <1>6, <1>7, <1>9, <1>10, <1>11

\* A write leaves its queue.
LEMMA OwnRemoval ==
  ASSUME OwnInv, NEW u \in Users,
         OnWriteStreamMutationResult(u) \/ HandleRejectedWrite(u)
  PROVE  QueuesOwned'
<1> USE DEF OwnInv, QueuesOwned
<1>1. /\ Pending(u) # <<>>
      /\ queue' = [queue EXCEPT ![Current(u)] = Tail(@)]
      /\ UNCHANGED <<db, client, registered, deleted>>
  BY RemovalFacts
     DEF backend, OnWriteStreamMutationResult, HandleRejectedWrite, history
<1>2. Current(u) \in Queues /\ Pending(u) = queue[Current(u)] /\ TypeOK
  BY PendingFacts DEF TypeInv
<1>3. Own' = Own
  BY <1>1 DEF Own
<1>4. \A q \in Queues : \A i \in 1 .. Len(queue'[q]) :
        \E j \in 1 .. Len(queue[q]) : queue'[q][i] = queue[q][j]
  BY <1>1, <1>2, PopEntries
<1>5. WritesRemembered'
  <2>1. SUFFICES ASSUME NEW q \in Queues, NEW i \in 1 .. Len(queue'[q])
                 PROVE  Remembered(queue'[q][i], registered, deleted)
    BY <1>1, QueuesConstant DEF WritesRemembered
  <2>2. QED
    BY <1>4 DEF WritesRemembered
<1>6. RegisteredSignedIn'
  <2>1. SUFFICES ASSUME NEW v \in Users, NEW i \in 1 .. Len(queue'[<<v, FALSE>>])
                 PROVE  queue'[<<v, FALSE>>][i].op \notin {"addProperty", "addListing"}
    BY DEF RegisteredSignedIn
  <2>2. <<v, FALSE>> \in Queues
    BY DEF Queues
  <2>3. QED
    BY <1>4, <2>2 DEF RegisteredSignedIn
<1>7. ListingsBehind'
  <2>1. SUFFICES ASSUME NEW q \in Queues, NEW i \in 1 .. Len(queue'[q]),
                        queue'[q][i].op = "addListing"
                 PROVE  BehindProperty(queue'[q], i, Own)
    BY <1>3, QueuesConstant DEF ListingsBehind
  <2>2. CASE q # Current(u)
    <3>1. queue'[q] = queue[q]
      BY <1>1, <1>2, <2>2, PopEntries
    <3>2. QED
      BY <2>1, <3>1 DEF ListingsBehind
  <2>3. CASE q = Current(u)
    <3>1. /\ Len(queue[q]) \in Nat
          /\ i + 1 \in 1 .. Len(queue[q])
          /\ queue'[q][i] = queue[q][i + 1]
          /\ \A k \in 2 .. Len(queue[q]) : /\ k - 1 \in 1 .. Len(queue'[q])
                                           /\ queue'[q][k - 1] = queue[q][k]
      BY <1>1, <1>2, <2>3, PopEntries
    <3>2. CASE <<queue[q][i + 1].landlord, queue[q][i + 1].prop>> \in Own
      BY <3>1, <3>2 DEF BehindProperty
    <3>3. ASSUME NEW j \in 1 .. (i + 1) - 1,
                 IsAddProperty(queue[q][j], queue[q][i + 1].landlord, queue[q][i + 1].prop)
          PROVE  BehindProperty(queue'[q], i, Own)
      <4>1. CASE j = 1
        <5>1. CASE OnWriteStreamMutationResult(u)
          <6>1. 1 \in 1 .. sent[u]
            BY <5>1, DeviceFacts DEF OnWriteStreamMutationResult
          <6>2. <<queue[q][1].landlord, queue[q][1].prop>> \in Own
            BY <1>2, <2>3, <3>3, <4>1, <6>1 DEF SentOwned, IsAddProperty
          <6>3. QED
            BY <3>1, <3>3, <4>1, <6>2 DEF BehindProperty, IsAddProperty
        <5>2. CASE HandleRejectedWrite(u)
          <6>1. q = <<u, FALSE>>
            BY <2>3, <5>2 DEF HandleRejectedWrite, Current
          <6>2. queue[q][i + 1].op = "addListing"
            BY <2>1, <3>1
          <6>3. QED
            BY <3>1, <6>1, <6>2 DEF RegisteredSignedIn
        <5>3. QED
          BY <5>1, <5>2
      <4>2. CASE j # 1
        <5>1. j \in 2 .. Len(queue[q]) /\ j - 1 \in 1 .. i - 1
          BY <3>1, <3>3, <4>2
        <5>2. queue'[q][j - 1] = queue[q][j]
          BY <3>1, <5>1
        <5>3. QED
          BY <3>1, <3>3, <5>1, <5>2 DEF BehindProperty
      <4>3. QED
        BY <4>1, <4>2
    <3>4. queue[q][i + 1].op = "addListing"
      BY <2>1, <3>1
    <3>5. QED
      BY <3>1, <3>2, <3>3, <3>4 DEF ListingsBehind, BehindProperty
  <2>4. QED
    BY <2>2, <2>3
<1>8. SentOwned'
  <2>1. SUFFICES ASSUME NEW v \in Users, NEW i \in 1 .. sent'[v],
                        queue'[Current(v)][i].op = "addProperty"
                 PROVE  <<queue'[Current(v)][i].landlord,
                          queue'[Current(v)][i].prop>> \in Own
    <3>1. \A v \in Users : Pending(v)' = queue'[Current(v)]
      BY <1>1 DEF Pending, Current
    <3>2. QED
      BY <1>3, <3>1, Zenon DEF SentOwned
  <2>2. Current(v) \in Queues /\ Pending(v) = queue[Current(v)]
    BY PendingFacts DEF TypeInv
  <2>3. CASE v # u
    <3>1. Current(v) # Current(u)
      BY <2>3 DEF Current
    <3>2. queue'[Current(v)] = Pending(v)
      BY <1>1, <1>2, <2>2, <3>1, PopFacts
    <3>3. i \in 1 .. sent[v]
      BY <2>3 DEF OnWriteStreamMutationResult, HandleRejectedWrite, TypeInv, TypeOK
    <3>4. QED
      BY <2>1, <3>2, <3>3 DEF SentOwned
  <2>4. CASE v = u
    <3>1. OnWriteStreamMutationResult(u)
      <4>1. HandleRejectedWrite(u) => sent'[u] = 0
        BY DEF HandleRejectedWrite
      <4>2. QED
        BY <2>4, <4>1
    <3>2. i + 1 \in 1 .. sent[u] /\ i \in 1 .. Len(Pending(u)) - 1
      BY <2>4, <3>1, DeviceFacts DEF OnWriteStreamMutationResult, TypeInv, TypeOK
    <3>3. queue'[Current(u)][i] = Pending(u)[i + 1]
      BY <1>1, <1>2, <3>2, PopFacts
    <3>4. QED
      BY <2>1, <2>4, <3>2, <3>3 DEF SentOwned
  <2>5. QED
    BY <2>3, <2>4
<1>9. QED
  BY <1>5, <1>6, <1>7, <1>8

\* What a landlord's device sees in full that landlord registered.
LEMMA SeenRegistered ==
  ASSUME OwnInv, NEW u \in Landlords, NEW p \in Props, RentalView(u, p) = "full"
  PROVE  <<u, p>> \in registered
<1>1. u \in Users /\ db \in Database
  BY DEF Users, OwnInv, TypeInv, TypeOK
<1>2. /\ Pending(u) \in Seq(Write) /\ Current(u) \in Queues
      /\ Pending(u) = queue[Current(u)]
  BY <1>1, PendingFacts DEF OwnInv, TypeInv
<1>3. \/ db.rentals[u][p].state = "full"
      \/ \E i \in 1 .. Len(Pending(u)) : IsAddProperty(Pending(u)[i], u, p)
  BY <1>1, <1>2, FullView DEF RentalView
<1>4. QED
  BY <1>2, <1>3
     DEF OwnInv, FullRegistered, QueuesOwned, WritesRemembered, Remembered, IsAddProperty

\* A handler's writes join a queue.
LEMMA OwnWrite ==
  ASSUME OwnInv, PropertyStep, NEW u \in Users, NEW ws \in Seq(Write),
         Enqueue(u, ws), PropertyWrites(u, ws)
  PROVE  WritesRemembered' /\ RegisteredSignedIn' /\ ListingsBehind'
<1> USE DEF OwnInv, QueuesOwned
<1>1. /\ TypeOK /\ UNCHANGED db
      /\ registered \subseteq registered' /\ deleted \subseteq deleted'
  BY DEF TypeInv, PropertyStep, backend
<1>2. Own \subseteq Own'
  BY <1>1, OwnKept
<1>3. \A q \in Queues :
        /\ Len(queue[q]) \in Nat
        /\ \A k \in 1 .. Len(queue[q]) : queue'[q][k] = queue[q][k]
        /\ \A n \in 1 .. Len(queue'[q]) :
             \/ n \in 1 .. Len(queue[q])
             \/ /\ q = Current(u)
                /\ \E j \in 1 .. Len(ws) : /\ n = Len(queue[q]) + j
                                           /\ queue'[q][n] = ws[j]
        /\ q = Current(u) => \A j \in 1 .. Len(ws) : queue'[q][Len(queue[q]) + j] = ws[j]
  BY <1>1, EnqueueEntries, Zenon
<1>4. \A i \in 1 .. Len(ws) : ws[i] \in Write /\ Len(ws) \in Nat
  BY LenProperties, ElementOfSeq
<1>5. ASSUME NEW i \in 1 .. Len(ws)
      PROVE  Remembered(ws[i], registered', deleted')
  <2>1. ws[i].op = "pay" => <<ws[i].landlord, ws[i].prop>> \in registered
    <3>1. SUFFICES ASSUME ws[i].op = "pay"
                   PROVE  <<ws[i].landlord, ws[i].prop>> \in registered
      OBVIOUS
    <3>2. ws[i].landlord = u /\ RentalView(u, ws[i].prop) = "full"
      BY <3>1 DEF PropertyWrites
    <3>3. ws[i].landlord \in Landlords /\ ws[i].prop \in Props
      BY <1>4 DEF Write
    <3>4. QED
      BY <3>2, <3>3, SeenRegistered
  <2>2. QED
    BY <1>1, <2>1 DEF PropertyWrites, Remembered
<1>6. WritesRemembered'
  <2>1. SUFFICES ASSUME NEW q \in Queues, NEW i \in 1 .. Len(queue'[q])
                 PROVE  Remembered(queue'[q][i], registered', deleted')
    BY QueuesConstant DEF WritesRemembered
  <2>2. CASE i \in 1 .. Len(queue[q])
    <3>1. queue'[q][i] = queue[q][i] /\ Remembered(queue[q][i], registered, deleted)
      BY <1>3, <2>2 DEF WritesRemembered
    <3>2. QED
      BY <1>1, <3>1 DEF Remembered
  <2>3. CASE i \notin 1 .. Len(queue[q])
    <3>1. \E j \in 1 .. Len(ws) : queue'[q][i] = ws[j]
      BY <1>3, <2>3
    <3>2. QED
      BY <1>5, <3>1
  <2>4. QED
    BY <2>2, <2>3
<1>7. RegisteredSignedIn'
  <2>1. SUFFICES ASSUME NEW v \in Users, NEW i \in 1 .. Len(queue'[<<v, FALSE>>])
                 PROVE  queue'[<<v, FALSE>>][i].op \notin {"addProperty", "addListing"}
    BY DEF RegisteredSignedIn
  <2> DEFINE q == <<v, FALSE>>
  <2>2. q \in Queues
    BY DEF Queues
  <2>3. i \in 1 .. Len(queue[q]) => queue[q][i].op \notin {"addProperty", "addListing"}
    BY DEF RegisteredSignedIn
  <2>4. q = Current(u) => client[u] # "user"
    BY DEF Current
  <2>5. i \in 1 .. Len(queue'[q])
    BY <2>1
  <2> HIDE DEF q
  <2>6. CASE i \in 1 .. Len(queue[q])
    <3>1. queue'[q][i] = queue[q][i]
      BY <1>3, <2>2, <2>6
    <3>2. QED
      BY <2>3, <2>6, <3>1 DEF q
  <2>7. CASE i \notin 1 .. Len(queue[q])
    <3>1. PICK j \in 1 .. Len(ws) : q = Current(u) /\ queue'[q][i] = ws[j]
      BY <1>3, <2>2, <2>5, <2>7
    <3>2. ws[j].op \notin {"addProperty", "addListing"}
      BY <2>4, <3>1 DEF PropertyWrites
    <3>3. QED
      BY <3>1, <3>2 DEF q
  <2>8. QED
    BY <2>6, <2>7
<1>8. ListingsBehind'
  <2>1. SUFFICES ASSUME NEW q \in Queues, NEW i \in 1 .. Len(queue'[q]),
                        queue'[q][i].op = "addListing"
                 PROVE  BehindProperty(queue'[q], i, Own')
    BY QueuesConstant DEF ListingsBehind
  <2>2. /\ Len(queue[q]) \in Nat
        /\ \A k \in 1 .. Len(queue[q]) : queue'[q][k] = queue[q][k]
    BY <1>3
  <2>3. CASE i \in 1 .. Len(queue[q])
    <3>1. \A j \in 1 .. i - 1 : j \in 1 .. Len(queue[q])
      BY <2>2, <2>3
    <3>2. queue[q][i].op = "addListing" /\ queue'[q][i] = queue[q][i]
      BY <2>1, <2>2, <2>3
    <3>3. BehindProperty(queue[q], i, Own)
      BY <2>3, <3>2 DEF ListingsBehind
    <3>4. QED
      BY <1>2, <2>2, <3>1, <3>2, <3>3 DEF BehindProperty
  <2>4. CASE i \notin 1 .. Len(queue[q])
    <3>1. PICK j \in 1 .. Len(ws) : /\ q = Current(u)
                                    /\ i = Len(queue[q]) + j
                                    /\ queue'[q][i] = ws[j]
      BY <1>3, <2>4
    <3>2. PICK k \in 1 .. Len(ws) : /\ k < j
                                    /\ IsAddProperty(ws[k], ws[j].landlord, ws[j].prop)
      BY <2>1, <3>1 DEF PropertyWrites
    <3>3. Len(queue[q]) + k \in 1 .. i - 1
      BY <1>4, <2>2, <3>1, <3>2
    <3>4. queue'[q][Len(queue[q]) + k] = ws[k]
      BY <1>3, <3>1
    <3>5. QED
      BY <3>1, <3>2, <3>3, <3>4 DEF BehindProperty
  <2>5. QED
    BY <2>3, <2>4
<1>9. QED
  BY <1>6, <1>7, <1>8

\* A step of the apps.
LEMMA OwnAppStep ==
  ASSUME OwnInv, PropertyStep
  PROVE  QueuesOwned' /\ ListedIsOwned' /\ FullRegistered' /\ RentIsForRegistered'
<1> USE DEF OwnInv, QueuesOwned
<1>1. /\ TypeOK /\ UNCHANGED db /\ SentKept
      /\ registered \subseteq registered' /\ deleted \subseteq deleted'
  BY DEF TypeInv, PropertyStep, backend
<1>2. Own \subseteq Own'
  BY <1>1, OwnKept
<1>3. WritesRemembered' /\ RegisteredSignedIn' /\ ListingsBehind'
  <2>1. CASE UNCHANGED queue
    BY <1>1, <1>2, <2>1, OwnedStill
  <2>2. CASE \E u \in Users : \E ws \in Seq(Write) : Enqueue(u, ws) /\ PropertyWrites(u, ws)
    BY <2>2, OwnWrite
  <2>3. QED
    BY <2>1, <2>2 DEF PropertyStep
<1>4. ASSUME NEW u \in Users, NEW i \in 1 .. sent[u]
      PROVE  queue'[Current(u)][i] = Pending(u)[i]
  <2>1. /\ Current(u) \in Queues /\ i \in 1 .. Len(queue[Current(u)])
        /\ Pending(u) = queue[Current(u)]
    BY PendingFacts, DeviceFacts DEF TypeInv
  <2>2. CASE UNCHANGED queue
    BY <2>1, <2>2
  <2>3. ASSUME NEW v \in Users, NEW ws \in Seq(Write), Enqueue(v, ws)
        PROVE  queue'[Current(u)][i] = queue[Current(u)][i]
    BY <1>1, <2>1, <2>3, EnqueueEntries
  <2>4. QED
    BY <2>1, <2>2, <2>3 DEF PropertyStep
<1>5. SentOwned'
  <2>1. SUFFICES ASSUME NEW u \in Users, NEW i \in 1 .. sent'[u],
                        queue'[Current(u)'][i].op = "addProperty"
                 PROVE  <<queue'[Current(u)'][i].landlord,
                          queue'[Current(u)'][i].prop>> \in Own'
    BY DEF SentOwned, Pending
  <2>2. sent'[u] = sent[u] /\ Current(u)' = Current(u)
    BY <1>1, <2>1 DEF SentKept
  <2>3. queue'[Current(u)][i] = Pending(u)[i] /\ i \in 1 .. sent[u]
    BY <1>4, <2>1, <2>2
  <2>4. QED
    BY <1>2, <2>1, <2>2, <2>3 DEF SentOwned
<1>6. ListedIsOwned'
  BY <1>1 DEF ListedIsOwned
<1>7. FullRegistered' /\ RentIsForRegistered'
  BY <1>1 DEF FullRegistered, RentIsForRegistered
<1>8. QED
  BY <1>3, <1>5, <1>6, <1>7

\* Every step keeps listings behind their records, and full records registered.
LEMMA OwnStep == OwnInv /\ [Next]_vars => OwnInv'
<1> SUFFICES ASSUME OwnInv, [Next]_vars PROVE OwnInv'
  OBVIOUS
<1>1. TypeInv'
  BY TypeStep DEF OwnInv
<1>2. CASE PropertyStep
  BY <1>1, <1>2, OwnAppStep DEF OwnInv
<1>3. ASSUME NEW u \in Users, Device(u)
      PROVE  OwnInv'
  <2>1. CASE Commit(u)
    BY <1>1, <2>1, OwnCommitStep DEF OwnInv
  <2>2. CASE OnWriteStreamMutationResult(u) \/ HandleRejectedWrite(u)
    <3>1. UNCHANGED <<db, registered, deleted>>
      BY <2>2 DEF OnWriteStreamMutationResult, HandleRejectedWrite, backend, history
    <3>2. ListedIsOwned' /\ FullRegistered' /\ RentIsForRegistered'
      BY <3>1 DEF OwnInv, ListedIsOwned, FullRegistered, RentIsForRegistered
    <3>3. QED
      BY <1>1, <2>2, <3>2, OwnRemoval DEF OwnInv
  <2>3. CASE OnWriteStreamClose(u)
    <3>1. SentKept
      BY <2>3 DEF OnWriteStreamClose, SentKept, Current, clients, OwnInv, TypeInv, TypeOK
    <3>2. PropertyStep
      BY <2>3, <3>1 DEF OnWriteStreamClose, PropertyStep, history
    <3>3. QED
      BY <1>2, <3>2
  <2>4. QED
    BY <1>3, <2>1, <2>2, <2>3 DEF Device
<1>4. QED
  BY <1>2, <1>3, EveryPropertyStep DEF OwnInv

\* The invariant the two theorems below are taken from.
LEMMA OwnAlways == Spec => []OwnInv
<1>1. Init => OwnInv
  <2>1. SUFFICES ASSUME Init PROVE OwnInv
    OBVIOUS
  <2>2. \A q \in Queues : Len(queue[q]) = 0
    BY <2>1, EmptySeq DEF Init
  <2>3. \A u \in Users : Len(queue[<<u, FALSE>>]) = 0
    BY <2>2 DEF Queues
  <2>4. WritesRemembered /\ ListingsBehind
    BY <2>2 DEF WritesRemembered, ListingsBehind
  <2>5. RegisteredSignedIn
    <3>1. ASSUME NEW u \in Users, NEW i \in 1 .. Len(queue[<<u, FALSE>>])
          PROVE  queue[<<u, FALSE>>][i].op \notin {"addProperty", "addListing"}
      <4>1. Len(queue[<<u, FALSE>>]) = 0
        BY <2>3
      <4>2. QED
        BY <4>1
    <3>2. QED
      BY <3>1, Zenon DEF RegisteredSignedIn
  <2>6. SentOwned
    BY <2>1 DEF Init, SentOwned
  <2>7. ListedIsOwned /\ FullRegistered /\ RentIsForRegistered
    BY <2>1, DocumentsAssumption
       DEF Init, EmptyDatabase, NoRental, ListedIsOwned, FullRegistered,
           RentIsForRegistered, Users
  <2>8. QED
    BY <2>1, <2>4, <2>5, <2>6, <2>7, TypeInit DEF OwnInv, QueuesOwned
<1>2. QED
  BY <1>1, OwnStep, PTL DEF Spec

\* A property tenants can find is one its landlord's records hold, unless it
\* was deleted: the record goes ahead of the listing, whatever is lost, sent
\* again or cut short, and no merge takes its fields away.  The writes of a
\* signed-in landlord are taken not to be refused.
THEOREM ListingsAreOwned == Spec => []ListedIsOwned
<1>1. OwnInv => ListedIsOwned
  BY DEF OwnInv
<1>2. QED
  BY <1>1, OwnAlways, PTL

\* Nobody owes rent for a property that the landlord it is owed to never
\* registered, although the rent is read from what that landlord's device sees,
\* pending writes included.
THEOREM RentFollowsRegistration == Spec => []RentIsForRegistered
<1>1. OwnInv => RentIsForRegistered
  BY DEF OwnInv
<1>2. QED
  BY <1>1, OwnAlways, PTL
=============================================================================
