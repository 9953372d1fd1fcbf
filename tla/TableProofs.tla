----------------------------- MODULE TableProofs -----------------------------
(***************************************************************************)
(* Theorems about RequestsTable, for any number of requests, gestures and  *)
(* logins: what the array, the table's rows and the blocks on the main     *)
(* queue are to each other.                                                *)
(***************************************************************************)
EXTENDS RequestsTable, SequenceFacts

(***************************************************************************)
(* Identifiers and events.                                                 *)
(***************************************************************************)
\* Sets of requests are finite sets of numbers.
LEMMA IdSets ==
  ASSUME NEW S \in SUBSET Ids
  PROVE  IsFiniteSet(S) /\ S \in SUBSET Nat
<1>1. MaxRequests \in Nat
  BY TableAssumption
<1>2. IsFiniteSet(Ids) /\ Ids \in SUBSET Nat
  BY <1>1, FS_Interval DEF Ids
<1>3. QED
  BY <1>2, FS_Subset

\* The identifiers of an event, in key order.
LEMMA IdOrder ==
  ASSUME NEW S \in SUBSET Ids
  PROVE  /\ InOrder(S) \in Seq(Ids)
         /\ \A i \in 1 .. Len(InOrder(S)) : InOrder(S)[i] \in S
         /\ \A i, j \in 1 .. Len(InOrder(S)) : InOrder(S)[i] = InOrder(S)[j] => i = j
         /\ \A x \in S : \E i \in 1 .. Len(InOrder(S)) : InOrder(S)[i] = x
         /\ Len(InOrder(S)) = Cardinality(S) /\ Cardinality(S) \in Nat
<1> DEFINE s == InOrder(S)
<1>1. /\ s \in Seq(S) /\ Len(s) = Cardinality(S)
      /\ \A i, j \in 1 .. Cardinality(S) : s[i] = s[j] => i = j
      /\ \A x \in S : \E i \in 1 .. Cardinality(S) : s[i] = x
  BY IdSets, InOrderOnce
<1> HIDE DEF s
<1>2. \A i \in 1 .. Len(s) : s[i] \in S
  BY <1>1, SeqFacts
<1>3. Len(s) \in Nat
  BY <1>1, SeqFacts
<1>4. s \in [1 .. Len(s) -> Ids]
  <2>1. DOMAIN s = 1 .. Len(s) /\ s = [i \in DOMAIN s |-> s[i]]
    BY <1>1, SeqDef, SeqFacts
  <2>2. QED
    BY <1>2, <2>1
<1>5. s \in Seq(Ids)
  BY <1>3, <1>4, FunctionIsSeq
<1>6. QED
  BY <1>1, <1>2, <1>3, <1>5 DEF s

\* An event with nothing removed, or nothing added.
LEMMA NoIds == InOrder({}) = <<>>
<1>1. {} \in SUBSET Ids /\ Cardinality({}) = 0
  BY FS_EmptySet
<1>2. InOrder({}) \in Seq(Ids) /\ Len(InOrder({})) = 0
  BY <1>1, IdOrder
<1>3. QED
  BY <1>2, EmptySeq

\* The event of a swipe.
LEMMA OneId ==
  ASSUME NEW x \in Ids
  PROVE  Len(InOrder({x})) = 1 /\ InOrder({x})[1] = x
<1>1. {x} \in SUBSET Ids /\ Cardinality({x}) = 1
  BY FS_Singleton
<1>2. Len(InOrder({x})) = 1 /\ \A i \in 1 .. 1 : InOrder({x})[i] \in {x}
  BY <1>1, IdOrder
<1>3. QED
  BY <1>2

\* The fields of an event for given sets of requests.
LEMMA EventFields ==
  ASSUME NEW screen, NEW removed, NEW added
  PROVE  /\ Event(screen, removed, added).kind = "event"
         /\ Event(screen, removed, added).screen = screen
         /\ Event(screen, removed, added).removed = InOrder(removed)
         /\ Event(screen, removed, added).added = InOrder(added)
BY DEF Event

\* An event about requests is a block of the main queue.
LEMMA EventType ==
  ASSUME NEW screen \in Nat, NEW removed \in SUBSET Ids, NEW added \in SUBSET Ids
  PROVE  Event(screen, removed, added) \in Block
<1>1. InOrder(removed) \in Seq(Ids) /\ InOrder(added) \in Seq(Ids)
  BY IdOrder
<1>2. QED
  BY <1>1 DEF Event, Block

(***************************************************************************)
(* Steps of the main queue.                                                *)
(***************************************************************************)

\* A block is put at the end; the head is taken; the head is taken and another
\* block put at the end.
Posts(b) ==
  /\ Len(main') = Len(main) + 1
  /\ \A i \in 1 .. Len(main) : main'[i] = main[i]
  /\ main'[Len(main) + 1] = b

Takes ==
  /\ Len(main) >= 1 /\ Len(main') = Len(main) - 1
  /\ \A i \in 1 .. Len(main) - 1 : main'[i] = main[i + 1]

Passes(b) ==
  /\ Len(main) >= 1 /\ Len(main') = Len(main)
  /\ \A i \in 1 .. Len(main) - 1 : main'[i] = main[i + 1]
  /\ main'[Len(main)] = b

\* Putting a block at the end of the queue.
LEMMA AppendPosts ==
  ASSUME main \in Seq(Block), NEW b \in Block, main' = Append(main, b)
  PROVE  main' \in Seq(Block) /\ Posts(b)
BY AppendFacts DEF Posts

\* Taking the head of the queue.
LEMMA TailTakes ==
  ASSUME main \in Seq(Block), main # <<>>, main' = Tail(main)
  PROVE  main' \in Seq(Block) /\ Takes /\ Head(main) = main[1]
<1>1. /\ Tail(main) \in Seq(Block) /\ Len(main) \in Nat /\ Len(main) >= 1
      /\ Len(Tail(main)) = Len(main) - 1 /\ Head(main) = main[1]
      /\ \A i \in 1 .. Len(Tail(main)) : Tail(main)[i] = main[i + 1]
  BY TailFacts
<1>2. QED
  BY <1>1 DEF Takes

\* Taking the head and putting another block at the end.
LEMMA AppendPasses ==
  ASSUME main \in Seq(Block), main # <<>>, NEW b \in Block,
         main' = Append(Tail(main), b)
  PROVE  main' \in Seq(Block) /\ Passes(b) /\ Head(main) = main[1]
<1> DEFINE t == Tail(main)
<1>1. /\ t \in Seq(Block) /\ Len(main) \in Nat /\ Len(main) >= 1
      /\ Len(t) = Len(main) - 1 /\ Head(main) = main[1]
      /\ \A i \in 1 .. Len(t) : t[i] = main[i + 1]
  BY TailFacts
<1> HIDE DEF t
<1>2. /\ Append(t, b) \in Seq(Block)
      /\ Len(Append(t, b)) = Len(t) + 1
      /\ \A i \in 1 .. Len(t) : Append(t, b)[i] = t[i]
      /\ Append(t, b)[Len(t) + 1] = b
  BY <1>1, AppendFacts
<1>3. main' = Append(t, b)
  BY DEF t
<1>4. Len(t) + 1 = Len(main)
  BY <1>1
<1>5. QED
  BY <1>1, <1>2, <1>3, <1>4 DEF Passes

\* A new snapshot: a block for every listener.
LEMMA EmitFacts ==
  ASSUME TypeOK, NEW removed \in SUBSET Ids, NEW added \in SUBSET Ids,
         Emit(removed, added)
  PROVE  /\ view' \subseteq Ids
         /\ main' \in Seq(Block)
         /\ Len(main') >= Len(main) /\ Len(main) \in Nat /\ Len(main') \in Nat
         /\ \A i \in 1 .. Len(main) : main'[i] = main[i]
         /\ \A i \in 1 .. Len(main') : i > Len(main) =>
              \E screen \in listeners : main'[i] = Event(screen, removed, added)
         /\ listeners = {} => main' = main
         /\ \A x : listeners = {x} => Posts(Event(x, removed, added))
<1> DEFINE screens == InOrder(listeners)
           told == [i \in DOMAIN screens |-> Event(screens[i], removed, added)]
<1>1. listeners \in SUBSET Nat /\ IsFiniteSet(listeners)
  <2>1. logins \in Nat /\ listeners \in SUBSET (1 .. logins)
    BY DEF TypeOK
  <2>2. IsFiniteSet(1 .. logins) /\ 1 .. logins \in SUBSET Nat
    BY <2>1, FS_Interval
  <2>3. QED
    BY <2>1, <2>2, FS_Subset
<1>2. screens \in Seq(listeners) /\ Len(screens) = Cardinality(listeners)
  BY <1>1, InOrderOnce
<1>3. main' = main \o told /\ view' = (view \ removed) \cup added
  BY DEF Emit
<1>4. /\ Len(screens) \in Nat /\ DOMAIN screens = 1 .. Len(screens)
      /\ \A i \in 1 .. Len(screens) : screens[i] \in listeners
  BY <1>2, SeqFacts
<1> HIDE DEF screens
<1>5. told \in [1 .. Len(screens) -> Block]
  BY <1>1, <1>4, EventType
<1>6. told \in Seq(Block) /\ Len(told) = Len(screens)
  BY <1>4, <1>5, FunctionIsSeq
<1>7. \A i \in 1 .. Len(screens) : told[i] = Event(screens[i], removed, added)
  BY <1>4
<1> HIDE DEF told
<1>8. main \in Seq(Block)
  BY DEF TypeOK
<1>9. /\ main \o told \in Seq(Block)
      /\ Len(main \o told) = Len(main) + Len(told)
      /\ \A i \in 1 .. Len(main) : /\ i \in 1 .. Len(main \o told)
                                  /\ (main \o told)[i] = main[i]
      /\ \A i \in 1 .. Len(told) : /\ Len(main) + i \in 1 .. Len(main \o told)
                                  /\ (main \o told)[Len(main) + i] = told[i]
      /\ \A i \in 1 .. Len(main \o told) : i \in 1 .. Len(main) \/ i - Len(main) \in 1 .. Len(told)
  BY <1>6, <1>8, ConcatFacts, Zenon
<1>10. Len(main) \in Nat
  BY <1>8, LenProperties
<1>11. ASSUME NEW i \in 1 .. Len(main'), i > Len(main)
       PROVE  \E screen \in listeners : main'[i] = Event(screen, removed, added)
  <2> DEFINE k == i - Len(main)
  <2>1. k \in 1 .. Len(told) /\ Len(main) + k = i
    BY <1>3, <1>9, <1>10, <1>11
  <2> HIDE DEF k
  <2>2. main'[i] = told[k]
    BY <1>3, <1>9, <2>1
  <2>3. QED
    BY <1>4, <1>6, <1>7, <2>1, <2>2
<1>12. listeners = {} => main' = main
  <2>1. SUFFICES ASSUME listeners = {} PROVE main' = main
    OBVIOUS
  <2>2. Len(told) = 0
    BY <1>2, <1>6, <2>1, FS_EmptySet
  <2>3. told = <<>>
    BY <1>6, <2>2, EmptySeq
  <2>4. QED
    BY <1>3, <1>8, <2>3, ConcatEmptySeq
<1>13. ASSUME NEW x, listeners = {x} PROVE Posts(Event(x, removed, added))
  <2>1. Len(told) = 1 /\ Len(screens) = 1
    BY <1>2, <1>6, <1>13, FS_Singleton
  <2>2. 1 \in 1 .. Len(told) /\ 1 \in 1 .. Len(screens)
    BY <2>1
  <2>3. told[1] = Event(x, removed, added)
    BY <1>4, <1>7, <1>13, <2>2
  <2>4. QED
    BY <1>3, <1>9, <2>1, <2>2, <2>3 DEF Posts
<1>14. Len(main') >= Len(main) /\ Len(main') \in Nat
  BY <1>3, <1>4, <1>6, <1>9, <1>10
<1>15. view' \subseteq Ids
  BY <1>3 DEF TypeOK
<1>16. QED
  BY <1>3, <1>9, <1>10, <1>11, <1>12, <1>13, <1>14, <1>15

(***************************************************************************)
(* What the operations do.                                                 *)
(***************************************************************************)
Publish(screen) == [kind |-> "publish", screen |-> screen]
Reload(screen)  == [kind |-> "reload", screen |-> screen]

\* The fields of an event.
LEMMA BlockFields ==
  ASSUME NEW b \in Block
  PROVE  /\ b.screen \in Nat /\ b.kind \in {"event", "publish", "reload"}
         /\ b.kind = "event" => b.removed \in Seq(Ids) /\ b.added \in Seq(Ids)
BY DEF Block

\* A removal takes one row that shows a request the event removes; else the
\* requests it adds come at the end and the table is to be told.
LEMMA ListenerFacts ==
  ASSUME TypeOK, SnapshotListener
  PROVE  /\ main[1] \in Block /\ main[1].kind = "event"
         /\ main' \in Seq(Block) /\ requests' \in Seq(Ids)
         /\ \/ /\ Takes
               /\ \E n \in 1 .. Len(requests) :
                    /\ \E k \in 1 .. Len(main[1].removed) : requests[n] = main[1].removed[k]
                    /\ requests' = RemoveAt(requests, n)
            \/ /\ Passes(Publish(main[1].screen))
               /\ requests' = requests \o main[1].added
               /\ \A n \in 1 .. Len(requests) : \A k \in 1 .. Len(main[1].removed) :
                    requests[n] # main[1].removed[k]
<1> DEFINE e == Head(main)
           removed == e.removed
<1>1. /\ main \in Seq(Block) /\ requests \in Seq(Ids)
      /\ main # <<>> /\ e.kind = "event"
  BY DEF TypeOK, SnapshotListener, IsNext
<1>2. /\ e = main[1] /\ e \in Block
  BY <1>1, TailFacts
<1> HIDE DEF e
<1>3. removed \in Seq(Ids) /\ e.added \in Seq(Ids) /\ e.screen \in Nat
  BY <1>1, <1>2, BlockFields
<1>4. /\ DOMAIN removed = 1 .. Len(removed) /\ Len(removed) \in Nat
      /\ DOMAIN requests = 1 .. Len(requests) /\ Len(requests) \in Nat
  BY <1>1, <1>3, SeqFacts
<1>5. Found(removed) = {i \in 1 .. Len(requests) :
                          \E k \in 1 .. Len(removed) : requests[i] = removed[k]}
  BY <1>4 DEF Found, ToSet
<1>6. IF Found(removed) # {}
      THEN /\ requests' = RemoveAt(requests, FirstFound(removed))
           /\ main' = Tail(main)
      ELSE /\ requests' = requests \o e.added
           /\ main' = Append(Tail(main), Publish(e.screen))
  BY DEF SnapshotListener, e, Publish
<1> HIDE DEF removed
<1>7. CASE Found(removed) # {}
  <2> DEFINE K == {k \in DOMAIN removed : (\E i \in Found(removed) : requests[i] = removed[k])}
             first == FirstOf(K)
             N == {i \in Found(removed) : (requests[i] = removed[first])}
             n == FirstOf(N)
  <2>1. K \in SUBSET Nat /\ K # {}
    BY <1>4, <1>5, <1>7
  <2> HIDE DEF K
  <2>2. first \in K
    BY <2>1, FirstOfFacts
  <2> HIDE DEF first
  <2>3. N \in SUBSET Nat /\ N # {}
    BY <1>4, <1>5, <2>2 DEF K
  <2> HIDE DEF N
  <2>4. n \in N
    BY <2>3, FirstOfFacts
  <2>5. n = FirstFound(removed)
    BY DEF n, N, first, K, FirstFound
  <2> HIDE DEF n
  <2>6. n \in 1 .. Len(requests) /\ \E k \in 1 .. Len(removed) : requests[n] = removed[k]
    BY <1>5, <2>4 DEF N
  <2>7. requests' = RemoveAt(requests, n) /\ main' = Tail(main)
    BY <1>6, <1>7, <2>5
  <2>8. requests' \in Seq(Ids)
    BY <1>1, <2>6, <2>7, RemoveAtFacts
  <2>9. main' \in Seq(Block) /\ Takes
    BY <1>1, <2>7, TailTakes
  <2>10. QED
    BY <1>1, <1>2, <2>6, <2>7, <2>8, <2>9 DEF removed
<1>8. CASE Found(removed) = {}
  <2>1. requests' = requests \o e.added /\ main' = Append(Tail(main), Publish(e.screen))
    BY <1>6, <1>8
  <2>2. Publish(e.screen) \in Block
    BY <1>3 DEF Publish, Block
  <2>3. main' \in Seq(Block) /\ Passes(Publish(e.screen))
    BY <1>1, <2>1, <2>2, AppendPasses
  <2>4. requests' \in Seq(Ids)
    BY <1>1, <1>3, <2>1, ConcatFacts
  <2>5. \A n \in 1 .. Len(requests) : \A k \in 1 .. Len(removed) : requests[n] # removed[k]
    BY <1>5, <1>8
  <2>6. QED
    BY <1>1, <1>2, <2>1, <2>3, <2>4, <2>5 DEF removed
<1>9. QED
  BY <1>7, <1>8

\* The listener's completion leaves the block that reloads the table.
LEMMA CompletionFacts ==
  ASSUME TypeOK, Completion
  PROVE  /\ main[1] \in Block /\ main[1].kind = "publish"
         /\ main' \in Seq(Block) /\ Passes(Reload(main[1].screen))
<1>1. main \in Seq(Block) /\ main # <<>> /\ Head(main).kind = "publish"
  BY DEF TypeOK, Completion, IsNext
<1>2. Head(main) = main[1] /\ main[1] \in Block
  BY <1>1, TailFacts
<1>3. Reload(main[1].screen) \in Block
  BY <1>2, BlockFields DEF Reload, Block
<1>4. main' = Append(Tail(main), Reload(main[1].screen))
  BY <1>2 DEF Completion, Reload
<1>5. QED
  BY <1>1, <1>2, <1>3, <1>4, AppendPasses

\* The reload makes the rows anew, if its screen is the one on screen.
LEMMA ReloadFacts ==
  ASSUME TypeOK, ReloadData
  PROVE  /\ main[1] \in Block /\ main[1].kind = "reload"
         /\ main' \in Seq(Block) /\ Takes
         /\ IF main[1].screen = logins
            THEN shown' = requests /\ swiping' = 0 /\ abandoned' = Uncured
            ELSE UNCHANGED <<shown, swiping, abandoned>>
<1>1. main \in Seq(Block) /\ main # <<>> /\ Head(main).kind = "reload"
  BY DEF TypeOK, ReloadData, IsNext
<1>2. Head(main) = main[1] /\ main[1] \in Block
  BY <1>1, TailFacts
<1>3. QED
  BY <1>1, <1>2, TailTakes DEF ReloadData

\* A request sent now was never told of before.
LEMMA SnapshotFacts ==
  ASSUME TypeOK, Snapshot
  PROVE  \E n \in Nat, gone \in SUBSET view :
           /\ Emit(gone, sent + 1 .. sent + n)
           /\ gone \in SUBSET Ids /\ (sent + 1 .. sent + n) \in SUBSET Ids
           /\ sent \in Nat /\ sent' = sent + n /\ sent' \in 0 .. MaxRequests
           /\ elsewhere' = elsewhere + Cardinality(gone) /\ elsewhere' \in Nat
           /\ elsewhere' = 0 => elsewhere = 0 /\ gone = {}
           /\ UNCHANGED <<listeners, requests, shown, swiping, abandoned, swipes, logins>>
<1>1. PICK n \in 0 .. MaxRequests - sent, gone \in SUBSET view :
        /\ Emit(gone, sent + 1 .. sent + n)
        /\ sent' = sent + n
        /\ elsewhere' = elsewhere + Cardinality(gone)
        /\ UNCHANGED <<listeners, requests, shown, swiping, abandoned, swipes, logins>>
  BY DEF Snapshot
<1>2. MaxRequests \in Nat /\ sent \in 0 .. MaxRequests /\ elsewhere \in Nat /\ view \in SUBSET Ids
  BY TableAssumption DEF TypeOK
<1>3. n \in Nat /\ sent \in Nat /\ sent' \in 0 .. MaxRequests
      /\ (sent + 1 .. sent + n) \in SUBSET Ids
  BY <1>1, <1>2 DEF Ids
<1>4. gone \in SUBSET Ids /\ IsFiniteSet(gone)
  BY <1>2, IdSets
<1>5. Cardinality(gone) \in Nat /\ (Cardinality(gone) = 0 => gone = {})
  BY <1>4, FS_CardinalityType, FS_EmptySet
<1>6. elsewhere' \in Nat /\ (elsewhere' = 0 => elsewhere = 0 /\ Cardinality(gone) = 0)
  BY <1>1, <1>2, <1>5
<1>7. QED
  BY <1>1, <1>3, <1>4, <1>5, <1>6

\* A gesture on a row of the array, or past its end.
LEMMA SwipeFacts ==
  ASSUME TypeOK, NEW row \in DOMAIN shown, SwipeActionsConfiguration(row)
  PROVE  /\ row \in 1 .. Len(shown) /\ swiping = 0
         /\ swipes' \in Nat /\ UNCHANGED <<sent, elsewhere, logins>>
         /\ \/ row > Len(requests) /\ Die /\ UNCHANGED view
            \/ /\ row \in 1 .. Len(requests) /\ requests[row] \in Ids
               /\ swiping' = row
               /\ \/ requests[row] \in view /\ Emit({requests[row]}, {})
                  \/ requests[row] \notin view /\ UNCHANGED <<view, main>>
               /\ UNCHANGED <<listeners, requests, shown, abandoned>>
<1>1. /\ requests \in Seq(Ids) /\ shown \in Seq(Ids) /\ swipes \in Nat
  BY DEF TypeOK
<1>2. /\ Len(requests) \in Nat /\ DOMAIN shown = 1 .. Len(shown) /\ Len(shown) \in Nat
      /\ \A i \in 1 .. Len(requests) : requests[i] \in Ids
  BY <1>1, SeqFacts
<1>3. row \in 1 .. Len(shown) /\ row \in Nat /\ (~ (row > Len(requests)) => row \in 1 .. Len(requests))
  BY <1>2
<1>4. swiping = 0 /\ swipes' \in Nat /\ UNCHANGED <<sent, elsewhere, logins>>
  BY <1>1 DEF SwipeActionsConfiguration
<1>5. CASE row > Len(requests)
  BY <1>3, <1>4, <1>5 DEF SwipeActionsConfiguration
<1>6. CASE ~ (row > Len(requests))
  BY <1>2, <1>3, <1>4, <1>6 DEF SwipeActionsConfiguration
<1>7. QED
  BY <1>5, <1>6

\* What is left of a process that died.
LEMMA DieFacts ==
  ASSUME Die
  PROVE  /\ main' = <<>> /\ Len(main') = 0 /\ main' \in Seq(Block)
         /\ listeners' = {} /\ ~ OneListener'
         /\ requests' = <<>> /\ Len(requests') = 0 /\ requests' \in Seq(Ids)
         /\ shown' = <<>> /\ Len(shown') = 0 /\ shown' \in Seq(Ids)
         /\ swiping' = 0 /\ abandoned' = FALSE
<1>1. Cardinality({}) = 0
  BY FS_EmptySet
<1>2. QED
  BY <1>1, EmptySeq DEF Die, OneListener

(***************************************************************************)
(* Types.                                                                  *)
(***************************************************************************)

\* Every step keeps the types.
LEMMA TypeStep == TypeOK /\ [Next]_vars => TypeOK'
<1> SUFFICES ASSUME TypeOK, [Next]_vars PROVE TypeOK'
  OBVIOUS
<1>1. /\ view \in SUBSET Ids /\ main \in Seq(Block) /\ logins \in Nat
      /\ listeners \in SUBSET (1 .. logins)
      /\ requests \in Seq(Ids) /\ shown \in Seq(Ids) /\ swiping \in 0 .. Len(shown)
      /\ abandoned \in BOOLEAN /\ sent \in 0 .. MaxRequests
      /\ swipes \in Nat /\ elsewhere \in Nat
  BY DEF TypeOK
<1>2. Len(shown) \in Nat /\ Len(requests) \in Nat
  BY <1>1, LenProperties
<1>3. CASE Snapshot
  <2>1. PICK n \in Nat, gone \in SUBSET view :
          /\ Emit(gone, sent + 1 .. sent + n)
          /\ gone \in SUBSET Ids /\ (sent + 1 .. sent + n) \in SUBSET Ids
          /\ sent' \in 0 .. MaxRequests /\ elsewhere' \in Nat
          /\ UNCHANGED <<listeners, requests, shown, swiping, abandoned, swipes, logins>>
    BY <1>3, SnapshotFacts
  <2>2. view' \subseteq Ids /\ main' \in Seq(Block)
    BY <2>1, EmitFacts
  <2>3. QED
    BY <1>1, <2>1, <2>2 DEF TypeOK
<1>4. CASE ViewDidLoad
  <2>1. /\ logins' = logins + 1 /\ listeners' = listeners \cup {logins'}
        /\ main' = Append(main, Event(logins', {}, view))
        /\ requests' = <<>> /\ shown' = <<>> /\ swiping' = 0 /\ abandoned' = FALSE
        /\ UNCHANGED <<view, sent, swipes, elsewhere>>
    BY <1>4 DEF ViewDidLoad
  <2>2. logins' \in Nat /\ listeners' \subseteq 1 .. logins'
    BY <1>1, <2>1
  <2>3. Event(logins', {}, view) \in Block
    BY <1>1, <2>2, EventType
  <2>4. main' \in Seq(Block)
    BY <1>1, <2>1, <2>3, AppendPosts
  <2>5. Len(shown') = 0 /\ shown' \in Seq(Ids) /\ requests' \in Seq(Ids)
    BY <2>1, EmptySeq
  <2>6. swiping' \in 0 .. Len(shown')
    BY <2>1, <2>5
  <2>7. QED
    BY <1>1, <2>1, <2>2, <2>4, <2>5, <2>6 DEF TypeOK
<1>5. CASE SnapshotListener
  <2>1. main' \in Seq(Block) /\ requests' \in Seq(Ids)
    BY <1>5, ListenerFacts
  <2>2. QED
    BY <1>1, <1>5, <2>1 DEF SnapshotListener, counts, TypeOK
<1>6. CASE Completion
  <2>1. main' \in Seq(Block)
    BY <1>6, CompletionFacts
  <2>2. QED
    BY <1>1, <1>6, <2>1 DEF Completion, counts, TypeOK
<1>7. CASE ReloadData
  <2>1. /\ main' \in Seq(Block)
        /\ IF main[1].screen = logins
           THEN shown' = requests /\ swiping' = 0 /\ abandoned' = Uncured
           ELSE UNCHANGED <<shown, swiping, abandoned>>
    BY <1>7, ReloadFacts
  <2>2. UNCHANGED <<view, listeners, requests, counts>>
    BY <1>7 DEF ReloadData
  <2>3. Uncured \in BOOLEAN
    BY DEF Uncured
  <2>4. shown' \in Seq(Ids) /\ swiping' \in 0 .. Len(shown') /\ abandoned' \in BOOLEAN
    BY <1>1, <1>2, <2>1, <2>3
  <2>5. QED
    BY <1>1, <2>1, <2>2, <2>4 DEF counts, TypeOK
<1>8. ASSUME NEW row \in DOMAIN shown, SwipeActionsConfiguration(row)
      PROVE  TypeOK'
  <2>1. /\ row \in 1 .. Len(shown)
        /\ swipes' \in Nat /\ UNCHANGED <<sent, elsewhere, logins>>
    BY <1>8, SwipeFacts
  <2>2. CASE Die /\ UNCHANGED view
    <3>1. /\ main' \in Seq(Block) /\ requests' \in Seq(Ids) /\ shown' \in Seq(Ids)
          /\ Len(shown') = 0 /\ swiping' = 0 /\ listeners' = {} /\ abandoned' = FALSE
      BY <2>2, DieFacts
    <3>2. swiping' \in 0 .. Len(shown')
      BY <3>1
    <3>3. QED
      BY <1>1, <2>1, <2>2, <3>1, <3>2 DEF TypeOK
  <2>3. CASE /\ row \in 1 .. Len(requests) /\ requests[row] \in Ids
             /\ swiping' = row
             /\ \/ requests[row] \in view /\ Emit({requests[row]}, {})
                \/ requests[row] \notin view /\ UNCHANGED <<view, main>>
             /\ UNCHANGED <<listeners, requests, shown, abandoned>>
    <3>1. view' \subseteq Ids /\ main' \in Seq(Block)
      <4>1. CASE Emit({requests[row]}, {})
        <5>1. {requests[row]} \in SUBSET Ids /\ {} \in SUBSET Ids
          BY <2>3
        <5>2. QED
          BY <4>1, <5>1, EmitFacts
      <4>2. QED
        BY <1>1, <2>3, <4>1
    <3>2. swiping' \in 0 .. Len(shown')
      BY <1>2, <2>1, <2>3
    <3>3. QED
      BY <1>1, <2>1, <2>3, <3>1, <3>2 DEF TypeOK
  <2>4. QED
    BY <1>8, <2>2, <2>3, SwipeFacts
<1>9. CASE DeleteRows
  <2>1. /\ swiping # 0 /\ UNCHANGED <<view, counts>>
        /\ IF Len(requests) # Len(shown) - 1 THEN Die
           ELSE /\ shown' = RemoveAt(shown, swiping)
                /\ swiping' = 0
                /\ UNCHANGED <<main, listeners, requests, abandoned>>
    BY <1>9 DEF DeleteRows
  <2>2. CASE Len(requests) # Len(shown) - 1
    <3>1. /\ main' \in Seq(Block) /\ requests' \in Seq(Ids) /\ shown' \in Seq(Ids)
          /\ Len(shown') = 0 /\ swiping' = 0 /\ listeners' = {} /\ abandoned' = FALSE
      BY <2>1, <2>2, DieFacts
    <3>2. swiping' \in 0 .. Len(shown')
      BY <3>1
    <3>3. QED
      BY <1>1, <2>1, <3>1, <3>2 DEF TypeOK, counts
  <2>3. CASE Len(requests) = Len(shown) - 1
    <3>1. swiping \in 1 .. Len(shown)
      BY <1>1, <1>2, <2>1
    <3>2. shown' \in Seq(Ids)
      BY <1>1, <2>1, <2>3, <3>1, RemoveAtFacts
    <3>3. swiping' \in 0 .. Len(shown')
      BY <2>1, <2>3, <3>2, LenProperties
    <3>4. QED
      BY <1>1, <2>1, <2>3, <3>2, <3>3 DEF TypeOK, counts
  <2>4. QED
    BY <2>2, <2>3
<1>10. CASE CloseSwipe
  <2>1. swiping' \in 0 .. Len(shown')
    BY <1>2, <1>10 DEF CloseSwipe
  <2>2. QED
    BY <1>1, <1>10, <2>1 DEF CloseSwipe, counts, TypeOK
<1>11. CASE UNCHANGED vars
  BY <1>11 DEF vars, process, counts, TypeOK, Block
<1>12. QED
  BY <1>3, <1>4, <1>5, <1>6, <1>7, <1>8, <1>9, <1>10, <1>11 DEF Next

\* A fresh start is well typed.
LEMMA TypeInit == Init => TypeOK
<1> SUFFICES ASSUME Init PROVE TypeOK
  OBVIOUS
<1>1. main \in Seq(Block) /\ requests \in Seq(Ids) /\ shown \in Seq(Ids) /\ Len(shown) = 0
  BY EmptySeq DEF Init
<1>2. swiping \in 0 .. Len(shown) /\ sent \in 0 .. MaxRequests
  BY <1>1, TableAssumption DEF Init
<1>3. /\ view = {} /\ listeners = {} /\ abandoned = FALSE
      /\ {swipes, elsewhere, logins} \subseteq Nat
  BY DEF Init
<1> HIDE DEF Init
<1>4. QED
  BY <1>1, <1>2, <1>3 DEF TypeOK

\* The array, the rows, the swipe and the blocks on the main queue stay in
\* their types: a button that is out belongs to a row the table has, through
\* reloads, removals, new logins and the end of the process.
THEOREM TableTypes == Spec => []TypeOK
BY TypeInit, TypeStep, PTL DEF Spec

(***************************************************************************)
(* Every request has a row: a table that has fewer rows than the array has *)
(* requests is about to be told, and the block that tells it is of the     *)
(* screen on screen.                                                       *)
(***************************************************************************)
Screens ==
  /\ listeners # {} => logins \in listeners
  /\ listeners = {} => main = <<>> /\ requests = <<>> /\ shown = <<>>
  /\ \A i \in 1 .. Len(main) : main[i].screen \in listeners

Told ==
  OneListener =>
    \/ Len(requests) <= Len(shown)
    \/ \E i \in 1 .. Len(main) : main[i].kind \in {"publish", "reload"}

ToldInv == TypeOK /\ Screens /\ Told

\* There are finitely many screens.
LEMMA FinitelyMany ==
  ASSUME NEW n \in Nat, NEW S \in SUBSET (1 .. n)
  PROVE  IsFiniteSet(S)
<1>1. IsFiniteSet(1 .. n)
  BY FS_Interval
<1>2. QED
  BY <1>1, FS_Subset

\* The one listener is that of the last login.
LEMMA TheListener ==
  ASSUME TypeOK, Screens, OneListener
  PROVE  listeners = {logins}
<1>1. listeners \in SUBSET (1 .. logins) /\ logins \in Nat
  BY DEF TypeOK
<1>2. IsFiniteSet(listeners)
  BY <1>1, FinitelyMany
<1>3. PICK x : listeners = {x}
  BY <1>2, FS_Singleton DEF OneListener
<1>4. QED
  BY <1>3 DEF Screens

\* A login after another leaves two listeners; the first finds nothing.
LEMMA LoginFacts ==
  ASSUME TypeOK, Screens, ViewDidLoad
  PROVE  /\ logins' \in Nat /\ listeners' = listeners \cup {logins'}
         /\ main' \in Seq(Block) /\ Posts(Event(logins', {}, view))
         /\ requests' = <<>> /\ shown' = <<>> /\ Len(requests') = 0 /\ Len(shown') = 0
         /\ swiping' = 0 /\ abandoned' = FALSE
         /\ UNCHANGED <<view, sent, swipes, elsewhere>>
         /\ OneListener' => listeners = {} /\ Len(main) = 0 /\ Len(main') = 1
<1>1. /\ logins' = logins + 1 /\ listeners' = listeners \cup {logins'}
      /\ main' = Append(main, Event(logins', {}, view))
      /\ requests' = <<>> /\ shown' = <<>> /\ swiping' = 0 /\ abandoned' = FALSE
      /\ UNCHANGED <<view, sent, swipes, elsewhere>>
  BY DEF ViewDidLoad
<1>2. logins \in Nat /\ listeners \in SUBSET (1 .. logins) /\ main \in Seq(Block) /\ view \in SUBSET Ids
  BY DEF TypeOK
<1>3. logins' \in Nat /\ logins' \notin listeners
  BY <1>1, <1>2
<1>4. Event(logins', {}, view) \in Block
  BY <1>2, <1>3, EventType
<1>5. main' \in Seq(Block) /\ Posts(Event(logins', {}, view))
  BY <1>1, <1>2, <1>4, AppendPosts
<1>6. ASSUME OneListener'
      PROVE  listeners = {} /\ Len(main) = 0 /\ Len(main') = 1
  <2>1. IsFiniteSet(listeners')
    <3>1. listeners' \in SUBSET (1 .. logins')
      BY <1>1, <1>2
    <3>2. QED
      BY <1>3, <3>1, FinitelyMany
  <2>2. PICK x : listeners' = {x}
    BY <1>6, <2>1, FS_Singleton DEF OneListener
  <2>3. listeners = {}
    BY <1>1, <1>3, <2>2
  <2>4. Len(main) = 0
    BY <2>3, EmptySeq DEF Screens
  <2>5. QED
    BY <1>5, <2>3, <2>4 DEF Posts
<1>7. Len(requests') = 0 /\ Len(shown') = 0
  BY <1>1, EmptySeq
<1>8. QED
  BY <1>1, <1>3, <1>5, <1>6, <1>7

\* Where steps can lead that do not load a screen.
LEMMA NoOtherListener ==
  ASSUME TypeOK, [Next]_vars, ~ ViewDidLoad, OneListener'
  PROVE  /\ OneListener /\ ~ Die /\ UNCHANGED <<listeners, logins>>
         /\ elsewhere' = 0 => elsewhere = 0
<1>1. ~ Die
  BY DieFacts
<1>2. UNCHANGED <<listeners, logins>> /\ (elsewhere' = 0 => elsewhere = 0)
  <2>1. CASE Snapshot
    BY <2>1, SnapshotFacts
  <2>2. CASE SnapshotListener \/ Completion \/ ReloadData \/ CloseSwipe \/ UNCHANGED vars
    BY <2>2 DEF SnapshotListener, Completion, ReloadData, CloseSwipe, counts, vars, process
  <2>3. ASSUME NEW row \in DOMAIN shown, SwipeActionsConfiguration(row)
        PROVE  UNCHANGED <<listeners, logins>> /\ (elsewhere' = 0 => elsewhere = 0)
    BY <1>1, <2>3, SwipeFacts
  <2>4. CASE DeleteRows
    BY <1>1, <2>4 DEF DeleteRows, counts
  <2>5. QED
    BY <2>1, <2>2, <2>3, <2>4 DEF Next
<1>3. QED
  BY <1>1, <1>2 DEF OneListener

\* Every step leaves each block to a screen whose listener is there.
LEMMA ScreensStep ==
  ASSUME TypeOK, Screens, [Next]_vars
  PROVE  Screens'
<1>1. main \in Seq(Block) /\ Len(main) \in Nat /\ logins \in Nat
      /\ \A i \in 1 .. Len(main) : main[i] \in Block
  BY SeqFacts DEF TypeOK
<1>2. ASSUME UNCHANGED <<listeners, logins, requests, shown>>,
             NEW removed \in SUBSET Ids, NEW added \in SUBSET Ids, Emit(removed, added)
      PROVE  Screens'
  <2>1. /\ \A i \in 1 .. Len(main) : main'[i] = main[i]
        /\ \A i \in 1 .. Len(main') : i > Len(main) =>
             \E screen \in listeners : main'[i] = Event(screen, removed, added)
        /\ listeners = {} => main' = main
        /\ Len(main') \in Nat
    BY <1>2, EmitFacts
  <2>2. ASSUME NEW i \in 1 .. Len(main') PROVE main'[i].screen \in listeners
    <3>1. CASE i > Len(main)
      BY <2>1, <3>1, EventFields
    <3>2. CASE ~ (i > Len(main))
      <4>1. i \in 1 .. Len(main)
        BY <1>1, <3>2, <2>1
      <4>2. QED
        BY <2>1, <4>1 DEF Screens
    <3>3. QED
      BY <3>1, <3>2
  <2>3. QED
    BY <1>2, <2>1, <2>2 DEF Screens
<1>3. CASE Snapshot
  <2>1. PICK n \in Nat, gone \in SUBSET view :
          /\ Emit(gone, sent + 1 .. sent + n)
          /\ gone \in SUBSET Ids /\ (sent + 1 .. sent + n) \in SUBSET Ids
          /\ UNCHANGED <<listeners, requests, shown, logins>>
    BY <1>3, SnapshotFacts
  <2>2. QED
    BY <1>2, <2>1
<1>4. CASE ViewDidLoad
  <2>1. /\ listeners' = listeners \cup {logins'} /\ Posts(Event(logins', {}, view))
    BY <1>4, LoginFacts
  <2>2. ASSUME NEW i \in 1 .. Len(main') PROVE main'[i].screen \in listeners'
    <3>1. i \in 1 .. Len(main) \/ i = Len(main) + 1
      BY <1>1, <2>1 DEF Posts
    <3>2. CASE i \in 1 .. Len(main)
      BY <2>1, <3>2 DEF Posts, Screens
    <3>3. CASE i = Len(main) + 1
      BY <2>1, <3>3, EventFields DEF Posts
    <3>4. QED
      BY <3>1, <3>2, <3>3
  <2>3. QED
    BY <2>1, <2>2 DEF Screens
<1>5. ASSUME Takes, UNCHANGED <<listeners, logins>> PROVE Screens'
  <2>1. ASSUME NEW i \in 1 .. Len(main') PROVE main'[i].screen \in listeners
    <3>1. i \in 1 .. Len(main) - 1 /\ i + 1 \in 1 .. Len(main)
      BY <1>1, <1>5 DEF Takes
    <3>2. QED
      BY <1>5, <3>1 DEF Takes, Screens
  <2>2. listeners # {}
    <3>1. 1 \in 1 .. Len(main)
      BY <1>1, <1>5 DEF Takes
    <3>2. QED
      BY <3>1 DEF Screens
  <2>3. QED
    BY <1>5, <2>1, <2>2 DEF Screens
<1>6. ASSUME NEW b, b.screen = main[1].screen, Passes(b), UNCHANGED <<listeners, logins>>
      PROVE  Screens'
  <2>1. 1 \in 1 .. Len(main)
    BY <1>1, <1>6 DEF Passes
  <2>2. main[1].screen \in listeners
    BY <2>1 DEF Screens
  <2>3. ASSUME NEW i \in 1 .. Len(main') PROVE main'[i].screen \in listeners
    <3>1. CASE i = Len(main)
      BY <1>6, <2>2, <3>1 DEF Passes
    <3>2. CASE i # Len(main)
      <4>1. i \in 1 .. Len(main) - 1 /\ i + 1 \in 1 .. Len(main)
        BY <1>1, <1>6, <3>2 DEF Passes
      <4>2. QED
        BY <1>6, <4>1 DEF Passes, Screens
    <3>3. QED
      BY <3>1, <3>2
  <2>4. QED
    BY <1>6, <2>2, <2>3 DEF Screens
<1>7. CASE SnapshotListener
  <2>1. Takes \/ Passes(Publish(main[1].screen))
    BY <1>7, ListenerFacts
  <2>2. UNCHANGED <<listeners, logins>>
    BY <1>7 DEF SnapshotListener, counts
  <2>3. Publish(main[1].screen).screen = main[1].screen
    BY DEF Publish
  <2>4. QED
    BY <1>5, <1>6, <2>1, <2>2, <2>3
<1>8. CASE Completion
  <2>1. Passes(Reload(main[1].screen))
    BY <1>8, CompletionFacts
  <2>2. UNCHANGED <<listeners, logins>>
    BY <1>8 DEF Completion, counts
  <2>3. Reload(main[1].screen).screen = main[1].screen
    BY DEF Reload
  <2>4. QED
    BY <1>6, <2>1, <2>2, <2>3
<1>9. CASE ReloadData
  <2>1. Takes
    BY <1>9, ReloadFacts
  <2>2. UNCHANGED <<listeners, logins>>
    BY <1>9 DEF ReloadData, counts
  <2>3. QED
    BY <1>5, <2>1, <2>2
<1>10. ASSUME Die PROVE Screens'
  <2>1. main' = <<>> /\ Len(main') = 0 /\ listeners' = {} /\ requests' = <<>> /\ shown' = <<>>
    BY <1>10, DieFacts
  <2>2. \A i \in 1 .. Len(main') : FALSE
    BY <2>1
  <2>3. QED
    BY <2>1, <2>2 DEF Screens
<1>11. ASSUME NEW row \in DOMAIN shown, SwipeActionsConfiguration(row)
       PROVE  Screens'
  <2>1. UNCHANGED logins
    BY <1>11, SwipeFacts
  <2>2. CASE Die
    BY <1>10, <2>2
  <2>3. CASE /\ requests[row] \in Ids
             /\ \/ Emit({requests[row]}, {})
                \/ UNCHANGED <<view, main>>
             /\ UNCHANGED <<listeners, requests, shown, abandoned>>
    <3>1. {requests[row]} \in SUBSET Ids /\ {} \in SUBSET Ids
      BY <2>3
    <3>2. CASE Emit({requests[row]}, {})
      BY <1>2, <2>1, <2>3, <3>1, <3>2
    <3>3. CASE UNCHANGED <<view, main>>
      BY <2>1, <2>3, <3>3 DEF Screens
    <3>4. QED
      BY <2>3, <3>2, <3>3
  <2>4. QED
    BY <1>11, <2>2, <2>3, SwipeFacts
<1>12. CASE DeleteRows
  <2>1. CASE Len(requests) # Len(shown) - 1
    BY <1>10, <1>12, <2>1 DEF DeleteRows
  <2>2. CASE Len(requests) = Len(shown) - 1
    <3>1. UNCHANGED <<main, listeners, requests, logins>>
      BY <1>12, <2>2 DEF DeleteRows, counts
    <3>2. listeners # {}
      <4>1. swiping # 0 /\ swiping \in 0 .. Len(shown)
        BY <1>12 DEF DeleteRows, TypeOK
      <4>2. Len(shown) # 0
        BY <4>1
      <4>3. QED
        BY <4>2, EmptySeq DEF Screens
    <3>3. QED
      BY <3>1, <3>2 DEF Screens
  <2>3. QED
    BY <2>1, <2>2
<1>13. CASE CloseSwipe
  BY <1>13 DEF CloseSwipe, counts, Screens
<1>14. CASE UNCHANGED vars
  BY <1>14 DEF vars, process, counts, Screens
<1>15. QED
  BY <1>3, <1>4, <1>7, <1>8, <1>9, <1>11, <1>12, <1>13, <1>14 DEF Next

\* Every step leaves a row for each request, or a block that tells the table.
LEMMA ToldStep ==
  ASSUME ToldInv, [Next]_vars
  PROVE  Told'
<1> USE DEF ToldInv
<1>1. SUFFICES ASSUME OneListener'
               PROVE  \/ Len(requests') <= Len(shown')
                      \/ \E i \in 1 .. Len(main') : main'[i].kind \in {"publish", "reload"}
  BY DEF Told
<1>2. /\ main \in Seq(Block) /\ Len(main) \in Nat
      /\ requests \in Seq(Ids) /\ Len(requests) \in Nat
      /\ shown \in Seq(Ids) /\ Len(shown) \in Nat /\ swiping \in 0 .. Len(shown)
  BY LenProperties DEF TypeOK
<1>3. CASE ViewDidLoad
  BY <1>1, <1>3, LoginFacts
<1>4. SUFFICES ASSUME ~ ViewDidLoad
               PROVE  \/ Len(requests') <= Len(shown')
                      \/ \E i \in 1 .. Len(main') : main'[i].kind \in {"publish", "reload"}
  BY <1>3
<1>5. OneListener /\ ~ Die /\ UNCHANGED <<listeners, logins>> /\ listeners = {logins}
  BY <1>1, <1>4, NoOtherListener, TheListener
<1>6. \/ Len(requests) <= Len(shown)
      \/ \E i \in 1 .. Len(main) : main[i].kind \in {"publish", "reload"}
  BY <1>5 DEF Told
<1>7. ASSUME UNCHANGED <<requests, shown>>, Len(main') \in Nat, Len(main') >= Len(main),
             \A i \in 1 .. Len(main) : main'[i] = main[i]
      PROVE  \/ Len(requests') <= Len(shown')
             \/ \E i \in 1 .. Len(main') : main'[i].kind \in {"publish", "reload"}
  <2>1. \A i \in 1 .. Len(main) : i \in 1 .. Len(main')
    BY <1>2, <1>7
  <2>2. QED
    BY <1>6, <1>7, <2>1
<1>8. CASE Snapshot
  <2>1. PICK n \in Nat, gone \in SUBSET view :
          /\ Emit(gone, sent + 1 .. sent + n)
          /\ gone \in SUBSET Ids /\ (sent + 1 .. sent + n) \in SUBSET Ids
          /\ UNCHANGED <<requests, shown>>
    BY <1>8, SnapshotFacts
  <2>2. Len(main') \in Nat /\ Len(main') >= Len(main) /\ \A i \in 1 .. Len(main) : main'[i] = main[i]
    BY <2>1, EmitFacts
  <2>3. QED
    BY <1>7, <2>1, <2>2
<1>9. CASE SnapshotListener
  <2>1. UNCHANGED shown /\ main[1].kind = "event"
    BY <1>9, ListenerFacts DEF SnapshotListener
  <2>2. CASE Takes /\ \E n \in 1 .. Len(requests) : requests' = RemoveAt(requests, n)
    <3>1. Len(requests') = Len(requests) - 1
      BY <1>2, <2>2, RemoveAtFacts
    <3>2. CASE Len(requests) <= Len(shown)
      BY <1>2, <2>1, <3>1, <3>2
    <3>3. ASSUME NEW i \in 1 .. Len(main), main[i].kind \in {"publish", "reload"}
          PROVE  \E j \in 1 .. Len(main') : main'[j].kind \in {"publish", "reload"}
      <4>1. i # 1
        BY <2>1, <3>3
      <4>2. i - 1 \in 1 .. Len(main) - 1 /\ (i - 1) + 1 = i /\ Len(main') = Len(main) - 1
        BY <1>2, <2>2, <4>1 DEF Takes
      <4>3. main'[i - 1] = main[i]
        BY <2>2, <4>2 DEF Takes
      <4>4. QED
        BY <3>3, <4>2, <4>3
    <3>4. QED
      BY <1>6, <3>2, <3>3
  <2>3. CASE Passes(Publish(main[1].screen))
    <3>1. Len(main) \in 1 .. Len(main') /\ main'[Len(main)] = Publish(main[1].screen)
      BY <1>2, <2>3 DEF Passes
    <3>2. Publish(main[1].screen).kind = "publish"
      BY DEF Publish
    <3>3. QED
      BY <3>1, <3>2
  <2>4. QED
    BY <1>9, <2>2, <2>3, ListenerFacts
<1>10. CASE Completion
  <2>1. Passes(Reload(main[1].screen))
    BY <1>10, CompletionFacts
  <2>2. Len(main) \in 1 .. Len(main') /\ main'[Len(main)] = Reload(main[1].screen)
    BY <1>2, <2>1 DEF Passes
  <2>3. Reload(main[1].screen).kind = "reload"
    BY DEF Reload
  <2>4. QED
    BY <2>2, <2>3
<1>11. CASE ReloadData
  <2>1. Takes /\ (main[1].screen = logins => shown' = requests) /\ UNCHANGED requests
    BY <1>11, ReloadFacts DEF ReloadData
  <2>2. 1 \in 1 .. Len(main)
    BY <1>2, <2>1 DEF Takes
  <2>3. main[1].screen = logins
    BY <1>5, <2>2 DEF Screens
  <2>4. QED
    BY <1>2, <2>1, <2>3
<1>12. ASSUME NEW row \in DOMAIN shown, SwipeActionsConfiguration(row)
       PROVE  \/ Len(requests') <= Len(shown')
              \/ \E i \in 1 .. Len(main') : main'[i].kind \in {"publish", "reload"}
  <2>1. /\ requests[row] \in Ids
        /\ Emit({requests[row]}, {}) \/ UNCHANGED <<view, main>>
        /\ UNCHANGED <<requests, shown>>
    BY <1>5, <1>12, SwipeFacts
  <2>2. {requests[row]} \in SUBSET Ids /\ {} \in SUBSET Ids
    BY <2>1
  <2>3. CASE Emit({requests[row]}, {})
    <3>1. Len(main') \in Nat /\ Len(main') >= Len(main) /\ \A i \in 1 .. Len(main) : main'[i] = main[i]
      BY <2>2, <2>3, EmitFacts
    <3>2. QED
      BY <1>7, <2>1, <3>1
  <2>4. CASE UNCHANGED <<view, main>>
    BY <1>6, <2>1, <2>4
  <2>5. QED
    BY <2>1, <2>3, <2>4
<1>13. CASE DeleteRows
  <2>1. /\ Len(requests) = Len(shown) - 1 /\ swiping # 0
        /\ shown' = RemoveAt(shown, swiping) /\ UNCHANGED requests
    BY <1>5, <1>13 DEF DeleteRows
  <2>2. swiping \in 1 .. Len(shown)
    BY <1>2, <2>1
  <2>3. Len(shown') = Len(shown) - 1
    BY <1>2, <2>1, <2>2, RemoveAtFacts
  <2>4. QED
    BY <1>2, <2>1, <2>3
<1>14. CASE CloseSwipe
  BY <1>6, <1>14 DEF CloseSwipe
<1>15. CASE UNCHANGED vars
  BY <1>6, <1>15 DEF vars, process
<1>16. QED
  BY <1>4, <1>8, <1>9, <1>10, <1>11, <1>12, <1>13, <1>14, <1>15 DEF Next

\* The invariant the theorem below is taken from.
LEMMA ToldAlways == Spec => []ToldInv
<1>1. Init => ToldInv
  <2>1. SUFFICES ASSUME Init PROVE ToldInv
    OBVIOUS
  <2>2. /\ main = <<>> /\ listeners = {} /\ requests = <<>> /\ shown = <<>>
        /\ Len(main) = 0 /\ Cardinality(listeners) = 0
    BY <2>1, EmptySeq, FS_EmptySet DEF Init
  <2>3. \A i \in 1 .. Len(main) : FALSE
    BY <2>2
  <2>4. Screens /\ Told
    BY <2>2, <2>3 DEF Screens, Told, OneListener
  <2>5. QED
    BY <2>1, <2>4, TypeInit DEF ToldInv
<1>2. ToldInv /\ [Next]_vars => ToldInv'
  BY TypeStep, ScreensStep, ToldStep DEF ToldInv
<1>3. QED
  BY <1>1, <1>2, PTL DEF Spec

\* Every request in the array has a row once the table was told, whatever
\* order events, reloads, swipes and row deletions come in: gestures can miss
\* the array's end, but no request is out of the landlord's reach.
THEOREM RequestsHaveRows == Spec => []EveryRequestHasRow
<1>1. ToldInv => EveryRequestHasRow
  <2>1. SUFFICES ASSUME ToldInv, OneListener, NoneWaiting({"publish", "reload"})
                 PROVE  Len(shown) >= Len(requests)
    BY DEF EveryRequestHasRow
  <2>2. main \in Seq(Block) /\ Len(shown) \in Nat /\ Len(requests) \in Nat
    BY <2>1, LenProperties DEF ToldInv, TypeOK
  <2>3. DOMAIN main = 1 .. Len(main)
    BY <2>2, SeqFacts
  <2>4. QED
    BY <2>1, <2>2, <2>3 DEF ToldInv, Told, NoneWaiting
<1>2. QED
  BY <1>1, ToldAlways, PTL

(***************************************************************************)
(* The array mirrors the view once the events are dealt with: what the     *)
(* events under way add and remove is what the array lacks and has too     *)
(* much, a removal comes alone and finds its row.                          *)
(***************************************************************************)
Distinct(s) == \A i, j \in 1 .. Len(s) : s[i] = s[j] => i = j

Events   == {i \in 1 .. Len(main) : main[i].kind = "event"}
Removals == {i \in Events : main[i].removed # <<>>}

\* The table is to be told, or an event that adds is under way.
Coming == \E i \in 1 .. Len(main) : main[i].kind # "event" \/ main[i].removed = <<>>

Holds(s, id) == \E i \in 1 .. Len(s) : s[i] = id

Listed(id) == Holds(requests, id)
Comes(id)  == \E i \in Events : Holds(main[i].added, id)
Goes(id)   == \E i \in Removals : main[i].removed[1] = id

AddedOnce ==
  \A i \in Events :
    /\ Distinct(main[i].added)
    /\ \A k \in 1 .. Len(main[i].added) : ~ Listed(main[i].added[k])

AddedApart ==
  \A i, j \in Events : \A k \in 1 .. Len(main[i].added), n \in 1 .. Len(main[j].added) :
    main[i].added[k] = main[j].added[n] => i = j

RemovedAlone ==
  \A i \in Removals :
    /\ Len(main[i].removed) = 1
    /\ Len(main[i].added) = 0
    /\ Listed(main[i].removed[1])

RemovedOnce ==
  \A i, j \in Removals : main[i].removed[1] = main[j].removed[1] => i = j

ViewIs == \A id \in Ids : id \in view <=> (Listed(id) \/ Comes(id)) /\ ~ Goes(id)

Accounted ==
  /\ Distinct(requests)
  /\ AddedOnce
  /\ AddedApart
  /\ RemovedAlone
  /\ RemovedOnce
  /\ ViewIs

\* The requests told of were sent.
AllSent ==
  /\ \A i \in 1 .. Len(requests) : requests[i] <= sent
  /\ \A i \in Events : \A k \in 1 .. Len(main[i].added) : main[i].added[k] <= sent

Mirrored == OnlyHere => Accounted /\ AllSent

MirrorInv ==
  /\ ToldInv
  /\ \A id \in view : id <= sent
  /\ Mirrored

\* Types of events.
LEMMA EventsType ==
  ASSUME TypeOK
  PROVE  /\ Len(main) \in Nat
         /\ \A i \in Events : /\ i \in 1 .. Len(main)
                              /\ main[i].kind = "event"
                              /\ main[i].removed \in Seq(Ids) /\ main[i].added \in Seq(Ids)
                              /\ Len(main[i].removed) \in Nat /\ Len(main[i].added) \in Nat
                              /\ \A k \in 1 .. Len(main[i].added) : main[i].added[k] \in Ids
                              /\ \A k \in 1 .. Len(main[i].removed) : main[i].removed[k] \in Ids
<1>1. main \in Seq(Block)
  BY DEF TypeOK
<1>2. Len(main) \in Nat /\ \A i \in 1 .. Len(main) : main[i] \in Block
  BY <1>1, SeqFacts
<1>3. ASSUME NEW i \in Events
      PROVE  /\ i \in 1 .. Len(main) /\ main[i].kind = "event"
             /\ main[i].removed \in Seq(Ids) /\ main[i].added \in Seq(Ids)
  BY <1>2, BlockFields DEF Events
<1>4. QED
  BY <1>2, <1>3, SeqFacts

\* An event at the end of the queue.
LEMMA PostedEvents ==
  ASSUME Len(main) \in Nat, NEW b, b.kind = "event", Posts(b)
  PROVE  /\ Events' = Events \cup {Len(main) + 1}
         /\ Len(main) + 1 \notin Events
         /\ \A i \in Events : main'[i] = main[i]
         /\ main'[Len(main) + 1] = b
BY DEF Posts, Events

\* The head leaves the queue, and what may come to its end is not an event.
Shifts ==
  /\ Len(main) >= 1
  /\ \A i \in 1 .. Len(main) - 1 : main'[i] = main[i + 1]
  /\ \/ Len(main') = Len(main) - 1
     \/ Len(main') = Len(main) /\ main'[Len(main)].kind # "event"

\* Events keep their order, one place further to the front.
LEMMA ShiftedEvents ==
  ASSUME Len(main) \in Nat, Shifts
  PROVE  /\ \A i \in Events' : i + 1 \in Events /\ main'[i] = main[i + 1]
         /\ \A i \in Events : i = 1 \/ (i - 1 \in Events' /\ main'[i - 1] = main[i] /\ i \in Nat)
<1>1. ASSUME NEW i \in Events'
      PROVE  i + 1 \in Events /\ main'[i] = main[i + 1]
  <2>1. i \in 1 .. Len(main') /\ main'[i].kind = "event"
    BY DEF Events
  <2>2. i \in 1 .. Len(main) - 1
    BY <2>1 DEF Shifts
  <2>3. i + 1 \in 1 .. Len(main) /\ main'[i] = main[i + 1]
    BY <2>2 DEF Shifts
  <2>4. QED
    BY <2>1, <2>3 DEF Events
<1>2. ASSUME NEW i \in Events, i # 1
      PROVE  i - 1 \in Events' /\ main'[i - 1] = main[i] /\ i \in Nat
  <2>1. i \in 1 .. Len(main) /\ main[i].kind = "event"
    BY DEF Events
  <2>2. i - 1 \in 1 .. Len(main) - 1 /\ (i - 1) + 1 = i /\ i \in Nat
    BY <1>2, <2>1
  <2>3. main'[i - 1] = main[i] /\ i - 1 \in 1 .. Len(main')
    BY <2>2 DEF Shifts
  <2>4. QED
    BY <2>1, <2>2, <2>3 DEF Events
<1>3. QED
  BY <1>1, <1>2

\* Taking the head shifts the queue.
LEMMA TakesShifts ==
  ASSUME Len(main) \in Nat, Takes
  PROVE  Shifts
BY DEF Takes, Shifts

\* So does passing it on as a block that is no event.
LEMMA PassesShifts ==
  ASSUME Len(main) \in Nat, NEW b, b.kind # "event", Passes(b)
  PROVE  Shifts
BY DEF Passes, Shifts

\* A block that is no event leaves the accounts alone.
LEMMA AccountedShift ==
  ASSUME TypeOK, Accounted, Shifts, main[1].kind # "event", UNCHANGED <<view, requests>>
  PROVE  Accounted'
<1>1. /\ \A i \in Events' : i + 1 \in Events /\ main'[i] = main[i + 1]
      /\ \A i \in Events : i - 1 \in Events' /\ main'[i - 1] = main[i] /\ i \in Nat
  BY EventsType, ShiftedEvents DEF Events
<1>2. /\ \A i \in Removals' : i + 1 \in Removals /\ main'[i] = main[i + 1]
      /\ \A i \in Removals : i - 1 \in Removals' /\ main'[i - 1] = main[i] /\ i \in Nat
  BY <1>1 DEF Removals
<1>3. ASSUME NEW i \in Events', NEW j \in Events', i + 1 = j + 1 PROVE i = j
  <2>1. i \in Nat /\ j \in Nat
    BY DEF Events
  <2>2. QED
    BY <1>3, <2>1
<1>4. ASSUME NEW id
      PROVE  /\ Listed(id)' <=> Listed(id)
             /\ Comes(id)' <=> Comes(id)
             /\ Goes(id)' <=> Goes(id)
  <2>1. Listed(id)' <=> Listed(id)
    BY DEF Listed, Holds
  <2>2. Comes(id)' => Comes(id)
    BY <1>1 DEF Comes, Holds
  <2>3. Comes(id) => Comes(id)'
    <3>1. SUFFICES ASSUME NEW i \in Events, NEW k \in 1 .. Len(main[i].added),
                          main[i].added[k] = id
                   PROVE  Comes(id)'
      BY DEF Comes, Holds
    <3>2. i - 1 \in Events' /\ main'[i - 1] = main[i]
      BY <1>1
    <3>3. QED
      BY <3>1, <3>2 DEF Comes, Holds
  <2>4. Goes(id)' => Goes(id)
    BY <1>2 DEF Goes
  <2>5. Goes(id) => Goes(id)'
    <3>1. SUFFICES ASSUME NEW i \in Removals, main[i].removed[1] = id PROVE Goes(id)'
      BY DEF Goes
    <3>2. i - 1 \in Removals' /\ main'[i - 1] = main[i]
      BY <1>2
    <3>3. QED
      BY <3>1, <3>2 DEF Goes
  <2>6. QED
    BY <2>1, <2>2, <2>3, <2>4, <2>5
<1>5. Distinct(requests)'
  BY DEF Accounted
<1>6. AddedOnce'
  BY <1>1, <1>4 DEF Accounted, AddedOnce
<1>7. AddedApart'
  <2>1. SUFFICES ASSUME NEW i \in Events', NEW j \in Events',
                        NEW k \in 1 .. Len(main'[i].added), NEW n \in 1 .. Len(main'[j].added),
                        main'[i].added[k] = main'[j].added[n]
                 PROVE  i = j
    BY DEF AddedApart
  <2>2. /\ i + 1 \in Events /\ main'[i] = main[i + 1]
        /\ j + 1 \in Events /\ main'[j] = main[j + 1]
    BY <1>1
  <2>3. i + 1 = j + 1
    BY <2>1, <2>2 DEF Accounted, AddedApart
  <2>4. QED
    BY <1>3, <2>3
<1>8. RemovedAlone'
  BY <1>2, <1>4 DEF Accounted, RemovedAlone
<1>9. RemovedOnce'
  BY <1>2, <1>3 DEF Accounted, RemovedOnce, Removals
<1>10. ViewIs'
  BY <1>4 DEF Accounted, ViewIs
<1>11. QED
  BY <1>5, <1>6, <1>7, <1>8, <1>9, <1>10 DEF Accounted

\* A new event adds what is not there, or removes what is.
LEMMA AccountedPosted ==
  ASSUME TypeOK, Accounted, NEW b \in Block, b.kind = "event", Posts(b), UNCHANGED requests,
         \/ /\ b.removed = <<>> /\ Distinct(b.added)
            /\ \A k \in 1 .. Len(b.added) : ~ Listed(b.added[k]) /\ ~ Comes(b.added[k])
            /\ \A id : id \in view' <=> id \in view \/ \E k \in 1 .. Len(b.added) : b.added[k] = id
         \/ /\ Len(b.added) = 0 /\ Len(b.removed) = 1
            /\ Listed(b.removed[1]) /\ ~ Goes(b.removed[1])
            /\ view' = view \ {b.removed[1]}
  PROVE  Accounted'
<1> DEFINE last == Len(main) + 1
<1>1. /\ Events' = Events \cup {last} /\ last \notin Events
      /\ \A i \in Events : main'[i] = main[i]
      /\ main'[last] = b
  BY EventsType, PostedEvents
<1> HIDE DEF last
<1>2. \A i \in Removals' : i \in Removals \/ (i = last /\ b.removed # <<>>)
  BY <1>1 DEF Removals
<1>3. Removals \subseteq Removals' /\ (b.removed # <<>> => last \in Removals') /\ Removals \subseteq Events
  BY <1>1 DEF Removals
<1>4. \A id : Listed(id)' <=> Listed(id)
  BY DEF Listed, Holds
<1>5. ASSUME NEW id
      PROVE  Comes(id)' <=> Comes(id) \/ \E k \in 1 .. Len(b.added) : b.added[k] = id
  <2>1. Comes(id) => Comes(id)'
    <3>1. SUFFICES ASSUME NEW i \in Events, NEW k \in 1 .. Len(main[i].added),
                          main[i].added[k] = id
                   PROVE  Comes(id)'
      BY DEF Comes, Holds
    <3>2. i \in Events' /\ main'[i] = main[i]
      BY <1>1
    <3>3. QED
      BY <3>1, <3>2 DEF Comes, Holds
  <2>2. (\E k \in 1 .. Len(b.added) : b.added[k] = id) => Comes(id)'
    BY <1>1 DEF Comes, Holds
  <2>3. Comes(id)' => Comes(id) \/ \E k \in 1 .. Len(b.added) : b.added[k] = id
    BY <1>1 DEF Comes, Holds
  <2>4. QED
    BY <2>1, <2>2, <2>3
<1>6. ASSUME NEW id
      PROVE  Goes(id)' <=> Goes(id) \/ (b.removed # <<>> /\ b.removed[1] = id)
  <2>1. Goes(id) => Goes(id)'
    <3>1. SUFFICES ASSUME NEW i \in Removals, main[i].removed[1] = id PROVE Goes(id)'
      BY DEF Goes
    <3>2. i \in Removals' /\ main'[i] = main[i]
      BY <1>1, <1>3
    <3>3. QED
      BY <3>1, <3>2 DEF Goes
  <2>2. (b.removed # <<>> /\ b.removed[1] = id) => Goes(id)'
    BY <1>1, <1>3 DEF Goes
  <2>3. Goes(id)' => Goes(id) \/ (b.removed # <<>> /\ b.removed[1] = id)
    BY <1>1, <1>2, <1>3 DEF Goes
  <2>4. QED
    BY <2>1, <2>2, <2>3
<1>7. \A k \in 1 .. Len(b.added) : ~ Listed(b.added[k]) /\ ~ Comes(b.added[k])
  OBVIOUS
<1>8. Distinct(b.added)
  <2>1. CASE Len(b.added) = 0
    <3>1. \A k \in 1 .. Len(b.added) : FALSE
      BY <2>1
    <3>2. QED
      BY <3>1 DEF Distinct
  <2>2. QED
    BY <2>1
<1>9. Distinct(requests)'
  BY DEF Accounted
<1>10. AddedOnce'
  <2>1. ASSUME NEW i \in Events'
        PROVE  /\ Distinct(main'[i].added)
               /\ \A k \in 1 .. Len(main'[i].added) : ~ Listed(main'[i].added[k])
    BY <1>1, <1>7, <1>8 DEF Accounted, AddedOnce
  <2>2. QED
    BY <1>4, <2>1 DEF AddedOnce, Distinct
<1>11. AddedApart'
  <2>1. SUFFICES ASSUME NEW i \in Events', NEW j \in Events',
                        NEW k \in 1 .. Len(main'[i].added), NEW n \in 1 .. Len(main'[j].added),
                        main'[i].added[k] = main'[j].added[n]
                 PROVE  i = j
    BY DEF AddedApart
  <2>2. CASE i \in Events /\ j \in Events
    BY <1>1, <2>1, <2>2 DEF Accounted, AddedApart
  <2>3. CASE i \in Events /\ j = last
    <3>1. Comes(b.added[n])
      BY <1>1, <2>1, <2>3 DEF Comes, Holds
    <3>2. QED
      BY <1>1, <1>7, <2>3, <3>1
  <2>4. CASE i = last /\ j \in Events
    <3>1. Comes(b.added[k])
      BY <1>1, <2>1, <2>4 DEF Comes, Holds
    <3>2. QED
      BY <1>1, <1>7, <2>4, <3>1
  <2>5. QED
    BY <1>1, <2>2, <2>3, <2>4
<1>12. RemovedAlone'
  <2>1. ASSUME NEW i \in Removals'
        PROVE  /\ Len(main'[i].removed) = 1
               /\ Len(main'[i].added) = 0
               /\ Listed(main'[i].removed[1])
    <3>1. CASE i \in Removals
      BY <1>1, <1>3, <3>1 DEF Accounted, RemovedAlone
    <3>2. CASE i = last /\ b.removed # <<>>
      BY <1>1, <3>2
    <3>3. QED
      BY <1>2, <3>1, <3>2
  <2>2. QED
    BY <1>4, <2>1 DEF RemovedAlone
<1>13. RemovedOnce'
  <2>1. SUFFICES ASSUME NEW i \in Removals', NEW j \in Removals',
                        main'[i].removed[1] = main'[j].removed[1]
                 PROVE  i = j
    BY DEF RemovedOnce
  <2>2. CASE i \in Removals /\ j \in Removals
    BY <1>1, <1>3, <2>1, <2>2 DEF Accounted, RemovedOnce
  <2>3. ASSUME NEW m \in Removals, b.removed # <<>>, main'[m].removed[1] = b.removed[1]
        PROVE  FALSE
    <3>1. Goes(b.removed[1])
      BY <1>1, <1>3, <2>3 DEF Goes
    <3>2. QED
      BY <2>3, <3>1
  <2>4. CASE i \in Removals /\ j = last /\ b.removed # <<>>
    BY <1>1, <2>1, <2>3, <2>4
  <2>5. CASE i = last /\ b.removed # <<>> /\ j \in Removals
    BY <1>1, <2>1, <2>3, <2>5
  <2>6. QED
    BY <1>2, <2>2, <2>4, <2>5
<1>14. ViewIs'
  <2>1. SUFFICES ASSUME NEW id \in Ids
                 PROVE  id \in view' <=> (Listed(id)' \/ Comes(id)') /\ ~ Goes(id)'
    BY DEF ViewIs
  <2>2. id \in view <=> (Listed(id) \/ Comes(id)) /\ ~ Goes(id)
    BY DEF Accounted, ViewIs
  <2>3. CASE /\ b.removed = <<>>
             /\ \A k \in 1 .. Len(b.added) : ~ Listed(b.added[k]) /\ ~ Comes(b.added[k])
             /\ \A x : x \in view' <=> x \in view \/ \E k \in 1 .. Len(b.added) : b.added[k] = x
    <3>1. Goes(id) => Listed(id)
      BY DEF Goes, Accounted, RemovedAlone
    <3>2. QED
      BY <1>4, <1>5, <1>6, <2>2, <2>3, <3>1
  <2>4. CASE /\ Len(b.added) = 0 /\ Len(b.removed) = 1
             /\ view' = view \ {b.removed[1]}
    <3>1. b.removed # <<>>
      BY <2>4, EmptySeq
    <3>2. ~ \E k \in 1 .. Len(b.added) : b.added[k] = id
      BY <2>4
    <3>3. QED
      BY <1>4, <1>5, <1>6, <2>2, <2>4, <3>1, <3>2
  <2>5. QED
    BY <2>3, <2>4
<1>15. QED
  BY <1>9, <1>10, <1>11, <1>12, <1>13, <1>14 DEF Accounted

\* What an event under way adds joins the array.
LEMMA AccountedAdded ==
  ASSUME TypeOK, Accounted, Shifts, 1 \in Events, main[1].removed = <<>>,
         requests' = requests \o main[1].added, UNCHANGED view
  PROVE  Accounted'
<1> DEFINE a == main[1].added
           N == Len(requests)
<1>1. /\ \A i \in Events' : i + 1 \in Events /\ main'[i] = main[i + 1] /\ i + 1 # 1
      /\ \A i \in Events : i = 1 \/ (i - 1 \in Events' /\ main'[i - 1] = main[i] /\ i \in Nat)
  <2>1. \A i \in Events' : i + 1 # 1
    BY EventsType DEF Events
  <2>2. QED
    BY <2>1, EventsType, ShiftedEvents
<1>2. /\ \A i \in Removals' : i + 1 \in Removals /\ main'[i] = main[i + 1]
      /\ \A i \in Removals : i - 1 \in Removals' /\ main'[i - 1] = main[i]
      /\ Removals \subseteq Events
  BY <1>1 DEF Removals
<1>3. ASSUME NEW i \in Events', NEW j \in Events', i + 1 = j + 1 PROVE i = j
  <2>1. i \in Nat /\ j \in Nat
    BY DEF Events
  <2>2. QED
    BY <1>3, <2>1
<1>4. /\ requests \in Seq(Ids) /\ a \in Seq(Ids) /\ N \in Nat /\ Len(a) \in Nat
  BY EventsType, LenProperties DEF TypeOK
<1> HIDE DEF a
<1>5. /\ Len(requests \o a) = N + Len(a)
      /\ \A i \in 1 .. N : i \in 1 .. Len(requests \o a) /\ (requests \o a)[i] = requests[i]
      /\ \A i \in 1 .. Len(a) : /\ N + i \in 1 .. Len(requests \o a)
                                /\ (requests \o a)[N + i] = a[i]
      /\ \A i \in 1 .. Len(requests \o a) : i \in 1 .. N \/ i - N \in 1 .. Len(a)
  BY <1>4, ConcatFacts
<1>6. requests' = requests \o a
  BY DEF a
<1>7. ASSUME NEW i \in 1 .. Len(requests')
      PROVE  \/ i \in 1 .. N /\ requests'[i] = requests[i]
             \/ i - N \in 1 .. Len(a) /\ requests'[i] = a[i - N] /\ i \in Nat
  <2>1. CASE i \in 1 .. N
    BY <1>5, <1>6, <2>1
  <2>2. CASE i - N \in 1 .. Len(a)
    <3> DEFINE k == i - N
    <3>1. N + k = i /\ i \in Nat
      BY <1>4, <1>5, <1>6
    <3>2. k \in 1 .. Len(a)
      BY <2>2
    <3> HIDE DEF k
    <3>3. requests'[i] = a[k]
      BY <1>5, <1>6, <3>1, <3>2
    <3>4. QED
      BY <2>2, <3>1, <3>3 DEF k
  <2>3. QED
    BY <1>5, <1>6, <2>1, <2>2
<1>8. ASSUME NEW id
      PROVE  /\ Listed(id)' <=> Listed(id) \/ \E k \in 1 .. Len(a) : a[k] = id
             /\ Listed(id)' <=> Holds(requests', id)
  <2>1. Listed(id)' => Listed(id) \/ \E k \in 1 .. Len(a) : a[k] = id
    BY <1>7 DEF Listed, Holds
  <2>2. Listed(id) => Listed(id)'
    BY <1>5, <1>6 DEF Listed, N, Holds
  <2>3. (\E k \in 1 .. Len(a) : a[k] = id) => Listed(id)'
    BY <1>5, <1>6 DEF Listed, Holds
  <2>4. Listed(id)' <=> Holds(requests', id)
    BY DEF Listed
  <2>5. QED
    BY <2>1, <2>2, <2>3, <2>4
<1>9. ASSUME NEW id
      PROVE  Comes(id) <=> Comes(id)' \/ \E k \in 1 .. Len(a) : a[k] = id
  <2>1. Comes(id)' => Comes(id)
    BY <1>1 DEF Comes, Holds
  <2>2. (\E k \in 1 .. Len(a) : a[k] = id) => Comes(id)
    BY DEF Comes, a, Holds
  <2>3. Comes(id) => Comes(id)' \/ \E k \in 1 .. Len(a) : a[k] = id
    <3>1. SUFFICES ASSUME NEW i \in Events, NEW k \in 1 .. Len(main[i].added),
                          main[i].added[k] = id, i # 1
                   PROVE  Comes(id)'
      BY DEF Comes, a, Holds
    <3>2. i - 1 \in Events' /\ main'[i - 1] = main[i]
      BY <1>1, <3>1
    <3>3. QED
      BY <3>1, <3>2 DEF Comes, Holds
  <2>4. QED
    BY <2>1, <2>2, <2>3
<1>10. ASSUME NEW id
       PROVE  Goes(id)' <=> Goes(id)
  <2>1. Goes(id)' => Goes(id)
    BY <1>2 DEF Goes
  <2>2. Goes(id) => Goes(id)'
    <3>1. SUFFICES ASSUME NEW i \in Removals, main[i].removed[1] = id PROVE Goes(id)'
      BY DEF Goes
    <3>2. i - 1 \in Removals' /\ main'[i - 1] = main[i]
      BY <1>2
    <3>3. QED
      BY <3>1, <3>2 DEF Goes
  <2>3. QED
    BY <2>1, <2>2
<1>11. /\ Distinct(requests) /\ Distinct(a)
       /\ \A k \in 1 .. Len(a) : ~ Listed(a[k])
  BY DEF Accounted, AddedOnce, a
<1>12. Distinct(requests)'
  <2>1. SUFFICES ASSUME NEW i \in 1 .. Len(requests'), NEW j \in 1 .. Len(requests'),
                        requests'[i] = requests'[j]
                 PROVE  i = j
    BY DEF Distinct
  <2>2. CASE i \in 1 .. N /\ requests'[i] = requests[i]
    <3>1. Listed(requests'[i])
      BY <2>2 DEF Listed, N, Holds
    <3>2. j \in 1 .. N /\ requests'[j] = requests[j]
      BY <1>7, <1>11, <2>1, <3>1
    <3>3. QED
      BY <1>11, <2>1, <2>2, <3>2 DEF Distinct, N
  <2>3. CASE i - N \in 1 .. Len(a) /\ requests'[i] = a[i - N] /\ i \in Nat
    <3>1. ~ Listed(requests'[i])
      BY <1>11, <2>3
    <3>2. ~ (j \in 1 .. N /\ requests'[j] = requests[j])
      BY <2>1, <3>1 DEF Listed, N, Holds
    <3>3. j - N \in 1 .. Len(a) /\ requests'[j] = a[j - N] /\ j \in Nat
      BY <1>7, <3>2
    <3>4. i - N = j - N
      BY <1>11, <2>1, <2>3, <3>3 DEF Distinct
    <3>5. QED
      BY <1>4, <2>3, <3>3, <3>4
  <2>4. QED
    BY <1>7, <2>2, <2>3
<1>13. AddedOnce'
  <2>1. ASSUME NEW i \in Events'
        PROVE  /\ Distinct(main'[i].added)
               /\ \A k \in 1 .. Len(main'[i].added) : ~ Holds(requests', main'[i].added[k])
    <3>1. i + 1 \in Events /\ main'[i] = main[i + 1] /\ i + 1 # 1
      BY <1>1
    <3>2. Distinct(main[i + 1].added)
      BY <3>1 DEF Accounted, AddedOnce
    <3>3. ASSUME NEW k \in 1 .. Len(main[i + 1].added), NEW id, id = main[i + 1].added[k]
          PROVE  ~ Holds(requests', id)
      <4>1. ~ Listed(id)
        BY <3>1, <3>3 DEF Accounted, AddedOnce
      <4>2. \A n \in 1 .. Len(a) : a[n] # id
        BY <3>1, <3>3 DEF Accounted, AddedApart, a
      <4>3. QED
        BY <1>8, <4>1, <4>2
    <3>4. \A k \in 1 .. Len(main'[i].added) : ~ Holds(requests', main'[i].added[k])
      BY <3>1, <3>3
    <3>5. QED
      BY <3>1, <3>2, <3>4
  <2>2. QED
    BY <2>1 DEF AddedOnce, Distinct, Listed
<1>14. AddedApart'
  <2>1. SUFFICES ASSUME NEW i \in Events', NEW j \in Events',
                        NEW k \in 1 .. Len(main'[i].added), NEW n \in 1 .. Len(main'[j].added),
                        main'[i].added[k] = main'[j].added[n]
                 PROVE  i = j
    BY DEF AddedApart
  <2>2. /\ i + 1 \in Events /\ main'[i] = main[i + 1]
        /\ j + 1 \in Events /\ main'[j] = main[j + 1]
    BY <1>1
  <2>3. i + 1 = j + 1
    BY <2>1, <2>2 DEF Accounted, AddedApart
  <2>4. QED
    BY <1>3, <2>3
<1>15. RemovedAlone'
  <2>1. ASSUME NEW i \in Removals'
        PROVE  /\ Len(main'[i].removed) = 1
               /\ Len(main'[i].added) = 0
               /\ Holds(requests', main'[i].removed[1])
    <3>1. i + 1 \in Removals /\ main'[i] = main[i + 1]
      BY <1>2
    <3>2. /\ Len(main[i + 1].removed) = 1
          /\ Len(main[i + 1].added) = 0
          /\ Listed(main[i + 1].removed[1])
      BY <3>1 DEF Accounted, RemovedAlone
    <3>3. Holds(requests', main[i + 1].removed[1])
      BY <1>8, <3>2
    <3>4. QED
      BY <3>1, <3>2, <3>3
  <2>2. QED
    BY <2>1 DEF RemovedAlone, Listed
<1>16. RemovedOnce'
  BY <1>2, <1>3 DEF Accounted, RemovedOnce, Removals
<1>17. ViewIs'
  <2>1. SUFFICES ASSUME NEW id \in Ids
                 PROVE  id \in view' <=> (Listed(id)' \/ Comes(id)') /\ ~ Goes(id)'
    BY DEF ViewIs
  <2>2. id \in view <=> (Listed(id) \/ Comes(id)) /\ ~ Goes(id)
    BY DEF Accounted, ViewIs
  <2>3. QED
    BY <1>8, <1>9, <1>10, <2>2
<1>18. QED
  BY <1>12, <1>13, <1>14, <1>15, <1>16, <1>17 DEF Accounted

\* A removal under way takes its row out of the array.
LEMMA AccountedRemoved ==
  ASSUME TypeOK, Accounted, Takes, 1 \in Removals, UNCHANGED view,
         NEW row \in 1 .. Len(requests), requests[row] = main[1].removed[1],
         requests' = RemoveAt(requests, row)
  PROVE  Accounted'
<1> DEFINE x == main[1].removed[1]
<1>1. /\ \A i \in Events' : i + 1 \in Events /\ main'[i] = main[i + 1] /\ i + 1 # 1
      /\ \A i \in Events : i = 1 \/ (i - 1 \in Events' /\ main'[i - 1] = main[i] /\ i \in Nat)
  <2>1. \A i \in Events' : i + 1 # 1
    BY EventsType DEF Events
  <2>2. QED
    BY <2>1, EventsType, ShiftedEvents, TakesShifts
<1>2. /\ \A i \in Removals' : i + 1 \in Removals /\ main'[i] = main[i + 1] /\ i + 1 # 1
      /\ \A i \in Removals : i = 1 \/ (i - 1 \in Removals' /\ main'[i - 1] = main[i])
      /\ Removals \subseteq Events
  BY <1>1 DEF Removals
<1>3. ASSUME NEW i \in Events', NEW j \in Events', i + 1 = j + 1 PROVE i = j
  <2>1. i \in Nat /\ j \in Nat
    BY DEF Events
  <2>2. QED
    BY <1>3, <2>1
<1>4. /\ Len(main[1].added) = 0 /\ Listed(x)
  BY DEF Accounted, RemovedAlone
<1>5. \A k \in 1 .. Len(main[1].added) : FALSE
  BY <1>4
<1>6. requests \in Seq(Ids) /\ Len(requests) \in Nat /\ Distinct(requests) /\ requests[row] = x
  BY LenProperties DEF TypeOK, Accounted
<1> HIDE DEF x
<1>7. Lacks(requests', requests, row)
  BY <1>6, RemoveAtMembers
<1>8. \A k \in 1 .. Len(requests) : requests[k] = x => k = row
  BY <1>6 DEF Distinct
<1>9. ASSUME NEW id
      PROVE  /\ Listed(id)' <=> Listed(id) /\ id # x
             /\ Listed(id)' <=> Holds(requests', id)
  <2>1. Listed(id)' => Listed(id) /\ id # x
    <3>1. SUFFICES ASSUME NEW i \in 1 .. Len(requests'), requests'[i] = id
                   PROVE  Listed(id) /\ id # x
      BY DEF Listed, Holds
    <3>2. PICK k \in 1 .. Len(requests) : k # row /\ requests[k] = id
      BY <1>7, <3>1 DEF Lacks
    <3>3. QED
      BY <1>8, <3>2 DEF Listed, Holds
  <2>2. Listed(id) /\ id # x => Listed(id)'
    <3>1. SUFFICES ASSUME NEW i \in 1 .. Len(requests), requests[i] = id, id # x
                   PROVE  Listed(id)'
      BY DEF Listed, Holds
    <3>2. i # row
      BY <1>6, <3>1
    <3>3. QED
      BY <1>7, <3>1, <3>2 DEF Listed, Holds, Lacks
  <2>3. Listed(id)' <=> Holds(requests', id)
    BY DEF Listed
  <2>4. QED
    BY <2>1, <2>2, <2>3
<1>10. ASSUME NEW id
       PROVE  Comes(id)' <=> Comes(id)
  <2>1. Comes(id)' => Comes(id)
    BY <1>1 DEF Comes, Holds
  <2>2. Comes(id) => Comes(id)'
    <3>1. SUFFICES ASSUME NEW i \in Events, NEW k \in 1 .. Len(main[i].added),
                          main[i].added[k] = id
                   PROVE  Comes(id)'
      BY DEF Comes, Holds
    <3>2. i - 1 \in Events' /\ main'[i - 1] = main[i]
      BY <1>1, <1>5
    <3>3. QED
      BY <3>1, <3>2 DEF Comes, Holds
  <2>3. QED
    BY <2>1, <2>2
<1>11. ASSUME NEW id
       PROVE  Goes(id)' <=> Goes(id) /\ id # x
  <2>1. Goes(id)' => Goes(id) /\ id # x
    <3>1. SUFFICES ASSUME NEW i \in Removals', main'[i].removed[1] = id
                   PROVE  Goes(id) /\ id # x
      BY DEF Goes
    <3>2. i + 1 \in Removals /\ main[i + 1].removed[1] = id /\ i + 1 # 1
      BY <1>2, <3>1
    <3>3. id # x
      BY <3>2 DEF Accounted, RemovedOnce, x
    <3>4. QED
      BY <3>2, <3>3 DEF Goes
  <2>2. Goes(id) /\ id # x => Goes(id)'
    <3>1. SUFFICES ASSUME NEW i \in Removals, main[i].removed[1] = id, id # x
                   PROVE  Goes(id)'
      BY DEF Goes
    <3>2. i - 1 \in Removals' /\ main'[i - 1] = main[i]
      BY <1>2, <3>1 DEF x
    <3>3. QED
      BY <3>1, <3>2 DEF Goes
  <2>3. QED
    BY <2>1, <2>2
<1>12. Distinct(requests)'
  BY <1>6, <1>7 DEF Distinct, Lacks
<1>13. AddedOnce'
  <2>1. ASSUME NEW i \in Events'
        PROVE  /\ Distinct(main'[i].added)
               /\ \A k \in 1 .. Len(main'[i].added) : ~ Listed(main'[i].added[k])
    BY <1>1 DEF Accounted, AddedOnce
  <2>2. ASSUME NEW i \in Events', NEW k \in 1 .. Len(main'[i].added), NEW id,
               id = main'[i].added[k]
        PROVE  ~ Holds(requests', id)
    BY <1>9, <2>1, <2>2
  <2>3. \A i \in Events' : \A k \in 1 .. Len(main'[i].added) : ~ Holds(requests', main'[i].added[k])
    BY <2>2
  <2>4. QED
    BY <2>1, <2>3 DEF AddedOnce, Distinct, Listed
<1>14. AddedApart'
  <2>1. SUFFICES ASSUME NEW i \in Events', NEW j \in Events',
                        NEW k \in 1 .. Len(main'[i].added), NEW n \in 1 .. Len(main'[j].added),
                        main'[i].added[k] = main'[j].added[n]
                 PROVE  i = j
    BY DEF AddedApart
  <2>2. /\ i + 1 \in Events /\ main'[i] = main[i + 1]
        /\ j + 1 \in Events /\ main'[j] = main[j + 1]
    BY <1>1
  <2>3. i + 1 = j + 1
    BY <2>1, <2>2 DEF Accounted, AddedApart
  <2>4. QED
    BY <1>3, <2>3
<1>15. RemovedAlone'
  <2>1. ASSUME NEW i \in Removals'
        PROVE  /\ Len(main'[i].removed) = 1
               /\ Len(main'[i].added) = 0
               /\ Holds(requests', main'[i].removed[1])
    <3>1. i + 1 \in Removals /\ main'[i] = main[i + 1] /\ i + 1 # 1
      BY <1>2
    <3>2. /\ Len(main[i + 1].removed) = 1
          /\ Len(main[i + 1].added) = 0
          /\ Listed(main[i + 1].removed[1])
      BY <3>1 DEF Accounted, RemovedAlone
    <3>3. main[i + 1].removed[1] # x
      BY <3>1 DEF Accounted, RemovedOnce, x
    <3>4. Holds(requests', main[i + 1].removed[1])
      BY <1>9, <3>2, <3>3, <3>1
    <3>5. QED
      BY <3>1, <3>2, <3>4
  <2>2. QED
    BY <2>1 DEF RemovedAlone, Listed
<1>16. RemovedOnce'
  BY <1>2, <1>3 DEF Accounted, RemovedOnce, Removals
<1>17. ViewIs'
  <2>1. SUFFICES ASSUME NEW id \in Ids
                 PROVE  id \in view' <=> (Listed(id)' \/ Comes(id)') /\ ~ Goes(id)'
    BY DEF ViewIs
  <2>2. id \in view <=> (Listed(id) \/ Comes(id)) /\ ~ Goes(id)
    BY DEF Accounted, ViewIs
  <2>3. Goes(x)
    BY DEF Goes, x
  <2>4. ~ Comes(x)
    BY <1>4 DEF Comes, Accounted, AddedOnce, Holds
  <2>5. QED
    BY <1>9, <1>10, <1>11, <2>2, <2>3, <2>4
<1>18. QED
  BY <1>12, <1>13, <1>14, <1>15, <1>16, <1>17 DEF Accounted

\* The first screen's first event has all there is.
LEMMA MirrorLogin ==
  ASSUME MirrorInv, ViewDidLoad, OneListener'
  PROVE  Accounted' /\ AllSent' /\ Removals' = {} /\ Coming'
<1> USE DEF MirrorInv, ToldInv
<1> DEFINE a == InOrder(view)
<1>1. /\ Len(main') = 1 /\ Posts(Event(logins', {}, view)) /\ Len(main) = 0
      /\ Len(requests') = 0 /\ UNCHANGED <<view, sent>>
  BY LoginFacts
<1>2. view \in SUBSET Ids
  BY DEF TypeOK
<1>3. /\ a \in Seq(Ids) /\ Distinct(a)
      /\ \A i \in 1 .. Len(a) : a[i] \in view
      /\ \A x \in view : \E i \in 1 .. Len(a) : a[i] = x
  BY <1>2, IdOrder DEF Distinct
<1>4. /\ main'[1].kind = "event" /\ main'[1].removed = <<>> /\ main'[1].added = a
  BY <1>1, EventFields, NoIds DEF Posts
<1> HIDE DEF a
<1>5. Events' = {1} /\ Removals' = {}
  BY <1>1, <1>4 DEF Events, Removals
<1>6. \A id : ~ Holds(requests', id)
  BY <1>1 DEF Holds
<1>7. Distinct(requests)'
  <2>1. \A i \in 1 .. Len(requests') : FALSE
    BY <1>1
  <2>2. QED
    BY <2>1 DEF Distinct
<1>8. AddedOnce' /\ AddedApart' /\ RemovedAlone' /\ RemovedOnce'
  BY <1>3, <1>4, <1>5, <1>6 DEF AddedOnce, AddedApart, RemovedAlone, RemovedOnce, Listed, Distinct
<1>9. ViewIs'
  <2>1. SUFFICES ASSUME NEW id \in Ids
                 PROVE  id \in view' <=> (Listed(id)' \/ Comes(id)') /\ ~ Goes(id)'
    BY DEF ViewIs
  <2>2. ~ Listed(id)' /\ ~ Goes(id)'
    BY <1>5, <1>6 DEF Listed, Goes
  <2>3. Comes(id)' <=> Holds(a, id)
    BY <1>4, <1>5 DEF Comes
  <2>4. Holds(a, id) <=> id \in view
    BY <1>3 DEF Holds
  <2>5. QED
    BY <1>1, <2>2, <2>3, <2>4
<1>10. AllSent'
  <2>1. \A i \in 1 .. Len(requests') : FALSE
    BY <1>1
  <2>2. QED
    BY <1>1, <1>3, <1>4, <1>5, <2>1 DEF AllSent
<1>11. Coming'
  BY <1>1, <1>4 DEF Coming
<1>12. QED
  BY <1>5, <1>7, <1>8, <1>9, <1>10, <1>11 DEF Accounted

\* Requests come in that were never told of before.
LEMMA MirrorSnapshot ==
  ASSUME MirrorInv, OnlyHere, OnlyHere', Snapshot
  PROVE  Accounted' /\ AllSent' /\ Removals' = Removals /\ Coming'
<1> USE DEF MirrorInv, ToldInv
<1>1. PICK n \in Nat, gone \in SUBSET view :
        /\ Emit(gone, sent + 1 .. sent + n)
        /\ gone \in SUBSET Ids /\ (sent + 1 .. sent + n) \in SUBSET Ids
        /\ sent \in Nat /\ sent' = sent + n
        /\ elsewhere' = 0 => elsewhere = 0 /\ gone = {}
        /\ UNCHANGED <<listeners, requests, shown, swiping, abandoned, swipes, logins>>
  BY SnapshotFacts
<1> DEFINE new == sent + 1 .. sent + n
           b == Event(logins, gone, new)
<1>2. gone = {} /\ listeners = {logins}
  BY <1>1, TheListener DEF OnlyHere
<1>3. Posts(b) /\ main' \in Seq(Block)
  BY <1>1, <1>2, EmitFacts
<1>4. b \in Block
  BY <1>1, EventType DEF TypeOK
<1>5. b.kind = "event" /\ b.removed = <<>> /\ b.added = InOrder(new)
  BY <1>2, EventFields, NoIds
<1>6. view' = view \cup new /\ new \in SUBSET Ids /\ new \in SUBSET Nat
  BY <1>1, <1>2, IdSets DEF Emit
<1>7. \A id \in new : id > sent
  BY <1>1
<1>8. \A id \in new : id <= sent'
  BY <1>1
<1> HIDE DEF new, b
<1>9. /\ Distinct(b.added)
      /\ \A i \in 1 .. Len(b.added) : b.added[i] \in new
      /\ \A x \in new : \E i \in 1 .. Len(b.added) : b.added[i] = x
  BY <1>5, <1>6, IdOrder DEF Distinct
<1>10. \A id \in new : ~ Listed(id) /\ ~ Comes(id)
  <2>1. SUFFICES ASSUME NEW id \in new PROVE ~ Listed(id) /\ ~ Comes(id)
    OBVIOUS
  <2>2. id \in Nat /\ id > sent /\ sent \in Nat
    BY <1>1, <1>6, <1>7
  <2>3. ~ (id <= sent)
    BY <2>2
  <2>4. QED
    BY <2>3 DEF Mirrored, AllSent, Listed, Comes, Holds
<1>11. /\ \A k \in 1 .. Len(b.added) : ~ Listed(b.added[k]) /\ ~ Comes(b.added[k])
       /\ \A id : id \in view' <=> id \in view \/ \E k \in 1 .. Len(b.added) : b.added[k] = id
  BY <1>6, <1>9, <1>10
<1>12. Accounted'
  BY <1>1, <1>3, <1>4, <1>5, <1>9, <1>11, AccountedPosted DEF Mirrored
<1>13. /\ Events' = Events \cup {Len(main) + 1}
       /\ Len(main) + 1 \notin Events
       /\ \A i \in Events : main'[i] = main[i]
       /\ main'[Len(main) + 1] = b
  BY <1>3, <1>5, EventsType, PostedEvents
<1>14. Removals' = Removals
  BY <1>5, <1>13 DEF Removals
<1>15. AllSent'
  <2>1. \A x \in Nat : x <= sent => x <= sent'
    BY <1>1
  <2>2. ASSUME NEW i \in 1 .. Len(requests') PROVE requests'[i] <= sent'
    <3>1. requests[i] \in Ids /\ requests[i] <= sent
      BY <1>1, ElementOfSeq DEF TypeOK, Mirrored, AllSent
    <3>2. requests[i] \in Nat
      BY <3>1 DEF Ids
    <3>3. QED
      BY <1>1, <2>1, <3>1, <3>2
  <2>3. ASSUME NEW i \in Events', NEW k \in 1 .. Len(main'[i].added)
        PROVE  main'[i].added[k] <= sent'
    <3>1. CASE i \in Events
      <4>1. main[i].added[k] \in Ids /\ main[i].added[k] <= sent
        BY <1>13, <2>3, <3>1, EventsType DEF Mirrored, AllSent
      <4>2. main[i].added[k] \in Nat
        BY <4>1 DEF Ids
      <4>3. QED
        BY <1>13, <2>1, <3>1, <4>1, <4>2
    <3>2. CASE i = Len(main) + 1
      BY <1>8, <1>9, <1>13, <2>3, <3>2
    <3>3. QED
      BY <1>13, <3>1, <3>2
  <2>4. QED
    BY <2>2, <2>3 DEF AllSent
<1>16. Coming'
  <2>1. Len(main) + 1 \in 1 .. Len(main')
    BY <1>3, EventsType DEF Posts
  <2>2. QED
    BY <1>5, <1>13, <2>1 DEF Coming
<1>17. QED
  BY <1>12, <1>14, <1>15, <1>16

\* A swipe settles a request that was not, or was and is not in the view.
LEMMA MirrorSwipe ==
  ASSUME MirrorInv, OnlyHere, NEW row \in 1 .. Len(requests),
         \/ requests[row] \in view /\ Emit({requests[row]}, {})
         \/ requests[row] \notin view /\ UNCHANGED <<view, main>>,
         UNCHANGED <<requests, sent>>
  PROVE  /\ Accounted' /\ AllSent'
         /\ \/ /\ requests[row] \in view
               /\ \E b : /\ b.kind = "event" /\ Posts(b)
                         /\ Len(b.removed) = 1 /\ b.removed[1] = requests[row]
            \/ requests[row] \notin view /\ UNCHANGED main
<1> USE DEF MirrorInv, ToldInv
<1> DEFINE x == requests[row]
           b == Event(logins, {x}, {})
<1>1. x \in Ids /\ Listed(x)
  BY ElementOfSeq DEF TypeOK, Listed, Holds
<1>2. CASE x \notin view /\ UNCHANGED <<view, main>>
  BY <1>2 DEF Mirrored, Accounted, AllSent, Distinct, AddedOnce, AddedApart, RemovedAlone,
              RemovedOnce, ViewIs, Removals, Events, Listed, Comes, Goes, Holds
<1>3. CASE x \in view /\ Emit({x}, {})
  <2>1. listeners = {logins} /\ {x} \in SUBSET Ids /\ {} \in SUBSET Ids /\ logins \in Nat
    BY <1>1, TheListener DEF OnlyHere, TypeOK
  <2>2. Posts(b) /\ b \in Block /\ view' = view \ {x}
    BY <1>3, <2>1, EmitFacts, EventType DEF Emit
  <2>3. b.kind = "event" /\ Len(b.removed) = 1 /\ b.removed[1] = x /\ Len(b.added) = 0
    <3>1. b.kind = "event" /\ b.removed = InOrder({x}) /\ b.added = InOrder({})
      BY EventFields
    <3>2. QED
      BY <1>1, <3>1, OneId, NoIds, EmptySeq
  <2> HIDE DEF b, x
  <2>4. ~ Goes(x)
    BY <1>1, <1>3 DEF Mirrored, Accounted, ViewIs
  <2>5. Accounted'
    BY <1>1, <2>2, <2>3, <2>4, AccountedPosted DEF Mirrored
  <2>6. AllSent'
    <3>1. /\ Events' = Events \cup {Len(main) + 1}
          /\ \A i \in Events : main'[i] = main[i]
          /\ main'[Len(main) + 1] = b
      BY <2>2, <2>3, EventsType, PostedEvents
    <3>2. \A k \in 1 .. Len(b.added) : FALSE
      BY <2>3
    <3>3. QED
      BY <3>1, <3>2 DEF AllSent, Mirrored
  <2>7. QED
    BY <1>3, <2>2, <2>3, <2>5, <2>6 DEF x
<1>4. QED
  BY <1>2, <1>3

\* An event that removes takes its row; one that adds does so.
LEMMA MirrorListener ==
  ASSUME MirrorInv, OnlyHere, SnapshotListener
  PROVE  /\ Accounted' /\ AllSent' /\ 1 \in Events
         /\ \/ /\ 1 \in Removals /\ Takes
               /\ \E row \in 1 .. Len(requests) :
                    requests[row] = main[1].removed[1] /\ requests' = RemoveAt(requests, row)
            \/ /\ main[1].removed = <<>> /\ Passes(Publish(main[1].screen))
               /\ requests' = requests \o main[1].added
<1> USE DEF MirrorInv, ToldInv
<1>1. /\ main[1].kind = "event"
      /\ \/ /\ Takes
            /\ \E n \in 1 .. Len(requests) :
                 /\ \E k \in 1 .. Len(main[1].removed) : requests[n] = main[1].removed[k]
                 /\ requests' = RemoveAt(requests, n)
         \/ /\ Passes(Publish(main[1].screen))
            /\ requests' = requests \o main[1].added
            /\ \A n \in 1 .. Len(requests) : \A k \in 1 .. Len(main[1].removed) :
                 requests[n] # main[1].removed[k]
  BY ListenerFacts
<1>2. Len(main) \in Nat /\ Shifts
  <2>1. Publish(main[1].screen).kind # "event"
    BY DEF Publish
  <2>2. QED
    BY <1>1, <2>1, EventsType, TakesShifts, PassesShifts
<1>3. 1 \in Events
  BY <1>1, <1>2 DEF Shifts, Events
<1>4. Accounted /\ AllSent /\ UNCHANGED <<view, sent>>
  BY DEF Mirrored, SnapshotListener, counts
<1>5. requests \in Seq(Ids) /\ Len(requests) \in Nat
  BY LenProperties DEF TypeOK
<1>6. \A i \in Events' : i + 1 \in Events /\ main'[i] = main[i + 1]
  BY <1>2, ShiftedEvents
<1>7. CASE 1 \in Removals
  <2>1. Len(main[1].removed) = 1 /\ Listed(main[1].removed[1])
    BY <1>4, <1>7 DEF Accounted, RemovedAlone
  <2>2. 1 \in 1 .. Len(main[1].removed) /\ \A k \in 1 .. Len(main[1].removed) : k = 1
    BY <2>1
  <2>3. PICK row \in 1 .. Len(requests) :
          requests[row] = main[1].removed[1] /\ requests' = RemoveAt(requests, row)
    BY <1>1, <2>1, <2>2 DEF Listed, Holds
  <2>4. Takes
    BY <1>1, <2>1, <2>2 DEF Listed, Holds
  <2>5. Accounted'
    BY <1>4, <1>7, <2>3, <2>4, AccountedRemoved
  <2>6. AllSent'
    <3>1. Lacks(requests', requests, row)
      BY <1>5, <2>3, RemoveAtMembers
    <3>2. \A i \in 1 .. Len(requests') : requests'[i] <= sent'
      BY <1>4, <3>1 DEF AllSent, Lacks
    <3>3. \A i \in Events' : \A k \in 1 .. Len(main'[i].added) : main'[i].added[k] <= sent'
      BY <1>4, <1>6 DEF AllSent
    <3>4. QED
      BY <3>2, <3>3 DEF AllSent
  <2>7. QED
    BY <1>3, <1>7, <2>3, <2>4, <2>5, <2>6
<1>8. CASE 1 \notin Removals
  <2>1. main[1].removed = <<>>
    BY <1>3, <1>8 DEF Removals
  <2>2. \A k \in 1 .. Len(main[1].removed) : FALSE
    BY <2>1, EmptySeq
  <2>3. Passes(Publish(main[1].screen)) /\ requests' = requests \o main[1].added
    BY <1>1, <2>2
  <2>4. Accounted'
    BY <1>2, <1>3, <1>4, <2>1, <2>3, AccountedAdded
  <2>5. AllSent'
    <3> DEFINE a == main[1].added
    <3>1. a \in Seq(Ids) /\ requests' = requests \o a /\ \A k \in 1 .. Len(a) : a[k] <= sent
      BY <1>3, <1>4, <2>3, EventsType DEF AllSent
    <3> HIDE DEF a
    <3>2. /\ \A i \in 1 .. Len(requests) : /\ i \in 1 .. Len(requests \o a)
                                           /\ (requests \o a)[i] = requests[i]
          /\ \A i \in 1 .. Len(a) : /\ Len(requests) + i \in 1 .. Len(requests \o a)
                                    /\ (requests \o a)[Len(requests) + i] = a[i]
          /\ \A i \in 1 .. Len(requests \o a) :
               i \in 1 .. Len(requests) \/ i - Len(requests) \in 1 .. Len(a)
          /\ Len(requests \o a) = Len(requests) + Len(a)
      BY <1>5, <3>1, ConcatFacts
    <3>3. ASSUME NEW i \in 1 .. Len(requests') PROVE requests'[i] <= sent'
      <4>1. CASE i \in 1 .. Len(requests)
        BY <1>4, <3>1, <3>2, <4>1 DEF AllSent
      <4>2. CASE i - Len(requests) \in 1 .. Len(a)
        <5> DEFINE k == i - Len(requests)
        <5>1. k \in 1 .. Len(a) /\ Len(requests) + k = i
          BY <1>5, <3>1, <3>2, <4>2
        <5> HIDE DEF k
        <5>2. requests'[i] = a[k]
          BY <3>1, <3>2, <5>1
        <5>3. QED
          BY <1>4, <3>1, <5>1, <5>2
      <4>3. QED
        BY <3>1, <3>2, <4>1, <4>2
    <3>4. \A i \in Events' : \A k \in 1 .. Len(main'[i].added) : main'[i].added[k] <= sent'
      BY <1>4, <1>6 DEF AllSent
    <3>5. QED
      BY <3>3, <3>4 DEF AllSent
  <2>6. QED
    BY <1>3, <2>1, <2>3, <2>4, <2>5
<1>9. QED
  BY <1>7, <1>8

\* A block that is no event leaves the accounts alone.
LEMMA MirrorShift ==
  ASSUME MirrorInv, OnlyHere, Shifts, main[1].kind # "event", UNCHANGED <<view, requests, sent>>
  PROVE  Accounted' /\ AllSent'
<1> USE DEF MirrorInv, ToldInv
<1>1. Accounted'
  BY AccountedShift DEF Mirrored
<1>2. \A i \in Events' : i + 1 \in Events /\ main'[i] = main[i + 1]
  BY EventsType, ShiftedEvents
<1>3. QED
  BY <1>1, <1>2 DEF AllSent, Mirrored

\* Nothing is told and nothing dealt with.
LEMMA MirrorKept ==
  ASSUME MirrorInv, OnlyHere, UNCHANGED <<main, view, requests, sent>>
  PROVE  Accounted' /\ AllSent'
BY DEF MirrorInv, Mirrored, Accounted, AllSent, Distinct, AddedOnce, AddedApart, RemovedAlone,
       RemovedOnce, ViewIs, Removals, Events, Listed, Comes, Goes, Holds

\* Every step keeps the accounts.
LEMMA MirrorStep ==
  ASSUME MirrorInv, [Next]_vars
  PROVE  MirrorInv'
<1>1. TypeOK /\ Screens /\ Told /\ ToldInv /\ Mirrored /\ (\A id \in view : id <= sent)
  BY DEF MirrorInv, ToldInv
<1>2. ToldInv'
  BY <1>1, TypeStep, ScreensStep, ToldStep DEF ToldInv
<1>3. /\ view \in SUBSET Ids /\ sent \in Nat /\ Len(main) \in Nat
      /\ \A id \in view : id \in Nat
  <2>1. view \in SUBSET Ids /\ sent \in Nat
    BY <1>1, TableAssumption DEF TypeOK
  <2>2. view \in SUBSET Nat
    BY <2>1, IdSets
  <2>3. Len(main) \in Nat
    BY <1>1, EventsType
  <2>4. QED
    BY <2>1, <2>2, <2>3
<1>4. \A id \in view' : id <= sent'
  <2>1. CASE Snapshot
    <3>1. PICK n \in Nat, gone \in SUBSET view :
            Emit(gone, sent + 1 .. sent + n) /\ sent' = sent + n
      BY <1>1, <2>1, SnapshotFacts
    <3>2. view' = (view \ gone) \cup (sent + 1 .. sent + n)
      BY <3>1 DEF Emit
    <3>3. QED
      BY <1>1, <1>3, <3>1, <3>2
  <2>2. CASE ~ Snapshot
    <3>1. view' \subseteq view /\ sent' = sent
      <4>1. CASE ViewDidLoad \/ SnapshotListener \/ Completion \/ ReloadData \/ CloseSwipe
                 \/ DeleteRows \/ UNCHANGED vars
        BY <4>1 DEF ViewDidLoad, SnapshotListener, Completion, ReloadData, CloseSwipe,
                    DeleteRows, counts, vars
      <4>2. ASSUME NEW row \in DOMAIN shown, SwipeActionsConfiguration(row)
            PROVE  view' \subseteq view /\ sent' = sent
        BY <1>1, <4>2, SwipeFacts DEF Emit
      <4>3. QED
        BY <2>2, <4>1, <4>2 DEF Next
    <3>2. QED
      BY <1>1, <3>1
  <2>3. QED
    BY <2>1, <2>2
<1>5. SUFFICES ASSUME OnlyHere' PROVE Accounted' /\ AllSent'
  BY <1>2, <1>4 DEF MirrorInv, Mirrored
<1>6. CASE ViewDidLoad
  BY <1>5, <1>6, MirrorLogin DEF OnlyHere
<1>7. CASE ~ ViewDidLoad
  <2>1. OneListener /\ ~ Die /\ UNCHANGED <<listeners, logins>> /\ OnlyHere
    BY <1>1, <1>5, <1>7, NoOtherListener DEF OnlyHere
  <2>2. CASE Snapshot
    BY <1>5, <2>1, <2>2, MirrorSnapshot
  <2>3. CASE SnapshotListener
    BY <2>1, <2>3, MirrorListener
  <2>4. CASE Completion
    <3>1. main[1].kind = "publish" /\ Passes(Reload(main[1].screen))
      BY <1>1, <2>4, CompletionFacts
    <3>2. Reload(main[1].screen).kind # "event"
      BY DEF Reload
    <3>3. Shifts /\ main[1].kind # "event"
      BY <1>3, <3>1, <3>2, PassesShifts
    <3>4. UNCHANGED <<view, requests, sent>>
      BY <2>4 DEF Completion, counts
    <3>5. QED
      BY <2>1, <3>3, <3>4, MirrorShift
  <2>5. CASE ReloadData
    <3>1. Takes /\ main[1].kind = "reload"
      BY <1>1, <2>5, ReloadFacts
    <3>2. Shifts /\ main[1].kind # "event"
      BY <1>3, <3>1, TakesShifts
    <3>3. UNCHANGED <<view, requests, sent>>
      BY <2>5 DEF ReloadData, counts
    <3>4. QED
      BY <2>1, <3>2, <3>3, MirrorShift
  <2>6. ASSUME NEW row \in DOMAIN shown, SwipeActionsConfiguration(row)
        PROVE  Accounted' /\ AllSent'
    <3>1. /\ row \in 1 .. Len(requests)
          /\ \/ requests[row] \in view /\ Emit({requests[row]}, {})
             \/ requests[row] \notin view /\ UNCHANGED <<view, main>>
          /\ UNCHANGED <<requests, sent>>
      BY <1>1, <2>1, <2>6, SwipeFacts
    <3>2. QED
      BY <2>1, <3>1, MirrorSwipe
  <2>7. CASE DeleteRows \/ CloseSwipe \/ UNCHANGED vars
    <3>1. UNCHANGED <<main, view, requests, sent>>
      BY <2>1, <2>7 DEF DeleteRows, CloseSwipe, counts, vars, process
    <3>2. QED
      BY <2>1, <3>1, MirrorKept
  <2>8. QED
    BY <1>7, <2>2, <2>3, <2>4, <2>5, <2>6, <2>7 DEF Next
<1>8. QED
  BY <1>6, <1>7

\* A process that starts has no listener yet.
LEMMA MirrorInit == Init => MirrorInv /\ ~ OneListener
<1>1. SUFFICES ASSUME Init PROVE MirrorInv /\ ~ OneListener
  OBVIOUS
<1>2. /\ main = <<>> /\ listeners = {} /\ requests = <<>> /\ shown = <<>> /\ view = {}
      /\ Len(main) = 0 /\ Cardinality(listeners) = 0
  BY <1>1, EmptySeq, FS_EmptySet DEF Init
<1>3. \A i \in 1 .. Len(main) : FALSE
  BY <1>2
<1>4. Screens /\ Told /\ Mirrored /\ ~ OneListener /\ \A id \in view : id <= sent
  BY <1>2, <1>3 DEF Screens, Told, Mirrored, OnlyHere, OneListener
<1>5. QED
  BY <1>1, <1>4, TypeInit DEF MirrorInv, ToldInv

\* The invariant of the theorem below.
LEMMA MirrorAlways == Spec => []MirrorInv
BY MirrorInit, MirrorStep, PTL DEF Spec

\* A sequence that holds the members of a set and each once is as long as the
\* set is large.
LEMMA DistinctLength ==
  ASSUME NEW S, NEW s \in Seq(S), Distinct(s), \A x \in S : Holds(s, x)
  PROVE  Len(s) = Cardinality(S) /\ ToSet(s) = S
<1> DEFINE n == Len(s)
<1>1. n \in Nat /\ DOMAIN s = 1 .. n /\ \A i \in 1 .. n : s[i] \in S
  BY SeqFacts
<1>2. s \in [1 .. n -> S]
  BY <1>1, SeqDef
<1>3. s \in Bijection(1 .. n, S)
  BY <1>2 DEF Bijection, Injection, Surjection, IsInjective, Distinct, Holds
<1>4. ExistsBijection(1 .. n, S)
  BY <1>3 DEF ExistsBijection
<1>5. Cardinality(S) = n
  BY <1>1, <1>4, FS_CountingElements
<1>6. ToSet(s) = S
  BY <1>1 DEF ToSet, Holds
<1>7. QED
  BY <1>5, <1>6

\* On a landlord's only device the array is the landlord's requests, each
\* once, when its events are dealt with, however many there were: the early
\* return of the listener loses no request, because a removal is the
\* landlord's own, comes alone and finds its row.
THEOREM ArrayIsView == Spec => []ArrayMirrorsView
<1>1. MirrorInv => ArrayMirrorsView
  <2>1. SUFFICES ASSUME MirrorInv, OnlyHere, NoneWaiting({"event"})
                 PROVE  Len(requests) = Cardinality(view) /\ ToSet(requests) = view
    BY DEF ArrayMirrorsView
  <2>2. TypeOK /\ Accounted
    BY <2>1 DEF MirrorInv, ToldInv, Mirrored
  <2>3. Events = {} /\ Removals = {}
    <3>1. main \in Seq(Block)
      BY <2>2 DEF TypeOK
    <3>2. DOMAIN main = 1 .. Len(main)
      BY <3>1, SeqFacts
    <3>3. QED
      BY <2>1, <3>2 DEF NoneWaiting, Events, Removals
  <2>4. \A id \in Ids : id \in view <=> Holds(requests, id)
    BY <2>2, <2>3 DEF Accounted, ViewIs, Comes, Goes, Listed
  <2>5. requests \in Seq(Ids) /\ view \subseteq Ids
    BY <2>2 DEF TypeOK
  <2>6. Len(requests) \in Nat /\ DOMAIN requests = 1 .. Len(requests)
        /\ \A i \in 1 .. Len(requests) : requests[i] \in Ids
    BY <2>5, SeqFacts
  <2>7. \A i \in 1 .. Len(requests) : requests[i] \in view
    BY <2>4, <2>6 DEF Holds
  <2>8. requests \in [1 .. Len(requests) -> view]
    <3>1. requests = [i \in 1 .. Len(requests) |-> requests[i]]
      BY <2>5, <2>6, SeqDef
    <3>2. QED
      BY <2>7, <3>1
  <2>9. requests \in Seq(view)
    BY <2>6, <2>8, FunctionIsSeq
  <2>10. Distinct(requests) /\ \A x \in view : Holds(requests, x)
    BY <2>2, <2>4, <2>5 DEF Accounted
  <2>11. QED
    BY <2>9, <2>10, DistinctLength
<1>2. QED
  BY <1>1, MirrorAlways, PTL

(***************************************************************************)
(* The rows follow the array: while a landlord taps every button, at most  *)
(* one removal is under way, the one of the swipe whose buttons are out,   *)
(* and unless the table is to be told the array differs from the rows by   *)
(* that swipe's row only.                                                  *)
(***************************************************************************)
OneSwipe ==
  /\ swiping = 0 => Removals = {}
  /\ swiping = 0 \/ Removals # {} => Len(shown) <= Len(requests)
  /\ \A i, j \in Removals : i = j

InStep ==
  ~ Coming =>
    /\ swiping = 0 \/ Removals # {} => shown = requests
    /\ \A i \in Removals : main[i].removed[1] = shown[swiping]
    /\ swiping # 0 /\ Removals = {} => requests = RemoveAt(shown, swiping)

Followed == OnlyHere /\ ~ abandoned => OneSwipe /\ InStep

RowsInv == MirrorInv /\ Followed

\* What a block's leaving the queue does to the removals.
LEMMA ShiftedRemovals ==
  ASSUME TypeOK, Shifts
  PROVE  /\ \A i \in Removals' : i + 1 \in Removals /\ main'[i] = main[i + 1] /\ i \in Nat
         /\ \A i, j \in Removals' : i + 1 = j + 1 => i = j
         /\ Removals = {} => Removals' = {}
<1>1. \A i \in Events' : i + 1 \in Events /\ main'[i] = main[i + 1]
  BY EventsType, ShiftedEvents
<1>2. \A i \in Removals' : i + 1 \in Removals /\ main'[i] = main[i + 1] /\ i \in Nat
  BY <1>1 DEF Removals, Events
<1>3. \A i, j \in Removals' : i + 1 = j + 1 => i = j
  <2>1. \A i, j \in Nat : i + 1 = j + 1 => i = j
    OBVIOUS
  <2>2. QED
    BY <1>2, <2>1
<1>4. QED
  BY <1>2, <1>3

\* A block that came to the queue's end is to tell the table.
LEMMA PassedComes ==
  ASSUME Len(main) \in Nat, NEW b, b.kind # "event", Passes(b)
  PROVE  Coming'
<1>1. Len(main) \in 1 .. Len(main') /\ main'[Len(main)] = b
  BY DEF Passes
<1>2. QED
  BY <1>1 DEF Coming

\* Requests added, or the table to be told: the removals stay those they were.
LEMMA FollowedShift ==
  ASSUME TypeOK, OneSwipe, Shifts, Coming', UNCHANGED <<shown, swiping>>,
         Len(requests') \in Nat, Len(requests') >= Len(requests)
  PROVE  OneSwipe' /\ InStep'
<1>1. Len(requests) \in Nat /\ Len(shown) \in Nat
  BY LenProperties DEF TypeOK
<1>2. /\ Removals' # {} => Removals # {}
      /\ \A i, j \in Removals' : i + 1 \in Removals /\ j + 1 \in Removals
      /\ \A i, j \in Removals' : i + 1 = j + 1 => i = j
  BY ShiftedRemovals
<1>3. swiping = 0 => Removals' = {}
  BY <1>2 DEF OneSwipe
<1>4. swiping = 0 \/ Removals' # {} => Len(shown) <= Len(requests')
  <2>1. SUFFICES ASSUME swiping = 0 \/ Removals' # {} PROVE Len(shown) <= Len(requests')
    OBVIOUS
  <2>2. Len(shown) <= Len(requests)
    BY <1>2, <2>1 DEF OneSwipe
  <2>3. QED
    BY <1>1, <2>2
<1>5. \A i, j \in Removals' : i = j
  <2>1. \A i, j \in Removals' : i + 1 = j + 1
    BY <1>2 DEF OneSwipe
  <2>2. QED
    BY <1>2, <2>1
<1>6. QED
  BY <1>3, <1>4, <1>5 DEF OneSwipe, InStep

\* The removal of the swipe takes the swipe's row out of the array.
LEMMA FollowedRemoval ==
  ASSUME TypeOK, Accounted, OneSwipe, InStep, 1 \in Removals, Takes,
         NEW row \in 1 .. Len(requests), requests[row] = main[1].removed[1],
         requests' = RemoveAt(requests, row), UNCHANGED <<shown, swiping>>
  PROVE  OneSwipe' /\ InStep'
<1>1. /\ Len(main) \in Nat /\ Shifts
      /\ swiping \in 0 .. Len(shown) /\ Len(shown) \in Nat
  BY EventsType, TakesShifts, LenProperties DEF TypeOK
<1>2. swiping # 0 /\ swiping \in 1 .. Len(shown)
  BY <1>1 DEF OneSwipe
<1>3. Removals' = {}
  <2>1. SUFFICES ASSUME NEW i \in Removals' PROVE FALSE
    OBVIOUS
  <2>2. i + 1 \in Removals /\ i \in Nat
    BY <1>1, ShiftedRemovals
  <2>3. i + 1 = 1
    BY <2>2 DEF OneSwipe
  <2>4. i \in 1 .. Len(main')
    BY <2>1 DEF Removals, Events
  <2>5. QED
    BY <2>3, <2>4
<1>4. OneSwipe'
  BY <1>2, <1>3 DEF OneSwipe
<1>5. ASSUME ~ Coming' PROVE requests' = RemoveAt(shown, swiping)
  <2>1. ~ Coming
    <3>1. SUFFICES ASSUME NEW i \in 1 .. Len(main),
                          main[i].kind # "event" \/ main[i].removed = <<>>
                   PROVE  FALSE
      BY DEF Coming
    <3>2. i # 1
      BY <3>1 DEF Removals, Events
    <3>3. i - 1 \in 1 .. Len(main) - 1 /\ (i - 1) + 1 = i
      BY <1>1, <3>2
    <3>4. i - 1 \in 1 .. Len(main') /\ main'[i - 1] = main[i]
      BY <3>3 DEF Takes
    <3>5. QED
      BY <1>5, <3>1, <3>4 DEF Coming
  <2>2. shown = requests /\ main[1].removed[1] = shown[swiping]
    BY <2>1 DEF InStep
  <2>3. row = swiping
    BY <1>2, <2>2 DEF Accounted, Distinct
  <2>4. QED
    BY <2>2, <2>3
<1>6. QED
  BY <1>2, <1>3, <1>4, <1>5 DEF InStep

\* A swipe when none is out: its removal is the only one.
LEMMA FollowedSwipe ==
  ASSUME TypeOK, OneSwipe, InStep, swiping = 0, NEW row \in 1 .. Len(requests),
         NEW b, b.kind = "event", Posts(b), Len(b.removed) = 1, b.removed[1] = requests[row],
         swiping' = row, UNCHANGED <<requests, shown>>
  PROVE  OneSwipe' /\ InStep'
<1> DEFINE last == Len(main) + 1
<1>1. /\ Events' = Events \cup {last} /\ main'[last] = b
      /\ \A i \in Events : main'[i] = main[i]
      /\ Len(main) \in Nat
  BY EventsType, PostedEvents
<1>2. \A i \in 1 .. Len(main) : i \in 1 .. Len(main') /\ main'[i] = main[i]
  BY <1>1 DEF Posts
<1> HIDE DEF last
<1>3. Removals' \subseteq {last} /\ row # 0
  BY <1>1 DEF Removals, OneSwipe
<1>4. OneSwipe'
  BY <1>3 DEF OneSwipe
<1>5. b.removed # <<>> /\ last \in Removals'
  <2>1. b.removed # <<>>
    BY EmptySeq
  <2>2. QED
    BY <1>1, <2>1 DEF Removals
<1>6. Coming => Coming'
  BY <1>2 DEF Coming
<1>7. InStep'
  <2>1. SUFFICES ASSUME ~ Coming'
                 PROVE  /\ shown' = requests'
                        /\ \A i \in Removals' : main'[i].removed[1] = shown'[swiping']
    BY <1>5 DEF InStep
  <2>2. shown = requests
    BY <1>6, <2>1 DEF InStep
  <2>3. QED
    BY <1>1, <1>3, <2>2
<1>8. QED
  BY <1>4, <1>7

\* The end of a row's deletion, which UITableView allows when the array has
\* lost one row: that is the swipe's.
LEMMA FollowedDeletion ==
  ASSUME TypeOK, OneSwipe, InStep, swiping # 0, Len(requests) = Len(shown) - 1,
         shown' = RemoveAt(shown, swiping), swiping' = 0, UNCHANGED <<main, requests>>
  PROVE  OneSwipe' /\ InStep'
<1>1. /\ shown \in Seq(Ids) /\ Len(shown) \in Nat /\ Len(requests) \in Nat
      /\ swiping \in 1 .. Len(shown)
  BY LenProperties DEF TypeOK
<1>2. ~ (Len(shown) <= Len(requests))
  BY <1>1
<1>3. Removals = {}
  BY <1>2 DEF OneSwipe
<1>4. Removals' = {} /\ (Coming <=> Coming')
  BY <1>3 DEF Removals, Events, Coming
<1>5. Len(shown') = Len(requests')
  BY <1>1, RemoveAtFacts
<1>6. Len(shown') <= Len(requests')
  BY <1>1, <1>5
<1>7. QED
  BY <1>3, <1>4, <1>6 DEF OneSwipe, InStep

\* A reload makes the rows from the array; unless the removal of an untapped
\* swipe is still to come, none is.
LEMMA FollowedReload ==
  ASSUME TypeOK, OnlyHere, Followed, ReloadData, main[1].screen = logins, ~ abandoned'
  PROVE  OneSwipe' /\ InStep'
<1>1. /\ shown' = requests /\ swiping' = 0 /\ UNCHANGED requests
      /\ ~ Uncured /\ Takes /\ Len(main) \in Nat
  BY ReloadFacts, EventsType DEF ReloadData
<1>2. Removals = {}
  <2>1. CASE swiping = 0 /\ ~ abandoned
    BY <2>1 DEF Followed, OneSwipe
  <2>2. CASE swiping # 0 \/ abandoned
    <3>1. main \in Seq(Block)
      BY DEF TypeOK
    <3>2. DOMAIN main = 1 .. Len(main)
      BY <3>1, SeqFacts
    <3>3. QED
      BY <1>1, <2>2, <3>2 DEF Uncured, Removals, Events
  <2>3. QED
    BY <2>1, <2>2
<1>3. Removals' = {}
  BY <1>1, <1>2, TakesShifts, ShiftedRemovals
<1>4. Len(requests) \in Nat
  BY LenProperties DEF TypeOK
<1>5. Len(shown') <= Len(requests')
  BY <1>1, <1>4
<1>6. QED
  BY <1>1, <1>3, <1>5 DEF OneSwipe, InStep

\* Every step keeps the rows behind the array by the swipe at most.
LEMMA FollowedStep ==
  ASSUME RowsInv, [Next]_vars, OnlyHere', ~ abandoned'
  PROVE  OneSwipe' /\ InStep'
<1>1. MirrorInv /\ Mirrored /\ ToldInv /\ TypeOK /\ Screens /\ Followed
  BY DEF RowsInv, MirrorInv, ToldInv
<1>2. /\ Len(main) \in Nat /\ requests \in Seq(Ids) /\ Len(requests) \in Nat
      /\ Len(shown) \in Nat /\ swiping \in 0 .. Len(shown)
  BY <1>1, EventsType, LenProperties DEF TypeOK
<1>3. CASE ViewDidLoad
  <2>1. Removals' = {} /\ Coming'
    BY <1>1, <1>3, MirrorLogin DEF OnlyHere
  <2>2. swiping' = 0 /\ Len(shown') = 0 /\ Len(requests') = 0
    BY <1>1, <1>3, LoginFacts
  <2>3. Len(shown') <= Len(requests')
    BY <2>2
  <2>4. QED
    BY <2>1, <2>2, <2>3 DEF OneSwipe, InStep
<1>4. SUFFICES ASSUME ~ ViewDidLoad PROVE OneSwipe' /\ InStep'
  BY <1>3
<1>5. OnlyHere /\ ~ Die /\ UNCHANGED <<listeners, logins>> /\ listeners = {logins} /\ Accounted
  BY <1>1, <1>4, NoOtherListener, TheListener DEF OnlyHere, Mirrored
<1>6. CASE ReloadData
  <2>1. 1 \in 1 .. Len(main)
    BY <1>1, <1>2, <1>6, ReloadFacts DEF Takes
  <2>2. main[1].screen = logins
    BY <1>1, <1>5, <2>1 DEF Screens
  <2>3. QED
    BY <1>1, <1>5, <1>6, <2>2, FollowedReload
<1>7. SUFFICES ASSUME ~ ReloadData PROVE OneSwipe' /\ InStep'
  BY <1>6
<1>8. CASE CloseSwipe
  BY <1>8 DEF CloseSwipe
<1>9. SUFFICES ASSUME ~ CloseSwipe, ~ abandoned PROVE OneSwipe' /\ InStep'
  <2>1. UNCHANGED abandoned \/ CloseSwipe
    <3>1. CASE Snapshot
      BY <1>1, <3>1, SnapshotFacts
    <3>2. CASE SnapshotListener \/ Completion \/ DeleteRows \/ UNCHANGED vars
      BY <1>5, <3>2 DEF SnapshotListener, Completion, DeleteRows, vars, process
    <3>3. ASSUME NEW row \in DOMAIN shown, SwipeActionsConfiguration(row)
          PROVE  UNCHANGED abandoned
      BY <1>1, <1>5, <3>3, SwipeFacts
    <3>4. QED
      BY <1>4, <1>7, <3>1, <3>2, <3>3 DEF Next
  <2>2. QED
    BY <1>8, <2>1
<1>10. OneSwipe /\ InStep
  BY <1>1, <1>5, <1>9 DEF Followed
<1>11. CASE Snapshot
  <2>1. Removals' = Removals /\ Coming'
    BY <1>1, <1>5, <1>11, MirrorSnapshot
  <2>2. UNCHANGED <<requests, shown, swiping>>
    BY <1>1, <1>11, SnapshotFacts
  <2>3. QED
    BY <1>10, <2>1, <2>2 DEF OneSwipe, InStep
<1>12. CASE SnapshotListener
  <2>1. UNCHANGED <<shown, swiping>>
    BY <1>12 DEF SnapshotListener
  <2>2. CASE /\ 1 \in Removals /\ Takes
             /\ \E row \in 1 .. Len(requests) :
                  requests[row] = main[1].removed[1] /\ requests' = RemoveAt(requests, row)
    BY <1>1, <1>5, <1>10, <2>1, <2>2, FollowedRemoval
  <2>3. CASE /\ main[1].removed = <<>> /\ Passes(Publish(main[1].screen))
             /\ requests' = requests \o main[1].added
    <3>1. Publish(main[1].screen).kind # "event"
      BY DEF Publish
    <3>2. Shifts /\ Coming'
      BY <1>2, <2>3, <3>1, PassesShifts, PassedComes
    <3>3. main[1].added \in Seq(Ids) /\ Len(main[1].added) \in Nat
      BY <1>1, <1>5, <1>12, MirrorListener, EventsType
    <3>4. Len(requests') = Len(requests) + Len(main[1].added)
      BY <1>2, <2>3, <3>3, ConcatFacts
    <3>5. Len(requests') \in Nat /\ Len(requests') >= Len(requests)
      BY <1>2, <3>3, <3>4
    <3>6. QED
      BY <1>1, <1>10, <2>1, <3>2, <3>5, FollowedShift
  <2>4. QED
    BY <1>1, <1>5, <1>12, <2>2, <2>3, MirrorListener
<1>13. CASE Completion
  <2>1. Passes(Reload(main[1].screen)) /\ Reload(main[1].screen).kind # "event"
    BY <1>1, <1>13, CompletionFacts DEF Reload
  <2>2. Shifts /\ Coming'
    BY <1>2, <2>1, PassesShifts, PassedComes
  <2>3. UNCHANGED <<requests, shown, swiping>>
    BY <1>13 DEF Completion
  <2>4. Len(requests') \in Nat /\ Len(requests') >= Len(requests)
    BY <1>2, <2>3
  <2>5. QED
    BY <1>1, <1>10, <2>2, <2>3, <2>4, FollowedShift
<1>14. ASSUME NEW row \in DOMAIN shown, SwipeActionsConfiguration(row)
       PROVE  OneSwipe' /\ InStep'
  <2>1. /\ row \in 1 .. Len(requests) /\ swiping = 0 /\ swiping' = row
        /\ \/ requests[row] \in view /\ Emit({requests[row]}, {})
           \/ requests[row] \notin view /\ UNCHANGED <<view, main>>
        /\ UNCHANGED <<requests, shown, sent>> /\ requests[row] \in Ids
    BY <1>1, <1>5, <1>14, SwipeFacts
  <2>2. requests[row] \in view
    <3>1. ~ Goes(requests[row])
      BY <1>10, <2>1 DEF Goes, OneSwipe
    <3>2. Listed(requests[row])
      BY <2>1 DEF Listed, Holds
    <3>3. QED
      BY <1>5, <2>1, <3>1, <3>2 DEF Accounted, ViewIs
  <2>3. PICK b : /\ b.kind = "event" /\ Posts(b)
                 /\ Len(b.removed) = 1 /\ b.removed[1] = requests[row]
    BY <1>1, <1>5, <2>1, <2>2, MirrorSwipe
  <2>4. QED
    BY <1>1, <1>10, <2>1, <2>3, FollowedSwipe
<1>15. CASE DeleteRows
  <2>1. /\ swiping # 0 /\ Len(requests) = Len(shown) - 1
        /\ shown' = RemoveAt(shown, swiping) /\ swiping' = 0 /\ UNCHANGED <<main, requests>>
    BY <1>5, <1>15 DEF DeleteRows
  <2>2. QED
    BY <1>1, <1>10, <2>1, FollowedDeletion
<1>16. CASE UNCHANGED vars
  BY <1>10, <1>16 DEF vars, process, OneSwipe, InStep, Coming, Removals, Events
<1>17. QED
  BY <1>4, <1>7, <1>9, <1>11, <1>12, <1>13, <1>14, <1>15, <1>16 DEF Next

\* A landlord who taps the button of every swipe, and whose app survives it,
\* sees each request in its row once the main queue is empty: the table was
\* not told of the removal and the button did not touch the array, but what
\* the one took from the array is what the other took from the table.
THEOREM RowsFollowArray == Spec => []RowsAreTheirs
<1>1. Init => RowsInv
  BY MirrorInit DEF RowsInv, Followed, OnlyHere
<1>2. RowsInv /\ [Next]_vars => RowsInv'
  <2>1. SUFFICES ASSUME RowsInv, [Next]_vars PROVE RowsInv'
    OBVIOUS
  <2>2. MirrorInv'
    BY <2>1, MirrorStep DEF RowsInv
  <2>3. Followed'
    BY <2>1, FollowedStep DEF Followed
  <2>4. QED
    BY <2>2, <2>3 DEF RowsInv
<1>3. RowsInv => RowsAreTheirs
  <2>1. SUFFICES ASSUME RowsInv, OnlyHere, main = <<>>, swiping = 0, ~ abandoned
                 PROVE  shown = requests
    BY DEF RowsAreTheirs
  <2>2. Len(main) = 0
    BY <2>1, EmptySeq
  <2>3. \A i \in 1 .. Len(main) : FALSE
    BY <2>2
  <2>4. ~ Coming
    BY <2>3 DEF Coming
  <2>5. QED
    BY <2>1, <2>4 DEF RowsInv, Followed, InStep
<1>4. QED
  BY <1>1, <1>2, <1>3, PTL DEF Spec
==============================================================================
