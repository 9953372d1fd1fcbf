----------------------------- MODULE FetchProofs -----------------------------
(***************************************************************************)
(* Theorems about DocumentFetch, for any documents, fetches and faults:    *)
(* what a fetch and its listener go through, when the watch stream and its *)
(* timer run, and that every response is counted once.                     *)
(***************************************************************************)
EXTENDS DocumentFetch, SequenceFacts

(***************************************************************************)
(* What a fetch goes through: it waits in the worker queue, listens, and   *)
(* is removed; and what may still be under way to it.                      *)
(***************************************************************************)
Accepted == 1 .. Len(asked)

Listening == UNION {listeners[d] : d \in Docs}

\* A fetch waiting to listen has had nothing yet.
TasksOK ==
  \A i \in 1 .. Len(tasks) :
    /\ tasks[i][2] \in Accepted
    /\ tasks[i][1] = "listen" =>
         /\ tasks[i][2] \notin Listening
         /\ answers[tasks[i][2]] = <<>>
         /\ \A j \in 1 .. Len(tasks) : j # i => tasks[j][2] # tasks[i][2]
         /\ \A j \in 1 .. Len(main) : main[j].fetch # tasks[i][2]

\* One that listens and has its answer is about to be removed.
ListenersOK ==
  \A d \in Docs : \A f \in listeners[d] :
    /\ f \in Accepted /\ asked[f] = d
    /\ answers[f] # <<>> => \E i \in 1 .. Len(tasks) : tasks[i] = <<"remove", f>>

\* An error is the last event of a fetch, which does not listen any more.
EventsOK ==
  \A i \in 1 .. Len(main) :
    /\ main[i].fetch \in Accepted
    /\ main[i].error =>
         /\ main[i].fetch \notin Listening
         /\ \A j \in 1 .. Len(main) : i < j => main[j].fetch # main[i].fetch

\* After an error as its answer nothing more comes for a fetch.
AnswersOK ==
  \A f \in Fetches :
    /\ Len(answers[f]) <= 1
    /\ f \notin Accepted => answers[f] = <<>>
    /\ answers[f] = <<"denied">> =>
         /\ f \notin Listening
         /\ \A j \in 1 .. Len(main) : main[j].fetch # f

FetchesInv ==
  /\ TasksOK
  /\ ListenersOK
  /\ EventsOK
  /\ AnswersOK
  /\ WatchedIsListened

Tasks == {"listen", "remove"} \X Fetches

\* What the sequences of the app hold.
LEMMA QueueFacts ==
  ASSUME TypeOK
  PROVE  /\ asked \in Seq(Docs) /\ Len(asked) \in Nat
         /\ \A f \in Accepted : asked[f] \in Docs
         /\ tasks \in Seq(Tasks) /\ Len(tasks) \in Nat
         /\ main \in Seq(Event) /\ Len(main) \in Nat
         /\ \A i \in 1 .. Len(main) : main[i].fetch \in Fetches
         /\ \A f \in Fetches : answers[f] \in Seq(Answer)
         /\ MaxFetches \in Nat
<1>1. asked \in Seq(Docs) /\ main \in Seq(Event) /\ tasks \in Seq(Tasks)
  BY DEF TypeOK, Tasks
<1>2. \A i \in 1 .. Len(main) : main[i] \in Event
  BY <1>1, SeqFacts
<1>3. QED
  BY <1>1, <1>2, SeqFacts, FetchAssumption DEF TypeOK, Accepted, Event

\* Snapshots for those who listen disturb nothing.
LEMMA MoreEvents ==
  ASSUME TypeOK, FetchesInv, NEW ev \in Seq(Event),
         \A i \in 1 .. Len(ev) : ~ ev[i].error /\ ev[i].fetch \in Listening,
         main' = main \o ev,
         UNCHANGED <<asked, answers, tasks, listeners, targets>>
  PROVE  main' \in Seq(Event) /\ FetchesInv'
<1>1. main \in Seq(Event) /\ Len(main) \in Nat /\ Len(ev) \in Nat
  BY QueueFacts, SeqFacts
<1>2. /\ main' \in Seq(Event)
      /\ \A i \in 1 .. Len(main') : \/ i \in 1 .. Len(main) /\ main'[i] = main[i]
                                    \/ ~ main'[i].error /\ main'[i].fetch \in Listening
  <2>1. /\ main \o ev \in Seq(Event)
        /\ \A i \in 1 .. Len(main) : (main \o ev)[i] = main[i]
        /\ \A i \in 1 .. Len(ev) : (main \o ev)[Len(main) + i] = ev[i]
        /\ \A i \in 1 .. Len(main \o ev) : i \in 1 .. Len(main) \/ i - Len(main) \in 1 .. Len(ev)
    BY <1>1, ConcatFacts
  <2>2. \A i \in 1 .. Len(main \o ev) : i - Len(main) \in 1 .. Len(ev) =>
          (main \o ev)[i] = ev[i - Len(main)]
    <3>1. \A i \in 1 .. Len(main \o ev) : Len(main) + (i - Len(main)) = i
      BY <1>1
    <3>2. QED
      BY <2>1, <3>1
  <2> DEFINE next == main \o ev
  <2> HIDE DEF next
  <2>3. \A i \in 1 .. Len(next) : \/ i \in 1 .. Len(main) /\ next[i] = main[i]
                                  \/ ~ next[i].error /\ next[i].fetch \in Listening
    BY <2>1, <2>2 DEF next
  <2>4. main' = next
    BY DEF next
  <2>5. QED
    BY <2>1, <2>3, <2>4 DEF next
<1>3. Listening' = Listening
  BY DEF Listening
<1>4. Accepted' = Accepted /\ \A f : f \in Listening => f \in Accepted
  BY DEF FetchesInv, ListenersOK, Listening, Accepted
<1>5. TasksOK'
  BY <1>2, <1>3, <1>4 DEF FetchesInv, TasksOK
<1>6. EventsOK'
  BY <1>2, <1>3, <1>4 DEF FetchesInv, EventsOK
<1>7. AnswersOK'
  BY <1>2, <1>3, <1>4 DEF FetchesInv, AnswersOK
<1>8. ListenersOK' /\ WatchedIsListened'
  BY <1>4 DEF FetchesInv, ListenersOK, WatchedIsListened
<1>9. QED
  BY <1>2, <1>5, <1>6, <1>7, <1>8 DEF FetchesInv

\* Notify tells listeners of snapshots and nothing else.
LEMMA NotifyFacts ==
  ASSUME TypeOK, ListenersOK, NEW new \in [Docs -> View], NEW emitted, NEW online,
         Notify(new, emitted, online)
  PROVE  /\ views' = new
         /\ raised' \subseteq Fetches
         /\ \E ev \in Seq(Event) :
              /\ main' = main \o ev
              /\ \A i \in 1 .. Len(ev) : ~ ev[i].error /\ ev[i].fetch \in Listening
<1> DEFINE told == {f \in UNION {listeners[d] : d \in Docs} :
                      IF f \in raised THEN asked[f] \in emitted
                      ELSE ShouldRaiseInitialEvent(new[asked[f]], online)}
           order == InOrder(told)
           ev == [i \in DOMAIN order |-> SnapshotEvent(order[i], new[asked[order[i]]])]
<1>1. /\ views' = new
      /\ raised' = raised \cup told
      /\ main' = main \o ev
  BY DEF Notify
<1>2. \A f \in told : /\ f \in Listening /\ f \in Accepted /\ asked[f] \in Docs
                      /\ f \in Fetches
  BY QueueFacts DEF Listening, ListenersOK, TypeOK
<1>3. told \in SUBSET Nat /\ IsFiniteSet(told)
  <2>1. told \in SUBSET Fetches
    BY <1>2
  <2> HIDE DEF told
  <2>2. IsFiniteSet(Fetches) /\ Fetches \in SUBSET Nat
    <3>1. MaxFetches \in Nat /\ MaxFetches \in Int /\ 1 \in Int
      BY QueueFacts
    <3>2. IsFiniteSet(Fetches)
      BY <3>1, FS_Interval DEF Fetches
    <3>3. QED
      BY <3>1, <3>2 DEF Fetches
  <2>3. IsFiniteSet(told)
    BY <2>1, <2>2, FS_Subset
  <2>4. QED
    BY <2>1, <2>2, <2>3
<1> HIDE DEF told
<1>4. Cardinality(told) \in Nat /\ order \in [1 .. Cardinality(told) -> told]
  BY <1>3, InOrderFacts
<1>5. \A i \in DOMAIN order : order[i] \in told
  BY <1>4
<1>6. ASSUME NEW f \in told
      PROVE  SnapshotEvent(f, new[asked[f]]) \in Event
             /\ SnapshotEvent(f, new[asked[f]]).fetch = f /\ ~ SnapshotEvent(f, new[asked[f]]).error
  BY <1>2 DEF SnapshotEvent, Event, View
<1>7. ev \in [1 .. Cardinality(told) -> Event]
      /\ \A i \in 1 .. Cardinality(told) : ~ ev[i].error /\ ev[i].fetch \in Listening
  <2>1. DOMAIN order = 1 .. Cardinality(told)
    BY <1>4
  <2> HIDE DEF order
  <2>2. QED
    BY <1>2, <1>5, <1>6, <2>1
<1>8. ev \in Seq(Event) /\ Len(ev) = Cardinality(told)
  BY <1>4, <1>7, FunctionIsSeq
<1>9. raised' \subseteq Fetches
  BY <1>1, <1>2 DEF TypeOK
<1> HIDE DEF ev
<1>10. QED
  BY <1>1, <1>7, <1>8, <1>9

\* Steps that leave fetches, listeners and events alone.
LEMMA FetchesAlone ==
  ASSUME FetchesInv, UNCHANGED <<asked, answers, tasks, main, listeners, targets>>
  PROVE  FetchesInv'
<1>1. Accepted' = Accepted /\ Listening' = Listening
  BY DEF Accepted, Listening
<1>2. TasksOK' /\ ListenersOK' /\ EventsOK' /\ AnswersOK' /\ WatchedIsListened'
  BY <1>1 DEF FetchesInv, TasksOK, ListenersOK, EventsOK, AnswersOK, WatchedIsListened
<1>3. QED
  BY <1>2 DEF FetchesInv

\* A new fetch is nowhere yet.
LEMMA GetDocumentStep ==
  ASSUME TypeOK, FetchesInv, NEW d \in Docs, GetDocument(d)
  PROVE  /\ asked' \in Seq(Docs) /\ tasks' \in Seq(Tasks)
         /\ FetchesInv'
<1> DEFINE f == Len(asked) + 1
           t == <<"listen", f>>
<1>1. /\ f \in Fetches /\ f \notin Accepted /\ t \in Tasks
      /\ asked' = Append(asked, d) /\ tasks' = Append(tasks, t)
      /\ UNCHANGED <<answers, main, listeners, targets>>
  BY QueueFacts DEF GetDocument, clientVars, Fetches, Accepted, Tasks
<1>2. /\ asked' \in Seq(Docs) /\ Len(asked') = f
      /\ \A g \in Accepted : asked'[g] = asked[g]
      /\ Accepted \subseteq Accepted' /\ f \in Accepted'
      /\ \A g \in Accepted' : g \in Accepted \/ g = f
  <2>1. /\ Append(asked, d) \in Seq(Docs) /\ Len(Append(asked, d)) = Len(asked) + 1
        /\ \A g \in 1 .. Len(asked) : Append(asked, d)[g] = asked[g]
    BY QueueFacts, AppendFacts
  <2>2. QED
    BY <1>1, <2>1, QueueFacts DEF Accepted
<1>3. /\ tasks' \in Seq(Tasks)
      /\ Len(tasks') = Len(tasks) + 1
      /\ \A i \in 1 .. Len(tasks) : tasks'[i] = tasks[i]
      /\ tasks'[Len(tasks) + 1] = t
      /\ \A i \in 1 .. Len(tasks') : i \in 1 .. Len(tasks) \/ i = Len(tasks) + 1
  <2> HIDE DEF t
  <2>1. /\ Append(tasks, t) \in Seq(Tasks)
        /\ Len(Append(tasks, t)) = Len(tasks) + 1
        /\ \A i \in 1 .. Len(tasks) : Append(tasks, t)[i] = tasks[i]
        /\ Append(tasks, t)[Len(tasks) + 1] = t
        /\ \A i \in 1 .. Len(Append(tasks, t)) : i \in 1 .. Len(tasks) \/ i = Len(tasks) + 1
    BY <1>1, QueueFacts, AppendFacts
  <2>2. QED
    BY <1>1, <2>1
<1>4. t[1] = "listen" /\ t[2] = f
  OBVIOUS
<1>5. /\ f \notin Listening /\ answers[f] = <<>>
      /\ \A i \in 1 .. Len(tasks) : tasks[i][2] # f
      /\ \A i \in 1 .. Len(main) : main[i].fetch # f
  BY <1>1 DEF FetchesInv, TasksOK, ListenersOK, EventsOK, AnswersOK, Listening
<1> HIDE DEF t, f
<1>6. Listening' = Listening
  BY <1>1 DEF Listening
<1>7. Len(tasks) \in Nat
  BY QueueFacts
<1>8. TasksOK'
  <2>1. ASSUME NEW i \in 1 .. Len(tasks)
        PROVE  /\ tasks'[i][2] \in Accepted'
               /\ tasks'[i][1] = "listen" =>
                    /\ tasks'[i][2] \notin Listening
                    /\ answers[tasks'[i][2]] = <<>>
                    /\ \A k \in 1 .. Len(tasks') : k # i => tasks'[k][2] # tasks'[i][2]
                    /\ \A k \in 1 .. Len(main) : main[k].fetch # tasks'[i][2]
    <3>1. /\ tasks'[i] = tasks[i] /\ tasks[i][2] \in Accepted /\ tasks[i][2] # f
          /\ tasks[i][1] = "listen" =>
               /\ tasks[i][2] \notin Listening
               /\ answers[tasks[i][2]] = <<>>
               /\ \A k \in 1 .. Len(tasks) : k # i => tasks[k][2] # tasks[i][2]
               /\ \A k \in 1 .. Len(main) : main[k].fetch # tasks[i][2]
      BY <1>3, <1>5 DEF FetchesInv, TasksOK
    <3>2. \A k \in 1 .. Len(tasks') :
            (k \in 1 .. Len(tasks) /\ tasks'[k] = tasks[k]) \/ tasks'[k][2] = f
      BY <1>3, <1>4
    <3>3. QED
      BY <1>2, <3>1, <3>2
  <2>2. \A k \in 1 .. Len(tasks') : k # Len(tasks) + 1 => tasks'[k][2] # f
    BY <1>3, <1>5
  <2>3. QED
    BY <1>1, <1>2, <1>3, <1>4, <1>5, <1>6, <2>1, <2>2 DEF TasksOK
<1>9. ListenersOK'
  <2>1. \A g : (\E i \in 1 .. Len(tasks) : tasks[i] = <<"remove", g>>)
                 => \E i \in 1 .. Len(tasks') : tasks'[i] = <<"remove", g>>
    <3>1. \A i \in 1 .. Len(tasks) : i \in 1 .. Len(tasks')
      BY <1>3, <1>7
    <3>2. QED
      BY <1>3, <3>1
  <2>2. QED
    BY <1>1, <1>2, <2>1 DEF FetchesInv, ListenersOK
<1>10. EventsOK' /\ AnswersOK' /\ WatchedIsListened'
  BY <1>1, <1>2, <1>5, <1>6 DEF FetchesInv, EventsOK, AnswersOK, WatchedIsListened
<1>11. QED
  BY <1>2, <1>3, <1>8, <1>9, <1>10 DEF FetchesInv

\* A fetch that is told something and was not muted has no answer yet.
LEMMA NotMuted ==
  ASSUME TypeOK, FetchesInv, NEW i \in 1 .. Len(main), ~ Muted(main[i].fetch)
  PROVE  answers[main[i].fetch] = <<>>
<1> DEFINE f == main[i].fetch
           a == answers[f]
<1>1. f \in Fetches /\ a \in Seq(Answer) /\ Len(a) <= 1
  BY QueueFacts DEF FetchesInv, AnswersOK
<1>2. a # <<"denied">>
  BY <1>1 DEF FetchesInv, AnswersOK
<1>3. ToSet(a) \subseteq {"denied"}
  BY DEF Muted
<1> HIDE DEF a
<1>4. SUFFICES ASSUME a # <<>> PROVE FALSE
  BY DEF a
<1>5. Len(a) = 1 /\ 1 \in DOMAIN a
  <2>1. Len(a) \in Nat /\ DOMAIN a = 1 .. Len(a) /\ Len(a) >= 1
    BY <1>1, <1>4, SeqFacts
  <2>2. QED
    BY <1>1, <2>1
<1>6. a[1] = "denied"
  BY <1>3, <1>5 DEF ToSet
<1>7. a = <<"denied">>
  <2>1. a \in [1 .. 1 -> Answer]
    BY <1>1, <1>5, LenProperties
  <2>2. QED
    BY <1>6, <2>1
<1>8. QED
  BY <1>2, <1>7

\* The answer of a fetch: after an error it is not in the listeners, otherwise
\* its removal is on its way.
LEMMA OnEventStep ==
  ASSUME TypeOK, FetchesInv, OnEvent
  PROVE  /\ main' \in Seq(Event) /\ tasks' \in Seq(Tasks)
         /\ answers' \in [Fetches -> Seq(Answer)]
         /\ FetchesInv'
<1> DEFINE e == Head(main)
           f == e.fetch
<1>1. /\ main # <<>> /\ main' = Tail(main)
      /\ UNCHANGED <<asked, listeners, targets>>
  BY DEF OnEvent, clientVars
<1>2. /\ main' \in Seq(Event)
      /\ e = main[1] /\ 1 \in 1 .. Len(main)
      /\ \A i \in 1 .. Len(main') : i + 1 \in 1 .. Len(main) /\ main'[i] = main[i + 1]
  BY <1>1, QueueFacts, TailFacts
<1>3. f \in Fetches /\ f \in Accepted /\ e \in Event
  BY <1>2, QueueFacts, SeqFacts, FetchAssumption DEF FetchesInv, EventsOK
<1> HIDE DEF e
<1>4. Listening' = Listening
  BY <1>1 DEF Listening
<1>5. Accepted' = Accepted
  BY <1>1 DEF Accepted
<1>6. EventsOK'
  <2>1. ASSUME NEW i \in 1 .. Len(main')
        PROVE  /\ main'[i].fetch \in Accepted
               /\ main'[i].error =>
                    /\ main'[i].fetch \notin Listening
                    /\ \A k \in 1 .. Len(main') : i < k => main'[k].fetch # main'[i].fetch
    <3>1. i + 1 \in 1 .. Len(main) /\ main'[i] = main[i + 1]
      BY <1>2
    <3>2. \A k \in 1 .. Len(main') : i < k =>
            k + 1 \in 1 .. Len(main) /\ main'[k] = main[k + 1] /\ i + 1 < k + 1
      BY <1>2
    <3>3. /\ main[i + 1].fetch \in Accepted
          /\ main[i + 1].error =>
               /\ main[i + 1].fetch \notin Listening
               /\ \A k \in 1 .. Len(main) : i + 1 < k => main[k].fetch # main[i + 1].fetch
      BY <3>1 DEF FetchesInv, EventsOK
    <3>4. QED
      BY <3>1, <3>2, <3>3
  <2>2. QED
    BY <1>4, <1>5, <2>1 DEF EventsOK
<1>7. WatchedIsListened'
  BY <1>1 DEF FetchesInv, WatchedIsListened
<1>8. CASE answers' = answers /\ tasks' = tasks
  <2>1. TasksOK' /\ AnswersOK'
    <3>1. TasksOK'
      BY <1>2, <1>4, <1>5, <1>8 DEF FetchesInv, TasksOK
    <3>2. AnswersOK'
      BY <1>2, <1>4, <1>5, <1>8 DEF FetchesInv, AnswersOK
    <3>3. QED
      BY <3>1, <3>2
  <2>2. ListenersOK'
    BY <1>1, <1>5, <1>8 DEF FetchesInv, ListenersOK
  <2>3. QED
    BY <1>2, <1>6, <1>7, <1>8, <2>1, <2>2, QueueFacts DEF FetchesInv, TypeOK
<1>9. CASE /\ ~ Muted(f)
           /\ answers' = [answers EXCEPT ![f] = Append(answers[f], AnswerTo(e))]
           /\ tasks' = tasks \o Removal(e)
  <2>1. answers[f] = <<>>
    BY <1>2, <1>9, NotMuted
  <2>2. AnswerTo(e) \in Answer /\ (~ e.error => AnswerTo(e) # "denied")
    BY <1>3 DEF AnswerTo, Answer, Event
  <2>3. Append(answers[f], AnswerTo(e)) = <<AnswerTo(e)>>
    BY <2>1
  <2>4. <<AnswerTo(e)>> \in Seq(Answer) /\ Len(<<AnswerTo(e)>>) = 1
        /\ (<<AnswerTo(e)>> = <<"denied">> => e.error)
    BY <2>2
  <2> DEFINE a == <<AnswerTo(e)>>
  <2>5. /\ answers' = [answers EXCEPT ![f] = a]
        /\ answers' \in [Fetches -> Seq(Answer)]
        /\ answers'[f] = a /\ \A g \in Fetches : g # f => answers'[g] = answers[g]
    BY <1>3, <1>9, <2>3, <2>4 DEF TypeOK
  <2> HIDE DEF a
  <2>6. /\ tasks' \in Seq(Tasks)
        /\ \A i \in 1 .. Len(tasks) : i \in 1 .. Len(tasks') /\ tasks'[i] = tasks[i]
        /\ \A i \in 1 .. Len(tasks') : i \in 1 .. Len(tasks) \/ tasks'[i] = <<"remove", f>>
        /\ ~ e.error => \E i \in 1 .. Len(tasks') : tasks'[i] = <<"remove", f>>
    <3>1. CASE e.error
      <4>1. tasks' = tasks
        BY <1>9, <3>1, QueueFacts, ConcatEmptySeq DEF Removal
      <4>2. QED
        BY <3>1, <4>1, QueueFacts
    <3>2. CASE ~ e.error
      <4> DEFINE r == <<"remove", f>>
      <4>1. r \in Tasks
        BY <1>3 DEF Tasks
      <4>2. tasks' = tasks \o <<r>>
        BY <1>9, <3>2 DEF Removal
      <4> HIDE DEF r
      <4>3. tasks' = Append(tasks, r)
        BY <4>1, <4>2, QueueFacts, AppendIsConcat
      <4>4. /\ Append(tasks, r) \in Seq(Tasks)
            /\ Len(Append(tasks, r)) = Len(tasks) + 1
            /\ \A i \in 1 .. Len(tasks) : Append(tasks, r)[i] = tasks[i]
            /\ Append(tasks, r)[Len(tasks) + 1] = r
            /\ \A i \in 1 .. Len(Append(tasks, r)) : i \in 1 .. Len(tasks) \/ i = Len(tasks) + 1
        BY <4>1, QueueFacts, AppendFacts
      <4>5. Len(tasks) \in Nat
        BY QueueFacts
      <4>6. Len(tasks) + 1 \in 1 .. Len(tasks')
        BY <4>3, <4>4, <4>5
      <4>7. \A i \in 1 .. Len(tasks) : i \in 1 .. Len(tasks')
        BY <4>3, <4>4, <4>5
      <4>8. QED
        BY <4>3, <4>4, <4>6, <4>7 DEF r
    <3>3. QED
      BY <3>1, <3>2
  <2>7. \A i \in 1 .. Len(tasks) : tasks[i][1] = "listen" => tasks[i][2] # f
    BY <1>2 DEF FetchesInv, TasksOK, e
  <2>8. TasksOK'
    <3> SUFFICES ASSUME NEW i \in 1 .. Len(tasks')
                 PROVE  /\ tasks'[i][2] \in Accepted'
                        /\ tasks'[i][1] = "listen" =>
                             /\ tasks'[i][2] \notin Listening'
                             /\ answers'[tasks'[i][2]] = <<>>
                             /\ \A k \in 1 .. Len(tasks') : k # i => tasks'[k][2] # tasks'[i][2]
                             /\ \A k \in 1 .. Len(main') : main'[k].fetch # tasks'[i][2]
      BY DEF TasksOK
    <3>1. CASE tasks'[i] = <<"remove", f>>
      BY <1>3, <1>5, <3>1
    <3>2. CASE i \in 1 .. Len(tasks)
      <4>1. /\ tasks'[i] = tasks[i] /\ tasks[i][2] \in Accepted
            /\ tasks[i][2] \in Fetches
        BY <2>6, <3>2, QueueFacts, SeqFacts DEF FetchesInv, TasksOK, Tasks
      <4>2. CASE tasks[i][1] = "listen"
        <5>1. tasks[i][2] # f
          BY <2>7, <3>2, <4>2
        <5>2. answers'[tasks[i][2]] = answers[tasks[i][2]]
          BY <2>5, <4>1, <5>1
        <5>3. \A k \in 1 .. Len(tasks') : k # i => tasks'[k][2] # tasks[i][2]
          BY <2>6, <3>2, <4>2, <5>1 DEF FetchesInv, TasksOK
        <5>4. QED
          BY <1>2, <1>4, <1>5, <3>2, <4>1, <4>2, <5>2, <5>3 DEF FetchesInv, TasksOK
      <4>3. QED
        BY <1>5, <4>1, <4>2
    <3>3. QED
      BY <2>6, <3>1, <3>2
  <2>9. ListenersOK'
    <3> SUFFICES ASSUME NEW d \in Docs, NEW g \in listeners[d]
                 PROVE  /\ g \in Accepted /\ asked[g] = d
                        /\ answers'[g] # <<>> =>
                             \E i \in 1 .. Len(tasks') : tasks'[i] = <<"remove", g>>
      BY <1>1, <1>5 DEF ListenersOK
    <3>1. /\ g \in Accepted /\ asked[g] = d /\ g \in Fetches
          /\ answers[g] # <<>> => \E i \in 1 .. Len(tasks) : tasks[i] = <<"remove", g>>
      BY DEF FetchesInv, ListenersOK, TypeOK
    <3>2. CASE g = f
      <4>1. ~ e.error
        BY <1>2, <3>2 DEF FetchesInv, EventsOK, Listening
      <4>2. QED
        BY <2>6, <3>1, <3>2, <4>1
    <3>3. CASE g # f
      BY <2>5, <2>6, <3>1, <3>3
    <3>4. QED
      BY <3>2, <3>3
  <2>10. AnswersOK'
    <3> SUFFICES ASSUME NEW g \in Fetches
                 PROVE  /\ Len(answers'[g]) <= 1
                        /\ g \notin Accepted' => answers'[g] = <<>>
                        /\ answers'[g] = <<"denied">> =>
                             /\ g \notin Listening'
                             /\ \A k \in 1 .. Len(main') : main'[k].fetch # g
      BY DEF AnswersOK
    <3>1. CASE g # f
      <4>1. answers'[g] = answers[g]
        BY <2>5, <3>1
      <4>2. /\ Len(answers[g]) <= 1
            /\ g \notin Accepted => answers[g] = <<>>
            /\ answers[g] = <<"denied">> =>
                 /\ g \notin Listening
                 /\ \A k \in 1 .. Len(main) : main[k].fetch # g
        BY DEF FetchesInv, AnswersOK
      <4>3. QED
        BY <1>2, <1>4, <1>5, <4>1, <4>2
    <3>2. CASE g = f
      <4>1. Len(answers'[g]) = 1 /\ (answers'[g] = <<"denied">> => e.error)
        BY <2>4, <2>5, <3>2 DEF a
      <4>2. e.error => /\ g \notin Listening
                       /\ \A k \in 1 .. Len(main) : 1 < k => main[k].fetch # g
        BY <1>2, <3>2 DEF FetchesInv, EventsOK
      <4>3. \A k \in 1 .. Len(main') : 1 < k + 1
        BY <1>2
      <4>4. QED
        BY <1>2, <1>3, <1>4, <1>5, <3>2, <4>1, <4>2, <4>3
    <3>3. QED
      BY <3>1, <3>2
  <2>11. QED
    BY <1>2, <1>6, <1>7, <2>5, <2>6, <2>8, <2>9, <2>10 DEF FetchesInv
<1>10. QED
  BY <1>8, <1>9 DEF OnEvent, e

\* The head of the worker queue.
LEMMA HeadTask ==
  ASSUME TypeOK, FetchesInv, NEW kind, Runs(kind)
  PROVE  /\ tasks[1] = <<kind, tasks[1][2]>> /\ tasks[1] = Head(tasks)
         /\ tasks[1][2] \in Accepted /\ tasks[1][2] \in Fetches
         /\ asked[tasks[1][2]] \in Docs
         /\ 1 \in 1 .. Len(tasks)
         /\ tasks' \in Seq(Tasks)
         /\ \A i \in 1 .. Len(tasks') :
              i + 1 \in 1 .. Len(tasks) /\ tasks'[i] = tasks[i + 1]
         /\ \A i \in 1 .. Len(tasks) : i = 1 \/ i - 1 \in 1 .. Len(tasks')
<1>1. tasks # <<>> /\ Head(tasks)[1] = kind /\ tasks' = Tail(tasks)
  BY DEF Runs
<1>2. tasks \in Seq(Tasks)
  BY QueueFacts
<1>3. /\ Tail(tasks) \in Seq(Tasks)
      /\ Len(tasks) \in Nat /\ Len(tasks) >= 1
      /\ Head(tasks) = tasks[1] /\ tasks[1] \in Tasks
      /\ \A i \in 1 .. Len(Tail(tasks)) :
           i + 1 \in 1 .. Len(tasks) /\ Tail(tasks)[i] = tasks[i + 1]
      /\ \A i \in 1 .. Len(tasks) : i = 1 \/ i - 1 \in 1 .. Len(Tail(tasks))
  BY <1>1, <1>2, TailFacts
<1>4. 1 \in 1 .. Len(tasks)
  BY <1>3
<1>5. tasks[1] = <<kind, tasks[1][2]>> /\ tasks[1][2] \in Fetches
  BY <1>1, <1>3 DEF Tasks
<1>6. tasks[1][2] \in Accepted
  BY <1>4 DEF FetchesInv, TasksOK
<1>7. QED
  BY <1>1, <1>3, <1>4, <1>5, <1>6, QueueFacts

\* A record of the right fields is an entry.
LEMMA EntryFacts ==
  ASSUME NEW there \in BOOLEAN, NEW version \in Nat, NEW own \in BOOLEAN
  PROVE  [there |-> there, version |-> version, own |-> own] \in Entry
  BY DEF Entry

\* What the local documents view has of a document.
LEMMA OverlaidFacts ==
  ASSUME NEW entry \in Entry, NEW ops \in Seq(Op)
  PROVE  /\ Overlaid(entry, ops).there \in BOOLEAN /\ Overlaid(entry, ops).local \in BOOLEAN
         /\ Overlaid(entry, ops).own \in BOOLEAN
<1> DEFINE is == entry.there
           own == entry.own
           made == Last(ops) = "set"
<1>1. is \in BOOLEAN /\ own \in BOOLEAN
  BY DEF Entry
<1>2. made \in BOOLEAN
  OBVIOUS
<1>3. Overlaid(entry, ops) = IF ops = <<>> THEN [there |-> is, local |-> FALSE, own |-> own]
                             ELSE [there |-> made, local |-> made, own |-> FALSE]
  BY DEF Overlaid
<1> HIDE DEF is, own, made
<1>4. CASE ops = <<>>
  BY <1>1, <1>3, <1>4
<1>5. CASE ops # <<>>
  BY <1>2, <1>3, <1>5
<1>6. QED
  BY <1>4, <1>5

\* A view stays one, whatever local documents and targets become of it.
LEMMA ViewFacts ==
  ASSUME NEW v \in View
  PROVE  /\ v.doc \in BOOLEAN /\ v.local \in BOOLEAN /\ v.synced \in BOOLEAN
         /\ v.current \in BOOLEAN /\ v.fresh \in BOOLEAN
         /\ WithSyncState(v) \in View
<1>1. /\ v.doc \in BOOLEAN /\ v.local \in BOOLEAN /\ v.synced \in BOOLEAN
      /\ v.current \in BOOLEAN /\ v.fresh \in BOOLEAN
  BY DEF View
<1> DEFINE fresh == v.current /\ ~ ShouldBeInLimbo(v)
<1>2. fresh \in BOOLEAN /\ WithSyncState(v) = [v EXCEPT !.fresh = fresh]
  BY <1>1 DEF WithSyncState
<1> HIDE DEF fresh
<1>3. QED
  BY <1>1, <1>2 DEF View

\* A computed change of a view changes the document it shows and nothing else.
LEMMA DocumentChangesFacts ==
  ASSUME NEW v \in View, NEW entry \in Entry, NEW ops \in Seq(Op)
  PROVE  ComputeDocumentChanges(v, Overlaid(entry, ops)) \in View
<1> DEFINE new == Overlaid(entry, ops)
<1>1. new.there \in BOOLEAN /\ new.local \in BOOLEAN
  BY OverlaidFacts
<1> HIDE DEF new
<1>2. [v EXCEPT !.doc = new.there, !.local = new.local] \in View
  BY <1>1 DEF View
<1>3. ComputeDocumentChanges(v, new) \in View
  BY <1>2 DEF ComputeDocumentChanges
<1>4. QED
  BY <1>3 DEF new

\* A fetch begins to listen, and may be told of the view there is.
LEMMA AddQueryListenerStep ==
  ASSUME TypeOK, FetchesInv, AddQueryListener
  PROVE  /\ tasks' \in Seq(Tasks) /\ main' \in Seq(Event)
         /\ listeners' \in [Docs -> SUBSET Fetches] /\ targets' \subseteq Docs
         /\ raised' \subseteq Fetches
         /\ views' \in [Docs -> View]
         /\ FetchesInv'
<1> DEFINE f == tasks[1][2]
           d == asked[f]
           first == listeners[d] = {}
           v == IF first THEN InitializeView(d) ELSE views[d]
           ev == SnapshotEvent(f, v)
<1>1. /\ f \in Accepted /\ f \in Fetches /\ d \in Docs
      /\ 1 \in 1 .. Len(tasks) /\ tasks[1] = <<"listen", f>> /\ tasks[1] = Head(tasks)
      /\ tasks' \in Seq(Tasks)
      /\ \A i \in 1 .. Len(tasks') : i + 1 \in 1 .. Len(tasks) /\ tasks'[i] = tasks[i + 1]
      /\ \A i \in 1 .. Len(tasks) : i = 1 \/ i - 1 \in 1 .. Len(tasks')
  BY HeadTask DEF AddQueryListener
<1>2. /\ listeners' = [listeners EXCEPT ![d] = @ \cup {f}]
      /\ views' = [views EXCEPT ![d] = v]
      /\ raised' \in {raised, raised \cup {f}}
      /\ main' \in {main, Append(main, ev)}
      /\ first => targets' = targets \cup {d}
      /\ ~ first => targets' = targets
      /\ UNCHANGED <<asked, answers>>
  BY <1>1 DEF AddQueryListener, Listen, appVars
<1>3. v \in View /\ v.doc \in BOOLEAN /\ v.fresh \in BOOLEAN
  <2>1. InitializeView(d) \in View
    <3>1. cached[d] \in Entry /\ Pending(d) \in Seq(Op)
      BY <1>1 DEF TypeOK, Pending
    <3> DEFINE new == Overlaid(cached[d], Pending(d))
    <3>2. new.there \in BOOLEAN /\ new.local \in BOOLEAN
      BY <3>1, OverlaidFacts
    <3>3. InitializeView(d) = [doc |-> new.there, local |-> new.local, synced |-> d \in keys,
                               current |-> FALSE, fresh |-> FALSE]
      BY DEF InitializeView
    <3> HIDE DEF new
    <3>4. QED
      BY <3>2, <3>3 DEF View
  <2>2. v \in View
    BY <1>1, <2>1 DEF TypeOK
  <2> HIDE DEF v
  <2>3. QED
    BY <2>2 DEF View
<1> HIDE DEF v
<1>4. ev \in Event /\ ev.fetch = f /\ ~ ev.error
  BY <1>1, <1>3 DEF SnapshotEvent, Event
<1>5. /\ f \notin Listening /\ answers[f] = <<>>
      /\ \A k \in 1 .. Len(tasks) : k # 1 => tasks[k][2] # f
      /\ \A k \in 1 .. Len(main) : main[k].fetch # f
  BY <1>1 DEF FetchesInv, TasksOK
<1> HIDE DEF ev, f
<1>6. /\ main' \in Seq(Event)
      /\ \A i \in 1 .. Len(main') : \/ i \in 1 .. Len(main) /\ main'[i] = main[i]
                                    \/ main'[i].fetch = f /\ ~ main'[i].error
  <2>1. CASE main' = main
    BY <2>1, QueueFacts
  <2>2. CASE main' = Append(main, ev)
    <3>1. /\ Append(main, ev) \in Seq(Event)
          /\ \A i \in 1 .. Len(main) : Append(main, ev)[i] = main[i]
          /\ Append(main, ev)[Len(main) + 1] = ev
          /\ \A i \in 1 .. Len(Append(main, ev)) : i \in 1 .. Len(main) \/ i = Len(main) + 1
      BY <1>4, QueueFacts, AppendFacts
    <3>2. QED
      BY <1>4, <2>2, <3>1
  <2>3. QED
    BY <1>2, <2>1, <2>2
<1>7. Accepted' = Accepted
  BY <1>2 DEF Accepted
<1> HIDE DEF d
<1>8. listeners' \in [Docs -> SUBSET Fetches] /\ Listening' = Listening \cup {f}
      /\ \A c \in Docs : listeners'[c] = IF c = d THEN listeners[c] \cup {f} ELSE listeners[c]
  <2>1. listeners \in [Docs -> SUBSET Fetches] /\ listeners[d] \cup {f} \in SUBSET Fetches
    BY <1>1 DEF TypeOK
  <2>2. /\ listeners' \in [Docs -> SUBSET Fetches]
        /\ \A c \in Docs : listeners'[c] = IF c = d THEN listeners[c] \cup {f} ELSE listeners[c]
    BY <1>1, <1>2, <2>1
  <2>3. Listening' = Listening \cup {f}
    BY <1>1, <2>2 DEF Listening
  <2>4. QED
    BY <2>2, <2>3
<1>9. TasksOK'
  <2>1. ASSUME NEW i \in 1 .. Len(tasks')
        PROVE  /\ tasks'[i][2] \in Accepted
               /\ tasks'[i][1] = "listen" =>
                    /\ tasks'[i][2] \notin Listening'
                    /\ answers[tasks'[i][2]] = <<>>
                    /\ \A k \in 1 .. Len(tasks') : k # i => tasks'[k][2] # tasks'[i][2]
                    /\ \A k \in 1 .. Len(main') : main'[k].fetch # tasks'[i][2]
    <3>1. i + 1 \in 1 .. Len(tasks) /\ i + 1 # 1 /\ tasks'[i] = tasks[i + 1]
      BY <1>1
    <3>2. \A k \in 1 .. Len(tasks') : k # i =>
            k + 1 \in 1 .. Len(tasks) /\ tasks'[k] = tasks[k + 1] /\ k + 1 # i + 1
      BY <1>1
    <3>3. tasks[i + 1][2] # f
      BY <1>5, <3>1
    <3>4. /\ tasks[i + 1][2] \in Accepted
          /\ tasks[i + 1][1] = "listen" =>
               /\ tasks[i + 1][2] \notin Listening
               /\ answers[tasks[i + 1][2]] = <<>>
               /\ \A k \in 1 .. Len(tasks) : k # i + 1 => tasks[k][2] # tasks[i + 1][2]
               /\ \A k \in 1 .. Len(main) : main[k].fetch # tasks[i + 1][2]
      BY <3>1 DEF FetchesInv, TasksOK
    <3>5. QED
      BY <1>6, <1>8, <3>1, <3>2, <3>3, <3>4
  <2>2. QED
    BY <1>2, <1>7, <2>1 DEF TasksOK
<1>10. ListenersOK'
  <2> SUFFICES ASSUME NEW c \in Docs, NEW g \in listeners'[c]
               PROVE  /\ g \in Accepted /\ asked[g] = c
                      /\ answers[g] # <<>> =>
                           \E i \in 1 .. Len(tasks') : tasks'[i] = <<"remove", g>>
    BY <1>2, <1>7 DEF ListenersOK
  <2>1. CASE g = f /\ g \notin listeners[c]
    BY <1>1, <1>5, <1>8, <2>1 DEF d
  <2>2. CASE g \in listeners[c]
    <3>1. /\ g \in Accepted /\ asked[g] = c
          /\ answers[g] # <<>> => \E i \in 1 .. Len(tasks) : tasks[i] = <<"remove", g>>
      BY <2>2 DEF FetchesInv, ListenersOK
    <3>2. ASSUME NEW i \in 1 .. Len(tasks), tasks[i] = <<"remove", g>>
          PROVE  i - 1 \in 1 .. Len(tasks') /\ tasks'[i - 1] = <<"remove", g>>
      <4>1. i # 1
        BY <1>1, <3>2
      <4>2. i - 1 \in 1 .. Len(tasks') /\ (i - 1) + 1 = i
        BY <1>1, <4>1
      <4>3. QED
        BY <1>1, <3>2, <4>2
    <3>3. QED
      BY <3>1, <3>2
  <2>3. QED
    BY <1>8, <2>1, <2>2
<1>11. EventsOK'
  <2> SUFFICES ASSUME NEW i \in 1 .. Len(main')
               PROVE  /\ main'[i].fetch \in Accepted
                      /\ main'[i].error =>
                           /\ main'[i].fetch \notin Listening'
                           /\ \A k \in 1 .. Len(main') :
                                i < k => main'[k].fetch # main'[i].fetch
    BY <1>7 DEF EventsOK
  <2>1. CASE main'[i].fetch = f /\ ~ main'[i].error
    BY <1>1, <2>1
  <2>2. CASE i \in 1 .. Len(main) /\ main'[i] = main[i]
    BY <1>5, <1>6, <1>8, <2>2 DEF FetchesInv, EventsOK
  <2>3. QED
    BY <1>6, <2>1, <2>2
<1>12. AnswersOK'
  <2> SUFFICES ASSUME NEW g \in Fetches
               PROVE  /\ Len(answers[g]) <= 1
                      /\ g \notin Accepted => answers[g] = <<>>
                      /\ answers[g] = <<"denied">> =>
                           /\ g \notin Listening'
                           /\ \A k \in 1 .. Len(main') : main'[k].fetch # g
    BY <1>2, <1>7 DEF AnswersOK
  <2>1. /\ Len(answers[g]) <= 1
        /\ g \notin Accepted => answers[g] = <<>>
        /\ answers[g] = <<"denied">> =>
             /\ g \notin Listening
             /\ \A k \in 1 .. Len(main) : main[k].fetch # g
    BY DEF FetchesInv, AnswersOK
  <2>2. answers[g] = <<"denied">> => g # f
    <3>1. <<"denied">> # <<>>
      OBVIOUS
    <3>2. QED
      BY <1>5, <3>1
  <2>3. QED
    BY <1>6, <1>8, <2>1, <2>2
<1>13. WatchedIsListened' /\ targets' \subseteq Docs
  <2>1. targets = {c \in Docs : listeners[c] # {}}
    BY DEF FetchesInv, WatchedIsListened
  <2>2. targets' = {c \in Docs : listeners'[c] # {}}
    <3>1. CASE first
      BY <1>1, <1>2, <1>8, <2>1, <3>1
    <3>2. CASE ~ first
      BY <1>1, <1>2, <1>8, <2>1, <3>2
    <3>3. QED
      BY <3>1, <3>2
  <2>3. QED
    BY <2>2 DEF WatchedIsListened
<1>14. views' \in [Docs -> View] /\ raised' \subseteq Fetches
  BY <1>1, <1>2, <1>3 DEF TypeOK
<1>15. QED
  BY <1>1, <1>6, <1>8, <1>9, <1>10, <1>11, <1>12, <1>13, <1>14 DEF FetchesInv

\* A fetch listens no more.
LEMMA RemoveQueryListenerStep ==
  ASSUME TypeOK, FetchesInv, RemoveQueryListener
  PROVE  /\ tasks' \in Seq(Tasks)
         /\ listeners' \in [Docs -> SUBSET Fetches] /\ targets' \subseteq Docs
         /\ views' \in [Docs -> View]
         /\ FetchesInv'
<1> DEFINE f == tasks[1][2]
           d == asked[f]
<1>1. /\ f \in Accepted /\ f \in Fetches /\ d \in Docs
      /\ 1 \in 1 .. Len(tasks) /\ tasks[1] = <<"remove", f>> /\ tasks[1] = Head(tasks)
      /\ tasks' \in Seq(Tasks)
      /\ \A i \in 1 .. Len(tasks') : i + 1 \in 1 .. Len(tasks) /\ tasks'[i] = tasks[i + 1]
      /\ \A i \in 1 .. Len(tasks) : i = 1 \/ i - 1 \in 1 .. Len(tasks')
  BY HeadTask DEF RemoveQueryListener
<1>2. /\ listeners' = [listeners EXCEPT ![d] = @ \ {f}]
      /\ listeners[d] = {f} => targets' = targets \ {d} /\ views' = [views EXCEPT ![d] = NoView]
      /\ listeners[d] # {f} => targets' = targets /\ views' = views
      /\ UNCHANGED <<asked, answers, main>>
  BY <1>1 DEF RemoveQueryListener, StopListening, appVars
<1> HIDE DEF f, d
<1>3. /\ listeners' \in [Docs -> SUBSET Fetches] /\ Listening' \subseteq Listening
      /\ \A c \in Docs : listeners'[c] = IF c = d THEN listeners[c] \ {f} ELSE listeners[c]
  <2>1. listeners \in [Docs -> SUBSET Fetches] /\ listeners[d] \ {f} \in SUBSET Fetches
    BY <1>1 DEF TypeOK
  <2>2. /\ listeners' \in [Docs -> SUBSET Fetches]
        /\ \A c \in Docs : listeners'[c] = IF c = d THEN listeners[c] \ {f} ELSE listeners[c]
    BY <1>1, <1>2, <2>1
  <2>3. Listening' \subseteq Listening
    BY <2>2 DEF Listening
  <2>4. QED
    BY <2>2, <2>3
<1>4. Accepted' = Accepted
  BY <1>2 DEF Accepted
<1>5. TasksOK'
  <2>1. ASSUME NEW i \in 1 .. Len(tasks')
        PROVE  /\ tasks'[i][2] \in Accepted
               /\ tasks'[i][1] = "listen" =>
                    /\ tasks'[i][2] \notin Listening
                    /\ answers[tasks'[i][2]] = <<>>
                    /\ \A k \in 1 .. Len(tasks') : k # i => tasks'[k][2] # tasks'[i][2]
                    /\ \A k \in 1 .. Len(main) : main[k].fetch # tasks'[i][2]
    <3>1. i + 1 \in 1 .. Len(tasks) /\ tasks'[i] = tasks[i + 1]
      BY <1>1
    <3>2. \A k \in 1 .. Len(tasks') : k # i =>
            k + 1 \in 1 .. Len(tasks) /\ tasks'[k] = tasks[k + 1] /\ k + 1 # i + 1
      BY <1>1
    <3>3. /\ tasks[i + 1][2] \in Accepted
          /\ tasks[i + 1][1] = "listen" =>
               /\ tasks[i + 1][2] \notin Listening
               /\ answers[tasks[i + 1][2]] = <<>>
               /\ \A k \in 1 .. Len(tasks) : k # i + 1 => tasks[k][2] # tasks[i + 1][2]
               /\ \A k \in 1 .. Len(main) : main[k].fetch # tasks[i + 1][2]
      BY <3>1 DEF FetchesInv, TasksOK
    <3>4. QED
      BY <3>1, <3>2, <3>3
  <2>2. QED
    BY <1>2, <1>3, <1>4, <2>1 DEF TasksOK
<1>6. ListenersOK'
  <2> SUFFICES ASSUME NEW c \in Docs, NEW g \in listeners'[c]
               PROVE  /\ g \in Accepted /\ asked[g] = c
                      /\ answers[g] # <<>> =>
                           \E i \in 1 .. Len(tasks') : tasks'[i] = <<"remove", g>>
    BY <1>2, <1>4 DEF ListenersOK
  <2>1. /\ g \in Accepted /\ asked[g] = c
        /\ answers[g] # <<>> => \E i \in 1 .. Len(tasks) : tasks[i] = <<"remove", g>>
    BY <1>3 DEF FetchesInv, ListenersOK
  <2>2. g # f
    BY <1>3, <2>1 DEF d
  <2>3. ASSUME NEW i \in 1 .. Len(tasks), tasks[i] = <<"remove", g>>
        PROVE  i - 1 \in 1 .. Len(tasks') /\ tasks'[i - 1] = <<"remove", g>>
    <3>1. i # 1
      BY <1>1, <2>2, <2>3
    <3>2. i - 1 \in 1 .. Len(tasks') /\ (i - 1) + 1 = i
      BY <1>1, <3>1
    <3>3. QED
      BY <1>1, <2>3, <3>2
  <2>4. QED
    BY <2>1, <2>3
<1>7. EventsOK' /\ AnswersOK'
  BY <1>2, <1>3, <1>4 DEF FetchesInv, EventsOK, AnswersOK
<1>8. WatchedIsListened' /\ targets' \subseteq Docs
  <2>1. targets = {c \in Docs : listeners[c] # {}}
    BY DEF FetchesInv, WatchedIsListened
  <2>2. targets' = {c \in Docs : listeners'[c] # {}}
    BY <1>1, <1>2, <1>3, <2>1
  <2>3. QED
    BY <2>2 DEF WatchedIsListened
<1>9. views' \in [Docs -> View]
  <2>1. NoView \in View
    BY DEF NoView, View
  <2>2. QED
    BY <1>1, <1>2, <2>1 DEF TypeOK
<1>10. QED
  BY <1>1, <1>3, <1>5, <1>6, <1>7, <1>8, <1>9 DEF FetchesInv

\* Every listener of a refused document gets the error as its last event.
LEMMA ProcessTargetErrorStep ==
  ASSUME TypeOK, FetchesInv, ProcessTargetError, Doc \in Docs
  PROVE  /\ main' \in Seq(Event)
         /\ listeners' \in [Docs -> SUBSET Fetches] /\ targets' \subseteq Docs
         /\ views' \in [Docs -> View]
         /\ FetchesInv'
<1>1. CASE Doc \notin targets
  <2>1. UNCHANGED <<asked, answers, tasks, main, listeners, targets, views>>
    BY <1>1 DEF ProcessTargetError, OnWatchStreamChange, appVars
  <2>2. QED
    BY <2>1, FetchesAlone DEF TypeOK
<1>2. CASE Doc \in targets
  <2> DEFINE gone == listeners[Doc]
             order == InOrder(gone)
             ev == [i \in DOMAIN order |-> ErrorEvent(order[i])]
  <2>1. /\ targets' = targets \ {Doc}
        /\ views' = [views EXCEPT ![Doc] = NoView]
        /\ main' = main \o ev
        /\ listeners' = [listeners EXCEPT ![Doc] = {}]
        /\ UNCHANGED <<asked, answers, tasks>>
    BY <1>2 DEF ProcessTargetError, OnWatchStreamChange, appVars
  <2>2. gone \in SUBSET Nat /\ IsFiniteSet(gone) /\ gone \subseteq Fetches
    <3>1. gone \in SUBSET Fetches
      BY DEF TypeOK
    <3>2. MaxFetches \in Int /\ 1 \in Int /\ Fetches \in SUBSET Nat
      BY QueueFacts DEF Fetches
    <3>3. IsFiniteSet(Fetches)
      BY <3>2, FS_Interval DEF Fetches
    <3>4. QED
      BY <3>1, <3>2, <3>3, FS_Subset
  <2>3. \A f \in gone : /\ f \in Listening /\ f \in Accepted /\ f \in Fetches /\ f \in Nat
                        /\ \A c \in Docs : f \in listeners[c] => c = Doc
    BY <2>2 DEF FetchesInv, ListenersOK, Listening
  <2> DEFINE n == Cardinality(gone)
  <2> HIDE DEF gone
  <2>4. /\ n \in Nat /\ order \in [1 .. n -> gone]
        /\ \A i, j \in 1 .. n : i < j => order[i] < order[j]
    BY <2>2, InOrderFacts
  <2> HIDE DEF order
  <2>5. DOMAIN order = 1 .. n /\ \A i \in 1 .. n : order[i] \in gone
    BY <2>4
  <2>6. \A i, j \in 1 .. n : i < j => order[i] # order[j]
    BY <2>3, <2>4, <2>5
  <2>7. /\ ev \in [1 .. n -> Event]
        /\ \A i \in 1 .. n : ev[i].fetch = order[i]
    BY <2>3, <2>5 DEF ErrorEvent, Event
  <2>8. ev \in Seq(Event) /\ Len(ev) = n
    BY <2>4, <2>7, FunctionIsSeq
  <2> HIDE DEF ev, n
  <2>9. /\ main' \in Seq(Event)
        /\ \A i \in 1 .. Len(main) : main'[i] = main[i]
        /\ \A i \in 1 .. n : main'[Len(main) + i] = ev[i]
        /\ \A i \in 1 .. Len(main') : i \in 1 .. Len(main) \/ i - Len(main) \in 1 .. n
    <3>1. /\ main \o ev \in Seq(Event)
          /\ \A i \in 1 .. Len(main) : (main \o ev)[i] = main[i]
          /\ \A i \in 1 .. n : (main \o ev)[Len(main) + i] = ev[i]
          /\ \A i \in 1 .. Len(main \o ev) : i \in 1 .. Len(main) \/ i - Len(main) \in 1 .. n
      BY <2>8, QueueFacts, ConcatFacts
    <3>2. QED
      BY <2>1, <3>1, Zenon
  <2>10. \A i \in 1 .. Len(main') : i - Len(main) \in 1 .. n =>
           main'[i].fetch = order[i - Len(main)]
    <3>1. \A i \in 1 .. Len(main') : Len(main) + (i - Len(main)) = i
      BY QueueFacts
    <3>2. QED
      BY <2>7, <2>9, <3>1
  <2>11. /\ listeners' \in [Docs -> SUBSET Fetches]
         /\ Listening' = Listening \ gone
         /\ \A c \in Docs : listeners'[c] = IF c = Doc THEN {} ELSE listeners[c]
    BY <2>1, <2>3 DEF Listening, TypeOK, gone
  <2>12. Accepted' = Accepted
    BY <2>1 DEF Accepted
  <2>13. TasksOK'
    <3>1. \A i \in 1 .. Len(main') : \/ i \in 1 .. Len(main) /\ main'[i] = main[i]
                                     \/ main'[i].fetch \in Listening
      BY <2>3, <2>5, <2>9, <2>10
    <3>2. Listening' \subseteq Listening
      BY <2>11
    <3>3. QED
      BY <2>1, <2>12, <3>1, <3>2 DEF FetchesInv, TasksOK
  <2>14. ListenersOK'
    BY <2>1, <2>11, <2>12 DEF FetchesInv, ListenersOK
  <2>15. EventsOK'
    <3> SUFFICES ASSUME NEW i \in 1 .. Len(main')
                 PROVE  /\ main'[i].fetch \in Accepted
                        /\ main'[i].error =>
                             /\ main'[i].fetch \notin Listening'
                             /\ \A k \in 1 .. Len(main') :
                                  i < k => main'[k].fetch # main'[i].fetch
      BY <2>12 DEF EventsOK
    <3>1. CASE i \in 1 .. Len(main)
      <4>1. main'[i] = main[i] /\ main[i].fetch \in Accepted
        BY <2>9, <3>1 DEF FetchesInv, EventsOK
      <4>2. CASE main[i].error
        <5>1. /\ main[i].fetch \notin Listening
              /\ \A k \in 1 .. Len(main) : i < k => main[k].fetch # main[i].fetch
          BY <3>1, <4>2 DEF FetchesInv, EventsOK
        <5>2. \A k \in 1 .. Len(main') : k - Len(main) \in 1 .. n => main'[k].fetch \in Listening
          BY <2>3, <2>5, <2>10
        <5>3. QED
          BY <2>9, <2>11, <4>1, <5>1, <5>2
      <4>3. QED
        BY <4>1, <4>2
    <3>2. CASE i \notin 1 .. Len(main)
      <4>1. i - Len(main) \in 1 .. n /\ main'[i].fetch = order[i - Len(main)]
        BY <2>9, <2>10, <3>2
      <4>2. main'[i].fetch \in gone /\ main'[i].fetch \in Accepted
        BY <2>3, <2>5, <4>1
      <4>3. \A k \in 1 .. Len(main') : i < k =>
              k - Len(main) \in 1 .. n /\ i - Len(main) < k - Len(main)
        BY <2>9, <3>2, QueueFacts
      <4>4. QED
        BY <2>6, <2>10, <2>11, <4>1, <4>2, <4>3
    <3>3. QED
      BY <3>1, <3>2
  <2>16. AnswersOK'
    <3>1. \A i \in 1 .. Len(main') : \/ i \in 1 .. Len(main) /\ main'[i] = main[i]
                                     \/ main'[i].fetch \in Listening
      BY <2>3, <2>5, <2>9, <2>10
    <3>2. QED
      BY <2>1, <2>11, <2>12, <3>1 DEF FetchesInv, AnswersOK
  <2>17. WatchedIsListened' /\ targets' \subseteq Docs
    BY <2>1, <2>11 DEF FetchesInv, WatchedIsListened, TypeOK
  <2>18. views' \in [Docs -> View]
    <3>1. NoView \in View
      BY DEF NoView, View
    <3>2. QED
      BY <2>1, <3>1 DEF TypeOK
  <2>19. QED
    BY <2>9, <2>11, <2>13, <2>14, <2>15, <2>16, <2>17, <2>18 DEF FetchesInv
<1>3. QED
  BY <1>1, <1>2

(***************************************************************************)
(* The places of a sequence that hold one of some elements, and how many   *)
(* they are.                                                               *)
(***************************************************************************)
Places(s, P) == {i \in 1 .. Len(s) : s[i] \in P}

\* Some places of a sequence are finitely many.
LEMMA PlacesCount ==
  ASSUME NEW S, NEW s \in Seq(S), NEW P
  PROVE  IsFiniteSet(Places(s, P)) /\ Cardinality(Places(s, P)) \in Nat
<1>1. Len(s) \in Int /\ 1 \in Int
  BY SeqFacts
<1>2. IsFiniteSet(1 .. Len(s))
  BY <1>1, FS_Interval
<1>3. Places(s, P) \in SUBSET (1 .. Len(s))
  BY DEF Places
<1>4. IsFiniteSet(Places(s, P))
  BY <1>2, <1>3, FS_Subset
<1>5. QED
  BY <1>4, FS_CardinalityType

\* One more element is one more place, if it is one of them.
LEMMA PlacesAppend ==
  ASSUME NEW S, NEW s \in Seq(S), NEW x \in S, NEW P
  PROVE  Cardinality(Places(Append(s, x), P)) =
           Cardinality(Places(s, P)) + (IF x \in P THEN 1 ELSE 0)
<1> DEFINE new == Len(s) + 1
<1>1. /\ Len(s) \in Nat
      /\ Len(Append(s, x)) = new
      /\ \A i \in 1 .. Len(s) : Append(s, x)[i] = s[i]
      /\ Append(s, x)[new] = x
      /\ \A i \in 1 .. Len(Append(s, x)) : i \in 1 .. Len(s) \/ i = new
  BY AppendFacts, SeqFacts
<1>2. \A i \in 1 .. Len(s) : i \in 1 .. new /\ i # new
  BY <1>1
<1>3. new \in 1 .. new
  BY <1>1
<1>4. IsFiniteSet(Places(s, P)) /\ Cardinality(Places(s, P)) \in Nat
  BY PlacesCount
<1> HIDE DEF new
<1>5. new \notin Places(s, P)
  BY <1>2 DEF Places
<1>6. CASE x \in P
  <2>1. Places(Append(s, x), P) = Places(s, P) \cup {new}
    BY <1>1, <1>2, <1>3, <1>6 DEF Places
  <2>2. Cardinality(Places(s, P) \cup {new}) = Cardinality(Places(s, P)) + 1
    BY <1>4, <1>5, FS_AddElement
  <2>3. QED
    BY <1>6, <2>1, <2>2
<1>7. CASE x \notin P
  <2>1. Places(Append(s, x), P) = Places(s, P)
    BY <1>1, <1>2, <1>3, <1>7 DEF Places
  <2>2. QED
    BY <1>4, <1>7, <2>1
<1>8. QED
  BY <1>6, <1>7

\* Without the head it is one place less, if the head was one of them.
LEMMA PlacesTail ==
  ASSUME NEW S, NEW s \in Seq(S), s # <<>>, NEW P
  PROVE  Cardinality(Places(s, P)) =
           Cardinality(Places(Tail(s), P)) + (IF Head(s) \in P THEN 1 ELSE 0)
<1> DEFINE rest == Places(Tail(s), P)
           later == Places(s, P) \ {1}
           shift == [i \in rest |-> i + 1]
<1>1. /\ Tail(s) \in Seq(S)
      /\ Len(s) \in Nat /\ Len(s) >= 1
      /\ Head(s) = s[1]
      /\ \A i \in 1 .. Len(Tail(s)) : i + 1 \in 1 .. Len(s) /\ Tail(s)[i] = s[i + 1]
      /\ \A i \in 1 .. Len(s) : i = 1 \/ i - 1 \in 1 .. Len(Tail(s))
  BY TailFacts
<1>2. Len(Tail(s)) \in Nat
  BY <1>1, SeqFacts
<1>3. \A i \in rest : i \in Nat /\ i + 1 \in later
  <2>1. \A i \in 1 .. Len(Tail(s)) : i \in Nat /\ i + 1 # 1
    BY <1>2
  <2>2. QED
    BY <1>1, <2>1 DEF Places
<1>4. \A i \in later : i - 1 \in rest /\ (i - 1) + 1 = i
  <2>1. \A i \in 1 .. Len(s) : i # 1 => i - 1 \in 1 .. Len(Tail(s)) /\ (i - 1) + 1 = i
    BY <1>1
  <2>2. QED
    BY <1>1, <2>1 DEF Places
<1> HIDE DEF rest, later
<1>5. shift \in Bijection(rest, later)
  <2>1. shift \in [rest -> later]
    BY <1>3
  <2>2. \A i, j \in rest : shift[i] = shift[j] => i = j
    BY <1>3
  <2>3. \A j \in later : \E i \in rest : shift[i] = j
    BY <1>4
  <2> HIDE DEF shift
  <2>4. QED
    BY <2>1, <2>2, <2>3 DEF Bijection, Injection, Surjection, IsInjective
<1>6. IsFiniteSet(rest) /\ Cardinality(rest) \in Nat
  BY <1>1, PlacesCount DEF rest
<1>7. Cardinality(later) = Cardinality(rest)
  BY <1>5, <1>6, FS_Bijection DEF ExistsBijection
<1>8. IsFiniteSet(Places(s, P)) /\ Cardinality(Places(s, P)) \in Nat
  BY PlacesCount
<1>9. Cardinality(later) = IF 1 \in Places(s, P) THEN Cardinality(Places(s, P)) - 1
                           ELSE Cardinality(Places(s, P))
  BY <1>8, FS_RemoveElement DEF later
<1>10. 1 \in Places(s, P) <=> Head(s) \in P
  <2>1. 1 \in 1 .. Len(s)
    BY <1>1
  <2>2. QED
    BY <1>1, <2>1 DEF Places
<1>11. QED
  BY <1>6, <1>7, <1>8, <1>9, <1>10 DEF rest

(***************************************************************************)
(* Requests and their acknowledgements, each counted once.                 *)
(***************************************************************************)
RequestsFor(d) == {"watch", "unwatch"} \X {d} \X Nat

AcksFor(d) == {"added", "removed"} \X {d} \X {0}

\* Requests at the places R lead from a document watched or not to one watched
\* or not, each undoing the one before.
Alternates(s, R, from, to) ==
  /\ R = {} => (from <=> to)
  /\ \A i \in R :
       /\ (\A j \in R : i <= j) => (s[i][1] = "watch" <=> ~ from)
       /\ (\A j \in R : j <= i) => (s[i][1] = "watch" <=> to)
       /\ \A j \in R : i < j /\ (\A k \in R : k <= i \/ j <= k) =>
                         (s[i][1] = "watch" <=> s[j][1] # "watch")

\* The last acknowledgement tells whether the document is watched.
EndsWith(s, R, watched) ==
  \A i \in R : (\A j \in R : j <= i) => (s[i][1] = "added" <=> watched)

\* One more request undoes the last one.
LEMMA AlternatesAppend ==
  ASSUME NEW S, NEW s \in Seq(S), NEW x \in S, NEW P,
         NEW from \in BOOLEAN, NEW to \in BOOLEAN, NEW next \in BOOLEAN,
         Alternates(s, Places(s, P), from, to),
         x \in P => /\ x[1] = "watch" <=> ~ to
                    /\ next = ~ to,
         x \notin P => next = to
  PROVE  Alternates(Append(s, x), Places(Append(s, x), P), from, next)
<1> DEFINE new == Len(s) + 1
           R == Places(s, P)
           t == Append(s, x)
<1>1. /\ Len(s) \in Nat
      /\ Len(t) = new
      /\ \A i \in 1 .. Len(s) : t[i] = s[i]
      /\ t[new] = x
      /\ \A i \in 1 .. Len(t) : i \in 1 .. Len(s) \/ i = new
  BY AppendFacts, SeqFacts
<1>2. \A i \in 1 .. Len(s) : i \in 1 .. new /\ i < new /\ i <= new /\ i # new /\ ~ (new <= i)
  BY <1>1
<1>3. new \in 1 .. new /\ new <= new
  BY <1>1
<1>4. \A i \in R : i \in 1 .. Len(s) /\ i \in Nat /\ t[i] = s[i]
  BY <1>1 DEF Places
<1> HIDE DEF new
<1>5. CASE x \in P
  <2>1. Places(t, P) = R \cup {new}
    BY <1>1, <1>2, <1>3, <1>5 DEF Places
  <2>2. next = ~ to /\ (t[new][1] = "watch" <=> ~ to)
    BY <1>1, <1>5
  <2>3. \A i \in R : i < new /\ i <= new /\ i # new /\ ~ (new <= i)
    BY <1>2, <1>4
  <2>4. Alternates(s, R, from, to)
    OBVIOUS
  <2> HIDE DEF t, R
  <2>5. R \cup {new} # {}
    OBVIOUS
  <2>6. ASSUME NEW i \in R \cup {new}
        PROVE  /\ (\A j \in R \cup {new} : i <= j) => (t[i][1] = "watch" <=> ~ from)
               /\ (\A j \in R \cup {new} : j <= i) => (t[i][1] = "watch" <=> next)
               /\ \A j \in R \cup {new} :
                    i < j /\ (\A k \in R \cup {new} : k <= i \/ j <= k) =>
                      (t[i][1] = "watch" <=> t[j][1] # "watch")
    <3>1. CASE i = new
      <4>1. (\A j \in R \cup {new} : i <= j) => R = {}
        BY <2>3, <3>1
      <4>2. \A j \in R \cup {new} : ~ (i < j)
        BY <1>1, <1>3, <1>4, <2>3, <3>1 DEF new
      <4>3. R = {} => (from <=> to)
        BY <2>4 DEF Alternates
      <4>4. QED
        BY <2>2, <3>1, <4>1, <4>2, <4>3
    <3>2. CASE i \in R
      <4>1. t[i] = s[i] /\ i < new /\ ~ (new <= i)
        BY <1>4, <2>3, <3>2
      <4>2. (\A j \in R : i <= j) => (s[i][1] = "watch" <=> ~ from)
        BY <2>4, <3>2 DEF Alternates
      <4>3. (\A j \in R : j <= i) => (s[i][1] = "watch" <=> to)
        BY <2>4, <3>2 DEF Alternates
      <4>4. \A j \in R : i < j /\ (\A k \in R : k <= i \/ j <= k) =>
                           (s[i][1] = "watch" <=> s[j][1] # "watch")
        BY <2>4, <3>2 DEF Alternates
      <4>5. (\A k \in R \cup {new} : k <= i \/ new <= k) => \A k \in R : k <= i
        BY <2>3
      <4>6. \A j \in R : t[j] = s[j]
        BY <1>4
      <4>7. ASSUME NEW j \in R \cup {new}, i < j, \A k \in R \cup {new} : k <= i \/ j <= k
            PROVE  t[i][1] = "watch" <=> t[j][1] # "watch"
        <5>1. CASE j = new
          BY <2>2, <4>1, <4>3, <4>5, <4>7, <5>1
        <5>2. CASE j \in R
          BY <4>1, <4>4, <4>6, <4>7, <5>2
        <5>3. QED
          BY <5>1, <5>2
      <4>8. ~ (\A j \in R \cup {new} : j <= i)
        BY <4>1
      <4>9. (\A j \in R \cup {new} : i <= j) => (t[i][1] = "watch" <=> ~ from)
        BY <4>1, <4>2
      <4>10. QED
        BY <4>7, <4>8, <4>9
    <3>3. QED
      BY <3>1, <3>2
  <2>7. Alternates(t, R \cup {new}, from, next)
    BY <2>5, <2>6 DEF Alternates
  <2>8. QED
    BY <2>1, <2>7 DEF t
<1>6. CASE x \notin P
  <2>1. Places(t, P) = R
    BY <1>1, <1>2, <1>3, <1>6 DEF Places
  <2>2. Alternates(s, R, from, next)
    BY <1>6
  <2> HIDE DEF t, R
  <2>3. Alternates(t, R, from, next)
    BY <1>4, <2>2 DEF Alternates
  <2>4. QED
    BY <2>1, <2>3 DEF t
<1>7. QED
  BY <1>5, <1>6

\* The head, once it is done, is where the rest begins.
LEMMA AlternatesTail ==
  ASSUME NEW S, NEW s \in Seq(S), s # <<>>, NEW P,
         NEW from \in BOOLEAN, NEW to \in BOOLEAN, NEW next \in BOOLEAN,
         Alternates(s, Places(s, P), from, to),
         Head(s) \in P => next = ~ from,
         Head(s) \notin P => next = from
  PROVE  /\ Alternates(Tail(s), Places(Tail(s), P), next, to)
         /\ Head(s) \in P => (Head(s)[1] = "watch" <=> ~ from)
<1> DEFINE R == Places(s, P)
           t == Tail(s)
           Q == Places(t, P)
<1>1. /\ Tail(s) \in Seq(S)
      /\ Len(s) \in Nat /\ Len(s) >= 1
      /\ Head(s) = s[1]
      /\ \A i \in 1 .. Len(t) : i + 1 \in 1 .. Len(s) /\ t[i] = s[i + 1]
      /\ \A i \in 1 .. Len(s) : i = 1 \/ i - 1 \in 1 .. Len(t)
  BY TailFacts
<1>2. Len(t) \in Nat
  BY <1>1, SeqFacts
<1>3. \A i \in Q : i \in Nat /\ i + 1 \in R /\ t[i] = s[i + 1] /\ 1 < i + 1 /\ 1 <= i + 1
                   /\ ~ (i + 1 <= 1)
  <2>1. \A i \in 1 .. Len(t) : i \in Nat /\ 1 < i + 1 /\ 1 <= i + 1 /\ ~ (i + 1 <= 1)
    BY <1>2
  <2>2. QED
    BY <1>1, <2>1 DEF Places
<1>4. \A i \in R : i \in Nat /\ (i = 1 \/ (i - 1 \in Q /\ (i - 1) + 1 = i)) /\ 1 <= i
  <2>1. \A i \in 1 .. Len(s) : i \in Nat /\ 1 <= i /\ (i - 1) + 1 = i
    BY <1>1
  <2>2. QED
    BY <1>1, <2>1 DEF Places
<1>5. 1 \in R <=> Head(s) \in P
  <2>1. 1 \in 1 .. Len(s)
    BY <1>1
  <2>2. QED
    BY <1>1, <2>1 DEF Places
<1>6. Alternates(s, R, from, to)
  OBVIOUS
<1> HIDE DEF t, R, Q
<1>7. 1 \in R => (s[1][1] = "watch" <=> ~ from)
  BY <1>4, <1>6 DEF Alternates
<1>8. Q = {} => (next <=> to)
  <2> SUFFICES ASSUME Q = {} PROVE next <=> to
    OBVIOUS
  <2>1. \A i \in R : i = 1 /\ i <= 1
    BY <1>4
  <2>2. CASE 1 \in R
    <3>1. s[1][1] = "watch" <=> to
      BY <1>6, <2>1, <2>2 DEF Alternates
    <3>2. QED
      BY <1>5, <1>7, <2>2, <3>1
  <2>3. CASE 1 \notin R
    <3>1. R = {}
      BY <2>1, <2>3
    <3>2. QED
      BY <1>5, <1>6, <2>3, <3>1 DEF Alternates
  <2>4. QED
    BY <2>2, <2>3
<1>9. ASSUME NEW i \in Q
      PROVE  /\ (\A j \in Q : i <= j) => (t[i][1] = "watch" <=> ~ next)
             /\ (\A j \in Q : j <= i) => (t[i][1] = "watch" <=> to)
             /\ \A j \in Q : i < j /\ (\A k \in Q : k <= i \/ j <= k) =>
                               (t[i][1] = "watch" <=> t[j][1] # "watch")
  <2>1. i \in Nat /\ i + 1 \in R /\ t[i] = s[i + 1] /\ 1 < i + 1 /\ ~ (i + 1 <= 1)
    BY <1>3
  <2>2. (\A j \in R : i + 1 <= j) => (s[i + 1][1] = "watch" <=> ~ from)
    BY <1>6, <2>1 DEF Alternates
  <2>3. (\A j \in R : j <= i + 1) => (s[i + 1][1] = "watch" <=> to)
    BY <1>6, <2>1 DEF Alternates
  <2>4. \A j \in R : i + 1 < j /\ (\A k \in R : k <= i + 1 \/ j <= k) =>
                       (s[i + 1][1] = "watch" <=> s[j][1] # "watch")
    BY <1>6, <2>1 DEF Alternates
  <2>5. ASSUME \A j \in Q : i <= j
        PROVE  t[i][1] = "watch" <=> ~ next
    <3>1. \A j \in R : j = 1 \/ i + 1 <= j
      BY <1>3, <1>4, <2>1, <2>5
    <3>2. CASE 1 \in R
      <4>1. \A k \in R : k <= 1 \/ i + 1 <= k
        BY <3>1
      <4>2. s[1][1] = "watch" <=> s[i + 1][1] # "watch"
        BY <1>6, <2>1, <3>2, <4>1 DEF Alternates
      <4>3. QED
        BY <1>5, <1>7, <2>1, <3>2, <4>2
    <3>3. CASE 1 \notin R
      BY <1>5, <2>1, <2>2, <3>1, <3>3
    <3>4. QED
      BY <3>2, <3>3
  <2>6. ASSUME \A j \in Q : j <= i
        PROVE  t[i][1] = "watch" <=> to
    <3>1. \A j \in R : j <= i + 1
      <4>1. \A j \in R : j # 1 => j - 1 <= i
        BY <1>4, <2>6
      <4>2. QED
        BY <1>4, <2>1, <4>1
    <3>2. QED
      BY <2>1, <2>3, <3>1
  <2>7. ASSUME NEW j \in Q, i < j, \A k \in Q : k <= i \/ j <= k
        PROVE  t[i][1] = "watch" <=> t[j][1] # "watch"
    <3>1. j \in Nat /\ j + 1 \in R /\ t[j] = s[j + 1] /\ i + 1 < j + 1
      BY <1>3, <2>1, <2>7
    <3>2. \A k \in R : k <= i + 1 \/ j + 1 <= k
      <4>1. \A k \in R : k # 1 => k - 1 <= i \/ j <= k - 1
        BY <1>4, <2>7
      <4>2. ASSUME NEW k \in R
            PROVE  k <= i + 1 \/ j + 1 <= k
        <5>1. k \in Nat /\ (k = 1 \/ (k - 1 <= i \/ j <= k - 1))
          BY <1>4, <4>1
        <5>2. i \in Nat /\ j \in Nat
          BY <2>1, <3>1
        <5>3. QED
          BY <5>1, <5>2
      <4>3. QED
        BY <4>2
    <3>3. QED
      BY <2>1, <2>4, <3>1, <3>2
  <2>8. QED
    BY <2>5, <2>6, <2>7
<1>10. Alternates(t, Q, next, to)
  BY <1>8, <1>9 DEF Alternates
<1>11. QED
  BY <1>1, <1>5, <1>7, <1>10 DEF t, Q

\* One more response is the last, if it is an acknowledgement.
LEMMA EndsWithAppend ==
  ASSUME NEW S, NEW s \in Seq(S), NEW x \in S, NEW P,
         NEW watched \in BOOLEAN, NEW next \in BOOLEAN,
         EndsWith(s, Places(s, P), watched),
         x \in P => (x[1] = "added" <=> next),
         x \notin P => next = watched
  PROVE  EndsWith(Append(s, x), Places(Append(s, x), P), next)
<1> DEFINE new == Len(s) + 1
           R == Places(s, P)
           t == Append(s, x)
<1>1. /\ Len(s) \in Nat
      /\ Len(t) = new
      /\ \A i \in 1 .. Len(s) : t[i] = s[i]
      /\ t[new] = x
      /\ \A i \in 1 .. Len(t) : i \in 1 .. Len(s) \/ i = new
  BY AppendFacts, SeqFacts
<1>2. \A i \in 1 .. Len(s) : i \in 1 .. new /\ i # new /\ ~ (new <= i)
  BY <1>1
<1>3. new \in 1 .. new
  BY <1>1
<1>4. \A i \in R : t[i] = s[i] /\ ~ (new <= i)
  BY <1>1, <1>2 DEF Places
<1> HIDE DEF new
<1>5. CASE x \in P
  <2>1. Places(t, P) = R \cup {new}
    BY <1>1, <1>2, <1>3, <1>5 DEF Places
  <2>2. t[new][1] = "added" <=> next
    BY <1>1, <1>5
  <2> HIDE DEF t, R
  <2>3. EndsWith(t, R \cup {new}, next)
    BY <1>4, <2>2 DEF EndsWith
  <2>4. QED
    BY <2>1, <2>3 DEF t
<1>6. CASE x \notin P
  <2>1. Places(t, P) = R
    BY <1>1, <1>2, <1>3, <1>6 DEF Places
  <2>2. EndsWith(s, R, next)
    BY <1>6
  <2> HIDE DEF t, R
  <2>3. EndsWith(t, R, next)
    BY <1>4, <2>2 DEF EndsWith
  <2>4. QED
    BY <2>1, <2>3 DEF t
<1>7. QED
  BY <1>5, <1>6

\* Reading a response leaves the last one.
LEMMA EndsWithTail ==
  ASSUME NEW S, NEW s \in Seq(S), s # <<>>, NEW P, NEW watched \in BOOLEAN,
         EndsWith(s, Places(s, P), watched)
  PROVE  EndsWith(Tail(s), Places(Tail(s), P), watched)
<1> DEFINE R == Places(s, P)
           t == Tail(s)
           Q == Places(t, P)
<1>1. /\ Tail(s) \in Seq(S)
      /\ Len(s) \in Nat /\ Len(s) >= 1
      /\ \A i \in 1 .. Len(t) : i + 1 \in 1 .. Len(s) /\ t[i] = s[i + 1]
      /\ \A i \in 1 .. Len(s) : i = 1 \/ i - 1 \in 1 .. Len(t)
  BY TailFacts
<1>2. Len(t) \in Nat
  BY <1>1, SeqFacts
<1>3. \A i \in Q : i \in Nat /\ i + 1 \in R /\ t[i] = s[i + 1] /\ 1 <= i + 1
  <2>1. \A i \in 1 .. Len(t) : i \in Nat /\ 1 <= i + 1
    BY <1>2
  <2>2. QED
    BY <1>1, <2>1 DEF Places
<1>4. \A i \in R : i \in Nat /\ (i = 1 \/ i - 1 \in Q)
  BY <1>1 DEF Places
<1>5. EndsWith(s, R, watched)
  OBVIOUS
<1> HIDE DEF t, R, Q
<1>6. ASSUME NEW i \in Q, \A j \in Q : j <= i
      PROVE  t[i][1] = "added" <=> watched
  <2>1. \A j \in R : j # 1 => j - 1 <= i
    BY <1>4, <1>6
  <2>2. \A j \in R : j <= i + 1
    BY <1>3, <1>4, <2>1
  <2>3. QED
    BY <1>3, <1>5, <2>2 DEF EndsWith
<1>7. EndsWith(t, Q, watched)
  BY <1>6 DEF EndsWith
<1>8. QED
  BY <1>7 DEF t, Q

(***************************************************************************)
(* The stream and what is counted on it.                                   *)
(***************************************************************************)
\* Only an open stream has an idle timer, requests and responses.
StreamOK ==
  /\ stream.idle => stream.state = "Open"
  /\ stream.state # "Open" =>
       /\ stream.wire = <<>> /\ stream.replies = <<>> /\ stream.watching = {}
       /\ \A d \in Docs : aggregate[d] = Nothing

\* The aggregator waits for as many responses as there are requests the backend
\* has not seen and acknowledgements the client has not.
Counted ==
  stream.state = "Open" => \A d \in Docs \ Denied :
    /\ aggregate[d].outstanding = Cardinality(Places(stream.wire, RequestsFor(d)))
                                  + Cardinality(Places(stream.replies, AcksFor(d)))
    /\ Alternates(stream.wire, Places(stream.wire, RequestsFor(d)),
                  d \in stream.watching, d \in targets)
    /\ EndsWith(stream.replies, Places(stream.replies, AcksFor(d)), d \in stream.watching)

\* A hidden document is never watched, and its target never active.
Hidden ==
  \A d \in Denied :
    /\ d \notin server /\ d \notin stream.watching
    /\ stream.state = "Open" /\ d \in targets => aggregate[d].outstanding # 0

\* Hidden documents are refused, and nothing else is said of them.
Refusals(r) == \A i \in 1 .. Len(r) : r[i][1] = "denied" <=> r[i][2] \in Denied

RepliesOK == Refusals(stream.replies)

WatchOK ==
  /\ StreamOK
  /\ Counted
  /\ Hidden
  /\ RepliesOK

\* The fields of the stream, and of what is gathered.
LEMMA StreamFacts ==
  ASSUME TypeOK
  PROVE  /\ stream \in Stream /\ stream.idle \in BOOLEAN
         /\ stream.wire \in Seq(Request) /\ stream.replies \in Seq(Response)
         /\ stream.watching \in SUBSET Docs
         /\ aggregate \in [Docs -> Gathered]
         /\ \A d \in Docs : aggregate[d].outstanding \in Nat
         /\ tokens \in [Docs -> Nat]
         /\ Nothing \in Gathered
<1>1. \A d \in Docs : aggregate[d] \in Gathered
  BY DEF TypeOK
<1>2. Nothing \in Gathered
  BY DEF Nothing, Gathered
<1>3. QED
  BY <1>1, <1>2 DEF TypeOK, Stream, Gathered

\* A request is awaited.
LEMMA AwaitedFacts ==
  ASSUME NEW g \in Gathered
  PROVE  /\ Awaited(g) \in Gathered
         /\ Awaited(g).outstanding = g.outstanding + 1
         /\ Awaited(g).outstanding # 0
         /\ g.outstanding \in Nat
  BY DEF Awaited, Gathered

\* What leaves the stream alone.
LEMMA WatchAlone ==
  ASSUME WatchOK, UNCHANGED <<stream, aggregate, targets, server>>
  PROVE  WatchOK'
  BY DEF WatchOK, StreamOK, Counted, Hidden, RepliesOK, Refusals

\* A stream that is not open has nothing to count.
LEMMA NotOpen ==
  ASSUME WatchOK, stream' \in Stream, stream'.state # "Open", ~ stream'.idle,
         stream'.wire = <<>>, stream'.replies = <<>>, stream'.watching = {},
         aggregate' = [d \in Docs |-> Nothing],
         UNCHANGED server
  PROVE  WatchOK'
<1>1. \A d \in Docs : aggregate'[d] = Nothing
  OBVIOUS
<1>2. Denied \subseteq Docs
  BY FetchAssumption
<1>3. Len(stream'.replies) = 0
  BY EmptySeq
<1>4. RepliesOK'
  BY <1>3 DEF RepliesOK, Refusals
<1>5. StreamOK' /\ Counted' /\ Hidden'
  BY <1>1, <1>2 DEF WatchOK, StreamOK, Counted, Hidden
<1>6. QED
  BY <1>4, <1>5 DEF WatchOK

\* A request is sent and counted.
LEMMA RequestSent ==
  ASSUME TypeOK, WatchOK, stream.state = "Open",
         NEW kind \in {"watch", "unwatch"}, NEW d \in Docs, NEW idle \in BOOLEAN,
         kind = "watch" <=> d \notin targets,
         \A c \in Docs : c \in targets' <=> (IF c = d THEN c \notin targets ELSE c \in targets),
         stream' = [stream EXCEPT !.wire = Append(@, <<kind, d, tokens[d]>>), !.idle = idle],
         aggregate' = [aggregate EXCEPT ![d] = Awaited(@)],
         UNCHANGED server
  PROVE  stream' \in Stream /\ aggregate' \in [Docs -> Gathered] /\ WatchOK'
<1> DEFINE x == <<kind, d, tokens[d]>>
<1>1. /\ x \in Request /\ x[1] = kind /\ x \in RequestsFor(d)
      /\ \A c \in Docs : c # d => x \notin RequestsFor(c)
  BY DEF TypeOK, Request, RequestsFor
<1> HIDE DEF x
<1>2. /\ stream.wire \in Seq(Request) /\ stream.replies \in Seq(Response)
      /\ stream \in Stream
  BY StreamFacts
<1>3. Append(stream.wire, x) \in Seq(Request)
  BY <1>1, <1>2, AppendFacts
<1>4. stream' = [stream EXCEPT !.wire = Append(@, x), !.idle = idle]
  BY DEF x
<1>5. /\ stream' \in Stream
      /\ stream'.wire = Append(stream.wire, x) /\ stream'.idle = idle
      /\ stream'.state = stream.state /\ stream'.replies = stream.replies
      /\ stream'.watching = stream.watching
  BY <1>2, <1>3, <1>4 DEF Stream
<1>6. /\ aggregate' \in [Docs -> Gathered]
      /\ aggregate'[d] = Awaited(aggregate[d])
      /\ \A c \in Docs : c # d => aggregate'[c] = aggregate[c]
  <2>1. aggregate[d] \in Gathered /\ Awaited(aggregate[d]) \in Gathered
    BY StreamFacts, AwaitedFacts
  <2>2. QED
    BY <2>1, StreamFacts
<1>7. /\ aggregate[d].outstanding \in Nat
      /\ aggregate'[d].outstanding = aggregate[d].outstanding + 1
      /\ aggregate'[d].outstanding # 0
  <2>1. aggregate[d] \in Gathered
    BY StreamFacts
  <2>2. QED
    BY <1>6, <2>1, AwaitedFacts
<1>8. Counted'
  <2> SUFFICES ASSUME NEW c \in Docs \ Denied
      PROVE  /\ aggregate'[c].outstanding =
                  Cardinality(Places(Append(stream.wire, x), RequestsFor(c)))
                  + Cardinality(Places(stream.replies, AcksFor(c)))
             /\ Alternates(Append(stream.wire, x), Places(Append(stream.wire, x), RequestsFor(c)),
                           c \in stream.watching, c \in targets')
             /\ EndsWith(stream.replies, Places(stream.replies, AcksFor(c)), c \in stream.watching)
    BY <1>5 DEF Counted
  <2>1. /\ aggregate[c].outstanding = Cardinality(Places(stream.wire, RequestsFor(c)))
                                      + Cardinality(Places(stream.replies, AcksFor(c)))
        /\ Alternates(stream.wire, Places(stream.wire, RequestsFor(c)),
                      c \in stream.watching, c \in targets)
        /\ EndsWith(stream.replies, Places(stream.replies, AcksFor(c)), c \in stream.watching)
    BY DEF WatchOK, Counted
  <2>2. /\ Cardinality(Places(stream.wire, RequestsFor(c))) \in Nat
        /\ Cardinality(Places(stream.replies, AcksFor(c))) \in Nat
    BY <1>2, PlacesCount
  <2>3. Cardinality(Places(Append(stream.wire, x), RequestsFor(c))) =
          Cardinality(Places(stream.wire, RequestsFor(c)))
          + (IF x \in RequestsFor(c) THEN 1 ELSE 0)
    BY <1>1, <1>2, PlacesAppend
  <2>4. Alternates(Append(stream.wire, x), Places(Append(stream.wire, x), RequestsFor(c)),
                   c \in stream.watching, c \in targets')
    <3> DEFINE from == c \in stream.watching
               to == c \in targets
               next == c \in targets'
    <3>1. from \in BOOLEAN /\ to \in BOOLEAN /\ next \in BOOLEAN
      OBVIOUS
    <3>2. x \in RequestsFor(c) => (x[1] = "watch" <=> ~ to) /\ next = ~ to
      BY <1>1
    <3>3. x \notin RequestsFor(c) => next = to
      BY <1>1
    <3>4. Alternates(stream.wire, Places(stream.wire, RequestsFor(c)), from, to)
      BY <2>1
    <3> HIDE DEF from, to, next
    <3>5. Alternates(Append(stream.wire, x), Places(Append(stream.wire, x), RequestsFor(c)),
                     from, next)
      BY <1>1, <1>2, <3>1, <3>2, <3>3, <3>4, AlternatesAppend
    <3>6. QED
      BY <3>5 DEF from, next
  <2>5. aggregate'[c].outstanding =
          aggregate[c].outstanding + (IF x \in RequestsFor(c) THEN 1 ELSE 0)
    <3>1. CASE c = d
      BY <1>1, <1>7, <3>1
    <3>2. CASE c # d
      <4>1. x \notin RequestsFor(c) /\ aggregate'[c] = aggregate[c]
        BY <1>1, <1>6, <3>2
      <4>2. QED
        BY <2>1, <2>2, <4>1
    <3>3. QED
      BY <3>1, <3>2
  <2>6. QED
    <3> DEFINE a == Cardinality(Places(stream.wire, RequestsFor(c)))
               b == Cardinality(Places(stream.replies, AcksFor(c)))
               e == IF x \in RequestsFor(c) THEN 1 ELSE 0
    <3>1. e \in Nat
      OBVIOUS
    <3> HIDE DEF a, b, e
    <3>2. aggregate'[c].outstanding = (a + e) + b
      BY <2>1, <2>2, <2>5, <3>1 DEF a, b, e
    <3>3. QED
      BY <2>1, <2>3, <2>4, <3>2 DEF a, b, e
<1>9. Hidden'
  BY <1>5, <1>6, <1>7, FetchAssumption DEF WatchOK, Hidden
<1>10. StreamOK' /\ RepliesOK'
  BY <1>5 DEF WatchOK, StreamOK, RepliesOK, Refusals
<1>11. QED
  BY <1>5, <1>6, <1>8, <1>9, <1>10 DEF WatchOK

\* The targets in some order, each once.
LEMMA TargetsInSomeOrder ==
  ASSUME NEW T, IsFiniteSet(T)
  PROVE  /\ Cardinality(T) \in Nat
         /\ SetToSeq(T) \in [1 .. Cardinality(T) -> T]
         /\ DOMAIN SetToSeq(T) = 1 .. Cardinality(T)
         /\ \A i, j \in 1 .. Cardinality(T) : SetToSeq(T)[i] = SetToSeq(T)[j] => i = j
         /\ \A d \in T : \E i \in 1 .. Cardinality(T) : SetToSeq(T)[i] = d
<1> DEFINE n == Cardinality(T)
           s == SetToSeq(T)
<1>1. n \in Nat /\ ExistsBijection(1 .. n, T)
  BY FS_CardinalityType
<1>2. \E f \in [1 .. n -> T] : IsInjective(f)
  BY <1>1 DEF ExistsBijection, Bijection, Injection
<1>3. s \in [1 .. n -> T] /\ IsInjective(s)
  BY <1>2 DEF SetToSeq
<1> HIDE DEF s
<1>4. \A i, j \in 1 .. n : s[i] = s[j] => i = j
  BY <1>3 DEF IsInjective
<1>5. s \in Surjection(1 .. n, T)
  <2>1. s \in Injection(1 .. n, T)
    BY <1>3, <1>4 DEF Injection, IsInjective
  <2>2. 1 \in Int /\ n \in Int
    BY <1>1
  <2>3. IsFiniteSet(1 .. n) /\ Cardinality(1 .. n) = n
    BY <1>1, <2>2, FS_Interval
  <2>4. s \in Surjection(1 .. n, T) <=> Cardinality(1 .. n) = Cardinality(T)
    BY <2>1, FS_Injection
  <2>5. QED
    BY <2>3, <2>4
<1>6. \A d \in T : \E i \in 1 .. n : s[i] = d
  BY <1>5 DEF Surjection
<1>7. QED
  BY <1>1, <1>3, <1>4, <1>6 DEF s

\* An element at one place only.
LEMMA OnePlace ==
  ASSUME NEW S, NEW s \in Seq(S), NEW P, NEW i \in 1 .. Len(s),
         s[i] \in P, \A j \in 1 .. Len(s) : s[j] \in P => j = i
  PROVE  Places(s, P) = {i} /\ Cardinality(Places(s, P)) = 1
<1>1. Places(s, P) = {i}
  BY DEF Places
<1>2. Cardinality({i}) = 1
  BY FS_Singleton
<1>3. QED
  BY <1>1, <1>2

\* On the stream that opens every target is watched, and awaited, once.
LEMMA OpenStep ==
  ASSUME TypeOK, WatchOK, OnWatchStreamOpen, IsFiniteSet(targets)
  PROVE  stream' \in Stream /\ aggregate' \in [Docs -> Gathered] /\ WatchOK'
<1> DEFINE n == Cardinality(targets)
           order == SetToSeq(targets)
           w == [i \in DOMAIN order |-> <<"watch", order[i], tokens[order[i]]>>]
<1>1. /\ stream.state = "Starting"
      /\ stream' = [stream EXCEPT !.state = "Open", !.wire = w]
      /\ aggregate' = [d \in Docs |-> IF d \in targets THEN Awaited(aggregate[d])
                                      ELSE aggregate[d]]
      /\ UNCHANGED <<targets, server>>
  BY DEF OnWatchStreamOpen, serverVars
<1>2. /\ n \in Nat /\ DOMAIN order = 1 .. n
      /\ \A i \in 1 .. n : order[i] \in targets
      /\ \A i, j \in 1 .. n : order[i] = order[j] => i = j
      /\ \A d \in targets : \E i \in 1 .. n : order[i] = d
  BY TargetsInSomeOrder
<1>3. targets \subseteq Docs /\ \A d \in Docs : tokens[d] \in Nat
  BY DEF TypeOK
<1> HIDE DEF order, n
<1>4. /\ w \in [1 .. n -> Request]
      /\ \A i \in 1 .. n : w[i][1] = "watch" /\ w[i][2] = order[i]
      /\ \A i \in 1 .. n : w[i] \in RequestsFor(order[i])
  BY <1>2, <1>3 DEF Request, RequestsFor
<1>5. w \in Seq(Request) /\ Len(w) = n
  BY <1>2, <1>4, FunctionIsSeq
<1> HIDE DEF w
<1>6. \A d : \A i \in 1 .. n : w[i] \in RequestsFor(d) <=> order[i] = d
  <2>1. \A d : \A x \in RequestsFor(d) : x[2] = d
    BY DEF RequestsFor
  <2>2. QED
    BY <1>4, <2>1
<1>7. /\ ~ stream.idle /\ stream.wire = <<>> /\ stream.replies = <<>> /\ stream.watching = {}
      /\ \A d \in Docs : aggregate[d] = Nothing
  BY <1>1, StreamFacts DEF WatchOK, StreamOK
<1>8. /\ stream' \in Stream
      /\ stream'.state = "Open" /\ ~ stream'.idle /\ stream'.wire = w
      /\ stream'.replies = <<>> /\ stream'.watching = {}
  BY <1>1, <1>5, <1>7, StreamFacts DEF Stream
<1>9. /\ aggregate' \in [Docs -> Gathered]
      /\ \A d \in Docs : aggregate'[d].outstanding = IF d \in targets THEN 1 ELSE 0
  <2>1. Awaited(Nothing) \in Gathered /\ Awaited(Nothing).outstanding = 1
        /\ Nothing.outstanding = 0
    <3>1. Nothing \in Gathered /\ Nothing.outstanding = 0
      BY DEF Nothing, Gathered
    <3>2. QED
      BY <3>1, AwaitedFacts
  <2>2. \A d \in Docs : aggregate'[d] = IF d \in targets THEN Awaited(Nothing) ELSE Nothing
    BY <1>1, <1>7
  <2>3. QED
    BY <1>1, <2>1, <2>2, StreamFacts
<1>10. \A P : Places(<<>>, P) = {} /\ Cardinality(Places(<<>>, P)) = 0
  <2>1. Len(<<>>) = 0
    BY EmptySeq
  <2>2. \A P : Places(<<>>, P) = {}
    BY <2>1 DEF Places
  <2>3. QED
    BY <2>2, FS_EmptySet
<1>11. ASSUME NEW d \in Docs
       PROVE  /\ Cardinality(Places(w, RequestsFor(d))) = IF d \in targets THEN 1 ELSE 0
              /\ Alternates(w, Places(w, RequestsFor(d)), FALSE, d \in targets)
  <2>1. CASE d \in targets
    <3>1. PICK i \in 1 .. n : order[i] = d
      BY <1>2, <2>1
    <3>2. w[i] \in RequestsFor(d) /\ \A j \in 1 .. Len(w) : w[j] \in RequestsFor(d) => j = i
      BY <1>2, <1>5, <1>6, <3>1
    <3>3. Places(w, RequestsFor(d)) = {i} /\ Cardinality(Places(w, RequestsFor(d))) = 1
      BY <1>5, <3>2, OnePlace
    <3>4. w[i][1] = "watch" /\ i \in Nat
      BY <1>4
    <3>5. Alternates(w, {i}, FALSE, TRUE)
      BY <3>4 DEF Alternates
    <3>6. QED
      BY <2>1, <3>3, <3>5
  <2>2. CASE d \notin targets
    <3>1. Places(w, RequestsFor(d)) = {}
      BY <1>2, <1>5, <1>6, <2>2 DEF Places
    <3>2. Cardinality(Places(w, RequestsFor(d))) = 0
      BY <3>1, FS_EmptySet
    <3> DEFINE to == d \in targets
    <3>3. to = FALSE
      BY <2>2
    <3> HIDE DEF to
    <3>4. Alternates(w, {}, FALSE, to)
      BY <3>3 DEF Alternates
    <3>5. Alternates(w, Places(w, RequestsFor(d)), FALSE, d \in targets)
      BY <3>1, <3>4, Zenon DEF to
    <3>6. QED
      BY <2>2, <3>2, <3>5
  <2>3. QED
    BY <2>1, <2>2
<1>12. Counted'
  <2> SUFFICES ASSUME NEW d \in Docs \ Denied
      PROVE  /\ aggregate'[d].outstanding = Cardinality(Places(w, RequestsFor(d)))
                                            + Cardinality(Places(<<>>, AcksFor(d)))
             /\ Alternates(w, Places(w, RequestsFor(d)), d \in {}, d \in targets)
             /\ EndsWith(<<>>, Places(<<>>, AcksFor(d)), d \in {})
    BY <1>1, <1>8 DEF Counted
  <2>1. EndsWith(<<>>, Places(<<>>, AcksFor(d)), d \in {})
    BY <1>10 DEF EndsWith
  <2>2. aggregate'[d].outstanding = Cardinality(Places(w, RequestsFor(d)))
                                    + Cardinality(Places(<<>>, AcksFor(d)))
    <3> DEFINE a == Cardinality(Places(w, RequestsFor(d)))
               b == Cardinality(Places(<<>>, AcksFor(d)))
    <3>1. a = (IF d \in targets THEN 1 ELSE 0) /\ b = 0
      BY <1>10, <1>11
    <3> HIDE DEF a, b
    <3>2. aggregate'[d].outstanding = a + b
      BY <1>9, <3>1
    <3>3. QED
      BY <3>2 DEF a, b
  <2> DEFINE from == d \in {}
             to == d \in targets
  <2>3. from = FALSE
    OBVIOUS
  <2>4. Alternates(w, Places(w, RequestsFor(d)), FALSE, to)
    BY <1>11
  <2> HIDE DEF from, to
  <2>5. Alternates(w, Places(w, RequestsFor(d)), from, to)
    BY <2>3, <2>4
  <2>6. QED
    BY <2>1, <2>2, <2>5 DEF from, to
<1>13. Hidden'
  BY <1>1, <1>8, <1>9, FetchAssumption DEF WatchOK, Hidden
<1>14. RepliesOK'
  <2>1. Len(stream'.replies) = 0
    BY <1>8, EmptySeq
  <2>2. QED
    BY <2>1 DEF RepliesOK, Refusals
<1>15. StreamOK'
  BY <1>8 DEF StreamOK
<1>16. QED
  BY <1>8, <1>9, <1>12, <1>13, <1>14, <1>15 DEF WatchOK

\* Longer replies that acknowledge and refuse nothing more.
SaysNoMore(r, q) ==
  /\ q \in Seq(Response)
  /\ Refusals(q)
  /\ \A c : /\ Cardinality(Places(q, AcksFor(c))) = Cardinality(Places(r, AcksFor(c)))
            /\ \A watched \in BOOLEAN :
                 EndsWith(r, Places(r, AcksFor(c)), watched) =>
                   EndsWith(q, Places(q, AcksFor(c)), watched)

\* One more response is refused or not as it should be.
LEMMA RefusalsAppend ==
  ASSUME NEW r \in Seq(Response), Refusals(r), NEW x \in Response,
         x[1] = "denied" <=> x[2] \in Denied
  PROVE  Append(r, x) \in Seq(Response) /\ Refusals(Append(r, x))
<1>1. /\ Append(r, x) \in Seq(Response)
      /\ \A i \in 1 .. Len(r) : Append(r, x)[i] = r[i]
      /\ Append(r, x)[Len(r) + 1] = x
      /\ \A i \in 1 .. Len(Append(r, x)) : i \in 1 .. Len(r) \/ i = Len(r) + 1
  BY AppendFacts
<1>2. QED
  BY <1>1 DEF Refusals

\* Such a response is an update, a current or a snapshot.
LEMMA SayMore ==
  ASSUME NEW r \in Seq(Response), Refusals(r), NEW x \in Response,
         x[1] \notin {"added", "removed"}, x[1] = "denied" <=> x[2] \in Denied
  PROVE  SaysNoMore(r, Append(r, x))
<1>1. \A c : x \notin AcksFor(c)
  BY DEF AcksFor
<1>2. Append(r, x) \in Seq(Response) /\ Refusals(Append(r, x))
  BY RefusalsAppend
<1>3. ASSUME NEW c
      PROVE  Cardinality(Places(Append(r, x), AcksFor(c))) = Cardinality(Places(r, AcksFor(c)))
  <2>1. Cardinality(Places(r, AcksFor(c))) \in Nat
    BY PlacesCount
  <2>2. Cardinality(Places(Append(r, x), AcksFor(c))) = Cardinality(Places(r, AcksFor(c))) + 0
    BY <1>1, PlacesAppend
  <2>3. QED
    BY <2>1, <2>2
<1>4. ASSUME NEW c, NEW watched \in BOOLEAN, EndsWith(r, Places(r, AcksFor(c)), watched)
      PROVE  EndsWith(Append(r, x), Places(Append(r, x), AcksFor(c)), watched)
  BY <1>1, <1>4, EndsWithAppend
<1>5. QED
  BY <1>2, <1>3, <1>4 DEF SaysNoMore

\* One after the other.
LEMMA SayMoreAndMore ==
  ASSUME NEW r, NEW q, NEW p, SaysNoMore(r, q), SaysNoMore(q, p)
  PROVE  SaysNoMore(r, p)
  BY DEF SaysNoMore

\* An update, if there is one.
LEMMA UpdateSaysNoMore ==
  ASSUME NEW r \in Seq(Response), Refusals(r), NEW d \in Docs \ Denied, NEW u, NEW v \in Nat,
         u = <<>> \/ \E kind \in {"document", "delete"} : u = <<<<kind, d, v>>>>
  PROVE  SaysNoMore(r, r \o u)
<1>1. CASE u = <<>>
  <2>1. r \o u = r
    BY <1>1, ConcatEmptySeq
  <2>2. QED
    BY <2>1 DEF SaysNoMore
<1>2. CASE u # <<>>
  <2>1. PICK kind \in {"document", "delete"} : u = <<<<kind, d, v>>>>
    BY <1>2
  <2> DEFINE x == <<kind, d, v>>
  <2>2. x \in Response /\ x[1] \notin {"added", "removed"} /\ (x[1] = "denied" <=> x[2] \in Denied)
    BY DEF Response
  <2>3. u = <<x>>
    BY <2>1
  <2> HIDE DEF x
  <2>4. r \o u = Append(r, x)
    BY <2>2, <2>3, AppendIsConcat
  <2>5. QED
    BY <2>2, <2>4, SayMore
<1>3. QED
  BY <1>1, <1>2

\* What is said when a watch is served.
LEMMA WatchSaid ==
  ASSUME NEW r \in Seq(Response), Refusals(r), NEW d \in Docs \ Denied, NEW u, NEW at \in Nat, NEW v \in Nat,
         u = <<>> \/ \E kind \in {"document", "delete"} : u = <<<<kind, d, v>>>>
  PROVE  /\ <<"added", d, 0>> \in Response
         /\ Append(r, <<"added", d, 0>>) \in Seq(Response)
         /\ SaysNoMore(Append(r, <<"added", d, 0>>),
                       r \o <<<<"added", d, 0>>>> \o u \o <<<<"current", d, 0>>>>
                         \o <<<<"snapshot", d, at>>>>)
<1> DEFINE x == <<"added", d, 0>>
           y == <<"current", d, 0>>
           z == <<"snapshot", d, at>>
<1>1. /\ x \in Response /\ (x[1] = "denied" <=> x[2] \in Denied)
      /\ y \in Response /\ (y[1] = "denied" <=> y[2] \in Denied)
      /\ y[1] \notin {"added", "removed"}
      /\ z \in Response /\ (z[1] = "denied" <=> z[2] \in Denied)
      /\ z[1] \notin {"added", "removed"}
  BY DEF Response
<1> HIDE DEF x, y, z
<1> DEFINE p == Append(r, x)
           q == p \o u
           s == Append(q, y)
           t == Append(s, z)
<1>2. p \in Seq(Response) /\ Refusals(p)
  BY <1>1, RefusalsAppend
<1>3. p = r \o <<x>>
  BY <1>1, AppendIsConcat
<1> HIDE DEF p
<1>4. SaysNoMore(p, q)
  BY <1>2, UpdateSaysNoMore
<1>5. q \in Seq(Response) /\ Refusals(q)
  BY <1>4 DEF SaysNoMore
<1>6. s = q \o <<y>>
  BY <1>1, <1>5, AppendIsConcat
<1> HIDE DEF q
<1>7. SaysNoMore(q, s)
  BY <1>1, <1>5, SayMore
<1>8. s \in Seq(Response) /\ Refusals(s)
  BY <1>7 DEF SaysNoMore
<1>9. t = s \o <<z>>
  BY <1>1, <1>8, AppendIsConcat
<1> HIDE DEF s
<1>10. SaysNoMore(s, t)
  BY <1>1, <1>8, SayMore
<1> HIDE DEF t
<1>11. SaysNoMore(p, t)
  BY <1>4, <1>7, <1>10, SayMoreAndMore
<1>12. t = r \o <<x>> \o u \o <<y>> \o <<z>>
  BY <1>3, <1>6, <1>9 DEF q
<1>13. QED
  BY <1>1, <1>2, <1>11, <1>12 DEF p, x, y, z

\* A change elsewhere is an update and a snapshot.
LEMMA ChangeSaid ==
  ASSUME NEW r \in Seq(Response), Refusals(r), NEW d \in Docs \ Denied, NEW u, NEW at \in Nat, NEW v \in Nat,
         u = <<>> \/ \E kind \in {"document", "delete"} : u = <<<<kind, d, v>>>>
  PROVE  SaysNoMore(r, r \o u \o <<<<"snapshot", d, at>>>>)
<1> DEFINE z == <<"snapshot", d, at>>
           q == r \o u
<1>1. /\ z \in Response /\ (z[1] = "denied" <=> z[2] \in Denied)
      /\ z[1] \notin {"added", "removed"}
  BY DEF Response
<1> HIDE DEF z
<1>2. SaysNoMore(r, q)
  BY UpdateSaysNoMore
<1> HIDE DEF q
<1>3. q \in Seq(Response) /\ Refusals(q)
  BY <1>2 DEF SaysNoMore
<1>4. Append(q, z) = q \o <<z>>
  BY <1>1, <1>3, AppendIsConcat
<1>5. SaysNoMore(q, Append(q, z))
  BY <1>1, <1>3, SayMore
<1>6. SaysNoMore(r, q \o <<z>>)
  BY <1>2, <1>4, <1>5, SayMoreAndMore
<1>7. QED
  BY <1>6 DEF q, z

\* A request is served: what it was counted for becomes an acknowledgement.
LEMMA RequestServed ==
  ASSUME TypeOK, WatchOK, stream.wire # <<>>,
         NEW d \in Docs \ Denied, NEW kind \in {"watch", "unwatch"}, NEW x \in Response, NEW q,
         Head(stream.wire) \in RequestsFor(d), Head(stream.wire)[1] = kind,
         x = <<IF kind = "watch" THEN "added" ELSE "removed", d, 0>>,
         SaysNoMore(Append(stream.replies, x), q),
         NEW watching \in SUBSET Docs,
         \A c \in Docs : c \in watching <=> (IF c = d THEN kind = "watch" ELSE c \in stream.watching),
         stream' = [stream EXCEPT !.wire = Tail(@), !.replies = q, !.watching = watching],
         UNCHANGED <<aggregate, targets, server>>
  PROVE  stream' \in Stream /\ WatchOK'
<1> DEFINE h == Head(stream.wire)
           p == Append(stream.replies, x)
<1>1. /\ stream \in Stream /\ stream.wire \in Seq(Request) /\ stream.replies \in Seq(Response)
      /\ h \in Request /\ Tail(stream.wire) \in Seq(Request)
  BY StreamFacts, TailFacts
<1>2. /\ stream' \in Stream /\ stream'.wire = Tail(stream.wire) /\ stream'.replies = q
      /\ stream'.watching = watching /\ stream'.state = stream.state /\ stream'.idle = stream.idle
  BY <1>1 DEF Stream, SaysNoMore
<1>3. stream.state = "Open"
  BY DEF WatchOK, StreamOK
<1>4. /\ x \in AcksFor(d) /\ (x[1] = "added" <=> kind = "watch")
      /\ \A c \in Docs : c # d => h \notin RequestsFor(c) /\ x \notin AcksFor(c)
  BY DEF RequestsFor, AcksFor
<1>5. h \in RequestsFor(d) /\ h[1] = kind
  OBVIOUS
<1> HIDE DEF h, p
<1>6. p \in Seq(Response)
  BY <1>1, AppendFacts DEF p
<1>7. Counted'
  <2> SUFFICES ASSUME NEW c \in Docs \ Denied
      PROVE  /\ aggregate[c].outstanding = Cardinality(Places(Tail(stream.wire), RequestsFor(c)))
                                           + Cardinality(Places(q, AcksFor(c)))
             /\ Alternates(Tail(stream.wire), Places(Tail(stream.wire), RequestsFor(c)),
                           c \in watching, c \in targets)
             /\ EndsWith(q, Places(q, AcksFor(c)), c \in watching)
    BY <1>2 DEF Counted
  <2> DEFINE a == Cardinality(Places(stream.wire, RequestsFor(c)))
             a2 == Cardinality(Places(Tail(stream.wire), RequestsFor(c)))
             b == Cardinality(Places(stream.replies, AcksFor(c)))
             b2 == Cardinality(Places(p, AcksFor(c)))
             from == c \in stream.watching
             next == c \in watching
             to == c \in targets
             w == stream.wire
             r == stream.replies
  <2>1. /\ aggregate[c].outstanding = a + b
        /\ Alternates(w, Places(w, RequestsFor(c)), from, to)
        /\ EndsWith(r, Places(r, AcksFor(c)), from)
    BY <1>3 DEF WatchOK, Counted
  <2>2. /\ from \in BOOLEAN /\ to \in BOOLEAN /\ next \in BOOLEAN
    OBVIOUS
  <2>3. a \in Nat /\ b \in Nat /\ a2 \in Nat /\ b2 \in Nat
    BY <1>1, <1>6, PlacesCount
  <2>4. a = a2 + (IF h \in RequestsFor(c) THEN 1 ELSE 0)
    BY <1>1, PlacesTail DEF h
  <2>5. b2 = b + (IF x \in AcksFor(c) THEN 1 ELSE 0)
    BY <1>1, PlacesAppend DEF p
  <2>6. h \in RequestsFor(c) <=> x \in AcksFor(c)
    BY <1>4, <1>5
  <2>7. Cardinality(Places(q, AcksFor(c))) = b2
    BY DEF SaysNoMore, p
  <2>8. aggregate[c].outstanding = a2 + b2
    <3> HIDE DEF a, a2, b, b2
    <3>1. CASE h \in RequestsFor(c)
      BY <2>1, <2>3, <2>4, <2>5, <2>6, <3>1
    <3>2. CASE h \notin RequestsFor(c)
      BY <2>1, <2>3, <2>4, <2>5, <2>6, <3>2
    <3>3. QED
      BY <3>1, <3>2
  <2>9. h \notin RequestsFor(c) => next = from
    BY <1>5
  <2>10. x \in AcksFor(c) => (x[1] = "added" <=> next)
    BY <1>4
  <2>11. x \notin AcksFor(c) => next = from
    BY <1>4
  <2>12. h \in RequestsFor(c) => (next <=> h[1] = "watch")
    BY <1>4, <1>5
  <2> HIDE DEF from, to, next
  <2>13. h \in RequestsFor(c) => (h[1] = "watch" <=> ~ from)
    <3> DEFINE other == IF h \in RequestsFor(c) THEN ~ from ELSE from
    <3>1. other \in BOOLEAN /\ (h \in RequestsFor(c) => other = ~ from)
          /\ (h \notin RequestsFor(c) => other = from)
      BY <2>2
    <3> HIDE DEF other
    <3>2. QED
      BY <1>1, <2>1, <2>2, <3>1, AlternatesTail DEF h
  <2>14. h \in RequestsFor(c) => next = ~ from
    BY <2>2, <2>12, <2>13
  <2>15. Alternates(Tail(w), Places(Tail(w), RequestsFor(c)), next, to)
    BY <1>1, <2>1, <2>2, <2>9, <2>14, AlternatesTail DEF h
  <2>16. EndsWith(p, Places(p, AcksFor(c)), next)
    BY <1>1, <2>1, <2>2, <2>10, <2>11, EndsWithAppend DEF p
  <2>17. EndsWith(q, Places(q, AcksFor(c)), next)
    BY <2>2, <2>16 DEF SaysNoMore, p
  <2>18. QED
    BY <2>7, <2>8, <2>15, <2>17 DEF to, next
<1>8. Hidden'
  BY <1>2, FetchAssumption DEF WatchOK, Hidden
<1>9. StreamOK' /\ RepliesOK'
  BY <1>2, <1>3 DEF WatchOK, StreamOK, RepliesOK, SaysNoMore
<1>10. QED
  BY <1>2, <1>7, <1>8, <1>9 DEF WatchOK

\* An update is at most one response.
LEMMA UpdateIsOne ==
  ASSUME NEW d, NEW there, NEW token
  PROVE  \/ Update(d, there, token) = <<>>
         \/ \E kind \in {"document", "delete"} :
              Update(d, there, token) = <<<<kind, d, changed'[d]>>>>
  BY DEF Update

\* A request for a hidden document is not acknowledged.
LEMMA SkipRequest ==
  ASSUME TypeOK, WatchOK, stream.wire # <<>>, stream.state = "Open",
         NEW d \in Denied, Head(stream.wire)[2] = d,
         NEW q, SaysNoMore(stream.replies, q),
         stream' \in Stream, stream'.wire = Tail(stream.wire), stream'.replies = q,
         stream'.state = "Open", stream'.idle = stream.idle,
         stream'.watching = stream.watching,
         UNCHANGED <<aggregate, targets, server>>
  PROVE  WatchOK'
<1> DEFINE h == Head(stream.wire)
<1>1. \A c \in Docs \ Denied : h \notin RequestsFor(c)
  BY DEF RequestsFor
<1>2. stream.wire \in Seq(Request) /\ Tail(stream.wire) \in Seq(Request)
  BY StreamFacts, TailFacts
<1> HIDE DEF h
<1>3. Counted'
  <2> SUFFICES ASSUME NEW c \in Docs \ Denied
      PROVE  /\ aggregate[c].outstanding = Cardinality(Places(Tail(stream.wire), RequestsFor(c)))
                                           + Cardinality(Places(q, AcksFor(c)))
             /\ Alternates(Tail(stream.wire), Places(Tail(stream.wire), RequestsFor(c)),
                           c \in stream.watching, c \in targets)
             /\ EndsWith(q, Places(q, AcksFor(c)), c \in stream.watching)
    BY DEF Counted
  <2> DEFINE from == c \in stream.watching
             to == c \in targets
             w == stream.wire
             r == stream.replies
             a == Cardinality(Places(w, RequestsFor(c)))
             a2 == Cardinality(Places(Tail(w), RequestsFor(c)))
             b == Cardinality(Places(r, AcksFor(c)))
  <2>1. /\ aggregate[c].outstanding = a + b
        /\ Alternates(w, Places(w, RequestsFor(c)), from, to)
        /\ EndsWith(r, Places(r, AcksFor(c)), from)
    BY DEF WatchOK, Counted
  <2>2. from \in BOOLEAN /\ to \in BOOLEAN
    OBVIOUS
  <2>3. h \notin RequestsFor(c)
    BY <1>1
  <2>4. a2 = a
    <3>1. a2 \in Nat
      BY <1>2, PlacesCount
    <3>2. a = a2 + 0
      BY <1>2, <2>3, PlacesTail DEF h
    <3>3. QED
      BY <3>1, <3>2
  <2>5. Cardinality(Places(q, AcksFor(c))) = b
    BY DEF SaysNoMore
  <2> HIDE DEF from, to
  <2>6. Alternates(Tail(w), Places(Tail(w), RequestsFor(c)), from, to)
    BY <1>2, <2>1, <2>2, <2>3, AlternatesTail DEF h
  <2>7. EndsWith(q, Places(q, AcksFor(c)), from)
    BY <2>1, <2>2 DEF SaysNoMore
  <2>8. QED
    BY <2>1, <2>4, <2>5, <2>6, <2>7 DEF from, to
<1>4. Hidden'
  BY FetchAssumption DEF WatchOK, Hidden
<1>5. StreamOK' /\ RepliesOK'
  BY DEF WatchOK, StreamOK, RepliesOK, SaysNoMore
<1>6. QED
  BY <1>3, <1>4, <1>5 DEF WatchOK

\* The backend is asked for what it does not serve yet, and to end what it does.
LEMMA NextRequest ==
  ASSUME TypeOK, WatchOK, stream.wire # <<>>, stream.state = "Open",
         NEW d \in Docs \ Denied, Head(stream.wire) \in RequestsFor(d)
  PROVE  Head(stream.wire)[1] = "watch" <=> d \notin stream.watching
<1> DEFINE from == d \in stream.watching
           to == d \in targets
           other == d \notin stream.watching
           P == RequestsFor(d)
           w == stream.wire
<1>1. /\ from \in BOOLEAN /\ to \in BOOLEAN /\ other \in BOOLEAN
      /\ Head(w) \in P => other = ~ from
      /\ Head(w) \notin P => other = from
  OBVIOUS
<1>2. Alternates(w, Places(w, P), from, to)
  BY DEF WatchOK, Counted
<1>3. w \in Seq(Request) /\ w # <<>> /\ Head(w) \in P
  BY StreamFacts
<1> HIDE DEF from, to, other, P, w
<1>4. Head(w)[1] = "watch" <=> ~ from
  BY <1>1, <1>2, <1>3, AlternatesTail
<1>5. QED
  BY <1>4 DEF from, w

\* The backend answers a request it can: an acknowledgement each, or a refusal.
LEMMA ServeStep ==
  ASSUME TypeOK, WatchOK, Serve
  PROVE  stream' \in Stream /\ WatchOK'
<1> DEFINE h == Head(stream.wire)
           kind == h[1]
           d == h[2]
<1>1. /\ stream.wire # <<>> /\ UNCHANGED <<aggregate, targets, server, changed, clock>>
  BY DEF Serve, serverVars
<1>2. /\ stream \in Stream /\ stream.wire \in Seq(Request) /\ stream.replies \in Seq(Response)
      /\ stream.watching \in SUBSET Docs
      /\ h \in Request /\ Tail(stream.wire) \in Seq(Request)
  BY <1>1, StreamFacts, TailFacts
<1>3. /\ kind \in {"watch", "unwatch"} /\ d \in Docs /\ h \in RequestsFor(d)
      /\ \A c : h \in RequestsFor(c) => c = d
  BY <1>2 DEF Request, RequestsFor
<1>4. stream.state = "Open" /\ Refusals(stream.replies)
  BY <1>1 DEF WatchOK, StreamOK, RepliesOK
<1>5. clock' \in Nat
  BY <1>1 DEF TypeOK
<1>6. CASE d \in Denied
  <2>1. d \notin stream.watching
    BY <1>6 DEF WatchOK, Hidden
  <2>2. CASE kind = "watch"
    <3> DEFINE x == <<"denied", d, 0>>
               q == Append(stream.replies, x)
    <3>1. stream' = [stream EXCEPT !.wire = Tail(@), !.replies = q]
      BY <1>6, <2>2 DEF Serve
    <3>2. x \in Response /\ x[1] = "denied" /\ x[2] = d /\ x[1] \notin {"added", "removed"}
      BY <1>3 DEF Response
    <3> HIDE DEF x
    <3>3. SaysNoMore(stream.replies, q)
      BY <1>2, <1>4, <1>6, <3>2, SayMore
    <3> HIDE DEF q
    <3>4. /\ stream' \in Stream /\ stream'.wire = Tail(stream.wire) /\ stream'.replies = q
          /\ stream'.state = "Open" /\ stream'.idle = stream.idle
          /\ stream'.watching = stream.watching
      BY <1>2, <1>4, <3>1, <3>3 DEF Stream, SaysNoMore
    <3>5. QED
      BY <3>3, <3>4, <1>1, <1>2, <1>3, <1>4, <1>6, SkipRequest
  <2>3. CASE kind # "watch"
    <3>1. stream' = [stream EXCEPT !.wire = Tail(@)]
      BY <2>1, <2>3 DEF Serve
    <3>2. /\ stream' \in Stream /\ stream'.wire = Tail(stream.wire)
          /\ stream'.replies = stream.replies
          /\ stream'.state = "Open" /\ stream'.idle = stream.idle
          /\ stream'.watching = stream.watching
      BY <1>2, <1>4, <3>1 DEF Stream
    <3>3. SaysNoMore(stream.replies, stream.replies)
      BY <1>2, <1>4 DEF SaysNoMore
    <3>4. QED
      BY <3>2, <3>3, <1>1, <1>2, <1>3, <1>4, <1>6, SkipRequest
  <2>4. QED
    BY <2>2, <2>3
<1>7. CASE d \notin Denied
  <2>1. CASE kind = "watch"
    <3> DEFINE x == <<"added", d, 0>>
               u == Update(d, d \in server, h[3])
               at == clock'
               v == changed'[d]
               q == stream.replies \o <<x>> \o u \o <<<<"current", d, 0>>>>
                      \o <<<<"snapshot", d, at>>>>
               watching == stream.watching \cup {d}
    <3>1. stream' = [stream EXCEPT !.wire = Tail(@), !.replies = q, !.watching = watching]
      <4>1. stream' = [[stream EXCEPT !.wire = Tail(@)] EXCEPT !.watching = @ \cup {d},
                         !.replies = @ \o <<x>> \o u \o <<<<"current", d, 0>>>> \o Snapshot(d)]
        BY <1>7, <2>1 DEF Serve
      <4>2. Snapshot(d) = <<<<"snapshot", d, at>>>>
        BY DEF Snapshot
      <4> HIDE DEF u, x, at
      <4>3. QED
        BY <1>2, <4>1, <4>2 DEF Stream
    <3>2. v \in Nat /\ (u = <<>> \/ \E k \in {"document", "delete"} : u = <<<<k, d, v>>>>)
      BY <1>1, <1>3, UpdateIsOne DEF TypeOK
    <3> HIDE DEF u, v
    <3>3. x \in Response /\ SaysNoMore(Append(stream.replies, x), q)
      BY <1>2, <1>3, <1>4, <1>5, <1>7, <3>2, WatchSaid
    <3>4. /\ watching \in SUBSET Docs
          /\ \A c \in Docs : c \in watching <=> (IF c = d THEN kind = "watch"
                                                 ELSE c \in stream.watching)
      BY <1>2, <1>3, <2>1
    <3>5. x = <<IF kind = "watch" THEN "added" ELSE "removed", d, 0>>
      BY <2>1
    <3>6. h \in RequestsFor(d) /\ h[1] = kind /\ d \in Docs \ Denied
      BY <1>3, <1>7
    <3>7. kind \in {"watch", "unwatch"} /\ stream.wire # <<>>
          /\ UNCHANGED <<aggregate, targets, server>>
      BY <1>1, <1>3
    <3>8. Head(stream.wire) = h
      OBVIOUS
    <3> HIDE DEF x, q, watching, kind, d, h
    <3>9. QED
      BY <3>1, <3>3, <3>4, <3>5, <3>6, <3>7, <3>8, RequestServed, Zenon
  <2>2. CASE kind = "unwatch"
    <3>1. d \in stream.watching
      BY <1>1, <1>3, <1>4, <1>7, <2>2, NextRequest
    <3> DEFINE x == <<"removed", d, 0>>
               q == Append(stream.replies, x)
               watching == stream.watching \ {d}
    <3>2. stream' = [stream EXCEPT !.wire = Tail(@), !.replies = q, !.watching = watching]
      <4>1. stream' = [[stream EXCEPT !.wire = Tail(@)] EXCEPT !.watching = @ \ {d},
                         !.replies = Append(@, x)]
        BY <2>2, <3>1 DEF Serve
      <4> HIDE DEF x
      <4>2. QED
        BY <1>2, <4>1 DEF Stream
    <3>3. x \in Response /\ x[1] = "removed" /\ x[2] = d
      BY <1>3 DEF Response
    <3>4. /\ watching \in SUBSET Docs
          /\ \A c \in Docs : c \in watching <=> (IF c = d THEN kind = "watch"
                                                 ELSE c \in stream.watching)
      BY <1>2, <1>3, <2>2
    <3>5. x = <<IF kind = "watch" THEN "added" ELSE "removed", d, 0>>
      BY <2>2
    <3>6. h \in RequestsFor(d) /\ h[1] = kind /\ d \in Docs \ Denied
      BY <1>3, <1>7
    <3> HIDE DEF x
    <3>7. SaysNoMore(q, q)
      <4>1. q \in Seq(Response) /\ Refusals(q)
        BY <1>2, <1>4, <1>7, <3>3, RefusalsAppend
      <4>2. QED
        BY <4>1 DEF SaysNoMore
    <3>8. kind \in {"watch", "unwatch"} /\ stream.wire # <<>>
          /\ UNCHANGED <<aggregate, targets, server>>
      BY <1>1, <1>3
    <3>9. Head(stream.wire) = h
      OBVIOUS
    <3>10. x \in Response /\ SaysNoMore(Append(stream.replies, x), q)
      BY <3>3, <3>7
    <3> HIDE DEF watching, kind, d, h, q
    <3>11. QED
      BY <3>2, <3>4, <3>5, <3>6, <3>8, <3>9, <3>10, RequestServed, Zenon
  <2>3. QED
    BY <1>3, <2>1, <2>2
<1>8. QED
  BY <1>6, <1>7

\* A change is told to those who watch.
LEMMA ChangeStep ==
  ASSUME TypeOK, WatchOK, NEW d \in Docs \ Denied, NEW there \in BOOLEAN,
         Change(d, there), UNCHANGED <<aggregate, targets>>
  PROVE  stream' \in Stream /\ WatchOK'
<1>1. /\ clock' \in Nat /\ changed'[d] \in Nat
      /\ server' = IF there THEN server \cup {d} ELSE server \ {d}
  BY DEF Change, TypeOK
<1>2. \A c \in Denied : c \notin server'
  BY <1>1 DEF WatchOK, Hidden
<1>3. /\ stream \in Stream /\ stream.replies \in Seq(Response) /\ Refusals(stream.replies)
  BY StreamFacts DEF WatchOK, RepliesOK
<1>4. CASE d \notin stream.watching
  <2>1. stream' = stream
    BY <1>4 DEF Change
  <2>2. StreamOK' /\ Counted' /\ RepliesOK'
    BY <1>1, <2>1 DEF WatchOK, StreamOK, Counted, RepliesOK, Refusals
  <2>3. Hidden'
    BY <1>1, <1>2, <2>1 DEF WatchOK, Hidden
  <2>4. QED
    BY <1>3, <2>1, <2>2, <2>3 DEF WatchOK
<1>5. CASE d \in stream.watching
  <2> DEFINE u == Update(d, there, clock)
             at == clock'
             v == changed'[d]
             q == stream.replies \o u \o <<<<"snapshot", d, at>>>>
  <2>1. stream' = [stream EXCEPT !.replies = q]
    BY <1>5 DEF Change, Snapshot
  <2>2. v \in Nat /\ (u = <<>> \/ \E k \in {"document", "delete"} : u = <<<<k, d, v>>>>)
    BY <1>1, UpdateIsOne
  <2> HIDE DEF u, v
  <2>3. SaysNoMore(stream.replies, q)
    BY <1>1, <1>3, <2>2, ChangeSaid
  <2> HIDE DEF q
  <2>4. /\ stream' \in Stream /\ stream'.wire = stream.wire /\ stream'.replies = q
        /\ stream'.state = stream.state /\ stream'.idle = stream.idle
        /\ stream'.watching = stream.watching
    BY <1>3, <2>1, <2>3 DEF Stream, SaysNoMore
  <2>5. stream.state = "Open"
    BY <1>5 DEF WatchOK, StreamOK
  <2>6. Counted'
    <3> SUFFICES ASSUME NEW c \in Docs \ Denied
        PROVE  /\ aggregate[c].outstanding = Cardinality(Places(stream.wire, RequestsFor(c)))
                                             + Cardinality(Places(q, AcksFor(c)))
               /\ Alternates(stream.wire, Places(stream.wire, RequestsFor(c)),
                             c \in stream.watching, c \in targets)
               /\ EndsWith(q, Places(q, AcksFor(c)), c \in stream.watching)
      BY <1>1, <2>4 DEF Counted
    <3>1. Cardinality(Places(q, AcksFor(c))) = Cardinality(Places(stream.replies, AcksFor(c)))
      BY <2>3 DEF SaysNoMore
    <3> DEFINE watched == c \in stream.watching
    <3>2. watched \in BOOLEAN /\ EndsWith(stream.replies, Places(stream.replies, AcksFor(c)), watched)
      BY <2>5 DEF WatchOK, Counted
    <3> HIDE DEF watched
    <3>3. EndsWith(q, Places(q, AcksFor(c)), watched)
      BY <2>3, <3>2 DEF SaysNoMore
    <3>4. QED
      BY <2>5, <3>1, <3>3 DEF WatchOK, Counted, watched
  <2>7. Hidden'
    BY <1>1, <1>2, <2>4, FetchAssumption DEF WatchOK, Hidden
  <2>8. StreamOK' /\ RepliesOK'
    BY <2>3, <2>4, <2>5 DEF WatchOK, StreamOK, RepliesOK, SaysNoMore
  <2>9. QED
    BY <2>4, <2>6, <2>7, <2>8 DEF WatchOK
<1>6. QED
  BY <1>4, <1>5

\* A response read is not waited for any more.
LEMMA ResponseRead ==
  ASSUME TypeOK, WatchOK, stream.replies # <<>>,
         stream' = [stream EXCEPT !.replies = Tail(@)],
         \A d \in Docs : d \in targets' => d \in targets,
         \A d \in Docs \ Denied :
           /\ d \in targets => d \in targets'
           /\ aggregate'[d].outstanding =
                aggregate[d].outstanding - (IF Head(stream.replies) \in AcksFor(d) THEN 1 ELSE 0),
         \A d \in Denied : d \in targets' => aggregate'[d].outstanding = aggregate[d].outstanding,
         UNCHANGED server
  PROVE  stream' \in Stream /\ WatchOK'
<1> DEFINE r == stream.replies
           h == Head(r)
<1>1. /\ stream \in Stream /\ r \in Seq(Response)
      /\ Tail(r) \in Seq(Response)
      /\ \A i \in 1 .. Len(Tail(r)) : i + 1 \in 1 .. Len(r) /\ Tail(r)[i] = r[i + 1]
  BY StreamFacts, TailFacts
<1>2. stream.state = "Open"
  BY DEF WatchOK, StreamOK
<1>3. /\ stream' \in Stream /\ stream'.replies = Tail(r)
      /\ stream'.state = "Open" /\ stream'.idle = stream.idle
      /\ stream'.wire = stream.wire /\ stream'.watching = stream.watching
  BY <1>1, <1>2 DEF Stream
<1>4. Counted'
  <2> SUFFICES ASSUME NEW c \in Docs \ Denied
      PROVE  /\ aggregate'[c].outstanding = Cardinality(Places(stream.wire, RequestsFor(c)))
                                            + Cardinality(Places(Tail(r), AcksFor(c)))
             /\ Alternates(stream.wire, Places(stream.wire, RequestsFor(c)),
                           c \in stream.watching, c \in targets')
             /\ EndsWith(Tail(r), Places(Tail(r), AcksFor(c)), c \in stream.watching)
    BY <1>3 DEF Counted
  <2> DEFINE a == Cardinality(Places(stream.wire, RequestsFor(c)))
             b == Cardinality(Places(r, AcksFor(c)))
             b2 == Cardinality(Places(Tail(r), AcksFor(c)))
             e == IF h \in AcksFor(c) THEN 1 ELSE 0
             watched == c \in stream.watching
             to == c \in targets
             next == c \in targets'
  <2>1. /\ aggregate[c].outstanding = a + b
        /\ Alternates(stream.wire, Places(stream.wire, RequestsFor(c)), watched, to)
        /\ EndsWith(r, Places(r, AcksFor(c)), watched)
    BY <1>2 DEF WatchOK, Counted
  <2>2. watched \in BOOLEAN /\ next = to /\ e \in Nat
    OBVIOUS
  <2>3. a \in Nat /\ b \in Nat /\ b2 \in Nat
    BY <1>1, StreamFacts, PlacesCount
  <2>4. b = b2 + e
    BY <1>1, PlacesTail
  <2>5. aggregate'[c].outstanding = aggregate[c].outstanding - e
    OBVIOUS
  <2> HIDE DEF a, b, b2, e, watched, to, next, r
  <2>6. aggregate'[c].outstanding = a + b2
    BY <2>1, <2>2, <2>3, <2>4, <2>5
  <2>7. r # <<>>
    BY DEF r
  <2>8. EndsWith(Tail(r), Places(Tail(r), AcksFor(c)), watched)
    BY <1>1, <2>1, <2>2, <2>7, EndsWithTail
  <2>9. Alternates(stream.wire, Places(stream.wire, RequestsFor(c)), watched, next)
    BY <2>1, <2>2
  <2>10. QED
    BY <2>6, <2>8, <2>9 DEF a, b2, watched, next
<1>5. Hidden'
  BY <1>2, <1>3, FetchAssumption DEF WatchOK, Hidden
<1>6. StreamOK' /\ RepliesOK'
  BY <1>1, <1>2, <1>3 DEF WatchOK, StreamOK, RepliesOK, Refusals
<1>7. QED
  BY <1>3, <1>4, <1>5, <1>6 DEF WatchOK

\* The response read next, and that an acknowledgement is waited for.
LEMMA NextResponse ==
  ASSUME TypeOK, WatchOK, NEW kind, OnWatchStreamChange(kind)
  PROVE  /\ stream.replies # <<>> /\ stream.state = "Open"
         /\ stream' = [stream EXCEPT !.replies = Tail(@)]
         /\ Doc \in Docs /\ Head(stream.replies) \in Response
         /\ Head(stream.replies)[1] = kind /\ Head(stream.replies)[2] = Doc
         /\ kind = "denied" <=> Doc \in Denied
         /\ \A d : Head(stream.replies) \in AcksFor(d) <=> kind \in {"added", "removed"} /\ d = Doc
         /\ kind \in {"added", "removed"} => aggregate[Doc].outstanding >= 1
<1> DEFINE r == stream.replies
           h == Head(r)
<1>1. /\ r # <<>> /\ h[1] = kind /\ stream' = [stream EXCEPT !.replies = Tail(@)]
  BY DEF OnWatchStreamChange
<1>2. /\ r \in Seq(Response) /\ Tail(r) \in Seq(Response) /\ h \in Response
      /\ h = r[1] /\ Len(r) \in Nat /\ Len(r) >= 1
  BY <1>1, StreamFacts, TailFacts
<1>3. h[2] \in Docs /\ \A d : h \in AcksFor(d) <=> kind \in {"added", "removed"} /\ d = h[2]
  BY <1>1, <1>2 DEF Response, AcksFor
<1>4. stream.state = "Open"
  BY <1>1 DEF WatchOK, StreamOK
<1>5. kind = "denied" <=> h[2] \in Denied
  <2>1. 1 \in 1 .. Len(r)
    BY <1>2
  <2>2. QED
    BY <1>1, <1>2, <2>1 DEF WatchOK, RepliesOK, Refusals
<1>6. ASSUME kind \in {"added", "removed"}
      PROVE  aggregate[h[2]].outstanding >= 1
  <2> DEFINE c == h[2]
             a == Cardinality(Places(stream.wire, RequestsFor(c)))
             b == Cardinality(Places(r, AcksFor(c)))
             b2 == Cardinality(Places(Tail(r), AcksFor(c)))
  <2>1. c \in Docs \ Denied
    BY <1>3, <1>5, <1>6
  <2>2. aggregate[c].outstanding = a + b
    BY <1>4, <2>1 DEF WatchOK, Counted
  <2>3. a \in Nat /\ b2 \in Nat
    BY <1>2, StreamFacts, PlacesCount
  <2>4. h \in AcksFor(c)
    BY <1>3, <1>6
  <2>5. b = b2 + 1
    BY <1>1, <1>2, <2>4, PlacesTail
  <2> HIDE DEF a, b, b2
  <2>6. QED
    BY <2>2, <2>3, <2>5
<1>7. QED
  BY <1>1, <1>2, <1>3, <1>4, <1>5, <1>6 DEF Doc

\* What starting a stream makes of it and of the tracker.
LEMMA StartFacts ==
  ASSUME NEW wanted, NEW t \in Tracker, NEW s \in Stream,
         t.timer => t.state = "Unknown" /\ t.failures = 0 /\ IsStarted(s)
  PROVE  LET next == StartIfNeeded(wanted, t, s) IN
         /\ next.tracker \in Tracker /\ next.stream \in Stream
         /\ wanted # {} => IsStarted(next.stream)
         /\ next.tracker.timer => /\ next.tracker.state = "Unknown"
                                  /\ next.tracker.failures = 0
                                  /\ IsStarted(next.stream)
         /\ next.stream.idle = s.idle /\ next.stream.wire = s.wire
         /\ next.stream.replies = s.replies /\ next.stream.watching = s.watching
         /\ s.state # "Open" => next.stream.state # "Open"
         /\ s.state = "Open" => next.stream = s /\ next.tracker = t
<1>1. CASE wanted # {} /\ ~ IsStarted(s)
  <2>1. StartIfNeeded(wanted, t, s) = [tracker |-> HandleWatchStreamStart(t), stream |-> Start(s)]
    BY <1>1 DEF StartIfNeeded
  <2>2. HandleWatchStreamStart(t) \in Tracker
        /\ (HandleWatchStreamStart(t).timer => /\ HandleWatchStreamStart(t).state = "Unknown"
                                               /\ HandleWatchStreamStart(t).failures = 0)
    BY DEF HandleWatchStreamStart, Tracker, OnlineStates
  <2>3. /\ Start(s) \in Stream /\ Start(s).state \in {"Starting", "Backoff"}
        /\ Start(s).idle = s.idle /\ Start(s).wire = s.wire
        /\ Start(s).replies = s.replies /\ Start(s).watching = s.watching
    BY DEF Start, Stream
  <2>4. QED
    BY <1>1, <2>1, <2>2, <2>3 DEF IsStarted
<1>2. CASE ~ (wanted # {} /\ ~ IsStarted(s))
  <2>1. StartIfNeeded(wanted, t, s) = [tracker |-> t, stream |-> s]
    BY <1>2 DEF StartIfNeeded
  <2>2. QED
    BY <1>2, <2>1
<1>3. QED
  BY <1>1, <1>2

\* The operations of the tracker.
LEMMA TrackerFacts ==
  ASSUME NEW t \in Tracker
  PROVE  /\ \A state \in OnlineStates : UpdateState(t, state) \in Tracker
                                        /\ ~ UpdateState(t, state).timer
         /\ HandleWatchStreamFailure(t) \in Tracker
         /\ (t.timer => t.state = "Unknown") => ~ HandleWatchStreamFailure(t).timer
         /\ TimerElapsed(t) \in Tracker /\ ~ TimerElapsed(t).timer
<1>1. \A state \in OnlineStates : UpdateState(t, state) \in Tracker
                                  /\ ~ UpdateState(t, state).timer
  BY DEF UpdateState, NewTracker, Tracker, OnlineStates
<1>2. TimerElapsed(t) \in Tracker /\ ~ TimerElapsed(t).timer
  BY DEF TimerElapsed, Tracker, OnlineStates
<1>3. HandleWatchStreamFailure(t) \in Tracker
  BY DEF HandleWatchStreamFailure, MaxWatchStreamFailures, Tracker, OnlineStates
<1>4. (t.timer => t.state = "Unknown") => ~ HandleWatchStreamFailure(t).timer
  <2>1. t.failures + 1 >= MaxWatchStreamFailures
    BY DEF MaxWatchStreamFailures, Tracker
  <2>2. QED
    BY <2>1 DEF HandleWatchStreamFailure, Tracker, OnlineStates
<1>5. QED
  BY <1>1, <1>2, <1>3, <1>4

\* Only the documents of fetches are watched.
LEMMA TargetsAreFinite ==
  ASSUME TypeOK, FetchesInv
  PROVE  IsFiniteSet(targets)
<1> DEFINE g == [f \in Listening |-> asked[f]]
<1>1. \A f \in Listening : f \in Fetches /\ asked[f] \in targets
  BY DEF TypeOK, FetchesInv, ListenersOK, WatchedIsListened, Listening
<1>2. \A d \in targets : \E f \in Listening : asked[f] = d
  BY DEF FetchesInv, ListenersOK, WatchedIsListened, Listening
<1>3. g \in Surjection(Listening, targets)
  <2>1. g \in [Listening -> targets] /\ \A d \in targets : \E f \in Listening : g[f] = d
    BY <1>1, <1>2
  <2> HIDE DEF g
  <2>2. QED
    BY <2>1 DEF Surjection
<1>4. IsFiniteSet(Listening)
  <2>1. 1 \in Int /\ MaxFetches \in Int
    BY QueueFacts
  <2>2. IsFiniteSet(Fetches)
    BY <2>1, FS_Interval DEF Fetches
  <2>3. Listening \in SUBSET Fetches
    BY <1>1
  <2>4. QED
    BY <2>2, <2>3, FS_Subset
<1>5. QED
  BY <1>3, <1>4, FS_Surjection

(***************************************************************************)
(* The invariant: types, fetches, the stream and its timer.                *)
(***************************************************************************)
FetchInv ==
  /\ TypeOK
  /\ FetchesInv
  /\ WatchOK
  /\ StreamIsNeeded
  /\ TimerIsForAttempt

\* What was committed is pending still, until the answer is read.
CommitsOK == \A d \in Docs : Len(commits[d]) <= Len(Pending(d))

\* At first nothing is asked for, watched or said.
LEMMA InitInv == Init => FetchInv /\ CommitsOK
<1> SUFFICES ASSUME Init PROVE FetchInv
  <2>1. Init => CommitsOK
    BY EmptySeq DEF Init, CommitsOK, Pending
  <2>2. QED
    BY <2>1
<1>1. /\ <<>> \in Seq(Docs) /\ <<>> \in Seq(Answer) /\ <<>> \in Seq(Tasks) /\ <<>> \in Seq(Event)
      /\ <<>> \in Seq(Request) /\ <<>> \in Seq(Response)
      /\ Len(<<>>) = 0
  BY EmptySeq
<1>2. NewStream \in Stream /\ NewTracker \in Tracker /\ NoView \in View /\ Nothing \in Gathered
  BY <1>1 DEF NewStream, Stream, NewTracker, Tracker, OnlineStates, NoView, View, Nothing, Gathered
<1>3. TypeOK
  <2>1. cached \in [Docs -> Entry]
    <3>1. PICK there \in SUBSET (Docs \ Denied) :
            cached = [d \in Docs |-> [there |-> d \in there, version |-> 0, own |-> FALSE]]
      BY DEF Init
    <3>2. ASSUME NEW d \in Docs
          PROVE  [there |-> d \in there, version |-> 0, own |-> FALSE] \in Entry
      <4> DEFINE is == d \in there
      <4>1. is \in BOOLEAN
        OBVIOUS
      <4> HIDE DEF is
      <4>2. [there |-> is, version |-> 0, own |-> FALSE] \in Entry
        BY <4>1, EntryFacts
      <4>3. QED
        BY <4>2 DEF is
    <3>3. QED
      BY <3>1, <3>2
  <2>2. /\ user \in Users /\ pending \in [Users -> [Docs -> Seq(Op)]]
        /\ commits \in [Docs -> Seq(Nat)] /\ written \in Nat
        /\ tokens \in [Docs -> Nat]
    BY EmptySeq DEF Init, NoToken
  <2>3. /\ asked \in Seq(Docs) /\ answers \in [Fetches -> Seq(Answer)]
        /\ tasks \in Seq(Tasks) /\ main \in Seq(Event)
        /\ listeners \in [Docs -> SUBSET Fetches] /\ raised \subseteq Fetches
        /\ views \in [Docs -> View] /\ keys \subseteq Docs /\ targets \subseteq Docs
        /\ aggregate \in [Docs -> Gathered]
        /\ tracker \in Tracker /\ stream \in Stream
        /\ server \subseteq Docs /\ changed \in [Docs -> Nat] /\ clock \in Nat
        /\ seen \in [Docs -> SUBSET BOOLEAN] /\ faults \in Nat
    BY <1>1, <1>2 DEF Init
  <2>4. QED
    BY <2>1, <2>2, <2>3 DEF TypeOK, Tasks
<1>4. FetchesInv
  <2>1. Listening = {}
    BY DEF Init, Listening
  <2>2. TasksOK /\ EventsOK /\ AnswersOK
    BY <1>1, <2>1 DEF Init, TasksOK, EventsOK, AnswersOK
  <2>3. ListenersOK /\ WatchedIsListened
    BY DEF Init, ListenersOK, WatchedIsListened
  <2>4. QED
    BY <2>2, <2>3 DEF FetchesInv
<1>5. /\ stream.state = "Initial" /\ ~ stream.idle /\ stream.wire = <<>>
      /\ stream.replies = <<>> /\ stream.watching = {}
      /\ \A d \in Docs : aggregate[d] = Nothing
  BY DEF Init, NewStream
<1>6. WatchOK
  <2>1. StreamOK /\ Counted /\ RepliesOK
    BY <1>1, <1>5 DEF StreamOK, Counted, RepliesOK, Refusals
  <2>2. Hidden
    BY <1>5, FetchAssumption DEF Init, Hidden
  <2>3. QED
    BY <2>1, <2>2 DEF WatchOK
<1>7. StreamIsNeeded /\ TimerIsForAttempt
  BY <1>5 DEF Init, StreamIsNeeded, TimerIsForAttempt, NewTracker
<1>8. QED
  BY <1>3, <1>4, <1>6, <1>7 DEF FetchInv

\* What leaves stream, targets and tracker alone.
LEMMA StreamAlone ==
  ASSUME FetchInv, UNCHANGED <<stream, aggregate, targets, server, tracker>>
  PROVE  WatchOK' /\ StreamIsNeeded' /\ TimerIsForAttempt'
<1>1. WatchOK'
  BY WatchAlone DEF FetchInv
<1>2. StreamIsNeeded' /\ TimerIsForAttempt'
  BY DEF FetchInv, StreamIsNeeded, TimerIsForAttempt, IsStarted
<1>3. QED
  BY <1>1, <1>2

\* A new state of the tracker is told as snapshots.
LEMMA BroadcastFacts ==
  ASSUME TypeOK, FetchesInv, NEW t \in Tracker, Broadcast(t),
         UNCHANGED <<asked, answers, tasks, listeners, targets>>
  PROVE  /\ tracker' = t
         /\ views' \in [Docs -> View] /\ raised' \subseteq Fetches
         /\ main' \in Seq(Event)
         /\ FetchesInv'
<1> DEFINE new == [d \in Docs |-> ApplyOnlineStateChange(views[d], t.state)]
           emitted == {d \in Docs : new[d] # views[d]}
<1>1. tracker' = t
  BY DEF Broadcast
<1>2. CASE t.state = "Offline" /\ tracker.state # "Offline"
  <2>1. Notify(new, emitted, t.state)
    BY <1>2 DEF Broadcast
  <2>2. new \in [Docs -> View]
    <3>1. \A d \in Docs : views[d] \in View
      BY DEF TypeOK
    <3>2. \A v \in View : ApplyOnlineStateChange(v, t.state) \in View
      BY DEF ApplyOnlineStateChange, View
    <3>3. QED
      BY <3>1, <3>2
  <2> HIDE DEF new, emitted
  <2>3. /\ views' = new /\ raised' \subseteq Fetches
        /\ \E ev \in Seq(Event) :
             /\ main' = main \o ev
             /\ \A i \in 1 .. Len(ev) : ~ ev[i].error /\ ev[i].fetch \in Listening
    BY <2>1, <2>2, NotifyFacts DEF FetchesInv
  <2>4. main' \in Seq(Event) /\ FetchesInv'
    BY <2>3, MoreEvents
  <2>5. QED
    BY <1>1, <2>2, <2>3, <2>4
<1>3. CASE ~ (t.state = "Offline" /\ tracker.state # "Offline")
  <2>1. UNCHANGED <<raised, main, views>>
    BY <1>3 DEF Broadcast
  <2>2. FetchesInv'
    BY <2>1, FetchesAlone
  <2>3. QED
    BY <1>1, <2>1, <2>2 DEF TypeOK
<1>4. QED
  BY <1>2, <1>3

\* The views are computed anew and their snapshots told.
LEMMA EmitFacts ==
  ASSUME TypeOK, FetchesInv, NEW entries \in [Docs -> Entry], NEW ops \in [Docs -> Seq(Op)],
         EmitNewSnapshots(entries, ops),
         UNCHANGED <<asked, answers, tasks, listeners, targets>>
  PROVE  /\ views' \in [Docs -> View] /\ raised' \subseteq Fetches
         /\ main' \in Seq(Event)
         /\ FetchesInv'
<1> DEFINE new == [d \in Docs |->
             IF d \in targets
             THEN WithSyncState(ComputeDocumentChanges(views[d], Overlaid(entries[d], ops[d])))
             ELSE views[d]]
           emitted == {d \in Docs : Differ(new[d], views[d])}
<1>1. Notify(new, emitted, tracker.state)
  BY DEF EmitNewSnapshots
<1>2. new \in [Docs -> View]
  <2>1. ASSUME NEW d \in Docs
        PROVE  /\ views[d] \in View
               /\ WithSyncState(ComputeDocumentChanges(views[d], Overlaid(entries[d], ops[d])))
                    \in View
    <3>1. views[d] \in View /\ entries[d] \in Entry /\ ops[d] \in Seq(Op)
      BY DEF TypeOK
    <3> DEFINE v == ComputeDocumentChanges(views[d], Overlaid(entries[d], ops[d]))
    <3>2. v \in View
      BY <3>1, DocumentChangesFacts
    <3> HIDE DEF v
    <3>3. WithSyncState(v) \in View
      BY <3>2, ViewFacts
    <3>4. QED
      BY <3>1, <3>3 DEF v
  <2>2. QED
    BY <2>1
<1> HIDE DEF new, emitted
<1>3. /\ views' = new /\ raised' \subseteq Fetches
      /\ \E ev \in Seq(Event) :
           /\ main' = main \o ev
           /\ \A i \in 1 .. Len(ev) : ~ ev[i].error /\ ev[i].fetch \in Listening
  BY <1>1, <1>2, NotifyFacts DEF FetchesInv
<1>4. main' \in Seq(Event) /\ FetchesInv'
  BY <1>3, MoreEvents
<1>5. QED
  BY <1>2, <1>3, <1>4

\* What touches local documents and their writes alone leaves the stream as it is.
LEMMA LocalStep ==
  ASSUME FetchInv, WritesUnchanged,
         pending' \in [Users -> [Docs -> Seq(Op)]], commits' \in [Docs -> Seq(Nat)],
         written' \in Nat, cached' \in [Docs -> Entry],
         EmitNewSnapshots(cached', pending'[user]) \/ UNCHANGED <<views, raised, main>>
  PROVE  FetchInv'
<1>1. UNCHANGED <<appVars, tasks, listeners, keys, tokens, user, targets, aggregate,
                  tracker, stream, serverVars, seen, faults>>
  BY DEF WritesUnchanged
<1>2. TypeOK /\ FetchesInv /\ user \in Users
  BY DEF FetchInv, TypeOK
<1> DEFINE entries == cached'
           ops == pending'[user]
<1>3. entries \in [Docs -> Entry] /\ ops \in [Docs -> Seq(Op)]
  BY <1>2
<1>4. EmitNewSnapshots(entries, ops) \/ UNCHANGED <<views, raised, main>>
  OBVIOUS
<1> HIDE DEF entries, ops
<1>5. /\ views' \in [Docs -> View] /\ raised' \subseteq Fetches
      /\ main' \in Seq(Event)
      /\ FetchesInv'
  <2>1. CASE EmitNewSnapshots(entries, ops)
    BY <1>1, <1>2, <1>3, <2>1, EmitFacts DEF appVars
  <2>2. CASE UNCHANGED <<views, raised, main>>
    <3>1. FetchesInv'
      BY <1>1, <1>2, <2>2, FetchesAlone DEF appVars
    <3>2. QED
      BY <1>2, <2>2, <3>1 DEF TypeOK
  <2>3. QED
    BY <1>4, <2>1, <2>2
<1>6. WatchOK' /\ StreamIsNeeded' /\ TimerIsForAttempt'
  BY <1>1, StreamAlone DEF serverVars
<1>7. TypeOK'
  BY <1>1, <1>2, <1>5 DEF TypeOK, appVars, serverVars
<1>8. QED
  BY <1>5, <1>6, <1>7 DEF FetchInv

\* The writes of the user who is signed in.
LEMMA PendingFacts ==
  ASSUME TypeOK
  PROVE  /\ user \in Users /\ pending[user] \in [Docs -> Seq(Op)]
         /\ \A d \in Docs : Pending(d) \in Seq(Op) /\ Pending(d) = pending[user][d]
         /\ \A d \in Docs : commits[d] \in Seq(Nat)
         /\ \A d \in Docs, q \in Seq(Op) :
              [pending EXCEPT ![user][d] = q] \in [Users -> [Docs -> Seq(Op)]]
  BY DEF TypeOK, Pending

\* The write that is answered for, and those behind it.
LEMMA OldestFacts ==
  ASSUME TypeOK, CommitsOK, NEW d \in Docs, commits[d] # <<>>
  PROVE  /\ Tail(commits[d]) \in Seq(Nat) /\ Head(commits[d]) \in Nat
         /\ pending[user][d] # <<>>
         /\ Tail(pending[user][d]) \in Seq(Op) /\ Head(Pending(d)) \in Op
         /\ Len(Tail(commits[d])) <= Len(Tail(pending[user][d]))
<1>1. commits[d] \in Seq(Nat) /\ Pending(d) \in Seq(Op) /\ Pending(d) = pending[user][d]
  BY PendingFacts
<1>2. /\ Tail(commits[d]) \in Seq(Nat) /\ Head(commits[d]) \in Nat
      /\ Len(commits[d]) \in Nat /\ Len(commits[d]) >= 1
      /\ Len(Tail(commits[d])) = Len(commits[d]) - 1
  BY <1>1, TailFacts
<1>3. Len(Pending(d)) \in Nat /\ Len(commits[d]) <= Len(Pending(d))
  BY <1>1, SeqFacts DEF CommitsOK
<1>4. Pending(d) # <<>>
  BY <1>1, <1>2, <1>3, SeqFacts
<1>5. /\ Tail(Pending(d)) \in Seq(Op) /\ Head(Pending(d)) \in Op
      /\ Len(Tail(Pending(d))) = Len(Pending(d)) - 1
  BY <1>1, <1>4, TailFacts
<1>6. QED
  BY <1>1, <1>2, <1>3, <1>4, <1>5

\* This device writes.
LEMMA WriteLocallyInv ==
  ASSUME FetchInv, NEW d \in Docs, NEW op \in Op, WriteLocally(d, op)
  PROVE  FetchInv'
<1>1. /\ WritesUnchanged /\ UNCHANGED <<cached, commits>> /\ written' = written + 1
      /\ pending' = [pending EXCEPT ![user][d] = Append(@, op)]
      /\ EmitNewSnapshots(cached, pending'[user])
  BY DEF WriteLocally
<1>2. TypeOK
  BY DEF FetchInv
<1>3. Append(pending[user][d], op) \in Seq(Op)
  BY <1>2, PendingFacts, AppendFacts
<1>4. pending' \in [Users -> [Docs -> Seq(Op)]]
  BY <1>1, <1>2, <1>3, PendingFacts
<1> DEFINE ops == pending'[user]
<1>5. EmitNewSnapshots(cached, ops) /\ cached' = cached
  BY <1>1
<1> HIDE DEF ops
<1>6. EmitNewSnapshots(cached', ops)
  BY <1>5
<1>7. written' \in Nat /\ commits' \in [Docs -> Seq(Nat)] /\ cached' \in [Docs -> Entry]
  BY <1>1, <1>2 DEF TypeOK
<1>8. QED
  BY <1>1, <1>4, <1>6, <1>7, LocalStep DEF ops

\* The oldest write is acknowledged.
LEMMA OnWriteStreamMutationResultInv ==
  ASSUME FetchInv, CommitsOK, NEW d \in Docs, OnWriteStreamMutationResult(d)
  PROVE  FetchInv'
<1>1. /\ WritesUnchanged /\ UNCHANGED written /\ commits[d] # <<>>
      /\ pending' = [pending EXCEPT ![user][d] = Tail(@)]
      /\ commits' = [commits EXCEPT ![d] = Tail(@)]
      /\ cached' = [cached EXCEPT ![d] = ApplyBatchResult(d)]
      /\ EmitNewSnapshots(cached', pending'[user])
  BY DEF OnWriteStreamMutationResult
<1>2. TypeOK
  BY DEF FetchInv
<1>3. /\ Tail(commits[d]) \in Seq(Nat) /\ Head(commits[d]) \in Nat
      /\ Tail(pending[user][d]) \in Seq(Op)
  BY <1>1, <1>2, OldestFacts
<1>4. pending' \in [Users -> [Docs -> Seq(Op)]] /\ commits' \in [Docs -> Seq(Nat)]
  BY <1>1, <1>2, <1>3, PendingFacts DEF TypeOK
<1>5. ApplyBatchResult(d) \in Entry
  <2> DEFINE there == Head(Pending(d)) = "set"
             version == Head(commits[d])
  <2>1. there \in BOOLEAN /\ version \in Nat /\ cached[d] \in Entry
    BY <1>2, <1>3 DEF TypeOK
  <2>2. \/ ApplyBatchResult(d) = [there |-> there, version |-> version, own |-> TRUE]
        \/ ApplyBatchResult(d) = cached[d]
    BY DEF ApplyBatchResult
  <2> HIDE DEF there, version
  <2>3. [there |-> there, version |-> version, own |-> TRUE] \in Entry
    BY <2>1, EntryFacts
  <2>4. QED
    BY <2>1, <2>2, <2>3
<1>6. cached' \in [Docs -> Entry] /\ written' \in Nat
  BY <1>1, <1>2, <1>5 DEF TypeOK
<1>7. QED
  BY <1>1, <1>4, <1>6, LocalStep

\* The oldest write is refused.
LEMMA HandleRejectedWriteInv ==
  ASSUME FetchInv, NEW d \in Docs, HandleRejectedWrite(d)
  PROVE  FetchInv'
<1>1. /\ WritesUnchanged /\ UNCHANGED <<cached, written>> /\ Pending(d) # <<>>
      /\ pending' = [pending EXCEPT ![user][d] = Tail(@)]
      /\ commits' = [e \in Docs |-> <<>>]
      /\ EmitNewSnapshots(cached, pending'[user])
  BY DEF HandleRejectedWrite
<1>2. TypeOK
  BY DEF FetchInv
<1>3. Tail(pending[user][d]) \in Seq(Op)
  BY <1>1, <1>2, PendingFacts, TailFacts
<1>4. pending' \in [Users -> [Docs -> Seq(Op)]]
  BY <1>1, <1>2, <1>3, PendingFacts
<1> DEFINE ops == pending'[user]
<1>5. EmitNewSnapshots(cached, ops) /\ cached' = cached
  BY <1>1
<1> HIDE DEF ops
<1>6. EmitNewSnapshots(cached', ops)
  BY <1>5
<1>7. /\ written' \in Nat /\ cached' \in [Docs -> Entry]
      /\ commits' \in [Docs -> Seq(Nat)]
  BY <1>1, <1>2, EmptySeq DEF TypeOK
<1>8. QED
  BY <1>1, <1>4, <1>6, <1>7, LocalStep DEF ops

\* The write stream breaks.
LEMMA OnWriteStreamCloseInv ==
  ASSUME FetchInv, OnWriteStreamClose
  PROVE  FetchInv'
<1>1. /\ WritesUnchanged /\ UNCHANGED <<cached, pending, written, views, raised, main>>
      /\ commits' = [d \in Docs |-> <<>>]
  BY DEF OnWriteStreamClose
<1>2. TypeOK
  BY DEF FetchInv
<1>3. commits' \in [Docs -> Seq(Nat)]
  BY <1>1, EmptySeq
<1>4. QED
  BY <1>1, <1>2, <1>3, LocalStep DEF TypeOK

\* A fetch is asked for.
LEMMA GetDocumentInv ==
  ASSUME FetchInv, NEW d \in Docs, GetDocument(d)
  PROVE  FetchInv'
<1>1. UNCHANGED <<answers, main, clientVars, localVars, writeVars, targets, aggregate,
                  tracker, stream, serverVars, seen, faults>>
  BY DEF GetDocument
<1>2. asked' \in Seq(Docs) /\ tasks' \in Seq(Tasks) /\ FetchesInv'
  BY GetDocumentStep DEF FetchInv
<1>3. WatchOK' /\ StreamIsNeeded' /\ TimerIsForAttempt'
  BY <1>1, StreamAlone DEF serverVars
<1>4. TypeOK'
  BY <1>1, <1>2 DEF FetchInv, TypeOK, Tasks, clientVars, localVars, writeVars, serverVars
<1>5. QED
  BY <1>2, <1>3, <1>4 DEF FetchInv

\* An event reaches the app.
LEMMA OnEventInv ==
  ASSUME FetchInv, OnEvent
  PROVE  FetchInv'
<1>1. UNCHANGED <<asked, clientVars, localVars, writeVars, targets, aggregate,
                  tracker, stream, serverVars, seen, faults>>
  BY DEF OnEvent
<1>2. /\ main' \in Seq(Event) /\ tasks' \in Seq(Tasks)
      /\ answers' \in [Fetches -> Seq(Answer)] /\ FetchesInv'
  BY OnEventStep DEF FetchInv
<1>3. WatchOK' /\ StreamIsNeeded' /\ TimerIsForAttempt'
  BY <1>1, StreamAlone DEF serverVars
<1>4. TypeOK'
  BY <1>1, <1>2 DEF FetchInv, TypeOK, Tasks, clientVars, localVars, writeVars, serverVars
<1>5. QED
  BY <1>2, <1>3, <1>4 DEF FetchInv

\* A listener joins, and the first has the document watched.
LEMMA AddQueryListenerInv ==
  ASSUME FetchInv, AddQueryListener
  PROVE  FetchInv'
<1> DEFINE f == Head(tasks)[2]
           d == asked[f]
           first == listeners[d] = {}
           next == StartIfNeeded(targets \cup {d}, tracker, stream)
<1>1. /\ tasks' \in Seq(Tasks) /\ main' \in Seq(Event)
      /\ listeners' \in [Docs -> SUBSET Fetches] /\ targets' \subseteq Docs
      /\ raised' \subseteq Fetches
      /\ views' \in [Docs -> View]
      /\ FetchesInv'
  BY AddQueryListenerStep DEF FetchInv
<1>2. UNCHANGED <<appVars, localVars, writeVars, serverVars, faults>>
  BY DEF AddQueryListener
<1>3. d \in Docs /\ TypeOK /\ WatchOK
  BY HeadTask DEF AddQueryListener, FetchInv
<1>4. /\ seen' \in [Docs -> SUBSET BOOLEAN] /\ tracker' \in Tracker
      /\ stream' \in Stream /\ aggregate' \in [Docs -> Gathered]
      /\ WatchOK' /\ StreamIsNeeded' /\ TimerIsForAttempt'
  <2>1. CASE ~ first
    <3>1. UNCHANGED <<targets, seen, tracker, stream, aggregate>>
      BY <2>1 DEF AddQueryListener
    <3>2. QED
      BY <1>2, <1>3, <3>1, StreamAlone DEF TypeOK, serverVars
  <2>2. CASE first
    <3>1. Listen(d)
      BY <2>2 DEF AddQueryListener
    <3>2. d \notin targets
      BY <2>2 DEF FetchInv, FetchesInv, WatchedIsListened
    <3> HIDE DEF d, f
    <3>3. /\ targets' = targets \cup {d}
          /\ seen' = [seen EXCEPT ![d] = {(d \in server)}]
          /\ tracker' = next.tracker
      BY <3>1 DEF Listen
    <3>4. seen' \in [Docs -> SUBSET BOOLEAN]
      <4>1. {(d \in server)} \in SUBSET BOOLEAN
        OBVIOUS
      <4>2. QED
        BY <1>3, <3>3, <4>1 DEF TypeOK
    <3>5. /\ tracker \in Tracker /\ stream \in Stream
          /\ tracker.timer => tracker.state = "Unknown" /\ tracker.failures = 0 /\ IsStarted(stream)
      BY DEF FetchInv, TypeOK, TimerIsForAttempt
    <3>6. targets \cup {d} # {}
      OBVIOUS
    <3>7. /\ next.tracker \in Tracker /\ next.stream \in Stream
          /\ IsStarted(next.stream)
          /\ next.tracker.timer => /\ next.tracker.state = "Unknown"
                                   /\ next.tracker.failures = 0
                                   /\ IsStarted(next.stream)
          /\ next.stream.idle = stream.idle /\ next.stream.wire = stream.wire
          /\ next.stream.replies = stream.replies /\ next.stream.watching = stream.watching
          /\ stream.state # "Open" => next.stream.state # "Open"
          /\ stream.state = "Open" => next.stream = stream /\ next.tracker = tracker
      BY <3>5, <3>6, StartFacts
    <3> HIDE DEF next
    <3>8. CASE stream.state = "Open"
      <4>1. /\ stream' = [stream EXCEPT !.wire = Append(@, <<"watch", d, tokens[d]>>), !.idle = FALSE]
            /\ aggregate' = [aggregate EXCEPT ![d] = Awaited(@)]
        BY <3>1, <3>8 DEF Listen, Send
      <4>2. stream' \in Stream /\ aggregate' \in [Docs -> Gathered] /\ WatchOK'
        BY <1>2, <1>3, <3>2, <3>3, <3>8, <4>1, RequestSent DEF serverVars
      <4>3. stream'.state = "Open" /\ ~ stream'.idle
        BY <3>5, <3>8, <4>1 DEF Stream
      <4>4. StreamIsNeeded' /\ TimerIsForAttempt'
        BY <3>3, <3>7, <3>8, <4>3 DEF StreamIsNeeded, TimerIsForAttempt, IsStarted
      <4>5. QED
        BY <3>3, <3>4, <3>7, <4>2, <4>4
    <3>9. CASE stream.state # "Open"
      <4>1. stream' = next.stream /\ aggregate' = aggregate
        BY <3>1, <3>9 DEF Listen, next
      <4>2. /\ ~ stream'.idle /\ stream'.wire = <<>> /\ stream'.replies = <<>>
            /\ stream'.watching = {} /\ stream'.state # "Open"
            /\ \A c \in Docs : aggregate[c] = Nothing
            /\ aggregate \in [Docs -> Gathered]
        BY <1>3, <3>5, <3>7, <3>9, <4>1 DEF WatchOK, StreamOK, TypeOK, Stream
      <4>3. aggregate' = [c \in Docs |-> Nothing]
        BY <4>1, <4>2
      <4>4. WatchOK'
        BY <1>2, <1>3, <3>7, <4>1, <4>2, <4>3, NotOpen DEF serverVars
      <4>5. StreamIsNeeded' /\ TimerIsForAttempt'
        BY <3>3, <3>7, <4>1, <4>2 DEF StreamIsNeeded, TimerIsForAttempt, IsStarted
      <4>6. QED
        BY <3>3, <3>4, <3>7, <4>1, <4>2, <4>4, <4>5
    <3>10. QED
      BY <3>8, <3>9
  <2>3. QED
    BY <2>1, <2>2
<1>5. TypeOK'
  BY <1>1, <1>2, <1>3, <1>4 DEF TypeOK, Tasks, appVars, localVars, writeVars, serverVars
<1>6. QED
  BY <1>1, <1>4, <1>5 DEF FetchInv

\* A listener goes, and the last one ends the watch.
LEMMA RemoveQueryListenerInv ==
  ASSUME FetchInv, RemoveQueryListener
  PROVE  FetchInv'
<1> DEFINE f == Head(tasks)[2]
           d == asked[f]
           last == listeners[d] = {f}
<1>1. /\ tasks' \in Seq(Tasks)
      /\ listeners' \in [Docs -> SUBSET Fetches] /\ targets' \subseteq Docs
      /\ views' \in [Docs -> View]
      /\ FetchesInv'
  BY RemoveQueryListenerStep DEF FetchInv
<1>2. UNCHANGED <<appVars, main, raised, localVars, writeVars, serverVars, faults>>
  BY DEF RemoveQueryListener
<1>3. d \in Docs /\ TypeOK /\ WatchOK
  BY HeadTask DEF RemoveQueryListener, FetchInv
<1>4. /\ seen' \in [Docs -> SUBSET BOOLEAN] /\ tracker' \in Tracker
      /\ stream' \in Stream /\ aggregate' \in [Docs -> Gathered]
      /\ WatchOK' /\ StreamIsNeeded' /\ TimerIsForAttempt'
  <2>1. CASE ~ last
    <3>1. UNCHANGED <<targets, seen, tracker, stream, aggregate>>
      BY <2>1 DEF RemoveQueryListener
    <3>2. QED
      BY <1>2, <1>3, <3>1, StreamAlone DEF TypeOK, serverVars
  <2>2. CASE last
    <3>1. StopListening(d)
      BY <2>2 DEF RemoveQueryListener
    <3>2. d \in targets
      BY <1>3, <2>2 DEF FetchInv, FetchesInv, WatchedIsListened
    <3> HIDE DEF d, f
    <3> DEFINE left == targets \ {d}
               idle == left = {}
    <3>3. /\ targets' = left
          /\ seen' = [seen EXCEPT ![d] = {}]
          /\ tracker' = IF left = {} /\ stream.state # "Open"
                        THEN UpdateState(tracker, "Unknown") ELSE tracker
      BY <3>1 DEF StopListening
    <3>4. seen' \in [Docs -> SUBSET BOOLEAN]
      BY <1>3, <3>3 DEF TypeOK
    <3>5. /\ tracker \in Tracker /\ stream \in Stream
          /\ tracker.timer => tracker.state = "Unknown" /\ tracker.failures = 0 /\ IsStarted(stream)
          /\ targets # {} => IsStarted(stream)
          /\ stream.idle => stream.state = "Open"
      BY DEF FetchInv, TypeOK, TimerIsForAttempt, StreamIsNeeded, WatchOK, StreamOK
    <3>6. /\ tracker' \in Tracker
          /\ tracker'.timer => tracker' = tracker /\ tracker.timer
      BY <3>3, <3>5, TrackerFacts DEF OnlineStates
    <3>7. CASE stream.state = "Open"
      <4>1. stream' = [[stream EXCEPT !.wire = Append(@, <<"unwatch", d, tokens[d]>>), !.idle = FALSE]
                         EXCEPT !.idle = idle]
            /\ aggregate' = [aggregate EXCEPT ![d] = Awaited(@)]
        BY <3>1, <3>7 DEF StopListening, Send
      <4>2. idle \in BOOLEAN
        OBVIOUS
      <4>3. \A c \in Docs : c \in targets' <=> (IF c = d THEN c \notin targets ELSE c \in targets)
        BY <3>2, <3>3
      <4> HIDE DEF idle
      <4>4. stream' = [stream EXCEPT !.wire = Append(@, <<"unwatch", d, tokens[d]>>), !.idle = idle]
        BY <3>5, <4>1 DEF Stream
      <4>5. stream' \in Stream /\ aggregate' \in [Docs -> Gathered] /\ WatchOK'
        BY <1>2, <1>3, <3>2, <3>7, <4>1, <4>2, <4>3, <4>4, RequestSent DEF serverVars
      <4>6. stream'.state = "Open" /\ (stream'.idle => idle)
        BY <3>5, <3>7, <4>4 DEF Stream
      <4>7. StreamIsNeeded' /\ TimerIsForAttempt'
        BY <3>3, <3>5, <3>6, <4>6 DEF StreamIsNeeded, TimerIsForAttempt, IsStarted, idle
      <4>8. QED
        BY <3>4, <3>6, <4>5, <4>7
    <3>8. CASE stream.state # "Open"
      <4>1. stream' = stream /\ aggregate' = aggregate
        BY <3>1, <3>8 DEF StopListening
      <4>2. /\ ~ stream.idle /\ stream.wire = <<>> /\ stream.replies = <<>>
            /\ stream.watching = {}
            /\ \A c \in Docs : aggregate[c] = Nothing
            /\ aggregate \in [Docs -> Gathered]
        BY <1>3, <3>5, <3>8 DEF WatchOK, StreamOK, TypeOK, Stream
      <4>3. aggregate' = [c \in Docs |-> Nothing]
        BY <4>1, <4>2
      <4>4. WatchOK'
        BY <1>2, <1>3, <3>5, <3>8, <4>1, <4>2, <4>3, NotOpen DEF serverVars
      <4>5. StreamIsNeeded' /\ TimerIsForAttempt'
        BY <3>3, <3>5, <3>6, <4>1, <4>2 DEF StreamIsNeeded, TimerIsForAttempt, IsStarted
      <4>6. QED
        BY <3>4, <3>5, <3>6, <4>1, <4>2, <4>4, <4>5
    <3>9. QED
      BY <3>7, <3>8
  <2>3. QED
    BY <2>1, <2>2
<1>5. TypeOK'
  BY <1>1, <1>2, <1>3, <1>4 DEF TypeOK, Tasks, appVars, localVars, writeVars, serverVars
<1>6. QED
  BY <1>1, <1>4, <1>5 DEF FetchInv

\* The streams start again with new credentials.
LEMMA HandleCredentialChangeInv ==
  ASSUME FetchInv, HandleCredentialChange
  PROVE  FetchInv'
<1> DEFINE t == UpdateState(tracker, "Unknown")
           s == Stopped(stream)
           next == StartIfNeeded(targets, t, s)
<1>1. /\ UNCHANGED <<appVars, tasks, listeners, localVars, pending, written, targets, serverVars, seen>>
      /\ commits' = [d \in Docs |-> <<>>]
      /\ faults' = faults + 1
      /\ tracker' = next.tracker /\ stream' = next.stream
      /\ aggregate' = [d \in Docs |-> Nothing]
  BY DEF HandleCredentialChange
<1>2. stream \in Stream /\ tracker \in Tracker /\ TypeOK /\ WatchOK
  BY DEF FetchInv, TypeOK
<1>3. t \in Tracker /\ ~ t.timer
  BY <1>2, TrackerFacts DEF OnlineStates
<1>4. /\ s \in Stream /\ ~ s.idle /\ s.wire = <<>> /\ s.replies = <<>> /\ s.watching = {}
      /\ s.state # "Open"
  <2>1. CASE IsStarted(stream)
    <3>1. s = Closed("Initial")
      BY <2>1 DEF Stopped
    <3>2. <<>> \in Seq(Request) /\ <<>> \in Seq(Response)
      BY EmptySeq
    <3>3. QED
      BY <3>1, <3>2 DEF Closed, NewStream, Stream
  <2>2. CASE ~ IsStarted(stream)
    <3>1. s = stream /\ stream.state # "Open"
      BY <2>2 DEF Stopped, IsStarted
    <3>2. QED
      BY <1>2, <3>1 DEF WatchOK, StreamOK
  <2>3. QED
    BY <2>1, <2>2
<1> HIDE DEF s, t
<1>5. /\ next.tracker \in Tracker /\ next.stream \in Stream
      /\ targets # {} => IsStarted(next.stream)
      /\ next.tracker.timer => /\ next.tracker.state = "Unknown"
                               /\ next.tracker.failures = 0
                               /\ IsStarted(next.stream)
      /\ next.stream.idle = s.idle /\ next.stream.wire = s.wire
      /\ next.stream.replies = s.replies /\ next.stream.watching = s.watching
      /\ s.state # "Open" => next.stream.state # "Open"
  BY <1>3, <1>4, StartFacts
<1> HIDE DEF next
<1>6. aggregate' \in [Docs -> Gathered]
  BY <1>1, <1>2, StreamFacts
<1>7. WatchOK'
  BY <1>1, <1>2, <1>4, <1>5, NotOpen DEF serverVars
<1>8. StreamIsNeeded' /\ TimerIsForAttempt'
  BY <1>1, <1>4, <1>5 DEF StreamIsNeeded, TimerIsForAttempt, IsStarted
<1>9. /\ views' \in [Docs -> View] /\ raised' \subseteq Fetches
      /\ main' \in Seq(Event)
      /\ FetchesInv' /\ user' \in Users
  <2>1. PICK u \in Users : /\ user' = u
                           /\ \/ EmitNewSnapshots(cached, pending[u])
                              \/ UNCHANGED <<views, raised, main>>
    BY DEF HandleCredentialChange
  <2>2. cached \in [Docs -> Entry] /\ pending[u] \in [Docs -> Seq(Op)] /\ FetchesInv
    BY DEF FetchInv, TypeOK
  <2>3. CASE EmitNewSnapshots(cached, pending[u])
    BY <1>1, <1>2, <2>1, <2>2, <2>3, EmitFacts DEF appVars
  <2>4. CASE UNCHANGED <<views, raised, main>>
    <3>1. FetchesInv'
      BY <1>1, <2>2, <2>4, FetchesAlone DEF appVars
    <3>2. QED
      BY <1>2, <2>1, <2>4, <3>1 DEF TypeOK
  <2>5. QED
    BY <2>1, <2>3, <2>4
<1>10. TypeOK'
  <2>1. commits' \in [Docs -> Seq(Nat)]
    BY <1>1, EmptySeq
  <2>2. QED
    BY <1>1, <1>2, <1>5, <1>6, <1>9, <2>1 DEF TypeOK, appVars, localVars, serverVars
<1>11. QED
  BY <1>7, <1>8, <1>9, <1>10 DEF FetchInv

\* The timer makes the client offline.
LEMMA OnlineStateTimeoutInv ==
  ASSUME FetchInv, OnlineStateTimeout
  PROVE  FetchInv'
<1> DEFINE t == TimerElapsed(tracker)
<1>1. /\ UNCHANGED <<appVars, tasks, listeners, localVars, writeVars, targets, aggregate,
                     stream, serverVars, seen, faults>>
      /\ Broadcast(t)
  BY DEF OnlineStateTimeout
<1>2. t \in Tracker /\ ~ t.timer /\ TypeOK /\ FetchesInv
  BY TrackerFacts DEF FetchInv, TypeOK
<1> HIDE DEF t
<1>3. /\ tracker' = t
      /\ views' \in [Docs -> View] /\ raised' \subseteq Fetches
      /\ main' \in Seq(Event)
      /\ FetchesInv'
  BY <1>1, <1>2, BroadcastFacts DEF appVars
<1>4. WatchOK'
  BY <1>1, WatchAlone DEF FetchInv, serverVars
<1>5. StreamIsNeeded' /\ TimerIsForAttempt'
  BY <1>1, <1>2, <1>3 DEF FetchInv, StreamIsNeeded, TimerIsForAttempt, IsStarted
<1>6. TypeOK'
  BY <1>1, <1>2, <1>3 DEF TypeOK, appVars, localVars, writeVars, serverVars
<1>7. QED
  BY <1>3, <1>4, <1>5, <1>6 DEF FetchInv

\* The back-off is over.
LEMMA BackoffElapsedInv ==
  ASSUME FetchInv, BackoffElapsed
  PROVE  FetchInv'
<1>1. /\ UNCHANGED <<appVars, tasks, main, clientVars, localVars, writeVars, targets, aggregate,
                     tracker, serverVars, seen, faults>>
      /\ stream.state = "Backoff"
      /\ stream' = [stream EXCEPT !.state = "Starting"]
  BY DEF BackoffElapsed
<1>2. stream \in Stream /\ aggregate \in [Docs -> Gathered] /\ TypeOK /\ WatchOK
  BY DEF FetchInv, TypeOK
<1>3. /\ ~ stream.idle /\ stream.wire = <<>> /\ stream.replies = <<>> /\ stream.watching = {}
      /\ \A d \in Docs : aggregate[d] = Nothing
  BY <1>1, <1>2 DEF WatchOK, StreamOK
<1>4. /\ stream' \in Stream /\ stream'.state = "Starting"
      /\ ~ stream'.idle /\ stream'.wire = <<>> /\ stream'.replies = <<>> /\ stream'.watching = {}
  BY <1>1, <1>2, <1>3 DEF Stream
<1>5. aggregate' = [d \in Docs |-> Nothing]
  BY <1>1, <1>2, <1>3
<1>6. WatchOK'
  BY <1>1, <1>2, <1>4, <1>5, NotOpen DEF serverVars
<1>7. StreamIsNeeded' /\ TimerIsForAttempt'
  BY <1>1, <1>4 DEF FetchInv, StreamIsNeeded, TimerIsForAttempt, IsStarted
<1>8. FetchesInv'
  BY <1>1, FetchesAlone DEF FetchInv, appVars, clientVars
<1>9. TypeOK'
  BY <1>1, <1>2, <1>4 DEF TypeOK, appVars, clientVars, localVars, writeVars, serverVars
<1>10. QED
  BY <1>6, <1>7, <1>8, <1>9 DEF FetchInv

\* An idle stream is stopped.
LEMMA IdleTimeoutInv ==
  ASSUME FetchInv, IdleTimeout
  PROVE  FetchInv'
<1> DEFINE t == UpdateState(tracker, "Unknown")
<1>1. /\ UNCHANGED <<appVars, tasks, main, clientVars, localVars, writeVars, targets,
                     serverVars, seen, faults>>
      /\ stream.idle
      /\ stream' = Stopped(stream)
      /\ aggregate' = [d \in Docs |-> Nothing]
      /\ tracker' = t
  BY DEF IdleTimeout
<1>2. stream \in Stream /\ TypeOK /\ WatchOK /\ t \in Tracker /\ ~ t.timer
  BY TrackerFacts DEF FetchInv, TypeOK, OnlineStates
<1> HIDE DEF t
<1>3. targets = {} /\ stream.state = "Open"
  BY <1>1 DEF FetchInv, StreamIsNeeded, WatchOK, StreamOK
<1>4. stream' = Closed("Initial")
  BY <1>1, <1>3 DEF Stopped, IsStarted
<1>5. /\ stream' \in Stream /\ stream'.state = "Initial"
      /\ ~ stream'.idle /\ stream'.wire = <<>> /\ stream'.replies = <<>> /\ stream'.watching = {}
  <2>1. <<>> \in Seq(Request) /\ <<>> \in Seq(Response)
    BY EmptySeq
  <2>2. QED
    BY <1>4, <2>1 DEF Closed, NewStream, Stream
<1>6. WatchOK'
  BY <1>1, <1>2, <1>5, NotOpen DEF serverVars
<1>7. StreamIsNeeded' /\ TimerIsForAttempt'
  BY <1>1, <1>2, <1>3, <1>5 DEF StreamIsNeeded, TimerIsForAttempt
<1>8. FetchesInv'
  BY <1>1, FetchesAlone DEF FetchInv, appVars, clientVars
<1>9. aggregate' \in [Docs -> Gathered]
  BY <1>1, <1>2, StreamFacts
<1>10. TypeOK'
  BY <1>1, <1>2, <1>5, <1>9 DEF TypeOK, appVars, clientVars, localVars, writeVars, serverVars
<1>11. QED
  BY <1>6, <1>7, <1>8, <1>10 DEF FetchInv

\* The stream opens.
LEMMA OnWatchStreamOpenInv ==
  ASSUME FetchInv, OnWatchStreamOpen
  PROVE  FetchInv'
<1>1. /\ UNCHANGED <<appVars, tasks, main, clientVars, localVars, writeVars, targets, tracker,
                     serverVars, seen, faults>>
      /\ stream.state = "Starting" /\ stream \in Stream
      /\ stream'.state = "Open" /\ stream'.idle = stream.idle
  <2>1. stream \in Stream
    BY DEF FetchInv, TypeOK
  <2>2. QED
    BY <2>1 DEF OnWatchStreamOpen, Stream
<1>2. TypeOK /\ WatchOK /\ IsFiniteSet(targets)
  BY TargetsAreFinite DEF FetchInv
<1>3. stream' \in Stream /\ aggregate' \in [Docs -> Gathered] /\ WatchOK'
  BY <1>2, OpenStep
<1>4. StreamIsNeeded' /\ TimerIsForAttempt'
  BY <1>1 DEF FetchInv, StreamIsNeeded, TimerIsForAttempt, IsStarted
<1>5. FetchesInv'
  BY <1>1, FetchesAlone DEF FetchInv, appVars, clientVars
<1>6. TypeOK'
  BY <1>1, <1>2, <1>3 DEF TypeOK, appVars, clientVars, localVars, writeVars, serverVars
<1>7. QED
  BY <1>3, <1>4, <1>5, <1>6 DEF FetchInv

\* The stream is lost.
LEMMA OnStreamFinishInv ==
  ASSUME FetchInv, OnStreamFinish
  PROVE  FetchInv'
<1> DEFINE s == Closed("Error")
           t == HandleWatchStreamFailure(tracker)
           next == StartIfNeeded(targets, t, s)
<1>1. /\ UNCHANGED <<appVars, tasks, listeners, localVars, writeVars, targets, serverVars, seen>>
      /\ faults' = faults + 1
      /\ aggregate' = [d \in Docs |-> Nothing]
  BY DEF OnStreamFinish, LoseStream
<1>2. TypeOK /\ WatchOK /\ FetchesInv /\ tracker \in Tracker
      /\ (tracker.timer => tracker.state = "Unknown")
  BY DEF FetchInv, TypeOK, TimerIsForAttempt
<1>3. t \in Tracker /\ ~ t.timer
      /\ UpdateState(tracker, "Unknown") \in Tracker /\ ~ UpdateState(tracker, "Unknown").timer
  BY <1>2, TrackerFacts DEF OnlineStates
<1>4. /\ s \in Stream /\ s.state = "Error" /\ ~ s.idle
      /\ s.wire = <<>> /\ s.replies = <<>> /\ s.watching = {}
  <2>1. <<>> \in Seq(Request) /\ <<>> \in Seq(Response)
    BY EmptySeq
  <2>2. QED
    BY <2>1 DEF Closed, NewStream, Stream
<1>5. /\ stream' \in Stream /\ stream'.state # "Open" /\ ~ stream'.idle
      /\ stream'.wire = <<>> /\ stream'.replies = <<>> /\ stream'.watching = {}
      /\ targets # {} => IsStarted(stream')
      /\ tracker' \in Tracker
      /\ tracker'.timer => /\ tracker'.state = "Unknown" /\ tracker'.failures = 0
                           /\ IsStarted(stream')
      /\ views' \in [Docs -> View] /\ raised' \subseteq Fetches
      /\ main' \in Seq(Event)
      /\ FetchesInv'
  <2>1. CASE targets # {}
    <3>1. stream' = next.stream /\ Broadcast(next.tracker)
      BY <2>1 DEF OnStreamFinish, LoseStream
    <3> HIDE DEF s, t
    <3>2. /\ next.tracker \in Tracker /\ next.stream \in Stream
          /\ IsStarted(next.stream)
          /\ next.tracker.timer => /\ next.tracker.state = "Unknown"
                                   /\ next.tracker.failures = 0
                                   /\ IsStarted(next.stream)
          /\ next.stream.idle = s.idle /\ next.stream.wire = s.wire
          /\ next.stream.replies = s.replies /\ next.stream.watching = s.watching
          /\ s.state # "Open" => next.stream.state # "Open"
      BY <1>3, <1>4, <2>1, StartFacts
    <3> DEFINE u == next.tracker
    <3>3. u \in Tracker /\ Broadcast(u)
      BY <3>1, <3>2
    <3> HIDE DEF u, next
    <3>4. /\ tracker' = u
          /\ views' \in [Docs -> View] /\ raised' \subseteq Fetches
          /\ main' \in Seq(Event)
          /\ FetchesInv'
      BY <1>1, <1>2, <3>3, BroadcastFacts DEF appVars
    <3>5. QED
      BY <1>4, <3>1, <3>2, <3>4 DEF u
  <2>2. CASE targets = {}
    <3> DEFINE u == UpdateState(tracker, "Unknown")
    <3>1. stream' = s /\ Broadcast(u)
      BY <2>2 DEF OnStreamFinish, LoseStream
    <3>2. u \in Tracker /\ ~ u.timer
      BY <1>3
    <3> HIDE DEF u, s
    <3>3. /\ tracker' = u
          /\ views' \in [Docs -> View] /\ raised' \subseteq Fetches
          /\ main' \in Seq(Event)
          /\ FetchesInv'
      BY <1>1, <1>2, <3>1, <3>2, BroadcastFacts DEF appVars
    <3>4. QED
      BY <1>4, <2>2, <3>1, <3>2, <3>3
  <2>3. QED
    BY <2>1, <2>2
<1> HIDE DEF s, t, next
<1>6. WatchOK'
  BY <1>1, <1>2, <1>5, NotOpen DEF serverVars
<1>7. StreamIsNeeded' /\ TimerIsForAttempt'
  BY <1>1, <1>5 DEF StreamIsNeeded, TimerIsForAttempt, IsStarted
<1>8. aggregate' \in [Docs -> Gathered]
  BY <1>1, <1>2, StreamFacts
<1>9. TypeOK'
  BY <1>1, <1>2, <1>5, <1>8 DEF TypeOK, appVars, localVars, writeVars, serverVars
<1>10. QED
  BY <1>5, <1>6, <1>7, <1>9 DEF FetchInv

\* The backend serves a request.
LEMMA ServeInv ==
  ASSUME FetchInv, Serve
  PROVE  FetchInv'
<1>1. UNCHANGED <<appVars, tasks, main, clientVars, localVars, writeVars, targets, aggregate,
                  tracker, seen, faults, serverVars>>
  BY DEF Serve
<1>2. TypeOK /\ WatchOK /\ stream \in Stream
  BY DEF FetchInv, TypeOK
<1>3. stream' \in Stream /\ WatchOK'
  BY <1>2, ServeStep
<1>4. stream'.state = stream.state /\ stream'.idle = stream.idle
  BY <1>2 DEF Serve, Stream
<1>5. StreamIsNeeded' /\ TimerIsForAttempt'
  BY <1>1, <1>4 DEF FetchInv, StreamIsNeeded, TimerIsForAttempt, IsStarted
<1>6. FetchesInv'
  BY <1>1, FetchesAlone DEF FetchInv, appVars, clientVars
<1>7. TypeOK'
  BY <1>1, <1>2, <1>3 DEF TypeOK, appVars, clientVars, localVars, writeVars, serverVars
<1>8. QED
  BY <1>3, <1>5, <1>6, <1>7 DEF FetchInv

\* A document is made or deleted, by whoever it is.
LEMMA ChangeInv ==
  ASSUME FetchInv, NEW d \in Docs \ Denied, NEW there \in BOOLEAN, Change(d, there),
         UNCHANGED <<appVars, tasks, main, clientVars, localVars, targets, aggregate,
                     tracker, faults>>,
         user' \in Users, pending' \in [Users -> [Docs -> Seq(Op)]],
         commits' \in [Docs -> Seq(Nat)], written' \in Nat
  PROVE  FetchInv'
<1>1. UNCHANGED <<appVars, tasks, main, clientVars, localVars, targets, aggregate,
                  tracker, faults>>
  OBVIOUS
<1>2. TypeOK /\ WatchOK /\ stream \in Stream
  BY DEF FetchInv, TypeOK
<1>3. stream' \in Stream /\ WatchOK'
  BY <1>1, <1>2, ChangeStep
<1>4. stream'.state = stream.state /\ stream'.idle = stream.idle
  BY <1>2 DEF Change, Stream
<1>5. StreamIsNeeded' /\ TimerIsForAttempt'
  BY <1>1, <1>4 DEF FetchInv, StreamIsNeeded, TimerIsForAttempt, IsStarted
<1>6. FetchesInv'
  BY <1>1, FetchesAlone DEF FetchInv, appVars, clientVars
<1>7. clock' \in Nat /\ changed' \in [Docs -> Nat] /\ server' \subseteq Docs
  BY <1>2 DEF Change, TypeOK
<1>8. seen' \in [Docs -> SUBSET BOOLEAN]
  <2>1. seen' = IF d \in targets THEN [seen EXCEPT ![d] = @ \cup {there}] ELSE seen
    BY DEF Change
  <2>2. seen \in [Docs -> SUBSET BOOLEAN] /\ seen[d] \cup {there} \in SUBSET BOOLEAN
    BY <1>2 DEF TypeOK
  <2>3. QED
    BY <2>1, <2>2
<1>9. TypeOK'
  BY <1>1, <1>2, <1>3, <1>7, <1>8 DEF TypeOK, appVars, clientVars, localVars
<1>10. QED
  BY <1>3, <1>5, <1>6, <1>9 DEF FetchInv

\* Another device writes.
LEMMA WriteElsewhereInv ==
  ASSUME FetchInv, NEW d \in Docs, WriteElsewhere(d)
  PROVE  FetchInv'
<1> DEFINE there == d \notin server
<1>1. /\ d \in Docs \ Denied /\ there \in BOOLEAN /\ Change(d, there)
      /\ UNCHANGED <<appVars, tasks, main, clientVars, localVars, writeVars, targets,
                     aggregate, tracker, faults>>
  BY DEF WriteElsewhere
<1>2. TypeOK
  BY DEF FetchInv
<1> HIDE DEF there
<1>3. QED
  BY <1>1, <1>2, ChangeInv DEF TypeOK, writeVars

\* A write of this device is committed.
LEMMA CommitInv ==
  ASSUME FetchInv, NEW d \in Docs, Commit(d)
  PROVE  FetchInv'
<1> DEFINE there == Pending(d)[Len(commits[d]) + 1] = "set"
<1>1. /\ d \in Docs \ Denied /\ there \in BOOLEAN /\ Change(d, there)
      /\ UNCHANGED <<appVars, tasks, main, clientVars, localVars, user, pending, written,
                     targets, aggregate, tracker, faults>>
      /\ commits' = [commits EXCEPT ![d] = Append(@, clock + 1)]
  BY DEF Commit
<1>2. TypeOK
  BY DEF FetchInv
<1> HIDE DEF there
<1>3. commits' \in [Docs -> Seq(Nat)]
  <2>1. commits[d] \in Seq(Nat) /\ clock + 1 \in Nat
    BY <1>2 DEF TypeOK
  <2>2. Append(commits[d], clock + 1) \in Seq(Nat)
    BY <2>1, AppendFacts
  <2>3. QED
    BY <1>1, <1>2, <2>2 DEF TypeOK
<1>4. /\ user' \in Users /\ pending' \in [Users -> [Docs -> Seq(Op)]] /\ written' \in Nat
      /\ UNCHANGED <<appVars, tasks, main, clientVars, localVars, targets, aggregate,
                     tracker, faults>>
  BY <1>1, <1>2 DEF TypeOK
<1>5. QED
  BY <1>1, <1>3, <1>4, ChangeInv

\* What reading any response leaves true of stream and tracker.
LEMMA ReadInv ==
  ASSUME FetchInv, NEW kind, OnWatchStreamChange(kind), WatchOK', targets' \subseteq targets
  PROVE  /\ tracker' \in Tracker /\ StreamIsNeeded' /\ TimerIsForAttempt'
         /\ UNCHANGED <<appVars, tasks, writeVars, serverVars, faults>>
<1>1. stream \in Stream /\ tracker \in Tracker
  BY DEF FetchInv, TypeOK
<1>2. /\ stream'.state = stream.state /\ stream'.idle = stream.idle
      /\ tracker' = UpdateState(tracker, "Online")
      /\ UNCHANGED <<appVars, tasks, writeVars, serverVars, faults>>
  BY <1>1 DEF OnWatchStreamChange, Stream
<1>3. tracker' \in Tracker /\ ~ tracker'.timer
  BY <1>1, <1>2, TrackerFacts DEF OnlineStates
<1>4. QED
  BY <1>2, <1>3 DEF FetchInv, StreamIsNeeded, TimerIsForAttempt, IsStarted

\* What is left of a target that is dropped.
LEMMA ForgottenFacts ==
  ASSUME NEW g \in Gathered
  PROVE  Forgotten(g) \in Gathered /\ Forgotten(g).outstanding = 0
  BY DEF Forgotten, Nothing, Gathered

\* An acknowledgement, or a target that is current.
LEMMA HandleTargetChangeInv ==
  ASSUME FetchInv, HandleTargetChange
  PROVE  FetchInv'
<1>1. UNCHANGED <<main, clientVars, localVars, targets, seen>>
  BY DEF HandleTargetChange
<1>2. PICK kind \in {"added", "removed", "current"} :
        /\ OnWatchStreamChange(kind)
        /\ aggregate' =
             [aggregate EXCEPT ![Doc] =
                IF kind # "current" THEN RecordTargetResponse(@, kind)
                ELSE IF IsActiveTarget(Doc) THEN [@ EXCEPT !.current = TRUE, !.pending = TRUE]
                ELSE @]
  BY DEF HandleTargetChange
<1>3. TypeOK /\ WatchOK
  BY DEF FetchInv
<1>4. /\ stream.replies # <<>> /\ stream' = [stream EXCEPT !.replies = Tail(@)]
      /\ Doc \in Docs
      /\ kind = "denied" <=> Doc \in Denied
      /\ \A d : Head(stream.replies) \in AcksFor(d) <=> kind \in {"added", "removed"} /\ d = Doc
      /\ kind \in {"added", "removed"} => aggregate[Doc].outstanding >= 1
  BY <1>2, <1>3, NextResponse
<1> DEFINE g == aggregate[Doc]
           new == IF kind # "current" THEN RecordTargetResponse(g, kind)
                  ELSE IF IsActiveTarget(Doc) THEN [g EXCEPT !.current = TRUE, !.pending = TRUE]
                  ELSE g
<1>5. aggregate' = [aggregate EXCEPT ![Doc] = new]
  BY <1>2
<1>6. g \in Gathered /\ aggregate \in [Docs -> Gathered] /\ g.outstanding \in Nat
  BY <1>3, <1>4, StreamFacts
<1>7. new \in Gathered
      /\ new.outstanding = g.outstanding - (IF kind = "current" THEN 0 ELSE 1)
  <2>1. CASE kind = "current"
    <3>1. new \in {g, [g EXCEPT !.current = TRUE, !.pending = TRUE]}
      BY <2>1
    <3> HIDE DEF g, new
    <3>2. /\ [g EXCEPT !.current = TRUE, !.pending = TRUE] \in Gathered
          /\ [g EXCEPT !.current = TRUE, !.pending = TRUE].outstanding = g.outstanding
      BY <1>6 DEF Gathered
    <3>3. new \in Gathered /\ new.outstanding = g.outstanding
      BY <1>6, <3>1, <3>2
    <3>4. g.outstanding - (IF kind = "current" THEN 0 ELSE 1) = g.outstanding
      BY <1>6, <2>1
    <3>5. QED
      BY <3>3, <3>4
  <2>2. CASE kind # "current"
    <3>1. new = RecordTargetResponse(g, kind) /\ g.outstanding >= 1
      BY <1>2, <1>4, <2>2
    <3> HIDE DEF g, new
    <3>2. /\ g.outstanding - 1 \in Nat
          /\ g.update \in {"none", "document", "delete"}
      BY <1>6, <3>1 DEF Gathered
    <3> DEFINE left == [g EXCEPT !.outstanding = @ - 1]
    <3>3. left \in Gathered /\ left.outstanding = g.outstanding - 1
      BY <1>6, <3>2 DEF Gathered
    <3>4. Nothing \in Gathered /\ Nothing.outstanding = 0
      BY DEF Nothing, Gathered
    <3>5. /\ [left EXCEPT !.pending = FALSE, !.change = "none"] \in Gathered
          /\ [left EXCEPT !.pending = FALSE, !.change = "none"].outstanding = left.outstanding
          /\ Forgotten(g) \in Gathered /\ Forgotten(g).outstanding = 0
      <4> HIDE DEF left
      <4>1. QED
        BY <1>6, <3>2, <3>3, <3>4, ForgottenFacts DEF Gathered
    <3>6. new \in {left, [left EXCEPT !.pending = FALSE, !.change = "none"]}
          \/ (left.outstanding = 0 /\ new = Forgotten(g))
      BY <3>1 DEF RecordTargetResponse
    <3> HIDE DEF left
    <3>7. QED
      BY <2>2, <3>3, <3>5, <3>6
  <2>3. QED
    BY <2>1, <2>2
<1> HIDE DEF new, g
<1>8. /\ aggregate' \in [Docs -> Gathered] /\ aggregate'[Doc] = new
      /\ \A d \in Docs : d # Doc => aggregate'[d] = aggregate[d]
  BY <1>4, <1>5, <1>6, <1>7
<1>9. \A d \in Docs : aggregate'[d].outstanding =
          aggregate[d].outstanding - (IF Head(stream.replies) \in AcksFor(d) THEN 1 ELSE 0)
  <2>1. ASSUME NEW d \in Docs
        PROVE  aggregate'[d].outstanding =
                 aggregate[d].outstanding - (IF Head(stream.replies) \in AcksFor(d) THEN 1 ELSE 0)
    <3>1. aggregate[d].outstanding \in Nat
      BY <1>3, StreamFacts
    <3>2. CASE d = Doc
      BY <1>2, <1>4, <1>7, <1>8, <3>2 DEF g
    <3>3. CASE d # Doc
      BY <1>4, <1>8, <3>1, <3>3
    <3>4. QED
      BY <3>2, <3>3
  <2>2. QED
    BY <2>1
<1>10. \A d \in Denied : aggregate'[d].outstanding = aggregate[d].outstanding
  BY <1>2, <1>4, <1>8, FetchAssumption
<1>11. stream' \in Stream /\ WatchOK'
  BY <1>1, <1>2, <1>3, <1>4, <1>9, <1>10, ResponseRead DEF OnWatchStreamChange, serverVars
<1>12. /\ tracker' \in Tracker /\ StreamIsNeeded' /\ TimerIsForAttempt'
       /\ UNCHANGED <<appVars, tasks, writeVars, serverVars, faults>>
  BY <1>1, <1>2, <1>11, ReadInv
<1>13. FetchesInv'
  BY <1>1, <1>12, FetchesAlone DEF FetchInv, appVars, clientVars
<1>14. TypeOK'
  BY <1>1, <1>3, <1>8, <1>11, <1>12 DEF TypeOK, appVars, clientVars, localVars, writeVars, serverVars
<1>15. QED
  BY <1>11, <1>12, <1>13, <1>14 DEF FetchInv

\* What is gathered of a document there or not.
LEMMA UpdateGathered ==
  ASSUME TypeOK, NEW g \in Gathered, NEW d \in Docs, NEW at \in Nat
  PROVE  /\ AddDocumentToTarget(g, at) \in Gathered
         /\ AddDocumentToTarget(g, at).outstanding = g.outstanding
         /\ RemoveDocumentFromTarget(g, d, at) \in Gathered
         /\ RemoveDocumentFromTarget(g, d, at).outstanding = g.outstanding
  BY DEF AddDocumentToTarget, RemoveDocumentFromTarget, Gathered

\* An update of a document.
LEMMA HandleDocumentChangeInv ==
  ASSUME FetchInv, HandleDocumentChange
  PROVE  FetchInv'
<1>1. UNCHANGED <<main, clientVars, localVars, targets, seen>>
  BY DEF HandleDocumentChange
<1>2. PICK kind \in {"document", "delete"} :
        /\ OnWatchStreamChange(kind)
        /\ aggregate' =
             [aggregate EXCEPT ![Doc] =
                IF ~ IsActiveTarget(Doc) THEN @
                ELSE IF kind = "document" THEN AddDocumentToTarget(@, At)
                ELSE RemoveDocumentFromTarget(@, Doc, At)]
  BY DEF HandleDocumentChange
<1>3. TypeOK /\ WatchOK
  BY DEF FetchInv
<1>4. /\ stream.replies # <<>> /\ stream' = [stream EXCEPT !.replies = Tail(@)]
      /\ Doc \in Docs /\ At \in Nat
      /\ \A d : Head(stream.replies) \notin AcksFor(d)
  BY <1>2, <1>3, NextResponse DEF At, Response
<1> DEFINE g == aggregate[Doc]
           new == IF ~ IsActiveTarget(Doc) THEN g
                  ELSE IF kind = "document" THEN AddDocumentToTarget(g, At)
                  ELSE RemoveDocumentFromTarget(g, Doc, At)
<1>5. aggregate' = [aggregate EXCEPT ![Doc] = new]
  BY <1>2
<1>6. g \in Gathered /\ aggregate \in [Docs -> Gathered]
  BY <1>3, <1>4, StreamFacts
<1>7. new \in Gathered /\ new.outstanding = g.outstanding
  <2> HIDE DEF g
  <2>1. QED
    BY <1>3, <1>4, <1>6, UpdateGathered
<1> HIDE DEF new
<1>8. /\ aggregate' \in [Docs -> Gathered]
      /\ \A d \in Docs : aggregate'[d].outstanding = aggregate[d].outstanding
  BY <1>4, <1>5, <1>6, <1>7
<1>9. \A d \in Docs : aggregate'[d].outstanding =
          aggregate[d].outstanding - (IF Head(stream.replies) \in AcksFor(d) THEN 1 ELSE 0)
  <2>1. \A d \in Docs : aggregate[d].outstanding - 0 = aggregate[d].outstanding
    BY <1>3, StreamFacts
  <2>2. QED
    BY <1>4, <1>8, <2>1
<1>10. stream' \in Stream /\ WatchOK'
  BY <1>1, <1>2, <1>3, <1>4, <1>8, <1>9, FetchAssumption, ResponseRead
     DEF OnWatchStreamChange, serverVars
<1>11. /\ tracker' \in Tracker /\ StreamIsNeeded' /\ TimerIsForAttempt'
       /\ UNCHANGED <<appVars, tasks, writeVars, serverVars, faults>>
  BY <1>1, <1>2, <1>10, ReadInv
<1>12. FetchesInv'
  BY <1>1, <1>11, FetchesAlone DEF FetchInv, appVars, clientVars
<1>13. TypeOK'
  BY <1>1, <1>3, <1>8, <1>10, <1>11 DEF TypeOK, appVars, clientVars, localVars, writeVars, serverVars
<1>14. QED
  BY <1>10, <1>11, <1>12, <1>13 DEF FetchInv

\* What a snapshot finds gathered of a target is typed and waits for as much.
LEMMA ResolvedFacts ==
  ASSUME TypeOK, NEW d \in Docs, At \in Nat
  PROVE  Resolved(d) \in Gathered /\ Resolved(d).outstanding = aggregate[d].outstanding
<1>1. aggregate[d] \in Gathered
  BY DEF TypeOK
<1>2. QED
  BY <1>1, UpdateGathered DEF Resolved

\* A view stays one.
LEMMA ApplyChangesFacts ==
  ASSUME TypeOK, NEW d \in Docs, NEW g \in Gathered, NEW entry \in Entry
  PROVE  ApplyChanges(d, g, entry) \in View
<1>1. views[d] \in View /\ Pending(d) \in Seq(Op)
  BY PendingFacts DEF TypeOK
<1> DEFINE v == ComputeDocumentChanges(views[d], Overlaid(entry, Pending(d)))
           w == ApplyTargetChange(d, g, v)
<1>2. v \in View
  BY <1>1, DocumentChangesFacts
<1>3. ApplyChanges(d, g, entry) = IF d \notin targets THEN views[d] ELSE WithSyncState(w)
  BY DEF ApplyChanges
<1> HIDE DEF v
<1>4. w \in View
  <2> DEFINE synced == (v.synced /\ g.change # "removed") \/ g.change = "added"
  <2>1. synced \in BOOLEAN /\ g.current \in BOOLEAN
    BY <1>2, ViewFacts DEF Gathered
  <2>2. w = v \/ w = [v EXCEPT !.synced = synced, !.current = g.current]
    BY DEF ApplyTargetChange
  <2> HIDE DEF w, synced
  <2>3. QED
    BY <1>2, <2>1, <2>2 DEF View
<1> HIDE DEF w
<1>5. QED
  BY <1>1, <1>3, <1>4, ViewFacts

\* What is gathered of a document makes a cache entry of one.
LEMMA ApplyUpdateFacts ==
  ASSUME NEW g \in Gathered, NEW entry \in Entry
  PROVE  ApplyUpdate(g, entry) \in Entry
<1> DEFINE there == g.update = "document"
<1>1. there \in BOOLEAN /\ g.version \in Nat
  BY DEF Gathered
<1>2. \/ ApplyUpdate(g, entry) = entry
      \/ ApplyUpdate(g, entry) = [there |-> there, version |-> g.version, own |-> FALSE]
  BY DEF ApplyUpdate
<1> HIDE DEF there
<1>3. [there |-> there, version |-> g.version, own |-> FALSE] \in Entry
  BY <1>1, EntryFacts
<1>4. QED
  BY <1>2, <1>3

\* A snapshot applied.
LEMMA RaiseWatchSnapshotInv ==
  ASSUME FetchInv, RaiseWatchSnapshot
  PROVE  FetchInv'
<1>0. OnWatchStreamChange("snapshot")
  BY DEF RaiseWatchSnapshot
<1> DEFINE g == [d \in Docs |-> IF IsActiveTarget(d)
                                THEN [Resolved(d) EXCEPT !.pending = TRUE]
                                ELSE aggregate[d]]
           active == {d \in Docs : IsActiveTarget(d)}
           entries == [d \in Docs |-> ApplyUpdate(g[d], cached[d])]
           new == [d \in Docs |-> ApplyChanges(d, g[d], entries[d])]
           emitted == {d \in Docs : Differ(new[d], views[d])}
<1>1. /\ OnWatchStreamChange("snapshot")
      /\ cached' = entries
      /\ keys' = {d \in Docs : IF d \in active THEN new[d].synced ELSE d \in keys}
      /\ tokens' = [d \in Docs |-> IF d \in active THEN At ELSE tokens[d]]
      /\ aggregate' = [d \in Docs |->
                         [g[d] EXCEPT !.update = "none", !.version = 0,
                            !.pending = @ /\ d \notin active,
                            !.change = IF d \in active THEN "none" ELSE @]]
      /\ Notify(new, emitted, "Online")
      /\ UNCHANGED <<listeners, targets, seen>>
  <2>1. OnWatchStreamChange("snapshot") /\ UNCHANGED <<listeners, targets, seen>>
    BY DEF RaiseWatchSnapshot
  <2>2. cached' = entries
    BY DEF RaiseWatchSnapshot
  <2>3. keys' = {d \in Docs : IF d \in active THEN new[d].synced ELSE d \in keys}
    BY DEF RaiseWatchSnapshot
  <2>4. tokens' = [d \in Docs |-> IF d \in active THEN At ELSE tokens[d]]
    BY DEF RaiseWatchSnapshot
  <2>5. aggregate' = [d \in Docs |->
                        [g[d] EXCEPT !.update = "none", !.version = 0,
                           !.pending = @ /\ d \notin active,
                           !.change = IF d \in active THEN "none" ELSE @]]
    BY DEF RaiseWatchSnapshot
  <2>6. Notify(new, emitted, "Online")
    BY DEF RaiseWatchSnapshot
  <2> HIDE DEF g, active, entries, new, emitted
  <2>7. QED
    BY <2>1, <2>2, <2>3, <2>4, <2>5, <2>6
<1>2. TypeOK /\ WatchOK /\ FetchesInv
  BY DEF FetchInv
<1>3. /\ stream.replies # <<>> /\ stream' = [stream EXCEPT !.replies = Tail(@)]
      /\ \A d : Head(stream.replies) \notin AcksFor(d)
      /\ Head(stream.replies) \in Response /\ Head(stream.replies)[1] = "snapshot"
  BY <1>0, <1>2, NextResponse
<1>4. At \in Nat
  BY <1>3 DEF Response, At
<1>5. \A d \in Docs : g[d] \in Gathered /\ g[d].outstanding = aggregate[d].outstanding
                      /\ g[d].pending \in BOOLEAN
  <2> SUFFICES ASSUME NEW d \in Docs
      PROVE  g[d] \in Gathered /\ g[d].outstanding = aggregate[d].outstanding
             /\ g[d].pending \in BOOLEAN
    OBVIOUS
  <2> DEFINE r == Resolved(d)
  <2>1. r \in Gathered /\ r.outstanding = aggregate[d].outstanding /\ aggregate[d] \in Gathered
    BY <1>2, <1>4, ResolvedFacts, StreamFacts
  <2> HIDE DEF r
  <2>2. [r EXCEPT !.pending = TRUE] \in Gathered
        /\ [r EXCEPT !.pending = TRUE].outstanding = aggregate[d].outstanding
    BY <2>1 DEF Gathered
  <2>3. g[d] = IF IsActiveTarget(d) THEN [r EXCEPT !.pending = TRUE] ELSE aggregate[d]
    BY DEF r
  <2> HIDE DEF g
  <2>4. g[d] \in Gathered /\ g[d].outstanding = aggregate[d].outstanding
    BY <2>1, <2>2, <2>3
  <2>5. QED
    BY <2>4 DEF Gathered
<1>6. new \in [Docs -> View]
  <2> HIDE DEF g
  <2>1. \A d \in Docs : ApplyUpdate(g[d], cached[d]) \in Entry
    BY <1>2, <1>5, ApplyUpdateFacts DEF TypeOK
  <2>2. \A d \in Docs : entries[d] \in Entry
    BY <2>1
  <2> HIDE DEF entries
  <2>3. \A d \in Docs : ApplyChanges(d, g[d], entries[d]) \in View
    BY <1>2, <1>5, <2>2, ApplyChangesFacts
  <2>4. QED
    BY <2>3
<1>7. cached' \in [Docs -> Entry] /\ keys' \subseteq Docs
  <2> HIDE DEF g
  <2>1. \A d \in Docs : ApplyUpdate(g[d], cached[d]) \in Entry
    BY <1>2, <1>5, ApplyUpdateFacts DEF TypeOK
  <2>2. QED
    BY <1>1, <2>1
<1>8. tokens' \in [Docs -> Nat]
  <2> HIDE DEF active
  <2>1. \A d \in Docs : tokens[d] \in Nat
    BY <1>2 DEF TypeOK
  <2>2. QED
    BY <1>1, <1>4, <2>1
<1>9. /\ aggregate' \in [Docs -> Gathered]
      /\ \A d \in Docs : aggregate'[d].outstanding = aggregate[d].outstanding
  <2> HIDE DEF g, active
  <2>1. \A d \in Docs : LET h == [g[d] EXCEPT !.update = "none", !.version = 0,
                                    !.pending = @ /\ d \notin active,
                                    !.change = IF d \in active THEN "none" ELSE @]
                        IN  h \in Gathered /\ h.outstanding = aggregate[d].outstanding
    BY <1>5 DEF Gathered
  <2>2. QED
    BY <1>1, <2>1
<1> HIDE DEF new, emitted, entries, active, g
<1>10. /\ views' = new /\ raised' \subseteq Fetches
       /\ \E ev \in Seq(Event) :
            /\ main' = main \o ev
            /\ \A i \in 1 .. Len(ev) : ~ ev[i].error /\ ev[i].fetch \in Listening
  BY <1>1, <1>2, <1>6, NotifyFacts DEF FetchesInv
<1>11. UNCHANGED <<appVars, tasks, writeVars, serverVars, faults>>
  BY <1>0 DEF OnWatchStreamChange
<1>12. main' \in Seq(Event) /\ FetchesInv'
  BY <1>1, <1>2, <1>10, <1>11, MoreEvents DEF appVars
<1>13. \A d \in Docs : aggregate'[d].outstanding =
          aggregate[d].outstanding - (IF Head(stream.replies) \in AcksFor(d) THEN 1 ELSE 0)
  <2>1. \A d \in Docs : aggregate[d].outstanding - 0 = aggregate[d].outstanding
    BY <1>2, StreamFacts
  <2>2. QED
    BY <1>3, <1>9, <2>1
<1>14. stream' \in Stream /\ WatchOK'
  BY <1>1, <1>2, <1>3, <1>9, <1>11, <1>13, FetchAssumption, ResponseRead DEF serverVars
<1>15. tracker' \in Tracker /\ StreamIsNeeded' /\ TimerIsForAttempt'
  BY <1>0, <1>1, <1>14, ReadInv
<1>16. TypeOK'
  BY <1>1, <1>2, <1>6, <1>7, <1>8, <1>9, <1>10, <1>11, <1>12, <1>14, <1>15
     DEF TypeOK, appVars, writeVars, serverVars
<1>17. QED
  BY <1>12, <1>14, <1>15, <1>16 DEF FetchInv

\* A target refused.
LEMMA ProcessTargetErrorInv ==
  ASSUME FetchInv, ProcessTargetError
  PROVE  FetchInv'
<1>1. OnWatchStreamChange("denied") /\ UNCHANGED <<raised, localVars>>
  BY DEF ProcessTargetError
<1>2. TypeOK /\ WatchOK /\ FetchesInv
  BY DEF FetchInv
<1>3. /\ stream.replies # <<>> /\ stream' = [stream EXCEPT !.replies = Tail(@)]
      /\ Doc \in Docs /\ Doc \in Denied
      /\ \A d : Head(stream.replies) \notin AcksFor(d)
  BY <1>1, <1>2, NextResponse
<1>4. /\ main' \in Seq(Event)
      /\ listeners' \in [Docs -> SUBSET Fetches] /\ targets' \subseteq Docs
      /\ views' \in [Docs -> View]
      /\ FetchesInv'
  BY <1>2, <1>3, ProcessTargetErrorStep
<1> DEFINE new == Forgotten(aggregate[Doc])
<1>5. /\ targets' = targets \ {Doc} \/ (targets' = targets /\ Doc \notin targets)
      /\ aggregate' = aggregate \/ (aggregate' = [aggregate EXCEPT ![Doc] = new])
      /\ seen' = seen \/ seen' = [seen EXCEPT ![Doc] = {}]
  BY DEF ProcessTargetError
<1>6. new \in Gathered
  <2>1. aggregate[Doc] \in Gathered
    BY <1>2, <1>3, StreamFacts
  <2>2. QED
    BY <2>1, ForgottenFacts
<1> HIDE DEF new
<1>7. /\ aggregate' \in [Docs -> Gathered]
      /\ \A d \in Docs : d # Doc => aggregate'[d] = aggregate[d]
  BY <1>2, <1>3, <1>5, <1>6, StreamFacts
<1>8. seen' \in [Docs -> SUBSET BOOLEAN]
  BY <1>2, <1>3, <1>5 DEF TypeOK
<1>9. /\ \A d \in Docs : d \in targets' => d \in targets
      /\ \A d \in Docs : d # Doc /\ d \in targets => d \in targets'
      /\ Doc \notin targets'
  BY <1>5
<1>10. \A d \in Docs \ Denied : aggregate'[d].outstanding =
          aggregate[d].outstanding - (IF Head(stream.replies) \in AcksFor(d) THEN 1 ELSE 0)
  <2>1. \A d \in Docs : aggregate[d].outstanding - 0 = aggregate[d].outstanding
    BY <1>2, StreamFacts
  <2>2. QED
    BY <1>3, <1>7, <2>1
<1>11. \A d \in Denied : d \in targets' => aggregate'[d].outstanding = aggregate[d].outstanding
  BY <1>7, <1>9, FetchAssumption
<1>12. \A d \in Docs \ Denied : d \in targets => d \in targets'
  BY <1>3, <1>9
<1>13. UNCHANGED <<appVars, tasks, writeVars, serverVars, faults>>
  BY <1>1 DEF OnWatchStreamChange
<1>14. stream' \in Stream /\ WatchOK'
  BY <1>2, <1>3, <1>9, <1>10, <1>11, <1>12, <1>13, ResponseRead DEF serverVars
<1>15. tracker' \in Tracker /\ StreamIsNeeded' /\ TimerIsForAttempt'
  <2>1. targets' \subseteq targets
    BY <1>5
  <2>2. QED
    BY <1>1, <1>14, <2>1, ReadInv
<1>16. TypeOK'
  BY <1>1, <1>2, <1>4, <1>7, <1>8, <1>13, <1>14, <1>15
     DEF TypeOK, appVars, serverVars, localVars, writeVars
<1>17. QED
  BY <1>4, <1>14, <1>15, <1>16 DEF FetchInv

\* The commits are those of writes pending still.
LEMMA CommitsStep ==
  ASSUME TypeOK, CommitsOK, [Next]_vars, TypeOK'
  PROVE  CommitsOK'
<1>1. CASE UNCHANGED <<user, pending, commits>>
  BY <1>1 DEF CommitsOK, Pending
<1>2. CASE commits' = [d \in Docs |-> <<>>]
  <2>1. \A d \in Docs : Len(commits'[d]) = 0 /\ Len(pending'[user'][d]) \in Nat
    BY <1>2, EmptySeq, SeqFacts DEF TypeOK
  <2>2. \A d \in Docs : Len(commits'[d]) <= Len(pending'[user'][d])
    BY <2>1
  <2>3. QED
    BY <2>2 DEF CommitsOK, Pending
<1>3. ASSUME NEW d \in Docs, Commit(d)
      PROVE  CommitsOK'
  <2>1. /\ Len(commits[d]) < Len(Pending(d)) /\ UNCHANGED <<user, pending>>
        /\ commits' = [commits EXCEPT ![d] = Append(@, clock + 1)]
    BY <1>3 DEF Commit
  <2>2. commits[d] \in Seq(Nat) /\ clock + 1 \in Nat /\ Pending(d) \in Seq(Op)
    <3>1. clock \in Nat
      BY DEF TypeOK
    <3>2. QED
      BY <3>1, PendingFacts
  <2>3. /\ Len(Append(commits[d], clock + 1)) = Len(commits[d]) + 1
        /\ Len(commits[d]) \in Nat /\ Len(Pending(d)) \in Nat
    BY <2>2, AppendFacts, SeqFacts
  <2>4. Len(Append(commits[d], clock + 1)) <= Len(Pending(d))
    BY <2>1, <2>3
  <2>5. QED
    BY <2>1, <2>4 DEF CommitsOK, Pending, TypeOK
<1>4. ASSUME NEW d \in Docs, NEW op \in Op, WriteLocally(d, op)
      PROVE  CommitsOK'
  <2>1. /\ pending' = [pending EXCEPT ![user][d] = Append(@, op)]
        /\ UNCHANGED <<user, commits>>
    BY <1>4 DEF WriteLocally, WritesUnchanged
  <2>2. pending[user][d] \in Seq(Op) /\ commits[d] \in Seq(Nat)
    BY PendingFacts
  <2>3. /\ Len(Append(pending[user][d], op)) = Len(pending[user][d]) + 1
        /\ Len(commits[d]) \in Nat /\ Len(pending[user][d]) \in Nat
    BY <2>2, AppendFacts, SeqFacts
  <2>4. Len(commits[d]) <= Len(Append(pending[user][d], op))
    BY <2>3 DEF CommitsOK, Pending
  <2>5. QED
    BY <2>1, <2>4 DEF CommitsOK, Pending, TypeOK
<1>5. ASSUME NEW d \in Docs, OnWriteStreamMutationResult(d)
      PROVE  CommitsOK'
  <2>1. /\ pending' = [pending EXCEPT ![user][d] = Tail(@)] /\ commits[d] # <<>>
        /\ commits' = [commits EXCEPT ![d] = Tail(@)]
        /\ UNCHANGED user
    BY <1>5 DEF OnWriteStreamMutationResult, WritesUnchanged
  <2>2. Len(Tail(commits[d])) <= Len(Tail(pending[user][d]))
    BY <2>1, OldestFacts
  <2>3. QED
    BY <2>1, <2>2 DEF CommitsOK, Pending, TypeOK
<1>6. CASE (\E d \in Docs : HandleRejectedWrite(d)) \/ OnWriteStreamClose \/ HandleCredentialChange
  BY <1>2, <1>6 DEF HandleRejectedWrite, OnWriteStreamClose, HandleCredentialChange
<1>7. CASE \E d \in Docs : GetDocument(d) \/ WriteElsewhere(d)
  BY <1>1, <1>7 DEF GetDocument, WriteElsewhere, writeVars
<1>8. CASE OnEvent \/ AddQueryListener \/ RemoveQueryListener
           \/ OnlineStateTimeout \/ BackoffElapsed \/ IdleTimeout
  BY <1>1, <1>8 DEF OnEvent, AddQueryListener, RemoveQueryListener, OnlineStateTimeout,
                    BackoffElapsed, IdleTimeout, writeVars
<1>9. CASE OnWatchStreamOpen \/ OnStreamFinish \/ Serve
  BY <1>1, <1>9 DEF OnWatchStreamOpen, OnStreamFinish, Serve, writeVars
<1>10. CASE HandleTargetChange \/ HandleDocumentChange \/ RaiseWatchSnapshot
            \/ ProcessTargetError
  <2>1. PICK kind : OnWatchStreamChange(kind)
    BY <1>10 DEF HandleTargetChange, HandleDocumentChange, RaiseWatchSnapshot, ProcessTargetError
  <2>2. QED
    BY <1>1, <2>1 DEF OnWatchStreamChange, writeVars
<1>11. CASE UNCHANGED vars
  BY <1>1, <1>11 DEF vars, writeVars
<1>12. QED
  BY <1>3, <1>4, <1>5, <1>6, <1>7, <1>8, <1>9, <1>10, <1>11 DEF Next

\* Every step keeps the invariant.
LEMMA NextInv == FetchInv /\ CommitsOK /\ [Next]_vars => FetchInv' /\ CommitsOK'
<1> SUFFICES ASSUME FetchInv, CommitsOK, [Next]_vars PROVE FetchInv'
  BY CommitsStep DEF FetchInv
<1>1. CASE UNCHANGED vars
  <2>1. UNCHANGED <<appVars, tasks, main, clientVars, localVars, writeVars, targets, aggregate,
                    tracker, stream, serverVars, seen, faults>>
    BY <1>1 DEF vars
  <2>2. TypeOK' /\ FetchesInv'
    BY <2>1, FetchesAlone
       DEF FetchInv, TypeOK, appVars, clientVars, localVars, writeVars, serverVars
  <2>3. WatchOK' /\ StreamIsNeeded' /\ TimerIsForAttempt'
    BY <2>1, StreamAlone DEF serverVars
  <2>4. QED
    BY <2>2, <2>3 DEF FetchInv
<1>2. CASE \E d \in Docs : \/ GetDocument(d) \/ WriteElsewhere(d) \/ Commit(d)
                           \/ OnWriteStreamMutationResult(d) \/ HandleRejectedWrite(d)
                           \/ \E op \in Op : WriteLocally(d, op)
  BY <1>2, GetDocumentInv, WriteElsewhereInv, CommitInv, OnWriteStreamMutationResultInv,
     HandleRejectedWriteInv, WriteLocallyInv
<1>3. CASE OnEvent \/ AddQueryListener \/ RemoveQueryListener \/ HandleCredentialChange
           \/ OnWriteStreamClose
  BY <1>3, OnEventInv, AddQueryListenerInv, RemoveQueryListenerInv, HandleCredentialChangeInv,
     OnWriteStreamCloseInv
<1>4. CASE OnlineStateTimeout \/ BackoffElapsed \/ IdleTimeout
  BY <1>4, OnlineStateTimeoutInv, BackoffElapsedInv, IdleTimeoutInv
<1>5. CASE OnWatchStreamOpen \/ OnStreamFinish \/ Serve
  BY <1>5, OnWatchStreamOpenInv, OnStreamFinishInv, ServeInv
<1>6. CASE HandleTargetChange \/ HandleDocumentChange \/ RaiseWatchSnapshot
           \/ ProcessTargetError
  BY <1>6, HandleTargetChangeInv, HandleDocumentChangeInv, RaiseWatchSnapshotInv,
     ProcessTargetErrorInv
<1>7. QED
  BY <1>1, <1>2, <1>3, <1>4, <1>5, <1>6 DEF Next

\* The invariant holds in every behaviour.
LEMMA FetchAlways == Spec => [](FetchInv /\ CommitsOK)
<1>1. QED
  BY InitInv, NextInv, PTL DEF Spec

\* The client, its streams and the backend stay in their types: nothing is
\* acknowledged more often than it was asked for.
THEOREM FetchTypes == Spec => []TypeOK
<1>1. FetchInv => TypeOK
  BY DEF FetchInv
<1>2. QED
  BY <1>1, FetchAlways, PTL

\* The callback of a fetch runs at most once.
THEOREM FetchesAnswerOnce == Spec => []AnsweredOnce
<1>1. FetchInv => AnsweredOnce
  BY DEF FetchInv, FetchesInv, AnswersOK, AnsweredOnce
<1>2. QED
  BY <1>1, FetchAlways, PTL

\* Exactly what is listened for is watched.
THEOREM ListenersAreWatched == Spec => []WatchedIsListened
<1>1. FetchInv => WatchedIsListened
  BY DEF FetchInv, FetchesInv
<1>2. QED
  BY <1>1, FetchAlways, PTL

\* Once the queues are empty nobody listens for an answer that was given.
THEOREM ListenersEnd == Spec => []NoListenerLeft
<1>1. FetchInv => NoListenerLeft
  <2> SUFFICES ASSUME FetchInv, tasks = <<>>, NEW d \in Docs, NEW f \in listeners[d]
      PROVE  answers[f] = <<>>
    BY DEF NoListenerLeft
  <2>1. Len(tasks) = 0
    BY EmptySeq
  <2>2. QED
    BY <2>1 DEF FetchInv, FetchesInv, ListenersOK
<1>2. QED
  BY <1>1, FetchAlways, PTL

\* A stream is stopped as idle only when nothing is watched, and while
\* something is there is a stream.
THEOREM StreamsAreNeeded == Spec => []StreamIsNeeded
<1>1. FetchInv => StreamIsNeeded
  BY DEF FetchInv
<1>2. QED
  BY <1>1, FetchAlways, PTL

\* The timer of the online state runs for an attempt that is undecided.
THEOREM TimersAreForAttempts == Spec => []TimerIsForAttempt
<1>1. FetchInv => TimerIsForAttempt
  BY DEF FetchInv
<1>2. QED
  BY <1>1, FetchAlways, PTL
=============================================================================
