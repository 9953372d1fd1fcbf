---------------------------- MODULE DocumentFetch ----------------------------
(***************************************************************************)
(* DocumentReference.getDocument, by which the app looks up the account    *)
(* and the listing behind a request: a listener added for one answer and   *)
(* removed, on the watch half of the Firestore SDK, with the writes of this *)
(* device that are pending on the same documents.                          *)
(*                                                                         *)
(* The app and the answers live on the main queue, everything else on the  *)
(* worker queue.  A document is known by whether it exists; the backend's  *)
(* clock counts the changes made there, from this device and from others.  *)
(***************************************************************************)
EXTENDS OnlineState, Enumeration, Sequences, FiniteSets, SequencesExt, FiniteSetsExt

CONSTANTS Docs,
          Denied,       \* documents the security rules hide
          Users,        \* who may be signed in, nobody included
          MaxFetches,   \* bound: calls of getDocument
          MaxWrites,    \* bound: writes of this device
          MaxClock,     \* bound: those and the changes of the backend
          MaxFaults     \* bound: failed starts, broken streams, new credentials

ASSUME FetchAssumption ==
  /\ Denied \subseteq Docs
  /\ {MaxFetches, MaxWrites, MaxClock, MaxFaults} \subseteq Nat

Fetches == 1 .. MaxFetches
NoToken == 0

\* What a write makes of a document; a merge is a set.
Op == {"set", "delete"}

VARIABLES
  asked,     \* the documents asked for, a fetch each
  answers,   \* fetch -> what its callback was called with
  tasks,     \* the worker queue: <<"listen" or "remove", fetch>>
  main,      \* the main queue: events of listeners
  listeners, \* EventManager's queries_: document -> fetches listening
  raised,    \* fetches whose listener has raised_initial_event_
  views,     \* SyncEngine's query_views_by_query_
  cached,    \* the remote document cache
  keys,      \* documents whose target holds them, as persisted
  tokens,    \* resume tokens: clock of the last snapshot of the target
  user,      \* who is signed in
  pending,   \* the mutation queues: user -> document -> writes, oldest first
  commits,   \* document -> versions the write stream's commits made, no answer read
  written,   \* writes made so far
  targets,   \* RemoteStore's listen_targets_
  aggregate, \* WatchChangeAggregator's target_states_ and pending updates
  tracker,   \* OnlineStateTracker
  stream,    \* the watch stream and the backend's end of it
  server, changed, clock, \* the backend: documents there, when each changed
  seen,      \* history: what the backend held while a document was watched
  faults

appVars    == <<asked, answers>>
clientVars == <<listeners, raised, views>>
localVars  == <<cached, keys, tokens>>
writeVars  == <<user, pending, commits, written>>
serverVars == <<server, changed, clock>>
vars == <<appVars, tasks, main, clientVars, localVars, writeVars, targets,
          aggregate, tracker, stream, serverVars, seen, faults>>

\* An entry of the remote document cache: of which version it is, and whether it
\* is a write of our own that the watch stream has not told.
Entry == [there : BOOLEAN, version : Nat, own : BOOLEAN]

\* A view: the document shown, whether it has local mutations, whether the
\* target holds it, whether the target is current, and whether the last snapshot
\* was synced.
View == [doc : BOOLEAN, local : BOOLEAN, synced : BOOLEAN, current : BOOLEAN,
         fresh : BOOLEAN]

NoView == [doc |-> FALSE, local |-> FALSE, synced |-> FALSE, current |-> FALSE,
           fresh |-> FALSE]

\* What the aggregator gathers for a target before a snapshot: responses it
\* waits for, whether anything changed, the document entering or leaving the
\* target, and the document's update with its version.
Gathered == [outstanding : Nat, current : BOOLEAN, pending : BOOLEAN,
             change : {"none", "added", "removed"},
             update : {"none", "document", "delete"}, version : Nat]

Nothing == [outstanding |-> 0, current |-> FALSE, pending |-> FALSE,
            change |-> "none", update |-> "none", version |-> 0]

Request  == {"watch", "unwatch"} \X Docs \X Nat
Response == {"added", "removed", "current", "denied"} \X Docs \X {0}
            \cup {"document", "delete", "snapshot"} \X Docs \X Nat

Stream == [state    : {"Initial", "Starting", "Open", "Error", "Backoff"},
           idle     : BOOLEAN,       \* idleness_timer_ is set
           wire     : Seq(Request),  \* sent, not seen by the backend
           replies  : Seq(Response), \* answered, not read
           watching : SUBSET Docs]   \* targets the backend serves on it

NewStream == [state |-> "Initial", idle |-> FALSE, wire |-> <<>>,
              replies |-> <<>>, watching |-> {}]

\* Events of a fetch's listener: an error, or a snapshot with its metadata.
Event == [fetch : Fetches, error : BOOLEAN, exists : BOOLEAN, fromCache : BOOLEAN]

Answer == {"exists", "missing", "offline", "denied"}

TypeOK ==
  /\ asked \in Seq(Docs)
  /\ answers \in [Fetches -> Seq(Answer)]
  /\ tasks \in Seq({"listen", "remove"} \X Fetches)
  /\ main \in Seq(Event)
  /\ listeners \in [Docs -> SUBSET Fetches]
  /\ raised \subseteq Fetches
  /\ views \in [Docs -> View]
  /\ cached \in [Docs -> Entry] /\ keys \subseteq Docs
  /\ tokens \in [Docs -> Nat]
  /\ user \in Users
  /\ pending \in [Users -> [Docs -> Seq(Op)]]
  /\ commits \in [Docs -> Seq(Nat)]
  /\ written \in Nat
  /\ targets \subseteq Docs
  /\ aggregate \in [Docs -> Gathered]
  /\ tracker \in Tracker
  /\ stream \in Stream
  /\ server \subseteq Docs /\ changed \in [Docs -> Nat] /\ clock \in Nat
  /\ seen \in [Docs -> SUBSET BOOLEAN]
  /\ faults \in Nat

\* Listings of other screens may have left a document in the cache.
Init ==
  /\ asked = <<>>
  /\ answers = [f \in Fetches |-> <<>>]
  /\ tasks = <<>>
  /\ main = <<>>
  /\ listeners = [d \in Docs |-> {}]
  /\ raised = {}
  /\ views = [d \in Docs |-> NoView]
  /\ \E there \in SUBSET (Docs \ Denied) :
       cached = [d \in Docs |-> [there |-> d \in there, version |-> 0, own |-> FALSE]]
  /\ keys = {}
  /\ tokens = [d \in Docs |-> NoToken]
  /\ user \in Users
  /\ pending = [u \in Users |-> [d \in Docs |-> <<>>]]
  /\ commits = [d \in Docs |-> <<>>]
  /\ written = 0
  /\ targets = {}
  /\ aggregate = [d \in Docs |-> Nothing]
  /\ tracker = NewTracker
  /\ stream = NewStream
  /\ server \in SUBSET (Docs \ Denied) /\ changed = [d \in Docs |-> 1] /\ clock = 1
  /\ seen = [d \in Docs |-> {}]
  /\ faults = 0

(***************************************************************************)
(* The stream.                                                             *)
(***************************************************************************)
IsStarted(s) == s.state \in {"Starting", "Backoff", "Open"}

Start(s) == [s EXCEPT !.state = IF @ = "Error" THEN "Backoff" ELSE "Starting"]

Closed(state) == [NewStream EXCEPT !.state = state]

Stopped(s) == IF IsStarted(s) THEN Closed("Initial") ELSE s

\* Wrong on purpose: the idle timer goes on.
Send_KeepsTimer(s, kind, d) == [s EXCEPT !.wire = Append(@, <<kind, d, tokens[d]>>)]

Send(s, kind, d) ==
  [s EXCEPT !.wire = Append(@, <<kind, d, tokens[d]>>), !.idle = FALSE]

\* Wrong on purpose: the request is not counted.
Awaited_Uncounted(g) == g

\* The aggregator waits for the response to a request.
Awaited(g) == [g EXCEPT !.outstanding = @ + 1]

(***************************************************************************)
(* Local documents and views.                                              *)
(***************************************************************************)
Pending(d) == pending[user][d]

\* A document as the local documents view has it: a cache entry under writes.
Overlaid(entry, ops) ==
  IF ops = <<>> THEN [there |-> entry.there, local |-> FALSE, own |-> entry.own]
  ELSE [there |-> Last(ops) = "set", local |-> Last(ops) = "set", own |-> FALSE]

\* An acknowledged write is not shown before the watch stream tells it: the view
\* keeps the document with its local mutations.
ShouldWaitForSyncedDocument(v, new) == v.doc /\ v.local /\ new.own /\ ~ new.local

ComputeDocumentChanges(v, new) ==
  IF new.there /\ ShouldWaitForSyncedDocument(v, new) THEN v
  ELSE [v EXCEPT !.doc = new.there, !.local = new.local]

\* The target does not hold the document and no local write explains it.
ShouldBeInLimbo(v) == v.doc /\ ~ v.synced /\ ~ v.local

\* A view is synced when its target is current and no document in limbo.
WithSyncState(v) == [v EXCEPT !.fresh = v.current /\ ~ ShouldBeInLimbo(v)]

(***************************************************************************)
(* Events.                                                                 *)
(***************************************************************************)
ErrorEvent(f) == [fetch |-> f, error |-> TRUE, exists |-> FALSE, fromCache |-> FALSE]

SnapshotEvent(f, v) ==
  [fetch |-> f, error |-> FALSE, exists |-> v.doc, fromCache |-> ~ v.fresh]

\* The first event waits for a synced snapshot unless the client is offline.
ShouldRaiseInitialEvent(v, online) == v.fresh \/ online = "Offline"

\* The views become new and those in emitted have a snapshot: an event for a
\* listener that had its first, and a first one for those who wait no more, in
\* the order they were added.
Notify(new, emitted, online) ==
  LET told == {f \in UNION {listeners[d] : d \in Docs} :
                 IF f \in raised THEN asked[f] \in emitted
                 ELSE ShouldRaiseInitialEvent(new[asked[f]], online)}
      order == InOrder(told)
  IN  /\ views' = new
      /\ raised' = raised \cup told
      /\ main' = main \o [i \in DOMAIN order |->
                            SnapshotEvent(order[i], new[asked[order[i]]])]

Differ(v, w) == v.doc # w.doc \/ v.local # w.local \/ v.fresh # w.fresh

\* The views after a change of the cache or of the pending writes.
EmitNewSnapshots(entries, ops) ==
  LET new == [d \in Docs |->
                IF d \in targets
                THEN WithSyncState(ComputeDocumentChanges(views[d], Overlaid(entries[d], ops[d])))
                ELSE views[d]]
  IN  Notify(new, {d \in Docs : Differ(new[d], views[d])}, tracker.state)

\* A view that was current is not while the client is offline.
ApplyOnlineStateChange(v, online) ==
  IF v.current /\ online = "Offline"
  THEN [v EXCEPT !.current = FALSE, !.fresh = FALSE] ELSE v

\* The tracker's new state is broadcast; only going offline has an effect.
Broadcast(t) ==
  LET new == [d \in Docs |-> ApplyOnlineStateChange(views[d], t.state)] IN
  /\ tracker' = t
  /\ IF t.state = "Offline" /\ tracker.state # "Offline"
     THEN Notify(new, {d \in Docs : new[d] # views[d]}, t.state)
     ELSE UNCHANGED <<raised, main, views>>

(***************************************************************************)
(* The watch stream, as RemoteStore starts and loses it.                   *)
(***************************************************************************)

\* A stream that is needed is started and the attempt tracked; otherwise
\* nothing is.  t and s are what the operation under way has left.
StartIfNeeded(wanted, t, s) ==
  IF wanted # {} /\ ~ IsStarted(s)
  THEN [tracker |-> HandleWatchStreamStart(t), stream |-> Start(s)]
  ELSE [tracker |-> t, stream |-> s]

\* The stream ended on an error: with targets left it is tried again, without
\* nothing is known of the connection.
LoseStream ==
  LET s == Closed("Error")
      next == StartIfNeeded(targets, HandleWatchStreamFailure(tracker), s)
  IN  /\ aggregate' = [d \in Docs |-> Nothing]
      /\ IF targets # {}
         THEN stream' = next.stream /\ Broadcast(next.tracker)
         ELSE stream' = s /\ Broadcast(UpdateState(tracker, "Unknown"))

(***************************************************************************)
(* The app, on the main queue.                                             *)
(***************************************************************************)
GetDocument(d) ==
  /\ Len(asked) < MaxFetches
  /\ asked' = Append(asked, d)
  /\ tasks' = Append(tasks, <<"listen", Len(asked) + 1>>)
  /\ UNCHANGED <<answers, main, clientVars, localVars, writeVars, targets,
                 aggregate, tracker, stream, serverVars, seen, faults>>

\* ListenOnce removes its listener before it answers, so it is muted then.
Muted(f) == ToSet(answers[f]) \ {"denied"} # {}

AnswerTo(e) ==
  IF e.error THEN "denied"
  ELSE IF e.exists THEN "exists"
  ELSE IF e.fromCache THEN "offline"
  ELSE "missing"

\* Wrong on purpose: an answer from the cache keeps the listener.
Removal_Synced(e) ==
  IF e.error \/ e.fromCache THEN <<>> ELSE <<<<"remove", e.fetch>>>>

\* The listener is removed, unless an error has done so.
Removal(e) == IF e.error THEN <<>> ELSE <<<<"remove", e.fetch>>>>

\* Wrong on purpose: events that were under way are answered as well.
OnEvent_Unmuted ==
  /\ main # <<>>
  /\ main' = Tail(main)
  /\ LET e == Head(main) IN
       /\ answers' = [answers EXCEPT ![e.fetch] = Append(@, AnswerTo(e))]
       /\ tasks' = tasks \o Removal(e)
  /\ UNCHANGED <<asked, clientVars, localVars, writeVars, targets,
                 aggregate, tracker, stream, serverVars, seen, faults>>

OnEvent ==
  /\ main # <<>>
  /\ main' = Tail(main)
  /\ LET e == Head(main) IN
       IF Muted(e.fetch) THEN UNCHANGED <<answers, tasks>>
       ELSE /\ answers' = [answers EXCEPT ![e.fetch] = Append(@, AnswerTo(e))]
            /\ tasks' = tasks \o Removal(e)
  /\ UNCHANGED <<asked, clientVars, localVars, writeVars, targets,
                 aggregate, tracker, stream, serverVars, seen, faults>>

(***************************************************************************)
(* Tasks of the worker queue.                                              *)
(***************************************************************************)
Runs(kind) == tasks # <<>> /\ Head(tasks)[1] = kind /\ tasks' = Tail(tasks)

\* A view of the local document, cache and pending writes, not current yet.
InitializeView(d) ==
  LET new == Overlaid(cached[d], Pending(d)) IN
  [doc |-> new.there, local |-> new.local, synced |-> d \in keys,
   current |-> FALSE, fresh |-> FALSE]

\* The first listener of a document has it watched, now or once the stream is
\* open.
Listen(d) ==
  LET next == StartIfNeeded(targets \cup {d}, tracker, stream) IN
  /\ targets' = targets \cup {d}
  /\ seen' = [seen EXCEPT ![d] = {(d \in server)}]
  /\ tracker' = next.tracker
  /\ IF stream.state = "Open"
     THEN /\ stream' = Send(stream, "watch", d)
          /\ aggregate' = [aggregate EXCEPT ![d] = Awaited(@)]
     ELSE stream' = next.stream /\ UNCHANGED aggregate

\* ... and makes its view; every listener is told of the view there is.
AddQueryListener ==
  /\ Runs("listen")
  /\ LET f == Head(tasks)[2]
         d == asked[f]
         first == listeners[d] = {}
         v == IF first THEN InitializeView(d) ELSE views[d]
         raises == ShouldRaiseInitialEvent(v, tracker.state)
     IN  /\ listeners' = [listeners EXCEPT ![d] = @ \cup {f}]
         /\ views' = [views EXCEPT ![d] = v]
         /\ raised' = IF raises THEN raised \cup {f} ELSE raised
         /\ main' = IF raises THEN Append(main, SnapshotEvent(f, v)) ELSE main
         /\ IF first THEN Listen(d)
            ELSE UNCHANGED <<targets, seen, tracker, stream, aggregate>>
  /\ UNCHANGED <<appVars, localVars, writeVars, serverVars, faults>>

\* The last listener of a document ends its target.
StopListening(d) ==
  LET left == targets \ {d}
      open == stream.state = "Open"
  IN  /\ views' = [views EXCEPT ![d] = NoView]
      /\ seen' = [seen EXCEPT ![d] = {}]
      /\ targets' = left
      /\ stream' = IF open THEN [Send(stream, "unwatch", d) EXCEPT !.idle = left = {}]
                   ELSE stream
      /\ aggregate' = IF open THEN [aggregate EXCEPT ![d] = Awaited(@)] ELSE aggregate
      /\ tracker' = IF left = {} /\ ~ open THEN UpdateState(tracker, "Unknown")
                    ELSE tracker

\* A listener that an error took away already is not there to be removed.
RemoveQueryListener ==
  /\ Runs("remove")
  /\ LET f == Head(tasks)[2]
         d == asked[f]
     IN  /\ listeners' = [listeners EXCEPT ![d] = @ \ {f}]
         /\ IF listeners[d] = {f} THEN StopListening(d)
            ELSE UNCHANGED <<views, seen, targets, stream, aggregate, tracker>>
  /\ UNCHANGED <<appVars, main, raised, localVars, writeVars, serverVars, faults>>

\* Another user's writes are overlaid from now on, or the token is a new one; the
\* streams are torn down and started again.
HandleCredentialChange ==
  /\ faults < MaxFaults
  /\ faults' = faults + 1
  /\ \E u \in Users :
       /\ user' = u
       /\ IF u = user THEN UNCHANGED <<views, raised, main>>
          ELSE EmitNewSnapshots(cached, pending[u])
  /\ commits' = [d \in Docs |-> <<>>]
  /\ LET next == StartIfNeeded(targets, UpdateState(tracker, "Unknown"), Stopped(stream))
     IN  tracker' = next.tracker /\ stream' = next.stream
  /\ aggregate' = [d \in Docs |-> Nothing]
  /\ UNCHANGED <<appVars, tasks, listeners, localVars, pending, written, targets,
                 serverVars, seen>>

(***************************************************************************)
(* Timers, and the stream's own steps.                                     *)
(***************************************************************************)
OnlineStateTimeout ==
  /\ tracker.timer
  /\ Broadcast(TimerElapsed(tracker))
  /\ UNCHANGED <<appVars, tasks, listeners, localVars, writeVars, targets,
                 aggregate, stream, serverVars, seen, faults>>

BackoffElapsed ==
  /\ stream.state = "Backoff"
  /\ stream' = [stream EXCEPT !.state = "Starting"]
  /\ UNCHANGED <<appVars, tasks, main, clientVars, localVars, writeVars, targets,
                 aggregate, tracker, serverVars, seen, faults>>

IdleTimeout ==
  /\ stream.idle
  /\ stream' = Stopped(stream)
  /\ aggregate' = [d \in Docs |-> Nothing]
  /\ tracker' = UpdateState(tracker, "Unknown")
  /\ UNCHANGED <<appVars, tasks, main, clientVars, localVars, writeVars, targets,
                 serverVars, seen, faults>>

\* With a token the stream opens, whether or not the backend is there, and
\* every target is watched on it.
OnWatchStreamOpen ==
  /\ stream.state = "Starting"
  /\ LET order == SetToSeq(targets) IN
       stream' = [stream EXCEPT !.state = "Open",
                    !.wire = [i \in DOMAIN order |-> <<"watch", order[i], tokens[order[i]]>>]]
  /\ aggregate' = [d \in Docs |-> IF d \in targets THEN Awaited(aggregate[d])
                                  ELSE aggregate[d]]
  /\ UNCHANGED <<appVars, tasks, main, clientVars, localVars, writeVars, targets,
                 tracker, serverVars, seen, faults>>

\* There is no token, or the stream breaks.
OnStreamFinish ==
  /\ stream.state \in {"Starting", "Open"}
  /\ faults < MaxFaults
  /\ faults' = faults + 1
  /\ LoseStream
  /\ UNCHANGED <<appVars, tasks, listeners, localVars, writeVars, targets,
                 serverVars, seen>>

(***************************************************************************)
(* The backend.                                                            *)
(***************************************************************************)

\* What there is to tell of a document since a resume token, of the version it
\* changed to, and the snapshot that makes it consistent.
Update(d, there, token) ==
  IF changed'[d] > token /\ (there \/ token # NoToken)
  THEN <<<<IF there THEN "document" ELSE "delete", d, changed'[d]>>>> ELSE <<>>

Snapshot(d) == <<<<"snapshot", d, clock'>>>>

\* A target is answered with what changed since its token, an end of one with
\* an acknowledgement.
Serve ==
  /\ stream.wire # <<>>
  /\ UNCHANGED serverVars
  /\ LET kind  == Head(stream.wire)[1]
         d     == Head(stream.wire)[2]
         token == Head(stream.wire)[3]
         rest  == [stream EXCEPT !.wire = Tail(@)]
     IN  stream' =
           IF kind = "watch" /\ d \in Denied
           THEN [rest EXCEPT !.replies = Append(@, <<"denied", d, 0>>)]
           ELSE IF kind = "watch"
           THEN [rest EXCEPT !.watching = @ \cup {d},
                   !.replies = @ \o <<<<"added", d, 0>>>> \o Update(d, d \in server, token)
                                 \o <<<<"current", d, 0>>>> \o Snapshot(d)]
           ELSE IF d \in stream.watching
           THEN [rest EXCEPT !.watching = @ \ {d},
                   !.replies = Append(@, <<"removed", d, 0>>)]
           ELSE rest
  /\ UNCHANGED <<appVars, tasks, main, clientVars, localVars, writeVars, targets,
                 aggregate, tracker, seen, faults>>

\* A document is made or deleted, and who watches it is told.
Change(d, there) ==
  /\ clock + written <= MaxClock
  /\ clock' = clock + 1
  /\ changed' = [changed EXCEPT ![d] = clock + 1]
  /\ server' = IF there THEN server \cup {d} ELSE server \ {d}
  /\ seen' = IF d \in targets THEN [seen EXCEPT ![d] = @ \cup {there}] ELSE seen
  /\ stream' = IF d \in stream.watching
               THEN [stream EXCEPT !.replies = @ \o Update(d, there, clock) \o Snapshot(d)]
               ELSE stream

\* By another device; a hidden document tells nobody anything.
WriteElsewhere(d) ==
  /\ d \notin Denied
  /\ Change(d, d \notin server)
  /\ UNCHANGED <<appVars, tasks, main, clientVars, localVars, writeVars, targets,
                 aggregate, tracker, faults>>

\* By the next write of the stream.
Commit(d) ==
  /\ d \notin Denied
  /\ Len(commits[d]) < Len(Pending(d))
  /\ Change(d, Pending(d)[Len(commits[d]) + 1] = "set")
  /\ commits' = [commits EXCEPT ![d] = Append(@, clock + 1)]
  /\ UNCHANGED <<appVars, tasks, main, clientVars, localVars, user, pending, written,
                 targets, aggregate, tracker, faults>>

(***************************************************************************)
(* The writes of this device.                                              *)
(***************************************************************************)
WritesUnchanged == UNCHANGED <<appVars, tasks, listeners, keys, tokens, user, targets,
                               aggregate, tracker, stream, serverVars, seen, faults>>

WriteLocally(d, op) ==
  /\ written < MaxWrites
  /\ clock + written <= MaxClock
  /\ written' = written + 1
  /\ pending' = [pending EXCEPT ![user][d] = Append(@, op)]
  /\ EmitNewSnapshots(cached, pending'[user])
  /\ UNCHANGED <<cached, commits>>
  /\ WritesUnchanged

\* Wrong on purpose: an acknowledgement overtaken by the watch stream is applied.
ApplyBatchResult_Always(d) ==
  [there |-> Head(Pending(d)) = "set", version |-> Head(commits[d]), own |-> TRUE]

\* The cache takes the write unless it has heard of what came after it.
ApplyBatchResult(d) ==
  IF cached[d].version < Head(commits[d])
  THEN [there |-> Head(Pending(d)) = "set", version |-> Head(commits[d]), own |-> TRUE]
  ELSE cached[d]

\* The oldest write is acknowledged with the version its commit made.
OnWriteStreamMutationResult(d) ==
  /\ commits[d] # <<>>
  /\ commits' = [commits EXCEPT ![d] = Tail(@)]
  /\ pending' = [pending EXCEPT ![user][d] = Tail(@)]
  /\ cached' = [cached EXCEPT ![d] = ApplyBatchResult(d)]
  /\ EmitNewSnapshots(cached', pending'[user])
  /\ UNCHANGED written
  /\ WritesUnchanged

\* The oldest write is refused, and the write stream ends.
HandleRejectedWrite(d) ==
  /\ Pending(d) # <<>>
  /\ commits' = [e \in Docs |-> <<>>]
  /\ pending' = [pending EXCEPT ![user][d] = Tail(@)]
  /\ EmitNewSnapshots(cached, pending'[user])
  /\ UNCHANGED <<cached, written>>
  /\ WritesUnchanged

\* The write stream breaks: what it sent is sent again.
OnWriteStreamClose ==
  /\ \E d \in Docs : commits[d] # <<>>
  /\ commits' = [d \in Docs |-> <<>>]
  /\ UNCHANGED <<cached, pending, written, views, raised, main>>
  /\ WritesUnchanged

(***************************************************************************)
(* Responses of the watch stream.                                          *)
(***************************************************************************)

\* Every message is proof of being online.
OnWatchStreamChange(kind) ==
  /\ stream.replies # <<>> /\ Head(stream.replies)[1] = kind
  /\ stream' = [stream EXCEPT !.replies = Tail(@)]
  /\ tracker' = UpdateState(tracker, "Online")
  /\ UNCHANGED <<appVars, tasks, writeVars, serverVars, faults>>

Doc == Head(stream.replies)[2]
At  == Head(stream.replies)[3]

\* Wrong on purpose: responses to an earlier watch of the target count.
IsActiveTarget_Listened(d) == d \in targets

\* A target counts when it is watched and no response is outstanding.
IsActiveTarget(d) == d \in targets /\ aggregate[d].outstanding = 0

\* Wrong on purpose: only targets added are counted down.
RecordTargetResponse_Added(g, kind) ==
  IF kind = "removed" THEN g
  ELSE [g EXCEPT !.outstanding = @ - 1, !.pending = FALSE, !.change = "none"]

\* A target's state is dropped; the update of the document is pending still.
Forgotten(g) == [Nothing EXCEPT !.update = g.update, !.version = g.version]

\* Acknowledgements of a target added or removed; the last one outstanding
\* voids what was gathered before it.
RecordTargetResponse(g, kind) ==
  LET left == [g EXCEPT !.outstanding = @ - 1] IN
  IF left.outstanding # 0 THEN left
  ELSE IF kind = "added" THEN [left EXCEPT !.pending = FALSE, !.change = "none"]
  ELSE Forgotten(g)

HandleTargetChange ==
  /\ \E kind \in {"added", "removed", "current"} :
       /\ OnWatchStreamChange(kind)
       /\ aggregate' =
            [aggregate EXCEPT ![Doc] =
               IF kind # "current" THEN RecordTargetResponse(@, kind)
               ELSE IF IsActiveTarget(Doc) THEN [@ EXCEPT !.current = TRUE, !.pending = TRUE]
               ELSE @]
  /\ UNCHANGED <<main, clientVars, localVars, targets, seen>>

\* The document leaves a target that does not hold it: nothing changes in it.
RemoveDocumentFromTarget(g, d, at) ==
  [g EXCEPT !.pending = TRUE, !.update = "delete", !.version = at,
            !.change = IF views[d].synced THEN "removed" ELSE "none"]

AddDocumentToTarget(g, at) ==
  [g EXCEPT !.pending = TRUE, !.update = "document", !.version = at, !.change = "added"]

HandleDocumentChange ==
  /\ \E kind \in {"document", "delete"} :
       /\ OnWatchStreamChange(kind)
       /\ aggregate' =
            [aggregate EXCEPT ![Doc] =
               IF ~ IsActiveTarget(Doc) THEN @
               ELSE IF kind = "document" THEN AddDocumentToTarget(@, At)
               ELSE RemoveDocumentFromTarget(@, Doc, At)]
  /\ UNCHANGED <<main, clientVars, localVars, targets, seen>>

\* Wrong on purpose: a document that is not there stays in the cache.
Resolved_Kept(d) == aggregate[d]

\* What a snapshot makes of the target of d: a current one that never had its
\* document gets a deletion.
Resolved(d) ==
  LET g == aggregate[d] IN
  IF IsActiveTarget(d) /\ g.current /\ g.update = "none" /\ ~ views[d].synced
  THEN RemoveDocumentFromTarget(g, d, At) ELSE g

\* A document update of a later version, or the one a write of ours made.
IsNewer(g, entry) ==
  g.version > entry.version \/ (g.version = entry.version /\ entry.own)

\* The cache with the updates of a snapshot.
ApplyUpdate(g, entry) ==
  IF g.update # "none" /\ IsNewer(g, entry)
  THEN [there |-> g.update = "document", version |-> g.version, own |-> FALSE]
  ELSE entry

\* The target change of a snapshot, if there is one.
ApplyTargetChange(d, g, v) ==
  IF ~ (IsActiveTarget(d) /\ g.pending) THEN v
  ELSE [v EXCEPT !.synced = (@ /\ g.change # "removed") \/ g.change = "added",
                 !.current = g.current]

\* The view of d after a snapshot that made the cache entry of it.
ApplyChanges(d, g, entry) ==
  IF d \notin targets THEN views[d]
  ELSE WithSyncState(ApplyTargetChange(d, g,
         ComputeDocumentChanges(views[d], Overlaid(entry, Pending(d)))))

\* A snapshot carries the resume token of every active target.
RaiseWatchSnapshot ==
  /\ OnWatchStreamChange("snapshot")
  /\ LET active == {d \in Docs : IsActiveTarget(d)}
         g == [d \in Docs |-> IF d \in active THEN [Resolved(d) EXCEPT !.pending = TRUE]
                              ELSE aggregate[d]]
         entries == [d \in Docs |-> ApplyUpdate(g[d], cached[d])]
         new == [d \in Docs |-> ApplyChanges(d, g[d], entries[d])]
     IN  /\ cached' = entries
         /\ keys' = {d \in Docs : IF d \in active THEN new[d].synced ELSE d \in keys}
         /\ tokens' = [d \in Docs |-> IF d \in active THEN At ELSE tokens[d]]
         /\ aggregate' = [d \in Docs |->
                            [g[d] EXCEPT !.update = "none", !.version = 0,
                               !.pending = @ /\ d \notin active,
                               !.change = IF d \in active THEN "none" ELSE @]]
         /\ Notify(new, {d \in Docs : Differ(new[d], views[d])}, "Online")
  /\ UNCHANGED <<listeners, targets, seen>>

\* Wrong on purpose: the listeners told of the error stay.
ProcessTargetError_KeepsListeners ==
  /\ OnWatchStreamChange("denied")
  /\ IF Doc \in targets
     THEN LET order == InOrder(listeners[Doc]) IN
          /\ targets' = targets \ {Doc}
          /\ aggregate' = [aggregate EXCEPT ![Doc] = Forgotten(aggregate[Doc])]
          /\ views' = [views EXCEPT ![Doc] = NoView]
          /\ seen' = [seen EXCEPT ![Doc] = {}]
          /\ main' = main \o [i \in DOMAIN order |-> ErrorEvent(order[i])]
     ELSE UNCHANGED <<targets, aggregate, views, seen, main>>
  /\ UNCHANGED <<raised, localVars, listeners>>

\* A target refused: its listeners get the error and are gone.
ProcessTargetError ==
  /\ OnWatchStreamChange("denied")
  /\ IF Doc \in targets
     THEN LET order == InOrder(listeners[Doc]) IN
          /\ targets' = targets \ {Doc}
          /\ aggregate' = [aggregate EXCEPT ![Doc] = Forgotten(aggregate[Doc])]
          /\ views' = [views EXCEPT ![Doc] = NoView]
          /\ seen' = [seen EXCEPT ![Doc] = {}]
          /\ main' = main \o [i \in DOMAIN order |-> ErrorEvent(order[i])]
          /\ listeners' = [listeners EXCEPT ![Doc] = {}]
     ELSE UNCHANGED <<targets, aggregate, views, seen, main, listeners>>
  /\ UNCHANGED <<raised, localVars>>

(***************************************************************************)
(* Specification.                                                          *)
(***************************************************************************)
Next ==
  \/ \E d \in Docs :
       \/ GetDocument(d) \/ WriteElsewhere(d) \/ Commit(d)
       \/ OnWriteStreamMutationResult(d) \/ HandleRejectedWrite(d)
       \/ \E op \in Op : WriteLocally(d, op)
  \/ OnWriteStreamClose
  \/ OnEvent \/ AddQueryListener \/ RemoveQueryListener \/ HandleCredentialChange
  \/ OnlineStateTimeout \/ BackoffElapsed \/ IdleTimeout
  \/ OnWatchStreamOpen \/ OnStreamFinish \/ Serve
  \/ HandleTargetChange \/ HandleDocumentChange \/ RaiseWatchSnapshot
  \/ ProcessTargetError

\* The client's queues are served, its timers fire and its responses are read.
ClientStep ==
  \/ OnEvent \/ AddQueryListener \/ RemoveQueryListener
  \/ OnlineStateTimeout \/ BackoffElapsed \/ OnWatchStreamOpen
  \/ HandleTargetChange \/ HandleDocumentChange \/ RaiseWatchSnapshot
  \/ ProcessTargetError

\* The backend need not answer, nor a stream to it break.
SilentSpec == Init /\ [][Next]_vars /\ WF_vars(ClientStep)

\* The backend answers what reaches it on a stream that lasts.
Spec == Init /\ [][Next]_vars /\ WF_vars(ClientStep \/ Serve)

(***************************************************************************)
(* Properties.                                                             *)
(***************************************************************************)

\* A view that counts as synced shows what the backend held at some moment
\* since the document is watched, or what this device last wrote and waits to
\* have acknowledged: neither responses to an earlier watch of the same target,
\* nor a resume token, nor the cache, nor an acknowledgement the watch stream has
\* overtaken make it say otherwise.  It is what the app's "Property not found"
\* rests on.
SyncedWasThere ==
  \A d \in Docs : views[d].fresh =>
    IF Pending(d) = <<>> THEN views[d].doc \in seen[d]
    ELSE views[d].doc <=> Last(Pending(d)) = "set"

\* A current document query calls for limbo resolution only with a write of this
\* device that the backend has committed and the watch stream is about to tell:
\* what the target does not hold is deleted from the cache otherwise, with the
\* snapshot that says so.
LimboIsUntold ==
  \A d \in Docs : views[d].current /\ ShouldBeInLimbo(views[d]) =>
    cached[d].own /\ cached[d].version > tokens[d]

\* The callback of a fetch runs at most once, although events may be under way
\* when its listener is removed and an error follows none.
AnsweredOnce == \A f \in Fetches : Len(answers[f]) <= 1

\* Exactly what is listened for is watched, as the assertion in StopListening
\* demands, through joins, errors and removals that come too late.
WatchedIsListened == targets = {d \in Docs : listeners[d] # {}}

\* Once the queues are empty nobody listens for an answer that was given.
NoListenerLeft ==
  tasks = <<>> /\ main = <<>> =>
    \A d \in Docs : \A f \in listeners[d] : answers[f] = <<>>

\* A stream is stopped as idle only when nothing is watched, and while
\* something is there is a stream: the assertion in OnWatchStreamClose.
StreamIsNeeded == /\ stream.idle => targets = {}
                  /\ targets # {} => IsStarted(stream)

\* The timer runs for an attempt that is under way and undecided, as three
\* assertions of the tracker demand.
TimerIsForAttempt ==
  tracker.timer => /\ tracker.state = "Unknown"
                   /\ tracker.failures = 0
                   /\ IsStarted(stream)

\* Every fetch is answered, whatever broke before, once the backend answers.
FetchAnswered ==
  \A f \in Fetches : Len(asked) >= f ~> answers[f] # <<>>

\* Whether the client is online is settled in bounded time while it listens,
\* whether or not the backend answers: "rather than waiting indefinitely".
OnlineStateSettles ==
  tracker.state = "Unknown" /\ targets # {}
    ~> tracker.state # "Unknown" \/ targets = {}
=============================================================================
