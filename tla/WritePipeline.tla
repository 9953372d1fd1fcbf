---------------------------- MODULE WritePipeline ----------------------------
(***************************************************************************)
(* The write half of the Firestore SDK on one device: the durable queue of *)
(* every user, the pipeline RemoteStore fills from the queue of the user   *)
(* it works for, and the write stream that carries the pipeline.           *)
(*                                                                         *)
(* Everything here runs on one worker queue, an action per operation: a    *)
(* task other threads enqueued, a timer, a message or the end of the gRPC  *)
(* stream.  The end of a stream may overtake answers that were under way.  *)
(***************************************************************************)
EXTENDS Credentials, SequencesExt, FiniteSetsExt

CONSTANTS MaxPendingWrites, \* kMaxPendingWrites
          Refused,          \* writes the backend answers with a permanent error
          MaxWrites,        \* bound: writes ever made
          MaxFaults         \* bound: times a stream breaks or the process dies

ASSUME PipelineAssumption ==
  /\ MaxPendingWrites \in Nat \ {0}
  /\ MaxWrites \in Nat /\ MaxFaults \in Nat
  /\ Refused \subseteq 1 .. MaxWrites

Writes == 1 .. MaxWrites

VARIABLES
  user,      \* SyncEngine's current_user_
  queue,     \* user -> mutation batches on disk
  nextId,    \* next_batch_id_ of the current mutation queue
  callbacks, \* completion callbacks waiting, by user and batch
  pipeline,  \* write_pipeline_
  stream,    \* the write stream and the channel under it
  committed, \* history: <<user, write>> the backend committed
  made, faults

\* All of the credentials but what the worker queue reads and makes.
otherThreads == <<auth, counter, main, changes, refreshes>>

disk     == <<queue, nextId>>
counts   == <<made, faults>>
pipeVars == <<user, disk, callbacks, pipeline, stream, committed, counts>>
vars     == <<credentials, pipeVars>>

Batch == [id : Nat, write : Writes]

\* Messages of the channel: the handshake and writes, or the answers to them.
Handshake == 0

Message == Writes \cup {Handshake}

Stream == [state     : {"Initial", "Starting", "Open", "Error", "Backoff"},
           handshake : BOOLEAN,                 \* handshake_complete_
           idle      : BOOLEAN,                 \* idleness_timer_ is set
           close     : Nat,                     \* close_count_
           token     : Users \cup {Failed},     \* of the gRPC stream, if any
           wire      : Seq(Message),            \* sent, not seen by the backend
           replies   : Seq(Message)]            \* answered, not read

NewStream == [state |-> "Initial", handshake |-> FALSE, idle |-> FALSE,
              close |-> 0, token |-> Failed, wire |-> <<>>, replies |-> <<>>]

TypeOK ==
  /\ CredentialsTypeOK
  /\ user \in Users
  /\ queue \in [Users -> Seq(Batch)]
  /\ nextId \in Nat
  /\ callbacks \in SUBSET [user : Users, id : Nat, write : Writes]
  /\ pipeline \in Seq(Batch)
  /\ stream \in Stream
  /\ stream.state = "Open" <=> stream.token # Failed
  /\ committed \in SUBSET (Users \X Writes)
  /\ made \in 0 .. MaxWrites
  /\ faults \in Nat

Init ==
  /\ CredentialsInit
  /\ user = auth
  /\ queue = [u \in Users |-> <<>>]
  /\ nextId = 1
  /\ callbacks = {}
  /\ pipeline = <<>>
  /\ stream = NewStream
  /\ committed = {}
  /\ made = 0
  /\ faults = 0

(***************************************************************************)
(* The stream.                                                             *)
(***************************************************************************)
IsStarted(s) == s.state \in {"Starting", "Backoff", "Open"}

\* A stream that ended on an error backs off first.
Start(s) ==
  [s EXCEPT !.state = IF @ = "Error" THEN "Backoff" ELSE "Starting"]

\* Wrong on purpose: answers to an earlier start are taken for this one's.
Closed_KeepsCount(s, state) ==
  [NewStream EXCEPT !.state = state, !.close = s.close]

\* Close: timers cancelled, the channel and what it carried gone.  Whether the
\* handshake was complete decides how the end is handled, before it is reset.
Closed(s, state) == [NewStream EXCEPT !.state = state, !.close = s.close + 1]

\* A graceful stop, of a stream that may not be started.
Stopped(s) == IF IsStarted(s) THEN Closed(s, "Initial") ELSE s

\* Wrong on purpose: the idle timer goes on.
Send_KeepsTimer(s, messages) == [s EXCEPT !.wire = @ \o messages]

\* Sending cancels the idle timer.
Send(s, messages) ==
  [s EXCEPT !.wire = @ \o messages, !.idle = @ /\ messages = <<>>]

\* Every start asks for a token, once.
Asks(s) == IF s.state = "Starting" /\ (stream.state # "Starting" \/ s.close # stream.close)
           THEN {GetToken(s.close)}
           ELSE {}

(***************************************************************************)
(* The queue on disk.                                                      *)
(***************************************************************************)
Ids(q) == UNION {{q[u][i].id : i \in DOMAIN q[u]} : u \in Users}

\* Batch ids are unique among the batches left, over all users; an id whose
\* batch is gone is given again.
LoadNextBatchId(q) == Max(Ids(q) \cup {0}) + 1

\* Batches are kept in the order of their ids: as many precede id.
Preceding(q, id) == Cardinality({i \in DOMAIN q : q[i].id < id})

After(q, id) == SubSeq(q, Preceding(q, id + 1) + 1, Len(q))

Without(q, id) == RemoveAt(q, Preceding(q, id) + 1)

(***************************************************************************)
(* The pipeline.                                                           *)
(***************************************************************************)

\* FillWritePipeline: batches after the last one of the pipeline, as many as
\* it still takes.
Filled(pipe, q) ==
  LET rest == After(q, IF pipe = <<>> THEN -1 ELSE Last(pipe).id)
      room == MaxPendingWrites - Len(pipe)
  IN  pipe \o SubSeq(rest, 1, IF Len(rest) < room THEN Len(rest) ELSE room)

WritesOf(batches) == [i \in DOMAIN batches |-> batches[i].write]

\* Wrong on purpose: additions make the stream send the whole pipeline again.
FilledStream_Resends(pipe, filled, s) ==
  IF filled = <<>> THEN [s EXCEPT !.idle = @ \/ s.state = "Open"]
  ELSE IF ~ IsStarted(s) THEN Start(s)
  ELSE IF s.state = "Open" /\ s.handshake /\ filled # pipe
       THEN Send(s, WritesOf(filled))
  ELSE s

\* What filling does to the stream: an empty pipeline marks it idle, one that
\* is not starts it, and additions are sent when it is ready for them.
FilledStream(pipe, filled, s) ==
  IF filled = <<>> THEN [s EXCEPT !.idle = @ \/ s.state = "Open"]
  ELSE IF ~ IsStarted(s) THEN Start(s)
  ELSE IF s.state = "Open" /\ s.handshake
       THEN Send(s, WritesOf(SubSeq(filled, Len(pipe) + 1, Len(filled))))
  ELSE s

\* FillWritePipeline, called with the pipeline, the queue and the stream as the
\* operation under way has left them.
FillWritePipeline(pipe, q, s) ==
  LET filled == Filled(pipe, q)
      next   == FilledStream(pipe, filled, s)
  IN  /\ pipeline' = filled
      /\ stream' = next
      /\ calls' = calls \cup Asks(next)

\* Wrong on purpose: the callback stays, waiting for the next batch of that id.
Settle_KeepsCallback(s) ==
  LET b == Head(pipeline)
      q == [queue EXCEPT ![user] = Without(@, b.id)]
  IN  /\ queue' = q
      /\ UNCHANGED callbacks
      /\ FillWritePipeline(Tail(pipeline), q[user], s)

\* The head of the pipeline is settled: its callback runs and it leaves the
\* disk.
Settle(s) ==
  LET b == Head(pipeline)
      q == [queue EXCEPT ![user] = Without(@, b.id)]
  IN  /\ queue' = q
      /\ callbacks' = {c \in callbacks : c.user # user \/ c.id # b.id}
      /\ FillWritePipeline(Tail(pipeline), q[user], s)

\* The stream ends on an error that costs no write: it backs off when the
\* pipeline still needs it.
CloseOnError ==
  LET s == Closed(stream, "Error") IN
  /\ stream' = IF pipeline # <<>> THEN Start(s) ELSE s
  /\ UNCHANGED <<calls, pipeline, queue, callbacks>>

(***************************************************************************)
(* Tasks of the worker queue.                                              *)
(***************************************************************************)

\* The app makes a write, on the main thread.
MakeWrite ==
  /\ made < MaxWrites
  /\ made' = made + 1
  /\ tasks' = Append(tasks, [kind |-> "write", write |-> made + 1])
  /\ UNCHANGED <<otherThreads, calls, user, disk, callbacks, pipeline,
                 stream, committed, faults>>

Runs(kind) ==
  /\ tasks # <<>> /\ Head(tasks).kind = kind
  /\ tasks' = Tail(tasks)
  /\ UNCHANGED <<otherThreads, made>>

\* A write joins the queue of the user of now, whoever made it.
WriteMutations ==
  /\ Runs("write")
  /\ LET b == [id |-> nextId, write |-> Head(tasks).write]
         q == [queue EXCEPT ![user] = Append(@, b)]
     IN  /\ queue' = q
         /\ callbacks' = callbacks \cup {[user |-> user, id |-> b.id, write |-> b.write]}
         /\ FillWritePipeline(pipeline, q[user], stream)
  /\ nextId' = nextId + 1
  /\ UNCHANGED <<user, committed, faults>>

\* Wrong on purpose: the batches of the previous user stay in the pipeline.
HandleCredentialChange_KeepsPipeline ==
  /\ Runs("changed")
  /\ user' = Head(tasks).user
  /\ nextId' = IF user' = user THEN nextId ELSE LoadNextBatchId(queue)
  /\ FillWritePipeline(pipeline, queue[user'], Stopped(stream))
  /\ UNCHANGED <<queue, callbacks, committed, faults>>

\* Wrong on purpose: an open stream is kept.
HandleCredentialChange_KeepsStream ==
  /\ Runs("changed")
  /\ user' = Head(tasks).user
  /\ nextId' = IF user' = user THEN nextId ELSE LoadNextBatchId(queue)
  /\ FillWritePipeline(<<>>, queue[user'], stream)
  /\ UNCHANGED <<queue, callbacks, committed, faults>>

\* The queue of the new user takes over and the stream starts afresh, also
\* when only the token changed.
HandleCredentialChange ==
  /\ Runs("changed")
  /\ user' = Head(tasks).user
  /\ nextId' = IF user' = user THEN nextId ELSE LoadNextBatchId(queue)
  /\ FillWritePipeline(<<>>, queue[user'], Stopped(stream))
  /\ UNCHANGED <<queue, callbacks, committed, faults>>

\* The answer to a GetToken call of a stream closed since is ignored.
IgnoreToken ==
  /\ Runs("token")
  /\ Head(tasks).close # stream.close
  /\ UNCHANGED <<calls, user, disk, callbacks, pipeline, stream, committed, faults>>

\* Wrong on purpose: an error is taken for a token.
ResumeStartWithCredentials_AnyAnswer ==
  /\ Runs("token")
  /\ Head(tasks).close = stream.close
  /\ stream' = Send([stream EXCEPT !.state = "Open", !.token = Head(tasks).user],
                    <<Handshake>>)
  /\ UNCHANGED <<calls, user, disk, callbacks, pipeline, committed, faults>>

\* With a token the gRPC stream starts and the handshake is sent.
ResumeStartWithCredentials ==
  /\ Runs("token")
  /\ Head(tasks).close = stream.close
  /\ Head(tasks).user # Failed
  /\ stream' = Send([stream EXCEPT !.state = "Open", !.token = Head(tasks).user],
                    <<Handshake>>)
  /\ UNCHANGED <<calls, user, disk, callbacks, pipeline, committed, faults>>

FailStartWithCredentials ==
  /\ Runs("token")
  /\ Head(tasks).close = stream.close
  /\ Head(tasks).user = Failed
  /\ CloseOnError
  /\ UNCHANGED <<user, nextId, committed, faults>>

(***************************************************************************)
(* Timers.                                                                 *)
(***************************************************************************)
BackoffElapsed ==
  /\ stream.state = "Backoff"
  /\ stream' = [stream EXCEPT !.state = "Starting"]
  /\ calls' = calls \cup {GetToken(stream.close)}
  /\ UNCHANGED <<otherThreads, tasks, user, disk, callbacks, pipeline,
                 committed, counts>>

IdleTimeout ==
  /\ stream.idle
  /\ stream' = Stopped(stream)
  /\ UNCHANGED <<credentials, user, disk, callbacks, pipeline, committed, counts>>

(***************************************************************************)
(* The channel.                                                            *)
(***************************************************************************)

\* The backend answers the handshake or commits a write, for the user whose
\* token the stream carries.
Serve ==
  /\ stream.wire # <<>>
  /\ LET m == Head(stream.wire) IN
       /\ m \notin Refused
       /\ stream' = [stream EXCEPT !.wire = Tail(@), !.replies = Append(@, m)]
       /\ committed' = IF m = Handshake THEN committed
                       ELSE committed \cup {<<stream.token, m>>}
  /\ UNCHANGED <<credentials, user, disk, callbacks, pipeline, counts>>

\* The first response completes the handshake and the pipeline is sent.
OnWriteStreamHandshakeComplete ==
  /\ stream.replies # <<>> /\ ~ stream.handshake
  /\ stream' = Send([stream EXCEPT !.handshake = TRUE, !.replies = Tail(@)],
                    WritesOf(pipeline))
  /\ UNCHANGED <<credentials, user, disk, callbacks, pipeline, committed, counts>>

\* Every later one is taken for the result of the head of the pipeline.
OnWriteStreamMutationResult ==
  /\ stream.replies # <<>> /\ stream.handshake
  /\ Settle([stream EXCEPT !.replies = Tail(@)])
  /\ UNCHANGED <<otherThreads, tasks, user, nextId, committed, counts>>

\* Wrong on purpose: a transient error gives up the write it interrupts.
OnStreamFinish_GivesUp ==
  /\ stream.state = "Open"
  /\ faults < MaxFaults
  /\ faults' = faults + 1
  /\ IF pipeline = <<>> THEN CloseOnError ELSE Settle(Closed(stream, "Initial"))
  /\ UNCHANGED <<otherThreads, tasks, user, nextId, committed, made>>

\* The stream breaks, or the handshake fails: nothing is given up.
OnStreamFinish ==
  /\ stream.state = "Open"
  /\ faults < MaxFaults
  /\ faults' = faults + 1
  /\ CloseOnError
  /\ UNCHANGED <<otherThreads, tasks, user, nextId, committed, made>>

\* The backend refuses a write and ends the stream with a permanent error,
\* which costs the head of the pipeline and is not backed off from.
HandleWriteError ==
  /\ stream.handshake
  /\ stream.wire # <<>> /\ Head(stream.wire) \in Refused
  /\ Settle(Closed(stream, "Initial"))
  /\ UNCHANGED <<otherThreads, tasks, user, nextId, committed, counts>>

\* The process dies and starts again: the queues and the sign-in are on disk.
Restart ==
  /\ faults < MaxFaults
  /\ faults' = faults + 1
  /\ counter' = 0
  /\ main' = <<>>
  /\ tasks' = <<>>
  /\ user' = auth
  /\ nextId' = LoadNextBatchId(queue)
  /\ callbacks' = {}
  /\ pipeline' = Filled(<<>>, queue[auth])
  /\ stream' = FilledStream(<<>>, pipeline', NewStream)
  /\ calls' = IF pipeline' = <<>> THEN {}
              ELSE {[counter |-> 0, close |-> 0, user |-> Failed]}
  /\ UNCHANGED <<auth, changes, refreshes, queue, committed, made>>

(***************************************************************************)
(* Specification.                                                          *)
(***************************************************************************)
Next ==
  \/ CredentialsNext /\ UNCHANGED pipeVars
  \/ MakeWrite \/ WriteMutations \/ HandleCredentialChange
  \/ IgnoreToken \/ ResumeStartWithCredentials \/ FailStartWithCredentials
  \/ BackoffElapsed \/ IdleTimeout
  \/ Serve \/ OnWriteStreamHandshakeComplete \/ OnWriteStreamMutationResult
  \/ OnStreamFinish \/ HandleWriteError
  \/ Restart

\* Every queue is served and every timer fires; what the user does and what
\* fails need not happen.
Progress ==
  \/ /\ \/ \E c \in calls : GiveToken(c) \/ FinishRefresh(c)
        \/ NotifyChange \/ AnswerToken
     /\ UNCHANGED pipeVars
  \/ WriteMutations \/ HandleCredentialChange
  \/ IgnoreToken \/ ResumeStartWithCredentials \/ FailStartWithCredentials
  \/ BackoffElapsed
  \/ Serve \/ OnWriteStreamHandshakeComplete \/ OnWriteStreamMutationResult
  \/ HandleWriteError

Spec == Init /\ [][Next]_vars /\ WF_vars(Progress)

(***************************************************************************)
(* Properties.                                                             *)
(***************************************************************************)

\* The pipeline is the front of the current user's queue, as much as it takes,
\* and while it holds a write the stream is started: across refills, user
\* changes, errors and restarts no write waits for a stream nobody starts, and
\* none is left in memory that is gone from the disk.
PipelineIsFront ==
  /\ IsPrefix(pipeline, queue[user])
  /\ Len(pipeline) = Min({MaxPendingWrites, Len(queue[user])})
  /\ pipeline # <<>> => IsStarted(stream)

\* A response carries no id and is taken for the head of the pipeline: what is
\* under way on a stream past its handshake is the pipeline, in order.
ResponsesMatchPipeline ==
  stream.handshake => stream.replies \o stream.wire = WritesOf(pipeline)

\* An open stream carries the token of the user whose queue it sends, although
\* the user can change while the token is fetched.
TokenIsOfUser == stream.state = "Open" => stream.token = user

\* A stream is stopped as idle only when nothing is left to send, as the
\* assertion in OnWriteStreamClose demands.
IdleIsDrained == stream.idle => pipeline = <<>>

\* GetToken calls of the current start: under way, answered, or enqueued.
TokensAwaited ==
  Cardinality({c \in calls : c.close = stream.close})
  + Cardinality({i \in DOMAIN main :
                   main[i].kind = "token" /\ main[i].call.close = stream.close})
  + Cardinality({i \in DOMAIN tasks :
                   tasks[i].kind = "token" /\ tasks[i].close = stream.close})

\* A starting stream waits for exactly one token and no other stream waits for
\* any, so an answer never finds a stream it was not asked for, as the
\* assertion in ResumeStartWithCredentials demands.
StartAwaitsToken ==
  TokensAwaited = IF stream.state = "Starting" THEN 1 ELSE 0

\* Batch ids are given again, yet a completion callback is only ever waiting
\* for the write it was handed in with.
CallbackIsForItsWrite ==
  \A c \in callbacks :
    [id |-> c.id, write |-> c.write] \in ToSet(queue[c.user])

\* What a client is promised of its queue.
Durable == INSTANCE DurableQueue WITH
             pending <- [u \in Users |-> WritesOf(queue[u])]

\* Retries, credential changes and restarts included, every step commits or
\* settles writes as an at-least-once queue in order does.
IsDurableQueue == Durable!Spec

\* The queue of a user who stays signed in drains, whatever happened before.
WritesSettle ==
  \A u \in Users : <>[](auth = u) => <>[](queue[u] = <<>>)
=============================================================================
