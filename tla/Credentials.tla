----------------------------- MODULE Credentials -----------------------------
(***************************************************************************)
(* Who is signed in, and whose token a stream of the Firestore SDK gets.   *)
(*                                                                         *)
(* Three threads take part.  The authentication SDK changes its user and   *)
(* answers token requests; both reach the main queue, in order, and from   *)
(* there the worker queue of Firestore, in order.  A token request notes   *)
(* the token counter of the moment and is answered with an error when the  *)
(* counter has moved on.                                                   *)
(***************************************************************************)
EXTENDS Integers, Sequences, FiniteSets

CONSTANTS Users,
          Anonymous,    \* nobody signed in; Firestore keeps a queue for it too
          Failed,       \* an answer without a token
          MaxChanges,   \* bound: changes of user
          MaxRefreshes  \* bound: tokens fetched from the authentication service

ASSUME CredentialsAssumption ==
  /\ Anonymous \in Users
  /\ Failed \notin Users
  /\ MaxChanges \in Nat /\ MaxRefreshes \in Nat

VARIABLES
  auth,      \* FIRAuth's _currentUser
  counter,   \* token_counter of the credentials provider
  calls,     \* GetToken calls the authentication SDK has not answered
  main,      \* blocks on the main queue
  tasks,     \* operations on Firestore's worker queue
  changes, refreshes

credentials == <<auth, counter, calls, main, tasks, changes, refreshes>>

\* A GetToken call: the counter and the close count of the stream it was made
\* with, and the user whose token is being refreshed for it, if any.
TokenCall == [counter : Nat, close : Nat, user : Users \cup {Failed}]

MainBlock == [kind : {"changed"}, user : Users]
             \cup [kind : {"token"}, call : TokenCall, user : Users \cup {Failed}]

WorkerTask == [kind : {"write"}, write : Nat]
              \cup [kind : {"changed"}, user : Users]
              \cup [kind : {"token"}, close : Nat, user : Users \cup {Failed}]

Changed(u)   == [kind |-> "changed", user |-> u]
Answer(c, u) == [kind |-> "token", call |-> c, user |-> u]

CredentialsTypeOK ==
  /\ auth \in Users
  /\ counter \in Nat
  /\ calls \in SUBSET TokenCall
  /\ main \in Seq(MainBlock)
  /\ tasks \in Seq(WorkerTask)
  /\ changes \in Nat
  /\ refreshes \in Nat

CredentialsInit ==
  /\ auth = Anonymous
  /\ counter = 0
  /\ calls = {}
  /\ main = <<>>
  /\ tasks = <<>>
  /\ changes = 0
  /\ refreshes = 0

\* The call a stream makes when it starts for the close-th time.
GetToken(close) == [counter |-> counter, close |-> close, user |-> Failed]

\* Signing in or out: the user changes now, the notification is posted.
UpdateCurrentUser(u) ==
  /\ changes < MaxChanges
  /\ u # auth
  /\ auth' = u
  /\ main' = Append(main, Changed(u))
  /\ changes' = changes + 1
  /\ UNCHANGED <<counter, calls, tasks, refreshes>>

\* Wrong on purpose: a call made with nobody signed in is never answered.
GiveToken_SignedInOnly(c) ==
  /\ c.user = Failed
  /\ auth # Anonymous
  /\ calls' = calls \ {c}
  /\ main' = Append(main, Answer(c, auth))
  /\ UNCHANGED <<auth, counter, tasks, changes, refreshes>>

\* The authentication queue takes up a call: the token of the user of now is
\* at hand.
GiveToken(c) ==
  /\ c.user = Failed
  /\ calls' = calls \ {c}
  /\ main' = Append(main, Answer(c, auth))
  /\ UNCHANGED <<auth, counter, tasks, changes, refreshes>>

\* ... or has expired and is fetched.
StartRefresh(c) ==
  /\ c.user = Failed
  /\ auth # Anonymous
  /\ refreshes < MaxRefreshes
  /\ calls' = (calls \ {c}) \cup {[c EXCEPT !.user = auth]}
  /\ refreshes' = refreshes + 1
  /\ UNCHANGED <<auth, counter, main, tasks, changes>>

\* A new token of the user still signed in is a change of credentials, posted
\* ahead of the answer.
FinishRefresh(c) ==
  /\ c.user # Failed
  /\ calls' = calls \ {c}
  /\ \/ main' = main \o (IF c.user = auth THEN <<Changed(auth)>> ELSE <<>>)
                     \o <<Answer(c, c.user)>>
     \/ main' = Append(main, Answer(c, Failed))
  /\ UNCHANGED <<auth, counter, tasks, changes, refreshes>>

\* The main queue runs a notification: the counter moves and the worker queue
\* hears of the user.
NotifyChange ==
  /\ main # <<>> /\ Head(main).kind = "changed"
  /\ counter' = counter + 1
  /\ tasks' = Append(tasks, Changed(Head(main).user))
  /\ main' = Tail(main)
  /\ UNCHANGED <<auth, calls, changes, refreshes>>

\* The main queue runs an answer.
AnswerToken ==
  /\ main # <<>> /\ Head(main).kind = "token"
  /\ LET a == Head(main) IN
       tasks' = Append(tasks, [kind |-> "token", close |-> a.call.close,
                               user |-> IF a.call.counter = counter THEN a.user
                                                                    ELSE Failed])
  /\ main' = Tail(main)
  /\ UNCHANGED <<auth, counter, calls, changes, refreshes>>

CredentialsNext ==
  \/ \E u \in Users : UpdateCurrentUser(u)
  \/ \E c \in calls : GiveToken(c) \/ StartRefresh(c) \/ FinishRefresh(c)
  \/ NotifyChange
  \/ AnswerToken
=============================================================================
