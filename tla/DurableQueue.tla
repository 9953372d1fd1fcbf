---------------------------- MODULE DurableQueue -----------------------------
(***************************************************************************)
(* What the write half of the Firestore SDK promises a client.  A write    *)
(* joins the queue of the user it was made for and stays there until it is *)
(* settled.  The backend commits the writes of a user in the order of the  *)
(* queue, each perhaps more than once.  The head is settled after it was   *)
(* committed or, when the backend refuses one of the writes waiting,       *)
(* given up.                                                               *)
(***************************************************************************)
EXTENDS Naturals, Sequences

CONSTANTS Users,
          Writes,
          Refused  \* writes the backend answers with a permanent error

VARIABLES pending,   \* user -> writes not settled, in order
          committed  \* <<user, write>> pairs the backend committed

vars == <<pending, committed>>

Init ==
  /\ pending = [u \in Users |-> <<>>]
  /\ committed = {}

Submit(u, w) ==
  /\ pending' = [pending EXCEPT ![u] = Append(@, w)]
  /\ UNCHANGED committed

Commit(u, i) ==
  /\ pending[u][i] \notin Refused
  /\ \A j \in 1 .. (i - 1) : <<u, pending[u][j]>> \in committed
  /\ committed' = committed \cup {<<u, pending[u][i]>>}
  /\ UNCHANGED pending

Settle(u) ==
  /\ pending[u] # <<>>
  /\ \/ <<u, Head(pending[u])>> \in committed
     \/ \E i \in DOMAIN pending[u] : pending[u][i] \in Refused
  /\ pending' = [pending EXCEPT ![u] = Tail(@)]
  /\ UNCHANGED committed

Next ==
  \E u \in Users :
    \/ \E w \in Writes : Submit(u, w)
    \/ \E i \in DOMAIN pending[u] : Commit(u, i)
    \/ Settle(u)

Spec == Init /\ [][Next]_vars
=============================================================================
