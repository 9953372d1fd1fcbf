------------------------------- MODULE Session -------------------------------
(***************************************************************************)
(* Signing up, logging in and the screen a user lands on, on one device.   *)
(*                                                                         *)
(* Signing up creates an account and then writes the user's document       *)
(* without waiting for it.  Logging in signs in and then picks the screen  *)
(* from the copy of that document in the device's cache, which only the    *)
(* user's own writes and the fetch of sendRequestTapped bring up to date.  *)
(* The pairing itself is written by the landlord, on another device.       *)
(*                                                                         *)
(* Two hops separate signing in from what the app does next.  The SDK's    *)
(* work queue changes the user and posts two blocks to the main queue, the *)
(* notification Firestore follows and the app's callback; the callback     *)
(* asks for the current user again.                                        *)
(***************************************************************************)
EXTENDS Naturals, Sequences, FiniteSets

CONSTANTS Users,
          None,        \* no document, nobody signed in
          Unset,       \* Firestore has not been used since the process started
          MaxRequests, \* bound: requests ever sent from this device
          MaxCalls     \* bound: calls under way at once and requests sent

VARIABLES
  accounts,   \* users known to the authentication service
  doc,        \* users/u on the backend
  requested,  \* users whose request waits for the landlord
  cached,     \* users/u in the device's cache of backend documents
  queue,      \* mutation queue of each user, and of nobody signed in
  sent,       \* writes of the current queue committed and not acknowledged
  current,    \* Auth.auth().currentUser, which is on disk
  user,       \* the user Firestore writes for
  main,       \* blocks the authentication SDK posted to the main queue
  calls,      \* asynchronous calls under way, whose callbacks will run
  screen,     \* the view controller on top, "off" when not running
  routedBy,   \* user whose document chose the screen
  recorded,   \* history: account types sign-ups wrote in the user's own queue
  strays,     \* history: those they wrote for a user in another one's queue
  approved,   \* history: users a landlord has accepted
  asked       \* history: requests sent from this device

backend == <<accounts, doc, requested, approved>>
device  == <<cached, queue, sent, user>>
sdk     == <<current, main, calls>>
ui      == <<screen, routedBy>>
history == <<recorded, strays, asked>>
vars    == <<backend, device, sdk, ui, history>>

AccountTypes == {"tenants", "landlords"}
UserDoc == [type : AccountTypes \cup {"missing"}, paired : {"false", "true"}]

ASSUME SessionAssumption ==
  /\ None \notin Users \cup AccountTypes \cup UserDoc
  /\ Unset \notin Users \cup {None}
  /\ MaxRequests \in Nat /\ MaxCalls \in Nat

Homes == {"landlord", "connect", "tenant"}

\* createUser, signIn, getDocument(source: .cache), and the two fetches of
\* sendRequestTapped.
Calls == [kind : {"create", "signIn", "read", "fetchUser", "fetchListing"},
          user : Users]

Call(kind, u) == [kind |-> kind, user |-> u]

\* The notification of a change of user, and the callbacks of createUser and
\* signIn.
Block == [kind : {"changed"}, user : Users \cup {None}]
         \cup [kind : {"created", "signedIn"}, user : Users]

Changed(u) == [kind |-> "changed", user |-> u]

\* The two writes of this device: setData of a sign-up and a request.
Write == [op : {"signUp"}, user : Users, type : AccountTypes]
         \cup [op : {"request"}, user : Users]

SignUpDoc(type) == [type |-> type, paired |-> "false"]

\* The account types any sign-up on this device wrote for a user.
Written(u) == recorded[u] \cup strays[u]

\* A user's document as the device reads it: the cached copy under the
\* pending writes of the user Firestore writes for, the last one on top.
SignUps(q, u) == {i \in DOMAIN queue[q] :
                    queue[q][i].op = "signUp" /\ queue[q][i].user = u}

Overlay(base, q, u) ==
  IF SignUps(q, u) = {} THEN base
  ELSE SignUpDoc(queue[q][CHOOSE i \in SignUps(q, u) :
                            \A j \in SignUps(q, u) : j <= i].type)

Pending == IF user = Unset THEN <<>> ELSE queue[user]

View(u) == IF user = Unset THEN cached[u] ELSE Overlay(cached[u], user, u)

TypeOK ==
  /\ accounts \in SUBSET Users
  /\ doc \in [Users -> UserDoc \cup {None}]
  /\ requested \in SUBSET Users
  /\ cached \in [Users -> UserDoc \cup {None}]
  /\ queue \in [Users \cup {None} -> Seq(Write)]
  /\ current \in Users \cup {None}
  /\ user \in Users \cup {None, Unset}
  /\ sent \in 0 .. Len(Pending)
  /\ main \in Seq(Block)
  /\ calls \in SUBSET Calls
  /\ screen \in Homes \cup {"off", "start", "signUp", "login"}
  /\ recorded \in [Users -> SUBSET AccountTypes]
  /\ strays \in [Users -> SUBSET AccountTypes]
  /\ approved \in SUBSET Users
  /\ routedBy \in Users \cup {None}
  /\ asked \in Nat

\* Some tenants have signed up on another device.
Init ==
  /\ accounts \in SUBSET Users
  /\ doc = [u \in Users |-> IF u \in accounts THEN SignUpDoc("tenants") ELSE None]
  /\ requested = {}
  /\ approved = {}
  /\ cached = [u \in Users |-> None]
  /\ queue = [q \in Users \cup {None} |-> <<>>]
  /\ sent = 0
  /\ user = Unset
  /\ current = None
  /\ main = <<>>
  /\ calls = {}
  /\ screen = "start"
  /\ routedBy = None
  /\ recorded = [u \in Users |-> {}]
  /\ strays = [u \in Users |-> {}]
  /\ asked = 0

(***************************************************************************)
(* Process and screens.                                                    *)
(***************************************************************************)

\* Memory is lost; the caches, the queues and the sign-in are on disk.
Die ==
  /\ screen' = "off"
  /\ routedBy' = None
  /\ sent' = 0
  /\ user' = Unset
  /\ main' = <<>>
  /\ calls' = {}

\* A createUser call cut off may have created its account.
Kill ==
  /\ screen # "off"
  /\ Die
  /\ \E S \in SUBSET {u \in Users \ accounts : Call("create", u) \in calls} :
       accounts' = accounts \cup S
  /\ UNCHANGED <<doc, requested, approved, cached, queue, current, history>>

\* The app opens on its start screen, whoever is signed in.
Launch ==
  /\ screen = "off"
  /\ screen' = "start"
  /\ UNCHANGED <<backend, device, sdk, routedBy, history>>

Segue ==
  /\ \/ screen = "start" /\ screen' \in {"signUp", "login"}
     \/ screen \in {"signUp", "login"} /\ screen' = "start"
  /\ UNCHANGED <<backend, device, sdk, routedBy, history>>

\* signOut changes the user at once; Firestore hears of it through the main
\* queue like of every change.
LogOut ==
  /\ screen \in Homes
  /\ current' = None
  /\ main' = IF current = None THEN main ELSE Append(main, Changed(None))
  /\ screen' = "start"
  /\ routedBy' = None
  /\ UNCHANGED <<backend, device, calls, history>>

\* The user's tap starts a call, or the callback of one call starts another.
Start(c) ==
  /\ Cardinality(calls) + asked
       + Cardinality({i \in DOMAIN main : main[i].kind # "changed"}) < MaxCalls
  /\ calls' = calls \cup {c}

Callback(c, next) ==
  /\ c \in calls
  /\ calls' = (calls \ {c}) \cup next

Waiting(kind, u) == Call(kind, u) \in calls

(***************************************************************************)
(* The authentication SDK.                                                 *)
(***************************************************************************)

\* On the SDK's work queue: the user changes, then the notification and the
\* app's callback are posted to the main queue.
UpdateCurrentUser(kind, u) ==
  /\ current' = u
  /\ main' = main \o <<Changed(u), [kind |-> kind, user |-> u]>>

CreateUserSucceeded(u) ==
  /\ Callback(Call("create", u), {})
  /\ accounts' = accounts \cup {u}
  /\ UpdateCurrentUser("created", u)
  /\ UNCHANGED <<doc, requested, approved, device, ui, history>>

SignInSucceeded(u) ==
  /\ u \in accounts
  /\ Callback(Call("signIn", u), {})
  /\ UpdateCurrentUser("signedIn", u)
  /\ UNCHANGED <<backend, device, ui, history>>

\* createUser or signIn fails: an error is shown.
AuthFailed(u) ==
  /\ \E kind \in {"create", "signIn"} : Callback(Call(kind, u), {})
  /\ UNCHANGED <<backend, device, current, main, ui, history>>

\* Wrong on purpose: the new user's stream counts the old one's writes.
HandleCredentialChange_KeepsSent(u) ==
  IF user = Unset THEN UNCHANGED <<user, sent>> ELSE user' = u /\ UNCHANGED sent

\* A change of user swaps the queue; the streams restart even when the same
\* user signed in again.
HandleCredentialChange(u) ==
  IF user = Unset THEN UNCHANGED <<user, sent>> ELSE user' = u /\ sent' = 0

NotifyChange ==
  /\ main # <<>> /\ Head(main).kind = "changed"
  /\ main' = Tail(main)
  /\ HandleCredentialChange(Head(main).user)
  /\ UNCHANGED <<backend, cached, queue, current, calls, ui, history>>

\* The main queue runs the callback of createUser or signIn for u.  The first
\* one uses Firestore for the first time, which starts with the user of that
\* moment: u or whoever signed in since.
RunCallback(kind, u) ==
  /\ main # <<>> /\ Head(main) = [kind |-> kind, user |-> u]
  /\ main' = Tail(main)
  /\ current # None
  /\ user' \in IF user # Unset THEN {user}
               ELSE {u} \cup {main[i].user :
                                i \in {j \in DOMAIN main : main[j].kind = "changed"}}

(***************************************************************************)
(* Signing up.                                                             *)
(***************************************************************************)

\* What a password is made of, as far as the validity test looks.
Password == [long : BOOLEAN, lower : BOOLEAN, special : BOOLEAN, other : BOOLEAN]

IsPasswordValid(pw) == pw.lower /\ pw.special /\ pw.long /\ ~ pw.other

\* The authentication service refuses an address in use; an attempt with one
\* changes nothing but the error label and is left out.
EmailIsFree(u) == u \notin accounts

SignUpTapped(u, pw) ==
  /\ screen = "signUp"
  /\ EmailIsFree(u)
  /\ IsPasswordValid(pw)
  /\ Start(Call("create", u))
  /\ UNCHANGED <<backend, device, current, main, ui, history>>

\* The document is written for the user signed in by now, with the type the
\* segmented control shows by now; the window may have another screen, too.
CreateUserCallback(u, type) ==
  /\ RunCallback("created", u)
  /\ queue' = [queue EXCEPT ![user'] =
                 Append(@, [op |-> "signUp", user |-> current, type |-> type])]
  /\ IF user' = current
     THEN /\ recorded' = [recorded EXCEPT ![current] = @ \cup {type}]
          /\ UNCHANGED strays
     ELSE /\ strays' = [strays EXCEPT ![current] = @ \cup {type}]
          /\ UNCHANGED recorded
  /\ screen' \in IF screen = "signUp" THEN {"start"} ELSE {"start", screen}
  /\ routedBy' = IF screen' = screen THEN routedBy ELSE None
  /\ UNCHANGED <<backend, cached, sent, current, calls, asked>>

(***************************************************************************)
(* Logging in.                                                             *)
(***************************************************************************)

LoginTapped(u) ==
  /\ screen = "login"
  /\ Start(Call("signIn", u))
  /\ UNCHANGED <<backend, device, current, main, ui, history>>

\* The document of the user signed in by now is read.
SignInCallback(u) ==
  /\ RunCallback("signedIn", u)
  /\ calls' = calls \cup {Call("read", current)}
  /\ UNCHANGED <<backend, cached, queue, sent, current, ui, history>>

\* Wrong on purpose: the paired field is not looked at.
HomeOf_Unpaired(d) == IF d.type = "landlords" THEN "landlord" ELSE "tenant"

HomeOf(d) == IF d.type = "landlords" THEN "landlord"
             ELSE IF d.paired = "false" THEN "connect" ELSE "tenant"

\* The cached document picks the screen.  The segue has no effect when
\* another screen covers the login screen that asked for it.
LoginRead(u) ==
  /\ Callback(Call("read", u), {})
  /\ View(u) # None
  /\ View(u).type # "missing"
  /\ \/ screen' = HomeOf(View(u)) /\ routedBy' = u
     \/ UNCHANGED ui
  /\ UNCHANGED <<backend, device, current, main, history>>

\* Nothing cached: the user is signed in and stays on the login screen.
LoginNotCached(u) ==
  /\ Callback(Call("read", u), {})
  /\ View(u) = None
  /\ UNCHANGED <<backend, device, current, main, ui, history>>

(***************************************************************************)
(* Sending a request.                                                      *)
(***************************************************************************)

SendRequestTapped ==
  /\ screen = "connect"
  /\ current # None
  /\ Start(Call("fetchUser", current))
  /\ UNCHANGED <<backend, device, current, main, ui, history>>

\* The user's document comes from the backend, or else from the cache; if
\* there is one, the listing is fetched.
UserFetched(u) ==
  /\ Waiting("fetchUser", u)
  /\ cached' \in {cached, [cached EXCEPT ![u] = doc[u]]}
  /\ LET d == Overlay(cached'[u], user, u) IN
       /\ d # None => d.type # "missing"
       /\ Callback(Call("fetchUser", u),
                   IF d = None THEN {} ELSE {Call("fetchListing", u)})
  /\ UNCHANGED <<backend, queue, sent, user, current, main, ui, history>>

\* The listing is there: the request goes to the queue of whoever Firestore
\* writes for by now.
ListingFound(u) ==
  /\ asked < MaxRequests
  /\ Callback(Call("fetchListing", u), {})
  /\ asked' = asked + 1
  /\ queue' = [queue EXCEPT ![user] = Append(@, [op |-> "request", user |-> u])]
  /\ UNCHANGED <<backend, cached, sent, user, current, main, ui, recorded, strays>>

ListingNotFound(u) ==
  /\ Callback(Call("fetchListing", u), {})
  /\ UNCHANGED <<backend, device, current, main, ui, history>>

(***************************************************************************)
(* Ends of the process the code brings about itself.                       *)
(***************************************************************************)

\* The documents the callbacks under way may be given.
Given(u) == (IF Waiting("read", u) THEN {View(u)} ELSE {})
            \cup (IF Waiting("fetchUser", u)
                  THEN {View(u), Overlay(doc[u], user, u)} ELSE {})

\* A forced cast of a field the document lacks, an empty property identifier,
\* which names no document, or a forced unwrap of the user on a screen or in a
\* callback that outlived the sign-in.
Crash ==
  /\ \/ \E u \in Users : \E d \in Given(u) \ {None} : d.type = "missing"
     \/ \E u \in Users : Waiting("fetchUser", u) /\ Given(u) # {None}
     \/ screen \in Homes /\ current = None
     \/ main # <<>> /\ Head(main).kind # "changed" /\ current = None
  /\ Die
  /\ UNCHANGED <<backend, cached, queue, current, history>>

(***************************************************************************)
(* The write pipeline of the device, and the landlord.                     *)
(***************************************************************************)

Commit ==
  /\ screen # "off"
  /\ sent < Len(Pending)
  /\ LET w == Pending[sent + 1] IN
       \/ /\ w.op = "signUp"
          /\ doc' = [doc EXCEPT ![w.user] = SignUpDoc(w.type)]
          /\ UNCHANGED requested
       \/ /\ w.op = "request"
          /\ requested' = requested \cup {w.user}
          /\ UNCHANGED doc
  /\ sent' = sent + 1
  /\ UNCHANGED <<accounts, approved, cached, queue, user, sdk, ui, history>>

\* The acknowledged write leaves the queue for the cache.
OnWriteStreamMutationResult ==
  /\ screen # "off"
  /\ sent > 0
  /\ queue' = [queue EXCEPT ![user] = Tail(@)]
  /\ sent' = sent - 1
  /\ LET w == Head(Pending) IN
       cached' = IF w.op = "signUp"
                 THEN [cached EXCEPT ![w.user] = SignUpDoc(w.type)]
                 ELSE cached
  /\ UNCHANGED <<backend, user, sdk, ui, history>>

\* Wrong on purpose: a broken stream drops the write it was sending.
OnWriteStreamClose_Drops ==
  /\ screen # "off"
  /\ Pending # <<>>
  /\ queue' = [queue EXCEPT ![user] = Tail(@)]
  /\ sent' = 0
  /\ UNCHANGED <<backend, cached, user, sdk, ui, history>>

\* Acknowledgements under way are lost; sending restarts from the head.
OnWriteStreamClose ==
  /\ screen # "off"
  /\ sent > 0
  /\ sent' = 0
  /\ UNCHANGED <<backend, cached, queue, user, sdk, ui, history>>

\* A write about another user than the one signed in may be refused.
HandleRejectedWrite ==
  /\ screen # "off"
  /\ sent = 0
  /\ Pending # <<>>
  /\ Head(Pending).user # user
  /\ queue' = [queue EXCEPT ![user] = Tail(@)]
  /\ UNCHANGED <<backend, cached, sent, user, sdk, ui, history>>

\* The landlord accepts: a merge, which creates the document if none is there.
MakePairedTrue(u) ==
  /\ u \in requested
  /\ requested' = requested \ {u}
  /\ approved' = approved \cup {u}
  /\ doc' = [doc EXCEPT ![u] =
               [type |-> IF @ = None THEN "missing" ELSE @.type, paired |-> "true"]]
  /\ UNCHANGED <<accounts, device, sdk, ui, history>>

\* Wrong on purpose: declining resets the pairing of the tenant.
Decline_Unpairs(u) ==
  /\ u \in requested
  /\ requested' = requested \ {u}
  /\ doc' = [doc EXCEPT ![u] = IF @ = None THEN None ELSE [@ EXCEPT !.paired = "false"]]
  /\ UNCHANGED <<accounts, approved, device, sdk, ui, history>>

Decline(u) ==
  /\ u \in requested
  /\ requested' = requested \ {u}
  /\ UNCHANGED <<accounts, doc, approved, device, sdk, ui, history>>

App ==
  \/ Kill \/ Launch \/ Segue \/ LogOut \/ SendRequestTapped \/ Crash \/ NotifyChange
  \/ \E u \in Users :
       \/ \E pw \in Password : SignUpTapped(u, pw)
       \/ CreateUserSucceeded(u) \/ AuthFailed(u)
       \/ \E type \in AccountTypes : CreateUserCallback(u, type)
       \/ LoginTapped(u) \/ SignInSucceeded(u) \/ SignInCallback(u)
       \/ LoginRead(u) \/ LoginNotCached(u)
       \/ UserFetched(u) \/ ListingFound(u) \/ ListingNotFound(u)

Pipeline == \/ Commit \/ OnWriteStreamMutationResult \/ OnWriteStreamClose
            \/ HandleRejectedWrite

Next ==
  \/ App
  \/ Pipeline
  \/ \E u \in Users : MakePairedTrue(u) \/ Decline(u)

Spec == Init /\ [][Next]_vars

(***************************************************************************)
(* Properties.                                                             *)
(***************************************************************************)

\* A sign-up written in the queue of its own user is not lost: the backend has
\* the document, with a type some sign-up gave it, or the write waits in that
\* queue on disk.  No crash, switch of user or lost acknowledgement changes it.
SignUpDurable ==
  \A u \in Users : recorded[u] # {} =>
    \/ doc[u] # None /\ doc[u].type \in Written(u)
    \/ \E i \in DOMAIN queue[u] :
         /\ queue[u][i].op = "signUp" /\ queue[u][i].user = u
         /\ queue[u][i].type \in recorded[u]

\* A pairing on the backend is undone only by a sign-up of its user that still
\* waits, for its first commit or to be sent again, or by one that was written
\* in another user's queue.  Once its own sign-ups are acknowledged it stays.
AcknowledgedSignUpKeepsPairing ==
  [][\A u \in Users :
       /\ doc[u] # None /\ doc[u].paired = "true"
       /\ strays[u] = {}
       /\ \A i \in DOMAIN queue[u] : queue[u][i].op # "signUp"
       => doc'[u].paired = "true"]_vars

\* The screen matches the account it was chosen for: landlords only if a sign-up
\* wrote it as a landlord's, the tenant screen only after an acceptance.
ScreenMatchesAccount ==
  /\ screen = "landlord" => "landlords" \in Written(routedBy)
  /\ screen = "tenant" => routedBy \in approved

\* "Please log out and log back in once approved": whenever the login screen is
\* up with nothing under way, the document that logging in would read, the
\* cached one under the user's own writes, lets a paired tenant in.
ApprovedIsLetIn ==
  screen = "login" /\ calls = {} /\ main = <<>> =>
    \A u \in accounts :
      LET d == Overlay(cached[u], u, u) IN
      /\ doc[u] = [type |-> "tenants", paired |-> "true"]
      /\ d # None
      => HomeOf(d) = "tenant"
=============================================================================
