---------------------------- MODULE SessionProofs ----------------------------
(***************************************************************************)
(* Theorems about Session, for any number of users, calls and requests:    *)
(* what a sign-up leaves on the backend, and the screen it leads to.       *)
(***************************************************************************)
EXTENDS Session, SequenceFacts

(***************************************************************************)
(* The inductive invariant.                                                *)
(***************************************************************************)
\* A sign-up that waits is recorded for its user: among the user's own if it
\* waits in the user's queue, among the strays otherwise.
OwnSignUps ==
  \A q \in Users \cup {None} : \A i \in 1 .. Len(queue[q]) :
    queue[q][i].op = "signUp" =>
      queue[q][i].type \in IF queue[q][i].user = q THEN recorded[queue[q][i].user]
                                                   ELSE strays[queue[q][i].user]

\* What a document on the backend or in the cache says of its user is so.
Truthful(d) ==
  \A u \in Users : d[u] # None =>
    /\ d[u].type = "landlords" => "landlords" \in recorded[u] \cup strays[u]
    /\ d[u].paired = "true" => u \in approved

\* The backend has a document of the user that a sign-up wrote.
Landed(u) == doc[u] # None /\ doc[u].type \in recorded[u] \cup strays[u]

\* The user of a sign-up committed and not acknowledged has a document.
SentIsThere ==
  user # Unset =>
    \A i \in 1 .. sent : \A u \in Users :
      queue[user][i].op = "signUp" /\ queue[user][i].user = u => Landed(u)

\* Somebody's document chose the screen.
HomeIsRouted == screen \in {"landlord", "tenant"} => routedBy \in Users

\* What holds in every state.
SessionInv ==
  /\ TypeOK
  /\ OwnSignUps
  /\ Truthful(doc)
  /\ Truthful(cached)
  /\ SentIsThere
  /\ SignUpDurable
  /\ HomeIsRouted
  /\ ScreenMatchesAccount

(***************************************************************************)
(* Facts about queues and documents.                                       *)
(***************************************************************************)
\* The entries of a queue are writes.
LEMMA EntriesAreWrites ==
  ASSUME NEW s \in Seq(Write)
  PROVE  /\ Len(s) \in Nat
         /\ DOMAIN s = 1 .. Len(s)
         /\ \A i \in 1 .. Len(s) :
              /\ s[i] \in Write
              /\ s[i].op \in {"signUp", "request"}
              /\ s[i].user \in Users
              /\ s[i].op = "signUp" => s[i].type \in AccountTypes
<1>1. Len(s) \in Nat /\ DOMAIN s = 1 .. Len(s) /\ \A i \in 1 .. Len(s) : s[i] \in Write
  BY SeqFacts
<1>2. QED
  BY <1>1 DEF Write

\* Every queue is a sequence of writes, so is what waits to be sent, and the
\* writes sent are the first of them.
LEMMA Queues ==
  ASSUME SessionInv
  PROVE  /\ \A q \in Users \cup {None} : /\ queue[q] \in Seq(Write)
                                          /\ Len(queue[q]) \in Nat
                                          /\ DOMAIN queue[q] = 1 .. Len(queue[q])
         /\ user # Unset => /\ user \in Users \cup {None}
                            /\ Pending = queue[user]
                            /\ sent \in 0 .. Len(queue[user])
         /\ sent \in Nat
<1>1. \A q \in Users \cup {None} : queue[q] \in Seq(Write)
  BY DEF SessionInv, TypeOK
<1>2. \A q \in Users \cup {None} : Len(queue[q]) \in Nat /\ DOMAIN queue[q] = 1 .. Len(queue[q])
  BY <1>1, EntriesAreWrites
<1>3. sent \in Nat
  BY DEF SessionInv, TypeOK
<1>4. QED
  BY <1>1, <1>2, <1>3 DEF SessionInv, TypeOK, Pending

\* The last of a user's sign-ups in a queue is one of them.
LEMMA LastSignUp ==
  ASSUME SessionInv, NEW u \in Users, NEW q \in Users \cup {None}, SignUps(q, u) # {}
  PROVE  (CHOOSE i \in SignUps(q, u) : \A j \in SignUps(q, u) : j <= i) \in SignUps(q, u)
<1> DEFINE S == SignUps(q, u)
           n == Len(queue[q])
           T == {n - i : i \in S}
<1>1. n \in Nat /\ S \subseteq 1 .. n
  BY Queues DEF SignUps
<1> HIDE DEF n, S
<1>2. T \in SUBSET Nat /\ T # {}
  BY <1>1 DEF S
<1>3. PICK t \in T : \A m \in T : ~ (m < t)
  BY <1>2, LeastMember
<1>4. PICK i \in S : t = n - i
  BY <1>3
<1>5. ASSUME NEW j \in S
      PROVE  j <= i
  <2>1. n - j \in T /\ ~ (n - j < n - i)
    BY <1>3, <1>4
  <2>2. QED
    BY <1>1, <2>1
<1>6. \E k \in S : \A j \in S : j <= k
  BY <1>5
<1>7. (CHOOSE k \in S : \A j \in S : j <= k) \in S
  BY <1>6, Zenon
<1>8. QED
  BY <1>7 DEF S

\* What a device reads under the pending writes is true of the user.
LEMMA OverlayIsTrue ==
  ASSUME SessionInv, NEW u \in Users, NEW q \in Users \cup {None},
         NEW base \in UserDoc \cup {None},
         base # None => /\ base.type = "landlords" => "landlords" \in recorded[u] \cup strays[u]
                        /\ base.paired = "true" => u \in approved
  PROVE  LET d == Overlay(base, q, u) IN
         /\ d \in UserDoc \cup {None}
         /\ d # None => /\ d.type = "landlords" => "landlords" \in recorded[u] \cup strays[u]
                        /\ d.paired = "true" => u \in approved
<1>1. CASE SignUps(q, u) = {}
  BY <1>1 DEF Overlay
<1>2. CASE SignUps(q, u) # {}
  <2> DEFINE k == CHOOSE i \in SignUps(q, u) : \A j \in SignUps(q, u) : j <= i
  <2>1. k \in SignUps(q, u)
    BY <1>2, LastSignUp
  <2>2. Overlay(base, q, u) = SignUpDoc(queue[q][k].type)
    BY <1>2 DEF Overlay
  <2> HIDE DEF k
  <2>3. k \in 1 .. Len(queue[q]) /\ queue[q][k].op = "signUp" /\ queue[q][k].user = u
    BY <2>1, Queues DEF SignUps
  <2>4. queue[q][k].type \in AccountTypes
    BY <2>3, Queues, EntriesAreWrites
  <2>5. queue[q][k].type \in recorded[u] \cup strays[u]
    BY <2>3 DEF SessionInv, OwnSignUps
  <2>6. QED
    BY <2>2, <2>4, <2>5 DEF SignUpDoc, UserDoc
<1>3. QED
  BY <1>1, <1>2

(***************************************************************************)
(* The invariant holds at first and is kept by every step.                 *)
(***************************************************************************)
\* At first nothing has been written on this device.
LEMMA InitInv == Init => SessionInv
<1> SUFFICES ASSUME Init PROVE SessionInv
  OBVIOUS
<1>1. \A q \in Users \cup {None} : queue[q] = <<>> /\ Len(queue[q]) = 0
  BY DEF Init
<1>2. TypeOK
  <2>1. queue \in [Users \cup {None} -> Seq(Write)] /\ main \in Seq(Block)
    BY DEF Init
  <2>2. doc \in [Users -> UserDoc \cup {None}]
    BY DEF Init, SignUpDoc, UserDoc, AccountTypes
  <2>3. sent \in 0 .. Len(Pending)
    BY DEF Init, Pending
  <2>4. QED
    BY <2>1, <2>2, <2>3 DEF Init, TypeOK
<1>3. Truthful(doc) /\ Truthful(cached)
  BY DEF Init, Truthful, SignUpDoc
<1>4. OwnSignUps /\ SentIsThere /\ SignUpDurable
  BY <1>1 DEF Init, OwnSignUps, SentIsThere, SignUpDurable
<1>5. HomeIsRouted /\ ScreenMatchesAccount
  BY DEF Init, HomeIsRouted, ScreenMatchesAccount
<1>6. QED
  BY <1>2, <1>3, <1>4, <1>5 DEF SessionInv

\* Steps that touch neither a document nor a queue keep the invariant, if what
\* they do to the screen, the calls and the blocks does.
LEMMA QuietStep ==
  ASSUME SessionInv,
         UNCHANGED <<doc, requested, approved, cached, queue, recorded, strays, asked>>,
         accounts' \in SUBSET Users,
         calls' \in SUBSET Calls,
         main' \in Seq(Block),
         current' \in Users \cup {None},
         user' \in Users \cup {None, Unset},
         (user' = user /\ sent' = sent) \/ sent' = 0,
         screen' \in Homes \cup {"off", "start", "signUp", "login"},
         routedBy' \in Users \cup {None},
         \/ screen' \notin {"landlord", "tenant"}
         \/ screen' = screen /\ routedBy' = routedBy
         \/ /\ routedBy' \in Users
            /\ screen' = "landlord" => "landlords" \in recorded[routedBy'] \cup strays[routedBy']
            /\ screen' = "tenant" => routedBy' \in approved
  PROVE  SessionInv'
<1>1. sent' \in 0 .. Len(Pending')
  <2>1. CASE user' = user /\ sent' = sent
    BY <2>1 DEF SessionInv, TypeOK, Pending
  <2>2. CASE sent' = 0
    <3>1. user' # Unset => Len(queue[user']) \in Nat
      BY Queues
    <3>2. Pending' = IF user' = Unset THEN <<>> ELSE queue[user']
      BY DEF Pending
    <3>3. Len(<<>>) = 0
      OBVIOUS
    <3>4. QED
      BY <2>2, <3>1, <3>2, <3>3
  <2>3. QED
    BY <2>1, <2>2
<1>2. TypeOK'
  BY <1>1 DEF SessionInv, TypeOK
<1>3. OwnSignUps' /\ SignUpDurable' /\ Truthful(doc)' /\ Truthful(cached)'
  BY DEF SessionInv, OwnSignUps, SignUpDurable, Truthful, Written
<1>4. SentIsThere'
  BY DEF SessionInv, SentIsThere, Landed
<1>5. HomeIsRouted' /\ ScreenMatchesAccount'
  BY DEF SessionInv, HomeIsRouted, ScreenMatchesAccount, Written, Homes
<1>6. QED
  BY <1>2, <1>3, <1>4, <1>5 DEF SessionInv

\* The main queue after its first block has run, and after two were added.
LEMMA MainFacts ==
  ASSUME SessionInv
  PROVE  /\ main # <<>> => /\ Tail(main) \in Seq(Block)
                           /\ Head(main) \in Block
                           /\ Head(main).user \in Users \cup {None}
         /\ Append(main, Changed(None)) \in Seq(Block)
         /\ \A u \in Users : \A kind \in {"created", "signedIn"} :
              main \o <<Changed(u), [kind |-> kind, user |-> u]>> \in Seq(Block)
<1>1. main \in Seq(Block)
  BY DEF SessionInv, TypeOK
<1>2. \A u \in Users \cup {None} : Changed(u) \in Block
  BY DEF Changed, Block
<1>3. \A u \in Users : \A kind \in {"created", "signedIn"} : [kind |-> kind, user |-> u] \in Block
  BY DEF Block
<1>4. \A b \in Block : b.user \in Users \cup {None}
  BY DEF Block
<1>5. main # <<>> => Tail(main) \in Seq(Block) /\ Head(main) \in Block
  BY <1>1, TailFacts
<1>6. Append(main, Changed(None)) \in Seq(Block)
  BY <1>1, <1>2, AppendFacts
<1>7. ASSUME NEW a \in Block, NEW b \in Block
      PROVE  main \o <<a, b>> \in Seq(Block)
  BY <1>1, ConcatFacts
<1>8. QED
  BY <1>2, <1>3, <1>4, <1>5, <1>6, <1>7

\* Firestore's user in a callback is a user, or nobody signed in.
LEMMA CallbackUser ==
  ASSUME SessionInv, NEW u \in Users, NEW kind \in {"created", "signedIn"},
         RunCallback(kind, u)
  PROVE  /\ user' \in Users \cup {None}
         /\ user' # Unset
         /\ user # Unset => user' = user
<1>1. \A i \in DOMAIN main : main[i].user \in Users \cup {None}
  <2>1. main \in Seq(Block) /\ \A b \in Block : b.user \in Users \cup {None}
    BY DEF SessionInv, TypeOK, Block
  <2>2. QED
    BY <2>1, SeqFacts
<1>2. user' \in Users \cup {None}
  <2>1. CASE user # Unset
    BY <2>1 DEF RunCallback, SessionInv, TypeOK
  <2>2. CASE user = Unset
    <3>1. user' \in {u} \cup {main[i].user : i \in {j \in DOMAIN main : main[j].kind = "changed"}}
      BY <2>2, Zenon DEF RunCallback
    <3>2. QED
      BY <1>1, <3>1
  <2>3. QED
    BY <2>1, <2>2
<1>3. QED
  BY <1>2, SessionAssumption DEF RunCallback

\* The process ending, starting or moving between screens.
LEMMA ScreenSteps ==
  ASSUME SessionInv, Kill \/ Crash \/ Launch \/ Segue \/ LogOut
  PROVE  SessionInv'
<1>1. CASE Kill \/ Crash
  <2>1. accounts' \in SUBSET Users
    BY <1>1 DEF Kill, Crash, backend, SessionInv, TypeOK
  <2>2. main' \in Seq(Block) /\ calls' \in SUBSET Calls
    <3>1. Die
      BY <1>1, Zenon DEF Kill, Crash
    <3>2. main' = <<>> /\ calls' = {}
      BY <3>1 DEF Die
    <3>3. QED
      BY <3>2
  <2>3. /\ screen' = "off" /\ routedBy' = None /\ sent' = 0 /\ user' = Unset
        /\ UNCHANGED <<doc, requested, approved, cached, queue, current, history>>
    BY <1>1 DEF Kill, Crash, Die, backend
  <2>4. QED
    BY <2>1, <2>2, <2>3, QuietStep DEF history, SessionInv, TypeOK
<1>2. CASE Launch \/ Segue
  BY <1>2, QuietStep DEF Launch, Segue, backend, device, sdk, history, SessionInv, TypeOK
<1>3. CASE LogOut
  BY <1>3, MainFacts, QuietStep DEF LogOut, backend, device, history, SessionInv, TypeOK
<1>4. QED
  BY <1>1, <1>2, <1>3

\* Calls made and answered that leave the documents alone.
LEMMA CallSteps ==
  ASSUME SessionInv,
         \/ SendRequestTapped
         \/ \E u \in Users :
              \/ \E pw \in Password : SignUpTapped(u, pw)
              \/ LoginTapped(u) \/ AuthFailed(u) \/ LoginNotCached(u) \/ ListingNotFound(u)
  PROVE  SessionInv'
<1>1. \A u \in Users : \A kind \in {"create", "signIn", "fetchUser"} : Call(kind, u) \in Calls
  BY DEF Call, Calls
<1>2. calls' \in SUBSET Calls
  <2>1. CASE SendRequestTapped
    <3>1. calls' = calls \cup {Call("fetchUser", current)} /\ current \in Users
      BY <2>1 DEF SendRequestTapped, Start, SessionInv, TypeOK
    <3>2. QED
      BY <1>1, <3>1 DEF SessionInv, TypeOK
  <2>2. ASSUME NEW u \in Users, LoginTapped(u) \/ \E pw \in Password : SignUpTapped(u, pw)
        PROVE  calls' \in SUBSET Calls
    <3>1. \/ calls' = calls \cup {Call("create", u)}
          \/ calls' = calls \cup {Call("signIn", u)}
      BY <2>2 DEF LoginTapped, SignUpTapped, Start
    <3>2. QED
      BY <1>1, <3>1 DEF SessionInv, TypeOK
  <2>3. ASSUME NEW u \in Users, AuthFailed(u) \/ LoginNotCached(u) \/ ListingNotFound(u)
        PROVE  calls' \in SUBSET Calls
    BY <2>3 DEF AuthFailed, LoginNotCached, ListingNotFound, Callback, SessionInv, TypeOK
  <2>4. QED
    BY <2>1, <2>2, <2>3
<1>3. UNCHANGED <<backend, device, current, main, ui, history>>
  BY DEF SendRequestTapped, SignUpTapped, LoginTapped, AuthFailed, LoginNotCached,
     ListingNotFound
<1>4. QED
  BY <1>2, <1>3, QuietStep DEF backend, device, ui, history, SessionInv, TypeOK

\* The authentication SDK changing the user, and the main queue telling
\* Firestore or running the callback of a login.
LEMMA UserSteps ==
  ASSUME SessionInv,
         \/ NotifyChange
         \/ \E u \in Users : \/ CreateUserSucceeded(u) \/ SignInSucceeded(u)
                             \/ SignInCallback(u)
  PROVE  SessionInv'
<1>1. ASSUME NotifyChange
      PROVE  SessionInv'
  BY <1>1, MainFacts, QuietStep DEF NotifyChange, HandleCredentialChange, backend, ui,
     history, SessionInv, TypeOK
<1>2. ASSUME NEW u \in Users, CreateUserSucceeded(u) \/ SignInSucceeded(u)
      PROVE  SessionInv'
  <2>1. main' \in Seq(Block) /\ current' = u /\ calls' \subseteq calls
    BY <1>2, MainFacts DEF CreateUserSucceeded, SignInSucceeded, UpdateCurrentUser, Callback
  <2>2. accounts' \in SUBSET Users
    BY <1>2 DEF CreateUserSucceeded, SignInSucceeded, backend, SessionInv, TypeOK
  <2>3. QED
    BY <1>2, <2>1, <2>2, QuietStep DEF CreateUserSucceeded, SignInSucceeded, backend, device,
       ui, history, SessionInv, TypeOK
<1>3. ASSUME NEW u \in Users, SignInCallback(u)
      PROVE  SessionInv'
  <2>1. main' \in Seq(Block) /\ current \in Users /\ current' = current
    BY <1>3, MainFacts DEF SignInCallback, RunCallback, SessionInv, TypeOK
  <2>2. calls' \in SUBSET Calls
    BY <1>3, <2>1 DEF SignInCallback, Call, Calls, SessionInv, TypeOK
  <2>3. user' = user \/ (user = Unset /\ sent' = 0)
    <3>1. user = Unset => sent = 0
      BY DEF SessionInv, TypeOK, Pending
    <3>2. QED
      BY <1>3, <3>1 DEF SignInCallback, RunCallback
  <2>4. user' \in Users \cup {None, Unset}
    BY <1>3, CallbackUser DEF SignInCallback
  <2>5. QED
    BY <1>3, <2>1, <2>2, <2>3, <2>4, QuietStep DEF SignInCallback, backend, ui, history,
       SessionInv, TypeOK
<1>4. QED
  BY <1>1, <1>2, <1>3

\* The document that was read picks the screen.
LEMMA LoginReadStep ==
  ASSUME SessionInv, NEW u \in Users, LoginRead(u)
  PROVE  SessionInv'
<1>1. calls' \in SUBSET Calls
  BY DEF LoginRead, Callback, SessionInv, TypeOK
<1>2. /\ View(u) \in UserDoc /\ View(u) # None
      /\ View(u).type = "landlords" => "landlords" \in recorded[u] \cup strays[u]
      /\ View(u).paired = "true" => u \in approved
  <2>1. /\ cached[u] \in UserDoc \cup {None}
        /\ cached[u] # None =>
             /\ cached[u].type = "landlords" => "landlords" \in recorded[u] \cup strays[u]
             /\ cached[u].paired = "true" => u \in approved
    BY DEF SessionInv, TypeOK, Truthful
  <2>2. View(u) # None
    BY DEF LoginRead
  <2>3. CASE user = Unset
    BY <2>1, <2>2, <2>3 DEF View
  <2>4. CASE user # Unset
    <3>1. user \in Users \cup {None}
      BY <2>4, Queues
    <3>2. QED
      BY <2>1, <2>2, <2>4, <3>1, OverlayIsTrue DEF View
  <2>5. QED
    BY <2>3, <2>4
<1>3. HomeOf(View(u)) \in Homes
  BY DEF HomeOf, Homes
<1>4. HomeOf(View(u)) = "landlord" => View(u).type = "landlords"
  BY DEF HomeOf
<1>5. HomeOf(View(u)) = "tenant" => View(u).paired = "true"
  BY <1>2 DEF HomeOf, UserDoc
<1>6. \/ screen' = HomeOf(View(u)) /\ routedBy' = u
      \/ screen' = screen /\ routedBy' = routedBy
  BY DEF LoginRead, ui
<1>7. QED
  BY <1>1, <1>2, <1>3, <1>4, <1>5, <1>6, QuietStep
  DEF LoginRead, backend, device, history, SessionInv, TypeOK

\* A write added to a queue keeps the invariant, if it is a request or a sign-up
\* that is recorded with it.
LEMMA WriteStep ==
  ASSUME SessionInv,
         NEW q \in Users \cup {None}, NEW w \in Write,
         queue' = [queue EXCEPT ![q] = Append(queue[q], w)],
         UNCHANGED <<accounts, doc, requested, approved, cached, sent, current>>,
         user' = q, user = q \/ user = Unset,
         main' \in Seq(Block), calls' \in SUBSET Calls, asked' \in Nat,
         recorded' \in [Users -> SUBSET AccountTypes],
         strays' \in [Users -> SUBSET AccountTypes],
         \A u \in Users : recorded[u] \subseteq recorded'[u] /\ strays[u] \subseteq strays'[u],
         \A u \in Users : recorded'[u] # {} =>
           recorded[u] # {} \/ (w.op = "signUp" /\ w.user = u /\ q = u),
         w.op = "signUp" => w.type \in IF w.user = q THEN recorded'[w.user] ELSE strays'[w.user],
         \/ screen' = "start" /\ routedBy' = None
         \/ screen' = screen /\ routedBy' = routedBy
  PROVE  SessionInv'
<1>1. /\ queue'[q] = Append(queue[q], w)
      /\ \A p \in Users \cup {None} : p # q => queue'[p] = queue[p]
  BY DEF SessionInv, TypeOK
<1>2. /\ queue'[q] \in Seq(Write) /\ Len(queue'[q]) = Len(queue[q]) + 1
      /\ \A i \in 1 .. Len(queue[q]) : queue'[q][i] = queue[q][i]
      /\ queue'[q][Len(queue[q]) + 1] = w
  <2> DEFINE s == queue[q]
  <2>1. s \in Seq(Write)
    BY Queues
  <2> HIDE DEF s
  <2>2. /\ Append(s, w) \in Seq(Write) /\ Len(Append(s, w)) = Len(s) + 1
        /\ \A i \in 1 .. Len(s) : Append(s, w)[i] = s[i]
        /\ Append(s, w)[Len(s) + 1] = w
    BY <2>1, AppendFacts
  <2>3. QED
    BY <1>1, <2>2 DEF s
<1>3. DOMAIN queue'[q] = 1 .. Len(queue'[q])
  BY <1>2, SeqFacts
<1>4. sent \in 0 .. Len(queue[q]) /\ Len(queue[q]) \in Nat
  <2>1. user = Unset => sent = 0
    BY DEF SessionInv, TypeOK, Pending
  <2>2. QED
    BY <2>1, Queues
<1>5. q # Unset
  BY SessionAssumption
<1>6. TypeOK'
  <2>1. queue' \in [Users \cup {None} -> Seq(Write)]
    BY <1>2 DEF SessionInv, TypeOK
  <2>2. sent' \in 0 .. Len(Pending')
    <3>1. Pending' = queue'[q]
      BY <1>5 DEF Pending
    <3>2. sent' \in 0 .. Len(queue'[q])
      BY <1>2, <1>4
    <3>3. QED
      BY <3>1, <3>2
  <2>3. screen' \in Homes \cup {"off", "start", "signUp", "login"} /\ routedBy' \in Users \cup {None}
    BY DEF SessionInv, TypeOK
  <2>4. user' \in Users \cup {None, Unset}
    OBVIOUS
  <2>5. QED
    BY <2>1, <2>2, <2>3, <2>4 DEF SessionInv, TypeOK
<1>7. OwnSignUps'
  <2>1. ASSUME NEW p \in Users \cup {None}, NEW i \in 1 .. Len(queue'[p]),
               queue'[p][i].op = "signUp"
        PROVE  queue'[p][i].type \in IF queue'[p][i].user = p
                                     THEN recorded'[queue'[p][i].user]
                                     ELSE strays'[queue'[p][i].user]
    <3>1. CASE p = q /\ i = Len(queue[q]) + 1
      BY <1>2, <2>1, <3>1
    <3>2. CASE ~ (p = q /\ i = Len(queue[q]) + 1)
      <4>1. i \in 1 .. Len(queue[p]) /\ queue'[p][i] = queue[p][i]
        BY <1>1, <1>2, <1>4, <3>2
      <4>2. queue[p] \in Seq(Write)
        BY Queues
      <4>3. queue[p][i].user \in Users
        BY <4>1, <4>2, EntriesAreWrites
      <4>4. queue[p][i].type \in IF queue[p][i].user = p THEN recorded[queue[p][i].user]
                                                         ELSE strays[queue[p][i].user]
        BY <2>1, <4>1 DEF SessionInv, OwnSignUps
      <4>5. QED
        BY <4>1, <4>3, <4>4
    <3>3. QED
      BY <3>1, <3>2
  <2>2. QED
    BY <2>1, Zenon DEF OwnSignUps
<1>8. Truthful(doc)' /\ Truthful(cached)'
  BY DEF SessionInv, Truthful
<1>9. SentIsThere'
  <2>1. sent # 0 => user = q
    BY DEF SessionInv, TypeOK, Pending
  <2>2. \A i \in 1 .. sent : queue'[q][i] = queue[q][i]
    BY <1>2, <1>4
  <2>3. \A u \in Users : Landed(u) => Landed(u)'
    BY DEF Landed
  <2>4. CASE sent = 0
    BY <2>4 DEF SentIsThere
  <2>5. CASE sent # 0
    <3>1. \A i \in 1 .. sent : \A u \in Users :
            queue[q][i].op = "signUp" /\ queue[q][i].user = u => Landed(u)
      BY <1>5, <2>1, <2>5 DEF SessionInv, SentIsThere
    <3>2. \A i \in 1 .. sent : \A u \in Users :
            queue'[q][i].op = "signUp" /\ queue'[q][i].user = u => Landed(u)'
      BY <2>2, <2>3, <3>1
    <3>3. QED
      BY <3>2 DEF SentIsThere
  <2>6. QED
    BY <2>4, <2>5
<1>10. SignUpDurable'
  <2>1. ASSUME NEW u \in Users, recorded'[u] # {}
        PROVE  \/ doc'[u] # None /\ doc'[u].type \in recorded'[u] \cup strays'[u]
               \/ \E i \in DOMAIN queue'[u] :
                    /\ queue'[u][i].op = "signUp" /\ queue'[u][i].user = u
                    /\ queue'[u][i].type \in recorded'[u]
    <3>1. CASE w.op = "signUp" /\ w.user = u /\ q = u
      <4>1. Len(queue[q]) + 1 \in DOMAIN queue'[q]
        BY <1>2, <1>3, <1>4
      <4>2. QED
        BY <1>2, <3>1, <4>1
    <3>2. CASE recorded[u] # {}
      <4>1. \A i \in DOMAIN queue[u] : i \in DOMAIN queue'[u] /\ queue'[u][i] = queue[u][i]
        BY <1>1, <1>2, <1>3, <1>4, Queues
      <4>2. \/ doc[u] # None /\ doc[u].type \in recorded[u] \cup strays[u]
            \/ \E i \in DOMAIN queue[u] : /\ queue[u][i].op = "signUp"
                                          /\ queue[u][i].user = u
                                          /\ queue[u][i].type \in recorded[u]
        BY <3>2 DEF SessionInv, SignUpDurable, Written
      <4>3. QED
        BY <4>1, <4>2
    <3>3. QED
      BY <2>1, <3>1, <3>2
  <2>2. QED
    BY <2>1 DEF SignUpDurable, Written
<1>11. HomeIsRouted' /\ ScreenMatchesAccount'
  <2>1. screen' \in {"landlord", "tenant"} => screen' = screen /\ routedBy' = routedBy
    OBVIOUS
  <2>2. QED
    BY <2>1 DEF SessionInv, HomeIsRouted, ScreenMatchesAccount, Written
<1>12. QED
  BY <1>6, <1>7, <1>8, <1>9, <1>10, <1>11 DEF SessionInv

\* The callback of createUser writes the document of the user of the moment.
LEMMA CreateUserStep ==
  ASSUME SessionInv, NEW u \in Users, NEW type \in AccountTypes,
         CreateUserCallback(u, type)
  PROVE  SessionInv'
<1> DEFINE w == [op |-> "signUp", user |-> current, type |-> type]
           q == user'
<1>1. /\ q \in Users \cup {None} /\ (user = q \/ user = Unset)
      /\ current \in Users
  BY CallbackUser DEF CreateUserCallback, RunCallback, SessionInv, TypeOK
<1>2. w \in Write /\ w.op = "signUp" /\ w.user = current /\ w.type = type
  BY <1>1 DEF Write
<1>3. queue' = [queue EXCEPT ![q] = Append(queue[q], w)]
  BY DEF CreateUserCallback
<1>4. \/ /\ q = current /\ recorded' = [recorded EXCEPT ![current] = recorded[current] \cup {type}]
         /\ strays' = strays
      \/ /\ q # current /\ strays' = [strays EXCEPT ![current] = strays[current] \cup {type}]
         /\ recorded' = recorded
  BY DEF CreateUserCallback
<1>5. /\ main' \in Seq(Block)
      /\ UNCHANGED <<accounts, doc, requested, approved, cached, sent, current, calls, asked>>
  BY MainFacts DEF CreateUserCallback, RunCallback, backend
<1>6. \/ screen' = "start" /\ routedBy' = None
      \/ screen' = screen /\ routedBy' = routedBy
  BY DEF CreateUserCallback
<1>7. /\ recorded \in [Users -> SUBSET AccountTypes] /\ strays \in [Users -> SUBSET AccountTypes]
      /\ calls' \in SUBSET Calls /\ asked' \in Nat
  BY <1>5 DEF SessionInv, TypeOK
<1> HIDE DEF w, q
<1>8. /\ recorded' \in [Users -> SUBSET AccountTypes]
      /\ strays' \in [Users -> SUBSET AccountTypes]
      /\ \A v \in Users : recorded[v] \subseteq recorded'[v] /\ strays[v] \subseteq strays'[v]
      /\ \A v \in Users : recorded'[v] # {} => recorded[v] # {} \/ (current = v /\ q = v)
      /\ type \in IF current = q THEN recorded'[current] ELSE strays'[current]
  BY <1>1, <1>4, <1>7
<1>9. user' = q
  BY DEF q
<1>10. QED
  BY <1>1, <1>2, <1>3, <1>5, <1>6, <1>7, <1>8, <1>9, WriteStep

\* The fetched document is what the backend holds.
LEMMA UserFetchedStep ==
  ASSUME SessionInv, NEW u \in Users, UserFetched(u)
  PROVE  SessionInv'
<1>1. cached' \in {cached, [cached EXCEPT ![u] = doc[u]]}
  BY DEF UserFetched
<1>2. calls' \subseteq calls \cup {Call("fetchListing", u)}
  BY DEF UserFetched, Callback
<1>3. UNCHANGED <<accounts, doc, requested, approved, queue, sent, user, current, main,
                  screen, routedBy, recorded, strays, asked>>
  BY DEF UserFetched, backend, ui, history
<1>4. Call("fetchListing", u) \in Calls
  BY DEF Call, Calls
<1>5. TypeOK'
  BY <1>1, <1>2, <1>3, <1>4 DEF SessionInv, TypeOK, Pending
<1>6. OwnSignUps' /\ SignUpDurable' /\ SentIsThere' /\ HomeIsRouted' /\ ScreenMatchesAccount'
  BY <1>3 DEF SessionInv, OwnSignUps, SignUpDurable, SentIsThere, Landed, HomeIsRouted,
     ScreenMatchesAccount, Written
<1>7. Truthful(doc)' /\ Truthful(cached)'
  BY <1>1, <1>3 DEF SessionInv, TypeOK, Truthful
<1>8. QED
  BY <1>5, <1>6, <1>7 DEF SessionInv

\* A request goes to the end of the queue of whoever Firestore writes for.
LEMMA ListingFoundStep ==
  ASSUME SessionInv, NEW u \in Users, ListingFound(u)
  PROVE  SessionInv'
<1> DEFINE w == [op |-> "request", user |-> u]
<1>1. /\ queue' = [queue EXCEPT ![user] = Append(queue[user], w)]
      /\ calls' \subseteq calls
      /\ asked' = asked + 1
      /\ UNCHANGED <<accounts, doc, requested, approved, cached, sent, user, current, main,
                     screen, routedBy, recorded, strays>>
  BY DEF ListingFound, Callback, backend, ui
<1>2. w \in Write /\ w.op = "request"
  BY DEF Write
<1> HIDE DEF w
<1>3. calls' \in SUBSET Calls /\ main' \in Seq(Block) /\ asked' \in Nat
      /\ recorded' \in [Users -> SUBSET AccountTypes]
      /\ strays' \in [Users -> SUBSET AccountTypes]
  BY <1>1 DEF SessionInv, TypeOK
<1>4. CASE user # Unset
  <2>1. user \in Users \cup {None}
    BY <1>4, Queues
  <2>2. QED
    BY <1>1, <1>2, <1>3, <2>1, WriteStep
<1>5. CASE user = Unset
  <2>1. queue' = queue
    BY <1>1, <1>5, SessionAssumption DEF SessionInv, TypeOK
  <2>2. TypeOK'
    BY <1>1, <1>3, <1>5, <2>1 DEF SessionInv, TypeOK, Pending
  <2>3. OwnSignUps' /\ SignUpDurable' /\ SentIsThere' /\ HomeIsRouted' /\ ScreenMatchesAccount'
    BY <1>1, <2>1 DEF SessionInv, OwnSignUps, SignUpDurable, SentIsThere, Landed, HomeIsRouted,
       ScreenMatchesAccount, Written
  <2>4. Truthful(doc)' /\ Truthful(cached)'
    BY <1>1 DEF SessionInv, Truthful
  <2>5. QED
    BY <2>2, <2>3, <2>4 DEF SessionInv
<1>6. QED
  BY <1>4, <1>5

\* The backend commits the next write: a sign-up or a request.
LEMMA CommitStep ==
  ASSUME SessionInv, Commit
  PROVE  SessionInv'
<1> DEFINE w == queue[user][sent + 1]
<1>1. /\ user # Unset /\ user \in Users \cup {None} /\ queue[user] \in Seq(Write)
      /\ sent \in Nat /\ sent + 1 \in 1 .. Len(queue[user]) /\ Pending = queue[user]
  <2>1. sent < Len(Pending) /\ sent \in Nat
    BY Queues DEF Commit
  <2>2. user # Unset
    <3>1. user = Unset => Len(Pending) = 0
      BY DEF Pending
    <3>2. QED
      BY <2>1, <3>1
  <2>3. QED
    BY <2>1, <2>2, Queues
<1>2. /\ sent' = sent + 1
      /\ UNCHANGED <<accounts, approved, cached, queue, user, current, main, calls, screen,
                     routedBy, recorded, strays, asked>>
      /\ \/ w.op = "signUp" /\ doc' = [doc EXCEPT ![w.user] = SignUpDoc(w.type)]
            /\ requested' = requested
         \/ w.op = "request" /\ doc' = doc /\ requested' = requested \cup {w.user}
  BY <1>1 DEF Commit, sdk, ui, history
<1>3. w.user \in Users /\ (w.op = "signUp" => w.type \in AccountTypes)
  BY <1>1, EntriesAreWrites, Zenon
<1>4. w.op = "signUp" => w.type \in recorded[w.user] \cup strays[w.user]
  <2>1. w.op = "signUp" => w.type \in IF w.user = user THEN recorded[w.user] ELSE strays[w.user]
    BY <1>1, Zenon DEF SessionInv, OwnSignUps
  <2>2. QED
    BY <2>1
<1> HIDE DEF w
<1>5. w.op = "signUp" => /\ SignUpDoc(w.type) \in UserDoc /\ SignUpDoc(w.type) # None
                         /\ SignUpDoc(w.type).type = w.type
                         /\ SignUpDoc(w.type).paired = "false"
  BY <1>3, SessionAssumption DEF SignUpDoc, UserDoc
<1>6. \A v \in Users : /\ Landed(v) => Landed(v)'
                       /\ w.op = "signUp" /\ v = w.user => Landed(v)'
  BY <1>2, <1>3, <1>4, <1>5 DEF Landed, SessionInv, TypeOK
<1>7. TypeOK'
  <2>1. doc' \in [Users -> UserDoc \cup {None}]
    BY <1>2, <1>3, <1>5 DEF SessionInv, TypeOK
  <2>2. sent' \in 0 .. Len(Pending')
    <3>1. Pending' = queue[user]
      BY <1>1, <1>2 DEF Pending
    <3>2. QED
      BY <1>1, <1>2, <3>1
  <2>3. requested' \in SUBSET Users
    BY <1>2, <1>3 DEF SessionInv, TypeOK
  <2>4. QED
    BY <1>2, <2>1, <2>2, <2>3 DEF SessionInv, TypeOK
<1>8. OwnSignUps' /\ Truthful(cached)'
  BY <1>2 DEF SessionInv, OwnSignUps, Truthful
<1>9. Truthful(doc)'
  BY <1>2, <1>3, <1>4, <1>5 DEF SessionInv, TypeOK, Truthful
<1>10. SentIsThere'
  <2>1. ASSUME NEW i \in 1 .. sent + 1, NEW u \in Users,
               queue[user][i].op = "signUp", queue[user][i].user = u
        PROVE  Landed(u)'
    <3>1. CASE i = sent + 1
      BY <1>6, <2>1, <3>1 DEF w
    <3>2. CASE i # sent + 1
      <4>1. i \in 1 .. sent
        BY <1>1, <3>2
      <4>2. Landed(u)
        BY <1>1, <2>1, <4>1 DEF SessionInv, SentIsThere
      <4>3. QED
        BY <1>6, <4>2
    <3>3. QED
      BY <3>1, <3>2
  <2>2. QED
    BY <1>2, <2>1 DEF SentIsThere
<1>11. SignUpDurable'
  <2>1. \A v \in Users : Landed(v) => Landed(v)'
    BY <1>6
  <2>2. QED
    BY <1>2, <2>1 DEF SessionInv, SignUpDurable, Landed, Written
<1>12. HomeIsRouted' /\ ScreenMatchesAccount'
  BY <1>2 DEF SessionInv, HomeIsRouted, ScreenMatchesAccount, Written
<1>13. QED
  BY <1>7, <1>8, <1>9, <1>10, <1>11, <1>12 DEF SessionInv

\* The head of the queue may go: the user of a sign-up in its own queue has a
\* document.
LEMMA SettleStep ==
  ASSUME SessionInv, user # Unset, queue[user] # <<>>,
         NEW w, w = Head(queue[user]),
         w.op = "signUp" /\ w.user = user => Landed(w.user),
         \/ cached' = cached
         \/ w.op = "signUp" /\ cached' = [cached EXCEPT ![w.user] = SignUpDoc(w.type)],
         queue' = [queue EXCEPT ![user] = Tail(queue[user])],
         sent' = IF sent = 0 THEN 0 ELSE sent - 1,
         UNCHANGED <<accounts, doc, requested, approved, user, current, main, calls, screen,
                     routedBy, recorded, strays, asked>>
  PROVE  SessionInv'
<1> DEFINE s == queue[user]
<1>1. s \in Seq(Write) /\ user \in Users \cup {None} /\ sent \in 0 .. Len(s) /\ Len(s) \in Nat
  BY Queues
<1>2. /\ Len(s) >= 1 /\ w = s[1]
      /\ Tail(s) \in Seq(Write) /\ Len(Tail(s)) = Len(s) - 1
      /\ \A i \in 1 .. Len(Tail(s)) : i + 1 \in 1 .. Len(s) /\ Tail(s)[i] = s[i + 1]
      /\ \A i \in 1 .. Len(s) : i = 1 \/ i - 1 \in 1 .. Len(Tail(s))
  BY <1>1, TailFacts
<1>3. /\ queue'[user] = Tail(s)
      /\ \A q \in Users \cup {None} : q # user => queue'[q] = queue[q]
  BY <1>1 DEF SessionInv, TypeOK
<1>4. DOMAIN Tail(s) = 1 .. Len(Tail(s))
  BY <1>2, SeqFacts
<1>5. w.user \in Users /\ (w.op = "signUp" => w.type \in AccountTypes)
  <2>1. 1 \in 1 .. Len(s)
    BY <1>1, <1>2
  <2>2. QED
    BY <1>1, <1>2, <2>1, EntriesAreWrites, Zenon
<1>6. w.op = "signUp" => w.type \in recorded[w.user] \cup strays[w.user]
  <2>1. 1 \in 1 .. Len(s)
    BY <1>1, <1>2
  <2>2. s[1].op = "signUp" =>
          s[1].type \in IF s[1].user = user THEN recorded[s[1].user] ELSE strays[s[1].user]
    BY <1>1, <2>1 DEF SessionInv, OwnSignUps
  <2>3. QED
    BY <1>2, <2>2
<1>7. /\ w.op = "signUp" /\ w.user = user => Landed(w.user)
      /\ cached' = cached \/ (w.op = "signUp" /\ cached' = [cached EXCEPT ![w.user] = SignUpDoc(w.type)])
  OBVIOUS
<1> HIDE DEF s
<1>8. w.op = "signUp" => /\ SignUpDoc(w.type) \in UserDoc
                         /\ SignUpDoc(w.type).type = w.type
                         /\ SignUpDoc(w.type).paired = "false"
  BY <1>5 DEF SignUpDoc, UserDoc
<1>9. TypeOK'
  <2>1. cached' \in [Users -> UserDoc \cup {None}]
    BY <1>5, <1>7, <1>8 DEF SessionInv, TypeOK
  <2>2. sent' \in 0 .. Len(Pending')
    <3>1. Pending' = Tail(s)
      BY <1>3 DEF Pending
    <3>2. QED
      BY <1>1, <1>2, <3>1
  <2>3. queue' \in [Users \cup {None} -> Seq(Write)]
    BY <1>1, <1>2 DEF SessionInv, TypeOK, s
  <2>4. QED
    BY <2>1, <2>2, <2>3 DEF SessionInv, TypeOK
<1>10. OwnSignUps'
  <2>1. ASSUME NEW q \in Users \cup {None}, NEW i \in 1 .. Len(queue'[q])
        PROVE  \E j \in 1 .. Len(queue[q]) : queue'[q][i] = queue[q][j]
    <3>1. CASE q = user
      <4>1. queue'[q] = Tail(s) /\ i \in 1 .. Len(Tail(s))
        BY <1>3, <3>1
      <4>2. i + 1 \in 1 .. Len(s) /\ queue'[q][i] = s[i + 1]
        BY <1>2, <4>1
      <4>3. QED
        BY <3>1, <4>2 DEF s
    <3>2. CASE q # user
      BY <1>3, <3>2
    <3>3. QED
      BY <3>1, <3>2
  <2>2. ASSUME NEW q \in Users \cup {None}, NEW i \in 1 .. Len(queue'[q]),
               queue'[q][i].op = "signUp"
        PROVE  queue'[q][i].type \in IF queue'[q][i].user = q
                                     THEN recorded[queue'[q][i].user]
                                     ELSE strays[queue'[q][i].user]
    <3>1. PICK j \in 1 .. Len(queue[q]) : queue'[q][i] = queue[q][j]
      BY <2>1
    <3>2. QED
      BY <2>2, <3>1 DEF SessionInv, OwnSignUps
  <2>3. recorded' = recorded /\ strays' = strays
    OBVIOUS
  <2>4. ASSUME NEW q \in Users \cup {None}, NEW i \in 1 .. Len(queue'[q]),
               queue'[q][i].op = "signUp"
        PROVE  queue'[q][i].type \in IF queue'[q][i].user = q
                                     THEN recorded'[queue'[q][i].user]
                                     ELSE strays'[queue'[q][i].user]
    BY <2>2, <2>3, <2>4
  <2>5. QED
    BY <2>4, Zenon DEF OwnSignUps
<1>11. SentIsThere'
  <2>1. \A i \in 1 .. sent' : i + 1 \in 1 .. sent /\ i \in 1 .. Len(Tail(s))
    BY <1>1, <1>2
  <2>2. \A i \in 1 .. sent' : queue'[user][i] = queue[user][i + 1]
    BY <1>2, <1>3, <2>1 DEF s
  <2>3. \A u \in Users : Landed(u) => Landed(u)'
    BY DEF Landed
  <2>4. \A i \in 1 .. sent : \A u \in Users :
          queue[user][i].op = "signUp" /\ queue[user][i].user = u => Landed(u)
    BY DEF SessionInv, SentIsThere
  <2>5. ASSUME NEW i \in 1 .. sent', NEW u \in Users,
               queue'[user][i].op = "signUp", queue'[user][i].user = u
        PROVE  Landed(u)'
    <3>1. queue'[user][i] = queue[user][i + 1] /\ i + 1 \in 1 .. sent
      BY <2>1, <2>2
    <3>2. Landed(u)
      BY <2>4, <2>5, <3>1
    <3>3. QED
      BY <2>3, <3>2
  <2>6. user' = user
    OBVIOUS
  <2>7. QED
    BY <2>5, <2>6 DEF SentIsThere
<1>12. SignUpDurable'
  <2>1. ASSUME NEW v \in Users, recorded[v] # {}, ~ Landed(v)
        PROVE  \E i \in DOMAIN queue'[v] :
                 /\ queue'[v][i].op = "signUp" /\ queue'[v][i].user = v
                 /\ queue'[v][i].type \in recorded[v]
    <3>1. PICK i \in DOMAIN queue[v] :
            /\ queue[v][i].op = "signUp" /\ queue[v][i].user = v
            /\ queue[v][i].type \in recorded[v]
      BY <2>1 DEF SessionInv, SignUpDurable, Written, Landed
    <3>2. CASE v = user
      <4>1. i \in 1 .. Len(s) /\ s[i] = queue[v][i]
        BY <3>1, <3>2, Queues DEF s
      <4>2. i # 1
        BY <1>2, <1>7, <2>1, <3>1, <3>2, <4>1
      <4>3. i - 1 \in 1 .. Len(Tail(s)) /\ i = (i - 1) + 1
        BY <1>2, <4>1, <4>2
      <4>4. Tail(s)[i - 1] = s[i]
        BY <1>2, <4>3
      <4>5. QED
        BY <1>3, <1>4, <3>1, <3>2, <4>1, <4>3, <4>4
    <3>3. CASE v # user
      BY <1>3, <3>1, <3>3
    <3>4. QED
      BY <3>2, <3>3
  <2>2. QED
    BY <2>1 DEF SignUpDurable, Written, Landed
<1>13. Truthful(cached)'
  BY <1>5, <1>6, <1>7, <1>8 DEF SessionInv, TypeOK, Truthful
<1>14. Truthful(doc)' /\ HomeIsRouted' /\ ScreenMatchesAccount'
  BY DEF SessionInv, Truthful, HomeIsRouted, ScreenMatchesAccount, Written
<1>15. QED
  BY <1>9, <1>10, <1>11, <1>12, <1>13, <1>14 DEF SessionInv

\* Steps of the write pipeline.
LEMMA PipelineSteps ==
  ASSUME SessionInv, Pipeline
  PROVE  SessionInv'
<1>1. CASE Commit
  BY <1>1, CommitStep
<1>2. user = Unset => Pending = <<>> /\ sent = 0
  BY DEF SessionInv, TypeOK, Pending
<1>3. CASE OnWriteStreamMutationResult
  <2>1. sent > 0 /\ user # Unset
    BY <1>2, <1>3 DEF OnWriteStreamMutationResult
  <2>2. queue[user] \in Seq(Write) /\ sent \in 0 .. Len(queue[user]) /\ Pending = queue[user]
    BY <2>1, Queues
  <2>3. queue[user] # <<>>
    BY <2>1, <2>2, SeqFacts
  <2>4. Head(queue[user]) = queue[user][1] /\ 1 \in 1 .. sent
    BY <2>1, <2>2, <2>3, TailFacts
  <2>5. Head(queue[user]).op = "signUp" => Landed(Head(queue[user]).user)
    <3>1. queue[user][1].user \in Users
      BY <2>2, <2>3, SeqFacts, EntriesAreWrites
    <3>2. QED
      BY <2>1, <2>4, <3>1 DEF SessionInv, SentIsThere
  <2>6. /\ \/ cached' = cached
           \/ /\ Head(queue[user]).op = "signUp"
              /\ cached' = [cached EXCEPT ![Head(queue[user]).user] =
                              SignUpDoc(Head(queue[user]).type)]
        /\ queue' = [queue EXCEPT ![user] = Tail(queue[user])]
        /\ sent' = sent - 1
        /\ UNCHANGED <<accounts, doc, requested, approved, user, current, main, calls, screen,
                       routedBy, recorded, strays, asked>>
    BY <1>3, <2>2 DEF OnWriteStreamMutationResult, backend, sdk, ui, history
  <2>7. QED
    BY <2>1, <2>2, <2>3, <2>5, <2>6, SettleStep
<1>4. CASE OnWriteStreamClose
  BY <1>4, QuietStep DEF OnWriteStreamClose, backend, sdk, ui, history, SessionInv, TypeOK
<1>5. CASE HandleRejectedWrite
  <2>1. sent = 0 /\ Pending # <<>> /\ user # Unset
    BY <1>2, <1>5 DEF HandleRejectedWrite
  <2>2. Pending = queue[user]
    BY <2>1, Queues
  <2>3. /\ Head(queue[user]).user # user
        /\ queue' = [queue EXCEPT ![user] = Tail(queue[user])]
        /\ UNCHANGED <<accounts, doc, requested, approved, cached, sent, user, current, main,
                       calls, screen, routedBy, recorded, strays, asked>>
    BY <1>5, <2>2 DEF HandleRejectedWrite, backend, sdk, ui, history
  <2>4. QED
    BY <2>1, <2>2, <2>3, SettleStep
<1>6. QED
  BY <1>1, <1>3, <1>4, <1>5 DEF Pipeline

\* The landlord's answer keeps the type of the tenant's document.
LEMMA LandlordStep ==
  ASSUME SessionInv, NEW u \in Users, MakePairedTrue(u) \/ Decline(u)
  PROVE  SessionInv'
<1>1. UNCHANGED <<accounts, cached, queue, sent, user, current, main, calls, screen,
                  routedBy, recorded, strays, asked>>
  BY DEF MakePairedTrue, Decline, device, sdk, ui, history
<1>2. \/ doc' = doc /\ approved' = approved
      \/ /\ approved' = approved \cup {u}
         /\ doc' = [doc EXCEPT ![u] =
                      [type |-> IF doc[u] = None THEN "missing" ELSE doc[u].type,
                       paired |-> "true"]]
  BY DEF MakePairedTrue, Decline
<1>3. requested' \subseteq requested
  BY DEF MakePairedTrue, Decline
<1>4. /\ doc' \in [Users -> UserDoc \cup {None}]
      /\ \A v \in Users : doc[v] # None => doc'[v] # None /\ doc'[v].type = doc[v].type
      /\ \A v \in Users : doc'[v] # None => \/ doc'[v] = doc[v]
                                            \/ /\ v \in approved'
                                               /\ \/ doc'[v].type = "missing"
                                                  \/ doc[v] # None /\ doc'[v].type = doc[v].type
  <2>1. [type |-> IF doc[u] = None THEN "missing" ELSE doc[u].type, paired |-> "true"]
          \in UserDoc
    BY DEF SessionInv, TypeOK, UserDoc
  <2>2. ASSUME NEW d \in UserDoc
        PROVE  d # None /\ [doc EXCEPT ![u] = d] \in [Users -> UserDoc \cup {None}]
    BY SessionAssumption DEF SessionInv, TypeOK
  <2>3. doc \in [Users -> UserDoc \cup {None}]
    BY DEF SessionInv, TypeOK
  <2>4. u \in approved' \/ doc' = doc
    BY <1>2
  <2>5. QED
    BY <1>2, <2>1, <2>2, <2>3, <2>4
<1>5. TypeOK'
  BY <1>1, <1>2, <1>3, <1>4 DEF SessionInv, TypeOK, Pending
<1>6. OwnSignUps' /\ HomeIsRouted'
  BY <1>1 DEF SessionInv, OwnSignUps, HomeIsRouted
<1>7. Truthful(doc)' /\ Truthful(cached)' /\ ScreenMatchesAccount'
  BY <1>1, <1>2, <1>4 DEF SessionInv, Truthful, ScreenMatchesAccount, Written
<1>8. \A v \in Users : Landed(v) => Landed(v)'
  BY <1>1, <1>4 DEF Landed
<1>9. SignUpDurable'
  BY <1>1, <1>8 DEF SessionInv, SignUpDurable, Landed, Written
<1>10. SentIsThere'
  BY <1>1, <1>8 DEF SessionInv, SentIsThere
<1>11. QED
  BY <1>5, <1>6, <1>7, <1>9, <1>10 DEF SessionInv

\* Every step keeps the invariant.
LEMMA StepInv == SessionInv /\ [Next]_vars => SessionInv'
<1> SUFFICES ASSUME SessionInv, [Next]_vars PROVE SessionInv'
  OBVIOUS
<1>1. CASE App
  BY <1>1, ScreenSteps, CallSteps, UserSteps, LoginReadStep, CreateUserStep, UserFetchedStep,
     ListingFoundStep DEF App
<1>2. CASE Pipeline
  BY <1>2, PipelineSteps
<1>3. CASE \E u \in Users : MakePairedTrue(u) \/ Decline(u)
  BY <1>3, LandlordStep
<1>4. CASE UNCHANGED vars
  <2>1. UNCHANGED <<accounts, doc, requested, approved, cached, queue, sent, user, current,
                    main, calls, screen, routedBy, recorded, strays, asked>>
    BY <1>4 DEF vars, backend, device, sdk, ui, history
  <2>2. TypeOK'
    BY <2>1 DEF SessionInv, TypeOK, Pending
  <2>3. OwnSignUps' /\ HomeIsRouted'
    BY <2>1 DEF SessionInv, OwnSignUps, HomeIsRouted
  <2>4. Truthful(doc)' /\ Truthful(cached)'
    BY <2>1 DEF SessionInv, Truthful
  <2>5. SentIsThere'
    BY <2>1 DEF SessionInv, SentIsThere, Landed
  <2>6. SignUpDurable'
    BY <2>1 DEF SessionInv, SignUpDurable, Written
  <2>7. ScreenMatchesAccount'
    BY <2>1 DEF SessionInv, ScreenMatchesAccount, Written
  <2>8. QED
    BY <2>2, <2>3, <2>4, <2>5, <2>6, <2>7 DEF SessionInv
<1>5. QED
  BY <1>1, <1>2, <1>3, <1>4 DEF Next

\* In every reachable state the invariant holds.
LEMMA Invariance == Spec => []SessionInv
  BY InitInv, StepInv, PTL DEF Spec

(***************************************************************************)
(* The theorems.                                                           *)
(***************************************************************************)
\* The variables of SignUpVC, LoginVC and the write pipeline keep their types:
\* never more writes acknowledged than were committed, nobody's queue of anything
\* but writes.
THEOREM SessionTypes == Spec => []TypeOK
<1>1. SessionInv => TypeOK
  BY DEF SessionInv
<1>2. QED
  BY <1>1, Invariance, PTL

\* What the callback of signUpTapped writes in its user's own queue, without
\* waiting for it, is never lost: whatever dies, logs out, overlaps or is
\* refused, the backend has a document of that user with a type that a sign-up
\* wrote, or the write waits in that queue.
THEOREM SignUpsAreDurable == Spec => []SignUpDurable
<1>1. SessionInv => SignUpDurable
  BY DEF SessionInv
<1>2. QED
  BY <1>1, Invariance, PTL

\* The home screen loginTapped picks fits what was written for the account it was
\* picked for, however many accounts take turns or overlap on the device and
\* whatever the cache has missed.
THEOREM ScreensMatchAccounts == Spec => []ScreenMatchesAccount
<1>1. SessionInv => ScreenMatchesAccount
  BY DEF SessionInv
<1>2. QED
  BY <1>1, Invariance, PTL

\* Nothing but a waiting sign-up of its own user, or one written in another
\* user's queue, takes a pairing away: no answer of a landlord and no other
\* write of this device does.
THEOREM PairingsOutlastSignUps == Spec => AcknowledgedSignUpKeepsPairing
<1> DEFINE Kept(u) ==
      /\ doc[u] # None /\ doc[u].paired = "true"
      /\ strays[u] = {}
      /\ \A i \in DOMAIN queue[u] : queue[u][i].op # "signUp"
      => doc'[u].paired = "true"
<1>1. ASSUME SessionInv, [Next]_vars, NEW u \in Users
      PROVE  Kept(u)
  <2>1. CASE Commit
    <3>1. /\ user # Unset /\ user \in Users \cup {None} /\ queue[user] \in Seq(Write)
          /\ sent + 1 \in 1 .. Len(queue[user]) /\ Pending = queue[user]
          /\ DOMAIN queue[user] = 1 .. Len(queue[user])
      <4>1. sent < Len(Pending) /\ sent \in Nat
        BY <1>1, <2>1, Queues DEF Commit
      <4>2. user # Unset
        <5>1. user = Unset => Len(Pending) = 0
          BY DEF Pending
        <5>2. QED
          BY <4>1, <5>1
      <4>3. QED
        BY <1>1, <4>1, <4>2, Queues
    <3> DEFINE w == queue[user][sent + 1]
    <3>2. \/ doc' = doc
          \/ /\ w.op = "signUp"
             /\ \A v \in Users : v # w.user => doc'[v] = doc[v]
      BY <1>1, <2>1, <3>1 DEF Commit, SessionInv, TypeOK
    <3>3. w.op = "signUp" /\ w.user # user => strays[w.user] # {}
      BY <1>1, <3>1 DEF SessionInv, OwnSignUps
    <3>4. QED
      BY <3>1, <3>2, <3>3
  <2>2. CASE \E v \in Users : MakePairedTrue(v)
    BY <1>1, <2>2 DEF MakePairedTrue, SessionInv, TypeOK
  <2>3. CASE ~ Commit /\ ~ \E v \in Users : MakePairedTrue(v)
    <3>1. doc' = doc
      BY <1>1, <2>3 DEF Next, App, Pipeline, vars, backend, Kill, Launch, Segue, LogOut,
         SendRequestTapped, Crash, SignUpTapped, CreateUserSucceeded, AuthFailed, NotifyChange,
         CreateUserCallback, SignInCallback, LoginTapped, SignInSucceeded, LoginRead,
         LoginNotCached, UserFetched, ListingFound, ListingNotFound,
         OnWriteStreamMutationResult, OnWriteStreamClose, HandleRejectedWrite, Decline
    <3>2. QED
      BY <3>1
  <2>4. QED
    BY <2>1, <2>2, <2>3
<1>2. SessionInv /\ [Next]_vars => [\A u \in Users : Kept(u)]_vars
  BY <1>1
<1>3. QED
  BY <1>2, Invariance, PTL DEF Spec, AcknowledgedSignUpKeepsPairing
=============================================================================
