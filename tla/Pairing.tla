------------------------------- MODULE Pairing -------------------------------
(***************************************************************************)
(* How a tenant gets paired with a property.  A landlord registers         *)
(* properties, a tenant looks one up by its identifier and sends a         *)
(* request, the landlord accepts or declines it, and an accepted tenant is *)
(* marked as paired, named on the property and owed a first payment.       *)
(*                                                                         *)
(* Every user has one device.  The device keeps the writes of a user in a  *)
(* durable queue that the SDK sends in order, again from its head when the *)
(* stream broke before the acknowledgement arrived.  A landlord's app can  *)
(* log out (its writes then go to the queue of the anonymous user), be     *)
(* killed, or die on a forced cast.                                        *)
(***************************************************************************)
EXTENDS Documents, FiniteSets

CONSTANTS MaxRegistered, \* bound: properties ever registered
          MaxRequests,   \* bound: requests ever sent
          MaxSwipes      \* bound: swipe gestures ever made

ASSUME PairingAssumption ==
  MaxRegistered \in Nat /\ MaxRequests \in Nat /\ MaxSwipes \in Nat

VARIABLES
  db,         \* documents on the backend
  queue,      \* <<user, signed in>> -> writes not yet acknowledged
  sent,       \* user -> writes of its current queue already committed
  client,     \* user -> "off", "anon" (Firestore up, nobody signed in), "user"
  list,       \* landlord -> requests its table shows
  accepting,  \* landlord -> getDocument calls of addPaymentToTenant in flight
  typed,      \* tenant -> text of the property identifier field
  asking,     \* tenant -> property whose listing is being fetched, or None
  registered, \* <<landlord, property>> pairs ever registered
  deleted,    \* properties ever deleted
  requestIds, \* request documents ever created
  swipes,     \* swipe gestures ever made, accepting or declining
  accepted,   \* those that accepted
  pairings    \* <<tenant, property>> pairs the backend ever recorded

backend == <<db, pairings>>
clients == <<client, list, accepting, typed, asking>>
history == <<registered, deleted, requestIds, swipes, accepted>>
vars == <<backend, queue, sent, clients, history>>

Queues == Users \X BOOLEAN

Current(u) == <<u, client[u] = "user">>

Pending(u) == queue[Current(u)]

\* What the device of a landlord shows: the backend's documents with the
\* current queue applied on top.
RentalView(l, p) == LocalView(db, Pending(l)).rentals[l][p].state

RequestsView(l) == LocalRequests(db, Pending(l), l)

\* One accept gesture: the addPaymentToTenant call it makes is the same record.
Acceptance == [landlord : Landlords, tenant : Tenants, prop : Props, id : Nat]

TypeOK ==
  /\ db \in Database
  /\ queue \in [Queues -> Seq(Write)]
  /\ sent \in [Users -> Nat]
  /\ client \in [Users -> {"off", "anon", "user"}]
  /\ list \in [Landlords -> SUBSET Request]
  /\ accepting \in [Landlords -> SUBSET Acceptance]
  /\ typed \in [Tenants -> Props]
  /\ asking \in [Tenants -> Props \cup {None}]
  /\ registered \in SUBSET (Landlords \X Props)
  /\ deleted \in SUBSET Props
  /\ requestIds \in Nat
  /\ swipes \in Nat
  /\ accepted \in SUBSET Acceptance
  /\ pairings \in SUBSET (Tenants \X Props)

Init ==
  /\ db = EmptyDatabase
  /\ queue = [q \in Queues |-> <<>>]
  /\ sent = [u \in Users |-> 0]
  /\ client = [u \in Users |-> "user"]
  /\ list = [l \in Landlords |-> {}]
  /\ accepting = [l \in Landlords |-> {}]
  /\ typed \in [Tenants -> Props]
  /\ asking = [t \in Tenants |-> None]
  /\ registered = {}
  /\ deleted = {}
  /\ requestIds = 0
  /\ swipes = 0
  /\ accepted = {}
  /\ pairings = {}

(***************************************************************************)
(* The write pipeline of a device and the backend.                         *)
(***************************************************************************)

\* The backend commits the next write of the stream.
Commit(u) ==
  /\ client[u] # "off"
  /\ sent[u] < Len(Pending(u))
  /\ LET w == Pending(u)[sent[u] + 1] IN
       /\ db' = ApplyWrite(db, w)
       /\ pairings' = IF w.op = "pair" THEN pairings \cup {<<w.tenant, w.prop>>}
                                       ELSE pairings
  /\ sent' = [sent EXCEPT ![u] = @ + 1]
  /\ UNCHANGED <<queue, clients, history>>

\* Wrong on purpose: any acknowledgement clears the queue.
OnWriteStreamMutationResult_Clears(u) ==
  /\ client[u] # "off"
  /\ sent[u] > 0
  /\ queue' = [queue EXCEPT ![Current(u)] = <<>>]
  /\ sent' = [sent EXCEPT ![u] = 0]
  /\ UNCHANGED <<backend, clients, history>>

\* Its acknowledgement removes the oldest batch from the queue.
OnWriteStreamMutationResult(u) ==
  /\ client[u] # "off"
  /\ sent[u] > 0
  /\ queue' = [queue EXCEPT ![Current(u)] = Tail(@)]
  /\ sent' = [sent EXCEPT ![u] = @ - 1]
  /\ UNCHANGED <<backend, clients, history>>

\* Wrong on purpose: a transient error drops the batch at the head.
OnWriteStreamClose_Drops(u) ==
  /\ client[u] # "off"
  /\ Pending(u) # <<>>
  /\ queue' = [queue EXCEPT ![Current(u)] = Tail(@)]
  /\ sent' = [sent EXCEPT ![u] = 0]
  /\ UNCHANGED <<backend, clients, history>>

\* The stream breaks on a transient error: acknowledgements under way are
\* lost and the next stream starts again from the head of the queue.
OnWriteStreamClose(u) ==
  /\ client[u] # "off"
  /\ sent[u] > 0
  /\ sent' = [sent EXCEPT ![u] = 0]
  /\ UNCHANGED <<backend, queue, clients, history>>

\* A permanent error drops the batch at the head.  Only writes made with
\* nobody signed in are taken to be refused.
HandleRejectedWrite(u) ==
  /\ client[u] = "anon"
  /\ sent[u] = 0
  /\ Pending(u) # <<>>
  /\ queue' = [queue EXCEPT ![Current(u)] = Tail(@)]
  /\ UNCHANGED <<backend, sent, clients, history>>

\* The writes of one handler become batches of their own, in program order.
Enqueue(u, writes) == queue' = [queue EXCEPT ![Current(u)] = @ \o writes]

(***************************************************************************)
(* The landlord's process and session.                                     *)
(***************************************************************************)

\* The process ends: memory is lost, the queues and the sign-in are on disk.
Die(l) ==
  /\ client' = [client EXCEPT ![l] = "off"]
  /\ sent' = [sent EXCEPT ![l] = 0]
  /\ list' = [list EXCEPT ![l] = {}]
  /\ accepting' = [accepting EXCEPT ![l] = {}]

Kill(l) ==
  /\ client[l] # "off"
  /\ Die(l)
  /\ UNCHANGED <<backend, queue, typed, asking, history>>

\* Firestore is first used by the login callback; the new notifications
\* screen starts with an empty table.
LogIn(l) ==
  /\ client[l] # "user"
  /\ client' = [client EXCEPT ![l] = "user"]
  /\ sent' = [sent EXCEPT ![l] = 0]
  /\ list' = [list EXCEPT ![l] = {}]
  /\ UNCHANGED <<backend, queue, accepting, typed, asking, history>>

\* Signing out swaps the mutation queue and restarts the streams.
LogOut(l) ==
  /\ client[l] = "user"
  /\ client' = [client EXCEPT ![l] = "anon"]
  /\ sent' = [sent EXCEPT ![l] = 0]
  /\ UNCHANGED <<backend, queue, list, accepting, typed, asking, history>>

(***************************************************************************)
(* The landlord's handlers.  Each may be cut short by the end of the       *)
(* process after only its first writes were made durable.                  *)
(***************************************************************************)

\* Run a handler that makes these writes and these calls, or die in it.
Handler(l, writes, calls) ==
  \/ /\ Enqueue(l, writes)
     /\ accepting' = [accepting EXCEPT ![l] = @ \cup calls]
     /\ UNCHANGED <<client, sent, list>>
  \/ \E n \in 1 .. Len(writes) - 1 :
       /\ Enqueue(l, SubSeq(writes, 1, n))
       /\ Die(l)

\* Wrong on purpose: the listing is written before the landlord's record.
RegisterWrites_ListingFirst(l, p) == <<AddListing(l, p), AddProperty(l, p)>>

\* addDocument under the landlord, with an identifier nobody has, then setData
\* of the listing.
RegisterWrites(l, p) == <<AddProperty(l, p), AddListing(l, p)>>

\* Wrong on purpose: the property is written before the tenant.
AcceptWrites_NameFirst(l, r) == <<RemoveRequest(l, r),
                                  AddNameToProperty(l, r.tenant, r.prop),
                                  MakePairedTrue(l, r.tenant, r.prop)>>

\* removeRequest, makePairedTrue, addNameToProperty.
AcceptWrites(l, r) == <<RemoveRequest(l, r),
                        MakePairedTrue(l, r.tenant, r.prop),
                        AddNameToProperty(l, r.tenant, r.prop)>>

\* Wrong on purpose: declining pairs the tenant like accepting does.
DeclineWrites_Pairs(l, r) == <<RemoveRequest(l, r),
                               MakePairedTrue(l, r.tenant, r.prop)>>

DeclineWrites(l, r) == <<RemoveRequest(l, r)>>

RegisterTapped(l, p) ==
  /\ client[l] = "user"
  /\ \A m \in Landlords : <<m, p>> \notin registered
  /\ Cardinality(registered) < MaxRegistered
  /\ Handler(l, RegisterWrites(l, p), {})
  /\ registered' = registered \cup {<<l, p>>}
  /\ UNCHANGED <<backend, typed, asking, deleted, requestIds, swipes, accepted>>

\* Deletes the landlord's own record; the listing stays.
DeleteTapped(l, p) ==
  /\ client[l] = "user"
  /\ RentalView(l, p) = "full"
  /\ Enqueue(l, <<DeleteProperty(l, p)>>)
  /\ deleted' = deleted \cup {p}
  /\ UNCHANGED <<backend, sent, clients, registered, requestIds, swipes, accepted>>

\* The requests listener brings the table up to date with the local view.
RequestsSnapshot(l) ==
  /\ client[l] = "user"
  /\ list[l] # RequestsView(l)
  /\ list' = [list EXCEPT ![l] = RequestsView(l)]
  /\ UNCHANGED <<backend, queue, sent, client, accepting, typed, asking, history>>

\* The properties listener casts the fields of every property it is told of.
PropertiesSnapshotCrash(l) ==
  /\ client[l] = "user"
  /\ \E p \in Props : RentalView(l, p) = "partial"
  /\ Die(l)
  /\ UNCHANGED <<backend, queue, typed, asking, history>>

\* Trailing swipe on a row.
Decline(l, r) ==
  /\ client[l] = "user"
  /\ r \in list[l]
  /\ swipes < MaxSwipes
  /\ Enqueue(l, DeclineWrites(l, r))
  /\ swipes' = swipes + 1
  /\ UNCHANGED <<backend, sent, clients, registered, deleted, requestIds, accepted>>

\* Leading swipe on a row: three writes, then the property is fetched.
Accept(l, r) ==
  /\ client[l] = "user"
  /\ r \in list[l]
  /\ swipes < MaxSwipes
  /\ LET a == [landlord |-> l, tenant |-> r.tenant, prop |-> r.prop,
               id |-> swipes + 1]
     IN /\ Handler(l, AcceptWrites(l, r), {a})
        /\ accepted' = accepted \cup {a}
  /\ swipes' = swipes + 1
  /\ UNCHANGED <<backend, typed, asking, registered, deleted, requestIds>>

\* Wrong on purpose: missing fields are defaulted instead of cast.
RentKnown_Defaulted(doc) == doc # "missing"

\* What the forced casts of deadline and rent let through.
RentKnown(doc) == doc = "full"

\* The fetch of addPaymentToTenant returns.  The payment goes to the queue of
\* whoever is signed in by then.
PropertyForPayment(l, a) ==
  /\ client[l] # "off"
  /\ a \in accepting[l]
  /\ UNCHANGED <<backend, typed, asking, history>>
  /\ LET doc == RentalView(l, a.prop) IN
       \/ /\ RentKnown(doc)
          /\ Enqueue(l, <<AddPayment(l, a.tenant, a.prop, a.id)>>)
          /\ accepting' = [accepting EXCEPT ![l] = @ \ {a}]
          /\ UNCHANGED <<sent, client, list>>
       \/ /\ doc = "missing" \/ client[l] = "anon"
          /\ accepting' = [accepting EXCEPT ![l] = @ \ {a}]
          /\ UNCHANGED <<queue, sent, client, list>>
       \/ /\ doc # "missing" /\ ~ RentKnown(doc)
          /\ Die(l)
          /\ UNCHANGED queue

(***************************************************************************)
(* The tenant's handlers.                                                  *)
(***************************************************************************)

EditPropertyID(t, p) ==
  /\ typed[t] # p
  /\ typed' = [typed EXCEPT ![t] = p]
  /\ UNCHANGED <<backend, queue, sent, client, list, accepting, asking, history>>

\* The tenant's own document has arrived: look up the property in the field.
SendRequestTapped(t) ==
  /\ asking[t] = None
  /\ requestIds < MaxRequests
  /\ asking' = [asking EXCEPT ![t] = typed[t]]
  /\ UNCHANGED <<backend, queue, sent, client, list, accepting, typed, history>>

\* Wrong on purpose: document.exists is not checked.
DocumentExists_Unchecked(t) == TRUE

DocumentExists(t) == db.listings[asking[t]] # None

\* The listing has arrived: the request goes to its landlord, for the
\* property the field holds by now.
ListingFound(t) ==
  /\ asking[t] # None
  /\ requestIds < MaxRequests
  /\ DocumentExists(t)
  /\ LET r == [id |-> requestIds + 1, tenant |-> t, prop |-> typed[t]]
     IN Enqueue(t, <<AddRequest(db.listings[asking[t]], r)>>)
  /\ requestIds' = requestIds + 1
  /\ asking' = [asking EXCEPT ![t] = None]
  /\ UNCHANGED <<backend, sent, client, list, accepting, typed, registered,
                 deleted, swipes, accepted>>

\* No such listing, or none in the cache while offline.
ListingNotFound(t) ==
  /\ asking[t] # None
  /\ asking' = [asking EXCEPT ![t] = None]
  /\ UNCHANGED <<backend, queue, sent, client, list, accepting, typed, history>>

Device(u) ==
  \/ Commit(u)
  \/ OnWriteStreamMutationResult(u)
  \/ OnWriteStreamClose(u)
  \/ HandleRejectedWrite(u)

Landlord(l) ==
  \/ Kill(l)
  \/ LogIn(l)
  \/ LogOut(l)
  \/ RequestsSnapshot(l)
  \/ PropertiesSnapshotCrash(l)
  \/ \E p \in Props : RegisterTapped(l, p) \/ DeleteTapped(l, p)
  \/ \E r \in list[l] : Decline(l, r) \/ Accept(l, r)
  \/ \E a \in accepting[l] : PropertyForPayment(l, a)

Tenant(t) ==
  \/ \E p \in Props : EditPropertyID(t, p)
  \/ SendRequestTapped(t)
  \/ ListingFound(t)
  \/ ListingNotFound(t)

Next ==
  \/ \E u \in Users : Device(u)
  \/ \E l \in Landlords : Landlord(l)
  \/ \E t \in Tenants : Tenant(t)

Spec == Init /\ [][Next]_vars

\* The worker queue keeps sending and the streams, retried with backoff,
\* eventually stay up long enough for an acknowledgement.
Fairness == \A u \in Users : /\ WF_vars(Commit(u))
                             /\ SF_vars(OnWriteStreamMutationResult(u))

FairSpec == Spec /\ Fairness

(***************************************************************************)
(* Properties.                                                             *)
(***************************************************************************)

\* Nothing about a tenancy appears on the backend that a landlord did not
\* accept: the paired flag, the name on the property and the payment each
\* trace back to an accept gesture (not a decline) for that tenant.
TracesToAcceptance ==
  /\ \A t \in Tenants : db.users[t].paired = "true" =>
       \E a \in accepted : a.tenant = t /\ a.prop = db.users[t].prop
  /\ \A l \in Landlords, p \in Props : db.rentals[l][p].tenant # None =>
       \E a \in accepted : /\ a.landlord = l /\ a.prop = p
                           /\ a.tenant = db.rentals[l][p].tenant
  /\ \A t \in Tenants : \A k \in db.payments[t] :
       [landlord |-> k.landlord, tenant |-> t, prop |-> k.prop, id |-> k.id]
         \in accepted

\* A property that names a tenant was preceded by that tenant's pairing,
\* whatever was lost, replayed or interrupted in between.
NamedAfterPaired ==
  \A l \in Landlords, p \in Props : db.rentals[l][p].tenant # None =>
    <<db.rentals[l][p].tenant, p>> \in pairings

\* A tenant owes rent only if its pairing was recorded or still waits, on
\* disk, in the queue of the landlord who accepted it.
PaymentBacked ==
  \A t \in Tenants : \A k \in db.payments[t] :
    \/ <<t, k.prop>> \in pairings
    \/ \E i \in DOMAIN queue[<<k.landlord, TRUE>>] :
         queue[<<k.landlord, TRUE>>][i] = MakePairedTrue(k.landlord, t, k.prop)

\* A property tenants can find is one its landlord's records hold, unless the
\* landlord deleted it.
ListedIsOwned ==
  \A p \in Props \ deleted : \A l \in Landlords :
    db.listings[p] = l => db.rentals[l][p].state = "full"

\* Rent is only ever owed for a property that the landlord it is owed to has
\* registered, though a request may name one that never was, or another
\* landlord's, and still get its tenant paired with it.
RentIsForRegistered ==
  \A t \in Tenants : \A k \in db.payments[t] : <<k.landlord, k.prop>> \in registered

\* A request a tenant's device has made durable and not sent yet (or has to
\* send again) reaches its landlord.
RequestArrives ==
  \A t \in Tenants, l \in Landlords, n \in 1 .. MaxRequests :
    (\E i \in DOMAIN queue[<<t, TRUE>>] :
       /\ i > sent[t]
       /\ queue[<<t, TRUE>>][i].landlord = l
       /\ queue[<<t, TRUE>>][i].id = n)
      ~> (\E r \in db.requests[l] : r.id = n)

\* A landlord who stays signed in gets the tenants it accepted recorded as
\* paired, however often the stream breaks.
PairingArrives ==
  \A l \in Landlords, t \in Tenants, p \in Props :
    (\E i \in DOMAIN queue[<<l, TRUE>>] :
       queue[<<l, TRUE>>][i] = MakePairedTrue(l, t, p))
      ~> (<<t, p>> \in pairings \/ client[l] # "user")

\* What the forced casts of the listener assert: every property record it is
\* given holds the fields registration wrote.
PropertyFieldsPresent ==
  \A l \in Landlords, p \in Props :
    client[l] = "user" => RentalView(l, p) # "partial"

\* What the message "Property not found" says: an identifier without a
\* listing gets no request.
RequestedIsListed ==
  \A l \in Landlords : \A r \in db.requests[l] : db.listings[r.prop] # None
==============================================================================
