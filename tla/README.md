# Zeenoc in TLA+

Zeenoc is an iOS app in which landlords register properties and tenants ask to be
paired with one. It has no server of its own: its handlers read and write Cloud
Firestore documents through the SDK vendored under `src/zeenoc/Pods`, which keeps
every write in a durable queue on the device and resends it until the backend has
acknowledged it. What makes the app hard to get right is therefore not in any one
handler. It is in what happens between a landlord's and a tenant's device: writes
in flight, callbacks that outlive the screen or the user they were made for,
processes killed half-way through a handler, listeners told of changes nobody on
this device made.

This directory models that system at two levels: the app over what the SDK promises
it, and the parts of the SDK that promise it. TLC checks both on small instances, and
TLAPS proves, for every value of the constants, the safety properties the passing runs
check, all but two: those of the pairing protocol, of sign-up and login, of the landlord's
lists and requests, and of both halves of the SDK's remote part.

## 1. Inventory

Paths are below `src/zeenoc/zeenoc/` unless they start with `Pods`.

| Part | State it keeps | Operations | Talks to |
|---|---|---|---|
| Sign-up (`ViewControllers/SignUpVC.swift`) | form fields, `accountType` of the segmented control | `signUpTapped`: check the form, `createUser`, then `setData` of `users/U`, not awaited | Auth, Firestore |
| Login (`LoginVC.swift`, `StartVC.swift`) | none | `loginTapped`: `signIn`, read `users/U` from the cache alone, segue by `accountType` and `paired` | Auth, the device's cache |
| Connect (`Tenant/ConnectPropertyVC.swift`) | the identifier field | `sendRequestTapped`: fetch the tenant, fetch the listing, add a request to its landlord; `logOutTapped` | Firestore |
| Registration (`Landlord/AddPropertyVC.swift`) | form | `registerTapped`: add the landlord's record, set the listing | Firestore |
| Details (`PropertyDetailsVC.swift`) | copy of a row | `deleteTapped`: delete the landlord's record | Firestore, pops the screen |
| Requests (`notificationsVC.swift`, `Objects/Requests.swift`) | global `requests`, the rows the table has cached | listener; decline swipe: delete the request; accept swipe: delete it, set `paired`, name the tenant, fetch the property and add a payment | listener, Firestore |
| Property lists (`LandlordVC.swift`, `MyPropertiesVC.swift`) | globals `properties`, `tenantProperties` | listener over added, modified, removed; `logOutTapped` | listener; read by the tables and by Details |
| Payments (`Tenant/TenantVC.swift`) | global `payments` | listener; `payTapped` is empty | listener |
| Charts, cells, tab bars, styling | stepper values | drawing | none |
| `server.py` | none | a draft that does not parse (line 89); nothing calls it | none |
| Firestore SDK, local part (`Pods/FirebaseFirestore/.../local`, `model`) | mutation queue per user, cache of backend documents, both on disk | write locally, acknowledge, reject, change of user, overlay of pending writes | views, remote store |
| Firestore SDK, write half (`.../remote`, `.../local/leveldb_mutation_queue.cc`) | pipeline, write stream, batch ids, completion callbacks | fill the pipeline, acknowledge in order, resend from the head after a break, change user | backend, credentials |
| Firestore SDK, watch half (`.../remote`) | listened targets, watch stream, aggregated changes, online state | listen, stop listening, gather a snapshot, refuse a target, decide whether the client is online | backend, views |
| Firestore SDK, views (`.../core`, `api`) | last snapshot per query, listeners | differences of snapshots, events to listeners on the main queue | the app's callbacks |
| Firebase Auth SDK (`Pods/FirebaseAuth`) and its adapter (`.../auth/firebase_credentials_provider_apple.mm`) | current user on disk, token counter | `createUser`, `signIn`, `signOut`, a notification of each change, `getToken` with refresh | backend, Firestore's worker queue |
| gRPC, BoringSSL, abseil, LevelDB, Charts, TinyConstraints | third party | | |

Concurrency. A device has three threads that matter: the main queue, which runs the
app's handlers, callbacks and listener blocks one at a time, the worker queue of the
Firestore SDK, and that of the authentication SDK, whose answers and notifications go
through the main queue. Handlers hand writes to the worker and return; fetches and Auth calls
answer later, on the main queue, when the screen, the text fields and the signed-in
user may have changed. Devices meet only in the backend's documents.

Failure. A process can be killed at any point: what the worker queue had stored is
on disk, the rest is gone. The write stream can break after the backend committed
and before the acknowledgement arrived; since streams are not resumed
(`Pods/.../remote/write_stream.cc:73`), the write is then sent again. A write refused
for good is dropped from the queue (`remote_store.cc:485`).

What makes each part correct:

* pairing: nothing about a tenancy without an accept; no half of an acceptance in
  the wrong order; no rent without a pairing; a listing has a record; requests and
  pairings arrive;
* sessions: no sign-up that was written is lost; an acknowledged sign-up never takes a
  pairing back; the screen fits the account it was chosen for; an approved tenant is let in;
* lists: they settle on what the landlord owns, and never show a tenant where there
  was none; the callback survives every event it can be given;
* requests table: the array settles on the landlord's requests, every request has a
  row, and a landlord who finishes every swipe has each request in its row;
* write half: every stored write reaches the backend at least once, in order, with the
  credentials of the user it was made for; responses settle the write they answer;
* watch half: a fetch is answered, once, and what it calls missing was missing; what is
  listened for is watched; the tracker's timer belongs to an attempt under way.

`PROJECT.json` lists the hazards at their lines.

## 2. Modules

| Module | Models | Main variables |
|---|---|---|
| `Documents` | the documents and the writes of every handler, as the SDK's three mutation classes apply them (set, patch-as-merge, delete); the overlay of pending writes over the backend's version | none, operators only |
| `Pairing` | registration, request, accept, decline and first payment over the devices of any number of landlords and tenants | `db` and `pairings` (backend), `queue`, `sent` (SDK), `client`, `list`, `accepting` (landlord's process), `typed`, `asking` (tenant's screen) |
| `Session` | sign-up, login, logout and sending a request for several accounts on one device | `accounts`, `doc` (backend), `cached`, `queue` (disk), `current`, `main` (authentication SDK), `user`, `sent` (Firestore SDK), `calls`, `screen` (process) |
| `PropertyLists` | the landlord's two lists under the snapshot listener | `base`, `queue`, `view` (worker queue), `inbox` (main queue), `listeners`, `properties`, `tenantProperties` |
| `RequestsTable` | the landlord's requests: the array, the table's rows, the swipes | `view` (SDK), `main` (main queue), `requests` (array), `shown` (rows), `swiping` |
| `Credentials` | the current user and the tokens of streams over three threads | `auth`, `calls` (authentication SDK), `counter`, `main`, `tasks` (worker queue) |
| `WritePipeline` | the write half of the Firestore SDK; extends `Credentials` | `queue`, `nextId` (disk), `user`, `callbacks`, `pipeline`, `stream`, `committed` (backend) |
| `DurableQueue` | what the write half promises: an at-least-once queue per user | `pending`, `committed` |
| `Enumeration` | ascending order: keys of documents, listeners of a document | operators only |
| `OnlineState` | the online state tracker | operators on a record |
| `DocumentFetch` | `getDocument` over the watch half of the Firestore SDK; extends `OnlineState` | `asked`, `answers` (app), `tasks`, `main`, `listeners`, `raised`, `views`, `cached`, `pending`, `commits` (local writes), `targets`, `aggregate`, `stream`, `tracker`, `server`, `clock` (backend) |
| `MCPairing`, `MCSession`, `MCPropertyLists`, `MCDocumentFetch` | model values and symmetry for TLC | |
| `PairingProofs` | theorems about `Pairing` | |
| `SessionProofs` | theorems about `Session` | |
| `PipelineProofs` | theorems about `WritePipeline` | |
| `FetchProofs` | theorems about `DocumentFetch` | |
| `ListsProofs` | theorems about `PropertyLists` | |
| `TableProofs` | theorems about `RequestsTable` | |
| `SequenceFacts` | lemmas about sequences, ascending order and least numbers, for those modules | |

A definition is named after the code it translates where that code has a name;
`PROJECT.json` "map" gives the lines of each. Definitions under the comment "Wrong
on purpose" are plausible bugs: a property is worth its run only if one of them
breaks it.

### Pairing

One device per user. A handler's writes become batches of their own in program
order (`Enqueue`), and `Handler` lets the process die after only its first batches
were stored. The queue belongs to a user *and* a sign-in: a landlord who logged out
writes into the anonymous user's queue, and the landlord's own waits on disk until
the next login (`LocalStore::HandleUserChange`). `Commit` is the backend taking the
next write of the stream; `OnWriteStreamMutationResult` removes the oldest batch;
`OnWriteStreamClose` forgets what was sent, so that the head is sent again;
`HandleRejectedWrite` drops the head.

`Accept` is the whole gesture: three writes, then the fetch whose callback is
`PropertyForPayment`. The callback runs in whatever session is current by then, as
the code has it. `PropertyForPayment` and `PropertiesSnapshotCrash` die on the forced
casts of records that lack the registration's fields. `ListingFound` reads the text
field again, as `ConnectPropertyVC.swift:38` does.

Abstractions, and why they lose nothing the properties tell apart:
identifiers of documents are counters, where the SDK draws random ones that never
repeat; a document read is atomic with its callback, whose interleavings with other
devices are those of the commits before it; `RequestsSnapshot` may come at any later
time, so the delay of the watch stream is included, and with one device per
landlord, which alone deletes its requests, the table ends at the view; only writes
made with nobody signed in can be refused, since the repository holds no security
rules and each screen writes what its user's protocol needs: what the theorems say of
order and arrival they say of a backend that takes a signed-in user's writes. Tenants have signed up
already and their devices neither die nor log out in this module (`Session` has that
side).

### Session

One device, any accounts. What separates signing in from what the app does next is the
subject: on its own queue the authentication SDK changes the current user and posts two
blocks to the main queue (`CreateUserSucceeded`, `SignInSucceeded`, `LogOut`), the
notification that Firestore follows and the app's callback, so that another answer can come
in between. The callback (`CreateUserCallback`, `SignInCallback`) asks for
`Auth.auth().currentUser` again. `current` is that user, `user` the one whose queue Firestore writes
to: it follows `current` by `NotifyChange` once Firestore has been used in this process, and
starts with it at the first use, in `RunCallback`, where a change still under way may or may
not have been seen. Sign-ups are therefore recorded in two histories: `recorded`, those
written in the queue of the user whose document they write, and `strays`, those that went
into the queue of another one or of nobody.

`calls` holds the calls whose answers have yet to come; they come at any time, whatever
happened to the screen and the sign-in meanwhile. A new root view controller ends a screen,
not its callbacks; a segue asked for by a covered screen may have no effect, hence the
disjunction in `LoginRead`. `cached` is the device's cache: only acknowledged own
writes and the fetch of `sendRequestTapped` change it. Some tenants signed up on
another device (`Init`). `Crash` gathers the ends the code brings about itself: a
forced cast of a missing `accountType`, an empty identifier, which makes an empty
document path, and a forced unwrap of the signed-in user in a callback or on a screen that
outlived the sign-in. A write about another user than the one it is sent for may be refused
(`HandleRejectedWrite`); security rules that let no user write another's document are the
usual ones, and strays are then lost. The landlord is reduced to `MakePairedTrue` and
`Decline`. An attempt to sign up with an address in use has no effect but the error label,
so it is left out where it starts (`EmailIsFree` in `SignUpTapped`).

### PropertyLists

The worker queue recomputes the view at every write, acknowledgement, remote event
and change of user, and posts its differences to the main queue, one block per
listener: removals first, then additions, then modifications, in key order, which is
the order `DocumentViewChangeSet` and `GetDocumentViewChangeTypePosition` produce for
a query without order. The callback goes through the block
change by change (`HandleChanges`) with its early ends: `break` leaves one loop, `return`
all of it, a failed cast the process. Listeners outlive logout. An acknowledged write is told
back by the watch stream before anything else changes the document
(`View::ShouldWaitForSyncedDocument` only delays a change); `RemoteEvent` merges any
number of changes of other devices into one event, which is what a reconnected
watch stream does.

### RequestsTable

The table of requests is the one screen whose gestures change what it lists.
Configuring a swipe, before any button is tapped, already deletes the request
(`SwipeActionsConfiguration`); the button only calls `deleteRows` (`DeleteRows`), which
UITableView takes to be an error unless the array has lost exactly one row since the
table last counted. The array loses it in the listener (`SnapshotListener`), whose early
`return` skips the rest of the event and the reload. Two hops on the main queue lie
between an event and `reloadData` (`Completion`, `ReloadData`). A second login adds a
listener and leaves the first (`ViewDidLoad`); the completion of an earlier screen reloads
a table nobody sees. A deletion and the posting of its event are one step; the event may
still wait on the main queue behind others. UIKit is external: the guards say what UITableView does when rows
and counts disagree.

### WritePipeline, Credentials, DurableQueue

One device; an action per operation of the worker queue, per block of the main queue, per
step of the authentication SDK. `tasks` is the worker queue's list of operations other
threads gave it; timers, messages and the end of the gRPC stream come in between, and the
end of a stream may overtake answers that were under way (`GrpcStream::OnOperationFailed`
and `Shutdown` discard queued completions). `Settle`, `FillWritePipeline` and `CloseOnError` are
functions of what the operation under way has left, because `RemoteStore` calls them in
the middle of its handlers: acknowledging a batch changes the disk, runs the callback and
refills the pipeline, which may start the stream, mark it idle or send, all in one
operation.

`Credentials` has the user change in the authentication SDK first, then on the main queue
(the token counter moves), then on the worker queue (the queue is swapped), with token
answers on the same way. A refresh that succeeds for the current user is a change too.

`DurableQueue` is three steps over `pending` and `committed`: submit, commit the next
writes of a queue in order, settle the head. `IsDurableQueue` is the refinement, with
`pending` the writes on disk: it covers retries, restarts, user changes and refusals.

Abstractions: the backend takes requests of a stream until the client has left it and
none afterwards; a write is refused always or never (`Refused`), by a permanent error
with which the stream ends; stream tokens are left out, since the SDK hands the last one
to the backend but cannot resume a stream with it; `is_network_enabled_` is false only
inside `HandleCredentialChange`, an app without network switch having no other use of it;
completion callbacks do not call back into the SDK. Token counters are literal, so a
counter that moved and an answer that is late are told apart as the code does.

### DocumentFetch, OnlineState

`sendRequestTapped` and `addPaymentToTenant` look documents up with `getDocument`, which
the SDK implements with a listener that removes itself. A fetch therefore goes through
everything the SDK has for queries: `AddQueryListener` makes or joins a view and a target,
`OnWatchStreamOpen` sends every target, the responses are gathered per target and become
events when a snapshot arrives (`RaiseWatchSnapshot`), `Notify` tells the listeners, and the
event reaches the main queue, where the fetch is answered unless it was muted. The
removal is a task behind whatever the worker queue had before, so a target can be left
and watched again while the answers to its first watch are under way.

A document is known by whether it exists. The backend keeps a clock of the changes this
device and others make; a watch with a resume token is told what changed since. It sends
what a request calls for in one piece: acknowledgement, the document, `current`, the
snapshot, which is the protocol's promise of consistent snapshots. That protocol makes one
detail of the code harmless that its comment does not describe: `ClearPendingChanges` leaves
`current_` set when a target is added back.

The app fetches documents it has writes pending on: accepting merges the tenant's name into
the property it then fetches (`notificationsVC.swift:132` and `138`), and the first request
may fetch the user's document before its sign-up is acknowledged. `pending` has the writes of
each user and document, `Overlaid` what the local documents view makes of them over the
cache, and a view knows whether its document has local mutations. An acknowledgement
(`OnWriteStreamMutationResult`, `ApplyBatchResult`) puts the write into the cache as one of
our `own`, unless the watch stream has told a later version already; the view keeps the document with
its local mutations until the watch stream tells it (`ShouldWaitForSyncedDocument`);
`ApplyUpdate` takes what the watch stream tells if it is newer, or is that very write.
`commits` are the versions the backend gave to writes whose answers are not read; a stream
that breaks forgets them, and the writes are committed once more. A change of user overlays
another queue (`HandleCredentialChange`). Whether a write makes or deletes the document is
all that is kept of it, so that a merge is a set, and the order of writes on different documents is
`WritePipeline`'s subject: here each document has a queue of its own, which allows more than
the one queue does. Every committed write makes a new version, also one that changes nothing.

Left out: existence filters, target resets, and the second target that limbo resolution would
open. A view is in limbo when it is current, shows a document its target does not hold, and no
local write explains it (`ShouldBeInLimbo`). While an acknowledged write waits to be told the view
has local mutations still, so this is not the case that brings it about; what does is a set
acknowledged under a pending delete that is then refused, or overlaid no more after a change of
user. `LimboIsUntold` says that the watch stream has yet to tell that very write
then; the update that does so ends the limbo with or without the second target. Events for
different fetches of one step are ordered by number. Token requests are one step here
(`OnWatchStreamOpen`, or `OnStreamFinish` when there is none); `WritePipeline` has them in
full, and both streams share the code.

## 3. Runs

`expect: pass` runs:

| Run | Instance | Shows |
|---|---|---|
| `pairing` | 1 landlord, 1 tenant, 2 identifiers, one never registered, 1 request, 1 swipe, with fairness | `TracesToAcceptance`, `NamedAfterPaired`, `PaymentBacked`, `ListedIsOwned` under every interleaving of handlers, commits, lost acknowledgements, refusals, logouts and deaths; `RentIsForRegistered`: a request may name a property that never was, and still nobody owes rent for it; `RequestArrives`, `PairingArrives` (liveness) |
| `session` | 2 accounts, 2 overlapping calls before a request and 1 at a time after it, 1 request | `SignUpDurable`, `ScreenMatchesAccount`, `AcknowledgedSignUpKeepsPairing`, also when a callback finds another account signed in than its own, with a landlord who accepts and declines |
| `requests` | 2 requests, 3 swipes, 1 request settled elsewhere, 2 logins | `ArrayMirrorsView` and `ArrivalIsShown` while the landlord uses one device; `EveryRequestHasRow` with one listener; `RowsAreTheirs` for a landlord who finishes every swipe |
| `pipeline` | nobody and one user, 3 writes, one of them refused, pipeline of 2, 2 changes of user, 1 token refresh, 1 broken stream or death | `PipelineIsFront`, `ResponsesMatchPipeline`, `TokenIsOfUser`, `IdleIsDrained`, `StartAwaitsToken`, `CallbackIsForItsWrite`; `IsDurableQueue` (the refinement); `WritesSettle` (liveness) |
| `fetch` | 2 fetches of two documents, one of them hidden, 1 change elsewhere, 1 failed start, broken stream or change of credentials | `SyncedWasThere`, `AnsweredOnce`, `WatchedIsListened`, `NoListenerLeft`, `StreamIsNeeded`, `TimerIsForAttempt`; `FetchAnswered` (liveness) |
| `fetch_writes` | 1 fetch, 1 document, 2 local writes, 3 writes and changes of the backend together, 2 users, 1 fault | `SyncedWasThere` with the acknowledgement before and after the watch stream's news; `LimboIsUntold`, with limbo reached by a set committed under a delete that is then refused |
| `lists` | 2 properties, 1 tenant, 3 writes, 2 remote changes, 2 logins | `ListsMirrorView` for the first session of a landlord's only device; `RowsAreTruthful` for all of it |

Every passing run but `fetch_writes` also checks the type invariant of its module. `expect: violation` runs state what the app's own texts and casts say, and
TLC finds how the code breaks it:

| Run | Property | Counterexample in a sentence |
|---|---|---|
| `pairing_lookup` | `RequestedIsListed` | the tenant edits the identifier while the listing is fetched; the request names a property the app would have called "Property not found" |
| `pairing_cast` | `PropertyFieldsPresent` | register, request, delete, accept: the merge leaves a record without address, on which the listener's casts die at every start |
| `session_approved` | `ApprovedIsLetIn` | the pairing is on the backend, the cache still says unpaired, and logging in again, as the message advises, leads to the same screen |
| `lists_logout` | `ModifiedHasName` | logging out while the tenant's name is pending takes it out of the view; the surviving listener is told of a modification without a name, and dies |
| `fetch_silent` | `OnlineStateSettles` | a fetch is answered offline and removed while the stream is backing off, which clears timer and state; the next fetch finds the stream started, sets no timer, and with a backend that never answers the client stays neither online nor offline |

Bounds. Every bound is a CONSTANT of its module and sits in a guard. One landlord and
one tenant suffice for `Pairing`'s hazards, since they lie between a handler's writes,
the queue and the session, and the theorems of section 5 hold for any number, as they do for
any number of swipes: a second acceptance of the same row or an accept after a decline is
theirs. (The safety properties also pass with two swipes, in 1.5 million states; the liveness properties
then take TLC too long.) Two overlapping calls on two accounts are what it takes for a callback
to run under another user. Requests count against the same bound, since two calls besides a
request would take the state space beyond ten million. Three writes and
two remote changes on two properties give events with several changes, each kind
before each other; two logins give a second listener. Two requests give the table a row
above and a row below, and a second swipe before the first was dealt with; the run also
passes with three requests and one login. A pipeline of two with three writes is full
and refilled; the limit of ten in the code is the constant `MaxPendingWrites`. One fault
and two changes of user leave a stream in each of its states with an answer under way.
Two fetches share a target, follow each other on it, or end one while the other goes on. Local
writes multiply the states, so that a further run has them with one fetch of one
document: a write, its commit and a change before or after it, or two writes of which one
outlives the other. Users are interchangeable in `Session` and in the runs of `DocumentFetch` with two
of them, and the symmetry is used there, in safety runs only; no liveness run uses
symmetry. Deadlock is not checked: each system really stops when its
bounds are used up, and the landlord's app in `PropertyLists` when its process dies.

Fairness. `RequestsTable`, `WritePipeline` and `DocumentFetch` assume weak fairness of one
disjunction each, that queues are served, timers fire and messages are read: the queues
are serial executors that never stop, and a step that stays possible is taken. The idle
timer is not among them, nothing of the user's is, and faults are bounded, so that
liveness speaks of what happens after the last of them. `DocumentFetch!Spec` has the
backend answer; `SilentSpec` does not.

In `Pairing!Fairness`, `Commit` is weakly fair: the worker queue fills the
pipeline whenever there is a pending batch and the network is usable. The
acknowledgement is strongly fair: a stream that breaks is reopened with backoff, for
ever, and the assumption is that it does not break before every acknowledgement. No
handler of a user is fair: nobody has to log in, swipe or register. `PairingArrives`
therefore excepts a landlord who leaves, and there is no liveness about payments,
which need the fetch to return in a process that may be killed.

## 4. What the model says about the code

The order `removeRequest`, `makePairedTrue`, `addNameToProperty` in the accept gesture
is load-bearing: the name never gets ahead of the pairing, whatever is lost or
resent, and swapping the two lines breaks `NamedAfterPaired`. So is the order
record-before-listing in `registerTapped`. A payment can reach the backend before the
pairing does, after a logout; it is then always backed by the pairing waiting on disk.
A sign-up whose acknowledgement was lost is sent again and can take back a pairing
made in between, and so can one that first goes out after a request made before it; once it
is acknowledged it cannot. The callback of `createUser` trusts the current user instead of
the one it is handed: of two sign-ups that overlap one writes the other's document, which
resets that user's pairing even long after that user's own sign-up was acknowledged, and its
own account is left without. `AcknowledgedSignUpKeepsPairing` therefore excepts users with
such a stray, and `SignUpDurable` speaks of the sign-ups in their own user's queue.

A fetch calls a document missing that the backend held all along only when this device has a
pending delete of it. Otherwise the view keeps what this device wrote until the watch
stream has caught up, and acknowledgements overtaken by the watch stream are dropped by their
version (`local_store.cc:213`); without that test `fetch_writes` finds a synced view of a
document deleted before it was watched.

The write half of the SDK keeps its promise through every order of answers, errors and
user changes there is in the bounds, and two details carry it: `Close` cancels the idle
timer and counts up `close_count_`, and the pipeline is emptied before the stream is
started for another user. One detail does not: `HandleWriteError` charges a permanent error
to the head of the pipeline, and since the end of a stream may overtake answers, the write
refused can be a later one. The head then leaves the queue as failed although it was
committed or would be; `DurableQueue!Settle` has to admit it.

In the requests table, a swipe whose button is not tapped leaves a row of a settled
request behind, since the listener does not reload after a removal. From then on gestures
act on another request than their row shows, the button can delete the row of a request
that is still there, and a gesture on the last row reads past the end of the array and
ends the process. An addition that comes in one event with a removal is lost, which takes
a second device, as it does in the lists: a property registered elsewhere in the event
that removes a rented one stays off the list (`LandlordVC.swift:159`). The password test asks
for no digit, although the form's message does (`SignUpVC.swift:54`).

Not claimed, because the code does not ensure it: one payment per request (swiping the
same row twice makes two), a user document for every account, the signed-in user being
the one whose screen is shown or whose document the callback of a sign-in reads, lists without duplicates after a second login.

## 5. Proofs

### Pairing

For arbitrary `Landlords`, `Tenants`, `Props` and bounds, from `DocumentsAssumption`
(landlords and tenants are disjoint, `None` is neither a user nor a property) and
`PairingAssumption` (the bounds are natural numbers). The model has no refusals but of writes
made with nobody signed in, and neither do the theorems.

| Theorem | States | Inductive invariant |
|---|---|---|
| `PairingProofs!TypeCorrect` | `Spec => []TypeOK` | `TypeInv`: with `SentWithinQueue`, since a commit indexes the queue by `sent` |
| `PairingProofs!AcceptanceTraced` | `Spec => []TracesToAcceptance` | `TraceInv`: every queued write and every call in flight traces to an accept gesture too |
| `PairingProofs!NamingFollowsPairing` | `Spec => []NamedAfterPaired` | `OrderInv`: a queued name stands behind its pairing or the pairing is recorded, what counts as sent is recorded (`SentPaired`), and names are never in an anonymous queue, the only one that loses its head |
| `PairingProofs!PaymentsBacked` | `Spec => []PaymentBacked` | `BackedInv`: calls in flight and queued payments are backed as the payment will be |
| `PairingProofs!ListingsAreOwned` | `Spec => []ListedIsOwned` | `OwnInv` |
| `PairingProofs!RentFollowsRegistration` | `Spec => []RentIsForRegistered` | `OwnInv` |

The three about tenancies rest on one classification: `EveryTenancyStep` shows that every
step of `Next` is, for the tenancy's purposes, a step of a device, a quiet step, an enqueue
of plain writes, an accept gesture (all of it or a proper prefix) or a payment. Each
invariant is then shown to be kept by these five kinds. The facts about queues
(`EnqueueFacts`, `PopFacts` and their entry-wise forms) and about `ApplyWrite` are lemmas
of their own.

The last two rest on another, `EveryPropertyStep`: a step is one of a device's queue
(`Device`), or it leaves the backend alone and enqueues nothing but writes as
`PropertyWrites` admits them, a listing behind its record.
`OwnInv` says of a queued listing that its record is full on the backend, was deleted or is
queued ahead of it (`ListingsBehind`), of a record already sent that it is on the backend
(`SentOwned`), which is what is left when its batch is removed, and that the anonymous
user's queue, the only one that loses its head, registers nothing (`RegisteredSignedIn`).
`registered` relates landlords to the properties they registered, so that a rent is owed to
the landlord who registered the property, not only for a property somebody registered.
`RentIsForRegistered` needs one fact that no step shows: the payment was made because the
landlord's *device* saw a full record, and what a device sees is the backend's document
under all writes of its queue. `FullView` shows that such a record came from the backend or
from a registration in the queue, by going back to the first write after which it is full.

### The write half

For arbitrary `Users`, writes, `Refused` writes, `MaxPendingWrites` and bounds, from
`CredentialsAssumption` (`Anonymous` is a user, `Failed` is none) and
`PipelineAssumption` (the pipeline takes at least one write).

| Theorem | States | Part of the invariant it needs |
|---|---|---|
| `PipelineProofs!PipelineTypes` | `Spec => []TypeOK` | `PipelineInv` |
| `PipelineProofs!PipelineFront` | `Spec => []PipelineIsFront` | `PipelineInv` |
| `PipelineProofs!AnswersInOrder` | `Spec => []ResponsesMatchPipeline` | `PipelineInv` |
| `PipelineProofs!IdleHasNothingLeft` | `Spec => []IdleIsDrained` | `PipelineInv` |
| `PipelineProofs!StartsAwaitOneToken` | `Spec => []StartAwaitsToken` | `AwaitInv` |
| `PipelineProofs!StreamsAreOfTheUser` | `Spec => []TokenIsOfUser` | `TokenInv` |
| `PipelineProofs!CallbacksAreForTheirWrites` | `Spec => []CallbackIsForItsWrite` | itself, over `PipelineInv` |
| `PipelineProofs!QueueImplements` | `Spec => IsDurableQueue` | `Acknowledged` |

`DurableInv` is the whole inductive invariant, in four parts:

* `PipelineInv`: every queue is in the order of its batch ids and the next id is above
  them all, the pipeline is the front of the current queue, and the stream carries what
  `Carries` says. The order of ids is what makes `After` and `Without`, which search by
  id, take the right batches; `Carries` distinguishes a stream before its handshake,
  which carries the handshake alone, because `ResponsesMatchPipeline` says nothing of
  that state and is not inductive without it.
* `AwaitInv`: one call, answer or task is of the current start while the stream is
  starting, none otherwise, and none is of a start to come. It is needed for
  `ResumeStartWithCredentials`, which does not look at the stream's state: without it a
  late token could put the handshake on an open stream, so even `PipelineInv` is kept
  only together with it.
* `TokenInv`: the counter notices a change of user before the main queue hands on a
  token, and the worker queue hears of users and tokens in the order the main queue
  handed them on. `AuthKnown` follows a change of user through both queues; `CallsCurrent`,
  `AnswersCurrent` and `TokensCurrent` follow a token on the same way.
* `Acknowledged`: every answer under way past the handshake is of a write committed for
  the current user. The refinement needs it twice: a write settled was committed, and a
  write committed has those ahead of it committed. `QueueImplements` shows that
  `WriteMutations` is a `Submit`, that `Serve` past the handshake is a `Commit`, that a
  response or a refusal is a `Settle`, and that everything else stutters.

### Sign-up, login and the screen

For arbitrary `Users` and bounds, from `SessionAssumption` (`None` is neither a user, an
account type nor a document).

| Theorem | States |
|---|---|
| `SessionProofs!SessionTypes` | `Spec => []TypeOK` |
| `SessionProofs!SignUpsAreDurable` | `Spec => []SignUpDurable` |
| `SessionProofs!ScreensMatchAccounts` | `Spec => []ScreenMatchesAccount` |
| `SessionProofs!PairingsOutlastSignUps` | `Spec => AcknowledgedSignUpKeepsPairing`, an action property |

All four come from one invariant, `SessionInv`. A sign-up that waits is recorded for the user
it names: in `recorded` if it waits in that user's queue, in `strays` otherwise
(`OwnSignUps`). What a document on the backend or in the cache says of its user, such a
sign-up or an acceptance made so (`Truthful`), and the user of a sign-up that was committed
but not acknowledged has a document (`SentIsThere`), which is what is left of it when the
acknowledgement removes it from the queue. The screen needs `Truthful` of the *cache*, since
it is chosen from there. None of it says whose account a sign-up was for: that the callback
finds the account it was made for does not hold.

### The landlord's lists

For arbitrary tenants, documents and bounds, from `ListsAssumption` (documents are finitely
many numbers, their order that of the keys; `NoName` is no tenant, and `None` no document).

| Theorem | States | Invariant |
|---|---|---|
| `ListsProofs!ListsTypes` | `Spec => []TypeOK` | `TypeInv` |
| `ListsProofs!RowsTellTruth` | `Spec => []RowsAreTruthful` | `NamesInv` |
| `ListsProofs!ListsFollowView` | `Spec => []ListsMirrorView` | `ToldInv` |

`TypeInv` has `Counted`: at most one screen is being loaded, and every listener is of a
login of its own, with which `listeners` cannot pass `MaxLogins`. `NamesInv` follows a name
through all the places it passes on its way to a row (cache, pending write, view, event
under way, row): each was given by a tenant who did name that property. The callback's
fallback to `properties[0]` and its early ends are met by going through the changes of an
event one by one.

`ToldInv` is about the first session on the landlord's only device. The lists show *a* view,
and a function `v` of views leads from there to the present one: the block at `k` tells the
difference of `v[k - 1]` and `v[k]`. Each of these differences is everything there is,
starting from nothing, or concerns one document (`Leads`), because one write changes one
document and an acknowledgement none (`LocalView` of the cache with the write applied, under
the rest, is what it was). That is why no early return loses anything: `OneEvent` shows that
the callback takes lists that show the old view to lists that show the new one, or
the process dies. With changes of another device two documents differ in one block, and the
invariant fails as the code does.

### The requests table

For arbitrary bounds, from `TableAssumption` (they are natural numbers).

| Theorem | States | Invariant |
|---|---|---|
| `TableProofs!TableTypes` | `Spec => []TypeOK` | itself |
| `TableProofs!RequestsHaveRows` | `Spec => []EveryRequestHasRow` | `ToldInv` |
| `TableProofs!ArrayIsView` | `Spec => []ArrayMirrorsView` | `MirrorInv` |
| `TableProofs!RowsFollowArray` | `Spec => []RowsAreTheirs` | `RowsInv` |

`ToldInv` needs only that a table with fewer rows than the array has requests is about to be
told, by a block of the screen that is on (`Screens`). `MirrorInv` balances the account
between array and view: a request is in the view if it is in the array or comes in an event,
and does not go in one; what comes is not there yet and comes once; what goes is there, goes
once, and alone in its event (`RemovedAlone`), so that the early return has nothing to skip.
The last is where a second device would break it. `RowsInv` adds the rows: with every button
tapped there is at most one removal under way, that of the swipe whose buttons are out, and
unless the table is to be told, the array and the rows differ by that row alone (`InStep`).

### The watch half

For arbitrary `Docs`, hidden documents `Denied` among them, and bounds, from
`FetchAssumption`.

| Theorem | States | Invariant |
|---|---|---|
| `FetchProofs!FetchTypes` | `Spec => []TypeOK` | `FetchInv` |
| `FetchProofs!FetchesAnswerOnce` | `Spec => []AnsweredOnce` | `FetchInv` |
| `FetchProofs!ListenersAreWatched` | `Spec => []WatchedIsListened` | `FetchInv` |
| `FetchProofs!ListenersEnd` | `Spec => []NoListenerLeft` | `FetchInv` |
| `FetchProofs!StreamsAreNeeded` | `Spec => []StreamIsNeeded` | `FetchInv` |
| `FetchProofs!TimersAreForAttempts` | `Spec => []TimerIsForAttempt` | `FetchInv` |

`FetchInv` is about the client and what it asked for; `CommitsOK` goes with it, that the write
stream has no more answers under way for a document than writes are pending on it, without
which an acknowledgement might find no write. `FetchesInv` follows a fetch from the task that
listens for it to the one that removes it. `Counted` is what the type of `outstanding`
rests on: the aggregator waits for as many responses as there are requests the backend
has not read plus acknowledgements the client has not, and the requests for a document
alternate between watching and leaving it, ending with what the client wants. Both
conjuncts are needed, because an acknowledgement subtracts one whether or not it was
asked for.

### What is left to TLC

Only model-checked is all liveness: `RequestArrives`, `PairingArrives`, `WritesSettle`,
`ArrivalIsShown`, `FetchAnswered`, and of the safety properties `SyncedWasThere` and
`LimboIsUntold`, which relate what a view shows to what the backend said and to the writes of
this device: section 7 has the argument a proof would take. Liveness under fairness and ENABLED are out of the
prover's reach. The runs that expect a violation have nothing to prove.

Induction over data is nearly so: the library's induction theorems take an operator as a
parameter, which none of the provers can instantiate. Where a proof needs what a whole queue
or a whole block of changes comes to, it argues by a least counterexample instead:
`LeastMember` has a non-empty set of numbers contain a least one, and a statement about the
`n`-th value of a recursive function that holds at 0 and is handed on from each number to the
next has none. `LocalView` (`Documents`, `PropertyLists`) and `HandleChanges` are
recursive functions over the positions of a sequence for that reason. There are no recursive
operators in the modules proved about.

## 6. Not modelled

Charts, cells, labels, styling, the wording of addresses and amounts: no decision
depends on them. The tenant's payments list: its listener only ever sees additions.
`server.py`: it does not parse. Transactions, garbage collection, ordered or limited
queries of the SDK: the app uses none, and its data stays below the collection
threshold. Security rules: not in the repository. Requests to the authentication service and
the keychain: Authentication is modelled by its current user, its tokens and what its
callbacks tell the app. Of the SDK, disabling the network, termination, waiting for
pending writes, existence filters and target resets, which single documents do not call for, and the targets of
limbo resolution (section 2 says when a view calls for one); and the coalescing of successive changes of a document
in `DocumentViewChangeSet::AddChange`, since one computation of a view adds one change per
document. gRPC, BoringSSL, LevelDB, Charts and the other libraries under `src/zeenoc/Pods`,
which make up nearly all of the repository's lines, are third-party code below what
the app's behaviour depends on.

## 7. Plan

Done: `Documents`, `Pairing`, `Session`, `PropertyLists`, `RequestsTable`, `Credentials`,
`WritePipeline` with `DurableQueue`, `OnlineState` and `DocumentFetch`; a theorem for every
type invariant, safety invariant, action property and refinement a passing run checks, but
for the two of `DocumentFetch` below.

Next, in this order:

1. `SyncedWasThere` and `LimboIsUntold` for every value of the constants, over `FetchInv`. What a
   proof has to carry: of the answers under way that count (those after all requests are
   acknowledged), the last update, or else what is gathered, or else the cache, is what
   the backend holds, and its version is at least that of the last change, unless a commit of this device came
   since; versions of replies, gathered updates and the cache follow each other; and the
   version of a committed write of ours above the token of its target has its effect in `seen`.
2. That the queue of one user and sign-in in `Pairing` behaves as `DurableQueue` promises,
   so that the app's model and the SDK's meet in one specification.
3. That what the tenant's device and the landlord's lists show in `PropertyLists` is a
   projection of what `Pairing` commits.
4. What a second listener on the same device makes of the lists: rows may double, but
   none is missing.
