---------------------------- MODULE PropertyLists ----------------------------
(***************************************************************************)
(* The two lists a landlord's app keeps of its properties: all of them     *)
(* (properties) and the rented ones (tenantProperties).  A snapshot        *)
(* listener keeps them up to date from the changes the SDK reports: the    *)
(* SDK's worker queue computes a view of the collection, the backend's     *)
(* documents under the pending writes of whoever is signed in, and posts   *)
(* every difference to the main queue, where the listener's callback runs. *)
(* Listeners are never removed: every login adds one.                      *)
(***************************************************************************)
EXTENDS Enumeration, Sequences, SequencesExt

CONSTANTS Ids,        \* document identifiers, in key order
          Tenants,
          NoName,     \* no tenantName field
          None,       \* no document
          MaxWrites,  \* bound: writes ever made on this device
          MaxRemote,  \* bound: documents ever changed from elsewhere
          MaxLogins   \* bound: logins of this device

\* full: the document holds the fields of a registration.
Doc == [full : BOOLEAN, name : Tenants \cup {NoName}]

ASSUME ListsAssumption ==
  /\ Ids \subseteq Nat /\ IsFiniteSet(Ids)
  /\ NoName \notin Tenants
  /\ None \notin Tenants \cup {NoName} \cup Doc
  /\ MaxWrites \in Nat /\ MaxRemote \in Nat /\ MaxLogins \in Nat

VARIABLES
  base,             \* the documents in the device's cache
  queue,            \* pending writes of the landlord
  signedIn,         \* whether the landlord, or nobody, is signed in
  view,             \* documents of the last snapshot
  listening,        \* addSnapshotListener called, its first event to come
  listeners,        \* listeners that have had their first event
  inbox,            \* blocks waiting on the main queue
  properties,       \* the landlord's properties, as shown
  tenantProperties, \* the rented ones, as shown
  crashed,          \* the process died in a callback
  registered,       \* history: properties ever registered
  named,            \* history: tenants ever named on a property
  logins,           \* history: logins so far
  writes,           \* history: writes so far
  remote            \* history: changes from elsewhere so far

sdk     == <<base, queue, signedIn, view>>
lists   == <<properties, tenantProperties, crashed>>
history == <<registered, named, logins, writes, remote>>
vars    == <<sdk, listening, listeners, inbox, lists, history>>

(***************************************************************************)
(* Writes and views.                                                       *)
(***************************************************************************)
Write == [op : {"register", "delete"}, id : Ids]
         \cup [op : {"name"}, id : Ids, name : Tenants]

Merge(old, t) == [full |-> old # None /\ old.full, name |-> t]

ApplyWrite(d, w) ==
  CASE w.op = "register" -> [d EXCEPT ![w.id] = [full |-> TRUE, name |-> NoName]]
    [] w.op = "delete" -> [d EXCEPT ![w.id] = None]
    [] w.op = "name" -> [d EXCEPT ![w.id] = Merge(@, w.name)]

\* The cache's documents with the pending writes on top, oldest first.
LocalView(d, pending) ==
  LET after[n \in 0 .. Len(pending)] ==
        IF n = 0 THEN d ELSE ApplyWrite(after[n - 1], pending[n])
  IN  after[Len(pending)]

Present(d) == {id \in Ids : d[id] # None}

(***************************************************************************)
(* The changes of a snapshot: removals, then additions, then modifications,*)
(* each in key order.                                                      *)
(***************************************************************************)
Change == [type : {"removed", "added", "modified"}, id : Ids,
           doc : Doc \cup {None}]

ChangesOf(type, ids, d) ==
  LET keys == InOrder(ids) IN
  [i \in DOMAIN keys |-> [type |-> type, id |-> keys[i], doc |-> d[keys[i]]]]

ComputeDocumentChanges(old, new) ==
  ChangesOf("removed", Present(old) \ Present(new), new)
  \o ChangesOf("added", Present(new) \ Present(old), new)
  \o ChangesOf("modified",
               {id \in Present(old) \cap Present(new) : old[id] # new[id]}, new)

\* A block of the main queue: a listener's event or the loading of LandlordVC.
Block == [load : BOOLEAN, changes : Seq(Change)]
Event(changes) == [load |-> FALSE, changes |-> changes]
Load == [load |-> TRUE, changes |-> <<>>]

\* The new view, and the events it raises: one block for every listener.
Events(new) ==
  LET changes == ComputeDocumentChanges(view, new) IN
  IF changes = <<>> THEN <<>> ELSE [i \in 1 .. listeners |-> Event(changes)]

EmitSnapshot(new) == view' = new /\ inbox' = inbox \o Events(new)

(***************************************************************************)
(* The listener's callback.                                                *)
(***************************************************************************)

\* A row of a list; a property without a tenant's name shows "N/A".
Row == [id : Ids, name : Tenants \cup {NoName}]

Renamed(rows, c) ==
  [i \in DOMAIN rows |->
     IF rows[i].id = c.id THEN [rows[i] EXCEPT !.name = c.doc.name] ELSE rows[i]]

HasId(rows, id) == \E i \in DOMAIN rows : rows[i].id = id

\* The first row of the property goes.
RemoveId(rows, id) ==
  IF HasId(rows, id)
  THEN RemoveAt(rows, FirstOf({i \in DOMAIN rows : rows[i].id = id}))
  ELSE rows

\* Wrong on purpose: a missing name gets no default.
Added_NoDefault(st, c) ==
  LET row == [id |-> c.id, name |-> IF c.doc.name = NoName THEN None ELSE c.doc.name] IN
  [st EXCEPT !.all = Append(@, row)]

\* Added: casts the fields of a registration.
Added(st, c) ==
  LET row == [id |-> c.id, name |-> c.doc.name] IN
  IF ~ c.doc.full THEN [st EXCEPT !.status = "crashed"]
  ELSE [st EXCEPT !.all = Append(@, row),
                  !.rented = IF row.name = NoName THEN @ ELSE Append(@, row)]

\* Wrong on purpose: the first property is renamed, whichever was modified.
Modified_First(st, c) ==
  IF c.doc.name = NoName \/ st.all = <<>> THEN [st EXCEPT !.status = "crashed"]
  ELSE [st EXCEPT !.all[1].name = c.doc.name]

\* Modified: casts the tenant's name, reads properties[0], renames the rows of
\* the property and adds one to the rented list: the last row renamed, or
\* properties[0] when there was none.
Modified(st, c) ==
  LET all == Renamed(st.all, c)
      curr == IF HasId(all, c.id)
              THEN [id |-> c.id, name |-> c.doc.name] ELSE st.all[1]
  IN IF c.doc.name = NoName \/ st.all = <<>>
     THEN [st EXCEPT !.status = "crashed"]
     ELSE [st EXCEPT !.all = all,
                     !.rented = IF HasId(@, c.id) THEN Renamed(@, c)
                                ELSE Append(@, curr)]

\* Wrong on purpose: a removed property stays among the rented ones.
Removed_KeepsRented(st, c) == [st EXCEPT !.all = RemoveId(@, c.id)]

\* Removed: a break leaves the first loop, a return the whole callback.
Removed(st, c) ==
  [st EXCEPT !.all = RemoveId(@, c.id),
             !.rented = RemoveId(@, c.id),
             !.status = IF HasId(st.rented, c.id) THEN "returned" ELSE @]

HandleChange(st, c) ==
  IF st.status # "running" THEN st
  ELSE CASE c.type = "added" -> Added(st, c)
         [] c.type = "modified" -> Modified(st, c)
         [] c.type = "removed" -> Removed(st, c)

\* One change after the other, from the lists as they are.
HandleChanges(changes) ==
  LET after[n \in 0 .. Len(changes)] ==
        IF n = 0
        THEN [all |-> properties, rented |-> tenantProperties, status |-> "running"]
        ELSE HandleChange(after[n - 1], changes[n])
  IN  after[Len(changes)]

TypeOK ==
  /\ base \in [Ids -> Doc \cup {None}]
  /\ queue \in Seq(Write)
  /\ view \in [Ids -> Doc \cup {None}]
  /\ signedIn \in BOOLEAN /\ listening \in BOOLEAN /\ crashed \in BOOLEAN
  /\ listeners \in 0 .. logins
  /\ inbox \in Seq(Block)
  /\ properties \in Seq(Row)
  /\ tenantProperties \in Seq(Row)
  /\ registered \in SUBSET Ids
  /\ named \in SUBSET (Ids \X Tenants)
  /\ logins \in Nat /\ writes \in Nat /\ remote \in Nat

\* The landlord's first login: nothing is registered.
Init ==
  /\ base = [id \in Ids |-> None]
  /\ queue = <<>>
  /\ signedIn = TRUE
  /\ view = base
  /\ listening = FALSE
  /\ listeners = 0
  /\ inbox = <<Load>>
  /\ properties = <<>>
  /\ tenantProperties = <<>>
  /\ crashed = FALSE
  /\ registered = {}
  /\ named = {}
  /\ logins = 1
  /\ writes = 0
  /\ remote = 0

(***************************************************************************)
(* The main queue.                                                         *)
(***************************************************************************)

\* LandlordVC.viewDidLoad: clear the lists, add a listener.
ViewDidLoad ==
  /\ ~ crashed
  /\ inbox # <<>> /\ Head(inbox).load
  /\ inbox' = Tail(inbox)
  /\ properties' = <<>>
  /\ tenantProperties' = <<>>
  /\ listening' = TRUE
  /\ UNCHANGED <<sdk, listeners, crashed, history>>

RunCallback ==
  /\ ~ crashed
  /\ inbox # <<>> /\ ~ Head(inbox).load
  /\ inbox' = Tail(inbox)
  /\ LET st == HandleChanges(Head(inbox).changes) IN
       /\ properties' = st.all
       /\ tenantProperties' = st.rented
       /\ crashed' = (st.status = "crashed")
  /\ UNCHANGED <<sdk, listening, listeners, history>>

(***************************************************************************)
(* The worker queue.                                                       *)
(***************************************************************************)

\* The first event of a new listener: every document of the view is added.
ListenerAdded ==
  /\ listening /\ ~ crashed
  /\ listening' = FALSE
  /\ listeners' = listeners + 1
  /\ inbox' = IF Present(view) = {} THEN inbox
              ELSE Append(inbox, Event(ChangesOf("added", Present(view), view)))
  /\ UNCHANGED <<sdk, lists, history>>

\* A write of the landlord's screens raises its own snapshot.
WriteLocally(w) ==
  /\ signedIn /\ ~ crashed
  /\ ~ \E i \in DOMAIN inbox : inbox[i].load
  /\ writes < MaxWrites
  /\ writes' = writes + 1
  /\ queue' = Append(queue, w)
  /\ EmitSnapshot(LocalView(base, queue'))
  /\ UNCHANGED <<base, signedIn, listening, listeners, lists, logins, remote>>

RegisterTapped(id) ==
  /\ id \notin registered
  /\ WriteLocally([op |-> "register", id |-> id])
  /\ registered' = registered \cup {id}
  /\ UNCHANGED named

\* The property of a row of the list of all properties.
DeleteTapped(id) ==
  /\ HasId(properties, id)
  /\ WriteLocally([op |-> "delete", id |-> id])
  /\ UNCHANGED <<registered, named>>

\* Accepting a request, which may be for a property deleted meanwhile.
AddNameToProperty(id, t) ==
  /\ id \in registered
  /\ WriteLocally([op |-> "name", id |-> id, name |-> t])
  /\ named' = named \cup {<<id, t>>}
  /\ UNCHANGED registered

\* The oldest write is committed, acknowledged and told back by the backend.
AcknowledgeBatch ==
  /\ signedIn /\ ~ crashed
  /\ queue # <<>>
  /\ base' = ApplyWrite(base, Head(queue))
  /\ queue' = Tail(queue)
  /\ UNCHANGED <<signedIn, view, listening, listeners, inbox, lists, history>>

\* What another of the landlord's devices can make of a document: register it,
\* name a tenant on it, or delete it.
RemoteVersions(id) ==
  (IF base[id] = None
   THEN IF id \in registered THEN {} ELSE {d \in Doc : d.full}
   ELSE {None} \cup {d \in Doc : d.name # NoName /\ d.full = base[id].full})
  \ {base[id]}

\* Any number of such changes are told in one event.
RemoteEvent ==
  /\ ~ crashed
  /\ \E S \in (SUBSET Ids) \ {{}} : \E new \in [S -> Doc \cup {None}] :
       /\ remote + Cardinality(S) <= MaxRemote
       /\ \A id \in S : new[id] \in RemoteVersions(id)
       /\ remote' = remote + Cardinality(S)
       /\ registered' = registered \cup S
       /\ named' = named \cup {<<id, new[id].name>> :
                     id \in {i \in S : new[i] # None /\ new[i].name # NoName}}
       /\ base' = [id \in Ids |-> IF id \in S THEN new[id] ELSE base[id]]
  /\ EmitSnapshot(IF signedIn THEN LocalView(base', queue) ELSE base')
  /\ UNCHANGED <<queue, signedIn, listening, listeners, lists, logins, writes>>

\* A change of user takes the pending writes out of the view and back in.
LogOut ==
  /\ signedIn /\ ~ crashed
  /\ ~ \E i \in DOMAIN inbox : inbox[i].load
  /\ signedIn' = FALSE
  /\ EmitSnapshot(base)
  /\ UNCHANGED <<base, queue, listening, listeners, lists, history>>

LogIn ==
  /\ ~ signedIn /\ ~ crashed
  /\ logins < MaxLogins
  /\ logins' = logins + 1
  /\ signedIn' = TRUE
  /\ LET new == LocalView(base, queue) IN
       /\ view' = new
       /\ inbox' = Append(inbox \o Events(new), Load)
  /\ UNCHANGED <<base, queue, listening, listeners, lists, registered, named,
                 writes, remote>>

Next ==
  \/ ViewDidLoad \/ RunCallback \/ ListenerAdded
  \/ \E id \in Ids : \/ RegisterTapped(id) \/ DeleteTapped(id)
                     \/ \E t \in Tenants : AddNameToProperty(id, t)
  \/ AcknowledgeBatch \/ RemoteEvent \/ LogOut \/ LogIn

Spec == Init /\ [][Next]_vars

(***************************************************************************)
(* Properties.                                                             *)
(***************************************************************************)

\* Nothing is on its way to the lists.
Settled == /\ signedIn /\ ~ crashed
           /\ listeners > 0 /\ ~ listening /\ inbox = <<>>

\* rows shows exactly the documents of ids, each once, under its name.
Mirrors(rows, ids) ==
  /\ \A i, j \in DOMAIN rows : rows[i].id = rows[j].id => i = j
  /\ {rows[i] : i \in DOMAIN rows}
       = {[id |-> id, name |-> view[id].name] : id \in ids}

\* During the first session of the landlord's only device the two lists settle
\* on the landlord's properties and the rented ones among them.
ListsMirrorView ==
  Settled /\ logins = 1 /\ remote = 0 =>
    /\ Mirrors(properties, Present(view))
    /\ Mirrors(tenantProperties,
               {id \in Present(view) : view[id].name # NoName})

\* No list shows a tenant on a property the tenant was never named on, even
\* where the callback gives up half-way or falls back to properties[0].
RowsAreTruthful ==
  \A rows \in {properties, tenantProperties} : \A i \in DOMAIN rows :
    rows[i].name # NoName => <<rows[i].id, rows[i].name>> \in named

\* The forced cast of tenantName asserts that a modified property has one.
ModifiedHasName ==
  \A i \in DOMAIN inbox : \A k \in DOMAIN inbox[i].changes :
    LET c == inbox[i].changes[k] IN
    c.type = "modified" => c.doc.name # NoName
==============================================================================
