------------------------------ MODULE Documents ------------------------------
(***************************************************************************)
(* The Firestore documents the app keeps and the writes it makes to them.  *)
(*                                                                         *)
(*   users/T                    paired flag and property of tenant T       *)
(*   users/L/properties/P       landlord L's own record of property P      *)
(*   properties/P               the listing tenants look a property up in  *)
(*   users/L/requests/R         tenants waiting for landlord L             *)
(*   users/T/payments/K         rent owed by tenant T                      *)
(*                                                                         *)
(* A document is abstracted to the fields a decision of the app depends on *)
(* and a write to one record, applied as the three mutation classes of the *)
(* SDK apply it.                                                           *)
(***************************************************************************)
EXTENDS Naturals, Sequences

CONSTANTS Landlords, Tenants, Props,
          None          \* an absent reference

ASSUME DocumentsAssumption ==
  /\ Landlords \cap Tenants = {}
  /\ None \notin Landlords \cup Tenants \cup Props

Users == Landlords \cup Tenants

(***************************************************************************)
(* Documents.  A property record is "full" when it holds the fields        *)
(* registration writes (address, deadline, rent, ...) and "partial" when a *)
(* merge created it with the tenant's fields alone.                        *)
(***************************************************************************)
UserDoc    == [paired : {"false", "true"}, prop : Props \cup {None}]
RentalDoc  == [state : {"missing", "partial", "full"},
               tenant : Tenants \cup {None}]
Request    == [id : Nat, tenant : Tenants, prop : Props]
Payment    == [id : Nat, landlord : Landlords, prop : Props]

Database == [users    : [Tenants -> UserDoc],
             rentals  : [Landlords -> [Props -> RentalDoc]],
             listings : [Props -> Landlords \cup {None}],
             requests : [Landlords -> SUBSET Request],
             payments : [Tenants -> SUBSET Payment]]

NoRental == [state |-> "missing", tenant |-> None]

\* Tenants have signed up and no property is registered.
EmptyDatabase ==
  [users    |-> [t \in Tenants |-> [paired |-> "false", prop |-> None]],
   rentals  |-> [l \in Landlords |-> [p \in Props |-> NoRental]],
   listings |-> [p \in Props |-> None],
   requests |-> [l \in Landlords |-> {}],
   payments |-> [t \in Tenants |-> {}]]

(***************************************************************************)
(* Writes.  One constructor per call of setData, addDocument and delete.   *)
(***************************************************************************)
PropertyOps == {"addProperty", "addListing", "deleteProperty"}
TenancyOps  == {"addRequest", "deleteRequest", "pair", "name", "pay"}

Write == [op : PropertyOps, landlord : Landlords, tenant : {None},
          prop : Props, id : Nat]
         \cup
         [op : TenancyOps, landlord : Landlords, tenant : Tenants,
          prop : Props, id : Nat]

AWrite(op, l, t, p, n) ==
  [op |-> op, landlord |-> l, tenant |-> t, prop |-> p, id |-> n]

AddProperty(l, p)    == AWrite("addProperty", l, None, p, 0)
AddListing(l, p)     == AWrite("addListing", l, None, p, 0)
DeleteProperty(l, p) == AWrite("deleteProperty", l, None, p, 0)
AddRequest(l, r)     == AWrite("addRequest", l, r.tenant, r.prop, r.id)
RemoveRequest(l, r)  == AWrite("deleteRequest", l, r.tenant, r.prop, r.id)
MakePairedTrue(l, t, p)    == AWrite("pair", l, t, p, 0)
AddNameToProperty(l, t, p) == AWrite("name", l, t, p, 0)
AddPayment(l, t, p, n)     == AWrite("pay", l, t, p, n)

RequestOf(w) == [id |-> w.id, tenant |-> w.tenant, prop |-> w.prop]
PaymentOf(w) == [id |-> w.id, landlord |-> w.landlord, prop |-> w.prop]

\* A SetMutation replaces the document.
FullRental == [state |-> "full", tenant |-> None]

\* A PatchMutation without precondition merges its fields into the document
\* that is there, and creates one holding these fields alone when none is.
MergeTenant(old, t) ==
  [state |-> IF old.state = "missing" THEN "partial" ELSE old.state,
   tenant |-> t]

\* The database after one write, on the backend and in a client's overlay.
ApplyWrite(d, w) ==
  CASE w.op = "addProperty" ->
         [d EXCEPT !.rentals[w.landlord][w.prop] = FullRental]
    [] w.op = "addListing" ->
         [d EXCEPT !.listings[w.prop] = w.landlord]
    [] w.op = "deleteProperty" ->
         [d EXCEPT !.rentals[w.landlord][w.prop] = NoRental]
    [] w.op = "addRequest" ->
         [d EXCEPT !.requests[w.landlord] = @ \cup {RequestOf(w)}]
    [] w.op = "deleteRequest" ->
         [d EXCEPT !.requests[w.landlord] = {r \in @ : r.id # w.id}]
    [] w.op = "pair" ->
         [d EXCEPT !.users[w.tenant] = [paired |-> "true", prop |-> w.prop]]
    [] w.op = "name" ->
         [d EXCEPT !.rentals[w.landlord][w.prop] = MergeTenant(@, w.tenant)]
    [] w.op = "pay" ->
         [d EXCEPT !.payments[w.tenant] = @ \cup {PaymentOf(w)}]

\* A document as a client reads it: the backend's version with the pending
\* writes of the client applied on top, oldest first.
LocalView(d, pending) ==
  LET after[n \in 0 .. Len(pending)] ==
        IF n = 0 THEN d ELSE ApplyWrite(after[n - 1], pending[n])
  IN  after[Len(pending)]

\* The same for a landlord's requests, which the landlord only ever deletes.
LocalRequests(d, pending, l) ==
  {r \in d.requests[l] :
     \A i \in DOMAIN pending :
       pending[i].op = "deleteRequest" => pending[i].id # r.id}
==============================================================================
