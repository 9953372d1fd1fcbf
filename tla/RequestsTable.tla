---------------------------- MODULE RequestsTable ----------------------------
(***************************************************************************)
(* The landlord's table of requests: the global array the snapshot         *)
(* listener keeps, and the rows UITableView believes in.                   *)
(*                                                                         *)
(* Everything but the snapshots happens on the main thread, whose queue    *)
(* holds the listener's events and the two blocks by which an event        *)
(* reaches the table.  Gestures come in between.  Configuring a swipe      *)
(* already declines or accepts; the button only deletes the row.           *)
(***************************************************************************)
EXTENDS Enumeration, Sequences, SequencesExt

CONSTANTS MaxRequests,  \* bound: requests ever sent to the landlord
          MaxSwipes,    \* bound: gestures
          MaxElsewhere, \* bound: requests settled on another device
          MaxLogins     \* bound: times the screen is loaded

ASSUME TableAssumption == {MaxRequests, MaxSwipes, MaxElsewhere, MaxLogins} \subseteq Nat

Ids == 1 .. MaxRequests

VARIABLES
  view,      \* requests of the SDK's last snapshot
  main,      \* blocks waiting on the main queue
  listeners, \* screens whose listener is there, those of past logins included
  requests,  \* the array
  shown,     \* the request each row of the table on screen was made from
  swiping,   \* the row whose buttons are out, or 0
  abandoned, \* history: buttons went in untapped since the table was loaded
  sent, swipes, elsewhere, logins

process == <<main, listeners, requests, shown, swiping, abandoned>>
counts  == <<sent, swipes, elsewhere, logins>>
vars    == <<view, process, counts>>

Block == [kind : {"event"}, screen : Nat, removed : Seq(Ids), added : Seq(Ids)]
         \cup [kind : {"publish", "reload"}, screen : Nat]

TypeOK ==
  /\ view \subseteq Ids
  /\ main \in Seq(Block)
  /\ listeners \subseteq 1 .. logins
  /\ requests \in Seq(Ids)
  /\ shown \in Seq(Ids)
  /\ swiping \in 0 .. Len(shown)
  /\ abandoned \in BOOLEAN
  /\ sent \in 0 .. MaxRequests
  /\ {swipes, elsewhere, logins} \subseteq Nat

Init ==
  /\ view = {}
  /\ main = <<>>
  /\ listeners = {}
  /\ requests = <<>>
  /\ shown = <<>>
  /\ swiping = 0
  /\ abandoned = FALSE
  /\ sent = 0 /\ swipes = 0 /\ elsewhere = 0 /\ logins = 0

\* The process dies; what was deleted stays deleted.
Die ==
  /\ main' = <<>>
  /\ listeners' = {}
  /\ requests' = <<>>
  /\ shown' = <<>>
  /\ swiping' = 0
  /\ abandoned' = FALSE

(***************************************************************************)
(* The SDK.                                                                *)
(***************************************************************************)
Event(screen, removed, added) ==
  [kind |-> "event", screen |-> screen,
   removed |-> InOrder(removed), added |-> InOrder(added)]

\* Every listener gets a block for the difference of two snapshots.
Emit(removed, added) ==
  LET screens == InOrder(listeners) IN
  /\ view' = (view \ removed) \cup added
  /\ main' = main \o [i \in DOMAIN screens |-> Event(screens[i], removed, added)]

\* Tenants sent requests, and another device settled some, since the last
\* snapshot.
Snapshot ==
  \E n \in 0 .. MaxRequests - sent, gone \in SUBSET view :
    /\ n > 0 \/ gone # {}
    /\ elsewhere + Cardinality(gone) <= MaxElsewhere
    /\ Emit(gone, sent + 1 .. sent + n)
    /\ sent' = sent + n
    /\ elsewhere' = elsewhere + Cardinality(gone)
    /\ UNCHANGED <<listeners, requests, shown, swiping, abandoned, swipes, logins>>

(***************************************************************************)
(* The screen.                                                             *)
(***************************************************************************)

\* A login's screen is loaded: the array is emptied, a listener added, and the
\* listeners of earlier logins stay.
ViewDidLoad ==
  /\ logins < MaxLogins
  /\ logins' = logins + 1
  /\ listeners' = listeners \cup {logins'}
  /\ main' = Append(main, Event(logins', {}, view))
  /\ requests' = <<>>
  /\ shown' = <<>>
  /\ swiping' = 0
  /\ abandoned' = FALSE
  /\ UNCHANGED <<view, sent, swipes, elsewhere>>

\* Wrong on purpose: the search for the removed request ends one short.
Found_Short(removed) ==
  {i \in DOMAIN requests : i < Len(requests) /\ requests[i] \in ToSet(removed)}

\* Rows of the array an event removes.
Found(removed) == {i \in DOMAIN requests : requests[i] \in ToSet(removed)}

\* The first such row of the first such change.
FirstFound(removed) ==
  LET first == FirstOf({k \in DOMAIN removed :
                          \E i \in Found(removed) : requests[i] = removed[k]})
  IN  FirstOf({i \in Found(removed) : requests[i] = removed[first]})

IsNext(kind) == main # <<>> /\ Head(main).kind = kind

\* The listener's callback: a removal that finds its row returns, so the rest
\* of the event is not seen and the table is not told.
SnapshotListener ==
  /\ IsNext("event")
  /\ LET e == Head(main) IN
       IF Found(e.removed) # {}
       THEN /\ requests' = RemoveAt(requests, FirstFound(e.removed))
            /\ main' = Tail(main)
       ELSE /\ requests' = requests \o e.added
            /\ main' = Append(Tail(main), [kind |-> "publish", screen |-> e.screen])
  /\ UNCHANGED <<view, listeners, shown, swiping, abandoned, counts>>

\* Wrong on purpose: the table is not told.
Completion_Silent ==
  /\ IsNext("publish")
  /\ main' = Tail(main)
  /\ UNCHANGED <<view, listeners, requests, shown, swiping, abandoned, counts>>

\* The array is assigned to itself, and the table of the listener's screen is
\* to be told.
Completion ==
  /\ IsNext("publish")
  /\ main' = Append(Tail(main), [kind |-> "reload", screen |-> Head(main).screen])
  /\ UNCHANGED <<view, listeners, requests, shown, swiping, abandoned, counts>>

\* A reload cures the table of an untapped swipe, unless the removal is still
\* to come.
Uncured ==
  /\ swiping # 0 \/ abandoned
  /\ \E i \in DOMAIN main : main[i].kind = "event" /\ main[i].removed # <<>>

\* Wrong on purpose: buttons that are out stay out.
ReloadData_KeepsSwipe ==
  /\ IsNext("reload")
  /\ main' = Tail(main)
  /\ IF Head(main).screen = logins
     THEN shown' = requests /\ abandoned' = Uncured
     ELSE UNCHANGED <<shown, abandoned>>
  /\ UNCHANGED <<view, listeners, requests, swiping, counts>>

\* Wrong on purpose: not while buttons are out.
ReloadData_NotSwiping ==
  /\ IsNext("reload")
  /\ main' = Tail(main)
  /\ IF Head(main).screen = logins /\ swiping = 0
     THEN shown' = requests /\ abandoned' = Uncured
     ELSE UNCHANGED <<shown, abandoned>>
  /\ UNCHANGED <<view, listeners, requests, swiping, counts>>

\* The rows are made anew and buttons that are out go in; the table of an
\* earlier login is not on screen.
ReloadData ==
  /\ IsNext("reload")
  /\ main' = Tail(main)
  /\ IF Head(main).screen = logins
     THEN shown' = requests /\ swiping' = 0 /\ abandoned' = Uncured
     ELSE UNCHANGED <<shown, swiping, abandoned>>
  /\ UNCHANGED <<view, listeners, requests, counts>>

(***************************************************************************)
(* Gestures.                                                               *)
(***************************************************************************)

\* The swipe is configured for the array's request of that row, which is
\* deleted at once; a row past the array's end kills the process.
SwipeActionsConfiguration(row) ==
  /\ swiping = 0
  /\ swipes < MaxSwipes
  /\ swipes' = swipes + 1
  /\ IF row > Len(requests) THEN Die /\ UNCHANGED view
     ELSE /\ swiping' = row
          /\ IF requests[row] \in view THEN Emit({requests[row]}, {})
             ELSE UNCHANGED <<view, main>>
          /\ UNCHANGED <<listeners, requests, shown, abandoned>>
  /\ UNCHANGED <<sent, elsewhere, logins>>

\* Wrong on purpose: the first row is deleted.
DeleteRows_First ==
  /\ swiping # 0
  /\ IF Len(requests) # Len(shown) - 1 THEN Die
     ELSE /\ shown' = RemoveAt(shown, 1)
          /\ swiping' = 0
          /\ UNCHANGED <<main, listeners, requests, abandoned>>
  /\ UNCHANGED <<view, counts>>

\* The button deletes the row.  UITableView counts: unless the array has lost
\* just one of its rows, it throws.
DeleteRows ==
  /\ swiping # 0
  /\ IF Len(requests) # Len(shown) - 1 THEN Die
     ELSE /\ shown' = RemoveAt(shown, swiping)
          /\ swiping' = 0
          /\ UNCHANGED <<main, listeners, requests, abandoned>>
  /\ UNCHANGED <<view, counts>>

\* The buttons go in untapped.
CloseSwipe ==
  /\ swiping # 0
  /\ swiping' = 0
  /\ abandoned' = TRUE
  /\ UNCHANGED <<view, main, listeners, requests, shown, counts>>

(***************************************************************************)
(* Specification.                                                          *)
(***************************************************************************)
RunBlock == SnapshotListener \/ Completion \/ ReloadData

Next ==
  \/ Snapshot
  \/ ViewDidLoad
  \/ SnapshotListener \/ Completion \/ ReloadData
  \/ \E row \in DOMAIN shown : SwipeActionsConfiguration(row)
  \/ DeleteRows
  \/ CloseSwipe

\* The main queue is served.
Spec == Init /\ [][Next]_vars /\ WF_vars(RunBlock)

(***************************************************************************)
(* Properties.                                                             *)
(***************************************************************************)
NoneWaiting(kinds) == \A i \in DOMAIN main : main[i].kind \notin kinds

OneListener == Cardinality(listeners) = 1

\* This is the landlord's only device, in its first session since it started.
OnlyHere == OneListener /\ elsewhere = 0

\* The array is the landlord's requests, each once, when its events are dealt
\* with: a removal's early return loses nothing as long as removals are the
\* landlord's own and come alone.
ArrayMirrorsView ==
  OnlyHere /\ NoneWaiting({"event"})
    => Len(requests) = Cardinality(view) /\ ToSet(requests) = view

\* Every row of the array has a row in the table once the table was told, so
\* gestures can miss the array's end but no request lacks a row: whatever order
\* events, reloads, swipes and row deletions come in.
EveryRequestHasRow ==
  OneListener /\ NoneWaiting({"publish", "reload"}) => Len(shown) >= Len(requests)

\* A landlord who taps the button of every swipe, and whose app survives it,
\* sees each request in its row, although the listener does not reload the
\* table after a removal and the button does not touch the array.
RowsAreTheirs ==
  OnlyHere /\ main = <<>> /\ swiping = 0 /\ ~ abandoned => shown = requests

\* A request that arrived gets a row, or is settled, as long as the landlord
\* taps the button of every swipe: neither a removal's early return nor buttons
\* that are out when it arrives hide it for good.
ArrivalIsShown ==
  \A id \in Ids :
    id \in view /\ OnlyHere
      ~> id \in ToSet(shown) \/ id \notin view \/ ~ OnlyHere \/ abandoned
=============================================================================
