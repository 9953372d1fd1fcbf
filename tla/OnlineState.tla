----------------------------- MODULE OnlineState -----------------------------
(***************************************************************************)
(* The tracker that decides whether the client counts as online.  A first  *)
(* attempt to open the watch stream starts a timer; a failed attempt or    *)
(* the timer makes the client offline, a message makes it online.          *)
(***************************************************************************)
EXTENDS Integers

MaxWatchStreamFailures == 1 \* kMaxWatchStreamFailures

OnlineStates == {"Unknown", "Online", "Offline"}

Tracker == [state    : OnlineStates,
            failures : Nat,     \* watch_stream_failures_
            timer    : BOOLEAN] \* online_state_timer_ is set

NewTracker == [state |-> "Unknown", failures |-> 0, timer |-> FALSE]

\* Wrong on purpose: the timer of the last attempt goes on.
UpdateState_KeepsTimer(t, state) == [t EXCEPT !.state = state, !.failures = 0]

\* The state is known from elsewhere: the heuristics start again.
UpdateState(t, state) == [NewTracker EXCEPT !.state = state]

\* Only the first attempt is timed.
HandleWatchStreamStart(t) ==
  IF t.failures = 0 THEN [t EXCEPT !.state = "Unknown", !.timer = TRUE] ELSE t

\* Losing a connection is not yet being offline, failing to make one is.
HandleWatchStreamFailure(t) ==
  IF t.state = "Online" THEN [t EXCEPT !.state = "Unknown"]
  ELSE IF t.failures + 1 >= MaxWatchStreamFailures
       THEN [state |-> "Offline", failures |-> t.failures + 1, timer |-> FALSE]
  ELSE [t EXCEPT !.failures = @ + 1]

TimerElapsed(t) == [t EXCEPT !.state = "Offline", !.timer = FALSE]
=============================================================================
