------------------------------ MODULE CallState ------------------------------
(***************************************************************************)
(* The state machine of a telephone call (telephony/domain.py): which      *)
(* changes are allowed, which are late and ignored, and which are refused. *)
(***************************************************************************)
EXTENDS Naturals

TERMINAL_STATES == {"completed", "canceled", "failed", "rejected"}

ALLOWED_TRANSITIONS ==
  [requested |-> {"dialing", "ringing", "canceled", "failed"},
   dialing   |-> {"ringing", "connected", "canceled", "failed", "completed"},
   incoming  |-> {"accepted", "rejected", "failed", "canceled"},
   accepted  |-> {"ringing", "connected", "failed", "completed"},
   ringing   |-> {"connected", "ending", "canceled", "failed", "completed"},
   connected |-> {"ending", "completed", "failed"},
   ending    |-> {"completed", "failed"}]

States == TERMINAL_STATES \cup DOMAIN ALLOWED_TRANSITIONS

\* _PROGRESS; a terminal state without a rank counts as the furthest.
Rank(state) ==
  CASE state = "requested" -> 0
    [] state = "incoming"  -> 1
    [] state = "dialing"   -> 2
    [] state = "accepted"  -> 3
    [] state = "ringing"   -> 4
    [] state = "connected" -> 5
    [] state = "ending"    -> 6
    [] state = "completed" -> 7
    [] OTHER               -> 99

AlwaysReachable == TERMINAL_STATES \cup {"ending"}

\* next_state returns a state for these,
Advances(current, target) ==
  /\ current # target /\ current \notin TERMINAL_STATES
  /\ target \in ALLOWED_TRANSITIONS[current] \cup AlwaysReachable

\* and raises InvalidTransition for these; all others it ignores.
Refuses(current, target) ==
  /\ current # target /\ current \notin TERMINAL_STATES
  /\ ~Advances(current, target)
  /\ Rank(target) >= Rank(current)

\* Call.apply, of a change that is not refused. A late event that is not recognized
\* would roll the call back.
NextStateLate(current, target) == target
NextState(current, target) == IF Advances(current, target) THEN target ELSE current
=============================================================================
