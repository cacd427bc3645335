------------------------------- MODULE Invites -------------------------------
(***************************************************************************)
(* OpenAI Live SIP invites in the telephony library: each is a webhook     *)
(* that Telephony.handle_live_incoming_call (telephony/application.py)     *)
(* answers, and that is sent again when it is not answered. An outbound    *)
(* call that is bridged to Live comes back as an invite whose header names *)
(* the call; the header may be anybody's.                                  *)
(*                                                                         *)
(* A session is named by its number, and its event by the session. Routing *)
(* and the Live controller (external) may fail.                            *)
(*                                                                         *)
(* Abstracted: numbers, scenarios, reasons and what is emitted. Claims do  *)
(* not expire. Of the requests and callbacks that move outbound calls (see *)
(* Outbound) only the moves are kept.                                      *)
(***************************************************************************)
EXTENDS Naturals, FiniteSets, CallState

CONSTANTS
  MaxDialled, Sessions, MaxDeliveries   \* bounds: outbound calls, Live sessions, webhooks

ASSUME InvitesAssumption == {MaxDialled, Sessions, MaxDeliveries} \subseteq Nat

VARIABLES
  dialled,     \* the states of the outbound calls
  delivery,    \* the webhooks: where the handler is, their session and the call it decides
  header,      \* external: the call a session's invite names
  taken,       \* the sessions whose event is claimed
  sessionOf,   \* session_id of the outbound calls
  inbound,     \* the states of the inbound calls, one for a session at most
  bridges      \* history variable: the sessions each outbound call was bridged by

inviteCalls == <<dialled, delivery, header, taken, sessionOf, inbound, bridges>>

Dialled == 1..MaxDialled
Session == 1..Sessions
Delivery == 1..MaxDeliveries
NoLiveSession == 0
NoCallId == 0
FreshDelivery == [at |-> "new", session |-> NoLiveSession, bridged |-> NoCallId]
-----------------------------------------------------------------------------
InvitesInit ==
  /\ dialled = [c \in Dialled |-> "requested"]
  /\ delivery = [d \in Delivery |-> FreshDelivery]
  /\ header \in [Session -> Dialled \cup {NoCallId}]
  /\ taken = {}
  /\ sessionOf = [c \in Dialled |-> NoLiveSession]
  /\ inbound = [s \in Session |-> "none"]
  /\ bridges = [c \in Dialled |-> {}]

\* Carrier callbacks and requests move an outbound call meanwhile.
CallMoves(c, target) ==
  /\ target \notin {"incoming", "accepted", "rejected"} /\ Advances(dialled[c], target)
  /\ dialled' = [dialled EXCEPT ![c] = target]
  /\ UNCHANGED <<delivery, header, taken, sessionOf, inbound, bridges>>

Returned(d) == delivery' = [delivery EXCEPT ![d].at = "returned"]

\* An exception releases the event for the next webhook.
Raised(d) == Returned(d) /\ taken' = taken \ {delivery[d].session}

\* A webhook; a replay finds the event claimed.
LiveInvite(d, s) ==
  /\ delivery[d].at = "new" /\ \A e \in 1..d-1 : delivery[e].at # "new"
  /\ delivery' = [delivery EXCEPT ![d].session = s,
                                  ![d].at = IF s \in taken THEN "returned" ELSE "routing"]
  /\ taken' = taken \cup {s}
  /\ UNCHANGED <<dialled, header, sessionOf, inbound, bridges>>

\* _bridged_outbound_call
BridgedByHeader(s) ==
  {c \in Dialled : c = header[s] /\ dialled[c] \notin TERMINAL_STATES}
Bridged(s) == {c \in BridgedByHeader(s) : sessionOf[c] = NoLiveSession}

\* Once routed, the session's call is the one it has, an outbound one that it bridges, or
\* a new inbound one.
Routed(d) ==
  LET s == delivery[d].session
      bridged == IF inbound[s] = "none" THEN Bridged(s) ELSE {}
  IN /\ delivery[d].at = "routing"
     /\ \E next \in {"accepting", "rejecting"}, c \in bridged \cup {NoCallId} :
          /\ c = NoCallId => bridged = {}
          /\ delivery' = [delivery EXCEPT ![d].at = next, ![d].bridged = c]
          /\ sessionOf' = [e \in Dialled |-> IF e = c THEN s ELSE sessionOf[e]]
          /\ bridges' = [e \in Dialled |-> IF e = c THEN bridges[e] \cup {s} ELSE bridges[e]]
          /\ inbound' = [inbound EXCEPT ![s] = IF c = NoCallId /\ @ = "none"
                                               THEN "incoming" ELSE @]
     /\ UNCHANGED <<dialled, header, taken>>

RoutingFails(d) ==
  /\ delivery[d].at = "routing"
  /\ Raised(d)
  /\ UNCHANGED <<dialled, header, sessionOf, inbound, bridges>>

\* _apply to the call that is decided, or its refusal.
State(d) == LET c == delivery[d].bridged
            IN IF c = NoCallId THEN inbound[delivery[d].session] ELSE dialled[c]
Applied(d, target) ==
  LET c == delivery[d].bridged
      next == NextState(State(d), target)
  IN IF c = NoCallId
     THEN inbound' = [inbound EXCEPT ![delivery[d].session] = next] /\ UNCHANGED dialled
     ELSE dialled' = [dialled EXCEPT ![c] = next] /\ UNCHANGED inbound
Beside == UNCHANGED <<header, sessionOf, bridges>>

\* Live has accepted; a call that is not dialling yet refuses to be connected.
Accepted(d) ==
  LET target == IF delivery[d].bridged = NoCallId THEN "accepted" ELSE "connected"
  IN /\ delivery[d].at = "accepting"
     /\ IF Refuses(State(d), target)
        THEN Raised(d) /\ UNCHANGED <<dialled, inbound>>
        ELSE Applied(d, target) /\ Returned(d) /\ UNCHANGED taken
     /\ Beside

\* It has not, and the call has failed; or it has rejected the session as it was told.
Closed(d) ==
  /\ \/ delivery[d].at = "accepting" /\ Applied(d, "failed")
     \/ delivery[d].at = "rejecting" /\ Applied(d, "rejected")
  /\ Returned(d) /\ UNCHANGED taken
  /\ Beside

RejectFails(d) ==
  /\ delivery[d].at = "rejecting"
  /\ Raised(d)
  /\ UNCHANGED <<dialled, inbound>> /\ Beside
-----------------------------------------------------------------------------
InvitesNext ==
  \/ \E c \in Dialled : \E target \in States : CallMoves(c, target)
  \/ \E d \in Delivery :
       \/ \E s \in Session : LiveInvite(d, s)
       \/ Routed(d) \/ RoutingFails(d) \/ Accepted(d) \/ Closed(d) \/ RejectFails(d)

InvitesSpec == InvitesInit /\ [][InvitesNext]_inviteCalls
-----------------------------------------------------------------------------
\* Correctness.

InvitesTypeOK ==
  /\ dialled \in [Dialled -> States]
  /\ delivery \in [Delivery -> [at : {"new", "routing", "accepting", "rejecting", "returned"},
                                session : Session \cup {NoLiveSession},
                                bridged : Dialled \cup {NoCallId}]]
  /\ header \in [Session -> Dialled \cup {NoCallId}]
  /\ taken \subseteq Session
  /\ sessionOf \in [Dialled -> Session \cup {NoLiveSession}]
  /\ inbound \in [Session -> States \cup {"none"}]
  /\ bridges \in [Dialled -> SUBSET Session]

\* "anything that is not our own still-dialling, not-yet-linked outbound call is treated as
\* an ordinary inbound invite instead" (application.py:305-306): whatever the headers say
\* and however often webhooks are sent, one session bridges a call.
OneSessionPerCall == \A c \in Dialled : Cardinality(bridges[c]) <= 1
=============================================================================
