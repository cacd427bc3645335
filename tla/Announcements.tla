---------------------------- MODULE Announcements ----------------------------
(***************************************************************************)
(* Inbound calls of the carrier in the telephony library: the voice        *)
(* webhook announces a leg and is answered with what to do with it         *)
(* (Telephony.handle_inbound_call, telephony/application.py), and status   *)
(* callbacks report on it (process_provider_event). The carrier sends a    *)
(* webhook again when it is not answered in time.                          *)
(*                                                                         *)
(* Routing (external) may take its time, reject the call or fail.          *)
(*                                                                         *)
(* Abstracted: signatures, numbers, scenarios, reasons, the answers, and   *)
(* what is emitted. Requests that hang a call up are those of Outbound.    *)
(***************************************************************************)
EXTENDS Naturals, SequencesExt, CallState

CONSTANTS
  Legs, MaxAnnouncements     \* bounds: the carrier's inbound legs, and voice webhooks

ASSUME AnnouncementsAssumption == Legs \in Nat \ {0} /\ MaxAnnouncements \in Nat

VARIABLES
  calls,       \* the repository: the inbound calls in the order of their creation
  voice,       \* the voice webhooks: where the handler is, and the call it found
  reported,    \* the status events that were claimed
  twice,       \* history variable: legs announced again while they were being routed
  unheard      \* history variable: events claimed before their leg had a call

announcedCalls == <<calls, voice, reported, twice, unheard>>

Leg == 1..Legs
Voice == 1..MaxAnnouncements
LegStatus == {"ringing", "connected", "completed"}
NoRecord == 0

\* find_by_provider_id: the oldest.
RecordsOf(leg) == {i \in DOMAIN calls : calls[i].leg = leg}
FoundByLeg(leg) == IF RecordsOf(leg) = {} THEN NoRecord ELSE Min(RecordsOf(leg))
-----------------------------------------------------------------------------
AnnouncementsInit ==
  /\ calls = <<>>
  /\ voice = [v \in Voice |-> [at |-> "new", leg |-> 1, existing |-> NoRecord]]
  /\ reported = {}
  /\ twice = {}
  /\ unheard = {}

\* The call is looked up before the handler waits for its routing.
NoneExisting(leg) == NoRecord
Existing(leg) == FoundByLeg(leg)

Announce(v, leg) ==
  /\ voice[v].at = "new" /\ \A w \in 1..v-1 : voice[w].at # "new"
  /\ voice' = [voice EXCEPT ![v] = [at |-> "routing", leg |-> leg,
                                    existing |-> Existing(leg)]]
  /\ twice' = IF \E w \in Voice : voice[w].at = "routing" /\ voice[w].leg = leg
              THEN twice \cup {leg} ELSE twice
  /\ UNCHANGED <<calls, reported, unheard>>

Responded(v) == voice' = [voice EXCEPT ![v].at = "returned"]

\* Routed: a call that was found stays as it is, another one is created and decided.
Decided(v, decision) ==
  /\ voice[v].at = "routing"
  /\ Responded(v)
  /\ calls' = IF voice[v].existing # NoRecord THEN calls
              ELSE Append(calls, [leg |-> voice[v].leg,
                                  state |-> NextState("incoming", decision)])
  /\ UNCHANGED <<reported, twice, unheard>>

DecisionFails(v) ==
  /\ voice[v].at = "routing"
  /\ Responded(v)
  /\ UNCHANGED <<calls, reported, twice, unheard>>

\* A status callback: an event is its leg and status, claimed once and never released.
LegReports(leg, status) ==
  LET i == FoundByLeg(leg)
  IN /\ \E v \in Voice : voice[v].at # "new" /\ voice[v].leg = leg
     /\ <<leg, status>> \notin reported
     /\ reported' = reported \cup {<<leg, status>>}
     /\ calls' = IF i = NoRecord \/ Refuses(calls[i].state, status) THEN calls
                 ELSE [calls EXCEPT ![i].state = NextState(@, status)]
     /\ unheard' = IF i = NoRecord THEN unheard \cup {<<leg, status>>} ELSE unheard
     /\ UNCHANGED <<voice, twice>>
-----------------------------------------------------------------------------
AnnouncementsNext ==
  \/ \E v \in Voice :
       \/ \E leg \in Leg : Announce(v, leg)
       \/ \E decision \in {"accepted", "rejected"} : Decided(v, decision)
       \/ DecisionFails(v)
  \/ \E leg \in Leg : \E status \in LegStatus : LegReports(leg, status)

AnnouncementsSpec == AnnouncementsInit /\ [][AnnouncementsNext]_announcedCalls
-----------------------------------------------------------------------------
\* Correctness.

AnnouncementsTypeOK ==
  /\ calls \in Seq([leg : Leg, state : States]) /\ Len(calls) <= MaxAnnouncements
  /\ voice \in [Voice -> [at : {"new", "routing", "returned"}, leg : Leg,
                          existing : 0..MaxAnnouncements]]
  /\ reported \subseteq Leg \X LegStatus
  /\ twice \subseteq Leg
  /\ unheard \subseteq reported

\* "Create (or find) the inbound call" (application.py:159): unless a leg is announced again
\* while it is being routed, it is one call, and unless its end was reported before it was
\* one, no call of a leg that is over stays active.
LegsAreFollowed ==
  \A leg \in Leg \ twice :
    /\ Cardinality(RecordsOf(leg)) <= 1
    /\ <<leg, "completed">> \in reported \ unheard =>
         \A i \in RecordsOf(leg) : calls[i].state \in TERMINAL_STATES
=============================================================================
