------------------------------ MODULE Outbound ------------------------------
(***************************************************************************)
(* Outbound calls in the telephony library: Telephony of                   *)
(* telephony/application.py over the in-memory repository and inbox, for a *)
(* carrier that reports back by callbacks. No authorization port, no runner*)
(* and no Live controller is given.                                        *)
(*                                                                         *)
(* The repository's methods never suspend, so a request is what happens    *)
(* before it waits for the carrier and what happens after. A call is named *)
(* by the request that created it.                                         *)
(*                                                                         *)
(* Abstracted: numbers, scenarios, metadata and what is emitted.           *)
(***************************************************************************)
EXTENDS Naturals, FiniteSets, CallState

CONSTANTS
  Key,               \* idempotency keys
  Report,            \* what the carrier reports of a leg
  MaxStarts,         \* bound: start_outbound_call requests
  MaxLines,          \* max_concurrent_calls
  MaxCloses          \* bound: hangup_call and cancel_call requests

ASSUME OutboundAssumption ==
  /\ Key # {}
  /\ Report \subseteq States \ {"requested", "incoming", "accepted", "dialing", "ending"}
  /\ {MaxStarts, MaxLines, MaxCloses} \subseteq Nat

VARIABLES
  start,       \* the start requests
  outbound,    \* the calls: state, and whether provider_call_id is known
  closing,     \* calls a hangup_call or cancel_call waits for the carrier of, and to what end
  seen,        \* carrier events that were claimed
  line,        \* external: the carrier's legs
  closes       \* bound: hangups and cancellations so far

outboundCalls == <<start, outbound, closing, seen, line, closes>>

StartId == 1..MaxStarts
NoCall == [state |-> "none", linked |-> FALSE]
Stored(c) == outbound[c].state # "none"
Busy == {c \in StartId : Stored(c) /\ outbound[c].state \notin TERMINAL_STATES}
Changed(c, target) == [outbound EXCEPT ![c].state = NextState(@, target)]
-----------------------------------------------------------------------------
OutboundInit ==
  /\ start = [r \in StartId |-> [at |-> "new", key |-> CHOOSE k \in Key : TRUE]]
  /\ outbound = [c \in StartId |-> NoCall]
  /\ closing = [c \in StartId |-> "none"]
  /\ seen = {}
  /\ line = [c \in StartId |-> "none"]
  /\ closes = 0

\* find_by_idempotency_key
OriginalIfActive(k) == {c \in Busy : start[c].key = k}
Original(k) == {c \in StartId : Stored(c) /\ start[c].key = k}

\* start_outbound_call up to the carrier: a key that is known returns its call, too many
\* calls are refused, and the call is created before it is dialled.
StartCall(r, k) ==
  /\ start[r].at = "new" /\ \A q \in 1..r-1 : start[q].at # "new"
  /\ IF Original(k) # {} \/ Cardinality(Busy) >= MaxLines
     THEN /\ start' = [start EXCEPT ![r] = [at |-> "returned", key |-> k]]
          /\ UNCHANGED outbound
     ELSE /\ start' = [start EXCEPT ![r] = [at |-> "dialling", key |-> k]]
          /\ outbound' = [outbound EXCEPT ![r].state = "requested"]
  /\ UNCHANGED <<closing, seen, line, closes>>

\* The carrier (external) dials, and may report before it has answered.
LineDials(c) ==
  /\ start[c].at = "dialling" /\ line[c] = "none"
  /\ line' = [line EXCEPT ![c] = "up"]
  /\ UNCHANGED <<start, outbound, closing, seen, closes>>

\* Its answer: the leg's id is saved, and the state moves unless it is ahead.
StartReturns(r) ==
  /\ start[r].at = "dialling" /\ line[r] # "none"
  /\ start' = [start EXCEPT ![r].at = "returned"]
  /\ outbound' = [outbound EXCEPT ![r] = [linked |-> TRUE,
                                          state |-> NextState(@.state, "dialing")]]
  /\ UNCHANGED <<closing, seen, line, closes>>

\* Or its refusal, or an answer that is lost.
StartFails(r) ==
  /\ start[r].at = "dialling"
  /\ start' = [start EXCEPT ![r].at = "returned"]
  /\ outbound' = Changed(r, "failed")
  /\ UNCHANGED <<closing, seen, line, closes>>

\* process_provider_event: claimed once, and lost on a leg that is not known.
CarrierReports(c, status) ==
  /\ line[c] # "none" /\ <<c, status>> \notin seen
  /\ seen' = seen \cup {<<c, status>>}
  /\ line' = [line EXCEPT ![c] = IF status \in TERMINAL_STATES THEN "down" ELSE @]
  /\ outbound' = IF outbound[c].linked /\ ~Refuses(outbound[c].state, status)
                 THEN Changed(c, status) ELSE outbound
  /\ UNCHANGED <<start, closing, closes>>

\* hangup_call ("ending") and cancel_call ("canceled"): a leg that is known is hung up first.
CloseCall(c, target) ==
  /\ Stored(c) /\ outbound[c].state \notin TERMINAL_STATES
  /\ outbound[c].state # IF target = "ending" THEN "ending" ELSE "connected"
  /\ closing[c] = "none"
  /\ closes < MaxCloses /\ closes' = closes + 1
  /\ IF outbound[c].linked
     THEN closing' = [closing EXCEPT ![c] = target] /\ UNCHANGED outbound
     ELSE outbound' = Changed(c, target) /\ UNCHANGED closing
  /\ UNCHANGED <<start, seen, line>>

\* The carrier did, or failed to, and then the call stays what it is.
CloseReturns(c) ==
  /\ closing[c] # "none"
  /\ closing' = [closing EXCEPT ![c] = "none"]
  /\ \/ /\ outbound' = Changed(c, closing[c])
        /\ line' = [line EXCEPT ![c] = "down"]
     \/ UNCHANGED <<outbound, line>>
  /\ UNCHANGED <<start, seen, closes>>
-----------------------------------------------------------------------------
OutboundNext ==
  \E c \in StartId :
    \/ \E k \in Key : StartCall(c, k)
    \/ LineDials(c) \/ StartReturns(c) \/ StartFails(c)
    \/ \E status \in Report : CarrierReports(c, status)
    \/ \E target \in {"ending", "canceled"} : CloseCall(c, target)
    \/ CloseReturns(c)

OutboundSpec == OutboundInit /\ [][OutboundNext]_outboundCalls
-----------------------------------------------------------------------------
\* Correctness.

OutboundTypeOK ==
  /\ start \in [StartId -> [at : {"new", "dialling", "returned"}, key : Key]]
  /\ outbound \in [StartId -> [state : States \cup {"none"}, linked : BOOLEAN]]
  /\ closing \in [StartId -> {"none", "ending", "canceled"}]
  /\ seen \subseteq StartId \X Report
  /\ line \in [StartId -> {"none", "up", "down"}]
  /\ closes \in 0..MaxCloses

\* "a repeat returns the original call" (telephony/README.md:42): a request that is
\* repeated, also while the carrier has not answered it or after it failed, dials nobody
\* a second time.
OneDialPerKey ==
  \A c, d \in StartId :
    c # d /\ line[c] # "none" /\ line[d] # "none" => start[c].key # start[d].key

\* "a provider callback can beat the response" (application.py:145): once the call is
\* started, the callback that said that its leg is over has ended it.
CallbackEndsCall ==
  \A c \in StartId : \A status \in TERMINAL_STATES :
    <<c, status>> \in seen /\ start[c].at = "returned" => outbound[c].state \in TERMINAL_STATES
=============================================================================
