------------------------------ MODULE CallProofs ------------------------------
(***************************************************************************)
(* Theorems of the components of the telephony library and of the          *)
(* telephone's turns, for any number of calls, requests and callbacks:     *)
(* Outbound, Invites, Announcements, ToolCalls, CallRunner and PhoneTurn.  *)
(***************************************************************************)
EXTENDS Outbound, Invites, Announcements, ToolCalls, CallRunner, PhoneTurn,
        FiniteSetTheorems, WellFoundedInduction, NaturalsInduction, TLAPS

-----------------------------------------------------------------------------
\* The state machine of a call: what it moves to is a state, and the end is the end.
LEMMA NextStateType ==
  ASSUME NEW current \in States \cup {"none"}, NEW target \in States
  PROVE  /\ NextState(current, target) \in {current, target}
         /\ current \in States => NextState(current, target) \in States
         /\ current \in TERMINAL_STATES => NextState(current, target) = current
BY DEF NextState, Advances

LEMMA TerminalsAreStates ==
  /\ TERMINAL_STATES \subseteq States
  /\ {"requested", "dialing", "incoming", "accepted", "ringing", "connected", "ending",
      "completed", "canceled", "failed", "rejected"} = States
BY DEF TERMINAL_STATES, States, ALLOWED_TRANSITIONS

-----------------------------------------------------------------------------
\* Outbound calls. A request owns a call from the moment it dials, and a key owns one
\* such request.

OwnCall(c) ==
  /\ start[c].at = "new" => ~Stored(c)
  /\ start[c].at = "dialling" \/ line[c] # "none" \/ closing[c] # "none"
       \/ outbound[c].linked => Stored(c)
CallPerKey ==
  \A c, d \in StartId : c # d /\ Stored(c) /\ Stored(d) => start[c].key # start[d].key

OutboundInv == OutboundTypeOK /\ (\A c \in StartId : OwnCall(c)) /\ CallPerKey

LEMMA OutboundInvInit == OutboundInit => OutboundInv
<1> SUFFICES ASSUME OutboundInit PROVE OutboundInv
  OBVIOUS
<1>1. (CHOOSE k \in Key : TRUE) \in Key
  BY OutboundAssumption
<1>2. OutboundTypeOK
  BY <1>1, OutboundAssumption DEF OutboundInit, OutboundTypeOK, NoCall
<1>3. \A c \in StartId : ~Stored(c) /\ OwnCall(c)
  BY DEF OutboundInit, OwnCall, Stored, NoCall
<1>4. QED
  BY <1>2, <1>3 DEF OutboundInv, CallPerKey

\* A call that changes stays stored, and stored calls keep their keys.
LEMMA OutboundKeeps ==
  ASSUME OutboundInv, OutboundTypeOK',
         \A c \in StartId : start'[c].key = start[c].key,
         \A c \in StartId : Stored(c)' = Stored(c),
         \A c \in StartId : OwnCall(c)'
  PROVE  OutboundInv'
BY DEF OutboundInv, CallPerKey

LEMMA ChangedType ==
  ASSUME OutboundInv, NEW c \in StartId, NEW target \in States, Stored(c)
  PROVE  /\ Changed(c, target) \in [StartId -> [state : States \cup {"none"}, linked : BOOLEAN]]
         /\ Changed(c, target)[c].state \in States
         /\ \A d \in StartId : Changed(c, target)[d].linked = outbound[d].linked
         /\ \A d \in StartId \ {c} : Changed(c, target)[d] = outbound[d]
<1>1. outbound \in [StartId -> [state : States \cup {"none"}, linked : BOOLEAN]]
  BY DEF OutboundInv, OutboundTypeOK
<1>2. outbound[c].state \in States
  BY <1>1 DEF Stored
<1>3. NextState(outbound[c].state, target) \in States
  BY <1>2, NextStateType
<1> DEFINE next == NextState(outbound[c].state, target)
           q == [outbound[c] EXCEPT !.state = next]
<1>4. next \in States
  BY <1>3
<1>5. Changed(c, target) = [outbound EXCEPT ![c].state = next]
  BY DEF Changed
<1> HIDE DEF next
<1>6. q \in [state : States \cup {"none"}, linked : BOOLEAN]
      /\ q.state = next /\ q.linked = outbound[c].linked
  BY <1>1, <1>4
<1>7. Changed(c, target) = [outbound EXCEPT ![c] = q]
  BY <1>1, <1>5
<1> HIDE DEF q
<1>8. QED
  BY <1>1, <1>4, <1>6, <1>7

LEMMA OutboundInvStep == OutboundInv /\ [OutboundNext]_outboundCalls => OutboundInv'
<1> SUFFICES ASSUME OutboundInv, [OutboundNext]_outboundCalls PROVE OutboundInv'
  OBVIOUS
<1> DEFINE StartType == [at : {"new", "dialling", "returned"}, key : Key]
           CallType == [state : States \cup {"none"}, linked : BOOLEAN]
<1>1. /\ start \in [StartId -> StartType]
      /\ outbound \in [StartId -> CallType]
      /\ closing \in [StartId -> {"none", "ending", "canceled"}]
      /\ seen \subseteq StartId \X Report
      /\ line \in [StartId -> {"none", "up", "down"}]
      /\ closes \in 0..MaxCloses
  BY DEF OutboundInv, OutboundTypeOK
<1>2. \A c \in StartId : OwnCall(c)
  BY DEF OutboundInv
<1>3. "none" \notin States
  BY TerminalsAreStates
<1>4. ASSUME NEW c \in StartId, NEW k \in Key, StartCall(c, k) PROVE OutboundInv'
  <2>1. UNCHANGED <<closing, seen, line, closes>> /\ start[c].at = "new" /\ ~Stored(c)
    BY <1>2, <1>4 DEF StartCall, OwnCall
  <2>2. CASE Original(k) # {} \/ Cardinality(Busy) >= MaxLines
    <3>1. start' = [start EXCEPT ![c] = [at |-> "returned", key |-> k]] /\ UNCHANGED outbound
      BY <1>4, <2>2 DEF StartCall
    <3>2. OutboundTypeOK'
      BY <1>1, <2>1, <3>1 DEF OutboundTypeOK
    <3>3. \A d \in StartId : OwnCall(d)'
      BY <1>1, <1>2, <2>1, <3>1 DEF OwnCall, Stored
    <3>4. CallPerKey'
      BY <1>1, <2>1, <3>1 DEF OutboundInv, CallPerKey, Stored
    <3>5. QED
      BY <3>2, <3>3, <3>4 DEF OutboundInv
  <2>3. CASE ~(Original(k) # {} \/ Cardinality(Busy) >= MaxLines)
    <3> DEFINE q == [outbound[c] EXCEPT !.state = "requested"]
    <3>1. start' = [start EXCEPT ![c] = [at |-> "dialling", key |-> k]]
          /\ outbound' = [outbound EXCEPT ![c].state = "requested"]
      BY <1>4, <2>3 DEF StartCall
    <3>2. q \in CallType /\ q.state = "requested" /\ q.linked = outbound[c].linked
      BY <1>1, TerminalsAreStates
    <3>3. outbound' = [outbound EXCEPT ![c] = q]
      BY <1>1, <3>1
    <3> HIDE DEF q
    <3>4. OutboundTypeOK'
      BY <1>1, <2>1, <3>1, <3>2, <3>3 DEF OutboundTypeOK
    <3>5. \A d \in StartId \ {c} : Stored(d)' = Stored(d) /\ start'[d] = start[d]
      BY <1>1, <3>1, <3>3 DEF Stored
    <3>6. Stored(c)' /\ start'[c].key = k /\ start'[c].at = "dialling"
      BY <1>1, <3>1, <3>2, <3>3 DEF Stored
    <3>7. \A d \in StartId : OwnCall(d)'
      BY <1>1, <1>2, <2>1, <3>2, <3>3, <3>5, <3>6 DEF OwnCall
    <3>8. \A d \in StartId : Stored(d) => start[d].key # k
      BY <2>3 DEF Original
    <3>9. CallPerKey'
      BY <3>5, <3>6, <3>8 DEF OutboundInv, CallPerKey
    <3>10. QED
      BY <3>4, <3>7, <3>9 DEF OutboundInv
  <2>4. QED
    BY <2>2, <2>3
<1>5. ASSUME NEW c \in StartId, LineDials(c) PROVE OutboundInv'
  <2>1. UNCHANGED <<start, outbound, closing, seen, closes>> /\ start[c].at = "dialling"
        /\ line' = [line EXCEPT ![c] = "up"]
    BY <1>5 DEF LineDials
  <2>2. OutboundTypeOK'
    BY <1>1, <2>1 DEF OutboundTypeOK
  <2>3. \A d \in StartId : OwnCall(d)'
    BY <1>1, <1>2, <2>1 DEF OwnCall, Stored
  <2>4. QED
    BY <2>1, <2>2, <2>3, OutboundKeeps DEF Stored
<1>6. ASSUME NEW c \in StartId, StartReturns(c) \/ StartFails(c) PROVE OutboundInv'
  <2> DEFINE q == [start[c] EXCEPT !.at = "returned"]
  <2>1. UNCHANGED <<closing, seen, line, closes>> /\ start[c].at = "dialling"
        /\ start' = [start EXCEPT ![c].at = "returned"]
    BY <1>6 DEF StartReturns, StartFails
  <2>2. q \in StartType /\ q.at = "returned" /\ q.key = start[c].key
    BY <1>1
  <2>3. start' = [start EXCEPT ![c] = q]
    BY <1>1, <2>1
  <2> HIDE DEF q
  <2>4. Stored(c) /\ outbound[c].state \in States
    BY <1>1, <1>2, <2>1 DEF OwnCall, Stored
  <2>5. /\ outbound' \in [StartId -> CallType]
        /\ outbound'[c].state \in States
        /\ \A d \in StartId \ {c} : outbound'[d] = outbound[d]
    <3>1. CASE StartReturns(c)
      <4> DEFINE next == NextState(outbound[c].state, "dialing")
      <4>1. next \in States
        BY <2>4, NextStateType, TerminalsAreStates
      <4>2. outbound' = [outbound EXCEPT ![c] = [linked |-> TRUE, state |-> next]]
        BY <3>1 DEF StartReturns
      <4> HIDE DEF next
      <4>3. QED
        BY <1>1, <4>1, <4>2
    <3>2. CASE StartFails(c)
      <4>1. outbound' = Changed(c, "failed") /\ "failed" \in States
        BY <3>2, TerminalsAreStates DEF StartFails
      <4>2. QED
        BY <2>4, <4>1, ChangedType
    <3>3. QED
      BY <1>6, <3>1, <3>2
  <2>6. OutboundTypeOK'
    <3>1. start' \in [StartId -> StartType]
      BY <1>1, <2>2, <2>3
    <3>2. QED
      BY <1>1, <2>1, <2>5, <3>1 DEF OutboundTypeOK
  <2>7. \A d \in StartId : Stored(d)' = Stored(d)
    BY <1>3, <2>4, <2>5 DEF Stored
  <2>8. \A d \in StartId : start'[d].key = start[d].key
        /\ (start'[d].at = "new" <=> start[d].at = "new")
        /\ (start'[d].at = "dialling" => start[d].at = "dialling")
    BY <1>1, <2>1, <2>2, <2>3
  <2>9. \A d \in StartId : OwnCall(d)'
    BY <1>2, <2>1, <2>4, <2>5, <2>7, <2>8 DEF OwnCall
  <2>10. QED
    BY <2>6, <2>7, <2>8, <2>9, OutboundKeeps
<1>7. ASSUME NEW c \in StartId, NEW status \in Report, CarrierReports(c, status)
      PROVE  OutboundInv'
  <2>1. /\ line[c] # "none" /\ UNCHANGED <<start, closing, closes>>
        /\ seen' = seen \cup {<<c, status>>}
        /\ line' = [line EXCEPT ![c] = IF status \in TERMINAL_STATES THEN "down" ELSE @]
        /\ outbound' = outbound \/ outbound' = Changed(c, status)
    BY <1>7 DEF CarrierReports
  <2>2. status \in States /\ Stored(c)
    BY <1>2, <2>1, OutboundAssumption DEF OwnCall
  <2>3. /\ outbound' \in [StartId -> CallType]
        /\ \A d \in StartId : (Stored(d)' = Stored(d)) /\ outbound'[d].linked = outbound[d].linked
    BY <1>1, <1>3, <2>1, <2>2, ChangedType DEF Stored
  <2>4. line' \in [StartId -> {"none", "up", "down"}]
        /\ \A d \in StartId : line'[d] # "none" => line[d] # "none"
    BY <1>1, <2>1
  <2>5. OutboundTypeOK'
    BY <1>1, <2>1, <2>3, <2>4 DEF OutboundTypeOK
  <2>6. \A d \in StartId : OwnCall(d)'
    BY <1>2, <2>1, <2>3, <2>4 DEF OwnCall
  <2>7. QED
    BY <2>1, <2>3, <2>5, <2>6, OutboundKeeps
<1>8. ASSUME NEW c \in StartId, NEW target \in {"ending", "canceled"}, CloseCall(c, target)
      PROVE  OutboundInv'
  <2>1. /\ Stored(c) /\ UNCHANGED <<start, seen, line>>
        /\ closes' \in 0..MaxCloses
        /\ outbound' = outbound \/ outbound' = Changed(c, target)
        /\ closing' = closing \/ closing' = [closing EXCEPT ![c] = target]
    BY <1>1, <1>8, OutboundAssumption DEF CloseCall
  <2>2. target \in States
    BY TerminalsAreStates
  <2>3. /\ outbound' \in [StartId -> CallType]
        /\ \A d \in StartId : (Stored(d)' = Stored(d)) /\ outbound'[d].linked = outbound[d].linked
    <3>1. CASE outbound' = outbound
      BY <1>1, <3>1 DEF Stored
    <3>2. CASE outbound' = Changed(c, target)
      BY <1>1, <1>3, <2>1, <2>2, <3>2, ChangedType DEF Stored
    <3>3. QED
      BY <2>1, <3>1, <3>2
  <2>4. closing' \in [StartId -> {"none", "ending", "canceled"}]
        /\ \A d \in StartId \ {c} : closing'[d] = closing[d]
    BY <1>1, <2>1
  <2>5. OutboundTypeOK'
    BY <1>1, <2>1, <2>3, <2>4 DEF OutboundTypeOK
  <2>6. \A d \in StartId : OwnCall(d)'
    BY <1>2, <2>1, <2>3, <2>4 DEF OwnCall
  <2>7. QED
    BY <2>1, <2>3, <2>5, <2>6, OutboundKeeps
<1>9. ASSUME NEW c \in StartId, CloseReturns(c) PROVE OutboundInv'
  <2>1. /\ closing[c] # "none" /\ closing' = [closing EXCEPT ![c] = "none"]
        /\ UNCHANGED <<start, seen, closes>>
        /\ \/ outbound' = Changed(c, closing[c]) /\ line' = [line EXCEPT ![c] = "down"]
           \/ UNCHANGED <<outbound, line>>
    BY <1>9 DEF CloseReturns
  <2>2. Stored(c) /\ closing[c] \in States
    BY <1>1, <1>2, <2>1, TerminalsAreStates DEF OwnCall
  <2>3. /\ outbound' \in [StartId -> CallType]
        /\ \A d \in StartId : (Stored(d)' = Stored(d)) /\ outbound'[d].linked = outbound[d].linked
    BY <1>1, <1>3, <2>1, <2>2, ChangedType DEF Stored
  <2>4. closing' \in [StartId -> {"none", "ending", "canceled"}]
        /\ line' \in [StartId -> {"none", "up", "down"}]
        /\ \A d \in StartId \ {c} : closing'[d] = closing[d] /\ line'[d] = line[d]
    BY <1>1, <2>1
  <2>5. OutboundTypeOK'
    BY <1>1, <2>1, <2>3, <2>4 DEF OutboundTypeOK
  <2>6. \A d \in StartId : OwnCall(d)'
    BY <1>2, <2>1, <2>2, <2>3, <2>4 DEF OwnCall
  <2>7. QED
    BY <2>1, <2>3, <2>5, <2>6, OutboundKeeps
<1>10. CASE UNCHANGED outboundCalls
  BY <1>10 DEF outboundCalls, OutboundInv, OutboundTypeOK, OwnCall, CallPerKey, Stored
<1>11. QED
  BY <1>4, <1>5, <1>6, <1>7, <1>8, <1>9, <1>10 DEF OutboundNext

LEMMA OutboundInvariant == OutboundSpec => []OutboundInv
BY OutboundInvInit, OutboundInvStep, PTL DEF OutboundSpec

\* A key dials once, however often its request is sent and whatever became of the call.
THEOREM OutboundDialsOnce == OutboundSpec => [](OutboundTypeOK /\ OneDialPerKey)
<1>1. OutboundInv => OutboundTypeOK /\ OneDialPerKey
  BY DEF OutboundInv, OneDialPerKey, CallPerKey, OwnCall
<1>2. QED
  BY <1>1, OutboundInvariant, PTL

-----------------------------------------------------------------------------
\* Live invites. The session that a call was bridged by is the one it is linked to.

BridgedByItsOwn == \A c \in Dialled : bridges[c] = {sessionOf[c]} \ {NoLiveSession}
HasSession(d) ==
  delivery[d].at \in {"routing", "accepting", "rejecting"} => delivery[d].session \in Session

InvitesInv == InvitesTypeOK /\ (\A d \in Delivery : HasSession(d)) /\ BridgedByItsOwn

DeliveryType ==
  [at : {"new", "routing", "accepting", "rejecting", "returned"},
   session : Session \cup {NoLiveSession}, bridged : Dialled \cup {NoCallId}]

LEMMA InvitesInvInit == InvitesInit => InvitesInv
<1> SUFFICES ASSUME InvitesInit PROVE InvitesInv
  OBVIOUS
<1>1. InvitesTypeOK
  BY TerminalsAreStates DEF InvitesInit, InvitesTypeOK, FreshDelivery
<1>2. \A d \in Delivery : HasSession(d)
  BY DEF InvitesInit, HasSession, FreshDelivery
<1>3. QED
  BY <1>1, <1>2 DEF InvitesInv, InvitesInit, BridgedByItsOwn

\* A handler that goes on, and nothing else of the webhooks.
LEMMA DeliveryGoes ==
  ASSUME InvitesInv, NEW d \in Delivery, NEW at \in {"returned", "accepting", "rejecting"},
         delivery' = [delivery EXCEPT ![d].at = at],
         at # "returned" => delivery[d].session \in Session
  PROVE  /\ delivery' \in [Delivery -> DeliveryType]
         /\ \A e \in Delivery : HasSession(e)'
<1>1. delivery \in [Delivery -> DeliveryType] /\ \A e \in Delivery : HasSession(e)
  BY DEF InvitesInv, InvitesTypeOK, DeliveryType
<1> DEFINE q == [delivery[d] EXCEPT !.at = at]
<1>2. q \in DeliveryType /\ q.at = at /\ q.session = delivery[d].session
  BY <1>1 DEF DeliveryType
<1>3. delivery' = [delivery EXCEPT ![d] = q]
  BY <1>1
<1> HIDE DEF q
<1>4. QED
  BY <1>1, <1>2, <1>3 DEF HasSession

\* What is applied to the call that was decided.
LEMMA AppliedType ==
  ASSUME InvitesInv, NEW d \in Delivery, NEW target \in States, Applied(d, target)
  PROVE  /\ dialled' \in [Dialled -> States]
         /\ inbound' \in [Session -> States \cup {"none"}]
<1> DEFINE c == delivery[d].bridged
           s == delivery[d].session
           next == NextState(State(d), target)
<1>1. /\ dialled \in [Dialled -> States] /\ inbound \in [Session -> States \cup {"none"}]
      /\ delivery \in [Delivery -> DeliveryType]
  BY DEF InvitesInv, InvitesTypeOK, DeliveryType
<1>2. CASE c = NoCallId
  <2>1. inbound' = [inbound EXCEPT ![s] = next] /\ UNCHANGED dialled
    BY <1>2 DEF Applied
  <2>2. s \in Session => State(d) = inbound[s]
    BY <1>2 DEF State
  <2>3. s \in Session => next \in States \cup {"none"}
    BY <1>1, <2>2, NextStateType
  <2> HIDE DEF next
  <2>4. QED
    BY <1>1, <2>1, <2>3
<1>3. CASE c # NoCallId
  <2>1. dialled' = [dialled EXCEPT ![c] = next] /\ UNCHANGED inbound
    BY <1>3 DEF Applied
  <2>2. c \in Dialled /\ State(d) = dialled[c]
    BY <1>1, <1>3 DEF State, DeliveryType
  <2>3. next \in States
    BY <1>1, <2>2, NextStateType
  <2> HIDE DEF next
  <2>4. QED
    BY <1>1, <2>1, <2>2, <2>3
<1>4. QED
  BY <1>2, <1>3

LEMMA InvitesInvStep == InvitesInv /\ [InvitesNext]_inviteCalls => InvitesInv'
<1> SUFFICES ASSUME InvitesInv, [InvitesNext]_inviteCalls PROVE InvitesInv'
  OBVIOUS
<1>1. /\ dialled \in [Dialled -> States]
      /\ delivery \in [Delivery -> DeliveryType]
      /\ header \in [Session -> Dialled \cup {NoCallId}]
      /\ taken \subseteq Session
      /\ sessionOf \in [Dialled -> Session \cup {NoLiveSession}]
      /\ inbound \in [Session -> States \cup {"none"}]
      /\ bridges \in [Dialled -> SUBSET Session]
  BY DEF InvitesInv, InvitesTypeOK, DeliveryType
<1>2. (\A d \in Delivery : HasSession(d)) /\ BridgedByItsOwn
  BY DEF InvitesInv
<1> DEFINE Sound == /\ dialled' \in [Dialled -> States]
                    /\ delivery' \in [Delivery -> DeliveryType]
                    /\ taken' \subseteq Session
                    /\ inbound' \in [Session -> States \cup {"none"}]
                    /\ \A d \in Delivery : HasSession(d)'
<1>3. ASSUME Sound, UNCHANGED header, UNCHANGED sessionOf, UNCHANGED bridges
      PROVE  InvitesInv'
  BY <1>1, <1>2, <1>3 DEF InvitesInv, InvitesTypeOK, BridgedByItsOwn, DeliveryType
<1>4. ASSUME NEW c \in Dialled, NEW target \in States, CallMoves(c, target)
      PROVE  InvitesInv'
  <2>1. dialled' = [dialled EXCEPT ![c] = target] /\ UNCHANGED delivery /\ UNCHANGED header
        /\ UNCHANGED taken /\ UNCHANGED sessionOf /\ UNCHANGED inbound /\ UNCHANGED bridges
    BY <1>4 DEF CallMoves
  <2>2. Sound
    BY <1>1, <1>2, <2>1 DEF HasSession
  <2>3. QED
    BY <1>3, <2>1, <2>2
<1>5. ASSUME NEW d \in Delivery, NEW s \in Session, LiveInvite(d, s) PROVE InvitesInv'
  <2> DEFINE at == IF s \in taken THEN "returned" ELSE "routing"
             q == [delivery[d] EXCEPT !.session = s, !.at = at]
  <2>1. /\ delivery' = [delivery EXCEPT ![d].session = s, ![d].at = at]
        /\ taken' = taken \cup {s}
        /\ UNCHANGED dialled /\ UNCHANGED header /\ UNCHANGED sessionOf
        /\ UNCHANGED inbound /\ UNCHANGED bridges
    BY <1>5 DEF LiveInvite
  <2>2. at \in {"returned", "routing"}
    OBVIOUS
  <2> HIDE DEF at
  <2>3. q \in DeliveryType /\ q.session = s
    BY <1>1, <2>2 DEF DeliveryType
  <2>4. delivery' = [delivery EXCEPT ![d] = q]
    BY <1>1, <2>1
  <2> HIDE DEF q
  <2>5. Sound
    BY <1>1, <1>2, <2>1, <2>3, <2>4 DEF HasSession
  <2>6. QED
    BY <1>3, <2>1, <2>5
<1>6. ASSUME NEW d \in Delivery, Routed(d) PROVE InvitesInv'
  <2> DEFINE s == delivery[d].session
             bridged == IF inbound[s] = "none" THEN Bridged(s) ELSE {}
  <2>1. PICK next \in {"accepting", "rejecting"}, c \in bridged \cup {NoCallId} :
          /\ delivery' = [delivery EXCEPT ![d].at = next, ![d].bridged = c]
          /\ sessionOf' = [e \in Dialled |-> IF e = c THEN s ELSE sessionOf[e]]
          /\ bridges' = [e \in Dialled |-> IF e = c THEN bridges[e] \cup {s} ELSE bridges[e]]
          /\ inbound' = [inbound EXCEPT ![s] = IF c = NoCallId /\ @ = "none"
                                               THEN "incoming" ELSE @]
    BY <1>6 DEF Routed
  <2>2. delivery[d].at = "routing" /\ UNCHANGED dialled /\ UNCHANGED header /\ UNCHANGED taken
    BY <1>6 DEF Routed
  <2>3. s \in Session /\ s # NoLiveSession
    BY <1>1, <1>2, <2>2 DEF HasSession, Session, NoLiveSession
  <2>4. c # NoCallId => c \in Dialled /\ sessionOf[c] = NoLiveSession
    BY <2>1 DEF Bridged, BridgedByHeader
  <2>5. c \in Dialled => c # NoCallId
    BY InvitesAssumption DEF Dialled, NoCallId
  <2> DEFINE q == [delivery[d] EXCEPT !.at = next, !.bridged = c]
  <2> HIDE DEF s, bridged
  <2>6. q \in DeliveryType /\ q.session = s
    BY <1>1, <2>1, <2>4, ZenonT(60) DEF DeliveryType, s
  <2>7. delivery' = [delivery EXCEPT ![d] = q]
    BY <1>1, <2>1
  <2> HIDE DEF q
  <2>8. \A e \in Delivery : HasSession(e)'
    BY <1>1, <1>2, <2>3, <2>6, <2>7 DEF HasSession
  <2>9. inbound' \in [Session -> States \cup {"none"}]
    BY <1>1, <2>1, TerminalsAreStates
  <2>10. sessionOf' \in [Dialled -> Session \cup {NoLiveSession}]
         /\ bridges' \in [Dialled -> SUBSET Session]
    BY <1>1, <2>1, <2>3
  <2>11. BridgedByItsOwn'
    <3> SUFFICES ASSUME NEW e \in Dialled
                 PROVE  bridges'[e] = {sessionOf'[e]} \ {NoLiveSession}
      BY DEF BridgedByItsOwn
    <3>1. bridges[e] = {sessionOf[e]} \ {NoLiveSession}
      BY <1>2 DEF BridgedByItsOwn
    <3>2. CASE e = c
      BY <2>1, <2>3, <2>4, <2>5, <3>1, <3>2
    <3>3. CASE e # c
      BY <2>1, <3>1, <3>3
    <3>4. QED
      BY <3>2, <3>3
  <2>12. InvitesTypeOK'
    <3>1. delivery' \in [Delivery -> DeliveryType]
      BY <1>1, <2>6, <2>7
    <3>2. QED
      BY <1>1, <2>2, <2>9, <2>10, <3>1 DEF InvitesTypeOK, DeliveryType
  <2>13. QED
    BY <2>8, <2>11, <2>12 DEF InvitesInv
<1>7. ASSUME NEW d \in Delivery,
             RoutingFails(d) \/ Accepted(d) \/ Closed(d) \/ RejectFails(d)
      PROVE  InvitesInv'
  <2>1. /\ delivery' = [delivery EXCEPT ![d].at = "returned"]
        /\ UNCHANGED header /\ UNCHANGED sessionOf /\ UNCHANGED bridges
        /\ taken' \subseteq taken
    BY <1>7 DEF RoutingFails, Accepted, Closed, RejectFails, Raised, Returned, Beside
  <2>2. \/ UNCHANGED <<dialled, inbound>>
        \/ \E target \in {"accepted", "connected", "failed", "rejected"} : Applied(d, target)
    BY <1>7 DEF RoutingFails, Accepted, Closed, RejectFails
  <2>3. dialled' \in [Dialled -> States] /\ inbound' \in [Session -> States \cup {"none"}]
    BY <1>1, <2>2, AppliedType, TerminalsAreStates
  <2>4. Sound
    BY <1>1, <2>1, <2>3, DeliveryGoes
  <2>5. QED
    BY <1>3, <2>1, <2>4
<1>8. CASE UNCHANGED inviteCalls
  BY <1>8 DEF inviteCalls, InvitesInv, InvitesTypeOK, HasSession, BridgedByItsOwn
<1>9. QED
  BY <1>4, <1>5, <1>6, <1>7, <1>8 DEF InvitesNext

LEMMA InvitesInvariant == InvitesSpec => []InvitesInv
BY InvitesInvInit, InvitesInvStep, PTL DEF InvitesSpec

\* One session bridges a call, whatever headers say and however often webhooks are sent.
THEOREM InvitesBridgeOnce == InvitesSpec => [](InvitesTypeOK /\ OneSessionPerCall)
<1>1. InvitesInv => InvitesTypeOK /\ OneSessionPerCall
  <2> SUFFICES ASSUME InvitesInv, NEW c \in Dialled PROVE Cardinality(bridges[c]) <= 1
    BY DEF InvitesInv, OneSessionPerCall
  <2>1. bridges[c] = {} \/ bridges[c] = {sessionOf[c]}
    BY DEF InvitesInv, BridgedByItsOwn
  <2>2. Cardinality({}) = 0 /\ Cardinality({sessionOf[c]}) = 1
    BY FS_EmptySet, FS_Singleton
  <2>3. QED
    BY <2>1, <2>2
<1>2. QED
  BY <1>1, InvitesInvariant, PTL

-----------------------------------------------------------------------------
\* Announced legs. Unless a leg is announced while it is being routed, one handler routes
\* it at a time, and one that found no call is before there is one. An end that was
\* reported and heard has ended the leg's call.

AnsweredVoices == {v \in Voice : voice[v].at = "returned"}
Routes(v, n) == voice[v].at = "routing" /\ voice[v].leg = n
HeardEnd(n) == <<n, "completed">> \in reported \ unheard

LegFollowed(n) ==
  /\ \A i, j \in RecordsOf(n) : i = j
  /\ \A v, w \in Voice : Routes(v, n) /\ Routes(w, n) => v = w
  /\ \A v \in Voice : Routes(v, n) /\ voice[v].existing = NoRecord => RecordsOf(n) = {}
  /\ HeardEnd(n) => \A i \in RecordsOf(n) : calls[i].state \in TERMINAL_STATES

AnnouncementsInv ==
  /\ AnnouncementsTypeOK
  /\ Len(calls) <= Cardinality(AnsweredVoices)
  /\ \A n \in Leg : RecordsOf(n) = {} => ~HeardEnd(n)
  /\ \A n \in Leg \ twice : LegFollowed(n)

VoiceType == [at : {"new", "routing", "returned"}, leg : Leg, existing : 0..MaxAnnouncements]
RecordType == [leg : Leg, state : States]

LEMMA AnnouncementsInvInit == AnnouncementsInit => AnnouncementsInv
<1> SUFFICES ASSUME AnnouncementsInit PROVE AnnouncementsInv
  OBVIOUS
<1>1. calls = <<>> /\ voice = [v \in Voice |-> [at |-> "new", leg |-> 1, existing |-> NoRecord]]
      /\ reported = {} /\ twice = {} /\ unheard = {}
  BY DEF AnnouncementsInit
<1>2. 1 \in Leg /\ NoRecord \in 0..MaxAnnouncements
  BY AnnouncementsAssumption DEF Leg, NoRecord
<1>3. calls \in Seq([leg : Leg, state : States]) /\ Len(calls) = 0 /\ DOMAIN calls = {}
  BY <1>1
<1>4. AnnouncementsTypeOK
  BY <1>1, <1>2, <1>3, AnnouncementsAssumption DEF AnnouncementsTypeOK
<1>5. AnsweredVoices = {} /\ Cardinality({}) = 0
  BY <1>1, FS_EmptySet DEF AnsweredVoices
<1>6. \A n \in Leg : RecordsOf(n) = {} /\ ~HeardEnd(n) /\ LegFollowed(n)
  BY <1>1, <1>3 DEF RecordsOf, HeardEnd, LegFollowed, Routes
<1>7. QED
  BY <1>3, <1>4, <1>5, <1>6 DEF AnnouncementsInv

\* The oldest call of a leg that has one.
LEMMA FoundIsRecord ==
  ASSUME calls \in Seq(RecordType), NEW n \in Leg, RecordsOf(n) # {}
  PROVE  FoundByLeg(n) \in RecordsOf(n)
<1> DEFINE Less == OpToRel(<, Nat)
<1>1. \A x, y \in Nat : x < y => <<x, y>> \in Less
  BY DEF OpToRel
<1>2. IsWellFoundedOn(Less, Nat)
  BY NatLessThanWellFounded
<1> HIDE DEF Less
<1>3. RecordsOf(n) \in SUBSET Nat
  BY DEF RecordsOf
<1>4. PICK x \in RecordsOf(n) : \A y \in RecordsOf(n) : <<y, x>> \notin Less
  BY <1>2, <1>3, WFMin
<1>5. \A y \in RecordsOf(n) : x <= y
  <2> SUFFICES ASSUME NEW y \in RecordsOf(n) PROVE x <= y
    OBVIOUS
  <2>1. x \in Nat /\ y \in Nat /\ ~(y < x)
    BY <1>1, <1>3, <1>4
  <2>2. QED
    BY <2>1
<1>6. Min(RecordsOf(n)) \in RecordsOf(n)
  BY <1>5 DEF Min
<1>7. QED
  BY <1>6 DEF FoundByLeg

LEMMA FoundType ==
  ASSUME AnnouncementsInv, NEW n \in Leg
  PROVE  /\ FoundByLeg(n) \in 0..MaxAnnouncements
         /\ FoundByLeg(n) = NoRecord <=> RecordsOf(n) = {}
<1>1. calls \in Seq(RecordType) /\ Len(calls) <= MaxAnnouncements
  BY DEF AnnouncementsInv, AnnouncementsTypeOK, RecordType
<1>2. RecordsOf(n) \subseteq 1..MaxAnnouncements
  BY <1>1, AnnouncementsAssumption DEF RecordsOf
<1>3. CASE RecordsOf(n) = {}
  BY <1>3, AnnouncementsAssumption DEF FoundByLeg, NoRecord
<1>4. CASE RecordsOf(n) # {}
  BY <1>1, <1>2, <1>4, FoundIsRecord, AnnouncementsAssumption DEF NoRecord
<1>5. QED
  BY <1>3, <1>4

LEMMA VoicesCount ==
  ASSUME NEW S \in SUBSET Voice
  PROVE  IsFiniteSet(S) /\ Cardinality(S) \in Nat /\ Cardinality(S) <= MaxAnnouncements
<1>1. IsFiniteSet(Voice) /\ Cardinality(Voice) = MaxAnnouncements
  BY AnnouncementsAssumption, FS_Interval DEF Voice
<1>2. IsFiniteSet(S) /\ Cardinality(S) <= MaxAnnouncements
  BY <1>1, FS_Subset
<1>3. QED
  BY <1>2, FS_CardinalityType

\* A webhook that is answered.
LEMMA RespondedCount ==
  ASSUME AnnouncementsInv, NEW v \in Voice, voice[v].at = "routing", Responded(v)
  PROVE  /\ voice' \in [Voice -> VoiceType]
         /\ voice'[v].at = "returned"
         /\ \A w \in Voice \ {v} : voice'[w] = voice[w]
         /\ Cardinality(AnsweredVoices') = Cardinality(AnsweredVoices) + 1
         /\ Cardinality(AnsweredVoices) \in Nat
         /\ Cardinality(AnsweredVoices') <= MaxAnnouncements
<1>1. voice \in [Voice -> VoiceType]
  BY DEF AnnouncementsInv, AnnouncementsTypeOK, VoiceType
<1> DEFINE q == [voice[v] EXCEPT !.at = "returned"]
<1>2. q \in VoiceType /\ q.at = "returned"
  BY <1>1 DEF VoiceType
<1>3. voice' = [voice EXCEPT ![v] = q]
  BY <1>1 DEF Responded
<1> HIDE DEF q
<1>4. /\ voice' \in [Voice -> VoiceType] /\ voice'[v].at = "returned"
      /\ \A w \in Voice \ {v} : voice'[w] = voice[w]
  BY <1>1, <1>2, <1>3
<1>5. v \notin AnsweredVoices /\ AnsweredVoices' = AnsweredVoices \cup {v}
  BY <1>4 DEF AnsweredVoices
<1>6. AnsweredVoices' \in SUBSET Voice /\ AnsweredVoices \in SUBSET Voice
  BY DEF AnsweredVoices
<1>7. /\ IsFiniteSet(AnsweredVoices) /\ Cardinality(AnsweredVoices) \in Nat
      /\ Cardinality(AnsweredVoices') <= MaxAnnouncements
  BY <1>6, VoicesCount
<1>8. Cardinality(AnsweredVoices') = Cardinality(AnsweredVoices) + 1
  BY <1>5, <1>7, FS_AddElement
<1>9. QED
  BY <1>4, <1>7, <1>8

LEMMA CompletedEnds ==
  ASSUME NEW current \in States
  PROVE  /\ ~Refuses(current, "completed")
         /\ NextState(current, "completed") \in TERMINAL_STATES
BY DEF Refuses, NextState, Advances, AlwaysReachable, TERMINAL_STATES

LEMMA AnnounceKeeps ==
  ASSUME AnnouncementsInv, NEW v \in Voice, NEW n \in Leg, Announce(v, n)
  PROVE  AnnouncementsInv'
<1>1. voice \in [Voice -> VoiceType] /\ voice[v].at = "new"
  BY DEF Announce, AnnouncementsInv, AnnouncementsTypeOK, VoiceType
<1>2. /\ voice' = [voice EXCEPT ![v] = [at |-> "routing", leg |-> n,
                                        existing |-> FoundByLeg(n)]]
      /\ twice' = IF \E w \in Voice : voice[w].at = "routing" /\ voice[w].leg = n
                  THEN twice \cup {n} ELSE twice
      /\ UNCHANGED calls /\ UNCHANGED reported /\ UNCHANGED unheard
  BY DEF Announce, Existing
<1>3. /\ FoundByLeg(n) \in 0..MaxAnnouncements
      /\ FoundByLeg(n) = NoRecord <=> RecordsOf(n) = {}
  BY FoundType
<1>4. /\ voice' \in [Voice -> VoiceType]
      /\ voice'[v].at = "routing" /\ voice'[v].leg = n /\ voice'[v].existing = FoundByLeg(n)
      /\ \A w \in Voice \ {v} : voice'[w] = voice[w]
  BY <1>1, <1>2, <1>3 DEF VoiceType
<1>5. AnsweredVoices' = AnsweredVoices
  BY <1>1, <1>4 DEF AnsweredVoices
<1>6. \A m \in Leg : RecordsOf(m)' = RecordsOf(m) /\ HeardEnd(m)' = HeardEnd(m)
  BY <1>2 DEF RecordsOf, HeardEnd
<1>7. AnnouncementsTypeOK'
  BY <1>2, <1>4 DEF AnnouncementsInv, AnnouncementsTypeOK, VoiceType
<1>8. ASSUME NEW m \in Leg \ twice' PROVE LegFollowed(m)'
  <2>1. m \notin twice
    BY <1>2
  <2>2. LegFollowed(m)
    BY <2>1 DEF AnnouncementsInv
  <2>3. (\A i, j \in RecordsOf(m)' : i = j)
        /\ (HeardEnd(m)' => \A i \in RecordsOf(m)' : calls'[i].state \in TERMINAL_STATES)
    BY <1>2, <1>6, <2>2 DEF LegFollowed
  <2>4. CASE m # n
    <3>1. \A w \in Voice : Routes(w, m)' => Routes(w, m) /\ voice'[w] = voice[w]
      BY <1>4, <2>4 DEF Routes
    <3>2. QED
      BY <1>6, <2>2, <2>3, <3>1 DEF LegFollowed
  <2>5. CASE m = n
    <3>1. \A w \in Voice : ~Routes(w, n)
      BY <1>2, <2>5 DEF Routes
    <3>2. \A w \in Voice : Routes(w, n)' => w = v
      BY <1>4, <3>1 DEF Routes
    <3>3. QED
      BY <1>3, <1>4, <1>6, <2>3, <2>5, <3>2 DEF LegFollowed
  <2>6. QED
    BY <2>4, <2>5
<1>9. QED
  BY <1>2, <1>5, <1>6, <1>7, <1>8 DEF AnnouncementsInv

LEMMA DecisionKeeps ==
  ASSUME AnnouncementsInv, NEW v \in Voice,
         (\E decision \in {"accepted", "rejected"} : Decided(v, decision)) \/ DecisionFails(v)
  PROVE  AnnouncementsInv'
<1>1. /\ calls \in Seq(RecordType) /\ Len(calls) \in Nat /\ DOMAIN calls = 1..Len(calls)
      /\ Len(calls) <= Cardinality(AnsweredVoices)
      /\ voice \in [Voice -> VoiceType]
  BY DEF AnnouncementsInv, AnnouncementsTypeOK, RecordType, VoiceType
<1>2. /\ voice[v].at = "routing" /\ Responded(v)
      /\ UNCHANGED reported /\ UNCHANGED twice /\ UNCHANGED unheard
  BY DEF Decided, DecisionFails
<1>3. /\ voice' \in [Voice -> VoiceType] /\ voice'[v].at = "returned"
      /\ \A w \in Voice \ {v} : voice'[w] = voice[w]
      /\ Cardinality(AnsweredVoices') = Cardinality(AnsweredVoices) + 1
      /\ Cardinality(AnsweredVoices) \in Nat
      /\ Cardinality(AnsweredVoices') <= MaxAnnouncements
  BY <1>2, RespondedCount
<1>4. \A m \in Leg : HeardEnd(m)' = HeardEnd(m)
  BY <1>2 DEF HeardEnd
<1>5. \A m \in Leg, w \in Voice : Routes(w, m)' => Routes(w, m) /\ w # v /\ voice'[w] = voice[w]
  BY <1>3 DEF Routes
<1>6. CASE UNCHANGED calls
  <2>1. \A m \in Leg : RecordsOf(m)' = RecordsOf(m)
    BY <1>6 DEF RecordsOf
  <2>2. AnnouncementsTypeOK'
    BY <1>2, <1>3, <1>6 DEF AnnouncementsInv, AnnouncementsTypeOK, VoiceType
  <2>3. \A m \in Leg \ twice' : LegFollowed(m)'
    BY <1>2, <1>4, <1>5, <1>6, <2>1 DEF AnnouncementsInv, LegFollowed
  <2>4. Len(calls') <= Cardinality(AnsweredVoices')
    BY <1>1, <1>3, <1>6
  <2>5. QED
    BY <1>4, <2>1, <2>2, <2>3, <2>4 DEF AnnouncementsInv
<1>7. CASE calls' # calls
  <2> DEFINE n == voice[v].leg
  <2>1. PICK decision \in {"accepted", "rejected"} :
          /\ voice[v].existing = NoRecord
          /\ calls' = Append(calls, [leg |-> n, state |-> NextState("incoming", decision)])
    BY <1>7 DEF Decided, DecisionFails
  <2> DEFINE last == Len(calls) + 1
             record == [leg |-> n, state |-> NextState("incoming", decision)]
  <2>2. n \in Leg /\ NextState("incoming", decision) \in States
    BY <1>1, NextStateType, TerminalsAreStates DEF VoiceType
  <2>3. record \in RecordType /\ record.leg = n
    BY <2>2 DEF RecordType
  <2>4. calls' = Append(calls, record)
    BY <2>1
  <2> HIDE DEF record, n
  <2>5. /\ calls' \in Seq(RecordType) /\ Len(calls') = last /\ DOMAIN calls' = 1..last
        /\ calls'[last] = record /\ \A i \in DOMAIN calls : calls'[i] = calls[i]
    BY <1>1, <2>3, <2>4
  <2>6. \A m \in Leg : RecordsOf(m)' = IF m = n THEN RecordsOf(m) \cup {last} ELSE RecordsOf(m)
    BY <1>1, <2>3, <2>5 DEF RecordsOf
  <2>7. AnnouncementsTypeOK'
    <3>1. Len(calls') <= MaxAnnouncements
      BY <1>1, <1>3, <2>5, AnnouncementsAssumption
    <3>2. QED
      BY <1>2, <1>3, <2>5, <3>1 DEF AnnouncementsInv, AnnouncementsTypeOK, VoiceType, RecordType
  <2>8. \A m \in Leg : RecordsOf(m)' = {} => ~HeardEnd(m)'
    BY <1>4, <2>6 DEF AnnouncementsInv
  <2>9. ASSUME NEW m \in Leg \ twice' PROVE LegFollowed(m)'
    <3>1. LegFollowed(m)
      BY <1>2 DEF AnnouncementsInv
    <3>2. CASE m = n
      <4>1. Routes(v, m)
        BY <1>2, <3>2 DEF Routes, n
      <4>2. RecordsOf(m) = {}
        BY <2>1, <3>1, <4>1 DEF LegFollowed
      <4>3. ~HeardEnd(m)
        BY <4>2 DEF AnnouncementsInv
      <4>4. \A w \in Voice : ~Routes(w, m)'
        BY <1>5, <3>1, <4>1 DEF LegFollowed
      <4>5. QED
        BY <1>4, <2>6, <3>2, <4>2, <4>3, <4>4 DEF LegFollowed
    <3>3. CASE m # n
      <4>1. RecordsOf(m)' = RecordsOf(m) /\ RecordsOf(m) \subseteq DOMAIN calls
        BY <2>6, <3>3 DEF RecordsOf
      <4>2. QED
        BY <1>4, <1>5, <2>5, <3>1, <4>1 DEF LegFollowed
    <3>4. QED
      BY <3>2, <3>3
  <2>10. Len(calls') <= Cardinality(AnsweredVoices')
    BY <1>1, <1>3, <2>5
  <2>11. QED
    BY <2>7, <2>8, <2>9, <2>10 DEF AnnouncementsInv
<1>8. QED
  BY <1>6, <1>7

LEMMA ReportKeeps ==
  ASSUME AnnouncementsInv, NEW n \in Leg, NEW status \in LegStatus, LegReports(n, status)
  PROVE  AnnouncementsInv'
<1> DEFINE i == FoundByLeg(n)
           next == NextState(calls[i].state, status)
           q == [calls[i] EXCEPT !.state = next]
<1>1. /\ calls \in Seq(RecordType) /\ Len(calls) \in Nat /\ DOMAIN calls = 1..Len(calls)
      /\ voice \in [Voice -> VoiceType]
  BY DEF AnnouncementsInv, AnnouncementsTypeOK, RecordType, VoiceType
<1>2. /\ UNCHANGED voice /\ UNCHANGED twice
      /\ reported' = reported \cup {<<n, status>>}
      /\ unheard' = IF i = NoRecord THEN unheard \cup {<<n, status>>} ELSE unheard
      /\ <<n, status>> \notin reported
  BY DEF LegReports
<1>3. i = NoRecord \/ i \in RecordsOf(n)
  BY <1>1, FoundType, FoundIsRecord
<1>4. \/ UNCHANGED calls /\ (i = NoRecord \/ Refuses(calls[i].state, status))
      \/ /\ i # NoRecord /\ ~Refuses(calls[i].state, status)
         /\ calls' = [calls EXCEPT ![i].state = next]
  BY DEF LegReports
<1>5. status \in States
  BY TerminalsAreStates DEF LegStatus
<1>6. \A j \in DOMAIN calls : calls[j] \in RecordType /\ calls[j].leg \in Leg
                              /\ calls[j].state \in States
  <2>1. \A j \in DOMAIN calls : calls[j] \in RecordType
    BY <1>1
  <2>2. QED
    BY <2>1 DEF RecordType
<1>7. i # NoRecord => /\ i \in DOMAIN calls /\ calls[i].leg = n
                      /\ next \in States
                      /\ calls[i].state \in TERMINAL_STATES => next = calls[i].state
  BY <1>3, <1>5, <1>6, NextStateType DEF RecordsOf
<1> HIDE DEF i
<1>8. /\ calls' \in Seq(RecordType) /\ Len(calls') = Len(calls) /\ DOMAIN calls' = DOMAIN calls
      /\ \A j \in DOMAIN calls :
           /\ calls'[j].leg = calls[j].leg
           /\ calls[j].state \in TERMINAL_STATES => calls'[j].state \in TERMINAL_STATES
           /\ j # i => calls'[j] = calls[j]
  <2>1. CASE UNCHANGED calls
    BY <1>1, <2>1
  <2>2. CASE i # NoRecord /\ calls' = [calls EXCEPT ![i].state = next]
    <3> HIDE DEF next
    <3>1. q \in RecordType /\ q.leg = n /\ q.state = next
      BY <1>6, <1>7, <2>2 DEF RecordType
    <3>2. calls' = [calls EXCEPT ![i] = q]
      BY <1>1, <1>7, <2>2
    <3>3. i \in DOMAIN calls /\ calls[i].leg = n
          /\ (calls[i].state \in TERMINAL_STATES => next = calls[i].state)
      BY <1>7, <2>2
    <3> HIDE DEF q
    <3>4. calls' \in Seq(RecordType) /\ Len(calls') = Len(calls) /\ DOMAIN calls' = DOMAIN calls
      BY <1>1, <3>1, <3>2, <3>3
    <3>5. calls'[i] = q /\ \A j \in DOMAIN calls : j # i => calls'[j] = calls[j]
      BY <1>1, <3>2, <3>3
    <3>6. /\ calls'[i].leg = calls[i].leg
          /\ calls[i].state \in TERMINAL_STATES => calls'[i].state \in TERMINAL_STATES
      BY <3>1, <3>3, <3>5
    <3>7. QED
      BY <3>4, <3>5, <3>6
  <2>3. QED
    BY <1>4, <2>1, <2>2
<1>9. \A m \in Leg : RecordsOf(m)' = RecordsOf(m)
  BY <1>8 DEF RecordsOf
<1>10. \A m \in Leg : HeardEnd(m)' => \/ HeardEnd(m)
                                      \/ m = n /\ status = "completed" /\ i # NoRecord
  BY <1>2 DEF HeardEnd
<1>11. i # NoRecord /\ status = "completed" => calls'[i].state \in TERMINAL_STATES
  <2> SUFFICES ASSUME i # NoRecord, status = "completed"
               PROVE  calls'[i].state \in TERMINAL_STATES
    OBVIOUS
  <2>1. ~Refuses(calls[i].state, status) /\ next \in TERMINAL_STATES
    BY <1>6, <1>7, CompletedEnds
  <2>2. calls' = [calls EXCEPT ![i].state = next]
    BY <1>4, <2>1
  <2> HIDE DEF next
  <2>3. calls'[i].state = next
    BY <1>1, <1>6, <1>7, <2>2 DEF RecordType
  <2>4. QED
    BY <2>1, <2>3
<1>12. AnnouncementsTypeOK'
  <2>1. reported' \subseteq Leg \X LegStatus /\ unheard' \subseteq reported'
    BY <1>2 DEF AnnouncementsInv, AnnouncementsTypeOK
  <2>2. QED
    BY <1>2, <1>8, <2>1 DEF AnnouncementsInv, AnnouncementsTypeOK, RecordType
<1>13. \A m \in Leg : RecordsOf(m)' = {} => ~HeardEnd(m)'
  BY <1>3, <1>9, <1>10 DEF AnnouncementsInv
<1>14. ASSUME NEW m \in Leg \ twice' PROVE LegFollowed(m)'
  <2>1. LegFollowed(m)
    BY <1>2 DEF AnnouncementsInv
  <2>2. RecordsOf(m) \subseteq DOMAIN calls
    BY DEF RecordsOf
  <2>3. ASSUME HeardEnd(m)', NEW j \in RecordsOf(m) PROVE calls'[j].state \in TERMINAL_STATES
    <3>1. CASE HeardEnd(m)
      BY <1>8, <2>1, <2>2, <3>1 DEF LegFollowed
    <3>2. CASE m = n /\ status = "completed" /\ i # NoRecord
      <4>1. j = i
        BY <1>3, <2>1, <3>2 DEF LegFollowed
      <4>2. QED
        BY <1>11, <3>2, <4>1
    <3>3. QED
      BY <1>10, <2>3, <3>1, <3>2
  <2>4. \A w \in Voice : Routes(w, m)' = Routes(w, m) /\ voice'[w] = voice[w]
    BY <1>2 DEF Routes
  <2>5. QED
    BY <1>9, <2>1, <2>3, <2>4 DEF LegFollowed
<1>15. Len(calls') <= Cardinality(AnsweredVoices')
  BY <1>2, <1>8 DEF AnnouncementsInv, AnsweredVoices
<1>16. QED
  BY <1>12, <1>13, <1>14, <1>15 DEF AnnouncementsInv

LEMMA AnnouncementsInvStep ==
  AnnouncementsInv /\ [AnnouncementsNext]_announcedCalls => AnnouncementsInv'
<1> SUFFICES ASSUME AnnouncementsInv, [AnnouncementsNext]_announcedCalls
             PROVE  AnnouncementsInv'
  OBVIOUS
<1>1. CASE AnnouncementsNext
  BY <1>1, AnnounceKeeps, DecisionKeeps, ReportKeeps DEF AnnouncementsNext
<1>2. CASE UNCHANGED announcedCalls
  <2>1. UNCHANGED calls /\ UNCHANGED voice /\ UNCHANGED reported /\ UNCHANGED twice
        /\ UNCHANGED unheard
    BY <1>2 DEF announcedCalls
  <2>2. AnsweredVoices' = AnsweredVoices
        /\ \A m \in Leg : RecordsOf(m)' = RecordsOf(m) /\ HeardEnd(m)' = HeardEnd(m)
    BY <2>1 DEF AnsweredVoices, RecordsOf, HeardEnd
  <2>3. \A m \in Leg \ twice' : LegFollowed(m)'
    BY <2>1, <2>2 DEF AnnouncementsInv, LegFollowed, Routes
  <2>4. QED
    BY <2>1, <2>2, <2>3 DEF AnnouncementsInv, AnnouncementsTypeOK
<1>3. QED
  BY <1>1, <1>2

LEMMA AnnouncementsInvariant == AnnouncementsSpec => []AnnouncementsInv
BY AnnouncementsInvInit, AnnouncementsInvStep, PTL DEF AnnouncementsSpec

\* An announced leg is one call, unless it was announced while it was being routed, and its
\* reported end, if it was heard, ends it.
THEOREM AnnouncedLegsFollowed == AnnouncementsSpec => [](AnnouncementsTypeOK /\ LegsAreFollowed)
<1>1. AnnouncementsInv => AnnouncementsTypeOK /\ LegsAreFollowed
  <2> SUFFICES ASSUME AnnouncementsInv, NEW n \in Leg \ twice
               PROVE  /\ Cardinality(RecordsOf(n)) <= 1
                      /\ HeardEnd(n) => \A i \in RecordsOf(n) : calls[i].state \in TERMINAL_STATES
    BY DEF AnnouncementsInv, LegsAreFollowed, HeardEnd
  <2>1. LegFollowed(n)
    BY DEF AnnouncementsInv
  <2>2. RecordsOf(n) = {} \/ \E i \in RecordsOf(n) : RecordsOf(n) = {i}
    BY <2>1 DEF LegFollowed
  <2>3. Cardinality({}) = 0 /\ \A i : Cardinality({i}) = 1
    BY FS_EmptySet, FS_Singleton
  <2>4. Cardinality(RecordsOf(n)) <= 1
    BY <2>2, <2>3
  <2>5. QED
    BY <2>1, <2>4 DEF LegFollowed
<1>2. QED
  BY <1>1, AnnouncementsInvariant, PTL

-----------------------------------------------------------------------------
\* Tools. Of what a call has used, each use is a handler that was started or one that
\* waits for its slot.

CountedFor(c) == {d \in ToolTask : task[d].user = c /\ task[d].at = "counted"}
CallCounts(c) ==
  /\ handled[c] <= ToolsPerCall
  /\ c \in over => ActiveFor(c) = {} /\ used[c] = 0
  /\ c \notin over => handled[c] + Cardinality(CountedFor(c)) <= used[c]

ToolsInv ==
  /\ ToolsTypeOK
  /\ Cardinality(InHandler) <= ToolSlots
  /\ \A c \in ToolUser : CallCounts(c)

TaskType == [at : {"asks", "counted", "refused", "handler", "ended"}, user : ToolUser]

LEMMA ToolTasksFinite ==
  ASSUME NEW S \in SUBSET ToolTask
  PROVE  IsFiniteSet(S) /\ Cardinality(S) \in Nat
<1>1. IsFiniteSet(ToolTask)
  BY ToolsAssumption, FS_Interval DEF ToolTask
<1>2. QED
  BY <1>1, FS_Subset, FS_CardinalityType

LEMMA ToolsInvInit == ToolsInit => ToolsInv
<1> SUFFICES ASSUME ToolsInit PROVE ToolsInv
  OBVIOUS
<1>1. 1 \in ToolUser /\ 0 \in 0..ToolsPerCall
  BY ToolsAssumption DEF ToolUser
<1>2. ToolsTypeOK
  BY <1>1 DEF ToolsInit, ToolsTypeOK
<1>3. InHandler = {} /\ \A c \in ToolUser : CountedFor(c) = {}
  BY DEF ToolsInit, InHandler, CountedFor
<1>4. Cardinality({}) = 0
  BY FS_EmptySet
<1>5. QED
  BY <1>2, <1>3, <1>4, ToolsAssumption DEF ToolsInit, ToolsInv, CallCounts

\* A task that moves, for its call.
TaskMoves(d, to) ==
  /\ task' = [task EXCEPT ![d].at = to]
  /\ task[d].at # "ended"
  /\ to \in {"asks", "counted", "refused", "handler", "ended"}

LEMMA TaskMoved ==
  ASSUME ToolsInv, NEW d \in ToolTask, NEW to, TaskMoves(d, to)
  PROVE  /\ task' \in [ToolTask -> TaskType]
         /\ task'[d].at = to /\ task'[d].user = task[d].user
         /\ \A e \in ToolTask \ {d} : task'[e] = task[e]
         /\ task[d].user \in ToolUser \ over
         /\ \A c \in over : ActiveFor(c)' = {}
<1>1. task \in [ToolTask -> TaskType] /\ over \subseteq ToolUser
  BY DEF ToolsInv, ToolsTypeOK, TaskType
<1> DEFINE q == [task[d] EXCEPT !.at = to]
<1>2. q \in TaskType /\ q.at = to /\ q.user = task[d].user
  BY <1>1 DEF TaskMoves, TaskType
<1>3. task' = [task EXCEPT ![d] = q]
  BY <1>1 DEF TaskMoves
<1> HIDE DEF q
<1>4. \A c \in over : ActiveFor(c) = {}
  BY <1>1 DEF ToolsInv, CallCounts
<1>5. task[d].user \in ToolUser \ over
  BY <1>1, <1>4 DEF ActiveFor, TaskMoves, TaskType
<1>6. QED
  BY <1>1, <1>2, <1>3, <1>4, <1>5 DEF ActiveFor

LEMMA ToolsInvStep == ToolsInv /\ [ToolsNext]_toolCalls => ToolsInv'
<1> SUFFICES ASSUME ToolsInv, [ToolsNext]_toolCalls PROVE ToolsInv'
  OBVIOUS
<1>1. /\ task \in [ToolTask -> TaskType]
      /\ used \in [ToolUser -> 0..ToolsPerCall]
      /\ over \subseteq ToolUser
      /\ handled \in [ToolUser -> Nat]
  BY DEF ToolsInv, ToolsTypeOK, TaskType
<1>2. Cardinality(InHandler) <= ToolSlots /\ \A c \in ToolUser : CallCounts(c)
  BY DEF ToolsInv
<1>3. ToolsPerCall \in Nat \ {0} /\ ToolSlots \in Nat \ {0}
  BY ToolsAssumption
<1>4. \A c \in ToolUser : Cardinality(CountedFor(c)) \in Nat /\ IsFiniteSet(CountedFor(c))
  BY ToolTasksFinite DEF CountedFor
<1>5. Cardinality(InHandler) \in Nat /\ IsFiniteSet(InHandler)
  BY ToolTasksFinite DEF InHandler
<1>6. ASSUME NEW d \in ToolTask, NEW c \in ToolUser, TaskRuns(d, c) PROVE ToolsInv'
  <2>1. /\ task[d].at = "ended" /\ c \notin over
        /\ task' = [task EXCEPT ![d] = [at |-> "asks", user |-> c]]
        /\ UNCHANGED used /\ UNCHANGED over /\ UNCHANGED handled
    BY <1>6 DEF TaskRuns
  <2>2. /\ task' \in [ToolTask -> TaskType]
        /\ task'[d].at = "asks" /\ task'[d].user = c
        /\ \A e \in ToolTask \ {d} : task'[e] = task[e]
    BY <1>1, <2>1 DEF TaskType
  <2>3. InHandler' = InHandler /\ \A u \in ToolUser : CountedFor(u)' = CountedFor(u)
    BY <2>1, <2>2 DEF InHandler, CountedFor
  <2>4. \A u \in over : ActiveFor(u)' = ActiveFor(u)
    BY <2>1, <2>2 DEF ActiveFor
  <2>5. \A u \in ToolUser : CallCounts(u)'
    BY <1>2, <2>1, <2>3, <2>4 DEF CallCounts
  <2>6. QED
    BY <1>1, <1>2, <2>1, <2>2, <2>3, <2>5 DEF ToolsInv, ToolsTypeOK, TaskType
<1>7. ASSUME NEW d \in ToolTask, ToolCalled(d) PROVE ToolsInv'
  <2>1. PICK c \in ToolUser : c = task[d].user
    BY <1>1 DEF TaskType
  <2>2. /\ task[d].at = "asks" /\ TaskMoves(d, "counted")
        /\ used[c] < ToolsPerCall /\ used' = [used EXCEPT ![c] = @ + 1]
        /\ UNCHANGED over /\ UNCHANGED handled
    BY <1>7, <2>1 DEF ToolCalled, TaskGoes, TaskMoves, WithinQuota
  <2>3. /\ task' \in [ToolTask -> TaskType]
        /\ task'[d].at = "counted" /\ task'[d].user = c
        /\ \A e \in ToolTask \ {d} : task'[e] = task[e]
        /\ c \in ToolUser \ over
        /\ \A u \in over : ActiveFor(u)' = {}
    BY <2>1, <2>2, TaskMoved
  <2>4. InHandler' = InHandler /\ \A u \in ToolUser \ {c} : CountedFor(u)' = CountedFor(u)
    BY <2>1, <2>2, <2>3 DEF InHandler, CountedFor
  <2>5. CountedFor(c)' = CountedFor(c) \cup {d} /\ d \notin CountedFor(c)
    BY <2>1, <2>2, <2>3 DEF CountedFor
  <2>6. Cardinality(CountedFor(c)') = Cardinality(CountedFor(c)) + 1
    BY <1>4, <2>3, <2>5, FS_AddElement
  <2>7. used' \in [ToolUser -> 0..ToolsPerCall] /\ used'[c] = used[c] + 1
        /\ \A u \in ToolUser \ {c} : used'[u] = used[u]
    BY <1>1, <1>3, <2>2, <2>3
  <2>8. CallCounts(c)'
    BY <1>1, <1>2, <1>4, <2>2, <2>3, <2>6, <2>7 DEF CallCounts
  <2>9. \A u \in ToolUser \ {c} : CallCounts(u)'
    BY <1>2, <2>2, <2>3, <2>4, <2>7 DEF CallCounts
  <2>10. QED
    BY <1>1, <1>2, <2>2, <2>3, <2>4, <2>7, <2>8, <2>9 DEF ToolsInv, ToolsTypeOK, TaskType
<1>8. ASSUME NEW d \in ToolTask, HandlerStarts(d) PROVE ToolsInv'
  <2>1. PICK c \in ToolUser : c = task[d].user
    BY <1>1 DEF TaskType
  <2>2. /\ task[d].at = "counted" /\ TaskMoves(d, "handler")
        /\ Cardinality(InHandler) < ToolSlots
        /\ handled' = [handled EXCEPT ![c] = @ + 1]
        /\ UNCHANGED used /\ UNCHANGED over
    BY <1>8, <2>1 DEF HandlerStarts, TaskGoes, TaskMoves
  <2>3. /\ task' \in [ToolTask -> TaskType]
        /\ task'[d].at = "handler" /\ task'[d].user = c
        /\ \A e \in ToolTask \ {d} : task'[e] = task[e]
        /\ c \in ToolUser \ over
        /\ \A u \in over : ActiveFor(u)' = {}
    BY <2>1, <2>2, TaskMoved
  <2>4. InHandler' = InHandler \cup {d} /\ \A u \in ToolUser \ {c} : CountedFor(u)' = CountedFor(u)
    BY <2>1, <2>2, <2>3 DEF InHandler, CountedFor
  <2>5. CountedFor(c)' = CountedFor(c) \ {d} /\ d \in CountedFor(c)
    BY <2>1, <2>2, <2>3 DEF CountedFor
  <2>6. Cardinality(CountedFor(c)') = Cardinality(CountedFor(c)) - 1
    BY <1>4, <2>3, <2>5, FS_RemoveElement, ZenonT(60)
  <2>7. handled' \in [ToolUser -> Nat] /\ handled'[c] = handled[c] + 1
        /\ \A u \in ToolUser \ {c} : handled'[u] = handled[u]
    BY <1>1, <2>2, <2>3
  <2>8. Cardinality(InHandler') <= ToolSlots
    <3>1. Cardinality(InHandler \cup {d}) <= Cardinality(InHandler) + 1
      <4>1. Cardinality(InHandler \cup {d}) =
              IF d \in InHandler THEN Cardinality(InHandler) ELSE Cardinality(InHandler) + 1
        BY <1>5, FS_AddElement
      <4>2. QED
        BY <1>5, <4>1
    <3>2. Cardinality(InHandler \cup {d}) \in Nat
      BY <1>5, FS_AddElement, FS_CardinalityType
    <3>3. QED
      BY <1>3, <1>5, <2>2, <2>4, <3>1, <3>2
  <2>9. CallCounts(c)'
    <3>1. handled[c] + Cardinality(CountedFor(c)) <= used[c] /\ used[c] \in 0..ToolsPerCall
      BY <1>1, <1>2, <2>3 DEF CallCounts
    <3>2. Cardinality(CountedFor(c)') \in Nat
      <4>1. CountedFor(c)' \in SUBSET ToolTask
        BY DEF CountedFor
      <4>2. QED
        BY <4>1, ToolTasksFinite
    <3>3. handled'[c] <= ToolsPerCall
          /\ handled'[c] + Cardinality(CountedFor(c)') <= used[c]
      BY <1>1, <1>3, <1>4, <2>3, <2>6, <2>7, <3>1, <3>2
    <3>4. QED
      BY <2>2, <2>3, <3>3 DEF CallCounts
  <2>10. \A u \in ToolUser \ {c} : CallCounts(u)'
    BY <1>2, <2>2, <2>3, <2>4, <2>7 DEF CallCounts
  <2>11. QED
    BY <1>1, <2>2, <2>3, <2>7, <2>8, <2>9, <2>10 DEF ToolsInv, ToolsTypeOK, TaskType
<1>9. ASSUME NEW d \in ToolTask, ToolRefused(d) \/ ToolAnswers(d) \/ TaskEnds(d)
      PROVE  ToolsInv'
  <2>1. PICK to \in {"asks", "refused", "ended"} :
          /\ TaskMoves(d, to)
          /\ UNCHANGED used /\ UNCHANGED over /\ UNCHANGED handled
    BY <1>9 DEF ToolRefused, ToolAnswers, TaskEnds, TaskGoes, TaskMoves
  <2>2. /\ task' \in [ToolTask -> TaskType]
        /\ task'[d].at = to /\ task'[d].user = task[d].user
        /\ \A e \in ToolTask \ {d} : task'[e] = task[e]
        /\ \A u \in over : ActiveFor(u)' = {}
    BY <2>1, TaskMoved
  <2>3. InHandler' \subseteq InHandler /\ \A u \in ToolUser : CountedFor(u)' \subseteq CountedFor(u)
    BY <2>1, <2>2 DEF InHandler, CountedFor
  <2>4. Cardinality(InHandler') \in Nat /\ Cardinality(InHandler') <= Cardinality(InHandler)
    BY <1>5, <2>3, FS_Subset, FS_CardinalityType
  <2>5. \A u \in ToolUser : /\ Cardinality(CountedFor(u)') \in Nat
                            /\ Cardinality(CountedFor(u)') <= Cardinality(CountedFor(u))
    BY <1>4, <2>3, FS_Subset, FS_CardinalityType
  <2>6. Cardinality(InHandler') <= ToolSlots
    BY <1>2, <1>3, <1>5, <2>4
  <2>7. ASSUME NEW u \in ToolUser PROVE CallCounts(u)'
    <3>1. /\ Cardinality(CountedFor(u)') \in Nat /\ Cardinality(CountedFor(u)) \in Nat
          /\ Cardinality(CountedFor(u)') <= Cardinality(CountedFor(u))
          /\ handled[u] \in Nat /\ used[u] \in Nat
      BY <1>1, <1>3, <1>4, <2>5
    <3>2. CallCounts(u)
      BY <1>2
    <3>3. u \notin over => handled[u] + Cardinality(CountedFor(u)') <= used[u]
      BY <3>1, <3>2 DEF CallCounts
    <3>4. QED
      BY <2>1, <2>2, <3>2, <3>3 DEF CallCounts
  <2>8. QED
    BY <1>1, <2>1, <2>2, <2>6, <2>7 DEF ToolsInv, ToolsTypeOK, TaskType
<1>10. ASSUME NEW c \in ToolUser, ForgetCall(c) PROVE ToolsInv'
  <2>1. /\ ActiveFor(c) = {} /\ over' = over \cup {c}
        /\ used' = [used EXCEPT ![c] = 0]
        /\ UNCHANGED task /\ UNCHANGED handled
    BY <1>10 DEF ForgetCall, SessionEnded
  <2>2. InHandler' = InHandler
        /\ \A u \in ToolUser : CountedFor(u)' = CountedFor(u) /\ ActiveFor(u)' = ActiveFor(u)
    BY <2>1 DEF InHandler, CountedFor, ActiveFor
  <2>3. used' \in [ToolUser -> 0..ToolsPerCall] /\ used'[c] = 0
        /\ \A u \in ToolUser \ {c} : used'[u] = used[u]
    BY <1>1, <1>3, <2>1
  <2>4. \A u \in ToolUser : CallCounts(u)'
    BY <1>2, <2>1, <2>2, <2>3 DEF CallCounts
  <2>5. over' \subseteq ToolUser
    BY <1>1, <2>1
  <2>6. QED
    BY <1>1, <1>2, <2>1, <2>2, <2>3, <2>4, <2>5 DEF ToolsInv, ToolsTypeOK, TaskType
<1>11. CASE UNCHANGED toolCalls
  BY <1>11 DEF toolCalls, ToolsInv, ToolsTypeOK, CallCounts, InHandler, CountedFor, ActiveFor
<1>12. QED
  BY <1>6, <1>7, <1>8, <1>9, <1>10, <1>11 DEF ToolsNext

LEMMA ToolsInvariant == ToolsSpec => []ToolsInv
BY ToolsInvInit, ToolsInvStep, PTL DEF ToolsSpec

\* However many delegations of a call run, they start no more handlers than it may; what a
\* call used is forgotten for good; and handlers never exceed the slots.
THEOREM ToolsStayInQuota == ToolsSpec => [](ToolsTypeOK /\ ToolQuotaHolds)
<1>1. ToolsInv => ToolsTypeOK /\ ToolQuotaHolds
  BY DEF ToolsInv, ToolsTypeOK, ToolQuotaHolds, CallCounts
<1>2. QED
  BY <1>1, ToolsInvariant, PTL

-----------------------------------------------------------------------------
\* A call's runner. Before it supervises, no sideband is read; once it hangs up, none is;
\* and a delegation runs only while its coordinator reads and holds it.

OwnerSound ==
  /\ owner.at \in {"none", "context", "attaching", "closingFirst"} => sideband.at = "none"
  /\ owner.at \in {"hangup", "finalizing", "done"} => sideband.at \in {"none", "done"}
  /\ owner.at \in {"finalizing", "done"} => leg # "up" \/ owner.result = "confirmed"
OneTask == coordinator.tasks = {} \/ \E d \in Request : coordinator.tasks = {d}
RequestsSound ==
  /\ OneTask
  /\ \A d \in Request :
       request[d] = "running" => d \in coordinator.tasks /\ sideband.at = "reading"
  /\ sideband.at = "superseding" => sideband.next \in Request

RunnerInv == RunnerTypeOK /\ OwnerSound /\ RequestsSound

OwnerType ==
  [at : {"none", "context", "attaching", "closingFirst", "supervising", "cancelling", "asking",
         "grace", "stopping", "hangup", "finalizing", "done"},
   cancelled : BOOLEAN, result : {"none", "confirmed", "unconfirmed", "cancelled"},
   on : {NoRequestYet} \cup Request, remembered : BOOLEAN]
SidebandType ==
  [at : {"none", "reading", "superseding", "draining", "done"}, cancelled : BOOLEAN,
   result : {"none", "confirmed", "unconfirmed", "cancelled"},
   on : {NoRequestYet} \cup Request, next : {NoRequestYet} \cup Request]
CoordinatorType ==
  [attached : BOOLEAN, requested : BOOLEAN, closed : BOOLEAN, tasks : SUBSET Request]
RequestState == {"new", "running", "cancelled", "ended"}
CallerType ==
  [stop : {"idle", "waiting", "returned"}, hangup : {"idle", "sending", "returned"},
   aclose : {"idle", "sending", "draining", "waiting", "returned"},
   on : [Closer -> {NoRequestYet} \cup Request]]

\* The types, without the count of the coordinator's tasks.
RunnerTyped ==
  /\ owner \in OwnerType /\ sideband \in SidebandType /\ coordinator \in CoordinatorType
  /\ request \in [Request -> RequestState] /\ caller \in CallerType
  /\ leg \in {"up", "down", "cut"}

LEMMA RunnerInvParts == RunnerInv <=> RunnerTyped /\ OwnerSound /\ RequestsSound
<1>1. RequestsSound => Cardinality(coordinator.tasks) <= 1
  <2> SUFFICES ASSUME RequestsSound PROVE Cardinality(coordinator.tasks) <= 1
    OBVIOUS
  <2>1. Cardinality({}) = 0 /\ \A d : Cardinality({d}) = 1
    BY FS_EmptySet, FS_Singleton
  <2>2. QED
    BY <2>1 DEF RequestsSound, OneTask
<1>2. QED
  BY <1>1 DEF RunnerInv, RunnerTypeOK, RunnerTyped, OwnerType, SidebandType, CoordinatorType,
              RequestState, CallerType

LEMMA RunnerInvInit == RunnerInit => RunnerInv
<1> SUFFICES ASSUME RunnerInit PROVE RunnerInv
  OBVIOUS
<1>1. RunnerTyped
  BY DEF RunnerInit, RunnerTyped, OwnerType, SidebandType, CoordinatorType, RequestState,
         CallerType
<1>2. OwnerSound /\ RequestsSound
  BY DEF RunnerInit, OwnerSound, RequestsSound, OneTask
<1>3. QED
  BY <1>1, <1>2, RunnerInvParts

LEMMA CallerMoves ==
  ASSUME caller \in CallerType, NEW c \in Closer, NEW d \in {NoRequestYet} \cup Request
  PROVE  /\ [caller EXCEPT ![c] = After(c)] \in CallerType
         /\ [caller EXCEPT ![c] = After(c), !.on[c] = d] \in CallerType
         /\ [caller EXCEPT ![c] = "sending", !.on[c] = d] \in CallerType
<1>1. CASE c = "hangup"
  BY <1>1 DEF CallerType, Closer, After
<1>2. CASE c = "aclose"
  BY <1>2 DEF CallerType, Closer, After
<1>3. QED
  BY <1>1, <1>2 DEF Closer

LEMMA RunnerInvNext == RunnerTyped' /\ OwnerSound' /\ RequestsSound' => RunnerInv'
BY RunnerInvParts, PTL

\* A step that leaves the delegations and the sideband alone.
LEMMA RunnerRests ==
  ASSUME RunnerInv, owner' \in OwnerType, coordinator' \in CoordinatorType,
         coordinator'.tasks = coordinator.tasks, caller' \in CallerType,
         leg' \in {"up", "down", "cut"}, sideband' = sideband, request' = request, OwnerSound'
  PROVE  RunnerInv'
<1>1. RunnerTyped /\ RequestsSound
  BY RunnerInvParts
<1>2. RunnerTyped'
  BY <1>1 DEF RunnerTyped
<1>3. RequestsSound'
  BY <1>1 DEF RequestsSound, OneTask
<1>4. QED
  BY <1>2, <1>3, RunnerInvNext

\* cancel_all leaves no delegation that runs.
LEMMA CancelledAll ==
  ASSUME RunnerInv, DelegationsCancelled
  PROVE  /\ request' \in [Request -> RequestState]
         /\ \A d \in Request : request'[d] # "running"
         /\ coordinator.tasks # {} => One(coordinator.tasks) \in Request
<1>1. RunnerTyped /\ RequestsSound
  BY RunnerInvParts
<1>2. request' \in [Request -> RequestState]
  BY <1>1 DEF RunnerTyped, DelegationsCancelled, RequestState
<1>3. \A d \in Request : request'[d] # "running"
  BY <1>1 DEF RunnerTyped, RequestsSound, DelegationsCancelled
<1>4. coordinator.tasks # {} => One(coordinator.tasks) \in Request
  BY <1>1 DEF RunnerTyped, CoordinatorType, One
<1>5. QED
  BY <1>2, <1>3, <1>4

LEMMA OwnerSets ==
  ASSUME owner \in OwnerType, RunnerInv,
         LoadContext \/ SetUpFails \/ FirstCloseSent \/ FirstCloseFails \/ OwnerResumes
           \/ CloseSent \/ RunEnded \/ RunStopped \/ HangUp \/ Finalize \/ CancelBeforeRunning
           \/ CancelWhileEnding \/ StartSession \/ Attach
  PROVE  /\ owner' \in OwnerType /\ leg' \in {"up", "down", "cut"}
         /\ coordinator' \in CoordinatorType /\ coordinator'.tasks = coordinator.tasks
         /\ request' = request /\ caller' = caller
<1>1. RunnerTyped
  BY RunnerInvParts
<1>2. CASE LoadContext \/ SetUpFails
  BY <1>1, <1>2 DEF RunnerTyped, LoadContext, SetUpFails, Fails, OwnerType
<1>3. CASE FirstCloseSent \/ FirstCloseFails
  BY <1>1, <1>3 DEF RunnerTyped, FirstCloseSent, FirstCloseFails, Fails, OwnerType,
                    CoordinatorType
<1>4. CASE OwnerResumes \/ CloseSent
  BY <1>1, <1>4 DEF RunnerTyped, OwnerResumes, CloseSent, OwnerType
<1>5. CASE RunEnded
  BY <1>1, <1>5 DEF RunnerTyped, RunEnded, OwnerType, SidebandType
<1>6. CASE RunStopped \/ HangUp \/ Finalize
  BY <1>1, <1>6 DEF RunnerTyped, RunStopped, HangUp, Finalize, OwnerType
<1>7. CASE CancelBeforeRunning
  BY <1>1, <1>7 DEF RunnerTyped, CancelBeforeRunning, OwnerType, CoordinatorType
<1>8. CASE CancelWhileEnding
  BY <1>1, <1>8 DEF RunnerTyped, CancelWhileEnding, OwnerType
<1>9. CASE StartSession
  BY <1>1, <1>9 DEF RunnerTyped, StartSession, OwnerType
<1>10. CASE Attach
  <2> DEFINE kept == owner.remembered
  <2>1. kept \in BOOLEAN
    BY <1>1 DEF RunnerTyped, OwnerType
  <2>2. coordinator' = [coordinator EXCEPT !.attached = TRUE, !.requested = kept]
    BY <1>10 DEF Attach
  <2>3. \/ owner' = [owner EXCEPT !.at = "closingFirst"]
        \/ owner' = [owner EXCEPT !.at = "supervising"]
    BY <1>10 DEF Attach
  <2>4. request' = request /\ caller' = caller /\ leg' = leg
    BY <1>10 DEF Attach
  <2>5. owner' \in OwnerType
    BY <2>3, <1>1 DEF RunnerTyped, OwnerType
  <2> HIDE DEF kept
  <2>6. coordinator' \in CoordinatorType /\ coordinator'.tasks = coordinator.tasks
    BY <2>1, <2>2, <1>1 DEF RunnerTyped, CoordinatorType
  <2>7. QED
    BY <2>4, <2>5, <2>6, <1>1 DEF RunnerTyped
<1>11. QED
  BY <1>2, <1>3, <1>4, <1>5, <1>6, <1>7, <1>8, <1>9, <1>10

LEMMA OwnerSetsStep ==
  ASSUME RunnerInv,
         LoadContext \/ SetUpFails \/ FirstCloseFails \/ OwnerResumes
           \/ CloseSent \/ RunEnded \/ RunStopped \/ HangUp \/ Finalize \/ CancelBeforeRunning
           \/ CancelWhileEnding \/ StartSession
  PROVE  RunnerInv'
<1>1. RunnerTyped /\ OwnerSound
  BY RunnerInvParts
<1>2. owner \in OwnerType
  BY <1>1 DEF RunnerTyped
<1>3. sideband' = sideband
  BY DEF LoadContext, SetUpFails, FirstCloseFails, Fails, OwnerResumes, CloseSent, RunEnded,
         RunStopped, HangUp, Finalize, CancelBeforeRunning, CancelWhileEnding, StartSession
<1>4. OwnerSound'
  <2>1. CASE LoadContext \/ SetUpFails \/ FirstCloseFails \/ StartSession
    BY <1>1, <1>2, <2>1 DEF LoadContext, SetUpFails, FirstCloseFails, StartSession, Fails, Owner,
                            OwnerSound, OwnerType
  <2>2. CASE OwnerResumes \/ CloseSent
    BY <1>1, <1>2, <2>2 DEF OwnerResumes, CloseSent, Owner, OwnerSound, OwnerType
  <2>3. CASE RunEnded \/ RunStopped
    BY <1>1, <1>2, <2>3 DEF RunEnded, RunStopped, Owner, RunAt, OwnerSound, OwnerType
  <2>4. CASE HangUp \/ Finalize
    BY <1>1, <1>2, <2>4 DEF HangUp, Finalize, Owner, OwnerSound, OwnerType
  <2>5. CASE CancelBeforeRunning
    BY <1>1, <1>2, <2>5 DEF CancelBeforeRunning, OwnerSound, OwnerType
  <2>6. CASE CancelWhileEnding
    BY <1>1, <1>2, <2>6 DEF CancelWhileEnding, Owner, OwnerSound, OwnerType
  <2>7. QED
    BY <2>1, <2>2, <2>3, <2>4, <2>5, <2>6
<1>5. /\ owner' \in OwnerType /\ leg' \in {"up", "down", "cut"}
      /\ coordinator' \in CoordinatorType /\ coordinator'.tasks = coordinator.tasks
      /\ request' = request /\ caller' = caller
  BY <1>2, OwnerSets
<1>6. caller' \in CallerType
  BY <1>1, <1>5 DEF RunnerTyped
<1>7. QED
  BY <1>3, <1>4, <1>5, <1>6, RunnerRests

\* Supervision begins: the sideband was not read before, so no delegation runs.
LEMMA SupervisionStep ==
  ASSUME RunnerInv, Attach \/ FirstCloseSent
  PROVE  RunnerInv'
<1>1. RunnerTyped /\ OwnerSound /\ RequestsSound
  BY RunnerInvParts
<1>2. owner \in OwnerType
  BY <1>1 DEF RunnerTyped
<1>3. /\ owner' \in OwnerType /\ leg' \in {"up", "down", "cut"}
      /\ coordinator' \in CoordinatorType /\ coordinator'.tasks = coordinator.tasks
      /\ request' = request /\ caller' = caller
  BY <1>2, OwnerSets
<1>4. \/ owner'.at = "closingFirst" /\ sideband' = sideband
      \/ owner'.at = "supervising" /\ sideband' = [sideband EXCEPT !.at = "reading"]
  BY <1>1 DEF Attach, FirstCloseSent, Supervises, RunnerTyped, OwnerType
<1>5. sideband' \in SidebandType /\ sideband'.at \in {"none", "reading"}
        /\ (sideband'.at = "none" \/ owner'.at = "supervising")
  BY <1>1, <1>4 DEF RunnerTyped, SidebandType, OwnerSound, Attach, FirstCloseSent, Owner
<1>6. RunnerTyped'
  BY <1>1, <1>3, <1>5 DEF RunnerTyped
<1>7. OwnerSound'
  BY <1>4, <1>5 DEF OwnerSound
<1>8. \A d \in Request : request[d] # "running"
  BY <1>1 DEF RequestsSound, OwnerSound, Attach, FirstCloseSent, Owner
<1>9. RequestsSound'
  BY <1>1, <1>3, <1>5, <1>8 DEF RequestsSound, OneTask
<1>10. QED
  BY <1>6, <1>7, <1>9, RunnerInvNext

\* The coordinator is cancelled: what it reads and holds is as it was.
LEMMA StoppingStep ==
  ASSUME RunnerInv, CloseFails \/ GracePasses \/ CancelWhileRunning
  PROVE  RunnerInv'
<1>1. RunnerTyped /\ OwnerSound /\ RequestsSound
  BY RunnerInvParts
<1>2. PICK r \in {"unconfirmed", "cancelled"} : StopsRun(r)
  BY DEF CloseFails, GracePasses, CancelWhileRunning
<1>3. /\ coordinator' \in CoordinatorType /\ coordinator'.tasks = coordinator.tasks
      /\ request' = request /\ caller' = caller /\ leg' = leg
  BY <1>1 DEF CloseFails, GracePasses, CancelWhileRunning, RunnerTyped, CoordinatorType
<1>4. owner' \in OwnerType /\ owner'.at = "stopping"
  BY <1>1, <1>2 DEF StopsRun, RunnerTyped, OwnerType
<1>5. sideband' \in SidebandType /\ sideband'.at = sideband.at /\ sideband'.next = sideband.next
  <2> DEFINE ends == ~RunAt("done")
  <2>1. ends \in BOOLEAN
    OBVIOUS
  <2>2. sideband' = [sideband EXCEPT !.cancelled = ends]
    BY <1>2 DEF StopsRun
  <2> HIDE DEF ends
  <2>3. QED
    BY <1>1, <2>1, <2>2 DEF RunnerTyped, SidebandType
<1>6. RunnerTyped'
  BY <1>1, <1>3, <1>4, <1>5 DEF RunnerTyped
<1>7. OwnerSound'
  BY <1>4 DEF OwnerSound
<1>8. RequestsSound'
  BY <1>1, <1>3, <1>5 DEF RequestsSound, OneTask
<1>9. QED
  BY <1>6, <1>7, <1>8, RunnerInvNext

LEMMA DeadlineStep == ASSUME RunnerInv, DeadlinePasses PROVE RunnerInv'
<1>1. RunnerTyped /\ OwnerSound /\ RequestsSound
  BY RunnerInvParts
<1>2. sideband' = sideband /\ caller' = caller /\ leg' = leg /\ owner.at = "supervising"
  BY DEF DeadlinePasses, Owner
<1>3. CASE coordinator.requested \/ coordinator.closed
  <2>1. owner' = [owner EXCEPT !.at = "grace"] /\ coordinator' = coordinator /\ request' = request
    BY <1>3 DEF DeadlinePasses
  <2>2. owner' \in OwnerType /\ OwnerSound'
    BY <1>1, <1>2, <2>1 DEF RunnerTyped, OwnerType, OwnerSound
  <2>3. QED
    BY <1>1, <1>2, <2>1, <2>2, RunnerRests DEF RunnerTyped
<1>4. CASE ~(coordinator.requested \/ coordinator.closed)
  <2>1. /\ coordinator' = [coordinator EXCEPT !.requested = TRUE, !.tasks = {}]
        /\ DelegationsCancelled
    BY <1>4 DEF DeadlinePasses
  <2>2. /\ request' \in [Request -> RequestState]
        /\ \A d \in Request : request'[d] # "running"
        /\ coordinator.tasks # {} => One(coordinator.tasks) \in Request
    BY <2>1, CancelledAll
  <2>3. owner' \in OwnerType /\ owner'.at \in {"asking", "cancelling"}
    <3>1. CASE coordinator.tasks = {}
      <4>1. owner' = [owner EXCEPT !.at = "asking"]
        BY <1>4, <3>1 DEF DeadlinePasses
      <4>2. QED
        BY <1>1, <4>1 DEF RunnerTyped, OwnerType
    <3>2. CASE coordinator.tasks # {}
      <4>1. owner' = [owner EXCEPT !.at = "cancelling", !.on = One(coordinator.tasks)]
        BY <1>4, <3>2 DEF DeadlinePasses
      <4>2. QED
        BY <1>1, <2>2, <3>2, <4>1 DEF RunnerTyped, OwnerType
    <3>3. QED
      BY <3>1, <3>2
  <2>4. coordinator' \in CoordinatorType /\ coordinator'.tasks = {}
    BY <1>1, <2>1 DEF RunnerTyped, CoordinatorType
  <2>5. RunnerTyped'
    BY <1>1, <1>2, <2>2, <2>3, <2>4 DEF RunnerTyped
  <2>6. OwnerSound'
    BY <2>3 DEF OwnerSound
  <2>7. RequestsSound'
    BY <1>1, <1>2, <2>2, <2>4 DEF RequestsSound, OneTask
  <2>8. QED
    BY <2>5, <2>6, <2>7, RunnerInvNext
<1>5. QED
  BY <1>3, <1>4

\* A step of the coordinator: the owner does not move.
LEMMA CoordinatorMoves ==
  ASSUME RunnerInv, owner' = owner, caller' = caller, leg' = leg,
         sideband' \in SidebandType, coordinator' \in CoordinatorType,
         request' \in [Request -> RequestState], RequestsSound',
         sideband.at \notin {"none", "done"}, sideband'.at # "none"
  PROVE  RunnerInv'
<1>1. RunnerTyped /\ OwnerSound
  BY RunnerInvParts
<1>2. RunnerTyped'
  BY <1>1 DEF RunnerTyped
<1>3. OwnerSound'
  BY <1>1 DEF OwnerSound
<1>4. QED
  BY <1>2, <1>3, RunnerInvNext

LEMMA RunEndsStep ==
  ASSUME RunnerInv, ReadClosed \/ ReadFails \/ RunCancelled
  PROVE  RunnerInv'
<1>1. RunnerTyped /\ OwnerSound /\ RequestsSound
  BY RunnerInvParts
<1>2. PICK r \in {"confirmed", "unconfirmed", "cancelled"} : EndsWith(r)
  BY DEF ReadClosed, ReadFails, RunCancelled
<1>3. owner' = owner /\ caller' = caller /\ leg' = leg /\ sideband.at = "reading"
  BY DEF ReadClosed, ReadFails, RunCancelled, Reads, RunAt
<1>4. coordinator' \in CoordinatorType /\ coordinator'.tasks = {}
  BY <1>1 DEF ReadClosed, ReadFails, RunCancelled, RunnerTyped, CoordinatorType
<1>5. CASE coordinator.tasks = {}
  <2>1. /\ sideband' = [sideband EXCEPT !.at = "done", !.cancelled = FALSE, !.result = r]
        /\ request' = request
    BY <1>2, <1>5 DEF EndsWith
  <2>2. sideband' \in SidebandType /\ sideband'.at = "done"
    BY <1>1, <2>1 DEF RunnerTyped, SidebandType
  <2>3. RequestsSound'
    BY <1>1, <1>4, <1>5, <2>1, <2>2 DEF RequestsSound, OneTask
  <2>4. request' \in [Request -> RequestState]
    BY <1>1, <2>1 DEF RunnerTyped
  <2>5. QED
    BY <1>3, <1>4, <2>2, <2>3, <2>4, CoordinatorMoves
<1>6. CASE coordinator.tasks # {}
  <2>1. /\ sideband' = [sideband EXCEPT !.at = "draining", !.on = One(coordinator.tasks),
                               !.cancelled = FALSE, !.result = r]
        /\ DelegationsCancelled
    BY <1>2, <1>6 DEF EndsWith
  <2>2. /\ request' \in [Request -> RequestState]
        /\ \A d \in Request : request'[d] # "running"
        /\ One(coordinator.tasks) \in Request
    BY <1>6, <2>1, CancelledAll
  <2>3. sideband' \in SidebandType /\ sideband'.at = "draining"
    BY <1>1, <2>1, <2>2 DEF RunnerTyped, SidebandType
  <2>4. RequestsSound'
    BY <1>4, <2>2, <2>3 DEF RequestsSound, OneTask
  <2>5. QED
    BY <1>3, <1>4, <2>2, <2>3, <2>4, CoordinatorMoves
<1>7. QED
  BY <1>5, <1>6

\* The delegation that replaces another starts when that one has ended.
LEMMA RunResumesStep == ASSUME RunnerInv, RunResumes PROVE RunnerInv'
<1>1. RunnerTyped /\ OwnerSound /\ RequestsSound
  BY RunnerInvParts
<1>2. /\ owner' = owner /\ caller' = caller /\ leg' = leg
      /\ sideband.at \in {"superseding", "draining"}
  BY DEF RunResumes
<1>3. CASE sideband.at = "superseding"
  <2> DEFINE n == sideband.next
  <2>1. /\ request' = [request EXCEPT ![n] = "running"]
        /\ coordinator' = [coordinator EXCEPT !.tasks = {n}]
        /\ sideband' = [sideband EXCEPT !.at = "reading", !.cancelled = FALSE,
                                        !.on = NoRequestYet, !.next = NoRequestYet]
    BY <1>3 DEF RunResumes, RunAt
  <2>2. n \in Request
    BY <1>1, <1>3 DEF RequestsSound
  <2>3. sideband' \in SidebandType /\ sideband'.at = "reading"
    BY <1>1, <2>1 DEF RunnerTyped, SidebandType
  <2>4. coordinator' \in CoordinatorType /\ coordinator'.tasks = {n}
    BY <1>1, <2>1, <2>2 DEF RunnerTyped, CoordinatorType
  <2>5. /\ request' \in [Request -> RequestState]
        /\ \A d \in Request : request'[d] = "running" => d = n
    <3>1. \A d \in Request : request[d] # "running"
      BY <1>1, <1>3 DEF RequestsSound
    <3>2. QED
      BY <1>1, <2>1, <2>2, <3>1 DEF RunnerTyped, RequestState
  <2>6. RequestsSound'
    <3> HIDE DEF n
    <3>1. QED
      BY <2>2, <2>3, <2>4, <2>5 DEF RequestsSound, OneTask
  <2>7. QED
    BY <1>2, <2>3, <2>4, <2>5, <2>6, CoordinatorMoves
<1>4. CASE sideband.at = "draining"
  <2>1. /\ sideband' = [sideband EXCEPT !.at = "done", !.on = NoRequestYet, !.cancelled = FALSE]
        /\ request' = request /\ coordinator' = coordinator
    BY <1>4 DEF RunResumes, RunAt
  <2>2. sideband' \in SidebandType /\ sideband'.at = "done"
    BY <1>1, <2>1 DEF RunnerTyped, SidebandType, NoRequestYet
  <2>3. RequestsSound'
    BY <1>1, <1>4, <2>1, <2>2 DEF RequestsSound, OneTask
  <2>4. QED
    BY <1>1, <1>2, <2>1, <2>2, <2>3, CoordinatorMoves DEF RunnerTyped
<1>5. QED
  BY <1>2, <1>3, <1>4

LEMMA ReadDelegationStep ==
  ASSUME RunnerInv, NEW d \in Request, ReadDelegation(d)
  PROVE  RunnerInv'
<1>1. RunnerTyped /\ OwnerSound /\ RequestsSound
  BY RunnerInvParts
<1>2. /\ owner' = owner /\ caller' = caller /\ leg' = leg /\ sideband.at = "reading"
      /\ request[d] = "new"
  BY DEF ReadDelegation, Reads, RunAt
<1>3. CASE coordinator.requested
  <2>1. /\ request' = [request EXCEPT ![d] = "ended"]
        /\ sideband' = sideband /\ coordinator' = coordinator
    BY <1>3 DEF ReadDelegation
  <2>2. request' \in [Request -> RequestState] /\ RequestsSound'
    BY <1>1, <2>1 DEF RunnerTyped, RequestState, RequestsSound, OneTask
  <2>3. QED
    BY <1>1, <1>2, <2>1, <2>2, CoordinatorMoves DEF RunnerTyped
<1>4. CASE ~coordinator.requested /\ coordinator.tasks = {}
  <2>1. /\ request' = [request EXCEPT ![d] = "running"]
        /\ coordinator' = [coordinator EXCEPT !.tasks = {d}]
        /\ sideband' = sideband
    BY <1>4 DEF ReadDelegation
  <2>2. coordinator' \in CoordinatorType /\ coordinator'.tasks = {d}
    BY <1>1, <2>1 DEF RunnerTyped, CoordinatorType
  <2>3. request' \in [Request -> RequestState]
    BY <1>1, <2>1 DEF RunnerTyped, RequestState
  <2>4. \A e \in Request : request'[e] = "running" => e = d
    BY <1>1, <1>4, <2>1 DEF RunnerTyped, RequestsSound
  <2>5. RequestsSound'
    BY <1>2, <2>1, <2>2, <2>4 DEF RequestsSound, OneTask
  <2>6. QED
    BY <1>1, <1>2, <2>1, <2>2, <2>3, <2>5, CoordinatorMoves DEF RunnerTyped
<1>5. CASE ~coordinator.requested /\ coordinator.tasks # {}
  <2>1. /\ coordinator' = [coordinator EXCEPT !.tasks = {}]
        /\ DelegationsCancelled
        /\ sideband' = [sideband EXCEPT !.at = "superseding", !.next = d,
                                        !.on = One(coordinator.tasks)]
    BY <1>5 DEF ReadDelegation
  <2>2. /\ request' \in [Request -> RequestState]
        /\ \A e \in Request : request'[e] # "running"
        /\ One(coordinator.tasks) \in Request
    BY <1>5, <2>1, CancelledAll
  <2>3. sideband' \in SidebandType /\ sideband'.at = "superseding" /\ sideband'.next = d
    BY <1>1, <2>1, <2>2 DEF RunnerTyped, SidebandType
  <2>4. coordinator' \in CoordinatorType /\ coordinator'.tasks = {}
    BY <1>1, <2>1 DEF RunnerTyped, CoordinatorType
  <2>5. RequestsSound'
    BY <2>2, <2>3, <2>4 DEF RequestsSound, OneTask
  <2>6. QED
    BY <1>2, <2>2, <2>3, <2>4, <2>5, CoordinatorMoves
<1>6. QED
  BY <1>3, <1>4, <1>5

LEMMA DelegationEndsStep ==
  ASSUME RunnerInv, NEW d \in Request, DelegationEnds(d)
  PROVE  RunnerInv'
<1>1. RunnerTyped /\ OwnerSound /\ RequestsSound
  BY RunnerInvParts
<1>2. /\ owner' = owner /\ caller' = caller /\ leg' = leg /\ sideband' = sideband
      /\ request' = [request EXCEPT ![d] = "ended"]
      /\ coordinator' = [coordinator EXCEPT !.tasks = @ \ {d}]
  BY DEF DelegationEnds
<1>3. coordinator' \in CoordinatorType /\ coordinator'.tasks = coordinator.tasks \ {d}
  BY <1>1, <1>2 DEF RunnerTyped, CoordinatorType
<1>4. request' \in [Request -> RequestState]
  BY <1>1, <1>2 DEF RunnerTyped, RequestState
<1>5. RunnerTyped' /\ OwnerSound'
  BY <1>1, <1>2, <1>3, <1>4 DEF RunnerTyped, OwnerSound
<1>6. OneTask'
  BY <1>1, <1>3 DEF RequestsSound, OneTask
<1>7. \A e \in Request :
        request'[e] = "running" => e # d /\ e \in coordinator.tasks /\ sideband.at = "reading"
  BY <1>1, <1>2 DEF RunnerTyped, RequestsSound
<1>8. RequestsSound'
  BY <1>1, <1>2, <1>3, <1>6, <1>7 DEF RequestsSound
<1>9. QED
  BY <1>5, <1>8, RunnerInvNext

LEMMA RequestCloseStep ==
  ASSUME RunnerInv, NEW c \in Closer, RequestClose(c)
  PROVE  RunnerInv'
<1>1. RunnerTyped /\ OwnerSound /\ RequestsSound
  BY RunnerInvParts
<1>2. sideband' = sideband /\ leg' = leg
  BY DEF RequestClose
<1>3. CASE /\ caller' = [caller EXCEPT ![c] = After(c)]
           /\ owner' = owner \/ owner' = [owner EXCEPT !.remembered = TRUE]
           /\ coordinator' = coordinator /\ request' = request
  <2>1. caller' \in CallerType
    BY <1>1, <1>3, CallerMoves DEF RunnerTyped, NoRequestYet
  <2>2. owner' \in OwnerType /\ OwnerSound'
    BY <1>1, <1>2, <1>3 DEF RunnerTyped, OwnerType, OwnerSound
  <2>3. QED
    BY <1>1, <1>2, <1>3, <2>1, <2>2, RunnerRests DEF RunnerTyped
<1>4. CASE /\ coordinator' = [coordinator EXCEPT !.requested = TRUE, !.tasks = {}]
           /\ DelegationsCancelled
           /\ caller' = [caller EXCEPT ![c] = "sending",
                                       !.on[c] = IF coordinator.tasks = {} THEN NoRequestYet
                                                 ELSE One(coordinator.tasks)]
           /\ owner' = owner
  <2>1. /\ request' \in [Request -> RequestState]
        /\ \A d \in Request : request'[d] # "running"
        /\ coordinator.tasks # {} => One(coordinator.tasks) \in Request
    BY <1>4, CancelledAll
  <2>2. caller' \in CallerType
    BY <1>1, <1>4, <2>1, CallerMoves DEF RunnerTyped
  <2>3. coordinator' \in CoordinatorType /\ coordinator'.tasks = {}
    BY <1>1, <1>4 DEF RunnerTyped, CoordinatorType
  <2>4. RunnerTyped' /\ OwnerSound'
    BY <1>1, <1>2, <1>4, <2>1, <2>2, <2>3 DEF RunnerTyped, OwnerSound
  <2>5. RequestsSound'
    BY <1>1, <1>2, <2>1, <2>3 DEF RequestsSound, OneTask
  <2>6. QED
    BY <2>4, <2>5, RunnerInvNext
<1>5. QED
  BY <1>3, <1>4 DEF RequestClose

LEMMA CallerStep ==
  ASSUME RunnerInv,
         StopCalled \/ (\E c \in Closer : SendClose(c)) \/ DrainTimesOut \/ CallerReturns
  PROVE  RunnerInv'
<1>1. RunnerTyped /\ OwnerSound
  BY RunnerInvParts
<1>2. sideband' = sideband /\ leg' = leg /\ request' = request
  BY DEF StopCalled, SendClose, DrainTimesOut, CallerReturns
<1>3. owner' = owner \/ owner' = [owner EXCEPT !.cancelled = TRUE]
  BY DEF StopCalled, SendClose, DrainTimesOut, CallerReturns
<1>4. owner' \in OwnerType /\ OwnerSound'
  BY <1>1, <1>2, <1>3 DEF RunnerTyped, OwnerType, OwnerSound
<1>5. coordinator' \in CoordinatorType /\ coordinator'.tasks = coordinator.tasks
  BY <1>1 DEF StopCalled, SendClose, DrainTimesOut, CallerReturns, RunnerTyped, CoordinatorType
<1>6. caller' \in CallerType
  <2>1. CASE StopCalled \/ DrainTimesOut
    BY <1>1, <2>1 DEF StopCalled, DrainTimesOut, RunnerTyped, CallerType
  <2>2. CASE \E c \in Closer : SendClose(c)
    <3>1. PICK c \in Closer : caller' = [caller EXCEPT ![c] = After(c), !.on[c] = NoRequestYet]
      BY <2>2 DEF SendClose
    <3>2. NoRequestYet \in {NoRequestYet} \cup Request /\ caller \in CallerType
      BY <1>1 DEF RunnerTyped
    <3>3. QED
      BY <3>1, <3>2, CallerMoves
  <2>3. CASE CallerReturns
    BY <1>1, <2>3 DEF CallerReturns, RunnerTyped, CallerType
  <2>4. QED
    BY <2>1, <2>2, <2>3
<1>7. QED
  BY <1>1, <1>2, <1>4, <1>5, <1>6, RunnerRests DEF RunnerTyped

LEMMA RunnerInvStep == RunnerInv /\ [RunnerNext]_callRunner => RunnerInv'
<1> SUFFICES ASSUME RunnerInv, [RunnerNext]_callRunner PROVE RunnerInv'
  OBVIOUS
<1>1. CASE StartSession \/ StopCalled \/ \E c \in Closer : RequestClose(c)
  BY <1>1, OwnerSetsStep, CallerStep, RequestCloseStep
<1>2. CASE OwnerSteps
  BY <1>2, OwnerSetsStep, SupervisionStep, StoppingStep, DeadlineStep DEF OwnerSteps
<1>3. CASE CoordinatorSteps \/ ProviderSteps
  BY <1>3, RunEndsStep, RunResumesStep, ReadDelegationStep DEF CoordinatorSteps, ProviderSteps
<1>4. CASE CallerSteps
  BY <1>4, CallerStep DEF CallerSteps
<1>5. CASE \E d \in Request : DelegationEnds(d)
  BY <1>5, DelegationEndsStep
<1>6. CASE UNCHANGED callRunner
  BY <1>6, RunnerInvParts
     DEF callRunner, RunnerInv, RunnerTypeOK, OwnerSound, RequestsSound, OneTask, Closer
<1>7. QED
  BY <1>1, <1>2, <1>3, <1>4, <1>5, <1>6 DEF RunnerNext

LEMMA RunnerInvariant == RunnerSpec => []RunnerInv
BY RunnerInvInit, RunnerInvStep, PTL DEF RunnerSpec

\* However its setup, the deadline, stop and a shutdown meet, a session that is over was
\* confirmed by the provider or has dropped its leg, and no delegation of it still runs.
THEOREM RunnerEndsClean == RunnerSpec => [](RunnerTypeOK /\ SessionEndsClean)
<1>1. RunnerInv => RunnerTypeOK /\ SessionEndsClean
  BY DEF RunnerInv, OwnerSound, RequestsSound, SessionEndsClean, Owner
<1>2. QED
  BY <1>1, RunnerInvariant, PTL

-----------------------------------------------------------------------------
\* A call's delegated turns. Who routes or speaks has the dialogue's lock, so the words of a
\* turn are answered by nobody else meanwhile, and a turn is begun only while there is room
\* for its trace.

AnsweredCount == [times : Nat, lost : Nat]
WasAnswered(n) == n.times > n.lost
DelegatedSound(d) ==
  /\ delegated[d].at \in {"turn", "speaking"} => dialogue.lock = d
  /\ delegated[d].at = "turn" =>
       dialogue.traces < MaxTurnsPerCall /\ \A w \in delegated[d].parts : ~WasAnswered(answered[w])
LostAreTimes == \A w \in Fragment : answered[w].lost <= answered[w].times
PhoneTurnInv ==
  /\ PhoneTurnTypeOK /\ LostAreTimes
  /\ \A d \in Delegated : DelegatedSound(d)
  /\ PhoneWordsAnsweredOnce

DelegatedTask ==
  [at : {"new", "grace", "queued", "turn", "speaking", "ended"}, offset : Fragment \cup {0},
   parts : SUBSET Fragment, cancelled : BOOLEAN]
DialogueType ==
  [processed : SUBSET Fragment, traces : 0..MaxTurnsPerCall, lock : Delegated \cup {Nobody},
   closed : BOOLEAN]

LEMMA PhoneTurnInvInit == PhoneTurnInit => PhoneTurnInv
<1> SUFFICES ASSUME PhoneTurnInit PROVE PhoneTurnInv
  OBVIOUS
<1>1. {MaxFragments, MaxDelegated, MaxTurnsPerCall} \subseteq Nat
  BY PhoneTurnAssumption
<1>2. PhoneTurnTypeOK
  <2>1. dialogue \in DialogueType
    BY <1>1 DEF PhoneTurnInit, DialogueType, Nobody
  <2>2. delegated \in [Delegated -> DelegatedTask]
    BY DEF PhoneTurnInit, TaskOf, DelegatedTask
  <2>3. QED
    BY <2>1, <2>2 DEF PhoneTurnInit, PhoneTurnTypeOK, DialogueType, DelegatedTask, NoneReplaces
<1>3. PhoneWordsAnsweredOnce /\ LostAreTimes
  BY DEF PhoneTurnInit, PhoneWordsAnsweredOnce, LostAreTimes
<1>4. \A d \in Delegated : DelegatedSound(d)
  BY DEF PhoneTurnInit, DelegatedSound, TaskOf
<1>5. QED
  BY <1>2, <1>3, <1>4 DEF PhoneTurnInv

\* A step that answers nothing: each delegation goes on as it was, or enters, or takes the
\* lock while nobody has it.
LEMMA PhoneTurnQuiet ==
  ASSUME PhoneTurnInv, dialogue' \in DialogueType, delegated' \in [Delegated -> DelegatedTask],
         observed' \subseteq Fragment,
         replacing' \in [next : Delegated \cup {Nobody}, on : Delegated \cup {Nobody}],
         answered' = answered, dialogue'.traces = dialogue.traces,
         dialogue'.closed \/ (~dialogue.closed /\ dialogue'.processed = dialogue.processed),
         \A d \in Delegated :
           \/ delegated'[d].at \notin {"turn", "speaking"}
           \/ /\ delegated'[d].at = delegated[d].at /\ delegated'[d].parts = delegated[d].parts
              /\ delegated[d].at \in {"turn", "speaking"} /\ dialogue'.lock = dialogue.lock
           \/ /\ dialogue'.lock = d
              /\ delegated'[d].at = "turn" =>
                   /\ dialogue.traces < MaxTurnsPerCall
                   /\ \A w \in delegated'[d].parts : ~WasAnswered(answered[w])
  PROVE  PhoneTurnInv'
<1>1. PhoneTurnTypeOK'
  BY DEF PhoneTurnInv, PhoneTurnTypeOK, DialogueType, DelegatedTask
<1>2. PhoneWordsAnsweredOnce' /\ LostAreTimes'
  BY DEF PhoneTurnInv, PhoneWordsAnsweredOnce, LostAreTimes
<1>3. \A d \in Delegated : DelegatedSound(d)'
  BY DEF PhoneTurnInv, DelegatedSound
<1>4. QED
  BY <1>1, <1>2, <1>3 DEF PhoneTurnInv

LEMMA PhoneTurnTyped ==
  PhoneTurnInv =>
    /\ dialogue \in DialogueType /\ delegated \in [Delegated -> DelegatedTask]
    /\ observed \subseteq Fragment
    /\ replacing \in [next : Delegated \cup {Nobody}, on : Delegated \cup {Nobody}]
    /\ answered \in [Fragment -> AnsweredCount]
BY DEF PhoneTurnInv, PhoneTurnTypeOK, DialogueType, DelegatedTask, AnsweredCount

LEMMA DelegatedMoves ==
  ASSUME delegated \in [Delegated -> DelegatedTask], NEW d \in Delegated
  PROVE  Rests(d) \in [Delegated -> DelegatedTask] /\ Rests(d)[d].at = "ended"
         /\ \A e \in Delegated \ {d} : Rests(d)[e] = delegated[e]
BY DEF Rests, TaskOf, DelegatedTask

LEMMA CreatedType ==
  ASSUME NEW o \in Fragment \cup {0}
  PROVE  Created(o) \in DelegatedTask /\ Created(o).at = "grace"
         /\ [TaskOf("new") EXCEPT !.offset = o] \in DelegatedTask
         /\ [TaskOf("new") EXCEPT !.offset = o].at = "new"
BY DEF Created, TaskOf, DelegatedTask

LEMMA CoordinatorReads ==
  ASSUME PhoneTurnInv,
         \/ \E w \in Fragment : Observe(w)
         \/ CancelDelegations
         \/ Replaced
         \/ \E d \in Delegated : ReadRequest(d)
  PROVE  PhoneTurnInv'
<1>1. dialogue' = dialogue /\ answered' = answered
  BY DEF Observe, CancelDelegations, Replaced, ReadRequest
<1>2. /\ dialogue \in DialogueType /\ delegated \in [Delegated -> DelegatedTask]
      /\ observed \subseteq Fragment
      /\ replacing \in [next : Delegated \cup {Nobody}, on : Delegated \cup {Nobody}]
  BY PhoneTurnTyped
<1>3. /\ observed' \subseteq Fragment
      /\ replacing' \in [next : Delegated \cup {Nobody}, on : Delegated \cup {Nobody}]
  <2>1. CASE Replaced
    BY <1>2, <2>1 DEF Replaced, NoneReplaces
  <2>2. CASE (\E w \in Fragment : Observe(w)) \/ CancelDelegations
    BY <1>2, <2>2 DEF Observe, CancelDelegations
  <2>3. CASE \E d \in Delegated : ReadRequest(d)
    BY <1>2, <2>3 DEF ReadRequest, Running
  <2>4. QED
    BY <2>1, <2>2, <2>3
<1>4. /\ delegated' \in [Delegated -> DelegatedTask]
      /\ \A d \in Delegated :
           \/ delegated'[d].at \notin {"turn", "speaking"}
           \/ delegated'[d].at = delegated[d].at /\ delegated'[d].parts = delegated[d].parts
  <2> DEFINE Cancelled(d) == [delegated[d] EXCEPT !.cancelled = TRUE]
  <2>1. \A d \in Delegated : /\ Cancelled(d) \in DelegatedTask
                             /\ Cancelled(d).at = delegated[d].at
                             /\ Cancelled(d).parts = delegated[d].parts
    BY <1>2 DEF DelegatedTask
  <2>2. CASE \E w \in Fragment : Observe(w)
    BY <1>2, <2>2 DEF Observe
  <2>3. CASE CancelDelegations
    <3>1. delegated' = [d \in Delegated |-> IF d \in Running THEN Cancelled(d) ELSE delegated[d]]
      BY <2>3 DEF CancelDelegations
    <3> HIDE DEF Cancelled
    <3>2. QED
      BY <1>2, <2>1, <3>1
  <2>4. CASE Replaced
    <3> DEFINE c == Created(delegated[replacing.next].offset)
    <3>1. CASE replacing.next \in Delegated
      <4>1. c \in DelegatedTask /\ c.at = "grace"
        BY <1>2, <3>1, CreatedType DEF DelegatedTask
      <4>2. delegated' = [delegated EXCEPT ![replacing.next] = c]
        BY <2>4 DEF Replaced
      <4> HIDE DEF c
      <4>3. QED
        BY <1>2, <3>1, <4>1, <4>2
    <3>2. CASE replacing.next \notin Delegated
      BY <1>2, <2>4, <3>2 DEF Replaced
    <3>3. QED
      BY <3>1, <3>2
  <2>5. CASE \E d \in Delegated : ReadRequest(d)
    <3>1. PICK d \in Delegated, offset \in Fragment :
            \/ delegated' = [delegated EXCEPT ![d] = Created(offset)]
            \/ delegated' = [e \in Delegated |->
                  IF e \in Running THEN Cancelled(e)
                  ELSE IF e = d THEN [TaskOf("new") EXCEPT !.offset = offset]
                  ELSE delegated[e]]
      BY <2>5 DEF ReadRequest
    <3>2. /\ Created(offset) \in DelegatedTask /\ Created(offset).at = "grace"
          /\ [TaskOf("new") EXCEPT !.offset = offset] \in DelegatedTask
          /\ [TaskOf("new") EXCEPT !.offset = offset].at = "new"
      BY CreatedType
    <3> HIDE DEF Cancelled
    <3>3. CASE delegated' = [delegated EXCEPT ![d] = Created(offset)]
      BY <1>2, <3>2, <3>3
    <3>4. CASE delegated' = [e \in Delegated |->
                  IF e \in Running THEN Cancelled(e)
                  ELSE IF e = d THEN [TaskOf("new") EXCEPT !.offset = offset]
                  ELSE delegated[e]]
      <4> DEFINE n == [TaskOf("new") EXCEPT !.offset = offset]
      <4>1. n \in DelegatedTask /\ n.at = "new"
        BY <3>2
      <4>2. delegated' = [e \in Delegated |->
                  IF e \in Running THEN Cancelled(e) ELSE IF e = d THEN n ELSE delegated[e]]
        BY <3>4
      <4> HIDE DEF n
      <4>3. QED
        BY <1>2, <2>1, <4>1, <4>2
    <3>5. QED
      BY <3>1, <3>3, <3>4
  <2>6. QED
    BY <2>2, <2>3, <2>4, <2>5
<1>5. \A d \in Delegated :
        \/ delegated'[d].at \notin {"turn", "speaking"}
        \/ /\ delegated'[d].at = delegated[d].at /\ delegated'[d].parts = delegated[d].parts
           /\ delegated[d].at \in {"turn", "speaking"} /\ dialogue'.lock = dialogue.lock
  BY <1>1, <1>4
<1>6. dialogue' \in DialogueType
      /\ (dialogue'.closed \/ (~dialogue.closed /\ dialogue'.processed = dialogue.processed))
  BY <1>1, <1>2 DEF DialogueType
<1>7. QED
  BY <1>1, <1>3, <1>4, <1>5, <1>6, PhoneTurnQuiet

\* Nobody else routes or speaks while a delegation has the lock, or while it is collected.
LEMMA LockIsHis ==
  ASSUME PhoneTurnInv, NEW d \in Delegated, dialogue.lock = d
  PROVE  \A e \in Delegated \ {d} : delegated[e].at \notin {"turn", "speaking"}
BY DEF PhoneTurnInv, DelegatedSound

LEMMA DialogueChanges ==
  ASSUME PhoneTurnInv, FinishDialogue \/ Collected
  PROVE  PhoneTurnInv'
<1>1. /\ dialogue \in DialogueType /\ delegated \in [Delegated -> DelegatedTask]
      /\ observed \subseteq Fragment
      /\ replacing \in [next : Delegated \cup {Nobody}, on : Delegated \cup {Nobody}]
  BY PhoneTurnTyped
<1>2. observed' = observed /\ delegated' = delegated /\ replacing' = replacing
        /\ answered' = answered
  BY DEF FinishDialogue, Collected
<1>3. dialogue' \in DialogueType /\ dialogue'.traces = dialogue.traces
  BY <1>1 DEF FinishDialogue, Collected, DialogueType
<1>4. dialogue'.closed \/ (~dialogue.closed /\ dialogue'.processed = dialogue.processed)
  BY <1>1 DEF FinishDialogue, Collected, DialogueType
<1>5. \A d \in Delegated :
        delegated[d].at \in {"turn", "speaking"} => dialogue'.lock = dialogue.lock
  <2>1. CASE FinishDialogue
    BY <1>1, <2>1 DEF FinishDialogue, DialogueType
  <2>2. CASE Collected
    <3>1. dialogue.lock \in Delegated /\ delegated[dialogue.lock].at = "ended"
      BY <1>1, <2>2 DEF Collected, DialogueType
    <3>2. QED
      BY <3>1, LockIsHis
  <2>3. QED
    BY <2>1, <2>2
<1>6. \A d \in Delegated :
        \/ delegated'[d].at \notin {"turn", "speaking"}
        \/ /\ delegated'[d].at = delegated[d].at /\ delegated'[d].parts = delegated[d].parts
           /\ delegated[d].at \in {"turn", "speaking"} /\ dialogue'.lock = dialogue.lock
  BY <1>2, <1>5
<1>7. QED
  BY <1>1, <1>2, <1>3, <1>4, <1>6, PhoneTurnQuiet

Unlocked == [dialogue EXCEPT !.lock = Nobody]

\* A delegation rests, and gives back the lock or not.
LEMMA RestsStep ==
  ASSUME PhoneTurnInv, NEW d \in Delegated, delegated' = Rests(d), observed' = observed,
         replacing' = replacing, answered' = answered,
         dialogue' = dialogue \/ (dialogue.lock = d /\ dialogue' = Unlocked)
  PROVE  PhoneTurnInv'
<1>1. /\ dialogue \in DialogueType /\ delegated \in [Delegated -> DelegatedTask]
      /\ observed \subseteq Fragment
      /\ replacing \in [next : Delegated \cup {Nobody}, on : Delegated \cup {Nobody}]
  BY PhoneTurnTyped
<1>2. dialogue' \in DialogueType /\ dialogue'.traces = dialogue.traces
      /\ dialogue'.closed = dialogue.closed /\ dialogue'.processed = dialogue.processed
  BY <1>1 DEF DialogueType, Unlocked
<1>3. dialogue'.closed \/ (~dialogue.closed /\ dialogue'.processed = dialogue.processed)
  BY <1>2
<1>4. delegated' \in [Delegated -> DelegatedTask] /\ delegated'[d].at = "ended"
         /\ \A e \in Delegated \ {d} : delegated'[e] = delegated[e]
  BY <1>1, DelegatedMoves
<1>5. \A e \in Delegated \ {d} :
        delegated[e].at \in {"turn", "speaking"} => dialogue'.lock = dialogue.lock
  BY LockIsHis
<1>6. \A e \in Delegated :
        \/ delegated'[e].at \notin {"turn", "speaking"}
        \/ /\ delegated'[e].at = delegated[e].at /\ delegated'[e].parts = delegated[e].parts
           /\ delegated[e].at \in {"turn", "speaking"} /\ dialogue'.lock = dialogue.lock
  BY <1>4, <1>5
<1>7. QED
  BY <1>1, <1>2, <1>3, <1>4, <1>6, PhoneTurnQuiet

LEMMA SnapshotStep ==
  ASSUME PhoneTurnInv, NEW d \in Delegated, Snapshot(d)
  PROVE  PhoneTurnInv'
<1>1. /\ dialogue \in DialogueType /\ delegated \in [Delegated -> DelegatedTask]
      /\ observed \subseteq Fragment
      /\ replacing \in [next : Delegated \cup {Nobody}, on : Delegated \cup {Nobody}]
  BY PhoneTurnTyped
<1>2. observed' = observed /\ dialogue' = dialogue /\ replacing' = replacing
        /\ answered' = answered
  BY DEF Snapshot, Aside
<1>3. CASE dialogue.closed
  <2>1. delegated' = Rests(d)
    BY <1>3 DEF Snapshot
  <2>2. dialogue' = dialogue \/ (dialogue.lock = d /\ dialogue' = Unlocked)
    BY <1>2
  <2>3. observed' = observed /\ replacing' = replacing /\ answered' = answered
    BY <1>2
  <2>4. QED
    BY <2>1, <2>2, <2>3, RestsStep
<1>4. CASE ~dialogue.closed
  <2> DEFINE heard == {w \in observed : w <= delegated[d].offset}
  <2> DEFINE q == [delegated[d] EXCEPT !.at = "queued", !.parts = heard]
  <2>1. heard \subseteq Fragment
    BY <1>1
  <2> HIDE DEF heard
  <2>2. q \in DelegatedTask /\ q.at = "queued"
    BY <1>1, <2>1 DEF DelegatedTask
  <2>3. delegated' = [delegated EXCEPT ![d] = q]
    BY <1>1, <1>4 DEF Snapshot, heard, DelegatedTask
  <2> HIDE DEF q
  <2>4. delegated' \in [Delegated -> DelegatedTask]
    BY <1>1, <2>2, <2>3
  <2>5. \A e \in Delegated :
        \/ delegated'[e].at \notin {"turn", "speaking"}
        \/ /\ delegated'[e].at = delegated[e].at /\ delegated'[e].parts = delegated[e].parts
           /\ delegated[e].at \in {"turn", "speaking"} /\ dialogue'.lock = dialogue.lock
    BY <1>1, <1>2, <2>2, <2>3
  <2>6. dialogue'.closed \/ (~dialogue.closed /\ dialogue'.processed = dialogue.processed)
    BY <1>2, <1>4
  <2>7. QED
    BY <1>1, <1>2, <2>4, <2>5, <2>6, PhoneTurnQuiet
<1>5. QED
  BY <1>3, <1>4

LEMMA EnterStep ==
  ASSUME PhoneTurnInv, NEW d \in Delegated, Enter(d)
  PROVE  PhoneTurnInv'
<1>1. /\ dialogue \in DialogueType /\ delegated \in [Delegated -> DelegatedTask]
      /\ observed \subseteq Fragment /\ answered \in [Fragment -> AnsweredCount]
      /\ replacing \in [next : Delegated \cup {Nobody}, on : Delegated \cup {Nobody}]
  BY PhoneTurnTyped
<1>2. observed' = observed /\ replacing' = replacing /\ answered' = answered
        /\ dialogue.lock = Nobody
  BY DEF Enter, Aside
<1>3. CASE dialogue.closed
  <2>1. delegated' = Rests(d) /\ dialogue' = dialogue
    BY <1>3 DEF Enter
  <2>2. QED
    BY <1>2, <2>1, RestsStep
<1>4. CASE ~dialogue.closed
  <2> DEFINE routes == Unprocessed(d) # {} /\ dialogue.traces < MaxTurnsPerCall
             now == IF routes THEN Unprocessed(d) ELSE {}
             goes == IF routes THEN "turn" ELSE "speaking"
             q == [delegated[d] EXCEPT !.parts = now, !.at = goes]
  <2>1. dialogue' = [dialogue EXCEPT !.lock = d]
    BY <1>4 DEF Enter
  <2>2. delegated' = [delegated EXCEPT ![d] = q]
    BY <1>1, <1>4 DEF Enter, DelegatedTask
  <2>3. now \subseteq Fragment /\ goes \in {"turn", "speaking"}
    BY <1>1 DEF Unprocessed, DelegatedTask
  <2>4. goes = "turn" =>
          dialogue.traces < MaxTurnsPerCall /\ \A w \in now : ~WasAnswered(answered[w])
    <3>1. \A w \in Unprocessed(d) : ~WasAnswered(answered[w])
      BY <1>1, <1>4
         DEF Unprocessed, PhoneTurnInv, PhoneWordsAnsweredOnce, DelegatedTask, WasAnswered
    <3>2. QED
      BY <3>1
  <2> HIDE DEF routes, now, goes
  <2>5. q \in DelegatedTask /\ q.at = goes /\ q.parts = now
    BY <1>1, <2>3 DEF DelegatedTask
  <2> HIDE DEF q
  <2>6. delegated' \in [Delegated -> DelegatedTask] /\ delegated'[d] = q
        /\ \A e \in Delegated \ {d} : delegated'[e] = delegated[e]
    BY <1>1, <2>2, <2>5
  <2>7. \A e \in Delegated : delegated[e].at \notin {"turn", "speaking"}
    BY <1>2, PhoneTurnAssumption DEF PhoneTurnInv, DelegatedSound, Nobody, Delegated
  <2>8. dialogue' \in DialogueType /\ dialogue'.lock = d /\ dialogue'.traces = dialogue.traces
        /\ dialogue'.processed = dialogue.processed
    BY <1>1, <2>1 DEF DialogueType
  <2>9. \A e \in Delegated :
          \/ delegated'[e].at \notin {"turn", "speaking"}
          \/ /\ dialogue'.lock = e
             /\ delegated'[e].at = "turn" =>
                  /\ dialogue.traces < MaxTurnsPerCall
                  /\ \A w \in delegated'[e].parts : ~WasAnswered(answered[w])
    BY <2>4, <2>5, <2>6, <2>7, <2>8
  <2>10. QED
    BY <1>1, <1>2, <1>4, <2>6, <2>8, <2>9, PhoneTurnQuiet
<1>5. QED
  BY <1>3, <1>4

\* What an answer adds to the counts of its words, which were not answered before.
LEMMA AnswersCount ==
  ASSUME PhoneTurnInv, NEW d \in Delegated, NEW noone \in BOOLEAN, Answers(d, noone),
         \A w \in delegated[d].parts : ~WasAnswered(answered[w])
  PROVE  /\ answered' \in [Fragment -> AnsweredCount]
         /\ \A w \in Fragment : answered'[w].times <= 1 + answered'[w].lost
         /\ LostAreTimes'
         /\ \A w \in Fragment : WasAnswered(answered'[w]) <=>
              WasAnswered(answered[w]) \/ (w \in delegated[d].parts /\ ~noone)
<1>1. answered \in [Fragment -> AnsweredCount]
  BY PhoneTurnTyped
<1>2. answered' = [w \in Fragment |-> IF w \in delegated[d].parts
                                     THEN AnsweredTo(answered[w], noone) ELSE answered[w]]
  BY DEF Answers
<1>3. ASSUME NEW w \in Fragment
      PROVE  /\ answered'[w] \in AnsweredCount
             /\ answered'[w].times <= 1 + answered'[w].lost
             /\ answered'[w].lost <= answered'[w].times
             /\ WasAnswered(answered'[w]) <=>
                  WasAnswered(answered[w]) \/ (w \in delegated[d].parts /\ ~noone)
  <2>1. /\ answered[w] \in AnsweredCount /\ answered[w].times \in Nat /\ answered[w].lost \in Nat
        /\ answered[w].times <= 1 + answered[w].lost /\ answered[w].lost <= answered[w].times
    BY <1>1 DEF AnsweredCount, PhoneTurnInv, PhoneWordsAnsweredOnce, LostAreTimes
  <2>2. CASE w \notin delegated[d].parts
    BY <1>2, <2>1, <2>2
  <2>3. CASE w \in delegated[d].parts
    <3>1. answered'[w] = AnsweredTo(answered[w], noone)
      BY <1>2, <2>3
    <3>2. answered[w].times <= answered[w].lost
      BY <2>1, <2>3 DEF WasAnswered
    <3>3. CASE noone
      <4>1. answered'[w] = [times |-> answered[w].times + 1, lost |-> answered[w].lost + 1]
        BY <3>1, <3>3 DEF AnsweredTo
      <4>2. /\ answered'[w] \in AnsweredCount
            /\ answered'[w].times = answered[w].times + 1
            /\ answered'[w].lost = answered[w].lost + 1
        BY <2>1, <4>1 DEF AnsweredCount
      <4>3. /\ answered'[w].times <= 1 + answered'[w].lost
            /\ answered'[w].lost <= answered'[w].times
        BY <2>1, <3>2, <4>2
      <4>4. ~WasAnswered(answered'[w]) /\ ~WasAnswered(answered[w])
        BY <2>1, <3>2, <4>2 DEF WasAnswered
      <4>5. QED
        BY <2>3, <3>3, <4>2, <4>3, <4>4
    <3>4. CASE ~noone
      <4>1. answered'[w] = [times |-> answered[w].times + 1, lost |-> answered[w].lost]
        BY <3>1, <3>4 DEF AnsweredTo
      <4>2. /\ answered'[w] \in AnsweredCount
            /\ answered'[w].times = answered[w].times + 1
            /\ answered'[w].lost = answered[w].lost
        BY <2>1, <4>1 DEF AnsweredCount
      <4>3. /\ answered'[w].times <= 1 + answered'[w].lost
            /\ answered'[w].lost <= answered'[w].times
        BY <2>1, <3>2, <4>2
      <4>4. WasAnswered(answered'[w]) /\ ~WasAnswered(answered[w])
        BY <2>1, <3>2, <4>2 DEF WasAnswered
      <4>5. QED
        BY <2>3, <3>4, <4>2, <4>3, <4>4
    <3>5. QED
      BY <3>3, <3>4
  <2>4. QED
    BY <2>2, <2>3
<1>4. QED
  BY <1>2, <1>3 DEF LostAreTimes

\* The turn's words are answered, for a task that takes the answer.
LEMMA AnswersStep ==
  ASSUME PhoneTurnInv, NEW d \in Delegated, TurnAnswers(d) \/ TurnApologises(d)
  PROVE  PhoneTurnInv'
<1>1. /\ dialogue \in DialogueType /\ delegated \in [Delegated -> DelegatedTask]
      /\ observed \subseteq Fragment /\ answered \in [Fragment -> AnsweredCount]
      /\ replacing \in [next : Delegated \cup {Nobody}, on : Delegated \cup {Nobody}]
  BY PhoneTurnTyped
<1>2. observed' = observed /\ replacing' = replacing /\ delegated[d].at = "turn" /\ Answers(d, FALSE)
  BY DEF TurnAnswers, TurnApologises, Aside
<1>3. /\ dialogue.lock = d /\ dialogue.traces < MaxTurnsPerCall
      /\ \A w \in delegated[d].parts : ~WasAnswered(answered[w])
      /\ \A e \in Delegated \ {d} : delegated[e].at \notin {"turn", "speaking"}
  BY <1>2, LockIsHis DEF PhoneTurnInv, DelegatedSound
<1>4. /\ answered' \in [Fragment -> AnsweredCount] /\ LostAreTimes'
      /\ \A w \in Fragment : answered'[w].times <= 1 + answered'[w].lost
      /\ ~dialogue.closed =>
           dialogue.processed \cup delegated[d].parts =
             {w \in Fragment : answered'[w].times > answered'[w].lost}
  <2>1. /\ answered' \in [Fragment -> AnsweredCount] /\ LostAreTimes'
        /\ \A w \in Fragment : answered'[w].times <= 1 + answered'[w].lost
        /\ \A w \in Fragment : WasAnswered(answered'[w]) <=>
             WasAnswered(answered[w]) \/ w \in delegated[d].parts
    BY <1>2, <1>3, AnswersCount
  <2>2. delegated[d].parts \subseteq Fragment
    BY <1>1 DEF DelegatedTask
  <2>3. QED
    BY <2>1, <2>2 DEF PhoneTurnInv, PhoneWordsAnsweredOnce, WasAnswered
<1>5. CASE dialogue' = Marked(delegated[d].parts)
           /\ delegated' = [delegated EXCEPT ![d].at = "speaking"]
  <2>1. dialogue.traces + 1 \in 0..MaxTurnsPerCall
    BY <1>1, <1>3, PhoneTurnAssumption DEF DialogueType
  <2>2. delegated[d].parts \subseteq Fragment
    BY <1>1 DEF DelegatedTask
  <2>3. /\ dialogue' \in DialogueType /\ dialogue'.lock = d
        /\ dialogue'.processed = dialogue.processed \cup delegated[d].parts
        /\ dialogue'.closed = dialogue.closed
    BY <1>1, <1>3, <1>5, <2>1, <2>2 DEF Marked, DialogueType
  <2>4. delegated' \in [Delegated -> DelegatedTask] /\ delegated'[d].at = "speaking"
        /\ \A e \in Delegated \ {d} : delegated'[e] = delegated[e]
    BY <1>1, <1>5 DEF DelegatedTask
  <2>5. \A e \in Delegated : DelegatedSound(e)'
    BY <1>3, <2>3, <2>4 DEF DelegatedSound
  <2>6. PhoneWordsAnsweredOnce'
    BY <1>4, <2>3 DEF PhoneWordsAnsweredOnce
  <2>7. QED
    BY <1>1, <1>2, <1>4, <2>3, <2>4, <2>5, <2>6
       DEF PhoneTurnInv, PhoneTurnTypeOK, DialogueType, DelegatedTask, AnsweredCount
<1>6. CASE /\ dialogue.closed /\ dialogue' = [dialogue EXCEPT !.lock = Nobody]
           /\ delegated' = Rests(d)
  <2>1. dialogue' \in DialogueType /\ dialogue'.closed
    BY <1>1, <1>6 DEF DialogueType
  <2>2. delegated' \in [Delegated -> DelegatedTask] /\ delegated'[d].at = "ended"
         /\ \A e \in Delegated \ {d} : delegated'[e] = delegated[e]
    BY <1>1, <1>6, DelegatedMoves
  <2>3. \A e \in Delegated : DelegatedSound(e)'
    BY <1>3, <2>2 DEF DelegatedSound
  <2>4. PhoneWordsAnsweredOnce'
    BY <1>4, <2>1 DEF PhoneWordsAnsweredOnce
  <2>5. QED
    BY <1>1, <1>2, <1>4, <2>1, <2>2, <2>3, <2>4
       DEF PhoneTurnInv, PhoneTurnTypeOK, DialogueType, DelegatedTask, AnsweredCount
<1>7. QED
  BY <1>5, <1>6 DEF TurnAnswers, TurnApologises

\* A turn commits for a task that ends: the words count as unanswered, and stay unprocessed.
LEMMA CommitsStep ==
  ASSUME PhoneTurnInv, NEW d \in Delegated, CommitsCancelled(d)
  PROVE  PhoneTurnInv'
<1>1. /\ dialogue \in DialogueType /\ delegated \in [Delegated -> DelegatedTask]
      /\ observed \subseteq Fragment /\ answered \in [Fragment -> AnsweredCount]
      /\ replacing \in [next : Delegated \cup {Nobody}, on : Delegated \cup {Nobody}]
  BY PhoneTurnTyped
<1>2. /\ observed' = observed /\ replacing' = replacing /\ delegated[d].at = "turn"
      /\ Answers(d, TRUE) /\ delegated' = Rests(d)
      /\ dialogue' = [dialogue EXCEPT !.lock = Nobody]
  BY DEF CommitsCancelled, Aside
<1>3. /\ \A w \in delegated[d].parts : ~WasAnswered(answered[w])
      /\ dialogue.lock = d
      /\ \A e \in Delegated \ {d} : delegated[e].at \notin {"turn", "speaking"}
  BY <1>2, LockIsHis DEF PhoneTurnInv, DelegatedSound
<1>4. /\ answered' \in [Fragment -> AnsweredCount] /\ LostAreTimes'
      /\ \A w \in Fragment : answered'[w].times <= 1 + answered'[w].lost
      /\ \A w \in Fragment : WasAnswered(answered'[w]) <=> WasAnswered(answered[w])
  BY <1>2, <1>3, AnswersCount
<1>5. /\ dialogue' \in DialogueType /\ dialogue'.closed = dialogue.closed
      /\ dialogue'.processed = dialogue.processed
  BY <1>1, <1>2 DEF DialogueType
<1>6. delegated' \in [Delegated -> DelegatedTask] /\ delegated'[d].at = "ended"
      /\ \A e \in Delegated \ {d} : delegated'[e] = delegated[e]
  BY <1>1, <1>2, DelegatedMoves
<1>7. \A e \in Delegated : DelegatedSound(e)'
  BY <1>3, <1>6 DEF DelegatedSound
<1>8. PhoneWordsAnsweredOnce'
  BY <1>4, <1>5 DEF PhoneTurnInv, PhoneWordsAnsweredOnce, WasAnswered
<1>9. QED
  BY <1>1, <1>2, <1>4, <1>5, <1>6, <1>7, <1>8
     DEF PhoneTurnInv, PhoneTurnTypeOK, DialogueType, DelegatedTask, AnsweredCount

LEMMA SpeaksStep ==
  ASSUME PhoneTurnInv, NEW d \in Delegated, Spoken(d) \/ TurnCancelled(d)
  PROVE  PhoneTurnInv'
<1>1. observed' = observed /\ replacing' = replacing /\ answered' = answered
        /\ delegated' = Rests(d)
  BY DEF Spoken, TurnCancelled, Aside
<1>2. dialogue' = dialogue \/ (dialogue.lock = d /\ dialogue' = Unlocked)
  <2>1. CASE Spoken(d)
    <3>1. dialogue.lock = d
      BY <2>1 DEF Spoken, PhoneTurnInv, DelegatedSound
    <3>2. QED
      BY <2>1, <3>1 DEF Spoken, Unlocked
  <2>2. CASE TurnCancelled(d)
    BY <2>2 DEF TurnCancelled, Unlocked
  <2>3. QED
    BY <2>1, <2>2
<1>3. QED
  BY <1>1, <1>2, RestsStep

LEMMA PhoneTurnInvStep == PhoneTurnInv /\ [PhoneTurnNext]_phoneTurn => PhoneTurnInv'
<1> SUFFICES ASSUME PhoneTurnInv, [PhoneTurnNext]_phoneTurn PROVE PhoneTurnInv'
  OBVIOUS
<1>1. CASE (\E w \in Fragment : Observe(w)) \/ Replaced \/ CancelDelegations
  BY <1>1, CoordinatorReads
<1>2. CASE FinishDialogue \/ Collected
  BY <1>2, DialogueChanges
<1>3. ASSUME NEW d \in Delegated,
             \/ ReadRequest(d) \/ Snapshot(d) \/ Enter(d)
             \/ TurnAnswers(d) \/ TurnApologises(d) \/ Spoken(d) \/ TurnCancelled(d)
             \/ CommitsCancelled(d)
      PROVE  PhoneTurnInv'
  BY <1>3, CoordinatorReads, SnapshotStep, EnterStep, AnswersStep, SpeaksStep, CommitsStep
<1>4. CASE UNCHANGED phoneTurn
  BY <1>4 DEF phoneTurn, PhoneTurnInv, PhoneTurnTypeOK, PhoneWordsAnsweredOnce, DelegatedSound,
               LostAreTimes
<1>5. QED
  BY <1>1, <1>2, <1>3, <1>4 DEF PhoneTurnNext

LEMMA PhoneTurnInvariant == PhoneTurnSpec => []PhoneTurnInv
BY PhoneTurnInvInit, PhoneTurnInvStep, PTL DEF PhoneTurnSpec

\* Whatever is replaced, late, ahead or cancelled, a caller's words are part of one turn or
\* one apology, and of one more for each turn that committed for a task that had ended (a
\* cancellation lost in the inner wait_for, which the code can meet); while the call lasts
\* they count as processed exactly if a task took an answer to them.
THEOREM PhoneWordsOnce == PhoneTurnSpec => [](PhoneTurnTypeOK /\ PhoneWordsAnsweredOnce)
<1>1. PhoneTurnInv => PhoneTurnTypeOK /\ PhoneWordsAnsweredOnce
  BY DEF PhoneTurnInv
<1>2. QED
  BY <1>1, PhoneTurnInvariant, PTL
=============================================================================
