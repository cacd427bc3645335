----------------------------- MODULE VoiceProofs -----------------------------
(***************************************************************************)
(* Proofs about the components that stream voice: the proxy to a Realtime  *)
(* session, the pipeline of voice turns, the transcriber and the live      *)
(* bridge.                                                                 *)
(***************************************************************************)
EXTENDS RealtimeBridge, VoicePipeline, Transcription, Live, FiniteSetTheorems, SequenceTheorems,
        WellFoundedInduction, TLAPS

-----------------------------------------------------------------------------
\* The proxy's tool rounds. A call that no input has made stale was counted in toolRounds,
\* and its continuation has not been asked for yet; whether it may be was decided with the
\* count it has now.

BridgeInv ==
  /\ BridgeTypeOK
  /\ toolRounds <= bridged.calls
  /\ continued <= toolRounds
  /\ continued <= MaxToolRounds
  /\ bridge.down \in {"handling", "output"} /\ toolCall.fresh =>
        continued < toolRounds /\ toolCall.within = WithinBudget(toolRounds)

LEMMA BridgeInvInit == BridgeInit => BridgeInv
BY BridgeAssumption DEF BridgeInit, BridgeInv, BridgeTypeOK, NoToolCall

\* The type of the bridge's records, for the steps below.
BridgeType ==
  [up : {"receiving", "forwarding", "over"}, open : BOOLEAN,
   down : {"receiving", "handling", "output", "delivering", "over"}]

LEMMA BridgeInvStep == BridgeInv /\ [BridgeNext]_realtime => BridgeInv'
<1> SUFFICES ASSUME BridgeInv, [BridgeNext]_realtime PROVE BridgeInv'
  OBVIOUS
<1>1. {MaxToolRounds, MaxToolCalls, MaxClientInputs} \subseteq Nat
  BY BridgeAssumption
<1>2. /\ bridge \in BridgeType /\ toolRounds \in Nat /\ continued \in Nat
      /\ toolCall \in [within : BOOLEAN, fresh : BOOLEAN]
      /\ bridged \in [calls : 0..MaxToolCalls, inputs : 0..MaxClientInputs]
  BY <1>1 DEF BridgeInv, BridgeTypeOK, BridgeType
<1>3. CASE ClientSpeaks
  <2>1. bridge' \in BridgeType /\ bridge'.down = bridge.down
    BY <1>2, <1>3 DEF ClientSpeaks, BridgeType
  <2>2. bridged' \in [calls : 0..MaxToolCalls, inputs : 0..MaxClientInputs]
        /\ bridged'.calls = bridged.calls
    BY <1>1, <1>2, <1>3 DEF ClientSpeaks
  <2>3. toolCall' \in [within : BOOLEAN, fresh : BOOLEAN] /\ toolCall'.fresh = FALSE
        /\ toolRounds' = 0 /\ continued' = 0
    BY <1>2, <1>3 DEF ClientSpeaks
  <2>4. QED
    BY <1>1, <1>2, <2>1, <2>2, <2>3 DEF BridgeInv, BridgeTypeOK, BridgeType
<1>4. CASE ClientAsks \/ Forwarded \/ ModelSpeaks \/ ToolEnds
  <2>1. bridge' \in BridgeType /\ (bridge'.down = bridge.down \/ bridge'.down = "delivering"
                                    \/ bridge.down = "handling")
    BY <1>2, <1>4 DEF ClientAsks, Forwarded, ModelSpeaks, ToolEnds, BridgeType
  <2>2. toolRounds' = toolRounds /\ toolCall' = toolCall /\ bridged' = bridged
        /\ continued' = continued
    BY <1>4 DEF ClientAsks, Forwarded, ModelSpeaks, ToolEnds
  <2>3. QED
    BY <1>1, <1>2, <2>1, <2>2 DEF BridgeInv, BridgeTypeOK, BridgeType, WithinBudget
<1>5. CASE ModelCallsTool
  <2>1. bridge' \in BridgeType /\ continued' = continued /\ toolRounds' = toolRounds + 1
    BY <1>2, <1>5 DEF ModelCallsTool, BridgeType
  <2>2. bridged' \in [calls : 0..MaxToolCalls, inputs : 0..MaxClientInputs]
        /\ bridged'.calls = bridged.calls + 1
    BY <1>1, <1>2, <1>5 DEF ModelCallsTool
  <2>3. toolCall' \in [within : BOOLEAN, fresh : BOOLEAN] /\ toolCall'.fresh = TRUE
        /\ toolCall'.within = WithinBudget(toolRounds')
    BY <1>2, <1>5 DEF ModelCallsTool, WithinBudget
  <2>4. toolRounds' \in 0..MaxToolCalls
    BY <1>1, <1>2, <1>5, <2>1 DEF BridgeInv, ModelCallsTool
  <2>5. toolRounds' <= bridged'.calls /\ continued' < toolRounds' /\ continued' <= MaxToolRounds
    BY <1>1, <1>2, <2>1, <2>2 DEF BridgeInv
  <2>6. BridgeTypeOK'
    BY <1>2, <2>1, <2>2, <2>3, <2>4 DEF BridgeTypeOK, BridgeType
  <2>7. QED
    BY <1>2, <2>1, <2>3, <2>4, <2>5, <2>6 DEF BridgeInv, WithinBudget
<1>6. CASE ContinueResponse
  <2>1. bridge' \in BridgeType /\ bridge'.down = "delivering" /\ toolRounds' = toolRounds
        /\ toolCall' = toolCall /\ bridged' = bridged
    BY <1>2, <1>6 DEF ContinueResponse, BridgeType
  <2>2. continued' \in Nat /\ continued' <= toolRounds /\ continued' <= MaxToolRounds
    <3>1. CASE toolCall.within /\ toolCall.fresh
      <4>1. continued < toolRounds /\ toolRounds <= MaxToolRounds
        BY <1>6, <3>1 DEF ContinueResponse, BridgeInv, WithinBudget
      <4>2. continued' = continued + 1
        BY <1>6, <3>1 DEF ContinueResponse
      <4>3. QED
        BY <1>1, <1>2, <4>1, <4>2
    <3>2. CASE ~(toolCall.within /\ toolCall.fresh)
      BY <1>2, <1>6, <3>2 DEF ContinueResponse, BridgeInv
    <3>3. QED
      BY <3>1, <3>2
  <2>3. QED
    BY <1>1, <1>2, <2>1, <2>2 DEF BridgeInv, BridgeTypeOK, BridgeType
<1>7. CASE Delivered \/ BridgeEnds
  <2>1. bridge' \in BridgeType /\ bridge'.down \notin {"handling", "output"}
    <3>1. CASE Delivered
      BY <1>2, <1>7, <3>1 DEF Delivered, BridgeType
    <3>2. CASE BridgeEnds
      BY <3>2 DEF BridgeEnds, BridgeType
    <3>3. QED
      BY <1>7, <3>1, <3>2
  <2>2. toolCall' \in [within : BOOLEAN, fresh : BOOLEAN] /\ toolRounds' = toolRounds
        /\ bridged' = bridged /\ continued' = continued
    <3>1. NoToolCall \in [within : BOOLEAN, fresh : BOOLEAN]
      BY DEF NoToolCall
    <3>2. toolCall' = NoToolCall /\ toolRounds' = toolRounds
          /\ bridged' = bridged /\ continued' = continued
      BY <1>7 DEF Delivered, BridgeEnds
    <3>3. QED
      BY <3>1, <3>2
  <2>3. QED
    BY <1>2, <2>1, <2>2 DEF BridgeInv, BridgeTypeOK, BridgeType
<1>8. CASE UNCHANGED realtime
  BY <1>8 DEF realtime, BridgeInv, BridgeTypeOK, WithinBudget
<1>9. QED
  BY <1>3, <1>4, <1>5, <1>6, <1>7, <1>8 DEF BridgeNext

LEMMA BridgeInvariant == BridgeSpec => []BridgeInv
BY BridgeInvInit, BridgeInvStep, PTL DEF BridgeSpec

\* Whenever inputs reset the budget, the responses the model was asked for since the last
\* one, for tool calls made since then, are no more than the budget.
THEOREM ToolLoopsEnd == BridgeSpec => [](BridgeTypeOK /\ ToolLoopBounded)
<1>1. BridgeInv => BridgeTypeOK /\ ToolLoopBounded
  BY DEF BridgeInv, ToolLoopBounded
<1>2. QED
  BY <1>1, BridgeInvariant, PTL

-----------------------------------------------------------------------------
\* The history of a session, which keeps an even number of messages: whole exchanges stay
\* whole when one is added and when the oldest messages are dropped.

ExchangeAt(s, i) ==
  /\ s[2 * i - 1].role = "user" /\ s[2 * i].role = "assistant"
  /\ s[2 * i - 1].of = s[2 * i].of

LEMMA ExchangesAre ==
  ASSUME NEW s \in Seq(Message)
  PROVE  Exchanges(s) <=> \E k \in Nat : Len(s) = 2 * k /\ \A i \in 1..k : ExchangeAt(s, i)
<1>1. Len(s) \in Nat
  OBVIOUS
<1>2. ASSUME Len(s) % 2 = 0
      PROVE  Len(s) \div 2 \in Nat /\ Len(s) = 2 * (Len(s) \div 2)
  BY <1>1, <1>2, Z3
<1>3. ASSUME NEW k \in Nat, Len(s) = 2 * k
      PROVE  Len(s) % 2 = 0 /\ Len(s) \div 2 = k
  BY <1>3, Z3
<1>4. QED
  BY <1>2, <1>3 DEF Exchanges, ExchangeAt

WithReply(s, r) == s \o <<[role |-> "user", of |-> r], [role |-> "assistant", of |-> r]>>

LEMMA ExchangeAdded ==
  ASSUME NEW s \in Seq(Message), Exchanges(s), NEW r \in Reply,
         NEW t, t = WithReply(s, r)
  PROVE  t \in Seq(Message) /\ Exchanges(t) /\ Len(t) > 0 /\ t[Len(t)].of = r
<1> DEFINE u == [role |-> "user", of |-> r]
           a == [role |-> "assistant", of |-> r]
<1>1. u \in Message /\ a \in Message
  BY DEF Message
<1>2. u.role = "user" /\ a.role = "assistant" /\ u.of = r /\ a.of = r
  OBVIOUS
<1> HIDE DEF u, a
<1>3. <<u, a>> \in Seq(Message) /\ Len(<<u, a>>) = 2 /\ <<u, a>>[1] = u /\ <<u, a>>[2] = a
  BY <1>1
<1>4. t = s \o <<u, a>>
  BY DEF u, a, WithReply
<1>5. /\ t \in Seq(Message) /\ Len(t) = Len(s) + 2
      /\ \A i \in 1..Len(s) : t[i] = s[i]
      /\ t[Len(s) + 1] = u /\ t[Len(s) + 2] = a
  BY <1>3, <1>4
<1>6. PICK k \in Nat : Len(s) = 2 * k /\ \A i \in 1..k : ExchangeAt(s, i)
  BY ExchangesAre
<1>7. Len(t) = 2 * (k + 1)
  BY <1>5, <1>6
<1>8. ASSUME NEW i \in 1..(k + 1) PROVE ExchangeAt(t, i)
  <2>1. CASE i = k + 1
    <3>1. 2 * i - 1 = Len(s) + 1 /\ 2 * i = Len(s) + 2
      BY <1>6, <2>1
    <3>2. QED
      BY <1>2, <1>5, <3>1 DEF ExchangeAt
  <2>2. CASE i \in 1..k
    <3>1. 2 * i - 1 \in 1..Len(s) /\ 2 * i \in 1..Len(s)
      BY <1>6, <2>2
    <3>2. QED
      BY <1>5, <1>6, <2>2, <3>1 DEF ExchangeAt
  <2>3. QED
    BY <2>1, <2>2
<1>9. k + 1 \in Nat
  OBVIOUS
<1>10. Exchanges(t)
  BY <1>5, <1>7, <1>8, <1>9, ExchangesAre
<1>11. t[Len(t)].of = r /\ Len(t) > 0
  BY <1>2, <1>5
<1>12. QED
  BY <1>5, <1>10, <1>11

LEMMA ExchangesDropped ==
  ASSUME NEW s \in Seq(Message), Exchanges(s), NEW n \in Nat, n % 2 = 0, n < Len(s),
         NEW t, t = SubSeq(s, (Len(s) - n) + 1, Len(s))
  PROVE  /\ t \in Seq(Message) /\ Len(t) = n /\ Exchanges(t)
         /\ n > 0 => t[Len(t)] = s[Len(s)]
<1> DEFINE o == Len(s) - n
<1>1. Len(s) \in Nat /\ o \in Nat /\ o + 1 \in 1..(Len(s) + 1)
  BY SMTT(30)
<1>2. t \in Seq(Message) /\ Len(t) = n /\ \A i \in 1..n : t[i] = s[o + i]
  <2>1. \A i \in (o + 1)..Len(s) : s[i] \in Message
    <3> SUFFICES ASSUME NEW i \in (o + 1)..Len(s) PROVE s[i] \in Message
      OBVIOUS
    <3>1. i \in 1..Len(s)
      BY <1>1, SMTT(30)
    <3>2. QED
      BY <3>1, ElementOfSeq
  <2>2. o + 1 \in Int /\ Len(s) \in Int /\ Len(s) - (o + 1) + 1 = n
    BY <1>1
  <2> HIDE DEF o
  <2>3. /\ SubSeq(s, o + 1, Len(s)) \in Seq(Message)
        /\ Len(SubSeq(s, o + 1, Len(s))) = IF o + 1 <= Len(s) THEN Len(s) - (o + 1) + 1 ELSE 0
        /\ \A i \in 1..(Len(s) - (o + 1) + 1) : SubSeq(s, o + 1, Len(s))[i] = s[o + 1 + i - 1]
    BY <2>1, <2>2, SubSeqProperties
  <2>4. t = SubSeq(s, o + 1, Len(s))
    BY DEF o
  <2>5. \A i \in 1..n : o + 1 + i - 1 = o + i
    BY <1>1
  <2>6. o + 1 <= Len(s) \/ n = 0
    BY <1>1 DEF o
  <2>7. Len(t) = n
    BY <1>1, <2>2, <2>3, <2>4, <2>6 DEF o
  <2>8. QED
    BY <2>2, <2>3, <2>4, <2>5, <2>7
<1>3. PICK k \in Nat : Len(s) = 2 * k /\ \A i \in 1..k : ExchangeAt(s, i)
  BY ExchangesAre
<1>4. PICK m \in Nat : n = 2 * m /\ m <= k
  <2>1. n \div 2 \in Nat /\ n = 2 * (n \div 2)
    BY Z3
  <2>2. 2 * (n \div 2) < 2 * k
    BY <1>3, <2>1
  <2>3. n \div 2 <= k
    BY <2>1, <2>2
  <2>4. QED
    BY <2>1, <2>3
<1>5. ASSUME NEW i \in 1..m PROVE ExchangeAt(t, i)
  <2>1. /\ (k - m) + i \in 1..k /\ 2 * i - 1 \in 1..n /\ 2 * i \in 1..n
        /\ o + (2 * i - 1) = 2 * ((k - m) + i) - 1 /\ o + 2 * i = 2 * ((k - m) + i)
    BY <1>3, <1>4
  <2>2. t[2 * i - 1] = s[2 * ((k - m) + i) - 1] /\ t[2 * i] = s[2 * ((k - m) + i)]
    BY <1>2, <2>1
  <2>3. ExchangeAt(s, (k - m) + i)
    BY <1>3, <2>1
  <2>4. QED
    BY <2>2, <2>3 DEF ExchangeAt
<1>6. Exchanges(t)
  BY <1>2, <1>4, <1>5, ExchangesAre
<1>7. n > 0 => t[Len(t)] = s[Len(s)]
  BY <1>1, <1>2
<1>8. QED
  BY <1>2, <1>6, <1>7

\* The bounds the code is configured with are even: 200 and 20 (v2v/sessions.py:52,
\* v2v/config.py:75).
EvenBounds == MaxKept % 2 = 0 /\ MaxInput % 2 = 0

LEMMA HistoryTrimmed ==
  ASSUME EvenBounds, NEW s \in Seq(Message), Exchanges(s)
  PROVE  /\ Kept(s) \in Seq(Message) /\ Len(Kept(s)) <= MaxKept /\ Exchanges(Kept(s))
         /\ Kept(s) # <<>> => Kept(s)[Len(Kept(s))] = s[Len(s)]
         /\ LastMessages(s) \in Seq(Message) /\ Exchanges(LastMessages(s))
<1>1. MaxKept \in Nat /\ MaxInput \in Nat /\ MaxKept % 2 = 0 /\ MaxInput % 2 = 0
  BY PipelineAssumption DEF EvenBounds
<1>2. /\ Kept(s) \in Seq(Message) /\ Len(Kept(s)) <= MaxKept /\ Exchanges(Kept(s))
      /\ Kept(s) # <<>> => Kept(s)[Len(Kept(s))] = s[Len(s)]
  <2>1. CASE Len(s) <= MaxKept
    BY <2>1 DEF Kept, Trimmed
  <2>2. CASE ~(Len(s) <= MaxKept)
    <3> DEFINE t == SubSeq(s, (Len(s) - MaxKept) + 1, Len(s))
    <3>1. Kept(s) = t /\ MaxKept < Len(s)
      BY <1>1, <2>2 DEF Kept, Trimmed
    <3>2. /\ t \in Seq(Message) /\ Len(t) = MaxKept /\ Exchanges(t)
          /\ MaxKept > 0 => t[Len(t)] = s[Len(s)]
      BY <1>1, <3>1, ExchangesDropped, ZenonT(60)
    <3> HIDE DEF t
    <3>3. t # <<>> => MaxKept > 0
      BY <1>1, <3>2
    <3>4. QED
      BY <1>1, <3>1, <3>2, <3>3
  <2>3. QED
    BY <2>1, <2>2
<1>3. LastMessages(s) \in Seq(Message) /\ Exchanges(LastMessages(s))
  <2>1. CASE MaxInput = 0 \/ Len(s) <= MaxInput
    BY <2>1 DEF LastMessages
  <2>2. CASE ~(MaxInput = 0 \/ Len(s) <= MaxInput)
    <3> DEFINE t == SubSeq(s, (Len(s) - MaxInput) + 1, Len(s))
    <3>1. LastMessages(s) = t /\ MaxInput < Len(s)
      BY <1>1, <2>2 DEF LastMessages
    <3>2. t \in Seq(Message) /\ Exchanges(t)
      BY <1>1, <3>1, ExchangesDropped
    <3>3. QED
      BY <3>1, <3>2
  <2>3. QED
    BY <2>1, <2>2
<1>4. QED
  BY <1>2, <1>3

PipelineInv == PipelineTypeOK /\ HistoryIsWhole
ReplyRecord == [at : {"new", "transcribed", "asking", "ended"}, input : Seq(Message)]

LEMMA EmptyIsWhole == <<>> \in Seq(Message) /\ Len(<<>>) = 0 /\ Exchanges(<<>>)
<1>1. <<>> \in Seq(Message) /\ Len(<<>>) = 0
  BY EmptySeq
<1>2. \A i \in 1..0 : ExchangeAt(<<>>, i)
  OBVIOUS
<1>3. Exchanges(<<>>)
  <2>1. 0 \in Nat /\ Len(<<>>) = 2 * 0
    BY <1>1
  <2>2. QED
    BY <1>1, <1>2, <2>1, ExchangesAre
<1>4. QED
  BY <1>1, <1>3

LEMMA PipelineInvInit == PipelineInit => PipelineInv
<1> SUFFICES ASSUME PipelineInit PROVE PipelineInv
  OBVIOUS
<1>1. {MaxReplies, MaxKept, MaxInput, MaxForgets} \subseteq Nat
  BY PipelineAssumption
<1>2. voiceSession \in [known : BOOLEAN, messages : Seq(Message), last : Reply \cup {NoResponse}]
      /\ voiceSession.messages = <<>>
  BY EmptyIsWhole DEF PipelineInit, NoSession
<1>3. reply \in [Reply -> ReplyRecord] /\ \A r \in Reply : reply[r].input = <<>>
  BY EmptyIsWhole DEF PipelineInit, ReplyRecord
<1>4. PipelineTypeOK
  BY <1>1, <1>2, <1>3, EmptyIsWhole DEF PipelineInit, PipelineTypeOK, ReplyRecord
<1>5. HistoryIsWhole
  BY <1>2, <1>3, EmptyIsWhole DEF HistoryIsWhole
<1>6. QED
  BY <1>4, <1>5 DEF PipelineInv

\* A reply moves on, with a whole input.
LEMMA ReplyMoves ==
  ASSUME PipelineInv, NEW r \in Reply, NEW q \in ReplyRecord, Exchanges(q.input),
         reply' = [reply EXCEPT ![r] = q]
  PROVE  reply' \in [Reply -> ReplyRecord] /\ \A p \in Reply : Exchanges(reply'[p].input)
<1>1. reply \in [Reply -> ReplyRecord] /\ \A p \in Reply : Exchanges(reply[p].input)
  BY DEF PipelineInv, PipelineTypeOK, HistoryIsWhole, ReplyRecord
<1>2. QED
  BY <1>1

LEMMA PipelineInvStep ==
  ASSUME EvenBounds
  PROVE  PipelineInv /\ [PipelineNext]_voicePipeline => PipelineInv'
<1> SUFFICES ASSUME PipelineInv, [PipelineNext]_voicePipeline PROVE PipelineInv'
  OBVIOUS
<1>1. {MaxReplies, MaxKept, MaxInput, MaxForgets} \subseteq Nat
  BY PipelineAssumption
<1>2. /\ voiceSession \in [known : BOOLEAN, messages : Seq(Message),
                           last : Reply \cup {NoResponse}]
      /\ Len(voiceSession.messages) <= MaxKept /\ Exchanges(voiceSession.messages)
      /\ voiceSession.messages # <<>> =>
           voiceSession.last = voiceSession.messages[Len(voiceSession.messages)].of
      /\ reply \in [Reply -> ReplyRecord] /\ \A p \in Reply : Exchanges(reply[p].input)
      /\ forgotten \in 0..MaxForgets
  BY DEF PipelineInv, PipelineTypeOK, HistoryIsWhole, ReplyRecord
<1>3. ASSUME reply' \in [Reply -> ReplyRecord], \A p \in Reply : Exchanges(reply'[p].input),
             voiceSession' \in [known : BOOLEAN, messages : Seq(Message),
                                last : Reply \cup {NoResponse}],
             Len(voiceSession'.messages) <= MaxKept, Exchanges(voiceSession'.messages),
             voiceSession'.messages # <<>> =>
               voiceSession'.last = voiceSession'.messages[Len(voiceSession'.messages)].of,
             forgotten' \in 0..MaxForgets
      PROVE  PipelineInv'
  BY <1>3 DEF PipelineInv, PipelineTypeOK, HistoryIsWhole, ReplyRecord
<1>4. ASSUME NEW r \in Reply, Transcribe(r) PROVE PipelineInv'
  <2>1. PICK at \in {"transcribed", "ended"} : reply' = [reply EXCEPT ![r].at = at]
    BY <1>4 DEF Transcribe
  <2> DEFINE q == [reply[r] EXCEPT !.at = at]
  <2>2. q \in ReplyRecord /\ q.input = reply[r].input
    BY <1>2 DEF ReplyRecord
  <2>3. reply' = [reply EXCEPT ![r] = q]
    BY <1>2, <2>1 DEF ReplyRecord
  <2> HIDE DEF q
  <2>4. reply' \in [Reply -> ReplyRecord] /\ \A p \in Reply : Exchanges(reply'[p].input)
    BY <1>2, <2>2, <2>3, ReplyMoves
  <2>5. voiceSession' = voiceSession /\ forgotten' = forgotten
    BY <1>4 DEF Transcribe
  <2>6. QED
    BY <1>2, <1>3, <2>4, <2>5
<1>5. ASSUME NEW r \in Reply, Ask(r) PROVE PipelineInv'
  <2> DEFINE shown == LastMessages(voiceSession.messages)
             q == [at |-> "asking", input |-> shown]
  <2>1. shown \in Seq(Message) /\ Exchanges(shown)
    BY <1>2, HistoryTrimmed
  <2>2. reply' = [reply EXCEPT ![r] = q]
    BY <1>5 DEF Ask
  <2> HIDE DEF shown
  <2>3. q \in ReplyRecord /\ q.input = shown
    BY <2>1 DEF ReplyRecord
  <2> HIDE DEF q
  <2>4. reply' \in [Reply -> ReplyRecord] /\ \A p \in Reply : Exchanges(reply'[p].input)
    BY <2>1, <2>2, <2>3, ReplyMoves
  <2>5. voiceSession' = [voiceSession EXCEPT !.known = TRUE] /\ forgotten' = forgotten
    BY <1>5 DEF Ask
  <2>6. /\ voiceSession' \in [known : BOOLEAN, messages : Seq(Message),
                              last : Reply \cup {NoResponse}]
        /\ voiceSession'.messages = voiceSession.messages
        /\ voiceSession'.last = voiceSession.last
    BY <1>2, <2>5
  <2>7. QED
    BY <1>2, <1>3, <2>4, <2>5, <2>6
<1>6. ASSUME NEW r \in Reply, Record(r) \/ ReplyFails(r) PROVE PipelineInv'
  <2> DEFINE q == [at |-> "ended", input |-> <<>>]
  <2>1. q \in ReplyRecord /\ q.input = <<>>
    BY EmptyIsWhole DEF ReplyRecord
  <2>2. reply' = [reply EXCEPT ![r] = q] /\ forgotten' = forgotten
    BY <1>6 DEF Record, ReplyFails
  <2> HIDE DEF q
  <2>3. reply' \in [Reply -> ReplyRecord] /\ \A p \in Reply : Exchanges(reply'[p].input)
    BY <2>1, <2>2, EmptyIsWhole, ReplyMoves
  <2>4. CASE voiceSession' = voiceSession
    BY <1>2, <1>3, <2>2, <2>3, <2>4
  <2>5. CASE Record(r)
    <3> DEFINE t == WithReply(voiceSession.messages, r)
    <3>1. voiceSession' = [known |-> TRUE, last |-> r, messages |-> Kept(t)]
      BY <2>5 DEF Record, WithReply
    <3>2. t \in Seq(Message) /\ Exchanges(t) /\ Len(t) > 0 /\ t[Len(t)].of = r
      <4>1. voiceSession.messages \in Seq(Message) /\ Exchanges(voiceSession.messages)
        BY <1>2
      <4>2. QED
        BY <4>1, ExchangeAdded
    <3> HIDE DEF t
    <3>3. /\ Kept(t) \in Seq(Message) /\ Len(Kept(t)) <= MaxKept /\ Exchanges(Kept(t))
          /\ Kept(t) # <<>> => Kept(t)[Len(Kept(t))] = t[Len(t)]
      BY <3>2, HistoryTrimmed
    <3>4. /\ voiceSession' \in [known : BOOLEAN, messages : Seq(Message),
                                last : Reply \cup {NoResponse}]
          /\ voiceSession'.messages = Kept(t) /\ voiceSession'.last = r
      BY <3>1, <3>3
    <3>5. voiceSession'.messages # <<>> =>
            voiceSession'.last = voiceSession'.messages[Len(voiceSession'.messages)].of
      BY <3>2, <3>3, <3>4
    <3>6. Len(voiceSession'.messages) <= MaxKept /\ Exchanges(voiceSession'.messages)
      BY <3>3, <3>4
    <3>7. forgotten' \in 0..MaxForgets
      BY <1>2, <2>2
    <3>8. QED
      BY <1>3, <2>3, <3>4, <3>5, <3>6, <3>7
  <2>6. QED
    BY <1>6, <2>4, <2>5 DEF ReplyFails
<1>7. CASE DeleteSession
  <2>1. voiceSession' = NoSession /\ reply' = reply /\ forgotten' \in 0..MaxForgets
    BY <1>1, <1>2, <1>7 DEF DeleteSession
  <2>2. /\ voiceSession' \in [known : BOOLEAN, messages : Seq(Message),
                              last : Reply \cup {NoResponse}]
        /\ voiceSession'.messages = <<>>
    BY <2>1, EmptyIsWhole DEF NoSession
  <2>3. QED
    BY <1>1, <1>2, <1>3, <2>1, <2>2, EmptyIsWhole
<1>8. CASE UNCHANGED voicePipeline
  BY <1>2, <1>3, <1>8 DEF voicePipeline
<1>9. QED
  BY <1>4, <1>5, <1>6, <1>7, <1>8 DEF PipelineNext

LEMMA PipelineInvariant == ASSUME EvenBounds PROVE PipelineSpec => []PipelineInv
<1>1. PipelineInv /\ [PipelineNext]_voicePipeline => PipelineInv'
  BY PipelineInvStep
<1>2. QED
  BY <1>1, PipelineInvInit, PTL DEF PipelineSpec

\* With the bounds the code is configured with: the history and what the model is given of
\* it are made of whole exchanges, and the last response is the one of the last of them.
THEOREM HistoryStaysWhole ==
  ASSUME EvenBounds PROVE PipelineSpec => [](PipelineTypeOK /\ HistoryIsWhole)
<1>1. PipelineInv => PipelineTypeOK /\ HistoryIsWhole
  BY DEF PipelineInv
<1>2. PipelineSpec => []PipelineInv
  BY PipelineInvariant
<1>3. QED
  BY <1>1, <1>2, PTL

\* The types need no bound to be even.
LEMMA PipelineTypeCorrect == PipelineSpec => []PipelineTypeOK
<1> DEFINE SessionType == [known : BOOLEAN, messages : Seq(Message),
                           last : Reply \cup {NoResponse}]
<1>1. {MaxReplies, MaxKept, MaxInput, MaxForgets} \subseteq Nat
  BY PipelineAssumption
<1>2. PipelineTypeOK <=> /\ voiceSession \in SessionType
                         /\ Len(voiceSession.messages) <= MaxKept
                         /\ reply \in [Reply -> ReplyRecord] /\ forgotten \in 0..MaxForgets
  BY DEF PipelineTypeOK, ReplyRecord
<1>3. ASSUME PipelineTypeOK, [PipelineNext]_voicePipeline PROVE PipelineTypeOK'
  <2>1. /\ voiceSession \in SessionType /\ Len(voiceSession.messages) <= MaxKept
        /\ reply \in [Reply -> ReplyRecord] /\ forgotten \in 0..MaxForgets
    BY <1>2, <1>3
  <2>2. ASSUME voiceSession' \in SessionType, Len(voiceSession'.messages) <= MaxKept,
               reply' \in [Reply -> ReplyRecord], forgotten' \in 0..MaxForgets
        PROVE  PipelineTypeOK'
    BY <2>2 DEF PipelineTypeOK, ReplyRecord
  <2>3. ASSUME NEW s \in Seq(Message), NEW m \in Nat, m < Len(s)
        PROVE  SubSeq(s, (Len(s) - m) + 1, Len(s)) \in Seq(Message)
                 /\ Len(SubSeq(s, (Len(s) - m) + 1, Len(s))) = m
    <3>1. /\ Len(s) \in Nat /\ (Len(s) - m) + 1 \in Nat
          /\ \A i \in (Len(s) - m) + 1 .. Len(s) : i \in 1..Len(s)
          /\ (Len(s) - m) + 1 <= Len(s) + 1
          /\ (Len(s) - ((Len(s) - m) + 1)) + 1 = m
      BY <2>3
    <3>2. QED
      BY <2>3, <3>1, SubSeqProperties
  <2>4. \A s \in Seq(Message) : /\ Kept(s) \in Seq(Message) /\ Len(Kept(s)) <= MaxKept
                                /\ LastMessages(s) \in Seq(Message)
    <3> SUFFICES ASSUME NEW s \in Seq(Message)
                 PROVE  /\ Kept(s) \in Seq(Message) /\ Len(Kept(s)) <= MaxKept
                        /\ LastMessages(s) \in Seq(Message)
      OBVIOUS
    <3>1. Kept(s) \in Seq(Message) /\ Len(Kept(s)) <= MaxKept
      BY <1>1, <2>3 DEF Kept, Trimmed
    <3>2. LastMessages(s) \in Seq(Message)
      BY <1>1, <2>3 DEF LastMessages
    <3>3. QED
      BY <3>1, <3>2
  <2>5. ASSUME NEW r \in Reply, Transcribe(r) \/ ReplyFails(r) PROVE PipelineTypeOK'
    <3>1. voiceSession' = voiceSession /\ forgotten' = forgotten
      BY <2>5 DEF Transcribe, ReplyFails
    <3>2. reply' \in [Reply -> ReplyRecord]
      <4>1. CASE ReplyFails(r)
        BY <2>1, <4>1, EmptyIsWhole DEF ReplyFails, ReplyRecord
      <4>2. CASE Transcribe(r)
        <5>1. PICK at \in {"transcribed", "ended"} : reply' = [reply EXCEPT ![r].at = at]
          BY <4>2 DEF Transcribe
        <5>2. QED
          BY <2>1, <5>1 DEF ReplyRecord
      <4>3. QED
        BY <2>5, <4>1, <4>2
    <3>3. QED
      BY <2>1, <2>2, <3>1, <3>2
  <2>6. ASSUME NEW r \in Reply, Ask(r) PROVE PipelineTypeOK'
    <3>1. LastMessages(voiceSession.messages) \in Seq(Message)
      BY <2>1, <2>4
    <3>2. /\ voiceSession' = [voiceSession EXCEPT !.known = TRUE] /\ forgotten' = forgotten
          /\ reply' = [reply EXCEPT ![r] =
                         [at |-> "asking", input |-> LastMessages(voiceSession.messages)]]
      BY <2>6 DEF Ask
    <3>3. reply' \in [Reply -> ReplyRecord]
      BY <2>1, <3>1, <3>2 DEF ReplyRecord
    <3>4. voiceSession' \in SessionType /\ voiceSession'.messages = voiceSession.messages
      BY <2>1, <3>2
    <3>5. QED
      BY <2>1, <2>2, <3>2, <3>3, <3>4
  <2>7. ASSUME NEW r \in Reply, Record(r) PROVE PipelineTypeOK'
    <3> DEFINE t == voiceSession.messages \o <<[role |-> "user", of |-> r],
                                               [role |-> "assistant", of |-> r]>>
    <3>1. t \in Seq(Message)
      <4>1. /\ [role |-> "user", of |-> r] \in Message
            /\ [role |-> "assistant", of |-> r] \in Message
        BY DEF Message
      <4>2. voiceSession.messages \in Seq(Message)
        BY <2>1
      <4>3. QED
        BY <4>1, <4>2
    <3>2. /\ voiceSession' = [known |-> TRUE, last |-> r, messages |-> Kept(t)]
          /\ reply' = [reply EXCEPT ![r] = [at |-> "ended", input |-> <<>>]]
          /\ forgotten' = forgotten
      BY <2>7 DEF Record
    <3> HIDE DEF t
    <3>3. Kept(t) \in Seq(Message) /\ Len(Kept(t)) <= MaxKept
      BY <2>4, <3>1
    <3>4. reply' \in [Reply -> ReplyRecord]
      BY <2>1, <3>2, EmptyIsWhole DEF ReplyRecord
    <3>5. voiceSession' \in SessionType /\ voiceSession'.messages = Kept(t)
      BY <3>2, <3>3
    <3>6. QED
      BY <2>1, <2>2, <3>2, <3>3, <3>4, <3>5
  <2>8. CASE DeleteSession
    <3>1. voiceSession' = NoSession /\ reply' = reply /\ forgotten' \in 0..MaxForgets
      BY <1>1, <2>1, <2>8 DEF DeleteSession
    <3>2. voiceSession' \in SessionType /\ Len(voiceSession'.messages) = 0
      BY <3>1, EmptyIsWhole DEF NoSession
    <3>3. QED
      BY <1>1, <2>1, <2>2, <3>1, <3>2
  <2>9. CASE UNCHANGED voicePipeline
    BY <2>1, <2>2, <2>9 DEF voicePipeline
  <2>10. QED
    BY <1>3, <2>5, <2>6, <2>7, <2>8, <2>9 DEF PipelineNext
<1>4. PipelineInit => PipelineTypeOK
  BY PipelineInvInit DEF PipelineInv
<1>5. QED
  BY <1>3, <1>4, PTL DEF PipelineSpec

-----------------------------------------------------------------------------
\* The transcriber. One item fills, or waits for its acknowledgement, at a time, and as long
\* as it does the turn that is spoken is the item's; so its first event, early or not,
\* binds it to that turn.

\* The acknowledgement of an item is on its way; it is still to be bound by it.
OnItsWay(i) == \E p \in DOMAIN wire : wire[p].kind = "committed" /\ wire[p].item = i
Unacked(i) == item[i].state = "asked" \/ OnItsWay(i)

ItemSound(i) ==
  /\ item[i].state # "unused" => item[i].turn \in Turn
  /\ item[i].state = "unused" => asr.items[i] = None
  /\ item[i].state = "filling" => asr.current = item[i].turn /\ asr.committing = "no"
  /\ item[i].state \in {"filling", "asked", "committed"} => asr.items[i] \in {item[i].turn, None}
  /\ item[i].state = "committed" /\ pump = "running" => asr.items[i] = item[i].turn \/ Unacked(i)
  /\ OnItsWay(i) => item[i].state = "committed"
  /\ Unacked(i) => /\ asr.current \in {item[i].turn, None}
                   /\ asr.committing = "waiting" \/ asr.failure \/ pump = "closed"
AsrSound ==
  /\ asr.failure /\ pump = "running" => asr.current = None
  /\ asr.committing # "no" => asr.current # None
WireSound ==
  /\ \A p \in DOMAIN wire : item[wire[p].item].state # "unused"
  /\ \A p, q \in DOMAIN wire : wire[p].kind = "committed" /\ wire[q].kind = "committed" => p = q
OnlyOne ==
  /\ \A i, j \in Item : Unacked(i) /\ Unacked(j) => i = j
  /\ \A i, j \in Item : i \in Filling /\ j \in Filling => i = j
ToldSound ==
  /\ \A e \in told :
       /\ e.kind # "delta" => e.turn \in asr.finished
       /\ item[e.item].state # "unused"
       /\ item[e.item].state \in {"filling", "asked", "committed"} => e.turn = item[e.item].turn
  /\ \A e, f \in told : e.turn = f.turn /\ e.kind # "delta" /\ f.kind # "delta" => e = f

AsrType ==
  [current : Turn \cup {None}, bytes : 0..MaxAudio, used : SUBSET Turn,
   items : [Item -> Turn \cup {None}], quarantined : SUBSET Item, finished : SUBSET Turn,
   committing : {"no", "waiting", "acked", "failed"}, failure : BOOLEAN, early : BOOLEAN]
ItemRecord == [state : ItemState, turn : Turn \cup {None}, open : BOOLEAN]
WireEvent == [kind : Recognized \cup {"committed"}, item : Item]
ToldEvent == [kind : Recognized, turn : Turn, item : Item]

TranscriptionInv ==
  /\ TranscriptionTypeOK
  /\ \A i \in Item : ItemSound(i)
  /\ AsrSound /\ WireSound /\ OnlyOne /\ ToldSound

LEMMA TranscriptionTyped ==
  TranscriptionTypeOK <=>
    /\ asr \in AsrType /\ pump \in {"running", "ended", "closed"}
    /\ item \in [Item -> ItemRecord]
    /\ wire \in Seq(WireEvent) /\ Len(wire) <= MaxWire /\ told \subseteq ToldEvent
BY DEF TranscriptionTypeOK, AsrType, ItemRecord, WireEvent, ToldEvent

LEMMA TranscriptionTypedNext ==
  ASSUME asr' \in AsrType, pump' \in {"running", "ended", "closed"},
         item' \in [Item -> ItemRecord],
         wire' \in Seq(WireEvent), Len(wire') <= MaxWire, told' \subseteq ToldEvent
  PROVE  TranscriptionTypeOK'
BY DEF TranscriptionTypeOK, AsrType, ItemRecord, WireEvent, ToldEvent

LEMMA TranscriptionInvInit == TranscriptionInit => TranscriptionInv
<1> SUFFICES ASSUME TranscriptionInit PROVE TranscriptionInv
  OBVIOUS
<1>1. {MaxItems, MaxTurns, MinAudio, MaxAudio, MaxWire} \subseteq Nat
  BY TranscriptionAssumption
<1>2. asr \in AsrType
  BY <1>1 DEF TranscriptionInit, AsrType
<1>3. item \in [Item -> ItemRecord] /\ \A i \in Item : item[i].state = "unused"
  BY DEF TranscriptionInit, ItemRecord, ItemState
<1>4. wire = <<>> /\ wire \in Seq(WireEvent) /\ Len(wire) = 0 /\ DOMAIN wire = {}
  BY EmptySeq DEF TranscriptionInit
<1>5. TranscriptionTypeOK
  <2>1. Len(wire) <= MaxWire
    BY <1>1, <1>4
  <2>2. pump \in {"running", "ended", "closed"} /\ told \subseteq ToldEvent
    BY DEF TranscriptionInit
  <2>3. QED
    BY <1>2, <1>3, <1>4, <2>1, <2>2, TranscriptionTyped
<1>6. \A i \in Item : ItemSound(i)
  BY <1>3, <1>4 DEF TranscriptionInit, ItemSound, OnItsWay, Unacked
<1>7. AsrSound /\ ToldSound
  BY DEF TranscriptionInit, AsrSound, ToldSound
<1>8. WireSound /\ OnlyOne
  BY <1>3, <1>4 DEF WireSound, OnlyOne, Unacked, OnItsWay, Filling
<1>9. QED
  BY <1>5, <1>6, <1>7, <1>8 DEF TranscriptionInv

LEMMA WireTyped ==
  ASSUME wire \in Seq(WireEvent)
  PROVE  \A p \in DOMAIN wire : wire[p] \in WireEvent
OBVIOUS

\* The events on their way, after one was sent and after one was read.
LEMMA WireSends ==
  ASSUME wire \in Seq(WireEvent), NEW e \in WireEvent, Send(e)
  PROVE  /\ wire' \in Seq(WireEvent) /\ Len(wire') <= MaxWire
         /\ DOMAIN wire' = DOMAIN wire \cup {Len(wire) + 1}
         /\ Len(wire) + 1 \notin DOMAIN wire /\ wire'[Len(wire) + 1] = e
         /\ \A p \in DOMAIN wire : wire'[p] = wire[p]
<1>1. wire' = Append(wire, e) /\ Len(wire) < MaxWire
  BY DEF Send
<1>2. Len(wire) \in Nat /\ DOMAIN wire = 1..Len(wire)
  OBVIOUS
<1>3. /\ wire' \in Seq(WireEvent) /\ Len(wire') = Len(wire) + 1
      /\ \A p \in 1..Len(wire) : wire'[p] = wire[p]
      /\ wire'[Len(wire) + 1] = e
  BY <1>1, AppendProperties
<1>4. DOMAIN wire' = 1..(Len(wire) + 1)
  BY <1>3
<1>5. QED
  BY <1>1, <1>2, <1>3, <1>4, TranscriptionAssumption

LEMMA WireReads ==
  ASSUME wire \in Seq(WireEvent), wire # <<>>, wire' = Tail(wire)
  PROVE  /\ wire' \in Seq(WireEvent) /\ Len(wire') <= Len(wire) /\ Head(wire) = wire[1]
         /\ 1 \in DOMAIN wire
         /\ \A p \in DOMAIN wire : p = 1 \/ (p - 1 \in DOMAIN wire' /\ wire[p] = wire'[p - 1])
         /\ \A p \in DOMAIN wire' :
              p + 1 \in DOMAIN wire /\ p + 1 # 1 /\ wire'[p] = wire[p + 1]
<1>1. /\ Tail(wire) \in Seq(WireEvent) /\ Len(Tail(wire)) = Len(wire) - 1
      /\ \A i \in 1..Len(Tail(wire)) : Tail(wire)[i] = wire[i + 1]
  BY HeadTailProperties
<1>2. Len(wire) \in Nat /\ Len(wire) # 0 /\ DOMAIN wire = 1..Len(wire)
  OBVIOUS
<1>3. DOMAIN wire' = 1..(Len(wire) - 1)
  BY <1>1
<1>4. \A p \in DOMAIN wire' :
        p + 1 \in DOMAIN wire /\ p + 1 # 1 /\ wire'[p] = wire[p + 1]
  BY <1>1, <1>2, <1>3
<1>5. \A p \in DOMAIN wire : p = 1 \/ (p - 1 \in DOMAIN wire' /\ wire[p] = wire'[p - 1])
  <2> SUFFICES ASSUME NEW p \in DOMAIN wire, p # 1
               PROVE  p - 1 \in DOMAIN wire' /\ wire[p] = wire'[p - 1]
    OBVIOUS
  <2>1. p \in Nat /\ p - 1 \in 1..(Len(wire) - 1) /\ (p - 1) + 1 = p
    BY <1>2
  <2>2. QED
    BY <1>3, <1>4, <2>1
<1>6. Head(wire) = wire[1]
  OBVIOUS
<1>7. QED
  BY <1>1, <1>2, <1>4, <1>5, <1>6

\* Nobody waits for an acknowledgement while the transcriber can be called.
LEMMA CallableSound ==
  ASSUME TranscriptionInv, Callable
  PROVE  \A i \in Item : ~Unacked(i)
BY DEF TranscriptionInv, ItemSound, Callable

\* The items stay as they are.
LEMMA ItemsRest ==
  ASSUME TranscriptionInv, wire' = wire, told' = told, item' = item, asr'.items = asr.items,
         asr' \in AsrType, pump' \in {"running", "ended", "closed"},
         asr.finished \subseteq asr'.finished, pump' = "running" => pump = "running",
         AsrSound',
         \A i \in Item : item[i].state = "filling" =>
            asr'.current = asr.current /\ asr'.committing = "no",
         \A i \in Item : Unacked(i) =>
            /\ asr'.current \in {asr.current, None}
            /\ asr'.committing = "waiting" \/ asr'.failure \/ pump' = "closed"
  PROVE  TranscriptionInv'
<1>1. /\ asr \in AsrType /\ item \in [Item -> ItemRecord] /\ told \subseteq ToldEvent
      /\ wire \in Seq(WireEvent) /\ Len(wire) <= MaxWire
  BY TranscriptionTyped DEF TranscriptionInv
<1>2. TranscriptionTypeOK'
  BY <1>1, TranscriptionTypedNext
<1>3. \A i \in Item : (OnItsWay(i)' <=> OnItsWay(i)) /\ (Unacked(i)' <=> Unacked(i))
  BY DEF OnItsWay, Unacked
<1>4. \A i \in Item : ItemSound(i)'
  BY <1>3 DEF TranscriptionInv, ItemSound
<1>5. WireSound' /\ OnlyOne'
  BY <1>3 DEF TranscriptionInv, WireSound, OnlyOne, Filling
<1>6. ToldSound'
  BY <1>1 DEF TranscriptionInv, ToldSound
<1>7. QED
  BY <1>2, <1>4, <1>5, <1>6 DEF TranscriptionInv

LEMMA ConnectionStep ==
  ASSUME TranscriptionInv, CommitEnds \/ CommitFails \/ CloseConnection \/ PumpFails
  PROVE  TranscriptionInv'
<1>1. /\ asr \in AsrType /\ pump \in {"running", "ended", "closed"}
      /\ \A i \in Item : ItemSound(i)
      /\ AsrSound
  BY TranscriptionTyped DEF TranscriptionInv
<1>2. wire' = wire /\ told' = told /\ item' = item
  BY DEF CommitEnds, CommitFails, CloseConnection, PumpFails
<1>3. CASE CommitEnds \/ CommitFails
  <2>1. PICK failed \in BOOLEAN : /\ asr' = Ready(failed) /\ asr.committing # "no" /\ pump' = pump
                                  /\ failed \/ asr.committing = "acked"
    BY <1>3 DEF CommitEnds, CommitFails
  <2> DEFINE broken == asr.failure \/ failed
  <2>2. broken \in BOOLEAN /\ asr' = [asr EXCEPT !.committing = "no", !.current = None,
                                                 !.bytes = 0, !.failure = broken]
    BY <2>1 DEF Ready
  <2>3. (asr.failure => broken) /\ (broken \/ asr.committing = "acked")
    BY <2>1
  <2> HIDE DEF broken
  <2>4. /\ asr' \in AsrType /\ asr'.items = asr.items /\ asr'.finished = asr.finished
        /\ asr'.current = None /\ asr'.committing = "no" /\ asr'.failure = broken
    <3>1. 0 \in 0..MaxAudio
      BY TranscriptionAssumption
    <3>2. QED
      BY <1>1, <2>2, <3>1 DEF AsrType
  <2>5. AsrSound' /\ \A i \in Item : item[i].state # "filling"
    BY <1>1, <2>1, <2>4 DEF AsrSound, ItemSound
  <2>6. \A i \in Item : Unacked(i) => asr'.failure \/ pump' = "closed"
    BY <1>1, <2>1, <2>3, <2>4 DEF ItemSound
  <2>7. QED
    BY <1>1, <1>2, <2>1, <2>4, <2>5, <2>6, ItemsRest
<1>4. CASE CloseConnection
  <2>1. asr' = [asr EXCEPT !.committing = "no"] /\ pump' = "closed"
    BY <1>4 DEF CloseConnection
  <2>2. /\ asr' \in AsrType /\ asr'.items = asr.items /\ asr'.finished = asr.finished
        /\ asr'.current = asr.current /\ asr'.committing = "no"
    BY <1>1, <2>1 DEF AsrType
  <2>3. AsrSound'
    BY <2>1, <2>2 DEF AsrSound
  <2>4. QED
    BY <1>2, <2>1, <2>2, <2>3, ItemsRest
<1>5. CASE PumpFails
  <2> DEFINE left == IF asr.committing = "waiting" THEN "failed" ELSE asr.committing
  <2>1. asr' = [asr EXCEPT !.failure = TRUE, !.committing = left] /\ pump' = "ended"
    BY <1>5 DEF PumpFails
  <2>2. left \in {"no", "waiting", "acked", "failed"} /\ (left = "no" <=> asr.committing = "no")
    BY <1>1 DEF AsrType
  <2> HIDE DEF left
  <2>3. /\ asr' \in AsrType /\ asr'.items = asr.items /\ asr'.finished = asr.finished
        /\ asr'.current = asr.current /\ asr'.committing = left /\ asr'.failure = TRUE
    BY <1>1, <2>1, <2>2 DEF AsrType
  <2>4. AsrSound'
    BY <1>1, <2>1, <2>2, <2>3 DEF AsrSound
  <2>5. \A i \in Item : item[i].state = "filling" => asr'.committing = "no"
    BY <1>1, <2>2, <2>3 DEF ItemSound
  <2>6. QED
    BY <1>2, <2>1, <2>3, <2>4, <2>5, ItemsRest
<1>6. QED
  BY <1>3, <1>4, <1>5

\* The callers' steps: nobody waits for an acknowledgement, and each item stays, or begins to
\* fill, or is asked for or abandoned.
LEMMA ItemsCalled ==
  ASSUME TranscriptionInv, Callable, wire' = wire, told' = told, pump' = pump,
         asr' \in AsrType, asr'.items = asr.items, asr.finished \subseteq asr'.finished,
         item' \in [Item -> ItemRecord], AsrSound',
         \A i, j \in Item : item'[i].state \in {"filling", "asked"}
                             /\ item'[j].state \in {"filling", "asked"} => i = j,
         \A i \in Item :
           \/ item'[i] = item[i]
           \/ item[i].state = "unused" /\ item'[i].state = "filling" /\ item'[i].turn \in Turn
           \/ /\ item[i].state = "filling" /\ item'[i].turn = item[i].turn
              /\ item'[i].state \in {"asked", "abandoned"},
         \A i \in Item : item'[i].state = "filling" =>
           asr'.current = item'[i].turn /\ asr'.committing = "no",
         \A i \in Item : item'[i].state = "asked" =>
           asr'.current = item'[i].turn /\ asr'.committing = "waiting"
  PROVE  TranscriptionInv'
<1>1. /\ asr \in AsrType /\ item \in [Item -> ItemRecord] /\ told \subseteq ToldEvent
      /\ wire \in Seq(WireEvent) /\ Len(wire) <= MaxWire
      /\ pump \in {"running", "ended", "closed"}
      /\ \A i \in Item : ItemSound(i)
  BY TranscriptionTyped DEF TranscriptionInv
<1>2. TranscriptionTypeOK'
  BY <1>1, TranscriptionTypedNext
<1>3. \A i \in Item : ~Unacked(i)
  BY CallableSound
<1>4. \A i \in Item : ~OnItsWay(i) /\ ~OnItsWay(i)' /\ (Unacked(i)' <=> item'[i].state = "asked")
  BY <1>3 DEF OnItsWay, Unacked
<1>5. \A i \in Item : ItemSound(i)'
  <2> SUFFICES ASSUME NEW i \in Item PROVE ItemSound(i)'
    OBVIOUS
  <2>1. ItemSound(i) /\ ~Unacked(i)
    BY <1>1, <1>3
  <2>2. CASE item'[i] = item[i]
    BY <1>4, <2>1, <2>2 DEF ItemSound
  <2>3. CASE item[i].state = "unused" /\ item'[i].state = "filling" /\ item'[i].turn \in Turn
    BY <1>4, <2>1, <2>3 DEF ItemSound
  <2>4. CASE /\ item[i].state = "filling" /\ item'[i].turn = item[i].turn
             /\ item'[i].state \in {"asked", "abandoned"}
    BY <1>4, <2>1, <2>4 DEF ItemSound
  <2>5. QED
    BY <2>2, <2>3, <2>4
<1>6. WireSound'
  <2>1. \A p \in DOMAIN wire : wire[p].item \in Item
    BY <1>1, WireTyped DEF WireEvent
  <2>2. QED
    BY <2>1 DEF TranscriptionInv, WireSound
<1>7. OnlyOne'
  BY <1>4 DEF OnlyOne, Filling
<1>8. ToldSound'
  <2>1. \A e \in told : e.item \in Item
    BY <1>1 DEF ToldEvent
  <2>2. \A e \in told :
          item'[e.item].state # "unused"
            /\ (item'[e.item].state \in {"filling", "asked", "committed"} =>
                   e.turn = item'[e.item].turn)
    BY <2>1 DEF TranscriptionInv, ToldSound
  <2>3. QED
    BY <1>1, <2>2 DEF TranscriptionInv, ToldSound
<1>9. QED
  BY <1>2, <1>5, <1>6, <1>7, <1>8 DEF TranscriptionInv

LEMMA CallsStep ==
  ASSUME TranscriptionInv, (\E t \in Turn : Append_(t) \/ Commit(t)) \/ Clear
  PROVE  TranscriptionInv'
<1>1. /\ asr \in AsrType /\ item \in [Item -> ItemRecord] /\ \A i \in Item : ItemSound(i)
      /\ \A i, j \in Item : i \in Filling /\ j \in Filling => i = j
  BY TranscriptionTyped DEF TranscriptionInv, OnlyOne
<1>2. Callable /\ wire' = wire /\ told' = told /\ pump' = pump
  BY DEF Append_, Commit, Clear
<1>3. \A i \in Item : item[i].state # "asked"
  BY <1>2, CallableSound DEF Unacked
<1>4. ~asr.failure /\ asr.committing = "no"
  BY <1>2 DEF Callable
<1>5. ASSUME NEW t \in Turn, Append_(t) PROVE TranscriptionInv'
  <2>1. /\ asr.current \in {t, None} /\ asr.bytes < MaxAudio /\ Fills(t)
        /\ asr' = [asr EXCEPT !.current = t, !.used = @ \cup {t}, !.bytes = @ + 1]
    BY <1>5 DEF Append_
  <2>2. asr.bytes + 1 \in 0..MaxAudio
    BY <1>1, <2>1, TranscriptionAssumption DEF AsrType
  <2>3. /\ asr' \in AsrType /\ asr'.items = asr.items /\ asr'.finished = asr.finished
        /\ asr'.current = t /\ asr'.committing = "no" /\ asr'.failure = asr.failure
    BY <1>1, <1>4, <2>1, <2>2 DEF AsrType
  <2>4. AsrSound'
    BY <1>4, <2>3 DEF AsrSound
  <2>5. \A i \in Item : item[i].state = "filling" => item[i].turn = t
    BY <1>1, <2>1, TranscriptionAssumption DEF ItemSound
  <2>6. CASE Filling # {}
    <3>1. item' = item
      BY <2>1, <2>6 DEF Fills
    <3>2. QED
      BY <1>1, <1>2, <1>3, <2>3, <2>4, <2>5, <3>1, ItemsCalled DEF Filling
  <2>7. CASE Filling = {}
    <3>1. PICK i \in Item : /\ item[i].state = "unused"
                            /\ item' = [item EXCEPT ![i].state = "filling", ![i].turn = t]
      BY <2>1, <2>7 DEF Fills
    <3> DEFINE q == [item[i] EXCEPT !.state = "filling", !.turn = t]
    <3>2. q \in ItemRecord /\ q.state = "filling" /\ q.turn = t
      BY <1>1 DEF ItemRecord, ItemState
    <3>3. item' = [item EXCEPT ![i] = q]
      BY <1>1, <3>1 DEF ItemRecord
    <3> HIDE DEF q
    <3>4. /\ item' \in [Item -> ItemRecord] /\ item'[i] = q
          /\ \A j \in Item \ {i} : item'[j] = item[j]
      BY <1>1, <3>2, <3>3
    <3>5. \A j \in Item : item[j].state \notin {"filling", "asked"}
      BY <1>3, <2>7 DEF Filling
    <3>6. QED
      BY <1>1, <1>2, <2>3, <2>4, <3>1, <3>2, <3>4, <3>5, ItemsCalled
  <2>8. QED
    BY <2>6, <2>7
<1>6. ASSUME NEW state \in {"asked", "abandoned"}, Becomes(state)
      PROVE  /\ item' \in [Item -> ItemRecord]
             /\ \A i \in Item :
                  \/ item[i].state # "filling" /\ item'[i] = item[i]
                  \/ /\ item[i].state = "filling" /\ item'[i].turn = item[i].turn
                     /\ item'[i].state = state
  <2> DEFINE Q(i) == [item[i] EXCEPT !.state = state]
  <2>1. \A i \in Item : Q(i) \in ItemRecord /\ Q(i).turn = item[i].turn /\ Q(i).state = state
    BY <1>1 DEF ItemRecord, ItemState
  <2>2. item' = [i \in Item |-> IF i \in Filling THEN Q(i) ELSE item[i]]
    BY <1>6 DEF Becomes
  <2> HIDE DEF Q
  <2>3. QED
    BY <1>1, <2>1, <2>2 DEF Filling
<1>7. ASSUME NEW t \in Turn, Commit(t) PROVE TranscriptionInv'
  <2>1. asr' = [asr EXCEPT !.committing = "waiting"] /\ asr.current = t /\ Becomes("asked")
    BY <1>7 DEF Commit
  <2>2. /\ asr' \in AsrType /\ asr'.items = asr.items /\ asr'.finished = asr.finished
        /\ asr'.current = t /\ asr'.committing = "waiting" /\ asr'.failure = asr.failure
    BY <1>1, <2>1 DEF AsrType
  <2>3. AsrSound'
    BY <1>4, <2>2, TranscriptionAssumption DEF AsrSound
  <2>4. /\ item' \in [Item -> ItemRecord]
        /\ \A i \in Item :
             \/ item[i].state # "filling" /\ item'[i] = item[i]
             \/ /\ item[i].state = "filling" /\ item'[i].turn = item[i].turn
                /\ item'[i].state = "asked"
    BY <1>6, <2>1
  <2>5. \A i \in Item : item[i].state = "filling" => item[i].turn = t
    BY <1>1, <2>1 DEF ItemSound
  <2>6. \A i, j \in Item : item'[i].state \in {"filling", "asked"}
                             /\ item'[j].state \in {"filling", "asked"} => i = j
    BY <1>1, <1>3, <2>4 DEF Filling
  <2>7. QED
    BY <1>2, <1>3, <2>2, <2>3, <2>4, <2>5, <2>6, ItemsCalled
<1>8. CASE Clear
  <2>1. /\ asr' = [asr EXCEPT !.finished = @ \cup {asr.current}, !.early = FALSE,
                              !.current = None, !.bytes = 0]
        /\ asr.current # None /\ Becomes("abandoned")
    BY <1>8 DEF Clear
  <2>2. 0 \in 0..MaxAudio /\ asr.current \in Turn
    BY <1>1, <2>1, TranscriptionAssumption DEF AsrType
  <2>3. /\ asr' \in AsrType /\ asr'.items = asr.items /\ asr.finished \subseteq asr'.finished
        /\ asr'.current = None /\ asr'.committing = "no" /\ asr'.failure = asr.failure
    BY <1>1, <1>4, <2>1, <2>2 DEF AsrType
  <2>4. AsrSound'
    BY <1>4, <2>3 DEF AsrSound
  <2>5. /\ item' \in [Item -> ItemRecord]
        /\ \A i \in Item :
             \/ item[i].state # "filling" /\ item'[i] = item[i]
             \/ /\ item[i].state = "filling" /\ item'[i].turn = item[i].turn
                /\ item'[i].state = "abandoned"
    BY <1>6, <2>1
  <2>6. \A i \in Item : item'[i].state \notin {"filling", "asked"}
    BY <1>3, <2>5
  <2>7. QED
    BY <1>2, <2>3, <2>4, <2>5, <2>6, ItemsCalled
<1>9. QED
  BY <1>5, <1>7, <1>8

\* The provider acknowledges, or recognizes.
LEMMA ProviderStep ==
  ASSUME TranscriptionInv, NEW n \in Item, Acknowledge(n) \/ Recognize(n) \/ Finish(n)
  PROVE  TranscriptionInv'
<1>1. /\ asr \in AsrType /\ item \in [Item -> ItemRecord] /\ \A i \in Item : ItemSound(i)
      /\ wire \in Seq(WireEvent) /\ Len(wire) <= MaxWire /\ told \subseteq ToldEvent
      /\ pump \in {"running", "ended", "closed"}
  BY TranscriptionTyped DEF TranscriptionInv
<1>2. asr' = asr /\ pump' = pump /\ told' = told
  BY DEF Acknowledge, Recognize, Finish
<1>3. PICK e \in WireEvent :
        /\ Send(e) /\ e.item = n /\ item[n].state # "unused"
        /\ \/ e.kind = "committed" /\ item[n].state = "asked" /\ item'[n].state = "committed"
           \/ e.kind # "committed" /\ item'[n].state = item[n].state
        /\ item' \in [Item -> ItemRecord] /\ item'[n].turn = item[n].turn
        /\ \A i \in Item \ {n} : item'[i] = item[i]
  <2>1. CASE Acknowledge(n)
    <3> DEFINE q == [item[n] EXCEPT !.state = "committed"]
    <3>1. q \in ItemRecord /\ q.state = "committed" /\ q.turn = item[n].turn
      BY <1>1 DEF ItemRecord, ItemState
    <3>2. item' = [item EXCEPT ![n] = q]
      BY <1>1, <2>1 DEF Acknowledge, ItemRecord
    <3>3. Send([kind |-> "committed", item |-> n]) /\ item[n].state = "asked"
      BY <2>1 DEF Acknowledge
    <3> HIDE DEF q
    <3>4. [kind |-> "committed", item |-> n] \in WireEvent
      BY DEF WireEvent
    <3>5. QED
      BY <1>1, <3>1, <3>2, <3>3, <3>4
  <2>2. CASE Recognize(n)
    <3>1. Send([kind |-> "delta", item |-> n]) /\ item' = item /\ item[n].state # "unused"
      BY <2>2 DEF Recognize
    <3>2. [kind |-> "delta", item |-> n] \in WireEvent
      BY DEF WireEvent, Recognized
    <3>3. QED
      BY <1>1, <3>1, <3>2
  <2>3. CASE Finish(n)
    <3>1. PICK k \in {"completed", "failed"} : Send([kind |-> k, item |-> n])
      BY <2>3 DEF Finish
    <3> DEFINE q == [item[n] EXCEPT !.open = FALSE]
    <3>2. q \in ItemRecord /\ q.state = item[n].state /\ q.turn = item[n].turn
      BY <1>1 DEF ItemRecord
    <3>3. item' = [item EXCEPT ![n] = q] /\ item[n].state # "unused"
      BY <1>1, <2>3 DEF Finish, ItemRecord
    <3> HIDE DEF q
    <3>4. [kind |-> k, item |-> n] \in WireEvent
      BY <3>1 DEF WireEvent, Recognized
    <3>5. QED
      BY <1>1, <3>1, <3>2, <3>3, <3>4
  <2>4. QED
    BY <2>1, <2>2, <2>3
<1>4. /\ wire' \in Seq(WireEvent) /\ Len(wire') <= MaxWire
      /\ DOMAIN wire' = DOMAIN wire \cup {Len(wire) + 1}
      /\ Len(wire) + 1 \notin DOMAIN wire /\ wire'[Len(wire) + 1] = e
      /\ \A p \in DOMAIN wire : wire'[p] = wire[p]
  BY <1>1, <1>3, WireSends
<1>5. TranscriptionTypeOK'
  BY <1>1, <1>2, <1>3, <1>4, TranscriptionTypedNext
<1>6. \A i \in Item : OnItsWay(i)' <=> OnItsWay(i) \/ (i = n /\ e.kind = "committed")
  BY <1>3, <1>4 DEF OnItsWay
<1>7. \A i \in Item : Unacked(i)' <=> Unacked(i)
  <2>1. \A i \in Item \ {n} : Unacked(i)' <=> Unacked(i)
    BY <1>3, <1>6 DEF Unacked
  <2>2. Unacked(n)' <=> Unacked(n)
    BY <1>3, <1>6 DEF Unacked
  <2>3. QED
    BY <2>1, <2>2
<1>8. \A i \in Item : ItemSound(i)'
  <2>1. \A i \in Item \ {n} : ItemSound(i)'
    BY <1>1, <1>2, <1>3, <1>6, <1>7 DEF ItemSound
  <2>2. ItemSound(n)'
    <3>1. CASE e.kind = "committed"
      BY <1>1, <1>2, <1>3, <1>6, <1>7, <3>1 DEF ItemSound, Unacked
    <3>2. CASE e.kind # "committed"
      BY <1>1, <1>2, <1>3, <1>6, <1>7, <3>2 DEF ItemSound
    <3>3. QED
      BY <3>1, <3>2
  <2>3. QED
    BY <2>1, <2>2
<1>9. WireSound'
  <2>1. \A p \in DOMAIN wire : wire[p].item \in Item
    BY <1>1, WireTyped DEF WireEvent
  <2>2. \A p \in DOMAIN wire' : item'[wire'[p].item].state # "unused"
    BY <1>3, <1>4, <2>1 DEF TranscriptionInv, WireSound
  <2>3. e.kind = "committed" => \A p \in DOMAIN wire : wire[p].kind # "committed"
    <3> SUFFICES ASSUME e.kind = "committed", NEW p \in DOMAIN wire, wire[p].kind = "committed"
                 PROVE  FALSE
      OBVIOUS
    <3>1. Unacked(n) /\ Unacked(wire[p].item) /\ wire[p].item \in Item
      BY <1>3, <2>1 DEF Unacked, OnItsWay
    <3>2. wire[p].item = n
      BY <3>1 DEF TranscriptionInv, OnlyOne
    <3>3. OnItsWay(n)
      BY <3>2 DEF OnItsWay
    <3>4. QED
      BY <1>1, <1>3, <3>3 DEF ItemSound
  <2>4. QED
    BY <1>4, <2>2, <2>3 DEF TranscriptionInv, WireSound
<1>10. OnlyOne'
  BY <1>3, <1>7 DEF TranscriptionInv, OnlyOne, Filling
<1>11. ToldSound'
  <2>1. \A f \in told : f.item \in Item
    BY <1>1 DEF ToldEvent
  <2>2. \A f \in told :
          item'[f.item].state # "unused"
            /\ (item'[f.item].state \in {"filling", "asked", "committed"} =>
                   f.turn = item'[f.item].turn)
    BY <1>3, <2>1 DEF TranscriptionInv, ToldSound
  <2>3. QED
    BY <1>2, <2>2 DEF TranscriptionInv, ToldSound
<1>12. AsrSound'
  BY <1>2 DEF TranscriptionInv, AsrSound
<1>13. QED
  BY <1>5, <1>8, <1>9, <1>10, <1>11, <1>12 DEF TranscriptionInv

\* What is left on its way once the first event was read.
LEMMA ReadLeaves ==
  ASSUME TranscriptionInv, wire # <<>>, wire' = Tail(wire), item' = item
  PROVE  /\ wire' \in Seq(WireEvent) /\ Len(wire') <= MaxWire
         /\ Head(wire) \in WireEvent /\ item[Head(wire).item].state # "unused"
         /\ WireSound'
         /\ Head(wire).kind = "committed" =>
              OnItsWay(Head(wire).item) /\ \A i : ~OnItsWay(i)'
         /\ Head(wire).kind # "committed" => \A i : OnItsWay(i)' <=> OnItsWay(i)
<1>1. wire \in Seq(WireEvent) /\ Len(wire) <= MaxWire /\ Len(wire) \in Nat /\ MaxWire \in Nat
  BY TranscriptionTyped, TranscriptionAssumption DEF TranscriptionInv
<1>2. /\ wire' \in Seq(WireEvent) /\ Len(wire') <= Len(wire) /\ Head(wire) = wire[1]
      /\ 1 \in DOMAIN wire
      /\ \A p \in DOMAIN wire : p = 1 \/ (p - 1 \in DOMAIN wire' /\ wire[p] = wire'[p - 1])
      /\ \A p \in DOMAIN wire' :
           p + 1 \in DOMAIN wire /\ p + 1 # 1 /\ wire'[p] = wire[p + 1]
  BY <1>1, WireReads
<1>3. Len(wire') <= MaxWire
  <2>1. Len(wire') \in Nat
    BY <1>2
  <2>2. QED
    BY <1>1, <1>2, <2>1
<1>4. Head(wire) \in WireEvent /\ item[Head(wire).item].state # "unused"
  BY <1>1, <1>2, WireTyped DEF TranscriptionInv, WireSound
<1>5. WireSound'
  <2>1. \A p \in DOMAIN wire' : item'[wire'[p].item].state # "unused"
    BY <1>2 DEF TranscriptionInv, WireSound
  <2>2. ASSUME NEW p \in DOMAIN wire', NEW q \in DOMAIN wire',
               wire'[p].kind = "committed", wire'[q].kind = "committed"
        PROVE  p = q
    <3>1. p + 1 = q + 1
      BY <1>2, <2>2 DEF TranscriptionInv, WireSound
    <3>2. p \in Nat /\ q \in Nat
      BY <1>2
    <3>3. QED
      BY <3>1, <3>2
  <2>3. QED
    BY <2>1, <2>2 DEF WireSound
<1>6. ASSUME Head(wire).kind = "committed"
      PROVE  OnItsWay(Head(wire).item) /\ \A i : ~OnItsWay(i)'
  <2>1. OnItsWay(Head(wire).item)
    BY <1>2, <1>6 DEF OnItsWay
  <2>2. \A p \in DOMAIN wire' : wire'[p].kind # "committed"
    BY <1>2, <1>6 DEF TranscriptionInv, WireSound
  <2>3. QED
    BY <2>1, <2>2 DEF OnItsWay
<1>7. ASSUME Head(wire).kind # "committed"
      PROVE  \A i : OnItsWay(i)' <=> OnItsWay(i)
  BY <1>2, <1>7, ZenonT(60) DEF OnItsWay
<1>8. QED
  BY <1>2, <1>3, <1>4, <1>5, <1>6, <1>7

LEMMA AcknowledgedStep ==
  ASSUME TranscriptionInv, NEW n \in Item, ReadAcknowledgement(n)
  PROVE  TranscriptionInv'
<1>1. /\ asr \in AsrType /\ item \in [Item -> ItemRecord] /\ \A i \in Item : ItemSound(i)
      /\ AsrSound /\ OnlyOne /\ told \subseteq ToldEvent /\ ToldSound
  BY TranscriptionTyped DEF TranscriptionInv
<1>2. /\ pump = "running" /\ wire # <<>> /\ wire' = Tail(wire) /\ item' = item /\ told' = told
      /\ Head(wire) = [kind |-> "committed", item |-> n]
  BY DEF ReadAcknowledgement
<1>3. Head(wire).kind = "committed" /\ Head(wire).item = n
  BY <1>2
<1>4. /\ wire' \in Seq(WireEvent) /\ Len(wire') <= MaxWire /\ WireSound'
      /\ OnItsWay(n) /\ \A i : ~OnItsWay(i)'
  BY <1>2, <1>3, ReadLeaves
<1>5. Unacked(n) /\ item[n].state = "committed"
  BY <1>1, <1>4 DEF Unacked, ItemSound
<1>6. \A i \in Item : Unacked(i) => i = n
  BY <1>1, <1>5 DEF OnlyOne
<1>7. \A i \in Item : ~Unacked(i)'
  BY <1>2, <1>4, <1>5, <1>6 DEF Unacked
<1>8. OnlyOne'
  BY <1>1, <1>2, <1>7 DEF OnlyOne, Filling
<1>9. CASE asr.current = None \/ asr.committing = "no"
  <2>1. asr' = [asr EXCEPT !.failure = TRUE] /\ pump' = "ended"
    BY <1>9 DEF ReadAcknowledgement
  <2>2. /\ asr' \in AsrType /\ asr'.items = asr.items /\ asr'.finished = asr.finished
        /\ asr'.current = asr.current /\ asr'.committing = asr.committing
    BY <1>1, <2>1 DEF AsrType
  <2>3. \A i \in Item : ItemSound(i)'
    BY <1>1, <1>2, <1>4, <1>7, <2>1, <2>2 DEF ItemSound
  <2>4. AsrSound' /\ ToldSound'
    BY <1>1, <1>2, <2>1, <2>2 DEF AsrSound, ToldSound
  <2>5. TranscriptionTypeOK'
    BY <1>1, <1>2, <1>4, <2>1, <2>2, TranscriptionTypedNext
  <2>6. QED
    BY <1>4, <1>8, <2>3, <2>4, <2>5 DEF TranscriptionInv
<1>10. CASE ~(asr.current = None \/ asr.committing = "no")
  <2> DEFINE acked == IF asr.committing = "waiting" THEN "acked" ELSE asr.committing
             left == asr.quarantined \ {n}
             held == [asr.items EXCEPT ![n] = asr.current]
  <2>1. asr' = [asr EXCEPT !.items = held, !.early = TRUE, !.quarantined = left,
                           !.committing = acked] /\ pump' = pump
    BY <1>1, <1>10 DEF ReadAcknowledgement, Bound, AsrType
  <2>2. /\ acked \in {"no", "waiting", "acked", "failed"} /\ acked # "no"
        /\ left \subseteq Item /\ held \in [Item -> Turn \cup {None}]
        /\ held[n] = asr.current /\ \A i \in Item \ {n} : held[i] = asr.items[i]
    BY <1>1, <1>10 DEF AsrType
  <2> HIDE DEF acked, left, held
  <2>3. /\ asr' \in AsrType /\ asr'.items = held /\ asr'.finished = asr.finished
        /\ asr'.current = asr.current /\ asr'.committing = acked /\ asr'.failure = asr.failure
    BY <1>1, <2>1, <2>2 DEF AsrType
  <2>4. asr.current = item[n].turn
    BY <1>1, <1>5, <1>10 DEF ItemSound
  <2>5. \A i \in Item : item[i].state # "filling"
    BY <1>1, <1>10 DEF ItemSound
  <2>6. \A i \in Item : ItemSound(i)'
    <3>1. ItemSound(n)'
      BY <1>1, <1>2, <1>5, <1>4, <1>7, <2>2, <2>3, <2>4 DEF ItemSound
    <3>2. \A i \in Item \ {n} : ItemSound(i)'
      BY <1>1, <1>2, <1>4, <1>6, <1>7, <2>1, <2>2, <2>3, <2>5 DEF ItemSound
    <3>3. QED
      BY <3>1, <3>2
  <2>7. AsrSound' /\ ToldSound'
    BY <1>1, <1>2, <1>10, <2>1, <2>2, <2>3 DEF AsrSound, ToldSound
  <2>8. TranscriptionTypeOK'
    BY <1>1, <1>2, <1>4, <2>1, <2>3, TranscriptionTypedNext
  <2>9. QED
    BY <1>4, <1>8, <2>6, <2>7, <2>8 DEF TranscriptionInv
<1>11. QED
  BY <1>9, <1>10

\* An event of an item that fills, or was committed, is for the turn it is of, or for none.
LEMMA TurnIsHis ==
  ASSUME TranscriptionInv, NEW n \in Item, pump = "running", item[n].state # "unused"
  PROVE  /\ TurnOf(n) \in Turn \cup {None}
         /\ item[n].state \in {"filling", "asked", "committed"} =>
              TurnOf(n) \in {item[n].turn, None}
<1>1. asr \in AsrType /\ item \in [Item -> ItemRecord] /\ ItemSound(n)
  BY TranscriptionTyped DEF TranscriptionInv
<1>2. TurnOf(n) \in {None, asr.items[n], asr.current}
  BY DEF TurnOf
<1>3. TurnOf(n) = asr.current => TurnOf(n) = None \/ asr.items[n] = None
                                  \/ TurnOf(n) = asr.items[n]
  BY DEF TurnOf
<1>4. item[n].state \in {"filling", "asked"} => asr.current \in {item[n].turn, None}
  BY <1>1 DEF ItemSound, Unacked
<1>5. item[n].state = "committed" /\ asr.items[n] = None =>
        asr.current \in {item[n].turn, None}
  BY <1>1, TranscriptionAssumption DEF ItemSound
<1>6. item[n].state \in {"filling", "asked", "committed"} => asr.items[n] \in {item[n].turn, None}
  BY <1>1 DEF ItemSound
<1>7. QED
  BY <1>1, <1>2, <1>3, <1>4, <1>5, <1>6 DEF AsrType

LEMMA RecognizedStep ==
  ASSUME TranscriptionInv, NEW n \in Item, NEW k \in Recognized, ReadRecognized(k, n)
  PROVE  TranscriptionInv'
<1>1. /\ asr \in AsrType /\ item \in [Item -> ItemRecord] /\ \A i \in Item : ItemSound(i)
      /\ AsrSound /\ OnlyOne /\ told \subseteq ToldEvent /\ ToldSound
  BY TranscriptionTyped DEF TranscriptionInv
<1>2. /\ pump = "running" /\ pump' = pump /\ wire # <<>> /\ wire' = Tail(wire) /\ item' = item
      /\ Head(wire) = [kind |-> k, item |-> n]
  BY DEF ReadRecognized
<1>3. Head(wire).kind = k /\ Head(wire).item = n /\ k # "committed"
  BY <1>2 DEF Recognized
<1>4. /\ wire' \in Seq(WireEvent) /\ Len(wire') <= MaxWire /\ WireSound'
      /\ item[n].state # "unused" /\ \A i : OnItsWay(i)' <=> OnItsWay(i)
  BY <1>2, <1>3, ReadLeaves
<1>5. \A i \in Item : Unacked(i)' <=> Unacked(i)
  BY <1>2, <1>4 DEF Unacked
<1>6. PICK t \in Turn \cup {None} : t = TurnOf(n)
  BY <1>2, <1>4, TurnIsHis
<1>7. item[n].state \in {"filling", "asked", "committed"} => t \in {item[n].turn, None}
  BY <1>2, <1>4, <1>6, TurnIsHis
<1> DEFINE speaks == t # None /\ t \notin asr.finished
           now == IF t # None THEN t ELSE asr.items[n]
           held == [asr.items EXCEPT ![n] = now]
           aside == IF asr.items[n] = None /\ ~asr.early THEN asr.quarantined \cup {n}
                    ELSE asr.quarantined
           final == IF speaks /\ k # "delta" THEN asr.finished \cup {t} ELSE asr.finished
           event == [kind |-> k, turn |-> t, item |-> n]
<1>8. asr' = [asr EXCEPT !.items = held, !.quarantined = aside, !.finished = final]
  BY <1>1, <1>6 DEF ReadRecognized, AsrType
<1>9. told' = IF speaks THEN told \cup {event} ELSE told
  BY <1>6 DEF ReadRecognized
<1>10. /\ now \in Turn \cup {None} /\ held \in [Item -> Turn \cup {None}] /\ held[n] = now
       /\ \A i \in Item \ {n} : held[i] = asr.items[i]
       /\ aside \subseteq Item /\ final \subseteq Turn /\ asr.finished \subseteq final
       /\ speaks /\ k # "delta" => t \in final
  BY <1>1, <1>6 DEF AsrType
<1>11. speaks => event \in ToldEvent /\ event.kind = k /\ event.turn = t /\ event.item = n
  BY <1>6 DEF ToldEvent
<1> HIDE DEF held, aside, final, event
<1>12. /\ asr' \in AsrType /\ asr'.items = held /\ asr'.finished = final
       /\ asr'.current = asr.current /\ asr'.committing = asr.committing
       /\ asr'.failure = asr.failure
  BY <1>1, <1>8, <1>10 DEF AsrType
<1>13. TranscriptionTypeOK'
  <2>1. told' \subseteq ToldEvent
    BY <1>1, <1>9, <1>11
  <2>2. pump' \in {"running", "ended", "closed"} /\ item' \in [Item -> ItemRecord]
    BY <1>1, <1>2
  <2>3. QED
    BY <1>4, <1>12, <2>1, <2>2, TranscriptionTypedNext
<1>14. \A i \in Item : ItemSound(i)'
  <2>1. ItemSound(n)'
    BY <1>1, <1>2, <1>4, <1>5, <1>7, <1>10, <1>12 DEF ItemSound
  <2>2. \A i \in Item \ {n} : ItemSound(i)'
    BY <1>1, <1>2, <1>4, <1>5, <1>10, <1>12 DEF ItemSound
  <2>3. QED
    BY <2>1, <2>2
<1>15. AsrSound' /\ OnlyOne'
  BY <1>1, <1>2, <1>5, <1>12 DEF AsrSound, OnlyOne, Filling
<1>16. ToldSound'
  <2>1. \A e \in told : /\ e.kind # "delta" => e.turn \in asr.finished
                        /\ item[e.item].state # "unused"
                        /\ item[e.item].state \in {"filling", "asked", "committed"} =>
                             e.turn = item[e.item].turn
    BY <1>1 DEF ToldSound
  <2>2. CASE ~speaks
    BY <1>1, <1>2, <1>9, <1>10, <1>12, <2>2 DEF ToldSound
  <2>3. CASE speaks
    <3>1. told' = told \cup {event} /\ t # None /\ t \notin asr.finished
      BY <1>9, <2>3
    <3>2. \A e \in told : e.kind # "delta" => e.turn # t
      BY <2>1, <3>1
    <3>3. \A e \in told' : /\ e.kind # "delta" => e.turn \in final
                           /\ item[e.item].state # "unused"
                           /\ item[e.item].state \in {"filling", "asked", "committed"} =>
                                e.turn = item[e.item].turn
      BY <1>4, <1>7, <1>10, <1>11, <2>1, <2>3, <3>1
    <3>4. \A e, f \in told' : e.turn = f.turn /\ e.kind # "delta" /\ f.kind # "delta" => e = f
      BY <1>1, <1>11, <2>3, <3>1, <3>2 DEF ToldSound
    <3>5. QED
      BY <1>2, <1>12, <3>3, <3>4 DEF ToldSound
  <2>4. QED
    BY <2>2, <2>3
<1>17. QED
  BY <1>4, <1>13, <1>14, <1>15, <1>16 DEF TranscriptionInv

LEMMA TranscriptionInvStep ==
  TranscriptionInv /\ [TranscriptionNext]_transcription => TranscriptionInv'
<1> SUFFICES ASSUME TranscriptionInv, [TranscriptionNext]_transcription PROVE TranscriptionInv'
  OBVIOUS
<1>1. CASE (\E t \in Turn : Append_(t) \/ Commit(t)) \/ Clear
  BY <1>1, CallsStep
<1>2. CASE CommitEnds \/ CommitFails \/ CloseConnection \/ PumpFails
  BY <1>2, ConnectionStep
<1>3. CASE \E n \in Item : Acknowledge(n) \/ Recognize(n) \/ Finish(n)
  BY <1>3, ProviderStep
<1>4. CASE PumpReads
  BY <1>4, AcknowledgedStep, RecognizedStep DEF PumpReads
<1>5. CASE UNCHANGED transcription
  BY <1>5 DEF transcription, TranscriptionInv, TranscriptionTypeOK, ItemSound, AsrSound,
              WireSound, OnlyOne, ToldSound, Unacked, OnItsWay, Filling
<1>6. QED
  BY <1>1, <1>2, <1>3, <1>4, <1>5 DEF TranscriptionNext

LEMMA TranscriptionInvariant == TranscriptionSpec => []TranscriptionInv
BY TranscriptionInvInit, TranscriptionInvStep, PTL DEF TranscriptionSpec

\* What was recognized of a committed item is told to the turn that committed it, in whatever
\* order it comes and whatever was cleared in between; and a turn has one final. (Events of
\* an item that was never committed can be told to another turn, transcription.py:215-217.)
THEOREM FinalsAttached == TranscriptionSpec => [](TranscriptionTypeOK /\ FinalsStayAttached)
<1>1. TranscriptionInv => TranscriptionTypeOK /\ FinalsStayAttached
  BY DEF TranscriptionInv, ToldSound, FinalsStayAttached, OfTurn
<1>2. QED
  BY <1>1, TranscriptionInvariant, PTL

-----------------------------------------------------------------------------
\* The live bridge. The tasks that were created have the numbers from 1 on, one for each word,
\* delegation or typed text at most. Unless two cancellations overlapped: the one task that
\* was not cancelled is conv.task and of the current generation, who waits in _cancel does so
\* for conv.task, and the words that were routed are behind the watermark, but for turns whose
\* cancellation was lost: those are never current, as a cancelled task is of an earlier
\* generation.

Begun == {t \in TaskId : tasks[t].stage # "none"}
Promised(a) == IF waits[a].on # 0 /\ waits[a].then # "interrupt" THEN 1 ELSE 0
Asked == met.words + met.delegations + met.typed
TasksCounted ==
  \E n \in Nat : Begun = 1..n /\ n + Promised("reader") + Promised("controls") <= Asked

TaskFormed(r) ==
  /\ r.kind # "resolve" => r.parts = {}
  /\ r.stage = "grace" => r.kind = "resolve"
  /\ r.kind = "resolve" /\ r.stage \in {"announcing", "turn"} => r.parts # {}
WaitsFormed ==
  \A a \in Actor : waits[a].on # 0 => call = "running" /\ waits[a].then # "nothing"
ClosedFormed == conv.closed <=> call \in {"closing", "gone"}

Living(r) == r.stage \notin {"none", "done"}
Dated(r, generation) ==
  Living(r) => r.generation <= generation /\ (r.cancelled => r.generation < generation)
TasksDated == \A t \in TaskId : Dated(tasks[t], conv.generation)
OneCurrent ==
  \A t \in TaskId : Living(tasks[t]) /\ ~tasks[t].cancelled =>
    /\ t = conv.task /\ ~conv.closed /\ tasks[t].generation = conv.generation
    /\ tasks[t].stage \in {"announcing", "turn"} => tasks[t].parts \subseteq conv.fragments
OneWaits ==
  \A a \in Actor : waits[a].on # 0 =>
    /\ conv.task = waits[a].on
    /\ Living(tasks[conv.task]) => tasks[conv.task].cancelled
    /\ \A b \in Actor \ {a} : waits[b].on = 0
RoutedCount == [turns : Nat, lost : Nat]
CountedOnce(n) == n.turns <= 1 + n.lost
WasHeard(n) == n.turns > n.lost
RoutedBehind ==
  /\ \A w \in Word : CountedOnce(routed[w]) /\ (WasHeard(routed[w]) => w <= conv.consumed)
  /\ \A w \in conv.fragments : w > conv.consumed

ConvType ==
  [task : {0} \cup TaskId, generation : Nat, closed : BOOLEAN, fragments : SUBSET Word,
   consumed : Offset, active : Offset, resolving : BOOLEAN]
TaskRecord ==
  [stage : Stage, kind : {"none", "resolve", "say"}, offset : Offset, generation : Nat,
   parts : SUBSET Word, cancelled : BOOLEAN, said : 0..MaxChunks]
WaitRecord ==
  [on : {0} \cup TaskId, offset : Offset,
   then : {"nothing", "delegate", "restart", "say", "interrupt"}]
MetType ==
  [words : Offset, delegations : 0..MaxDelegations, typed : 0..MaxTyped,
   interrupts : 0..MaxInterrupts]

LiveTyped ==
  /\ call \in {"new", "opening", "running", "stopping", "closing", "gone"}
  /\ claimed \in BOOLEAN /\ rival \in BOOLEAN /\ overlapped \in BOOLEAN
  /\ conv \in ConvType /\ tasks \in [TaskId -> TaskRecord] /\ waits \in [Actor -> WaitRecord]
  /\ met \in MetType /\ routed \in [Word -> RoutedCount]

LiveSound ==
  /\ OneOwner /\ TasksCounted /\ WaitsFormed /\ ClosedFormed /\ TasksDated
  /\ \A t \in TaskId : TaskFormed(tasks[t])
  /\ overlapped \/ (OneCurrent /\ OneWaits /\ RoutedBehind)
LiveInv == LiveTyped /\ LiveSound

LEMMA LiveTypedIs == LiveTyped <=> LiveTypeOK
BY DEF LiveTyped, LiveTypeOK, ConvType, TaskRecord, WaitRecord, MetType, RoutedCount

LEMMA FreshIs == ASSUME NEW n \in Nat, Begun = 1..n PROVE Fresh = n + 1
<1>1. Cardinality(1..n) = n
  <2>1. Cardinality(1..n) = IF 1 > n THEN 0 ELSE n - 1 + 1
    BY FS_Interval
  <2>2. QED
    BY <2>1
<1>2. QED
  BY <1>1 DEF Fresh, Begun

LEMMA LiveInvInit == LiveInit => LiveInv
<1> SUFFICES ASSUME LiveInit PROVE LiveInv
  OBVIOUS
<1>1. {MaxWords, MaxDelegations, MaxTyped, MaxInterrupts, MaxChunks} \subseteq Nat
  BY LiveAssumption
<1>2. NoTask \in TaskRecord /\ NoTask.stage = "none" /\ NoTask.kind = "none" /\ NoTask.parts = {}
  BY <1>1 DEF NoTask, TaskRecord, Stage, Offset
<1>3. tasks = [t \in TaskId |-> NoTask]
  BY DEF LiveInit
<1>4. tasks \in [TaskId -> TaskRecord]
      /\ \A t \in TaskId : tasks[t].stage = "none" /\ TaskFormed(tasks[t])
  BY <1>2, <1>3 DEF TaskFormed
<1>5. AtRest \in WaitRecord /\ AtRest.on = 0
  BY <1>1 DEF AtRest, WaitRecord, Offset
<1>6. waits \in [Actor -> WaitRecord] /\ \A a \in Actor : waits[a].on = 0
  BY <1>5 DEF LiveInit
<1>7. conv \in ConvType /\ conv.closed = FALSE /\ conv.fragments = {} /\ conv.consumed = 0
  BY <1>1 DEF LiveInit, ConvType, Offset
<1>8. met \in MetType /\ met.words = 0 /\ met.delegations = 0 /\ met.typed = 0
  BY <1>1 DEF LiveInit, MetType, Offset
<1>9. LiveTyped
  <2>1. routed \in [Word -> RoutedCount] /\ call = "new" /\ claimed = FALSE /\ rival = FALSE
        /\ overlapped = FALSE
    BY DEF LiveInit, RoutedCount
  <2>2. QED
    BY <1>4, <1>6, <1>7, <1>8, <2>1 DEF LiveTyped
<1>10. OneOwner /\ WaitsFormed /\ ClosedFormed /\ TasksDated
  <2>1. call = "new" /\ claimed = FALSE /\ rival = FALSE
    BY DEF LiveInit
  <2>2. QED
    BY <1>4, <1>6, <1>7, <2>1
       DEF OneOwner, WaitsFormed, ClosedFormed, TasksDated, Dated, Living
<1>11. TasksCounted
  <2>1. Begun = 1..0 /\ 0 \in Nat
    BY <1>4 DEF Begun
  <2>2. Promised("reader") = 0 /\ Promised("controls") = 0
    BY <1>6 DEF Promised, Actor
  <2>3. Asked = 0
    BY <1>8 DEF Asked
  <2>4. QED
    BY <2>1, <2>2, <2>3 DEF TasksCounted
<1>12. OneCurrent /\ OneWaits
  BY <1>4, <1>6 DEF OneCurrent, OneWaits, Living
<1>13. RoutedBehind
  BY <1>7 DEF RoutedBehind, LiveInit, CountedOnce, WasHeard
<1>14. QED
  BY <1>4, <1>9, <1>10, <1>11, <1>12, <1>13 DEF LiveInv, LiveSound

LEMMA AskedBound ==
  ASSUME NEW m \in MetType
  PROVE  /\ m.words \in Nat /\ m.delegations \in Nat /\ m.typed \in Nat
         /\ m.words + m.delegations + m.typed <= MaxWords + MaxDelegations + MaxTyped
<1>1. {MaxWords, MaxDelegations, MaxTyped, MaxInterrupts, MaxChunks} \subseteq Nat
  BY LiveAssumption
<1>2. /\ m.words \in 0..MaxWords /\ m.delegations \in 0..MaxDelegations
      /\ m.typed \in 0..MaxTyped
  BY DEF MetType, Offset
<1>3. QED
  BY <1>1, <1>2

LEMMA PromisedIs == \A a : Promised(a) \in {0, 1}
BY DEF Promised

\* What follows the return of _cancel: no task, or the next one.
LEMMA Continues ==
  ASSUME tasks \in [TaskId -> TaskRecord], NEW n \in Nat, Begun = 1..n, NEW c \in ConvType,
         NEW then \in {"delegate", "restart", "say", "interrupt"}, NEW o \in Offset,
         Continue(c, tasks, then, o), then # "interrupt" => n + 1 \in TaskId
  PROVE  /\ conv' \in ConvType
         /\ conv'.generation = c.generation /\ conv'.closed = c.closed
         /\ conv'.fragments = c.fragments /\ conv'.consumed = c.consumed
         /\ \/ then = "interrupt" /\ tasks' = tasks /\ conv'.task = 0
            \/ /\ then # "interrupt" /\ conv'.task = n + 1
               /\ tasks' \in [TaskId -> TaskRecord]
               /\ \A t \in TaskId \ {n + 1} : tasks'[t] = tasks[t]
               /\ tasks'[n + 1].stage \in {"grace", "announcing"} /\ TaskFormed(tasks'[n + 1])
               /\ tasks'[n + 1].generation = c.generation /\ tasks'[n + 1].parts = {}
               /\ tasks'[n + 1].said = 0 /\ ~tasks'[n + 1].cancelled
<1>1. Fresh = n + 1
  BY FreshIs
<1>2. CASE then = "interrupt"
  <2>1. conv' = [c EXCEPT !.task = 0] /\ tasks' = tasks
    BY <1>2 DEF Continue
  <2>2. QED
    BY <1>2, <2>1 DEF ConvType
<1>3. CASE then # "interrupt"
  <2> DEFINE kind == IF then = "say" THEN "say" ELSE "resolve"
             offset == IF then = "delegate" THEN o ELSE c.active
             g == c.generation
             at == IF kind = "resolve" THEN "grace" ELSE "announcing"
             q == [NoTask EXCEPT !.stage = at, !.kind = kind, !.offset = o, !.generation = g]
  <2>1. /\ conv' = [c EXCEPT !.task = n + 1, !.active = offset]
        /\ tasks' = [tasks EXCEPT ![n + 1] = q]
    BY <1>1, <1>3 DEF Continue, Create
  <2>2. /\ kind \in {"resolve", "say"} /\ at \in {"grace", "announcing"}
        /\ (at = "grace" <=> kind = "resolve") /\ offset \in Offset /\ g \in Nat
    BY DEF ConvType
  <2> HIDE DEF kind, at, offset
  <2>3. 0 \in 0..MaxChunks
    BY LiveAssumption
  <2>4. /\ NoTask \in TaskRecord /\ NoTask.parts = {} /\ NoTask.said = 0
        /\ NoTask.cancelled = FALSE
    BY <2>3, LiveAssumption DEF NoTask, TaskRecord, Stage, Offset
  <2>5. /\ q \in TaskRecord /\ q.stage = at /\ q.kind = kind /\ q.generation = g
        /\ q.parts = {} /\ q.said = 0 /\ ~q.cancelled
    BY <2>2, <2>4 DEF TaskRecord, Stage
  <2> HIDE DEF q
  <2>6. TaskFormed(q)
    BY <2>2, <2>5 DEF TaskFormed
  <2>7. /\ tasks' \in [TaskId -> TaskRecord] /\ tasks'[n + 1] = q
        /\ \A t \in TaskId \ {n + 1} : tasks'[t] = tasks[t]
    BY <1>3, <2>1, <2>5
  <2>8. /\ conv' \in ConvType /\ conv'.task = n + 1
        /\ conv'.generation = c.generation /\ conv'.closed = c.closed
        /\ conv'.fragments = c.fragments /\ conv'.consumed = c.consumed
    BY <1>3, <2>1, <2>2 DEF ConvType
  <2>9. QED
    BY <1>3, <2>2, <2>5, <2>6, <2>7, <2>8
<1>4. QED
  BY <1>2, <1>3

\* The tasks that were begun, after another one was.
LEMMA BegunGrows ==
  ASSUME NEW n \in Nat, Begun = 1..n, n + 1 \in TaskId,
         \A t \in TaskId \ {n + 1} : tasks'[t] = tasks[t], tasks'[n + 1].stage # "none"
  PROVE  Begun' = 1..(n + 1)
<1>1. Begun' = Begun \cup {n + 1}
  BY DEF Begun
<1>2. QED
  BY <1>1

\* A caller in _cancel goes on: nobody's task is left, and it creates one or none.
LEMMA ContinuesStep ==
  ASSUME LiveInv, NEW a \in Actor, NEW c \in ConvType, c.closed = conv.closed,
         c.consumed = conv.consumed, c.generation >= conv.generation,
         \A w \in c.fragments : w > conv.consumed \/ w \in conv.fragments,
         NEW then \in {"delegate", "restart", "say", "interrupt"}, NEW o \in Offset,
         Continue(c, tasks, then, o),
         call = "running", UNCHANGED <<call, claimed, rival, routed, overlapped>>,
         waits' \in [Actor -> WaitRecord], waits'[a].on = 0,
         \A b \in Actor \ {a} : waits'[b] = waits[b],
         met' \in MetType, Asked' >= Asked,
         then # "interrupt" => Asked' > Asked \/ Promised(a) = 1,
         \A t \in TaskId : overlapped \/ ~Living(tasks[t]) \/ tasks[t].cancelled,
         \A b \in Actor \ {a} : overlapped \/ waits[b].on = 0
  PROVE  LiveInv'
<1>1. /\ LiveTyped /\ LiveSound
      /\ tasks \in [TaskId -> TaskRecord] /\ conv \in ConvType /\ met \in MetType
  BY DEF LiveInv, LiveTyped
<1>2. UNCHANGED call /\ UNCHANGED claimed /\ UNCHANGED rival /\ routed' = routed
        /\ overlapped' = overlapped
  OBVIOUS
<1>3. PICK n \in Nat : /\ Begun = 1..n
                       /\ n + Promised("reader") + Promised("controls") <= Asked
  BY <1>1 DEF LiveSound, TasksCounted
<1>4. /\ Asked \in Nat /\ Asked' \in Nat
      /\ Asked' <= MaxWords + MaxDelegations + MaxTyped
  BY <1>1, AskedBound DEF Asked
<1>5. /\ Promised("reader")' <= Promised("reader")
      /\ Promised("controls")' <= Promised("controls")
      /\ Promised(a)' = 0 /\ Promised("reader") \in {0, 1} /\ Promised("controls") \in {0, 1}
      /\ Promised("reader")' \in {0, 1} /\ Promised("controls")' \in {0, 1}
  BY PromisedIs DEF Promised, Actor
<1>6. then # "interrupt" => n + 1 + Promised("reader")' + Promised("controls")' <= Asked'
  <2>1. CASE a = "reader"
    BY <1>3, <1>4, <1>5, <2>1
  <2>2. CASE a = "controls"
    BY <1>3, <1>4, <1>5, <2>2
  <2>3. QED
    BY <2>1, <2>2 DEF Actor
<1>7. then # "interrupt" => n + 1 \in TaskId
  BY <1>4, <1>5, <1>6, LiveAssumption DEF TaskId
<1>8. /\ conv' \in ConvType
      /\ conv'.generation = c.generation /\ conv'.closed = c.closed
      /\ conv'.fragments = c.fragments /\ conv'.consumed = c.consumed
      /\ \/ then = "interrupt" /\ tasks' = tasks /\ conv'.task = 0
         \/ /\ then # "interrupt" /\ conv'.task = n + 1
            /\ tasks' \in [TaskId -> TaskRecord]
            /\ \A t \in TaskId \ {n + 1} : tasks'[t] = tasks[t]
            /\ tasks'[n + 1].stage \in {"grace", "announcing"} /\ TaskFormed(tasks'[n + 1])
            /\ tasks'[n + 1].generation = c.generation /\ tasks'[n + 1].parts = {}
            /\ tasks'[n + 1].said = 0 /\ ~tasks'[n + 1].cancelled
  BY <1>1, <1>3, <1>7, Continues
<1>9. LiveTyped'
  BY <1>1, <1>2, <1>8 DEF LiveTyped
<1>10. TasksCounted'
  <2>1. CASE then = "interrupt"
    <3>1. Begun' = 1..n
      BY <1>3, <1>8, <2>1 DEF Begun
    <3>2. n + Promised("reader")' + Promised("controls")' <= Asked'
      BY <1>3, <1>4, <1>5
    <3>3. QED
      BY <3>1, <3>2 DEF TasksCounted
  <2>2. CASE then # "interrupt"
    <3>1. Begun' = 1..(n + 1)
      BY <1>3, <1>7, <1>8, <2>2, BegunGrows
    <3>2. QED
      BY <1>6, <2>2, <3>1 DEF TasksCounted
  <2>3. QED
    BY <2>1, <2>2
<1>11. OneOwner' /\ WaitsFormed' /\ ClosedFormed'
  <2>1. OneOwner'
    BY <1>1, <1>2 DEF LiveSound, OneOwner
  <2>2. WaitsFormed'
    BY <1>1, <1>2 DEF LiveSound, WaitsFormed
  <2>3. ClosedFormed'
    BY <1>1, <1>2, <1>8 DEF LiveSound, ClosedFormed
  <2>4. QED
    BY <2>1, <2>2, <2>3
<1>12. (\A t \in TaskId : TaskFormed(tasks[t])') /\ TasksDated'
  <2>1. \A t \in TaskId : TaskFormed(tasks[t])'
    BY <1>1, <1>8 DEF LiveSound, TaskFormed
  <2>2. ASSUME NEW t \in TaskId PROVE Dated(tasks'[t], conv'.generation)
    <3>1. /\ tasks[t].generation \in Nat /\ conv.generation \in Nat /\ c.generation \in Nat
          /\ Dated(tasks[t], conv.generation)
      BY <1>1, <2>2 DEF LiveSound, TasksDated, TaskRecord, ConvType
    <3>2. CASE tasks'[t] = tasks[t]
      BY <1>8, <3>1, <3>2 DEF Dated
    <3>3. CASE tasks'[t] # tasks[t]
      <4>1. tasks'[t].generation = c.generation /\ ~tasks'[t].cancelled
        BY <1>8, <3>3
      <4>2. QED
        BY <1>8, <3>1, <4>1 DEF Dated
    <3>4. QED
      BY <3>2, <3>3
  <2>3. QED
    BY <2>1, <2>2 DEF TasksDated, Dated, Living
<1>13. ASSUME ~overlapped PROVE OneCurrent' /\ OneWaits' /\ RoutedBehind'
  <2>1. OneCurrent'
    <3>1. ~conv.closed
      BY <1>1 DEF LiveSound, ClosedFormed
    <3>2. ASSUME NEW t \in TaskId, Living(tasks'[t]), ~tasks'[t].cancelled
          PROVE  t = conv'.task /\ ~conv'.closed /\ tasks'[t].generation = conv'.generation
                   /\ (tasks'[t].stage \in {"announcing", "turn"} =>
                         tasks'[t].parts \subseteq conv'.fragments)
      BY <1>8, <1>13, <3>1, <3>2
    <3>3. QED
      BY <3>2 DEF OneCurrent, Living
  <2>2. OneWaits'
    BY <1>2, <1>13 DEF OneWaits
  <2>3. RoutedBehind'
    BY <1>1, <1>2, <1>8, <1>13 DEF LiveSound, RoutedBehind
  <2>4. QED
    BY <2>1, <2>2, <2>3
<1>14. QED
  BY <1>2, <1>9, <1>10, <1>11, <1>12, <1>13 DEF LiveInv, LiveSound

\* A caller enters _cancel: the task it finds is cancelled and waited for, or it goes on at once.
LEMMA CancelStep ==
  ASSUME LiveInv, NEW a \in Actor, Reading(a), NEW c \in ConvType, c.closed = conv.closed,
         c.consumed = conv.consumed, c.task = conv.task, c.generation = conv.generation,
         \A w \in c.fragments : w > conv.consumed \/ w \in conv.fragments,
         NEW then \in {"delegate", "restart", "say", "interrupt"}, NEW o \in Offset,
         Cancel(a, c, then, o), UNCHANGED <<call, claimed, rival, routed>>,
         met' \in MetType, Asked' >= Asked, then # "interrupt" => Asked' > Asked
  PROVE  LiveInv'
<1>1. /\ LiveTyped /\ LiveSound /\ call = "running" /\ waits[a].on = 0
      /\ tasks \in [TaskId -> TaskRecord] /\ conv \in ConvType /\ met \in MetType
      /\ waits \in [Actor -> WaitRecord] /\ overlapped \in BOOLEAN
  BY DEF LiveInv, LiveTyped, Reading
<1>2. call' = call /\ claimed' = claimed /\ rival' = rival /\ routed' = routed
  OBVIOUS
<1> DEFINE bumped == [c EXCEPT !.generation = @ + 1]
<1>3. /\ bumped \in ConvType /\ bumped.task = conv.task /\ bumped.closed = conv.closed
      /\ bumped.consumed = conv.consumed /\ bumped.fragments = c.fragments
      /\ conv.generation \in Nat /\ bumped.generation = conv.generation + 1
      /\ bumped.generation >= conv.generation
  BY <1>1 DEF ConvType
<1>4. CASE c.task = 0
  <2>1. Continue(bumped, tasks, then, o) /\ waits' = waits /\ overlapped' = overlapped
    BY <1>4 DEF Cancel
  <2> HIDE DEF bumped
  <2>2. /\ \A t \in TaskId : overlapped \/ ~Living(tasks[t]) \/ tasks[t].cancelled
        /\ \A b \in Actor : overlapped \/ waits[b].on = 0
    <3>1. 0 \notin TaskId
      BY DEF TaskId
    <3>2. QED
      BY <1>1, <1>4, <3>1 DEF LiveSound, OneCurrent, OneWaits
  <2>3. QED
    BY <1>1, <1>2, <1>3, <2>1, <2>2, ContinuesStep
<1>5. CASE c.task # 0
  <2>1. /\ conv' = bumped /\ tasks' = [tasks EXCEPT ![conv.task].cancelled = TRUE]
        /\ waits' = [waits EXCEPT ![a] = [on |-> conv.task, then |-> then, offset |-> o]]
        /\ overlapped' = (overlapped \/ \E b \in Actor \ {a} : waits[b].on # 0)
    BY <1>5 DEF Cancel, Cancels
  <2>2. conv.task \in TaskId
    BY <1>1, <1>5 DEF ConvType
  <2>3. /\ conv' \in ConvType /\ conv'.task = conv.task /\ conv'.closed = conv.closed
        /\ conv'.consumed = conv.consumed /\ conv'.fragments = c.fragments
        /\ conv'.generation = conv.generation + 1
    BY <1>3, <2>1
  <2> HIDE DEF bumped
  <2>4. /\ tasks' \in [TaskId -> TaskRecord] /\ tasks'[conv.task].cancelled
        /\ \A t \in TaskId : /\ tasks'[t].stage = tasks[t].stage
                             /\ tasks'[t].kind = tasks[t].kind
                             /\ tasks'[t].parts = tasks[t].parts
                             /\ tasks'[t].generation = tasks[t].generation
        /\ \A t \in TaskId \ {conv.task} : tasks'[t] = tasks[t]
    BY <1>1, <2>1, <2>2, ZenonT(60) DEF TaskRecord
  <2> DEFINE q == [on |-> conv.task, then |-> then, offset |-> o]
  <2>5. q \in WaitRecord /\ q.on = conv.task /\ q.then = then
    BY <1>1, <2>2 DEF WaitRecord
  <2> HIDE DEF q
  <2>6. /\ waits' \in [Actor -> WaitRecord] /\ waits'[a].on = conv.task /\ waits'[a].then = then
        /\ \A b \in Actor \ {a} : waits'[b] = waits[b]
    BY <1>1, <2>1, <2>5 DEF q
  <2>7. overlapped' \in BOOLEAN /\ (~overlapped' => ~overlapped)
        /\ (~overlapped' => \A b \in Actor \ {a} : waits[b].on = 0)
    BY <1>1, <2>1
  <2>8. LiveTyped'
    BY <1>1, <1>2, <2>3, <2>4, <2>6, <2>7 DEF LiveTyped
  <2>9. OneOwner' /\ WaitsFormed' /\ ClosedFormed'
    <3>1. OneOwner'
      BY <1>1, <1>2 DEF LiveSound, OneOwner
    <3>2. WaitsFormed'
      BY <1>1, <1>2, <2>6 DEF LiveSound, WaitsFormed
    <3>3. ClosedFormed'
      BY <1>1, <1>2, <2>3 DEF LiveSound, ClosedFormed
    <3>4. QED
      BY <3>1, <3>2, <3>3
  <2>10. TasksCounted'
    <3>1. PICK n \in Nat : /\ Begun = 1..n
                           /\ n + Promised("reader") + Promised("controls") <= Asked
      BY <1>1 DEF LiveSound, TasksCounted
    <3>2. Begun' = 1..n
      BY <2>4, <3>1 DEF Begun
    <3>3. Asked \in Nat /\ Asked' \in Nat
      BY <1>1, AskedBound DEF Asked
    <3>4. /\ Promised(a) = 0 /\ \A b \in Actor \ {a} : Promised(b)' = Promised(b)
          /\ Promised(a)' = IF then = "interrupt" THEN 0 ELSE 1
      BY <1>1, <1>5, <2>2, <2>6 DEF Promised, TaskId
    <3>5. n + Promised("reader")' + Promised("controls")' <= Asked'
      <4>1. CASE a = "reader"
        <5>1. Promised("controls")' = Promised("controls") /\ Promised("controls") \in {0, 1}
          BY <3>4, <4>1, PromisedIs DEF Actor
        <5>2. QED
          BY <3>1, <3>3, <3>4, <4>1, <5>1
      <4>2. CASE a = "controls"
        <5>1. Promised("reader")' = Promised("reader") /\ Promised("reader") \in {0, 1}
          BY <3>4, <4>2, PromisedIs DEF Actor
        <5>2. QED
          BY <3>1, <3>3, <3>4, <4>2, <5>1
      <4>3. QED
        BY <4>1, <4>2 DEF Actor
    <3>6. QED
      BY <3>2, <3>5 DEF TasksCounted
  <2>11. (\A t \in TaskId : TaskFormed(tasks[t])') /\ TasksDated'
    <3>1. \A t \in TaskId : TaskFormed(tasks[t])'
      BY <1>1, <2>4 DEF LiveSound, TaskFormed
    <3>2. \A t \in TaskId : tasks[t].generation \in Nat /\ Dated(tasks[t], conv.generation)
      BY <1>1 DEF LiveSound, TasksDated, TaskRecord
    <3>3. TasksDated'
      BY <1>3, <2>3, <2>4, <3>2 DEF TasksDated, Dated, Living
    <3>4. QED
      BY <3>1, <3>3
  <2>12. ASSUME ~overlapped' PROVE OneCurrent' /\ OneWaits' /\ RoutedBehind'
    <3>1. OneCurrent /\ OneWaits /\ RoutedBehind /\ \A b \in Actor \ {a} : waits[b].on = 0
      BY <1>1, <2>7, <2>12 DEF LiveSound
    <3>2. \A t \in TaskId : Living(tasks'[t]) => tasks'[t].cancelled
      BY <2>4, <3>1 DEF OneCurrent, Living
    <3>3. OneCurrent'
      BY <3>2 DEF OneCurrent, Living
    <3>4. OneWaits'
      BY <2>2, <2>3, <2>4, <2>6, <3>1 DEF OneWaits
    <3>5. RoutedBehind'
      BY <1>1, <1>2, <2>3, <3>1 DEF RoutedBehind
    <3>6. QED
      BY <3>3, <3>4, <3>5
  <2>13. QED
    BY <2>7, <2>8, <2>9, <2>10, <2>11, <2>12 DEF LiveInv, LiveSound
<1>6. QED
  BY <1>4, <1>5

LEMMA HearStep == ASSUME LiveInv, Hear PROVE LiveInv'
<1> DEFINE w == met.words + 1
           heard == IF w > conv.consumed THEN [conv EXCEPT !.fragments = @ \cup {w}] ELSE conv
<1>1. /\ LiveTyped /\ LiveSound /\ conv \in ConvType /\ met \in MetType
      /\ waits \in [Actor -> WaitRecord] /\ overlapped \in BOOLEAN
  BY DEF LiveInv, LiveTyped
<1>2. /\ Reading("reader") /\ met.words < MaxWords /\ met' = [met EXCEPT !.words = w]
      /\ call' = call /\ claimed' = claimed /\ rival' = rival /\ routed' = routed
  BY DEF Hear
<1>3. "reader" \in Actor /\ "restart" \in {"delegate", "restart", "say", "interrupt"}
  BY DEF Actor
<1>4. {MaxWords, MaxDelegations, MaxTyped, MaxInterrupts, MaxChunks} \subseteq Nat
  BY LiveAssumption
<1>5. w \in Word /\ w \in Offset
  BY <1>1, <1>2, <1>4 DEF MetType, Offset, Word
<1>6. met' \in MetType /\ Asked' = Asked + 1 /\ Asked \in Nat
  BY <1>1, <1>2, <1>5, AskedBound DEF Asked, MetType
<1>7. /\ heard \in ConvType /\ heard.task = conv.task /\ heard.closed = conv.closed
      /\ heard.generation = conv.generation /\ heard.consumed = conv.consumed
      /\ conv.fragments \subseteq heard.fragments
      /\ \A x \in heard.fragments : x > conv.consumed \/ x \in conv.fragments
  BY <1>1, <1>5 DEF ConvType
<1> HIDE DEF heard
<1>8. CASE conv.resolving /\ w <= conv.active
  <2>1. Cancel("reader", heard, "restart", conv.active)
    BY <1>8 DEF Hear, heard
  <2>2. conv.active \in Offset
    BY <1>1 DEF ConvType
  <2>3. Asked' >= Asked /\ Asked' > Asked
    BY <1>6
  <2>4. QED
    BY <1>2, <1>3, <1>6, <1>7, <2>1, <2>2, <2>3, CancelStep
<1>9. CASE ~(conv.resolving /\ w <= conv.active)
  <2>1. conv' = heard /\ tasks' = tasks /\ waits' = waits /\ overlapped' = overlapped
    BY <1>9 DEF Hear, heard
  <2>2. LiveTyped'
    BY <1>1, <1>2, <1>6, <1>7, <2>1 DEF LiveTyped
  <2>3. TasksCounted'
    <3>1. PICK n \in Nat : /\ Begun = 1..n
                           /\ n + Promised("reader") + Promised("controls") <= Asked
      BY <1>1 DEF LiveSound, TasksCounted
    <3>2. Begun' = 1..n /\ Promised("reader")' = Promised("reader")
          /\ Promised("controls")' = Promised("controls")
      BY <2>1, <3>1 DEF Begun, Promised
    <3>3. n + Promised("reader")' + Promised("controls")' <= Asked'
      BY <1>6, <3>1, <3>2, PromisedIs
    <3>4. QED
      BY <3>2, <3>3 DEF TasksCounted
  <2>4. /\ OneOwner' /\ WaitsFormed' /\ ClosedFormed' /\ TasksDated'
        /\ \A t \in TaskId : TaskFormed(tasks[t])'
    BY <1>1, <1>2, <1>7, <2>1
       DEF LiveSound, OneOwner, WaitsFormed, ClosedFormed, TaskFormed, TasksDated, Dated, Living
  <2>5. ASSUME ~overlapped PROVE OneCurrent' /\ OneWaits' /\ RoutedBehind'
    <3>1. OneCurrent /\ OneWaits /\ RoutedBehind
      BY <1>1, <2>5 DEF LiveSound
    <3>2. OneCurrent'
      BY <1>7, <2>1, <3>1 DEF OneCurrent, Living
    <3>3. OneWaits'
      BY <1>7, <2>1, <3>1 DEF OneWaits
    <3>4. RoutedBehind'
      BY <1>2, <1>7, <2>1, <3>1 DEF RoutedBehind
    <3>5. QED
      BY <3>2, <3>3, <3>4
  <2>6. QED
    BY <2>1, <2>2, <2>3, <2>4, <2>5 DEF LiveInv, LiveSound
<1>10. QED
  BY <1>8, <1>9

LEMMA DelegateStep == ASSUME LiveInv, Delegate PROVE LiveInv'
<1>1. /\ LiveSound /\ conv \in ConvType /\ met \in MetType
  BY DEF LiveInv, LiveTyped
<1>2. /\ Reading("reader") /\ met.delegations < MaxDelegations
      /\ met' = [met EXCEPT !.delegations = @ + 1]
      /\ call' = call /\ claimed' = claimed /\ rival' = rival /\ routed' = routed
  BY DEF Delegate
<1>3. "reader" \in Actor /\ "delegate" \in {"delegate", "restart", "say", "interrupt"}
  BY DEF Actor
<1>4. {MaxWords, MaxDelegations, MaxTyped, MaxInterrupts, MaxChunks} \subseteq Nat
  BY LiveAssumption
<1>5. met' \in MetType /\ Asked' = Asked + 1 /\ Asked \in Nat
  BY <1>1, <1>2, <1>4, AskedBound DEF Asked, MetType
<1>6. Asked' >= Asked /\ Asked' > Asked
  BY <1>5
<1>7. PICK o \in conv.active..MaxWords : Cancel("reader", conv, "delegate", o)
  BY DEF Delegate
<1>8. o \in Offset
  BY <1>1, <1>4 DEF ConvType, Offset
<1>9. QED
  BY <1>1, <1>2, <1>3, <1>5, <1>6, <1>7, <1>8, CancelStep

LEMMA ControlsStep == ASSUME LiveInv, Interrupt \/ TypeText PROVE LiveInv'
<1>1. /\ LiveSound /\ conv \in ConvType /\ met \in MetType
  BY DEF LiveInv, LiveTyped
<1>2. {MaxWords, MaxDelegations, MaxTyped, MaxInterrupts, MaxChunks} \subseteq Nat
  BY LiveAssumption
<1>3. "controls" \in Actor /\ 0 \in Offset
  BY <1>2 DEF Actor, Offset
<1>4. CASE Interrupt
  <2>1. /\ Reading("controls") /\ met.interrupts < MaxInterrupts
        /\ met' = [met EXCEPT !.interrupts = @ + 1] /\ Cancel("controls", conv, "interrupt", 0)
        /\ call' = call /\ claimed' = claimed /\ rival' = rival /\ routed' = routed
    BY <1>4 DEF Interrupt
  <2>2. met' \in MetType /\ Asked' = Asked /\ Asked \in Nat
    BY <1>1, <1>2, <2>1, AskedBound DEF Asked, MetType
  <2>3. Asked' >= Asked
    BY <2>2
  <2>4. "interrupt" \in {"delegate", "restart", "say", "interrupt"}
    OBVIOUS
  <2>5. QED
    BY <1>1, <1>3, <2>1, <2>2, <2>3, <2>4, CancelStep
<1>5. CASE TypeText
  <2>1. /\ Reading("controls") /\ met.typed < MaxTyped
        /\ met' = [met EXCEPT !.typed = @ + 1] /\ Cancel("controls", conv, "say", 0)
        /\ call' = call /\ claimed' = claimed /\ rival' = rival /\ routed' = routed
    BY <1>5 DEF TypeText
  <2>2. met' \in MetType /\ Asked' = Asked + 1 /\ Asked \in Nat
    BY <1>1, <1>2, <2>1, AskedBound DEF Asked, MetType
  <2>3. Asked' >= Asked /\ Asked' > Asked
    BY <2>2
  <2>4. "say" \in {"delegate", "restart", "say", "interrupt"}
    OBVIOUS
  <2>5. QED
    BY <1>1, <1>3, <2>1, <2>2, <2>3, <2>4, CancelStep
<1>6. QED
  BY <1>4, <1>5

LEMMA ResumeStep == ASSUME LiveInv, NEW a \in Actor, Resume(a) PROVE LiveInv'
<1>1. /\ LiveSound /\ conv \in ConvType /\ met \in MetType /\ waits \in [Actor -> WaitRecord]
      /\ tasks \in [TaskId -> TaskRecord]
  BY DEF LiveInv, LiveTyped
<1>2. /\ waits[a].on # 0 /\ tasks[waits[a].on].stage = "done"
      /\ Continue(conv, tasks, waits[a].then, waits[a].offset)
      /\ waits' = [waits EXCEPT ![a] = AtRest]
      /\ call' = call /\ claimed' = claimed /\ rival' = rival /\ met' = met
      /\ routed' = routed /\ overlapped' = overlapped
  BY DEF Resume
<1>3. AtRest \in WaitRecord /\ AtRest.on = 0
  BY LiveAssumption DEF AtRest, WaitRecord, Offset
<1>4. /\ waits' \in [Actor -> WaitRecord] /\ waits'[a].on = 0
      /\ \A b \in Actor \ {a} : waits'[b] = waits[b]
  BY <1>1, <1>2, <1>3
<1>5. PICK then \in {"delegate", "restart", "say", "interrupt"} : then = waits[a].then
  BY <1>1, <1>2 DEF LiveSound, WaitsFormed, WaitRecord
<1>6. PICK o \in Offset : o = waits[a].offset
  BY <1>1 DEF WaitRecord
<1>7. Continue(conv, tasks, then, o)
  BY <1>2, <1>5, <1>6
<1>8. call = "running"
  BY <1>1, <1>2 DEF LiveSound, WaitsFormed
<1>9. then # "interrupt" => Promised(a) = 1
  BY <1>2, <1>5 DEF Promised
<1>10. met' \in MetType /\ Asked' >= Asked
  <2>1. Asked \in Nat /\ Asked' = Asked
    BY <1>1, <1>2, AskedBound DEF Asked
  <2>2. QED
    BY <1>1, <1>2, <2>1
<1>11. \A t \in TaskId : overlapped \/ ~Living(tasks[t]) \/ tasks[t].cancelled
  BY <1>1, <1>2 DEF LiveSound, OneCurrent, OneWaits, Living
<1>12. \A b \in Actor \ {a} : overlapped \/ waits[b].on = 0
  BY <1>1, <1>2 DEF LiveSound, OneWaits
<1>13. /\ \A w \in conv.fragments : w > conv.consumed \/ w \in conv.fragments
       /\ conv.generation >= conv.generation
  BY <1>1 DEF ConvType
<1>14. QED
  BY <1>1, <1>2, <1>4, <1>7, <1>8, <1>9, <1>10, <1>11, <1>12, <1>13, ContinuesStep

\* A backend task goes on. It only loses its right to speak, never gets one.
LEMMA TaskGoesOn ==
  ASSUME LiveInv, NEW t \in TaskId, NEW q \in TaskRecord, tasks' = [tasks EXCEPT ![t] = q],
         Outside, tasks[t].stage # "none", q.stage # "none", TaskFormed(q),
         Living(q) => Living(tasks[t]) /\ q.cancelled = tasks[t].cancelled
                        /\ q.generation = tasks[t].generation,
         conv' \in ConvType, conv'.task = conv.task, conv'.generation = conv.generation,
         conv'.closed = conv.closed, routed' \in [Word -> RoutedCount],
         conv'.fragments = conv.fragments \/ (Living(tasks[t]) /\ ~tasks[t].cancelled),
         q.stage \in {"announcing", "turn"} /\ ~q.cancelled /\ ~overlapped =>
           q.parts \subseteq conv'.fragments,
         overlapped \/ RoutedBehind'
  PROVE  LiveInv'
<1>1. /\ LiveTyped /\ LiveSound /\ conv \in ConvType /\ tasks \in [TaskId -> TaskRecord]
  BY DEF LiveInv, LiveTyped
<1>2. /\ call' = call /\ claimed' = claimed /\ rival' = rival /\ waits' = waits /\ met' = met
      /\ overlapped' = overlapped
  BY DEF Outside
<1>3. /\ tasks' \in [TaskId -> TaskRecord] /\ tasks'[t] = q
      /\ \A u \in TaskId \ {t} : tasks'[u] = tasks[u]
  BY <1>1
<1>4. LiveTyped'
  BY <1>1, <1>2, <1>3 DEF LiveTyped
<1>5. OneOwner' /\ WaitsFormed' /\ ClosedFormed'
  BY <1>1, <1>2 DEF LiveSound, OneOwner, WaitsFormed, ClosedFormed
<1>6. TasksCounted'
  <2>1. Begun' = Begun
    BY <1>3 DEF Begun
  <2>2. Promised("reader")' = Promised("reader") /\ Promised("controls")' = Promised("controls")
        /\ Asked' = Asked
    BY <1>2 DEF Promised, Asked
  <2>3. QED
    BY <1>1, <2>1, <2>2 DEF LiveSound, TasksCounted
<1>7. (\A u \in TaskId : TaskFormed(tasks[u])') /\ TasksDated'
  <2>1. \A u \in TaskId : TaskFormed(tasks[u])'
    BY <1>1, <1>3 DEF LiveSound, TaskFormed
  <2>2. \A u \in TaskId : Dated(tasks[u], conv.generation)
    BY <1>1 DEF LiveSound, TasksDated
  <2>3. Dated(q, conv.generation)
    BY <2>2 DEF Dated
  <2>4. TasksDated'
    BY <1>3, <2>2, <2>3 DEF TasksDated, Dated, Living
  <2>5. QED
    BY <2>1, <2>4
<1>8. ASSUME ~overlapped PROVE OneCurrent' /\ OneWaits' /\ RoutedBehind'
  <2>1. OneCurrent /\ OneWaits /\ RoutedBehind'
    BY <1>1, <1>8 DEF LiveSound
  <2>2. ASSUME NEW u \in TaskId, Living(tasks'[u]), ~tasks'[u].cancelled
        PROVE  u = conv'.task /\ ~conv'.closed /\ tasks'[u].generation = conv'.generation
                 /\ (tasks'[u].stage \in {"announcing", "turn"} =>
                       tasks'[u].parts \subseteq conv'.fragments)
    <3>1. CASE u = t
      BY <1>3, <1>8, <2>1, <2>2, <3>1 DEF OneCurrent
    <3>2. CASE u # t
      <4>1. tasks'[u] = tasks[u]
        BY <1>3, <3>2
      <4>2. u = conv.task
        BY <2>1, <2>2, <4>1 DEF OneCurrent
      <4>3. conv'.fragments = conv.fragments
        BY <2>1, <3>2, <4>2 DEF OneCurrent
      <4>4. QED
        BY <2>1, <2>2, <4>1, <4>3 DEF OneCurrent
    <3>3. QED
      BY <3>1, <3>2
  <2>3. OneCurrent'
    BY <2>2 DEF OneCurrent, Living
  <2>4. OneWaits'
    <3>1. \A u \in TaskId : Living(tasks'[u]) =>
            Living(tasks[u]) /\ tasks'[u].cancelled = tasks[u].cancelled
      BY <1>3
    <3>2. conv.task # 0 => conv.task \in TaskId
      BY <1>1 DEF ConvType
    <3>3. QED
      BY <1>2, <2>1, <3>1, <3>2 DEF OneWaits, Living
  <2>5. QED
    BY <2>1, <2>3, <2>4
<1>9. QED
  BY <1>2, <1>4, <1>5, <1>6, <1>7, <1>8 DEF LiveInv, LiveSound

\* The end of a task leaves its words and the conversation's alone.
LEMMA EndsStep ==
  ASSUME LiveInv, NEW t \in TaskId, NEW c \in ConvType, c.task = conv.task,
         c.generation = conv.generation, c.closed = conv.closed, Living(tasks[t]),
         c.fragments = conv.fragments \/ ~tasks[t].cancelled, Ends(t, c), Outside,
         routed' \in [Word -> RoutedCount],
         \/ overlapped
         \/ /\ \A w \in Word : /\ CountedOnce(routed'[w])
                               /\ WasHeard(routed'[w]) => w <= c.consumed
            /\ \A w \in c.fragments : w > c.consumed
  PROVE  LiveInv'
<1>1. conv \in ConvType /\ tasks \in [TaskId -> TaskRecord] /\ LiveSound
  BY DEF LiveInv, LiveTyped
<1>2. PICK q : q = [tasks[t] EXCEPT !.stage = "ending", !.parts = {}, !.offset = 0, !.said = 0]
  OBVIOUS
<1>3. tasks' = [tasks EXCEPT ![t] = q]
  BY <1>1, <1>2 DEF Ends
<1>4. /\ q \in TaskRecord /\ q.stage = "ending" /\ q.kind = tasks[t].kind
      /\ q.parts = {} /\ q.cancelled = tasks[t].cancelled
      /\ q.generation = tasks[t].generation
  <2>1. 0 \in 0..MaxChunks /\ 0 \in Offset
    BY LiveAssumption DEF Offset
  <2>2. QED
    BY <1>1, <1>2, <2>1 DEF TaskRecord, Stage
<1>5. TaskFormed(q)
  BY <1>1, <1>4 DEF LiveSound, TaskFormed
<1>6. /\ conv' \in ConvType /\ conv'.task = c.task /\ conv'.generation = c.generation
      /\ conv'.closed = c.closed /\ conv'.fragments = c.fragments
      /\ conv'.consumed = c.consumed
  BY DEF Ends, ConvType
<1>7. overlapped \/ RoutedBehind'
  BY <1>6 DEF RoutedBehind
<1>8. tasks[t].stage # "none" /\ q.stage # "none" /\ q.stage \notin {"announcing", "turn"}
  BY <1>4 DEF Living
<1>9. QED
  BY <1>3, <1>4, <1>5, <1>6, <1>7, <1>8, TaskGoesOn

LEMMA GatherStep == ASSUME LiveInv, NEW t \in TaskId, Gather(t) PROVE LiveInv'
<1>1. /\ conv \in ConvType /\ tasks \in [TaskId -> TaskRecord] /\ LiveSound
      /\ routed \in [Word -> RoutedCount]
  BY DEF LiveInv, LiveTyped
<1> DEFINE parts == {w \in conv.fragments : w <= tasks[t].offset}
           at == IF parts = {} THEN "saying" ELSE "announcing"
<1>2. /\ tasks[t].stage = "grace" /\ ~tasks[t].cancelled /\ conv' = conv /\ routed' = routed
      /\ Outside
  BY DEF Gather, Runs
<1>3. PICK q : q = [tasks[t] EXCEPT !.parts = parts, !.stage = at]
  OBVIOUS
<1>4. tasks' = [tasks EXCEPT ![t] = q]
  BY <1>1, <1>3 DEF Gather
<1>5. parts \subseteq conv.fragments /\ parts \subseteq Word
  BY <1>1 DEF ConvType
<1>6. at \in {"saying", "announcing"} /\ (at = "announcing" => parts # {})
  OBVIOUS
<1> HIDE DEF parts, at
<1>7. /\ q \in TaskRecord /\ q.stage = at /\ q.kind = tasks[t].kind
      /\ q.parts = parts /\ q.cancelled = tasks[t].cancelled
      /\ q.generation = tasks[t].generation
  BY <1>1, <1>3, <1>5, <1>6 DEF TaskRecord, Stage
<1>8. TaskFormed(q)
  BY <1>1, <1>2, <1>6, <1>7 DEF LiveSound, TaskFormed
<1>9. overlapped \/ RoutedBehind'
  BY <1>1, <1>2 DEF LiveSound, RoutedBehind
<1>10. Living(tasks[t]) /\ q.stage # "none" /\ tasks[t].stage # "none"
  BY <1>2, <1>6, <1>7 DEF Living
<1>11. QED
  BY <1>1, <1>2, <1>4, <1>5, <1>7, <1>8, <1>9, <1>10, TaskGoesOn

LEMMA StartTurnStep == ASSUME LiveInv, NEW t \in TaskId, StartTurn(t) PROVE LiveInv'
<1>1. /\ conv \in ConvType /\ tasks \in [TaskId -> TaskRecord] /\ LiveSound
      /\ routed \in [Word -> RoutedCount]
  BY DEF LiveInv, LiveTyped
<1>2. /\ tasks[t].stage = "announcing" /\ ~tasks[t].cancelled /\ routed' = routed /\ Outside
  BY DEF StartTurn, Runs
<1>3. PICK q : q = [tasks[t] EXCEPT !.stage = "turn"]
  OBVIOUS
<1>4. tasks' = [tasks EXCEPT ![t] = q]
  BY <1>1, <1>3 DEF StartTurn
<1>5. /\ q \in TaskRecord /\ q.stage = "turn" /\ q.kind = tasks[t].kind
      /\ q.parts = tasks[t].parts /\ q.cancelled = tasks[t].cancelled
      /\ q.generation = tasks[t].generation
  BY <1>1, <1>3 DEF TaskRecord, Stage
<1>6. TaskFormed(q)
  BY <1>1, <1>2, <1>5 DEF LiveSound, TaskFormed
<1>7. /\ conv' \in ConvType /\ conv'.task = conv.task /\ conv'.generation = conv.generation
      /\ conv'.closed = conv.closed /\ conv'.fragments = conv.fragments
      /\ conv'.consumed = conv.consumed
  BY <1>1 DEF StartTurn, ConvType
<1>8. overlapped \/ RoutedBehind'
  BY <1>1, <1>2, <1>7 DEF LiveSound, RoutedBehind
<1>9. Living(tasks[t]) /\ q.stage # "none" /\ tasks[t].stage # "none"
  BY <1>2, <1>5 DEF Living
<1>10. ~overlapped => q.parts \subseteq conv'.fragments
  BY <1>1, <1>2, <1>5, <1>7, <1>9 DEF LiveSound, OneCurrent
<1>11. QED
  BY <1>1, <1>2, <1>4, <1>5, <1>6, <1>7, <1>8, <1>9, <1>10, TaskGoesOn

\* The last word of a request.
LEMMA GreatestIs ==
  ASSUME NEW S \in SUBSET Word, S # {}
  PROVE  Greatest(S) \in S /\ \A y \in S : y <= Greatest(S)
<1> DEFINE Less == OpToRel(<, Nat)
           Left == {n \in Nat : MaxWords - n \in S}
<1>1. \A x, y \in Nat : x < y => <<x, y>> \in Less
  BY DEF OpToRel
<1>2. IsWellFoundedOn(Less, Nat)
  BY NatLessThanWellFounded
<1> HIDE DEF Less
<1>3. MaxWords \in Nat
  BY LiveAssumption
<1>4. \A x \in S : x \in Nat /\ MaxWords - x \in Nat /\ MaxWords - (MaxWords - x) = x
  BY <1>3 DEF Word
<1>5. Left \in SUBSET Nat /\ Left # {}
  BY <1>4
<1>6. PICK m \in Left : \A y \in Left : <<y, m>> \notin Less
  BY <1>2, <1>5, WFMin
<1>7. /\ MaxWords - m \in S /\ m \in Nat
      /\ \A y \in S : y <= MaxWords - m
  <2>1. MaxWords - m \in S /\ m \in Nat
    OBVIOUS
  <2>2. ASSUME NEW y \in S PROVE y <= MaxWords - m
    <3>1. MaxWords - y \in Left /\ y \in Nat /\ MaxWords - y \in Nat
      BY <1>4
    <3>2. ~(MaxWords - y < m)
      BY <1>1, <1>6, <2>1, <3>1
    <3>3. QED
      BY <1>3, <2>1, <3>1, <3>2
  <2>3. QED
    BY <2>1, <2>2
<1>8. QED
  BY <1>7 DEF Greatest

\* The words of a turn that is not stale were in no turn, and are behind the new watermark.
LEMMA ReturnMovesWatermark ==
  ASSUME LiveInv, NEW t \in TaskId, tasks[t].stage = "turn", ~tasks[t].cancelled, ~overlapped,
         tasks[t].kind = "resolve"
  PROVE  LET parts == tasks[t].parts
             c == Consumed(parts)
         IN /\ c \in ConvType /\ c.task = conv.task /\ c.generation = conv.generation
            /\ c.closed = conv.closed /\ Current(t)
            /\ \A w \in c.fragments : w > c.consumed
            /\ \A w \in Word : CountedOnce(routed[w]) /\ (w \in parts => ~WasHeard(routed[w]))
            /\ \A w \in Word : w \in parts \/ WasHeard(routed[w]) => w <= c.consumed
<1>1. /\ conv \in ConvType /\ tasks \in [TaskId -> TaskRecord] /\ LiveSound
      /\ routed \in [Word -> RoutedCount] /\ OneCurrent /\ RoutedBehind
  BY DEF LiveInv, LiveTyped, LiveSound
<1> DEFINE parts == tasks[t].parts
           mark == Greatest(parts)
           c == Consumed(parts)
           left == {w \in conv.fragments : w > mark}
<1>2. /\ parts \in SUBSET Word /\ parts # {} /\ parts \subseteq conv.fragments
      /\ ~conv.closed /\ tasks[t].generation = conv.generation
  BY <1>1 DEF TaskRecord, LiveSound, TaskFormed, OneCurrent, Living
<1>3. mark \in parts /\ \A y \in parts : y <= mark
  BY <1>2, GreatestIs
<1>4. mark \in Offset /\ mark \in Nat
  BY <1>2, <1>3, LiveAssumption DEF Word, Offset
<1>5. c = [conv EXCEPT !.consumed = mark, !.fragments = left]
  BY <1>1 DEF Consumed, ConvType
<1>6. left \in SUBSET Word /\ left \subseteq conv.fragments
  BY <1>1 DEF ConvType
<1>7. \A w \in left : w > mark
  OBVIOUS
<1> HIDE DEF mark, c, left
<1>8. /\ c \in ConvType /\ c.task = conv.task /\ c.generation = conv.generation
      /\ c.closed = conv.closed /\ c.consumed = mark /\ c.fragments = left
  BY <1>1, <1>4, <1>5, <1>6 DEF ConvType
<1>9. Current(t)
  BY <1>2 DEF Current
<1>10. \A w \in Word : CountedOnce(routed[w]) /\ (w \in parts => ~WasHeard(routed[w]))
  <2> SUFFICES ASSUME NEW w \in Word
               PROVE  CountedOnce(routed[w]) /\ (w \in parts => ~WasHeard(routed[w]))
    OBVIOUS
  <2>1. CountedOnce(routed[w]) /\ (WasHeard(routed[w]) => w <= conv.consumed)
    BY <1>1 DEF RoutedBehind
  <2>2. w \in parts => w > conv.consumed
    BY <1>1, <1>2 DEF RoutedBehind
  <2>3. w \in Nat /\ conv.consumed \in Nat
    BY <1>1, LiveAssumption DEF Word, ConvType, Offset
  <2>4. QED
    BY <2>1, <2>2, <2>3
<1>11. \A w \in Word : w \in parts \/ WasHeard(routed[w]) => w <= c.consumed
  <2> SUFFICES ASSUME NEW w \in Word, w \in parts \/ WasHeard(routed[w]) PROVE w <= mark
    BY <1>8
  <2>1. w \in Nat /\ conv.consumed \in Nat
    BY <1>1, LiveAssumption DEF Word, ConvType, Offset
  <2>2. mark > conv.consumed
    BY <1>1, <1>2, <1>3 DEF RoutedBehind
  <2>3. WasHeard(routed[w]) => w <= conv.consumed
    BY <1>1 DEF RoutedBehind
  <2>4. QED
    BY <1>3, <1>4, <2>1, <2>2, <2>3
<1>12. QED
  BY <1>7, <1>8, <1>9, <1>10, <1>11 DEF c

LEMMA TurnReturnsStep == ASSUME LiveInv, NEW t \in TaskId, TurnReturns(t) PROVE LiveInv'
<1> DEFINE parts == tasks[t].parts
           done == IF tasks[t].kind = "resolve" THEN Consumed(parts) ELSE conv
           lost == tasks[t].cancelled
<1>1. /\ conv \in ConvType /\ tasks \in [TaskId -> TaskRecord] /\ LiveSound
      /\ routed \in [Word -> RoutedCount]
  BY DEF LiveInv, LiveTyped
<1>2. /\ tasks[t].stage = "turn" /\ Outside
      /\ routed' = [w \in Word |-> IF w \in parts THEN CountedTurn(routed[w], lost)
                                   ELSE routed[w]]
  BY DEF TurnReturns
<1>3. /\ routed' \in [Word -> RoutedCount]
      /\ \A w \in Word \ parts : routed'[w] = routed[w]
      /\ \A w \in Word : w \in parts =>
           /\ routed'[w].turns = routed[w].turns + 1
           /\ routed'[w].lost = IF lost THEN routed[w].lost + 1 ELSE routed[w].lost
  BY <1>1, <1>2 DEF CountedTurn, RoutedCount
<1>4. /\ done \in ConvType /\ done.task = conv.task /\ done.generation = conv.generation
      /\ done.closed = conv.closed
  <2>1. CASE tasks[t].kind # "resolve"
    BY <1>1, <2>1
  <2>2. CASE tasks[t].kind = "resolve"
    <3>1. parts \in SUBSET Word /\ parts # {}
      BY <1>1, <1>2, <2>2 DEF LiveSound, TaskFormed, TaskRecord
    <3>2. Greatest(parts) \in Offset
      BY <3>1, GreatestIs, LiveAssumption DEF Word, Offset
    <3>3. done = Consumed(parts)
      BY <2>2
    <3>4. QED
      BY <1>1, <3>2, <3>3 DEF Consumed, ConvType
  <2>3. QED
    BY <2>1, <2>2
<1>5. ASSUME ~overlapped, ~lost
      PROVE  /\ Current(t)
             /\ \A w \in Word : /\ CountedOnce(routed'[w])
                                /\ WasHeard(routed'[w]) => w <= done.consumed
             /\ \A w \in done.fragments : w > done.consumed
  <2>1. CASE tasks[t].kind # "resolve"
    <3>1. parts = {}
      BY <1>1, <2>1 DEF LiveSound, TaskFormed
    <3>2. \A w \in Word : routed'[w] = routed[w]
      BY <1>3, <3>1
    <3>3. Current(t)
      BY <1>1, <1>2, <1>5 DEF LiveSound, OneCurrent, Living, Current
    <3>4. done = conv
      BY <2>1
    <3>5. QED
      BY <1>1, <1>5, <3>2, <3>3, <3>4 DEF LiveSound, RoutedBehind
  <2>2. CASE tasks[t].kind = "resolve"
    <3>1. done = Consumed(parts)
      BY <2>2
    <3>2. /\ Current(t)
          /\ \A w \in done.fragments : w > done.consumed
          /\ \A w \in Word : CountedOnce(routed[w]) /\ (w \in parts => ~WasHeard(routed[w]))
          /\ \A w \in Word : w \in parts \/ WasHeard(routed[w]) => w <= done.consumed
      BY <1>2, <1>5, <2>2, <3>1, ReturnMovesWatermark
    <3> HIDE DEF done, parts
    <3>3. ASSUME NEW w \in Word
          PROVE  CountedOnce(routed'[w]) /\ (WasHeard(routed'[w]) => w <= done.consumed)
      <4>1. routed[w].turns \in Nat /\ routed[w].lost \in Nat
        BY <1>1 DEF RoutedCount
      <4>2. CASE w \in parts
        BY <1>3, <1>5, <3>2, <4>1, <4>2 DEF CountedOnce, WasHeard
      <4>3. CASE w \notin parts
        BY <1>3, <3>2, <4>3
      <4>4. QED
        BY <4>2, <4>3
    <3>4. QED
      BY <3>2, <3>3
  <2>3. QED
    BY <2>1, <2>2
<1>6. Living(tasks[t])
  BY <1>2 DEF Living
<1>7. ASSUME lost
       PROVE  /\ ~Current(t)
              /\ \/ overlapped
                 \/ /\ \A w \in Word : /\ CountedOnce(routed'[w])
                                       /\ WasHeard(routed'[w]) => w <= conv.consumed
                    /\ \A w \in conv.fragments : w > conv.consumed
  <2>1. ~Current(t)
    <3>1. tasks[t].generation < conv.generation
      BY <1>1, <1>6, <1>7 DEF LiveSound, TasksDated, Dated
    <3>2. tasks[t].generation \in Nat /\ conv.generation \in Nat
      BY <1>1 DEF TaskRecord, ConvType
    <3>3. QED
      BY <3>1, <3>2 DEF Current
  <2>2. ASSUME ~overlapped, NEW w \in Word
        PROVE  CountedOnce(routed'[w]) /\ (WasHeard(routed'[w]) => w <= conv.consumed)
    <3>1. /\ CountedOnce(routed[w]) /\ (WasHeard(routed[w]) => w <= conv.consumed)
          /\ routed[w].turns \in Nat /\ routed[w].lost \in Nat
      BY <1>1, <2>2 DEF LiveSound, RoutedBehind, RoutedCount
    <3>2. CASE w \in parts
      BY <1>3, <1>7, <3>1, <3>2 DEF CountedOnce, WasHeard
    <3>3. CASE w \notin parts
      BY <1>3, <3>1, <3>3
    <3>4. QED
      BY <3>2, <3>3
  <2>3. QED
    BY <1>1, <2>1, <2>2 DEF LiveSound, RoutedBehind
<1>8. CASE Current(t) /\ tasks' = [tasks EXCEPT ![t].stage = "saying"] /\ conv' = done
  <2>0. ~lost
    BY <1>8, <1>7
  <2>1. PICK q : q = [tasks[t] EXCEPT !.stage = "saying"]
    OBVIOUS
  <2>2. tasks' = [tasks EXCEPT ![t] = q]
    BY <1>1, <1>8, <2>1
  <2>3. /\ q \in TaskRecord /\ q.stage = "saying" /\ q.kind = tasks[t].kind
        /\ q.parts = parts /\ q.cancelled = tasks[t].cancelled
        /\ q.generation = tasks[t].generation
    BY <1>1, <2>1 DEF TaskRecord, Stage
  <2>4. TaskFormed(q)
    BY <1>1, <2>3 DEF LiveSound, TaskFormed
  <2>5. /\ conv' \in ConvType /\ conv'.task = conv.task /\ conv'.generation = conv.generation
        /\ conv'.closed = conv.closed
    BY <1>4, <1>8
  <2>6. overlapped \/ RoutedBehind'
    <3>1. CASE overlapped
      BY <3>1
    <3>2. CASE ~overlapped
      <4> HIDE DEF parts, done, lost
      <4>1. /\ \A w \in Word : /\ CountedOnce(routed'[w])
                               /\ WasHeard(routed'[w]) => w <= done.consumed
            /\ \A w \in done.fragments : w > done.consumed
        BY <1>5, <2>0, <3>2
      <4>2. conv' = done
        BY <1>8
      <4>3. QED
        BY <4>1, <4>2 DEF RoutedBehind
    <3>3. QED
      BY <3>1, <3>2
  <2>7. tasks[t].stage # "none" /\ q.stage # "none" /\ q.stage \notin {"announcing", "turn"}
    BY <1>2, <2>3
  <2>8. /\ ~tasks[t].cancelled /\ Outside /\ routed' \in [Word -> RoutedCount]
        /\ Living(q) => Living(tasks[t]) /\ q.cancelled = tasks[t].cancelled
                          /\ q.generation = tasks[t].generation
    BY <1>2, <1>3, <1>6, <2>0, <2>3
  <2> HIDE DEF parts, done, lost
  <2>9. QED
    BY <1>6, <2>2, <2>3, <2>4, <2>5, <2>6, <2>7, <2>8, TaskGoesOn
<1>9. CASE Current(t) /\ Ends(t, done)
  <2>1. ~lost
    BY <1>9, <1>7
  <2>2. ~tasks[t].cancelled
    BY <2>1
  <2>3. \/ overlapped
        \/ /\ \A w \in Word : /\ CountedOnce(routed'[w])
                              /\ WasHeard(routed'[w]) => w <= done.consumed
           /\ \A w \in done.fragments : w > done.consumed
    <3> HIDE DEF parts, done, lost
    <3>1. CASE overlapped
      BY <3>1
    <3>2. CASE ~overlapped
      BY <1>5, <2>1, <3>2
    <3>3. QED
      BY <3>1, <3>2
  <2> HIDE DEF parts, done, lost
  <2>4. QED
    BY <1>2, <1>3, <1>4, <1>6, <1>9, <2>2, <2>3, EndsStep
<1>10. CASE ~Current(t) /\ Ends(t, conv)
  BY <1>1, <1>2, <1>3, <1>5, <1>6, <1>10, <1>7, EndsStep
<1>11. \/ Current(t) /\ tasks' = [tasks EXCEPT ![t].stage = "saying"] /\ conv' = done
       \/ Current(t) /\ Ends(t, done)
       \/ ~Current(t) /\ Ends(t, conv)
  BY DEF TurnReturns
<1>12. QED
  BY <1>8, <1>9, <1>10, <1>11

\* A task that ends, or speaks, changes neither the words nor the watermark.
LEMMA QuietStep ==
  ASSUME LiveInv, NEW t \in TaskId,
         TurnFails(t) \/ SayChunk(t) \/ Said(t) \/ Cancelled(t) \/ EndTask(t)
  PROVE  LiveInv'
<1>1. /\ conv \in ConvType /\ tasks \in [TaskId -> TaskRecord] /\ LiveSound
      /\ routed \in [Word -> RoutedCount]
  BY DEF LiveInv, LiveTyped
<1>2. Outside /\ routed' = routed
  BY DEF TurnFails, SayChunk, Said, Cancelled, EndTask
<1>3. \/ overlapped
      \/ /\ \A w \in Word : CountedOnce(routed'[w]) /\ (WasHeard(routed'[w]) => w <= conv.consumed)
         /\ \A w \in conv.fragments : w > conv.consumed
  BY <1>1, <1>2 DEF LiveSound, RoutedBehind
<1>4. ASSUME Living(tasks[t]), Ends(t, conv) PROVE LiveInv'
  BY <1>1, <1>2, <1>3, <1>4, EndsStep
<1>5. ASSUME Living(tasks[t]), conv' = conv, NEW q \in TaskRecord, q.stage = "saying",
             q.kind = tasks[t].kind, q.parts = tasks[t].parts,
             q.cancelled = tasks[t].cancelled, q.generation = tasks[t].generation,
             tasks' = [tasks EXCEPT ![t] = q]
      PROVE  LiveInv'
  <2>1. TaskFormed(q)
    BY <1>1, <1>5 DEF LiveSound, TaskFormed
  <2>2. overlapped \/ RoutedBehind'
    BY <1>3, <1>5 DEF RoutedBehind
  <2>3. tasks[t].stage # "none" /\ q.stage # "none" /\ q.stage \notin {"announcing", "turn"}
    BY <1>5 DEF Living
  <2>4. QED
    BY <1>1, <1>2, <1>5, <2>1, <2>2, <2>3, TaskGoesOn
<1>6. CASE TurnFails(t)
  <2>1. Living(tasks[t])
    BY <1>6 DEF TurnFails, Runs, Living
  <2>2. CASE Current(t)
    <3>1. PICK q : q = [tasks[t] EXCEPT !.stage = "saying"]
      OBVIOUS
    <3>2. tasks' = [tasks EXCEPT ![t] = q] /\ conv' = conv
      BY <1>1, <1>6, <2>2, <3>1 DEF TurnFails
    <3>3. /\ q \in TaskRecord /\ q.stage = "saying" /\ q.kind = tasks[t].kind
          /\ q.parts = tasks[t].parts /\ q.cancelled = tasks[t].cancelled
          /\ q.generation = tasks[t].generation
      BY <1>1, <3>1 DEF TaskRecord, Stage
    <3>4. QED
      BY <1>5, <2>1, <3>2, <3>3
  <2>3. CASE ~Current(t)
    BY <1>4, <1>6, <2>1, <2>3 DEF TurnFails
  <2>4. QED
    BY <2>2, <2>3
<1>7. CASE SayChunk(t)
  <2>1. PICK q : q = [tasks[t] EXCEPT !.said = tasks[t].said + 1]
    OBVIOUS
  <2>2. tasks' = [tasks EXCEPT ![t] = q] /\ conv' = conv
    BY <1>1, <1>7, <2>1 DEF SayChunk
  <2>3. Living(tasks[t]) /\ tasks[t].stage = "saying" /\ tasks[t].said < MaxChunks
    BY <1>7 DEF SayChunk, Runs, Living
  <2>4. tasks[t].said + 1 \in 0..MaxChunks
    BY <1>1, <2>3, LiveAssumption DEF TaskRecord
  <2>5. /\ q \in TaskRecord /\ q.stage = "saying" /\ q.kind = tasks[t].kind
        /\ q.parts = tasks[t].parts /\ q.cancelled = tasks[t].cancelled
        /\ q.generation = tasks[t].generation
    BY <1>1, <2>1, <2>3, <2>4 DEF TaskRecord, Stage
  <2>6. QED
    BY <1>5, <2>2, <2>3, <2>5
<1>8. CASE Said(t) \/ Cancelled(t)
  <2>1. Living(tasks[t]) /\ Ends(t, conv)
    BY <1>8 DEF Said, Cancelled, Runs, Living
  <2>2. QED
    BY <1>4, <2>1
<1>9. CASE EndTask(t)
  <2>1. PICK q : q = [NoTask EXCEPT !.stage = "done"]
    OBVIOUS
  <2>2. tasks' = [tasks EXCEPT ![t] = q] /\ conv' = conv /\ tasks[t].stage = "ending"
    BY <1>1, <1>9, <2>1 DEF EndTask
  <2>3. NoTask \in TaskRecord /\ NoTask.parts = {} /\ NoTask.kind = "none"
    <3>1. 0 \in 0..MaxChunks /\ 0 \in Offset
      BY LiveAssumption DEF Offset
    <3>2. QED
      BY <3>1 DEF NoTask, TaskRecord, Stage
  <2>4. q \in TaskRecord /\ q.stage = "done" /\ q.kind = "none" /\ q.parts = {}
    BY <2>1, <2>3 DEF TaskRecord, Stage
  <2>5. TaskFormed(q) /\ ~Living(q)
    BY <2>4 DEF TaskFormed, Living
  <2>6. overlapped \/ RoutedBehind'
    BY <1>3, <2>2 DEF RoutedBehind
  <2>7. /\ tasks[t].stage # "none" /\ q.stage # "none"
        /\ q.stage \notin {"announcing", "turn"}
    BY <2>2, <2>4
  <2>8. QED
    BY <1>1, <1>2, <2>2, <2>4, <2>5, <2>6, <2>7, TaskGoesOn
<1>10. QED
  BY <1>6, <1>7, <1>8, <1>9

\* The claim, the opening and the end of a call.
LEMMA ClaimStep ==
  ASSUME LiveInv, RivalConnects \/ RivalLeaves \/ Connect \/ Opened \/ StopCall
  PROVE  LiveInv'
<1>1. LiveTyped /\ LiveSound /\ waits \in [Actor -> WaitRecord]
  BY DEF LiveInv, LiveTyped
<1>2. /\ conv' = conv /\ tasks' = tasks /\ met' = met /\ routed' = routed
      /\ overlapped' = overlapped
  BY DEF RivalConnects, RivalLeaves, Connect, Opened, StopCall
<1>3. /\ waits' \in [Actor -> WaitRecord]
      /\ \A a \in Actor : waits'[a].on = 0 \/ (waits'[a] = waits[a] /\ call' = call)
  <2>1. CASE StopCall
    <3>1. AtRest \in WaitRecord /\ AtRest.on = 0
      BY LiveAssumption DEF AtRest, WaitRecord, Offset
    <3>2. waits' = [a \in Actor |-> AtRest]
      BY <2>1 DEF StopCall
    <3>3. QED
      BY <3>1, <3>2
  <2>2. CASE RivalConnects \/ RivalLeaves
    BY <1>1, <2>2 DEF RivalConnects, RivalLeaves
  <2>3. CASE Connect \/ Opened
    <3>1. waits' = waits /\ call # "running"
      BY <2>3 DEF Connect, Opened
    <3>2. \A a \in Actor : waits[a].on = 0
      BY <1>1, <3>1 DEF LiveSound, WaitsFormed
    <3>3. QED
      BY <1>1, <3>1, <3>2
  <2>4. QED
    BY <2>1, <2>2, <2>3
<1>4. /\ call' \in {"new", "opening", "running", "stopping", "closing", "gone"}
      /\ claimed' \in BOOLEAN /\ rival' \in BOOLEAN
      /\ call' \in {"closing", "gone"} <=> call \in {"closing", "gone"}
      /\ OneOwner'
  BY <1>1 DEF LiveTyped, LiveSound, OneOwner, RivalConnects, RivalLeaves, Connect, Opened,
              StopCall, TurnedAway
<1>5. LiveTyped'
  BY <1>1, <1>2, <1>3, <1>4 DEF LiveTyped
<1>6. TasksCounted'
  <2>1. PICK n \in Nat : /\ Begun = 1..n
                         /\ n + Promised("reader") + Promised("controls") <= Asked
    BY <1>1 DEF LiveSound, TasksCounted
  <2>2. Begun' = 1..n /\ Asked' = Asked
    BY <1>2, <2>1 DEF Begun, Asked
  <2>3. Asked \in Nat
    BY <1>1, AskedBound DEF Asked, LiveTyped
  <2>4. /\ Promised("reader")' \in {0, Promised("reader")}
        /\ Promised("controls")' \in {0, Promised("controls")}
    BY <1>3 DEF Promised, Actor
  <2>5. n + Promised("reader")' + Promised("controls")' <= Asked'
    BY <2>1, <2>2, <2>3, <2>4, PromisedIs
  <2>6. QED
    BY <2>2, <2>5 DEF TasksCounted
<1>7. /\ WaitsFormed' /\ ClosedFormed' /\ TasksDated'
      /\ \A t \in TaskId : TaskFormed(tasks[t])'
  <2>1. WaitsFormed' /\ TasksDated'
    BY <1>1, <1>2, <1>3 DEF LiveSound, WaitsFormed, TasksDated, Dated, Living
  <2>2. ClosedFormed'
    BY <1>1, <1>2, <1>4 DEF LiveSound, ClosedFormed
  <2>3. \A t \in TaskId : TaskFormed(tasks[t])'
    BY <1>1, <1>2 DEF LiveSound, TaskFormed
  <2>4. QED
    BY <2>1, <2>2, <2>3
<1>8. ASSUME ~overlapped PROVE OneCurrent' /\ OneWaits' /\ RoutedBehind'
  <2>1. OneCurrent /\ OneWaits /\ RoutedBehind
    BY <1>1, <1>8 DEF LiveSound
  <2>2. OneCurrent'
    BY <1>2, <2>1 DEF OneCurrent, Living
  <2>3. OneWaits'
    BY <1>2, <1>3, <2>1 DEF OneWaits, Living
  <2>4. RoutedBehind'
    BY <1>2, <2>1 DEF RoutedBehind
  <2>5. QED
    BY <2>2, <2>3, <2>4
<1>9. QED
  BY <1>2, <1>4, <1>5, <1>6, <1>7, <1>8 DEF LiveInv, LiveSound

LEMMA CloseStep == ASSUME LiveInv, Close \/ Release PROVE LiveInv'
<1>1. /\ LiveTyped /\ LiveSound /\ conv \in ConvType /\ tasks \in [TaskId -> TaskRecord]
  BY DEF LiveInv, LiveTyped
<1>2. /\ rival' = rival /\ waits' = waits /\ met' = met /\ routed' = routed
      /\ overlapped' = overlapped
      /\ call \in {"stopping", "closing"} /\ call' \in {"closing", "gone"}
  BY DEF Close, Release
<1>3. claimed' \in BOOLEAN /\ OneOwner'
  <2>1. claimed = TRUE /\ ~rival
    BY <1>1, <1>2 DEF LiveTyped, LiveSound, OneOwner
  <2>2. \/ claimed' = claimed /\ call' = "closing"
        \/ claimed' = FALSE /\ call' = "gone"
    BY DEF Close, Release
  <2>3. QED
    BY <1>2, <2>1, <2>2 DEF OneOwner
<1>4. \A a \in Actor : waits[a].on = 0
  BY <1>1, <1>2 DEF LiveSound, WaitsFormed
<1>5. /\ conv' \in ConvType /\ conv'.fragments = conv.fragments
      /\ conv'.consumed = conv.consumed /\ conv'.closed = TRUE
      /\ conv'.generation = IF Close THEN conv.generation + 1 ELSE conv.generation
  <2>1. CASE Close
    <3>1. PICK b \in BOOLEAN : b = TRUE
      OBVIOUS
    <3>2. PICK g \in Nat : g = conv.generation + 1
      BY <1>1 DEF ConvType
    <3>3. conv' = [conv EXCEPT !.closed = b, !.generation = g]
      BY <1>1, <2>1, <3>1, <3>2 DEF Close, ConvType
    <3>4. conv' \in ConvType /\ conv'.fragments = conv.fragments
          /\ conv'.consumed = conv.consumed /\ conv'.closed = b /\ conv'.generation = g
      BY <1>1, <3>3 DEF ConvType
    <3>5. QED
      BY <2>1, <3>1, <3>2, <3>4
  <2>2. CASE Release
    <3>1. conv.closed = TRUE /\ ~Close
      BY <1>1, <2>2 DEF Close, Release, LiveSound, ClosedFormed, ConvType
    <3>2. QED
      BY <1>1, <2>2, <3>1 DEF Release, ConvType
  <2>3. QED
    BY <2>1, <2>2
<1>6. /\ tasks' \in [TaskId -> TaskRecord]
      /\ \A t \in TaskId : /\ tasks'[t].stage = tasks[t].stage
                           /\ tasks'[t].kind = tasks[t].kind /\ tasks'[t].parts = tasks[t].parts
                           /\ tasks'[t].generation = tasks[t].generation
                           /\ tasks[t].cancelled => tasks'[t].cancelled
                           /\ tasks'[t].cancelled => tasks[t].cancelled \/ Close
      /\ Close /\ conv.task # 0 => tasks'[conv.task].cancelled
  <2>1. CASE Close
    <3>1. CASE conv.task = 0
      BY <1>1, <2>1, <3>1 DEF Close, Cancels
    <3>2. CASE conv.task # 0
      <4>1. tasks' = [tasks EXCEPT ![conv.task].cancelled = TRUE] /\ conv.task \in TaskId
        BY <1>1, <2>1, <3>2 DEF Close, Cancels, ConvType
      <4>2. QED
        BY <1>1, <2>1, <4>1 DEF TaskRecord
    <3>3. QED
      BY <3>1, <3>2
  <2>2. CASE ~Close
    BY <1>1, <2>2 DEF Release
  <2>3. QED
    BY <2>1, <2>2
<1>7. LiveTyped'
  BY <1>1, <1>2, <1>3, <1>5, <1>6 DEF LiveTyped
<1>8. TasksCounted'
  <2>1. Begun' = Begun /\ Promised("reader")' = Promised("reader")
        /\ Promised("controls")' = Promised("controls") /\ Asked' = Asked
    BY <1>2, <1>6 DEF Begun, Promised, Asked
  <2>2. QED
    BY <1>1, <2>1 DEF LiveSound, TasksCounted
<1>9. WaitsFormed' /\ ClosedFormed' /\ TasksDated' /\ \A t \in TaskId : TaskFormed(tasks[t])'
  <2>1. WaitsFormed' /\ ClosedFormed'
    BY <1>2, <1>4, <1>5 DEF WaitsFormed, ClosedFormed
  <2>2. \A t \in TaskId : TaskFormed(tasks[t])'
    BY <1>1, <1>6 DEF LiveSound, TaskFormed
  <2>3. TasksDated'
    <3>1. conv.generation \in Nat /\ \A t \in TaskId : tasks[t].generation \in Nat
      BY <1>1 DEF ConvType, TaskRecord
    <3>2. QED
      BY <1>1, <1>5, <1>6, <3>1 DEF LiveSound, TasksDated, Dated, Living
  <2>4. QED
    BY <2>1, <2>2, <2>3
<1>10. ASSUME ~overlapped PROVE OneCurrent' /\ OneWaits' /\ RoutedBehind'
  <2>1. OneCurrent /\ OneWaits /\ RoutedBehind
    BY <1>1, <1>10 DEF LiveSound
  <2>2. \A t \in TaskId : Living(tasks'[t]) => tasks'[t].cancelled
    <3>1. CASE Close
      BY <1>6, <2>1, <3>1 DEF OneCurrent, Living, TaskId
    <3>2. CASE Release
      <4>1. conv.closed
        BY <1>1, <3>2 DEF Release, LiveSound, ClosedFormed
      <4>2. QED
        BY <1>6, <2>1, <4>1 DEF OneCurrent, Living
    <3>3. QED
      BY <3>1, <3>2
  <2>3. OneCurrent'
    BY <2>2 DEF OneCurrent, Living
  <2>4. OneWaits' /\ RoutedBehind'
    BY <1>2, <1>4, <1>5, <2>1 DEF OneWaits, RoutedBehind
  <2>5. QED
    BY <2>3, <2>4
<1>11. QED
  BY <1>2, <1>3, <1>7, <1>8, <1>9, <1>10 DEF LiveInv, LiveSound

LEMMA LiveInvStep == LiveInv /\ [LiveNext]_liveCall => LiveInv'
<1> SUFFICES ASSUME LiveInv, [LiveNext]_liveCall PROVE LiveInv'
  OBVIOUS
<1>1. CASE RivalConnects \/ RivalLeaves \/ Connect \/ Opened \/ StopCall \/ Close \/ Release
  BY <1>1, ClaimStep, CloseStep
<1>2. CASE Hear \/ Delegate \/ Interrupt \/ TypeText
  BY <1>2, HearStep, DelegateStep, ControlsStep
<1>3. CASE \E a \in Actor : Resume(a)
  BY <1>3, ResumeStep
<1>4. CASE \E t \in TaskId : TaskSteps(t)
  BY <1>4, GatherStep, StartTurnStep, TurnReturnsStep, QuietStep DEF TaskSteps
<1>5. CASE UNCHANGED liveCall
  <2>1. /\ call' = call /\ claimed' = claimed /\ rival' = rival /\ conv' = conv
        /\ tasks' = tasks /\ waits' = waits /\ met' = met /\ routed' = routed
        /\ overlapped' = overlapped
    BY <1>5 DEF liveCall
  <2>2. LiveTyped'
    BY <2>1 DEF LiveInv, LiveTyped
  <2>3. LiveSound'
    BY <2>1 DEF LiveInv, LiveSound, OneOwner, TasksCounted, Begun, Promised, Asked, WaitsFormed,
                ClosedFormed, TaskFormed, OneCurrent, OneWaits, Living, RoutedBehind,
                TasksDated, Dated
  <2>4. QED
    BY <2>2, <2>3 DEF LiveInv
<1>6. QED
  BY <1>1, <1>2, <1>3, <1>4, <1>5 DEF LiveNext

LEMMA LiveInvariant == LiveSpec => []LiveInv
BY LiveInvInit, LiveInvStep, PTL DEF LiveSpec

\* An append is a task's own, while its turn to speak lasts.
LEMMA AppendsAreCurrent ==
  ASSUME LiveInv, [LiveNext]_liveCall, NEW t \in TaskId, tasks'[t].said > tasks[t].said
  PROVE  Current(t) \/ overlapped
<1>1. tasks \in [TaskId -> TaskRecord] /\ LiveSound /\ tasks[t].said \in Nat
  <2>1. tasks \in [TaskId -> TaskRecord] /\ LiveSound
    BY DEF LiveInv, LiveTyped
  <2>2. QED
    BY <2>1, LiveAssumption DEF TaskRecord
<1>2. NoTask.said = 0 /\ [NoTask EXCEPT !.stage = "done"].said = 0
  BY DEF NoTask
<1>3. SUFFICES ASSUME ~overlapped PROVE Current(t)
  OBVIOUS
<1>4. CASE \E u \in TaskId : SayChunk(u)
  <2>1. PICK u \in TaskId : SayChunk(u)
    BY <1>4
  <2>2. u = t
    BY <1>1, <2>1 DEF SayChunk
  <2>3. QED
    BY <1>1, <1>3, <2>1, <2>2 DEF SayChunk, Runs, LiveSound, OneCurrent, Living, Current
<1>5. ASSUME NEW c, NEW then, NEW o, Continue(c, tasks, then, o) PROVE FALSE
  <2>1. CASE then = "interrupt"
    BY <1>1, <1>5, <2>1 DEF Continue
  <2>2. CASE then # "interrupt"
    <3>1. PICK kind : tasks' = Create(tasks, kind, o, c.generation)
      BY <1>5, <2>2 DEF Continue
    <3>2. PICK q : /\ q = [NoTask EXCEPT
                             !.stage = IF kind = "resolve" THEN "grace" ELSE "announcing",
                             !.kind = kind, !.offset = o, !.generation = c.generation]
                   /\ tasks' = [tasks EXCEPT ![Fresh] = q]
      BY <3>1 DEF Create
    <3>3. q.said = 0
      BY <3>2 DEF NoTask
    <3>4. tasks'[t] \in {q, tasks[t]}
      BY <1>1, <3>2
    <3>5. QED
      BY <1>1, <3>3, <3>4
  <2>3. QED
    BY <2>1, <2>2
<1>6. ASSUME NEW T, T = Cancels(tasks, conv.task) PROVE T[t].said = tasks[t].said
  <2>1. CASE conv.task = 0
    BY <1>6, <2>1 DEF Cancels
  <2>2. CASE conv.task # 0
    BY <1>1, <1>6, <2>2 DEF Cancels, TaskRecord
  <2>3. QED
    BY <2>1, <2>2
<1>7. ASSUME NEW a, NEW c, c.task = conv.task, NEW then, NEW o, Cancel(a, c, then, o)
      PROVE  FALSE
  <2>1. CASE c.task = 0
    BY <1>5, <1>7, <2>1 DEF Cancel
  <2>2. CASE c.task # 0
    <3>1. tasks' = Cancels(tasks, conv.task)
      BY <1>7, <2>2 DEF Cancel
    <3>2. QED
      BY <1>1, <1>6, <3>1
  <2>3. QED
    BY <2>1, <2>2
<1>8. CASE UNCHANGED tasks
  BY <1>1, <1>8
<1>9. CASE Hear \/ Delegate \/ Interrupt \/ TypeText
  <2> DEFINE heard == IF met.words + 1 > conv.consumed
                      THEN [conv EXCEPT !.fragments = @ \cup {met.words + 1}] ELSE conv
  <2>1. heard.task = conv.task
    <3>1. conv \in ConvType
      BY DEF LiveInv, LiveTyped
    <3>2. QED
      BY <3>1 DEF ConvType
  <2>2. CASE Hear
    BY <1>7, <1>8, <2>1, <2>2 DEF Hear
  <2>3. CASE Delegate \/ Interrupt \/ TypeText
    BY <1>7, <2>3 DEF Delegate, Interrupt, TypeText
  <2>4. QED
    BY <1>9, <2>2, <2>3
<1>10. CASE \E a \in Actor : Resume(a)
  BY <1>5, <1>10 DEF Resume
<1>11. CASE Close \/ Release
  BY <1>1, <1>6, <1>11 DEF Close, Release
<1>12. CASE \E u \in TaskId : TaskSteps(u) /\ ~SayChunk(u)
  <2>1. PICK u \in TaskId : TaskSteps(u) /\ ~SayChunk(u)
    BY <1>12
  <2>2. CASE Gather(u)
    BY <1>1, <2>2 DEF Gather, TaskRecord
  <2>3. CASE StartTurn(u) \/ TurnReturns(u) \/ TurnFails(u) \/ Said(u) \/ Cancelled(u)
    <3>1. PICK q : /\ tasks' = [tasks EXCEPT ![u] = q]
                   /\ q.said \in {0, tasks[u].said}
      <4>1. CASE \E c : Ends(u, c)
        BY <1>1, <4>1 DEF Ends, TaskRecord
      <4>2. CASE \E stage : tasks' = [tasks EXCEPT ![u].stage = stage]
        BY <1>1, <4>2 DEF TaskRecord
      <4>3. QED
        BY <2>3, <4>1, <4>2 DEF StartTurn, TurnReturns, TurnFails, Said, Cancelled
    <3>2. QED
      BY <1>1, <3>1
  <2>4. CASE EndTask(u)
    <3>1. tasks'[t] = tasks[t] \/ tasks'[t].said = 0
      BY <1>1, <1>2, <2>4 DEF EndTask
    <3>2. QED
      BY <1>1, <3>1
  <2>5. QED
    BY <2>1, <2>2, <2>3, <2>4 DEF TaskSteps
<1>13. CASE RivalConnects \/ RivalLeaves \/ Connect \/ Opened \/ StopCall \/ UNCHANGED liveCall
  BY <1>8, <1>13 DEF RivalConnects, RivalLeaves, Connect, Opened, StopCall, liveCall
<1>14. QED
  BY <1>4, <1>9, <1>10, <1>11, <1>12, <1>13 DEF LiveNext

\* The session id of a call has one owner until its conversation has closed; and unless two
\* cancellations overlap, a word is part of one turn, and of one more for each turn that
\* committed although its task was cancelled, however requests are superseded, restarted,
\* interrupted or fail.
THEOREM LiveKeepsWords == LiveSpec => [](LiveTypeOK /\ OneOwner /\ WordsRoutedOnce)
<1>1. LiveInv => LiveTypeOK /\ OneOwner /\ WordsRoutedOnce
  BY LiveTypedIs DEF LiveInv, LiveSound, WordsRoutedOnce, RoutedBehind, CountedOnce
<1>2. QED
  BY <1>1, LiveInvariant, PTL

\* No backend task appends to the speech after a newer request, an interruption or the
\* close has taken its turn, unless two cancellations overlap.
THEOREM LiveSpeaksCurrent == LiveSpec => OnlyCurrentSpeaks
<1>1. LiveInv /\ [LiveNext]_liveCall =>
        [\A t \in TaskId : tasks'[t].said > tasks[t].said => Current(t) \/ overlapped]_liveCall
  BY AppendsAreCurrent
<1>2. QED
  BY <1>1, LiveInvariant, PTL DEF LiveSpec, OnlyCurrentSpeaks
=============================================================================
