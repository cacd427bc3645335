---------------------------- MODULE HistoryProofs ----------------------------
(***************************************************************************)
(* The conversation's history never claims an answer its caller did not    *)
(* hear, for every interleaving of turns, confirmations and interruptions. *)
(***************************************************************************)
EXTENDS ConversationProofs, SequenceTheorems

Said(role, t) == [role |-> role, turn |-> t]

\* Entry i of history h belongs to a turn that was asked and, if it is an answer,
\* was heard and follows the utterance it answers.
TrueEntry(h, i) ==
  /\ request[h[i].turn].phase # "new"
  /\ h[i].role = "assistant" =>
       /\ Heard(h[i].turn)
       /\ i > 1 => h[i - 1] = Said("user", h[i].turn)

TrueHistory(h) == \A i \in DOMAIN h : TrueEntry(h, i)

\* h ends with t's exchange, and is true up to t's answer.
EndsWithExchange(h, t) ==
  /\ Len(h) >= 2
  /\ h[Len(h) - 1] = Said("user", t)
  /\ h[Len(h)] = Said("assistant", t)
  /\ TrueHistory(Front(h))

HInv ==
  /\ TInv
  /\ TrueHistory(session.history)
  /\ session.delivery # None =>
       /\ session.history # <<>>
       /\ session.history[Len(session.history)] = Said("user", session.delivery)
  /\ \A i \in DOMAIN queue : queue[i].kind = "confirm" =>
       /\ "confirm" \in request[queue[i].turn].signals
       /\ request[queue[i].turn].phase # "new"
  /\ holder # None =>
       /\ request[holder].phase \in {"routing", "replying"}
       /\ cand.delivery = None
       /\ request[holder].phase = "routing" => TrueHistory(cand.history)
       /\ request[holder].phase = "replying" => EndsWithExchange(cand.history, holder)

-----------------------------------------------------------------------------
\* Histories cut to their last entries, and extended.

\* r are the elements of q behind its first k, no more than n.
CutTo(r, q, n, S, k) ==
  /\ Len(r) = Len(q) - k
  /\ k <= Len(q)
  /\ Len(r) = IF Len(q) <= n THEN Len(q) ELSE n
  /\ r \in Seq(S)
  /\ \A i \in 1 .. Len(r) : r[i] = q[i + k]

LEMMA LastOfIs ==
  ASSUME NEW S, NEW q \in Seq(S), NEW n \in Nat
  PROVE  \E k \in Nat : CutTo(LastOf(q, n), q, n, S, k)
<1>1. CASE Len(q) <= n
  <2>1. LastOf(q, n) = q
    BY <1>1 DEF LastOf
  <2>2. WITNESS 0 \in Nat
  <2>3. QED
    BY <1>1, <2>1 DEF CutTo
<1>2. CASE ~(Len(q) <= n)
  <2> DEFINE k == Len(q) - n
  <2>1. k \in Nat /\ k <= Len(q)
    BY <1>2
  <2>2. LastOf(q, n) = SubSeq(q, k + 1, Len(q))
    BY <1>2 DEF LastOf
  <2>3. /\ LastOf(q, n) \in Seq(S) /\ Len(LastOf(q, n)) = n
        /\ \A i \in 1 .. n : LastOf(q, n)[i] = q[i + k]
    BY <1>2, <2>1, <2>2
  <2>4. CutTo(LastOf(q, n), q, n, S, k)
    BY <1>2, <2>1, <2>3 DEF CutTo
  <2>5. QED
    BY <2>1, <2>4
<1>3. QED
  BY <1>1, <1>2

LEMMA FrontIs ==
  ASSUME NEW S, NEW q \in Seq(S), Len(q) >= 1
  PROVE  /\ Front(q) \in Seq(S) /\ Len(Front(q)) = Len(q) - 1
         /\ \A i \in 1 .. Len(q) - 1 : Front(q)[i] = q[i]
<1>1. Len(q) \in Nat /\ \A i \in 1 .. Len(q) - 1 : q[i] \in S
  BY ElementOfSeq, LenProperties
<1>2. Front(q) = SubSeq(q, 1, Len(q) - 1)
  BY DEF Front
<1>3. /\ SubSeq(q, 1, Len(q) - 1) \in Seq(S)
      /\ Len(SubSeq(q, 1, Len(q) - 1)) = IF 1 <= Len(q) - 1 THEN Len(q) - 1 - 1 + 1 ELSE 0
      /\ \A i \in 1 .. (Len(q) - 1) - 1 + 1 : SubSeq(q, 1, Len(q) - 1)[i] = q[1 + i - 1]
  BY <1>1, SubSeqProperties
<1>4. \A i \in 1 .. Len(q) - 1 : 1 + i - 1 = i
  BY <1>1
<1>5. (Len(q) - 1) - 1 + 1 = Len(q) - 1
  BY <1>1
<1>6. QED
  BY <1>1, <1>2, <1>3, <1>4, <1>5

LEMMA TrueLastOf ==
  ASSUME NEW h \in Seq(Entry), NEW n \in Nat, TrueHistory(h)
  PROVE  TrueHistory(LastOf(h, n))
<1> DEFINE g == LastOf(h, n)
<1>0. PICK k \in Nat : CutTo(LastOf(h, n), h, n, Entry, k)
  BY LastOfIs
<1>1. /\ k \in Nat /\ Len(g) = Len(h) - k /\ k <= Len(h) /\ g \in Seq(Entry)
      /\ \A i \in 1 .. Len(g) : g[i] = h[i + k]
  BY <1>0 DEF CutTo
<1> HIDE DEF g
<1>2. ASSUME NEW i \in DOMAIN g PROVE TrueEntry(g, i)
  <2>1. i \in 1 .. Len(g) /\ g[i] = h[i + k]
    BY <1>1, LenProperties
  <2>2. i + k \in DOMAIN h
    BY <1>1, <2>1, LenProperties
  <2>3. TrueEntry(h, i + k)
    BY <2>2 DEF TrueHistory
  <2>4. i > 1 => /\ i - 1 \in 1 .. Len(g) /\ (i - 1) + k = (i + k) - 1 /\ i + k > 1
    <3>1. i \in 1 .. Len(g) /\ Len(g) \in Nat
      BY <1>1, <2>1, LenProperties
    <3>2. QED
      BY <3>1
  <2>5. i > 1 => g[i - 1] = h[(i + k) - 1] /\ i + k > 1
    BY <1>1, <2>4
  <2>6. QED
    BY <2>1, <2>3, <2>5 DEF TrueEntry
<1>3. QED
  BY <1>2 DEF TrueHistory, g

LEMMA TrueAppend ==
  ASSUME NEW h \in Seq(Entry), NEW e \in Entry, TrueHistory(h),
         request[e.turn].phase # "new",
         e.role = "assistant" =>
           Heard(e.turn) /\ h # <<>> /\ h[Len(h)] = Said("user", e.turn)
  PROVE  TrueHistory(Append(h, e))
<1> DEFINE g == Append(h, e)
<1>1. g \in Seq(Entry) /\ Len(g) = Len(h) + 1 /\ g[Len(h) + 1] = e
      /\ \A i \in 1 .. Len(h) : g[i] = h[i]
  OBVIOUS
<1> HIDE DEF g
<1>2. ASSUME NEW i \in 1 .. Len(h) PROVE TrueEntry(g, i)
  <2>1. TrueEntry(h, i) /\ g[i] = h[i] /\ (i > 1 => g[i - 1] = h[i - 1])
    BY <1>1 DEF TrueHistory
  <2>2. QED
    BY <2>1 DEF TrueEntry
<1>3. TrueEntry(g, Len(h) + 1)
  <2>1. h # <<>> => g[Len(h)] = h[Len(h)]
    BY <1>1
  <2>2. QED
    BY <1>1, <2>1 DEF TrueEntry
<1>4. QED
  BY <1>1, <1>2, <1>3 DEF TrueHistory, g

LEMMA ExchangedEnds ==
  ASSUME NEW t \in Turn, cand.history \in Seq(Entry), TrueHistory(cand.history),
         request[t].phase # "new"
  PROVE  EndsWithExchange(Exchanged(t), t)
<1> DEFINE u == Append(cand.history, Said("user", t))
           g == Append(u, Said("assistant", t))
           h == LastOf(g, HistoryLimit)
<1>2. /\ cand.history \in Seq(Entry)
      /\ Said("user", t) \in Entry /\ Said("assistant", t) \in Entry
      /\ Said("user", t).turn = t /\ Said("user", t).role = "user"
  BY DEF Entry, Said
<1>1. u \in Seq(Entry) /\ TrueHistory(u)
  <2>1. TrueHistory(u)
    BY <1>2, TrueAppend
  <2>2. QED
    BY <1>2, <2>1
<1>3. Exchanged(t) = h
  <2>1. cand.history \o <<Said("user", t), Said("assistant", t)>> = g
    BY <1>2
  <2>2. QED
    BY <2>1 DEF Exchanged, Said
<1>4. /\ Len(u) = Len(cand.history) + 1 /\ Len(cand.history) \in Nat
      /\ u[Len(u)] = Said("user", t)
  BY <1>2
<1> HIDE DEF u
<1>5. /\ g \in Seq(Entry) /\ Len(g) = Len(u) + 1
      /\ g[Len(u) + 1] = Said("assistant", t)
      /\ \A i \in 1 .. Len(u) : g[i] = u[i]
  BY <1>1, <1>2
<1> HIDE DEF g
<1>14. PICK k \in Nat : CutTo(h, g, HistoryLimit, Entry, k)
  <2>1. g \in Seq(Entry) /\ HistoryLimit \in Nat
    BY <1>5, LimitsAssumption
  <2>2. \E k \in Nat : CutTo(LastOf(g, HistoryLimit), g, HistoryLimit, Entry, k)
    BY <2>1, LastOfIs
  <2>3. QED
    BY <2>2
<1> HIDE DEF h
<1>6. /\ k \in Nat /\ Len(h) = Len(g) - k /\ k <= Len(g) /\ h \in Seq(Entry)
      /\ Len(h) = IF Len(g) <= HistoryLimit THEN Len(g) ELSE HistoryLimit
      /\ \A i \in 1 .. Len(h) : h[i] = g[i + k]
  BY <1>14 DEF CutTo
<1>7. Len(h) \in Nat /\ Len(h) >= 2 /\ Len(h) >= 1 /\ Len(h) + k = Len(u) + 1 /\ Len(u) \in Nat
  BY <1>4, <1>5, <1>6, LimitsAssumption
<1>13. k \in Nat /\ h \in Seq(Entry)
  BY <1>6
<1>8. h[Len(h)] = Said("assistant", t) /\ h[Len(h) - 1] = Said("user", t)
  <2>1. Len(h) \in 1 .. Len(h) /\ Len(h) - 1 \in 1 .. Len(h)
        /\ Len(h) - 1 + k = Len(u) /\ Len(u) \in 1 .. Len(u)
    BY <1>4, <1>7
  <2>2. h[Len(h)] = g[Len(u) + 1] /\ h[Len(h) - 1] = g[Len(u)]
    BY <1>6, <1>7, <2>1
  <2>3. QED
    BY <1>4, <1>5, <2>1, <2>2
<1>9. /\ Front(h) \in Seq(Entry) /\ Len(Front(h)) = Len(h) - 1
      /\ \A i \in 1 .. Len(h) - 1 : Front(h)[i] = h[i]
  BY <1>7, <1>13, FrontIs
<1>10. ASSUME NEW i \in DOMAIN Front(h) PROVE TrueEntry(Front(h), i)
  <2>1. i \in 1 .. Len(h) - 1
    BY <1>9, LenProperties
  <2>2. i + k \in 1 .. Len(u) /\ i \in 1 .. Len(h)
    BY <1>7, <1>13, <2>1
  <2>3. Front(h)[i] = u[i + k]
    <3>1. Front(h)[i] = h[i]
      BY <1>9, <2>1
    <3>2. h[i] = g[i + k]
      BY <1>6, <2>2
    <3>3. g[i + k] = u[i + k]
      BY <1>5, <2>2
    <3>4. QED
      BY <3>1, <3>2, <3>3
  <2>4. TrueEntry(u, i + k)
    BY <1>1, <2>2, LenProperties DEF TrueHistory
  <2>5. ASSUME i > 1 PROVE Front(h)[i - 1] = u[(i + k) - 1] /\ i + k > 1
    <3>1. /\ i - 1 \in 1 .. Len(h) - 1 /\ i - 1 \in 1 .. Len(h)
          /\ (i - 1) + k = (i + k) - 1 /\ (i + k) - 1 \in 1 .. Len(u) /\ i + k > 1
      BY <1>7, <1>13, <2>1, <2>2, <2>5
    <3>2. QED
      BY <1>5, <1>6, <1>9, <3>1
  <2>6. QED
    BY <2>3, <2>4, <2>5 DEF TrueEntry
<1>11. QED
  BY <1>3, <1>7, <1>8, <1>10 DEF EndsWithExchange, TrueHistory

-----------------------------------------------------------------------------
\* Requests only gain: what was asked stays asked and what was heard stays heard.
RequestsGain ==
  \A t \in Turn : request[t].phase # "new" =>
    /\ request'[t].phase # "new"
    /\ request'[t].delivered = request[t].delivered
    /\ request[t].signals \subseteq request'[t].signals

LEMMA StepGains == TInv /\ [Next]_vars => RequestsGain
<1> SUFFICES ASSUME TInv, [Next]_vars PROVE RequestsGain
  OBVIOUS
<1> USE DEF TInv, TypeOK, Request, RequestsGain
<1>1. CASE UNCHANGED vars
  BY <1>1 DEF vars
<1>2. ASSUME NEW c \in Catalogs, EditCatalog(c) PROVE RequestsGain
  BY <1>2 DEF EditCatalog
<1>3. ASSUME NEW u \in Turn, NEW phase \in Phase \ {"new"},
             request' = [request EXCEPT ![u].phase = phase] PROVE RequestsGain
  BY <1>3
<1>4. ASSUME NEW u \in Turn, Begin(u) \/ DecideRoute(u) \/ DecideOther(u)
      PROVE  RequestsGain
  <2>1. \E phase \in Phase \ {"new"} : request' = [request EXCEPT ![u].phase = phase]
    BY <1>4 DEF Begin, DecideRoute, DecideOther, Phase
  <2>2. QED
    BY <1>3, <2>1
<1>5. ASSUME NEW u \in Turn, Commit(u) \/ Fail(u) \/ Abandon(u) PROVE RequestsGain
  <2>1. PICK phase \in {"done", "failed"} : request' = Ended(u, phase)
    BY <1>5 DEF Commit, Fail, Abandon
  <2>2. QED
    BY <2>1 DEF Ended
<1>6. ASSUME NEW u \in Turn, ConfirmDelivery(u) \/ InterruptDelivery(u)
      PROVE  RequestsGain
  BY <1>6 DEF ConfirmDelivery, InterruptDelivery
<1>7. ASSUME NEW u \in Turn, NEW kind \in {"confirm", "interrupt"}, Signal(u, kind)
      PROVE  RequestsGain
  BY <1>7 DEF Signal
<1>8. ASSUME NEW u \in Turn, NEW i \in Intents, NEW d \in Deliveries, Submit(u, i, d)
      PROVE  RequestsGain
  BY <1>8 DEF Submit
<1>9. QED
  BY <1>1, <1>2, <1>3, <1>4, <1>5, <1>6, <1>7, <1>8 DEF Next

LEMMA TrueStays ==
  ASSUME NEW h \in Seq(Entry), TrueHistory(h), RequestsGain
  PROVE  \A i \in DOMAIN h :
           /\ request'[h[i].turn].phase # "new"
           /\ h[i].role = "assistant" =>
                /\ ~request'[h[i].turn].delivered \/ "confirm" \in request'[h[i].turn].signals
                /\ i > 1 => h[i - 1] = Said("user", h[i].turn)
<1> SUFFICES ASSUME NEW i \in DOMAIN h
             PROVE  /\ request'[h[i].turn].phase # "new"
                    /\ h[i].role = "assistant" =>
                         /\ \/ ~request'[h[i].turn].delivered
                            \/ "confirm" \in request'[h[i].turn].signals
                         /\ i > 1 => h[i - 1] = Said("user", h[i].turn)
  OBVIOUS
<1>1. h[i].turn \in Turn
  <2>1. h[i] \in Entry
    BY ElementOfSeq, LenProperties
  <2>2. QED
    BY <2>1 DEF Entry
<1>2. TrueEntry(h, i)
  BY DEF TrueHistory
<1>3. QED
  BY <1>1, <1>2 DEF TrueEntry, Heard, RequestsGain

\* A step that leaves the session's history keeps it true.
LEMMA KeptHistoryStaysTrue ==
  ASSUME TInv, TrueHistory(session.history), RequestsGain,
         session'.history = session.history
  PROVE  TrueHistory(session.history)'
<1>1. session.history \in Seq(Entry)
  BY DEF TInv, TypeOK, ConversationWith
<1>2. QED
  BY <1>1, TrueStays DEF TrueHistory, TrueEntry, Heard

LEMMA SubSeqElements ==
  ASSUME NEW S, NEW q \in Seq(S), NEW m \in Nat, NEW n \in Nat, m >= 1, n <= Len(q)
  PROVE  /\ SubSeq(q, m, n) \in Seq(S)
         /\ \A i \in DOMAIN SubSeq(q, m, n) : \E j \in DOMAIN q : SubSeq(q, m, n)[i] = q[j]
<1> DEFINE r == SubSeq(q, m, n)
<1>1. DOMAIN q = 1 .. Len(q) /\ Len(q) \in Nat
  BY LenProperties
<1>2. \A i \in m .. n : i \in DOMAIN q /\ q[i] \in S
  BY <1>1, ElementOfSeq
<1>3. /\ r \in Seq(S) /\ Len(r) = IF m <= n THEN n - m + 1 ELSE 0
      /\ \A i \in 1 .. n - m + 1 : r[i] = q[m + i - 1]
  BY <1>2, SubSeqProperties
<1>4. DOMAIN r = 1 .. Len(r)
  BY <1>3, LenProperties
<1> HIDE DEF r
<1>5. ASSUME NEW i \in DOMAIN r PROVE \E j \in DOMAIN q : r[i] = q[j]
  <2>1. i \in 1 .. n - m + 1 /\ m + i - 1 \in m .. n
    BY <1>3, <1>4
  <2>2. QED
    BY <1>2, <1>3, <2>1
<1>6. QED
  BY <1>3, <1>5 DEF r

LEMMA AppendElements ==
  ASSUME NEW S, NEW q \in Seq(S), NEW e \in S
  PROVE  \A i \in DOMAIN Append(q, e) :
           Append(q, e)[i] = e \/ \E j \in DOMAIN q : Append(q, e)[i] = q[j]
<1>1. /\ Append(q, e) \in Seq(S) /\ Len(Append(q, e)) = Len(q) + 1
      /\ \A i \in 1 .. Len(q) : Append(q, e)[i] = q[i]
      /\ Append(q, e)[Len(q) + 1] = e
  BY AppendProperties
<1>2. /\ Len(q) \in Nat /\ DOMAIN q = 1 .. Len(q)
      /\ DOMAIN Append(q, e) = 1 .. Len(q) + 1
  BY <1>1, LenProperties
<1>3. QED
  BY <1>1, <1>2

LEMMA RemoveAtElements ==
  ASSUME NEW S, NEW q \in Seq(S), NEW k \in DOMAIN q
  PROVE  \A i \in DOMAIN RemoveAt(q, k) : \E j \in DOMAIN q : RemoveAt(q, k)[i] = q[j]
<1> DEFINE before == SubSeq(q, 1, k - 1)
           after == SubSeq(q, k + 1, Len(q))
<1>1. k \in 1 .. Len(q) /\ Len(q) \in Nat /\ DOMAIN q = 1 .. Len(q)
  BY LenProperties
<1>2. before \in Seq(S) /\ \A i \in DOMAIN before : \E j \in DOMAIN q : before[i] = q[j]
  <2>1. k - 1 \in Nat /\ k - 1 <= Len(q)
    BY <1>1
  <2>2. QED
    BY <2>1, SubSeqElements
<1>3. after \in Seq(S) /\ \A i \in DOMAIN after : \E j \in DOMAIN q : after[i] = q[j]
  <2> DEFINE m == k + 1
             n == Len(q)
  <2>1. m \in Nat /\ m >= 1 /\ n \in Nat /\ n <= Len(q)
    BY <1>1
  <2>2. after = SubSeq(q, m, n)
    OBVIOUS
  <2> HIDE DEF after, m, n
  <2>3. QED
    BY <2>1, <2>2, SubSeqElements
<1>4. RemoveAt(q, k) = before \o after
  BY DEF RemoveAt
<1> HIDE DEF before, after
<1>5. /\ before \o after \in Seq(S) /\ Len(before \o after) = Len(before) + Len(after)
      /\ \A i \in 1 .. Len(before) + Len(after) :
           (before \o after)[i] = IF i <= Len(before) THEN before[i]
                                  ELSE after[i - Len(before)]
  BY <1>2, <1>3, ConcatProperties
<1>6. /\ Len(before) \in Nat /\ Len(after) \in Nat
      /\ DOMAIN before = 1 .. Len(before) /\ DOMAIN after = 1 .. Len(after)
      /\ DOMAIN (before \o after) = 1 .. Len(before) + Len(after)
  BY <1>2, <1>3, <1>5, LenProperties
<1>7. ASSUME NEW i \in 1 .. Len(before) + Len(after)
      PROVE  \E j \in DOMAIN q : (before \o after)[i] = q[j]
  <2>1. CASE i <= Len(before)
    <3>1. i \in 1 .. Len(before)
      BY <1>6, <2>1
    <3>2. i \in DOMAIN before /\ (before \o after)[i] = before[i]
      BY <1>5, <1>6, <2>1, <3>1
    <3>3. QED
      BY <1>2, <3>2
  <2>2. CASE ~(i <= Len(before))
    <3>1. i - Len(before) \in 1 .. Len(after)
      BY <1>6, <2>2
    <3>2. i - Len(before) \in DOMAIN after
          /\ (before \o after)[i] = after[i - Len(before)]
      BY <1>5, <1>6, <2>2, <3>1
    <3>3. QED
      BY <1>3, <3>2
  <2>3. QED
    BY <2>1, <2>2
<1>8. QED
  BY <1>4, <1>6, <1>7

LEMMA QueueStep ==
  ASSUME HInv, RequestsGain,
         \/ UNCHANGED queue
         \/ queue # <<>> /\ queue' = Tail(queue)
         \/ \E i \in DOMAIN queue : queue' = RemoveAt(queue, i)
         \/ \E t \in Turn, kind \in {"turn", "confirm", "interrupt"} :
              /\ queue' = Append(queue, [kind |-> kind, turn |-> t])
              /\ kind = "confirm" => /\ "confirm" \in request'[t].signals
                                     /\ request'[t].phase # "new"
  PROVE  \A i \in DOMAIN queue' : queue'[i].kind = "confirm" =>
           /\ "confirm" \in request'[queue'[i].turn].signals
           /\ request'[queue'[i].turn].phase # "new"
<1> DEFINE Confirmed(e) ==
      e.kind = "confirm" =>
        "confirm" \in request[e.turn].signals /\ request[e.turn].phase # "new"
           Op == [kind: {"turn"} \cup Signals, turn: Turn]
<1>1. queue \in Seq(Op) /\ \A i \in DOMAIN queue : Confirmed(queue[i])
  BY DEF HInv, TInv, TypeOK
<1>2. ASSUME NEW e \in Op, Confirmed(e), e.kind = "confirm"
      PROVE  "confirm" \in request'[e.turn].signals /\ request'[e.turn].phase # "new"
  BY <1>2 DEF RequestsGain
<1> HIDE DEF Confirmed, Op
<1>3. \A i \in DOMAIN queue : queue[i] \in Op
  BY <1>1, ElementOfSeq, LenProperties
<1>4. ASSUME \A i \in DOMAIN queue' : \E j \in DOMAIN queue : queue'[i] = queue[j]
      PROVE  \A i \in DOMAIN queue' : queue'[i].kind = "confirm" =>
               /\ "confirm" \in request'[queue'[i].turn].signals
               /\ request'[queue'[i].turn].phase # "new"
  BY <1>1, <1>2, <1>3, <1>4
<1>5. CASE UNCHANGED queue
  BY <1>4, <1>5
<1>6. CASE queue # <<>> /\ queue' = Tail(queue)
  <2>1. /\ queue' \in Seq(Op) /\ Len(queue') = Len(queue) - 1
        /\ \A i \in 1 .. Len(queue') : queue'[i] = queue[i + 1]
    BY <1>1, <1>6, HeadTailProperties
  <2>2. \A i \in DOMAIN queue' : i + 1 \in DOMAIN queue /\ queue'[i] = queue[i + 1]
    BY <1>1, <2>1, LenProperties
  <2>3. QED
    BY <1>4, <2>2
<1>7. ASSUME NEW k \in DOMAIN queue, queue' = RemoveAt(queue, k)
      PROVE  \A i \in DOMAIN queue' : \E j \in DOMAIN queue : queue'[i] = queue[j]
  BY <1>1, <1>7, RemoveAtElements
<1>8. ASSUME NEW t \in Turn, NEW kind \in {"turn", "confirm", "interrupt"},
             queue' = Append(queue, [kind |-> kind, turn |-> t]),
             kind = "confirm" => "confirm" \in request'[t].signals /\ request'[t].phase # "new",
             NEW i \in DOMAIN queue', queue'[i].kind = "confirm"
      PROVE  "confirm" \in request'[queue'[i].turn].signals /\ request'[queue'[i].turn].phase # "new"
  <2>1. [kind |-> kind, turn |-> t] \in Op
    BY DEF Op, Signals
  <2>2. queue'[i] = [kind |-> kind, turn |-> t] \/ \E j \in DOMAIN queue : queue'[i] = queue[j]
    BY <1>1, <1>8, <2>1, AppendElements
  <2>3. QED
    BY <1>1, <1>2, <1>3, <1>8, <2>2
<1>9. QED
  BY <1>4, <1>5, <1>6, <1>7, <1>8

-----------------------------------------------------------------------------
\* Every step preserves HInv.

\* The parts of HInv that speak of the session and of the lock holder's work.
SessionTrue ==
  /\ TrueHistory(session.history)
  /\ session.delivery # None =>
       /\ session.history # <<>>
       /\ session.history[Len(session.history)] = Said("user", session.delivery)
HolderTrue(t) ==
  /\ request[t].phase \in {"routing", "replying"}
  /\ cand.delivery = None
  /\ request[t].phase = "routing" => TrueHistory(cand.history)
  /\ request[t].phase = "replying" => EndsWithExchange(cand.history, t)

LEMMA SessionKept ==
  ASSUME HInv, RequestsGain,
         session'.history = session.history,
         session'.delivery = session.delivery \/ session'.delivery = None
  PROVE  SessionTrue'
<1>1. TrueHistory(session.history)'
  BY KeptHistoryStaysTrue DEF HInv
<1>2. QED
  BY <1>1 DEF HInv, SessionTrue

LEMMA HolderKept ==
  ASSUME HInv, RequestsGain, holder # None,
         cand' = cand, request'[holder].phase = request[holder].phase
  PROVE  HolderTrue(holder)'  \/ holder' # holder
<1> SUFFICES ASSUME holder' = holder PROVE HolderTrue(holder)'
  OBVIOUS
<1>1. cand.history \in Seq(Entry) /\ holder \in Turn
  BY DEF HInv, TInv, TypeOK, ConversationWith
<1>2. CASE request[holder].phase = "routing"
  <2>1. TrueHistory(cand.history)'
    BY <1>1, <1>2, TrueStays DEF HInv, TrueHistory, TrueEntry, Heard
  <2>2. QED
    BY <1>2, <2>1 DEF HolderTrue, HInv
<1>3. CASE request[holder].phase = "replying"
  <2>1. EndsWithExchange(cand.history, holder)
    BY <1>3 DEF HInv
  <2>2. Front(cand.history) \in Seq(Entry) /\ TrueHistory(Front(cand.history))
    BY <1>1, <2>1, FrontType DEF EndsWithExchange
  <2>3. TrueHistory(Front(cand.history))'
    BY <2>2, TrueStays DEF TrueHistory, TrueEntry, Heard
  <2>4. EndsWithExchange(cand.history, holder)'
    BY <2>1, <2>3 DEF EndsWithExchange
  <2>5. QED
    BY <1>3, <2>4 DEF HolderTrue, HInv
<1>4. QED
  BY <1>2, <1>3 DEF HInv

LEMMA DecidedHistory ==
  ASSUME HInv, RequestsGain, NEW t \in Turn, holder = t, request[t].phase = "routing",
         cand'.history = Exchanged(t), cand'.delivery = cand.delivery,
         request' = [request EXCEPT ![t].phase = "replying"]
  PROVE  HolderTrue(t)'
<1>1. TrueHistory(cand.history) /\ cand.history \in Seq(Entry)
  BY NoneIsNoScenario DEF HInv, TInv, TypeOK, ConversationWith
<1> DEFINE h == Exchanged(t)
<1>2. EndsWithExchange(h, t) /\ h \in Seq(Entry)
  BY <1>1, ExchangedEnds, ExchangedType DEF HInv, TInv, TypeOK
<1> HIDE DEF h
<1>3. Front(h) \in Seq(Entry) /\ TrueHistory(Front(h))
  BY <1>2, FrontType DEF EndsWithExchange
<1>4. \A i \in DOMAIN Front(h) :
        /\ request'[Front(h)[i].turn].phase # "new"
        /\ Front(h)[i].role = "assistant" =>
             /\ \/ ~request'[Front(h)[i].turn].delivered
                \/ "confirm" \in request'[Front(h)[i].turn].signals
             /\ i > 1 => Front(h)[i - 1] = Said("user", Front(h)[i].turn)
  BY <1>3, TrueStays
<1>5. cand'.history = h
  BY DEF h
<1>6. EndsWithExchange(cand.history, t)'
  BY <1>2, <1>4, <1>5 DEF EndsWithExchange, TrueHistory, TrueEntry, Heard
<1>7. request'[t].phase = "replying"
  BY DEF HInv, TInv, TypeOK, Request
<1>8. cand'.delivery = None
  BY NoneIsNoScenario DEF HInv
<1>9. QED
  BY <1>6, <1>7, <1>8 DEF HolderTrue

LEMMA CommitTrue ==
  ASSUME HInv, RequestsGain, NEW t \in Turn, Commit(t)
  PROVE  SessionTrue'
<1> DEFINE h == cand.history
<1>1. holder = t /\ request[t].phase = "replying" /\ request' = Ended(t, "done")
      /\ session' = IF request[t].delivered
                    THEN [cand EXCEPT !.history = Front(@), !.delivery = t] ELSE cand
  BY DEF Commit
<1>2. EndsWithExchange(h, t) /\ h \in Seq(Entry)
  BY <1>1, NoneIsNoScenario DEF HInv, TInv, TypeOK, ConversationWith
<1>3. /\ Front(h) \in Seq(Entry) /\ Len(Front(h)) = Len(h) - 1
      /\ \A i \in 1 .. Len(h) - 1 : Front(h)[i] = h[i]
      /\ TrueHistory(Front(h)) /\ Len(h) \in Nat /\ Len(h) >= 2
      /\ h[Len(h)] = Said("assistant", t) /\ h[Len(h) - 1] = Said("user", t)
  BY <1>2, FrontIs, LenProperties DEF EndsWithExchange
<1>4. cand.delivery = None
  BY <1>1, NoneIsNoScenario DEF HInv
<1>5. \A i \in DOMAIN Front(h) :
        /\ request'[Front(h)[i].turn].phase # "new"
        /\ Front(h)[i].role = "assistant" =>
             /\ \/ ~request'[Front(h)[i].turn].delivered
                \/ "confirm" \in request'[Front(h)[i].turn].signals
             /\ i > 1 => Front(h)[i - 1] = Said("user", Front(h)[i].turn)
  BY <1>3, TrueStays
<1>6. cand \in ConversationWith(cand.pending)
  BY DEF HInv, TInv, TypeOK
<1> HIDE DEF h
<1>7. CASE request[t].delivered
  <2>1. session'.history = Front(h) /\ session'.delivery = t
    BY <1>1, <1>6, <1>7 DEF ConversationWith, h
  <2>2. Front(h) # <<>> /\ Front(h)[Len(Front(h))] = Said("user", t)
    BY <1>3
  <2>3. TrueHistory(session.history)'
    BY <1>5, <2>1 DEF TrueHistory, TrueEntry, Heard
  <2>4. QED
    BY <2>1, <2>2, <2>3 DEF SessionTrue
<1>8. CASE ~request[t].delivered
  <2>1. session'.history = h /\ session'.delivery = None
    BY <1>1, <1>4, <1>8 DEF h
  <2>2. \A i \in 1 .. Len(h) - 1 :
          /\ request'[h[i].turn].phase # "new"
          /\ h[i].role = "assistant" =>
               /\ ~request'[h[i].turn].delivered \/ "confirm" \in request'[h[i].turn].signals
               /\ i > 1 => h[i - 1] = Said("user", h[i].turn)
    <3> SUFFICES ASSUME NEW i \in 1 .. Len(h) - 1
                 PROVE  /\ request'[h[i].turn].phase # "new"
                        /\ h[i].role = "assistant" =>
                             /\ \/ ~request'[h[i].turn].delivered
                                \/ "confirm" \in request'[h[i].turn].signals
                             /\ i > 1 => h[i - 1] = Said("user", h[i].turn)
      OBVIOUS
    <3>1. i \in DOMAIN Front(h) /\ Front(h)[i] = h[i]
      BY <1>3, LenProperties
    <3>2. i > 1 => i - 1 \in 1 .. Len(h) - 1
      BY <1>3
    <3>3. i > 1 => Front(h)[i - 1] = h[i - 1]
      BY <1>3, <3>2
    <3>4. QED
      BY <1>5, <3>1, <3>3
  <2>3. h[Len(h)].turn = t /\ request'[t].phase = "done" /\ ~request'[t].delivered
    BY <1>1, <1>3, <1>8 DEF Said, Ended, HInv, TInv, TypeOK, Request
  <2>4. \A i \in DOMAIN h : i \in 1 .. Len(h) - 1 \/ i = Len(h)
    BY <1>2, <1>3, LenProperties
  <2>5. \A i \in DOMAIN h :
          /\ request'[h[i].turn].phase # "new"
          /\ h[i].role = "assistant" =>
               /\ ~request'[h[i].turn].delivered \/ "confirm" \in request'[h[i].turn].signals
               /\ i > 1 => h[i - 1] = Said("user", h[i].turn)
    BY <1>3, <2>2, <2>3, <2>4
  <2>6. TrueHistory(session.history)'
    BY <2>1, <2>5 DEF TrueHistory, TrueEntry, Heard
  <2>7. QED
    BY <2>1, <2>6 DEF SessionTrue
<1>9. QED
  BY <1>7, <1>8 DEF HInv, TInv, TypeOK, Request

LEMMA ConfirmTrue ==
  ASSUME HInv, RequestsGain, NEW t \in Turn, ConfirmDelivery(t)
  PROVE  SessionTrue'
<1>1. CASE session.delivery # t
  <2>1. session' = session
    BY <1>1 DEF ConfirmDelivery
  <2>2. QED
    BY <2>1, SessionKept
<1>2. CASE session.delivery = t
  <2> DEFINE e == Said("assistant", t)
             h == session.history
  <2>1. session' = [session EXCEPT !.history = LastOf(Append(h, e), HistoryLimit),
                                   !.delivery = None]
        /\ request' = request
    BY <1>2 DEF ConfirmDelivery, Said
  <2>2. queue # <<>> /\ Head(queue).kind = "confirm" /\ Head(queue).turn = t
    BY DEF ConfirmDelivery, Acquires
  <2>3. "confirm" \in request[t].signals /\ request[t].phase # "new"
    <3>1. 1 \in DOMAIN queue /\ Head(queue) = queue[1]
      BY <2>2 DEF HInv, TInv, TypeOK
    <3>2. QED
      BY <2>2, <3>1 DEF HInv
  <2>4. h \in Seq(Entry) /\ e \in Entry /\ e.turn = t
    BY DEF HInv, TInv, TypeOK, ConversationWith, Said, Entry
  <2>5. h # <<>> /\ h[Len(h)] = Said("user", t) /\ TrueHistory(h)
    BY <1>2, NoneIsNoScenario DEF HInv
  <2> HIDE DEF e, h
  <2>6. TrueHistory(Append(h, e)) /\ Append(h, e) \in Seq(Entry)
    BY <2>3, <2>4, <2>5, TrueAppend DEF Heard
  <2>7. TrueHistory(LastOf(Append(h, e), HistoryLimit))
    BY <2>6, TrueLastOf, LimitsAssumption
  <2>8. session'.history = LastOf(Append(h, e), HistoryLimit) /\ session'.delivery = None
    BY <2>1 DEF HInv, TInv, TypeOK, ConversationWith
  <2>9. QED
    BY <2>1, <2>7, <2>8 DEF SessionTrue, TrueHistory, TrueEntry, Heard
<1>3. QED
  BY <1>1, <1>2

LEMMA Assembled ==
  ASSUME TInv', SessionTrue', holder' # None => HolderTrue(holder)',
         \A i \in DOMAIN queue' : queue'[i].kind = "confirm" =>
           /\ "confirm" \in request'[queue'[i].turn].signals
           /\ request'[queue'[i].turn].phase # "new"
  PROVE  HInv'
BY DEF HInv, SessionTrue, HolderTrue

LEMMA StepHistory == HInv /\ [Next]_vars => HInv'
<1> SUFFICES ASSUME HInv, [Next]_vars PROVE HInv'
  OBVIOUS
<1>1. TInv /\ TInv' /\ RequestsGain
  BY StepType, StepGains DEF HInv
<1>2. CASE UNCHANGED vars
  <2>1. SessionTrue'
    BY <1>1, <1>2, SessionKept DEF vars
  <2>2. holder' # None => HolderTrue(holder)'
    BY <1>1, <1>2, HolderKept DEF vars
  <2>3. QED
    BY <1>1, <1>2, <2>1, <2>2, QueueStep, Assembled DEF vars
<1>3. ASSUME NEW c \in Catalogs, EditCatalog(c) PROVE HInv'
  <2>1. SessionTrue'
    BY <1>1, <1>3, SessionKept DEF EditCatalog
  <2>2. holder' # None => HolderTrue(holder)'
    BY <1>1, <1>3, HolderKept DEF EditCatalog
  <2>3. QED
    BY <1>1, <1>3, <2>1, <2>2, QueueStep, Assembled DEF EditCatalog
<1>4. ASSUME NEW t \in Turn,
             \/ \E i \in Intents, d \in Deliveries : Submit(t, i, d)
             \/ Abandon(t)
             \/ \E kind \in {"confirm", "interrupt"} : Signal(t, kind)
      PROVE  HInv'
  <2>1. UNCHANGED <<session, holder, cand>>
    BY <1>4 DEF Submit, Abandon, Signal
  <2>2. holder # None => request'[holder].phase = request[holder].phase
    <3>1. ASSUME holder # None PROVE request[holder].phase \in {"routing", "replying"}
      BY <3>1 DEF HInv
    <3>2. CASE \E kind \in {"confirm", "interrupt"} : Signal(t, kind)
      BY <1>1, <3>2 DEF Signal, TInv, TypeOK, Request
    <3>3. CASE ~\E kind \in {"confirm", "interrupt"} : Signal(t, kind)
      BY <1>1, <1>4, <3>1, <3>3 DEF Submit, Abandon, Ended, TInv, TypeOK
    <3>4. QED
      BY <3>2, <3>3
  <2>3. SessionTrue'
    BY <1>1, <2>1, SessionKept
  <2>4. holder' # None => HolderTrue(holder)'
    BY <1>1, <2>1, <2>2, HolderKept
  <2>5. \/ UNCHANGED queue
        \/ \E i \in DOMAIN queue : queue' = RemoveAt(queue, i)
        \/ \E u \in Turn, kind \in {"turn", "confirm", "interrupt"} :
             /\ queue' = Append(queue, [kind |-> kind, turn |-> u])
             /\ kind = "confirm" => /\ "confirm" \in request'[u].signals
                                    /\ request'[u].phase # "new"
    <3>1. CASE \E i \in Intents, d \in Deliveries : Submit(t, i, d)
      BY <3>1 DEF Submit
    <3>3. CASE Abandon(t)
      BY <3>3 DEF Abandon
    <3>4. ASSUME NEW kind \in {"confirm", "interrupt"}, Signal(t, kind)
          PROVE  /\ queue' = Append(queue, [kind |-> kind, turn |-> t])
                 /\ kind = "confirm" => /\ "confirm" \in request'[t].signals
                                        /\ request'[t].phase # "new"
      BY <1>1, <3>4 DEF Signal, TInv, TypeOK, Request
    <3>5. QED
      BY <1>4, <3>1, <3>3, <3>4
  <2>6. QED
    BY <1>1, <2>3, <2>4, <2>5, QueueStep, Assembled
<1>5. ASSUME NEW t \in Turn, Begin(t) PROVE HInv'
  <2>1. SessionTrue'
    BY <1>1, <1>5, SessionKept DEF Begin
  <2>2. HolderTrue(t)'
    <3>1. request'[t].phase = "routing" /\ cand'.history = session.history
          /\ cand'.delivery = None
      BY <1>1, <1>5 DEF Begin, Snapshot, TInv, TypeOK, Request
    <3>2. session' = session
      BY <1>5 DEF Begin
    <3>3. TrueHistory(cand.history)'
      BY <2>1, <3>1, <3>2 DEF SessionTrue, TrueHistory, TrueEntry, Heard
    <3>4. QED
      BY <3>1, <3>3 DEF HolderTrue
  <2>3. holder' = t /\ queue # <<>> /\ queue' = Tail(queue)
    BY <1>5 DEF Begin, Acquires
  <2>4. QED
    BY <1>1, <2>1, <2>2, <2>3, QueueStep, Assembled
<1>6. ASSUME NEW t \in Turn, DecideRoute(t) \/ DecideOther(t) PROVE HInv'
  <2>1. /\ holder = t /\ request[t].phase = "routing"
        /\ request' = [request EXCEPT ![t].phase = "replying"]
        /\ UNCHANGED <<session, holder, queue>>
    BY <1>6 DEF DecideRoute, DecideOther
  <2>2. cand'.history = Exchanged(t) /\ cand'.delivery = cand.delivery
    <3>1. cand \in ConversationWith(cand.pending)
      BY <1>1 DEF TInv, TypeOK
    <3>2. CASE DecideRoute(t)
      BY <3>1, <3>2 DEF DecideRoute, ConversationWith
    <3>3. CASE DecideOther(t)
      BY <3>1, <3>3 DEF DecideOther, ConversationWith
    <3>4. QED
      BY <1>6, <3>2, <3>3
  <2>3. HolderTrue(t)'
    BY <1>1, <2>1, <2>2, DecidedHistory
  <2>4. SessionTrue'
    BY <1>1, <2>1, SessionKept
  <2>5. QED
    BY <1>1, <2>1, <2>3, <2>4, QueueStep, Assembled
<1>7. ASSUME NEW t \in Turn, Commit(t) PROVE HInv'
  <2>1. holder' = None /\ UNCHANGED queue
    BY <1>7 DEF Commit
  <2>2. QED
    BY <1>1, <1>7, <2>1, CommitTrue, QueueStep, Assembled
<1>8. ASSUME NEW t \in Turn, Fail(t) PROVE HInv'
  <2>1. holder' = None /\ UNCHANGED <<queue, session>>
    BY <1>8 DEF Fail
  <2>2. QED
    BY <1>1, <2>1, SessionKept, QueueStep, Assembled
<1>9. ASSUME NEW t \in Turn, ConfirmDelivery(t) \/ InterruptDelivery(t) PROVE HInv'
  <2>1. holder' = None /\ queue # <<>> /\ queue' = Tail(queue)
    BY <1>9 DEF ConfirmDelivery, InterruptDelivery, Acquires
  <2>2. CASE InterruptDelivery(t)
    <3>1. session'.history = session.history
          /\ (session'.delivery = session.delivery \/ session'.delivery = None)
      BY <1>1, <2>2 DEF InterruptDelivery, TInv, TypeOK, ConversationWith
    <3>2. QED
      BY <1>1, <2>1, <3>1, SessionKept, QueueStep, Assembled
  <2>3. CASE ConfirmDelivery(t)
    BY <1>1, <2>1, <2>3, ConfirmTrue, QueueStep, Assembled
  <2>4. QED
    BY <1>9, <2>2, <2>3
<1>10. QED
  BY <1>2, <1>3, <1>4, <1>5, <1>6, <1>7, <1>8, <1>9 DEF Next

LEMMA InitHistory == Init => HInv
<1> SUFFICES ASSUME Init PROVE HInv
  OBVIOUS
<1>1. session.history = <<>> /\ session.delivery = None /\ queue = <<>> /\ holder = None
  BY DEF Init, FreshConversation
<1>2. QED
  BY <1>1, InitType DEF HInv, TrueHistory

\* The history the agents are given contains an answer only if its caller heard it
\* (it was not played, or its playback was confirmed), right after the utterance it
\* answers: commit, confirm_delivery and interrupt_delivery in any order.
THEOREM HistoryTold == Spec => []HistoryIsTrue
<1>1. HInv => HistoryIsTrue
  BY DEF HInv, HistoryIsTrue, TrueHistory, TrueEntry, Said
<1>2. QED
  BY <1>1, InitHistory, StepHistory, PTL DEF Spec

-----------------------------------------------------------------------------
\* Which elements the operations on histories and on the lock's queue keep.

LEMMA LastOfElements ==
  ASSUME NEW S, NEW q \in Seq(S), NEW n \in Nat
  PROVE  ToSet(LastOf(q, n)) \subseteq ToSet(q)
<1>1. PICK k \in Nat : CutTo(LastOf(q, n), q, n, S, k)
  BY LastOfIs
<1> DEFINE r == LastOf(q, n)
<1>5. /\ k \in Nat /\ Len(r) = Len(q) - k /\ k <= Len(q) /\ r \in Seq(S)
      /\ \A i \in 1 .. Len(r) : r[i] = q[i + k]
  BY <1>1 DEF CutTo
<1> HIDE DEF r
<1>2. DOMAIN r = 1 .. Len(r) /\ DOMAIN q = 1 .. Len(q) /\ Len(q) \in Nat /\ Len(r) \in Nat
  BY <1>5, LenProperties
<1>3. ASSUME NEW i \in DOMAIN r PROVE i + k \in DOMAIN q /\ r[i] = q[i + k]
  <2>1. i \in 1 .. Len(r)
    BY <1>2
  <2>2. Len(r) = Len(q) - k /\ k \in Nat
    BY <1>5
  <2>3. i + k \in 1 .. Len(q)
    BY <1>2, <2>1, <2>2
  <2>4. r[i] = q[i + k]
    BY <1>5, <2>1
  <2>5. QED
    BY <1>2, <2>3, <2>4
<1>4. QED
  BY <1>3 DEF ToSet, r

LEMMA AppendSet ==
  ASSUME NEW S, NEW q \in Seq(S), NEW e \in S
  PROVE  ToSet(Append(q, e)) = ToSet(q) \cup {e}
<1>1. /\ Len(Append(q, e)) = Len(q) + 1
      /\ \A i \in 1 .. Len(q) : Append(q, e)[i] = q[i]
      /\ Append(q, e)[Len(q) + 1] = e
      /\ DOMAIN q = 1 .. Len(q) /\ Len(q) \in Nat
      /\ DOMAIN Append(q, e) = 1 .. Len(q) + 1
  BY AppendProperties, LenProperties
<1>2. QED
  BY <1>1 DEF ToSet

LEMMA FrontElements ==
  ASSUME NEW S, NEW q \in Seq(S), Len(q) >= 1
  PROVE  ToSet(Front(q)) \subseteq ToSet(q)
<1>1. /\ Front(q) \in Seq(S) /\ Len(Front(q)) = Len(q) - 1
      /\ \A i \in 1 .. Len(q) - 1 : Front(q)[i] = q[i]
  BY FrontIs
<1>2. /\ DOMAIN q = 1 .. Len(q) /\ Len(q) \in Nat
      /\ DOMAIN Front(q) = 1 .. Len(q) - 1
  BY <1>1, LenProperties
<1>3. QED
  BY <1>1, <1>2 DEF ToSet

LEMMA TailKeeps ==
  ASSUME NEW S, NEW q \in Seq(S), q # <<>>, NEW e \in ToSet(q), e # Head(q)
  PROVE  e \in ToSet(Tail(q))
<1>1. /\ Tail(q) \in Seq(S) /\ Len(Tail(q)) = Len(q) - 1 /\ Head(q) = q[1]
      /\ \A i \in 1 .. Len(Tail(q)) : Tail(q)[i] = q[i + 1]
  BY HeadTailProperties
<1>2. DOMAIN q = 1 .. Len(q) /\ Len(q) \in Nat /\ DOMAIN Tail(q) = 1 .. Len(q) - 1
  BY <1>1, LenProperties
<1>3. PICK i \in DOMAIN q : q[i] = e
  BY DEF ToSet
<1>4. i - 1 \in DOMAIN Tail(q) /\ Tail(q)[i - 1] = e
  BY <1>1, <1>2, <1>3
<1>5. QED
  BY <1>4 DEF ToSet

LEMMA RemoveAtKeeps ==
  ASSUME NEW S, NEW q \in Seq(S), NEW k \in DOMAIN q, NEW e \in ToSet(q), e # q[k]
  PROVE  e \in ToSet(RemoveAt(q, k))
<1> DEFINE before == SubSeq(q, 1, k - 1)
           after == SubSeq(q, k + 1, Len(q))
<1>1. k \in 1 .. Len(q) /\ Len(q) \in Nat /\ DOMAIN q = 1 .. Len(q)
      /\ \A i \in 1 .. Len(q) : q[i] \in S
  BY LenProperties, ElementOfSeq
<1>2. /\ before \in Seq(S) /\ Len(before) = k - 1
      /\ \A i \in 1 .. k - 1 : before[i] = q[i]
  BY <1>1
<1>3. /\ after \in Seq(S) /\ Len(after) = Len(q) - k
      /\ \A i \in 1 .. Len(q) - k : after[i] = q[i + k]
  BY <1>1
<1>4. RemoveAt(q, k) = before \o after
  BY DEF RemoveAt
<1> HIDE DEF before, after
<1> DEFINE both == before \o after
<1>5. /\ both \in Seq(S) /\ Len(both) = Len(before) + Len(after)
      /\ \A i \in 1 .. Len(before) + Len(after) :
           both[i] = IF i <= Len(before) THEN before[i] ELSE after[i - Len(before)]
  BY <1>2, <1>3, ConcatProperties
<1>12. DOMAIN both = 1 .. Len(both)
  BY <1>5, LenProperties
<1> HIDE DEF both
<1>6. DOMAIN both = 1 .. Len(q) - 1
  BY <1>1, <1>2, <1>3, <1>5, <1>12
<1>13. \A i \in 1 .. Len(q) - 1 : both[i] = IF i <= k - 1 THEN before[i]
                                           ELSE after[i - (k - 1)]
  BY <1>1, <1>2, <1>3, <1>5
<1>7. PICK i \in 1 .. Len(q) : q[i] = e
  BY <1>1 DEF ToSet
<1>8. i < k \/ i > k
  BY <1>1, <1>7
<1>9. CASE i < k
  <2>1. i \in 1 .. Len(q) - 1 /\ i \in 1 .. k - 1 /\ i <= k - 1
    BY <1>1, <1>9
  <2>2. both[i] = e
    BY <1>2, <1>7, <1>13, <2>1
  <2>3. QED
    BY <1>4, <1>6, <2>1, <2>2 DEF ToSet, both
<1>10. CASE i > k
  <2>1. /\ i - 1 \in 1 .. Len(q) - 1 /\ ~(i - 1 <= k - 1)
        /\ (i - 1) - (k - 1) \in 1 .. Len(q) - k /\ (i - 1) - (k - 1) + k = i
    BY <1>1, <1>10
  <2>2. both[i - 1] = e
    BY <1>3, <1>7, <1>13, <2>1
  <2>3. QED
    BY <1>4, <1>6, <2>1, <2>2 DEF ToSet, both
<1>11. QED
  BY <1>8, <1>9, <1>10

-----------------------------------------------------------------------------
\* What was interrupted stays unheard.

\* The turns whose answers a history claims.
Answered(h) == {u \in Turn : Said("assistant", u) \in ToSet(h)}

\* The answer that waits for playback was not interrupted.
DeliveryOpen == session.delivery # None => ~Interrupted(session.delivery)

\* A caller signals only after its turn ended; the answer that waits for playback
\* was not interrupted yet; and the lock holder works on a history that claims no
\* answer but its own and those of the session.
UInv ==
  /\ HInv
  /\ \A t \in Turn : request[t].phase \notin {"done", "failed"} => request[t].signals = {}
  /\ DeliveryOpen
  /\ holder # None => Answered(cand.history) \subseteq Answered(session.history) \cup {holder}

LEMMA SignalsAfterEnd ==
  ASSUME TInv, [Next]_vars, NEW t \in Turn,
         request[t].phase \notin {"done", "failed"} => request[t].signals = {},
         request'[t].phase \notin {"done", "failed"}
  PROVE  request'[t].signals = {}
<1> USE DEF TInv, TypeOK, Request
<1>1. CASE UNCHANGED vars
  BY <1>1 DEF vars
<1>2. ASSUME NEW c \in Catalogs, EditCatalog(c) PROVE request'[t].signals = {}
  BY <1>2 DEF EditCatalog
<1>3. ASSUME NEW u \in Turn, Begin(u) \/ DecideRoute(u) \/ DecideOther(u)
      PROVE  request'[t].signals = {}
  <2>1. \E phase \in {"routing", "replying"} : request' = [request EXCEPT ![u].phase = phase]
    BY <1>3 DEF Begin, DecideRoute, DecideOther
  <2>2. request[u].phase \in {"waiting", "routing"}
    BY <1>3 DEF Begin, DecideRoute, DecideOther
  <2>3. QED
    BY <2>1, <2>2
<1>4. ASSUME NEW u \in Turn, Commit(u) \/ Fail(u) \/ Abandon(u)
      PROVE  request'[t].signals = {}
  <2>1. PICK phase \in {"done", "failed"} : request' = Ended(u, phase)
    BY <1>4 DEF Commit, Fail, Abandon
  <2>2. QED
    BY <2>1 DEF Ended
<1>5. ASSUME NEW u \in Turn, ConfirmDelivery(u) \/ InterruptDelivery(u)
      PROVE  request'[t].signals = {}
  BY <1>5 DEF ConfirmDelivery, InterruptDelivery
<1>6. ASSUME NEW u \in Turn, NEW kind \in {"confirm", "interrupt"}, Signal(u, kind)
      PROVE  request'[t].signals = {}
  <2>1. request[u].phase \in {"done", "failed"}
        /\ request' = [request EXCEPT ![u].signals = @ \cup {kind}]
    BY <1>6 DEF Signal
  <2>2. QED
    BY <2>1
<1>7. ASSUME NEW u \in Turn, NEW i \in Intents, NEW d \in Deliveries, Submit(u, i, d)
      PROVE  request'[t].signals = {}
  BY <1>7 DEF Submit
<1>8. QED
  BY <1>1, <1>2, <1>3, <1>4, <1>5, <1>6, <1>7 DEF Next

\* An interruption takes effect only when it gets the lock: any other step leaves
\* the signal unsent or in the queue.
LEMMA InterruptionPends ==
  ASSUME TInv, [Next]_vars, NEW t \in Turn, ~Interrupted(t), ~InterruptDelivery(t),
         request[t].phase # "new"
  PROVE  ~Interrupted(t)'
<1> DEFINE e == [kind |-> "interrupt", turn |-> t]
           Op == [kind: {"turn"} \cup Signals, turn: Turn]
<1>1. queue \in Seq(Op) /\ request \in [Turn -> Request] /\ e \in Op
  BY DEF TInv, TypeOK, Signals
<1> HIDE DEF e
<1>2. "interrupt" \notin request[t].signals \/ e \in ToSet(queue)
  BY DEF Interrupted, e
<1>3. ASSUME "interrupt" \notin request'[t].signals \/ e \in ToSet(queue')
      PROVE  ~Interrupted(t)'
  <2>1. CASE "interrupt" \notin request'[t].signals
    BY <2>1 DEF Interrupted
  <2>2. CASE e \in ToSet(queue')
    BY <2>2 DEF Interrupted, e
  <2>3. QED
    BY <1>3, <2>1, <2>2
<1>4. ASSUME request'[t].signals = request[t].signals, UNCHANGED queue
      PROVE  ~Interrupted(t)'
  BY <1>2, <1>3, <1>4
<1>5. ASSUME request'[t].signals = request[t].signals, queue # <<>>, queue' = Tail(queue),
             Head(queue) # e
      PROVE  ~Interrupted(t)'
  <2>1. e \in ToSet(queue) => e \in ToSet(queue')
    BY <1>1, <1>5, TailKeeps
  <2>2. QED
    BY <1>2, <1>3, <1>5, <2>1
<1>6. CASE UNCHANGED vars
  BY <1>4, <1>6 DEF vars
<1>7. ASSUME NEW c \in Catalogs, EditCatalog(c) PROVE ~Interrupted(t)'
  BY <1>4, <1>7 DEF EditCatalog
<1>8. ASSUME NEW u \in Turn, Begin(u) PROVE ~Interrupted(t)'
  <2>1. queue # <<>> /\ queue' = Tail(queue) /\ Head(queue).kind = "turn"
        /\ request' = [request EXCEPT ![u].phase = "routing"]
    BY <1>8 DEF Begin, Acquires
  <2>2. Head(queue) # e
    BY <2>1 DEF e
  <2>3. request'[t].signals = request[t].signals
    BY <1>1, <2>1 DEF Request
  <2>4. QED
    BY <1>5, <2>1, <2>2, <2>3
<1>9. ASSUME NEW u \in Turn, DecideRoute(u) \/ DecideOther(u) PROVE ~Interrupted(t)'
  <2>1. UNCHANGED queue /\ request' = [request EXCEPT ![u].phase = "replying"]
    BY <1>9 DEF DecideRoute, DecideOther
  <2>2. request'[t].signals = request[t].signals
    BY <1>1, <2>1 DEF Request
  <2>3. QED
    BY <1>4, <2>1, <2>2
<1>10. ASSUME NEW u \in Turn, NEW phase, request' = Ended(u, phase)
       PROVE  request'[t].signals = request[t].signals
  BY <1>1, <1>10 DEF Ended, Request
<1>11. ASSUME NEW u \in Turn, Commit(u) \/ Fail(u) PROVE ~Interrupted(t)'
  <2>1. UNCHANGED queue /\ \E phase : request' = Ended(u, phase)
    BY <1>11 DEF Commit, Fail
  <2>2. QED
    BY <1>4, <1>10, <2>1
<1>12. ASSUME NEW u \in Turn, Abandon(u) PROVE ~Interrupted(t)'
  <2>1. PICK i \in DOMAIN queue : /\ queue[i].kind = "turn"
                                  /\ queue' = RemoveAt(queue, i)
    BY <1>12 DEF Abandon
  <2>2. queue[i] # e
    BY <2>1 DEF e
  <2>3. e \in ToSet(queue) => e \in ToSet(queue')
    BY <1>1, <2>1, <2>2, RemoveAtKeeps
  <2>4. request'[t].signals = request[t].signals
    BY <1>10, <1>12 DEF Abandon
  <2>5. QED
    BY <1>2, <1>3, <2>3, <2>4
<1>13. ASSUME NEW u \in Turn, NEW kind \in {"turn", "confirm", "interrupt"},
              queue' = Append(queue, [kind |-> kind, turn |-> u])
       PROVE  e \in ToSet(queue') \/ e \notin ToSet(queue)
  <2>1. [kind |-> kind, turn |-> u] \in Op
    BY DEF Signals
  <2> HIDE DEF Op
  <2>2. QED
    BY <1>1, <1>13, <2>1, AppendSet
<1>14. ASSUME NEW u \in Turn, NEW kind \in {"confirm", "interrupt"}, Signal(u, kind)
       PROVE  ~Interrupted(t)'
  <2>1. queue' = Append(queue, [kind |-> kind, turn |-> u])
        /\ request' = [request EXCEPT ![u].signals = @ \cup {kind}]
    BY <1>14 DEF Signal
  <2>2. CASE u = t /\ kind = "interrupt"
    <3>1. [kind |-> kind, turn |-> u] = e /\ queue' = Append(queue, e)
      BY <2>1, <2>2 DEF e
    <3> HIDE DEF Op
    <3>2. e \in ToSet(queue')
      BY <1>1, <3>1, AppendSet
    <3>3. QED
      BY <1>3, <3>2
  <2>3. CASE ~(u = t /\ kind = "interrupt")
    <3>1. "interrupt" \in request'[t].signals => "interrupt" \in request[t].signals
      BY <1>1, <2>1, <2>3 DEF Request
    <3>2. QED
      BY <1>2, <1>3, <1>13, <2>1, <3>1
  <2>4. QED
    BY <2>2, <2>3
<1>15. ASSUME NEW u \in Turn, NEW i \in Intents, NEW d \in Deliveries, Submit(u, i, d)
       PROVE  ~Interrupted(t)'
  <2>1. u # t /\ queue' = Append(queue, [kind |-> "turn", turn |-> u])
    BY <1>15 DEF Submit
  <2>2. request'[t].signals = request[t].signals
    BY <1>1, <1>15, <2>1 DEF Submit
  <2>3. QED
    BY <1>2, <1>3, <1>13, <2>1, <2>2
<1>16. ASSUME NEW u \in Turn, ConfirmDelivery(u) \/ InterruptDelivery(u)
       PROVE  ~Interrupted(t)'
  <2>1. queue # <<>> /\ queue' = Tail(queue) /\ request' = request
    BY <1>16 DEF ConfirmDelivery, InterruptDelivery, Acquires
  <2>2. Head(queue) # e
    <3>1. CASE ConfirmDelivery(u)
      BY <3>1 DEF ConfirmDelivery, Acquires, e
    <3>2. CASE InterruptDelivery(u)
      <4>1. u # t
        BY <3>2
      <4>2. QED
        BY <3>2, <4>1 DEF InterruptDelivery, Acquires, e
    <3>3. QED
      BY <1>16, <3>1, <3>2
  <2>3. QED
    BY <1>5, <2>1, <2>2
<1>17. QED
  BY <1>6, <1>7, <1>8, <1>9, <1>11, <1>12, <1>14, <1>15, <1>16 DEF Next

LEMMA SaidOnce ==
  ASSUME NEW t \in Turn, NEW u \in Turn
  PROVE  /\ Said("assistant", t) = Said("assistant", u) <=> t = u
         /\ Said("assistant", t) # Said("user", u)
         /\ Said("assistant", t) \in Entry /\ Said("user", t) \in Entry
BY DEF Said, Entry

LEMMA ExchangedAnswers ==
  ASSUME NEW t \in Turn, NEW p, cand \in ConversationWith(p)
  PROVE  Answered(Exchanged(t)) \subseteq Answered(cand.history) \cup {t}
<1> DEFINE h == cand.history
           g == Append(Append(h, Said("user", t)), Said("assistant", t))
<1>1. h \in Seq(Entry) /\ Append(h, Said("user", t)) \in Seq(Entry) /\ g \in Seq(Entry)
  BY SaidOnce DEF ConversationWith
<1>2. Exchanged(t) = LastOf(g, HistoryLimit)
  <2>1. h \o <<Said("user", t), Said("assistant", t)>> = g
    BY <1>1, SaidOnce
  <2>2. QED
    BY <2>1 DEF Exchanged, Said
<1>3. ToSet(g) = ToSet(h) \cup {Said("user", t), Said("assistant", t)}
  <2>1. ToSet(Append(h, Said("user", t))) = ToSet(h) \cup {Said("user", t)}
    BY <1>1, SaidOnce, AppendSet
  <2> DEFINE u == Append(h, Said("user", t))
  <2>4. u \in Seq(Entry) /\ g = Append(u, Said("assistant", t))
    BY <1>1
  <2> HIDE DEF u, g
  <2>2. ToSet(g) = ToSet(u) \cup {Said("assistant", t)}
    BY <2>4, SaidOnce, AppendSet
  <2>3. QED
    BY <2>1, <2>2 DEF u
<1> HIDE DEF g, h
<1>4. ToSet(Exchanged(t)) \subseteq ToSet(h) \cup {Said("user", t), Said("assistant", t)}
  BY <1>1, <1>2, <1>3, LastOfElements, LimitsAssumption
<1>5. QED
  BY <1>4, SaidOnce DEF Answered, h

LEMMA CommitAnswers ==
  ASSUME UInv, NEW t \in Turn, Commit(t)
  PROVE  /\ Answered(session'.history) \subseteq Answered(session.history) \cup {t}
         /\ ~Interrupted(t)
         /\ DeliveryOpen'
<1>1. /\ holder = t /\ t # None /\ request[t].phase = "replying"
      /\ request' = Ended(t, "done") /\ queue' = queue
      /\ session' = IF request[t].delivered
                    THEN [cand EXCEPT !.history = Front(@), !.delivery = t] ELSE cand
  BY NoneIsNoScenario DEF Commit
<1>2. request[t].signals = {} /\ request'[t].signals = {}
  BY <1>1 DEF UInv, HInv, TInv, TypeOK, Request, Ended
<1>3. cand \in ConversationWith(cand.pending) /\ cand.delivery = None
  BY <1>1 DEF UInv, HInv, TInv, TypeOK
<1>4. session'.history \in {cand.history, Front(cand.history)}
      /\ session'.delivery \in {t, None}
  BY <1>1, <1>3 DEF ConversationWith
<1>5. ToSet(Front(cand.history)) \subseteq ToSet(cand.history)
  <2>1. cand.history \in Seq(Entry) /\ EndsWithExchange(cand.history, t)
    BY <1>1, <1>3 DEF UInv, HInv, ConversationWith
  <2>2. Len(cand.history) >= 1
    BY <2>1, LenProperties DEF EndsWithExchange
  <2>3. QED
    BY <2>1, <2>2, FrontElements
<1>6. Answered(session'.history) \subseteq Answered(cand.history)
  BY <1>4, <1>5 DEF Answered
<1>7. Answered(cand.history) \subseteq Answered(session.history) \cup {t}
  BY <1>1 DEF UInv
<1>8. QED
  BY <1>2, <1>4, <1>6, <1>7 DEF Interrupted, DeliveryOpen

LEMMA ConfirmAnswers ==
  ASSUME UInv, NEW t \in Turn, ConfirmDelivery(t)
  PROVE  \/ session' = session
         \/ /\ Answered(session'.history) \subseteq Answered(session.history) \cup {t}
            /\ ~Interrupted(t) /\ session'.delivery = None
<1>1. CASE session.delivery # t
  BY <1>1 DEF ConfirmDelivery
<1>2. CASE session.delivery = t
  <2> DEFINE h == session.history
  <2>1. h \in Seq(Entry) /\ session \in ConversationWith(session.pending)
    BY DEF UInv, HInv, TInv, TypeOK, ConversationWith
  <2>2. /\ session'.history = LastOf(Append(h, Said("assistant", t)), HistoryLimit)
        /\ session'.delivery = None
    BY <1>2, <2>1 DEF ConfirmDelivery, ConversationWith, Said
  <2> HIDE DEF h
  <2>3. Append(h, Said("assistant", t)) \in Seq(Entry)
        /\ ToSet(Append(h, Said("assistant", t))) = ToSet(h) \cup {Said("assistant", t)}
    BY <2>1, SaidOnce, AppendSet
  <2>4. ToSet(session'.history) \subseteq ToSet(h) \cup {Said("assistant", t)}
    BY <2>2, <2>3, LastOfElements, LimitsAssumption
  <2>5. Answered(session'.history) \subseteq Answered(h) \cup {t}
    BY <2>4, SaidOnce DEF Answered
  <2>6. ~Interrupted(t)
    BY <1>2, NoneIsNoScenario DEF UInv, DeliveryOpen
  <2>7. QED
    BY <2>2, <2>5, <2>6 DEF h
<1>3. QED
  BY <1>1, <1>2

\* Every step either leaves the answers of the session, or adds one that was not
\* interrupted.
StaysUnheard ==
  \A t \in Turn : Interrupted(t) /\ t \notin Answered(session.history)
                    => t \notin Answered(session'.history)

LEMMA StepUnheard == UInv /\ [Next]_vars => StaysUnheard
<1> SUFFICES ASSUME UInv, [Next]_vars PROVE StaysUnheard
  OBVIOUS
<1>1. ASSUME session'.history = session.history PROVE StaysUnheard
  BY <1>1 DEF StaysUnheard
<1>2. CASE UNCHANGED vars
  BY <1>1, <1>2 DEF vars
<1>3. ASSUME NEW c \in Catalogs, EditCatalog(c) PROVE StaysUnheard
  BY <1>1, <1>3 DEF EditCatalog
<1>4. ASSUME NEW t \in Turn, NEW i \in Intents, NEW d \in Deliveries, Submit(t, i, d)
      PROVE  StaysUnheard
  BY <1>1, <1>4 DEF Submit
<1>5. ASSUME NEW t \in Turn, NEW kind \in {"confirm", "interrupt"}, Signal(t, kind)
      PROVE  StaysUnheard
  BY <1>1, <1>5 DEF Signal
<1>6. ASSUME NEW t \in Turn,
             Begin(t) \/ DecideRoute(t) \/ DecideOther(t) \/ Fail(t) \/ Abandon(t)
      PROVE  StaysUnheard
  BY <1>1, <1>6 DEF Begin, DecideRoute, DecideOther, Fail, Abandon
<1>7. ASSUME NEW t \in Turn, Commit(t) PROVE StaysUnheard
  BY <1>7, CommitAnswers DEF StaysUnheard
<1>8. ASSUME NEW t \in Turn, ConfirmDelivery(t) PROVE StaysUnheard
  BY <1>8, ConfirmAnswers DEF StaysUnheard
<1>9. ASSUME NEW t \in Turn, InterruptDelivery(t) PROVE StaysUnheard
  <2>1. session'.history = session.history
    BY <1>9 DEF InterruptDelivery, UInv, HInv, TInv, TypeOK, ConversationWith
  <2>2. QED
    BY <1>1, <2>1
<1>10. QED
  BY <1>2, <1>3, <1>4, <1>5, <1>6, <1>7, <1>8, <1>9 DEF Next

LEMMA DeliveryUninterrupted ==
  ASSUME UInv, [Next]_vars
  PROVE  DeliveryOpen'
<1>1. TInv
  BY DEF UInv, HInv
<1>2. ASSUME session'.delivery = session.delivery,
             \A t \in Turn : InterruptDelivery(t) => session'.delivery # t
      PROVE  DeliveryOpen'
  <2> SUFFICES ASSUME session.delivery # None PROVE DeliveryOpen'
    BY <1>2 DEF DeliveryOpen
  <2>1. session.delivery \in Turn /\ request[session.delivery].phase # "new"
    <3>1. session.delivery \in Turn
      BY <1>1 DEF TInv, TypeOK, ConversationWith
    <3>2. /\ session.history # <<>> /\ TrueHistory(session.history)
          /\ session.history[Len(session.history)] = Said("user", session.delivery)
          /\ session.history \in Seq(Entry)
      BY <1>1 DEF UInv, HInv, TInv, TypeOK, ConversationWith
    <3>3. Len(session.history) \in DOMAIN session.history
      BY <3>2, LenProperties
    <3>4. TrueEntry(session.history, Len(session.history))
      BY <3>2, <3>3 DEF TrueHistory
    <3>5. QED
      BY <3>1, <3>2, <3>4 DEF TrueEntry, Said
  <2>2. ~Interrupted(session.delivery) /\ ~InterruptDelivery(session.delivery)
    BY <1>2, <2>1 DEF UInv, DeliveryOpen
  <2>3. PICK t \in Turn : t = session.delivery
    BY <2>1
  <2>4. ~Interrupted(t)'
    BY <1>1, <2>1, <2>2, <2>3, InterruptionPends
  <2>5. QED
    BY <1>2, <2>3, <2>4 DEF DeliveryOpen, Interrupted
<1>3. ASSUME NEW t \in Turn, Commit(t) PROVE DeliveryOpen'
  BY <1>3, CommitAnswers
<1>4. ASSUME NEW t \in Turn, InterruptDelivery(t) PROVE session'.delivery # t
  BY <1>1, <1>4, NoneIsNoScenario
     DEF InterruptDelivery, TInv, TypeOK, ConversationWith
<1>11. session'.delivery = None => DeliveryOpen'
  BY DEF DeliveryOpen
<1>5. ASSUME NEW t \in Turn, ConfirmDelivery(t) PROVE DeliveryOpen'
  <2>1. session' = session \/ session'.delivery = None
    BY <1>5, ConfirmAnswers
  <2>2. QED
    BY <1>2, <1>4, <1>11, <2>1
<1>6. ASSUME NEW t \in Turn, InterruptDelivery(t) PROVE DeliveryOpen'
  <2>1. session'.delivery = session.delivery \/ session'.delivery = None
    BY <1>1, <1>6 DEF InterruptDelivery, TInv, TypeOK, ConversationWith
  <2>2. QED
    BY <1>2, <1>4, <1>11, <2>1
<1>7. CASE UNCHANGED vars
  BY <1>2, <1>4, <1>7 DEF vars
<1>8. ASSUME NEW c \in Catalogs, EditCatalog(c) PROVE DeliveryOpen'
  BY <1>2, <1>4, <1>8 DEF EditCatalog
<1>9. ASSUME NEW t \in Turn,
             \/ \E i \in Intents, d \in Deliveries : Submit(t, i, d)
             \/ Begin(t) \/ DecideRoute(t) \/ DecideOther(t) \/ Fail(t) \/ Abandon(t)
             \/ \E kind \in {"confirm", "interrupt"} : Signal(t, kind)
      PROVE  DeliveryOpen'
  <2>1. session' = session
    BY <1>9 DEF Submit, Begin, DecideRoute, DecideOther, Fail, Abandon, Signal
  <2>2. QED
    BY <1>2, <1>4, <2>1
<1>10. QED
  BY <1>3, <1>5, <1>6, <1>7, <1>8, <1>9 DEF Next

LEMMA HolderAnswers ==
  ASSUME UInv, [Next]_vars, holder' # None
  PROVE  Answered(cand'.history) \subseteq Answered(session'.history) \cup {holder'}
<1> DEFINE Goal == Answered(cand'.history) \subseteq Answered(session'.history) \cup {holder'}
<1>1. TInv
  BY DEF UInv, HInv
<1>2. ASSUME UNCHANGED <<session, cand, holder>> PROVE Goal
  BY <1>2 DEF UInv
<1>3. CASE UNCHANGED vars
  BY <1>2, <1>3 DEF vars
<1>4. ASSUME NEW c \in Catalogs, EditCatalog(c) PROVE Goal
  BY <1>2, <1>4 DEF EditCatalog
<1>5. ASSUME NEW t \in Turn,
             \/ \E i \in Intents, d \in Deliveries : Submit(t, i, d)
             \/ Abandon(t)
             \/ \E kind \in {"confirm", "interrupt"} : Signal(t, kind)
      PROVE  Goal
  BY <1>2, <1>5 DEF Submit, Abandon, Signal
<1>6. ASSUME NEW t \in Turn, Begin(t) PROVE Goal
  <2>1. cand'.history = session.history /\ session' = session
    BY <1>6 DEF Begin, Snapshot
  <2>2. QED
    BY <2>1
<1>7. ASSUME NEW t \in Turn, DecideRoute(t) \/ DecideOther(t) PROVE Goal
  <2>1. cand \in ConversationWith(cand.pending)
    BY <1>1 DEF TInv, TypeOK
  <2>2. cand'.history = Exchanged(t)
    <3>1. CASE DecideRoute(t)
      BY <2>1, <3>1 DEF DecideRoute, ConversationWith
    <3>2. CASE DecideOther(t)
      BY <2>1, <3>2 DEF DecideOther, ConversationWith
    <3>3. QED
      BY <1>7, <3>1, <3>2
  <2>3. holder = t /\ holder' = t /\ session' = session
    BY <1>7 DEF DecideRoute, DecideOther
  <2>4. Answered(Exchanged(t)) \subseteq Answered(cand.history) \cup {t}
    BY <2>1, ExchangedAnswers
  <2>5. Answered(cand.history) \subseteq Answered(session.history) \cup {t}
    BY <2>3, NoneIsNoScenario DEF UInv
  <2>6. QED
    BY <2>2, <2>3, <2>4, <2>5
<1>8. ASSUME NEW t \in Turn,
             Commit(t) \/ Fail(t) \/ ConfirmDelivery(t) \/ InterruptDelivery(t)
      PROVE  FALSE
  BY <1>8 DEF Commit, Fail, ConfirmDelivery, InterruptDelivery, Acquires
<1>9. QED
  BY <1>3, <1>4, <1>5, <1>6, <1>7, <1>8 DEF Next

\* An interruption that took effect before the answer was confirmed is final, in
\* whatever order the playback confirmations, the interruptions and further turns
\* get the lock (confirm_delivery, interrupt_delivery).
THEOREM InterruptedIsFinal == Spec => InterruptedStaysUnheard
<1> DEFINE A == \A t \in Turn : Interrupted(t) /\ ~InHistory(t) => ~InHistory(t)'
<1>1. Init => UInv
  <2> SUFFICES ASSUME Init PROVE UInv
    OBVIOUS
  <2>1. /\ session.delivery = None /\ holder = None
        /\ \A t \in Turn : request[t].signals = {}
    BY DEF Init, FreshConversation
  <2>2. QED
    BY <2>1, InitHistory DEF UInv, DeliveryOpen
<1>2. UInv /\ [Next]_vars => UInv'
  <2> SUFFICES ASSUME UInv, [Next]_vars PROVE UInv'
    OBVIOUS
  <2>1. HInv'
    BY StepHistory DEF UInv
  <2>2. \A t \in Turn : request'[t].phase \notin {"done", "failed"} => request'[t].signals = {}
    BY SignalsAfterEnd DEF UInv, HInv
  <2>3. QED
    BY <2>1, <2>2, DeliveryUninterrupted, HolderAnswers DEF UInv, Answered
<1>3. UInv /\ [Next]_vars => A
  BY StepUnheard DEF StaysUnheard, InHistory, Answered, Said
<1>4. QED
  BY <1>1, <1>2, <1>3, PTL DEF Spec, InterruptedStaysUnheard
=============================================================================
