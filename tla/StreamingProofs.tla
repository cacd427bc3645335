--------------------------- MODULE StreamingProofs ---------------------------
(***************************************************************************)
(* Theorems of Streaming, for any number of turns, messages and chunks and *)
(* every size of the queue: a turn is asked once, what the history calls   *)
(* heard was played, no delivery is left behind, nothing of a turn follows *)
(* its interruption, and what is recognized is what was recorded.          *)
(***************************************************************************)
EXTENDS Streaming, FiniteSetTheorems, TLAPS

\* A step is left to do; the browser was sent an event of a turn.
Has(do, t) == Step(do, t) \in ToSet(todo)
Got(t, event) == event \in ToSet(sent[t])

Dos == {"await", "undeliver", "tell", "discard", "start", "listen", "spawn", "confirm",
        "stop"}
Named == Turn \cup {None}
StepType == [do: Dos, turn: Named]

\* The order of what receive, transcript and close leave to do: steps that may follow
\* a step, at once or later.
Behind(do) ==
  CASE do = "await" -> {"undeliver", "tell", "discard", "start", "listen", "spawn", "stop"}
    [] do = "undeliver" -> {"tell", "discard", "start", "listen", "spawn", "stop"}
    [] do = "tell" -> {"discard", "start", "listen", "spawn", "stop"}
    [] do = "discard" -> {"start", "listen", "spawn", "stop"}
    [] do = "start" -> {"spawn"}
    [] OTHER -> {}
InOrder(q) == \A i, j \in DOMAIN q : i < j => q[j].do \in Behind(q[i].do)

-----------------------------------------------------------------------------
\* The inductive invariant, in parts.
Ordered ==
  /\ InOrder(todo)
  /\ \A d \in Dos, t \in Named :
       Has(d, t) => IF d \in {"await", "discard", "stop"} THEN t = None ELSE t \in Turn

\* While a turn's task runs, whoever holds the lock waits for it or confirms a playback;
\* the turn is the active one or about to be undelivered, and no other turn is active,
\* waits for playback or is recorded.
TaskOK ==
  task # None =>
    /\ \A d \in Dos, t \in Named : Has(d, t) => Has("await", None) \/ d = "confirm"
    /\ task.generation <= conn.generation
    /\ Has("await", None) => task.generation < conn.generation
    /\ conn.active \in {None, task.turn} /\ delivery \in {None, task.turn}
    /\ conn.audio = None
    /\ task.pc = "reporting" => delivery = None
    /\ \A t \in Turn : task.turn = t =>
         /\ asked[t] = 1
         /\ task.pc # "completing" => conn.active = t \/ Has("undeliver", t)
         /\ task.chunks > 0 => Got(t, "audio")

\* The active turn is not interrupted; it is complete when its audio was sent.
ActiveOK ==
  \A t \in Turn : conn.active = t =>
    /\ t \in conn.seen /\ conn.audio = None
    /\ \A d \in Dos, u \in Named : Has(d, u) => d \in {"spawn", "confirm"}
    /\ conn.completed =>
         /\ Got(t, "audio")
         /\ \A u \in Turn : ~Has("spawn", u)
         /\ task # None => task.pc = "completing"

\* A turn is recorded, about to be recorded or about to be asked, and only one of these.
StepsOK ==
  \A t \in Turn :
    /\ Has("spawn", t) =>
         /\ conn.active = t \/ Has("start", t)
         /\ Has("discard", None) \/ conn.audio = None
    /\ Has("start", t) => Has("spawn", t)
    /\ Has("confirm", t) => conn.active = t /\ conn.completed
    /\ Has("listen", t) \/ Has("spawn", t) \/ conn.audio = t =>
         asked[t] = 0 /\ t \in conn.seen
    /\ Has("tell", t) =>
         /\ t \in conn.seen /\ conn.audio # t /\ t \notin heard
         /\ ~Has("listen", t) /\ ~Has("spawn", t)
    /\ conn.audio = t => ~Has("listen", t) /\ ~Has("spawn", t)

AskedOK ==
  \A t \in Turn :
    /\ asked[t] \in {0, 1}
    /\ asked[t] = 0 =>
         delivery # t /\ t \notin heard /\ (task # None => task.turn # t)
    /\ t \notin conn.seen => asked[t] = 0

\* A turn that was cancelled or heard is over, and never both.
GoneOK ==
  \A t \in Turn :
    /\ Got(t, "cancelled") \/ t \in heard =>
         /\ t \in conn.seen /\ conn.active # t /\ conn.audio # t
         /\ ~Has("listen", t) /\ ~Has("spawn", t) /\ ~Has("tell", t)
    /\ Got(t, "cancelled") => t \notin heard /\ (task # None => task.turn # t)
    /\ t \in heard =>
         /\ Got(t, "audio")
         /\ task # None /\ task.turn = t => task.pc = "completing"

DeliveryOK ==
  \A t \in Turn : delivery = t => conn.active = t \/ Has("undeliver", t)

\* Identifiers are counted, and a forwarder at work has a turn to forward for.
Counted == IsFiniteSet(conn.seen)
ForwarderOK == forwarder.pc \notin {"idle", "stopped"} => forwarder.turn \in Turn

Types == TypeOK /\ Counted /\ ForwarderOK
Control == TaskOK /\ ActiveOK /\ StepsOK /\ AskedOK /\ GoneOK /\ DeliveryOK
SInv == Types /\ Ordered /\ Control

-----------------------------------------------------------------------------
\* What a longer sequence holds.
LEMMA ConcatHolds ==
  ASSUME NEW S, NEW p \in Seq(S), NEW q \in Seq(S)
  PROVE  \A x : x \in ToSet(p \o q) <=> x \in ToSet(p) \/ x \in ToSet(q)
<1> DEFINE r == p \o q
<1>1. /\ DOMAIN p = 1 .. Len(p) /\ DOMAIN q = 1 .. Len(q)
      /\ Len(p) \in Nat /\ Len(q) \in Nat
      /\ DOMAIN r = 1 .. Len(p) + Len(q)
      /\ \A i \in DOMAIN p : i \in DOMAIN r /\ r[i] = p[i]
      /\ \A i \in DOMAIN q : i + Len(p) \in DOMAIN r /\ r[i + Len(p)] = q[i]
      /\ \A i \in DOMAIN r : i \in DOMAIN p \/ (i - Len(p) \in DOMAIN q /\ r[i] = q[i - Len(p)])
  OBVIOUS
<1> HIDE DEF r
<1>2. ASSUME NEW x, x \in ToSet(r) PROVE x \in ToSet(p) \/ x \in ToSet(q)
  <2>1. PICK i \in DOMAIN r : r[i] = x
    BY <1>2 DEF ToSet
  <2>2. (i \in DOMAIN p /\ p[i] = x) \/ (i - Len(p) \in DOMAIN q /\ q[i - Len(p)] = x)
    BY <1>1, <2>1
  <2>3. QED
    BY <2>2 DEF ToSet
<1>3. ASSUME NEW x, x \in ToSet(p) PROVE x \in ToSet(r)
  <2>1. PICK i \in DOMAIN p : p[i] = x
    BY <1>3 DEF ToSet
  <2>2. i \in DOMAIN r /\ r[i] = x
    BY <1>1, <2>1
  <2>3. QED
    BY <2>2 DEF ToSet
<1>4. ASSUME NEW x, x \in ToSet(q) PROVE x \in ToSet(r)
  <2>1. PICK i \in DOMAIN q : q[i] = x
    BY <1>4 DEF ToSet
  <2>2. i + Len(p) \in DOMAIN r /\ r[i + Len(p)] = x
    BY <1>1, <2>1
  <2>3. QED
    BY <2>2 DEF ToSet
<1>5. QED
  BY <1>2, <1>3, <1>4 DEF r

LEMMA AppendHolds ==
  ASSUME NEW S, NEW p \in Seq(S), NEW e \in S
  PROVE  \A x : x \in ToSet(Append(p, e)) <=> x \in ToSet(p) \/ x = e
<1>1. Append(p, e) = p \o <<e>> /\ <<e>> \in Seq(S) /\ DOMAIN <<e>> = 1 .. 1
  OBVIOUS
<1>2. \A x : x \in ToSet(<<e>>) <=> x = e
  BY <1>1 DEF ToSet
<1>3. QED
  BY <1>1, <1>2, ConcatHolds

-----------------------------------------------------------------------------
\* The steps left to do.
LEMMA HasSame ==
  ASSUME todo' = todo
  PROVE  /\ \A d \in Dos, t \in Named : Has(d, t)' <=> Has(d, t)
         /\ Ordered => Ordered'
<1>1. \A d \in Dos, t \in Named : Has(d, t)' <=> Has(d, t)
  BY DEF Has
<1>2. InOrder(todo)' <=> InOrder(todo)
  BY DEF InOrder
<1>3. QED
  BY <1>1, <1>2 DEF Ordered

\* Two steps that are left come in the order of Behind.
LEMMA HasOrder ==
  ASSUME Ordered, todo \in Seq(StepType),
         NEW d \in Dos, NEW e \in Dos, NEW t \in Named, NEW u \in Named,
         Has(d, t), Has(e, u)
  PROVE  (d = e /\ t = u) \/ e \in Behind(d) \/ d \in Behind(e)
<1>1. PICK i \in DOMAIN todo : todo[i] = Step(d, t)
  BY DEF Has, ToSet
<1>2. PICK j \in DOMAIN todo : todo[j] = Step(e, u)
  BY DEF Has, ToSet
<1>3. i \in Nat /\ j \in Nat
  OBVIOUS
<1>4. CASE i = j
  BY <1>1, <1>2, <1>4 DEF Step
<1>5. CASE i < j
  BY <1>1, <1>2, <1>5 DEF Ordered, InOrder, Step
<1>6. CASE j < i
  BY <1>1, <1>2, <1>6 DEF Ordered, InOrder, Step
<1>7. QED
  BY <1>3, <1>4, <1>5, <1>6

\* Doing the first step: it is the only one of its kind, and the others come behind it.
LEMMA Popped ==
  ASSUME Ordered, todo \in Seq(StepType), NEW do \in Dos, Does(do)
  PROVE  /\ todo' \in Seq(StepType)
         /\ Head(todo).turn \in Named
         /\ \E t \in Named : /\ Head(todo) = Step(do, t)
                             /\ Has(do, t)
                             /\ \A u \in Named : Has(do, u) => u = t
         /\ \A d \in Dos, t \in Named : Has(d, t) => d = do \/ d \in Behind(do)
         /\ \A d \in Dos, t \in Named : Has(d, t)' <=> Has(d, t) /\ d # do
         /\ Ordered'
<1>1. /\ todo # <<>> /\ Head(todo).do = do /\ todo' = Tail(todo)
      /\ todo[1] = Head(todo) /\ 1 \in DOMAIN todo
      /\ Len(todo) \in Nat \ {0} /\ DOMAIN todo = 1 .. Len(todo)
  BY DEF Does
<1>2. PICK t \in Named : todo[1] = Step(do, t)
  <2>1. todo[1] \in StepType
    BY <1>1
  <2>2. todo[1] = Step(do, todo[1].turn) /\ todo[1].turn \in Named
    BY <2>1, <1>1 DEF StepType, Step
  <2>3. QED
    BY <2>2
<1>3. /\ todo' \in Seq(StepType)
      /\ DOMAIN todo' = 1 .. Len(todo) - 1
      /\ \A i \in DOMAIN todo' : i + 1 \in DOMAIN todo /\ todo'[i] = todo[i + 1]
  BY <1>1
<1>4. \A i \in DOMAIN todo : i # 1 => todo[i].do \in Behind(do)
  BY <1>1, <1>2 DEF Ordered, InOrder, Step
<1>5. do \notin Behind(do)
  BY DEF Behind, Dos
<1>6. \A d \in Dos, u \in Named : Has(d, u) => d = do \/ d \in Behind(do)
  BY <1>1, <1>2, <1>4 DEF Has, ToSet, Step
<1>7. \A u \in Named : Has(do, u) => u = t
  BY <1>1, <1>2, <1>4, <1>5 DEF Has, ToSet, Step
<1>8. Has(do, t)
  BY <1>1, <1>2 DEF Has, ToSet
<1>9. ASSUME NEW d \in Dos, NEW u \in Named
      PROVE  Has(d, u)' <=> Has(d, u) /\ d # do
  <2>1. ASSUME Has(d, u)' PROVE Has(d, u) /\ d # do
    <3>1. PICK i \in DOMAIN todo' : todo'[i] = Step(d, u)
      BY <2>1 DEF Has, ToSet
    <3>2. i + 1 \in DOMAIN todo /\ todo[i + 1] = Step(d, u) /\ i + 1 # 1
      BY <1>3, <3>1
    <3>3. QED
      BY <3>2, <1>4, <1>5 DEF Has, ToSet, Step
  <2>2. ASSUME Has(d, u), d # do PROVE Has(d, u)'
    <3>1. PICK i \in DOMAIN todo : todo[i] = Step(d, u)
      BY <2>2 DEF Has, ToSet
    <3>2. i # 1
      BY <3>1, <2>2, <1>2 DEF Step
    <3>3. i - 1 \in DOMAIN todo' /\ (i - 1) + 1 = i
      BY <3>1, <3>2, <1>1, <1>3
    <3>4. todo'[i - 1] = Step(d, u)
      BY <3>3, <3>1, <1>3
    <3>5. QED
      BY <3>3, <3>4 DEF Has, ToSet
  <2>3. QED
    BY <2>1, <2>2
<1>10. InOrder(todo)'
  <2>1. ASSUME NEW i \in DOMAIN todo', NEW j \in DOMAIN todo', i < j
        PROVE  todo'[j].do \in Behind(todo'[i].do)
    <3>1. i + 1 \in DOMAIN todo /\ j + 1 \in DOMAIN todo /\ i + 1 < j + 1
      BY <2>1, <1>3
    <3>2. QED
      BY <3>1, <1>3 DEF Ordered, InOrder
  <2>2. QED
    BY <2>1 DEF InOrder
<1>11. Ordered'
  BY <1>9, <1>10 DEF Ordered
<1>12. QED
  BY <1>1, <1>2, <1>3, <1>6, <1>7, <1>8, <1>9, <1>11 DEF Step

\* What an interruption leaves to do, before rest.
LEMMA InterruptLeaves ==
  ASSUME conn.active \in Named, NEW rest \in Seq(StepType), InOrder(rest),
         \A i \in DOMAIN rest : rest[i].do \in {"discard", "start", "listen", "spawn", "stop"},
         todo' = InterruptSteps \o rest
  PROVE  /\ todo' \in Seq(StepType)
         /\ InOrder(todo)'
         /\ \A d \in Dos, t \in Named : Has(d, t)' <=>
              \/ d = "await" /\ t = None
              \/ d \in {"undeliver", "tell"} /\ t = conn.active /\ t # None
              \/ Step(d, t) \in ToSet(rest)
<1>1. PICK lead \in Seq(StepType) :
        /\ lead = InterruptSteps
        /\ InOrder(lead)
        /\ \A i \in DOMAIN lead : lead[i].do \in {"await", "undeliver", "tell"}
        /\ \A d \in Dos, t \in Named : Step(d, t) \in ToSet(lead) <=>
             \/ d = "await" /\ t = None
             \/ d \in {"undeliver", "tell"} /\ t = conn.active /\ t # None
  <2>1. CASE conn.active = None
    <3>1. InterruptSteps = <<Step("await", None)>>
      BY <2>1 DEF InterruptSteps
    <3>2. Step("await", None) \in StepType
      BY DEF Step, StepType, Dos, Named
    <3> DEFINE steps == <<Step("await", None)>>
    <3>3. steps \in Seq(StepType) /\ DOMAIN steps = 1 .. 1 /\ steps[1] = Step("await", None)
      BY <3>2
    <3>4. InOrder(steps)
      BY <3>3 DEF InOrder
    <3>5. \A x : x \in ToSet(steps) <=> x = Step("await", None)
      BY <3>3 DEF ToSet
    <3>6. \A i \in DOMAIN steps : steps[i].do = "await"
      BY <3>3 DEF Step
    <3> HIDE DEF steps
    <3>7. \A d \in Dos, t \in Named : Step(d, t) \in ToSet(steps) <=> d = "await" /\ t = None
      BY <3>5 DEF Step
    <3>8. QED
      BY <2>1, <3>1, <3>3, <3>4, <3>6, <3>7 DEF steps
  <2>2. CASE conn.active # None
    <3> DEFINE a == conn.active
               steps == <<Step("await", None), Step("undeliver", a), Step("tell", a)>>
    <3>1. InterruptSteps = steps
      BY <2>2 DEF InterruptSteps
    <3>2. /\ Step("await", None) \in StepType
          /\ Step("undeliver", a) \in StepType
          /\ Step("tell", a) \in StepType
      BY DEF Step, StepType, Dos, Named
    <3>3. steps \in Seq(StepType) /\ DOMAIN steps = 1 .. 3
      BY <3>2
    <3>4. \A i \in DOMAIN steps : steps[i].do \in {"await", "undeliver", "tell"}
      BY <3>3 DEF Step
    <3>5. InOrder(steps)
      BY <3>3 DEF InOrder, Behind, Step
    <3>6. \A x : x \in ToSet(steps) <=>
            x \in {Step("await", None), Step("undeliver", a), Step("tell", a)}
      BY <3>3 DEF ToSet
    <3>7. \A d \in Dos, t \in Named : Step(d, t) \in ToSet(steps) <=>
             \/ d = "await" /\ t = None
             \/ d \in {"undeliver", "tell"} /\ t = a /\ t # None
      <4> HIDE DEF steps
      <4>1. QED
        BY <3>6, <2>2 DEF Step
    <3>8. QED
      BY <3>1, <3>3, <3>4, <3>5, <3>7
  <2>3. QED
    BY <2>1, <2>2
<1>2. /\ todo' = lead \o rest
      /\ todo' \in Seq(StepType)
      /\ Len(lead) \in Nat /\ Len(rest) \in Nat
      /\ DOMAIN lead = 1 .. Len(lead) /\ DOMAIN rest = 1 .. Len(rest)
      /\ DOMAIN todo' = 1 .. Len(lead) + Len(rest)
      /\ \A i \in DOMAIN lead : todo'[i] = lead[i]
      /\ \A i \in DOMAIN todo' : i > Len(lead) =>
           i - Len(lead) \in DOMAIN rest /\ todo'[i] = rest[i - Len(lead)]
  BY <1>1
<1>3. \A i \in DOMAIN rest :
        i + Len(lead) \in DOMAIN todo' /\ todo'[i + Len(lead)] = rest[i]
  BY <1>1, <1>2
<1>4. ASSUME NEW i \in DOMAIN todo', NEW j \in DOMAIN todo', i < j
      PROVE  todo'[j].do \in Behind(todo'[i].do)
  <2>1. CASE j <= Len(lead)
    <3>1. i \in DOMAIN lead /\ j \in DOMAIN lead
      BY <2>1, <1>2, <1>4
    <3>2. QED
      BY <3>1, <1>1, <1>2, <1>4 DEF InOrder
  <2>2. CASE i > Len(lead)
    <3>1. /\ i - Len(lead) \in DOMAIN rest /\ j - Len(lead) \in DOMAIN rest
          /\ i - Len(lead) < j - Len(lead)
      BY <2>2, <1>2, <1>4
    <3>2. QED
      BY <3>1, <2>2, <1>2, <1>4 DEF InOrder
  <2>3. CASE i <= Len(lead) /\ j > Len(lead)
    <3>1. i \in DOMAIN lead /\ j - Len(lead) \in DOMAIN rest
      BY <2>3, <1>2, <1>4
    <3>2. todo'[i].do \in {"await", "undeliver", "tell"}
      BY <3>1, <1>1, <1>2
    <3>3. todo'[j].do \in {"discard", "start", "listen", "spawn", "stop"}
      BY <3>1, <2>3, <1>2
    <3>4. QED
      BY <3>2, <3>3 DEF Behind
  <2>4. QED
    BY <2>1, <2>2, <2>3, <1>2
<1>5. ASSUME NEW x
      PROVE  x \in ToSet(todo)' <=> x \in ToSet(lead) \/ x \in ToSet(rest)
  BY <1>1, <1>2, ConcatHolds
<1>6. QED
  BY <1>1, <1>2, <1>4, <1>5 DEF Has, InOrder

-----------------------------------------------------------------------------
\* The events that the browser is sent.
LEMMA GotSame ==
  ASSUME sent' = sent
  PROVE  \A t \in Turn, e \in Event : Got(t, e)' <=> Got(t, e)
  BY DEF Got

\* One turn gets more events, and only if the connection is open.
Emits(t, events) ==
  /\ sent' \in [Turn -> Seq(Event)]
  /\ \A u \in Turn \ {t} : sent'[u] = sent[u]
  /\ conn.closed => sent' = sent
  /\ ~conn.closed => sent'[t] = sent[t] \o events
  /\ \A u \in Turn, e \in Event :
       Got(u, e)' <=> Got(u, e) \/ (u = t /\ e \in ToSet(events) /\ ~conn.closed)

LEMMA Emitted ==
  ASSUME sent \in [Turn -> Seq(Event)], NEW t \in Turn, NEW events \in Seq(Event),
         sent' = Emit(t, events)
  PROVE  Emits(t, events)
<1>1. CASE conn.closed
  BY <1>1 DEF Emit, Emits, Got
<1>2. CASE ~conn.closed
  <2>1. sent' = [sent EXCEPT ![t] = sent[t] \o events]
    BY <1>2 DEF Emit
  <2>2. sent' \in [Turn -> Seq(Event)] /\ sent'[t] = sent[t] \o events
    BY <2>1
  <2>3. \A u \in Turn \ {t} : sent'[u] = sent[u]
    BY <2>1
  <2>4. ASSUME NEW e
        PROVE  e \in ToSet(sent'[t]) <=> e \in ToSet(sent[t]) \/ e \in ToSet(events)
    BY <2>2, ConcatHolds
  <2>5. QED
    BY <1>2, <2>2, <2>3, <2>4 DEF Emits, Got
<1>3. QED
  BY <1>1, <1>2

\* The turn's task adds one event of its turn, if it is the current one.
TaskEmits(event) ==
  /\ sent' \in [Turn -> Seq(Event)]
  /\ \A u \in Turn : u # task.turn \/ ~Current => sent'[u] = sent[u]
  /\ \A u \in Turn, e \in Event :
       Got(u, e)' <=> Got(u, e) \/ (u = task.turn /\ e = event /\ Current)

LEMMA TaskEmitted ==
  ASSUME sent \in [Turn -> Seq(Event)], task.turn \in Turn, NEW event \in Event,
         sent' = EmitOfTask(event)
  PROVE  TaskEmits(event)
<1>1. CASE ~Current
  BY <1>1 DEF EmitOfTask, TaskEmits, Got
<1>2. CASE Current
  <2> DEFINE t == task.turn
  <2>1. sent' = [sent EXCEPT ![t] = Append(sent[t], event)]
    BY <1>2 DEF EmitOfTask
  <2>2. sent' \in [Turn -> Seq(Event)] /\ sent'[t] = Append(sent[t], event)
    BY <2>1
  <2>3. \A u \in Turn \ {t} : sent'[u] = sent[u]
    BY <2>1
  <2>4. \A e : e \in ToSet(sent'[t]) <=> e \in ToSet(sent[t]) \/ e = event
    BY <2>2, AppendHolds
  <2>5. QED
    BY <1>2, <2>2, <2>3, <2>4 DEF TaskEmits, Got
<1>3. QED
  BY <1>1, <1>2

-----------------------------------------------------------------------------
\* The four things an interruption is followed by.
Discarding == <<Step("discard", None)>>
Asking(t) == <<Step("discard", None), Step("start", t), Step("spawn", t)>>
Recording(t) == <<Step("discard", None), Step("listen", t)>>
Closing == <<Step("discard", None), Step("stop", None)>>

LEMMA Follows ==
  ASSUME NEW t \in Named, NEW rest \in {Discarding, Asking(t), Recording(t), Closing}
  PROVE  /\ rest \in Seq(StepType)
         /\ InOrder(rest)
         /\ \A i \in DOMAIN rest : rest[i].do \in {"discard", "start", "listen", "spawn", "stop"}
<1>1. /\ Step("discard", None) \in StepType /\ Step("start", t) \in StepType
      /\ Step("spawn", t) \in StepType /\ Step("listen", t) \in StepType
      /\ Step("stop", None) \in StepType
  BY DEF Step, StepType, Dos, Named
<1>2. CASE rest = Discarding
  BY <1>1, <1>2 DEF Discarding, InOrder, Step
<1>3. CASE rest = Asking(t)
  <2>1. rest \in Seq(StepType) /\ DOMAIN rest = 1 .. 3
    BY <1>1, <1>3 DEF Asking
  <2>2. rest[1].do = "discard" /\ rest[2].do = "start" /\ rest[3].do = "spawn"
    BY <1>3 DEF Asking, Step
  <2>3. QED
    BY <2>1, <2>2 DEF InOrder, Behind
<1>4. CASE rest = Recording(t)
  <2>1. rest \in Seq(StepType) /\ DOMAIN rest = 1 .. 2
    BY <1>1, <1>4 DEF Recording
  <2>2. rest[1].do = "discard" /\ rest[2].do = "listen"
    BY <1>4 DEF Recording, Step
  <2>3. QED
    BY <2>1, <2>2 DEF InOrder, Behind
<1>5. CASE rest = Closing
  <2>1. rest \in Seq(StepType) /\ DOMAIN rest = 1 .. 2
    BY <1>1, <1>5 DEF Closing
  <2>2. rest[1].do = "discard" /\ rest[2].do = "stop"
    BY <1>5 DEF Closing, Step
  <2>3. QED
    BY <2>1, <2>2 DEF InOrder, Behind
<1>6. QED
  BY <1>2, <1>3, <1>4, <1>5

LEMMA FollowsHold ==
  ASSUME NEW t \in Named
  PROVE  /\ \A x : x \in ToSet(Discarding) <=> x = Step("discard", None)
         /\ \A x : x \in ToSet(Asking(t)) <=>
              x \in {Step("discard", None), Step("start", t), Step("spawn", t)}
         /\ \A x : x \in ToSet(Recording(t)) <=>
              x \in {Step("discard", None), Step("listen", t)}
         /\ \A x : x \in ToSet(Closing) <=>
              x \in {Step("discard", None), Step("stop", None)}
<1>1. DOMAIN Discarding = 1 .. 1 /\ DOMAIN Recording(t) = 1 .. 2 /\ DOMAIN Closing = 1 .. 2
      /\ DOMAIN Asking(t) = 1 .. 3
  BY DEF Discarding, Asking, Recording, Closing
<1>2. \A x : x \in ToSet(Discarding) <=> x = Step("discard", None)
  BY <1>1 DEF Discarding, ToSet
<1>3. \A x : x \in ToSet(Asking(t)) <=>
              x \in {Step("discard", None), Step("start", t), Step("spawn", t)}
  BY <1>1 DEF Asking, ToSet
<1>4. \A x : x \in ToSet(Recording(t)) <=> x \in {Step("discard", None), Step("listen", t)}
  BY <1>1 DEF Recording, ToSet
<1>5. \A x : x \in ToSet(Closing) <=> x \in {Step("discard", None), Step("stop", None)}
  BY <1>1 DEF Closing, ToSet
<1>6. QED
  BY <1>2, <1>3, <1>4, <1>5

\* An interruption of the connection c: the active turn is no longer active, its task
\* is cancelled, and todo is what InterruptLeaves says.
LEMMA Interrupts ==
  ASSUME TypeOK, NEW t \in Named,
         NEW rest \in {Discarding, Asking(t), Recording(t), Closing},
         NEW c \in Connection, c.active = conn.active, Interrupt(c, rest)
  PROVE  /\ conn' \in Connection
         /\ conn'.active = None /\ conn'.generation = c.generation + 1
         /\ conn'.audio = c.audio /\ conn'.seen = c.seen /\ conn'.completed = c.completed
         /\ conn'.closed = c.closed /\ conn'.committed = c.committed /\ conn'.bytes = c.bytes
         /\ task' \in TurnTask \cup {None}
         /\ task = None => task' = None
         /\ task # None => /\ task'.turn = task.turn /\ task'.generation = task.generation
                           /\ task'.pc = task.pc /\ task'.chunks = task.chunks
         /\ todo' \in Seq(StepType)
         /\ InOrder(todo)'
         /\ \A d \in Dos, u \in Named : Has(d, u)' <=>
              \/ d = "await" /\ u = None
              \/ d \in {"undeliver", "tell"} /\ u = conn.active /\ u # None
              \/ Step(d, u) \in ToSet(rest)
<1>1. /\ conn' = [c EXCEPT !.active = None, !.generation = @ + 1]
      /\ task' = IF task = None THEN None ELSE [task EXCEPT !.cancelled = TRUE]
      /\ todo' = InterruptSteps \o rest
  BY DEF Interrupt
<1>2. /\ conn' \in Connection
      /\ conn'.active = None /\ conn'.generation = c.generation + 1
      /\ conn'.audio = c.audio /\ conn'.seen = c.seen /\ conn'.completed = c.completed
      /\ conn'.closed = c.closed /\ conn'.committed = c.committed /\ conn'.bytes = c.bytes
  <2> DEFINE k == conn'
  <2>1. k \in Connection
    <3>1. c.generation + 1 \in Nat /\ None \in Turn \cup {None}
      BY DEF Connection
    <3>2. k = [c EXCEPT !.active = None, !.generation = c.generation + 1]
      BY <1>1
    <3>3. QED
      BY <3>1, <3>2 DEF Connection
  <2>2. k.active = None /\ k.generation = c.generation + 1
    BY <1>1 DEF Connection
  <2>3. k.audio = c.audio /\ k.seen = c.seen /\ k.completed = c.completed
    BY <1>1 DEF Connection
  <2>4. k.closed = c.closed /\ k.committed = c.committed /\ k.bytes = c.bytes
    BY <1>1 DEF Connection
  <2>5. QED
    BY <2>1, <2>2, <2>3, <2>4
<1>3. /\ task' \in TurnTask \cup {None}
      /\ task = None => task' = None
      /\ task # None => /\ task'.turn = task.turn /\ task'.generation = task.generation
                        /\ task'.pc = task.pc /\ task'.chunks = task.chunks
  BY <1>1 DEF TypeOK, TurnTask
<1>4. conn.active \in Named
  BY DEF TypeOK, Connection, Named
<1>5. QED
  BY <1>1, <1>2, <1>3, <1>4, Follows, InterruptLeaves

\* _discard_audio of the connection c: the utterance is abandoned.
LEMMA Discards ==
  ASSUME queue \in Seq([type: {"append", "commit", "clear"}, turn: Turn]),
         Len(queue) <= QueueSize, NEW c \in Connection, Discard(c)
  PROVE  /\ conn' \in Connection
         /\ conn'.audio = None /\ conn'.active = c.active /\ conn'.seen = c.seen
         /\ conn'.generation = c.generation /\ conn'.completed = c.completed
         /\ conn'.closed = c.closed
         /\ queue' \in Seq([type: {"append", "commit", "clear"}, turn: Turn])
         /\ Len(queue') <= QueueSize
<1>1. conn' = [c EXCEPT !.audio = None, !.committed = FALSE, !.bytes = 0]
  BY DEF Discard
<1>2. /\ conn' \in Connection
      /\ conn'.audio = None /\ conn'.active = c.active /\ conn'.seen = c.seen
      /\ conn'.generation = c.generation /\ conn'.completed = c.completed
      /\ conn'.closed = c.closed
  <2>1. 0 \in 0 .. MaxAudio
    BY StreamingAssumption
  <2>2. conn' \in Connection
    BY <1>1, <2>1 DEF Connection
  <2>3. conn'.audio = None /\ conn'.active = c.active /\ conn'.seen = c.seen
    BY <1>1 DEF Connection
  <2>4. conn'.generation = c.generation /\ conn'.completed = c.completed /\ conn'.closed = c.closed
    BY <1>1 DEF Connection
  <2>5. QED
    BY <2>2, <2>3, <2>4
<1>3. c.audio \in Turn \cup {None}
  BY DEF Connection
<1>4. CASE c.audio # None /\ Len(queue) < QueueSize
  <2>1. queue' = Append(queue, [type |-> "clear", turn |-> c.audio])
    BY <1>4 DEF Discard
  <2>2. [type |-> "clear", turn |-> c.audio] \in [type: {"append", "commit", "clear"}, turn: Turn]
    BY <1>3, <1>4
  <2>3. queue' \in Seq([type: {"append", "commit", "clear"}, turn: Turn])
        /\ Len(queue') = Len(queue) + 1
    BY <2>1, <2>2
  <2>4. QED
    BY <1>2, <1>4, <2>3, StreamingAssumption
<1>5. CASE ~(c.audio # None /\ Len(queue) < QueueSize)
  <2>1. queue' = queue
    BY <1>5 DEF Discard
  <2>2. QED
    BY <1>2, <2>1
<1>6. QED
  BY <1>4, <1>5

-----------------------------------------------------------------------------
\* Interruptions: a message that barges in, or the socket's end.
LEMMA InterruptKeeps ==
  ASSUME SInv, NEW t \in Named,
         NEW rest \in {Discarding, Asking(t), Recording(t), Closing},
         NEW c \in Connection, Interrupt(c, rest),
         c.active = conn.active, c.audio = conn.audio, c.generation = conn.generation,
         conn.seen \subseteq c.seen, IsFiniteSet(c.seen), Cardinality(c.seen) <= MaxTurns,
         rest \in {Asking(t), Recording(t)} =>
           t \in Turn /\ t \in c.seen /\ t \notin conn.seen,
         \A d \in Dos, u \in Named : Has(d, u) => d \notin {"await", "undeliver", "confirm"},
         received' \in 0 .. MaxMessages,
         UNCHANGED <<audioVars, delivery, heard, sent, asked>>
  PROVE  SInv'
<1> USE DEF Dos, Named
<1>1. /\ conn' \in Connection
      /\ conn'.active = None /\ conn'.generation = conn.generation + 1
      /\ conn'.audio = conn.audio /\ conn'.seen = c.seen
      /\ task' \in TurnTask \cup {None}
      /\ task' # None => task # None
      /\ task # None => /\ task'.turn = task.turn /\ task'.generation = task.generation
                        /\ task'.pc = task.pc /\ task'.chunks = task.chunks
      /\ todo' \in Seq(StepType) /\ InOrder(todo)'
  BY Interrupts DEF SInv, Types
<1>2. \A d \in Dos, u \in Named : Has(d, u)' <=>
              \/ d = "await" /\ u = None
              \/ d \in {"undeliver", "tell"} /\ u = conn.active /\ u # None
              \/ Step(d, u) \in ToSet(rest)
  BY Interrupts DEF SInv, Types
<1>3. \A d \in Dos, u \in Named : Step(d, u) \in ToSet(rest) =>
              \/ d = "discard" /\ u = None
              \/ d = "stop" /\ u = None
              \/ d \in {"start", "spawn"} /\ u = t /\ rest = Asking(t)
              \/ d = "listen" /\ u = t /\ rest = Recording(t)
  BY FollowsHold DEF Step
<1>4. Step("discard", None) \in ToSet(rest)
  BY FollowsHold
<1>5. rest = Asking(t) => Step("start", t) \in ToSet(rest) /\ Step("spawn", t) \in ToSet(rest)
  BY FollowsHold
<1>6. \A u \in Turn, e \in Event : Got(u, e)' <=> Got(u, e)
  BY GotSame
<1>7. /\ sent' = sent /\ delivery' = delivery /\ heard' = heard /\ asked' = asked
      /\ queue' = queue /\ forwarder' = forwarder /\ provider' = provider
  BY DEF audioVars
<1>8. None \notin Turn /\ conn.generation \in Nat /\ conn.active \in Named
  BY StreamingAssumption DEF SInv, Types, TypeOK, Connection
<1>9. \A u \in Named : ~Has("await", u) /\ ~Has("undeliver", u) /\ ~Has("confirm", u)
  OBVIOUS
<1>10. task # None => /\ task \in TurnTask
                      /\ \A d \in Dos, u \in Named : ~Has(d, u)
  BY <1>9 DEF SInv, Types, TypeOK, Control, TaskOK
<1>11. Types'
  BY <1>1, <1>7 DEF SInv, Types, TypeOK, Counted, ForwarderOK, StepType
<1>12. Ordered'
  BY <1>1, <1>2, <1>3, <1>8 DEF Ordered
<1>13. TaskOK'
  <2> SUFFICES ASSUME task' # None PROVE TaskOK!2'
    BY DEF TaskOK
  <2>1. QED
    BY <1>1, <1>2, <1>6, <1>7, <1>8, <1>9, <1>10 DEF SInv, Control, TaskOK, TurnTask, Event
<1>14. ActiveOK'
  BY <1>1, <1>8 DEF ActiveOK
<1>15. StepsOK'
  BY <1>1, <1>2, <1>3, <1>4, <1>5, <1>7, <1>8
     DEF SInv, Control, StepsOK, ActiveOK, GoneOK, AskedOK
<1>16. AskedOK'
  BY <1>1, <1>7 DEF SInv, Control, AskedOK
<1>17. GoneOK'
  BY <1>1, <1>2, <1>3, <1>6, <1>7, <1>8 DEF SInv, Control, GoneOK, Event
<1>18. DeliveryOK'
  BY <1>1, <1>2, <1>7, <1>8, <1>9 DEF SInv, Control, DeliveryOK
<1>19. QED
  BY <1>11, <1>12, <1>13, <1>14, <1>15, <1>16, <1>17, <1>18 DEF SInv, Control

\* Nothing is left to do when a message is received.
LEMMA NothingLeft ==
  ASSUME todo = <<>>
  PROVE  \A d \in Dos, u \in Named : ~Has(d, u)
  BY DEF Has, ToSet

LEMMA ReceiveInterruptKeeps ==
  ASSUME SInv, NEW requested \in Named, ReceiveInterrupt(requested)
  PROVE  SInv'
<1>1. /\ todo = <<>> /\ received' \in 0 .. MaxMessages
      /\ conn \in Connection /\ Counted /\ Cardinality(conn.seen) <= MaxTurns
  BY StreamingAssumption DEF ReceiveInterrupt, Receives, SInv, Types, TypeOK
<1>2. Interrupt(conn, Discarding)
  BY DEF ReceiveInterrupt, Discarding
<1>3. UNCHANGED <<audioVars, delivery, heard, sent, asked>>
  BY DEF ReceiveInterrupt
<1>4. Discarding \notin {Asking(requested), Recording(requested)}
  <2>1. Len(Discarding) = 1 /\ Len(Asking(requested)) = 3 /\ Len(Recording(requested)) = 2
    BY DEF Discarding, Asking, Recording
  <2>2. QED
    BY <2>1
<1>5. QED
  BY <1>1, <1>2, <1>3, <1>4, NothingLeft, InterruptKeeps DEF Counted

\* A turn that is claimed is a new one, and there is room for it.
LEMMA Claims ==
  ASSUME SInv, NEW t \in Turn, Unclaimed(t)
  PROVE  /\ Claimed(conn, t) \in Connection
         /\ Claimed(conn, t).active = conn.active /\ Claimed(conn, t).audio = conn.audio
         /\ Claimed(conn, t).generation = conn.generation
         /\ Claimed(conn, t).seen = conn.seen \cup {t} /\ t \notin conn.seen
         /\ Claimed(conn, t).committed = conn.committed
         /\ Claimed(conn, t).bytes = conn.bytes
         /\ IsFiniteSet(conn.seen \cup {t}) /\ Cardinality(conn.seen \cup {t}) <= MaxTurns
<1> DEFINE c == Claimed(conn, t)
<1>1. conn \in Connection /\ IsFiniteSet(conn.seen)
  BY DEF SInv, Types, TypeOK, Counted
<1>2. t \notin conn.seen /\ Cardinality(conn.seen) < MaxTurns
  BY DEF Unclaimed
<1>3. /\ IsFiniteSet(conn.seen \cup {t})
      /\ Cardinality(conn.seen \cup {t}) = Cardinality(conn.seen) + 1
  BY <1>1, <1>2, FS_AddElement
<1>4. Cardinality(conn.seen) \in Nat
  BY <1>1, FS_CardinalityType
<1>5. conn.seen \cup {t} \in SUBSET Turn
  BY <1>1 DEF Connection
<1>6. c \in Connection
  BY <1>1, <1>5 DEF Claimed, Connection
<1>7. /\ c.active = conn.active /\ c.audio = conn.audio /\ c.generation = conn.generation
      /\ c.seen = conn.seen \cup {t}
      /\ c.committed = conn.committed /\ c.bytes = conn.bytes
  BY <1>1 DEF Claimed, Connection
<1>8. QED
  BY <1>2, <1>3, <1>4, <1>6, <1>7, StreamingAssumption

LEMMA ReceiveTextKeeps ==
  ASSUME SInv, NEW t \in Turn, ReceiveText(t)
  PROVE  SInv'
<1>1. todo = <<>> /\ received' \in 0 .. MaxMessages
  BY StreamingAssumption DEF ReceiveText, Receives, SInv, Types, TypeOK
<1>2. Interrupt(Claimed(conn, t), Asking(t)) /\ Unclaimed(t)
  BY DEF ReceiveText, Asking
<1>3. UNCHANGED <<audioVars, delivery, heard, sent, asked>>
  BY DEF ReceiveText
<1>4. QED
  BY <1>1, <1>2, <1>3, Claims, NothingLeft, InterruptKeeps DEF Named

LEMMA ReceiveFirstAudioKeeps ==
  ASSUME SInv, NEW t \in Turn, ReceiveFirstAudio(t)
  PROVE  SInv'
<1>1. todo = <<>> /\ received' \in 0 .. MaxMessages
  BY StreamingAssumption DEF ReceiveFirstAudio, Receives, SInv, Types, TypeOK
<1>2. Interrupt(Claimed(conn, t), Recording(t)) /\ Unclaimed(t)
  BY DEF ReceiveFirstAudio, Recording
<1>3. UNCHANGED <<audioVars, delivery, heard, sent, asked>>
  BY DEF ReceiveFirstAudio
<1>4. QED
  BY <1>1, <1>2, <1>3, Claims, NothingLeft, InterruptKeeps DEF Named

\* Under a send, the steps that wait are done.
LEMMA NoneWaits ==
  ASSUME SInv, todo # <<>> => Head(todo).do \notin {"await", "undeliver", "confirm"}
  PROVE  \A d \in Dos, u \in Named : Has(d, u) => d \notin {"await", "undeliver", "confirm"}
<1>1. CASE todo = <<>>
  BY <1>1, NothingLeft
<1>2. CASE todo # <<>>
  <2>1. todo \in Seq(StepType)
    BY DEF SInv, Types, TypeOK, StepType, Dos, Named
  <2>2. Head(todo) \in StepType /\ Head(todo) \in ToSet(todo)
    BY <2>1, <1>2 DEF ToSet
  <2>3. PICK d \in Dos, t \in Named : Head(todo) = Step(d, t) /\ Has(d, t)
    BY <2>2 DEF StepType, Step, Has
  <2>4. d \in Dos \ {"await", "undeliver", "confirm"}
    BY <2>3, <1>2 DEF Step
  <2>5. ASSUME NEW e \in {"await", "undeliver", "confirm"}, NEW u \in Named, Has(e, u)
        PROVE  FALSE
    <3>1. PICK i \in DOMAIN todo : todo[i] = Step(e, u)
      BY <2>5 DEF Has, ToSet
    <3>2. todo[1] = Step(d, t) /\ 1 \in DOMAIN todo /\ i \in Nat /\ i >= 1
      BY <2>1, <2>3, <1>2
    <3>3. i # 1
      BY <3>1, <3>2, <2>4, <2>5 DEF Step
    <3>4. e \in Behind(d)
      BY <3>1, <3>2, <3>3 DEF SInv, Ordered, InOrder, Step
    <3>5. QED
      BY <3>4, <2>4, <2>5 DEF Behind, Dos
  <2>6. QED
    BY <2>5
<1>3. QED
  BY <1>1, <1>2

LEMMA DisconnectKeeps ==
  ASSUME SInv, Disconnect
  PROVE  SInv'
<1> DEFINE c == [conn EXCEPT !.closed = TRUE]
<1>1. conn \in Connection /\ Counted /\ Cardinality(conn.seen) <= MaxTurns
  BY DEF SInv, Types, TypeOK
<1>2. c \in Connection
  BY <1>1 DEF Connection
<1>3. /\ c.active = conn.active /\ c.audio = conn.audio /\ c.generation = conn.generation
      /\ c.seen = conn.seen
  BY <1>1 DEF Connection
<1>4. Interrupt(c, Closing)
  BY DEF Disconnect, Closing
<1> HIDE DEF c
<1>5. UNCHANGED <<audioVars, delivery, heard, sent, asked, received>>
  BY DEF Disconnect
<1>6. \A d \in Dos, u \in Named : Has(d, u) => d \notin {"await", "undeliver", "confirm"}
  BY NoneWaits DEF Disconnect
<1>7. Closing \notin {Asking(None), Recording(None)}
  <2>1. Len(Closing) = 2 /\ Len(Asking(None)) = 3 /\ Len(Recording(None)) = 2
        /\ Closing[2] = Step("stop", None) /\ Recording(None)[2] = Step("listen", None)
    BY DEF Closing, Asking, Recording
  <2>2. QED
    BY <2>1 DEF Step
<1>8. received' \in 0 .. MaxMessages
  BY <1>5 DEF SInv, Types, TypeOK
<1>9. QED
  BY <1>1, <1>2, <1>3, <1>4, <1>5, <1>6, <1>7, <1>8, InterruptKeeps DEF Counted, Named

-----------------------------------------------------------------------------
\* Steps that change nothing the control part is about.
SameControl ==
  /\ conn'.active = conn.active /\ conn'.audio = conn.audio /\ conn'.seen = conn.seen
  /\ conn'.generation = conn.generation /\ conn'.completed = conn.completed
  /\ UNCHANGED <<todo, task, delivery, heard, asked>>
  /\ \A u \in Turn, e \in {"audio", "cancelled"} : Got(u, e)' <=> Got(u, e)

LEMMA SameControlKeeps ==
  ASSUME SInv, SameControl, Types'
  PROVE  SInv'
<1>1. /\ \A d \in Dos, u \in Named : Has(d, u)' <=> Has(d, u)
      /\ Ordered'
  BY HasSame DEF SInv, SameControl
<1>2. None \in Named /\ Turn \subseteq Named
  BY DEF Named
<1>3. TaskOK'
  <2>1. TaskOK /\ (task # None => task.turn \in Turn)
    BY DEF SInv, Control, Types, TypeOK, TurnTask
  <2>2. QED
    BY <1>1, <1>2, <2>1 DEF SameControl, TaskOK, Dos
<1>4. ActiveOK'
  BY <1>1, <1>2 DEF SInv, Control, SameControl, ActiveOK, Dos
<1>5. StepsOK'
  BY <1>1, <1>2 DEF SInv, Control, SameControl, StepsOK, Dos
<1>6. AskedOK'
  BY DEF SInv, Control, SameControl, AskedOK
<1>7. GoneOK'
  BY <1>1, <1>2 DEF SInv, Control, SameControl, GoneOK, Dos
<1>8. DeliveryOK'
  BY <1>1, <1>2 DEF SInv, Control, SameControl, DeliveryOK, Dos
<1>9. QED
  BY <1>1, <1>3, <1>4, <1>5, <1>6, <1>7, <1>8 DEF SInv, Control

\* The utterance of the turn t is abandoned, and the browser is told: by a message, a
\* failure, or the step after an interruption. kept are the steps that stay.
LEMMA AbandonKeeps ==
  ASSUME SInv, Types', Ordered', NEW t \in Turn, NEW gone \in {{}, {"listen"}, {"discard"}},
         \A d \in Dos, u \in Named : Has(d, u)' <=> Has(d, u) /\ d \notin gone,
         gone = {"listen"} => Has("listen", t) /\ \A d \in Dos, u \in Named : Has(d, u) => d = "listen",
         gone # {"listen"} => conn.audio = t,
         conn'.active = conn.active, conn'.audio = None, conn'.seen = conn.seen,
         conn'.generation = conn.generation, conn'.completed = conn.completed,
         UNCHANGED <<task, delivery, heard, asked>>,
         NEW events \in Seq(Event), Emits(t, events), "audio" \notin ToSet(events)
  PROVE  SInv'
<1> USE DEF Dos
<1>1. None \in Named /\ Turn \subseteq Named /\ None \notin Turn
  BY StreamingAssumption DEF Named
<1>2. asked[t] = 0 /\ t \in conn.seen
  BY DEF SInv, Control, StepsOK
<1>3. t \notin heard /\ delivery # t /\ (task # None => task.turn # t)
  BY <1>2 DEF SInv, Control, AskedOK
<1>4. task = None
  BY <1>1 DEF SInv, Control, TaskOK
<1>5. conn.active = None
  BY <1>1 DEF SInv, Control, ActiveOK, Types, TypeOK, Connection
<1>6. ~Has("spawn", t)' /\ ~Has("listen", t)' /\ ~Has("tell", t)'
  BY <1>1 DEF SInv, Control, StepsOK
<1>7. /\ \A u \in Turn, e \in Event : Got(u, e) => Got(u, e)'
      /\ \A u \in Turn \ {t} : Got(u, "cancelled")' => Got(u, "cancelled")
  BY DEF Emits, Event
<1>8. TaskOK' /\ ActiveOK'
  BY <1>1, <1>4, <1>5 DEF TaskOK, ActiveOK
<1>9. StepsOK'
  BY <1>1 DEF SInv, Control, StepsOK
<1>10. AskedOK'
  BY DEF SInv, Control, AskedOK
<1>11. GoneOK'
  BY <1>1, <1>2, <1>3, <1>4, <1>5, <1>6, <1>7 DEF SInv, Control, GoneOK, Event
<1>12. DeliveryOK'
  BY <1>1, <1>5 DEF SInv, Control, DeliveryOK
<1>13. QED
  BY <1>8, <1>9, <1>10, <1>11, <1>12 DEF SInv, Control

\* Too much audio, or no room for it: the message is refused.
LEMMA RefusedEvents ==
  /\ <<"cancelled", "refused">> \in Seq(Event)
  /\ <<"error", "cancelled">> \in Seq(Event)
  /\ <<"cancelled">> \in Seq(Event)
  /\ "audio" \notin ToSet(<<"cancelled", "refused">>)
  /\ "audio" \notin ToSet(<<"error", "cancelled">>)
  /\ "audio" \notin ToSet(<<"cancelled">>)
  BY DEF Event, ToSet

LEMMA AbandonNow ==
  ASSUME SInv, NEW t \in Turn, conn.audio = t, Discard(conn),
         NEW events \in Seq(Event), sent' = Emit(t, events), "audio" \notin ToSet(events),
         forwarder' \in Forwarder, ForwarderOK', provider' = provider,
         received' \in 0 .. MaxMessages,
         UNCHANGED <<todo, task, delivery, heard, asked>>
  PROVE  SInv'
<1>1. /\ conn \in Connection /\ sent \in [Turn -> Seq(Event)]
      /\ queue \in Seq([type: {"append", "commit", "clear"}, turn: Turn])
      /\ Len(queue) <= QueueSize
  BY DEF SInv, Types, TypeOK
<1>2. /\ conn' \in Connection
      /\ conn'.audio = None /\ conn'.active = conn.active /\ conn'.seen = conn.seen
      /\ conn'.generation = conn.generation /\ conn'.completed = conn.completed
      /\ queue' \in Seq([type: {"append", "commit", "clear"}, turn: Turn])
      /\ Len(queue') <= QueueSize
  BY <1>1, Discards
<1>3. Emits(t, events)
  BY <1>1, Emitted
<1>4. sent' \in [Turn -> Seq(Event)]
  BY <1>3 DEF Emits
<1>5. Types'
  BY <1>2, <1>4 DEF SInv, Types, TypeOK, Counted
<1>6. Ordered' /\ \A d \in Dos, u \in Named : Has(d, u)' <=> Has(d, u) /\ d \notin {}
  BY HasSame DEF SInv
<1>7. QED
  BY <1>2, <1>3, <1>5, <1>6, AbandonKeeps

\* A chunk is queued.
LEMMA Queues ==
  ASSUME queue \in Seq([type: {"append", "commit", "clear"}, turn: Turn]),
         Len(queue) < QueueSize, NEW kind \in {"append", "commit"}, NEW t \in Turn,
         queue' = Append(queue, [type |-> kind, turn |-> t])
  PROVE  /\ queue' \in Seq([type: {"append", "commit", "clear"}, turn: Turn])
         /\ Len(queue') <= QueueSize
<1>1. [type |-> kind, turn |-> t] \in [type: {"append", "commit", "clear"}, turn: Turn]
  OBVIOUS
<1>2. Len(queue') = Len(queue) + 1
  BY <1>1
<1>3. QED
  BY <1>1, <1>2, StreamingAssumption

LEMMA ReceiveMoreAudioKeeps ==
  ASSUME SInv, NEW t \in Turn, ReceiveMoreAudio(t)
  PROVE  SInv'
<1>1. /\ t = conn.audio /\ received' \in 0 .. MaxMessages /\ AcceptChunk(conn)
      /\ UNCHANGED <<todo, task, forwarder, provider, delivery, heard, asked>>
  BY StreamingAssumption DEF ReceiveMoreAudio, Receives, SInv, Types, TypeOK
<1>2. CASE Refuse(conn)
  BY <1>1, <1>2, AbandonNow, RefusedEvents DEF Refuse, SInv, Types, TypeOK, ForwarderOK
<1>3. CASE /\ conn.bytes < MaxAudio /\ Len(queue) < QueueSize
           /\ conn' = [conn EXCEPT !.bytes = @ + 1]
           /\ queue' = Append(queue, [type |-> "append", turn |-> conn.audio])
           /\ UNCHANGED sent
  <2>1. conn \in Connection /\ conn.bytes + 1 \in 0 .. MaxAudio
    <3>1. conn \in Connection
      BY DEF SInv, Types, TypeOK
    <3>2. conn.bytes \in 0 .. MaxAudio /\ conn.bytes < MaxAudio
      BY <3>1, <1>3 DEF Connection
    <3>3. QED
      BY <3>1, <3>2, StreamingAssumption
  <2>2. conn' \in Connection
    BY <1>3, <2>1 DEF Connection
  <2>3. /\ conn'.active = conn.active /\ conn'.audio = conn.audio /\ conn'.seen = conn.seen
        /\ conn'.generation = conn.generation /\ conn'.completed = conn.completed
    BY <1>3, <2>1 DEF Connection
  <2>4. /\ queue' \in Seq([type: {"append", "commit", "clear"}, turn: Turn])
        /\ Len(queue') <= QueueSize
    BY <1>1, <1>3, Queues DEF SInv, Types, TypeOK
  <2>5. Types'
    BY <1>1, <1>3, <2>2, <2>3, <2>4 DEF SInv, Types, TypeOK, Counted, ForwarderOK
  <2>6. SameControl
    BY <1>1, <1>3, <2>3, GotSame DEF SameControl, Event
  <2>7. QED
    BY <2>5, <2>6, SameControlKeeps
<1>4. QED
  BY <1>1, <1>2, <1>3 DEF AcceptChunk

LEMMA ReceiveCommitKeeps ==
  ASSUME SInv, NEW t \in Turn, ReceiveCommit(t)
  PROVE  SInv'
<1>1. /\ t = conn.audio /\ received' \in 0 .. MaxMessages
      /\ UNCHANGED <<todo, task, forwarder, provider, delivery, heard, asked>>
  BY StreamingAssumption DEF ReceiveCommit, Receives, SInv, Types, TypeOK
<1>2. CASE Refuse(conn)
  BY <1>1, <1>2, AbandonNow, RefusedEvents DEF Refuse, SInv, Types, TypeOK, ForwarderOK
<1>3. CASE /\ conn.bytes >= MinAudio /\ Len(queue) < QueueSize
           /\ queue' = Append(queue, [type |-> "commit", turn |-> t])
           /\ conn' = [conn EXCEPT !.committed = TRUE]
           /\ sent' = Emit(t, <<"started">>)
  <2>1. conn \in Connection
    BY DEF SInv, Types, TypeOK
  <2>2. conn' \in Connection
    BY <1>3, <2>1 DEF Connection
  <2>3. /\ conn'.active = conn.active /\ conn'.audio = conn.audio /\ conn'.seen = conn.seen
        /\ conn'.generation = conn.generation /\ conn'.completed = conn.completed
    BY <1>3, <2>1 DEF Connection
  <2>4. /\ queue' \in Seq([type: {"append", "commit", "clear"}, turn: Turn])
        /\ Len(queue') <= QueueSize
    BY <1>1, <1>3, Queues DEF SInv, Types, TypeOK
  <2>5. <<"started">> \in Seq(Event) /\ \A e \in ToSet(<<"started">>) : e = "started"
    BY DEF Event, ToSet
  <2>6. Emits(t, <<"started">>)
    BY <1>3, <2>5, Emitted DEF SInv, Types, TypeOK
  <2>7. Types'
    BY <1>1, <2>2, <2>3, <2>4, <2>6 DEF Emits, SInv, Types, TypeOK, Counted, ForwarderOK
  <2>8. SameControl
    BY <1>1, <2>3, <2>5, <2>6 DEF SameControl, Emits, Event
  <2>9. QED
    BY <2>7, <2>8, SameControlKeeps
<1>4. QED
  BY <1>1, <1>2, <1>3 DEF ReceiveCommit

LEMMA ReceivePlaybackStartedKeeps ==
  ASSUME SInv, NEW t \in Turn, ReceivePlaybackStarted(t)
  PROVE  SInv'
<1>1. /\ conn' = [conn EXCEPT !.playing = TRUE] /\ conn \in Connection
      /\ received' \in 0 .. MaxMessages
      /\ UNCHANGED <<todo, task, audioVars, delivery, heard, sent, asked>>
  BY StreamingAssumption DEF ReceivePlaybackStarted, Receives, SInv, Types, TypeOK
<1>2. conn' \in Connection
  BY <1>1 DEF Connection
<1>3. /\ conn'.active = conn.active /\ conn'.audio = conn.audio /\ conn'.seen = conn.seen
      /\ conn'.generation = conn.generation /\ conn'.completed = conn.completed
  BY <1>1 DEF Connection
<1>4. Types'
  BY <1>1, <1>2, <1>3 DEF SInv, Types, TypeOK, Counted, ForwarderOK, audioVars
<1>5. QED
  BY <1>1, <1>3, <1>4, GotSame, SameControlKeeps DEF SameControl, Event

\* The playback of the active turn is confirmed behind an await.
LEMMA ReceivePlaybackCompletedKeeps ==
  ASSUME SInv, NEW t \in Turn, ReceivePlaybackCompleted(t)
  PROVE  SInv'
<1> USE DEF Dos, Named
<1>1. /\ conn.active = t /\ conn.completed /\ todo = <<>> /\ todo' = <<Step("confirm", t)>>
      /\ received' \in 0 .. MaxMessages
      /\ UNCHANGED <<conn, task, audioVars, delivery, heard, sent, asked>>
  BY StreamingAssumption DEF ReceivePlaybackCompleted, Receives, SInv, Types, TypeOK
<1>2. Step("confirm", t) \in StepType
  BY DEF Step, StepType
<1>3. todo' \in Seq(StepType) /\ DOMAIN todo' = 1 .. 1 /\ todo'[1] = Step("confirm", t)
  BY <1>1, <1>2
<1>4. \A d \in Dos, u \in Named : Has(d, u)' <=> d = "confirm" /\ u = t
  BY <1>3 DEF Has, ToSet, Step
<1>5. \A d \in Dos, u \in Named : ~Has(d, u)
  BY <1>1, NothingLeft
<1>6. \A u \in Turn, e \in Event : Got(u, e)' <=> Got(u, e)
  BY <1>1, GotSame
<1>7. Types'
  BY <1>1, <1>3 DEF SInv, Types, TypeOK, Counted, ForwarderOK, audioVars, StepType
<1>8. Ordered'
  BY <1>3, <1>4 DEF Ordered, InOrder
<1>9. TaskOK'
  <2>1. TaskOK /\ (task # None => task.turn \in Turn)
    BY DEF SInv, Control, Types, TypeOK, TurnTask
  <2>2. QED
    BY <1>1, <1>4, <1>5, <1>6, <2>1 DEF TaskOK, Event
<1>10. ActiveOK'
  BY <1>1, <1>4, <1>5, <1>6 DEF SInv, Control, ActiveOK, Event
<1>11. StepsOK'
  BY <1>1, <1>4, <1>5 DEF SInv, Control, StepsOK, ActiveOK
<1>12. AskedOK'
  BY <1>1 DEF SInv, Control, AskedOK
<1>13. GoneOK'
  BY <1>1, <1>4, <1>6 DEF SInv, Control, GoneOK, Event
<1>14. DeliveryOK'
  BY <1>1, <1>5 DEF SInv, Control, DeliveryOK
<1>15. QED
  BY <1>7, <1>8, <1>9, <1>10, <1>11, <1>12, <1>13, <1>14 DEF SInv, Control

-----------------------------------------------------------------------------
\* The steps behind the awaits. What Popped says, for the types and the order.
LEMMA Pops ==
  ASSUME SInv, NEW do \in Dos, Does(do)
  PROVE  /\ todo' \in Seq(StepType) /\ Ordered'
         /\ \E t \in Named : /\ Head(todo) = Step(do, t) /\ Head(todo).turn = t
                             /\ Has(do, t)
                             /\ \A u \in Named : Has(do, u) => u = t
                             /\ do \notin {"await", "discard", "stop"} => t \in Turn
         /\ \A d \in Dos, t \in Named : Has(d, t) => d = do \/ d \in Behind(do)
         /\ \A d \in Dos, t \in Named : Has(d, t)' <=> Has(d, t) /\ d # do
<1>1. Ordered /\ todo \in Seq(StepType)
  BY DEF SInv, Types, TypeOK, StepType, Dos, Named
<1>2. PICK t \in Named : /\ Head(todo) = Step(do, t)
                         /\ Has(do, t)
                         /\ \A u \in Named : Has(do, u) => u = t
  BY <1>1, Popped
<1>3. Head(todo).turn = t
  BY <1>2 DEF Step
<1>4. do \notin {"await", "discard", "stop"} => t \in Turn
  BY <1>1, <1>2 DEF Ordered
<1>5. QED
  BY <1>1, <1>2, <1>3, <1>4, Popped

LEMMA AwaitTaskKeeps ==
  ASSUME SInv, AwaitTask
  PROVE  SInv'
<1> USE DEF Dos
<1>1. /\ Does("await") /\ task = None
      /\ UNCHANGED <<conn, task, audioVars, delivery, heard, sent, asked, received>>
  BY DEF AwaitTask
<1>2. /\ todo' \in Seq(StepType) /\ Ordered'
      /\ \A d \in Dos, t \in Named : Has(d, t)' <=> Has(d, t) /\ d # "await"
  BY <1>1, Pops
<1>3. \A u \in Turn, e \in Event : Got(u, e)' <=> Got(u, e)
  BY <1>1, GotSame
<1>4. None \in Named /\ Turn \subseteq Named
  BY DEF Named
<1>5. Types'
  BY <1>1, <1>2 DEF SInv, Types, TypeOK, Counted, ForwarderOK, audioVars, StepType, Named
<1>6. TaskOK'
  BY <1>1 DEF TaskOK
<1>7. ActiveOK' /\ StepsOK'
  BY <1>1, <1>2, <1>3, <1>4 DEF SInv, Control, ActiveOK, StepsOK, Event
<1>8. AskedOK' /\ GoneOK' /\ DeliveryOK'
  BY <1>1, <1>2, <1>3, <1>4 DEF SInv, Control, AskedOK, GoneOK, DeliveryOK, Event
<1>9. QED
  BY <1>2, <1>5, <1>6, <1>7, <1>8 DEF SInv, Control

\* Behind the wait for a task there is none.
LEMMA NoTask ==
  ASSUME SInv, NEW do \in Dos \ {"await", "confirm"}, Does(do)
  PROVE  task = None
<1>1. /\ \A d \in Dos, t \in Named : Has(d, t) => d = do \/ d \in Behind(do)
      /\ \E t \in Named : Has(do, t)
  BY Pops
<1>2. ~Has("await", None)
  BY <1>1 DEF Behind, Dos, Named
<1>3. QED
  BY <1>1, <1>2 DEF SInv, Control, TaskOK

LEMMA UndeliverKeeps ==
  ASSUME SInv, Undeliver
  PROVE  SInv'
<1> USE DEF Dos
<1>1. Does("undeliver") /\ UNCHANGED <<conn, task, audioVars, heard, sent, asked, received>>
  BY DEF Undeliver
<1>2. PICK t \in Turn :
        /\ Head(todo).turn = t /\ Has("undeliver", t)
        /\ \A u \in Named : Has("undeliver", u) => u = t
  BY <1>1, Pops
<1>3. /\ todo' \in Seq(StepType) /\ Ordered'
      /\ \A d \in Dos, u \in Named : Has(d, u)' <=> Has(d, u) /\ d # "undeliver"
  BY <1>1, Pops
<1>4. task = None
  BY <1>1, NoTask
<1>5. delivery' = IF delivery = t THEN None ELSE delivery
  BY <1>2 DEF Undeliver, Undelivered
<1>6. \A u \in Turn, e \in Event : Got(u, e)' <=> Got(u, e)
  BY <1>1, GotSame
<1>7. None \in Named /\ Turn \subseteq Named /\ None \notin Turn
  BY StreamingAssumption DEF Named
<1>8. Types'
  BY <1>1, <1>3, <1>5
     DEF SInv, Types, TypeOK, Counted, ForwarderOK, audioVars, StepType, Named
<1>9. TaskOK'
  BY <1>1, <1>4 DEF TaskOK
<1>10. ActiveOK' /\ StepsOK'
  BY <1>1, <1>3, <1>4, <1>6, <1>7 DEF SInv, Control, ActiveOK, StepsOK, Event
<1>11. AskedOK' /\ GoneOK'
  BY <1>1, <1>3, <1>4, <1>5, <1>6, <1>7 DEF SInv, Control, AskedOK, GoneOK, Event
<1>12. DeliveryOK'
  BY <1>1, <1>2, <1>3, <1>5, <1>7 DEF SInv, Control, DeliveryOK
<1>13. QED
  BY <1>3, <1>8, <1>9, <1>10, <1>11, <1>12 DEF SInv, Control

LEMMA TellCancelledKeeps ==
  ASSUME SInv, TellCancelled
  PROVE  SInv'
<1> USE DEF Dos
<1>1. Does("tell") /\ UNCHANGED <<conn, task, audioVars, delivery, heard, asked, received>>
  BY DEF TellCancelled
<1>2. PICK t \in Turn :
        /\ Head(todo).turn = t /\ Has("tell", t)
        /\ \A u \in Named : Has("tell", u) => u = t
  BY <1>1, Pops
<1>3. /\ todo' \in Seq(StepType) /\ Ordered'
      /\ \A d \in Dos, u \in Named : Has(d, u)' <=> Has(d, u) /\ d # "tell"
  BY <1>1, Pops
<1>4. task = None
  BY <1>1, NoTask
<1>5. sent' = Emit(t, <<"cancelled">>)
  BY <1>2 DEF TellCancelled
<1>6. Emits(t, <<"cancelled">>)
  BY <1>5, Emitted, RefusedEvents DEF SInv, Types, TypeOK
<1>7. None \in Named /\ Turn \subseteq Named /\ None \notin Turn
  BY StreamingAssumption DEF Named
<1>8. /\ \A u \in Turn, e \in Event : Got(u, e) => Got(u, e)'
      /\ \A u \in Turn \ {t} : Got(u, "cancelled")' => Got(u, "cancelled")
  BY <1>6 DEF Emits, Event
<1>9. Types'
  BY <1>1, <1>3, <1>6
     DEF Emits, SInv, Types, TypeOK, Counted, ForwarderOK, audioVars, StepType, Named
<1>10. TaskOK'
  BY <1>1, <1>4 DEF TaskOK
<1>11. ActiveOK' /\ StepsOK'
  BY <1>1, <1>3, <1>4, <1>7, <1>8 DEF SInv, Control, ActiveOK, StepsOK, Event
<1>12. AskedOK' /\ DeliveryOK'
  BY <1>1, <1>3, <1>4, <1>7 DEF SInv, Control, AskedOK, DeliveryOK
<1>13. conn.active # t
  BY <1>2, <1>7 DEF SInv, Control, ActiveOK
<1>14. GoneOK'
  BY <1>1, <1>2, <1>3, <1>4, <1>7, <1>8, <1>13 DEF SInv, Control, GoneOK, StepsOK, Event
<1>15. QED
  BY <1>3, <1>9, <1>10, <1>11, <1>12, <1>14 DEF SInv, Control

LEMMA DiscardAudioKeeps ==
  ASSUME SInv, DiscardAudio
  PROVE  SInv'
<1> USE DEF Dos
<1>1. /\ Does("discard") /\ Discard(conn) /\ sent' = Cancellation(conn)
      /\ UNCHANGED <<task, forwarder, provider, delivery, heard, asked, received>>
  BY DEF DiscardAudio
<1>2. /\ todo' \in Seq(StepType) /\ Ordered'
      /\ \A d \in Dos, t \in Named : Has(d, t)' <=> Has(d, t) /\ d # "discard"
  BY <1>1, Pops
<1>3. /\ conn \in Connection /\ sent \in [Turn -> Seq(Event)]
      /\ queue \in Seq([type: {"append", "commit", "clear"}, turn: Turn])
      /\ Len(queue) <= QueueSize
  BY DEF SInv, Types, TypeOK
<1>4. /\ conn' \in Connection
      /\ conn'.audio = None /\ conn'.active = conn.active /\ conn'.seen = conn.seen
      /\ conn'.generation = conn.generation /\ conn'.completed = conn.completed
      /\ queue' \in Seq([type: {"append", "commit", "clear"}, turn: Turn])
      /\ Len(queue') <= QueueSize
  BY <1>1, <1>3, Discards
<1>5. ASSUME sent' \in [Turn -> Seq(Event)] PROVE Types'
  BY <1>1, <1>2, <1>4, <1>5
     DEF SInv, Types, TypeOK, Counted, ForwarderOK, StepType, Named
<1>6. CASE conn.audio # None
  <2>1. PICK t \in Turn : conn.audio = t
    BY <1>3, <1>6 DEF Connection
  <2>2. sent' = Emit(t, <<"cancelled">>)
    BY <1>1, <1>6, <2>1 DEF Cancellation
  <2>3. Emits(t, <<"cancelled">>)
    BY <1>3, <2>2, Emitted, RefusedEvents
  <2>4. Types'
    BY <1>5, <2>3 DEF Emits
  <2>5. \A d \in Dos, u \in Named : Has(d, u)' <=> Has(d, u) /\ d \notin {"discard"}
    BY <1>2
  <2>6. QED
    BY <1>1, <1>2, <1>4, <2>1, <2>3, <2>4, <2>5, RefusedEvents, AbandonKeeps
<1>7. CASE conn.audio = None
  <2>1. sent' = sent
    BY <1>1, <1>7 DEF Cancellation
  <2>2. \A u \in Turn, e \in Event : Got(u, e)' <=> Got(u, e)
    BY <2>1, GotSame
  <2>3. task = None
    BY <1>1, NoTask
  <2>4. None \in Named /\ Turn \subseteq Named /\ None \notin Turn
    BY StreamingAssumption DEF Named
  <2>5. Types'
    BY <1>3, <1>5, <2>1
  <2>6. TaskOK'
    BY <1>1, <2>3 DEF TaskOK
  <2>7. ActiveOK' /\ StepsOK'
    BY <1>1, <1>2, <1>4, <2>2, <2>3, <2>4 DEF SInv, Control, ActiveOK, StepsOK, Event
  <2>8. AskedOK' /\ GoneOK' /\ DeliveryOK'
    BY <1>1, <1>2, <1>4, <2>2, <2>3, <2>4
       DEF SInv, Control, AskedOK, GoneOK, DeliveryOK, Event
  <2>9. QED
    BY <1>2, <2>5, <2>6, <2>7, <2>8 DEF SInv, Control
<1>8. QED
  BY <1>6, <1>7

LEMMA ListenKeeps ==
  ASSUME SInv, Listen
  PROVE  SInv'
<1> USE DEF Dos
<1>1. /\ Does("listen")
      /\ UNCHANGED <<task, forwarder, provider, delivery, heard, asked, received>>
  BY DEF Listen
<1>2. PICK t \in Turn :
        /\ Head(todo).turn = t /\ Has("listen", t)
        /\ \A u \in Named : Has("listen", u) => u = t
  BY <1>1, Pops
<1>3. /\ todo' \in Seq(StepType) /\ Ordered'
      /\ \A d \in Dos, u \in Named : Has(d, u) => d = "listen"
      /\ \A d \in Dos, u \in Named : Has(d, u)' <=> Has(d, u) /\ d # "listen"
  BY <1>1, Pops DEF Behind
<1> DEFINE c == [conn EXCEPT !.audio = t]
<1>4. /\ conn \in Connection /\ sent \in [Turn -> Seq(Event)]
      /\ queue \in Seq([type: {"append", "commit", "clear"}, turn: Turn])
      /\ Len(queue) <= QueueSize
  BY DEF SInv, Types, TypeOK
<1>5. c \in Connection
  BY <1>4 DEF Connection
<1>6. /\ c.audio = t /\ c.active = conn.active /\ c.seen = conn.seen
      /\ c.generation = conn.generation /\ c.completed = conn.completed
  BY <1>4 DEF Connection
<1>7. AcceptChunk(c)
  BY <1>2 DEF Listen
<1> HIDE DEF c
<1>8. CASE Refuse(c)
  <2>1. /\ conn' \in Connection
        /\ conn'.audio = None /\ conn'.active = conn.active /\ conn'.seen = conn.seen
        /\ conn'.generation = conn.generation /\ conn'.completed = conn.completed
        /\ queue' \in Seq([type: {"append", "commit", "clear"}, turn: Turn])
        /\ Len(queue') <= QueueSize
    BY <1>4, <1>5, <1>6, <1>8, Discards DEF Refuse
  <2>2. Emits(t, <<"cancelled", "refused">>)
    BY <1>4, <1>6, <1>8, Emitted, RefusedEvents DEF Refuse
  <2>3. Types'
    BY <1>1, <1>3, <2>1, <2>2
       DEF Emits, SInv, Types, TypeOK, Counted, ForwarderOK, StepType, Named
  <2>4. \A d \in Dos, u \in Named : Has(d, u)' <=> Has(d, u) /\ d \notin {"listen"}
    BY <1>3
  <2>5. QED
    BY <1>1, <1>2, <1>3, <2>1, <2>2, <2>3, <2>4, RefusedEvents, AbandonKeeps
<1>9. CASE /\ c.bytes < MaxAudio /\ Len(queue) < QueueSize
           /\ conn' = [c EXCEPT !.bytes = @ + 1]
           /\ queue' = Append(queue, [type |-> "append", turn |-> c.audio])
           /\ UNCHANGED sent
  <2>1. c.bytes + 1 \in 0 .. MaxAudio
    <3>1. c.bytes \in 0 .. MaxAudio /\ c.bytes < MaxAudio
      BY <1>5, <1>9 DEF Connection
    <3>2. QED
      BY <3>1, StreamingAssumption
  <2>2. conn' \in Connection
    BY <1>5, <1>9, <2>1 DEF Connection
  <2>3. /\ conn'.active = conn.active /\ conn'.audio = t /\ conn'.seen = conn.seen
        /\ conn'.generation = conn.generation /\ conn'.completed = conn.completed
    BY <1>5, <1>6, <1>9 DEF Connection
  <2>4. /\ queue' \in Seq([type: {"append", "commit", "clear"}, turn: Turn])
        /\ Len(queue') <= QueueSize
    BY <1>4, <1>6, <1>9, Queues
  <2>5. Types'
    BY <1>1, <1>3, <1>9, <2>2, <2>3, <2>4
       DEF SInv, Types, TypeOK, Counted, ForwarderOK, StepType, Named
  <2>6. \A u \in Turn, e \in Event : Got(u, e)' <=> Got(u, e)
    BY <1>9, GotSame
  <2>7. task = None
    BY <1>1, NoTask
  <2>8. None \in Named /\ Turn \subseteq Named /\ None \notin Turn
    BY StreamingAssumption DEF Named
  <2>9. conn.active = None
    BY <1>2, <1>4, <2>8 DEF SInv, Control, ActiveOK, Connection
  <2>10. asked[t] = 0 /\ t \in conn.seen
    BY <1>2 DEF SInv, Control, StepsOK
  <2>11. TaskOK' /\ ActiveOK'
    BY <1>1, <2>3, <2>7, <2>8, <2>9 DEF TaskOK, ActiveOK
  <2>12. StepsOK'
    BY <1>1, <1>3, <2>3, <2>8, <2>10 DEF SInv, Control, StepsOK
  <2>13. AskedOK' /\ DeliveryOK'
    BY <1>1, <1>3, <2>3, <2>8 DEF SInv, Control, AskedOK, DeliveryOK
  <2>14. GoneOK'
    BY <1>1, <1>2, <1>3, <2>3, <2>6, <2>8 DEF SInv, Control, GoneOK, Event
  <2>15. QED
    BY <1>3, <2>5, <2>11, <2>12, <2>13, <2>14 DEF SInv, Control
<1>10. QED
  BY <1>7, <1>8, <1>9 DEF AcceptChunk

LEMMA StartKeeps ==
  ASSUME SInv, Start
  PROVE  SInv'
<1> USE DEF Dos
<1>1. /\ Does("start")
      /\ UNCHANGED <<task, audioVars, delivery, heard, asked, received>>
  BY DEF Start
<1>2. PICK t \in Turn :
        /\ Head(todo).turn = t /\ Has("start", t)
        /\ \A u \in Named : Has("start", u) => u = t
  BY <1>1, Pops
<1>3. /\ todo' \in Seq(StepType) /\ Ordered'
      /\ \A d \in Dos, u \in Named : Has(d, u) => d \in {"start", "spawn"}
      /\ \A d \in Dos, u \in Named : Has(d, u)' <=> Has(d, u) /\ d # "start"
  BY <1>1, Pops DEF Behind
<1>4. conn' = Started(t) /\ sent' = Emit(t, <<"started", "final">>) /\ conn \in Connection
  BY <1>2 DEF Start, SInv, Types, TypeOK
<1>5. conn' \in Connection
  BY <1>4 DEF Started, Connection
<1>6. /\ conn'.active = t /\ conn'.audio = conn.audio /\ conn'.seen = conn.seen
      /\ conn'.generation = conn.generation /\ conn'.completed = FALSE
  BY <1>4 DEF Started, Connection
<1>7. <<"started", "final">> \in Seq(Event)
      /\ \A e \in ToSet(<<"started", "final">>) : e \in {"started", "final"}
  BY DEF Event, ToSet
<1>8. Emits(t, <<"started", "final">>)
  BY <1>4, <1>7, Emitted DEF SInv, Types, TypeOK
<1>9. \A u \in Turn, e \in {"audio", "cancelled"} : Got(u, e)' <=> Got(u, e)
  BY <1>7, <1>8 DEF Emits, Event
<1>10. Types'
  BY <1>1, <1>3, <1>5, <1>6, <1>8
     DEF Emits, SInv, Types, TypeOK, Counted, ForwarderOK, audioVars, StepType, Named
<1>11. task = None
  BY <1>1, NoTask
<1>12. None \in Named /\ Turn \subseteq Named /\ None \notin Turn
  BY StreamingAssumption DEF Named
<1>13. /\ Has("spawn", t) /\ conn.audio = None
       /\ \A u \in Turn : Has("spawn", u) => u = t
  <2>1. Has("spawn", t)
    BY <1>2 DEF SInv, Control, StepsOK
  <2>2. conn.audio = None
    BY <2>1, <1>3, <1>12 DEF SInv, Control, StepsOK
  <2>3. Ordered /\ todo \in Seq(StepType)
    BY DEF SInv, Types, TypeOK, StepType, Named
  <2>4. \A u \in Turn : Has("spawn", u) => u = t
    BY <2>1, <2>3, <1>12, HasOrder DEF Behind
  <2>5. QED
    BY <2>1, <2>2, <2>4
<1>14. /\ t \in conn.seen /\ t \notin heard /\ ~Got(t, "cancelled")
  BY <1>13 DEF SInv, Control, StepsOK, GoneOK
<1>15. conn.active = None
  BY <1>2, <1>12 DEF SInv, Control, ActiveOK, Types, TypeOK, Connection
<1>16. TaskOK'
  BY <1>1, <1>11 DEF TaskOK
<1>17. ActiveOK'
  BY <1>1, <1>3, <1>6, <1>13, <1>14 DEF ActiveOK
<1>18. StepsOK'
  BY <1>1, <1>3, <1>6, <1>12, <1>13 DEF SInv, Control, StepsOK
<1>19. AskedOK'
  BY <1>1, <1>6 DEF SInv, Control, AskedOK
<1>20. GoneOK'
  BY <1>1, <1>3, <1>6, <1>9, <1>12, <1>14 DEF SInv, Control, GoneOK
<1>21. DeliveryOK'
  BY <1>1, <1>3, <1>6, <1>12, <1>15 DEF SInv, Control, DeliveryOK
<1>22. QED
  BY <1>3, <1>10, <1>16, <1>17, <1>18, <1>19, <1>20, <1>21 DEF SInv, Control

LEMMA SpawnKeeps ==
  ASSUME SInv, Spawn
  PROVE  SInv'
<1> USE DEF Dos
<1>1. /\ Does("spawn") /\ UNCHANGED <<conn, audioVars, delivery, heard, sent, received>>
  BY DEF Spawn
<1>2. PICK t \in Turn :
        /\ Head(todo).turn = t /\ Has("spawn", t)
        /\ \A u \in Named : Has("spawn", u) => u = t
  BY <1>1, Pops
<1>3. /\ todo' \in Seq(StepType) /\ Ordered'
      /\ \A d \in Dos, u \in Named : Has(d, u) => d = "spawn"
      /\ \A d \in Dos, u \in Named : Has(d, u)' <=> Has(d, u) /\ d # "spawn"
  BY <1>1, Pops DEF Behind
<1>4. \A d \in Dos, u \in Named : ~Has(d, u)'
  BY <1>3
<1>5. /\ task' = [turn |-> t, generation |-> conn.generation, pc |-> "asking",
                  chunks |-> 0, cancelled |-> FALSE]
      /\ asked' = [asked EXCEPT ![t] = @ + 1]
  BY <1>2 DEF Spawn
<1>6. /\ conn \in Connection /\ asked \in [Turn -> Nat] /\ conn.generation \in Nat
  BY DEF SInv, Types, TypeOK, Connection
<1>7. task' \in TurnTask
  BY <1>5, <1>6, StreamingAssumption DEF TurnTask
<1>8. asked[t] = 0 /\ t \in conn.seen
  BY <1>2 DEF SInv, Control, StepsOK
<1>9. /\ asked' \in [Turn -> Nat] /\ asked'[t] = 1
      /\ \A u \in Turn \ {t} : asked'[u] = asked[u]
  BY <1>5, <1>6, <1>8
<1>10. \A u \in Turn, e \in Event : Got(u, e)' <=> Got(u, e)
  BY <1>1, GotSame
<1>11. None \in Named /\ Turn \subseteq Named /\ None \notin Turn
  BY StreamingAssumption DEF Named
<1>12. conn.active = t /\ conn.audio = None
  BY <1>2, <1>3, <1>11 DEF SInv, Control, StepsOK
<1>13. ~conn.completed
  BY <1>2, <1>12 DEF SInv, Control, ActiveOK
<1>14. delivery = None
  <2>1. delivery # t
    BY <1>8 DEF SInv, Control, AskedOK
  <2>2. \A u \in Turn : delivery # u
    BY <2>1, <1>3, <1>11, <1>12 DEF SInv, Control, DeliveryOK
  <2>3. QED
    BY <2>2 DEF SInv, Types, TypeOK
<1>15. t \notin heard /\ ~Got(t, "cancelled")
  BY <1>2 DEF SInv, Control, GoneOK
<1>16. Types'
  BY <1>1, <1>3, <1>7, <1>9
     DEF SInv, Types, TypeOK, Counted, ForwarderOK, audioVars, StepType, Named
<1>17. TaskOK'
  BY <1>1, <1>4, <1>5, <1>6, <1>9, <1>11, <1>12, <1>14 DEF TaskOK
<1>18. ActiveOK'
  BY <1>1, <1>4, <1>8, <1>12, <1>13 DEF ActiveOK
<1>19. StepsOK'
  BY <1>1, <1>4, <1>9, <1>11, <1>12 DEF StepsOK
<1>20. AskedOK'
  BY <1>1, <1>5, <1>8, <1>9, <1>14 DEF SInv, Control, AskedOK
<1>21. GoneOK'
  BY <1>1, <1>4, <1>5, <1>10, <1>11, <1>15 DEF SInv, Control, GoneOK, Event
<1>22. DeliveryOK'
  BY <1>1, <1>11, <1>14 DEF DeliveryOK
<1>23. QED
  BY <1>3, <1>16, <1>17, <1>18, <1>19, <1>20, <1>21, <1>22 DEF SInv, Control

LEMMA ConfirmKeeps ==
  ASSUME SInv, Confirm
  PROVE  SInv'
<1> USE DEF Dos
<1>1. Does("confirm") /\ UNCHANGED <<task, audioVars, sent, asked, received>>
  BY DEF Confirm
<1>2. PICK t \in Turn :
        /\ Head(todo).turn = t /\ Has("confirm", t)
        /\ \A u \in Named : Has("confirm", u) => u = t
  BY <1>1, Pops
<1>3. /\ todo' \in Seq(StepType) /\ Ordered'
      /\ \A d \in Dos, u \in Named : Has(d, u) => d = "confirm"
      /\ \A d \in Dos, u \in Named : Has(d, u)' <=> Has(d, u) /\ d # "confirm"
  BY <1>1, Pops DEF Behind
<1>4. \A d \in Dos, u \in Named : ~Has(d, u)'
  BY <1>3
<1>5. /\ heard' = IF delivery = t THEN heard \cup {t} ELSE heard
      /\ delivery' = IF delivery = t THEN None ELSE delivery
      /\ conn' = [conn EXCEPT !.active = None] /\ conn \in Connection
  BY <1>2 DEF Confirm, Undelivered, SInv, Types, TypeOK
<1>6. conn' \in Connection
  BY <1>5 DEF Connection
<1>7. /\ conn'.active = None /\ conn'.audio = conn.audio /\ conn'.seen = conn.seen
      /\ conn'.generation = conn.generation /\ conn'.completed = conn.completed
  BY <1>5 DEF Connection
<1>8. None \in Named /\ Turn \subseteq Named /\ None \notin Turn
  BY StreamingAssumption DEF Named
<1>9. conn.active = t /\ conn.completed
  BY <1>2 DEF SInv, Control, StepsOK
<1>10. /\ t \in conn.seen /\ conn.audio = None /\ Got(t, "audio")
       /\ task # None => task.pc = "completing"
  BY <1>9 DEF SInv, Control, ActiveOK
<1>11. ~Got(t, "cancelled")
  BY <1>9 DEF SInv, Control, GoneOK
<1>12. \A u \in Turn, e \in Event : Got(u, e)' <=> Got(u, e)
  BY <1>1, GotSame
<1>13. \A u \in Turn : delivery' # u
  BY <1>3, <1>5, <1>8, <1>9 DEF SInv, Control, DeliveryOK
<1>14. Types'
  BY <1>1, <1>3, <1>5, <1>6, <1>7
     DEF SInv, Types, TypeOK, Counted, ForwarderOK, audioVars, StepType, Named
<1>15. TaskOK'
  <2>1. TaskOK /\ (task # None => task.turn \in Turn)
    BY DEF SInv, Control, Types, TypeOK, TurnTask
  <2>2. delivery' \in {None, delivery}
    BY <1>5
  <2>3. QED
    BY <1>1, <1>4, <1>7, <1>8, <1>10, <1>12, <2>1, <2>2 DEF TaskOK, Event
<1>16. ActiveOK'
  BY <1>7, <1>8 DEF ActiveOK
<1>17. StepsOK'
  BY <1>4, <1>7, <1>8, <1>10 DEF StepsOK
<1>18. AskedOK'
  BY <1>1, <1>5, <1>7, <1>8 DEF SInv, Control, AskedOK
<1>19. GoneOK'
  BY <1>1, <1>4, <1>5, <1>7, <1>8, <1>10, <1>11, <1>12 DEF SInv, Control, GoneOK, Event
<1>20. DeliveryOK'
  BY <1>13 DEF DeliveryOK
<1>21. QED
  BY <1>3, <1>14, <1>15, <1>16, <1>17, <1>18, <1>19, <1>20 DEF SInv, Control

LEMMA StopKeeps ==
  ASSUME SInv, Stop
  PROVE  SInv'
<1> USE DEF Dos
<1>1. /\ Does("stop") /\ forwarder' = [forwarder EXCEPT !.pc = "stopped"]
      /\ UNCHANGED <<conn, task, queue, provider, delivery, heard, sent, asked, received>>
  BY DEF Stop
<1>2. /\ todo' \in Seq(StepType) /\ Ordered'
      /\ \A d \in Dos, t \in Named : Has(d, t)' <=> Has(d, t) /\ d # "stop"
  BY <1>1, Pops
<1>3. \A u \in Turn, e \in Event : Got(u, e)' <=> Got(u, e)
  BY <1>1, GotSame
<1>4. None \in Named /\ Turn \subseteq Named
  BY DEF Named
<1>5. task = None
  BY <1>1, NoTask
<1>6. forwarder' \in Forwarder /\ forwarder'.pc = "stopped"
  BY <1>1 DEF SInv, Types, TypeOK, Forwarder
<1>7. Types'
  BY <1>1, <1>2, <1>6 DEF SInv, Types, TypeOK, Counted, ForwarderOK, StepType, Named
<1>8. TaskOK'
  BY <1>1, <1>5 DEF TaskOK
<1>9. ActiveOK' /\ StepsOK'
  BY <1>1, <1>2, <1>3, <1>4, <1>5 DEF SInv, Control, ActiveOK, StepsOK, Event
<1>10. AskedOK' /\ GoneOK' /\ DeliveryOK'
  BY <1>1, <1>2, <1>3, <1>4, <1>5 DEF SInv, Control, AskedOK, GoneOK, DeliveryOK, Event
<1>11. QED
  BY <1>2, <1>7, <1>8, <1>9, <1>10 DEF SInv, Control

LEMMA StepsKeep ==
  ASSUME SInv, Steps
  PROVE  SInv'
  BY AwaitTaskKeeps, UndeliverKeeps, TellCancelledKeeps, DiscardAudioKeeps, ListenKeeps,
     StartKeeps, SpawnKeeps, ConfirmKeeps, StopKeeps DEF Steps

-----------------------------------------------------------------------------
\* The turn's task. As long as it is current and not complete, its turn is active.
LEMMA CurrentIsActive ==
  ASSUME SInv, task # None
  PROVE  /\ task \in TurnTask /\ task.turn \in Turn
         /\ Current /\ task.pc # "completing" => conn.active = task.turn
         /\ task.pc # "completing" => task.turn \notin heard
         /\ \A u \in Turn : conn.active = u => u = task.turn
         /\ conn.active \in Turn /\ conn.completed => task.pc = "completing"
<1>1. task \in TurnTask
  BY DEF SInv, Types, TypeOK
<1>2. PICK t \in Turn : task.turn = t
  BY <1>1 DEF TurnTask
<1>3. None \in Named /\ Turn \subseteq Named /\ None \notin Turn
  BY StreamingAssumption DEF Named
<1>4. ASSUME Current, task.pc # "completing"
      PROVE  conn.active = t
  <2>1. conn.active = t \/ Has("undeliver", t)
    BY <1>2, <1>4 DEF SInv, Control, TaskOK
  <2>2. ~Has("await", None)
    BY <1>1, <1>4 DEF SInv, Control, TaskOK, Current, Types, TypeOK, Connection, TurnTask
  <2>3. ~Has("undeliver", t)
    BY <1>3, <2>2 DEF SInv, Control, TaskOK, Dos
  <2>4. QED
    BY <2>1, <2>3
<1>5. task.pc # "completing" => t \notin heard
  BY <1>2 DEF SInv, Control, GoneOK
<1>6. \A u \in Turn : conn.active = u => u = t
  BY <1>2, <1>3 DEF SInv, Control, TaskOK
<1>7. conn.active \in Turn /\ conn.completed => task.pc = "completing"
  BY DEF SInv, Control, ActiveOK
<1>8. QED
  BY <1>1, <1>2, <1>4, <1>5, <1>6, <1>7

\* The task goes on or ends, and adds to what the browser was sent, but no cancellation.
LEMMA TaskGoesOn ==
  ASSUME SInv, task # None,
         \/ task' = None
         \/ /\ task.pc # "completing"
            /\ task' \in TurnTask
            /\ task'.turn = task.turn /\ task'.generation = task.generation
            /\ task'.pc = "reporting" => delivery' = None
            /\ \A u \in Turn : u = task.turn /\ task'.chunks > 0 => Got(u, "audio")',
         UNCHANGED <<conn, todo, audioVars, heard, asked, received>>,
         delivery' \in {None, delivery},
         sent' \in [Turn -> Seq(Event)],
         \A u \in Turn, e \in Event : Got(u, e) => Got(u, e)',
         \A u \in Turn : Got(u, "cancelled")' => Got(u, "cancelled")
  PROVE  SInv'
<1> USE DEF Dos
<1>1. None \in Named /\ Turn \subseteq Named /\ None \notin Turn
  BY StreamingAssumption DEF Named
<1>2. /\ \A d \in Dos, u \in Named : Has(d, u)' <=> Has(d, u)
      /\ Ordered'
  BY HasSame DEF SInv
<1>3. task' # None =>
        /\ task.pc # "completing"
        /\ task' \in TurnTask
        /\ task'.turn = task.turn /\ task'.generation = task.generation
        /\ task'.pc = "reporting" => delivery' = None
        /\ \A u \in Turn : u = task.turn /\ task'.chunks > 0 => Got(u, "audio")'
  OBVIOUS
<1>4. task' \in TurnTask \cup {None}
  BY <1>3
<1>5. task.turn \in Turn /\ task.turn \in {u \in Turn : task.pc = "completing" \/ u \notin heard}
  BY CurrentIsActive
<1>6. Types'
  BY <1>4 DEF SInv, Types, TypeOK, Counted, ForwarderOK, audioVars, StepType, Named
<1>7. TaskOK'
  <2>1. TaskOK /\ delivery' \in {None, delivery}
    BY DEF SInv, Control
  <2>2. QED
    BY <1>1, <1>2, <1>3, <1>5, <2>1 DEF TaskOK
<1>8. ActiveOK'
  BY <1>1, <1>2, <1>3 DEF SInv, Control, ActiveOK, Event
<1>9. StepsOK'
  BY <1>1, <1>2 DEF SInv, Control, StepsOK
<1>10. AskedOK'
  BY <1>1, <1>3 DEF SInv, Control, AskedOK
<1>11. GoneOK'
  BY <1>1, <1>2, <1>3, <1>5 DEF SInv, Control, GoneOK, Event
<1>12. DeliveryOK'
  BY <1>1, <1>2 DEF SInv, Control, DeliveryOK
<1>13. QED
  BY <1>2, <1>6, <1>7, <1>8, <1>9, <1>10, <1>11, <1>12 DEF SInv, Control

\* A task that goes on stays the task of its turn.
LEMMA Going ==
  ASSUME task \in TurnTask, NEW pc, Goes(pc),
         pc \in {"asking", "resolving", "answered", "speaking", "completing", "failing",
                 "reporting"}
  PROVE  /\ task' \in TurnTask /\ task'.turn = task.turn /\ task'.pc = pc
         /\ task'.generation = task.generation /\ task'.chunks = task.chunks
<1>1. task' = [task EXCEPT !.pc = pc]
  BY DEF Goes
<1>2. task' \in TurnTask
  BY <1>1 DEF TurnTask
<1>3. QED
  BY <1>1, <1>2 DEF TurnTask

\* The steps of a task that neither answer nor complete nor report.
PlainTaskStep ==
  \/ Route \/ Reply \/ Speak \/ Complete \/ TaskFails \/ UndeliverFailed \/ EndCancelled

\* What the browser is sent by one of them.
LEMMA PlainEvents ==
  ASSUME SInv, PlainTaskStep
  PROVE  /\ task # None
         /\ \/ sent' = sent
            \/ \E event \in Event \ {"cancelled"} :
                 TaskEmits(event) /\ (Speak => event = "audio")
         /\ sent' \in [Turn -> Seq(Event)]
         /\ \A u \in Turn, e \in Event : Got(u, e) => Got(u, e)'
         /\ \A u \in Turn : Got(u, "cancelled")' => Got(u, "cancelled")
<1>1. task # None
  BY DEF PlainTaskStep, Route, Reply, Speak, Complete, TaskFails, UndeliverFailed,
         EndCancelled, Runs
<1>2. task.turn \in Turn /\ sent \in [Turn -> Seq(Event)]
  BY <1>1, CurrentIsActive DEF SInv, Types, TypeOK
<1>3. \/ sent' = sent
      \/ \E event \in Event \ {"cancelled"} :
           sent' = EmitOfTask(event) /\ (Speak => event = "audio")
  <2>1. CASE Speak
    <3>1. sent' = EmitOfTask("audio") /\ "audio" \in Event \ {"cancelled"}
      BY <2>1 DEF Speak, Event
    <3>2. QED
      BY <3>1
  <2>2. CASE ~Speak
    BY <2>2 DEF PlainTaskStep, Route, Reply, Complete, TaskFails, UndeliverFailed,
                EndCancelled, Event
  <2>3. QED
    BY <2>1, <2>2
<1>4. CASE sent' = sent
  BY <1>1, <1>2, <1>4, GotSame DEF Event
<1>5. ASSUME NEW event \in Event \ {"cancelled"}, sent' = EmitOfTask(event), Speak => event = "audio"
      PROVE  /\ TaskEmits(event) /\ (Speak => event = "audio")
             /\ sent' \in [Turn -> Seq(Event)]
             /\ \A u \in Turn, e \in Event : Got(u, e) => Got(u, e)'
             /\ \A u \in Turn : Got(u, "cancelled")' => Got(u, "cancelled")
  <2>1. TaskEmits(event)
    BY <1>2, <1>5, TaskEmitted
  <2>2. QED
    BY <1>5, <2>1 DEF TaskEmits, Event
<1>6. QED
  BY <1>1, <1>3, <1>4, <1>5

LEMMA PlainTaskStepKeeps ==
  ASSUME SInv, PlainTaskStep
  PROVE  SInv'
<1>1. /\ task # None
      /\ sent' \in [Turn -> Seq(Event)]
      /\ \A u \in Turn, e \in Event : Got(u, e) => Got(u, e)'
      /\ \A u \in Turn : Got(u, "cancelled")' => Got(u, "cancelled")
  BY PlainEvents
<1>2. task \in TurnTask /\ task.turn \in Turn
  BY <1>1, CurrentIsActive
<1>3. \A u \in Turn : u = task.turn /\ task.chunks > 0 => Got(u, "audio") /\ Got(u, "audio")'
  BY <1>1 DEF SInv, Control, TaskOK, Event
<1>4. UNCHANGED <<conn, todo, audioVars, heard, asked, received>>
  BY DEF PlainTaskStep, Route, Reply, Speak, Complete, TaskFails, UndeliverFailed, EndCancelled
<1>5. CASE Route
  <2>1. Goes("resolving") /\ task.pc = "asking" /\ delivery' = delivery
    BY <1>5 DEF Route, Runs
  <2>2. QED
    BY <1>1, <1>2, <1>3, <1>4, <2>1, Going, TaskGoesOn
<1>6. CASE Reply
  <2>1. Goes("speaking") \/ task' = None
    BY <1>6 DEF Reply
  <2>2. task.pc = "answered" /\ delivery' = delivery
    BY <1>6 DEF Reply, Runs
  <2>3. QED
    BY <1>1, <1>2, <1>3, <1>4, <2>1, <2>2, Going, TaskGoesOn
<1>7. CASE Speak
  <2>1. task.pc = "speaking" /\ delivery' = delivery /\ task.chunks < MaxChunks
    BY <1>7 DEF Speak, Runs
  <2>2. CASE ~Current
    BY <1>1, <1>4, <1>7, <2>1, <2>2, TaskGoesOn DEF Speak
  <2>3. CASE Current
    <3>1. task' = [task EXCEPT !.chunks = @ + 1]
      BY <1>7, <2>3 DEF Speak
    <3>2. task.chunks + 1 \in 0 .. MaxChunks
      <4>1. task.chunks \in 0 .. MaxChunks
        BY <1>2 DEF TurnTask
      <4>2. QED
        BY <4>1, <2>1, StreamingAssumption
    <3>3. task' \in TurnTask
      BY <1>2, <3>1, <3>2 DEF TurnTask
    <3>4. task'.turn = task.turn /\ task'.generation = task.generation /\ task'.pc = task.pc
      BY <1>2, <3>1 DEF TurnTask
    <3>5. TaskEmits("audio")
      <4>1. sent' = EmitOfTask("audio") /\ "audio" \in Event /\ sent \in [Turn -> Seq(Event)]
        BY <1>7 DEF Speak, Event, SInv, Types, TypeOK
      <4>2. QED
        BY <4>1, <1>2, TaskEmitted
    <3>6. \A u \in Turn : u = task.turn => Got(u, "audio")'
      BY <2>3, <3>5 DEF TaskEmits, Event
    <3>7. QED
      BY <1>1, <1>4, <2>1, <3>3, <3>4, <3>6, TaskGoesOn
  <2>4. QED
    BY <2>2, <2>3
<1>8. CASE Complete
  BY <1>1, <1>4, <1>8, TaskGoesOn DEF Complete
<1>9. CASE TaskFails
  <2>1. Goes("failing") /\ task.pc \in {"asking", "resolving", "speaking"} /\ delivery' = delivery
    BY <1>9 DEF TaskFails, Runs
  <2>2. QED
    BY <1>1, <1>2, <1>3, <1>4, <2>1, Going, TaskGoesOn
<1>10. CASE UndeliverFailed
  <2>1. task.pc = "failing"
    BY <1>10 DEF UndeliverFailed, Runs
  <2>2. CASE ~Current
    BY <1>1, <1>4, <1>10, <2>2, TaskGoesOn DEF UndeliverFailed
  <2>3. CASE Current
    <3>1. Goes("reporting") /\ delivery' = Undelivered(task.turn)
      BY <1>10, <2>3 DEF UndeliverFailed
    <3>2. delivery' = None
      BY <1>1, <3>1 DEF Undelivered, SInv, Control, TaskOK
    <3>3. QED
      BY <1>1, <1>2, <1>3, <1>4, <2>1, <3>1, <3>2, Going, TaskGoesOn
  <2>4. QED
    BY <2>2, <2>3
<1>11. CASE EndCancelled
  BY <1>1, <1>4, <1>11, TaskGoesOn DEF EndCancelled
<1>12. QED
  BY <1>5, <1>6, <1>7, <1>8, <1>9, <1>10, <1>11 DEF PlainTaskStep

\* The answer waits for playback: its turn is active or about to be undelivered.
LEMMA AnswerKeeps ==
  ASSUME SInv, Answer
  PROVE  SInv'
<1> USE DEF Dos
<1>1. /\ task # None /\ task.pc = "resolving" /\ Goes("answered") /\ delivery' = task.turn
      /\ UNCHANGED <<conn, todo, audioVars, heard, sent, asked, received>>
  BY DEF Answer, Runs
<1>2. task \in TurnTask /\ task.turn \in Turn /\ task.turn \notin heard
  BY <1>1, CurrentIsActive
<1>3. /\ task' \in TurnTask /\ task'.turn = task.turn /\ task'.pc = "answered"
      /\ task'.generation = task.generation /\ task'.chunks = task.chunks
  BY <1>1, <1>2, Going
<1>4. \A d \in Dos, u \in Named : Has(d, u)' <=> Has(d, u)
  BY <1>1, HasSame
<1>5. \A u \in Turn, e \in Event : Got(u, e)' <=> Got(u, e)
  BY <1>1, GotSame
<1>6. None \in Named /\ Turn \subseteq Named /\ None \notin Turn
  BY StreamingAssumption DEF Named
<1>7. Types'
  BY <1>1, <1>2, <1>3
     DEF SInv, Types, TypeOK, Counted, ForwarderOK, audioVars, StepType, Named
<1>8. Ordered'
  BY <1>1, HasSame DEF SInv
<1>9. TaskOK'
  <2>1. TaskOK
    BY DEF SInv, Control
  <2>2. QED
    BY <1>1, <1>2, <1>3, <1>4, <1>5, <1>6, <2>1 DEF TaskOK, Event
<1>10. ActiveOK'
  BY <1>1, <1>4, <1>5, <1>6 DEF SInv, Control, ActiveOK, Event
<1>11. StepsOK'
  BY <1>1, <1>4, <1>6 DEF SInv, Control, StepsOK
<1>12. AskedOK'
  BY <1>1, <1>2, <1>3 DEF SInv, Control, AskedOK, TaskOK
<1>13. GoneOK'
  BY <1>1, <1>2, <1>3, <1>4, <1>5, <1>6 DEF SInv, Control, GoneOK, Event
<1>14. DeliveryOK'
  BY <1>1, <1>2, <1>4, <1>6 DEF SInv, Control, DeliveryOK, TaskOK
<1>15. QED
  BY <1>7, <1>8, <1>9, <1>10, <1>11, <1>12, <1>13, <1>14 DEF SInv, Control

\* The speech was sent, at least one chunk of it.
LEMMA SpeechEndsKeeps ==
  ASSUME SInv, SpeechEnds
  PROVE  SInv'
<1> USE DEF Dos
<1>1. /\ task # None /\ task.pc = "speaking" /\ task.chunks > 0
      /\ UNCHANGED <<todo, audioVars, delivery, heard, sent, asked, received>>
  BY DEF SpeechEnds, Runs
<1>2. /\ task \in TurnTask /\ task.turn \in Turn /\ task.turn \notin heard
      /\ Current => conn.active = task.turn
  BY <1>1, CurrentIsActive
<1>3. \A u \in Turn, e \in Event : Got(u, e)' <=> Got(u, e)
  BY <1>1, GotSame
<1>4. CASE ~Current
  <2>1. task' = None /\ conn' = conn
    BY <1>4 DEF SpeechEnds
  <2>2. sent' \in [Turn -> Seq(Event)]
    BY <1>1 DEF SInv, Types, TypeOK
  <2>3. QED
    BY <1>1, <1>3, <2>1, <2>2, TaskGoesOn DEF Event
<1>5. CASE Current
  <2>1. /\ Goes("completing") /\ conn' = [conn EXCEPT !.completed = TRUE] /\ conn \in Connection
    BY <1>5 DEF SpeechEnds, SInv, Types, TypeOK
  <2>2. conn' \in Connection
    BY <2>1 DEF Connection
  <2>3. /\ conn'.active = conn.active /\ conn'.audio = conn.audio /\ conn'.seen = conn.seen
        /\ conn'.generation = conn.generation
    BY <2>1 DEF Connection
  <2>4. /\ task' \in TurnTask /\ task'.turn = task.turn /\ task'.pc = "completing"
        /\ task'.generation = task.generation /\ task'.chunks = task.chunks
    BY <1>2, <2>1, Going
  <2>5. \A d \in Dos, u \in Named : Has(d, u)' <=> Has(d, u)
    BY <1>1, HasSame
  <2>6. None \in Named /\ Turn \subseteq Named /\ None \notin Turn
    BY StreamingAssumption DEF Named
  <2>7. \A u \in Turn : u = task.turn => Got(u, "audio") /\ asked[u] = 1
    BY <1>1 DEF SInv, Control, TaskOK
  <2>8. \A u \in Turn : ~Has("spawn", u)
    <3>1. ~Has("await", None)
      BY <1>1, <1>2, <1>5, <2>1 DEF SInv, Control, TaskOK, Current, Connection, TurnTask
    <3>2. QED
      BY <1>1, <2>6, <3>1 DEF SInv, Control, TaskOK
  <2>9. Types'
    BY <1>1, <2>2, <2>3, <2>4
       DEF SInv, Types, TypeOK, Counted, ForwarderOK, audioVars, StepType, Named
  <2>10. Ordered'
    BY <1>1, HasSame DEF SInv
  <2>11. TaskOK'
    <3>1. TaskOK
      BY DEF SInv, Control
    <3>2. QED
      BY <1>1, <1>2, <1>3, <2>3, <2>4, <2>5, <2>6, <3>1 DEF TaskOK, Event
  <2>12. ActiveOK'
    BY <1>2, <1>3, <1>5, <2>3, <2>4, <2>5, <2>6, <2>7, <2>8 DEF SInv, Control, ActiveOK, Event
  <2>13. StepsOK'
    <3>1. StepsOK /\ asked' = asked /\ heard' = heard /\ conn'.completed
      BY <1>1, <2>1 DEF SInv, Control, Connection
    <3>2. QED
      BY <2>3, <2>5, <2>6, <3>1 DEF StepsOK
  <2>14. AskedOK'
    BY <1>1, <2>3, <2>4 DEF SInv, Control, AskedOK
  <2>15. GoneOK'
    BY <1>1, <1>3, <2>3, <2>4, <2>5, <2>6 DEF SInv, Control, GoneOK, Event
  <2>16. DeliveryOK'
    BY <1>1, <2>3, <2>5, <2>6 DEF SInv, Control, DeliveryOK
  <2>17. QED
    BY <2>9, <2>10, <2>11, <2>12, <2>13, <2>14, <2>15, <2>16 DEF SInv, Control
<1>6. QED
  BY <1>4, <1>5

\* The failure was reported; nothing waits for the playback of its turn.
LEMMA ReportKeeps ==
  ASSUME SInv, Report
  PROVE  SInv'
<1> USE DEF Dos
<1>1. /\ task # None /\ task.pc = "reporting" /\ task' = None
      /\ conn' = [conn EXCEPT !.active = None] /\ conn \in Connection
      /\ sent' = EmitOfTask("error")
      /\ UNCHANGED <<todo, audioVars, delivery, heard, asked, received>>
  BY DEF Report, Runs, SInv, Types, TypeOK
<1>2. conn' \in Connection
  BY <1>1 DEF Connection
<1>3. /\ conn'.active = None /\ conn'.audio = conn.audio /\ conn'.seen = conn.seen
      /\ conn'.generation = conn.generation /\ conn'.completed = conn.completed
  BY <1>1 DEF Connection
<1>4. task.turn \in Turn /\ sent \in [Turn -> Seq(Event)] /\ "error" \in Event
  BY <1>1, CurrentIsActive DEF SInv, Types, TypeOK, Event
<1>5. TaskEmits("error")
  BY <1>1, <1>4, TaskEmitted
<1>6. \A u \in Turn, e \in {"audio", "cancelled"} : Got(u, e)' <=> Got(u, e)
  BY <1>5 DEF TaskEmits, Event
<1>7. \A d \in Dos, u \in Named : Has(d, u)' <=> Has(d, u)
  BY <1>1, HasSame
<1>8. None \in Named /\ Turn \subseteq Named /\ None \notin Turn
  BY StreamingAssumption DEF Named
<1>9. delivery = None
  BY <1>1 DEF SInv, Control, TaskOK
<1>10. /\ conn.audio = None
       /\ \A u \in Turn : ~Has("confirm", u) /\ (Has("spawn", u) => conn.active # u)
  <2>1. conn.audio = None
    BY <1>1 DEF SInv, Control, TaskOK
  <2>2. \A u \in Turn : Has("confirm", u) => FALSE
    BY <1>1, CurrentIsActive DEF SInv, Control, StepsOK
  <2>3. ASSUME NEW u \in Turn, Has("spawn", u), conn.active = u PROVE FALSE
    <3>1. Has("await", None)
      BY <1>1, <1>8, <2>3 DEF SInv, Control, TaskOK
    <3>2. QED
      BY <1>8, <2>3, <3>1 DEF SInv, Control, ActiveOK
  <2>4. QED
    BY <2>1, <2>2, <2>3
<1>11. Types'
  BY <1>1, <1>2, <1>3, <1>5
     DEF TaskEmits, SInv, Types, TypeOK, Counted, ForwarderOK, audioVars, StepType, Named
<1>12. Ordered'
  BY <1>1, HasSame DEF SInv
<1>13. TaskOK' /\ ActiveOK'
  BY <1>1, <1>3, <1>8 DEF TaskOK, ActiveOK
<1>14. StepsOK'
  BY <1>1, <1>3, <1>7, <1>8, <1>10 DEF SInv, Control, StepsOK
<1>15. AskedOK'
  BY <1>1, <1>3 DEF SInv, Control, AskedOK
<1>16. GoneOK'
  BY <1>1, <1>3, <1>6, <1>7, <1>8 DEF SInv, Control, GoneOK
<1>17. DeliveryOK'
  BY <1>1, <1>8, <1>9 DEF DeliveryOK
<1>18. QED
  BY <1>11, <1>12, <1>13, <1>14, <1>15, <1>16, <1>17 DEF SInv, Control

LEMMA TaskStepsKeep ==
  ASSUME SInv, TaskSteps
  PROVE  SInv'
  BY PlainTaskStepKeeps, AnswerKeeps, SpeechEndsKeeps, ReportKeeps DEF TaskSteps, PlainTaskStep

-----------------------------------------------------------------------------
\* The microphone's audio and the transcriber.
LEMMA TakeTypes ==
  ASSUME Types, Take
  PROVE  Types'
<1> DEFINE message == Head(queue)
           Message == [type: {"append", "commit", "clear"}, turn: Turn]
<1>1. /\ queue # <<>> /\ queue \in Seq(Message) /\ Len(queue) <= QueueSize
      /\ forwarder \in Forwarder
      /\ queue' = Tail(queue)
      /\ forwarder' = [forwarder EXCEPT !.pc = NextForward(message), !.turn = message.turn]
      /\ UNCHANGED <<conn, todo, task, provider, delivery, heard, sent, asked, received>>
  BY DEF Take, Types, TypeOK
<1>2. message \in Message /\ Tail(queue) \in Seq(Message) /\ Len(Tail(queue)) = Len(queue) - 1
  <2> HIDE DEF Message
  <2>1. QED
    BY <1>1
<1>3. NextForward(message) \in {"idle", "clear", "prepare", "append", "commit"}
  BY <1>2 DEF NextForward
<1>4. Len(Tail(queue)) <= QueueSize
  BY <1>1, <1>2, StreamingAssumption
<1>5. forwarder' \in Forwarder /\ forwarder'.turn \in Turn
  BY <1>1, <1>2, <1>3 DEF Forwarder
<1>6. QED
  BY <1>1, <1>2, <1>4, <1>5 DEF Types, TypeOK, Counted, ForwarderOK

LEMMA ForwardTypes ==
  ASSUME Types, ForwardClear \/ ForwardAppend \/ ForwardCommit \/ ForwardFails
  PROVE  Types'
<1>1. /\ forwarder \in Forwarder /\ provider \in [buffer: Seq(Turn), inputs: SUBSET Turn]
      /\ UNCHANGED <<conn, todo, task, queue, delivery, heard, sent, asked, received>>
  BY DEF Types, TypeOK, ForwardClear, ForwardAppend, ForwardCommit, ForwardFails
<1>2. forwarder.turn \in Turn
  BY DEF Types, ForwarderOK, ForwardClear, ForwardAppend, ForwardCommit, ForwardFails,
         ForwardersAt
<1>3. /\ provider.buffer \in Seq(Turn) /\ provider.inputs \in SUBSET Turn
      /\ Append(provider.buffer, forwarder.turn) \in Seq(Turn)
      /\ provider.inputs \cup {forwarder.turn} \in SUBSET Turn
      /\ <<>> \in Seq(Turn)
  BY <1>1, <1>2
<1>4. /\ forwarder' \in Forwarder
      /\ forwarder'.turn = forwarder.turn
  BY <1>1, <1>2 DEF ForwardClear, ForwardAppend, ForwardCommit, ForwardFails, Forwarder
<1>5. provider' \in [buffer: Seq(Turn), inputs: SUBSET Turn]
  <2>1. \/ provider' = provider
        \/ provider' = [provider EXCEPT !.buffer = <<>>]
        \/ provider' = [provider EXCEPT !.buffer = Append(provider.buffer, forwarder.turn)]
        \/ provider' = [buffer |-> <<>>, inputs |-> provider.inputs \cup {forwarder.turn}]
    BY DEF ForwardClear, ForwardAppend, ForwardCommit, ForwardFails
  <2> DEFINE B == Seq(Turn)
             I == SUBSET Turn
  <2>2. /\ provider \in [buffer: B, inputs: I]
        /\ Append(provider.buffer, forwarder.turn) \in B /\ <<>> \in B
        /\ provider.inputs \cup {forwarder.turn} \in I
    BY <1>1, <1>3
  <2> DEFINE longer == Append(provider.buffer, forwarder.turn)
             more == provider.inputs \cup {forwarder.turn}
  <2> HIDE DEF B, I
  <2>3. provider' \in [buffer: B, inputs: I]
    <3>1. longer \in B /\ more \in I /\ <<>> \in B
      BY <2>2
    <3>2. \/ provider' = provider
          \/ provider' = [provider EXCEPT !.buffer = <<>>]
          \/ provider' = [provider EXCEPT !.buffer = longer]
          \/ provider' = [buffer |-> <<>>, inputs |-> more]
      BY <2>1
    <3> HIDE DEF longer, more
    <3>3. QED
      BY <2>2, <3>1, <3>2
  <2>4. QED
    BY <2>3 DEF B, I
<1>6. QED
  BY <1>1, <1>2, <1>4, <1>5 DEF Types, TypeOK, Counted, ForwarderOK

LEMMA AudioStepsKeep ==
  ASSUME SInv, AudioSteps
  PROVE  SInv'
<1>1. UNCHANGED <<conn, todo, task, delivery, heard, sent, asked, received>>
  BY DEF AudioSteps, Take, ForwardClear, ForwardAppend, ForwardCommit, ForwardFails
<1>2. Types'
  BY TakeTypes, ForwardTypes DEF AudioSteps, SInv
<1>3. QED
  BY <1>1, <1>2, GotSame, SameControlKeeps DEF SameControl, Event

LEMMA HandleFailureKeeps ==
  ASSUME SInv, HandleFailure
  PROVE  SInv'
<1>1. /\ forwarder' = [forwarder EXCEPT !.pc = "idle"] /\ forwarder \in Forwarder
      /\ forwarder.turn \in Turn
      /\ UNCHANGED <<todo, task, provider, delivery, heard, asked, received>>
  BY DEF HandleFailure, ForwardersAt, SInv, Types, TypeOK, ForwarderOK
<1>2. forwarder' \in Forwarder /\ ForwarderOK'
  BY <1>1 DEF Forwarder, ForwarderOK
<1>3. CASE forwarder.turn = conn.audio
  <2>1. Discard(conn) /\ sent' = Emit(forwarder.turn, <<"error", "cancelled">>)
    BY <1>3 DEF HandleFailure
  <2>2. received' \in 0 .. MaxMessages
    BY <1>1 DEF SInv, Types, TypeOK
  <2>3. QED
    BY <1>1, <1>2, <1>3, <2>1, <2>2, RefusedEvents, AbandonNow
<1>4. CASE forwarder.turn # conn.audio
  <2>1. UNCHANGED <<conn, queue, sent>>
    BY <1>4 DEF HandleFailure
  <2>2. Types'
    BY <1>1, <1>2, <2>1 DEF SInv, Types, TypeOK, Counted
  <2>3. QED
    BY <1>1, <2>1, <2>2, GotSame, SameControlKeeps DEF SameControl, Event
<1>5. QED
  BY <1>3, <1>4

\* A transcript that ends an input.
LEMMA TranscribesTypes ==
  ASSUME TypeOK, NEW t \in Turn, Transcribes(t)
  PROVE  /\ provider' \in [buffer: Seq(Turn), inputs: SUBSET Turn]
         /\ provider'.buffer = provider.buffer /\ provider'.inputs = provider.inputs \ {t}
         /\ todo = <<>> /\ ~conn.closed
<1>1. /\ provider' = [provider EXCEPT !.inputs = @ \ {t}]
      /\ provider \in [buffer: Seq(Turn), inputs: SUBSET Turn]
      /\ todo = <<>> /\ ~conn.closed
  BY DEF Transcribes, TypeOK
<1> DEFINE B == Seq(Turn)
           I == SUBSET Turn
<1>2. provider \in [buffer: B, inputs: I] /\ provider.inputs \ {t} \in I
  BY <1>1
<1> HIDE DEF B, I
<1>3. /\ provider' \in [buffer: B, inputs: I]
      /\ provider'.buffer = provider.buffer /\ provider'.inputs = provider.inputs \ {t}
  BY <1>1, <1>2
<1>4. QED
  BY <1>1, <1>3 DEF B, I

LEMMA TranscriptFinalKeeps ==
  ASSUME SInv, NEW t \in Turn, TranscriptFinal(t)
  PROVE  SInv'
<1> USE DEF Dos
<1>1. /\ conn.audio = t /\ todo = <<>>
      /\ conn' = [Started(t) EXCEPT !.audio = None, !.committed = FALSE]
      /\ sent' = Emit(t, <<"final">>)
      /\ todo' = <<Step("spawn", t)>>
      /\ UNCHANGED <<task, queue, forwarder, delivery, heard, asked, received>>
      /\ conn \in Connection /\ sent \in [Turn -> Seq(Event)]
      /\ provider' \in [buffer: Seq(Turn), inputs: SUBSET Turn]
  BY TranscribesTypes DEF TranscriptFinal, SInv, Types, TypeOK
<1>2. conn' \in Connection
  BY <1>1 DEF Started, Connection
<1>3. /\ conn'.active = t /\ conn'.audio = None /\ conn'.seen = conn.seen
      /\ conn'.generation = conn.generation /\ conn'.completed = FALSE
  BY <1>1 DEF Started, Connection
<1>4. Step("spawn", t) \in StepType
  BY DEF Step, StepType, Named
<1>5. todo' \in Seq(StepType) /\ DOMAIN todo' = 1 .. 1 /\ todo'[1] = Step("spawn", t)
  BY <1>1, <1>4
<1>6. \A d \in Dos, u \in Named : Has(d, u)' <=> d = "spawn" /\ u = t
  BY <1>5 DEF Has, ToSet, Step
<1>7. <<"final">> \in Seq(Event) /\ \A e \in ToSet(<<"final">>) : e = "final"
  BY DEF Event, ToSet
<1>8. Emits(t, <<"final">>)
  BY <1>1, <1>7, Emitted
<1>9. \A u \in Turn, e \in {"audio", "cancelled"} : Got(u, e)' <=> Got(u, e)
  BY <1>7, <1>8 DEF Emits, Event
<1>10. None \in Named /\ Turn \subseteq Named /\ None \notin Turn
  BY StreamingAssumption DEF Named
<1>11. /\ task = None /\ asked[t] = 0 /\ t \in conn.seen
       /\ t \notin heard /\ ~Got(t, "cancelled") /\ conn.active = None
  BY <1>1, <1>10
     DEF SInv, Control, TaskOK, StepsOK, GoneOK, ActiveOK, Types, TypeOK, Connection
<1>12. \A d \in Dos, u \in Named : ~Has(d, u)
  BY <1>1, NothingLeft
<1>13. Types'
  BY <1>1, <1>2, <1>3, <1>5, <1>8
     DEF Emits, SInv, Types, TypeOK, Counted, ForwarderOK, StepType, Named
<1>14. Ordered'
  BY <1>5, <1>6, <1>10 DEF Ordered, InOrder
<1>15. TaskOK'
  BY <1>1, <1>11 DEF TaskOK
<1>16. ActiveOK'
  BY <1>3, <1>6, <1>11 DEF ActiveOK
<1>17. StepsOK'
  BY <1>1, <1>3, <1>6, <1>10, <1>11 DEF StepsOK
<1>18. AskedOK'
  BY <1>1, <1>3 DEF SInv, Control, AskedOK
<1>19. GoneOK'
  BY <1>1, <1>3, <1>6, <1>9, <1>10, <1>11 DEF SInv, Control, GoneOK
<1>20. DeliveryOK'
  BY <1>1, <1>10, <1>11, <1>12 DEF SInv, Control, DeliveryOK
<1>21. QED
  BY <1>13, <1>14, <1>15, <1>16, <1>17, <1>18, <1>19, <1>20 DEF SInv, Control

\* Nothing was said: the utterance ends without a turn.
LEMMA TranscriptEmptyKeeps ==
  ASSUME SInv, NEW t \in Turn, TranscriptEmpty(t)
  PROVE  SInv'
<1>1. /\ conn.audio = t
      /\ conn' = [conn EXCEPT !.audio = None, !.committed = FALSE]
      /\ sent' = Emit(t, <<"error">>)
      /\ UNCHANGED <<todo, task, queue, forwarder, delivery, heard, asked, received>>
      /\ conn \in Connection /\ sent \in [Turn -> Seq(Event)]
      /\ provider' \in [buffer: Seq(Turn), inputs: SUBSET Turn]
  BY TranscribesTypes DEF TranscriptEmpty, SInv, Types, TypeOK
<1>2. conn' \in Connection
  BY <1>1 DEF Connection
<1>3. /\ conn'.active = conn.active /\ conn'.audio = None /\ conn'.seen = conn.seen
      /\ conn'.generation = conn.generation /\ conn'.completed = conn.completed
  BY <1>1 DEF Connection
<1>4. <<"error">> \in Seq(Event) /\ "audio" \notin ToSet(<<"error">>)
  BY DEF Event, ToSet
<1>5. Emits(t, <<"error">>)
  BY <1>1, <1>4, Emitted
<1>6. Types'
  BY <1>1, <1>2, <1>3, <1>5 DEF Emits, SInv, Types, TypeOK, Counted, ForwarderOK
<1>7. Ordered' /\ \A d \in Dos, u \in Named : Has(d, u)' <=> Has(d, u) /\ d \notin {}
  BY <1>1, HasSame DEF SInv
<1>8. QED
  BY <1>1, <1>3, <1>4, <1>5, <1>6, <1>7, AbandonKeeps

LEMMA TranscriptFailsKeeps ==
  ASSUME SInv, NEW t \in Turn, TranscriptFails(t)
  PROVE  SInv'
<1>1. /\ conn.audio = t /\ Discard(conn)
      /\ sent' = Emit(t, <<"error", "cancelled">>)
      /\ UNCHANGED <<todo, task, forwarder, delivery, heard, asked, received>>
      /\ conn \in Connection /\ sent \in [Turn -> Seq(Event)]
      /\ queue \in Seq([type: {"append", "commit", "clear"}, turn: Turn])
      /\ Len(queue) <= QueueSize
      /\ provider' \in [buffer: Seq(Turn), inputs: SUBSET Turn]
  BY TranscribesTypes DEF TranscriptFails, SInv, Types, TypeOK
<1>2. /\ conn' \in Connection
      /\ conn'.audio = None /\ conn'.active = conn.active /\ conn'.seen = conn.seen
      /\ conn'.generation = conn.generation /\ conn'.completed = conn.completed
      /\ queue' \in Seq([type: {"append", "commit", "clear"}, turn: Turn])
      /\ Len(queue') <= QueueSize
  BY <1>1, Discards
<1>3. Emits(t, <<"error", "cancelled">>)
  BY <1>1, Emitted, RefusedEvents
<1>4. Types'
  BY <1>1, <1>2, <1>3 DEF Emits, SInv, Types, TypeOK, Counted, ForwarderOK
<1>5. Ordered' /\ \A d \in Dos, u \in Named : Has(d, u)' <=> Has(d, u) /\ d \notin {}
  BY <1>1, HasSame DEF SInv
<1>6. QED
  BY <1>1, <1>2, <1>3, <1>4, <1>5, RefusedEvents, AbandonKeeps

LEMMA TranscriptIgnoredKeeps ==
  ASSUME SInv, NEW t \in Turn, TranscriptIgnored(t)
  PROVE  SInv'
<1>1. /\ UNCHANGED <<conn, todo, task, queue, forwarder, delivery, heard, sent, asked, received>>
      /\ provider' \in [buffer: Seq(Turn), inputs: SUBSET Turn]
  BY TranscribesTypes DEF TranscriptIgnored, SInv, Types
<1>2. Types'
  BY <1>1 DEF SInv, Types, TypeOK, Counted, ForwarderOK
<1>3. QED
  BY <1>1, <1>2, GotSame, SameControlKeeps DEF SameControl, Event

-----------------------------------------------------------------------------
LEMMA InitSInv ==
  ASSUME Init
  PROVE  SInv
<1>1. todo = <<>> /\ task = None /\ heard = {} /\ delivery = None
  BY DEF Init
<1>2. \A d \in Dos, u \in Named : ~Has(d, u)
  BY <1>1, NothingLeft
<1>3. \A u \in Turn, e \in Event : ~Got(u, e)
  BY DEF Init, Got, ToSet
<1>4. IsFiniteSet(conn.seen) /\ Cardinality(conn.seen) = 0
  BY FS_EmptySet DEF Init
<1>5. None \notin Turn
  BY StreamingAssumption
<1>6. TypeOK
  <2>1. 0 \in 0 .. MaxAudio /\ 0 \in 0 .. MaxMessages /\ 0 <= MaxTurns /\ 0 <= QueueSize
    BY StreamingAssumption
  <2>2. conn \in Connection
    BY <2>1 DEF Init, Connection
  <2>3. forwarder \in Forwarder
    BY DEF Init, Forwarder
  <2>4. provider \in [buffer: Seq(Turn), inputs: SUBSET Turn]
    <3>1. <<>> \in Seq(Turn) /\ {} \in SUBSET Turn
      OBVIOUS
    <3>2. QED
      BY <3>1 DEF Init
  <2>5. /\ todo \in Seq([do: Dos, turn: Turn \cup {None}])
        /\ queue \in Seq([type: {"append", "commit", "clear"}, turn: Turn]) /\ Len(queue) = 0
        /\ sent \in [Turn -> Seq(Event)] /\ asked \in [Turn -> Nat]
    BY DEF Init
  <2>6. QED
    BY <1>1, <1>4, <2>1, <2>2, <2>3, <2>4, <2>5 DEF Init, TypeOK, Dos
<1>7. Types
  BY <1>4, <1>6 DEF Types, Counted, ForwarderOK, Init
<1>8. Ordered
  BY <1>1, <1>2 DEF Ordered, InOrder
<1>9. conn.active = None /\ conn.audio = None /\ \A u \in Turn : asked[u] = 0
  BY DEF Init
<1>10. TaskOK /\ ActiveOK
  BY <1>1, <1>5, <1>9 DEF TaskOK, ActiveOK
<1>11. StepsOK
  BY <1>2, <1>5, <1>9 DEF StepsOK, Dos, Named
<1>12. AskedOK /\ GoneOK /\ DeliveryOK
  BY <1>1, <1>3, <1>5, <1>9 DEF AskedOK, GoneOK, DeliveryOK, Event
<1>13. QED
  BY <1>7, <1>8, <1>10, <1>11, <1>12 DEF SInv, Control

LEMMA StutterSInv ==
  ASSUME SInv, UNCHANGED vars
  PROVE  SInv'
<1>1. UNCHANGED <<conn, todo, task, queue, forwarder, provider, delivery, heard, sent, asked,
                  received>>
  BY DEF vars
<1>2. Types'
  BY <1>1 DEF SInv, Types, TypeOK, Counted, ForwarderOK
<1>3. QED
  BY <1>1, <1>2, GotSame, SameControlKeeps DEF SameControl, Event

LEMMA NextSInv ==
  ASSUME SInv, Next
  PROVE  SInv'
<1>1. ASSUME NEW t \in Turn, ReceiveText(t) \/ ReceiveFirstAudio(t) \/ ReceiveMoreAudio(t)
                              \/ ReceiveCommit(t) \/ ReceivePlaybackStarted(t)
                              \/ ReceivePlaybackCompleted(t)
      PROVE  SInv'
  BY <1>1, ReceiveTextKeeps, ReceiveFirstAudioKeeps, ReceiveMoreAudioKeeps, ReceiveCommitKeeps,
     ReceivePlaybackStartedKeeps, ReceivePlaybackCompletedKeeps
<1>2. ASSUME NEW t \in Turn, TranscriptFinal(t) \/ TranscriptEmpty(t) \/ TranscriptFails(t)
                              \/ TranscriptIgnored(t)
      PROVE  SInv'
  BY <1>2, TranscriptFinalKeeps, TranscriptEmptyKeeps, TranscriptFailsKeeps,
     TranscriptIgnoredKeeps
<1>3. ASSUME NEW requested \in Turn \cup {None}, ReceiveInterrupt(requested)
      PROVE  SInv'
  BY <1>3, ReceiveInterruptKeeps DEF Named
<1>4. QED
  BY <1>1, <1>2, <1>3, StepsKeep, DisconnectKeeps, TaskStepsKeep, AudioStepsKeep,
     HandleFailureKeeps DEF Next

\* SInv is an invariant.
LEMMA SInvHolds == Spec => []SInv
<1>1. Init => SInv
  BY InitSInv
<1>2. SInv /\ [Next]_vars => SInv'
  BY NextSInv, StutterSInv
<1>3. QED
  BY <1>1, <1>2, PTL DEF Spec

\* Every variable keeps its type, the utterance and the queue their limits, whatever the
\* browser sends and however its messages meet the turn's task (streaming.py).
THEOREM StreamTyped == Spec => []TypeOK
<1>1. SInv => TypeOK
  BY DEF SInv, Types
<1>2. QED
  BY <1>1, SInvHolds, PTL

\* A turn is given to the agents once, however often its messages are repeated: _claim
\* takes an identifier once, and an utterance routes only while it is recorded.
THEOREM TurnsAreAskedOnce == Spec => []AskedOnce
<1>1. SInv => AskedOnce
  BY DEF SInv, Control, AskedOK, AskedOnce
<1>2. QED
  BY <1>1, SInvHolds, PTL

\* What confirm_delivery puts into the history was sent to the end and not cut.
THEOREM HistoryWasPlayed == Spec => []HeardWasPlayed
<1>1. SInv => HeardWasPlayed
  BY DEF SInv, Control, GoneOK, HeardWasPlayed, Cancelled, Got, Types, TypeOK
<1>2. QED
  BY <1>1, SInvHolds, PTL

\* No interruption, failure or disconnection leaves a delivery that a later
\* acknowledgement could confirm.
THEOREM DeliveriesHaveOwners == Spec => []NoOrphanDelivery
<1>1. SInv => NoOrphanDelivery
  BY DEF SInv, Control, DeliveryOK, NoOrphanDelivery, Has, Types, TypeOK
<1>2. QED
  BY <1>1, SInvHolds, PTL

-----------------------------------------------------------------------------
\* Nothing of a turn follows its interruption. A turn that is over: the browser was told
\* so, or will be told before anything else is done.
Over(t) == Got(t, "cancelled") \/ Has("tell", t)

\* Such a turn is not recorded, not about to start, and its task is not current.
LEMMA OverIsQuiet ==
  ASSUME SInv, NEW t \in Turn, Over(t)
  PROVE  /\ conn.audio # t /\ ~Has("listen", t) /\ ~Has("start", t)
         /\ task # None /\ task.turn = t => ~Current
<1>1. None \in Named /\ Turn \subseteq Named /\ None \notin Turn
  BY StreamingAssumption DEF Named
<1>2. conn.audio # t /\ ~Has("listen", t) /\ ~Has("spawn", t)
  BY DEF Over, SInv, Control, GoneOK, StepsOK
<1>3. ~Has("start", t)
  BY <1>2 DEF SInv, Control, StepsOK
<1>4. ASSUME task # None, task.turn = t, Current PROVE FALSE
  <2>1. Has("tell", t)
    BY <1>4 DEF Over, SInv, Control, GoneOK
  <2>2. Has("await", None)
    BY <1>1, <1>4, <2>1 DEF SInv, Control, TaskOK, Dos
  <2>3. QED
    BY <1>4, <2>2, CurrentIsActive
       DEF SInv, Control, TaskOK, Current, Types, TypeOK, Connection, TurnTask
<1>5. QED
  BY <1>2, <1>3, <1>4

\* An event goes to the recorded turn, to the one that starts or is listened to, to the
\* one of the current task, or it is the cancellation that was left to tell.
LEMMA WhoIsSent ==
  ASSUME SInv, Next
  PROVE  \/ sent' = sent
         \/ \E u \in Turn, events \in Seq(Event) :
              /\ sent' = Emit(u, events)
              /\ \/ conn.audio = u \/ Has("listen", u) \/ Has("start", u)
                 \/ Has("tell", u) /\ events = <<"cancelled">>
         \/ /\ task # None
            /\ \E event \in Event : sent' = EmitOfTask(event)
<1> DEFINE Sends(u, events) ==
             /\ sent' = Emit(u, events)
             /\ \/ conn.audio = u \/ Has("listen", u) \/ Has("start", u)
                \/ Has("tell", u) /\ events = <<"cancelled">>
<1>1. /\ <<"cancelled", "refused">> \in Seq(Event) /\ <<"error", "cancelled">> \in Seq(Event)
      /\ <<"cancelled">> \in Seq(Event) /\ <<"started">> \in Seq(Event)
      /\ <<"started", "final">> \in Seq(Event) /\ <<"final">> \in Seq(Event)
      /\ <<"error">> \in Seq(Event)
  BY DEF Event
<1>2. ASSUME NEW t \in Turn,
             \/ ReceiveMoreAudio(t) \/ ReceiveCommit(t) \/ TranscriptFinal(t)
             \/ TranscriptEmpty(t) \/ TranscriptFails(t)
      PROVE  sent' = sent \/ \E events \in Seq(Event) : Sends(t, events)
  <2>1. conn.audio = t
    BY <1>2 DEF ReceiveMoreAudio, ReceiveCommit, TranscriptFinal, TranscriptEmpty, TranscriptFails
  <2>2. \/ sent' = sent
        \/ \E events \in {<<"cancelled", "refused">>, <<"error", "cancelled">>, <<"started">>,
                          <<"final">>, <<"error">>} : sent' = Emit(t, events)
    BY <1>2, <2>1 DEF ReceiveMoreAudio, ReceiveCommit, TranscriptFinal, TranscriptEmpty,
                      TranscriptFails, AcceptChunk, Refuse
  <2>3. QED
    BY <1>1, <2>1, <2>2
<1>3. ASSUME DiscardAudio
      PROVE  sent' = sent \/ \E u \in Turn, events \in Seq(Event) : Sends(u, events)
  <2>1. conn.audio \in Turn \cup {None}
    BY DEF SInv, Types, TypeOK, Connection
  <2>2. QED
    BY <1>1, <1>3, <2>1 DEF DiscardAudio, Cancellation
<1>4. ASSUME Listen
      PROVE  sent' = sent \/ \E u \in Turn, events \in Seq(Event) : Sends(u, events)
  <2>1. PICK u \in Turn : Head(todo).turn = u /\ Has("listen", u)
    BY <1>4, Pops DEF Listen, Dos
  <2>2. [conn EXCEPT !.audio = u].audio = u
    BY DEF SInv, Types, TypeOK, Connection
  <2>3. sent' = sent \/ sent' = Emit(u, <<"cancelled", "refused">>)
    BY <1>4, <2>1, <2>2 DEF Listen, AcceptChunk, Refuse
  <2>4. QED
    BY <1>1, <2>1, <2>3
<1>5. ASSUME Start
      PROVE  \E u \in Turn, events \in Seq(Event) : Sends(u, events)
  <2>1. PICK u \in Turn : Head(todo).turn = u /\ Has("start", u)
    BY <1>5, Pops DEF Start, Dos
  <2>2. QED
    BY <1>1, <1>5, <2>1 DEF Start
<1>6. ASSUME TellCancelled
      PROVE  \E u \in Turn, events \in Seq(Event) : Sends(u, events)
  <2>1. PICK u \in Turn : Head(todo).turn = u /\ Has("tell", u)
    BY <1>6, Pops DEF TellCancelled, Dos
  <2>2. QED
    BY <1>1, <1>6, <2>1 DEF TellCancelled
<1>7. ASSUME HandleFailure
      PROVE  sent' = sent \/ \E u \in Turn, events \in Seq(Event) : Sends(u, events)
  <2>1. forwarder.turn \in Turn
    BY <1>7 DEF HandleFailure, ForwardersAt, SInv, Types, ForwarderOK
  <2>2. QED
    BY <1>1, <1>7, <2>1 DEF HandleFailure
<1>8. ASSUME TaskSteps
      PROVE  sent' = sent \/ (task # None /\ \E event \in Event : sent' = EmitOfTask(event))
  BY <1>8 DEF TaskSteps, Route, Answer, Reply, Speak, SpeechEnds, Complete, TaskFails,
              UndeliverFailed, Report, EndCancelled, Runs, Event
<1>9. ASSUME Steps
      PROVE  sent' = sent \/ \E u \in Turn, events \in Seq(Event) : Sends(u, events)
  <2>1. CASE DiscardAudio \/ Listen \/ Start \/ TellCancelled
    BY <2>1, <1>3, <1>4, <1>5, <1>6
  <2>2. CASE AwaitTask \/ Undeliver \/ Spawn \/ Confirm \/ Stop
    BY <2>2 DEF AwaitTask, Undeliver, Spawn, Confirm, Stop
  <2>3. QED
    BY <1>9, <2>1, <2>2 DEF Steps
<1>10. ASSUME AudioSteps \/ Disconnect PROVE sent' = sent
  BY <1>10 DEF AudioSteps, Take, ForwardClear, ForwardAppend, ForwardCommit, ForwardFails,
               Disconnect
<1>11. ASSUME NEW t \in Turn,
              \/ ReceiveText(t) \/ ReceiveFirstAudio(t) \/ ReceivePlaybackStarted(t)
              \/ ReceivePlaybackCompleted(t) \/ TranscriptIgnored(t)
       PROVE  sent' = sent
  BY <1>11 DEF ReceiveText, ReceiveFirstAudio, ReceivePlaybackStarted,
               ReceivePlaybackCompleted, TranscriptIgnored
<1>12. ASSUME NEW requested \in Turn \cup {None}, ReceiveInterrupt(requested) PROVE sent' = sent
  BY <1>12 DEF ReceiveInterrupt
<1> HIDE DEF Sends
<1>13. \/ sent' = sent
       \/ \E u \in Turn, events \in Seq(Event) : Sends(u, events)
       \/ (task # None /\ \E event \in Event : sent' = EmitOfTask(event))
  BY <1>2, <1>7, <1>8, <1>9, <1>10, <1>11, <1>12 DEF Next
<1>14. QED
  BY <1>13 DEF Sends

\* From the moment a turn is interrupted the browser gets one more event of it, the
\* cancellation, wherever its task, its audio and its transcript were (streaming.py).
THEOREM InterruptedTurnsAreQuiet == Spec => NothingAfterInterrupt
<1> DEFINE Quiet ==
             \A t \in Turn :
               /\ Cancelled(t) \/ Step("tell", t) \in ToSet(todo)
               /\ sent'[t] # sent[t]
               => ~Cancelled(t) /\ sent'[t] = Append(sent[t], "cancelled")
<1>1. ASSUME SInv, Next, NEW t \in Turn, Over(t), sent'[t] # sent[t]
      PROVE  ~Got(t, "cancelled") /\ sent'[t] = Append(sent[t], "cancelled")
  <2>1. sent \in [Turn -> Seq(Event)]
    BY <1>1 DEF SInv, Types, TypeOK
  <2>2. /\ conn.audio # t /\ ~Has("listen", t) /\ ~Has("start", t)
        /\ task # None /\ task.turn = t => ~Current
    BY <1>1, OverIsQuiet
  <2>3. ASSUME NEW u \in Turn, NEW events \in Seq(Event), sent' = Emit(u, events),
               \/ conn.audio = u \/ Has("listen", u) \/ Has("start", u)
               \/ Has("tell", u) /\ events = <<"cancelled">>
        PROVE  ~Got(t, "cancelled") /\ sent'[t] = Append(sent[t], "cancelled")
    <3>1. Emits(u, events)
      BY <2>1, <2>3, Emitted
    <3>2. u = t /\ ~conn.closed
      BY <3>1, <1>1 DEF Emits
    <3>3. Has("tell", t) /\ events = <<"cancelled">>
      BY <2>2, <2>3, <3>2
    <3>4. sent'[t] = sent[t] \o <<"cancelled">>
      BY <3>1, <3>2, <3>3 DEF Emits
    <3>5. sent[t] \in Seq(Event) /\ "cancelled" \in Event
      BY <2>1 DEF Event
    <3>6. sent'[t] = Append(sent[t], "cancelled")
      BY <3>4, <3>5
    <3>7. ~Got(t, "cancelled")
      BY <1>1, <3>3 DEF SInv, Control, GoneOK
    <3>8. QED
      BY <3>6, <3>7
  <2>4. ASSUME NEW event \in Event, task # None, sent' = EmitOfTask(event)
        PROVE  FALSE
    <3>1. TaskEmits(event)
      BY <1>1, <2>1, <2>4, CurrentIsActive, TaskEmitted
    <3>2. QED
      BY <1>1, <2>2, <2>4, <3>1 DEF TaskEmits
  <2>5. QED
    BY <1>1, <2>3, <2>4, WhoIsSent
<1>2. SInv /\ [Next]_vars => [Quiet]_vars
  <2>1. SInv /\ Next => Quiet
    BY <1>1 DEF Over, Got, Has, Cancelled
  <2>2. QED
    BY <2>1
<1>3. QED
  BY <1>2, SInvHolds, PTL DEF Spec, NothingAfterInterrupt

-----------------------------------------------------------------------------
\* What is recognized is what was recorded. The inductive invariant: every chunk of the
\* recorded turn is in the queue, in the forwarder's hand or in the provider's buffer,
\* in this order, and the commit comes behind all of them.
Audio(a) == [type |-> "append", turn |-> a]
CommitOf(a) == [type |-> "commit", turn |-> a]

\* The last messages of q are w chunks of the turn a and e commits of it, and no other
\* message is one of a.
Holding(q, a, w, e) ==
  /\ w + e <= Len(q)
  /\ \A i \in DOMAIN q :
       /\ i <= Len(q) - (w + e) => q[i].turn # a
       /\ Len(q) - (w + e) < i /\ i <= Len(q) - e => q[i] = Audio(a)
       /\ Len(q) - e < i => q[i] = CommitOf(a)

\* A turn of which there is audio anywhere.
Recorded(t) ==
  \/ t \in {conn.audio, forwarder.turn, forwarder.holds} \/ t \in provider.inputs
  \/ \E i \in DOMAIN queue : queue[i].turn = t
FreshOK ==
  \A t \in Turn : t \notin conn.seen \/ Has("listen", t) => ~Recorded(t)
HoldsOK == forwarder.pc \in {"append", "clear"} => forwarder.holds = forwarder.turn
ListenOK ==
  \A t \in Turn : Has("listen", t) /\ ~Has("discard", None) =>
    conn.bytes = 0 /\ ~conn.committed

AtWork(pc, a) == forwarder.pc = pc /\ forwarder.turn = a
InHand(a) == IF AtWork("prepare", a) \/ AtWork("append", a) THEN 1 ELSE 0
InBuffer(a) == IF forwarder.holds = a THEN Len(provider.buffer) ELSE 0

\* The forwarder's part of it: it neither clears nor mixes what the provider has of a.
Carried(a) ==
  /\ ~AtWork("clear", a)
  /\ forwarder.holds = a =>
       /\ \A i \in DOMAIN provider.buffer : provider.buffer[i] = a
       /\ forwarder.pc # "prepare"
       /\ forwarder.pc = "commit" => forwarder.turn = a
Whole(a) ==
  /\ conn.bytes > 0
  /\ Carried(a)
  /\ \E w \in Nat, e \in {0, 1} :
       /\ Holding(queue, a, w, e)
       /\ conn.bytes = w + InHand(a) + InBuffer(a)
       /\ conn.committed <=> e = 1 \/ AtWork("commit", a)
       /\ AtWork("commit", a) => w = 0 /\ e = 0
Lost(a) == a \in provider.inputs \/ forwarder.pc = "stopped" \/ AtWork("failed", a)
AudioOK == \A a \in Turn : conn.audio = a => Lost(a) \/ Whole(a)

AInv == FreshOK /\ HoldsOK /\ ListenOK /\ AudioOK

Message == [type: {"append", "commit", "clear"}, turn: Turn]

\* A message that is taken from the queue, and one that is put into it.
LEMMA HoldingTail ==
  ASSUME NEW q \in Seq(Message), q # <<>>, NEW a \in Turn, NEW w \in Nat, NEW e \in {0, 1},
         Holding(q, a, w, e)
  PROVE  \/ Head(q).turn # a /\ Holding(Tail(q), a, w, e)
         \/ w > 0 /\ Head(q) = Audio(a) /\ Holding(Tail(q), a, w - 1, e)
         \/ w = 0 /\ e = 1 /\ Head(q) = CommitOf(a) /\ Holding(Tail(q), a, 0, 0)
<1> DEFINE r == Tail(q)
           n == Len(q)
<1>1. /\ n \in Nat /\ n > 0 /\ Len(r) = n - 1 /\ DOMAIN q = 1 .. n /\ DOMAIN r = 1 .. n - 1
      /\ \A i \in DOMAIN r : r[i] = q[i + 1] /\ i + 1 \in DOMAIN q
      /\ Head(q) = q[1] /\ 1 \in DOMAIN q
  OBVIOUS
<1> HIDE DEF r, n
<1>2. Len(q) = n
  BY DEF n
<1>3. CASE n > w + e
  <2>1. q[1].turn # a
    BY <1>1, <1>2, <1>3 DEF Holding
  <2>2. Holding(r, a, w, e)
    BY <1>1, <1>2, <1>3 DEF Holding
  <2>3. QED
    BY <1>1, <2>1, <2>2 DEF r
<1>4. CASE n = w + e /\ w > 0
  <2>1. q[1] = Audio(a)
    BY <1>1, <1>2, <1>4 DEF Holding
  <2>2. Holding(r, a, w - 1, e)
    BY <1>1, <1>2, <1>4 DEF Holding
  <2>3. QED
    BY <1>1, <1>4, <2>1, <2>2 DEF r
<1>5. CASE n = w + e /\ w = 0
  <2>1. e = 1 /\ n = 1
    BY <1>1, <1>5
  <2>2. q[1] = CommitOf(a)
    BY <1>1, <1>2, <2>1 DEF Holding
  <2>3. Holding(r, a, 0, 0)
    BY <1>1, <2>1 DEF Holding
  <2>4. QED
    BY <1>1, <1>5, <2>1, <2>2, <2>3 DEF r
<1>6. n >= w + e
  BY <1>2 DEF Holding
<1>7. QED
  BY <1>1, <1>3, <1>4, <1>5, <1>6

LEMMA HoldingMore ==
  ASSUME NEW q \in Seq(Message), NEW a \in Turn, NEW w \in Nat, Holding(q, a, w, 0)
  PROVE  /\ Holding(Append(q, Audio(a)), a, w + 1, 0)
         /\ Holding(Append(q, CommitOf(a)), a, w, 1)
<1>1. Audio(a) \in Message /\ CommitOf(a) \in Message
  BY DEF Audio, CommitOf, Message
<1>2. ASSUME NEW m \in Message
      PROVE  LET r == Append(q, m)
             IN /\ DOMAIN r = 1 .. Len(q) + 1 /\ Len(r) = Len(q) + 1
                /\ \A i \in 1 .. Len(q) : r[i] = q[i] /\ i \in DOMAIN q
                /\ r[Len(q) + 1] = m
  OBVIOUS
<1>3. Len(q) \in Nat
  OBVIOUS
<1>4. Holding(Append(q, Audio(a)), a, w + 1, 0)
  <2> DEFINE r == Append(q, Audio(a))
  <2>1. /\ DOMAIN r = 1 .. Len(q) + 1 /\ Len(r) = Len(q) + 1
        /\ \A i \in 1 .. Len(q) : r[i] = q[i] /\ i \in DOMAIN q
        /\ r[Len(q) + 1] = Audio(a)
    BY <1>1, <1>2
  <2> HIDE DEF r
  <2>2. Holding(r, a, w + 1, 0)
    BY <1>3, <2>1 DEF Holding
  <2>3. QED
    BY <2>2 DEF r
<1>5. Holding(Append(q, CommitOf(a)), a, w, 1)
  <2> DEFINE r == Append(q, CommitOf(a))
  <2>1. /\ DOMAIN r = 1 .. Len(q) + 1 /\ Len(r) = Len(q) + 1
        /\ \A i \in 1 .. Len(q) : r[i] = q[i] /\ i \in DOMAIN q
        /\ r[Len(q) + 1] = CommitOf(a)
    BY <1>1, <1>2
  <2> HIDE DEF r
  <2>2. Holding(r, a, w, 1)
    BY <1>3, <2>1 DEF Holding
  <2>3. QED
    BY <2>2 DEF r
<1>6. QED
  BY <1>4, <1>5

\* Steps that touch neither the queue nor what the forwarder has, and record nothing.
SameAudio ==
  /\ conn'.audio = conn.audio /\ conn'.bytes = conn.bytes /\ conn'.committed = conn.committed
  /\ conn.seen \subseteq conn'.seen
  /\ \A t \in Turn : Has("listen", t)' => Has("listen", t) \/ t \notin conn.seen
  /\ \A t \in Turn : Has("listen", t)' /\ ~Has("discard", None)' =>
       Has("listen", t) /\ ~Has("discard", None)
  /\ queue' = queue /\ forwarder' = forwarder
  /\ provider'.buffer = provider.buffer
  /\ \A t \in Turn : t \in provider'.inputs => t \in provider.inputs
  /\ \A t \in Turn : t \in provider.inputs /\ t = conn.audio => t \in provider'.inputs

LEMMA SameAudioKeeps ==
  ASSUME AInv, SameAudio
  PROVE  AInv'
<1>1. FreshOK'
  BY DEF AInv, SameAudio, FreshOK, Recorded
<1>2. HoldsOK'
  BY DEF AInv, SameAudio, HoldsOK
<1>3. ListenOK'
  BY DEF AInv, SameAudio, ListenOK
<1>4. ASSUME NEW a \in Turn, conn'.audio = a PROVE Lost(a)' \/ Whole(a)'
  <2>1. Lost(a) \/ Whole(a)
    BY <1>4 DEF AInv, SameAudio, AudioOK
  <2>2. CASE Lost(a)
    BY <1>4, <2>2 DEF SameAudio, Lost, AtWork
  <2>3. CASE Whole(a)
    BY <1>4, <2>3 DEF SameAudio, Whole, Carried, InHand, InBuffer, AtWork
  <2>4. QED
    BY <2>1, <2>2, <2>3
<1>5. QED
  BY <1>1, <1>2, <1>3, <1>4 DEF AInv, AudioOK

\* Steps that abandon or end the recorded turn, or the one that was about to be recorded.
LEMMA NoAudioKeeps ==
  ASSUME AInv, queue \in Seq(Message), NEW x \in Turn,
         conn.audio = x \/ (Has("listen", x) /\ ~Has("listen", x)'), x \in conn.seen,
         conn'.audio = None, conn'.seen = conn.seen,
         \A t \in Turn : Has("listen", t)' => Has("listen", t),
         \A t \in Turn : Has("listen", t)' => conn'.bytes = 0 /\ ~conn'.committed,
         queue' = queue \/ queue' = Append(queue, [type |-> "clear", turn |-> x]),
         forwarder'.turn = forwarder.turn, forwarder'.holds = forwarder.holds,
         forwarder'.pc \in {"idle", forwarder.pc},
         \A t \in Turn : t \in provider'.inputs => t \in provider.inputs
  PROVE  AInv'
<1>1. None \notin Turn
  BY StreamingAssumption
<1>2. ASSUME NEW i \in DOMAIN queue'
      PROVE  queue'[i].turn = x \/ (i \in DOMAIN queue /\ queue'[i] = queue[i])
  <2>1. [type |-> "clear", turn |-> x] \in Message
    BY DEF Message
  <2>2. QED
    BY <1>2, <2>1
<1>3. ASSUME NEW t \in Turn, t \notin conn'.seen \/ Has("listen", t)', Recorded(t)'
      PROVE  FALSE
  <2>1. t \notin conn.seen \/ Has("listen", t)
    BY <1>3
  <2>2. ~Recorded(t)
    BY <2>1 DEF AInv, FreshOK
  <2>3. t = x
    BY <1>1, <1>2, <1>3, <2>2 DEF Recorded
  <2>4. QED
    BY <1>3, <2>2, <2>3 DEF Recorded
<1>4. FreshOK'
  BY <1>3 DEF FreshOK
<1>5. HoldsOK'
  BY DEF AInv, HoldsOK
<1>6. ListenOK'
  BY DEF ListenOK
<1>7. AudioOK'
  BY <1>1 DEF AudioOK
<1>8. QED
  BY <1>4, <1>5, <1>6, <1>7 DEF AInv

\* What Discard leaves, with the queue.
LEMMA DiscardLeaves ==
  ASSUME NEW c \in Connection, Discard(c)
  PROVE  /\ conn'.audio = None /\ conn'.bytes = 0 /\ ~conn'.committed /\ conn'.seen = c.seen
         /\ \/ queue' = queue
            \/ queue' = Append(queue, [type |-> "clear", turn |-> c.audio])
<1>1. conn' = [c EXCEPT !.audio = None, !.committed = FALSE, !.bytes = 0]
  BY DEF Discard
<1>2. conn'.audio = None /\ conn'.bytes = 0 /\ ~conn'.committed /\ conn'.seen = c.seen
  BY <1>1 DEF Connection
<1>3. QED
  BY <1>2 DEF Discard

LEMMA AudioAbandoned ==
  ASSUME SInv, AInv, NEW t \in Turn, conn.audio = t, Discard(conn),
         \A u \in Turn : Has("listen", u)' => Has("listen", u),
         forwarder'.turn = forwarder.turn, forwarder'.holds = forwarder.holds,
         forwarder'.pc \in {"idle", forwarder.pc},
         \A u \in Turn : u \in provider'.inputs => u \in provider.inputs
  PROVE  AInv'
<1>1. conn \in Connection /\ queue \in Seq(Message)
  BY DEF SInv, Types, TypeOK, Message
<1>2. t \in conn.seen
  BY DEF SInv, Control, StepsOK
<1>3. /\ conn'.audio = None /\ conn'.bytes = 0 /\ ~conn'.committed /\ conn'.seen = conn.seen
      /\ queue' = queue \/ queue' = Append(queue, [type |-> "clear", turn |-> t])
  BY <1>1, DiscardLeaves
<1>4. QED
  BY <1>1, <1>2, <1>3, NoAudioKeeps

\* A chunk more of the turn t, which has w of them in the queue.
LEMMA ChunkKeeps ==
  ASSUME SInv, AInv, NEW t \in Turn, t \in conn.seen, ~Has("listen", t)',
         conn'.audio = t, conn'.bytes = conn.bytes + 1, ~conn'.committed, ~conn.committed,
         conn'.seen = conn.seen,
         queue' = Append(queue, Audio(t)),
         UNCHANGED <<forwarder, provider>>,
         \A u \in Turn : Has("listen", u)' => Has("listen", u) /\ Has("discard", None)',
         \/ conn.audio = t
         \/ conn.bytes = 0 /\ Has("listen", t)
  PROVE  AInv'
<1>1. /\ queue \in Seq(Message) /\ None \notin Turn /\ conn.bytes \in Nat
      /\ provider.buffer \in Seq(Turn)
  BY StreamingAssumption DEF SInv, Types, TypeOK, Message, Connection
<1>2. Audio(t) \in Message /\ Audio(t).turn = t
  BY DEF Audio, Message
<1>3. \A i \in DOMAIN queue' :
        queue'[i].turn = t \/ (i \in DOMAIN queue /\ queue'[i] = queue[i])
  BY <1>1, <1>2
<1>4. FreshOK'
  <2>1. ASSUME NEW u \in Turn, u \notin conn'.seen \/ Has("listen", u)', Recorded(u)'
        PROVE  FALSE
    <3>1. ~Recorded(u) /\ u # t
      BY <2>1 DEF AInv, FreshOK
    <3>2. QED
      BY <1>3, <2>1, <3>1 DEF Recorded
  <2>2. QED
    BY <2>1 DEF FreshOK
<1>5. HoldsOK' /\ ListenOK'
  BY DEF AInv, HoldsOK, ListenOK
<1>6. Lost(t)' \/ Whole(t)'
  <2>1. CASE Lost(t)
    BY <2>1 DEF Lost, AtWork
  <2>2. CASE ~Lost(t) /\ conn.audio = t
    <3>1. Whole(t)
      BY <2>2 DEF AInv, AudioOK
    <3>2. PICK w \in Nat, e \in {0, 1} :
            /\ Holding(queue, t, w, e)
            /\ conn.bytes = w + InHand(t) + InBuffer(t)
            /\ conn.committed <=> e = 1 \/ AtWork("commit", t)
      BY <3>1 DEF Whole
    <3>3. e = 0 /\ ~AtWork("commit", t)
      BY <3>2
    <3>4. Holding(queue', t, w + 1, 0)
      BY <1>1, <3>2, <3>3, HoldingMore
    <3>5. /\ InHand(t)' = InHand(t) /\ InBuffer(t)' = InBuffer(t)
          /\ InHand(t) \in Nat /\ InBuffer(t) \in Nat
          /\ Carried(t)' /\ ~AtWork("commit", t)'
      BY <1>1, <3>1, <3>3 DEF InHand, InBuffer, AtWork, Whole, Carried
    <3>6. conn'.bytes = (w + 1) + InHand(t)' + InBuffer(t)' /\ conn'.bytes > 0
      BY <1>1, <3>2, <3>5
    <3>7. w + 1 \in Nat
      OBVIOUS
    <3>8. QED
      BY <3>4, <3>5, <3>6, <3>7 DEF Whole
  <2>3. CASE ~Lost(t) /\ conn.bytes = 0 /\ Has("listen", t)
    <3>1. ~Recorded(t)
      BY <2>3 DEF AInv, FreshOK
    <3>2. Holding(queue, t, 0, 0)
      <4>1. Len(queue) \in Nat /\ DOMAIN queue = 1 .. Len(queue)
        BY <1>1
      <4>2. QED
        BY <3>1, <4>1 DEF Recorded, Holding
    <3>3. Holding(queue', t, 1, 0)
      BY <1>1, <3>2, HoldingMore
    <3>4. InHand(t)' = 0 /\ InBuffer(t)' = 0 /\ Carried(t)' /\ ~AtWork("commit", t)'
      BY <3>1 DEF Recorded, InHand, InBuffer, AtWork, Carried
    <3>5. conn'.bytes = 1 + InHand(t)' + InBuffer(t)' /\ conn'.bytes > 0 /\ 1 \in Nat
      BY <2>3, <3>4
    <3>6. QED
      BY <3>3, <3>4, <3>5 DEF Whole
  <2>4. QED
    BY <2>1, <2>2, <2>3
<1>7. AudioOK'
  BY <1>6 DEF AudioOK
<1>8. QED
  BY <1>4, <1>5, <1>7 DEF AInv

\* The commit of the recorded turn comes behind its chunks.
LEMMA CommitQueued ==
  ASSUME SInv, AInv, NEW t \in Turn, conn.audio = t, ~conn.committed,
         conn' = [conn EXCEPT !.committed = TRUE],
         queue' = Append(queue, CommitOf(t)),
         UNCHANGED <<todo, forwarder, provider>>, todo = <<>>
  PROVE  AInv'
<1>1. /\ queue \in Seq(Message) /\ conn \in Connection
  BY DEF SInv, Types, TypeOK, Message
<1>2. CommitOf(t) \in Message /\ CommitOf(t).turn = t
  BY DEF CommitOf, Message
<1>3. \A i \in DOMAIN queue' :
        queue'[i].turn = t \/ (i \in DOMAIN queue /\ queue'[i] = queue[i])
  BY <1>1, <1>2
<1>4. /\ conn'.audio = t /\ conn'.bytes = conn.bytes /\ conn'.committed
      /\ conn'.seen = conn.seen
  BY <1>1 DEF Connection
<1>5. t \in conn.seen
  BY DEF SInv, Control, StepsOK
<1>6. \A u \in Turn : ~Has("listen", u)'
  BY DEF Has, ToSet
<1>7. FreshOK'
  <2>1. ASSUME NEW u \in Turn, u \notin conn'.seen, Recorded(u)' PROVE FALSE
    <3>1. ~Recorded(u) /\ u # t
      BY <1>4, <1>5, <2>1 DEF AInv, FreshOK
    <3>2. QED
      BY <1>3, <1>4, <2>1, <3>1 DEF Recorded
  <2>2. QED
    BY <1>6, <2>1 DEF FreshOK
<1>8. HoldsOK' /\ ListenOK'
  BY <1>6 DEF AInv, HoldsOK, ListenOK
<1>9. Lost(t)' \/ Whole(t)'
  <2>1. CASE Lost(t)
    BY <2>1 DEF Lost, AtWork
  <2>2. CASE ~Lost(t)
    <3>1. Whole(t)
      BY <2>2 DEF AInv, AudioOK
    <3>2. PICK w \in Nat, e \in {0, 1} :
            /\ Holding(queue, t, w, e)
            /\ conn.bytes = w + InHand(t) + InBuffer(t)
            /\ conn.committed <=> e = 1 \/ AtWork("commit", t)
      BY <3>1 DEF Whole
    <3>3. e = 0 /\ ~AtWork("commit", t)
      BY <3>2
    <3>4. Holding(queue', t, w, 1)
      BY <1>1, <3>2, <3>3, HoldingMore
    <3>5. /\ InHand(t)' = InHand(t) /\ InBuffer(t)' = InBuffer(t)
          /\ Carried(t)' /\ ~AtWork("commit", t)' /\ conn'.bytes > 0
      BY <1>4, <3>1, <3>3 DEF InHand, InBuffer, AtWork, Whole, Carried
    <3>6. QED
      BY <1>4, <3>2, <3>4, <3>5 DEF Whole
  <2>3. QED
    BY <2>1, <2>2
<1>10. AudioOK'
  BY <1>4, <1>9 DEF AudioOK
<1>11. QED
  BY <1>7, <1>8, <1>10 DEF AInv

\* The forwarder takes a message.
LEMMA TakeAudio ==
  ASSUME SInv, AInv, Take
  PROVE  AInv'
<1> DEFINE m == Head(queue)
<1>1. /\ queue \in Seq(Message) /\ queue # <<>> /\ forwarder.pc = "idle"
      /\ forwarder \in Forwarder
      /\ queue' = Tail(queue)
      /\ forwarder' = [forwarder EXCEPT !.pc = NextForward(m), !.turn = m.turn]
      /\ UNCHANGED <<conn, todo, provider>>
  BY DEF Take, ForwardersAt, SInv, Types, TypeOK, Message
<1>2. m \in Message /\ 1 \in DOMAIN queue /\ m = queue[1]
  BY <1>1
<1>3. \A i \in DOMAIN queue' : i + 1 \in DOMAIN queue /\ queue'[i] = queue[i + 1]
  BY <1>1
<1>4. /\ forwarder'.pc = NextForward(m) /\ forwarder'.turn = m.turn
      /\ forwarder'.holds = forwarder.holds
  BY <1>1 DEF Forwarder
<1>5. m.type \in {"append", "commit", "clear"} /\ m.turn \in Turn
  BY <1>2 DEF Message
<1>6. \A d \in Dos, u \in Named : Has(d, u)' <=> Has(d, u)
  BY <1>1, HasSame
<1>7. Turn \subseteq Named /\ None \in Named /\ None \notin Turn
  BY StreamingAssumption DEF Named
<1>8. FreshOK'
  <2>1. ASSUME NEW u \in Turn, Recorded(u)' PROVE Recorded(u)
    BY <1>1, <1>2, <1>3, <1>4, <2>1 DEF Recorded
  <2>2. QED
    BY <1>1, <1>6, <1>7, <2>1 DEF AInv, FreshOK, Dos
<1>9. HoldsOK'
  BY <1>4, <1>5 DEF HoldsOK, NextForward
<1>10. ListenOK'
  BY <1>1, <1>6, <1>7 DEF AInv, ListenOK, Dos
<1>11. ASSUME NEW a \in Turn, conn.audio = a PROVE Lost(a)' \/ Whole(a)'
  <2>1. CASE a \in provider.inputs
    BY <1>1, <2>1 DEF Lost
  <2>2. CASE a \notin provider.inputs
    <3>1. ~Lost(a)
      BY <1>1, <2>2 DEF Lost, AtWork
    <3>2. Whole(a)
      BY <1>11, <3>1 DEF AInv, AudioOK
    <3>3. PICK w \in Nat, e \in {0, 1} :
            /\ Holding(queue, a, w, e)
            /\ conn.bytes = w + InHand(a) + InBuffer(a)
            /\ conn.committed <=> e = 1 \/ AtWork("commit", a)
      BY <3>2 DEF Whole
    <3>4. InHand(a) = 0 /\ ~AtWork("commit", a) /\ conn.bytes > 0
      BY <1>1, <3>2 DEF InHand, AtWork, Whole
    <3>5. InBuffer(a)' = InBuffer(a) /\ InBuffer(a) \in Nat
      BY <1>1, <1>4 DEF InBuffer, SInv, Types, TypeOK
    <3>6. CASE m.turn # a /\ Holding(Tail(queue), a, w, e)
      <4>1. forwarder'.pc \in {"clear", "idle"} /\ forwarder'.turn # a
        BY <1>4, <1>5, <1>11, <3>6 DEF NextForward
      <4>2. InHand(a)' = 0 /\ ~AtWork("commit", a)' /\ Carried(a)'
        BY <1>1, <1>4, <3>2, <4>1 DEF InHand, AtWork, Carried, Whole
      <4>3. QED
        BY <1>1, <3>3, <3>4, <3>5, <3>6, <4>2 DEF Whole
    <3>7. CASE w > 0 /\ m = Audio(a) /\ Holding(Tail(queue), a, w - 1, e)
      <4>1. /\ forwarder'.turn = a
            /\ forwarder'.pc = IF forwarder.holds = a THEN "append" ELSE "prepare"
        BY <1>4, <1>11, <3>7 DEF NextForward, Audio
      <4>2. InHand(a)' = 1 /\ ~AtWork("commit", a)' /\ Carried(a)'
        BY <1>1, <1>4, <3>2, <4>1 DEF InHand, AtWork, Carried, Whole
      <4>3. w - 1 \in Nat /\ conn'.bytes = (w - 1) + InHand(a)' + InBuffer(a)'
        BY <1>1, <3>3, <3>4, <3>5, <3>7, <4>2
      <4>4. QED
        BY <1>1, <3>3, <3>4, <3>7, <4>2, <4>3 DEF Whole
    <3>8. CASE w = 0 /\ e = 1 /\ m = CommitOf(a) /\ Holding(Tail(queue), a, 0, 0)
      <4>1. forwarder'.turn = a /\ forwarder'.pc = "commit"
        BY <1>4, <1>11, <3>8 DEF NextForward, CommitOf
      <4>2. InHand(a)' = 0 /\ AtWork("commit", a)' /\ Carried(a)'
        BY <1>1, <1>4, <3>2, <4>1 DEF InHand, AtWork, Carried, Whole
      <4>3. 0 \in Nat /\ conn'.bytes = 0 + InHand(a)' + InBuffer(a)'
        BY <1>1, <3>3, <3>4, <3>5, <3>8, <4>2
      <4>4. QED
        BY <1>1, <3>3, <3>4, <3>8, <4>2, <4>3 DEF Whole
    <3>9. QED
      BY <1>1, <3>3, <3>6, <3>7, <3>8, HoldingTail
  <2>3. QED
    BY <2>1, <2>2
<1>12. AudioOK'
  BY <1>1, <1>11 DEF AudioOK
<1>13. QED
  BY <1>8, <1>9, <1>10, <1>12 DEF AInv

\* The forwarder acts on the provider, or fails, stops, or is done with a failure.
LEMMA ForwardKeeps ==
  ASSUME AInv, UNCHANGED <<conn, queue>>,
         \A t \in Turn : Has("listen", t)' <=> Has("listen", t),
         Has("discard", None)' <=> Has("discard", None),
         forwarder'.turn = forwarder.turn,
         forwarder'.holds \in {None, forwarder.holds, forwarder.turn},
         \A t \in Turn : t \in provider'.inputs => t \in provider.inputs \/ t = forwarder.turn,
         HoldsOK',
         \A a \in Turn : conn.audio = a /\ (Lost(a) \/ Whole(a)) => Lost(a)' \/ Whole(a)'
  PROVE  AInv'
<1>1. None \notin Turn
  BY StreamingAssumption
<1>2. FreshOK'
  <2>1. ASSUME NEW u \in Turn, Recorded(u)' PROVE Recorded(u)
    BY <1>1, <2>1 DEF Recorded
  <2>2. QED
    BY <2>1 DEF AInv, FreshOK
<1>3. ListenOK'
  BY DEF AInv, ListenOK
<1>4. AudioOK'
  BY DEF AInv, AudioOK
<1>5. QED
  BY <1>2, <1>3, <1>4 DEF AInv

LEMMA CarriedOn ==
  ASSUME UNCHANGED <<conn, queue>>, NEW a \in Turn, Whole(a), conn.bytes \in Nat,
         InHand(a) \in Nat, InBuffer(a) \in Nat, InHand(a)' \in Nat, InBuffer(a)' \in Nat,
         InHand(a)' + InBuffer(a)' = InHand(a) + InBuffer(a),
         AtWork("commit", a)' <=> AtWork("commit", a), Carried(a)'
  PROVE  Whole(a)'
<1>1. PICK w \in Nat, e \in {0, 1} :
        /\ Holding(queue, a, w, e)
        /\ conn.bytes = w + InHand(a) + InBuffer(a)
        /\ conn.committed <=> e = 1 \/ AtWork("commit", a)
        /\ AtWork("commit", a) => w = 0 /\ e = 0
  BY DEF Whole
<1>2. conn'.bytes = w + InHand(a)' + InBuffer(a)' /\ conn'.bytes > 0
  BY <1>1 DEF Whole
<1>3. QED
  BY <1>1, <1>2 DEF Whole

LEMMA CountsAreNat ==
  ASSUME SInv, NEW a \in Turn
  PROVE  InHand(a) \in Nat /\ InBuffer(a) \in Nat /\ conn.bytes \in Nat
<1>1. provider.buffer \in Seq(Turn)
  BY DEF SInv, Types, TypeOK
<1>2. conn.bytes \in Nat
  BY StreamingAssumption DEF SInv, Types, TypeOK, Connection
<1>3. QED
  BY <1>1, <1>2 DEF InHand, InBuffer

LEMMA ForwarderKeeps ==
  ASSUME SInv, AInv, SInv',
         ForwardClear \/ ForwardAppend \/ ForwardCommit \/ ForwardFails
  PROVE  AInv'
<1>1. /\ UNCHANGED <<conn, todo, queue>> /\ forwarder \in Forwarder
      /\ provider \in [buffer: Seq(Turn), inputs: SUBSET Turn]
      /\ provider.buffer \in Seq(Turn)
      /\ forwarder.pc \in {"clear", "prepare", "append", "commit"}
  BY DEF SInv, Types, TypeOK, ForwardClear, ForwardAppend, ForwardCommit, ForwardFails,
         ForwardersAt
<1>2. forwarder.turn \in Turn /\ None \notin Turn
  BY <1>1, StreamingAssumption DEF SInv, Types, ForwarderOK
<1>3. /\ \A t \in Turn : Has("listen", t)' <=> Has("listen", t)
      /\ Has("discard", None)' <=> Has("discard", None)
  BY <1>1, HasSame DEF Dos, Named
<1>4. ASSUME NEW a \in Turn
      PROVE  /\ InHand(a) \in Nat /\ InBuffer(a) \in Nat /\ conn.bytes \in Nat
             /\ InHand(a)' \in Nat /\ InBuffer(a)' \in Nat
  <2>1. InHand(a) \in Nat /\ InBuffer(a) \in Nat /\ conn.bytes \in Nat
    BY CountsAreNat
  <2>2. provider'.buffer \in Seq(Turn)
    BY DEF SInv, Types, TypeOK
  <2>3. QED
    BY <2>1, <2>2 DEF InHand, InBuffer
<1>5. CASE ForwardClear /\ forwarder.pc = "clear"
  <2>1. /\ forwarder'.pc = "idle" /\ forwarder'.holds = None /\ forwarder'.turn = forwarder.turn
        /\ provider'.buffer = <<>> /\ provider'.inputs = provider.inputs
    BY <1>1, <1>5 DEF ForwardClear, ForwardersAt, Forwarder
  <2>2. HoldsOK'
    BY <2>1 DEF HoldsOK
  <2>3. ASSUME NEW a \in Turn, Whole(a) PROVE Whole(a)'
    <3>1. forwarder.turn # a /\ forwarder.holds # a
      BY <1>5, <2>3 DEF Whole, Carried, AtWork, AInv, HoldsOK
    <3>2. /\ InHand(a) = 0 /\ InBuffer(a) = 0 /\ InHand(a)' = 0 /\ InBuffer(a)' = 0
          /\ Carried(a)'
          /\ AtWork("commit", a)' <=> AtWork("commit", a)
      BY <1>2, <2>1, <3>1 DEF InHand, InBuffer, AtWork, Carried
    <3>3. QED
      BY <1>1, <1>4, <2>3, <3>2, CarriedOn
  <2>4. \A a \in Turn : Lost(a) => Lost(a)'
    BY <1>5, <2>1 DEF Lost, AtWork
  <2>5. QED
    BY <1>1, <1>3, <2>1, <2>2, <2>3, <2>4, ForwardKeeps
<1>6. CASE ForwardClear /\ forwarder.pc = "prepare"
  <2>1. /\ forwarder'.pc = "append" /\ forwarder'.holds = forwarder.turn
        /\ forwarder'.turn = forwarder.turn
        /\ provider'.buffer = <<>> /\ provider'.inputs = provider.inputs
    BY <1>1, <1>6 DEF ForwardClear, ForwardersAt, Forwarder
  <2>2. HoldsOK'
    BY <2>1 DEF HoldsOK
  <2>3. ASSUME NEW a \in Turn, Whole(a) PROVE Whole(a)'
    <3>1. forwarder.holds # a
      BY <1>6, <2>3 DEF Whole, Carried
    <3>2. /\ InBuffer(a) = 0 /\ InBuffer(a)' = 0 /\ InHand(a)' = InHand(a)
          /\ Carried(a)' /\ ~AtWork("commit", a)' /\ ~AtWork("commit", a)
      BY <1>6, <2>1, <3>1 DEF InHand, InBuffer, AtWork, Carried
    <3>3. QED
      BY <1>1, <1>4, <2>3, <3>2, CarriedOn
  <2>4. \A a \in Turn : Lost(a) => Lost(a)'
    BY <1>6, <2>1 DEF Lost, AtWork
  <2>5. QED
    BY <1>1, <1>3, <2>1, <2>2, <2>3, <2>4, ForwardKeeps
<1>7. CASE ForwardAppend
  <2>1. /\ forwarder.pc = "append" /\ forwarder'.pc = "idle"
        /\ forwarder'.holds = forwarder.holds /\ forwarder'.turn = forwarder.turn
        /\ provider'.buffer = Append(provider.buffer, forwarder.turn)
        /\ provider'.inputs = provider.inputs
    BY <1>1, <1>7 DEF ForwardAppend, ForwardersAt, Forwarder
  <2>2. HoldsOK' /\ forwarder.holds = forwarder.turn
    BY <2>1 DEF HoldsOK, AInv
  <2>3. ASSUME NEW a \in Turn, Whole(a) PROVE Whole(a)'
    <3>1. ~AtWork("commit", a)' /\ ~AtWork("commit", a)
      BY <2>1 DEF AtWork
    <3>2. CASE forwarder.turn = a
      <4>1. /\ DOMAIN provider'.buffer = 1 .. Len(provider.buffer) + 1
            /\ Len(provider'.buffer) = Len(provider.buffer) + 1
            /\ provider'.buffer[Len(provider.buffer) + 1] = a
            /\ \A i \in 1 .. Len(provider.buffer) :
                 provider'.buffer[i] = provider.buffer[i] /\ i \in DOMAIN provider.buffer
            /\ Len(provider.buffer) \in Nat
        BY <1>1, <2>1, <3>2
      <4>2. \A i \in DOMAIN provider.buffer : provider.buffer[i] = a
        BY <2>2, <2>3, <3>2 DEF Whole, Carried
      <4>3. \A i \in DOMAIN provider'.buffer : provider'.buffer[i] = a
        BY <4>1, <4>2
      <4>4. Carried(a)'
        BY <2>1, <4>3 DEF Carried, AtWork
      <4>5. /\ InHand(a) = 1 /\ InHand(a)' = 0
            /\ InBuffer(a) = Len(provider.buffer) /\ InBuffer(a)' = Len(provider.buffer) + 1
        BY <2>1, <2>2, <3>2, <4>1 DEF InHand, InBuffer, AtWork
      <4>6. InHand(a)' + InBuffer(a)' = InHand(a) + InBuffer(a)
        BY <4>1, <4>5
      <4>7. QED
        BY <1>1, <1>4, <2>3, <3>1, <4>4, <4>6, CarriedOn
    <3>3. CASE forwarder.turn # a
      <4>1. /\ InHand(a) = 0 /\ InHand(a)' = 0 /\ InBuffer(a) = 0 /\ InBuffer(a)' = 0
            /\ Carried(a)'
        BY <2>1, <2>2, <3>3 DEF InHand, InBuffer, AtWork, Carried
      <4>2. QED
        BY <1>1, <1>4, <2>3, <3>1, <4>1, CarriedOn
    <3>4. QED
      BY <3>2, <3>3
  <2>4. \A a \in Turn : Lost(a) => Lost(a)'
    BY <2>1 DEF Lost, AtWork
  <2>5. QED
    BY <1>1, <1>3, <2>1, <2>2, <2>3, <2>4, ForwardKeeps
<1>8. CASE ForwardCommit
  <2>1. /\ forwarder.pc = "commit" /\ forwarder'.pc = "idle"
        /\ forwarder'.holds = None /\ forwarder'.turn = forwarder.turn
        /\ provider'.buffer = <<>>
        /\ provider'.inputs = provider.inputs \cup {forwarder.turn}
    BY <1>1, <1>8 DEF ForwardCommit, ForwardersAt, Forwarder
  <2>2. HoldsOK'
    BY <2>1 DEF HoldsOK
  <2>3. ASSUME NEW a \in Turn, Whole(a), forwarder.turn # a PROVE Whole(a)'
    <3>1. forwarder.holds # a
      BY <2>1, <2>3 DEF Whole, Carried
    <3>2. /\ InHand(a) = 0 /\ InHand(a)' = 0 /\ InBuffer(a) = 0 /\ InBuffer(a)' = 0
          /\ Carried(a)' /\ ~AtWork("commit", a) /\ ~AtWork("commit", a)'
      BY <1>2, <2>1, <2>3, <3>1 DEF InHand, InBuffer, AtWork, Carried
    <3>3. QED
      BY <1>1, <1>4, <2>3, <3>2, CarriedOn
  <2>4. \A a \in Turn : Lost(a) \/ forwarder.turn = a => Lost(a)'
    BY <2>1 DEF Lost, AtWork
  <2>5. QED
    BY <1>1, <1>3, <2>1, <2>2, <2>3, <2>4, ForwardKeeps
<1>9. CASE ForwardFails
  <2>1. /\ forwarder'.pc = "failed"
        /\ forwarder'.holds = forwarder.holds /\ forwarder'.turn = forwarder.turn
        /\ provider'.inputs = provider.inputs
        /\ \/ provider'.buffer = provider.buffer
           \/ forwarder.pc = "append"
    BY <1>1, <1>9 DEF ForwardFails, ForwardersAt, Forwarder
  <2>2. HoldsOK'
    BY <2>1 DEF HoldsOK
  <2>3. ASSUME NEW a \in Turn, Whole(a), forwarder.turn # a PROVE Whole(a)'
    <3>1. forwarder.pc = "append" => forwarder.holds # a
      BY <2>3 DEF AInv, HoldsOK
    <3>2. /\ InHand(a) = 0 /\ InHand(a)' = 0 /\ InBuffer(a)' = InBuffer(a)
          /\ Carried(a)' /\ ~AtWork("commit", a) /\ ~AtWork("commit", a)'
      BY <2>1, <2>3, <3>1 DEF InHand, InBuffer, AtWork, Carried, Whole
    <3>3. QED
      BY <1>1, <1>4, <2>3, <3>2, CarriedOn
  <2>4. \A a \in Turn : Lost(a) \/ forwarder.turn = a => Lost(a)'
    BY <1>1, <2>1 DEF Lost, AtWork
  <2>5. QED
    BY <1>1, <1>3, <2>1, <2>2, <2>3, <2>4, ForwardKeeps
<1>10. QED
  BY <1>1, <1>5, <1>6, <1>7, <1>8, <1>9 DEF ForwardClear, ForwardersAt

LEMMA StopAudio ==
  ASSUME SInv, AInv, Stop
  PROVE  AInv'
<1>1. /\ forwarder' = [forwarder EXCEPT !.pc = "stopped"] /\ forwarder \in Forwarder
      /\ UNCHANGED <<conn, queue, provider>>
  BY DEF Stop, SInv, Types, TypeOK
<1>2. /\ forwarder'.pc = "stopped" /\ forwarder'.turn = forwarder.turn
      /\ forwarder'.holds = forwarder.holds
  BY <1>1 DEF Forwarder
<1>3. /\ \A t \in Turn : Has("listen", t)' <=> Has("listen", t)
      /\ Has("discard", None)' <=> Has("discard", None)
  <2>1. \A d \in Dos, t \in Named : Has(d, t)' <=> Has(d, t) /\ d # "stop"
    BY Pops DEF Stop, Dos
  <2>2. QED
    BY <2>1 DEF Dos, Named
<1>4. HoldsOK'
  BY <1>2 DEF HoldsOK
<1>5. \A a \in Turn : Lost(a)'
  BY <1>2 DEF Lost
<1>6. QED
  BY <1>1, <1>2, <1>3, <1>4, <1>5, ForwardKeeps

LEMMA HandledAudio ==
  ASSUME SInv, AInv, HandleFailure
  PROVE  AInv'
<1>1. /\ forwarder' = [forwarder EXCEPT !.pc = "idle"] /\ forwarder \in Forwarder
      /\ forwarder.turn \in Turn /\ forwarder.pc = "failed"
      /\ UNCHANGED <<todo, provider>>
  BY DEF HandleFailure, ForwardersAt, SInv, Types, TypeOK, ForwarderOK
<1>2. /\ forwarder'.pc = "idle" /\ forwarder'.turn = forwarder.turn
      /\ forwarder'.holds = forwarder.holds
  BY <1>1 DEF Forwarder
<1>3. /\ \A t \in Turn : Has("listen", t)' <=> Has("listen", t)
      /\ Has("discard", None)' <=> Has("discard", None)
  BY <1>1, HasSame DEF Dos, Named
<1>4. CASE forwarder.turn = conn.audio
  <2>1. Discard(conn)
    BY <1>4 DEF HandleFailure
  <2>2. QED
    BY <1>1, <1>2, <1>3, <1>4, <2>1, AudioAbandoned
<1>5. CASE forwarder.turn # conn.audio
  <2>1. UNCHANGED <<conn, queue>>
    BY <1>5 DEF HandleFailure
  <2>2. HoldsOK'
    BY <1>2 DEF HoldsOK
  <2>3. ASSUME NEW a \in Turn, conn.audio = a, Whole(a) PROVE Whole(a)'
    <3>1. /\ InHand(a) = 0 /\ InHand(a)' = 0 /\ InBuffer(a)' = InBuffer(a)
          /\ Carried(a)' /\ ~AtWork("commit", a) /\ ~AtWork("commit", a)'
      BY <1>1, <1>2, <2>3 DEF InHand, InBuffer, AtWork, Carried, Whole
    <3>2. InHand(a)' \in Nat /\ InBuffer(a)' \in Nat
      BY <3>1, CountsAreNat
    <3>3. QED
      BY <2>1, <2>3, <3>1, <3>2, CountsAreNat, CarriedOn
  <2>4. \A a \in Turn : conn.audio = a /\ Lost(a) => Lost(a)'
    BY <1>1, <1>2, <1>5 DEF Lost, AtWork
  <2>5. QED
    BY <1>1, <1>2, <1>3, <2>1, <2>2, <2>3, <2>4, ForwardKeeps
<1>6. QED
  BY <1>4, <1>5

\* An interruption leaves the audio to the discard that follows it.
LEMMA InterruptAudio ==
  ASSUME SInv, AInv, NEW t \in Named,
         NEW rest \in {Discarding, Asking(t), Recording(t), Closing},
         NEW c \in Connection, Interrupt(c, rest), c.active = conn.active,
         c.audio = conn.audio, c.bytes = conn.bytes, c.committed = conn.committed,
         conn.seen \subseteq c.seen,
         \A u \in Turn : Step("listen", u) \in ToSet(rest) => u \notin conn.seen,
         UNCHANGED audioVars
  PROVE  AInv'
<1>1. TypeOK
  BY DEF SInv, Types
<1>2. /\ conn'.audio = c.audio /\ conn'.seen = c.seen /\ conn'.committed = c.committed
      /\ conn'.bytes = c.bytes
      /\ \A d \in Dos, u \in Named : Has(d, u)' <=>
              \/ d = "await" /\ u = None
              \/ d \in {"undeliver", "tell"} /\ u = conn.active /\ u # None
              \/ Step(d, u) \in ToSet(rest)
  BY <1>1, Interrupts
<1>3. Step("discard", None) \in ToSet(rest)
  BY FollowsHold
<1>4. \A u \in Turn : Has("listen", u)' => u \notin conn.seen
  BY <1>2 DEF Dos, Named
<1>5. Has("discard", None)'
  BY <1>2, <1>3 DEF Dos, Named
<1>6. QED
  BY <1>2, <1>4, <1>5, SameAudioKeeps DEF SameAudio, audioVars

LEMMA InterruptionsKeepAudio ==
  ASSUME SInv, AInv,
         \/ \E requested \in Turn \cup {None} : ReceiveInterrupt(requested)
         \/ \E t \in Turn : ReceiveText(t) \/ ReceiveFirstAudio(t)
         \/ Disconnect
  PROVE  AInv'
<1> DEFINE closed == [conn EXCEPT !.closed = TRUE]
<1>1. conn \in Connection /\ None \in Named
  BY DEF SInv, Types, TypeOK, Named
<1>2. ASSUME NEW u \in Turn, NEW t \in Turn
      PROVE  /\ Step("listen", u) \notin ToSet(Discarding)
             /\ Step("listen", u) \notin ToSet(Asking(t))
             /\ Step("listen", u) \notin ToSet(Closing)
             /\ Step("listen", u) \in ToSet(Recording(t)) => u = t
  BY FollowsHold DEF Step, Named
<1>3. ASSUME NEW requested \in Turn \cup {None}, ReceiveInterrupt(requested) PROVE AInv'
  <2>1. Interrupt(conn, Discarding) /\ UNCHANGED audioVars
    BY <1>3 DEF ReceiveInterrupt, Discarding
  <2>2. QED
    BY <1>1, <1>2, <2>1, InterruptAudio
<1>4. ASSUME NEW t \in Turn, ReceiveText(t) PROVE AInv'
  <2>1. Interrupt(Claimed(conn, t), Asking(t)) /\ Unclaimed(t) /\ UNCHANGED audioVars
    BY <1>4 DEF ReceiveText, Asking
  <2>2. /\ Claimed(conn, t) \in Connection
        /\ Claimed(conn, t).active = conn.active /\ Claimed(conn, t).audio = conn.audio
        /\ Claimed(conn, t).bytes = conn.bytes
        /\ Claimed(conn, t).committed = conn.committed
        /\ conn.seen \subseteq Claimed(conn, t).seen /\ t \notin conn.seen
    BY <2>1, Claims
  <2>3. /\ t \in Named /\ Asking(t) \in {Discarding, Asking(t), Recording(t), Closing}
        /\ \A u \in Turn : Step("listen", u) \in ToSet(Asking(t)) => u \notin conn.seen
    BY <1>2, <2>2 DEF Named
  <2>4. QED
    BY <2>1, <2>2, <2>3, InterruptAudio
<1>5. ASSUME NEW t \in Turn, ReceiveFirstAudio(t) PROVE AInv'
  <2>1. Interrupt(Claimed(conn, t), Recording(t)) /\ Unclaimed(t) /\ UNCHANGED audioVars
    BY <1>5 DEF ReceiveFirstAudio, Recording
  <2>2. /\ Claimed(conn, t) \in Connection
        /\ Claimed(conn, t).active = conn.active /\ Claimed(conn, t).audio = conn.audio
        /\ Claimed(conn, t).bytes = conn.bytes
        /\ Claimed(conn, t).committed = conn.committed
        /\ conn.seen \subseteq Claimed(conn, t).seen /\ t \notin conn.seen
    BY <2>1, Claims
  <2>3. /\ t \in Named /\ Recording(t) \in {Discarding, Asking(t), Recording(t), Closing}
        /\ \A u \in Turn : Step("listen", u) \in ToSet(Recording(t)) => u \notin conn.seen
    BY <1>2, <2>2 DEF Named
  <2>4. QED
    BY <2>1, <2>2, <2>3, InterruptAudio
<1>6. CASE Disconnect
  <2>1. Interrupt(closed, Closing) /\ UNCHANGED audioVars
    BY <1>6 DEF Disconnect, Closing, audioVars
  <2>2. closed \in Connection
    BY <1>1 DEF Connection
  <2>3. /\ closed.active = conn.active /\ closed.audio = conn.audio
        /\ closed.bytes = conn.bytes /\ closed.committed = conn.committed
        /\ closed.seen = conn.seen
    BY <1>1 DEF Connection
  <2> HIDE DEF closed
  <2>4. QED
    BY <1>1, <1>2, <2>1, <2>2, <2>3, InterruptAudio
<1>7. QED
  BY <1>3, <1>4, <1>5, <1>6

\* Other steps that leave the audio alone: those of the turn's task, and what receive has
\* still to do besides the discard, the first chunk and the end.
LEMMA AsideKeepsAudio ==
  ASSUME SInv, AInv,
         UNCHANGED audioVars,
         conn'.audio = conn.audio, conn'.bytes = conn.bytes,
         conn'.committed = conn.committed, conn'.seen = conn.seen,
         \A t \in Turn : Has("listen", t)' <=> Has("listen", t),
         Has("discard", None)' <=> Has("discard", None)
  PROVE  AInv'
BY SameAudioKeeps DEF SameAudio, audioVars

LEMMA AsideKeepsConnection ==
  ASSUME SInv,
         \/ UNCHANGED conn
         \/ \E t \in Turn : conn' = Started(t)
         \/ conn' = [conn EXCEPT !.active = None]
         \/ conn' = [conn EXCEPT !.completed = TRUE]
         \/ conn' = [conn EXCEPT !.playing = TRUE]
  PROVE  /\ conn'.audio = conn.audio /\ conn'.bytes = conn.bytes
         /\ conn'.committed = conn.committed /\ conn'.seen = conn.seen
<1>1. conn \in Connection
  BY DEF SInv, Types, TypeOK
<1>2. ASSUME NEW t \in Turn, conn' = Started(t)
      PROVE  /\ conn'.audio = conn.audio /\ conn'.bytes = conn.bytes
             /\ conn'.committed = conn.committed /\ conn'.seen = conn.seen
  BY <1>1, <1>2 DEF Started, Connection
<1>3. QED
  BY <1>1, <1>2 DEF Connection

LEMMA TaskKeepsAudio ==
  ASSUME SInv, AInv, TaskSteps
  PROVE  AInv'
<1>1. UNCHANGED <<todo, audioVars>>
  BY DEF TaskSteps, Route, Answer, Reply, Speak, SpeechEnds, Complete, TaskFails,
         UndeliverFailed, Report, EndCancelled
<1>2. \/ UNCHANGED conn
      \/ conn' = [conn EXCEPT !.active = None]
      \/ conn' = [conn EXCEPT !.completed = TRUE]
  BY DEF TaskSteps, Route, Answer, Reply, Speak, SpeechEnds, Complete, TaskFails,
         UndeliverFailed, Report, EndCancelled
<1>3. \A d \in Dos, t \in Named : Has(d, t)' <=> Has(d, t)
  BY <1>1, HasSame
<1>4. QED
  BY <1>1, <1>2, <1>3, AsideKeepsConnection, AsideKeepsAudio DEF Dos, Named

LEMMA PlaybackKeepsAudio ==
  ASSUME SInv, AInv, NEW t \in Turn,
         ReceivePlaybackStarted(t) \/ ReceivePlaybackCompleted(t)
  PROVE  AInv'
<1>1. todo = <<>> /\ (todo' = todo \/ todo' = <<Step("confirm", t)>>)
  BY DEF ReceivePlaybackStarted, ReceivePlaybackCompleted, Receives
<1>2. \/ UNCHANGED conn
      \/ conn' = [conn EXCEPT !.playing = TRUE]
  BY DEF ReceivePlaybackStarted, ReceivePlaybackCompleted
<1>3. UNCHANGED audioVars
  BY DEF ReceivePlaybackStarted, ReceivePlaybackCompleted, audioVars
<1>4. /\ \A u \in Turn : ~Has("listen", u) /\ ~Has("listen", u)'
      /\ ~Has("discard", None) /\ ~Has("discard", None)'
  BY <1>1 DEF Has, ToSet, Step
<1>5. QED
  BY <1>2, <1>3, <1>4, AsideKeepsConnection, AsideKeepsAudio

LEMMA WaitingKeepsAudio ==
  ASSUME SInv, AInv,
         AwaitTask \/ Undeliver \/ TellCancelled \/ Start \/ Spawn \/ Confirm
  PROVE  AInv'
<1> USE DEF Dos
<1>1. PICK do \in {"await", "undeliver", "tell", "start", "spawn", "confirm"} : Does(do)
  BY DEF AwaitTask, Undeliver, TellCancelled, Start, Spawn, Confirm
<1>2. \A d \in Dos, t \in Named : Has(d, t)' <=> Has(d, t) /\ d # do
  BY <1>1, Pops
<1>3. Head(todo).turn \in Turn \/ do \in {"await", "discard", "stop"}
  BY <1>1, Pops
<1>4. UNCHANGED audioVars
  BY DEF AwaitTask, Undeliver, TellCancelled, Start, Spawn, Confirm, audioVars
<1>5. ASSUME Start PROVE Head(todo).turn \in Turn
  <2>1. Does("start")
    BY <1>5 DEF Start
  <2>2. QED
    BY <2>1, Pops
<1>6. \/ UNCHANGED conn
      \/ \E t \in Turn : conn' = Started(t)
      \/ conn' = [conn EXCEPT !.active = None]
  BY <1>5 DEF AwaitTask, Undeliver, TellCancelled, Start, Spawn, Confirm
<1>7. QED
  BY <1>2, <1>4, <1>6, AsideKeepsConnection, AsideKeepsAudio DEF Named

\* The discard that follows an interruption.
LEMMA DiscardKeepsAudio ==
  ASSUME SInv, AInv, DiscardAudio
  PROVE  AInv'
<1> USE DEF Dos
<1>1. /\ Does("discard") /\ Discard(conn) /\ UNCHANGED <<forwarder, provider>>
      /\ conn \in Connection
  BY DEF DiscardAudio, SInv, Types, TypeOK
<1>2. \A d \in Dos, t \in Named : Has(d, t)' <=> Has(d, t) /\ d # "discard"
  BY <1>1, Pops
<1>3. \A t \in Turn : Has("listen", t)' <=> Has("listen", t)
  BY <1>2 DEF Named
<1>4. CASE conn.audio \in Turn
  BY <1>1, <1>3, <1>4, AudioAbandoned
<1>5. CASE conn.audio = None
  <2>1. /\ conn'.audio = None /\ conn'.bytes = 0 /\ ~conn'.committed
        /\ conn'.seen = conn.seen
    BY <1>1, DiscardLeaves
  <2>2. queue' = queue
    BY <1>1, <1>5 DEF Discard
  <2>3. FreshOK'
    BY <1>1, <1>3, <1>5, <2>1, <2>2 DEF AInv, FreshOK, Recorded
  <2>4. HoldsOK' /\ ListenOK'
    BY <1>1, <2>1 DEF AInv, HoldsOK, ListenOK
  <2>5. AudioOK'
    BY <2>1, StreamingAssumption DEF AudioOK
  <2>6. QED
    BY <2>3, <2>4, <2>5 DEF AInv
<1>6. QED
  BY <1>1, <1>4, <1>5 DEF Connection

\* The first chunk of an utterance.
LEMMA ListenKeepsAudio ==
  ASSUME SInv, AInv, Listen
  PROVE  AInv'
<1> USE DEF Dos
<1>1. Does("listen") /\ UNCHANGED <<forwarder, provider>>
  BY DEF Listen
<1>2. PICK t \in Turn :
        /\ Head(todo).turn = t /\ Has("listen", t)
        /\ \A u \in Named : Has("listen", u) => u = t
  BY <1>1, Pops
<1>3. /\ \A d \in Dos, u \in Named : Has(d, u) => d = "listen"
      /\ \A d \in Dos, u \in Named : Has(d, u)' <=> Has(d, u) /\ d # "listen"
  BY <1>1, Pops DEF Behind
<1>4. ~Has("discard", None) /\ \A u \in Turn : ~Has("listen", u)'
  BY <1>3 DEF Named
<1>5. conn \in Connection /\ queue \in Seq(Message)
  BY DEF SInv, Types, TypeOK, Message
<1>6. t \in conn.seen /\ conn.bytes = 0 /\ ~conn.committed
  BY <1>2, <1>4 DEF SInv, Control, StepsOK, AInv, ListenOK
<1> DEFINE c == [conn EXCEPT !.audio = t]
<1>7. c \in Connection
  BY <1>5 DEF Connection
<1>8. /\ c.audio = t /\ c.seen = conn.seen /\ c.bytes = conn.bytes
      /\ c.committed = conn.committed
  BY <1>5 DEF Connection
<1>9. AcceptChunk(c)
  BY <1>2 DEF Listen
<1> HIDE DEF c
<1>10. CASE Refuse(c)
  <2>1. /\ conn'.audio = None /\ conn'.bytes = 0 /\ ~conn'.committed /\ conn'.seen = conn.seen
        /\ \/ queue' = queue
           \/ queue' = Append(queue, [type |-> "clear", turn |-> t])
    BY <1>7, <1>8, <1>10, DiscardLeaves DEF Refuse
  <2>2. QED
    BY <1>1, <1>2, <1>4, <1>5, <1>6, <2>1, NoAudioKeeps
<1>11. CASE ~Refuse(c)
  <2>1. /\ conn' = [c EXCEPT !.bytes = @ + 1]
        /\ queue' = Append(queue, [type |-> "append", turn |-> c.audio])
    BY <1>9, <1>11 DEF AcceptChunk
  <2>2. /\ conn'.audio = t /\ conn'.bytes = conn.bytes + 1 /\ ~conn'.committed
        /\ conn'.seen = conn.seen
    BY <1>6, <1>7, <1>8, <2>1 DEF Connection
  <2>3. queue' = Append(queue, Audio(t))
    BY <1>8, <2>1 DEF Audio
  <2>4. QED
    BY <1>1, <1>2, <1>4, <1>6, <2>2, <2>3, ChunkKeeps
<1>12. QED
  BY <1>10, <1>11

\* The messages of the recorded utterance: a chunk more, and its commit.
LEMMA MessagesKeepAudio ==
  ASSUME SInv, AInv, NEW t \in Turn, ReceiveMoreAudio(t) \/ ReceiveCommit(t)
  PROVE  AInv'
<1>1. /\ conn.audio = t /\ ~conn.committed /\ todo = <<>>
      /\ UNCHANGED <<todo, forwarder, provider>>
      /\ conn \in Connection /\ queue \in Seq(Message)
  BY DEF ReceiveMoreAudio, ReceiveCommit, Receives, SInv, Types, TypeOK, Message
<1>2. \A u \in Turn : ~Has("listen", u) /\ ~Has("listen", u)'
  BY <1>1 DEF Has, ToSet
<1>3. CASE Discard(conn)
  BY <1>1, <1>2, <1>3, AudioAbandoned
<1>4. CASE ReceiveMoreAudio(t) /\ ~Discard(conn)
  <2>1. /\ conn' = [conn EXCEPT !.bytes = @ + 1]
        /\ queue' = Append(queue, [type |-> "append", turn |-> t])
    BY <1>1, <1>4 DEF ReceiveMoreAudio, AcceptChunk, Refuse
  <2>2. /\ conn'.audio = t /\ conn'.bytes = conn.bytes + 1 /\ ~conn'.committed
        /\ conn'.seen = conn.seen
    BY <1>1, <2>1 DEF Connection
  <2>3. queue' = Append(queue, Audio(t)) /\ t \in conn.seen
    BY <1>1, <2>1 DEF Audio, SInv, Control, StepsOK
  <2>4. QED
    BY <1>1, <1>2, <2>2, <2>3, ChunkKeeps
<1>5. CASE ReceiveCommit(t) /\ ~Discard(conn)
  <2>1. /\ conn' = [conn EXCEPT !.committed = TRUE]
        /\ queue' = Append(queue, CommitOf(t))
    BY <1>1, <1>5 DEF ReceiveCommit, Refuse, CommitOf
  <2>2. QED
    BY <1>1, <2>1, CommitQueued
<1>6. QED
  BY <1>3, <1>4, <1>5

\* The recognizer's events end the utterance, or are ignored as another one's.
LEMMA TranscriptsKeepAudio ==
  ASSUME SInv, AInv, NEW t \in Turn,
         \/ TranscriptFinal(t) \/ TranscriptEmpty(t)
         \/ TranscriptFails(t) \/ TranscriptIgnored(t)
  PROVE  AInv'
<1>1. /\ TypeOK /\ Transcribes(t) /\ UNCHANGED forwarder
      /\ conn \in Connection /\ queue \in Seq(Message)
  BY DEF TranscriptFinal, TranscriptEmpty, TranscriptFails, TranscriptIgnored, SInv, Types,
         TypeOK, Message
<1>2. /\ provider'.buffer = provider.buffer /\ provider'.inputs = provider.inputs \ {t}
      /\ todo = <<>>
  BY <1>1, TranscribesTypes
<1>3. todo' = todo \/ todo' = <<Step("spawn", t)>>
  BY DEF TranscriptFinal, TranscriptEmpty, TranscriptFails, TranscriptIgnored
<1>4. /\ \A u \in Turn : ~Has("listen", u) /\ ~Has("listen", u)'
      /\ ~Has("discard", None) /\ ~Has("discard", None)'
  BY <1>2, <1>3 DEF Has, ToSet, Step
<1>5. CASE TranscriptFails(t)
  <2>1. conn.audio = t /\ Discard(conn)
    BY <1>5 DEF TranscriptFails
  <2>2. QED
    BY <1>1, <1>2, <1>4, <2>1, AudioAbandoned
<1>6. CASE TranscriptFinal(t) \/ TranscriptEmpty(t)
  <2>1. conn.audio = t /\ queue' = queue
    BY <1>6 DEF TranscriptFinal, TranscriptEmpty
  <2>2. conn'.audio = None /\ conn'.seen = conn.seen
    BY <1>1, <1>6 DEF TranscriptFinal, TranscriptEmpty, Started, Connection
  <2>3. t \in conn.seen
    BY <2>1 DEF SInv, Control, StepsOK
  <2>4. QED
    BY <1>1, <1>2, <1>4, <2>1, <2>2, <2>3, NoAudioKeeps
<1>7. CASE TranscriptIgnored(t)
  <2>1. t # conn.audio /\ UNCHANGED <<conn, queue>>
    BY <1>7 DEF TranscriptIgnored
  <2>2. SameAudio
    BY <1>1, <1>2, <1>4, <2>1 DEF SameAudio
  <2>3. QED
    BY <2>2, SameAudioKeeps
<1>8. QED
  BY <1>5, <1>6, <1>7

LEMMA InitAudio ==
  ASSUME Init
  PROVE  AInv
<1>1. \A d \in Dos, u \in Named : ~Has(d, u)
  BY NothingLeft DEF Init
<1>2. /\ conn.audio = None /\ queue = <<>> /\ provider.inputs = {} /\ conn.seen = {}
      /\ forwarder.turn = None /\ forwarder.holds = None /\ forwarder.pc = "idle"
      /\ None \notin Turn
  BY StreamingAssumption DEF Init
<1>3. \A i \in DOMAIN queue : FALSE
  BY <1>2
<1>4. FreshOK
  BY <1>2, <1>3 DEF FreshOK, Recorded
<1>5. HoldsOK /\ ListenOK
  BY <1>1, <1>2 DEF HoldsOK, ListenOK, Dos, Named
<1>6. AudioOK
  BY <1>2 DEF AudioOK
<1>7. QED
  BY <1>4, <1>5, <1>6 DEF AInv

LEMMA StutterAudio ==
  ASSUME AInv, UNCHANGED vars
  PROVE  AInv'
<1>1. UNCHANGED <<conn, todo, queue, forwarder, provider>>
  BY DEF vars
<1>2. \A d \in Dos, u \in Named : Has(d, u)' <=> Has(d, u)
  BY <1>1, HasSame
<1>3. SameAudio
  BY <1>1, <1>2 DEF SameAudio, Dos, Named
<1>4. QED
  BY <1>3, SameAudioKeeps

LEMMA NextAudio ==
  ASSUME SInv, AInv, Next
  PROVE  AInv'
<1>1. ASSUME NEW t \in Turn, ReceiveText(t) \/ ReceiveFirstAudio(t) PROVE AInv'
  BY <1>1, InterruptionsKeepAudio
<1>2. ASSUME NEW t \in Turn, ReceiveMoreAudio(t) \/ ReceiveCommit(t) PROVE AInv'
  BY <1>2, MessagesKeepAudio
<1>3. ASSUME NEW t \in Turn, ReceivePlaybackStarted(t) \/ ReceivePlaybackCompleted(t)
      PROVE  AInv'
  BY <1>3, PlaybackKeepsAudio
<1>4. ASSUME NEW t \in Turn,
             \/ TranscriptFinal(t) \/ TranscriptEmpty(t)
             \/ TranscriptFails(t) \/ TranscriptIgnored(t)
      PROVE  AInv'
  BY <1>4, TranscriptsKeepAudio
<1>5. CASE \/ \E requested \in Turn \cup {None} : ReceiveInterrupt(requested)
           \/ Disconnect
  BY <1>5, InterruptionsKeepAudio
<1>6. CASE Steps
  <2>1. CASE AwaitTask \/ Undeliver \/ TellCancelled \/ Start \/ Spawn \/ Confirm
    BY <2>1, WaitingKeepsAudio
  <2>2. CASE DiscardAudio \/ Listen \/ Stop
    BY <2>2, DiscardKeepsAudio, ListenKeepsAudio, StopAudio
  <2>3. QED
    BY <1>6, <2>1, <2>2 DEF Steps
<1>7. CASE AudioSteps
  <2>1. SInv'
    BY NextSInv
  <2>2. QED
    BY <1>7, <2>1, TakeAudio, ForwarderKeeps DEF AudioSteps
<1>8. QED
  BY <1>1, <1>2, <1>3, <1>4, <1>5, <1>6, <1>7, TaskKeepsAudio, HandledAudio DEF Next

LEMMA AInvHolds == Spec => [](SInv /\ AInv)
<1>1. Init => SInv /\ AInv
  BY InitSInv, InitAudio
<1>2. SInv /\ AInv /\ [Next]_vars => (SInv /\ AInv)'
  BY NextSInv, StutterSInv, NextAudio, StutterAudio
<1>3. QED
  BY <1>1, <1>2, PTL DEF Spec

\* Only a commit gives the provider a turn to recognize.
LEMMA WhoIsRecognized ==
  ASSUME SInv, Next, NEW t \in Turn, t \in provider'.inputs, t \notin provider.inputs
  PROVE  ForwardCommit /\ t = forwarder.turn
<1>1. provider \in [buffer: Seq(Turn), inputs: SUBSET Turn] /\ TypeOK
  BY DEF SInv, Types, TypeOK
<1>2. ASSUME NEW u \in Turn, Transcribes(u) PROVE FALSE
  BY <1>1, <1>2, TranscribesTypes
<1>3. ASSUME ForwardClear \/ ForwardAppend \/ ForwardFails PROVE FALSE
  BY <1>1, <1>3 DEF ForwardClear, ForwardAppend, ForwardFails
<1>4. ASSUME UNCHANGED provider PROVE FALSE
  BY <1>4
<1>5. ASSUME NEW u \in Turn,
             \/ ReceiveText(u) \/ ReceiveFirstAudio(u) \/ ReceiveMoreAudio(u)
             \/ ReceiveCommit(u) \/ ReceivePlaybackStarted(u) \/ ReceivePlaybackCompleted(u)
      PROVE  FALSE
  BY <1>4, <1>5 DEF ReceiveText, ReceiveFirstAudio, ReceiveMoreAudio, ReceiveCommit,
         ReceivePlaybackStarted, ReceivePlaybackCompleted, audioVars
<1>6. ASSUME NEW u \in Turn,
             \/ TranscriptFinal(u) \/ TranscriptEmpty(u)
             \/ TranscriptFails(u) \/ TranscriptIgnored(u)
      PROVE  FALSE
  BY <1>2, <1>6 DEF TranscriptFinal, TranscriptEmpty, TranscriptFails, TranscriptIgnored
<1>7. ASSUME Steps \/ Disconnect \/ HandleFailure PROVE FALSE
  BY <1>4, <1>7 DEF Steps, AwaitTask, Undeliver, TellCancelled, DiscardAudio, Listen, Start,
         Spawn, Confirm, Stop, Disconnect, HandleFailure, audioVars
<1>8. ASSUME TaskSteps PROVE FALSE
  BY <1>4, <1>8 DEF TaskSteps, Route, Answer, Reply, Speak, SpeechEnds, Complete, TaskFails,
         UndeliverFailed, Report, EndCancelled, audioVars
<1>9. ASSUME NEW requested \in Turn \cup {None}, ReceiveInterrupt(requested) PROVE FALSE
  BY <1>4, <1>9 DEF ReceiveInterrupt, audioVars
<1>10. ASSUME Take PROVE FALSE
  BY <1>4, <1>10 DEF Take
<1>11. ForwardCommit
  BY <1>3, <1>5, <1>6, <1>7, <1>8, <1>9, <1>10 DEF Next, AudioSteps
<1>12. provider'.inputs = provider.inputs \cup {forwarder.turn}
  BY <1>11 DEF ForwardCommit
<1>13. QED
  BY <1>11, <1>12

\* What the provider recognizes for an utterance that may still route is all the audio the
\* browser recorded for it, in order, and nothing of an abandoned one, wherever queue,
\* forwarder and provider were when it was interrupted or failed (_forward_audio).
THEOREM RecordedIsRecognized == Spec => AudioIntact
<1> DEFINE Intact ==
             \A t \in provider'.inputs \ provider.inputs :
               t = conn.audio => provider.buffer = [i \in 1..conn.bytes |-> t]
<1>1. ASSUME SInv, AInv, ForwardCommit, NEW t \in Turn, t \notin provider.inputs,
             t = forwarder.turn, t = conn.audio
      PROVE  provider.buffer = [i \in 1..conn.bytes |-> t]
  <2>1. forwarder.pc = "commit"
    BY <1>1 DEF ForwardCommit, ForwardersAt
  <2>2. AtWork("commit", t) /\ Whole(t)
    BY <1>1, <2>1 DEF AInv, AudioOK, Lost, AtWork
  <2>3. PICK w \in Nat, e \in {0, 1} :
          /\ conn.bytes = w + InHand(t) + InBuffer(t)
          /\ AtWork("commit", t) => w = 0 /\ e = 0
    BY <2>2 DEF Whole
  <2>4. w = 0 /\ InHand(t) = 0 /\ conn.bytes > 0
    BY <2>1, <2>2, <2>3 DEF InHand, AtWork, Whole
  <2>5. InBuffer(t) \in Nat /\ provider.buffer \in Seq(Turn)
    BY <1>1, CountsAreNat DEF SInv, Types, TypeOK
  <2>6. conn.bytes = InBuffer(t)
    BY <2>3, <2>4, <2>5
  <2>7. forwarder.holds = t /\ conn.bytes = Len(provider.buffer)
    BY <2>4, <2>6 DEF InBuffer
  <2>8. \A i \in DOMAIN provider.buffer : provider.buffer[i] = t
    BY <2>2, <2>7 DEF Whole, Carried
  <2>9. DOMAIN provider.buffer = 1 .. conn.bytes
    BY <2>5, <2>7
  <2>10. provider.buffer = [i \in DOMAIN provider.buffer |-> provider.buffer[i]]
    BY <2>5
  <2>11. QED
    BY <2>8, <2>9, <2>10
<1>2. ASSUME SInv, AInv, Next PROVE Intact
  <2>1. ASSUME NEW t \in provider'.inputs \ provider.inputs, t = conn.audio
        PROVE  provider.buffer = [i \in 1..conn.bytes |-> t]
    <3>1. SInv'
      BY <1>2, NextSInv
    <3>2. t \in Turn
      BY <2>1, <3>1 DEF SInv, Types, TypeOK
    <3>3. QED
      BY <1>1, <1>2, <2>1, <3>2, WhoIsRecognized
  <2>2. QED
    BY <2>1
<1>3. ASSUME UNCHANGED vars PROVE Intact
  BY <1>3 DEF vars
<1>4. SInv /\ AInv /\ [Next]_vars => [Intact]_vars
  BY <1>2
<1>5. QED
  BY <1>4, AInvHolds, PTL DEF Spec, AudioIntact

=============================================================================
