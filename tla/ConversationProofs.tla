------------------------- MODULE ConversationProofs -------------------------
(***************************************************************************)
(* Theorems about Conversation for every catalog, every set of turns and   *)
(* scenarios and every bound.                                              *)
(***************************************************************************)
EXTENDS Conversation, SequenceTheorems, FiniteSetTheorems, WellFoundedInduction, TLAPS

\* While a turn holds the lock only the turn itself changes the conversation
\* (VoiceRouterOrchestrator.turn and the two delivery operations).
THEOREM LockProtectsConversation == Spec => NoLostUpdate
<1> DEFINE P == holder # None /\ holder' = holder => UNCHANGED session
<1>1. ASSUME [Next]_vars PROVE P
  <2>1. CASE UNCHANGED vars
    BY <2>1 DEF vars
  <2>2. ASSUME NEW c \in Catalogs, EditCatalog(c) PROVE P
    BY <2>2 DEF EditCatalog
  <2>3. ASSUME NEW t \in Turn, DecideRoute(t) \/ DecideOther(t) PROVE P
    BY <2>3 DEF DecideRoute, DecideOther
  <2>4. ASSUME NEW t \in Turn, Begin(t) \/ ConfirmDelivery(t) \/ InterruptDelivery(t)
        PROVE P
    BY <2>4 DEF Begin, ConfirmDelivery, InterruptDelivery, Acquires
  <2>5. ASSUME NEW t \in Turn, Commit(t) \/ Fail(t) \/ Abandon(t) PROVE P
    BY <2>5 DEF Commit, Fail, Abandon
  <2>6. ASSUME NEW t \in Turn, NEW kind \in {"confirm", "interrupt"}, Signal(t, kind)
        PROVE P
    BY <2>6 DEF Signal
  <2>7. ASSUME NEW t \in Turn, NEW i \in Intents, NEW d \in Deliveries, Submit(t, i, d)
        PROVE P
    BY <2>7 DEF Submit
  <2>8. QED
    BY <1>1, <2>1, <2>2, <2>3, <2>4, <2>5, <2>6, <2>7 DEF Next
<1>2. QED
  BY <1>1, PTL DEF Spec, NoLostUpdate

-----------------------------------------------------------------------------
\* Type correctness.

LEMMA NoneIsNoScenario == None \notin Scenario /\ None \notin Slot /\ None \notin Turn
BY NoneAssumption, LimitsAssumption

LEMMA MergeType ==
  ASSUME NEW cat \in Catalogs, NEW slots \in Slots, NEW e \in Extracted
  PROVE  MergeParameters(slots, cat, e) \in Slots
<1>1. ASSUME NEW y \in Slot, y \in DOMAIN cat.normal, e[y] # None
      PROVE  cat.normal[y][e[y]] \in Value \cup {None}
  BY <1>1, CatalogsAssumption DEF Extracted
<1>2. QED
  BY <1>1 DEF MergeParameters, Slots

LEMMA RunType ==
  ASSUME NEW cat, NEW def, NEW done, NEW mode \in {"preview", "simulate"}
  PROVE  Run(def, cat, mode, done) \in [Action -> TraceMode]
BY DEF Run, TraceMode

Advanced == [progress: Progress, confirm: BOOLEAN, ran: BOOLEAN]

LEMMA AdvanceType ==
  ASSUME NEW cat \in Catalogs, NEW def \in ScenarioDef, NEW progress \in Progress,
         NEW e \in Extracted, NEW intent \in Intent, NEW done \in SUBSET Action
  PROVE  Advance(def, cat, progress, e, intent, done) \in Advanced
<1> DEFINE p == [progress EXCEPT !.slots = MergeParameters(@, cat, e)]
           complete == MissingSlots(def, p.slots) = {}
<1>1. p \in Progress
  BY MergeType DEF Progress
<1>2. \A tr \in [Action -> TraceMode] :
        /\ Collecting(p) \in Progress /\ Cancelled(p) \in Progress
        /\ Previewed(p, tr) \in Progress /\ Finished(p, tr) \in Progress
  BY <1>1 DEF Progress, Status, Collecting, Cancelled, Previewed, Finished, FinalStatus
<1>3. def.confirm \in BOOLEAN /\ p.awaiting \in BOOLEAN
  BY <1>1 DEF ScenarioDef, Progress
<1> HIDE DEF p
<1>4. CASE ~complete
  BY <1>2, <1>4, RunType DEF Advance, Advanced, p
<1>5. CASE complete /\ p.awaiting /\ intent = "unknown"
  BY <1>1, <1>5 DEF Advance, Advanced, p
<1>6. CASE complete /\ p.awaiting /\ intent = "reject"
  BY <1>2, <1>6, RunType DEF Advance, Advanced, p
<1>7. CASE complete /\ ~p.awaiting /\ def.confirm
  BY <1>2, <1>7, RunType DEF Advance, Advanced, p
<1>8. CASE complete /\ \/ p.awaiting /\ intent = "approve"
                       \/ ~p.awaiting /\ ~def.confirm
  BY <1>2, <1>8, RunType DEF Advance, Advanced, p
<1>9. intent = "unknown" \/ intent = "reject" \/ intent = "approve"
  BY DEF Intent
<1> HIDE DEF complete
<1>10. QED
  BY <1>3, <1>4, <1>5, <1>6, <1>7, <1>8, <1>9

LEMMA LastOfType ==
  ASSUME NEW S, NEW q \in Seq(S), NEW n \in Nat
  PROVE  LastOf(q, n) \in Seq(S)
BY DEF LastOf

LEMMA FrontType ==
  ASSUME NEW S, NEW q \in Seq(S)
  PROVE  Front(q) \in Seq(S)
BY DEF Front

LEMMA RemoveAtType ==
  ASSUME NEW S, NEW q \in Seq(S), NEW i \in DOMAIN q
  PROVE  RemoveAt(q, i) \in Seq(S)
BY DEF RemoveAt

\* A turn under way has loaded one of the catalogs (RouterService.turn).
CatalogLoaded == \A t \in Turn : InFlight(t) => request[t].catalog \in Catalogs

TInv == TypeOK /\ CatalogLoaded

LEMMA FreshType == FreshConversation \in ConversationWith(<<>>)
<1>1. IdleProgress \in Progress
  BY DEF IdleProgress, Progress, NoSlots, NoTraces, Slots, Status, TraceMode
<1>2. NoParameters \in [Scenario -> Extracted]
  BY DEF NoParameters, NothingExtracted, Extracted
<1>3. QED
  BY <1>1, <1>2 DEF FreshConversation, ConversationWith

LEMMA SnapshotType ==
  ASSUME NEW c, NEW p, c \in ConversationWith(p), NEW cat \in Catalogs
  PROVE  Snapshot(c, cat) \in ConversationWith(Snapshot(c, cat).pending)
<1>1. IdleProgress \in Progress
  BY DEF IdleProgress, Progress, NoSlots, NoTraces, Slots, Status, TraceMode
<1>2. NothingExtracted \in Extracted
  BY DEF NothingExtracted, Extracted
<1>3. QED
  BY <1>1, <1>2 DEF Snapshot, ConversationWith

LEMMA NoOutcomeType == NoOutcome \in TurnResult
BY DEF NoOutcome, Answer, TurnResult, NoSlots, Slots

\* A decision that routes chooses a scenario of the turn's catalog.
LEMMA RouteChoice ==
  ASSUME NEW t \in Turn, NEW d \in Decision,
         Decides(t, d), Thresholded(d).action = "route"
  PROVE  d.action = "route" /\ d.scenario \in DOMAIN request[t].catalog.scenario
<1>1. d.action = "route"
  BY DEF Thresholded, Decision
<1>2. CASE AnswersConfirmation(t)
  BY <1>1, <1>2 DEF Decides, AnswersConfirmation, Confirmation
<1>3. CASE ~AnswersConfirmation(t)
  BY <1>1, <1>3 DEF Decides, Valid
<1>4. QED
  BY <1>1, <1>2, <1>3

LEMMA ParametersType ==
  ASSUME NEW d, d.params \in [Scenario -> Extracted], NEW p,
         cand \in ConversationWith(p)
  PROVE  MergedParameters(d) \in [Scenario -> Extracted]
BY DEF MergedParameters, ConversationWith, Extracted

LEMMA ThresholdedType ==
  ASSUME NEW d \in Decision
  PROVE  /\ Thresholded(d).params \in [Scenario -> Extracted]
         /\ Thresholded(d).action \in {"route", "clarify", "handoff"}
<1>1. d.params \in [Scenario -> Extracted] /\ NoParameters \in [Scenario -> Extracted]
  BY RouterAssumption DEF Decision, NoParameters
<1>2. QED
  BY <1>1 DEF Thresholded, Decision

LEMMA ExchangedType ==
  ASSUME NEW t \in Turn, NEW p, cand \in ConversationWith(p)
  PROVE  Exchanged(t) \in Seq(Entry)
<1>1. cand.history \o <<[role |-> "user", turn |-> t], [role |-> "assistant", turn |-> t]>>
        \in Seq(Entry)
  BY DEF ConversationWith, Entry
<1>2. QED
  BY <1>1, LastOfType, LimitsAssumption DEF Exchanged

LEMMA InitType == Init => TInv
<1> SUFFICES ASSUME Init PROVE TInv
  OBVIOUS
<1>1. session \in ConversationWith(session.pending)
      /\ cand \in ConversationWith(cand.pending)
  BY FreshType DEF Init, FreshConversation
<1>2. QED
  BY <1>1, NoOutcomeType DEF Init, TInv, TypeOK, CatalogLoaded, InFlight, Request, Phase,
       Intent, Signals

\* A step that replaces turn t's request keeps the types of all of them.
LEMMA RequestStep ==
  ASSUME TInv, NEW t \in Turn, NEW r \in Request,
         request' = [request EXCEPT ![t] = r],
         r.phase \in {"waiting", "routing", "replying"} => r.catalog \in Catalogs
  PROVE  request' \in [Turn -> Request] /\ CatalogLoaded'
<1>1. request \in [Turn -> Request]
  BY DEF TInv, TypeOK
<1>2. request' \in [Turn -> Request]
  BY <1>1
<1>3. ASSUME NEW u \in Turn, InFlight(u)' PROVE request'[u].catalog \in Catalogs
  BY <1>1, <1>3 DEF TInv, CatalogLoaded, InFlight
<1>4. QED
  BY <1>2, <1>3 DEF CatalogLoaded

LEMMA EndedStep ==
  ASSUME TInv, NEW t \in Turn, NEW phase \in {"done", "failed"}, request' = Ended(t, phase)
  PROVE  request' \in [Turn -> Request] /\ CatalogLoaded'
<1> DEFINE r == [request[t] EXCEPT !.phase = phase, !.intent = "unknown", !.catalog = None]
<1>1. r \in Request
  BY DEF TInv, TypeOK, Request, Phase, Intent
<1>2. request' = [request EXCEPT ![t] = r]
  BY DEF Ended, TInv, TypeOK, Request
<1>3. r.phase = phase
  BY DEF TInv, TypeOK, Request
<1>4. QED
  BY <1>1, <1>2, <1>3, RequestStep

LEMMA DecideRouteType ==
  ASSUME TInv, NEW t \in Turn, DecideRoute(t)
  PROVE  TInv'
<1> DEFINE cat == request[t].catalog
<1>1. PICK d \in Decision, done \in SUBSET Action : DecideRoute(t)!2!(d, done)
  BY DEF DecideRoute
<1>2. holder = t /\ request[t].phase = "routing"
      /\ request' = [request EXCEPT ![t].phase = "replying"]
      /\ UNCHANGED <<catalog, session, holder, queue, streak, ran>>
  BY DEF DecideRoute
<1> DEFINE advance == Advance(cat.scenario[d.scenario], cat, cand.workflows[d.scenario],
                              d.params[d.scenario], request[t].intent, done)
           runs == cat.enabled /\ cat.scenario[d.scenario].executable
<1>3. cat \in Catalogs
  BY <1>2 DEF TInv, CatalogLoaded, InFlight
<1>4. d.scenario \in DOMAIN cat.scenario /\ d.scenario \in Scenario
  BY <1>1, <1>3, RouteChoice, CatalogsAssumption
<1>5. advance \in Advanced
  <2>1. cand.workflows[d.scenario] \in Progress
    BY <1>4 DEF TInv, TypeOK, ConversationWith
  <2>2. d.params[d.scenario] \in Extracted
    BY <1>4, RouterAssumption DEF Decision
  <2>3. request[t].intent \in Intent /\ cat.scenario[d.scenario] \in ScenarioDef
    BY <1>3, <1>4, CatalogsAssumption DEF TInv, TypeOK, Request
  <2>4. QED
    BY <1>3, <2>1, <2>2, <2>3, AdvanceType
<1>6. cand' \in ConversationWith(cand'.pending)
  <2>1. MergedParameters(d) \in [Scenario -> Extracted]
    BY ParametersType, RouterAssumption DEF TInv, TypeOK, Decision
  <2>2. Exchanged(t) \in Seq(Entry)
    BY ExchangedType DEF TInv, TypeOK
  <2>3. cand' = [cand EXCEPT
               !.uncertain = 0,
               !.parameters = MergedParameters(d),
               !.pending = Suspended(d),
               !.workflows = IF runs THEN [@ EXCEPT ![d.scenario] = advance.progress]
                             ELSE @,
               !.active = d.scenario,
               !.history = Exchanged(t)]
    BY <1>1
  <2> DEFINE w == IF runs THEN [cand.workflows EXCEPT ![d.scenario] = advance.progress]
                  ELSE cand.workflows
  <2>4. w \in [Scenario -> Progress]
    BY <1>5 DEF TInv, TypeOK, ConversationWith, Advanced
  <2> HIDE DEF runs, advance, w
  <2>5. cand' = [cand EXCEPT
               !.uncertain = 0, !.parameters = MergedParameters(d),
               !.pending = Suspended(d), !.workflows = w,
               !.active = d.scenario, !.history = Exchanged(t)]
    BY <2>3 DEF w
  <2>6. cand \in ConversationWith(cand.pending)
    BY DEF TInv, TypeOK
  <2>7. QED
    BY <1>4, <2>1, <2>2, <2>4, <2>5, <2>6 DEF ConversationWith
<1>7. outcome' \in TurnResult
  <2> DEFINE answer == Answer("route", d.scenario, Transition(d))
  <2>1. answer \in TurnResult
    BY <1>4 DEF Answer, TurnResult, NoSlots, Slots, Transition
  <2>2. advance.progress \in Progress /\ advance.confirm \in BOOLEAN
    BY <1>5 DEF Advanced
  <2>3. outcome' =
          IF runs
          THEN [answer EXCEPT
                  !.confirm = advance.confirm, !.slots = advance.progress.slots,
                  !.simulated = IF advance.ran
                                THEN Simulated(advance.progress.traces) ELSE {}]
          ELSE answer
    BY <1>1
  <2> HIDE DEF runs, advance, answer
  <2>4. QED
    BY <2>1, <2>2, <2>3 DEF TurnResult, Progress, Simulated
<1>8. QED
  BY <1>2, <1>3, <1>6, <1>7 DEF TInv, TypeOK, CatalogLoaded, InFlight, Request, Phase

LEMMA DecideOtherType ==
  ASSUME TInv, NEW t \in Turn, DecideOther(t)
  PROVE  TInv'
<1>1. PICK d \in Decision : DecideOther(t)!2!(d)
  BY DEF DecideOther
<1>2. holder = t /\ request[t].phase = "routing"
      /\ request' = [request EXCEPT ![t].phase = "replying"]
      /\ UNCHANGED <<catalog, session, holder, queue, streak, ran>>
  BY DEF DecideOther
<1> DEFINE e == Thresholded(d)
<1>3. e.params \in [Scenario -> Extracted] /\ e.action \in {"route", "clarify", "handoff"}
  BY ThresholdedType
<1>4. cand' = [cand EXCEPT !.uncertain = Uncertain(e), !.parameters = MergedParameters(e),
                           !.history = Exchanged(t)]
      /\ outcome' = Answer(OtherAction(e), None, "continue")
  BY <1>1
<1> HIDE DEF e
<1>5. cand' \in ConversationWith(cand'.pending)
  <2>1. cand \in ConversationWith(cand.pending)
    BY DEF TInv, TypeOK
  <2>2. MergedParameters(e) \in [Scenario -> Extracted]
    BY <1>3, <2>1, ParametersType
  <2>3. Exchanged(t) \in Seq(Entry)
    BY <2>1, ExchangedType
  <2>4. Uncertain(e) \in Nat
    BY <2>1 DEF Uncertain, ConversationWith
  <2>5. QED
    BY <1>4, <2>1, <2>2, <2>3, <2>4 DEF ConversationWith
<1>6. outcome' \in TurnResult
  BY <1>4 DEF Answer, OtherAction, TurnResult, NoSlots, Slots
<1>7. QED
  BY <1>2, <1>5, <1>6 DEF TInv, TypeOK, CatalogLoaded, InFlight, Request, Phase

LEMMA CommitType ==
  ASSUME TInv, NEW t \in Turn, Commit(t)
  PROVE  TInv'
<1>1. session' \in ConversationWith(session'.pending)
  <2>1. Front(cand.history) \in Seq(Entry)
    BY FrontType DEF TInv, TypeOK, ConversationWith
  <2>2. cand \in ConversationWith(cand.pending)
    BY DEF TInv, TypeOK
  <2>3. QED
    BY <2>1, <2>2 DEF Commit, ConversationWith
<1>2. request' \in [Turn -> Request] /\ CatalogLoaded'
  BY EndedStep DEF Commit
<1>3. streak' \in Nat
  BY DEF Commit, TInv, TypeOK
<1>4. ran' \in [Scenario -> SUBSET Turn]
  BY DEF Commit, TInv, TypeOK
<1>5. cand' \in ConversationWith(cand'.pending)
  BY FreshType DEF Commit, FreshConversation
<1>6. QED
  BY <1>1, <1>2, <1>3, <1>4, <1>5, NoOutcomeType DEF Commit, TInv, TypeOK

LEMMA EndingType ==
  ASSUME TInv, NEW t \in Turn, Fail(t) \/ Abandon(t)
  PROVE  TInv'
<1>1. request' \in [Turn -> Request] /\ CatalogLoaded'
  BY EndedStep DEF Fail, Abandon
<1>2. CASE Fail(t)
  BY <1>1, <1>2, FreshType, NoOutcomeType DEF Fail, TInv, TypeOK, FreshConversation
<1>3. CASE Abandon(t)
  <2>1. queue' \in Seq([kind: {"turn"} \cup Signals, turn: Turn])
    BY <1>3, RemoveAtType DEF Abandon, TInv, TypeOK
  <2>2. QED
    BY <1>1, <1>3, <2>1 DEF Abandon, TInv, TypeOK
<1>4. QED
  BY <1>2, <1>3

LEMMA QueueingType ==
  ASSUME TInv, NEW t \in Turn,
         \/ \E i \in Intents, d \in Deliveries : Submit(t, i, d)
         \/ \E kind \in {"confirm", "interrupt"} : Signal(t, kind)
  PROVE  TInv'
<1>1. ASSUME NEW i \in Intents, NEW d \in Deliveries, Submit(t, i, d) PROVE TInv'
  <2> DEFINE r == [phase |-> "waiting", intent |-> i, delivered |-> d,
                   catalog |-> catalog, signals |-> {}]
  <2>1. r \in Request /\ r.catalog \in Catalogs
    BY LimitsAssumption DEF Request, Phase, Intent, TInv, TypeOK
  <2>2. request' \in [Turn -> Request] /\ CatalogLoaded'
    BY <1>1, <2>1, RequestStep DEF Submit
  <2>3. queue' \in Seq([kind: {"turn"} \cup Signals, turn: Turn])
    BY <1>1 DEF Submit, TInv, TypeOK
  <2>4. QED
    BY <1>1, <2>2, <2>3 DEF Submit, TInv, TypeOK
<1>2. ASSUME NEW kind \in {"confirm", "interrupt"}, Signal(t, kind) PROVE TInv'
  <2> DEFINE r == [request[t] EXCEPT !.signals = @ \cup {kind}]
  <2>1. r \in Request
    BY DEF TInv, TypeOK, Request, Signals
  <2>2. request' \in [Turn -> Request] /\ CatalogLoaded'
    BY <1>2, <2>1, RequestStep DEF Signal, TInv, TypeOK, Request
  <2>3. queue' \in Seq([kind: {"turn"} \cup Signals, turn: Turn])
    BY <1>2 DEF Signal, TInv, TypeOK, Signals
  <2>4. QED
    BY <1>2, <2>2, <2>3 DEF Signal, TInv, TypeOK
<1>3. QED
  BY <1>1, <1>2

LEMMA AcquiringType ==
  ASSUME TInv, NEW t \in Turn, Begin(t) \/ ConfirmDelivery(t) \/ InterruptDelivery(t)
  PROVE  TInv'
<1>1. queue' \in Seq([kind: {"turn"} \cup Signals, turn: Turn])
  <2>1. queue # <<>> /\ queue' = Tail(queue)
    BY DEF Begin, ConfirmDelivery, InterruptDelivery, Acquires
  <2>2. queue \in Seq([kind: {"turn"} \cup Signals, turn: Turn])
    BY DEF TInv, TypeOK
  <2>3. QED
    BY <2>1, <2>2
<1>2. CASE Begin(t)
  <2>1. request[t].catalog \in Catalogs
    BY <1>2 DEF Begin, TInv, CatalogLoaded, InFlight
  <2>2. cand' \in ConversationWith(cand'.pending)
    BY <1>2, <2>1, SnapshotType DEF Begin, TInv, TypeOK
  <2>3. QED
    BY <1>1, <1>2, <2>1, <2>2 DEF Begin, TInv, TypeOK, CatalogLoaded, InFlight, Request, Phase
<1>3. CASE ConfirmDelivery(t)
  <2>1. LastOf(Append(session.history, [role |-> "assistant", turn |-> t]), HistoryLimit)
          \in Seq(Entry)
    <3>1. Append(session.history, [role |-> "assistant", turn |-> t]) \in Seq(Entry)
      BY DEF TInv, TypeOK, ConversationWith, Entry
    <3>2. QED
      BY <3>1, LastOfType, LimitsAssumption
  <2>2. session' \in ConversationWith(session'.pending)
    BY <1>3, <2>1 DEF ConfirmDelivery, TInv, TypeOK, ConversationWith
  <2>3. QED
    BY <1>1, <1>3, <2>2 DEF ConfirmDelivery, TInv, TypeOK, CatalogLoaded, InFlight
<1>4. CASE InterruptDelivery(t)
  <2>1. session' \in ConversationWith(session'.pending)
    BY <1>4 DEF InterruptDelivery, TInv, TypeOK, ConversationWith
  <2>2. QED
    BY <1>1, <1>4, <2>1 DEF InterruptDelivery, TInv, TypeOK, CatalogLoaded, InFlight
<1>5. QED
  BY <1>2, <1>3, <1>4

LEMMA StepType == TInv /\ [Next]_vars => TInv'
<1> SUFFICES ASSUME TInv, [Next]_vars PROVE TInv'
  OBVIOUS
<1>1. CASE UNCHANGED vars
  BY <1>1 DEF vars, TInv, TypeOK, CatalogLoaded, InFlight
<1>2. ASSUME NEW c \in Catalogs, EditCatalog(c) PROVE TInv'
  BY <1>2 DEF EditCatalog, TInv, TypeOK, CatalogLoaded, InFlight
<1>3. QED
  BY <1>1, <1>2, DecideRouteType, DecideOtherType, CommitType, EndingType, QueueingType,
     AcquiringType DEF Next

\* Every variable keeps its type, for every catalog, router answer and interleaving.
THEOREM TypeCorrect == Spec => []TypeOK
<1>1. TInv => TypeOK
  BY DEF TInv
<1>2. QED
  BY InitType, StepType, <1>1, PTL DEF Spec

-----------------------------------------------------------------------------
\* The confirmation policy, for every set of catalogs that require confirmation
\* wherever they have an irreversible action: nothing is simulated without a yes to
\* an open question, and the conversation implements ConfirmationGate.

\* The scenarios of conversation c whose confirmation question is open.
Open(c) == {s \in Scenario : c.workflows[s].awaiting}

\* The lock holder t works on the snapshot it took, and then on a snapshot that
\* asked at most the question of the scenario it chose; if it simulated
\* something, it answered that scenario's open question with yes and shut it.
HolderWorks(t) ==
  /\ request[t].phase \in {"routing", "replying"}
  /\ request[t].phase = "routing" => cand = Snapshot(session, request[t].catalog)
  /\ request[t].phase = "replying" =>
       /\ Open(cand) \subseteq Open(session) \cup {outcome.scenario}
       /\ outcome.simulated # {} =>
            /\ outcome.scenario \in Open(session) \ Open(cand)
            /\ request[t].intent = "approve"

GInv ==
  /\ TInv
  /\ holder # None => HolderWorks(holder)
  /\ \A s \in Scenario : \A t \in ran[s] : request[t].phase = "done"

LEMMA SnapshotOpens ==
  ASSUME NEW c, NEW cat PROVE Open(Snapshot(c, cat)) \subseteq Open(c)
BY DEF Open, Snapshot, IdleProgress

\* A preview simulates nothing; a run that simulates has an irreversible action.
LEMMA RunSimulates ==
  ASSUME NEW def, NEW cat, NEW done, NEW mode \in {"preview", "simulate"},
         Simulated(Run(def, cat, mode, done)) # {}
  PROVE  mode = "simulate" /\ def.actions \cap cat.irreversible # {}
BY DEF Simulated, Run

\* What Advance says about confirmation: only a yes to an open question, or a
\* scenario that requires no confirmation, simulates, and what ran without asking
\* leaves the question shut.
LEMMA AdvanceSimulates ==
  ASSUME NEW cat \in Catalogs, NEW def \in ScenarioDef, NEW progress \in Progress,
         NEW e \in Extracted, NEW intent \in Intent, NEW done \in SUBSET Action,
         Advance(def, cat, progress, e, intent, done).ran,
         Simulated(Advance(def, cat, progress, e, intent, done).progress.traces) # {}
  PROVE  /\ ~Advance(def, cat, progress, e, intent, done).progress.awaiting
         /\ \/ progress.awaiting /\ intent = "approve"
            \/ ~def.confirm /\ def.actions \cap cat.irreversible # {}
<1> DEFINE p == [progress EXCEPT !.slots = MergeParameters(@, cat, e)]
           complete == MissingSlots(def, p.slots) = {}
           o == Advance(def, cat, progress, e, intent, done)
<1>1. p \in Progress /\ p.awaiting = progress.awaiting
  BY MergeType DEF Progress
<1>2. def.confirm \in BOOLEAN /\ p.awaiting \in BOOLEAN
  BY <1>1 DEF ScenarioDef, Progress
<1> HIDE DEF p
<1>4. CASE ~complete
  BY <1>4 DEF Advance, p
<1>5. CASE complete /\ p.awaiting /\ intent # "approve"
  <2>1. intent = "unknown" \/ intent = "reject"
    BY <1>5 DEF Intent
  <2>2. ~o.ran
    BY <1>5, <2>1 DEF Advance, p
  <2>3. QED
    BY <2>2
<1>6. CASE complete /\ ~p.awaiting /\ def.confirm
  <2>1. o.progress = Previewed(p, Run(def, cat, "preview", done))
    BY <1>6 DEF Advance, p
  <2>2. o.progress.traces = Run(def, cat, "preview", done)
    BY <1>1, <2>1 DEF Previewed, Progress
  <2>3. QED
    BY <2>2, RunSimulates
<1>7. CASE complete /\ \/ p.awaiting /\ intent = "approve"
                       \/ ~p.awaiting /\ ~def.confirm
  <2>1. o.progress = Finished(p, Run(def, cat, "simulate", done))
    BY <1>7 DEF Advance, p
  <2>2. /\ o.progress.traces = Run(def, cat, "simulate", done)
        /\ ~o.progress.awaiting
    BY <1>1, <2>1 DEF Finished, Progress
  <2>3. QED
    BY <1>1, <1>7, <2>2, RunSimulates
<1> HIDE DEF complete
<1>8. QED
  BY <1>2, <1>4, <1>5, <1>6, <1>7

LEMMA DecideRouteGate ==
  ASSUME ConfirmingCatalogs, GInv, NEW t \in Turn, DecideRoute(t)
  PROVE  GInv'
<1> DEFINE cat == request[t].catalog
<1>1. PICK d \in Decision, done \in SUBSET Action : DecideRoute(t)!2!(d, done)
  BY DEF DecideRoute
<1> DEFINE s == d.scenario
           def == cat.scenario[s]
           advance == Advance(def, cat, cand.workflows[s], d.params[s],
                              request[t].intent, done)
           runs == cat.enabled /\ def.executable
<1>2. /\ holder = t /\ request[t].phase = "routing"
      /\ request' = [request EXCEPT ![t].phase = "replying"]
      /\ UNCHANGED <<catalog, session, holder, queue, streak, ran>>
      /\ TInv
  BY DEF DecideRoute, GInv
<1>3. TInv'
  BY <1>2, DecideRouteType
<1>4. cat \in Catalogs /\ s \in DOMAIN cat.scenario /\ s \in Scenario
  <2>1. cat \in Catalogs
    BY <1>2 DEF TInv, CatalogLoaded, InFlight
  <2>2. QED
    BY <1>1, <2>1, RouteChoice, CatalogsAssumption
<1>5. cand = Snapshot(session, cat) /\ Open(cand) \subseteq Open(session)
  <2>1. cand = Snapshot(session, cat)
    BY <1>2, NoneIsNoScenario DEF GInv, HolderWorks
  <2>2. QED
    BY <2>1, SnapshotOpens
<1>6. /\ cand.workflows \in [Scenario -> Progress]
      /\ d.params[s] \in Extracted /\ request[t].intent \in Intent /\ def \in ScenarioDef
  BY <1>2, <1>4, CatalogsAssumption, RouterAssumption
  DEF TInv, TypeOK, ConversationWith, Decision, Request
<1>7. advance \in Advanced
  BY <1>4, <1>6, AdvanceType
<1>8. cand'.workflows = IF runs THEN [cand.workflows EXCEPT ![s] = advance.progress]
                        ELSE cand.workflows
  BY <1>1, <1>2 DEF TInv, TypeOK, ConversationWith
<1>9. outcome'.scenario = s
      /\ outcome'.simulated = IF runs /\ advance.ran
                              THEN Simulated(advance.progress.traces) ELSE {}
  <2> HIDE DEF runs, advance
  <2>1. outcome' = IF runs
                   THEN [Answer("route", s, Transition(d)) EXCEPT
                           !.confirm = advance.confirm, !.slots = advance.progress.slots,
                           !.simulated = IF advance.ran
                                         THEN Simulated(advance.progress.traces) ELSE {}]
                   ELSE Answer("route", s, Transition(d))
    BY <1>1 DEF runs, advance
  <2>2. QED
    BY <2>1 DEF Answer
<1> HIDE DEF advance, runs
<1>10. Open(cand') \subseteq Open(session) \cup {s}
  BY <1>5, <1>6, <1>8 DEF Open
<1>11. ASSUME outcome'.simulated # {}
       PROVE  s \in Open(session) \ Open(cand') /\ request[t].intent = "approve"
  <2>1. runs /\ advance.ran /\ Simulated(advance.progress.traces) # {}
    BY <1>9, <1>11
  <2>2. ~(~def.confirm /\ def.actions \cap cat.irreversible # {})
    BY <1>4, <2>1 DEF ConfirmingCatalogs, runs
  <2>3. /\ ~advance.progress.awaiting /\ cand.workflows[s].awaiting
        /\ request[t].intent = "approve"
    BY <1>4, <1>6, <2>1, <2>2, AdvanceSimulates DEF advance
  <2>4. QED
    BY <1>4, <1>5, <1>6, <1>8, <2>1, <2>3 DEF Open
<1>12. HolderWorks(t)'
  <2>1. request'[t].phase = "replying" /\ request'[t].intent = request[t].intent
    BY <1>2 DEF TInv, TypeOK, Request
  <2>2. session' = session /\ outcome'.scenario = s
    BY <1>2, <1>9
  <2>3. QED
    BY <1>10, <1>11, <2>1, <2>2 DEF HolderWorks
<1>13. \A x \in Scenario : \A u \in ran'[x] : request'[u].phase = "done"
  BY <1>2 DEF GInv, TypeOK, TInv
<1>14. QED
  BY <1>2, <1>3, <1>12, <1>13 DEF GInv

LEMMA DecideOtherGate ==
  ASSUME GInv, NEW t \in Turn, DecideOther(t)
  PROVE  GInv'
<1>1. PICK d \in Decision : DecideOther(t)!2!(d)
  BY DEF DecideOther
<1>2. /\ holder = t /\ request[t].phase = "routing"
      /\ request' = [request EXCEPT ![t].phase = "replying"]
      /\ UNCHANGED <<catalog, session, holder, queue, streak, ran>>
      /\ TInv
  BY DEF DecideOther, GInv
<1>3. TInv'
  BY <1>2, DecideOtherType
<1>4. Open(cand) \subseteq Open(session)
  <2>1. cand = Snapshot(session, request[t].catalog)
    BY <1>2, NoneIsNoScenario DEF GInv, HolderWorks
  <2>2. QED
    BY <2>1, SnapshotOpens
<1>5. cand'.workflows = cand.workflows /\ outcome'.simulated = {}
  BY <1>1, <1>2 DEF Answer, TInv, TypeOK, ConversationWith
<1>6. HolderWorks(t)'
  BY <1>2, <1>4, <1>5 DEF HolderWorks, Open, TInv, TypeOK, Request
<1>7. \A x \in Scenario : \A u \in ran'[x] : request'[u].phase = "done"
  BY <1>2 DEF GInv, TypeOK, TInv
<1>8. QED
  BY <1>2, <1>3, <1>6, <1>7 DEF GInv

LEMMA BeginGate ==
  ASSUME GInv, NEW t \in Turn, Begin(t)
  PROVE  GInv'
<1>1. /\ TInv /\ holder' = t /\ request[t].phase = "waiting"
      /\ request' = [request EXCEPT ![t].phase = "routing"]
      /\ cand' = Snapshot(session, request[t].catalog)
      /\ UNCHANGED <<catalog, session, outcome, streak, ran>>
  BY DEF Begin, GInv
<1>2. TInv'
  BY <1>1, AcquiringType
<1>3. HolderWorks(t)'
  BY <1>1 DEF HolderWorks, TInv, TypeOK, Request
<1>4. \A x \in Scenario : \A u \in ran'[x] : request'[u].phase = "done"
  BY <1>1 DEF GInv, TypeOK, TInv
<1>5. QED
  BY <1>1, <1>2, <1>3, <1>4 DEF GInv

LEMMA CommitGate ==
  ASSUME GInv, NEW t \in Turn, Commit(t)
  PROVE  GInv'
<1>1. TInv' /\ TInv /\ holder' = None
  BY CommitType DEF Commit, GInv
<1>2. request' = Ended(t, "done")
  BY DEF Commit
<1>3. \A x \in Scenario : \A u \in ran'[x] : u = t \/ u \in ran[x]
  BY <1>1 DEF Commit, TInv, TypeOK
<1>4. \A u \in Turn : request'[u].phase = IF u = t THEN "done" ELSE request[u].phase
  BY <1>1, <1>2 DEF Ended, TInv, TypeOK, Request
<1>5. QED
  BY <1>1, <1>3, <1>4 DEF GInv, TInv, TypeOK

\* The other steps leave the conversation and the lock holder's work alone.
LEMMA OtherGate ==
  ASSUME GInv, TInv', NEW t \in Turn,
         \/ Fail(t)
         \/ Abandon(t)
         \/ \E i \in Intents, d \in Deliveries : Submit(t, i, d)
         \/ \E kind \in {"confirm", "interrupt"} : Signal(t, kind)
         \/ ConfirmDelivery(t)
         \/ InterruptDelivery(t)
  PROVE  GInv'
<1>1. TInv
  BY DEF GInv
<1>2. CASE Fail(t)
  <2>1. \A u \in Turn : u # t => request'[u] = request[u]
    BY <1>1, <1>2 DEF Fail, Ended, TInv, TypeOK
  <2>2. holder' = None /\ ran' = ran /\ request[t].phase # "done"
    BY <1>2, NoneIsNoScenario DEF Fail, GInv, HolderWorks
  <2>3. QED
    BY <1>1, <2>1, <2>2 DEF GInv, TInv, TypeOK
<1>3. ASSUME \/ Abandon(t)
             \/ \E i \in Intents, d \in Deliveries : Submit(t, i, d)
             \/ \E kind \in {"confirm", "interrupt"} : Signal(t, kind)
      PROVE  GInv'
  <2>1. UNCHANGED <<session, holder, cand, outcome, ran>>
    BY <1>3 DEF Abandon, Submit, Signal
  <2>2. \A u \in Turn : u # t => request'[u] = request[u]
    BY <1>1, <1>3 DEF Abandon, Submit, Signal, Ended, TInv, TypeOK
  <2>3. \/ request[t].phase \in {"new", "waiting"}
        \/ /\ request'[t].phase = request[t].phase /\ request'[t].intent = request[t].intent
           /\ request'[t].catalog = request[t].catalog
    <3>1. CASE \E kind \in {"confirm", "interrupt"} : Signal(t, kind)
      BY <1>1, <3>1 DEF Signal, TInv, TypeOK, Request
    <3>2. CASE ~\E kind \in {"confirm", "interrupt"} : Signal(t, kind)
      BY <1>3, <3>2 DEF Abandon, Submit
    <3>3. QED
      BY <3>1, <3>2
  <2>4. ASSUME holder # None PROVE HolderWorks(holder)'
    <3>1. HolderWorks(holder) /\ holder \in Turn
      BY <1>1, <2>4 DEF GInv, TInv, TypeOK
    <3>2. /\ request'[holder].phase = request[holder].phase
          /\ request'[holder].intent = request[holder].intent
          /\ request'[holder].catalog = request[holder].catalog
      BY <2>2, <2>3, <3>1 DEF HolderWorks
    <3>3. QED
      BY <2>1, <3>1, <3>2 DEF HolderWorks
  <2>5. \A s \in Scenario : \A u \in ran'[s] : request'[u].phase = "done"
    BY <1>1, <2>1, <2>2, <2>3 DEF GInv, TInv, TypeOK
  <2>6. QED
    BY <2>1, <2>4, <2>5 DEF GInv
<1>4. CASE ConfirmDelivery(t) \/ InterruptDelivery(t)
  BY <1>4 DEF ConfirmDelivery, InterruptDelivery, Acquires, GInv
<1>5. QED
  BY <1>2, <1>3, <1>4

LEMMA StepGate == ConfirmingCatalogs /\ GInv /\ [Next]_vars => GInv'
<1> SUFFICES ASSUME ConfirmingCatalogs, GInv, [Next]_vars PROVE GInv'
  OBVIOUS
<1>1. TInv'
  BY StepType DEF GInv
<1>2. CASE UNCHANGED vars
  BY <1>1, <1>2 DEF vars, GInv, HolderWorks
<1>3. ASSUME NEW c \in Catalogs, EditCatalog(c) PROVE GInv'
  BY <1>1, <1>3 DEF EditCatalog, GInv, HolderWorks
<1>4. ASSUME NEW t \in Turn, Begin(t) \/ DecideRoute(t) \/ DecideOther(t) \/ Commit(t)
      PROVE  GInv'
  BY <1>4, BeginGate, DecideRouteGate, DecideOtherGate, CommitGate
<1>5. QED
  BY <1>1, <1>2, <1>3, <1>4, OtherGate DEF Next

LEMMA InitGate == Init => GInv
BY InitType DEF Init, GInv, TInv, TypeOK

\* Only Commit finishes a turn.
LEMMA CommitsByCommit ==
  ASSUME TInv, [Next]_vars, NEW t \in Turn, Commits(t)
  PROVE  Commit(t)
<1> USE DEF TInv, TypeOK, Request
<1>1. CASE UNCHANGED vars
  BY <1>1 DEF vars, Commits
<1>2. ASSUME NEW c \in Catalogs, EditCatalog(c) PROVE FALSE
  BY <1>2 DEF EditCatalog, Commits
<1>3. ASSUME NEW u \in Turn, Begin(u) PROVE FALSE
  BY <1>3 DEF Begin, Commits
<1>4. ASSUME NEW u \in Turn, DecideRoute(u) \/ DecideOther(u) PROVE FALSE
  BY <1>4 DEF DecideRoute, DecideOther, Commits
<1>5. ASSUME NEW u \in Turn, Fail(u) \/ Abandon(u) PROVE FALSE
  BY <1>5 DEF Fail, Abandon, Ended, Commits
<1>6. ASSUME NEW u \in Turn, ConfirmDelivery(u) \/ InterruptDelivery(u) PROVE FALSE
  BY <1>6 DEF ConfirmDelivery, InterruptDelivery, Commits
<1>7. ASSUME NEW u \in Turn, NEW kind \in {"confirm", "interrupt"}, Signal(u, kind)
      PROVE  FALSE
  BY <1>7 DEF Signal, Commits
<1>8. ASSUME NEW u \in Turn, NEW i \in Intents, NEW d \in Deliveries, Submit(u, i, d)
      PROVE  FALSE
  BY <1>8 DEF Submit, Commits
<1>9. ASSUME NEW u \in Turn, Commit(u) PROVE u = t
  BY <1>9 DEF Commit, Ended, Commits
<1>10. QED
  BY <1>1, <1>2, <1>3, <1>4, <1>5, <1>6, <1>7, <1>8, <1>9 DEF Next

\* While the catalogs require confirmation for every scenario with an irreversible
\* action, a turn simulates one only as the yes to the question that was open when
\* it commits, and its commit shuts the question (advance_workflow under the lock).
THEOREM ApprovedBeforeSimulated ==
  ASSUME ConfirmingCatalogs
  PROVE  Spec => ConfirmedBeforeSimulated
<1> DEFINE A == \A t \in Turn :
                  Commits(t) /\ outcome.simulated # {} =>
                    LET s == outcome.scenario
                    IN /\ request[t].intent = "approve"
                       /\ session.workflows[s].awaiting
                       /\ ~session'.workflows[s].awaiting
<1>1. GInv /\ [Next]_vars => A
  <2> SUFFICES ASSUME GInv, [Next]_vars, NEW t \in Turn,
                      Commits(t), outcome.simulated # {}
               PROVE  LET s == outcome.scenario
                      IN /\ request[t].intent = "approve"
                         /\ session.workflows[s].awaiting
                         /\ ~session'.workflows[s].awaiting
    OBVIOUS
  <2>1. Commit(t)
    BY CommitsByCommit DEF GInv
  <2>2. outcome.scenario \in Open(session) \ Open(cand) /\ request[t].intent = "approve"
    BY <2>1, NoneIsNoScenario DEF Commit, GInv, HolderWorks
  <2>3. session'.workflows = cand.workflows
    BY <2>1 DEF Commit, GInv, TInv, TypeOK, ConversationWith
  <2>4. QED
    BY <2>2, <2>3 DEF Open
<1>2. QED
  BY <1>1, InitGate, StepGate, PTL DEF Spec, ConfirmedBeforeSimulated

-----------------------------------------------------------------------------
\* Refinement of ConfirmationGate.

LEMMA GateStepOfCommit ==
  ASSUME GInv, NEW t \in Turn, Commit(t)
  PROVE  Gate!Next
<1>1. /\ session'.workflows = cand.workflows
      /\ session.workflows \in [Scenario -> Progress]
  BY DEF Commit, GInv, TInv, TypeOK, ConversationWith
<1>2. Open(session) = {s \in Scenario : session.workflows[s].awaiting}
      /\ Open(session)' = {s \in Scenario : session'.workflows[s].awaiting}
  BY DEF Open
<1>3. Open(session)' = Open(cand) /\ Open(session) \subseteq Scenario
  BY <1>1 DEF Open
<1>4. /\ Open(cand) \subseteq Open(session) \cup {outcome.scenario}
      /\ outcome.simulated # {} =>
           outcome.scenario \in Open(session) \ Open(cand)
  BY NoneIsNoScenario DEF Commit, GInv, HolderWorks
<1>5. CASE outcome.simulated # {}
  <2> DEFINE s == outcome.scenario
  <2>1. s \in Scenario /\ s \in Open(session)
    BY <1>3, <1>4, <1>5
  <2>2. t \notin ran[s]
    BY <2>1 DEF Commit, GInv
  <2>3. Open(session)' \in SUBSET (Open(session) \ {s})
    BY <1>3, <1>4, <1>5
  <2>4. ran' = [ran EXCEPT ![s] = @ \cup {t}]
    BY <1>5 DEF Commit
  <2>5. Gate!Execute(s, t)
    BY <1>2, <2>1, <2>2, <2>3, <2>4 DEF Gate!Execute
  <2>6. QED
    BY <2>1, <2>5 DEF Gate!Next
<1>6. CASE outcome.simulated = {}
  <2>1. ran' = ran
    BY <1>6 DEF Commit
  <2>2. CASE Open(cand) \subseteq Open(session)
    <3>1. Gate!Shut
      BY <1>2, <1>3, <2>1, <2>2 DEF Gate!Shut
    <3>2. QED
      BY <3>1 DEF Gate!Next
  <2>3. CASE ~(Open(cand) \subseteq Open(session))
    <3>1. outcome.scenario \in Open(cand) /\ outcome.scenario \in Scenario
      BY <1>4, <2>3 DEF Open
    <3>2. PICK s \in Scenario : s = outcome.scenario
      BY <3>1
    <3>3. \E kept \in SUBSET Open(session) : Open(session)' = kept \cup {s}
      <4> DEFINE kept == Open(cand) \ {s}
      <4>1. kept \in SUBSET Open(session) /\ Open(session)' = kept \cup {s}
        BY <1>3, <1>4, <3>1, <3>2
      <4>2. QED
        BY <4>1
    <3>4. Gate!Ask(s)
      BY <2>1, <3>3, Zenon DEF Gate!Ask, Open
    <3>5. QED
      BY <3>2, <3>4 DEF Gate!Next
  <2>4. QED
    BY <2>2, <2>3
<1>7. QED
  BY <1>5, <1>6

LEMMA GateStutters ==
  ASSUME GInv, [Next]_vars, \A t \in Turn : ~Commit(t)
  PROVE  UNCHANGED <<session.workflows, ran>>
<1>1. CASE UNCHANGED vars
  BY <1>1 DEF vars
<1>2. ASSUME NEW c \in Catalogs, EditCatalog(c) PROVE UNCHANGED <<session, ran>>
  BY <1>2 DEF EditCatalog
<1>3. ASSUME NEW t \in Turn,
             \/ \E i \in Intents, d \in Deliveries : Submit(t, i, d)
             \/ Begin(t) \/ DecideRoute(t) \/ DecideOther(t)
             \/ Fail(t) \/ Abandon(t)
             \/ \E kind \in {"confirm", "interrupt"} : Signal(t, kind)
      PROVE  UNCHANGED <<session, ran>>
  BY <1>3 DEF Submit, Begin, DecideRoute, DecideOther, Fail, Abandon, Signal
<1>4. ASSUME NEW t \in Turn, ConfirmDelivery(t) \/ InterruptDelivery(t)
      PROVE  UNCHANGED <<session.workflows, ran>>
  BY <1>4 DEF ConfirmDelivery, InterruptDelivery, GInv, TInv, TypeOK, ConversationWith
<1>5. QED
  BY <1>1, <1>2, <1>3, <1>4 DEF Next

\* Under the same condition the conversation implements ConfirmationGate: a scenario
\* executes only through a question opened before, once per question.
THEOREM ImplementsConfirmationGate ==
  ASSUME ConfirmingCatalogs
  PROVE  Spec => KeepsGate
<1>1. Init => Gate!Init
  BY DEF Init, Gate!Init, FreshConversation, IdleProgress
<1>2. GInv /\ [Next]_vars =>
        [Gate!Next]_<<{s \in Scenario : session.workflows[s].awaiting}, ran>>
  <2> SUFFICES ASSUME GInv, [Next]_vars
               PROVE  [Gate!Next]_<<{s \in Scenario : session.workflows[s].awaiting}, ran>>
    OBVIOUS
  <2>1. CASE \E t \in Turn : Commit(t)
    BY <2>1, GateStepOfCommit
  <2>2. CASE \A t \in Turn : ~Commit(t)
    BY <2>2, GateStutters
  <2>3. QED
    BY <2>1, <2>2
<1>3. QED
  BY <1>1, <1>2, InitGate, StepGate, PTL DEF Spec, KeepsGate, Gate!Spec

-----------------------------------------------------------------------------
\* What an open question says: the flag agrees with the status, and nothing was
\* simulated since it was asked.  No turn disturbs it and none depends on the
\* catalogs, so it needs no assumption about them.
Sound(p) ==
  /\ p.awaiting <=> p.status = "awaiting_confirmation"
  /\ p.awaiting => Simulated(p.traces) = {}

AllSound(c) == \A s \in Scenario : Sound(c.workflows[s])

OInv == TInv /\ AllSound(session) /\ AllSound(cand)

LEMMA IdleIsSound == Sound(IdleProgress)
BY DEF Sound, IdleProgress

\* Every branch of advance_workflow leaves a sound progress behind.
LEMMA AdvanceSound ==
  ASSUME NEW cat \in Catalogs, NEW def \in ScenarioDef, NEW progress \in Progress,
         NEW e \in Extracted, NEW intent \in Intent, NEW done \in SUBSET Action,
         Sound(progress)
  PROVE  Sound(Advance(def, cat, progress, e, intent, done).progress)
<1> DEFINE p == [progress EXCEPT !.slots = MergeParameters(@, cat, e)]
           complete == MissingSlots(def, p.slots) = {}
           o == Advance(def, cat, progress, e, intent, done)
<1>1. p \in Progress /\ Sound(p)
  BY MergeType DEF Progress, Sound
<1>2. def.confirm \in BOOLEAN /\ p.awaiting \in BOOLEAN
  BY <1>1 DEF ScenarioDef, Progress
<1> HIDE DEF p
<1>3. Sound(Collecting(p)) /\ Sound(Cancelled(p))
  BY <1>1 DEF Sound, Progress, Collecting, Cancelled
<1>4. Sound(Previewed(p, Run(def, cat, "preview", done)))
  <2>1. Simulated(Run(def, cat, "preview", done)) = {}
    BY RunSimulates
  <2>2. QED
    BY <1>1, <2>1 DEF Sound, Progress, Previewed
<1>5. Sound(Finished(p, Run(def, cat, "simulate", done)))
  BY <1>1 DEF Sound, Progress, Finished, FinalStatus
<1>6. CASE ~complete
  BY <1>3, <1>6 DEF Advance, p
<1>7. CASE complete /\ p.awaiting /\ intent = "unknown"
  BY <1>1, <1>7 DEF Advance, p
<1>8. CASE complete /\ p.awaiting /\ intent = "reject"
  BY <1>3, <1>8 DEF Advance, p
<1>9. CASE complete /\ ~p.awaiting /\ def.confirm
  BY <1>4, <1>9 DEF Advance, p
<1>10. CASE complete /\ \/ p.awaiting /\ intent = "approve"
                        \/ ~p.awaiting /\ ~def.confirm
  BY <1>5, <1>10 DEF Advance, p
<1>11. intent = "unknown" \/ intent = "reject" \/ intent = "approve"
  BY DEF Intent
<1> HIDE DEF complete
<1>12. QED
  BY <1>2, <1>6, <1>7, <1>8, <1>9, <1>10, <1>11

LEMMA SnapshotSound ==
  ASSUME NEW c, NEW cat, AllSound(c) PROVE AllSound(Snapshot(c, cat))
BY IdleIsSound DEF AllSound, Snapshot

LEMMA FreshSound == AllSound(FreshConversation)
BY IdleIsSound DEF AllSound, FreshConversation

LEMMA DecideRouteSound ==
  ASSUME OInv, NEW t \in Turn, DecideRoute(t)
  PROVE  AllSound(cand)'
<1> DEFINE cat == request[t].catalog
<1>1. PICK d \in Decision, done \in SUBSET Action : DecideRoute(t)!2!(d, done)
  BY DEF DecideRoute
<1> DEFINE s == d.scenario
           def == cat.scenario[s]
           advance == Advance(def, cat, cand.workflows[s], d.params[s],
                              request[t].intent, done)
           runs == cat.enabled /\ def.executable
<1>2. request[t].phase = "routing" /\ TInv
  BY DEF DecideRoute, OInv
<1>3. cat \in Catalogs
  BY <1>2 DEF TInv, CatalogLoaded, InFlight
<1>4. s \in DOMAIN cat.scenario /\ s \in Scenario
  BY <1>1, <1>3, RouteChoice, CatalogsAssumption
<1>5. /\ cand.workflows \in [Scenario -> Progress] /\ Sound(cand.workflows[s])
      /\ d.params[s] \in Extracted /\ request[t].intent \in Intent /\ def \in ScenarioDef
  BY <1>2, <1>3, <1>4, CatalogsAssumption, RouterAssumption
  DEF OInv, AllSound, TInv, TypeOK, ConversationWith, Decision, Request
<1>6. Sound(advance.progress)
  BY <1>3, <1>4, <1>5, AdvanceSound
<1>7. cand'.workflows = IF runs THEN [cand.workflows EXCEPT ![s] = advance.progress]
                        ELSE cand.workflows
  BY <1>1, <1>2 DEF TInv, TypeOK, ConversationWith
<1> HIDE DEF advance, runs
<1>8. QED
  BY <1>5, <1>6, <1>7 DEF OInv, AllSound

LEMMA StepSound == OInv /\ [Next]_vars => OInv'
<1> SUFFICES ASSUME OInv, [Next]_vars PROVE OInv'
  OBVIOUS
<1>1. TInv' /\ TInv
  BY StepType DEF OInv
<1>2. ASSUME UNCHANGED <<session.workflows, cand.workflows>> PROVE OInv'
  BY <1>1, <1>2 DEF OInv, AllSound
<1>3. CASE UNCHANGED vars
  BY <1>2, <1>3 DEF vars
<1>4. ASSUME NEW c \in Catalogs, EditCatalog(c) PROVE OInv'
  BY <1>2, <1>4 DEF EditCatalog
<1>5. ASSUME NEW t \in Turn, NEW i \in Intents, NEW d \in Deliveries, Submit(t, i, d)
      PROVE  OInv'
  BY <1>2, <1>5 DEF Submit
<1>6. ASSUME NEW t \in Turn, Begin(t) PROVE OInv'
  BY <1>1, <1>6, SnapshotSound DEF Begin, OInv, AllSound
<1>7. ASSUME NEW t \in Turn, DecideRoute(t) PROVE OInv'
  BY <1>1, <1>7, DecideRouteSound DEF DecideRoute, OInv, AllSound
<1>8. ASSUME NEW t \in Turn, DecideOther(t) PROVE OInv'
  BY <1>1, <1>2, <1>8 DEF DecideOther, TInv, TypeOK, ConversationWith
<1>9. ASSUME NEW t \in Turn, Commit(t) PROVE OInv'
  <2>1. session'.workflows = cand.workflows /\ cand' = FreshConversation
    BY <1>1, <1>9 DEF Commit, TInv, TypeOK, ConversationWith
  <2>2. QED
    BY <1>1, <2>1, FreshSound DEF OInv, AllSound
<1>10. ASSUME NEW t \in Turn, Fail(t) PROVE OInv'
  BY <1>1, <1>10, FreshSound DEF Fail, OInv, AllSound
<1>11. ASSUME NEW t \in Turn, Abandon(t) PROVE OInv'
  BY <1>2, <1>11 DEF Abandon
<1>12. ASSUME NEW t \in Turn, NEW kind \in {"confirm", "interrupt"}, Signal(t, kind)
       PROVE  OInv'
  BY <1>2, <1>12 DEF Signal
<1>13. ASSUME NEW t \in Turn, ConfirmDelivery(t) \/ InterruptDelivery(t) PROVE OInv'
  BY <1>1, <1>2, <1>13 DEF ConfirmDelivery, InterruptDelivery, TInv, TypeOK,
                           ConversationWith
<1>14. QED
  BY <1>3, <1>4, <1>5, <1>6, <1>7, <1>8, <1>9, <1>10, <1>11, <1>12, <1>13 DEF Next

\* In each scenario the flag that makes a yes count agrees with the status the customer is
\* shown, and while it is set the traces hold nothing that was simulated, whatever turns,
\* edits of the catalog and interruptions come between (advance_workflow).
THEOREM OpenQuestionsAreSound == Spec => []OpenConfirmation
<1>1. Init => OInv
  BY InitType, FreshSound DEF Init, OInv
<1>2. OInv => OpenConfirmation
  BY DEF OInv, AllSound, Sound, OpenConfirmation
<1>3. QED
  BY <1>1, <1>2, StepSound, PTL DEF Spec

-----------------------------------------------------------------------------
\* The limit of clarifications: what the customer got in a row is counted in the
\* conversation, and the turn that works on it counts on from there.
HolderClarifies(t) ==
  /\ request[t].phase \in {"routing", "replying"}
  /\ request[t].phase = "routing" => cand.uncertain = session.uncertain
  /\ request[t].phase = "replying" /\ outcome.action = "clarify" =>
       cand.uncertain = session.uncertain + 1 /\ cand.uncertain < MaxUncertain

CInv ==
  /\ TInv
  /\ streak <= session.uncertain /\ streak < MaxUncertain
  /\ holder # None => HolderClarifies(holder)

\* Steps that leave the counters, the lock and the phase of its holder alone.
LEMMA ClarifyFrame ==
  ASSUME CInv, TInv', UNCHANGED <<session.uncertain, cand.uncertain, outcome, streak>>,
         holder' # None => holder' = holder /\ request'[holder].phase = request[holder].phase
  PROVE  CInv'
BY DEF CInv, HolderClarifies

\* A step of another task leaves the phase of the turn that holds the lock alone.
LEMMA HolderUndisturbed ==
  ASSUME TInv, NEW t \in Turn, holder # None, request[holder].phase \in {"routing", "replying"},
         \/ Abandon(t)
         \/ \E i \in Intents, d \in Deliveries : Submit(t, i, d)
         \/ \E kind \in {"confirm", "interrupt"} : Signal(t, kind)
  PROVE  request'[holder].phase = request[holder].phase
<1> USE DEF TInv, TypeOK, Request
<1>1. holder \in Turn
  OBVIOUS
<1>2. CASE Abandon(t)
  BY <1>1, <1>2 DEF Abandon, Ended
<1>3. CASE \E i \in Intents, d \in Deliveries : Submit(t, i, d)
  BY <1>1, <1>3 DEF Submit
<1>4. CASE \E kind \in {"confirm", "interrupt"} : Signal(t, kind)
  BY <1>1, <1>4 DEF Signal
<1>5. QED
  BY <1>2, <1>3, <1>4

LEMMA BeginClarifies ==
  ASSUME CInv, TInv', NEW t \in Turn, Begin(t)
  PROVE  CInv'
<1>1. /\ holder' = t /\ cand'.uncertain = session.uncertain
      /\ request' = [request EXCEPT ![t].phase = "routing"]
      /\ UNCHANGED <<session, streak>>
  BY DEF Begin, Snapshot
<1>2. request'[t].phase = "routing"
  BY <1>1 DEF CInv, TInv, TypeOK, Request
<1>3. QED
  BY <1>1, <1>2 DEF CInv, HolderClarifies

LEMMA DecideClarifies ==
  ASSUME CInv, TInv', NEW t \in Turn, DecideRoute(t) \/ DecideOther(t)
  PROVE  CInv'
<1>1. /\ holder' = t /\ holder = t /\ request[t].phase = "routing"
      /\ request' = [request EXCEPT ![t].phase = "replying"]
      /\ UNCHANGED <<session, streak>>
  BY DEF DecideRoute, DecideOther
<1>2. request'[t].phase = "replying" /\ t # None
  BY <1>1, NoneIsNoScenario DEF CInv, TInv, TypeOK, Request
<1>3. cand.uncertain = session.uncertain
  BY <1>1, <1>2 DEF CInv, HolderClarifies
<1>4. outcome'.action = "clarify" =>
        cand'.uncertain = session.uncertain + 1 /\ cand'.uncertain < MaxUncertain
  <2>1. CASE DecideRoute(t)
    <3>1. PICK d \in Decision, done \in SUBSET Action : DecideRoute(t)!2!(d, done)
      BY <2>1 DEF DecideRoute
    <3> DEFINE cat == request[t].catalog
               advance == Advance(cat.scenario[d.scenario], cat, cand.workflows[d.scenario],
                                  d.params[d.scenario], request[t].intent, done)
               runs == cat.enabled /\ cat.scenario[d.scenario].executable
    <3>2. outcome' = IF runs
                     THEN [Answer("route", d.scenario, Transition(d)) EXCEPT
                             !.confirm = advance.confirm, !.slots = advance.progress.slots,
                             !.simulated = IF advance.ran
                                           THEN Simulated(advance.progress.traces) ELSE {}]
                     ELSE Answer("route", d.scenario, Transition(d))
      BY <3>1
    <3> HIDE DEF advance, runs
    <3>3. outcome'.action = "route"
      BY <3>2 DEF Answer
    <3>4. QED
      BY <3>3
  <2>2. CASE DecideOther(t)
    <3>1. PICK d \in Decision : DecideOther(t)!2!(d)
      BY <2>2 DEF DecideOther
    <3> DEFINE e == Thresholded(d)
    <3>2. outcome'.action = OtherAction(e) /\ cand'.uncertain = Uncertain(e)
      BY <3>1 DEF Answer, CInv, TInv, TypeOK, ConversationWith
    <3> HIDE DEF e
    <3>3. QED
      BY <1>3, <3>2 DEF OtherAction, Uncertain
  <2>3. QED
    BY <2>1, <2>2
<1>5. QED
  BY <1>1, <1>2, <1>4 DEF CInv, HolderClarifies

LEMMA CommitClarifies ==
  ASSUME CInv, TInv', NEW t \in Turn, Commit(t)
  PROVE  CInv'
<1>1. /\ holder' = None /\ holder = t /\ t # None /\ request[t].phase = "replying"
      /\ session'.uncertain = cand.uncertain
      /\ streak' = IF outcome.action = "clarify" THEN streak + 1 ELSE 0
  BY NoneIsNoScenario DEF Commit, CInv, TInv, TypeOK, ConversationWith
<1>2. outcome.action = "clarify" =>
        cand.uncertain = session.uncertain + 1 /\ cand.uncertain < MaxUncertain
  BY <1>1 DEF CInv, HolderClarifies
<1>3. /\ streak \in Nat /\ session.uncertain \in Nat /\ cand.uncertain \in Nat
      /\ MaxUncertain \in Nat \ {0}
  BY LimitsAssumption DEF CInv, TInv, TypeOK, ConversationWith
<1>4. QED
  BY <1>1, <1>2, <1>3 DEF CInv

LEMMA StepClarifies == CInv /\ [Next]_vars => CInv'
<1> SUFFICES ASSUME CInv, [Next]_vars PROVE CInv'
  OBVIOUS
<1>1. TInv' /\ TInv
  BY StepType DEF CInv
<1>2. CASE UNCHANGED vars
  BY <1>1, <1>2, ClarifyFrame DEF vars
<1>3. ASSUME NEW c \in Catalogs, EditCatalog(c) PROVE CInv'
  BY <1>1, <1>3, ClarifyFrame DEF EditCatalog
<1>4. ASSUME NEW t \in Turn,
             Begin(t) \/ DecideRoute(t) \/ DecideOther(t) \/ Commit(t)
      PROVE  CInv'
  BY <1>1, <1>4, BeginClarifies, DecideClarifies, CommitClarifies
<1>5. ASSUME NEW t \in Turn, Fail(t) PROVE CInv'
  BY <1>1, <1>5 DEF Fail, CInv
<1>6. ASSUME NEW t \in Turn,
             \/ Abandon(t)
             \/ \E i \in Intents, d \in Deliveries : Submit(t, i, d)
             \/ \E kind \in {"confirm", "interrupt"} : Signal(t, kind)
      PROVE  CInv'
  <2>1. UNCHANGED <<session, holder, cand, outcome, streak>>
    BY <1>6 DEF Abandon, Submit, Signal
  <2>2. holder # None => request'[holder].phase = request[holder].phase
    BY <1>1, <1>6, HolderUndisturbed DEF CInv, HolderClarifies
  <2>3. QED
    BY <1>1, <2>1, <2>2, ClarifyFrame
<1>7. ASSUME NEW t \in Turn, ConfirmDelivery(t) \/ InterruptDelivery(t) PROVE CInv'
  <2>1. /\ session'.uncertain = session.uncertain
        /\ UNCHANGED <<holder, cand, outcome, request, streak>>
    BY <1>1, <1>7 DEF ConfirmDelivery, InterruptDelivery, TInv, TypeOK, ConversationWith
  <2>2. QED
    BY <1>1, <2>1, ClarifyFrame
<1>8. QED
  BY <1>2, <1>3, <1>4, <1>5, <1>6, <1>7 DEF Next

\* The caller is never asked to clarify MaxUncertain times in a row: a turn that
\* fails loses its count together with its question (the policy of _execute).
THEOREM ClarificationsEnd == Spec => []ClarificationBounded
<1>1. Init => CInv
  BY InitType, LimitsAssumption DEF Init, CInv, FreshConversation
<1>2. CInv => ClarificationBounded
  BY DEF CInv, ClarificationBounded
<1>3. QED
  BY <1>1, <1>2, StepClarifies, PTL DEF Spec

-----------------------------------------------------------------------------
\* Lists filtered and rid of duplicates.

LEMMA LeastNumber ==
  ASSUME NEW S \in (SUBSET Nat) \ {{}}
  PROVE  \E x \in S : \A y \in S : x <= y
<1> DEFINE Less == OpToRel(<, Nat)
<1>1. \A x, y \in Nat : x < y => <<x, y>> \in Less
  BY DEF OpToRel
<1>2. IsWellFoundedOn(Less, Nat)
  BY NatLessThanWellFounded
<1> HIDE DEF Less
<1>3. PICK x \in S : \A y \in S : <<y, x>> \notin Less
  BY <1>2, WFMin
<1>4. ASSUME NEW y \in S PROVE x <= y
  <2>1. x \in Nat /\ y \in Nat /\ ~(y < x)
    BY <1>1, <1>3
  <2>2. QED
    BY <2>1
<1>5. QED
  BY <1>4

\* The function that AtIndices is defined by: what is gathered of each prefix.
Gathers(f, q, I) ==
  f = [n \in 0 .. Len(q) |->
         IF n = 0 THEN <<>> ELSE IF n \in I THEN Append(f[n - 1], q[n]) ELSE f[n - 1]]

\* Its values up to m.
GathersTo(f, q, I, m) ==
  /\ f = [n \in 0 .. m |-> f[n]]
  /\ f[0] = <<>>
  /\ \A n \in 1 .. m : f[n] = IF n \in I THEN Append(f[n - 1], q[n]) ELSE f[n - 1]

LEMMA GatheringExists ==
  ASSUME NEW S, NEW q \in Seq(S), NEW I
  PROVE  \E f : Gathers(f, q, I)
<1> DEFINE Missing == {m \in 0 .. Len(q) : ~\E f : GathersTo(f, q, I, m)}
<1>1. Len(q) \in Nat
  BY LenProperties
<1>2. Missing = {}
  <2> SUFFICES ASSUME Missing # {} PROVE FALSE
    OBVIOUS
  <2>1. Missing \in (SUBSET Nat) \ {{}}
    BY <1>1
  <2>2. PICK m \in Missing : \A y \in Missing : m <= y
    BY <2>1, LeastNumber
  <2>3. m \in 0 .. Len(q) /\ m \in Nat /\ ~\E f : GathersTo(f, q, I, m)
    BY <1>1, <2>2
  <2>4. CASE m = 0
    <3> DEFINE f == [n \in 0 .. 0 |-> <<>>]
    <3>1. GathersTo(f, q, I, 0)
      BY DEF GathersTo
    <3>2. QED
      BY <2>3, <2>4, <3>1
  <2>5. CASE m # 0
    <3>1. m - 1 \in 0 .. Len(q) /\ m - 1 \in Nat /\ ~(m <= m - 1)
      BY <1>1, <2>3, <2>5
    <3>2. PICK f : GathersTo(f, q, I, m - 1)
      BY <2>2, <3>1
    <3> DEFINE next == IF m \in I THEN Append(f[m - 1], q[m]) ELSE f[m - 1]
               g == [n \in 0 .. m |-> IF n = m THEN next ELSE f[n]]
    <3>3. /\ g[0] = <<>> /\ g = [n \in 0 .. m |-> g[n]]
          /\ g[m] = next /\ \A n \in 0 .. m - 1 : g[n] = f[n]
      <4> HIDE DEF next
      <4>1. QED
        BY <2>3, <2>5, <3>1, <3>2 DEF GathersTo
    <3> HIDE DEF g
    <3>4. ASSUME NEW n \in 1 .. m
          PROVE  g[n] = IF n \in I THEN Append(g[n - 1], q[n]) ELSE g[n - 1]
      <4>1. n - 1 \in 0 .. m - 1 /\ g[n - 1] = f[n - 1]
        BY <2>3, <3>3
      <4>2. CASE n = m
        BY <3>3, <4>1, <4>2
      <4>3. CASE n # m
        <5>1. n \in 1 .. m - 1 /\ n \in 0 .. m - 1
          BY <2>3, <4>3
        <5>2. QED
          BY <3>2, <3>3, <4>1, <5>1 DEF GathersTo
      <4>4. QED
        BY <4>2, <4>3
    <3>5. GathersTo(g, q, I, m)
      BY <3>3, <3>4 DEF GathersTo
    <3>6. QED
      BY <2>3, <3>5
  <2>6. QED
    BY <2>4, <2>5
<1>3. PICK f : GathersTo(f, q, I, Len(q))
  BY <1>1, <1>2
<1>4. \A n \in 0 .. Len(q) :
        f[n] = IF n = 0 THEN <<>> ELSE IF n \in I THEN Append(f[n - 1], q[n]) ELSE f[n - 1]
  BY <1>1, <1>3 DEF GathersTo
<1>5. f = [n \in 0 .. Len(q) |-> f[n]]
  BY <1>3 DEF GathersTo
<1>6. Gathers(f, q, I)
  BY <1>4, <1>5 DEF Gathers
<1>7. QED
  BY <1>6

\* r is the elements of q at the indices of I up to n, in order; none stands later
\* in r than in q.
Gathered(r, q, I, n) ==
  /\ Len(r) <= n
  /\ \A k \in 1 .. Len(r) : \E i \in I : i <= n /\ r[k] = q[i]
  /\ \A i \in I : i <= n => \E k \in 1 .. Len(r) : k <= i /\ r[k] = q[i]
  /\ \A k, l \in 1 .. Len(r) : k < l => \E i, j \in I : i < j /\ r[k] = q[i] /\ r[l] = q[j]

LEMMA GatherOne ==
  ASSUME NEW S, NEW q \in Seq(S), NEW I \in SUBSET DOMAIN q, NEW n \in 1 .. Len(q),
         NEW r \in Seq(S), Gathered(r, q, I, n - 1),
         NEW s, s = IF n \in I THEN Append(r, q[n]) ELSE r
  PROVE  s \in Seq(S) /\ Gathered(s, q, I, n)
<1>1. /\ n \in Nat /\ n >= 1 /\ n \in DOMAIN q /\ q[n] \in S /\ Len(r) \in Nat
      /\ I \subseteq Nat
  BY LenProperties, ElementOfSeq
<1>2. \A i \in I : i <= n - 1 \/ i = n \/ ~(i <= n)
  BY <1>1
<1>3. CASE n \notin I
  <2>1. s = r /\ \A i \in I : i <= n => i <= n - 1
    BY <1>1, <1>2, <1>3
  <2>2. \A i \in I : i <= n - 1 => i <= n
    BY <1>1
  <2>3. Len(r) <= n
    BY <1>1 DEF Gathered
  <2>4. QED
    BY <2>1, <2>2, <2>3 DEF Gathered
<1>4. CASE n \in I
  <2>1. /\ s \in Seq(S) /\ Len(s) = Len(r) + 1 /\ s[Len(r) + 1] = q[n]
        /\ \A k \in 1 .. Len(r) : s[k] = r[k]
    BY <1>1, <1>4, AppendProperties
  <2>2. \A k \in 1 .. Len(s) : k \in 1 .. Len(r) \/ k = Len(r) + 1
    BY <1>1, <2>1
  <2>3. Len(r) <= n - 1 /\ Len(s) <= n
    BY <1>1, <2>1 DEF Gathered
  <2>4. ASSUME NEW k \in 1 .. Len(s) PROVE \E i \in I : i <= n /\ s[k] = q[i]
    <3>1. CASE k \in 1 .. Len(r)
      <4>1. PICK i \in I : i <= n - 1 /\ r[k] = q[i]
        BY <3>1 DEF Gathered
      <4>2. i <= n
        BY <1>1, <4>1
      <4>3. QED
        BY <2>1, <3>1, <4>1, <4>2
    <3>2. CASE k = Len(r) + 1
      BY <1>1, <1>4, <2>1, <3>2
    <3>3. QED
      BY <2>2, <3>1, <3>2
  <2>5. ASSUME NEW i \in I, i <= n PROVE \E k \in 1 .. Len(s) : k <= i /\ s[k] = q[i]
    <3>1. CASE i = n
      <4>1. Len(r) + 1 \in 1 .. Len(s) /\ Len(r) + 1 <= i
        BY <1>1, <2>1, <2>3, <3>1
      <4>2. QED
        BY <2>1, <3>1, <4>1
    <3>2. CASE i <= n - 1
      <4>1. PICK k \in 1 .. Len(r) : k <= i /\ r[k] = q[i]
        BY <3>2 DEF Gathered
      <4>2. k \in 1 .. Len(s)
        BY <1>1, <2>1, <4>1
      <4>3. QED
        BY <2>1, <4>1, <4>2
    <3>3. QED
      BY <1>2, <2>5, <3>1, <3>2
  <2>6. ASSUME NEW k \in 1 .. Len(s), NEW l \in 1 .. Len(s), k < l
        PROVE  \E i, j \in I : i < j /\ s[k] = q[i] /\ s[l] = q[j]
    <3>1. k \in 1 .. Len(r)
      BY <1>1, <2>1, <2>6
    <3>2. CASE l \in 1 .. Len(r)
      BY <2>1, <2>6, <3>1, <3>2 DEF Gathered
    <3>3. CASE l = Len(r) + 1
      <4>1. PICK i \in I : i <= n - 1 /\ r[k] = q[i]
        BY <3>1 DEF Gathered
      <4>2. i < n
        BY <1>1, <4>1
      <4>3. QED
        BY <1>4, <2>1, <3>1, <3>3, <4>1, <4>2
    <3>4. QED
      BY <2>2, <3>2, <3>3
  <2>7. QED
    BY <2>1, <2>3, <2>4, <2>5, <2>6 DEF Gathered
<1>5. QED
  BY <1>3, <1>4

\* What AtIndices returns.
LEMMA AtIndicesIs ==
  ASSUME NEW S, NEW q \in Seq(S), NEW I \in SUBSET DOMAIN q
  PROVE  AtIndices(q, I) \in Seq(S) /\ Gathered(AtIndices(q, I), q, I, Len(q))
<1> DEFINE f == CHOOSE g : Gathers(g, q, I)
<1>1. Gathers(f, q, I)
  BY GatheringExists, Zenon
<1>2. AtIndices(q, I) = f[Len(q)]
  BY Zenon DEF AtIndices, Gathers
<1> HIDE DEF f
<1>3. Len(q) \in Nat
  BY LenProperties
<1>4. \A n \in 0 .. Len(q) :
        f[n] = IF n = 0 THEN <<>> ELSE IF n \in I THEN Append(f[n - 1], q[n]) ELSE f[n - 1]
  BY <1>1 DEF Gathers
<1> DEFINE Right(n) == f[n] \in Seq(S) /\ Gathered(f[n], q, I, n)
           Wrong == {n \in 0 .. Len(q) : ~Right(n)}
<1>5. Wrong = {}
  <2> SUFFICES ASSUME Wrong # {} PROVE FALSE
    OBVIOUS
  <2>1. Wrong \in (SUBSET Nat) \ {{}}
    BY <1>3
  <2>2. PICK n \in Wrong : \A y \in Wrong : n <= y
    BY <2>1, LeastNumber
  <2>3. n \in 0 .. Len(q) /\ n \in Nat /\ ~Right(n)
    BY <1>3, <2>2
  <2>4. CASE n = 0
    <3>1. f[0] = <<>> /\ <<>> \in Seq(S) /\ Len(<<>>) = 0
      BY <1>3, <1>4
    <3>2. \A i \in I : ~(i <= 0)
      BY LenProperties
    <3>3. Gathered(f[0], q, I, 0)
      BY <3>1, <3>2 DEF Gathered
    <3>4. QED
      BY <2>3, <2>4, <3>1, <3>3
  <2>5. CASE n # 0
    <3>1. n - 1 \in 0 .. Len(q) /\ n \in 1 .. Len(q) /\ ~(n <= n - 1)
      BY <1>3, <2>3, <2>5
    <3>2. Right(n - 1)
      BY <2>2, <3>1
    <3>3. f[n] = IF n \in I THEN Append(f[n - 1], q[n]) ELSE f[n - 1]
      BY <1>4, <2>3, <2>5
    <3>4. Right(n)
      BY <3>1, <3>2, <3>3, GatherOne
    <3>5. QED
      BY <2>3, <3>4
  <2>6. QED
    BY <2>4, <2>5
<1>6. Right(Len(q))
  BY <1>3, <1>5
<1>7. QED
  BY <1>2, <1>6

\* No element stands twice in q.
Apart(q) == \A k, l \in DOMAIN q : k < l => q[k] # q[l]

\* r is what is left of q without the elements outside T: it keeps q's order, and
\* none stands later in it than in q.
FilterOf(r, q, T) ==
  /\ Len(r) <= Len(q)
  /\ Apart(q) => Apart(r)
  /\ \A k \in DOMAIN r : r[k] \in T /\ \E i \in DOMAIN q : r[k] = q[i]
  /\ \A i \in DOMAIN q : q[i] \in T => \E k \in DOMAIN r : k <= i /\ r[k] = q[i]

LEMMA FilteredIs ==
  ASSUME NEW S, NEW q \in Seq(S), NEW T
  PROVE  Filtered(q, T) \in Seq(S) /\ FilterOf(Filtered(q, T), q, T)
<1> DEFINE I == {i \in DOMAIN q : q[i] \in T}
           r == AtIndices(q, I)
<1>1. r \in Seq(S) /\ Gathered(r, q, I, Len(q)) /\ Filtered(q, T) = r
  BY AtIndicesIs DEF Filtered
<1> HIDE DEF r
<1>2. /\ DOMAIN q = 1 .. Len(q) /\ DOMAIN r = 1 .. Len(r) /\ Len(q) \in Nat
      /\ \A i \in I : i <= Len(q) /\ i \in DOMAIN q /\ q[i] \in T
  BY <1>1, LenProperties
<1>3. ASSUME Apart(q) PROVE Apart(r)
  BY <1>1, <1>2, <1>3 DEF Gathered, Apart
<1>4. \A i \in DOMAIN q : q[i] \in T => i \in I
  OBVIOUS
<1> HIDE DEF I
<1>5. FilterOf(r, q, T)
  BY <1>1, <1>2, <1>3, <1>4 DEF Gathered, FilterOf
<1>6. QED
  BY <1>1, <1>5

LEMMA DistinctIs ==
  ASSUME NEW S, NEW q \in Seq(S)
  PROVE  /\ Distinct(q) \in Seq(S) /\ Apart(Distinct(q))
         /\ \A k \in DOMAIN Distinct(q) : \E i \in DOMAIN q : Distinct(q)[k] = q[i]
         /\ \A i \in DOMAIN q :
              \E k \in DOMAIN Distinct(q) : k <= i /\ Distinct(q)[k] = q[i]
<1> DEFINE r == AtIndices(q, Firsts(q))
<1>1. r \in Seq(S) /\ Gathered(r, q, Firsts(q), Len(q)) /\ Distinct(q) = r
  BY AtIndicesIs DEF Distinct, Firsts
<1> HIDE DEF r
<1>2. /\ DOMAIN q = 1 .. Len(q) /\ DOMAIN r = 1 .. Len(r) /\ Len(q) \in Nat
      /\ Len(r) \in Nat
  BY <1>1, LenProperties
<1>3. \A i \in Firsts(q) : i \in DOMAIN q /\ i <= Len(q) /\ \A j \in 1 .. i - 1 : q[j] # q[i]
  BY <1>2 DEF Firsts
<1>4. ASSUME NEW i \in Firsts(q), NEW j \in Firsts(q), i < j PROVE q[i] # q[j]
  <2>1. i \in 1 .. j - 1
    BY <1>2, <1>3, <1>4
  <2>2. QED
    BY <1>3, <2>1
<1>5. Apart(r)
  <2> SUFFICES ASSUME NEW k \in 1 .. Len(r), NEW l \in 1 .. Len(r), k < l
               PROVE  r[k] # r[l]
    BY <1>2 DEF Apart
  <2>1. \E i, j \in Firsts(q) : i < j /\ r[k] = q[i] /\ r[l] = q[j]
    BY <1>1 DEF Gathered
  <2>2. QED
    BY <1>4, <2>1
<1>6. ASSUME NEW i \in DOMAIN q PROVE \E k \in DOMAIN r : k <= i /\ r[k] = q[i]
  <2> DEFINE Same == {j \in 1 .. i : q[j] = q[i]}
  <2>1. Same \in (SUBSET Nat) \ {{}}
    BY <1>2
  <2>2. PICK j \in Same : \A y \in Same : j <= y
    BY <2>1, LeastNumber
  <2>3. j \in 1 .. i /\ q[j] = q[i] /\ j \in DOMAIN q /\ i \in Nat
    BY <1>2, <2>2
  <2>4. ASSUME NEW y \in 1 .. j - 1, q[y] = q[j] PROVE FALSE
    <3>1. y \in Same /\ ~(j <= y)
      BY <2>3, <2>4
    <3>2. QED
      BY <2>2, <3>1
  <2>5. j \in Firsts(q)
    BY <2>3, <2>4 DEF Firsts
  <2>6. PICK k \in 1 .. Len(r) : k <= j /\ r[k] = q[j]
    BY <1>1, <1>3, <2>5 DEF Gathered
  <2>7. k <= i
    BY <1>2, <2>3, <2>6
  <2>8. QED
    BY <1>2, <2>3, <2>6, <2>7
<1>7. \A k \in DOMAIN r : \E i \in DOMAIN q : r[k] = q[i]
  BY <1>1, <1>2, <1>3 DEF Gathered
<1>8. QED
  BY <1>1, <1>5, <1>6, <1>7

LEMMA FirstOfIs ==
  ASSUME NEW S, NEW q \in Seq(S), NEW n \in Nat
  PROVE  /\ FirstOf(q, n) \in Seq(S) /\ Len(FirstOf(q, n)) <= n
         /\ \A k \in DOMAIN FirstOf(q, n) : k \in DOMAIN q /\ FirstOf(q, n)[k] = q[k]
         /\ \A k \in DOMAIN q : k <= n => k \in DOMAIN FirstOf(q, n)
<1> DEFINE m == IF Len(q) < n THEN Len(q) ELSE n
           r == SubSeq(q, 1, m)
<1>1. /\ DOMAIN q = 1 .. Len(q) /\ Len(q) \in Nat /\ m \in Nat /\ m <= n /\ m <= Len(q)
      /\ \A k \in 1 .. Len(q) : k <= n => k <= m
  BY LenProperties
<1>2. FirstOf(q, n) = r
  BY DEF FirstOf
<1> HIDE DEF m
<1>3. \A k \in 1 .. m : q[k] \in S
  BY <1>1, ElementOfSeq
<1>4. /\ r \in Seq(S) /\ Len(r) = IF 1 <= m THEN m - 1 + 1 ELSE 0
      /\ \A k \in 1 .. m - 1 + 1 : r[k] = q[1 + k - 1]
  BY <1>1, <1>3, SubSeqProperties
<1> HIDE DEF r
<1>5. Len(r) = m /\ m - 1 + 1 = m /\ \A k \in 1 .. m : 1 + k - 1 = k
  BY <1>1, <1>4
<1>6. DOMAIN r = 1 .. m /\ \A k \in 1 .. m : r[k] = q[k]
  BY <1>4, <1>5, LenProperties
<1>7. QED
  BY <1>1, <1>2, <1>4, <1>5, <1>6

LEMMA ApartCounts ==
  ASSUME NEW S, NEW q \in Seq(S), Apart(q)
  PROVE  Cardinality(ToSet(q)) = Len(q)
<1>1. DOMAIN q = 1 .. Len(q) /\ Len(q) \in Nat /\ q \in [1 .. Len(q) -> ToSet(q)]
  BY LenProperties DEF ToSet
<1>2. \A k, l \in 1 .. Len(q) : k # l => q[k] # q[l]
  <2>1. \A k, l \in 1 .. Len(q) : k # l => k < l \/ l < k
    BY <1>1
  <2>2. QED
    BY <1>1, <2>1 DEF Apart
<1>3. \A x \in ToSet(q) : \E k \in 1 .. Len(q) : q[k] = x
  BY <1>1 DEF ToSet
<1>4. q \in Bijection(1 .. Len(q), ToSet(q))
  BY <1>1, <1>2, <1>3 DEF Bijection, Injection, Surjection, IsInjective
<1>5. IsFiniteSet(1 .. Len(q)) /\ Cardinality(1 .. Len(q)) = Len(q)
  BY <1>1, FS_Interval
<1>6. QED
  BY <1>4, <1>5, FS_Bijection DEF ExistsBijection

-----------------------------------------------------------------------------
\* The suspended topics.

TopicsRight(c) ==
  /\ c.pending \in Seq(Scenario) /\ Len(c.pending) <= PendingLimit
  /\ Apart(c.pending)
  /\ \A i \in DOMAIN c.pending : c.pending[i] # c.active

\* The lock holder has every suspended topic of the session that its catalog knows,
\* or has made it the active one.
KeepsTopics(t) ==
  /\ request[t].phase \in {"routing", "replying"}
  /\ \A i \in DOMAIN session.pending :
       session.pending[i] \in DOMAIN request[t].catalog.scenario =>
         \/ session.pending[i] \in ToSet(cand.pending)
         \/ request[t].phase = "replying" /\ session.pending[i] = cand.active

PInv ==
  /\ TInv
  /\ TopicsRight(session) /\ TopicsRight(cand)
  /\ holder # None => KeepsTopics(holder)

LEMMA FreshTopics == TopicsRight(FreshConversation)
BY LimitsAssumption DEF TopicsRight, FreshConversation, Apart

LEMMA SnapshotTopics ==
  ASSUME NEW c, NEW cat, TopicsRight(c)
  PROVE  /\ TopicsRight(Snapshot(c, cat))
         /\ \A i \in DOMAIN c.pending : c.pending[i] \in DOMAIN cat.scenario =>
              c.pending[i] \in ToSet(Snapshot(c, cat).pending)
<1> DEFINE valid == DOMAIN cat.scenario
           r == Filtered(c.pending, valid)
           s == Snapshot(c, cat)
<1>1. c.pending \in Seq(Scenario)
  BY DEF TopicsRight
<1>7. r \in Seq(Scenario) /\ FilterOf(r, c.pending, valid)
  BY <1>1, FilteredIs
<1>3. s.pending = r /\ (s.active = c.active \/ s.active = None)
  BY DEF Snapshot
<1> HIDE DEF r, s
<1>2. /\ r \in Seq(Scenario) /\ Len(r) <= Len(c.pending)
      /\ Apart(c.pending) => Apart(r)
      /\ \A k \in DOMAIN r : r[k] \in valid /\ \E i \in DOMAIN c.pending : r[k] = c.pending[i]
      /\ \A i \in DOMAIN c.pending : c.pending[i] \in valid =>
           \E k \in DOMAIN r : r[k] = c.pending[i]
  BY <1>7 DEF FilterOf
<1>4. Len(r) <= PendingLimit
  <2>1. Len(r) \in Nat /\ Len(c.pending) \in Nat /\ PendingLimit \in Nat
    BY <1>1, <1>2, LenProperties, LimitsAssumption
  <2>2. QED
    BY <1>2, <2>1 DEF TopicsRight
<1>5. \A k \in DOMAIN r : r[k] # s.active
  <2>1. \A k \in DOMAIN r : r[k] \in Scenario
    BY <1>2, ElementOfSeq, LenProperties
  <2>2. QED
    BY <1>2, <1>3, <2>1, NoneIsNoScenario DEF TopicsRight
<1>6. QED
  BY <1>2, <1>3, <1>4, <1>5 DEF TopicsRight, ToSet, s

\* Choosing a scenario: the suspended topics stay right, and none but the chosen one
\* leaves them, because the old ones come before those the router names.
LEMMA SuspendedIs ==
  ASSUME PInv, NEW d \in Decision, d.scenario \in Scenario
  PROVE  /\ Suspended(d) \in Seq(Scenario) /\ Len(Suspended(d)) <= PendingLimit
         /\ Apart(Suspended(d))
         /\ \A i \in DOMAIN Suspended(d) : Suspended(d)[i] # d.scenario
         /\ \A x \in ToSet(cand.pending) \ {d.scenario} : x \in ToSet(Suspended(d))
<1> DEFINE q == cand.pending \o d.also \o Left
           others == Scenario \ {d.scenario}
           f == Filtered(q, others)
           g == Distinct(f)
           r == FirstOf(g, PendingLimit)
<1>1. /\ cand.pending \in Seq(Scenario) /\ d.also \in Seq(Scenario) /\ Left \in Seq(Scenario)
      /\ Len(cand.pending) <= PendingLimit /\ PendingLimit \in Nat
  <2>1. cand.active \in Scenario \cup {None}
    BY DEF PInv, TInv, TypeOK, ConversationWith
  <2>2. QED
    BY <2>1, RouterAssumption, LimitsAssumption DEF PInv, TopicsRight, Left, Decision
<1>2. q \in Seq(Scenario) /\ \A i \in DOMAIN cand.pending : i \in DOMAIN q
                                                     /\ q[i] = cand.pending[i]
  <2> DEFINE p == cand.pending
             pa == p \o d.also
  <2>1. /\ pa \in Seq(Scenario) /\ Len(pa) = Len(p) + Len(d.also)
        /\ \A i \in 1 .. Len(p) + Len(d.also) :
             pa[i] = IF i <= Len(p) THEN p[i] ELSE d.also[i - Len(p)]
    BY <1>1, ConcatProperties
  <2> HIDE DEF p, pa
  <2>2. /\ pa \o Left \in Seq(Scenario) /\ Len(pa \o Left) = Len(pa) + Len(Left)
        /\ \A i \in 1 .. Len(pa) + Len(Left) :
             (pa \o Left)[i] = IF i <= Len(pa) THEN pa[i] ELSE Left[i - Len(pa)]
    BY <1>1, <2>1, ConcatProperties
  <2>3. q = pa \o Left
    BY DEF p, pa
  <2> HIDE DEF q
  <2>4. /\ Len(p) \in Nat /\ Len(d.also) \in Nat /\ Len(Left) \in Nat
        /\ DOMAIN p = 1 .. Len(p) /\ DOMAIN q = 1 .. Len(q)
    BY <1>1, <2>2, <2>3, LenProperties DEF p
  <2>5. /\ Len(q) = Len(pa) + Len(Left)
        /\ \A i \in 1 .. Len(pa) : i \in 1 .. Len(pa) + Len(Left) => q[i] = pa[i]
    BY <2>2, <2>3
  <2>6. ASSUME NEW i \in 1 .. Len(p) PROVE i \in DOMAIN q /\ q[i] = p[i]
    <3>1. i \in 1 .. Len(pa) /\ i \in 1 .. Len(p) + Len(d.also) /\ i <= Len(p)
      BY <2>1, <2>4
    <3>2. i \in 1 .. Len(pa) + Len(Left)
      BY <2>1, <2>4, <3>1
    <3>3. QED
      BY <2>1, <2>4, <2>5, <3>1, <3>2
  <2>7. QED
    BY <2>2, <2>3, <2>4, <2>6 DEF p
<1> HIDE DEF q
<1>11. f \in Seq(Scenario) /\ FilterOf(f, q, others)
  BY <1>2, FilteredIs
<1> HIDE DEF f
<1>3. /\ f \in Seq(Scenario)
      /\ \A k \in DOMAIN f : f[k] \in others
      /\ \A i \in DOMAIN q : q[i] \in others => \E k \in DOMAIN f : k <= i /\ f[k] = q[i]
  BY <1>11 DEF FilterOf
<1>4. /\ g \in Seq(Scenario) /\ Apart(g)
      /\ \A k \in DOMAIN g : \E i \in DOMAIN f : g[k] = f[i]
      /\ \A i \in DOMAIN f : \E k \in DOMAIN g : k <= i /\ g[k] = f[i]
  BY <1>3, DistinctIs
<1> HIDE DEF g
<1>5. /\ r \in Seq(Scenario) /\ Len(r) <= PendingLimit
      /\ \A k \in DOMAIN r : k \in DOMAIN g /\ r[k] = g[k]
      /\ \A k \in DOMAIN g : k <= PendingLimit => k \in DOMAIN r
  BY <1>1, <1>4, FirstOfIs
<1>6. Suspended(d) = r
  BY DEF Suspended, r, g, f, q
<1> HIDE DEF r
<1>7. Apart(r)
  BY <1>4, <1>5 DEF Apart
<1>8. \A i \in DOMAIN r : r[i] # d.scenario
  BY <1>3, <1>4, <1>5
<1>9. ASSUME NEW x \in ToSet(cand.pending), x # d.scenario PROVE x \in ToSet(r)
  <2>1. PICK i \in DOMAIN cand.pending : cand.pending[i] = x
    BY DEF ToSet
  <2>2. x \in Scenario /\ i \in Nat /\ i <= Len(cand.pending)
    BY <1>1, <2>1, ElementOfSeq, LenProperties
  <2>3. PICK k \in DOMAIN f : k <= i /\ f[k] = x
    BY <1>2, <1>3, <1>9, <2>1, <2>2
  <2>4. PICK l \in DOMAIN g : l <= k /\ g[l] = x
    BY <1>4, <2>3
  <2>5. l <= PendingLimit
    <3>2. DOMAIN f = 1 .. Len(f) /\ DOMAIN g = 1 .. Len(g)
      BY <1>3, <1>4, LenProperties
    <3>1. l \in Nat /\ k \in Nat /\ Len(cand.pending) \in Nat
      BY <1>1, <2>3, <2>4, <3>2, LenProperties
    <3>3. QED
      BY <1>1, <2>2, <2>3, <2>4, <3>1
  <2>6. l \in DOMAIN r /\ r[l] = x
    BY <1>5, <2>4, <2>5
  <2>7. QED
    BY <2>6 DEF ToSet
<1>10. QED
  BY <1>5, <1>6, <1>7, <1>8, <1>9

LEMMA DecideRouteTopics ==
  ASSUME PInv, NEW t \in Turn, DecideRoute(t)
  PROVE  /\ TopicsRight(cand)'
         /\ \A x \in ToSet(cand.pending) : x \in ToSet(cand'.pending) \/ x = cand'.active
<1>1. PICK d \in Decision, done \in SUBSET Action : DecideRoute(t)!2!(d, done)
  BY DEF DecideRoute
<1>2. request[t].phase = "routing" /\ TInv
  BY DEF DecideRoute, PInv
<1>3. d.scenario \in Scenario
  <2>1. request[t].catalog \in Catalogs
    BY <1>2 DEF TInv, CatalogLoaded, InFlight
  <2>2. QED
    BY <1>1, <2>1, RouteChoice, CatalogsAssumption
<1>4. cand'.pending = Suspended(d) /\ cand'.active = d.scenario
  <2> DEFINE cat == request[t].catalog
             advance == Advance(cat.scenario[d.scenario], cat, cand.workflows[d.scenario],
                                d.params[d.scenario], request[t].intent, done)
             w == IF cat.enabled /\ cat.scenario[d.scenario].executable
                  THEN [cand.workflows EXCEPT ![d.scenario] = advance.progress]
                  ELSE cand.workflows
  <2>1. cand' = [cand EXCEPT
               !.uncertain = 0, !.parameters = MergedParameters(d),
               !.pending = Suspended(d), !.workflows = w,
               !.active = d.scenario, !.history = Exchanged(t)]
    <3>1. cand' = [cand EXCEPT
               !.uncertain = 0, !.parameters = MergedParameters(d),
               !.pending = Suspended(d),
               !.workflows = IF cat.enabled /\ cat.scenario[d.scenario].executable
                             THEN [@ EXCEPT ![d.scenario] = advance.progress] ELSE @,
               !.active = d.scenario, !.history = Exchanged(t)]
      BY <1>1
    <3> HIDE DEF advance
    <3>2. QED
      BY <1>2, <3>1 DEF TInv, TypeOK, ConversationWith
  <2> HIDE DEF w
  <2>2. QED
    BY <1>2, <2>1 DEF TInv, TypeOK, ConversationWith
<1>5. QED
  BY <1>3, <1>4, SuspendedIs DEF TopicsRight

LEMMA DecideOtherTopics ==
  ASSUME PInv, NEW t \in Turn, DecideOther(t)
  PROVE  cand'.pending = cand.pending /\ cand'.active = cand.active
BY DEF DecideOther, PInv, TInv, TypeOK, ConversationWith

LEMMA TopicsFrame ==
  ASSUME PInv, TInv', session'.pending = session.pending, session'.active = session.active,
         cand'.pending = cand.pending, cand'.active = cand.active,
         holder' # None =>
           /\ holder' = holder /\ request'[holder].phase = request[holder].phase
           /\ request'[holder].catalog = request[holder].catalog
  PROVE  PInv'
BY DEF PInv, TopicsRight, KeepsTopics

LEMMA DecideKeepsTopics ==
  ASSUME PInv, TInv', NEW t \in Turn, DecideRoute(t) \/ DecideOther(t)
  PROVE  PInv'
<1>1. /\ holder = t /\ holder' = t /\ t # None /\ request[t].phase = "routing"
      /\ request' = [request EXCEPT ![t].phase = "replying"] /\ session' = session
  BY NoneIsNoScenario DEF DecideRoute, DecideOther
<1>2. request'[t].phase = "replying" /\ request'[t].catalog = request[t].catalog
  BY <1>1 DEF PInv, TInv, TypeOK, Request
<1>3. /\ TopicsRight(cand)'
      /\ \A x \in ToSet(cand.pending) : x \in ToSet(cand'.pending) \/ x = cand'.active
  <2>1. CASE DecideRoute(t)
    BY <2>1, DecideRouteTopics
  <2>2. CASE DecideOther(t)
    BY <2>2, DecideOtherTopics DEF PInv, TopicsRight
  <2>3. QED
    BY <2>1, <2>2
<1>4. KeepsTopics(t)
  BY <1>1 DEF PInv
<1>5. KeepsTopics(t)'
  BY <1>1, <1>2, <1>3, <1>4 DEF KeepsTopics
<1>6. QED
  BY <1>1, <1>3, <1>5 DEF PInv, TopicsRight

LEMMA CommitTopics ==
  ASSUME PInv, NEW t \in Turn, Commit(t)
  PROVE  /\ TopicsRight(session)'
         /\ \A x \in ToSet(session.pending) :
              \/ x \in ToSet(session'.pending) \/ x = session'.active
              \/ x \notin DOMAIN request[holder].catalog.scenario
<1>1. /\ session'.pending = cand.pending /\ session'.active = cand.active
      /\ holder = t /\ t # None
  BY NoneIsNoScenario DEF Commit, PInv, TInv, TypeOK, ConversationWith
<1>2. KeepsTopics(t)
  BY <1>1 DEF PInv
<1>3. QED
  BY <1>1, <1>2 DEF PInv, KeepsTopics, TopicsRight, ToSet

\* The other steps leave the session's topics alone.
LEMMA OtherTopics ==
  ASSUME TInv, [Next]_vars, \A t \in Turn : ~Commit(t)
  PROVE  session'.pending = session.pending /\ session'.active = session.active
<1>1. CASE UNCHANGED vars
  BY <1>1 DEF vars
<1>2. ASSUME NEW c \in Catalogs, EditCatalog(c) PROVE UNCHANGED session
  BY <1>2 DEF EditCatalog
<1>3. ASSUME NEW t \in Turn,
             \/ \E i \in Intents, d \in Deliveries : Submit(t, i, d)
             \/ Begin(t) \/ DecideRoute(t) \/ DecideOther(t)
             \/ Fail(t) \/ Abandon(t)
             \/ \E kind \in {"confirm", "interrupt"} : Signal(t, kind)
      PROVE  UNCHANGED session
  BY <1>3 DEF Submit, Begin, DecideRoute, DecideOther, Fail, Abandon, Signal
<1>4. ASSUME NEW t \in Turn, ConfirmDelivery(t) \/ InterruptDelivery(t)
      PROVE  session'.pending = session.pending /\ session'.active = session.active
  BY <1>4 DEF ConfirmDelivery, InterruptDelivery, TInv, TypeOK, ConversationWith
<1>5. QED
  BY <1>1, <1>2, <1>3, <1>4 DEF Next

LEMMA StepTopics == PInv /\ [Next]_vars => PInv'
<1> SUFFICES ASSUME PInv, [Next]_vars PROVE PInv'
  OBVIOUS
<1>1. TInv' /\ TInv
  BY StepType DEF PInv
<1>2. CASE UNCHANGED vars
  BY <1>1, <1>2, TopicsFrame DEF vars
<1>3. ASSUME NEW c \in Catalogs, EditCatalog(c) PROVE PInv'
  BY <1>1, <1>3, TopicsFrame DEF EditCatalog
<1>4. ASSUME NEW t \in Turn, Begin(t) PROVE PInv'
  <2>1. /\ holder' = t /\ cand' = Snapshot(session, request[t].catalog)
        /\ request' = [request EXCEPT ![t].phase = "routing"] /\ session' = session
    BY <1>4 DEF Begin
  <2>2. request'[t].phase = "routing" /\ request'[t].catalog = request[t].catalog
    BY <1>1, <2>1 DEF TInv, TypeOK, Request
  <2>3. /\ TopicsRight(Snapshot(session, request[t].catalog))
        /\ \A i \in DOMAIN session.pending :
             session.pending[i] \in DOMAIN request[t].catalog.scenario =>
               session.pending[i] \in ToSet(Snapshot(session, request[t].catalog).pending)
    BY SnapshotTopics DEF PInv
  <2>4. KeepsTopics(t)'
    BY <2>1, <2>2, <2>3 DEF KeepsTopics
  <2>5. QED
    BY <1>1, <2>1, <2>3, <2>4 DEF PInv, TopicsRight
<1>5. ASSUME NEW t \in Turn, DecideRoute(t) \/ DecideOther(t) PROVE PInv'
  BY <1>1, <1>5, DecideKeepsTopics
<1>6. ASSUME NEW t \in Turn, Commit(t) PROVE PInv'
  <2>1. holder' = None /\ cand' = FreshConversation
    BY <1>6 DEF Commit
  <2>2. QED
    BY <1>1, <1>6, <2>1, CommitTopics, FreshTopics DEF PInv, TopicsRight
<1>7. ASSUME NEW t \in Turn, Fail(t) PROVE PInv'
  BY <1>1, <1>7, FreshTopics DEF Fail, PInv, TopicsRight
<1>8. ASSUME NEW t \in Turn,
             \/ Abandon(t)
             \/ \E i \in Intents, d \in Deliveries : Submit(t, i, d)
             \/ \E kind \in {"confirm", "interrupt"} : Signal(t, kind)
      PROVE  PInv'
  <2>1. UNCHANGED <<session, holder, cand>>
    BY <1>8 DEF Abandon, Submit, Signal
  <2>2. ASSUME holder # None
        PROVE  /\ request'[holder].phase = request[holder].phase
               /\ request'[holder].catalog = request[holder].catalog
    <3>1. holder \in Turn /\ request[holder].phase \in {"routing", "replying"}
      BY <1>1, <2>2 DEF PInv, KeepsTopics, TInv, TypeOK
    <3>2. request'[holder].phase = request[holder].phase
      BY <1>1, <1>8, <2>2, <3>1, HolderUndisturbed
    <3>3. CASE \E kind \in {"confirm", "interrupt"} : Signal(t, kind)
      BY <1>1, <3>1, <3>2, <3>3 DEF Signal, TInv, TypeOK, Request
    <3>4. CASE Abandon(t) \/ \E i \in Intents, d \in Deliveries : Submit(t, i, d)
      <4>1. holder # t
        BY <3>1, <3>4 DEF Abandon, Submit
      <4>2. request'[holder] = request[holder]
        BY <1>1, <3>1, <3>4, <4>1 DEF Abandon, Submit, Ended, TInv, TypeOK
      <4>3. QED
        BY <4>2
    <3>5. QED
      BY <1>8, <3>2, <3>3, <3>4
  <2>3. QED
    BY <1>1, <2>1, <2>2, TopicsFrame
<1>9. ASSUME NEW t \in Turn, ConfirmDelivery(t) \/ InterruptDelivery(t) PROVE PInv'
  <2>1. /\ session'.pending = session.pending /\ session'.active = session.active
        /\ UNCHANGED <<holder, cand, request>>
    BY <1>1, <1>9 DEF ConfirmDelivery, InterruptDelivery, TInv, TypeOK, ConversationWith
  <2>2. QED
    BY <1>1, <2>1, TopicsFrame
<1>10. QED
  BY <1>2, <1>3, <1>4, <1>5, <1>6, <1>7, <1>8, <1>9 DEF Next

LEMMA InitTopics == Init => PInv
BY InitType, FreshTopics DEF Init, PInv

\* The suspended topics are distinct, at most PendingLimit, and never the active one,
\* whatever the router lists and the administrator deletes (_execute and snapshot).
THEOREM TopicsAreSound == Spec => []TopicsOK
<1>1. PInv => TopicsOK
  <2> SUFFICES ASSUME PInv PROVE TopicsOK
    OBVIOUS
  <2>1. TopicsRight(session)
    BY DEF PInv
  <2>2. Cardinality(ToSet(session.pending)) = Len(session.pending)
    BY <2>1, ApartCounts DEF TopicsRight
  <2>3. QED
    BY <2>1, <2>2 DEF TopicsRight, TopicsOK, ToSet
<1>2. QED
  BY <1>1, InitTopics, StepTopics, PTL DEF Spec

\* A suspended topic is forgotten only when it becomes the active one or the
\* administrator deleted it: the list keeps its oldest topics.
THEOREM NoTopicIsForgotten == Spec => TopicsKept
<1> DEFINE A == \A s \in ToSet(session.pending) \ ToSet(session'.pending) :
                  \/ s = session'.active
                  \/ s \notin DOMAIN request[holder].catalog.scenario
<1>1. PInv /\ [Next]_vars => A
  <2> SUFFICES ASSUME PInv, [Next]_vars PROVE A
    OBVIOUS
  <2>1. CASE \E t \in Turn : Commit(t)
    BY <2>1, CommitTopics
  <2>2. CASE \A t \in Turn : ~Commit(t)
    BY <2>2, OtherTopics DEF PInv
  <2>3. QED
    BY <2>1, <2>2
<1>2. QED
  BY <1>1, InitTopics, StepTopics, PTL DEF Spec, TopicsKept
=============================================================================
