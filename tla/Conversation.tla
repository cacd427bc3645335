---------------------------- MODULE Conversation ----------------------------
(***************************************************************************)
(* One caller's conversation in multi_agent/orchestrator.py: the sessions  *)
(* entry, its asyncio.Lock, the turns that RouterService.turn submits for  *)
(* it, and the playback confirmations and interruptions of the streaming   *)
(* callers.  Conversations of different session ids share nothing, so one  *)
(* is modelled.                                                            *)
(*                                                                         *)
(* A turn loads the catalog (app/services/voice_router.py), waits for the  *)
(* lock, works on a snapshot and commits it; the awaits inside a turn (the *)
(* router, on_route, the resolution agent) are the steps between which     *)
(* other tasks run.  Texts are abstracted to the turn that spoke them.     *)
(***************************************************************************)
EXTENDS Workflow, Sequences, SequencesExt

CONSTANTS
  Turn,          \* turn identifiers
  Catalogs,      \* catalog and settings versions an administrator may save
  TopicLists,    \* what the router may list as pending and secondary intents
  ParamMaps,     \* what the router may extract: [Scenario -> Extracted]
  Intents,       \* confirmation_intent of what the callers say
  Deliveries,    \* FALSE: the caller takes the reply as it is, TRUE: it plays it
  HistoryLimit,  \* 20 in the code: entries of history kept
  PendingLimit,  \* 5 in the code: suspended topics kept
  MaxUncertain,  \* max_uncertain_turns
  MaxInFlight    \* bound of the model: turns of this session under way at once

ASSUME LimitsAssumption ==
  /\ HistoryLimit \in Nat /\ HistoryLimit >= 2
  /\ PendingLimit \in Nat
  /\ MaxUncertain \in Nat \ {0}
  /\ None \notin Turn \cup Catalogs
  /\ MaxInFlight \in Nat \ {0}
  /\ Deliveries \subseteq BOOLEAN /\ Intents \subseteq Intent

\* A version of the catalog maps some scenarios to their definitions and some slots
\* to their normalizers, names the irreversible adapters and enables the workflow.
ASSUME CatalogsAssumption == \A cat \in Catalogs :
  /\ DOMAIN cat.scenario \in SUBSET Scenario
  /\ \A s \in DOMAIN cat.scenario : cat.scenario[s] \in ScenarioDef
  /\ DOMAIN cat.normal \in SUBSET Slot
  /\ \A y \in DOMAIN cat.normal : cat.normal[y] \in [Raw -> Value \cup {None}]
  /\ cat.irreversible \in SUBSET Action
  /\ cat.enabled \in BOOLEAN

ASSUME RouterAssumption ==
  /\ TopicLists \subseteq Seq(Scenario) /\ <<>> \in TopicLists
  /\ ParamMaps \subseteq [Scenario -> Extracted]
  /\ [s \in Scenario |-> NothingExtracted] \in ParamMaps

VARIABLES
  catalog,   \* the stored catalog and settings
  session,   \* the Conversation record, its lock left out
  holder,    \* the turn that holds Conversation.lock, or None
  queue,     \* who waits for the lock, in asyncio's FIFO order
  cand,      \* the snapshot the lock holder works on
  outcome,   \* the TurnResult the lock holder has decided on
  request,   \* per turn: phase, what was asked and what its caller signalled
  streak,    \* history variable: clarifications the customer got in a row
  ran        \* history variable: the turns that simulated an irreversible action

vars == <<catalog, session, holder, queue, cand, outcome, request, streak, ran>>

-----------------------------------------------------------------------------
NoParameters == [s \in Scenario |-> NothingExtracted]

FreshConversation ==
  [history |-> <<>>, active |-> None, pending |-> <<>>, uncertain |-> 0,
   parameters |-> NoParameters,
   workflows |-> [s \in Scenario |-> IdleProgress], delivery |-> None]

\* The elements of q at the indices in I, in q's order.
AtIndices(q, I) ==
  LET upTo[n \in 0 .. Len(q)] ==
        IF n = 0 THEN <<>>
        ELSE IF n \in I THEN Append(upTo[n - 1], q[n]) ELSE upTo[n - 1]
  IN upTo[Len(q)]
\* [x for x in q if x in S]
Filtered(q, S) == AtIndices(q, {i \in DOMAIN q : q[i] \in S})
\* list(dict.fromkeys(q)): first occurrences
Firsts(q) == {i \in DOMAIN q : \A j \in 1 .. i - 1 : q[j] # q[i]}
Distinct(q) == AtIndices(q, Firsts(q))

\* Conversation.snapshot: drop what the catalog no longer has; pending_delivery
\* is not copied.
Snapshot(c, cat) ==
  LET valid == DOMAIN cat.scenario
  IN [history |-> c.history,
      active |-> IF c.active \in valid THEN c.active ELSE None,
      pending |-> Filtered(c.pending, valid),
      uncertain |-> c.uncertain,
      parameters |->
        [s \in Scenario |-> IF s \in valid THEN c.parameters[s] ELSE NothingExtracted],
      workflows |->
        [s \in Scenario |-> IF s \in valid THEN c.workflows[s] ELSE IdleProgress],
      delivery |-> None]

Entry == [role: {"user", "assistant"}, turn: Turn]

\* list[-n:]
LastOf(q, n) == IF Len(q) <= n THEN q ELSE SubSeq(q, Len(q) - n + 1, Len(q))

-----------------------------------------------------------------------------
\* RoutingDecision. sure: the confidence reaches confidence_threshold. also:
\* pending_scenario_ids followed by secondary_intents.
Decision ==
  [action: {"route", "clarify", "handoff"}, scenario: Scenario \cup {None},
   sure: BOOLEAN, also: TopicLists, params: ParamMaps]

\* _validate: a decision that fails it raises InvalidDecision (see Fail).
Valid(d, cat) ==
  /\ (d.action = "route") <=> (d.scenario # None)
  /\ {d.scenario} \ {None} \subseteq DOMAIN cat.scenario
  /\ ToSet(d.also) \subseteq DOMAIN cat.scenario
  /\ \A s \in Scenario, x \in Slot :
       d.params[s][x] # None => /\ s \in DOMAIN cat.scenario
                                /\ x \in cat.scenario[s].declared

\* The turn answers the active scenario's confirmation question: the router is
\* not called and the decision is fixed.
AnswersConfirmation(t) ==
  /\ cand.active \in DOMAIN request[t].catalog.scenario
  /\ cand.workflows[cand.active].awaiting
  /\ request[t].intent # "unknown"

Confirmation(s) ==
  [action |-> "route", scenario |-> s, sure |-> TRUE, also |-> <<>>,
   params |-> NoParameters]

\* What the turn may be decided as, before the confidence policy.
Decides(t, d) ==
  IF AnswersConfirmation(t)
  THEN d = Confirmation(cand.active)
  ELSE d \in Decision /\ Valid(d, request[t].catalog)

\* Below the threshold a route becomes a clarification that extracts nothing.
Thresholded(d) ==
  IF d.action = "route" /\ ~d.sure
  THEN [d EXCEPT !.action = "clarify", !.scenario = None, !.params = NoParameters]
  ELSE d

\* _normalize_transition
Transition(d) ==
  IF d.action # "route" \/ d.scenario = cand.active THEN "continue"
  ELSE IF d.scenario \in ToSet(cand.pending) THEN "resume"
  ELSE IF cand.active # None THEN "switch"
  ELSE "continue"

\* uncertain_turns after decision d, and the action d ends up as when it does not
\* route: MaxUncertain clarifications in a row become a handoff.
Uncertain(d) == IF d.action = "clarify" THEN cand.uncertain + 1 ELSE 0
OtherActionLate(d) ==
  IF d.action = "clarify" /\ Uncertain(d) <= MaxUncertain THEN "clarify" ELSE "handoff"
OtherAction(d) ==
  IF d.action = "clarify" /\ Uncertain(d) < MaxUncertain THEN "clarify" ELSE "handoff"

MergedParameters(d) ==
  [s \in Scenario |->
     [x \in Slot |-> IF d.params[s][x] # None THEN d.params[s][x]
                     ELSE cand.parameters[s][x]]]

\* The suspended topics after routing to s: the old ones, those the router
\* names, then the topic the caller leaves.
Left == IF cand.active # None THEN <<cand.active>> ELSE <<>>
FirstOf(q, n) == SubSeq(q, 1, IF Len(q) < n THEN Len(q) ELSE n)

SuspendedWithChosen(d) ==
  FirstOf(Distinct(cand.pending \o d.also \o Left), PendingLimit)
SuspendedNewestFirst(d) ==
  FirstOf(Distinct(Filtered(Left \o d.also \o cand.pending, Scenario \ {d.scenario})),
          PendingLimit)
Suspended(d) ==
  FirstOf(Distinct(Filtered(cand.pending \o d.also \o Left, Scenario \ {d.scenario})),
          PendingLimit)

TurnResult ==
  [action: {"route", "clarify", "handoff"}, scenario: Scenario \cup {None},
   transition: {"continue", "resume", "switch"}, confirm: BOOLEAN,
   simulated: SUBSET Action, slots: Slots]

Answer(action, s, transition) ==
  [action |-> action, scenario |-> s, transition |-> transition,
   confirm |-> FALSE, simulated |-> {}, slots |-> NoSlots]
NoOutcome == Answer("clarify", None, "continue")

-----------------------------------------------------------------------------
Init ==
  /\ catalog \in Catalogs
  /\ session = FreshConversation
  /\ holder = None
  /\ queue = <<>>
  /\ cand = FreshConversation
  /\ outcome = NoOutcome
  /\ request = [t \in Turn |->
                  [phase |-> "new", intent |-> "unknown", delivered |-> FALSE,
                   catalog |-> None, signals |-> {}]]
  /\ streak = 0
  /\ ran = [s \in Scenario |-> {}]

InFlight(t) == request[t].phase \in {"waiting", "routing", "replying"}

\* The turn's task is over and its text and catalog are gone with it.
Ended(t, phase) ==
  [request EXCEPT ![t].phase = phase, ![t].intent = "unknown", ![t].catalog = None]

\* An administrator saves, deletes or imports scenarios or settings.
EditCatalog(c) ==
  /\ c # catalog
  /\ catalog' = c
  /\ UNCHANGED <<session, holder, queue, cand, outcome, request, streak, ran>>

\* RouterService.turn reads catalog and settings, then enters the lock's queue: no
\* await lies between, but the lock may be granted much later. delivered: the caller
\* passes a delivery_id, playback confirms the reply.
Submit(t, intent, delivered) ==
  /\ request[t].phase = "new"
  /\ Cardinality({u \in Turn : InFlight(u)}) < MaxInFlight
  /\ request' = [request EXCEPT ![t] =
       [phase |-> "waiting", intent |-> intent, delivered |-> delivered,
        catalog |-> catalog, signals |-> {}]]
  /\ queue' = Append(queue, [kind |-> "turn", turn |-> t])
  /\ UNCHANGED <<catalog, session, holder, cand, outcome, streak, ran>>

\* The operation at the head of the queue gets the free lock.
AcquiresHeldLock(kind, t) ==
  /\ queue # <<>>
  /\ Head(queue) = [kind |-> kind, turn |-> t]
  /\ queue' = Tail(queue)
Acquires(kind, t) ==
  /\ holder = None
  /\ queue # <<>>
  /\ Head(queue) = [kind |-> kind, turn |-> t]
  /\ queue' = Tail(queue)

Begin(t) ==
  /\ Acquires("turn", t)
  /\ request[t].phase = "waiting"
  /\ holder' = t
  /\ cand' = Snapshot(session, request[t].catalog)
  /\ request' = [request EXCEPT ![t].phase = "routing"]
  /\ UNCHANGED <<catalog, session, outcome, streak, ran>>

\* The rest of _execute that follows the decision: history gains the exchange.
Exchanged(t) ==
  LastOf(cand.history \o <<[role |-> "user", turn |-> t],
                           [role |-> "assistant", turn |-> t]>>, HistoryLimit)

\* The decision routes: suspend topics, advance the scenario's workflow.
DecideRoute(t) ==
  /\ holder = t /\ request[t].phase = "routing"
  /\ \E d \in Decision, done \in SUBSET Action :
       LET cat == request[t].catalog
           s == d.scenario
           def == cat.scenario[s]
           advance == Advance(def, cat, cand.workflows[s], d.params[s],
                              request[t].intent, done)
           runs == cat.enabled /\ def.executable
           answer == Answer("route", s, Transition(d))
       IN /\ Decides(t, d)
          /\ Thresholded(d).action = "route"
          /\ cand' = [cand EXCEPT
               !.uncertain = 0,
               !.parameters = MergedParameters(d),
               !.pending = Suspended(d),
               !.workflows = IF runs THEN [@ EXCEPT ![s] = advance.progress] ELSE @,
               !.active = s,
               !.history = Exchanged(t)]
          /\ outcome' =
               IF runs
               THEN [answer EXCEPT
                       !.confirm = advance.confirm,
                       !.slots = advance.progress.slots,
                       !.simulated = IF advance.ran
                                     THEN Simulated(advance.progress.traces) ELSE {}]
               ELSE answer
  /\ request' = [request EXCEPT ![t].phase = "replying"]
  /\ UNCHANGED <<catalog, session, holder, queue, streak, ran>>

\* The decision asks for clarification or hands off.
DecideOther(t) ==
  /\ holder = t /\ request[t].phase = "routing"
  /\ \E d \in Decision :
       LET e == Thresholded(d)
       IN /\ Decides(t, d)
          /\ e.action # "route"
          /\ cand' = [cand EXCEPT
               !.uncertain = Uncertain(e),
               !.parameters = MergedParameters(e),
               !.history = Exchanged(t)]
          /\ outcome' = Answer(OtherAction(e), None, "continue")
  /\ request' = [request EXCEPT ![t].phase = "replying"]
  /\ UNCHANGED <<catalog, session, holder, queue, streak, ran>>

\* The reply is there: with a delivery_id the answer leaves the history and
\* waits for playback; the snapshot becomes the session.
Commit(t) ==
  /\ holder = t /\ request[t].phase = "replying"
  /\ session' = IF request[t].delivered
                THEN [cand EXCEPT !.history = Front(@), !.delivery = t]
                ELSE cand
  /\ holder' = None
  /\ cand' = FreshConversation
  /\ outcome' = NoOutcome
  /\ request' = Ended(t, "done")
  /\ streak' = IF outcome.action = "clarify" THEN streak + 1 ELSE 0
  /\ ran' = IF outcome.simulated = {} THEN ran
            ELSE [ran EXCEPT ![outcome.scenario] = @ \cup {t}]
  /\ UNCHANGED <<catalog, queue>>

\* An invalid decision, a failing agent, an empty reply, the timeout or the
\* caller's cancellation: the exception releases the lock, the snapshot is lost.
FailKeepingLock(t) ==
  /\ holder = t
  /\ request[t].phase \in {"routing", "replying"}
  /\ request' = Ended(t, "failed")
  /\ UNCHANGED <<catalog, session, holder, queue, cand, outcome, streak, ran>>
Fail(t) ==
  /\ holder = t
  /\ holder' = None
  /\ cand' = FreshConversation
  /\ outcome' = NoOutcome
  /\ request' = Ended(t, "failed")
  /\ UNCHANGED <<catalog, session, queue, streak, ran>>

\* The caller is cancelled while it waits for the lock.
Abandon(t) ==
  /\ request[t].phase = "waiting"
  /\ \E i \in DOMAIN queue :
       /\ queue[i] = [kind |-> "turn", turn |-> t]
       /\ queue' = RemoveAt(queue, i)
  /\ request' = Ended(t, "failed")
  /\ UNCHANGED <<catalog, session, holder, cand, outcome, streak, ran>>

\* A streaming caller reports that its answer was played to the end (only after
\* the turn returned) or was interrupted (after the turn's task has ended).
Signal(t, kind) ==
  /\ request[t].delivered
  /\ request[t].phase \in {"done"} \cup (IF kind = "interrupt" THEN {"failed"} ELSE {})
  /\ kind \notin request[t].signals
  /\ request' = [request EXCEPT ![t].signals = @ \cup {kind}]
  /\ queue' = Append(queue, [kind |-> kind, turn |-> t])
  /\ UNCHANGED <<catalog, session, holder, cand, outcome, streak, ran>>

ConfirmDeliveryOfAny(t) ==
  /\ Acquires("confirm", t)
  /\ session' = IF session.delivery # None
                THEN [session EXCEPT
                        !.history = LastOf(Append(@, [role |-> "assistant",
                                                      turn |-> session.delivery]),
                                           HistoryLimit),
                        !.delivery = None]
                ELSE session
  /\ UNCHANGED <<catalog, holder, cand, outcome, request, streak, ran>>
ConfirmDelivery(t) ==
  /\ Acquires("confirm", t)
  /\ session' = IF session.delivery = t
                THEN [session EXCEPT
                        !.history = LastOf(Append(@, [role |-> "assistant", turn |-> t]),
                                           HistoryLimit),
                        !.delivery = None]
                ELSE session
  /\ UNCHANGED <<catalog, holder, cand, outcome, request, streak, ran>>

InterruptDeliveryKept(t) ==
  /\ Acquires("interrupt", t)
  /\ UNCHANGED <<catalog, session, holder, cand, outcome, request, streak, ran>>
InterruptDelivery(t) ==
  /\ Acquires("interrupt", t)
  /\ session' = IF session.delivery = t
                THEN [session EXCEPT !.delivery = None]
                ELSE session
  /\ UNCHANGED <<catalog, holder, cand, outcome, request, streak, ran>>

Next ==
  \/ \E c \in Catalogs : EditCatalog(c)
  \/ \E t \in Turn :
       \/ \E intent \in Intents, delivered \in Deliveries : Submit(t, intent, delivered)
       \/ Begin(t)
       \/ DecideRoute(t)
       \/ DecideOther(t)
       \/ Commit(t)
       \/ Fail(t)
       \/ Abandon(t)
       \/ \E kind \in {"confirm", "interrupt"} : Signal(t, kind)
       \/ ConfirmDelivery(t)
       \/ InterruptDelivery(t)

Spec == Init /\ [][Next]_vars

\* A turn's task keeps running: wait_for bounds each agent call, so the turn
\* commits or fails. asyncio wakes the head of the lock's queue. Nothing obliges
\* anyone to start a turn, to edit the catalog, to cancel or to signal.
Proceeds(t) ==
  Begin(t) \/ DecideRoute(t) \/ DecideOther(t) \/ Commit(t) \/ Fail(t)

Fairness ==
  /\ \A t \in Turn : WF_vars(Proceeds(t))
  /\ WF_vars(\E t \in Turn : ConfirmDelivery(t) \/ InterruptDelivery(t))

FairSpec == Spec /\ Fairness

-----------------------------------------------------------------------------
\* Correctness.

Phase == {"new", "waiting", "routing", "replying", "done", "failed"}
Signals == {"confirm", "interrupt"}
Request ==
  [phase: Phase, intent: Intent, delivered: BOOLEAN, catalog: Catalogs \cup {None},
   signals: SUBSET Signals]

\* A conversation whose suspended topics are p (TopicsOK says what they are).
ConversationWith(p) ==
  [history: Seq(Entry), active: Scenario \cup {None}, pending: {p},
   uncertain: Nat, parameters: [Scenario -> Extracted],
   workflows: [Scenario -> Progress], delivery: Turn \cup {None}]

\* Every variable stays in its type.
TypeOK ==
  /\ catalog \in Catalogs
  /\ session \in ConversationWith(session.pending)
  /\ cand \in ConversationWith(cand.pending)
  /\ holder \in Turn \cup {None}
  /\ queue \in Seq([kind: {"turn"} \cup Signals, turn: Turn])
  /\ outcome \in TurnResult
  /\ request \in [Turn -> Request]
  /\ streak \in Nat
  /\ ran \in [Scenario -> SUBSET Turn]

\* Turns are serialized: from the snapshot a turn takes until it commits or
\* fails, nothing else changes the conversation, so no commit overwrites a
\* playback confirmation, an interruption or another turn ("Conversation locks
\* serialize turns from the same caller", orchestrator.py).
NoLostUpdate == [][holder # None /\ holder' = holder => UNCHANGED session]_vars

Commits(t) == request[t].phase = "replying" /\ request'[t].phase = "done"

Heard(t) == ~request[t].delivered \/ "confirm" \in request[t].signals
InHistory(t) ==
  [role |-> "assistant", turn |-> t] \in ToSet(session.history)

\* The history the agents see contains an answer only if its caller heard it,
\* whatever the order of turns, confirmations and interruptions; and an answer
\* always directly follows the utterance it answers.
HistoryIsTrue ==
  \A i \in DOMAIN session.history :
    LET e == session.history[i]
    IN e.role = "assistant" =>
         /\ Heard(e.turn)
         /\ i > 1 => session.history[i - 1] = [role |-> "user", turn |-> e.turn]

\* An interruption that took effect before the answer was confirmed is final: a
\* late confirmation cannot bring the answer back into the history.
Interrupted(t) ==
  /\ "interrupt" \in request[t].signals
  /\ [kind |-> "interrupt", turn |-> t] \notin ToSet(queue)
InterruptedStaysUnheard ==
  [][\A t \in Turn : Interrupted(t) /\ ~InHistory(t) => ~InHistory(t)']_vars

\* The suspended topics are distinct, bounded and never the active one; a topic
\* leaves them only by becoming active or by leaving the catalog.
TopicsOK ==
  /\ session.pending \in Seq(Scenario)
  /\ Len(session.pending) <= PendingLimit
  /\ Cardinality(ToSet(session.pending)) = Len(session.pending)
  /\ session.active \notin ToSet(session.pending)
TopicsKept ==
  [][\A s \in ToSet(session.pending) \ ToSet(session'.pending) :
       \/ s = session'.active
       \/ s \notin DOMAIN request[holder].catalog.scenario]_vars

\* The caller is never asked to clarify MaxUncertain times in a row, also when
\* turns in between fail: the last of them becomes a handoff.
ClarificationBounded == streak < MaxUncertain

\* In each scenario the flag that makes a yes count and the status the customer is
\* shown agree, and while it is set the traces hold nothing that was simulated.
OpenConfirmation ==
  \A s \in Scenario :
    LET p == session.workflows[s]
    IN /\ p.awaiting <=> p.status = "awaiting_confirmation"
       /\ p.awaiting => Simulated(p.traces) = {}

\* What the shipped catalogs satisfy and nothing enforces: a scenario with
\* an irreversible action requires confirmation (tests/test_demo_catalog.py).
ConfirmingCatalogs ==
  \A c \in Catalogs : \A s \in DOMAIN c.scenario :
    LET def == c.scenario[s]
    IN def.executable /\ def.actions \cap c.irreversible # {} => def.confirm

\* With such catalogs, whatever is edited between the turns and inside one, an
\* irreversible action is simulated only by a turn that says yes to a
\* confirmation question that was open when the turn began, and that closes it.
ConfirmedBeforeSimulated ==
  [][\A t \in Turn :
       Commits(t) /\ outcome.simulated # {} =>
         LET s == outcome.scenario
         IN /\ request[t].intent = "approve"
            /\ session.workflows[s].awaiting
            /\ ~session'.workflows[s].awaiting]_vars

\* Every request that entered the queue is answered or fails.
EveryTurnEnds ==
  \A t \in Turn : request[t].phase = "waiting" ~> request[t].phase \in {"done", "failed"}

\* The conversation keeps the promise of ConfirmationGate: the customer's open
\* questions are the gates, and only a turn through an open gate executes.
Gate ==
  INSTANCE ConfirmationGate WITH
    Turn <- Turn,
    open <- {s \in Scenario : session.workflows[s].awaiting},
    executed <- ran
KeepsGate == Gate!Spec

\* README.md: irreversible actions first get a preview and an explicit
\* confirmation; VOICE_ROUTER_PLAN.md: the confirmation is bound to the exact
\* arguments. So what is simulated is what was previewed.
SimulatedAsPreviewed ==
  [][\A t \in Turn :
       Commits(t) /\ outcome.simulated # {} =>
         session.workflows[outcome.scenario].results = outcome.slots]_vars

\* orchestrator.py: "An interrupted answer must never become assumed conversation
\* context". So a yes is not taken as the answer to a question whose playback was
\* interrupted: the last exchange before it is not one.
InterruptedQuestionIsNotApproved ==
  [][\A t \in Turn :
       Commits(t) /\ outcome.simulated # {} /\ session.history # <<>> =>
         LET e == Last(session.history)
         IN ~(e.role = "user" /\ Interrupted(e.turn))]_vars

\* docs/demo-runbook.md: on a change of topic the first topic goes to pending
\* and can be continued later.
LeftTopicIsPending ==
  [][\A t \in Turn :
       Commits(t) /\ outcome.transition = "switch" =>
         session.active \in ToSet(session'.pending)]_vars
=============================================================================
