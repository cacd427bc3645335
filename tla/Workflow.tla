------------------------------ MODULE Workflow ------------------------------
(***************************************************************************)
(* The catalog-driven slot and confirmation policy of                      *)
(* multi_agent/workflow.py together with the trace policy of               *)
(* multi_agent/simulation.py, as operators over one scenario's progress.   *)
(* They hold no state of their own: the conversation (module Conversation) *)
(* keeps one progress record per scenario and applies Advance to it.       *)
(*                                                                         *)
(* Abstracted data: a slot value, a raw value as the router extracted it   *)
(* and an action adapter are members of small sets; prompts and replies    *)
(* are left out; which adapters find their inputs and succeed is chosen by *)
(* the environment (the parameter done of Run).                            *)
(***************************************************************************)
EXTENDS Naturals, FiniteSets

CONSTANTS
  Scenario,   \* scenario identifiers that may ever be in the catalog
  Slot,       \* slot names
  Raw,        \* values as the router extracts them
  Value,      \* normalized slot values
  Action,     \* action adapters
  Transfer,   \* the adapter transfer_to_operator
  None        \* Python's None, an absent key, "no such thing"

ASSUME NoneAssumption ==
  None \notin Scenario \cup Slot \cup Raw \cup Value \cup Action

Slots == [Slot -> Value \cup {None}]
Extracted == [Slot -> Raw \cup {None}]
NoSlots == [x \in Slot |-> None]
NothingExtracted == [x \in Slot |-> None]

\* One catalog entry: whether it declares slots and actions at all, the slots it
\* declares and requires, its requires_confirmation flag and its actions.
ScenarioDef ==
  [executable: BOOLEAN, declared: SUBSET Slot, required: SUBSET Slot,
   confirm: BOOLEAN, actions: SUBSET Action]

\* How far an action got in a run: "none" stands for skipped and for error.
TraceMode == {"none", "read", "preview", "simulate", "handoff"}
Status == {"idle", "collecting", "awaiting_confirmation", "completed",
           "cancelled", "handoff"}
Intent == {"approve", "reject", "unknown"}

\* ScenarioProgress; results keeps the slot values its last run started from.
Progress ==
  [slots: Slots, status: Status, awaiting: BOOLEAN,
   traces: [Action -> TraceMode], results: Slots]

NoTraces == [a \in Action |-> "none"]
IdleProgress ==
  [slots |-> NoSlots, status |-> "idle", awaiting |-> FALSE,
   traces |-> NoTraces, results |-> NoSlots]

-----------------------------------------------------------------------------
\* normalize_slot maps each raw value to a value or raises; catalog.normal[x]
\* is that map for slot x, None where it raises. A raise drops the slot.
MergeParametersUnchecked(slots, catalog, extracted) ==
  [x \in Slot |->
     IF x \in DOMAIN catalog.normal /\ extracted[x] # None
     THEN extracted[x] ELSE slots[x]]
MergeParameters(slots, catalog, extracted) ==
  [x \in Slot |->
     IF x \in DOMAIN catalog.normal /\ extracted[x] # None
     THEN catalog.normal[x][extracted[x]]
     ELSE slots[x]]

MissingSlots(def, slots) == {x \in def.required : slots[x] = None}

\* SimulationEngine.run: the adapters in done had their inputs and succeeded.
\* Only irreversible adapters obey the mode; mode is "preview" or "simulate".
RunWithoutPreview(def, catalog, mode, done) ==
  [a \in Action |->
     IF a \notin def.actions \cap done THEN "none"
     ELSE IF a \in catalog.irreversible THEN "simulate"
     ELSE IF a = Transfer THEN "handoff"
     ELSE "read"]
Run(def, catalog, mode, done) ==
  [a \in Action |->
     IF a \notin def.actions \cap done THEN "none"
     ELSE IF a \in catalog.irreversible THEN mode
     ELSE IF a = Transfer THEN "handoff"
     ELSE "read"]

FinalStatus(traces) ==
  IF \E a \in Action : traces[a] = "handoff" THEN "handoff" ELSE "completed"

\* The irreversible adapters a run carried out for real.
Simulated(traces) == {a \in Action : traces[a] = "simulate"}

\* What the branches of advance_workflow leave behind.
CollectingKeepingQuestion(p) == [p EXCEPT !.status = "collecting"]
Collecting(p) == [p EXCEPT !.status = "collecting", !.awaiting = FALSE]

Cancelled(p) == [p EXCEPT !.status = "cancelled", !.awaiting = FALSE]

Previewed(p, traces) ==
  [p EXCEPT !.status = "awaiting_confirmation", !.awaiting = TRUE,
            !.traces = traces, !.results = p.slots]

FinishedKeepingQuestion(p, traces) ==
  [p EXCEPT !.status = FinalStatus(traces), !.traces = traces, !.results = p.slots]
Finished(p, traces) ==
  [p EXCEPT !.status = FinalStatus(traces), !.awaiting = FALSE,
            !.traces = traces, !.results = p.slots]

\* advance_workflow, one arm per return statement. The outcome carries the new
\* progress, whether the customer is asked to confirm and whether the engine ran.
Advance(def, catalog, progress, extracted, intent, done) ==
  LET p == [progress EXCEPT !.slots = MergeParameters(@, catalog, extracted)]
      complete == MissingSlots(def, p.slots) = {}
      Outcome(q, confirm, ran) == [progress |-> q, confirm |-> confirm, ran |-> ran]
  IN CASE ~complete ->
            Outcome(Collecting(p), FALSE, FALSE)
       [] complete /\ p.awaiting /\ intent = "unknown" ->
            Outcome(p, TRUE, FALSE)
       [] complete /\ p.awaiting /\ intent = "reject" ->
            Outcome(Cancelled(p), FALSE, FALSE)
       [] complete /\ ~p.awaiting /\ def.confirm ->
            Outcome(Previewed(p, Run(def, catalog, "preview", done)), TRUE, TRUE)
       [] complete /\ \/ p.awaiting /\ intent = "approve"
                      \/ ~p.awaiting /\ ~def.confirm ->
            Outcome(Finished(p, Run(def, catalog, "simulate", done)), FALSE, TRUE)
=============================================================================
