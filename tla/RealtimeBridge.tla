--------------------------- MODULE RealtimeBridge ---------------------------
(***************************************************************************)
(* RealtimeBridge.proxy (v2v/realtime.py) between a client's socket and a  *)
(* Realtime session: one task pumps each way, and tool calls of the model  *)
(* are made in the one that pumps down. Both tasks share tool_rounds.      *)
(*                                                                         *)
(* The client, the model and the tools are external. Abstracted: what      *)
(* events carry; an event that the allowlist drops is no step.             *)
(***************************************************************************)
EXTENDS Naturals

CONSTANTS
  MaxToolRounds,     \* max_tool_rounds
  MaxToolCalls,      \* bound: tool calls of the model
  MaxClientInputs    \* bound: inputs of the client

ASSUME BridgeAssumption == {MaxToolRounds, MaxToolCalls, MaxClientInputs} \subseteq Nat

VARIABLES
  bridge,        \* proxy: what each of its tasks waits for, and whether it returned
  toolRounds,    \* tool_rounds
  toolCall,      \* the tool call that is being handled
  bridged,       \* bounds: tool calls and inputs so far
  continued      \* history variable: responses asked for since the last input, for tool
                 \* calls made since then

realtime == <<bridge, toolRounds, toolCall, bridged, continued>>

NoToolCall == [within |-> FALSE, fresh |-> FALSE]
-----------------------------------------------------------------------------
BridgeInit ==
  /\ bridge = [up |-> "receiving", down |-> "receiving", open |-> TRUE]
  /\ toolRounds = 0
  /\ toolCall = NoToolCall
  /\ bridged = [calls |-> 0, inputs |-> 0]
  /\ continued = 0

\* client_to_openai. Audio or an item is the user speaking again: the budget resets
\* before the event is sent on, whatever the other task does.
ClientSpeaks ==
  /\ bridge.up = "receiving" /\ bridged.inputs < MaxClientInputs
  /\ bridged' = [bridged EXCEPT !.inputs = @ + 1]
  /\ bridge' = [bridge EXCEPT !.up = "forwarding"]
  /\ toolRounds' = 0 /\ continued' = 0
  /\ toolCall' = [toolCall EXCEPT !.fresh = FALSE]

\* Any other event that is allowed: a commit, a response it asks for itself, a deletion.
ClientAsks ==
  /\ bridge.up = "receiving"
  /\ bridge' = [bridge EXCEPT !.up = "forwarding"]
  /\ UNCHANGED <<toolRounds, toolCall, bridged, continued>>

Forwarded ==
  /\ bridge.up = "forwarding"
  /\ bridge' = [bridge EXCEPT !.up = "receiving"]
  /\ UNCHANGED <<toolRounds, toolCall, bridged, continued>>

-----------------------------------------------------------------------------
\* openai_to_client

\* tool_rounds is counted, and compared, before the tool runs.
CountedLate(rounds) == rounds - 1 <= MaxToolRounds
WithinBudget(rounds) == rounds <= MaxToolRounds

ModelCallsTool ==
  /\ bridge.down = "receiving" /\ bridged.calls < MaxToolCalls
  /\ bridged' = [bridged EXCEPT !.calls = @ + 1]
  /\ bridge' = [bridge EXCEPT !.down = "handling"]
  /\ toolRounds' = toolRounds + 1
  /\ toolCall' = [within |-> WithinBudget(toolRounds'), fresh |-> TRUE]
  /\ UNCHANGED continued

\* A tool nobody registered has no output; the failure of one is its output.
ToolEnds ==
  /\ bridge.down = "handling"
  /\ bridge' \in {[bridge EXCEPT !.down = at] : at \in {"output", "delivering"}}
  /\ UNCHANGED <<toolRounds, toolCall, bridged, continued>>

\* The output was sent; within the budget the model is asked to go on.
ContinueResponse ==
  /\ bridge.down = "output"
  /\ bridge' = [bridge EXCEPT !.down = "delivering"]
  /\ continued' = IF toolCall.within /\ toolCall.fresh THEN continued + 1 ELSE continued
  /\ UNCHANGED <<toolRounds, toolCall, bridged>>

ModelSpeaks ==
  /\ bridge.down = "receiving"
  /\ bridge' = [bridge EXCEPT !.down = "delivering"]
  /\ UNCHANGED <<toolRounds, toolCall, bridged, continued>>

Delivered ==
  /\ bridge.down = "delivering"
  /\ bridge' = [bridge EXCEPT !.down = "receiving"]
  /\ toolCall' = NoToolCall
  /\ UNCHANGED <<toolRounds, bridged, continued>>

-----------------------------------------------------------------------------
\* A side disconnects, or a send fails: the other task is cancelled where it waits.
BridgeEnds ==
  /\ bridge.open
  /\ bridge' = [up |-> "over", down |-> "over", open |-> FALSE]
  /\ toolCall' = NoToolCall
  /\ UNCHANGED <<toolRounds, bridged, continued>>
-----------------------------------------------------------------------------
BridgeNext ==
  \/ ClientSpeaks \/ ClientAsks \/ Forwarded
  \/ ModelCallsTool \/ ToolEnds \/ ContinueResponse \/ ModelSpeaks \/ Delivered
  \/ BridgeEnds

BridgeSpec == BridgeInit /\ [][BridgeNext]_realtime
-----------------------------------------------------------------------------
\* Correctness.

BridgeTypeOK ==
  /\ bridge \in [up : {"receiving", "forwarding", "over"}, open : BOOLEAN,
                 down : {"receiving", "handling", "output", "delivering", "over"}]
  /\ toolRounds \in 0..MaxToolCalls
  /\ toolCall \in [within : BOOLEAN, fresh : BOOLEAN]
  /\ bridged \in [calls : 0..MaxToolCalls, inputs : 0..MaxClientInputs]
  /\ continued \in Nat

\* "how many tool calls the model may chain without new user input before the proxy stops
\* auto-continuing the response" (v2v/config.py:57): an input that resets the budget while
\* a tool is still running buys the model no more of them. (The response that continues a
\* tool called before that input is not counted: the model may get that one besides.)
ToolLoopBounded == continued <= MaxToolRounds
=============================================================================
