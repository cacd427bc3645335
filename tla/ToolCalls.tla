------------------------------ MODULE ToolCalls ------------------------------
(***************************************************************************)
(* Application tools under the delegations of several calls:               *)
(* ToolRegistry.invoke (telephony/tools.py), called by the loop of         *)
(* ResponsesAgentRuntime.run (telephony/responses.py), which asks the model*)
(* again for as long as it answers with function calls, and forget_call,   *)
(* with which a call's runner ends.                                        *)
(*                                                                         *)
(* The counter's lock is never held across an await, so a tool is counted  *)
(* in one step; then it waits for a slot of the semaphore.                 *)
(*                                                                         *)
(* Abstracted: tools, arguments, results and what is spoken; a tool that   *)
(* is unknown or not allowed is refused before it counts.                  *)
(***************************************************************************)
EXTENDS Naturals, FiniteSets

CONSTANTS
  MaxToolUsers, MaxToolTasks,   \* bounds: calls, and their delegations
  ToolsPerCall, ToolSlots       \* max_tool_calls_per_call, max_tool_concurrency

ASSUME ToolsAssumption ==
  {MaxToolUsers, MaxToolTasks, ToolsPerCall, ToolSlots} \subseteq Nat \ {0}

VARIABLES
  task,       \* the delegations' tasks: whose they are and where
  used,       \* _call_counts; 0 is no entry
  over,       \* the calls whose runner has ended
  handled     \* history variable: the handlers started for each call

toolCalls == <<task, used, over, handled>>

ToolUser == 1..MaxToolUsers
ToolTask == 1..MaxToolTasks
InHandler == {d \in ToolTask : task[d].at = "handler"}
ActiveFor(c) == {d \in ToolTask : task[d].user = c /\ task[d].at # "ended"}
-----------------------------------------------------------------------------
ToolsInit ==
  /\ task = [d \in ToolTask |-> [at |-> "ended", user |-> 1]]
  /\ used = [c \in ToolUser |-> 0]
  /\ over = {}
  /\ handled = [c \in ToolUser |-> 0]

TaskGoes(d, from, to) == task[d].at = from /\ task' = [task EXCEPT ![d].at = to]

\* A delegation of a call; a call may have several.
TaskRuns(d, c) ==
  /\ task[d].at = "ended" /\ c \notin over
  /\ task' = [task EXCEPT ![d] = [at |-> "asks", user |-> c]]
  /\ UNCHANGED <<used, over, handled>>

\* _consume_call_quota; a refusal is an answer the model may recover from.
CountedBeyond(c) == used[c] <= ToolsPerCall
WithinQuota(c) == used[c] < ToolsPerCall

ToolCalled(d) ==
  /\ WithinQuota(task[d].user)
  /\ TaskGoes(d, "asks", "counted")
  /\ used' = [used EXCEPT ![task[d].user] = @ + 1]
  /\ UNCHANGED <<over, handled>>

ToolRefused(d) ==
  /\ ~WithinQuota(task[d].user)
  /\ TaskGoes(d, "asks", "refused")
  /\ UNCHANGED <<used, over, handled>>

\* A slot is free.
HandlerStarts(d) ==
  /\ Cardinality(InHandler) < ToolSlots
  /\ TaskGoes(d, "counted", "handler")
  /\ handled' = [handled EXCEPT ![task[d].user] = @ + 1]
  /\ UNCHANGED <<used, over>>

\* A result, an error, a timeout or a refusal, and the model is asked again.
ToolAnswers(d) ==
  /\ TaskGoes(d, "handler", "asks") \/ TaskGoes(d, "refused", "asks")
  /\ UNCHANGED <<used, over, handled>>

\* The model answers without a function call, its stream fails, or the task is cancelled.
TaskEnds(d) ==
  /\ task[d].at # "ended"
  /\ task' = [task EXCEPT ![d].at = "ended"]
  /\ UNCHANGED <<used, over, handled>>

\* LiveSessionRunner forgets a call when its session has cancelled the delegations.
EndsAnyway(c) == c \notin over
SessionEnded(c) == c \notin over /\ ActiveFor(c) = {}

ForgetCall(c) ==
  /\ SessionEnded(c)
  /\ over' = over \cup {c}
  /\ used' = [used EXCEPT ![c] = 0]
  /\ UNCHANGED <<task, handled>>
-----------------------------------------------------------------------------
ToolsNext ==
  \/ \E c \in ToolUser : ForgetCall(c)
  \/ \E d \in ToolTask :
       \/ \E c \in ToolUser : TaskRuns(d, c)
       \/ ToolCalled(d) \/ ToolRefused(d) \/ HandlerStarts(d) \/ ToolAnswers(d) \/ TaskEnds(d)

ToolsSpec == ToolsInit /\ [][ToolsNext]_toolCalls
-----------------------------------------------------------------------------
\* Correctness.

ToolsTypeOK ==
  /\ task \in [ToolTask -> [at : {"asks", "counted", "refused", "handler", "ended"},
                            user : ToolUser]]
  /\ used \in [ToolUser -> 0..ToolsPerCall]
  /\ over \subseteq ToolUser
  /\ handled \in [ToolUser -> Nat]

\* "every delegation gets its own context copy, so a per-call budget must outlive them.
\* Cleared by forget_call" (tools.py:76-77): however many delegations of a call run at once
\* or one after the other, they start no more handlers than the call may; a call that is
\* over leaves no count behind, which would never be cleared; and calls that share the
\* slots never hold more than there are.
ToolQuotaHolds ==
  /\ \A c \in ToolUser : handled[c] <= ToolsPerCall
  /\ \A c \in over : used[c] = 0
  /\ Cardinality(InHandler) <= ToolSlots
=============================================================================
