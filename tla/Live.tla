-------------------------------- MODULE Live --------------------------------
(***************************************************************************)
(* One GPT-Live call (multi_agent/live.py) behind its socket               *)
(* (app/api/live.py), and the claim on its session id in                   *)
(* RouterService.stream_sessions, for which a rival socket competes.       *)
(*                                                                         *)
(* run and controls are two tasks of the same conversation: the first      *)
(* handles the provider's events one after another, the second the         *)
(* browser's messages. Both call _cancel, which waits for the backend task *)
(* it cancels, so that one may find what the other did meanwhile.          *)
(*                                                                         *)
(* A cancellation that meets the result its turn waits for is lost         *)
(* (asyncio.wait_for before Python 3.12, orchestrator.py:183): the turn    *)
(* commits, and returns to a task that was cancelled.                      *)
(*                                                                         *)
(* A word stands for a transcript fragment that starts and ends at its     *)
(* number; a delegation, for its offset. Abstracted: captions, the dialogue*)
(* passed as context, texts, and how the provider is hung up.              *)
(***************************************************************************)
EXTENDS Naturals, FiniteSets

CONSTANTS
  MaxWords, MaxDelegations, MaxTyped, MaxInterrupts,   \* bounds: what is said, asked, typed
  MaxChunks                                            \* bound: appends of one reply

ASSUME LiveAssumption ==
  {MaxWords, MaxDelegations, MaxTyped, MaxInterrupts, MaxChunks} \subseteq Nat

VARIABLES
  call,        \* where live_conversation is
  claimed,     \* the id is in stream_sessions
  rival,       \* another socket of the same id has claimed it
  conv,        \* the fields of LiveConversation
  tasks,       \* its backend tasks: _resolve and _say
  waits,       \* who waits in _cancel, and what it does afterwards
  met,         \* bounds: the events so far
  routed,      \* history variable: the committed turns each word was in, and how many of
               \* them had lost their cancellation
  overlapped   \* history variable: two callers were in _cancel at once

liveCall == <<call, claimed, rival, conv, tasks, waits, met, routed, overlapped>>

Word == 1..MaxWords
Offset == 0..MaxWords
TaskId == 1..(MaxWords + MaxDelegations + MaxTyped)
Actor == {"reader", "controls"}

Stage == {"none", "grace", "announcing", "turn", "saying", "ending", "done"}
Alive(t) == tasks[t].stage \notin {"none", "done"}
Greatest(S) == CHOOSE x \in S : \A y \in S : y <= x

NoTask == [stage |-> "none", kind |-> "none", offset |-> 0, generation |-> 0,
           parts |-> {}, cancelled |-> FALSE, said |-> 0]
AtRest == [on |-> 0, then |-> "nothing", offset |-> 0]
-----------------------------------------------------------------------------
LiveInit ==
  /\ call = "new" /\ claimed = FALSE /\ rival = FALSE
  /\ conv = [task |-> 0, generation |-> 0, closed |-> FALSE, fragments |-> {},
             consumed |-> 0, active |-> 0, resolving |-> FALSE]
  /\ tasks = [t \in TaskId |-> NoTask]
  /\ waits = [a \in Actor |-> AtRest]
  /\ met = [words |-> 0, delegations |-> 0, typed |-> 0, interrupts |-> 0]
  /\ routed = [w \in Word |-> [turns |-> 0, lost |-> 0]]
  /\ overlapped = FALSE

-----------------------------------------------------------------------------
\* The claim on the session id. A socket that is turned away holds no claim to discard.

TurnedAwayDiscarding == rival' = rival /\ claimed' = FALSE
TurnedAway == UNCHANGED <<rival, claimed>>

RivalConnects ==
  /\ ~rival
  /\ IF claimed THEN TurnedAway ELSE claimed' = TRUE /\ rival' = TRUE
  /\ UNCHANGED <<call, conv, tasks, waits, met, routed, overlapped>>

RivalLeaves ==
  /\ rival
  /\ rival' = FALSE /\ claimed' = FALSE
  /\ UNCHANGED <<call, conv, tasks, waits, met, routed, overlapped>>

\* The start message is accepted and open is called;
Connect ==
  /\ call = "new" /\ ~claimed
  /\ call' = "opening" /\ claimed' = TRUE
  /\ UNCHANGED <<rival, conv, tasks, waits, met, routed, overlapped>>

\* run and controls start, or the provider refuses.
OpenedOrForgotten ==
  /\ call = "opening"
  /\ call' \in {"running", "new"}
  /\ UNCHANGED <<claimed, rival, conv, tasks, waits, met, routed, overlapped>>
Opened ==
  /\ call = "opening"
  /\ call' \in {"running", "stopping"}
  /\ UNCHANGED <<claimed, rival, conv, tasks, waits, met, routed, overlapped>>

\* run or controls has ended (the browser stops or disconnects, the provider closes or
\* fails, a limit is reached), or 1200 seconds have passed: both are cancelled,
\* in _cancel too.
StopCall ==
  /\ call = "running"
  /\ call' = "stopping"
  /\ waits' = [a \in Actor |-> AtRest]
  /\ UNCHANGED <<claimed, rival, conv, tasks, met, routed, overlapped>>

-----------------------------------------------------------------------------
\* _cancel, and what its caller does with its return. A caller that finds no task does
\* not wait.

CancelsLater(T, t) == T
Cancels(T, t) == IF t = 0 THEN T ELSE [T EXCEPT ![t].cancelled = TRUE]

\* The next task: _resolve of an offset, or _say.
Fresh == Cardinality({t \in TaskId : tasks[t].stage # "none"}) + 1
Create(T, kind, offset, generation) ==
  [T EXCEPT ![Fresh] =
     [NoTask EXCEPT !.stage = IF kind = "resolve" THEN "grace" ELSE "announcing",
                    !.kind = kind, !.offset = offset, !.generation = generation]]

\* "then" is delegate (a delegation was created), restart (late words), say or interrupt.
Continue(c, T, then, offset) ==
  LET kind == IF then = "say" THEN "say" ELSE "resolve"
  IN IF then = "interrupt"
     THEN conv' = [c EXCEPT !.task = 0] /\ tasks' = T
     ELSE /\ conv' = [c EXCEPT !.task = Fresh,
                               !.active = IF then = "delegate" THEN offset ELSE @]
          /\ tasks' = Create(T, kind, offset, c.generation)

\* The caller has changed the conversation to c before.
Cancel(a, c, then, offset) ==
  LET bumped == [c EXCEPT !.generation = @ + 1]
  IN IF c.task = 0
     THEN Continue(bumped, tasks, then, offset) /\ UNCHANGED <<waits, overlapped>>
     ELSE /\ conv' = bumped
          /\ tasks' = Cancels(tasks, c.task)
          /\ waits' = [waits EXCEPT ![a] = [on |-> c.task, then |-> then, offset |-> offset]]
          /\ overlapped' = (overlapped \/ \E b \in Actor \ {a} : waits[b].on # 0)

\* The task it waited for has ended. Whatever _task holds by now is forgotten.
Resume(a) ==
  /\ waits[a].on # 0 /\ tasks[waits[a].on].stage = "done"
  /\ Continue(conv, tasks, waits[a].then, waits[a].offset)
  /\ waits' = [waits EXCEPT ![a] = AtRest]
  /\ UNCHANGED <<call, claimed, rival, met, routed, overlapped>>

-----------------------------------------------------------------------------
\* handle, in run.

Reading(a) == call = "running" /\ waits[a].on = 0

\* A word that starts within the request that is being resolved restarts it.
Hear ==
  LET w == met.words + 1
      heard == IF w > conv.consumed THEN [conv EXCEPT !.fragments = @ \cup {w}] ELSE conv
  IN /\ Reading("reader")
     /\ met.words < MaxWords
     /\ met' = [met EXCEPT !.words = w]
     /\ IF conv.resolving /\ w <= conv.active
        THEN Cancel("reader", heard, "restart", conv.active)
        ELSE conv' = heard /\ UNCHANGED <<tasks, waits, overlapped>>
     /\ UNCHANGED <<call, claimed, rival, routed>>

\* A delegation supersedes the one before; it may be ahead of its words.
Delegate ==
  /\ Reading("reader")
  /\ met.delegations < MaxDelegations
  /\ met' = [met EXCEPT !.delegations = @ + 1]
  /\ \E offset \in conv.active..MaxWords : Cancel("reader", conv, "delegate", offset)
  /\ UNCHANGED <<call, claimed, rival, routed>>

\* controls: interrupt and say.
Interrupt ==
  /\ Reading("controls")
  /\ met.interrupts < MaxInterrupts
  /\ met' = [met EXCEPT !.interrupts = @ + 1]
  /\ Cancel("controls", conv, "interrupt", 0)
  /\ UNCHANGED <<call, claimed, rival, routed>>

TypeText ==
  /\ Reading("controls")
  /\ met.typed < MaxTyped
  /\ met' = [met EXCEPT !.typed = @ + 1]
  /\ Cancel("controls", conv, "say", 0)
  /\ UNCHANGED <<call, claimed, rival, routed>>

-----------------------------------------------------------------------------
\* _resolve and _say. A cancellation is delivered at the next await.

Runs(t, stage) == tasks[t].stage = stage /\ ~tasks[t].cancelled
Current(t) == ~conv.closed /\ tasks[t].generation = conv.generation
Outside == UNCHANGED <<call, claimed, rival, waits, met, overlapped>>

\* The finally of _resolve: what the task worked on is of no use any more.
Ends(t, c) ==
  /\ tasks' = [tasks EXCEPT ![t] = [@ EXCEPT !.stage = "ending", !.parts = {}, !.offset = 0,
                                             !.said = 0]]
  /\ conv' = IF tasks[t].kind = "resolve" THEN [c EXCEPT !.resolving = FALSE] ELSE c

\* After the grace: what was heard up to the offset is the request; nothing heard is said
\* at once.
Gather(t) ==
  LET parts == {w \in conv.fragments : w <= tasks[t].offset}
  IN /\ Runs(t, "grace")
     /\ tasks' = [tasks EXCEPT ![t].parts = parts,
                               ![t].stage = IF parts = {} THEN "saying" ELSE "announcing"]
     /\ Outside /\ UNCHANGED <<conv, routed>>

\* "working" was emitted, and service.turn is called.
StartTurn(t) ==
  /\ Runs(t, "announcing")
  /\ tasks' = [tasks EXCEPT ![t].stage = "turn"]
  /\ conv' = IF tasks[t].kind = "resolve" THEN [conv EXCEPT !.resolving = TRUE] ELSE conv
  /\ Outside /\ UNCHANGED routed

\* What the turn's return does to the fragments of a request that is still current.
ConsumedToFirst(parts) ==
  LET mark == CHOOSE x \in parts : \A y \in parts : x <= y
  IN [conv EXCEPT !.consumed = mark, !.fragments = {w \in @ : w > mark}]
Consumed(parts) ==
  LET mark == Greatest(parts)
  IN [conv EXCEPT !.consumed = mark, !.fragments = {w \in @ : w > mark}]

\* The turn has committed, a cancelled one too if the cancellation was lost; that one
\* is not current any more. Newer speech makes its reply obsolete.
CountedTurn(count, cancelled) ==
  [turns |-> count.turns + 1, lost |-> IF cancelled THEN count.lost + 1 ELSE count.lost]
TurnReturns(t) ==
  LET parts == tasks[t].parts
      then  == IF tasks[t].kind = "resolve" THEN Consumed(parts) ELSE conv
  IN /\ tasks[t].stage = "turn"
     /\ routed' = [w \in Word |-> IF w \in parts THEN CountedTurn(routed[w], tasks[t].cancelled)
                                  ELSE routed[w]]
     /\ IF Current(t) /\ (tasks[t].kind = "resolve" =>
                            \A w \in then.fragments : w <= tasks[t].offset)
        THEN tasks' = [tasks EXCEPT ![t].stage = "saying"] /\ conv' = then
        ELSE Ends(t, IF Current(t) THEN then ELSE conv)
     /\ Outside

\* It failed or took too long: an apology is said if it is current. (A cancellation lost
\* on a failure ends as one that is not.)
TurnFails(t) ==
  /\ Runs(t, "turn")
  /\ IF Current(t) THEN tasks' = [tasks EXCEPT ![t].stage = "saying"] /\ UNCHANGED conv
                   ELSE Ends(t, conv)
  /\ Outside /\ UNCHANGED routed

\* One append to the provider; nothing is checked between two of them.
SayChunk(t) ==
  /\ Runs(t, "saying")
  /\ tasks[t].said < MaxChunks
  /\ tasks' = [tasks EXCEPT ![t].said = @ + 1]
  /\ Outside /\ UNCHANGED <<conv, routed>>

Said(t) ==
  /\ Runs(t, "saying") /\ tasks[t].said > 0
  /\ Ends(t, conv)
  /\ Outside /\ UNCHANGED routed

\* The cancellation is delivered.
Cancelled(t) ==
  /\ tasks[t].cancelled /\ tasks[t].stage \in {"grace", "announcing", "turn", "saying"}
  /\ Ends(t, conv)
  /\ Outside /\ UNCHANGED routed

\* interrupt_delivery and "working.done".
EndTask(t) ==
  /\ tasks[t].stage = "ending"
  /\ tasks' = [tasks EXCEPT ![t] = [NoTask EXCEPT !.stage = "done"]]
  /\ Outside /\ UNCHANGED <<conv, routed>>

-----------------------------------------------------------------------------
\* close, and the release of the id.

Close ==
  /\ call = "stopping"
  /\ call' = "closing"
  /\ conv' = [conv EXCEPT !.closed = TRUE, !.generation = @ + 1]
  /\ tasks' = Cancels(tasks, conv.task)
  /\ UNCHANGED <<claimed, rival, waits, met, routed, overlapped>>

\* The task it waited for has ended, and the provider was drained or hung up.
Release ==
  /\ call = "closing"
  /\ conv.task # 0 => tasks[conv.task].stage = "done"
  /\ call' = "gone" /\ claimed' = FALSE
  /\ conv' = [conv EXCEPT !.task = 0]
  /\ UNCHANGED <<rival, tasks, waits, met, routed, overlapped>>
-----------------------------------------------------------------------------
TaskSteps(t) ==
  \/ Gather(t) \/ StartTurn(t) \/ TurnReturns(t) \/ TurnFails(t)
  \/ SayChunk(t) \/ Said(t) \/ Cancelled(t) \/ EndTask(t)

LiveNext ==
  \/ RivalConnects \/ RivalLeaves
  \/ Connect \/ Opened \/ StopCall \/ Close \/ Release
  \/ Hear \/ Delegate \/ Interrupt \/ TypeText
  \/ \E a \in Actor : Resume(a)
  \/ \E t \in TaskId : TaskSteps(t)

LiveSpec == LiveInit /\ [][LiveNext]_liveCall

\* asyncio runs every task that can run, a turn has a time budget, open and close have
\* timeouts, and a call lasts 1200 seconds at most.
LiveFairness ==
  /\ WF_liveCall(Opened) /\ WF_liveCall(StopCall)
  /\ WF_liveCall(Close) /\ WF_liveCall(Release)
  /\ \A t \in TaskId : WF_liveCall(TaskSteps(t))
-----------------------------------------------------------------------------
\* Correctness.

LiveTypeOK ==
  /\ call \in {"new", "opening", "running", "stopping", "closing", "gone"}
  /\ {claimed, rival, overlapped} \subseteq BOOLEAN
  /\ conv \in [task : {0} \cup TaskId, generation : Nat, closed : BOOLEAN,
               fragments : SUBSET Word, consumed : Offset, active : Offset,
               resolving : BOOLEAN]
  /\ tasks \in [TaskId -> [stage : Stage, kind : {"none", "resolve", "say"}, offset : Offset,
                           generation : Nat, parts : SUBSET Word, cancelled : BOOLEAN,
                           said : 0..MaxChunks]]
  /\ waits \in [Actor -> [on : {0} \cup TaskId, offset : Offset,
                          then : {"nothing", "delegate", "restart", "say", "interrupt"}]]
  /\ met \in [words : Offset, delegations : 0..MaxDelegations, typed : 0..MaxTyped,
              interrupts : 0..MaxInterrupts]
  /\ routed \in [Word -> [turns : Nat, lost : Nat]]

\* "This session already has an active voice connection" (api/live.py:44, api/streaming.py:56):
\* the id has one owner at a time, and stays claimed until its conversation has closed.
OneOwner ==
  LET held == call \in {"opening", "running", "stopping", "closing"}
  IN ~(held /\ rival) /\ (held \/ rival => claimed)

\* A word is part of one committed turn, whatever is superseded, restarted, interrupted or
\* fails in between: the watermark moves with the commit. With two exceptions, which the
\* code has: each commit of a turn whose cancellation wait_for lost leaves the watermark
\* behind (live.py:210), so its words are routed once more; and if two cancellations
\* overlapped, who resumes last has forgotten the other's task.
WordsRoutedOnce == overlapped \/ \A w \in Word : routed[w].turns <= 1 + routed[w].lost

\* "invalidates stale output" (SPRINTS.md:180): no task appends to the speech after a newer
\* request, an interruption or the close has taken its turn, also a task whose cancellation
\* was lost. Unless two cancellations overlapped, as above.
OnlyCurrentSpeaks ==
  [][\A t \in TaskId : tasks'[t].said > tasks[t].said => Current(t) \/ overlapped]_liveCall

\* Every claim of a call ends: one whose setup fails, whose tasks fail or that nobody
\* stops gives the id back.
ClaimIsReleased == (claimed /\ ~rival) ~> ~claimed
=============================================================================
