------------------------------ MODULE PhoneTurn ------------------------------
(***************************************************************************)
(* The delegated turns of one telephone call: ButaqPhoneRuntime.run        *)
(* (app/phone/runtime.py) in the tasks of the DelegationExecutor           *)
(* (telephony/delegation.py), where a new delegation replaces the one      *)
(* before.                                                                 *)
(*                                                                         *)
(* A fragment is what the caller said from its number on; it may be        *)
(* observed late. A cancellation may be lost in asyncio.wait_for (before   *)
(* Python 3.12): in the runtime's (runtime.py:159), and the cancelled task *)
(* takes its turn's answer all the same; or in the one inside the turn     *)
(* (orchestrator.py:183), which then commits for a task that ends. A task  *)
(* that is cancelled while it speaks leaves its generator, and the         *)
(* dialogue's lock, to the garbage collector.                              *)
(*                                                                         *)
(* Abstracted: texts, captions of the assistant, traces (their number is   *)
(* kept). interrupt_delivery, with which a turn ends, finds the            *)
(* conversation's lock free and does not wait.                             *)
(***************************************************************************)
EXTENDS Naturals, FiniteSets

CONSTANTS
  MaxFragments, MaxDelegated,   \* bounds: what the caller says, and delegations
  MaxTurnsPerCall               \* max_turns_per_call

ASSUME PhoneTurnAssumption == {MaxFragments, MaxDelegated, MaxTurnsPerCall} \subseteq Nat

VARIABLES
  observed,    \* the fragments in the session's graph
  dialogue,    \* the fields of _Dialogue, with the number of traces
  delegated,   \* the delegations: where their task is, and the fragments it works on
  replacing,   \* the delegation that waits for the one it replaces to end, and that one
  answered     \* history variable: the committed turns and the apologies each fragment was
               \* part of, and how many of them were for a task that had ended

phoneTurn == <<observed, dialogue, delegated, replacing, answered>>

Fragment == 1..MaxFragments
Delegated == 1..MaxDelegated
Nobody == 0

TaskOf(at) == [at |-> at, offset |-> 0, parts |-> {}, cancelled |-> FALSE]
NoneReplaces == [next |-> Nobody, on |-> Nobody]
Running == {d \in Delegated :
              delegated[d].at \notin {"new", "ended"} /\ ~delegated[d].cancelled}
-----------------------------------------------------------------------------
PhoneTurnInit ==
  /\ observed = {}
  /\ dialogue = [processed |-> {}, traces |-> 0, lock |-> Nobody, closed |-> FALSE]
  /\ delegated = [d \in Delegated |-> TaskOf("new")]
  /\ replacing = NoneReplaces
  /\ answered = [w \in Fragment |-> [times |-> 0, lost |-> 0]]

-----------------------------------------------------------------------------
\* The coordinator. It reads nothing while it waits for the task it replaces.

Observe(w) ==
  /\ replacing = NoneReplaces
  /\ w \notin observed
  /\ observed' = observed \cup {w}
  /\ UNCHANGED <<dialogue, delegated, replacing, answered>>

\* A delegation, which may be ahead of its words.
Created(offset) == [TaskOf("grace") EXCEPT !.offset = offset]
ReadRequest(d) ==
  /\ replacing = NoneReplaces
  /\ delegated[d].at = "new" /\ \A e \in 1..d-1 : delegated[e].at # "new"
  /\ \E offset \in Fragment :
       IF Running = {}
       THEN /\ delegated' = [delegated EXCEPT ![d] = Created(offset)]
            /\ UNCHANGED replacing
       ELSE /\ delegated' = [e \in Delegated |->
                  IF e \in Running THEN [delegated[e] EXCEPT !.cancelled = TRUE]
                  ELSE IF e = d THEN [TaskOf("new") EXCEPT !.offset = offset]
                  ELSE delegated[e]]
            /\ \E e \in Running : replacing' = [next |-> d, on |-> e]
  /\ UNCHANGED <<observed, dialogue, answered>>

Replaced ==
  /\ replacing # NoneReplaces /\ delegated[replacing.on].at = "ended"
  /\ delegated' = [delegated EXCEPT ![replacing.next] = Created(@.offset)]
  /\ replacing' = NoneReplaces
  /\ UNCHANGED <<observed, dialogue, answered>>

\* The session ends or is closed: cancel_all.
CancelDelegations ==
  /\ replacing = NoneReplaces /\ Running # {}
  /\ delegated' = [d \in Delegated |-> IF d \in Running
                                       THEN [delegated[d] EXCEPT !.cancelled = TRUE]
                                       ELSE delegated[d]]
  /\ UNCHANGED <<observed, dialogue, replacing, answered>>

\* finish, whenever its callers think that the session is over.
FinishDialogue ==
  /\ ~dialogue.closed
  /\ dialogue' = [dialogue EXCEPT !.closed = TRUE, !.processed = {}]
  /\ UNCHANGED <<observed, delegated, replacing, answered>>

-----------------------------------------------------------------------------
\* run

Works(d, at) == delegated[d].at = at /\ ~delegated[d].cancelled
Rests(d) == [delegated EXCEPT ![d] = TaskOf("ended")]
Aside == UNCHANGED <<observed, replacing>>

\* After the grace: what was observed up to the offset; no dialogue, no turn.
Snapshot(d) ==
  /\ Works(d, "grace")
  /\ delegated' = IF dialogue.closed THEN Rests(d)
                  ELSE [delegated EXCEPT
                          ![d].at = "queued",
                          ![d].parts = {w \in observed : w <= delegated[d].offset}]
  /\ Aside /\ UNCHANGED <<dialogue, answered>>

\* With the lock: what was not processed meanwhile is the turn's text. No text, or too
\* many turns, and the caller is told instead.
Unprocessed(d) == delegated[d].parts \ dialogue.processed
Enter(d) ==
  LET parts == Unprocessed(d)
      routes == parts # {} /\ dialogue.traces < MaxTurnsPerCall
  IN /\ Works(d, "queued") /\ dialogue.lock = Nobody
     /\ IF dialogue.closed THEN delegated' = Rests(d) /\ UNCHANGED dialogue
        ELSE /\ dialogue' = [dialogue EXCEPT !.lock = d]
             /\ delegated' = [delegated EXCEPT ![d].parts = IF routes THEN parts ELSE {},
                                               ![d].at = IF routes THEN "turn" ELSE "speaking"]
     /\ Aside /\ UNCHANGED answered

\* What follows the turn, or its failure, before anything is spoken.
MarkedNever(parts) == [dialogue EXCEPT !.traces = @ + 1]
Marked(parts) == [dialogue EXCEPT !.traces = @ + 1, !.processed = @ \cup parts]
AnsweredTo(count, noone) ==
  [times |-> count.times + 1, lost |-> IF noone THEN count.lost + 1 ELSE count.lost]
Answers(d, noone) ==
  answered' = [w \in Fragment |-> IF w \in delegated[d].parts THEN AnsweredTo(answered[w], noone)
                                  ELSE answered[w]]

\* The turn has committed, of a cancelled task too; its answer is of no use to a dialogue
\* that was closed.
TurnAnswers(d) ==
  /\ delegated[d].at = "turn"
  /\ Answers(d, FALSE)
  /\ IF dialogue.closed
     THEN dialogue' = [dialogue EXCEPT !.lock = Nobody] /\ delegated' = Rests(d)
     ELSE /\ dialogue' = Marked(delegated[d].parts)
          /\ delegated' = [delegated EXCEPT ![d].at = "speaking"]
  /\ Aside

\* Or it failed, or took too long: the caller is asked to repeat.
TurnApologises(d) ==
  /\ delegated[d].at = "turn"
  /\ Answers(d, FALSE)
  /\ dialogue' = Marked(delegated[d].parts)
  /\ delegated' = [delegated EXCEPT ![d].at = "speaking"]
  /\ Aside

\* Everything is spoken, or the executor finds that it was replaced between two chunks,
\* or is cancelled inside one: then the generator keeps the lock.
Spoken(d) ==
  /\ delegated[d].at = "speaking"
  /\ delegated' = Rests(d)
  /\ \/ ~delegated[d].cancelled /\ dialogue' = [dialogue EXCEPT !.lock = Nobody]
     \/ delegated[d].cancelled /\ UNCHANGED dialogue
  /\ Aside /\ UNCHANGED answered

Collected ==
  /\ dialogue.lock # Nobody /\ delegated[dialogue.lock].at = "ended"
  /\ dialogue' = [dialogue EXCEPT !.lock = Nobody]
  /\ UNCHANGED <<observed, delegated, replacing, answered>>

\* The cancellation is delivered. The turn it hits is dropped,
TurnCancelled(d) ==
  /\ delegated[d].cancelled /\ delegated[d].at \in {"grace", "queued", "turn"}
  /\ delegated' = Rests(d)
  /\ dialogue' = IF dialogue.lock = d THEN [dialogue EXCEPT !.lock = Nobody] ELSE dialogue
  /\ Aside /\ UNCHANGED answered

\* or has its result: it commits, and nothing is marked as processed.
CommitsCancelled(d) ==
  /\ delegated[d].cancelled /\ delegated[d].at = "turn"
  /\ Answers(d, TRUE)
  /\ delegated' = Rests(d)
  /\ dialogue' = [dialogue EXCEPT !.lock = Nobody]
  /\ Aside
-----------------------------------------------------------------------------
PhoneTurnNext ==
  \/ \E w \in Fragment : Observe(w)
  \/ Replaced \/ CancelDelegations \/ FinishDialogue \/ Collected
  \/ \E d \in Delegated :
       \/ ReadRequest(d) \/ Snapshot(d) \/ Enter(d)
       \/ TurnAnswers(d) \/ TurnApologises(d) \/ Spoken(d) \/ TurnCancelled(d)
       \/ CommitsCancelled(d)

PhoneTurnSpec == PhoneTurnInit /\ [][PhoneTurnNext]_phoneTurn
-----------------------------------------------------------------------------
\* Correctness.

PhoneTurnTypeOK ==
  /\ observed \subseteq Fragment
  /\ dialogue \in [processed : SUBSET Fragment, traces : 0..MaxTurnsPerCall,
                   lock : Delegated \cup {Nobody}, closed : BOOLEAN]
  /\ delegated \in [Delegated -> [at : {"new", "grace", "queued", "turn", "speaking", "ended"},
                                  offset : Fragment \cup {0}, parts : SUBSET Fragment,
                                  cancelled : BOOLEAN]]
  /\ replacing \in [next : Delegated \cup {Nobody}, on : Delegated \cup {Nobody}]
  /\ answered \in [Fragment -> [times : Nat, lost : Nat]]

\* "Keep accepted user facts" (runtime.py:206), once: whatever is replaced, late, ahead or
\* cancelled, a caller's words are part of one turn or one apology, and while the call
\* lasts they count as processed exactly if they were, so that those of a request that was
\* replaced go with the next. With one exception, which the code has: a turn that commits
\* for a task that has ended, because the wait_for inside it lost the cancellation, is not
\* marked (runtime.py:189), and its words are answered once more.
PhoneWordsAnsweredOnce ==
  /\ \A w \in Fragment : answered[w].times <= 1 + answered[w].lost
  /\ ~dialogue.closed =>
       dialogue.processed = {w \in Fragment : answered[w].times > answered[w].lost}
=============================================================================
