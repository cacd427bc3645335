-------------------------------- MODULE Phone --------------------------------
(***************************************************************************)
(* The inbound telephone service: app/phone/service.py                     *)
(* (InboundPhoneService) over the in-memory repository and inbox of the    *)
(* telephony library, with the life of each call's Live session            *)
(* (LiveSessionRunner) and of its dialogue (ButaqPhoneRuntime).            *)
(*                                                                         *)
(* Webhooks and hang-ups take _incoming_lock and keep it over their calls  *)
(* of the carrier and of the runner; op is what the holder waits for. The  *)
(* sessions' own tasks, the turns they delegate and the sweep of prune do  *)
(* not take it.                                                            *)
(*                                                                         *)
(* Abstracted: a call is named like its carrier leg, so the carrier        *)
(* announces no leg again whose call was forgotten; the inbox forgets no   *)
(* event (its day is longer than any retention); time only as what may     *)
(* have expired; what is said in a turn.                                   *)
(***************************************************************************)
EXTENDS Naturals, Sequences, SequencesExt, FiniteSets, CallState

CONSTANTS
  Call,           \* carrier legs, and the calls made of them
  Session,        \* Live sessions
  None,
  Status,         \* states the carrier's callbacks report
  MaxConcurrent,  \* max_concurrent_calls
  MaxRetained     \* max_retained_calls

\* What the holder of _incoming_lock may wait for: the provider's accept, the end of the
\* session's task, the carrier's hang-up.
Lock == [do: {"accept", "stop", "stopForHangup", "hangup"}, call: Call, pruning: BOOLEAN]

ASSUME PhoneAssumption ==
  /\ None \notin Call \cup Session \cup States \cup Lock
  /\ Status \subseteq States \ {"requested", "incoming", "accepted", "ending", "rejected"}
  /\ MaxConcurrent \in Nat \ {0} /\ MaxRetained \in Nat \ {0}

VARIABLES
  call,      \* the Call objects: state (None before there is one) and Live session
  stored,    \* calls the repository holds
  created,   \* _created
  open,      \* dialogues of the runtime that are not closed
  ended,     \* closed dialogues in the order of ended_at
  tokens,    \* calls with a bridge token
  inbox,     \* carrier events that were claimed
  op,        \* what the holder of _incoming_lock waits for, None if it is free
  runner,    \* the session task of each call
  turns,     \* calls with a delegated turn in flight
  routed,    \* calls with a conversation in service.sessions
  accepted,  \* history variable: Live sessions accepted for each call
  server,    \* serving, draining (aclose) or closed
  left       \* calls that aclose has still to hang up

dialogues == <<open, ended, routed>>
vars == <<call, stored, created, dialogues, tokens, inbox, op, runner, turns, accepted,
          server, left>>

IsTerminal(c) == call[c].state \in TERMINAL_STATES
Active == {c \in stored : ~IsTerminal(c)}

\* Call.apply with the save behind it.
Moved(c, target) == [call EXCEPT ![c].state = NextState(@, target)]

\* _apply
Apply(c, target) ==
  /\ call' = Moved(c, target)
  /\ stored' = IF Advances(call[c].state, target) THEN stored \cup {c} ELSE stored

\* ButaqPhoneRuntime.finish
Finish(c) ==
  /\ open' = open \ {c}
  /\ ended' = IF c \in open THEN Append(ended, c) ELSE ended
  /\ routed' = routed \ {c}

Waits(do, c, pruning) == [do |-> do, call |-> c, pruning |-> pruning]
Locked(do, c) == op # None /\ op.do = do /\ op.call = c
Serves == server = "serving" /\ op = None

-----------------------------------------------------------------------------
Init ==
  /\ call = [c \in Call |-> [state |-> None, session |-> None]]
  /\ stored = {} /\ created = {}
  /\ open = {} /\ ended = <<>> /\ routed = {}
  /\ tokens = {} /\ inbox = {}
  /\ op = None
  /\ runner = [c \in Call |-> "none"]
  /\ turns = {}
  /\ accepted = [c \in Call |-> 0]
  /\ server = "serving" /\ left = {}

-----------------------------------------------------------------------------
\* Webhooks of the carrier.

\* The leg is announced for the first time (handle_inbound_call): no more calls than
\* allowed. The answer carries the token that a bridge has to show.
VoiceUnlimited(c) ==
  /\ Serves
  /\ call[c].state = None
  /\ call' = [call EXCEPT ![c].state = NextState("incoming", "accepted")]
  /\ stored' = stored \cup {c} /\ created' = created \cup {c}
  /\ open' = open \cup {c} /\ tokens' = tokens \cup {c}
  /\ UNCHANGED <<ended, routed, inbox, op, runner, turns, accepted, server, left>>
Voice(c) ==
  /\ Serves
  /\ call[c].state = None
  /\ Cardinality(Active) < MaxConcurrent
  /\ call' = [call EXCEPT ![c].state = NextState("incoming", "accepted")]
  /\ stored' = stored \cup {c} /\ created' = created \cup {c}
  /\ open' = open \cup {c} /\ tokens' = tokens \cup {c}
  /\ UNCHANGED <<ended, routed, inbox, op, runner, turns, accepted, server, left>>

\* It is announced again: a call that goes on is answered once more, and needs a token
\* for that.
VoiceAgain(c) ==
  /\ Serves
  /\ c \in stored /\ ~IsTerminal(c) /\ call[c].state # "ending"
  /\ tokens' = tokens \cup {c}
  /\ UNCHANGED <<call, stored, created, dialogues, inbox, op, runner, turns, accepted,
                 server, left>>

\* LiveSessionRunner.stop cancels the session's task; its caller waits for the end.
Stop(c) == runner' = [runner EXCEPT ![c] = IF @ = "none" THEN "none" ELSE "cancelled"]

\* process_provider_event: each event once; it is lost on a call nobody knows.
StatusCallback(c, status) ==
  /\ Serves
  /\ <<c, status>> \notin inbox
  /\ inbox' = inbox \cup {<<c, status>>}
  /\ IF c \notin stored \/ Refuses(call[c].state, status)
     THEN UNCHANGED <<call, stored, op, runner>>
     ELSE /\ Apply(c, status)
          /\ IF call'[c].state \in TERMINAL_STATES
             THEN Stop(c) /\ op' = Waits("stop", c, FALSE)
             ELSE UNCHANGED <<op, runner>>
  /\ UNCHANGED <<created, dialogues, tokens, turns, accepted, server, left>>

Stopped(c) ==
  /\ Locked("stop", c)
  /\ runner[c] = "none"
  /\ op' = None
  /\ tokens' = tokens \ {c}
  /\ Finish(c)
  /\ UNCHANGED <<call, stored, created, inbox, runner, turns, accepted, server, left>>

-----------------------------------------------------------------------------
\* The Live session's invitation (handle_live_incoming_call). An invitation of a
\* session that is known, or for a call that may not be bridged, changes nothing.

BridgesAgain(c) ==
  /\ c \in stored /\ c \in tokens
  /\ ~IsTerminal(c) /\ call[c].state # "ending"
Bridges(c) ==
  /\ c \in stored /\ c \in tokens
  /\ ~IsTerminal(c) /\ call[c].state # "ending"
  /\ call[c].session = None
Invite(c, s) ==
  /\ Serves
  /\ \A d \in stored : call[d].session # s
  /\ Bridges(c)
  /\ call' = [call EXCEPT ![c].session = s]
  /\ tokens' = tokens \ {c}
  /\ accepted' = [accepted EXCEPT ![c] = @ + 1]
  /\ op' = Waits("accept", c, FALSE)
  /\ UNCHANGED <<stored, created, dialogues, inbox, runner, turns, server, left>>

Accepted(c) ==
  /\ Locked("accept", c)
  /\ op' = None
  /\ Apply(c, "connected")
  /\ runner' = [runner EXCEPT ![c] = "running"]
  /\ UNCHANGED <<created, dialogues, tokens, inbox, turns, accepted, server, left>>

\* accept fails: both legs are hung up, whatever comes of it.
AcceptFails(c) ==
  /\ Locked("accept", c)
  /\ op' = None
  /\ Apply(c, "failed")
  /\ Finish(c)
  /\ UNCHANGED <<created, tokens, inbox, runner, turns, accepted, server, left>>

-----------------------------------------------------------------------------
\* hangup_call, of an administrator, of prune for a call that is too long, of aclose.

AlreadyDoneEnding(c) == IsTerminal(c) \/ call[c].state = "ending"
AlreadyDone(c) == IsTerminal(c)

Ending(c, pruning) ==
  /\ ~AlreadyDone(c)
  /\ Apply(c, "ending")
  /\ Stop(c)
  /\ op' = Waits("stopForHangup", c, pruning)

HangUpForgetful(c, pruning) ==
  /\ Serves
  /\ c \in stored
  /\ Ending(c, pruning)
  /\ Finish(c)
  /\ UNCHANGED <<created, tokens, inbox, turns, accepted, server, left>>
HangUp(c, pruning) ==
  /\ Serves
  /\ c \in stored
  /\ Ending(c, pruning)
  /\ UNCHANGED <<created, dialogues, tokens, inbox, turns, accepted, server, left>>

\* The session is over: the dialogue ends before the carrier is asked.
StoppedForHangup(c) ==
  /\ Locked("stopForHangup", c)
  /\ runner[c] = "none"
  /\ op' = [op EXCEPT !.do = "hangup"]
  /\ tokens' = tokens \ {c}
  /\ Finish(c)
  /\ UNCHANGED <<call, stored, created, inbox, runner, turns, accepted, server, left>>

\* The carrier confirms, or it does not and the call has failed. Either is saved.
HungUpSilently(c) ==
  /\ Locked("hangup", c)
  /\ op' = None
  /\ UNCHANGED <<call, stored>>
  /\ Finish(c)
  /\ UNCHANGED <<created, tokens, inbox, runner, turns, accepted, server, left>>
HungUp(c) ==
  /\ Locked("hangup", c)
  /\ op' = None
  /\ \E outcome \in {"completed", "failed"} : Apply(c, outcome)
  /\ Finish(c)
  /\ UNCHANGED <<created, tokens, inbox, runner, turns, accepted, server, left>>

-----------------------------------------------------------------------------
\* The session's task (LiveSessionRunner._run) and the turns delegated to it.

\* ButaqPhoneRuntime.run up to service.turn, which opens the conversation.
StartTurn(c) ==
  /\ runner[c] \in {"running", "deaf"}
  /\ c \in open \ turns
  /\ turns' = turns \cup {c}
  /\ routed' = routed \cup {c}
  /\ UNCHANGED <<call, stored, created, open, ended, tokens, inbox, op, runner, accepted,
                 server, left>>

\* It is answered, fails, is too slow or is cancelled.
EndTurn(c) ==
  /\ c \in turns
  /\ turns' = turns \ {c}
  /\ UNCHANGED <<call, stored, created, dialogues, tokens, inbox, op, runner, accepted,
                 server, left>>

\* The provider closes the session, or the transport ends, or max_call_seconds do:
\* delegated turns are cancelled and, unless the end is confirmed, the leg is dropped.
SessionEnds(c, how) ==
  /\ runner[c] = "running"
  /\ runner' = [runner EXCEPT ![c] = how]
  /\ UNCHANGED <<call, stored, created, dialogues, tokens, inbox, op, turns, accepted,
                 server, left>>

\* finalize_live_session, without the lock; without a confirmation the carrier is
\* asked to hang up before the task ends.
FinalizeQuietly(c) ==
  /\ runner[c] \in {"confirmed", "unconfirmed"}
  /\ c \notin turns
  /\ call' = Moved(c, IF runner[c] = "confirmed" THEN "completed" ELSE "failed")
  /\ stored' = stored \cup {c}
  /\ tokens' = tokens \ {c}
  /\ runner' = [runner EXCEPT ![c] = IF @ = "confirmed" THEN "none" ELSE "leaving"]
  /\ UNCHANGED <<created, dialogues, inbox, op, turns, accepted, server, left>>
Finalize(c) ==
  /\ runner[c] \in {"confirmed", "unconfirmed"}
  /\ c \notin turns
  /\ call' = Moved(c, IF runner[c] = "confirmed" THEN "completed" ELSE "failed")
  /\ stored' = stored \cup {c}
  /\ Finish(c)
  /\ tokens' = tokens \ {c}
  /\ runner' = [runner EXCEPT ![c] = IF @ = "confirmed" THEN "none" ELSE "leaving"]
  /\ UNCHANGED <<created, inbox, op, turns, accepted, server, left>>

\* The cancellation finds the session where it waits for a delegation that was superseded
\* (delegation.py:86), and is lost: the session reads on, and who stopped it waits.
SwallowsStop(c) ==
  /\ runner[c] = "cancelled"
  /\ runner' = [runner EXCEPT ![c] = "deaf"]
  /\ UNCHANGED <<call, stored, created, dialogues, tokens, inbox, op, turns, accepted,
                 server, left>>

\* The provider or the transport ends that session, behind the turns it had delegated;
\* nobody finalizes it any more.
DeafEnds(c) ==
  /\ runner[c] = "deaf"
  /\ c \notin turns
  /\ runner' = [runner EXCEPT ![c] = "leaving"]
  /\ UNCHANGED <<call, stored, created, dialogues, tokens, inbox, op, turns, accepted,
                 server, left>>

\* The end of a task, of a cancelled one behind the turns it had delegated.
Leave(c) ==
  /\ runner[c] \in {"leaving", "cancelled"}
  /\ c \notin turns
  /\ runner' = [runner EXCEPT ![c] = "none"]
  /\ UNCHANGED <<call, stored, created, dialogues, tokens, inbox, op, turns, accepted,
                 server, left>>

-----------------------------------------------------------------------------
\* prune (behind its hang-ups) forgets the calls whose dialogue ended first: those
\* over max_retained_calls and those older than retention_seconds.

Forget(n) ==
  LET forgotten == {ended[i] : i \in 1..n}
  IN /\ ended' = SubSeq(ended, n + 1, Len(ended))
     /\ stored' = stored \ forgotten
     /\ created' = created \ forgotten
     /\ routed' = routed \ forgotten

Prune ==
  /\ server = "serving"
  /\ op # None => ~op.pruning
  /\ \E n \in 1..Len(ended) : Len(ended) - n <= MaxRetained /\ Forget(n)
  /\ UNCHANGED <<call, open, tokens, inbox, op, runner, turns, accepted, server, left>>

-----------------------------------------------------------------------------
\* The end of the server: requests are over, a hang-up of prune is cancelled (lifespan), and
\* with it the session it waits for, once more. aclose begins. (It begins behind the end of
\* that session, as does its first hang-up of the call.)
Shutdown ==
  /\ server = "serving"
  /\ op # None => op.pruning
  /\ server' = "draining"
  /\ IF op = None THEN UNCHANGED runner ELSE Stop(op.call)
  /\ op' = None
  /\ left' = created
  /\ UNCHANGED <<call, stored, created, dialogues, tokens, inbox, turns, accepted>>

Drain(c) ==
  /\ server = "draining" /\ op = None
  /\ c \in left
  /\ left' = left \ {c}
  /\ \/ Ending(c, FALSE)
     \/ AlreadyDone(c) /\ UNCHANGED <<call, stored, runner, op>>
  /\ UNCHANGED <<created, dialogues, tokens, inbox, turns, accepted, server>>

\* The runner has drained; tokens and dialogues go.
Close ==
  /\ server = "draining" /\ op = None
  /\ left = {}
  /\ \A c \in Call : runner[c] = "none"
  /\ server' = "closed"
  /\ tokens' = {}
  /\ open' = {} /\ ended' = <<>>
  /\ routed' = routed \ (open \cup ToSet(ended))
  /\ UNCHANGED <<call, stored, created, inbox, op, runner, turns, accepted, left>>

-----------------------------------------------------------------------------
Webhooks(c) ==
  \/ Voice(c) \/ VoiceAgain(c)
  \/ \E status \in Status : StatusCallback(c, status)
  \/ \E s \in Session : Invite(c, s)

LockSteps(c) ==
  \/ Stopped(c) \/ Accepted(c) \/ AcceptFails(c) \/ StoppedForHangup(c) \/ HungUp(c)

TaskSteps(c) == EndTurn(c) \/ Finalize(c) \/ Leave(c)

Next ==
  \/ \E c \in Call :
       \/ Webhooks(c) \/ LockSteps(c) \/ TaskSteps(c)
       \/ \E pruning \in BOOLEAN : HangUp(c, pruning)
       \/ StartTurn(c) \/ SwallowsStop(c) \/ DeafEnds(c)
       \/ \E how \in {"confirmed", "unconfirmed"} : SessionEnds(c, how)
       \/ Drain(c)
  \/ Prune \/ Shutdown \/ Close

Spec == Init /\ [][Next]_vars

\* Every request to the carrier and to the provider has a timeout of ten seconds, and a
\* turn its own; a cancelled task ends, unless its cancellation is lost. prune comes back
\* every ten seconds and finds the calls that are too long; asyncio.Lock is FIFO, so its
\* hang-up gets the lock. Nobody has to call, to speak, to report or to end a session that
\* is deaf to its stop, and the server need not stop.
Fairness ==
  /\ \A c \in Call :
       /\ WF_vars(LockSteps(c)) /\ WF_vars(TaskSteps(c))
       /\ SF_vars(HangUp(c, TRUE))
       /\ WF_vars(Drain(c))
  /\ WF_vars(Close)

FairSpec == Spec /\ Fairness
-----------------------------------------------------------------------------
\* Correctness.

RunnerState ==
  {"none", "running", "confirmed", "unconfirmed", "leaving", "cancelled", "deaf"}

\* Every variable stays in its type, and no more calls are active than are allowed,
\* whatever is pruned, hung up and announced at the same time.
TypeOK ==
  /\ call \in [Call -> [state: States \cup {None}, session: Session \cup {None}]]
  /\ stored \in SUBSET Call /\ created \in SUBSET Call
  /\ open \in SUBSET Call /\ ended \in Seq(Call) /\ routed \in SUBSET Call
  /\ tokens \in SUBSET Call
  /\ inbox \in SUBSET (Call \X Status)
  /\ op \in Lock \cup {None}
  /\ runner \in [Call -> RunnerState]
  /\ turns \in SUBSET Call
  /\ accepted \in [Call -> Nat]
  /\ server \in {"serving", "draining", "closed"} /\ left \in SUBSET Call
  /\ Cardinality(Active) <= MaxConcurrent

\* "Duplicate incoming callbacks cannot accept/start the same call twice"
\* (docs/telephony.md), although a repeated announcement issues a new token.
BridgedOnce == \A c \in Call : accepted[c] <= 1

\* A conversation or a turn in flight belongs to a dialogue that is open: the session
\* was stopped before its routing state was dropped ("Callers must stop the runner
\* before dropping shared routing state", runtime.py), and nothing brings it back.
AgentRests == routed \cup turns \subseteq open

\* Once a call is over and its last operation done, nothing of it is left at work:
\* no dialogue, no token, no session that could still be asked ("Hang up. The call must
\* become terminal and release the active agent work", docs/telephony.md).
EndedCallsRest ==
  \A c \in Call :
    IsTerminal(c) /\ ~(op # None /\ op.call = c) =>
      c \notin open \cup tokens /\ runner[c] \notin {"running", "deaf"}

\* "A late or duplicated webhook never rolls the call backwards, and a terminal state
\* is immutable" (telephony/README.md), with hang-ups and the session's end at any
\* time in between.
NeverBackwards ==
  [][\A c \in Call :
       call[c].state # None /\ call'[c].state # call[c].state =>
         /\ ~IsTerminal(c)
         /\ Rank(call'[c].state) > Rank(call[c].state)]_vars

\* After aclose no call is left in progress, also one whose hang-up the shutdown itself
\* interrupted, and no session runs on.
ShutdownEndsCalls ==
  server = "closed" =>
    \A c \in Call : (call[c].state # None => IsTerminal(c)) /\ runner[c] = "none"

\* Every call ends: prune hangs up what lasts too long, also when the carrier refuses.
\* With one exception, which the code has: the holder of the lock waits for a session that
\* swallowed its stop and reads on. (States and calls do not come back, so a call that
\* never ends meets that exception again and again: the session stays deaf for ever.)
StopsInVain == op # None /\ runner[op.call] = "deaf"
EveryCallEnds == \A c \in Call : call[c].state # None ~> (IsTerminal(c) \/ StopsInVain)

\* "Terminal traces remain in memory for 15 minutes, up to 100 completed calls"
\* (docs/telephony.md): a call that is over is one that prune will forget.
RetentionBounded ==
  server = "serving" => \A c \in stored : IsTerminal(c) => c \in open \cup ToSet(ended)
=============================================================================
