----------------------------- MODULE PhoneProofs -----------------------------
(***************************************************************************)
(* Theorems of Phone, for any number of calls, sessions and limits: calls  *)
(* only move forward, a call is bridged once, no conversation or turn      *)
(* outlives its dialogue, a call that is over is released, the end of the  *)
(* server leaves no call in progress, and no more calls are active than    *)
(* allowed.                                                                *)
(***************************************************************************)
EXTENDS Phone, FiniteSetTheorems, TLAPS

\* What the three rest on. Only a call that was announced is stored, is worked on or
\* has a session's task; a call without a session was never bridged; while a call is
\* accepted, or hung up behind the end of its session, no task of it runs.
PInv ==
  /\ call \in [Call -> [state: States \cup {None}, session: Session \cup {None}]]
  /\ runner \in [Call -> RunnerState]
  /\ accepted \in [Call -> Nat]
  /\ op \in Lock \cup {None}
  /\ \A c \in Call :
       \/ c \in stored \cup created \cup left
       \/ runner[c] # "none"
       \/ op # None /\ op.call = c
       => call[c].state # None
  /\ \A c \in Call : accepted[c] = 0 \/ (accepted[c] = 1 /\ call[c].session # None)

WorkInv ==
  /\ routed \cup turns \subseteq open
  /\ turns \subseteq {c \in Call : runner[c] \notin {"none", "leaving"}}
  /\ \A c \in Call : Locked("accept", c) \/ Locked("hangup", c) => runner[c] = "none"
  /\ \A c \in Call : runner[c] # "none" \/ Locked("accept", c) => call[c].session # None

-----------------------------------------------------------------------------
\* A change that is made leads to a state of a higher rank, and out of no terminal one.
LEMMA AdvancesForward ==
  ASSUME NEW current \in States, NEW target \in States, Advances(current, target)
  PROVE  /\ current \notin TERMINAL_STATES
         /\ Rank(target) > Rank(current)
  BY DEF Advances, States, TERMINAL_STATES, ALLOWED_TRANSITIONS, AlwaysReachable, Rank

LEMMA NextStateType ==
  ASSUME NEW current \in States, NEW target \in States
  PROVE  NextState(current, target) \in States
  BY DEF NextState

-----------------------------------------------------------------------------
\* What NeverBackwards asks of one step.
Forward ==
  \A c \in Call :
    call[c].state # None /\ call'[c].state # call[c].state =>
      ~IsTerminal(c) /\ Rank(call'[c].state) > Rank(call[c].state)

CallType == [Call -> [state: States \cup {None}, session: Session \cup {None}]]

\* Call.apply moves one call forward and leaves its session alone.
LEMMA MovedForward ==
  ASSUME call \in CallType, NEW c \in Call, call[c].state # None,
         NEW target \in States, call' = Moved(c, target)
  PROVE  /\ call' \in CallType
         /\ Forward
         /\ \A d \in Call : call'[d].session = call[d].session
         /\ \A d \in Call : call[d].state # None => call'[d].state # None
<1> DEFINE current == call[c].state
<1>1. current \in States
  BY DEF CallType
<1>2. /\ call'[c].state = NextState(current, target)
      /\ call'[c].session = call[c].session
      /\ \A d \in Call \ {c} : call'[d] = call[d]
  BY DEF Moved, CallType
<1>3. NextState(current, target) \in States
  BY <1>1, NextStateType
<1>4. call' \in CallType
  BY <1>3 DEF Moved, CallType
<1>5. ASSUME NextState(current, target) # current
      PROVE  current \notin TERMINAL_STATES
             /\ Rank(NextState(current, target)) > Rank(current)
  BY <1>1, <1>5, AdvancesForward DEF NextState
<1> HIDE DEF current
<1>6. Forward
  BY <1>2, <1>5 DEF Forward, IsTerminal, current
<1>7. QED
  BY <1>2, <1>3, <1>4, <1>6, PhoneAssumption

-----------------------------------------------------------------------------
LEMMA PInvInit == Init => PInv /\ WorkInv
<1> SUFFICES ASSUME Init PROVE PInv /\ WorkInv
  OBVIOUS
<1>1. PInv
  BY DEF Init, PInv, RunnerState, Locked
<1>2. WorkInv
  BY DEF Init, WorkInv, Locked
<1>3. QED
  BY <1>1, <1>2

\* Every step keeps PInv and moves calls forward.
LEMMA PInvStep ==
  ASSUME PInv, [Next]_vars
  PROVE  PInv' /\ Forward
<1> USE PhoneAssumption
<1> DEFINE Known(c) == call[c].state # None
<1>1. call \in CallType
  BY DEF PInv, CallType
<1>2. CASE UNCHANGED vars
  BY <1>2 DEF vars, PInv, Forward, Locked, dialogues
<1>3. ASSUME NEW c \in Call, Voice(c) PROVE PInv' /\ Forward
  <2>1. NextState("incoming", "accepted") = "accepted"
    BY DEF NextState, Advances, TERMINAL_STATES, ALLOWED_TRANSITIONS
  <2>2. call' = [call EXCEPT ![c].state = "accepted"]
    BY <1>3, <2>1 DEF Voice
  <2>3. "accepted" \in States
    BY DEF States, ALLOWED_TRANSITIONS
  <2>4. Forward
    BY <1>1, <1>3, <2>2 DEF Voice, Forward, CallType
  <2>5. /\ call' \in CallType
        /\ \A d \in Call : call'[d].session = call[d].session
        /\ \A d \in Call : Known(d) => call'[d].state # None
        /\ call'[c].state # None
    BY <1>1, <2>2, <2>3 DEF CallType
  <2>6. PInv'
    BY <1>3, <2>5 DEF Voice, PInv, Serves, CallType
  <2>7. QED
    BY <2>4, <2>6
<1>4. ASSUME NEW c \in Call, VoiceAgain(c) PROVE PInv' /\ Forward
  BY <1>4 DEF VoiceAgain, PInv, Forward, dialogues
<1>5. ASSUME NEW c \in Call, NEW status \in Status, StatusCallback(c, status)
      PROVE  PInv' /\ Forward
  <2>1. CASE UNCHANGED <<call, stored, op, runner>>
    BY <1>5, <2>1 DEF StatusCallback, PInv, Forward, dialogues
  <2>2. CASE /\ c \in stored /\ Apply(c, status)
             /\ \/ Stop(c) /\ op' = Waits("stop", c, FALSE)
                \/ UNCHANGED <<op, runner>>
    <3>1. Known(c)
      BY <2>2 DEF PInv
    <3>2. status \in States
      OBVIOUS
    <3>3. /\ call' \in CallType /\ Forward
          /\ \A d \in Call : call'[d].session = call[d].session
          /\ \A d \in Call : Known(d) => call'[d].state # None
      BY <1>1, <2>2, <3>1, <3>2, MovedForward DEF Apply
    <3>4. /\ stored' \subseteq stored \cup {c}
          /\ UNCHANGED <<created, left, accepted>>
      BY <1>5, <2>2 DEF StatusCallback, Apply
    <3>5. /\ runner' \in [Call -> RunnerState]
          /\ \A d \in Call \ {c} : runner'[d] = runner[d]
          /\ op' = op \/ (op' \in Lock /\ op'.call = c)
      <4>1. CASE Stop(c) /\ op' = Waits("stop", c, FALSE)
        <5>1. op' \in Lock /\ op'.call = c
          BY <4>1 DEF Waits, Lock
        <5>2. runner' \in [Call -> RunnerState] /\ \A d \in Call \ {c} : runner'[d] = runner[d]
          BY <4>1 DEF PInv, Stop, RunnerState
        <5>3. QED
          BY <5>1, <5>2
      <4>2. CASE UNCHANGED <<op, runner>>
        BY <4>2 DEF PInv
      <4>3. QED
        BY <2>2, <4>1, <4>2
    <3>6. ASSUME NEW d \in Call,
                 \/ d \in stored' \cup created' \cup left'
                 \/ runner'[d] # "none"
                 \/ op' # None /\ op'.call = d
          PROVE  call'[d].state # None
      <4>1. Known(d)
        BY <3>1, <3>4, <3>5, <3>6 DEF PInv
      <4>2. QED
        BY <3>3, <4>1
    <3>7. op' \in Lock \cup {None}
      BY <3>5 DEF PInv
    <3>8. \A d \in Call : accepted'[d] = 0 \/ (accepted'[d] = 1 /\ call'[d].session # None)
      BY <3>3, <3>4 DEF PInv
    <3>9. PInv'
      BY <3>3, <3>4, <3>5, <3>6, <3>7, <3>8 DEF PInv, CallType
    <3>10. QED
      BY <3>3, <3>9
  <2>3. QED
    BY <1>5, <2>1, <2>2 DEF StatusCallback
<1>6. ASSUME NEW c \in Call, NEW s \in Session, Invite(c, s) PROVE PInv' /\ Forward
  <2>1. /\ Known(c) /\ call[c].session = None /\ accepted[c] = 0
        /\ call' \in CallType
        /\ \A d \in Call : call'[d].state = call[d].state
        /\ call'[c].session = s /\ s # None
        /\ \A d \in Call \ {c} : call'[d].session = call[d].session
    BY <1>1, <1>6 DEF Invite, Bridges, PInv, CallType
  <2>2. Forward
    BY <2>1 DEF Forward
  <2>3. PInv'
    BY <1>6, <2>1 DEF Invite, PInv, CallType, Waits, Lock, dialogues
  <2>4. QED
    BY <2>2, <2>3
<1>7. ASSUME NEW c \in Call, NEW target \in States, Known(c), Apply(c, target),
             runner' \in [Call -> RunnerState],
             \A d \in Call \ {c} : runner'[d] = runner[d],
             op' = None \/ op' = op \/ (op' \in Lock /\ op'.call = c),
             created' = created, left' \subseteq left, accepted' = accepted
      PROVE  PInv' /\ Forward
  <2>1. /\ call' \in CallType /\ Forward
        /\ \A d \in Call : call'[d].session = call[d].session
        /\ \A d \in Call : Known(d) => call'[d].state # None
    BY <1>1, <1>7, MovedForward DEF Apply
  <2>2. PInv'
    BY <1>7, <2>1 DEF PInv, CallType, Apply
  <2>3. QED
    BY <2>1, <2>2
<1>8. ASSUME UNCHANGED <<call, accepted>>,
             runner' \in [Call -> RunnerState],
             \A d \in Call : runner'[d] # "none" => runner[d] # "none",
             op' \in Lock \cup {None},
             op' # None => op # None /\ op'.call = op.call,
             stored' \subseteq stored, created' \subseteq created,
             left' \subseteq left \cup created
      PROVE  PInv' /\ Forward
  BY <1>8 DEF PInv, Forward
<1>9. ASSUME NEW c \in Call, Locked("accept", c), Accepted(c) PROVE PInv' /\ Forward
  <2>1. Known(c) /\ "connected" \in States
    BY <1>9 DEF Locked, PInv, States, ALLOWED_TRANSITIONS
  <2>2. runner' \in [Call -> RunnerState] /\ \A d \in Call \ {c} : runner'[d] = runner[d]
    BY <1>9 DEF Accepted, PInv, RunnerState
  <2>3. QED
    BY <1>7, <1>9, <2>1, <2>2 DEF Accepted
<1>10. ASSUME NEW c \in Call, AcceptFails(c) PROVE PInv' /\ Forward
  <2>1. Known(c) /\ "failed" \in States
    BY <1>10 DEF AcceptFails, Locked, PInv, States, TERMINAL_STATES
  <2>2. QED
    BY <1>7, <1>10, <2>1 DEF AcceptFails, PInv
<1>11. ASSUME NEW c \in Call, NEW pruning \in BOOLEAN, Known(c), Ending(c, pruning),
              created' = created, left' \subseteq left, accepted' = accepted
       PROVE  PInv' /\ Forward
  <2>1. "ending" \in States /\ op' \in Lock /\ op'.call = c
    BY <1>11 DEF Ending, Waits, Lock, States, ALLOWED_TRANSITIONS
  <2>2. runner' \in [Call -> RunnerState] /\ \A d \in Call \ {c} : runner'[d] = runner[d]
    BY <1>11 DEF Ending, Stop, PInv, RunnerState
  <2>3. QED
    BY <1>7, <1>11, <2>1, <2>2 DEF Ending
<1>12. ASSUME NEW c \in Call, HungUp(c) PROVE PInv' /\ Forward
  <2>1. Known(c) /\ {"completed", "failed"} \subseteq States
    BY <1>12 DEF HungUp, Locked, PInv, States, TERMINAL_STATES
  <2>2. PICK outcome \in {"completed", "failed"} : Apply(c, outcome)
    BY <1>12 DEF HungUp
  <2>3. QED
    BY <1>7, <1>12, <2>1, <2>2 DEF HungUp, PInv
<1>13. ASSUME NEW c \in Call, Finalize(c) PROVE PInv' /\ Forward
  <2> DEFINE target == IF runner[c] = "confirmed" THEN "completed" ELSE "failed"
  <2>1. Known(c) /\ target \in States
    BY <1>13 DEF Finalize, PInv, States, TERMINAL_STATES
  <2>2. call' = Moved(c, target)
    BY <1>13 DEF Finalize
  <2> HIDE DEF target
  <2>3. /\ call' \in CallType /\ Forward
        /\ \A d \in Call : call'[d].session = call[d].session
        /\ \A d \in Call : Known(d) => call'[d].state # None
    BY <1>1, <2>1, <2>2, MovedForward
  <2>4. PInv'
    BY <1>13, <2>1, <2>3 DEF Finalize, PInv, CallType, RunnerState
  <2>5. QED
    BY <2>3, <2>4
<1>14. ASSUME NEW c \in Call,
              \/ Stopped(c) \/ StoppedForHangup(c) \/ StartTurn(c) \/ EndTurn(c)
              \/ SwallowsStop(c) \/ DeafEnds(c)
              \/ Leave(c) \/ \E how \in {"confirmed", "unconfirmed"} : SessionEnds(c, how)
       PROVE  PInv' /\ Forward
  <2>1. CASE Stopped(c)
    BY <1>8, <2>1 DEF Stopped, PInv
  <2>2. CASE StoppedForHangup(c)
    BY <1>8, <2>2 DEF StoppedForHangup, Locked, PInv, Lock
  <2>3. CASE StartTurn(c) \/ EndTurn(c)
    BY <1>8, <2>3 DEF StartTurn, EndTurn, PInv
  <2>4. CASE SwallowsStop(c) \/ DeafEnds(c) \/ Leave(c)
    BY <1>8, <2>4 DEF SwallowsStop, DeafEnds, Leave, PInv, RunnerState
  <2>5. CASE \E how \in {"confirmed", "unconfirmed"} : SessionEnds(c, how)
    BY <1>8, <2>5 DEF SessionEnds, PInv, RunnerState
  <2>6. QED
    BY <1>14, <2>1, <2>2, <2>3, <2>4, <2>5
<1>15. CASE Prune \/ Shutdown \/ Close
  <2>1. CASE Prune
    BY <1>8, <2>1 DEF Prune, Forget, PInv
  <2>2. CASE Shutdown
    <3>1. /\ runner' \in [Call -> RunnerState]
          /\ \A d \in Call : runner'[d] # "none" => runner[d] # "none"
      BY <2>2 DEF Shutdown, Stop, PInv, RunnerState
    <3>2. QED
      BY <1>8, <2>2, <3>1 DEF Shutdown, PInv
  <2>3. CASE Close
    BY <1>8, <2>3 DEF Close, PInv
  <2>4. QED
    BY <1>15, <2>1, <2>2, <2>3
<1>16. ASSUME NEW c \in Call, Drain(c) PROVE PInv' /\ Forward
  <2>1. CASE Ending(c, FALSE)
    BY <1>11, <1>16, <2>1 DEF Drain, PInv
  <2>2. CASE UNCHANGED <<call, stored, runner, op>>
    BY <1>8, <1>16, <2>2 DEF Drain, PInv
  <2>3. QED
    BY <1>16, <2>1, <2>2 DEF Drain
<1>17. ASSUME NEW c \in Call, NEW pruning \in BOOLEAN, HangUp(c, pruning)
       PROVE  PInv' /\ Forward
  BY <1>11, <1>17 DEF HangUp, PInv
<1>18. QED
  BY <1>2, <1>3, <1>4, <1>5, <1>6, <1>9, <1>10, <1>12, <1>13, <1>14, <1>15, <1>16, <1>17
  DEF Next, Webhooks, LockSteps, TaskSteps, Accepted

-----------------------------------------------------------------------------
\* A dialogue is finished when no turn of its call is in flight.
LEMMA FinishRests ==
  ASSUME routed \cup turns \subseteq open, NEW c \in Call, c \notin turns,
         Finish(c), turns' = turns
  PROVE  routed' \cup turns' \subseteq open'
  BY DEF Finish

\* Call.apply leaves the sessions of all calls alone.
LEMMA SessionKept ==
  ASSUME call \in CallType, NEW c \in Call, NEW target, call' = Moved(c, target)
  PROVE  \A d \in Call : call'[d].session = call[d].session
  BY DEF Moved, CallType

\* Every step keeps WorkInv: a dialogue is dropped only by a step that finds the call's
\* session ended, and no turn outlives its session.
LEMMA WorkInvStep ==
  ASSUME PInv, WorkInv, [Next]_vars
  PROVE  WorkInv'
<1> USE PhoneAssumption
<1> DEFINE SameSessions == \A d \in Call : call'[d].session = call[d].session
           \* What an operation of c's leaves to wait for.
           WaitsFor(c) ==
             \/ op' = None
             \/ op' = op /\ (runner[c] = "none" => runner'[c] = "none")
             \/ /\ op'.call = c
                /\ \/ op'.do \in {"stop", "stopForHangup"}
                   \/ op'.do = "hangup" /\ runner'[c] = "none"
<1>1. /\ call \in CallType /\ runner \in [Call -> RunnerState]
      /\ routed \cup turns \subseteq open
  BY DEF PInv, WorkInv, CallType
<1>2. CASE UNCHANGED vars
  BY <1>2 DEF vars, WorkInv, Locked, dialogues
\* Steps that change the session task of one call only, and start no turn.
<1>3. ASSUME NEW c \in Call, routed' \cup turns' \subseteq open', turns' \subseteq turns,
             SameSessions,
             \A d \in Call \ {c} : runner'[d] = runner[d],
             c \in turns' => runner'[c] \notin {"none", "leaving"},
             runner'[c] # "none" => call[c].session # None,
             WaitsFor(c)
      PROVE  WorkInv'
  <2>1. turns' \subseteq {d \in Call : runner'[d] \notin {"none", "leaving"}}
    BY <1>3 DEF WorkInv
  <2>2. ASSUME NEW d \in Call, Locked("accept", d)' \/ Locked("hangup", d)'
        PROVE  runner'[d] = "none"
    BY <1>3, <2>2 DEF WorkInv, Locked
  <2>3. ASSUME NEW d \in Call, runner'[d] # "none" \/ Locked("accept", d)'
        PROVE  call'[d].session # None
    BY <1>3, <2>3 DEF WorkInv, Locked
  <2>4. QED
    BY <1>3, <2>1, <2>2, <2>3 DEF WorkInv
<1>4. ASSUME NEW c \in Call, Voice(c) \/ VoiceAgain(c) PROVE WorkInv'
  <2>1. SameSessions
    BY <1>1, <1>4 DEF Voice, VoiceAgain, CallType
  <2>2. QED
    BY <1>4, <2>1 DEF Voice, VoiceAgain, WorkInv, Locked, dialogues
<1>5. ASSUME NEW c \in Call, Stop(c), SameSessions, UNCHANGED <<open, routed, turns>>,
             op'.call = c, op'.do \in {"stop", "stopForHangup"}
      PROVE  WorkInv'
  <2>1. \A d \in Call \ {c} : runner'[d] = runner[d]
    BY <1>1, <1>5 DEF Stop
  <2>2. runner'[c] = IF runner[c] = "none" THEN "none" ELSE "cancelled"
    BY <1>1, <1>5 DEF Stop
  <2>3. QED
    BY <1>3, <1>5, <2>1, <2>2 DEF WorkInv
<1>6. ASSUME NEW c \in Call, NEW status \in Status, StatusCallback(c, status)
      PROVE  WorkInv'
  <2>1. SameSessions
    BY <1>1, <1>6, SessionKept DEF StatusCallback, Apply
  <2>2. CASE UNCHANGED <<op, runner>>
    BY <1>6, <2>1, <2>2 DEF StatusCallback, WorkInv, Locked, dialogues
  <2>3. CASE Stop(c) /\ op' = Waits("stop", c, FALSE)
    BY <1>5, <1>6, <2>1, <2>3 DEF StatusCallback, Waits, dialogues
  <2>4. QED
    BY <1>6, <2>2, <2>3 DEF StatusCallback
<1>7. ASSUME NEW c \in Call, NEW s \in Session, Invite(c, s) PROVE WorkInv'
  <2>1. /\ runner[c] = "none"
        /\ call'[c].session # None
        /\ \A d \in Call \ {c} : call'[d].session = call[d].session
    BY <1>1, <1>7 DEF Invite, Bridges, WorkInv, CallType
  <2>2. \A d \in Call : /\ Locked("accept", d)' => d = c
                        /\ ~Locked("hangup", d)'
    BY <1>7 DEF Invite, Waits, Locked
  <2>3. QED
    BY <1>7, <2>1, <2>2 DEF Invite, WorkInv, dialogues
<1>8. ASSUME NEW c \in Call, Accepted(c) PROVE WorkInv'
  <2>1. runner[c] = "none" /\ call[c].session # None /\ c \notin turns
    BY <1>8 DEF Accepted, WorkInv
  <2>2. SameSessions
    BY <1>1, <1>8, SessionKept DEF Accepted, Apply
  <2>3. \A d \in Call \ {c} : runner'[d] = runner[d]
    BY <1>1, <1>8 DEF Accepted
  <2>4. QED
    BY <1>1, <1>3, <1>8, <2>1, <2>2, <2>3 DEF Accepted, dialogues
\* The operations of the lock that finish the dialogue.
<1>9. ASSUME NEW c \in Call, runner[c] = "none", Finish(c), SameSessions,
             UNCHANGED <<runner, turns>>,
             op' = None \/ (op'.call = c /\ op'.do = "hangup")
      PROVE  WorkInv'
  <2>1. c \notin turns
    BY <1>9 DEF WorkInv
  <2>2. routed' \cup turns' \subseteq open'
    BY <1>1, <1>9, <2>1, FinishRests
  <2>3. QED
    BY <1>3, <1>9, <2>1, <2>2
<1>10. ASSUME NEW c \in Call,
              Stopped(c) \/ AcceptFails(c) \/ StoppedForHangup(c) \/ HungUp(c)
       PROVE  WorkInv'
  <2>1. runner[c] = "none" /\ Finish(c) /\ UNCHANGED <<runner, turns>>
    BY <1>10 DEF Stopped, AcceptFails, StoppedForHangup, HungUp, WorkInv
  <2>2. SameSessions
    BY <1>1, <1>10, SessionKept
    DEF Stopped, AcceptFails, StoppedForHangup, HungUp, Apply
  <2>3. op' = None \/ (op'.call = c /\ op'.do = "hangup")
    BY <1>10 DEF Stopped, AcceptFails, StoppedForHangup, HungUp, Locked, PInv, Lock
  <2>4. QED
    BY <1>9, <2>1, <2>2, <2>3
<1>11. ASSUME NEW c \in Call, NEW pruning \in BOOLEAN, Ending(c, pruning),
              UNCHANGED <<dialogues, turns>>
       PROVE  WorkInv'
  <2>1. SameSessions
    BY <1>1, <1>11, SessionKept DEF Ending, Apply
  <2>2. QED
    BY <1>5, <1>11, <2>1 DEF Ending, Waits, dialogues
<1>12. ASSUME NEW c \in Call, NEW pruning \in BOOLEAN, HangUp(c, pruning) PROVE WorkInv'
  BY <1>11, <1>12 DEF HangUp
<1>13. ASSUME NEW c \in Call, Drain(c) PROVE WorkInv'
  BY <1>11, <1>13 DEF Drain, WorkInv, Locked, dialogues
\* The session's task and its turns.
<1>14. ASSUME NEW c \in Call, StartTurn(c) PROVE WorkInv'
  BY <1>14 DEF StartTurn, WorkInv, Locked
<1>15. ASSUME NEW c \in Call, EndTurn(c) PROVE WorkInv'
  BY <1>15 DEF EndTurn, WorkInv, Locked, dialogues
<1>16. ASSUME NEW c \in Call, runner[c] # "none",
              NEW next \in RunnerState, runner' = [runner EXCEPT ![c] = next],
              c \notin turns \/ next \notin {"none", "leaving"},
              SameSessions, op' = op, turns' = turns,
              routed' \cup turns' \subseteq open'
       PROVE  WorkInv'
  <2>1. runner'[c] = next /\ \A d \in Call \ {c} : runner'[d] = runner[d]
    BY <1>1, <1>16
  <2>2. QED
    BY <1>3, <1>16, <2>1 DEF WorkInv
<1>17. ASSUME NEW c \in Call, NEW how \in {"confirmed", "unconfirmed"}, SessionEnds(c, how)
       PROVE  WorkInv'
  BY <1>1, <1>16, <1>17 DEF SessionEnds, dialogues, RunnerState
<1>18. ASSUME NEW c \in Call, Finalize(c) PROVE WorkInv'
  <2>1. SameSessions
    BY <1>1, <1>18, SessionKept DEF Finalize
  <2>2. routed' \cup turns' \subseteq open'
    BY <1>1, <1>18, FinishRests DEF Finalize
  <2>3. PICK next \in {"none", "leaving"} : runner' = [runner EXCEPT ![c] = next]
    BY <1>1, <1>18 DEF Finalize
  <2>4. QED
    BY <1>16, <1>18, <2>1, <2>2, <2>3 DEF Finalize, RunnerState
<1>19. ASSUME NEW c \in Call, SwallowsStop(c) \/ DeafEnds(c) \/ Leave(c) PROVE WorkInv'
  <2>1. /\ runner[c] # "none" /\ SameSessions /\ op' = op /\ turns' = turns
        /\ routed' \cup turns' \subseteq open'
    BY <1>1, <1>19 DEF SwallowsStop, DeafEnds, Leave, dialogues
  <2>2. CASE SwallowsStop(c)
    BY <1>16, <2>1, <2>2 DEF SwallowsStop, RunnerState
  <2>3. CASE DeafEnds(c)
    BY <1>16, <2>1, <2>3 DEF DeafEnds, RunnerState
  <2>4. CASE Leave(c)
    BY <1>16, <2>1, <2>4 DEF Leave, RunnerState
  <2>5. QED
    BY <1>19, <2>2, <2>3, <2>4
<1>20. CASE Prune
  BY <1>20 DEF Prune, Forget, WorkInv, Locked
<1>21. CASE Shutdown
  <2>1. \A d \in Call : /\ runner'[d] = "none" <=> runner[d] = "none"
                        /\ runner'[d] \in {runner[d], "cancelled"}
    BY <1>1, <1>21 DEF Shutdown, Stop
  <2>2. QED
    BY <1>21, <2>1 DEF Shutdown, WorkInv, Locked, dialogues
<1>22. CASE Close
  <2>1. turns = {} /\ routed \subseteq open
    BY <1>22 DEF Close, WorkInv
  <2>2. QED
    BY <1>22, <2>1 DEF Close, WorkInv, Locked
<1>23. QED
  BY <1>2, <1>4, <1>6, <1>7, <1>8, <1>10, <1>12, <1>13, <1>14, <1>15, <1>17, <1>18,
     <1>19, <1>20, <1>21, <1>22
  DEF Next, Webhooks, LockSteps, TaskSteps

-----------------------------------------------------------------------------
\* PInv and WorkInv hold in every state.
LEMMA PhoneInvariant == Spec => [](PInv /\ WorkInv)
<1>1. PInv /\ WorkInv /\ [Next]_vars => (PInv /\ WorkInv)'
  BY PInvStep, WorkInvStep
<1>2. QED
  BY PInvInit, <1>1, PTL DEF Spec

\* "A late or duplicated webhook never rolls the call backwards, and a terminal state is
\* immutable": whatever callbacks, hang-ups, session ends and prunings there are, and in
\* any order, a call's state changes only to one of a higher rank.
THEOREM CallsMoveForward == Spec => NeverBackwards
<1>1. PInv /\ [Next]_vars
      => [\A c \in Call :
            call[c].state # None /\ call'[c].state # call[c].state =>
              /\ ~IsTerminal(c)
              /\ Rank(call'[c].state) > Rank(call[c].state)]_vars
  BY PInvStep DEF Forward
<1>2. QED
  BY PhoneInvariant, <1>1, PTL DEF Spec, NeverBackwards

\* However often a call is announced and new bridge tokens are issued for it, at most one
\* Live session is accepted for it.
THEOREM CallsBridgedOnce == Spec => []BridgedOnce
<1>1. PInv => BridgedOnce
  BY DEF PInv, BridgedOnce
<1>2. QED
  BY PhoneInvariant, <1>1, PTL

\* The routing state of a call is dropped only behind its session and its turns, and no
\* turn brings it back.
THEOREM WorkEndsWithDialogue == Spec => []AgentRests
<1>1. WorkInv => AgentRests
  BY DEF WorkInv, AgentRests
<1>2. QED
  BY PhoneInvariant, <1>1, PTL

-----------------------------------------------------------------------------
\* The types of the other variables.
Kept ==
  /\ stored \in SUBSET Call /\ created \in SUBSET Call
  /\ open \in SUBSET Call /\ ended \in Seq(Call) /\ routed \in SUBSET Call
  /\ tokens \in SUBSET Call
  /\ inbox \in SUBSET (Call \X Status)
  /\ turns \in SUBSET Call
  /\ server \in {"serving", "draining", "closed"} /\ left \in SUBSET Call

LEMMA FinishTypes ==
  ASSUME Kept, NEW c \in Call, Finish(c)
  PROVE  /\ open' \in SUBSET Call /\ ended' \in Seq(Call) /\ routed' \in SUBSET Call
         /\ open' = open \ {c}
         /\ \A d \in Call : d \in ToSet(ended') => d \in ToSet(ended) \/ d = c
<1>1. ended \in Seq(Call) /\ open \subseteq Call /\ routed \subseteq Call
  BY DEF Kept
<1>2. ended' = Append(ended, c) \/ ended' = ended
  BY DEF Finish
<1>3. /\ Append(ended, c) \in Seq(Call)
      /\ \A i \in DOMAIN Append(ended, c) :
           Append(ended, c)[i] = c \/ (i \in DOMAIN ended /\ Append(ended, c)[i] = ended[i])
  BY <1>1
<1>4. \A d \in Call : d \in ToSet(Append(ended, c)) => d \in ToSet(ended) \/ d = c
  BY <1>3 DEF ToSet
<1>5. QED
  BY <1>1, <1>2, <1>3, <1>4 DEF Finish

LEMMA ForgetTypes ==
  ASSUME Kept, NEW n \in 1..Len(ended), Forget(n)
  PROVE  /\ ended' \in Seq(Call)
         /\ stored' \subseteq stored /\ created' \subseteq created /\ routed' \subseteq routed
         /\ ToSet(ended') \subseteq ToSet(ended)
         /\ \A d \in Call : d \notin ToSet(ended) =>
              (d \in stored' <=> d \in stored) /\ (d \in created' <=> d \in created)
         /\ \A d \in Call : d \in created' /\ d \in stored => d \in stored'
<1>1. ended \in Seq(Call) /\ n \in Nat /\ n <= Len(ended) /\ n > 0
  BY DEF Kept
<1>2. /\ SubSeq(ended, n + 1, Len(ended)) \in Seq(Call)
      /\ \A i \in DOMAIN SubSeq(ended, n + 1, Len(ended)) :
           /\ i + n \in DOMAIN ended
           /\ SubSeq(ended, n + 1, Len(ended))[i] = ended[i + n]
  BY <1>1
<1>3. ToSet(SubSeq(ended, n + 1, Len(ended))) \subseteq ToSet(ended)
  BY <1>2 DEF ToSet
<1>4. {ended[i] : i \in 1..n} \subseteq ToSet(ended)
  BY <1>1 DEF ToSet
<1>5. QED
  BY <1>2, <1>3, <1>4 DEF Forget

LEMMA KeptInit == Init => Kept
BY DEF Init, Kept

LEMMA KeptStep ==
  ASSUME Kept, [Next]_vars
  PROVE  Kept'
<1>1. CASE UNCHANGED vars
  BY <1>1 DEF Kept, vars, dialogues
<1>2. ASSUME NEW c \in Call, Voice(c) \/ VoiceAgain(c) PROVE Kept'
  BY <1>2 DEF Kept, Voice, VoiceAgain, dialogues
<1>3. ASSUME NEW c \in Call, NEW status \in Status, StatusCallback(c, status) PROVE Kept'
  <2>1. <<c, status>> \in Call \X Status
    OBVIOUS
  <2>2. inbox' = inbox \cup {<<c, status>>} /\ stored' \subseteq stored \cup {c}
    BY <1>3 DEF StatusCallback, Apply
  <2>3. UNCHANGED <<created, dialogues, tokens, turns, server, left>>
    BY <1>3 DEF StatusCallback
  <2>4. QED
    BY <2>1, <2>2, <2>3 DEF Kept, dialogues
<1>4. ASSUME NEW c \in Call, NEW s \in Session, Invite(c, s) PROVE Kept'
  BY <1>4 DEF Kept, Invite, dialogues
<1>5. ASSUME NEW c \in Call,
             Stopped(c) \/ AcceptFails(c) \/ StoppedForHangup(c) \/ HungUp(c) \/ Finalize(c)
      PROVE  Kept'
  <2>1. Finish(c)
    BY <1>5 DEF Stopped, AcceptFails, StoppedForHangup, HungUp, Finalize
  <2>2. open' \in SUBSET Call /\ ended' \in Seq(Call) /\ routed' \in SUBSET Call
    BY <2>1, FinishTypes
  <2>3. /\ stored' \subseteq stored \cup {c} /\ tokens' \subseteq tokens
        /\ UNCHANGED <<created, inbox, turns, server, left>>
    BY <1>5 DEF Stopped, AcceptFails, StoppedForHangup, HungUp, Finalize, Apply
  <2>4. QED
    BY <2>2, <2>3 DEF Kept
<1>6. ASSUME NEW c \in Call, Accepted(c) PROVE Kept'
  BY <1>6 DEF Kept, Accepted, Apply, dialogues
<1>7. ASSUME NEW c \in Call, NEW pruning \in BOOLEAN, HangUp(c, pruning) PROVE Kept'
  BY <1>7 DEF Kept, HangUp, Ending, Apply, dialogues
<1>8. ASSUME NEW c \in Call,
             \/ StartTurn(c) \/ EndTurn(c) \/ SwallowsStop(c) \/ DeafEnds(c) \/ Leave(c)
             \/ \E how \in {"confirmed", "unconfirmed"} : SessionEnds(c, how)
      PROVE  Kept'
  BY <1>8 DEF Kept, StartTurn, EndTurn, SwallowsStop, DeafEnds, Leave, SessionEnds, dialogues
<1>9. ASSUME NEW c \in Call, Drain(c) PROVE Kept'
  BY <1>9 DEF Kept, Drain, Ending, Apply, dialogues
<1>10. CASE Prune
  <2>1. PICK n \in 1..Len(ended) : Forget(n)
    BY <1>10 DEF Prune
  <2>2. /\ ended' \in Seq(Call)
        /\ stored' \subseteq stored /\ created' \subseteq created /\ routed' \subseteq routed
    BY <2>1, ForgetTypes
  <2>3. UNCHANGED <<open, tokens, inbox, turns, server, left>>
    BY <1>10 DEF Prune
  <2>4. QED
    BY <2>2, <2>3 DEF Kept
<1>11. CASE Shutdown \/ Close
  <2>1. <<>> \in Seq(Call)
    OBVIOUS
  <2>2. CASE Shutdown
    BY <2>2 DEF Kept, Shutdown, dialogues
  <2>3. CASE Close
    BY <2>1, <2>3 DEF Kept, Close
  <2>4. QED
    BY <1>11, <2>2, <2>3
<1>12. QED
  BY <1>1, <1>2, <1>3, <1>4, <1>5, <1>6, <1>7, <1>8, <1>9, <1>10, <1>11
  DEF Next, Webhooks, LockSteps, TaskSteps

-----------------------------------------------------------------------------
\* The life of a call, as seen from what is left to do for it. A call in progress is one
\* that aclose will find, or that an operation of the lock is about to end; a call that is
\* over has no dialogue, no token and no session at work unless the operation that will
\* take them away still holds the lock.
OnOp(d) == op # None /\ op.call = d
InProgress(d) == call[d].state \notin TERMINAL_STATES \cup {None}

\* What a session that was stopped may be at.
Stopping == {"none", "cancelled", "deaf", "leaving"}
OpOK(d) ==
  /\ Locked("accept", d) =>
       d \in created /\ InProgress(d) /\ call[d].state # "ending" /\ d \notin tokens
  /\ Locked("stop", d) => IsTerminal(d) /\ runner[d] \in Stopping
  /\ Locked("stopForHangup", d) =>
       call[d].state = "ending" /\ runner[d] \in Stopping
  /\ Locked("hangup", d) => call[d].state = "ending" /\ d \notin open \cup tokens
RepositoryOK(d) ==
  /\ d \in created \cup left => d \in stored
  /\ d \in left => server # "serving"
  /\ d \in ToSet(ended) /\ server = "serving" => IsTerminal(d) \/ Locked("hangup", d)
ProgressOK(d) ==
  InProgress(d) =>
    \/ server = "serving" /\ (d \in created \/ (Locked("hangup", d) /\ ~op.pruning))
    \/ server = "draining" /\ (d \in left \/ Locked("stopForHangup", d) \/ Locked("hangup", d))
RestOK(d) ==
  /\ IsTerminal(d) /\ ~OnOp(d) =>
       d \notin open \cup tokens /\ runner[d] \notin {"running", "cancelled", "deaf"}
  /\ server = "closed" => runner[d] = "none"
Life(d) == OpOK(d) /\ RepositoryOK(d) /\ ProgressOK(d) /\ RestOK(d)

\* Only a hang-up may be cut by the end of the server, or run behind it.
ServerOK ==
  op # None =>
    /\ server # "closed"
    /\ server = "draining" \/ op.pruning => op.do \in {"stopForHangup", "hangup"}
LifeInv == ServerOK /\ \A d \in Call : Life(d)

\* What the lock's holder waits for is not nothing.
LEMMA WaitsForIt ==
  ASSUME NEW c \in Call, NEW pruning \in BOOLEAN,
         NEW w, NEW do \in {"accept", "stop", "stopForHangup", "hangup"},
         w = Waits(do, c, pruning)
  PROVE  w # None /\ w.do = do /\ w.call = c /\ (w.pruning <=> pruning)
<1>1. w \in Lock
  BY DEF Waits, Lock
<1>2. QED
  BY <1>1, PhoneAssumption DEF Waits

\* What NextState makes of the targets that the service applies.
LEMMA NextStates ==
  ASSUME NEW current \in States
  PROVE  /\ \A target \in States : current \in TERMINAL_STATES => NextState(current, target) = current
         /\ \A target \in TERMINAL_STATES : NextState(current, target) \in TERMINAL_STATES
         /\ current \notin TERMINAL_STATES => NextState(current, "ending") = "ending"
         /\ current \notin TERMINAL_STATES \cup {"ending"} =>
              NextState(current, "connected") \notin TERMINAL_STATES \cup {"ending"}
  BY DEF NextState, Advances, AlwaysReachable, TERMINAL_STATES

LEMMA MovedState ==
  ASSUME call \in CallType, NEW c \in Call, call[c].state # None, NEW target \in States,
         call' = Moved(c, target)
  PROVE  /\ call[c].state \in States /\ call'[c].state \in States
         /\ call'[c].state = NextState(call[c].state, target)
         /\ \A d \in Call \ {c} : call'[d] = call[d]
<1>1. call[c].state \in States
  BY DEF CallType
<1>2. /\ call'[c].state = NextState(call[c].state, target)
      /\ \A d \in Call \ {c} : call'[d] = call[d]
  BY DEF Moved, CallType
<1>3. QED
  BY <1>1, <1>2, NextStateType

\* An operation of the call c leaves the others as they are.
Untouched(d) ==
  /\ call'[d].state = call[d].state /\ runner'[d] = runner[d]
  /\ d \in stored => d \in stored'
  /\ d \in created' <=> d \in created
  /\ d \in left' <=> d \in left
  /\ d \in open' <=> d \in open
  /\ d \in tokens' <=> d \in tokens
  /\ d \in ToSet(ended') => d \in ToSet(ended)
OpOf(c) == op = None \/ op.call = c

LEMMA OneLife ==
  ASSUME LifeInv, NEW c \in Call, server' = server,
         \A d \in Call \ {c} : Untouched(d),
         op' = op \/ (OpOf(c) /\ OpOf(c)'),
         Life(c)', ServerOK'
  PROVE  LifeInv'
<1>1. ASSUME NEW d \in Call \ {c} PROVE Life(d)'
  <2>1. /\ \A do : Locked(do, d)' <=> Locked(do, d)
        /\ OnOp(d)' <=> OnOp(d)
        /\ OnOp(d) => op' = op
    BY <1>1 DEF Locked, OnOp, OpOf
  <2>2. /\ IsTerminal(d)' <=> IsTerminal(d)
        /\ InProgress(d)' <=> InProgress(d)
    BY <1>1 DEF Untouched, IsTerminal, InProgress
  <2>3. Untouched(d) /\ Life(d)
    BY <1>1 DEF LifeInv
  <2>4. OpOK(d)'
    BY <2>1, <2>2, <2>3 DEF Life, OpOK, Untouched
  <2>5. RepositoryOK(d)'
    BY <2>1, <2>2, <2>3 DEF Life, RepositoryOK, Untouched
  <2>6. ProgressOK(d)'
    BY <2>1, <2>2, <2>3 DEF Life, ProgressOK, Untouched, Locked, OnOp
  <2>7. RestOK(d)'
    BY <2>1, <2>2, <2>3 DEF Life, RestOK, Untouched
  <2>8. QED
    BY <2>4, <2>5, <2>6, <2>7 DEF Life
<1>2. QED
  BY <1>1 DEF LifeInv

LEMMA LifeInit == Init => LifeInv
<1> SUFFICES ASSUME Init PROVE LifeInv
  OBVIOUS
<1>1. \A i \in DOMAIN ended : FALSE
  BY DEF Init
<1>2. ServerOK
  BY DEF Init, ServerOK
<1>3. ASSUME NEW d \in Call PROVE Life(d)
  BY <1>1, PhoneAssumption
  DEF Init, Life, OpOK, RepositoryOK, ProgressOK, RestOK, Locked, OnOp, IsTerminal, InProgress,
      ToSet, States
<1>4. QED
  BY <1>2, <1>3 DEF LifeInv

\* A leg that is announced.
LEMMA VoiceLife ==
  ASSUME PInv, Kept, LifeInv, NEW c \in Call, Voice(c)
  PROVE  LifeInv'
<1>1. /\ op = None /\ op' = None /\ server = "serving" /\ server' = server
      /\ call[c].state = None /\ Life(c)
      /\ stored' = stored \cup {c} /\ created' = created \cup {c}
      /\ open' = open \cup {c} /\ tokens' = tokens \cup {c}
      /\ UNCHANGED <<ended, left, runner>>
  BY DEF Voice, Serves, LifeInv
<1>2. NextState("incoming", "accepted") = "accepted"
  BY DEF NextState, Advances, TERMINAL_STATES, ALLOWED_TRANSITIONS
<1>3. call'[c].state = "accepted" /\ \A d \in Call \ {c} : call'[d] = call[d]
  BY <1>2 DEF Voice, PInv
<1>4. \A d \in Call \ {c} : Untouched(d)
  BY <1>1, <1>3 DEF Untouched
<1>5. ~IsTerminal(c) /\ ~IsTerminal(c)' /\ ServerOK'
  BY <1>1, <1>3, PhoneAssumption DEF IsTerminal, TERMINAL_STATES, ServerOK, States
<1>6. Life(c)'
  BY <1>1, <1>3, <1>5
  DEF Life, OpOK, RepositoryOK, ProgressOK, RestOK, Locked, OnOp
<1>7. QED
  BY <1>1, <1>4, <1>5, <1>6, OneLife DEF OpOf

LEMMA VoiceAgainLife ==
  ASSUME PInv, Kept, LifeInv, NEW c \in Call, VoiceAgain(c)
  PROVE  LifeInv'
<1>1. /\ op = None /\ op' = None /\ server' = server /\ server = "serving"
      /\ ~IsTerminal(c) /\ Life(c)
      /\ tokens' = tokens \cup {c}
      /\ UNCHANGED <<call, stored, created, open, ended, left, runner>>
  BY DEF VoiceAgain, Serves, LifeInv, dialogues
<1>2. \A d \in Call \ {c} : Untouched(d)
  BY <1>1 DEF Untouched
<1>3. ServerOK'
  BY <1>1 DEF ServerOK
<1>4. Life(c)'
  BY <1>1
  DEF Life, OpOK, RepositoryOK, ProgressOK, RestOK, Locked, OnOp, IsTerminal, InProgress
<1>5. QED
  BY <1>1, <1>2, <1>3, <1>4, OneLife DEF OpOf

LEMMA SameLife ==
  ASSUME LifeInv,
         UNCHANGED <<call, stored, created, open, ended, tokens, op, runner, server, left>>
  PROVE  LifeInv'
BY DEF LifeInv, ServerOK, Life, OpOK, RepositoryOK, ProgressOK, RestOK, Locked, OnOp,
       IsTerminal, InProgress

\* What Call.apply makes of a call that is over, or in progress.
LEMMA AppliedState ==
  ASSUME PInv, NEW c \in Call, call[c].state # None, NEW target \in States,
         call' = Moved(c, target)
  PROVE  /\ IsTerminal(c) => IsTerminal(c)'
         /\ InProgress(c)' => InProgress(c)
         /\ InProgress(c)' <=> ~IsTerminal(c)'
         /\ target \in TERMINAL_STATES => IsTerminal(c)'
         /\ target = "ending" /\ ~IsTerminal(c) => call'[c].state = "ending"
         /\ target = "connected" /\ InProgress(c) /\ call[c].state # "ending" =>
              ~IsTerminal(c)' /\ call'[c].state # "ending"
         /\ \A d \in Call \ {c} : call'[d] = call[d]
<1>1. call \in CallType
  BY DEF PInv, CallType
<1>2. /\ call[c].state \in States /\ call'[c].state \in States
      /\ call'[c].state = NextState(call[c].state, target)
      /\ \A d \in Call \ {c} : call'[d] = call[d]
  BY <1>1, MovedState
<1>3. QED
  BY <1>2, NextStates, PhoneAssumption DEF IsTerminal, InProgress

LEMMA StatusLife ==
  ASSUME PInv, Kept, LifeInv, NEW c \in Call, NEW status \in Status,
         StatusCallback(c, status)
  PROVE  LifeInv'
<1>1. /\ op = None /\ server' = server /\ server = "serving" /\ Life(c)
      /\ UNCHANGED <<created, open, ended, tokens, left>>
  BY DEF StatusCallback, Serves, LifeInv, dialogues
<1>2. CASE UNCHANGED <<call, stored, op, runner>>
  BY <1>1, <1>2, SameLife
<1>3. CASE /\ c \in stored /\ Apply(c, status)
           /\ IF call'[c].state \in TERMINAL_STATES
              THEN Stop(c) /\ op' = Waits("stop", c, FALSE)
              ELSE UNCHANGED <<op, runner>>
  <2>1. call[c].state # None /\ status \in States
    BY <1>3, PhoneAssumption DEF PInv
  <2>2. /\ IsTerminal(c) => IsTerminal(c)'
        /\ InProgress(c)' => InProgress(c)
        /\ \A d \in Call \ {c} : call'[d] = call[d]
    BY <1>3, <2>1, AppliedState DEF Apply
  <2>3. stored' = stored
    BY <1>3 DEF Apply
  <2>4. /\ \A d \in Call \ {c} : runner'[d] = runner[d]
        /\ IsTerminal(c)' => runner'[c] \in {"none", "cancelled"}
    BY <1>3 DEF PInv, Stop, IsTerminal
  <2>5. \A d \in Call \ {c} : Untouched(d)
    BY <1>1, <2>2, <2>3, <2>4 DEF Untouched
  <2>6. \/ op' = None /\ ~IsTerminal(c)'
        \/ /\ op' # None /\ op'.do = "stop" /\ op'.call = c /\ ~op'.pruning /\ IsTerminal(c)'
    <3>1. /\ Waits("stop", c, FALSE) # None /\ Waits("stop", c, FALSE).do = "stop"
          /\ Waits("stop", c, FALSE).call = c /\ ~Waits("stop", c, FALSE).pruning
      BY WaitsForIt
    <3>2. CASE IsTerminal(c)'
      BY <1>3, <3>1, <3>2 DEF IsTerminal
    <3>3. CASE ~IsTerminal(c)'
      BY <1>1, <1>3, <3>3 DEF IsTerminal
    <3>4. QED
      BY <3>2, <3>3
  <2>7. ServerOK'
    BY <1>1, <2>6 DEF ServerOK
  <2>8. OpOK(c)'
    BY <2>4, <2>6 DEF OpOK, Locked, Stopping
  <2>9. RepositoryOK(c)'
    BY <1>1, <2>2, <2>3 DEF Life, RepositoryOK, Locked
  <2>10. ProgressOK(c)'
    BY <1>1, <2>2 DEF Life, ProgressOK, Locked
  <2>11. RestOK(c)'
    BY <1>1, <2>6 DEF RestOK, OnOp
  <2>12. Life(c)' /\ OpOf(c) /\ OpOf(c)'
    BY <1>1, <2>6, <2>8, <2>9, <2>10, <2>11 DEF Life, OpOf
  <2>13. QED
    BY <1>1, <2>5, <2>7, <2>12, OneLife
<1>4. QED
  BY <1>2, <1>3 DEF StatusCallback

\* The cleanup behind a call that ended under its session.
LEMMA StoppedLife ==
  ASSUME PInv, Kept, LifeInv, NEW c \in Call, Stopped(c)
  PROVE  LifeInv'
<1>1. /\ op # None /\ op.do = "stop" /\ op.call = c /\ op' = None
      /\ runner[c] = "none" /\ tokens' = tokens \ {c} /\ Finish(c)
      /\ UNCHANGED <<call, stored, created, runner, server, left>>
      /\ Life(c)
  BY DEF Stopped, Locked, LifeInv
<1>2. /\ open' = open \ {c}
      /\ \A d \in Call : d \in ToSet(ended') => d \in ToSet(ended) \/ d = c
  BY <1>1, FinishTypes
<1>3. \A d \in Call \ {c} : Untouched(d)
  BY <1>1, <1>2 DEF Untouched
<1>4. IsTerminal(c) /\ IsTerminal(c)' /\ ~InProgress(c)'
  BY <1>1 DEF Life, OpOK, Locked, IsTerminal, InProgress
<1>5. ServerOK'
  BY <1>1 DEF ServerOK
<1>6. Life(c)'
  BY <1>1, <1>2, <1>4
  DEF Life, OpOK, RepositoryOK, ProgressOK, RestOK, Locked, OnOp
<1>7. QED
  BY <1>1, <1>3, <1>5, <1>6, OneLife DEF OpOf

\* An invitation, and what comes of its acceptance.
LEMMA InviteLife ==
  ASSUME PInv, Kept, LifeInv, NEW c \in Call, NEW s \in Session, Invite(c, s)
  PROVE  LifeInv'
<1>1. /\ op = None /\ server' = server /\ server = "serving"
      /\ c \in stored /\ ~IsTerminal(c) /\ call[c].state # "ending"
      /\ op' # None /\ op'.do = "accept" /\ op'.call = c /\ ~op'.pruning
      /\ tokens' = tokens \ {c} /\ Life(c)
      /\ UNCHANGED <<stored, created, open, ended, left, runner>>
  <2>1. /\ Waits("accept", c, FALSE) # None /\ Waits("accept", c, FALSE).do = "accept"
        /\ Waits("accept", c, FALSE).call = c /\ ~Waits("accept", c, FALSE).pruning
    BY WaitsForIt
  <2>2. op' = Waits("accept", c, FALSE)
    BY DEF Invite
  <2>3. /\ op = None /\ server' = server /\ server = "serving"
        /\ c \in stored /\ ~IsTerminal(c) /\ call[c].state # "ending"
        /\ tokens' = tokens \ {c} /\ Life(c)
        /\ UNCHANGED <<stored, created, open, ended, left, runner>>
    BY DEF Invite, Bridges, Serves, LifeInv, dialogues
  <2>4. QED
    BY <2>1, <2>2, <2>3
<1>2. \A d \in Call : call'[d].state = call[d].state
  BY DEF Invite, PInv
<1>3. \A d \in Call \ {c} : Untouched(d)
  BY <1>1, <1>2 DEF Untouched
<1>4. InProgress(c) /\ InProgress(c)' /\ ~IsTerminal(c)'
  BY <1>1, <1>2 DEF InProgress, IsTerminal, PInv
<1>5. ServerOK'
  BY <1>1 DEF ServerOK
<1>6. c \in created
  BY <1>1, <1>4 DEF Life, ProgressOK, Locked
<1>7. Life(c)'
  BY <1>1, <1>2, <1>4, <1>6
  DEF Life, OpOK, RepositoryOK, ProgressOK, RestOK, Locked, OnOp
<1>8. OpOf(c) /\ OpOf(c)'
  BY <1>1 DEF OpOf
<1>9. QED
  BY <1>1, <1>3, <1>5, <1>7, <1>8, OneLife

LEMMA AcceptedLife ==
  ASSUME PInv, Kept, LifeInv, WorkInv, NEW c \in Call, Accepted(c) \/ AcceptFails(c)
  PROVE  LifeInv'
<1>1. /\ op # None /\ op.do = "accept" /\ op.call = c /\ op' = None /\ Life(c) /\ ServerOK
      /\ runner[c] = "none"
      /\ UNCHANGED <<created, tokens, server, left>>
  BY DEF Accepted, AcceptFails, Locked, LifeInv, WorkInv, dialogues
<1>2. /\ c \in created /\ InProgress(c) /\ call[c].state # "ending" /\ c \notin tokens
      /\ server = "serving" /\ c \in stored /\ c \notin left
  BY <1>1 DEF Life, OpOK, Locked, ServerOK, RepositoryOK, ProgressOK
<1>3. call[c].state # None /\ {"connected", "failed"} \subseteq States
  BY <1>2 DEF InProgress, States, TERMINAL_STATES, ALLOWED_TRANSITIONS
<1>4. ServerOK'
  BY <1>1 DEF ServerOK
<1>5. CASE Accepted(c)
  <2>1. /\ Apply(c, "connected") /\ runner' = [runner EXCEPT ![c] = "running"]
        /\ UNCHANGED <<open, ended>>
    BY <1>5 DEF Accepted, dialogues
  <2>2. /\ ~IsTerminal(c)' /\ InProgress(c)'
        /\ \A d \in Call \ {c} : call'[d] = call[d]
    BY <1>2, <1>3, <2>1, AppliedState DEF Apply
  <2>3. stored' = stored /\ \A d \in Call \ {c} : runner'[d] = runner[d]
    BY <1>2, <2>1 DEF Apply, PInv
  <2>4. \A d \in Call \ {c} : Untouched(d)
    BY <1>1, <2>1, <2>2, <2>3 DEF Untouched
  <2>5. c \notin ToSet(ended)
    BY <1>1, <1>2 DEF Life, RepositoryOK, Locked, IsTerminal, InProgress
  <2>6. Life(c)'
    BY <1>1, <1>2, <2>1, <2>2, <2>3, <2>5
    DEF Life, OpOK, RepositoryOK, ProgressOK, RestOK, Locked, OnOp
  <2>7. QED
    BY <1>1, <1>4, <2>4, <2>6, OneLife DEF OpOf
<1>6. CASE AcceptFails(c)
  <2>1. Apply(c, "failed") /\ Finish(c) /\ runner' = runner
    BY <1>6 DEF AcceptFails
  <2>2. IsTerminal(c)' /\ ~InProgress(c)' /\ \A d \in Call \ {c} : call'[d] = call[d]
    BY <1>3, <2>1, AppliedState DEF Apply, TERMINAL_STATES
  <2>3. /\ stored' = stored /\ open' = open \ {c}
        /\ \A d \in Call : d \in ToSet(ended') => d \in ToSet(ended) \/ d = c
    BY <1>2, <2>1, FinishTypes DEF Apply
  <2>4. \A d \in Call \ {c} : Untouched(d)
    BY <1>1, <2>1, <2>2, <2>3 DEF Untouched
  <2>5. Life(c)'
    BY <1>1, <1>2, <2>1, <2>2, <2>3
    DEF Life, OpOK, RepositoryOK, ProgressOK, RestOK, Locked, OnOp
  <2>6. QED
    BY <1>1, <1>4, <2>4, <2>5, OneLife DEF OpOf
<1>7. QED
  BY <1>5, <1>6

\* A hang-up begins: the session's task is cancelled, and its end waited for.
LEMMA EndingLife ==
  ASSUME PInv, Kept, LifeInv, NEW c \in Call, c \in stored, NEW pruning \in BOOLEAN,
         Ending(c, pruning), op = None, server # "closed", server' = server,
         server = "serving" => left' = left,
         \A d \in Call \ {c} : d \in left' <=> d \in left,
         c \in left' => c \in left,
         UNCHANGED <<created, open, ended, tokens>>
  PROVE  LifeInv'
<1>1. Life(c) /\ ~IsTerminal(c) /\ call[c].state # None /\ server \in {"serving", "draining"}
  BY DEF LifeInv, Ending, AlreadyDone, PInv, Kept
<1>2. "ending" \in States
  BY DEF States, ALLOWED_TRANSITIONS
<1>3. /\ call'[c].state = "ending" /\ ~IsTerminal(c)'
      /\ \A d \in Call \ {c} : call'[d] = call[d]
  BY <1>1, <1>2, AppliedState DEF Ending, Apply, IsTerminal, TERMINAL_STATES
<1>4. stored' = stored
  BY DEF Ending, Apply
<1>5. /\ \A d \in Call \ {c} : runner'[d] = runner[d]
      /\ runner'[c] \in {"none", "cancelled"}
  BY DEF Ending, PInv, Stop
<1>6. op' # None /\ op'.do = "stopForHangup" /\ op'.call = c
  <2>1. op' = Waits("stopForHangup", c, pruning)
    BY DEF Ending
  <2>2. QED
    BY <2>1, WaitsForIt
<1>7. \A d \in Call \ {c} : Untouched(d)
  BY <1>3, <1>4, <1>5 DEF Untouched
<1>8. ServerOK'
  BY <1>6 DEF ServerOK
<1>9. InProgress(c)
  BY <1>1 DEF InProgress, IsTerminal
<1>10. OpOK(c)' /\ RestOK(c)'
  BY <1>1, <1>3, <1>5, <1>6 DEF OpOK, RestOK, Locked, Stopping
<1>11. RepositoryOK(c)'
  BY <1>1, <1>4 DEF Life, RepositoryOK, Locked
<1>12. ProgressOK(c)'
  BY <1>1, <1>6, <1>9 DEF Life, ProgressOK, Locked
<1>13. Life(c)' /\ OpOf(c) /\ OpOf(c)'
  BY <1>6, <1>10, <1>11, <1>12 DEF Life, OpOf
<1>14. QED
  BY <1>7, <1>8, <1>13, OneLife

LEMMA HangUpLife ==
  ASSUME PInv, Kept, LifeInv, NEW c \in Call, NEW pruning \in BOOLEAN, HangUp(c, pruning)
  PROVE  LifeInv'
<1>1. /\ op = None /\ server = "serving" /\ server' = server /\ c \in stored
      /\ Ending(c, pruning) /\ UNCHANGED <<created, open, ended, tokens, left>>
  BY DEF HangUp, Serves, dialogues
<1>2. QED
  BY <1>1, EndingLife

LEMMA DrainLife ==
  ASSUME PInv, Kept, LifeInv, NEW c \in Call, Drain(c)
  PROVE  LifeInv'
<1>1. /\ op = None /\ server = "draining" /\ server' = server /\ c \in left
      /\ left' = left \ {c} /\ Life(c)
      /\ UNCHANGED <<created, open, ended, tokens>>
  BY DEF Drain, LifeInv, dialogues
<1>2. c \in stored
  BY <1>1 DEF Life, RepositoryOK
<1>3. CASE Ending(c, FALSE)
  BY <1>1, <1>2, <1>3, EndingLife
<1>4. CASE AlreadyDone(c) /\ UNCHANGED <<call, stored, runner, op>>
  <2>1. \A d \in Call \ {c} : Untouched(d)
    BY <1>1, <1>4 DEF Untouched
  <2>2. ServerOK'
    BY <1>1, <1>4 DEF ServerOK
  <2>3. IsTerminal(c)
    BY <1>4 DEF AlreadyDone
  <2>4. Life(c)'
    BY <1>1, <1>4, <2>3
    DEF Life, OpOK, RepositoryOK, ProgressOK, RestOK, Locked, OnOp, IsTerminal, InProgress
  <2>5. QED
    BY <1>1, <1>4, <2>1, <2>2, <2>4, OneLife
<1>5. QED
  BY <1>3, <1>4 DEF Drain

LEMMA StoppedForHangupLife ==
  ASSUME PInv, Kept, LifeInv, NEW c \in Call, StoppedForHangup(c)
  PROVE  LifeInv'
<1>1. /\ op # None /\ op.do = "stopForHangup" /\ op.call = c
      /\ op' = [op EXCEPT !.do = "hangup"]
      /\ runner[c] = "none" /\ tokens' = tokens \ {c} /\ Finish(c)
      /\ UNCHANGED <<call, stored, created, runner, server, left>>
      /\ Life(c) /\ ServerOK
  BY DEF StoppedForHangup, Locked, LifeInv
<1>2. op' # None /\ op'.do = "hangup" /\ op'.call = c /\ (op'.pruning <=> op.pruning)
  <2>1. op \in Lock
    BY <1>1 DEF PInv
  <2>2. op' \in Lock
    BY <1>1, <2>1 DEF Lock
  <2>3. QED
    BY <1>1, <2>1, <2>2, PhoneAssumption DEF Lock
<1>3. /\ open' = open \ {c}
      /\ \A d \in Call : d \in ToSet(ended') => d \in ToSet(ended) \/ d = c
  BY <1>1, FinishTypes
<1>4. \A d \in Call \ {c} : Untouched(d)
  BY <1>1, <1>3 DEF Untouched
<1>5. ServerOK'
  BY <1>1, <1>2 DEF ServerOK
<1>6. call[c].state = "ending" /\ ~IsTerminal(c)' /\ InProgress(c)
  BY <1>1, PhoneAssumption
  DEF Life, OpOK, Locked, IsTerminal, InProgress, TERMINAL_STATES, States, ALLOWED_TRANSITIONS
<1>7. OpOK(c)' /\ RestOK(c)'
  BY <1>1, <1>2, <1>3, <1>6 DEF Life, OpOK, RestOK, Locked
<1>8. RepositoryOK(c)'
  BY <1>1, <1>2 DEF Life, RepositoryOK, Locked
<1>9. ProgressOK(c)'
  BY <1>1, <1>2, <1>6 DEF Life, ProgressOK, Locked
<1>10. Life(c)' /\ OpOf(c) /\ OpOf(c)'
  BY <1>1, <1>2, <1>7, <1>8, <1>9 DEF Life, OpOf
<1>11. QED
  BY <1>1, <1>4, <1>5, <1>10, OneLife

LEMMA HungUpLife ==
  ASSUME PInv, Kept, LifeInv, WorkInv, NEW c \in Call, HungUp(c)
  PROVE  LifeInv'
<1>1. /\ op # None /\ op.do = "hangup" /\ op.call = c /\ op' = None /\ Finish(c)
      /\ UNCHANGED <<created, tokens, runner, server, left>>
      /\ Life(c) /\ runner[c] = "none"
  BY DEF HungUp, Locked, LifeInv, WorkInv
<1>2. PICK outcome \in {"completed", "failed"} : Apply(c, outcome)
  BY DEF HungUp
<1>3. call[c].state # None /\ outcome \in TERMINAL_STATES /\ outcome \in States
  BY <1>1 DEF PInv, TERMINAL_STATES, States
<1>4. IsTerminal(c)' /\ ~InProgress(c)' /\ \A d \in Call \ {c} : call'[d] = call[d]
  BY <1>2, <1>3, AppliedState DEF Apply
<1>5. /\ open' = open \ {c} /\ stored \subseteq stored'
      /\ \A d \in Call : d \in ToSet(ended') => d \in ToSet(ended) \/ d = c
  BY <1>1, <1>2, FinishTypes DEF Apply
<1>6. \A d \in Call \ {c} : Untouched(d)
  BY <1>1, <1>4, <1>5 DEF Untouched
<1>7. c \notin tokens
  BY <1>1 DEF Life, OpOK, Locked
<1>8. ServerOK'
  BY <1>1 DEF ServerOK
<1>9. Life(c)'
  BY <1>1, <1>4, <1>5, <1>7
  DEF Life, OpOK, RepositoryOK, ProgressOK, RestOK, Locked, OnOp
<1>10. QED
  BY <1>1, <1>6, <1>8, <1>9, OneLife DEF OpOf

\* The session's task.
LEMMA TaskLife ==
  ASSUME PInv, Kept, LifeInv, NEW c \in Call,
         \/ SwallowsStop(c) \/ DeafEnds(c) \/ Leave(c)
         \/ \E how \in {"confirmed", "unconfirmed"} : SessionEnds(c, how)
  PROVE  LifeInv'
<1>1. /\ UNCHANGED <<call, stored, created, open, ended, tokens, op, server, left>>
      /\ Life(c) /\ ServerOK
  BY DEF SwallowsStop, DeafEnds, Leave, SessionEnds, LifeInv, dialogues
<1>2. /\ \A d \in Call \ {c} : runner'[d] = runner[d]
      /\ runner[c] # "none"
      /\ \/ runner'[c] = "none"
         \/ runner[c] = "running" /\ runner'[c] \in {"confirmed", "unconfirmed"}
         \/ runner[c] = "cancelled" /\ runner'[c] = "deaf"
         \/ runner[c] = "deaf" /\ runner'[c] = "leaving"
  BY DEF SwallowsStop, DeafEnds, Leave, SessionEnds, PInv
<1>3. \A d \in Call \ {c} : Untouched(d)
  BY <1>1, <1>2 DEF Untouched
<1>4. ServerOK'
  BY <1>1 DEF ServerOK
<1>5. Life(c)'
  BY <1>1, <1>2
  DEF Life, OpOK, RepositoryOK, ProgressOK, RestOK, Locked, OnOp, IsTerminal, InProgress,
      Stopping
<1>6. QED
  BY <1>1, <1>3, <1>4, <1>5, OneLife

LEMMA FinalizeLife ==
  ASSUME PInv, Kept, LifeInv, WorkInv, NEW c \in Call, Finalize(c)
  PROVE  LifeInv'
<1> DEFINE target == IF runner[c] = "confirmed" THEN "completed" ELSE "failed"
<1>1. /\ runner[c] \in {"confirmed", "unconfirmed"} /\ Finish(c)
      /\ stored' = stored \cup {c} /\ tokens' = tokens \ {c}
      /\ UNCHANGED <<created, op, server, left>>
      /\ Life(c) /\ ServerOK
  BY DEF Finalize, LifeInv
<1>2. call' = Moved(c, target) /\ target \in TERMINAL_STATES /\ target \in States
  BY DEF Finalize, TERMINAL_STATES, States
<1> HIDE DEF target
<1>3. call[c].state # None
  BY <1>1 DEF PInv
<1>4. IsTerminal(c)' /\ ~InProgress(c)' /\ \A d \in Call \ {c} : call'[d] = call[d]
  BY <1>2, <1>3, AppliedState
<1>5. /\ open' = open \ {c}
      /\ \A d \in Call : d \in ToSet(ended') => d \in ToSet(ended) \/ d = c
  BY <1>1, FinishTypes
<1>6. /\ runner'[c] \in {"none", "leaving"}
      /\ \A d \in Call \ {c} : runner'[d] = runner[d]
  BY DEF Finalize, PInv
<1>7. \A d \in Call \ {c} : Untouched(d)
  BY <1>1, <1>4, <1>5, <1>6 DEF Untouched
<1>8. /\ ~Locked("accept", c) /\ ~Locked("hangup", c)
      /\ ~Locked("stop", c) /\ ~Locked("stopForHangup", c)
  BY <1>1 DEF WorkInv, Life, OpOK, Stopping
<1>9. /\ ~Locked("accept", c)' /\ ~Locked("hangup", c)'
      /\ ~Locked("stop", c)' /\ ~Locked("stopForHangup", c)'
  BY <1>1, <1>8 DEF Locked
<1>10. ServerOK' /\ server # "closed"
  BY <1>1 DEF ServerOK, Life, RestOK
<1>11. OpOK(c)'
  BY <1>9 DEF OpOK
<1>12. RepositoryOK(c)' /\ ProgressOK(c)' /\ RestOK(c)'
  BY <1>1, <1>4, <1>5, <1>6, <1>10 DEF Life, RepositoryOK, ProgressOK, RestOK
<1>13. QED
  BY <1>1, <1>7, <1>10, <1>11, <1>12, OneLife DEF Life

\* Steps that concern all calls.
LEMMA PruneLife ==
  ASSUME PInv, Kept, LifeInv, Prune
  PROVE  LifeInv'
<1>1. PICK n \in 1..Len(ended) : Forget(n)
  BY DEF Prune
<1>2. /\ stored' \subseteq stored /\ created' \subseteq created
      /\ ToSet(ended') \subseteq ToSet(ended)
      /\ \A d \in Call : d \notin ToSet(ended) =>
           (d \in stored' <=> d \in stored) /\ (d \in created' <=> d \in created)
      /\ \A d \in Call : d \in created' /\ d \in stored => d \in stored'
  BY <1>1, ForgetTypes
<1>3. /\ server = "serving" /\ (op # None => ~op.pruning)
      /\ UNCHANGED <<call, open, tokens, op, runner, server, left>>
  BY DEF Prune
<1>4. ASSUME NEW d \in Call PROVE Life(d)'
  <2>1. Life(d)
    BY DEF LifeInv
  <2>2. d \in ToSet(ended) => IsTerminal(d) \/ Locked("hangup", d)
    BY <1>3, <2>1 DEF Life, RepositoryOK
  <2>3. /\ IsTerminal(d)' <=> IsTerminal(d)
        /\ InProgress(d)' <=> InProgress(d)
        /\ \A do : Locked(do, d)' <=> Locked(do, d)
        /\ OnOp(d)' <=> OnOp(d)
    BY <1>3 DEF IsTerminal, InProgress, Locked, OnOp
  <2>4. OpOK(d)'
    <3>1. Locked("accept", d) => d \notin ToSet(ended)
      BY <2>1, <2>2 DEF Life, OpOK, Locked, IsTerminal, InProgress
    <3>2. QED
      BY <1>2, <1>3, <2>1, <2>3, <3>1 DEF Life, OpOK
  <2>5. RepositoryOK(d)'
    BY <1>2, <1>3, <2>1, <2>3 DEF Life, RepositoryOK
  <2>6. ProgressOK(d)'
    <3>1. ASSUME InProgress(d), d \in created, d \notin created'
          PROVE  Locked("hangup", d) /\ ~op.pruning
      BY <1>2, <1>3, <2>2, <3>1 DEF IsTerminal, InProgress, Locked
    <3>2. QED
      BY <1>3, <2>1, <2>3, <3>1 DEF Life, ProgressOK
  <2>7. RestOK(d)'
    BY <1>3, <2>1, <2>3 DEF Life, RestOK
  <2>8. QED
    BY <2>4, <2>5, <2>6, <2>7 DEF Life
<1>5. ServerOK'
  BY <1>3 DEF LifeInv, ServerOK
<1>6. QED
  BY <1>4, <1>5 DEF LifeInv

LEMMA ShutdownLife ==
  ASSUME PInv, Kept, LifeInv, Shutdown
  PROVE  LifeInv'
<1>1. /\ server = "serving" /\ server' = "draining" /\ op' = None /\ left' = created
      /\ op # None => op.pruning
      /\ UNCHANGED <<call, stored, created, open, ended, tokens>>
      /\ \A d \in Call : runner'[d] = runner[d] \/ OnOp(d)
  BY DEF Shutdown, Stop, dialogues, PInv, OnOp
<1>2. ASSUME NEW d \in Call PROVE Life(d)'
  <2>1. Life(d)
    BY DEF LifeInv
  <2>2. OnOp(d) => op.do \in {"stopForHangup", "hangup"}
    BY <1>1 DEF LifeInv, ServerOK, OnOp
  <2>3. OnOp(d) => ~IsTerminal(d)
    BY <2>1, <2>2
    DEF Life, OpOK, Locked, OnOp, IsTerminal, TERMINAL_STATES
  <2>4. OpOK(d)' /\ RestOK(d)'
    BY <1>1, <2>1, <2>3 DEF Life, OpOK, RestOK, Locked, OnOp, IsTerminal
  <2>5. RepositoryOK(d)' /\ ProgressOK(d)'
    BY <1>1, <2>1 DEF Life, RepositoryOK, ProgressOK, Locked, InProgress
  <2>6. QED
    BY <2>4, <2>5 DEF Life
<1>3. QED
  BY <1>1, <1>2 DEF LifeInv, ServerOK

LEMMA CloseLife ==
  ASSUME PInv, Kept, LifeInv, Close
  PROVE  LifeInv'
<1>1. /\ server = "draining" /\ op = None /\ left = {} /\ server' = "closed" /\ tokens' = {}
      /\ open' = {} /\ ended' = <<>>
      /\ \A d \in Call : runner[d] = "none"
      /\ UNCHANGED <<call, stored, created, op, runner, left>>
  BY DEF Close
<1>2. ASSUME NEW d \in Call PROVE Life(d)'
  <2>1. Life(d)
    BY DEF LifeInv
  <2>2. ~InProgress(d)
    BY <1>1, <2>1 DEF Life, ProgressOK, Locked
  <2>3. d \in created => d \in stored
    BY <2>1 DEF Life, RepositoryOK
  <2>4. QED
    BY <1>1, <2>2, <2>3
    DEF Life, OpOK, RepositoryOK, ProgressOK, RestOK, Locked, IsTerminal, InProgress
<1>3. QED
  BY <1>1, <1>2 DEF LifeInv, ServerOK

LEMMA LifeStep ==
  ASSUME PInv, WorkInv, Kept, LifeInv, [Next]_vars
  PROVE  LifeInv'
<1>1. CASE UNCHANGED vars
  BY <1>1, SameLife DEF vars, dialogues
<1>2. ASSUME NEW c \in Call, Webhooks(c) PROVE LifeInv'
  BY <1>2, VoiceLife, VoiceAgainLife, StatusLife, InviteLife DEF Webhooks
<1>3. ASSUME NEW c \in Call, LockSteps(c) PROVE LifeInv'
  BY <1>3, StoppedLife, AcceptedLife, StoppedForHangupLife, HungUpLife DEF LockSteps
<1>4. ASSUME NEW c \in Call, StartTurn(c) \/ EndTurn(c) PROVE LifeInv'
  BY <1>4, SameLife DEF StartTurn, EndTurn, dialogues
<1>5. ASSUME NEW c \in Call,
             \/ Finalize(c) \/ SwallowsStop(c) \/ DeafEnds(c) \/ Leave(c)
             \/ \E how \in {"confirmed", "unconfirmed"} : SessionEnds(c, how)
      PROVE  LifeInv'
  BY <1>5, TaskLife, FinalizeLife
<1>6. ASSUME NEW c \in Call, Drain(c) \/ \E pruning \in BOOLEAN : HangUp(c, pruning)
      PROVE  LifeInv'
  BY <1>6, DrainLife, HangUpLife
<1>7. QED
  BY <1>1, <1>2, <1>3, <1>4, <1>5, <1>6, PruneLife, ShutdownLife, CloseLife
  DEF Next, TaskSteps

\* What is known of every call at every time.
LEMMA PhoneLife == Spec => [](PInv /\ WorkInv /\ Kept /\ LifeInv)
<1>1. Init => PInv /\ WorkInv /\ Kept /\ LifeInv
  BY PInvInit, KeptInit, LifeInit
<1>2. PInv /\ WorkInv /\ Kept /\ LifeInv /\ [Next]_vars
      => (PInv /\ WorkInv /\ Kept /\ LifeInv)'
  <2> SUFFICES ASSUME PInv, WorkInv, Kept, LifeInv, [Next]_vars
               PROVE  (PInv /\ WorkInv /\ Kept /\ LifeInv)'
    OBVIOUS
  <2>1. PInv'
    BY PInvStep
  <2>2. WorkInv'
    BY WorkInvStep
  <2>3. Kept'
    BY KeptStep
  <2>4. LifeInv'
    BY LifeStep
  <2>5. QED
    BY <2>1, <2>2, <2>3, <2>4
<1>3. QED
  BY <1>1, <1>2, PTL DEF Spec

\* "Hang up. The call must become terminal and release the active agent work": whichever
\* callback, hang-up or end of a session made a call terminal, once the lock's operation on
\* it is done it has no dialogue, no token and no session at work.
THEOREM EndedCallsAreReleased == Spec => []EndedCallsRest
<1>1. LifeInv => EndedCallsRest
  BY DEF LifeInv, Life, RestOK, OnOp, EndedCallsRest
<1>2. QED
  BY PhoneLife, <1>1, PTL

\* When aclose returns, every call is over and no session runs, also a call whose hang-up
\* was cancelled by the shutdown, and one that prune was just forgetting.
THEOREM ShutdownIsComplete == Spec => []ShutdownEndsCalls
<1>1. PInv /\ LifeInv => ShutdownEndsCalls
  <2> SUFFICES ASSUME PInv, LifeInv, server = "closed", NEW c \in Call
               PROVE  (call[c].state # None => IsTerminal(c)) /\ runner[c] = "none"
    BY DEF ShutdownEndsCalls
  <2>1. ProgressOK(c) /\ RestOK(c)
    BY DEF LifeInv, Life
  <2>2. ~InProgress(c) /\ runner[c] = "none"
    BY <2>1 DEF ProgressOK, RestOK
  <2>3. QED
    BY <2>2 DEF InProgress, IsTerminal
<1>2. QED
  BY PhoneLife, <1>1, PTL

-----------------------------------------------------------------------------
\* The limit of calls. Only the announcement of a leg makes another call active: whatever
\* else is saved of a call, it was active before or is over.
Limit == IsFiniteSet(stored) /\ Cardinality(Active) <= MaxConcurrent

\* Call.apply makes no call active again.
LEMMA AppliedActive ==
  ASSUME PInv, Kept, NEW c \in Call, call[c].state # None, NEW target \in States,
         call' = Moved(c, target), stored' \subseteq stored \cup {c},
         c \in stored \/ target \in TERMINAL_STATES
  PROVE  Active' \subseteq Active
<1>1. call \in CallType
  BY DEF PInv, CallType
<1>2. /\ call[c].state \in States
      /\ call'[c].state = NextState(call[c].state, target)
      /\ \A d \in Call \ {c} : call'[d] = call[d]
  BY <1>1, MovedState
<1>3. IsTerminal(c) \/ target \in TERMINAL_STATES => IsTerminal(c)'
  BY <1>2, NextStates DEF IsTerminal
<1>4. ASSUME NEW d \in Active' PROVE d \in Active
  <2>1. d \in stored' /\ ~IsTerminal(d)'
    BY <1>4 DEF Active
  <2>2. CASE d = c
    BY <1>3, <2>1, <2>2 DEF Active
  <2>3. CASE d # c
    <3>1. d \in stored
      BY <2>1, <2>3
    <3>2. ~IsTerminal(d)
      BY <1>2, <2>1, <2>3, <3>1 DEF IsTerminal, Kept
    <3>3. QED
      BY <3>1, <3>2 DEF Active
  <2>4. QED
    BY <2>2, <2>3
<1>5. QED
  BY <1>4

LEMMA FewerActive ==
  ASSUME Limit, NEW c \in Call, stored' \subseteq stored \cup {c}, Active' \subseteq Active
  PROVE  Limit'
<1>1. IsFiniteSet(Active)
  <2>1. Active \subseteq stored
    BY DEF Active
  <2>2. QED
    BY <2>1, FS_Subset DEF Limit
<1>2. IsFiniteSet(stored \cup {c})
  BY FS_AddElement DEF Limit
<1>3. IsFiniteSet(stored')
  BY <1>2, FS_Subset
<1>4. IsFiniteSet(Active') /\ Cardinality(Active') <= Cardinality(Active)
  BY <1>1, FS_Subset
<1>5. Cardinality(Active) \in Nat /\ Cardinality(Active') \in Nat
  BY <1>1, <1>4, FS_CardinalityType
<1>6. QED
  BY <1>3, <1>4, <1>5, PhoneAssumption DEF Limit

\* A call that becomes terminal, or that is in the repository, adds nothing to the limit.
LEMMA AppliedLimit ==
  ASSUME PInv, Kept, Limit, NEW c \in Call, call[c].state # None, NEW target \in States,
         call' = Moved(c, target), stored' \subseteq stored \cup {c},
         c \in stored \/ target \in TERMINAL_STATES
  PROVE  Limit'
<1>1. Active' \subseteq Active
  BY AppliedActive
<1>2. QED
  BY <1>1, FewerActive

LEMMA VoiceLimit ==
  ASSUME PInv, Kept, Limit, NEW c \in Call, Voice(c)
  PROVE  Limit'
<1>1. /\ stored' = stored \cup {c} /\ Cardinality(Active) < MaxConcurrent
      /\ \A d \in Call \ {c} : call'[d] = call[d]
  BY DEF Voice, PInv
<1>2. IsFiniteSet(stored') /\ IsFiniteSet(Active)
  <2>1. Active \subseteq stored
    BY DEF Active
  <2>2. QED
    BY <1>1, <2>1, FS_AddElement, FS_Subset DEF Limit
<1>3. Active' \subseteq Active \cup {c}
  BY <1>1 DEF Active, IsTerminal, Kept
<1>4. /\ IsFiniteSet(Active \cup {c})
      /\ Cardinality(Active \cup {c}) <= Cardinality(Active) + 1
  <2>1. Cardinality(Active) \in Nat
    BY <1>2, FS_CardinalityType
  <2>2. /\ IsFiniteSet(Active \cup {c})
        /\ Cardinality(Active \cup {c}) =
             IF c \in Active THEN Cardinality(Active) ELSE Cardinality(Active) + 1
    BY <1>2, FS_AddElement, Zenon
  <2>3. QED
    BY <2>1, <2>2
<1>5. IsFiniteSet(Active') /\ Cardinality(Active') <= Cardinality(Active \cup {c})
  BY <1>3, <1>4, FS_Subset
<1>6. /\ Cardinality(Active) \in Nat /\ Cardinality(Active') \in Nat
      /\ Cardinality(Active \cup {c}) \in Nat
  BY <1>2, <1>4, <1>5, FS_CardinalityType
<1>7. QED
  BY <1>1, <1>2, <1>4, <1>5, <1>6, PhoneAssumption DEF Limit

LEMMA EndingLimit ==
  ASSUME PInv, Kept, Limit, NEW c \in stored, NEW pruning \in BOOLEAN, Ending(c, pruning)
  PROVE  Limit'
<1>1. c \in Call /\ call[c].state # None /\ "ending" \in States
  BY DEF Kept, PInv, States, ALLOWED_TRANSITIONS
<1>2. call' = Moved(c, "ending") /\ stored' \subseteq stored \cup {c}
  BY DEF Ending, Apply
<1>3. QED
  BY <1>1, <1>2, AppliedLimit

LEMMA LimitStep ==
  ASSUME PInv, Kept, LifeInv, Limit, [Next]_vars
  PROVE  Limit'
<1>1. ASSUME UNCHANGED call, stored' \subseteq stored PROVE Limit'
  <2>1. Active' \subseteq Active
    BY <1>1 DEF Active, IsTerminal
  <2>2. IsFiniteSet(Active)
    <3>1. Active \subseteq stored
      BY DEF Active
    <3>2. QED
      BY <3>1, FS_Subset DEF Limit
  <2>3. IsFiniteSet(Active') /\ Cardinality(Active') <= Cardinality(Active)
    BY <2>1, <2>2, FS_Subset
  <2>4. Cardinality(Active) \in Nat /\ Cardinality(Active') \in Nat
    BY <2>2, <2>3, FS_CardinalityType
  <2>5. IsFiniteSet(stored')
    BY <1>1, FS_Subset DEF Limit
  <2>6. QED
    BY <2>3, <2>4, <2>5, PhoneAssumption DEF Limit
<1>2. CASE UNCHANGED vars
  BY <1>1, <1>2 DEF vars
<1>3. ASSUME NEW c \in Call, Webhooks(c) PROVE Limit'
  <2>1. CASE Voice(c)
    BY <2>1, VoiceLimit
  <2>2. CASE VoiceAgain(c)
    BY <1>1, <2>2 DEF VoiceAgain
  <2>3. ASSUME NEW status \in Status, StatusCallback(c, status) PROVE Limit'
    <3>1. CASE UNCHANGED <<call, stored>>
      BY <1>1, <3>1
    <3>2. CASE c \in stored /\ Apply(c, status)
      <4>1. call[c].state # None /\ status \in States
        BY <3>2, PhoneAssumption DEF PInv
      <4>2. call' = Moved(c, status) /\ stored' \subseteq stored \cup {c}
        BY <3>2 DEF Apply
      <4>3. QED
        BY <3>2, <4>1, <4>2, AppliedLimit
    <3>3. QED
      BY <2>3, <3>1, <3>2 DEF StatusCallback
  <2>4. ASSUME NEW s \in Session, Invite(c, s) PROVE Limit'
    <3>1. /\ stored' = stored
          /\ \A d \in Call : call'[d].state = call[d].state
      BY <2>4 DEF Invite, PInv
    <3>2. Active' = Active
      BY <3>1 DEF Active, IsTerminal, Kept
    <3>3. QED
      BY <3>1, <3>2 DEF Limit
  <2>5. QED
    BY <1>3, <2>1, <2>2, <2>3, <2>4 DEF Webhooks
<1>4. ASSUME NEW c \in Call, Stopped(c) \/ StoppedForHangup(c) PROVE Limit'
  BY <1>1, <1>4 DEF Stopped, StoppedForHangup
<1>5. ASSUME NEW c \in Call, Accepted(c) PROVE Limit'
  <2>1. c \in stored
    BY <1>5 DEF Accepted, LifeInv, Life, OpOK, RepositoryOK
  <2>2. call[c].state # None /\ "connected" \in States
    BY <2>1 DEF PInv, States, ALLOWED_TRANSITIONS
  <2>3. call' = Moved(c, "connected") /\ stored' \subseteq stored \cup {c}
    BY <1>5 DEF Accepted, Apply
  <2>4. QED
    BY <2>1, <2>2, <2>3, AppliedLimit
<1>6. ASSUME NEW c \in Call, AcceptFails(c) \/ HungUp(c) \/ Finalize(c) PROVE Limit'
  <2>1. call[c].state # None
    BY <1>6 DEF AcceptFails, HungUp, Finalize, Locked, PInv
  <2>2. PICK target \in {"completed", "failed"} : call' = Moved(c, target)
    BY <1>6 DEF AcceptFails, HungUp, Finalize, Apply
  <2>3. stored' \subseteq stored \cup {c}
    BY <1>6 DEF AcceptFails, HungUp, Finalize, Apply
  <2>4. target \in States /\ target \in TERMINAL_STATES
    BY DEF States, TERMINAL_STATES
  <2>5. QED
    BY <2>1, <2>2, <2>3, <2>4, AppliedLimit
<1>7. ASSUME NEW c \in Call,
             \/ StartTurn(c) \/ EndTurn(c) \/ SwallowsStop(c) \/ DeafEnds(c) \/ Leave(c)
             \/ \E how \in {"confirmed", "unconfirmed"} : SessionEnds(c, how)
      PROVE  Limit'
  BY <1>1, <1>7 DEF StartTurn, EndTurn, SwallowsStop, DeafEnds, Leave, SessionEnds
<1>8. ASSUME NEW c \in Call, NEW pruning \in BOOLEAN, HangUp(c, pruning) PROVE Limit'
  BY <1>8, EndingLimit DEF HangUp
<1>9. ASSUME NEW c \in Call, Drain(c) PROVE Limit'
  <2>1. c \in stored
    BY <1>9 DEF Drain, LifeInv, Life, RepositoryOK
  <2>2. CASE Ending(c, FALSE)
    BY <2>1, <2>2, EndingLimit
  <2>3. CASE UNCHANGED <<call, stored>>
    BY <1>1, <2>3
  <2>4. QED
    BY <1>9, <2>2, <2>3 DEF Drain
<1>10. CASE Prune
  <2>1. PICK n \in 1..Len(ended) : Forget(n)
    BY <1>10 DEF Prune
  <2>2. stored' \subseteq stored
    BY <2>1, ForgetTypes
  <2>3. QED
    BY <1>1, <1>10, <2>2 DEF Prune
<1>11. CASE Shutdown \/ Close
  BY <1>1, <1>11 DEF Shutdown, Close
<1>12. QED
  BY <1>2, <1>3, <1>4, <1>5, <1>6, <1>7, <1>8, <1>9, <1>10, <1>11
  DEF Next, LockSteps, TaskSteps

\* Every variable has its type, and max_concurrent_calls bounds the calls in progress:
\* repeated announcements, late callbacks, hang-ups that race the end of a session and
\* prune bring no call back that was over.
THEOREM CallsAreTypedAndLimited == Spec => []TypeOK
<1>1. Init => Limit
  <2> SUFFICES ASSUME Init PROVE Limit
    OBVIOUS
  <2>1. stored = {} /\ Active = {}
    BY DEF Init, Active
  <2>2. QED
    BY <2>1, FS_EmptySet, PhoneAssumption DEF Limit
<1>2. PInv /\ WorkInv /\ Kept /\ LifeInv /\ Limit /\ [Next]_vars => Limit'
  BY LimitStep
<1>3. PInv /\ Kept /\ Limit => TypeOK
  BY DEF PInv, Kept, Limit, TypeOK
<1>4. QED
  BY PhoneLife, <1>1, <1>2, <1>3, PTL DEF Spec

=============================================================================
