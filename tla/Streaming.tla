------------------------------ MODULE Streaming ------------------------------
(***************************************************************************)
(* One browser connection of multi_agent/streaming.py                      *)
(* (StreamingConversation) with the socket loop of app/api/streaming.py,   *)
(* the orchestrator's pending delivery of the session and the input buffer *)
(* of the transcription provider.                                          *)
(*                                                                         *)
(* Four asyncio tasks meet here: the socket loop (receive), the forwarder  *)
(* of ASR events (transcript), the turn's task (_run) and the forwarder of *)
(* microphone audio (_forward_audio).  receive and transcript hold         *)
(* _input_lock for as long as they run; todo is what the one that holds it *)
(* has still to do, cut at its awaits.                                     *)
(*                                                                         *)
(* Abstracted: audio is counted in chunks and belongs to the turn it was   *)
(* recorded for; texts, timings and event payloads are left out, and so    *)
(* are the messages that receive answers with an error and nothing else.   *)
(***************************************************************************)
EXTENDS Naturals, Sequences, SequencesExt, FiniteSets

CONSTANTS
  Turn,         \* turn identifiers the browser may use
  None,
  MaxTurns,     \* MAX_TURNS: identifiers one connection may claim
  QueueSize,    \* maxsize of _audio_queue
  MinAudio,     \* chunks in 100 ms of audio
  MaxAudio,     \* chunks in 30 s of audio
  MaxChunks,    \* bound of the model: audio.delta events of one answer
  MaxMessages,  \* bound of the model: messages of the browser that have an effect
  Messages      \* kinds of messages this browser sends

ASSUME StreamingAssumption ==
  /\ None \notin Turn
  /\ MaxTurns \in Nat /\ QueueSize \in Nat
  /\ MinAudio \in Nat /\ MaxAudio \in Nat /\ MinAudio <= MaxAudio
  /\ MaxChunks \in Nat /\ MaxMessages \in Nat

VARIABLES
  conn,       \* the fields of StreamingConversation
  todo,       \* steps left to the holder of _input_lock, or to close
  task,       \* the turn's task, None once it ended
  queue,      \* _audio_queue
  forwarder,  \* the task _forward_audio and its provider_turn
  provider,   \* the provider's input buffer and the inputs it recognizes
  delivery,   \* Conversation.pending_delivery: the turn it belongs to
  heard,      \* answers that confirm_delivery put into the history
  sent,       \* per turn: the events the browser was sent
  asked,      \* history variable: how often the service was asked to run a turn
  received    \* how many messages the browser has sent

audioVars == <<queue, forwarder, provider>>
vars == <<conn, todo, task, queue, forwarder, provider, delivery, heard, sent, asked,
          received>>

Step(do, t) == [do |-> do, turn |-> t]

-----------------------------------------------------------------------------
Init ==
  /\ conn = [active |-> None, audio |-> None, committed |-> FALSE, bytes |-> 0,
             generation |-> 0, seen |-> {}, completed |-> FALSE, playing |-> FALSE,
             closed |-> FALSE]
  /\ todo = <<>>
  /\ task = None
  /\ queue = <<>>
  /\ forwarder = [pc |-> "idle", turn |-> None, holds |-> None]
  /\ provider = [buffer |-> <<>>, inputs |-> {}]
  /\ delivery = None
  /\ heard = {}
  /\ sent = [t \in Turn |-> <<>>]
  /\ asked = [t \in Turn |-> 0]
  /\ received = 0

\* emit without a generation: after close nothing reaches the browser.
Emit(t, events) ==
  IF conn.closed THEN sent ELSE [sent EXCEPT ![t] = @ \o events]

\* The socket loop takes the next message; receive gets _input_lock.
Receives(kind) ==
  /\ kind \in Messages
  /\ ~conn.closed
  /\ todo = <<>>
  /\ received < MaxMessages
  /\ received' = received + 1

\* _claim
Unclaimed(t) == t \notin conn.seen /\ Cardinality(conn.seen) < MaxTurns
ClaimedForgetful(c, t) == c
Claimed(c, t) == [c EXCEPT !.seen = @ \cup {t}]

\* _interrupt up to its first await, and the steps it leaves: wait for the turn's
\* task, drop its delivery, tell the browser.
InterruptStepsTooEarly ==
  IF conn.active = None THEN <<Step("await", None)>>
  ELSE <<Step("undeliver", conn.active), Step("await", None), Step("tell", conn.active)>>
InterruptSteps ==
  IF conn.active = None THEN <<Step("await", None)>>
  ELSE <<Step("await", None), Step("undeliver", conn.active), Step("tell", conn.active)>>
Interrupt(c, rest) ==
  /\ conn' = [c EXCEPT !.active = None, !.generation = @ + 1]
  /\ task' = IF task = None THEN None ELSE [task EXCEPT !.cancelled = TRUE]
  /\ todo' = InterruptSteps \o rest

\* _discard_audio; a full queue loses the request to clear the provider's buffer.
Discard(c) ==
  /\ conn' = [c EXCEPT !.audio = None, !.committed = FALSE, !.bytes = 0]
  /\ queue' = IF c.audio # None /\ Len(queue) < QueueSize
              THEN Append(queue, [type |-> "clear", turn |-> c.audio]) ELSE queue

Cancellation(c) == IF c.audio = None THEN sent ELSE Emit(c.audio, <<"cancelled">>)

\* The ValueError of an audio message abandons the whole utterance before the message
\* is answered; "refused" is the error that answers a message.
Refuse(c) ==
  /\ Discard(c)
  /\ sent' = Emit(c.audio, <<"cancelled", "refused">>)

\* audio.append behind its checks: too much audio or a full queue refuse it.
AcceptChunkUnbounded(c) ==
  /\ conn' = [c EXCEPT !.bytes = @ + 1]
  /\ queue' = Append(queue, [type |-> "append", turn |-> c.audio])
  /\ UNCHANGED sent
AcceptChunk(c) ==
  \/ /\ c.bytes < MaxAudio /\ Len(queue) < QueueSize
     /\ conn' = [c EXCEPT !.bytes = @ + 1]
     /\ queue' = Append(queue, [type |-> "append", turn |-> c.audio])
     /\ UNCHANGED sent
  \/ /\ c.bytes = MaxAudio \/ Len(queue) = QueueSize
     /\ Refuse(c)

\* What _start sets before it tells the browser.
StartedStale(t) == [conn EXCEPT !.active = t]
Started(t) == [conn EXCEPT !.active = t, !.completed = FALSE, !.playing = FALSE]

-----------------------------------------------------------------------------
\* Messages of the browser (receive).

\* No turn is named, or the active or the recorded one.
ReceiveInterrupt(requested) ==
  /\ requested = None \/ requested \in {conn.active, conn.audio}
  /\ Receives("interrupt")
  /\ Interrupt(conn, <<Step("discard", None)>>)
  /\ UNCHANGED <<audioVars, delivery, heard, sent, asked>>

ReceiveText(t) ==
  /\ Unclaimed(t)
  /\ Receives("text")
  /\ Interrupt(Claimed(conn, t),
               <<Step("discard", None), Step("start", t), Step("spawn", t)>>)
  /\ UNCHANGED <<audioVars, delivery, heard, sent, asked>>

\* The first chunk of an utterance claims its turn and barges in.
ReceiveFirstAudio(t) ==
  /\ t # conn.audio /\ Unclaimed(t)
  /\ Receives("audio")
  /\ Interrupt(Claimed(conn, t), <<Step("discard", None), Step("listen", t)>>)
  /\ UNCHANGED <<audioVars, delivery, heard, sent, asked>>

ReceiveMoreAudio(t) ==
  /\ t = conn.audio /\ ~conn.committed
  /\ Receives("audio")
  /\ AcceptChunk(conn)
  /\ UNCHANGED <<todo, task, forwarder, provider, delivery, heard, asked>>

\* Too little audio and a full queue refuse the commit.
ReceiveCommit(t) ==
  /\ t = conn.audio /\ ~conn.committed
  /\ Receives("audio")
  /\ \/ /\ conn.bytes >= MinAudio /\ Len(queue) < QueueSize
        /\ queue' = Append(queue, [type |-> "commit", turn |-> t])
        /\ conn' = [conn EXCEPT !.committed = TRUE]
        /\ sent' = Emit(t, <<"started">>)
     \/ /\ conn.bytes < MinAudio \/ Len(queue) = QueueSize
        /\ Refuse(conn)
  /\ UNCHANGED <<todo, task, forwarder, provider, delivery, heard, asked>>

ReceivePlaybackStarted(t) ==
  /\ t = conn.active
  /\ Receives("playback")
  /\ conn' = [conn EXCEPT !.playing = TRUE]
  /\ UNCHANGED <<todo, task, audioVars, delivery, heard, sent, asked>>

ReceivePlaybackCompleted(t) ==
  /\ t = conn.active /\ conn.completed /\ conn.playing
  /\ Receives("playback")
  /\ todo' = <<Step("confirm", t)>>
  /\ UNCHANGED <<conn, task, audioVars, delivery, heard, sent, asked>>

-----------------------------------------------------------------------------
\* The steps behind the awaits of receive, transcript and close.

Does(do) == todo # <<>> /\ Head(todo).do = do /\ todo' = Tail(todo)

\* gather: the cancelled task has ended.
AwaitTask ==
  /\ Does("await")
  /\ task = None
  /\ UNCHANGED <<conn, task, audioVars, delivery, heard, sent, asked, received>>

\* VoiceRouterOrchestrator.interrupt_delivery
Undelivered(t) == IF delivery = t THEN None ELSE delivery
Undeliver ==
  /\ Does("undeliver")
  /\ delivery' = Undelivered(Head(todo).turn)
  /\ UNCHANGED <<conn, task, audioVars, heard, sent, asked, received>>

TellCancelled ==
  /\ Does("tell")
  /\ sent' = Emit(Head(todo).turn, <<"cancelled">>)
  /\ UNCHANGED <<conn, task, audioVars, delivery, heard, asked, received>>

DiscardAudio ==
  /\ Does("discard")
  /\ Discard(conn)
  /\ sent' = Cancellation(conn)
  /\ UNCHANGED <<task, forwarder, provider, delivery, heard, asked, received>>

Listen ==
  /\ Does("listen")
  /\ AcceptChunk([conn EXCEPT !.audio = Head(todo).turn])
  /\ UNCHANGED <<task, forwarder, provider, delivery, heard, asked, received>>

Start ==
  /\ Does("start")
  /\ conn' = Started(Head(todo).turn)
  /\ sent' = Emit(Head(todo).turn, <<"started", "final">>)
  /\ UNCHANGED <<task, audioVars, delivery, heard, asked, received>>

\* asyncio.create_task(self._run(...))
Spawn ==
  /\ Does("spawn")
  /\ LET t == Head(todo).turn
     IN /\ task' = [turn |-> t, generation |-> conn.generation, pc |-> "asking",
                    chunks |-> 0, cancelled |-> FALSE]
        /\ asked' = [asked EXCEPT ![t] = @ + 1]
  /\ UNCHANGED <<conn, audioVars, delivery, heard, sent, received>>

\* VoiceRouterOrchestrator.confirm_delivery, then the turn is no longer active.
Confirm ==
  /\ Does("confirm")
  /\ LET t == Head(todo).turn
     IN /\ heard' = IF delivery = t THEN heard \cup {t} ELSE heard
        /\ delivery' = Undelivered(t)
  /\ conn' = [conn EXCEPT !.active = None]
  /\ UNCHANGED <<task, audioVars, sent, asked, received>>

\* The socket is gone, between two messages or under a send of receive: what was
\* left to do is lost, and close interrupts, discards and stops the forwarder
\* without taking _input_lock.
Disconnect ==
  /\ ~conn.closed
  /\ todo # <<>> => Head(todo).do \notin {"await", "undeliver", "confirm"}
  /\ Interrupt([conn EXCEPT !.closed = TRUE], <<Step("discard", None), Step("stop", None)>>)
  /\ UNCHANGED <<audioVars, delivery, heard, sent, asked, received>>

Stop ==
  /\ Does("stop")
  /\ forwarder' = [forwarder EXCEPT !.pc = "stopped"]
  /\ UNCHANGED <<conn, task, queue, provider, delivery, heard, sent, asked, received>>

Steps ==
  \/ AwaitTask \/ Undeliver \/ TellCancelled \/ DiscardAudio \/ Listen
  \/ Start \/ Spawn \/ Confirm \/ Stop

-----------------------------------------------------------------------------
\* The turn's task (_run). A cancelled task may end at any of its awaits; it may
\* also take further steps, as wait_for loses a cancellation that meets the
\* result it waits for (Python before 3.12).

Runs(pc) == task # None /\ task.pc = pc
Goes(pc) == task' = [task EXCEPT !.pc = pc]

\* current: the task's generation token is the connection's.
Current == task.generation = conn.generation /\ ~conn.closed
EmitOfAnyTask(event) == [sent EXCEPT ![task.turn] = Append(@, event)]
EmitOfTask(event) ==
  IF Current THEN [sent EXCEPT ![task.turn] = Append(@, event)] ELSE sent

\* on_route, called inside the orchestrator's turn.
Route ==
  /\ Runs("asking") /\ Goes("resolving")
  /\ sent' = EmitOfTask("route")
  /\ UNCHANGED <<conn, todo, audioVars, delivery, heard, asked, received>>

\* The orchestrator commits the turn; its answer now waits for playback.
Answer ==
  /\ Runs("resolving") /\ Goes("answered")
  /\ delivery' = task.turn
  /\ UNCHANGED <<conn, todo, audioVars, heard, sent, asked, received>>

Reply ==
  /\ Runs("answered")
  /\ IF Current THEN Goes("speaking") ELSE task' = None
  /\ sent' = EmitOfTask("reply")
  /\ UNCHANGED <<conn, todo, audioVars, delivery, heard, asked, received>>

Speak ==
  /\ Runs("speaking")
  /\ task.chunks < MaxChunks
  /\ task' = IF Current THEN [task EXCEPT !.chunks = @ + 1] ELSE None
  /\ sent' = EmitOfTask("audio")
  /\ UNCHANGED <<conn, todo, audioVars, delivery, heard, asked, received>>

SpeechEnds ==
  /\ Runs("speaking")
  /\ task.chunks > 0
  /\ IF Current
     THEN Goes("completing") /\ conn' = [conn EXCEPT !.completed = TRUE]
     ELSE task' = None /\ UNCHANGED conn
  /\ UNCHANGED <<todo, audioVars, delivery, heard, sent, asked, received>>

Complete ==
  /\ Runs("completing")
  /\ task' = None
  /\ sent' = EmitOfTask("completed")
  /\ UNCHANGED <<conn, todo, audioVars, delivery, heard, asked, received>>

\* The service or the synthesis fails, or tts_timeout is over. (A send fails only
\* when the socket is gone, see Disconnect.)
TaskFails ==
  /\ \E pc \in {"asking", "resolving", "speaking"} : Runs(pc)
  /\ Goes("failing")
  /\ UNCHANGED <<conn, todo, audioVars, delivery, heard, sent, asked, received>>

UndeliverFailed ==
  /\ Runs("failing")
  /\ IF Current
     THEN Goes("reporting") /\ delivery' = Undelivered(task.turn)
     ELSE task' = None /\ UNCHANGED delivery
  /\ UNCHANGED <<conn, todo, audioVars, heard, sent, asked, received>>

ReportSilently ==
  /\ Runs("reporting")
  /\ conn' = [conn EXCEPT !.active = None]
  /\ task' = None
  /\ UNCHANGED <<todo, audioVars, delivery, heard, sent, asked, received>>
Report ==
  /\ Runs("reporting")
  /\ conn' = [conn EXCEPT !.active = None]
  /\ task' = None
  /\ sent' = EmitOfTask("error")
  /\ UNCHANGED <<todo, audioVars, delivery, heard, asked, received>>

EndCancelled ==
  /\ task # None /\ task.cancelled
  /\ task' = None
  /\ UNCHANGED <<conn, todo, audioVars, delivery, heard, sent, asked, received>>

TaskSteps ==
  \/ Route \/ Answer \/ Reply \/ Speak \/ SpeechEnds \/ Complete
  \/ TaskFails \/ UndeliverFailed \/ Report \/ EndCancelled

-----------------------------------------------------------------------------
\* The microphone's audio (_forward_audio) and the events of the transcriber.

ForwardersAt(pc) == forwarder.pc = pc

\* What the forwarder makes of a message: nothing, if its turn was abandoned.
NextForwardUncleared(message) ==
  IF message.type = "clear"
  THEN IF forwarder.holds = message.turn THEN "clear" ELSE "idle"
  ELSE IF message.turn # conn.audio THEN "idle" ELSE message.type
NextForward(message) ==
  IF message.type = "clear"
  THEN IF forwarder.holds = message.turn THEN "clear" ELSE "idle"
  ELSE IF message.turn # conn.audio THEN "idle"
  ELSE IF message.type = "append" /\ forwarder.holds # message.turn THEN "prepare"
  ELSE message.type

Take ==
  /\ ForwardersAt("idle")
  /\ queue # <<>>
  /\ queue' = Tail(queue)
  /\ forwarder' = [forwarder EXCEPT !.pc = NextForward(Head(queue)),
                                    !.turn = Head(queue).turn]
  /\ UNCHANGED <<conn, todo, task, provider, delivery, heard, sent, asked, received>>

\* transcriber.clear(), on request or before the first chunk of another turn.
ForwardClear ==
  /\ \/ /\ ForwardersAt("clear")
        /\ forwarder' = [forwarder EXCEPT !.pc = "idle", !.holds = None]
     \/ /\ ForwardersAt("prepare")
        /\ forwarder' = [forwarder EXCEPT !.pc = "append", !.holds = forwarder.turn]
  /\ provider' = [provider EXCEPT !.buffer = <<>>]
  /\ UNCHANGED <<conn, todo, task, queue, delivery, heard, sent, asked, received>>

\* transcriber.append
ForwardAppend ==
  /\ ForwardersAt("append")
  /\ forwarder' = [forwarder EXCEPT !.pc = "idle"]
  /\ provider' = [provider EXCEPT !.buffer = Append(@, forwarder.turn)]
  /\ UNCHANGED <<conn, todo, task, queue, delivery, heard, sent, asked, received>>

\* transcriber.commit returns when the provider acknowledged the input.
ForwardCommit ==
  /\ ForwardersAt("commit")
  /\ forwarder' = [forwarder EXCEPT !.pc = "idle", !.holds = None]
  /\ provider' = [buffer |-> <<>>, inputs |-> provider.inputs \cup {forwarder.turn}]
  /\ UNCHANGED <<conn, todo, task, queue, delivery, heard, sent, asked, received>>

\* The transcriber raises; the provider may have got the audio all the same.
ForwardFails ==
  /\ forwarder.pc \in {"clear", "prepare", "append", "commit"}
  /\ forwarder' = [forwarder EXCEPT !.pc = "failed"]
  /\ \/ UNCHANGED provider
     \/ /\ ForwardersAt("append")
        /\ provider' = [provider EXCEPT !.buffer = Append(@, forwarder.turn)]
  /\ UNCHANGED <<conn, todo, task, queue, delivery, heard, sent, asked, received>>

\* Its handler waits for _input_lock (close does not hold it) and abandons the
\* utterance, if it is still the one the browser records.
HandleFailureSilently ==
  /\ ForwardersAt("failed")
  /\ todo = <<>> \/ conn.closed
  /\ forwarder' = [forwarder EXCEPT !.pc = "idle"]
  /\ UNCHANGED <<conn, todo, task, queue, provider, delivery, heard, sent, asked, received>>
HandleFailure ==
  /\ ForwardersAt("failed")
  /\ todo = <<>> \/ conn.closed
  /\ forwarder' = [forwarder EXCEPT !.pc = "idle"]
  /\ IF forwarder.turn = conn.audio
     THEN Discard(conn) /\ sent' = Emit(conn.audio, <<"error", "cancelled">>)
     ELSE UNCHANGED <<conn, queue, sent>>
  /\ UNCHANGED <<todo, task, provider, delivery, heard, asked, received>>

\* transcript: the ASR event that ends the input of turn t. Only the utterance
\* that the browser committed and did not abandon may route.
Transcribes(t) ==
  /\ ~conn.closed /\ todo = <<>>
  /\ t \in provider.inputs
  /\ provider' = [provider EXCEPT !.inputs = @ \ {t}]

TranscriptFinalLate(t) ==
  /\ Transcribes(t)
  /\ conn' = [Started(t) EXCEPT !.audio = None, !.committed = FALSE]
  /\ sent' = Emit(t, <<"final">>)
  /\ todo' = <<Step("spawn", t)>>
  /\ UNCHANGED <<task, queue, forwarder, delivery, heard, asked, received>>
TranscriptFinal(t) ==
  /\ Transcribes(t)
  /\ t = conn.audio /\ conn.committed
  /\ conn' = [Started(t) EXCEPT !.audio = None, !.committed = FALSE]
  /\ sent' = Emit(t, <<"final">>)
  /\ todo' = <<Step("spawn", t)>>
  /\ UNCHANGED <<task, queue, forwarder, delivery, heard, asked, received>>

\* Nothing was said, or too much.
TranscriptEmpty(t) ==
  /\ Transcribes(t)
  /\ t = conn.audio /\ conn.committed
  /\ conn' = [conn EXCEPT !.audio = None, !.committed = FALSE]
  /\ sent' = Emit(t, <<"error">>)
  /\ UNCHANGED <<todo, task, queue, forwarder, delivery, heard, asked, received>>

TranscriptFails(t) ==
  /\ Transcribes(t)
  /\ t = conn.audio
  /\ Discard(conn)
  /\ sent' = Emit(t, <<"error", "cancelled">>)
  /\ UNCHANGED <<todo, task, forwarder, delivery, heard, asked, received>>

TranscriptIgnored(t) ==
  /\ Transcribes(t)
  /\ t # conn.audio
  /\ UNCHANGED <<conn, todo, task, queue, forwarder, delivery, heard, sent, asked, received>>

AudioSteps ==
  \/ Take \/ ForwardClear \/ ForwardAppend \/ ForwardCommit \/ ForwardFails

-----------------------------------------------------------------------------
Next ==
  \/ \E t \in Turn :
       \/ ReceiveText(t)
       \/ ReceiveFirstAudio(t)
       \/ ReceiveMoreAudio(t)
       \/ ReceiveCommit(t)
       \/ ReceivePlaybackStarted(t)
       \/ ReceivePlaybackCompleted(t)
       \/ TranscriptFinal(t)
       \/ TranscriptEmpty(t)
       \/ TranscriptFails(t)
       \/ TranscriptIgnored(t)
  \/ \E requested \in Turn \cup {None} : ReceiveInterrupt(requested)
  \/ Steps
  \/ Disconnect
  \/ TaskSteps
  \/ AudioSteps
  \/ HandleFailure

Spec == Init /\ [][Next]_vars

\* Every task keeps running: wait_for bounds the agents, the synthesis and the
\* transcriber's acknowledgement. asyncio.Lock is FIFO, so the handler that waits
\* for _input_lock gets it although receive keeps taking it. Nothing obliges the
\* browser to send or the recognizer to answer.
Fairness ==
  /\ WF_vars(Steps)
  /\ WF_vars(TaskSteps)
  /\ WF_vars(AudioSteps)
  /\ SF_vars(HandleFailure)

FairSpec == Spec /\ Fairness
-----------------------------------------------------------------------------
\* Correctness.

Event == {"started", "final", "route", "reply", "audio", "completed", "error", "cancelled",
          "refused"}

Connection ==
  [active: Turn \cup {None}, audio: Turn \cup {None}, committed: BOOLEAN,
   bytes: 0..MaxAudio, generation: Nat, seen: SUBSET Turn, completed: BOOLEAN,
   playing: BOOLEAN, closed: BOOLEAN]
TurnTask ==
  [turn: Turn, generation: Nat, chunks: 0..MaxChunks, cancelled: BOOLEAN,
   pc: {"asking", "resolving", "answered", "speaking", "completing", "failing",
        "reporting"}]
Forwarder ==
  [pc: {"idle", "clear", "prepare", "append", "commit", "failed", "stopped"},
   turn: Turn \cup {None}, holds: Turn \cup {None}]

\* Every variable stays in its type; the audio of an utterance and the queue to the
\* transcriber stay within their limits.
TypeOK ==
  /\ conn \in Connection /\ Cardinality(conn.seen) <= MaxTurns
  /\ todo \in Seq([do: {"await", "undeliver", "tell", "discard", "listen", "start",
                        "spawn", "confirm", "stop"}, turn: Turn \cup {None}])
  /\ task \in TurnTask \cup {None}
  /\ queue \in Seq([type: {"append", "commit", "clear"}, turn: Turn])
  /\ Len(queue) <= QueueSize
  /\ forwarder \in Forwarder
  /\ provider \in [buffer: Seq(Turn), inputs: SUBSET Turn]
  /\ delivery \in Turn \cup {None}
  /\ heard \in SUBSET Turn
  /\ sent \in [Turn -> Seq(Event)]
  /\ asked \in [Turn -> Nat]
  /\ received \in 0..MaxMessages

Cancelled(t) == "cancelled" \in ToSet(sent[t])

\* From the moment a turn is interrupted the browser gets one more event of it, the
\* cancellation, wherever the turn's task, its audio and its transcript were ("late
\* provider data cannot escape after interruption", streaming.py). An utterance that
\* is abandoned over a message has this message answered as well.
NothingAfterInterrupt ==
  [][\A t \in Turn :
       /\ Cancelled(t) \/ Step("tell", t) \in ToSet(todo)
       /\ sent'[t] # sent[t]
       => ~Cancelled(t) /\ sent'[t] = Append(sent[t], "cancelled")]_vars

\* However often its messages are repeated, a turn is given to the agents once.
AskedOnce == \A t \in Turn : asked[t] <= 1

\* The history gains an answer only after all of its audio was sent, and never one
\* whose playback was cut, whatever acknowledgements the browser sends and when.
HeardWasPlayed ==
  \A t \in heard :
    /\ "audio" \in ToSet(sent[t]) /\ ~Cancelled(t)
    /\ task # None /\ task.turn = t => task.pc = "completing"

\* An answer waits for its playback only while its turn is the active one or is
\* being interrupted: no interruption, failure or disconnection leaves a delivery
\* that a later acknowledgement could confirm.
NoOrphanDelivery ==
  delivery # None =>
    \/ delivery = conn.active
    \/ Step("undeliver", delivery) \in ToSet(todo)

\* What the provider recognizes for an utterance that may still route is all the
\* audio the browser recorded for it and nothing of an abandoned one.
AudioIntact ==
  [][\A t \in provider'.inputs \ provider.inputs :
       t = conn.audio => provider.buffer = [i \in 1..conn.bytes |-> t]]_vars

\* A turn that was given to the agents ends for the browser: it is told, or it has
\* acknowledged the whole answer itself.
EveryTaskEnds ==
  \A t \in Turn :
    asked[t] > 0 ~>
      \/ conn.closed \/ t \in heard
      \/ ToSet(sent[t]) \cap {"completed", "error", "cancelled"} # {}

\* An utterance the browser committed reaches the recognizer or is abandoned.
CommittedIsForwarded ==
  \A t \in Turn :
    conn.audio = t /\ conn.committed ~> t \in provider.inputs \/ conn.audio # t
=============================================================================
