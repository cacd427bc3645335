# Verification of the voice router

TLA+ models of the voice router in this repository, what TLC checks of them on
small instances, and what TLAPS proves for all instances. Everything is
translated from the source; when this file and the source disagree, the source
is right and the model is wrong.

    tlc -workers 2 -config ConversationWorkflow.cfg MCConversation
    tlapm ConversationProofs.tla

## 1. Inventory

| Component | State it keeps | Operations | Hard because |
| --- | --- | --- | --- |
| Orchestrator (`multi_agent/orchestrator.py`, called through `app/services/voice_router.py`) | per session: history, active and suspended topics, uncertainty counter, parameters, workflow progress, pending delivery, an `asyncio.Lock` | `turn`, `confirm_delivery`, `interrupt_delivery` | turns, playback signals, timeouts and cancellations interleave at every await; a turn works on a snapshot |
| Workflow and simulation (`workflow.py`, `simulation.py`) | slots, status, `awaiting_confirmation`, traces per scenario | `advance_workflow`, `merge_parameters`, `SimulationEngine.run` | long legal sequences of turns; the confirmation belongs to a question asked turns ago |
| Voice stream (`multi_agent/streaming.py`) | active and recorded turn, generation, claimed ids, playback flags, audio queue, three tasks and two locks | `receive`, `transcript`, `_run`, `_forward_audio`, `close` | barge-in while a task is anywhere, late provider data, a full queue, disconnection |
| Transcription (`transcription.py`) | input buffer, item-to-turn binding, quarantined items, commit future | `append`, `commit`, `clear`, `_pump` | provider events out of order, acknowledgement after its timeout |
| Live bridge (`live.py`, `app/api/live.py`) | transcript fragments and their watermark, current delegation, dialogue | `handle`, `_resolve`, `say`, `interrupt`, `close` | a turn is committed and cancelled before the watermark moves |
| Session ownership (`app/api/streaming.py`, `app/api/live.py`, `voice_router.py`) | `stream_sessions` | claim, release, the 409 of HTTP turns | several entry points for one session |
| Catalog and settings (`app/db/repository.py`, `app/api/routes.py`) | PostgreSQL tables | import, upsert, delete, settings, read | several API workers, several statements in one request |
| Administrator access (`app/api/admin_auth.py`) | challenges, credentials, sessions | issue and consume challenges, sign in, expire | one challenge finished twice |
| Face templates (`faceid/`) | template stores and a matrix cache | enroll, delete, identify, flush | file writes from threads, a stale cache |
| Telephone (`app/phone/`) | calls, dialogues, bridge tokens, delegated turns | announcements, callbacks, invitations, hang-ups, pruning, `run` of a delegation | everything under one lock that waits for others; a lock that outlives its task |
| Telephony library (`telephony/telephony/`) | calls and their state, the inbox of events, session tasks, delegations, tool counters | dial, announce, invite, hang up, cancel, `stop`, `aclose`, tools | callbacks before answers, repeated webhooks, cancellations that meet |
| Audio pipeline (`v2v/pipeline.py`, `sessions.py`) | session messages | `reply`, `turn`, delete | history is read before and written after an await |
| Realtime bridge (`v2v/realtime.py`) | two sockets, the tool budget | two pumps, tool calls | the budget is shared by both pumps |
| Browser client (`frontend/lib/voice-*.ts`) | epoch, active turn, playback | start, commit, interrupt, receive | callbacks of closed connections |
| Agent gateway, prompts, tools, identifiers | none | calls of a language model | not a protocol: modelled as any answer or failure |

They meet as follows. A turn enters through HTTP, the voice stream, the live
bridge or a telephone call and always ends in `RouterService.turn`, which reads
the stored catalog and settings and calls the orchestrator. The stream and the
live bridge pass a delivery id, so the answer stays out of the history until
`confirm_delivery`; both interrupt it when the caller barges in. An
administrator edits the catalog at any time. One session has one owner among
sockets and live calls (`stream_sessions`).

What makes them correct: turns of a caller are serialized and lose no update;
the history contains only what the caller heard; an irreversible action needs an
open question and a yes; topics left are not lost; the caller is not asked to
clarify forever; a cancelled turn falls silent; an utterance reaches the
recognizer whole or not at all; every accepted turn ends. `PROJECT.json` lists
the hazards behind these at their lines, with the properties that cover them.

## 2. Modules

### Workflow and Conversation

`Workflow` holds the pure policy of `workflow.py` and `simulation.py`:
`MergeParameters` (normalization is a map of the catalog, `None` where
`normalize_slot` raises), `Run` (the mode of each action), and `Advance`, one
`CASE` arm per return of `advance_workflow`. Which adapters have their inputs and succeed is
the environment's choice (`done`), so every result of the engine is covered.

`Conversation` is one session of the orchestrator.

| State | Code |
| --- | --- |
| `catalog` | what `RouterService.turn` reads: scenarios, normalizers, irreversible adapters, `workflow_enabled` |
| `session` | the `Conversation` record without its lock |
| `holder`, `queue` | `Conversation.lock` and its FIFO of waiters: turns, confirmations, interruptions |
| `cand`, `outcome` | the snapshot and the `TurnResult` of the turn that holds the lock |
| `request` | per turn: phase, the intent of its text, whether it has a delivery id, the catalog it read, the playback signals its caller gave |
| `streak`, `ran` | history variables: clarifications in a row, turns that simulated an irreversible action |

| Action | Code |
| --- | --- |
| `Submit` | `RouterService.turn` up to the lock: catalog and settings are read *before* waiting |
| `Begin` | lock granted, `snapshot` |
| `DecideRoute`, `DecideOther` | `_execute`: confirmation bypass, validation, threshold, repeated uncertainty, parameters, topics, workflow, history |
| `Commit` | `turn` after `wait_for`: the delivery leaves the history, `commit` |
| `Fail`, `Abandon` | invalid decision, agent failure, empty reply, timeout, cancellation with and without the lock |
| `Signal`, `ConfirmDelivery`, `InterruptDelivery` | the caller's playback reports, queued for the lock |
| `EditCatalog` | any saved change of catalog or settings |

The router's decision is any member of `Decision` that passes `_validate`; one
that does not is a `Fail`. Texts are abstracted to the turn that spoke them and
to what `confirmation_intent` makes of them; a text is non-empty.
Catalog and settings are read as one snapshot; `MaxUncertain` is a
constant although a setting may change it, and the 409 that `RouterService.turn`
gives while a socket owns the session (one read of `stream_sessions`) is left out.

`ConfirmationGate` is the abstract promise: a question opens a gate, a yes
executes once through an open gate and shuts it. `Conversation` implements it
with `open` mapped to the scenarios that await confirmation and `executed` to
`ran` (`KeepsGate`).

### Streaming

`Streaming` is one socket's `StreamingConversation`, together with the two
pieces of its surroundings it must keep right: the session's pending delivery
and the provider's input buffer.

| State | Code |
| --- | --- |
| `conn` | the object's fields: `active_turn_id`, `audio_turn_id`, `_audio_committed_at` (set or not), `_audio_bytes` in chunks, `_generation`, `_seen`, `_completed`, `_playback_started`, `_closed` |
| `todo` | what the holder of `_input_lock` still has to do behind its awaits; empty means the lock is free |
| `task` | `_task`: the turn, its generation token, where it is, whether it was cancelled |
| `queue`, `forwarder` | `_audio_queue`, `_forward_audio` with `provider_turn` |
| `provider` | the transcriber's buffer and the inputs whose recognition is outstanding |
| `delivery`, `heard` | `pending_delivery` of the orchestrator and the answers `confirm_delivery` admitted to the history |
| `sent`, `asked`, `received` | events per turn, calls of the service (history variables), the browser's messages |

One action per message type, per await of `receive` (`AwaitTask` ... `Confirm`),
per stage of `_run` (`Route` ... `EndCancelled`), per operation of
`_forward_audio` and per ASR event. `_interrupt` and `_discard_audio` are the
operators `Interrupt` and `Discard` with the steps they leave. A cancelled task
may take further steps before it ends, because `wait_for` of the Python versions
before 3.12 that the package admits can lose a cancellation; the generation
token has to cope with it. `Disconnect` may strike at every send. `MCStreaming`
lets the browser send every kind of message: it types, records and plays answers.

### CallState and Phone

`CallState` is the table of `telephony/domain.py`: allowed changes, ranks, and
`NextState`, what `Call.apply` makes of a target. `Phone` is
`InboundPhoneService` over the library's in-memory repository and inbox, with
the life of each call's session task and dialogue.

| State | Code |
| --- | --- |
| `call`, `stored`, `created`, `inbox` | the `Call` objects, the repository's keys, `_created`, the claimed events |
| `open`, `ended`, `routed` | `ButaqPhoneRuntime`'s dialogues, those with `ended_at` in its order, `service.sessions` |
| `tokens` | the bridge tokens, by call |
| `op` | the step for which the holder of `_incoming_lock` waits: an accept, the end of a session, the carrier's hang-up |
| `runner`, `turns` | `LiveSessionRunner`'s task of each call and its delegated turn |
| `server`, `left` | the lifespan's end and the loop of `aclose` |
| `accepted` | history variable: sessions accepted per call |

| Action | Code |
| --- | --- |
| `Voice`, `VoiceAgain` | `handle_inbound_call` of a leg announced first and again |
| `StatusCallback`, `Stopped` | `process_provider_event`, and its cleanup behind `runner.stop` |
| `Invite`, `Accepted`, `AcceptFails` | `handle_live_incoming_call` up to, behind and failing at the provider's accept |
| `HangUp`, `StoppedForHangup`, `HungUp` | `_hangup_call` up to `runner.stop`, up to the carrier's answer, behind it; `pruning` says whether `prune` called it |
| `StartTurn`, `EndTurn`, `SessionEnds`, `Finalize`, `Leave` | the session's task: delegated turns, its end, `finalize_live_session` (which takes no lock), its own end |
| `SwallowsStop`, `DeafEnds` | the stop's cancellation is swallowed by a delegation's `suppress` and the session reads on, until the provider ends it, if it does |
| `Prune` | the last part of `prune`, which takes no lock |
| `Shutdown`, `Drain`, `Close` | the lifespan cancels the maintenance task; `aclose` |

A call is named like its carrier leg, so a leg is not announced again once its
call is forgotten. The inbox forgets nothing: it keeps an event for a day and a
call lasts minutes. A session that was told to stop may be deaf to it: a
delegation's `suppress` can swallow the cancellation (`delegation.py:86`; how it
comes to that is in `CallRunner`, `StopEnds`), and then whoever waits for the stop
waits, with the lock, for the session to end by itself.
`max_call_seconds` and `retention_seconds` are what may have passed at any time.

### Transcription and Live

`Transcription` is the `RealtimeTranscriber` that `Streaming` takes for granted:
`asr` holds its fields, `item` and `wire` the provider's items and the events on
their way (external), `told` what `_pump` put into the queue. `Append_`, `Commit`
with `CommitEnds` and `CommitFails`, and `Clear` are called one at a time, as
`_forward_audio` does; `PumpReads` is one iteration of `_pump`. The provider may
recognize an item early, late, or behind a clear.

`Live` is the conversation of one GPT-Live call and the claim on its session id.
Two tasks act on it: the reader of the provider's events (`Hear`, `Delegate`) and
the browser's controls (`Interrupt`, `TypeText`, the stop). Both call `_cancel`,
which waits for the task it cancels (`waits`, `Resume`); `TaskSteps` are the
stages of `_resolve` and `_say`. `RivalConnects` is another socket of the same id.
As in `Streaming`, a turn may return to a task that was cancelled (`wait_for` loses
the cancellation): it has committed, the watermark stays where it was
(`live.py:210`), and `routed` counts it as lost.

### CallRunner, PhoneTurn and ToolCalls

`CallRunner` is one session of `LiveSessionRunner`: the owner's task, the
coordinator that reads the sideband, the delegations, and who calls `stop`,
`request_close` and `aclose`. A cancellation is delivered at the await where its
task waits; `DelegationExecutor.cancel` swallows it. `PhoneTurn` is
`ButaqPhoneRuntime.run` in the delegations of one call: grace, the dialogue's
lock, the turn or the apology, the processed fragments. Two `wait_for` are nested
there: the inner one can lose the cancellation and let the turn commit while the
outer one raises it (`CommitsCancelled`: nothing is marked as processed), or the
outer one can lose it (`TurnAnswers` of a cancelled task). `ToolCalls` is the
registry's quota per call, its slots, and `forget_call`, under the tasks of
`ResponsesAgentRuntime`.

### Outbound, Invites and Announcements

The library's `Telephony` over the repository and the inbox, with the table of
`CallState`. `Outbound`: requests that dial with an idempotency key, the
carrier's legs and callbacks, hang-ups and cancellations. `Invites`: the webhooks
of OpenAI Live, repeated and with any header, that bridge an outbound call or
open an inbound one. `Announcements`: the carrier's voice webhook, repeated while
routing is awaited, and status callbacks.

### VoicePipeline and RealtimeBridge

`VoicePipeline` is a session of `v2v` whose replies overlap: what happens before
the model is asked and what happens after it answered. `RealtimeBridge` is the
two pumps of `proxy`, the tool calls and the budget they share.

### FaceStore, JsonFaces, CatalogStore, SettingsStore and AdminAuth

PostgreSQL under several workers, at READ COMMITTED: a request is a sequence of
statements, its writes are seen at its commit, a row it has written makes others
wait, and a taken key makes them fail. `FaceStore` has enrollment, deletion and
the cached matrix; `CatalogStore` the bootstrap under its advisory lock, imports,
upserts and deletions; `SettingsStore` the defaults seeded at a start against an
administrator's edits; `AdminAuth` challenges, passkeys and sessions, with authenticators that
count their signatures and others that always report zero. `JsonFaces`
is the store without a database: the loop changes the dictionary, threads flush
it, and the process may stop at any point and load the file again.

### MCServices

These fifteen components share no state, so one run checks them together: the
initial state chooses one component (`part`), which then runs alone while the
others rest. The state space is the sum of theirs, not the product, and a
property of the run that joins two components (`WordsOnce`, `CallsAreSingle`,
`ToolsBounded`, `FacesAreKept`, `BootstrapsAgree`) is the conjunction of theirs.

## 3. Runs

Every bound is a constant of a cfg. `None`, turns, scenarios, slots and values
are model values; turns are symmetric where only safety is checked.

| Run | Instance | Shows |
| --- | --- | --- |
| ConversationWorkflow | 3 turns one after another, 2 scenarios, 1 slot, 1 irreversible action, 3 catalog versions (full, slot optional, scenario deleted), every intent and router answer | `TypeOK`, `OpenConfirmation`, `ClarificationBounded`, `ConfirmedBeforeSimulated`, `KeepsGate` |
| ConversationConcurrency | 3 turns, 2 in flight, with and without delivery, both signals | `HistoryIsTrue`, `NoLostUpdate`, `InterruptedStaysUnheard` |
| ConversationTopics | 2 turns, 2 in flight, 3 topics, at most 1 suspended, one topic deleted and restored, fair | `TopicsOK`, `TopicsKept`, `EveryTurnEnds` |
| StreamingSession | 5 messages of any kind, 2 turns, utterances of at most 2 chunks, a queue of 2, fair | `TypeOK`, `AskedOnce`, `HeardWasPlayed`, `NoOrphanDelivery`, `AudioIntact`, `NothingAfterInterrupt`, `CommittedIsForwarded`, `EveryTaskEnds` |
| PhoneCalls | 2 calls of which 1 may be active, 2 sessions, the callbacks `ringing` and `completed`, 1 trace retained, fair | `TypeOK` (with the limit of active calls), `BridgedOnce`, `AgentRests`, `EndedCallsRest`, `ShutdownEndsCalls`, `NeverBackwards`, `EveryCallEnds` |
| Services | each component of `MCServices` alone, with the bounds of `Services.cfg` | `TypesOK`, `FinalsStayAttached`, `OneOwner`, `WordsOnce`, `SessionEndsClean`, `CallsAreSingle`, `ToolsBounded`, `HistoryIsWhole`, `FacesAreKept`, `BootstrapsAgree`, `OneUsePerChallenge`, `OnlyCurrentSpeaks`, `ClaimIsReleased`, `SignCountGrows` |
| RetentionBounded | 2 calls, both may be active, 1 trace retained | the fourth disagreement below |
| StopEnds | `CallRunner` with 2 delegations, fair | the fifth disagreement |
| EarlyCallback | `Outbound` with one request | the sixth disagreement |
| PreviewBinding, InterruptedPreview, TopicLimit | the workflow instance with two good values, with deliveries, and 7 topics with the code's limit of 5 | the first three disagreements below |

Why these bounds are enough to be interesting: a preview, a change and a yes
take three turns, which is also one more than `MaxUncertain`; with two turns in
flight a confirmation or an interruption can queue behind, before and between
turns; a history of three entries is cut in the middle of an exchange; with a
limit of one suspended topic the cut happens at the second topic. In Streaming,
an acknowledged turn, a second one and a stale acknowledgement take five
messages; a queue of two is filled by a chunk and a commit, and is full when
`clear` should be queued. In Phone, calls meet in the lock, the limit of active
calls and the order in which `prune` forgets them; two calls, one at a time,
reach each of these. `ringing` is late as soon as the session is bridged and
`completed` ends a call under a running session; two sessions are needed for an
invitation to come twice.

In Services: three provider items let one be abandoned, one committed and one
filling, with two events on the wire to overtake each other. Two words and two
delegations of a live call let a delegation be superseded, restarted by a late
word and cancelled behind its commit. Two delegations are what `CallRunner` needs
for one to replace the other; a third of `PhoneTurn` replaces one that is still
being cancelled. Two requests and two keys of `Outbound` repeat a key or take
both lines; three webhooks for two Live sessions of one call repeat one and
forge one; four announcements of one leg repeat it behind, and while, it is
routed. Three tool tasks of two calls compete for one slot and a quota of two.
Four replies fill a history of four messages twice over. Four requests to the
face store are two writers of one subject and two identifications around their
commits; three writers of the JSON file overlap a failed flush and a restart.
Three bootstraps or edits of two scenarios or two settings are two workers that
start together and an administrator. Three challenges and three finishes repeat
one assertion, on another worker, and race two of one passkey.

Deadlock is not checked: a caller may stop talking, and the number of turns and
messages is bounded.

Fairness. `Conversation!FairSpec`: the task of a submitted turn proceeds (each
agent call is bounded by `wait_for`) and asyncio wakes the head of a lock's
queue; nobody is obliged to submit, signal or edit. `Streaming!FairSpec`: weak
fairness for the steps of `receive`, of the turn's task (bounded by the service's
and the synthesis' timeouts) and of the forwarder (bounded by the
acknowledgement's timeout); strong fairness for the forwarder's failure handler,
which waits for the FIFO `_input_lock` while `receive` keeps taking it. The
browser need not send and the recognizer need not answer. `Phone!FairSpec`: weak
fairness for what the lock's holder waits for (requests to the carrier and to
the provider have timeouts) and for the tasks of sessions; strong fairness for
`prune`'s hang-up, which comes back every ten seconds and waits for a FIFO lock.
Nobody has to call, speak or report, the server need not stop, and a session that
has swallowed its stop need not end. So `EveryCallEnds` says that a call ends or
that the holder of the lock waits for such a session (`StopsInVain`); without this
exception TLC finds the behavior that stays there.
`LiveFairness` (Services): the opening, the stop, the closing and every stage of
a task proceed, because connections, turns and calls have time budgets; the
browser and the provider owe nothing. `RunnerFairness` (StopEnds): every task of
the session that can run does, and delegations end; the provider owes nothing, so
a session that nobody stops may read for ever.

### Disagreements with the documents

1. `PreviewBinding`: a slot corrected while the confirmation question is open is
   merged before the question is looked at (`workflow.py:199`), and the next yes
   simulates arguments that were never previewed. `README.md:46` promises a
   preview and `VOICE_ROUTER_PLAN.md:58` a confirmation bound to exact arguments.
2. `InterruptedPreview`: the turn's workflow is committed although its playback
   is interrupted (`orchestrator.py:197`), so a yes approves a question nobody
   heard out, against the comment at `orchestrator.py:199`.
3. `TopicLimit`: with five topics suspended the one the caller leaves is
   appended last and cut off (`orchestrator.py:337`), against
   `docs/demo-runbook.md:77`.
4. `RetentionBounded`: `_hangup_call` ends the dialogue before it asks the
   carrier (`service.py:113`). A `prune` meanwhile forgets the call, and the
   hang-up saves it again (`service.py:120`); no later `prune` will find it,
   against `docs/telephony.md:134`.
5. `StopEnds`: `DelegationExecutor.cancel` waits under
   `suppress(CancelledError)` (`delegation.py:86`). A coordinator that waits
   there for a delegation it replaces loses its own cancellation and reads on, so
   `stop` waits for a session nothing obliges to end, against `runner.py:59`. In
   the application `stop` is awaited under the service's one lock
   (`app/phone/service.py:112`), before the carrier is asked to hang up: the call
   does not end, which is the exception in `EveryCallEnds`.
6. `EarlyCallback`: the event is claimed before the call is looked up by a carrier
   id that is saved only when the carrier has answered
   (`application.py:193-203`, `:153`). A callback that beats the answer is dropped
   and its redelivery refused as a replay; the call stays active, against
   `application.py:145`.

Further disagreements met while modelling, which the models admit and no run
states; a property that a passing run checks makes an exception of them where it
has to:

- A late word that arrives while `working` is emitted is in no turn of its request
  (`live.py:199-207`, against `:162`).
- A turn that commits although its task was cancelled, because `wait_for` lost the
  cancellation (`orchestrator.py:183`, before Python 3.12), leaves the words it was
  given unconsumed (`live.py:210`, `runtime.py:189-211`), and the next turn answers
  them again. The `lost` turns are the exception in `WordsRoutedOnce` and `PhoneWordsAnsweredOnce`:
  one more answer for each, and no other.
- Two overlapping `_cancel` of a live call forget a task: the second caller
  replaces `_task`, and the first one sets it to None when it resumes
  (`live.py:287-292`). `overlapped` is the exception in `WordsRoutedOnce` and
  `OnlyCurrentSpeaks`.
- An input abandoned by a clear, whose first event arrives when a later input was
  acknowledged, is bound to the turn that is spoken then
  (`transcription.py:215-217`, against `:211`); committed items are not affected,
  and `FinalsStayAttached` is about those.
- The cached face matrix may find a face that was deleted: rows read behind an
  enrollment are kept under the stamp read before it, and once that face is
  deleted its stamp is the cached one again (`sql.py:246-264`, against `:235`). It
  may also lack one: a row that is committed late, with a smaller id, makes up in
  the count for one that was deleted. `deleted` is the exception in `NoFaceIsLost`.
- Two workers that delete one of two scenarios each both commit: none is left
  (`repository.py:222`).
- Two workers that start on an empty database race in `seed_defaults`, which the
  advisory lock does not cover, and one fails (no property covers it); an edit
  committed between its read of an old default and its commit is overwritten
  (`repository.py:45-66`; `raced` is the exception in `EditsTakePrecedence`). An
  administrator's edit of the scenarios inside the bootstrap can make it fail
  (`disturbed`, in `BootstrapSucceeds`).
- A tool that was called before an input and ends after it has the model continued
  although the input reset the budget (`v2v/realtime.py:219-231`);
  `ToolLoopBounded` counts the tools called since the input.
- A call that is cancelled or hung up while its dial is in flight is dialled all
  the same and its leg never hung up (`application.py:148-155`, `:353-399`).
- An invite whose bridged call is not dialling yet is released and sent again; the
  retry creates an inbound call and accepts the session twice
  (`application.py:297`).
- A leg announced again while it is routed becomes two calls, of which only the
  older gets callbacks (`application.py:161`); `twice` is the exception in
  `LegsAreFollowed`. An announcement that is repeated after a rejection is routed
  anew and may be answered although its call is "rejected".
- Overlapping flushes of the JSON store may let the older replace the newer file
  (`store.py:137-142`), and a deletion whose flush failed is not flushed by a
  second one, which finds nobody in memory (`store.py:154`). `crossed` is the
  exception in `FileKeepsAnswers`.
- A page cursor whose call has left the filter starts again at the first page
  (`memory.py:66-70`, not modelled).

## 4. Proofs

Every invariant and every action property that a passing run checks is also a
theorem, for every value of the constants that satisfies the named assumptions.
The runs find a wrong formula quickly; the theorems say that no bound of a cfg
mattered. A temporal theorem is always the same three facts: the initial states
satisfy an inductive invariant, every step keeps it, and it implies the property
(or, with one step, the action property).

| Module | About |
| --- | --- |
| `ConversationProofs` | `Workflow` and `Conversation` |
| `HistoryProofs` | the history of `Conversation`, on top of `ConversationProofs` |
| `StreamingProofs` | `Streaming` |
| `PhoneProofs` | `CallState` and `Phone` |
| `StoreProofs` | `AdminAuth`, `CatalogStore`, `SettingsStore`, `FaceStore`, `JsonFaces` |
| `CallProofs` | `Outbound`, `Invites`, `Announcements`, `ToolCalls`, `CallRunner`, `PhoneTurn` |
| `VoiceProofs` | `RealtimeBridge`, `VoicePipeline`, `Transcription`, `Live` |
| `ServicesProofs` | `MCServices`: a behavior of it is one of each component (`EachRuns`), so the conjunctions that Services checks follow |

### Conversation

| Theorem | Argument |
| --- | --- |
| `LockProtectsConversation` (`NoLostUpdate`) | by cases on `Next`: only `Commit` and the two delivery operations write the session; they need a lock that is free or give it up |
| `TypeCorrect` (`TypeOK`) | inductive with `CatalogLoaded` (`TInv`); one lemma per operator of `Workflow` and `Conversation` (`Snapshot`, `Advance`, `Suspended`, `LastOf`) |
| `HistoryTold` (`HistoryIsTrue`) | `HInv`: the history is true; a pending delivery's utterance is its last entry; a queued confirmation was signalled for a turn past its submission; the lock holder's snapshot has no delivery, is true while it routes and ends with its own exchange while it replies |
| `InterruptedIsFinal` (`InterruptedStaysUnheard`) | `UInv` on top of `HInv`: signals come after the end of a turn, the waiting answer was not interrupted, and the lock holder claims no answer but its own and the session's |
| `ApprovedBeforeSimulated` (`ConfirmedBeforeSimulated`), `ImplementsConfirmationGate` (`KeepsGate`) | need `ConfirmingCatalogs`: a scenario with an irreversible action requires confirmation, which the shipped catalogs satisfy (`tests/test_demo_catalog.py`) and nothing enforces. `GInv` relates the snapshot and the outcome of the lock holder to the session it will replace: what it simulates was open when it began and is shut in the snapshot |
| `OpenQuestionsAreSound` (`OpenConfirmation`) | `OInv`: in the session and in the candidate an awaiting workflow, and no other, has the status that says so, and its traces hold no simulated action; nothing is said of its slots, which an edit of the catalog may make incomplete, nor of how many scenarios await |
| `ClarificationsEnd` (`ClarificationBounded`) | `CInv`: the streak of clarifications is at most the counter, and the lock holder's candidate counts on from the session it will replace |
| `TopicsAreSound` (`TopicsOK`), `NoTopicIsForgotten` (`TopicsKept`) | `ConversationProofs!PInv`: the topics of session and candidate are distinct, bounded and not active, and the candidate has every topic its catalog knows or has made it active. What the filters and the removal of duplicates return is shown by the least position at which they could be wrong |

`HInv`, `UInv`, `GInv`, `CInv` and `PInv` are needed because the properties speak
of the step that commits, while the decision was taken steps earlier, against a
snapshot; the invariants carry the facts across the awaits in between.

### Streaming

`SInv` has the types, the order of the steps that a holder of `_input_lock` still
has to do (`Ordered`), and six parts about control: `TaskOK` (while a turn's task
runs, whoever holds the lock waits for it or confirms a playback, no other turn is
active or recorded, and a task whose end is awaited has an old generation),
`ActiveOK`, `StepsOK`, `AskedOK`, `GoneOK` (a cancelled or heard turn is over, and
never both) and `DeliveryOK`. Each is needed by another: that a stale task emits
nothing rests on its generation being old, that on the order of the interrupter's
steps. `AInv` is about audio: every chunk of the utterance being recorded is in the
queue, in the forwarder's hand or in the provider's buffer, in this order and no
other, and its commit comes behind them all.

| Theorem | From |
| --- | --- |
| `StreamTyped` (`TypeOK`), `TurnsAreAskedOnce` (`AskedOnce`), `HistoryWasPlayed` (`HeardWasPlayed`), `DeliveriesHaveOwners` (`NoOrphanDelivery`) | `SInv` |
| `InterruptedTurnsAreQuiet` (`NothingAfterInterrupt`) | `SInv` and a case per action of who may send: the holder's steps, or a task whose generation is current |
| `RecordedIsRecognized` (`AudioIntact`) | `SInv /\ AInv` at the step that forwards the commit |

### Phone

| Theorem | From |
| --- | --- |
| `CallsMoveForward` (`NeverBackwards`), `CallsBridgedOnce` (`BridgedOnce`) | `PInv`: only a call that was announced is stored, worked on or has a session task, and only one with a session was accepted; `AdvancesForward` settles the table of `CallState` |
| `WorkEndsWithDialogue` (`AgentRests`) | `WorkInv`: a turn in flight has a session task that has not left; while a call is being accepted, or hung up behind the end of its session, it has no session task. So a step that drops a dialogue finds no turn |
| `EndedCallsAreReleased` (`EndedCallsRest`), `ShutdownIsComplete` (`ShutdownEndsCalls`) | `LifeInv`, what is left to do for a call: for every operation that holds the lock, in which state its call is and what was taken from it; a call in progress is one that `aclose` will find in `_created`, or one whose operation is about to end it, also when `prune` forgets it at that moment; a call whose hang-up is cut by the shutdown is one of those left for the drain. A session that is deaf to its stop is one that was told to (`Stopping`): the server then never closes, and the theorem is about a server that has |
| `CallsAreTypedAndLimited` (`TypeOK`) | the types (`Kept`), and `Limit`, by cardinality: of all that save a call only `Voice` makes one active, every other saves one that was active or is over, for which `LifeInv` is needed again |

### Services

| Theorem | The inductive invariant |
| --- | --- |
| `AdminOneUse` (`OneUsePerChallenge`), `AdminSignCounts` (`SignCountGrows`) | `AdminInv`: what was used, or is carried by a request, is spent, and one request carries it; who verifies a passkey holds its row and has read the count it still has, so a count of zero is accepted only where none was ever stored |
| `CatalogBootstrap` (`BootstrapSucceeds`) | `CatalogInv`: a bootstrap under way has the advisory lock, and once it counted nothing there is nothing unless it was disturbed |
| `SettingsPrecedence` (`EditsTakePrecedence`) | `SettingsInv`: a bootstrap writes what it read, and what was edited since is marked as raced |
| `FacesNeverLost` (`NoFaceIsLost`) | `FaceInv`: who has found or written a subject holds its row; drawn ids and stored rows are counted by the requests that drew and ended; while nothing is deleted a stamp counts rows that are still there |
| `JsonFileKeeps` (`FileKeepsAnswers`) | `JsonInv`: unless writers crossed there is one, subjects share no embedding, and what it has dumped is the memory as it is |
| `OutboundDialsOnce` (`OneDialPerKey`) | `OutboundInv`: a key has one call, and a request that dials has its own |
| `InvitesBridgeOnce` (`OneSessionPerCall`) | `InvitesInv`: a call's bridges are the session it names, or none |
| `AnnouncedLegsFollowed` (`LegsAreFollowed`) | `AnnouncementsInv`: a leg not announced while it is routed has one record and one router, and a reported end that was heard has ended it |
| `ToolsStayInQuota` (`ToolQuotaHolds`) | `ToolsInv`: handlers started and tasks counted are no more than the count that is kept |
| `RunnerEndsClean` (`SessionEndsClean`) | `RunnerInv`: what the sideband and the delegations may do at each stage of the owner |
| `PhoneWordsOnce` (`PhoneWordsAnsweredOnce`) | `PhoneTurnInv`: who routes or speaks has the dialogue's lock and words that no task took an answer to, and every answer to those is a lost one |
| `ToolLoopsEnd` (`ToolLoopBounded`) | of the tools called since the last input. `BridgeInv`: a call that no input has made stale was counted and not continued yet |
| `HistoryStaysWhole` (`HistoryIsWhole`) | inductive with the types, under `EvenBounds`: both bounds are even, as the defaults 200 (`v2v/sessions.py:52`) and 20 (`v2v/config.py:75`) are; with an odd bound it is false |
| `FinalsAttached` (`FinalsStayAttached`) | of committed items. `TranscriptionInv`: where the acknowledgement and the result of every item are, and which turn the item stands for at each of these places |
| `LiveKeepsWords` (`OneOwner`, `WordsRoutedOnce`), `LiveSpeaksCurrent` (`OnlyCurrentSpeaks`) | `LiveInv`: unless cancellations overlapped, the one task that was not cancelled is `conv.task` of the current generation, whoever waits in `_cancel` waits for it, and what was routed is behind the watermark or was lost once for each turn it was part of |
| `ServicesTyped`, `WordsAnsweredOnce`, `CallsStaySingle`, `ToolsStayBounded`, `FacesStay`, `WorkersAgree` | the conjunctions of the above in `MCServices`, with their exceptions: `lost` and `overlapped`, `twice`, tools called before an input, `deleted` and `crossed`, `raced` and `disturbed` (section 3) |

### Assumptions

None is no identifier, no state and no operation (`NoneAssumption`,
`PhoneAssumption`); limits are natural numbers, and positive where the
code's settings are (a history holds an exchange, one clarification is allowed,
calls in progress, retained traces, tool quotas); the shape of a saved catalog
(`CatalogsAssumption`); the router may list no topic and extract nothing
(`RouterAssumption`); the carrier's callbacks report states of its own
(`PhoneAssumption`, `OutboundAssumption`); there is a demo scenario, a setting, a
subject, an idempotency key and a leg to speak of. TLC evaluates each on the runs.
Beyond them only two theorems assume anything: `ConfirmingCatalogs` and
`EvenBounds`, both above.

### Only model-checked

Liveness: `EveryTurnEnds`, `CommittedIsForwarded`, `EveryTaskEnds`,
`EveryCallEnds` (but for a stop in vain), `ClaimIsReleased` (TLAPS proves neither fairness arguments nor
ENABLED). The six disagreements are violations and stay with their runs. Induction
over data and RECURSIVE operators are out of the prover's reach; the modules use
recursive functions and folds, and the two facts about them that are needed
(what a filter keeps, what a removal of duplicates keeps) are proved from the
least counterexample.

## 5. Plan

1. Composition: `Streaming` takes its recognizer for granted. State what it
   assumes (finals of a turn are of its audio and come once) as an abstract
   recognizer and show that `Transcription` implements it.
2. Abstract specifications of a call (announced, bridged once, ended) and of a
   dial per key, implemented by `Phone` and `Outbound`.
3. The two hazards that no property covers yet: the last scenario deleted by two
   workers at once, and a late word behind the gathering of a live request.

## 6. Not modelled

The language-model gateway, prompts and identifier parsing (any answer is
admitted); face detection, quality and matching (numeric); the LangChain and
LangGraph adapters, schemas and HTTP edges (no state of their own); the transport
of `openai_live.py` and the carrier's client (external, any answer or failure);
reading a catalog in two statements and the validation of an upsert against a
catalog that an import replaces (`repository.py:113`, `:196`: the reader gets
scenarios of one catalog and facts of another; what follows depends on their
texts); the browser client (TypeScript: `Streaming` and `Live` take any order of
what it may send); rendering, data files and migrations (no protocol state). Each
is listed in `PROJECT.json`.
