---------------------------- MODULE Transcription ----------------------------
(***************************************************************************)
(* One RealtimeTranscriber (multi_agent/transcription.py): the buffer of   *)
(* the turn that is being spoken, the provider's items and the turns they  *)
(* belong to. append, commit and clear are called one after another by     *)
(* _forward_audio; _pump runs beside them.                                 *)
(*                                                                         *)
(* The provider is external: it makes an item of each buffer, acknowledges *)
(* a commit, and recognizes items in any order, also early (before the     *)
(* commit) and late (behind a clear).                                      *)
(*                                                                         *)
(* Abstracted: samples as a number of chunks, texts, and the queue of      *)
(* events, which holds what _pump told the turns.                          *)
(***************************************************************************)
EXTENDS Naturals, Sequences, FiniteSets

CONSTANTS
  Turn, None,
  MaxItems,        \* bound: buffers the provider makes an item of
  MaxTurns,        \* MAX_TURNS
  MinAudio,        \* MIN_TURN_BYTES, in chunks
  MaxAudio,        \* MAX_TURN_BYTES, in chunks
  MaxWire          \* bound: events on their way from the provider

ASSUME TranscriptionAssumption ==
  /\ None \notin Turn
  /\ {MaxItems, MaxTurns, MinAudio, MaxAudio, MaxWire} \subseteq Nat

VARIABLES
  asr,       \* the fields of RealtimeTranscriber
  pump,      \* _pump runs, has ended, or the connection was closed
  item,      \* external: what became of each item
  wire,      \* external: events the provider has sent
  told       \* history variable: what _pump put into _queue

transcription == <<asr, pump, item, wire, told>>

Item == 1..MaxItems
Recognized == {"delta", "completed", "failed"}

\* Items whose audio was committed, or abandoned by a clear, and the turn they are of.
ItemState == {"unused", "filling", "asked", "committed", "abandoned"}
OfTurn(i) == item[i].turn
-----------------------------------------------------------------------------
TranscriptionInit ==
  /\ asr = [current |-> None, bytes |-> 0, used |-> {}, items |-> [i \in Item |-> None],
            quarantined |-> {}, finished |-> {}, committing |-> "no",
            failure |-> FALSE, early |-> TRUE]
  /\ pump = "running"
  /\ item = [i \in Item |-> [state |-> "unused", turn |-> None, open |-> TRUE]]
  /\ wire = <<>>
  /\ told = {}

\* _check_connection, and the caller is not waiting for a commit.
Callable == ~asr.failure /\ pump # "closed" /\ asr.committing = "no"

\* The provider's side of append, commit and clear: the item of the buffer.
Filling == {i \in Item : item[i].state = "filling"}
Becomes(state) ==
  item' = [i \in Item |-> IF i \in Filling THEN [item[i] EXCEPT !.state = state] ELSE item[i]]
Fills(t) ==
  IF Filling # {} THEN UNCHANGED item
  ELSE \E i \in Item :
         /\ item[i].state = "unused" /\ \A j \in 1..i-1 : item[j].state # "unused"
         /\ item' = [item EXCEPT ![i].state = "filling", ![i].turn = t]

-----------------------------------------------------------------------------
\* append: the first chunk of a turn claims its id for good.
Append_(t) ==
  /\ Callable
  /\ IF asr.current = None
     THEN t \notin asr.used /\ Cardinality(asr.used) < MaxTurns
     ELSE t = asr.current
  /\ asr.bytes < MaxAudio
  /\ asr' = [asr EXCEPT !.current = t, !.used = @ \cup {t}, !.bytes = @ + 1]
  /\ Fills(t)
  /\ UNCHANGED <<pump, wire, told>>

\* commit, up to the wait for the acknowledgement. A turn that was committed before is
\* not committed again.
Commit(t) ==
  /\ Callable
  /\ t = asr.current /\ asr.bytes >= MinAudio
  /\ asr' = [asr EXCEPT !.committing = "waiting"]
  /\ Becomes("asked")
  /\ UNCHANGED <<pump, wire, told>>

Ready(failed) == [asr EXCEPT !.committing = "no", !.current = None, !.bytes = 0,
                             !.failure = @ \/ failed]

\* The acknowledgement wakes it;
CommitEnds ==
  /\ asr.committing = "acked"
  /\ asr' = Ready(FALSE)
  /\ UNCHANGED <<pump, item, wire, told>>

\* or ten seconds have passed, or _pump has failed: which item is whose is ambiguous now.
CommitFails ==
  /\ asr.committing \in {"waiting", "failed"}
  /\ asr' = Ready(TRUE)
  /\ UNCHANGED <<pump, item, wire, told>>

\* clear: an item that is not known yet may be of the input that is abandoned here.
Clear ==
  /\ Callable
  /\ asr.current # None
  /\ asr' = [asr EXCEPT !.finished = @ \cup {asr.current}, !.early = FALSE,
                        !.current = None, !.bytes = 0]
  /\ Becomes("abandoned")
  /\ UNCHANGED <<pump, wire, told>>

\* __aexit__
CloseConnection ==
  /\ pump # "closed"
  /\ pump' = "closed"
  /\ asr' = [asr EXCEPT !.committing = "no"]
  /\ UNCHANGED <<item, wire, told>>

-----------------------------------------------------------------------------
\* The provider (external).

Send(event) == Len(wire) < MaxWire /\ wire' = Append(wire, event)

Acknowledge(i) ==
  /\ item[i].state = "asked"
  /\ Send([kind |-> "committed", item |-> i])
  /\ item' = [item EXCEPT ![i].state = "committed"]
  /\ UNCHANGED <<asr, pump, told>>

\* Deltas come at any time; a buffer that is still filling has no final.
Recognize(i) ==
  /\ item[i].open
  /\ item[i].state \in {"filling", "committed", "abandoned"}
  /\ Send([kind |-> "delta", item |-> i])
  /\ UNCHANGED <<asr, pump, item, told>>

Finish(i) ==
  /\ item[i].open
  /\ item[i].state \in {"committed", "abandoned"}
  /\ \E kind \in {"completed", "failed"} : Send([kind |-> kind, item |-> i])
  /\ item' = [item EXCEPT ![i].open = FALSE]
  /\ UNCHANGED <<asr, pump, told>>

-----------------------------------------------------------------------------
\* _pump

\* An error of the provider, a disconnection or an acknowledgement nobody waits for: the
\* waiting commit fails, the conversation is told, and the connection is not used again.
PumpFails ==
  /\ pump = "running"
  /\ pump' = "ended"
  /\ asr' = [asr EXCEPT !.failure = TRUE,
                        !.committing = IF @ = "waiting" THEN "failed" ELSE @]
  /\ UNCHANGED <<item, wire, told>>

\* What an acknowledgement establishes.
Bound(i) ==
  [asr EXCEPT !.items[i] = asr.current, !.early = TRUE,
              !.quarantined = @ \ {i},
              !.committing = IF @ = "waiting" THEN "acked" ELSE @]

ReadAcknowledgement(i) ==
  /\ pump = "running"
  /\ wire # <<>> /\ Head(wire) = [kind |-> "committed", item |-> i]
  /\ wire' = Tail(wire)
  /\ IF asr.current = None \/ asr.committing = "no"
     THEN /\ asr' = [asr EXCEPT !.failure = TRUE]
          /\ pump' = "ended"
     ELSE asr' = Bound(i) /\ UNCHANGED pump
  /\ UNCHANGED <<item, told>>

\* The turn an event of i is for; None if it is for none. An item is bound by its first
\* event only while that can be no item of an abandoned input.
TurnOfLatest(i) ==
  IF i \in asr.quarantined \/ ~asr.early THEN None ELSE asr.current
TurnOf(i) ==
  IF i \in asr.quarantined THEN None
  ELSE IF asr.items[i] # None THEN asr.items[i]
  ELSE IF asr.early THEN asr.current ELSE None

ReadRecognized(kind, i) ==
  LET turn   == TurnOf(i)
      speaks == turn # None /\ turn \notin asr.finished
  IN /\ pump = "running"
     /\ wire # <<>> /\ Head(wire) = [kind |-> kind, item |-> i]
     /\ wire' = Tail(wire)
     /\ asr' = [asr EXCEPT
                  !.items[i] = IF turn # None THEN turn ELSE @,
                  !.quarantined = IF asr.items[i] = None /\ ~asr.early THEN @ \cup {i} ELSE @,
                  !.finished = IF speaks /\ kind # "delta" THEN @ \cup {turn} ELSE @]
     /\ told' = IF speaks THEN told \cup {[kind |-> kind, turn |-> turn, item |-> i]} ELSE told
     /\ UNCHANGED <<pump, item>>

-----------------------------------------------------------------------------
PumpReads ==
  \E i \in Item :
    ReadAcknowledgement(i) \/ \E kind \in Recognized : ReadRecognized(kind, i)

TranscriptionNext ==
  \/ \E t \in Turn : Append_(t) \/ Commit(t)
  \/ CommitEnds \/ CommitFails \/ Clear \/ CloseConnection
  \/ \E i \in Item : Acknowledge(i) \/ Recognize(i) \/ Finish(i)
  \/ PumpFails \/ PumpReads

TranscriptionSpec == TranscriptionInit /\ [][TranscriptionNext]_transcription

-----------------------------------------------------------------------------
\* Correctness.

TranscriptionTypeOK ==
  /\ asr \in [current : Turn \cup {None}, bytes : 0..MaxAudio, used : SUBSET Turn,
              items : [Item -> Turn \cup {None}], quarantined : SUBSET Item,
              finished : SUBSET Turn, committing : {"no", "waiting", "acked", "failed"},
              failure : BOOLEAN, early : BOOLEAN]
  /\ pump \in {"running", "ended", "closed"}
  /\ item \in [Item -> [state : ItemState, turn : Turn \cup {None}, open : BOOLEAN]]
  /\ wire \in Seq([kind : Recognized \cup {"committed"}, item : Item]) /\ Len(wire) <= MaxWire
  /\ told \subseteq [kind : Recognized, turn : Turn, item : Item]

\* "Out-of-order finals remain attached to the correct turn" (transcription.py:28): those of
\* committed items, whatever was cleared in between and however late they are; and a turn
\* has one final. Events of an input that was cleared before its commit are not meant: the
\* code binds them to the turn that comes next (transcription.py:215-217).
FinalsStayAttached ==
  /\ \A e \in told : item[e.item].state = "committed" => e.turn = OfTurn(e.item)
  /\ \A e, f \in told :
       e.turn = f.turn /\ e.kind # "delta" /\ f.kind # "delta" => e = f
=============================================================================
