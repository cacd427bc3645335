---------------------------- MODULE VoicePipeline ----------------------------
(***************************************************************************)
(* The turns of one session in VoicePipeline (v2v/pipeline.py) over        *)
(* InMemorySessionStore (v2v/sessions.py), as the requests of v2v/router.py*)
(* make them.                                                              *)
(*                                                                         *)
(* The store's lock is never held across an await, so its methods do not   *)
(* wait for each other: a reply is what happens before the model is asked, *)
(* and what happens after it answered.                                     *)
(*                                                                         *)
(* Abstracted: texts (a message names the reply it is of), audio, and the  *)
(* stream of speech, which is read after the turn and changes nothing.     *)
(***************************************************************************)
EXTENDS Naturals, Sequences

CONSTANTS
  MaxReplies,      \* bound: chat and voice turns
  MaxKept,         \* max_messages
  MaxInput,        \* max_history_turns
  MaxForgets       \* bound: deletions of the session

ASSUME PipelineAssumption == {MaxReplies, MaxKept, MaxInput, MaxForgets} \subseteq Nat

VARIABLES
  voiceSession,  \* the Session of the id, if _data has one
  reply,         \* the turns
  forgotten      \* bound: how often it was deleted

voicePipeline == <<voiceSession, reply, forgotten>>

Reply == 1..MaxReplies
NoResponse == 0
Message == [role : {"user", "assistant"}, of : Reply]
NoSession == [known |-> FALSE, messages |-> <<>>, last |-> NoResponse]
-----------------------------------------------------------------------------
PipelineInit ==
  /\ voiceSession = NoSession
  /\ reply = [r \in Reply |-> [at |-> "new", input |-> <<>>]]
  /\ forgotten = 0

\* as_input. (A slice from -0 is the whole history.)
LastMessages(s) ==
  IF MaxInput = 0 \/ Len(s) <= MaxInput THEN s ELSE SubSeq(s, (Len(s) - MaxInput) + 1, Len(s))

\* turn transcribes first; without speech, or if that fails, there is no reply.
Transcribe(r) ==
  /\ reply[r].at = "new" /\ \A q \in 1..r-1 : reply[q].at # "new"
  /\ \E at \in {"transcribed", "ended"} : reply' = [reply EXCEPT ![r].at = at]
  /\ UNCHANGED <<voiceSession, forgotten>>

\* reply, up to the model's answer: a session that is not known is created.
Ask(r) ==
  /\ reply[r].at = "transcribed"
  /\ voiceSession' = [voiceSession EXCEPT !.known = TRUE]
  /\ reply' = [reply EXCEPT ![r] = [at |-> "asking",
                                    input |-> LastMessages(voiceSession.messages)]]
  /\ UNCHANGED forgotten

\* append keeps the newest messages; set_response_id follows before anything else runs.
Trimmed(s) ==
  IF Len(s) <= MaxKept THEN s ELSE SubSeq(s, (Len(s) - MaxKept) + 1, Len(s))
Untrimmed(s) == s
TrimmedByOne(s) ==
  IF Len(s) < MaxKept THEN s ELSE SubSeq(s, (Len(s) - MaxKept) + 2, Len(s))
Kept(s) == Trimmed(s)

Record(r) ==
  /\ reply[r].at = "asking"
  /\ voiceSession' =
       [known |-> TRUE, last |-> r,
        messages |-> Kept(voiceSession.messages \o <<[role |-> "user", of |-> r],
                                                     [role |-> "assistant", of |-> r]>>)]
  /\ reply' = [reply EXCEPT ![r] = [at |-> "ended", input |-> <<>>]]
  /\ UNCHANGED forgotten

\* The model fails, or the client disconnects: nothing is recorded.
ReplyFails(r) ==
  /\ reply[r].at = "asking"
  /\ reply' = [reply EXCEPT ![r] = [at |-> "ended", input |-> <<>>]]
  /\ UNCHANGED <<voiceSession, forgotten>>

DeleteSession ==
  /\ forgotten < MaxForgets
  /\ forgotten' = forgotten + 1
  /\ voiceSession' = NoSession
  /\ UNCHANGED reply
-----------------------------------------------------------------------------
PipelineNext ==
  \/ \E r \in Reply : Transcribe(r) \/ Ask(r) \/ Record(r) \/ ReplyFails(r)
  \/ DeleteSession

PipelineSpec == PipelineInit /\ [][PipelineNext]_voicePipeline
-----------------------------------------------------------------------------
\* Correctness.

PipelineTypeOK ==
  /\ voiceSession \in [known : BOOLEAN, messages : Seq(Message), last : Reply \cup {NoResponse}]
  /\ Len(voiceSession.messages) <= MaxKept
  /\ reply \in [Reply -> [at : {"new", "transcribed", "asking", "ended"}, input : Seq(Message)]]
  /\ forgotten \in 0..MaxForgets

Exchanges(s) ==
  /\ Len(s) % 2 = 0
  /\ \A i \in 1..(Len(s) \div 2) :
       LET user == s[2 * i - 1]  assistant == s[2 * i]
       IN user.role = "user" /\ assistant.role = "assistant" /\ user.of = assistant.of

\* However replies of a session overlap, are trimmed or race its deletion: the history,
\* and what the model is given of it, is made of whole exchanges, and last_response_id is
\* the response of the last of them.
HistoryIsWhole ==
  /\ Exchanges(voiceSession.messages)
  /\ \A r \in Reply : Exchanges(reply[r].input)
  /\ LET kept == voiceSession.messages
     IN kept # <<>> => voiceSession.last = kept[Len(kept)].of
=============================================================================
