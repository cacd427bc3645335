----------------------------- MODULE MCServices -----------------------------
(***************************************************************************)
(* The components that share no state with each other, for TLC: a behavior *)
(* is one of exactly one of them, which the initial state chooses, while   *)
(* the others rest.                                                        *)
(***************************************************************************)
EXTENDS Transcription, Live, CallRunner, PhoneTurn, Outbound, Invites, ToolCalls,
        RealtimeBridge, VoicePipeline, FaceStore, JsonFaces, CatalogStore, SettingsStore,
        AdminAuth, Announcements

VARIABLE part     \* the component

Part == {"transcription", "live", "runner", "phoneturn", "outbound", "invites", "tools",
         "bridge", "pipeline", "faces", "json", "catalog", "settings",
         "admin", "announcements"}

\* The variables of each.
Rest(p) ==
  /\ p # "transcription" => UNCHANGED transcription
  /\ p # "live"          => UNCHANGED liveCall
  /\ p # "runner"        => UNCHANGED callRunner
  /\ p # "phoneturn"     => UNCHANGED phoneTurn
  /\ p # "outbound"      => UNCHANGED outboundCalls
  /\ p # "invites"       => UNCHANGED inviteCalls
  /\ p # "tools"         => UNCHANGED toolCalls
  /\ p # "bridge"        => UNCHANGED realtime
  /\ p # "pipeline"      => UNCHANGED voicePipeline
  /\ p # "faces"         => UNCHANGED faces
  /\ p # "json"          => UNCHANGED jsonFaces
  /\ p # "catalog"       => UNCHANGED catalogStore
  /\ p # "settings"      => UNCHANGED settingsStore
  /\ p # "admin"         => UNCHANGED adminAuth
  /\ p # "announcements" => UNCHANGED announcedCalls

Services ==
  <<part, transcription, liveCall, callRunner, phoneTurn, outboundCalls, inviteCalls,
    toolCalls, realtime, voicePipeline, faces, jsonFaces, catalogStore, settingsStore,
    adminAuth, announcedCalls>>
-----------------------------------------------------------------------------
Init ==
  /\ part \in Part
  /\ TranscriptionInit /\ LiveInit /\ RunnerInit /\ PhoneTurnInit /\ OutboundInit
  /\ InvitesInit /\ ToolsInit /\ BridgeInit /\ PipelineInit /\ FaceInit /\ CatalogInit
  /\ SettingsInit /\ AdminInit /\ JsonFacesInit /\ AnnouncementsInit
  /\ part # "invites" => header = [s \in Session |-> NoCallId]
  /\ part # "settings" => setting = [k \in SettingKey |-> "missing"]

Alone(p) == part = p /\ part' = p /\ Rest(p)

Next ==
  \/ Alone("transcription") /\ TranscriptionNext
  \/ Alone("live")          /\ LiveNext
  \/ Alone("runner")        /\ RunnerNext
  \/ Alone("phoneturn")     /\ PhoneTurnNext
  \/ Alone("outbound")      /\ OutboundNext
  \/ Alone("invites")       /\ InvitesNext
  \/ Alone("tools")         /\ ToolsNext
  \/ Alone("bridge")        /\ BridgeNext
  \/ Alone("pipeline")      /\ PipelineNext
  \/ Alone("faces")         /\ FaceNext
  \/ Alone("json")          /\ JsonFacesNext
  \/ Alone("catalog")       /\ CatalogNext
  \/ Alone("settings")      /\ SettingsNext
  \/ Alone("admin")         /\ AdminNext
  \/ Alone("announcements") /\ AnnouncementsNext

Spec == Init /\ [][Next]_Services /\ LiveFairness
-----------------------------------------------------------------------------
\* Every variable of every component stays in its type.
TypesOK ==
  /\ part \in Part
  /\ TranscriptionTypeOK /\ LiveTypeOK /\ RunnerTypeOK /\ PhoneTurnTypeOK /\ OutboundTypeOK
  /\ InvitesTypeOK /\ ToolsTypeOK /\ BridgeTypeOK /\ PipelineTypeOK /\ FaceTypeOK
  /\ CatalogTypeOK /\ SettingsTypeOK /\ AdminTypeOK /\ JsonFacesTypeOK /\ AnnouncementsTypeOK

\* What a caller says is answered once, in the browser (multi_agent/live.py:210) as on the
\* telephone (app/phone/runtime.py:204-211), and once more for each turn that committed
\* although its task was cancelled (wait_for lost the cancellation). In the browser only
\* unless two cancellations overlapped, when one of them forgets the other's task.
WordsOnce == WordsRoutedOnce /\ PhoneWordsAnsweredOnce

\* A request dials one call, however often it is sent (telephony/application.py:116), and
\* a call is bridged by one session, however many invites name it (:313), and a leg is one
\* call (:161), unless it is announced again while its announcement is still routed: then
\* the code makes it two, and this says nothing of it.
CallsAreSingle == OneDialPerKey /\ OneSessionPerCall /\ LegsAreFollowed

\* Tools stay within their budgets: the turns of a realtime session (v2v/realtime.py:295)
\* and the calls of a telephone call (telephony/tools.py:167). The response that continues
\* a tool which was called before an input and ended after it is not counted to either turn.
ToolsBounded == ToolLoopBounded /\ ToolQuotaHolds

\* What was enrolled is kept. In PostgreSQL (faceid/sql.py:271) samples and embeddings agree
\* in every history, and an identification misses no earlier face if nothing was deleted
\* (a deletion can leave the cached matrix stale). The JSON file (faceid/store.py:117) has
\* what was answered unless two requests wrote at the same time, which can lose it.
FacesAreKept == NoFaceIsLost /\ FileKeepsAnswers

\* Workers that start together do not fail on each other's scenarios (app/db/repository.py:92),
\* but may on an administrator's edit inside the bootstrap; and they overwrite nothing that an
\* administrator wrote (:46), but an edit between their read of an old default and their
\* commit. Of a second worker that fails on an empty settings table this says nothing.
BootstrapsAgree == BootstrapSucceeds /\ EditsTakePrecedence
=============================================================================
