--------------------------- MODULE ServicesProofs ---------------------------
(***************************************************************************)
(* The components side by side: a behavior of MCServices is a behavior of  *)
(* each of them, so what was proved of each holds together.                *)
(***************************************************************************)
EXTENDS MCServices, StoreProofs, CallProofs, VoiceProofs

\* Every step of the services is a step, or a stutter, of each component.
LEMMA StepOfEach ==
  ASSUME [Next]_Services
  PROVE  /\ [TranscriptionNext]_transcription /\ [LiveNext]_liveCall /\ [RunnerNext]_callRunner
         /\ [PhoneTurnNext]_phoneTurn /\ [OutboundNext]_outboundCalls
         /\ [InvitesNext]_inviteCalls /\ [ToolsNext]_toolCalls /\ [BridgeNext]_realtime
         /\ [PipelineNext]_voicePipeline /\ [FaceNext]_faces /\ [JsonFacesNext]_jsonFaces
         /\ [CatalogNext]_catalogStore /\ [SettingsNext]_settingsStore /\ [AdminNext]_adminAuth
         /\ [AnnouncementsNext]_announcedCalls
<1>1. CASE UNCHANGED Services
  BY <1>1 DEF Services
<1>2. CASE Next
  BY <1>2 DEF Next, Alone, Rest
<1>3. QED
  BY <1>1, <1>2

\* A behavior of the services is one of each component.
LEMMA EachRuns ==
  Spec => /\ TranscriptionSpec /\ LiveSpec /\ RunnerSpec /\ PhoneTurnSpec /\ OutboundSpec
          /\ InvitesSpec /\ ToolsSpec /\ BridgeSpec /\ PipelineSpec /\ FaceSpec
          /\ JsonFacesSpec /\ CatalogSpec /\ SettingsSpec /\ AdminSpec /\ AnnouncementsSpec
<1>1. Init => /\ TranscriptionInit /\ LiveInit /\ RunnerInit /\ PhoneTurnInit /\ OutboundInit
              /\ InvitesInit /\ ToolsInit /\ BridgeInit /\ PipelineInit /\ FaceInit
              /\ JsonFacesInit /\ CatalogInit /\ SettingsInit /\ AdminInit
              /\ AnnouncementsInit
  BY DEF Init
<1>2. [Next]_Services =>
        /\ [TranscriptionNext]_transcription /\ [LiveNext]_liveCall /\ [RunnerNext]_callRunner
        /\ [PhoneTurnNext]_phoneTurn /\ [OutboundNext]_outboundCalls
        /\ [InvitesNext]_inviteCalls /\ [ToolsNext]_toolCalls /\ [BridgeNext]_realtime
        /\ [PipelineNext]_voicePipeline /\ [FaceNext]_faces /\ [JsonFacesNext]_jsonFaces
        /\ [CatalogNext]_catalogStore /\ [SettingsNext]_settingsStore /\ [AdminNext]_adminAuth
        /\ [AnnouncementsNext]_announcedCalls
  BY StepOfEach
<1>3. QED
  BY <1>1, <1>2, PTL DEF Spec, TranscriptionSpec, LiveSpec, RunnerSpec, PhoneTurnSpec,
     OutboundSpec, InvitesSpec, ToolsSpec, BridgeSpec, PipelineSpec, FaceSpec, JsonFacesSpec,
     CatalogSpec, SettingsSpec, AdminSpec, AnnouncementsSpec

LEMMA PartStays == Spec => [](part \in Part)
<1>1. Init => part \in Part
  BY DEF Init
<1>2. (part \in Part) /\ [Next]_Services => (part \in Part)'
  BY DEF Next, Alone, Services
<1>3. QED
  BY <1>1, <1>2, PTL DEF Spec

\* Every variable of every component stays in its type.
THEOREM ServicesTyped == Spec => []TypesOK
<1>1. /\ part \in Part
      /\ TranscriptionTypeOK /\ LiveTypeOK /\ RunnerTypeOK /\ PhoneTurnTypeOK
      /\ OutboundTypeOK /\ InvitesTypeOK /\ ToolsTypeOK /\ BridgeTypeOK /\ PipelineTypeOK
      /\ FaceTypeOK /\ CatalogTypeOK /\ SettingsTypeOK /\ AdminTypeOK /\ JsonFacesTypeOK
      /\ AnnouncementsTypeOK
      => TypesOK
  BY DEF TypesOK
<1>2. QED
  BY <1>1, EachRuns, PartStays, FinalsAttached, LiveKeepsWords, RunnerEndsClean, PhoneWordsOnce,
     OutboundDialsOnce, InvitesBridgeOnce, AnnouncedLegsFollowed, ToolsStayInQuota, ToolLoopsEnd,
     PipelineTypeCorrect, FacesNeverLost, JsonFileKeeps, CatalogBootstrap, SettingsPrecedence,
     AdminTypeCorrect, PTL

\* What a caller says is answered once, and once more for each turn that committed although
\* its task was cancelled, on the telephone and, unless two cancellations overlapped, in the
\* browser.
THEOREM WordsAnsweredOnce == Spec => []WordsOnce
<1>1. WordsRoutedOnce /\ PhoneWordsAnsweredOnce => WordsOnce
  BY DEF WordsOnce
<1>2. QED
  BY <1>1, EachRuns, LiveKeepsWords, PhoneWordsOnce, PTL

\* A request dials one call, a call is bridged by one session, and a leg that is not announced
\* again while it is being routed is one call.
THEOREM CallsStaySingle == Spec => []CallsAreSingle
<1>1. OneDialPerKey /\ OneSessionPerCall /\ LegsAreFollowed => CallsAreSingle
  BY DEF CallsAreSingle
<1>2. QED
  BY <1>1, EachRuns, OutboundDialsOnce, InvitesBridgeOnce, AnnouncedLegsFollowed, PTL

\* The tools of a realtime session and of a telephone call stay within their budgets, but for
\* the continuation of a tool that an input overtook.
THEOREM ToolsStayBounded == Spec => []ToolsBounded
<1>1. ToolLoopBounded /\ ToolQuotaHolds => ToolsBounded
  BY DEF ToolsBounded
<1>2. QED
  BY <1>1, EachRuns, ToolLoopsEnd, ToolsStayInQuota, PTL

\* In PostgreSQL no sample is lost, and without deletions an identification misses no earlier
\* face; the JSON file keeps what was answered unless two requests wrote at the same time.
THEOREM FacesStay == Spec => []FacesAreKept
<1>1. NoFaceIsLost /\ FileKeepsAnswers => FacesAreKept
  BY DEF FacesAreKept
<1>2. QED
  BY <1>1, EachRuns, FacesNeverLost, JsonFileKeeps, PTL

\* Workers that start together fail on no scenario but by an administrator's edit inside the
\* bootstrap, and overwrite no edit but one between their read of an old default and commit.
THEOREM WorkersAgree == Spec => []BootstrapsAgree
<1>1. BootstrapSucceeds /\ EditsTakePrecedence => BootstrapsAgree
  BY DEF BootstrapsAgree
<1>2. QED
  BY <1>1, EachRuns, CatalogBootstrap, SettingsPrecedence, PTL
=============================================================================
