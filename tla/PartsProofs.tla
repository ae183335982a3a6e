----------------------------- MODULE PartsProofs ------------------------------
(*****************************************************************************)
(* The parts together, for any value of their constants: a step of the whole *)
(* is a step of the chosen part, so what each part keeps the whole keeps.   *)
(*****************************************************************************)
EXTENDS MCParts, ChannelProofs, ScreenProofs, RecordsProofs

\* A step of the whole is one of the part it is about; the others rest.
LEMMA ChosenPartSteps ==
    ASSUME PartsNext
    PROVE  /\ part = "store" => ChatNext
           /\ part = "registry" => RegistryNext
           /\ part = "screen" => ScreenNext
           /\ part = "web" => WebChatNext
           /\ part = "voice" => RemoteVoiceNext
           /\ part = "ducking" => DuckingNext
           /\ part = "logs" => LogNext
           /\ part = "authority" => AuthorityNext
           /\ part = "settings" => SettingsNext
           /\ part = "page" => WebSettingsNext
           /\ part = "memory" => MemoryNext
           /\ part = "devices" => DevicesNext
           /\ part = "commands" => CommandsNext
           /\ part = "mcp" => McpTableNext
           /\ part = "enrollment" => EnrollmentNext
           /\ part = "wizard" => FirstRunNext
           /\ part = "enrolled" => DeviceRegistryNext
           /\ part = "servers" => LifecycleNext
           /\ part = "wake" => WakeListenerNext
           /\ part = "edge" => EdgeNodeNext
BY DEF PartsNext

LEMMA OtherPartsRest ==
    ASSUME PartsNext
    PROVE  /\ part # "store" => UNCHANGED chVars
           /\ part # "registry" => UNCHANGED rgVars
           /\ part # "screen" => UNCHANGED csVars
           /\ part # "web" => UNCHANGED wcVars
           /\ part # "voice" => UNCHANGED rvVars
           /\ part # "ducking" => UNCHANGED mdVars
           /\ part # "logs" => UNCHANGED lgVars
           /\ part # "authority" => UNCHANGED auVars
           /\ part # "settings" => UNCHANGED sdVars
           /\ part # "page" => UNCHANGED wsVars
           /\ part # "memory" => UNCHANGED meVars
           /\ part # "devices" => UNCHANGED dvVars
           /\ part # "commands" => UNCHANGED scVars
           /\ part # "mcp" => UNCHANGED mtVars
           /\ part # "enrollment" => UNCHANGED veVars
           /\ part # "wizard" => UNCHANGED frVars
           /\ part # "enrolled" => UNCHANGED drVars
           /\ part # "servers" => UNCHANGED mlVars
           /\ part # "wake" => UNCHANGED wlVars
           /\ part # "edge" => UNCHANGED enVars
           /\ UNCHANGED part
BY DEF PartsNext

\* A step of the whole is a step of each part, or leaves it alone.
LEMMA StepsOfParts ==
    ASSUME [PartsNext]_PartsVars
    PROVE  /\ [ChatNext]_chVars /\ [RegistryNext]_rgVars /\ [ScreenNext]_csVars /\ [WebChatNext]_wcVars
           /\ [RemoteVoiceNext]_rvVars /\ [DuckingNext]_mdVars /\ [LogNext]_lgVars /\ [AuthorityNext]_auVars
           /\ [SettingsNext]_sdVars /\ [WebSettingsNext]_wsVars /\ [MemoryNext]_meVars /\ [DevicesNext]_dvVars
           /\ [CommandsNext]_scVars /\ [McpTableNext]_mtVars /\ [EnrollmentNext]_veVars /\ [FirstRunNext]_frVars
           /\ [DeviceRegistryNext]_drVars /\ [LifecycleNext]_mlVars /\ [WakeListenerNext]_wlVars /\ [EdgeNodeNext]_enVars
           /\ UNCHANGED part
<1>1. CASE PartsNext
  BY <1>1, ChosenPartSteps, OtherPartsRest
<1>2. CASE UNCHANGED PartsVars
  BY <1>2 DEF PartsVars
<1> QED BY <1>1, <1>2

-----------------------------------------------------------------------------
(* The connections of the clients.                                         *)

ConnectionsInv ==
    /\ ChatInv
    /\ StoresInv /\ RoomInv
    /\ WebChatInv
    /\ LogInv

\* Each channel of the desktop and the web client keeps one live connection
\* while it is wanted and none when it is not: no reconnect, timer without an
\* owner, unmount, eviction or logout leaves a second socket, one out of
\* reach, a screen cut off for ever or a line waiting unshown.
THEOREM ConnectionsAreSoundHolds == PartsSpec => []ConnectionsAreSound
<1>1. ConnectionsInv => ConnectionsAreSound
  <2>1. ChatInv => OneLiveSocket /\ IdleStoreIsSilent /\ ChatReconnects /\ RunsAreReported
    BY DEF ChatInv, ChatSound
  <2>2. WebChatInv => WebOneSocket
    BY DEF WebChatInv, SocketInv
  <2>3. LogInv => LogOneSocket /\ LogReconnects /\ PendingIsFlushed
    BY DEF LogInv, LogConnInv
  <2> QED BY <2>1, <2>2, <2>3, RegistryIsSound DEF ConnectionsInv, ConnectionsAreSound
<1>2. PartsInit => ConnectionsInv
  <2> SUFFICES ASSUME PartsInit PROVE ConnectionsInv
    OBVIOUS
  <2>1. ChatInit /\ RegistryInit /\ WebChatInit /\ LogInit
    BY DEF PartsInit
  <2> QED BY <2>1, ChatInitInv, RegistryStart, WebChatInitInv, LogStart DEF ConnectionsInv
<1>3. ASSUME ConnectionsInv, [PartsNext]_PartsVars PROVE ConnectionsInv'
  <2>1. ChatInv' /\ StoresInv' /\ RoomInv' /\ WebChatInv' /\ LogInv'
    BY <1>3, StepsOfParts, ChatStepInv, RegistryStep, WebChatStepInv, LogStep DEF ConnectionsInv
  <2> QED BY <2>1 DEF ConnectionsInv
<1> QED BY <1>1, <1>2, <1>3, PTL DEF PartsSpec

-----------------------------------------------------------------------------
(* The records of the backend and its nodes.                               *)

\* A device that the user was told is revoked or deleted is let in no more,
\* and the mirror that every handshake is judged by says what the table says,
\* but for the one request whose commit has not come back (revoke, delete and
\* is_active of storage/devices.py), whatever overlaps, fails or is restarted.
THEOREM TurnedOutStayOutHolds == PartsSpec => [](MirrorIsTheTable /\ TurnedOutStayOut)
<1>1. PartsInit => DrInv
  BY DrStart DEF PartsInit
<1>2. ASSUME DrInv, [PartsNext]_PartsVars PROVE DrInv'
  <2> SUFFICES [DeviceRegistryNext]_drVars
    BY <1>2, DrStep
  <2> QED BY <1>2, StepsOfParts
<1>3. DrInv => MirrorIsTheTable /\ TurnedOutStayOut
  BY DEF DrInv, LockInv, OutInv, Out, TurnedOutStayOut, IsActive
<1> QED BY <1>1, <1>2, <1>3, PTL DEF PartsSpec

\* A node never runs two syntheses at once, gets its permit back from every
\* one that timed out or was cancelled, and takes no task of a lost connection
\* into the next (synthesize and _cancel_requests of edge/daemon.py).
THEOREM PermitIsInOnePlaceHolds == PartsSpec => [](PermitIsInOnePlace /\ TasksAreOfTheConnection)
<1>1. PartsInit => PermitInv /\ TasksInv
  BY EdgeStart DEF PartsInit
<1>2. ASSUME PermitInv, TasksInv, [PartsNext]_PartsVars PROVE PermitInv' /\ TasksInv'
  <2> SUFFICES [EdgeNodeNext]_enVars
    BY <1>2, PermitStays, TasksStay
  <2> QED BY <1>2, StepsOfParts
<1>3. PermitInv /\ TasksInv => PermitIsInOnePlace /\ TasksAreOfTheConnection
  <2> SUFFICES ASSUME PermitInv, TasksInv PROVE PermitIsInOnePlace /\ TasksAreOfTheConnection
    OBVIOUS
  <2>1. PermitIsInOnePlace
    BY DEF PermitInv, Placed, Unloading, Synthesis, PermitIsInOnePlace
  <2>2. \A r \in EdgeRequests : r \in Running <=> enAt[r] # "none"
    BY DEF Running
  <2>3. TasksAreOfTheConnection
    BY <2>2 DEF TasksInv, Running, TasksAreOfTheConnection
  <2> QED BY <2>1, <2>3
<1> QED BY <1>1, <1>2, <1>3, PTL DEF PartsSpec

RecordsInv ==
    /\ part = "authority" => AuthorityInv
    /\ LifecycleInv
    /\ WakeInv

LEMMA RecordsStart == PartsInit => RecordsInv
<1> SUFFICES ASSUME PartsInit PROVE RecordsInv
  OBVIOUS
<1>1. part = "authority" => AuthorityInit
  BY DEF PartsInit
<1>2. LifecycleInit /\ WakeInit
  BY DEF PartsInit
<1> QED BY <1>1, <1>2, AuthorityStart, InitLifecycle, InitWake DEF RecordsInv

LEMMA RecordsStep ==
    ASSUME RecordsInv, [PartsNext]_PartsVars
    PROVE  RecordsInv'
<1>1. part = "authority" => AuthorityInv'
  BY StepsOfParts, AuthorityStep DEF RecordsInv
<1>2. LifecycleInv' /\ WakeInv'
  BY StepsOfParts, LifecycleKeepsInv, WakeListenerKeepsInv DEF RecordsInv
<1>3. part' = part
  BY StepsOfParts
<1> QED BY <1>1, <1>2, <1>3 DEF RecordsInv

\* What the program believes is so, for any values of the constants: the token
\* in use belongs to the backend that is trusted, the mirror of the devices is
\* their table, tools are routed to servers that are connected as they are
\* configured, a microphone streams for the claim it made, and a node keeps
\* its one permit.
THEOREM RecordsAreTrueHolds == PartsSpec => []RecordsAreTrue
<1>1. PartsSpec => []RecordsInv
  BY RecordsStart, RecordsStep, PTL DEF PartsSpec
<1>2. ASSUME RecordsInv, MirrorIsTheTable /\ TurnedOutStayOut, PermitIsInOnePlace /\ TasksAreOfTheConnection
      PROVE  RecordsAreTrue
  <2>1. part = "authority" => LoadedTokenIsOfTheAuthority
    BY <1>2 DEF RecordsInv, AuthorityInv, TokenInv
  <2>2. RoutesLead /\ ConnectedAsConfigured
    BY <1>2, RoutesLeadFollows, ConnectedFollows DEF RecordsInv
  <2>3. RequestsAreServed
    BY <1>2 DEF RecordsInv, LifecycleInv, CallsInv
  <2>4. VerdictsAreCurrent /\ OneCapture
    BY <1>2, VerdictsFollow DEF RecordsInv, WakeInv
  <2> QED BY <1>2, <2>1, <2>2, <2>3, <2>4 DEF RecordsAreTrue
<1> QED BY <1>1, <1>2, TurnedOutStayOutHolds, PermitIsInOnePlaceHolds, PTL

\* Neither the native side nor the client goes from one server to another
\* while its origin stays, whatever resolutions, saves and replacements of
\* servers overlap.
THEOREM AuthorityIsPinnedInParts == PartsSpec => AuthorityIsPinned
<1>1. PartsSpec => []RecordsInv
  BY RecordsStart, RecordsStep, PTL DEF PartsSpec
<1> DEFINE Pinned == [/\ auActive' = auActive /\ auPin # NoServer => auPin' \in {auPin, NoServer}
                      /\ auBase' = auBase /\ auIdentity # NoServer => auIdentity' \in {auIdentity, NoServer}]_auVars
<1>2. RecordsInv /\ [PartsNext]_PartsVars => Pinned
  <2> SUFFICES ASSUME RecordsInv, [PartsNext]_PartsVars PROVE Pinned
    OBVIOUS
  <2>1. CASE part = "authority"
    BY <2>1, StepsOfParts, PinnedStep DEF RecordsInv
  <2>2. CASE part # "authority"
    <3>1. UNCHANGED auVars
      BY <2>2 DEF PartsNext, PartsVars
    <3> QED BY <3>1
  <2> QED BY <2>1, <2>2
<1> QED BY <1>1, <1>2, PTL DEF PartsSpec, AuthorityIsPinned

-----------------------------------------------------------------------------
(* The screens of the clients.                                             *)

\* The web page and the MCP tables have their invariant where they start as
\* their modules say; at rest all their requests are under way.
ScreensInv ==
    /\ ScreenInv /\ DuckingInv /\ CommandsInv /\ SettingsInv
    /\ SetupInv /\ MemoryInv /\ PanelInv /\ EnrollmentInv
    /\ part = "page" => WebSettingsInv
    /\ part = "mcp" => McpInv

LEMMA ScreensStart == PartsInit => ScreensInv
<1> SUFFICES ASSUME PartsInit PROVE ScreensInv
  OBVIOUS
<1>1. ScreenInv /\ DuckingInv /\ CommandsInv /\ EnrollmentInv
  BY ScreenStart, DuckingStart, CommandsStart, EnrollmentStart DEF PartsInit
<1>2. SettingsInv
  BY SettingsStart, SettingsRest DEF PartsInit
<1>3. SetupInv
  <2>1. WizardOpens /\ frProvider \in KeyedProviders \cup {LocalProvider}
    BY DEF PartsInit, FirstRunInit
  <2> QED BY <2>1, SetupStart DEF Providers
<1>4. MemoryInv
  BY MemoryStart DEF PartsInit, MemoryInit
<1>5. PanelInv
  BY PanelStart DEF PartsInit, DevicesInit
<1>6. /\ part = "page" => WebSettingsInv
      /\ part = "mcp" => McpInv
  BY WebSettingsStart, McpTableStart DEF PartsInit
<1> QED BY <1>1, <1>2, <1>3, <1>4, <1>5, <1>6 DEF ScreensInv

LEMMA ScreensStep ==
    ASSUME ScreensInv, [PartsNext]_PartsVars
    PROVE  ScreensInv'
<1>1. ScreenInv' /\ DuckingInv' /\ CommandsInv' /\ SettingsInv'
  BY StepsOfParts, ScreenStep, DuckingStep, CommandsStep, SettingsStep DEF ScreensInv
<1>2. SetupInv' /\ MemoryInv' /\ PanelInv' /\ EnrollmentInv'
  BY StepsOfParts, SetupStep, MemoryStep, PanelStep, EnrollmentStep DEF ScreensInv
<1>3. /\ part = "page" => WebSettingsInv'
      /\ part = "mcp" => McpInv'
  BY StepsOfParts, WebSettingsStep, McpTableStep DEF ScreensInv
<1>4. part' = part
  BY StepsOfParts
<1> QED BY <1>1, <1>2, <1>3, <1>4 DEF ScreensInv

\* A screen of settings says what is so, for any number of requests at one
\* time, rows, entries, providers, takes and seconds: secrets survive its
\* saves, nobody is locked out by half of a save, no default is left without
\* its key, what is shown is the backend's unless something overtook it, and
\* no screen stays busy with nothing under way.
THEOREM ScreensAreTrueHolds == PartsSpec => []ScreensAreTrue
<1>1. ASSUME ScreensInv PROVE ScreensAreTrue
  <2>1. EntriesKeepTheirText /\ MemorySavingEnds
    BY <1>1, MemoryFollows DEF ScreensInv
  <2>2. part = "page" => WebSecretsAreKept /\ LoginNeedsPassword /\ FallbackIsAnother /\ LoadingEnds
    BY <1>1, WebSettingsFollow DEF ScreensInv
  <2>3. part = "mcp" => StoredSecretsSurvive /\ TableIsTrue /\ McpBusyEnds
    BY <1>1, McpFollows DEF ScreensInv
  <2>4. RowsAreTrue /\ DevicesBusyEnds
    BY <1>1, PanelFollows DEF ScreensInv
  <2>5. DefaultHasItsKey /\ CodeIsAlive /\ SetupBusyEnds /\ NodeIsEnrolled
    BY <1>1, SetupFollows DEF ScreensInv
  <2>6. CleanMeansInForce
    BY <1>1, CommandsFollow DEF ScreensInv
  <2>7. EnrollmentMicCloses /\ SamplesFit /\ EnrollmentBusyEnds /\ EnrolledIsTrue
    BY <1>1, EnrollmentFollows DEF ScreensInv
  <2> QED BY <2>1, <2>2, <2>3, <2>4, <2>5, <2>6, <2>7 DEF ScreensAreTrue
<1> QED BY <1>1, ScreensStart, ScreensStep, PTL DEF PartsSpec

\* The conversation that becomes the active one is the one the user asked for
\* last: an answer that was overtaken is dropped, whatever lists, details and
\* deletions are under way (openConversation of the desktop's Chat.tsx).
THEOREM OvertakenAnswersAreDroppedHolds == PartsSpec => OvertakenAnswersAreDropped
<1> DEFINE AskedFor == [csActive' \notin {csActive, NoChat} => csActive' = csChoice]_csVars
<1>1. ScreensInv /\ [PartsNext]_PartsVars => AskedFor
  <2> SUFFICES ASSUME ScreensInv, [PartsNext]_PartsVars PROVE AskedFor
    OBVIOUS
  <2>1. ScreenInv /\ [ScreenNext]_csVars
    BY StepsOfParts DEF ScreensInv
  <2> QED BY <2>1, ShownIsAskedFor
<1> QED BY <1>1, ScreensStart, ScreensStep, PTL DEF PartsSpec, OvertakenAnswersAreDropped

\* Nothing the user counts on is dropped by a step that is about something
\* else: a line of the log goes with the screen's button or the shutdown only,
\* an edit with its own discard or a request the backend confirmed; no stored
\* secret becomes blank; a command for the volume of other media is skipped
\* only when it is in force; and the configuration stays under a mounted tab
\* unless two reads overlapped.
THEOREM NothingIsLostHolds == PartsSpec => NothingIsLost
<1>1. PartsSpec => []ScreensInv
  BY ScreensStart, ScreensStep, PTL DEF PartsSpec
<1> DEFINE NoLineIsLost == [\/ lgShown \cup lgPending \subseteq (lgShown \cup lgPending)'
                            \/ ClearLog
                            \/ LogShutDown]_lgVars
           NoEditIsLost ==
               [\A f \in Fields :
                   sdEdits[f] # NoEdit /\ sdEdits'[f] = NoEdit =>
                      \/ Discard(GroupOf[f])
                      \/ \E c \in DraftCalls : /\ sdCalls[c].group = GroupOf[f]
                                               /\ sdCalls[c].at = "done"
                                               /\ sdCalls'[c] # sdCalls[c]]_sdVars
           TabStays == [~wsOverlap /\ TabShown => wsConfig' = wsConfig]_wsVars
<1>2. [PartsNext]_PartsVars => NoLineIsLost
  BY StepsOfParts, LinesStay
<1>3. ScreensInv /\ [PartsNext]_PartsVars => NoEditIsLost
  <2> SUFFICES ASSUME ScreensInv, [PartsNext]_PartsVars PROVE NoEditIsLost
    OBVIOUS
  <2>1. SettingsInv /\ [SettingsNext]_sdVars
    BY StepsOfParts DEF ScreensInv
  <2> QED BY <2>1, EditsStay
<1>4. ScreensInv /\ [PartsNext]_PartsVars => TabStays
  <2> SUFFICES ASSUME ScreensInv, [PartsNext]_PartsVars PROVE TabStays
    OBVIOUS
  <2>1. CASE part = "page"
    <3>1. WebSettingsInv /\ [WebSettingsNext]_wsVars
      BY <2>1, StepsOfParts DEF ScreensInv
    <3> QED BY <3>1, ConfigStays
  <2>2. CASE part # "page"
    <3>1. UNCHANGED wsVars
      BY <2>2, OtherPartsRest DEF PartsVars
    <3> QED BY <3>1
  <2> QED BY <2>1, <2>2
<1>5. ScreensInv => SecretsAreKept /\ SkipsOnlyWhatIsInForce
  BY SettingsFollow DEF ScreensInv, DuckingInv
<1>6. PartsSpec => LinesAreKept
  BY <1>2, PTL DEF PartsSpec, LinesAreKept
<1>7. PartsSpec => EditsAreKept
  BY <1>1, <1>3, PTL DEF PartsSpec, EditsAreKept
<1>8. PartsSpec => TabShowsConfig
  BY <1>1, <1>4, PTL DEF PartsSpec, TabShowsConfig
<1>9. PartsSpec => []SecretsAreKept /\ []SkipsOnlyWhatIsInForce
  BY <1>1, <1>5, PTL
<1> QED BY <1>6, <1>7, <1>8, <1>9, PTL DEF NothingIsLost

-----------------------------------------------------------------------------
(* The chat page, the microphone, and the types of all parts.              *)

\* No conversation leaks into another in the web client, as in its own
\* specification.
THEOREM PageShowsItsSessionInParts == PartsSpec => []PageShowsItsSession
<1>1. WebChatInv => PageShowsItsSession
  BY DEF WebChatInv, SocketInv, FollowInv, PageShowsItsSession
<1>2. PartsInit => WebChatInv
  BY WebChatInitInv DEF PartsInit
<1>3. WebChatInv /\ [PartsNext]_PartsVars => WebChatInv'
  BY StepsOfParts, WebChatStepInv
<1> QED BY <1>1, <1>2, <1>3, PTL DEF PartsSpec

\* The microphone of push-to-talk captures only for a key that is held, as
\* in its own specification.
THEOREM MicrophoneIsHeldInParts == PartsSpec => []MicrophoneIsHeld
<1>1. RemoteVoiceInv => MicrophoneIsHeld
  BY DEF RemoteVoiceInv, CurrentInv, MicrophoneIsHeld
<1>2. PartsInit => RemoteVoiceInv
  BY RemoteVoiceInitInv DEF PartsInit
<1>3. RemoteVoiceInv /\ [PartsNext]_PartsVars => RemoteVoiceInv'
  BY StepsOfParts, RemoteVoiceStepInv
<1> QED BY <1>1, <1>2, <1>3, PTL DEF PartsSpec

\* The invariants that only the types need.
RangesInv ==
    /\ part \in Parts
    /\ ChatInv /\ StoresInv /\ RoomInv
    /\ WebTypesInv
    /\ RemoteVoiceInv
    /\ LogCounts /\ LogRest
    /\ DrInv /\ CodesInv
    /\ PermitInv

\* Every variable of every part stays in its range.
THEOREM PartsTypeCorrect == PartsSpec => []PartsTypeOK
<1>1. PartsInit => RangesInv
  BY ChatInitInv, RegistryStart, WebTypesStart, RemoteVoiceInitInv, LogTypesStart, DrStart, CodesStart, EdgeStart
     DEF PartsInit, RangesInv
<1>2. ASSUME RangesInv, [PartsNext]_PartsVars PROVE RangesInv'
  <2>1. ChatInv' /\ StoresInv' /\ RoomInv' /\ WebTypesInv' /\ RemoteVoiceInv'
    BY <1>2, StepsOfParts, ChatStepInv, RegistryStep, WebTypesStep, RemoteVoiceStepInv DEF RangesInv
  <2>2. LogCounts' /\ LogRest' /\ DrInv' /\ CodesInv' /\ PermitInv'
    BY <1>2, StepsOfParts, LogCountsStep, LogRestStep, DrStep, CodesStep, PermitStays DEF RangesInv
  <2>3. part' \in Parts
    BY <1>2, StepsOfParts DEF RangesInv
  <2> QED BY <2>1, <2>2, <2>3 DEF RangesInv
<1>3. ASSUME RangesInv, RecordsInv, ScreensInv PROVE PartsTypeOK
  <2>1. /\ part = "authority" => AuthorityTypeOK
        /\ LifecycleTypeOK /\ WakeTypeOK /\ DevicesTypeOK /\ EdgeTypeOK
    BY <1>3, DrTypesFollow DEF RecordsInv, RangesInv, AuthorityInv, LifecycleInv, WakeInv, PermitInv
  <2>2. MemoryTypeOK /\ SettingsTypeOK /\ DeviceTypeOK /\ FirstRunTypeOK /\ EnrollmentTypeOK
    BY <1>3, MemoryFollows, SettingsFollow, PanelFollows, SetupFollows, EnrollmentFollows DEF ScreensInv
  <2>3. /\ part = "page" => WebSettingsTypeOK
        /\ part = "mcp" => McpTableTypeOK
        /\ ScreenTypeOK /\ DuckingTypeOK /\ CommandsTypeOK
    BY <1>3, WebSettingsFollow, McpFollows DEF ScreensInv, ScreenInv, DuckingInv, CommandsInv
  <2>4. WebChatTypeOK /\ ChatTypeOK /\ RegistryTypeOK /\ RemoteVoiceTypeOK /\ LogTypeOK
    BY <1>3, RegistryTypes, LogTypesFollow DEF RangesInv, WebTypesInv, ChatInv, RemoteVoiceInv
  <2> QED BY <1>3, <2>1, <2>2, <2>3, <2>4, PartsAssumption DEF PartsAssumption, RangesInv, PartsTypeOK
<1>4. PartsSpec => []RecordsInv
  BY RecordsStart, RecordsStep, PTL DEF PartsSpec
<1>5. PartsSpec => []ScreensInv
  BY ScreensStart, ScreensStep, PTL DEF PartsSpec
<1> QED BY <1>1, <1>2, <1>3, <1>4, <1>5, PTL DEF PartsSpec
=============================================================================
