------------------------------- MODULE MCParts -------------------------------
(***************************************************************************)
(* The parts of the desktop and web clients, of a capability node and of   *)
(* the bookkeeping of the backend, each on a small instance.  The parts    *)
(* share no state, so they are not interleaved: "part" says which one a    *)
(* behaviour is about, the others stay as they are.  A run is about some   *)
(* of them.                                                                *)
(***************************************************************************)
EXTENDS ChatStore, ChatRegistry, ChatScreen, WebChat, RemoteVoice, MediaDucking,
        LogStream, BackendAuthority, SettingsDraft, WebSettings, MemoryTabs, DevicePanels,
        SafeCommands, McpTable, VoiceEnrollment, FirstRun,
        DeviceRegistry, McpLifecycle, WakeListener, EdgeNode, TLC

CONSTANTS f1, f2,
          Parts \* the parts a run is about

ASSUME PartsAssumption ==
    Parts \subseteq {"store", "registry", "screen", "web", "voice", "ducking", "logs", "authority", "settings", "page",
                     "memory", "devices", "commands", "mcp", "enrollment", "wizard", "enrolled", "servers", "wake", "edge"}

VARIABLE part

MCSockets  == {"w1", "w2"}
MCFlows    == {f1, f2}
MCToolRuns == {[server |-> s, tool |-> t] : s \in {"", "s"}, t \in {"", "t"}} \ {[server |-> "", tool |-> ""]}
MCServesAt == [s \in Servers |-> IF s = "b" THEN "B" ELSE "A"]

MCFields  == {"key", "limit", "prompt"}
MCGroups  == {"provider", "persona"}
MCGroupOf == [f \in MCFields |-> IF f = "prompt" THEN "persona" ELSE "provider"]
MCControl == [key |-> "secret", limit |-> "number", prompt |-> "text"]
MCViews   == {{"key", "limit"}, {"limit", "prompt"}}
MCInputs  == [key |-> {" ", "1"}, limit |-> {"1"}, prompt |-> {"1"}]

\* Only one of the servers is configured anew.
MCVersions == [s \in ToolServers |-> IF s = "s" THEN {1, 2} ELSE {1}]

MCTours   == {{t, "memory"} : t \in {"general", "llm", "voice", "whatsapp", "tools"}}
                 \cup {{"telegram", "server"}}

\* A part that is not chosen starts in one state.
Rests ==
    /\ IF part = "screen" THEN TRUE ELSE csServer = {} /\ csSession = "c1"
    /\ IF part = "web" THEN TRUE ELSE wcUrl = NoSessionYet /\ wcSession = "c1" /\ wcServer = {}
    /\ IF part = "ducking" THEN TRUE ELSE mdEnabled = FALSE /\ mdLevel = 100
    /\ IF part = "settings" THEN TRUE ELSE sdView = {"key", "limit"}
    /\ IF part = "page" THEN TRUE ELSE wsTour = {"llm", "memory"} /\ wsTab = "llm"
    /\ IF part = "memory" THEN TRUE ELSE meClient = "web"
    /\ IF part = "devices" THEN TRUE ELSE dvPanel = "web"
    /\ IF part = "mcp" THEN TRUE ELSE mtPage = "web"
    /\ IF part = "enrollment" THEN TRUE ELSE veClient = "web"
    /\ IF part = "servers" THEN TRUE ELSE mlConfig = [s \in ToolServers |-> NoServerConfig]

AuthorityRests ==
    /\ auUp = [A |-> "a1", B |-> "b"]
    /\ auActive = "A" /\ auBase = "A"
    /\ auPin = NoServer /\ auIdentity = NoServer
    /\ auComplete = FALSE /\ auDone = FALSE /\ auValid = FALSE
    /\ auToken = NoToken
    /\ auView = "booting"
    /\ auLatest = NoFlow
    /\ auFlow = [f \in AuthFlows |-> Quiet]
    /\ auAnswers = <<>>

PartsInit ==
    /\ part \in Parts
    /\ Rests
    /\ ChatInit /\ RegistryInit /\ ScreenInit /\ WebChatInit /\ RemoteVoiceInit /\ DuckingInit
    /\ LogInit
    /\ IF part = "authority" THEN AuthorityInit ELSE AuthorityRests
    /\ IF part = "settings" THEN SettingsInit ELSE SettingsOpen /\ sdCalls = [c \in DraftCalls |-> Read]
    /\ IF part = "page" THEN WebSettingsInit ELSE PageOpens /\ wsCalls = [c \in TabCalls |-> WsRead]
    /\ IF part = "memory" THEN MemoryInit ELSE MemoryOpens /\ meCalls = [c \in MemoryCalls |-> Listing]
    /\ IF part = "devices" THEN DevicesInit ELSE DevicesOpen /\ dvCalls = [c \in DeviceCalls |-> ListAsked]
    /\ CommandsInit
    /\ IF part = "mcp" THEN McpTableInit ELSE McpTableOpens /\ mtCalls = [c \in McpCalls |-> McpRead]
    /\ EnrollmentInit
    /\ IF part = "wizard" THEN FirstRunInit ELSE WizardOpens /\ frProvider = LocalProvider
    /\ DeviceRegistryInit /\ LifecycleInit /\ WakeInit /\ EdgeInit

PartsNext ==
    /\ UNCHANGED part
    /\ IF part = "store"      THEN TRUE ELSE UNCHANGED chVars
    /\ IF part = "registry"   THEN TRUE ELSE UNCHANGED rgVars
    /\ IF part = "screen"     THEN TRUE ELSE UNCHANGED csVars
    /\ IF part = "web"        THEN TRUE ELSE UNCHANGED wcVars
    /\ IF part = "voice"      THEN TRUE ELSE UNCHANGED rvVars
    /\ IF part = "ducking"    THEN TRUE ELSE UNCHANGED mdVars
    /\ IF part = "logs"       THEN TRUE ELSE UNCHANGED lgVars
    /\ IF part = "authority"  THEN TRUE ELSE UNCHANGED auVars
    /\ IF part = "settings"   THEN TRUE ELSE UNCHANGED sdVars
    /\ IF part = "page"       THEN TRUE ELSE UNCHANGED wsVars
    /\ IF part = "memory"     THEN TRUE ELSE UNCHANGED meVars
    /\ IF part = "devices"    THEN TRUE ELSE UNCHANGED dvVars
    /\ IF part = "commands"   THEN TRUE ELSE UNCHANGED scVars
    /\ IF part = "mcp"        THEN TRUE ELSE UNCHANGED mtVars
    /\ IF part = "enrollment" THEN TRUE ELSE UNCHANGED veVars
    /\ IF part = "wizard"     THEN TRUE ELSE UNCHANGED frVars
    /\ IF part = "enrolled"   THEN TRUE ELSE UNCHANGED drVars
    /\ IF part = "servers"    THEN TRUE ELSE UNCHANGED mlVars
    /\ IF part = "wake"       THEN TRUE ELSE UNCHANGED wlVars
    /\ IF part = "edge"       THEN TRUE ELSE UNCHANGED enVars
    /\ CASE part = "authority"  -> AuthorityNext
        [] part = "servers"    -> LifecycleNext
        [] part = "wake"       -> WakeListenerNext
        [] part = "memory"     -> MemoryNext
        [] part = "settings"   -> SettingsNext
        [] part = "page"       -> WebSettingsNext
        [] part = "web"        -> WebChatNext
        [] part = "mcp"        -> McpTableNext
        [] part = "devices"    -> DevicesNext
        [] part = "wizard"     -> FirstRunNext
        [] part = "store"      -> ChatNext
        [] part = "registry"   -> RegistryNext
        [] part = "screen"     -> ScreenNext
        [] part = "voice"      -> RemoteVoiceNext
        [] part = "ducking"    -> DuckingNext
        [] part = "logs"       -> LogNext
        [] part = "commands"   -> CommandsNext
        [] part = "enrollment" -> EnrollmentNext
        [] part = "enrolled"   -> DeviceRegistryNext
        [] part = "edge"       -> EdgeNodeNext

PartsVars == <<part, chVars, rgVars, csVars, wcVars, rvVars, mdVars, lgVars, auVars, sdVars,
               wsVars, meVars, dvVars, scVars, mtVars, veVars, frVars,
               drVars, mlVars, wlVars, enVars>>

PartsSpec == PartsInit /\ [][PartsNext]_PartsVars

\* Two requests, or two sockets, whichever is which: exact for two of them.
Alike(f) == {f[x] : x \in DOMAIN f}

SocketsAlike(ws, current) == Alike([w \in MCSockets |-> <<ws[w], w = current>>])

Unsigned(op) == [op EXCEPT !.call = f1]

\* What tells two states of a part apart, up to the names of its requests and sockets.
Chosen == CASE part = "authority"  -> <<part, auUp, auNative, auClient, auView,
                                        Alike([f \in AuthFlows |->
                                           <<auFlow[f], auLatest = f, {i \in DOMAIN auAnswers : auAnswers[i] = f}>>])>>
           [] part = "servers"    -> <<part, mlConfig, mlClients, mlDynamic, mlRegistry, mlRevived,
                                        [i \in DOMAIN mlOps |-> Unsigned(mlOps[i])],
                                        IF mlWorker = Resting THEN Resting ELSE [mlWorker EXCEPT !.op = Unsigned(@)],
                                        Alike([c \in LifecycleCalls |->
                                           <<mlCalls[c], {i \in DOMAIN mlOps : mlOps[i].call = c},
                                             mlWorker # Resting /\ mlWorker.op.call = c>>])>>
           [] part = "wake"       -> <<part, IF wlPolicy \in WakePolicies THEN "on" ELSE wlPolicy, wlStop, wlTurn,
                                        wlLoop.at, wlWire, wlTwin,
                                        Alike([t \in Captures |-> <<wlAt[t], wlMine[t], wlStreams[t],
                                                                    t = wlHandle, t = wlLoop.capture>>])>>
           [] part = "memory"     -> <<part, meClient, meServer, meList, meSaving, meDraft, meSelected,
                                        Alike(meCalls), meMissed>>
           [] part = "settings"   -> <<part, sdServer, sdConfig, sdLoaded, sdView, sdEdits, sdSaving,
                                        sdRestoring, Alike(sdCalls)>>
           [] part = "page"       -> <<part, wsServer, wsConfig, wsLoaded, wsLoading, wsPage, Alike(wsCalls), wsOverlap>>
           [] part = "web"        -> <<part, wcPage, wcRef, wcDue, wcLists, wcShown, wcConfirm,
                                        SocketsAlike(wcWs, wcSocket), wcHeard, wcSub, wcRetry>>
           [] part = "mcp"        -> <<part, mtPage, mtServer, mtRead, mtTable, Alike(mtCalls), mtPast>>
           [] part = "devices"    -> <<part, dvPanel, dvServer, dvList, dvBusy, dvConfirm, dvPair, Alike(dvCalls), dvBehind>>
           [] part = "wizard"     -> <<part, frEnrolled, frStep, frTyped, frSaved, frNode, frPhone, frBusy, frStatus,
                                        frSwitched, [frFlow EXCEPT !.provider = LocalProvider],
                                        Alike([p \in KeyedProviders |->
                                           <<p = frDefault, p \in frKeys, p = frProvider, p = frFlow.provider>>])>>
           [] part = "store"      -> <<part, chLifecycle, SocketsAlike(chWs, chSocket), chConnTimer, chRetry,
                                        chOrphan, chStatus, chAuthFailed, chTurn, chModal, chRuns>>
           [] part = "registry"   -> <<part, rgVars>>
           [] part = "screen"     -> <<part, csVars>>
           [] part = "voice"      -> <<part, rvVars>>
           [] part = "ducking"    -> <<part, mdVars>>
           [] part = "logs"       -> <<part, lgListeners, lgStopped, SocketsAlike(lgWs, lgSocket), lgConnTimer,
                                        lgRetry, lgOrphan, lgRefused, lgLines, lgSeeds>>
           [] part = "commands"   -> <<part, scVars>>
           [] part = "enrollment" -> <<part, veClient, veMounted, veFlags, veCrossed, veSamples, veServer, veEnrolled,
                                        veBusy, veBlurred, Alike(veRequest),
                                        Alike([t \in Takes |->
                                           <<veTake[t], t \in veLive, veLatest = t, veCurrent = t, veTimer = t>>])>>
           [] part = "enrolled"   -> <<part, drTable, drMirror, drJammed, Alike(drCalls), drCodes, drUsed, drTurnedOut>>
           [] part = "edge"       -> <<part, enVars>>

PartsTypeOK == CASE part = "authority"  -> AuthorityTypeOK
                [] part = "servers"    -> LifecycleTypeOK
                [] part = "wake"       -> WakeTypeOK
                [] part = "memory"     -> MemoryTypeOK
                [] part = "settings"   -> SettingsTypeOK
                [] part = "page"       -> WebSettingsTypeOK
                [] part = "web"        -> WebChatTypeOK
                [] part = "mcp"        -> McpTableTypeOK
                [] part = "devices"    -> DeviceTypeOK
                [] part = "wizard"     -> FirstRunTypeOK
                [] part = "store"      -> ChatTypeOK
                [] part = "registry"   -> RegistryTypeOK
                [] part = "screen"     -> ScreenTypeOK
                [] part = "voice"      -> RemoteVoiceTypeOK
                [] part = "ducking"    -> DuckingTypeOK
                [] part = "logs"       -> LogTypeOK
                [] part = "commands"   -> CommandsTypeOK
                [] part = "enrollment" -> EnrollmentTypeOK
                [] part = "enrolled"   -> DevicesTypeOK
                [] part = "edge"       -> EdgeTypeOK

\* Each channel of the desktop and the web client keeps one live connection
\* while it is wanted and none when it is not: reconnects, timers without an
\* owner, unmounts, evictions and logouts leave no second socket, no socket
\* out of reach, no screen cut off for ever and no line waiting unshown.
ConnectionsAreSound ==
    CASE part = "web"      -> WebOneSocket
     [] part = "store"    -> OneLiveSocket /\ IdleStoreIsSilent /\ ChatReconnects /\ RunsAreReported
     [] part = "registry" -> NoStoreEscapes
     [] part = "logs"     -> LogOneSocket /\ LogReconnects /\ PendingIsFlushed
     [] OTHER             -> TRUE

\* Nothing the user counts on is dropped by a step that is about something
\* else: log lines, edits of the settings, stored secrets, and the command that restores the
\* volume of other media.
NothingIsLost ==
    /\ LinesAreKept
    /\ EditsAreKept /\ []SecretsAreKept
    /\ []SkipsOnlyWhatIsInForce
    /\ TabShowsConfig

\* A screen of settings says what is so: secrets survive its saves, nobody is
\* locked out by half of a save, no default is left without its key, a row, a
\* list, a profile or a code that is shown is the backend's unless something
\* overtook it, texts stay with their entries, and no screen stays busy with
\* nothing under way.
ScreensAreTrue ==
    CASE part = "memory"     -> EntriesKeepTheirText /\ MemorySavingEnds
     [] part = "page"       -> WebSecretsAreKept /\ LoginNeedsPassword /\ FallbackIsAnother /\ LoadingEnds
     [] part = "mcp"        -> StoredSecretsSurvive /\ TableIsTrue /\ McpBusyEnds
     [] part = "devices"    -> RowsAreTrue /\ DevicesBusyEnds
     [] part = "wizard"     -> DefaultHasItsKey /\ CodeIsAlive /\ SetupBusyEnds /\ NodeIsEnrolled
     [] part = "commands"   -> CleanMeansInForce
     [] part = "enrollment" -> EnrollmentMicCloses /\ SamplesFit /\ EnrollmentBusyEnds /\ EnrolledIsTrue
     [] OTHER               -> TRUE

\* What the program believes is so: the token in use belongs to the backend
\* that is trusted; the mirror of the devices says what their table says and
\* keeps out whom the user turned out; tools are routed to servers that are
\* connected as they are configured, and every request for one has its
\* operation; a microphone streams for the claim it made, in one thread; and a
\* node has one permit for its synthesis and no task of a lost connection.
RecordsAreTrue ==
    CASE part = "authority" -> LoadedTokenIsOfTheAuthority
     [] part = "servers"   -> RoutesLead /\ ConnectedAsConfigured /\ RequestsAreServed
     [] part = "wake"      -> VerdictsAreCurrent /\ OneCapture
     [] part = "enrolled"  -> MirrorIsTheTable /\ TurnedOutStayOut
     [] part = "edge"      -> PermitIsInOnePlace /\ TasksAreOfTheConnection
     [] OTHER              -> TRUE
=============================================================================
