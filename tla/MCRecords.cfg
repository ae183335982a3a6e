SPECIFICATION PartsSpec
CONSTANTS
  f1 = f1
  f2 = f2
  Parts = {"authority", "enrolled", "servers", "wake", "edge"}
  ChatSockets <- MCSockets
  NoChatSocket = "none"
  ChatListeners = 2
  ChatOrphans = 1
  Approvals = {1, 2}
  NoApproval = 0
  ToolRuns <- MCToolRuns
  NoName = ""
  ChatRuns = 1
  ChatCountdown = 2
  MessageLimit = 1
  ChatKeys = {"k1", "k2", "k3", "k4", "deck"}
  CommandDeck = "deck"
  StoreLimit = 3
  ShownAtOnce = 2
  Chats = {"c1", "c2"}
  NoChat = "none"
  ScreenCalls = 2
  WebSessions = {"c1", "c2"}
  NoSessionYet = "none"
  WebSockets <- MCSockets
  NoWebSocket = "none"
  WebCalls = 1
  VoiceSockets <- MCSockets
  NoVoiceSocket = "none"
  KeyEvents = 2
  DuckLevels = {40, 100}
  Nothing = nothing
  DuckQueue = 3
  Lines = {1, 2}
  LogSockets <- MCSockets
  NoLogSocket = "none"
  LogListeners = 2
  LogOrphans = 1
  Origins = {"A", "B"}
  Servers = {"a1", "a2", "b"}
  NoServer = "none"
  ServesAt <- MCServesAt
  AuthFlows <- MCFlows
  NoFlow = "none"
  Fields <- MCFields
  Groups <- MCGroups
  NoGroup = "none"
  GroupOf <- MCGroupOf
  Control <- MCControl
  PromptGroup = "persona"
  Views <- MCViews
  Inputs <- MCInputs
  DraftCalls <- MCFlows
  WebTours <- MCTours
  TabCalls <- MCFlows
  Slugs = {1, 2}
  NoSlug = 0
  MemoryCalls <- MCFlows
  Devices = {"d", "e"}
  NoDevice = "none"
  DeviceCalls <- MCFlows
  CodeSeconds = 1
  CommandNames = {"a", "b"}
  DefaultCommands = {"a"}
  McpNames = {"m"}
  NoServerName = "none"
  McpCalls <- MCFlows
  Takes <- MCFlows
  NoTake = "none"
  VoiceRequests <- MCFlows
  MinSamples = 3
  MaxSamples = 5
  Phrases = 4
  KeyedProviders <- MCFlows
  LocalProvider = "l"
  PairingSeconds = 1
  DeviceIds = {"d", "e"}
  RegistryCalls <- MCFlows
  OutstandingCodes = 2
  ToolServers = {"s", "t"}
  NodeProvider = "node"
  NoProvider = "none"
  ServedTools = {"x"}
  ConfigVersions <- MCVersions
  LifecycleCalls <- MCFlows
  Captures = {"a", "b"}
  NoCapture = "none"
  WakeClaims = {1, 2}
  NoClaim = 0
  EdgeRequests = {1, 2, 3}
  EdgeLimit = 2
VIEW Chosen
INVARIANTS
  RecordsAreTrue
PROPERTIES
  AuthorityIsPinned
