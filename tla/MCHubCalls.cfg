CONSTANTS
    n1 = n1
    noNode = noNode
    t1 = t1
    t2 = t2
    s1 = s1
    NoNode <- noNode
    Nodes <- MCOneNode
    MaxConns = 2
    Calls <- MCToolAndSpeech
    TtsCalls <- MCSpeech
    MaxConcurrent = 1
SPECIFICATION Spec
INVARIANTS TypeOK RegistryMirrorsConnections GenerationFences NoOrphanCall ListedToolsAreLent StoppedStaysEmpty
PROPERTIES WithdrawnCallsHaveFailed ResultsAreFresh
VIEW MCLive
CHECK_DEADLOCK FALSE
