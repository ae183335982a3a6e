CONSTANTS
    n1 = n1
    noNode = noNode
    t1 = t1
    t2 = t2
    s1 = s1
    NoNode <- noNode
    Nodes <- MCOneNode
    MaxConns = 1
    Calls <- MCThreeCalls
    TtsCalls <- MCSpeech
    MaxConcurrent = 1
SPECIFICATION MCLiveSpec
PROPERTIES CallsSettle SilentPeerIsDropped
CHECK_DEADLOCK FALSE
