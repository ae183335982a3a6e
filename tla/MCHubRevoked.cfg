CONSTANTS
    n1 = n1
    noNode = noNode
    t1 = t1
    t2 = t2
    s1 = s1
    NoNode <- noNode
    Nodes <- MCOneNode
    MaxConns = 2
    Calls <- MCOneCall
    TtsCalls <- MCNoSpeech
    MaxConcurrent = 1
SPECIFICATION Spec
INVARIANT RevokedNodeIsGone
CHECK_DEADLOCK FALSE
