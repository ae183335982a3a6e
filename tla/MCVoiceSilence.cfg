CONSTANTS
    n1 = n1
    n2 = n2
    p1 = p1
    p2 = p2
    Host = Host
    NoOne = NoOne
    Nodes <- MCOneNode
    Phones <- MCNoPhones
    MaxTurns = 1
    MaxLeases = 1
    Faults <- MCSilence
SPECIFICATION FairSpec
CHECK_DEADLOCK FALSE
PROPERTY ListeningEnds
