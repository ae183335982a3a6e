CONSTANTS
    n1 = n1
    n2 = n2
    p1 = p1
    p2 = p2
    Host = Host
    NoOne = NoOne
    Nodes <- MCTwoNodes
    Phones <- MCNoPhones
    MaxTurns = 2
    MaxLeases = 2
    Faults <- MCNoFaults
SPECIFICATION FairSpec
CHECK_DEADLOCK FALSE
INVARIANT HostMicIsClosed
PROPERTIES TurnsEnd VoiceComesBack
