CONSTANTS
    n1 = n1
    n2 = n2
    p1 = p1
    p2 = p2
    Host = Host
    NoOne = NoOne
    Nodes <- MCOneNode
    Phones <- MCNoPhones
    MaxTurns = 2
    MaxLeases = 1
    Faults <- MCDrops
SPECIFICATION FairSpec
CHECK_DEADLOCK FALSE
PROPERTY NoDeadOwner
