CONSTANTS
    n1 = n1
    n2 = n2
    p1 = p1
    p2 = p2
    Host = Host
    NoOne = NoOne
    Nodes <- MCOneNode
    Phones <- MCOnePhone
    MaxTurns = 2
    MaxLeases = 1
    Faults <- MCAllFaults
SPECIFICATION Spec
CHECK_DEADLOCK FALSE
INVARIANTS TypeOK AnswersTheQuestion LeaseOwnsTheVoice SourceBelongsToOwner
