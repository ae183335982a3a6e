CONSTANTS
    Sources <- MCSources
    NoSource <- MCNoSource
    Scores <- MCScores
    MaxClaims = 3
    Window = 1
    HoldTimeout = 2
    MaxTime = 4
SPECIFICATION FairSpec
INVARIANTS TypeOK HoldClosesWindow ToldTheVerdict
PROPERTIES EveryClaimIsTold NeverHandedOver YoungHoldIsKept ImplementsWakePath
CHECK_DEADLOCK FALSE
