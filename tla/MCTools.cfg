SPECIFICATION FairSpec
CONSTANTS
  c1 = c1 c2 = c2 s1 = s1 noSession = noSession
  note = note ls = ls
  Clients <- MCClients
  Sessions <- MCSessions
  NoSession = noSession
  Tools <- MCTools
  Kind <- MCKind
  Savable <- MCSavable
  MaxSessions = 1
  BusSize = 1
  MaxTurns = 1
  MaxCalls = 1
  MaxMessages = 2
INVARIANTS TypeOK RunsOnOwnersWord NothingLeftPending
PROPERTIES SavedByOwner MessagesAreAnswered
