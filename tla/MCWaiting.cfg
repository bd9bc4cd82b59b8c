SPECIFICATION WaitingSpec
CONSTANTS
  w1 = w1
  w2 = w2
  alice = alice
  bob = bob
  Watching <- MCWatching
  User <- MCUser
  UserOf <- MCUserOf
  Capacity = 1
  WatchTime = 1
  MaxChange = 2
  v1 = v1
  v2 = v2
  browser = browser
  k1 = k1
  k2 = k2
  Visitor <- MCVisitor
  Login <- MCLogin
  ServerKey <- MCKeys
  MaxPair = 2
INVARIANTS
  ReusedOnlyAfterLoss
  LogoutRevokesLive
PROPERTIES
  WokenByOthers
  EveryChangeIsRead
  EndedForCause
  VisitsEnd
