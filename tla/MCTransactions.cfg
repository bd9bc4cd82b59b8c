SPECIFICATION TransactionsSpec
CONSTANTS
  first = first
  second = second
  j1 = j1
  j2 = j2
  j3 = j3
  agent1 = agent1
  team1 = team1
  none = none
  Session <- MCPair
  Job <- MCJob
  MaxEdit = 2
  Delivery <- MCPair
  Agent <- MCAgent
  MaxRevision = 3
  MaxTicketJob = 2
  MaxCompletion = 1
  Caller <- MCPair
  CacheTtl = 3
  FailOpenFor = 2
  LookupTimeout = 1
  MaxNow = 7
  Repo <- MCPair
  Team <- MCTeam
  Remote <- MCPair
  Call <- MCPair
  NoTeam = none
  NoRepo = none
SYMMETRY Interchangeable
INVARIANTS
  SerialEditsStayAcyclic
  OneOpenJob
  BilledAsJudged
  HeldInSight
  AttachedStaysFree
  RowsNeverDeadlock
PROPERTIES
  OneRowPerCompletion
  OlderNeverWins
  JudgedByRecentStanding
CHECK_DEADLOCK FALSE
