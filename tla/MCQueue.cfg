SPECIFICATION Spec
CONSTANTS
  alice1 = alice1
  alice2 = alice2
  bob = bob
  Alice = Alice
  Bob = Bob
  Null = Null
  User <- MCUser
  Worker <- TwoProcesses
  UserOf <- UserOfTwo
  Ttl <- ShortTtl
  Replies <- NoReplyLost
  MaxJobs = 2
  MaxAttempts = 2
  MaxTime = 1
  MaxLag = 1
  MaxCompletions = 2
INVARIANTS
  CountersExact
PROPERTIES
  TakesTurns
