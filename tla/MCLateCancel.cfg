SPECIFICATION SpecAsked
CONSTANTS
  alice1 = alice1
  alice2 = alice2
  bob = bob
  Alice = Alice
  Bob = Bob
  Null = Null
  User <- MCUser
  Worker <- ThreeProcesses
  UserOf <- UserOfThree
  Ttl <- Ttls
  Replies <- AnyReply
  MaxJobs = 1
  MaxAttempts = 3
  MaxTime = 4
  MaxLag = 2
  MaxCompletions = 2
PROPERTIES
  LapsedClaimWasAskedInTime
