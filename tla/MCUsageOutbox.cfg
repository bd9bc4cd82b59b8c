SPECIFICATION Spec
CONSTANTS
  r1 = r1
  r2 = r2
  Acme = Acme
  Globex = Globex
  Replica <- MCReplica
  Org <- MCOrg
  Event <- TwoEvents
  OrgOf <- TwoOrgs
  MeterOf <- TwoMeters
  Batch = 2
  MaxDisruptions = 1
INVARIANTS
  NothingLost
  OnlyFinalRefusalsDie
  OneLetterPerReplica
PROPERTIES
  KeepsLedger
