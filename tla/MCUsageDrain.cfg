SPECIFICATION FairSpec
CONSTANTS
  r1 = r1
  r2 = r2
  Acme = Acme
  Globex = Globex
  Replica <- OneReplica
  Org <- MCOrg
  Event <- TwoEvents
  OrgOf <- TwoOrgs
  MeterOf <- BothMetered
  Batch = 1
  MaxDisruptions = 2
PROPERTIES
  Drains
