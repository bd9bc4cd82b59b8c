SPECIFICATION CoordinationSpec
CONSTANTS
  alice1 = alice1
  alice2 = alice2
  bob1 = bob1
  alice = alice
  bob = bob
  resource = resource
  Process <- MCProcess
  Account <- MCAccount
  AccountOf <- MCAccountOf
  Resource <- MCResource
  LeaseId <- TwoLeases
  Ttl <- MCTtl
  LeaseTime = 3
  channel1 = channel1
  channel2 = channel2
  key1 = key1
  x = x
  y = y
  Member <- MCAccount
  Reader <- MCReader
  Channel <- MCChannel
  Key <- MCKey
  Payload <- MCPayload
  Sender <- MCSender
  MemberOf <- MCMemberOf
  InboxLimit <- MCLimit
  MaxMessage = 2
  gone_member = gone_member
  gone_org = gone_org
  gone_team = gone_team
  request1 = request1
  handler1 = handler1
  handler2 = handler2
  Request <- MCRequest
  Handler <- MCHandler
  Event <- MCEvent
  KindOf <- MCKindOf
  acme = acme
  globex = globex
  north = north
  south = south
  admin1 = admin1
  syncer1 = syncer1
  syncer2 = syncer2
  Org <- MCOrg
  Site <- MCSite
  Admin <- MCAdmin
  Syncer <- MCSyncer
  MaxConnectionId = 2
  MaxToken = 3
SYMMETRY Interchangeable
INVARIANTS
  ListedIsPromised
  KeyNamesOneCall
  ReadBeforePassed
  RemovedHoldsNothing
  PurgedStaysEmpty
  AuditedOnce
  IndexNamesOwner
  BoundToCurrent
  TokenAlive
PROPERTIES
  KeepsPromises
  RefusedOnlyWhileHeld
