SPECIFICATION MessageSpec
CONSTANTS
  alice1 = alice1
  alice2 = alice2
  alice = alice
  bob = bob
  channel = channel
  key1 = key1
  x = x
  Member <- TwoMembers
  Reader <- OneReader
  Channel <- OneChannel
  Key <- OneKey
  Payload <- OnePayload
  Sender <- TwoSenders
  MemberOf <- AliceOf
  InboxLimit <- OneLimit
  MaxMessage = 2
PROPERTIES
  NewIsUnread
