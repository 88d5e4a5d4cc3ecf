SPECIFICATION DaemonSpec
CONSTANTS
  Clients = {c1, c2}
  Values = {v1}
  ChannelCap = 1
  MaxMsgs = 3
  MaxChanges = 2
  MaxBoots = 2
  MaxEntries = 2
INVARIANTS MessagesInOrder OneIdentity
PROPERTIES StartEndsCleanly SubscribersCatchUp
CHECK_DEADLOCK FALSE
