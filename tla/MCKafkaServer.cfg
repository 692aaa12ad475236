SPECIFICATION FairSpec
CONSTANTS
  alice = alice
  bob = bob
  a1 = a1
  a2 = a2
  b1 = b1
  Users = {alice, bob}
  Conns = {a1, a2, b1}
  Owner <- OwnerOf
  Group = group
  Members <- MemberList
  Talk <- TalkOf
  ChannelSize = 1
  Partitions = 2
  HashOfKey = 1
  MaxCrashes = 1
  MaxReadErrors = 1
  Breaks = {b1}
  None = None
INVARIANTS
  TypeOK
  MutexHeld
  DeliveredInSendOrder
  
  DueMessageArrives
PROPERTY
  HubKeepsRunning
CHECK_DEADLOCK FALSE
