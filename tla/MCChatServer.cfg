SPECIFICATION Spec
CONSTANTS
  alice = alice
  bob = bob
  a1 = a1
  a2 = a2
  b1 = b1
  logoutA = logoutA
  Users = {alice, bob}
  Conns = {a1, b1}
  Owner <- OwnerOf
  Group = group
  Members <- MemberList
  Logouts = {logoutA}
  LogoutOf <- LogoutUser
  Kinds <- Talk
  ChannelSize = 1
  PoolRoom = 1
  Breaks = {b1}
  None = None
INVARIANTS
  TypeOK
  NoLockLeak
  FrameInOnePlace
  OutgoingInServerOrder
  DueMessageArrives
  SentMeansWritten
CHECK_DEADLOCK FALSE
