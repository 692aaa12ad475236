SPECIFICATION Spec
CONSTANTS
  alice = alice
  bob = bob
  a1 = a1
  a2 = a2
  b1 = b1
  logoutA = logoutA
  Users = {alice, bob}
  Conns = {a1, b1}
  Owner <- OwnerOf
  Group = group
  Members <- MemberList
  Logouts = {}
  LogoutOf <- LogoutUser
  Kinds <- Three
  ChannelSize = 1
  PoolRoom = 1
  Breaks = {}
  None = None
INVARIANT
  DispatchedInClientOrder
CHECK_DEADLOCK FALSE
