SPECIFICATION Spec
CONSTANTS
  ann = ann
  bob = bob
  cat = cat
  dan = dan
  group = group
  Users = {ann, bob, cat, dan}
  Newcomers = {cat, dan}
  TelOf <- Telephone
  Groups = {group}
  OwnerOf <- Owner
  s1 = s1
  s2 = s2
  Slots = {s1, s2}
  Scripts <- AllScripts
  MaxFaults = 1
SYMMETRY Symmetry
INVARIANTS
  TypeOK
  JoinedIsListed
  FriendshipMutual
  OneRow
  DismissedLeavesNothing
  MyGroupsFresh
  CountMatchesList
  OneAccountPerTelephone
  DeletedLeavesNothing
  DisabledIsNotCalled
PROPERTIES
  
  AccountStays
CHECK_DEADLOCK FALSE
