SPECIFICATION FairSpec
CONSTANTS
  owner = owner
  mate = mate
  team = team
  guests = guests
  firm = firm
  s1 = s1
  s2 = s2
  None = None
  Users = {owner, mate}
  Groups = {team, guests, firm}
  Passthroughs = {"t2"}
  Sessions = {s1, s2}
  User <- MCUser
  Wires <- MCWires
  Scenarios <- MCScenarios
INVARIANTS CloneFaithful OriginalsOnly
PROPERTIES NewObjectShared CallsEnd
CHECK_DEADLOCK FALSE
