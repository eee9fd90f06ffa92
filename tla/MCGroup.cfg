\* Three users, two requests at a time, in groups and channels.
SPECIFICATION Spec
CONSTANTS
  ann = ann
  bob = bob
  cat = cat
  nobody = nobody
  r1 = r1
  r2 = r2
  Users = {ann, bob, cat}
  Nobody = nobody
  Requests = {r1, r2}
  MaxJoins = 2
  Scenarios <- GroupsAndChannels
CHECK_DEADLOCK FALSE
SYMMETRY UserSymmetry
INVARIANTS
  TypeOK
  OneOwner
  OwnerSeated
  ClosedOwnersGroupEnds
  CountNotInflated
