\* Three users, a group of two, two requests at a time; see ChatScenarios.
SPECIFICATION Spec
CONSTANTS
  alice = alice
  bob = bob
  carol = carol
  k1 = k1
  k2 = k2
  r1 = r1
  r2 = r2
  None = None
  Users = {alice, bob, carol}
  Team = {alice, bob}
  Movers = {bob}
  Friends = {{alice, bob}, {bob, carol}}
  Actors = {alice}
  MaxChats = 3
  Ttls = {1, 2}
  Keys = {k1, k2}
  Requests = {r1, r2}
  Scenarios <- ChatScenarios
CHECK_DEADLOCK FALSE
SYMMETRY RequestSymmetry
INVARIANTS
  TypeOK
  OneChatPerPair
  SentWithTimeInForce
  PeersHear
