\* Two tabs with every operation, and undisturbed by logins, failures and sweeps.
SPECIFICATION FairSpec
CONSTANTS
  s1 = s1
  s2 = s2
  Sockets <- TwoSockets
  OnlineTtl = 1
  MaxCount = 2
  MaxCrashes = 1
  Scenarios <- TabsAndAll
INVARIANTS
  TypeOK
  CountCovers
  OnlineWhileConnected
PROPERTIES
  UncountedGoesOffline
