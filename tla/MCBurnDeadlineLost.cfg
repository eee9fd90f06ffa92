\* Two members open at once; one extension of destroy_at overwrites the other.
SPECIFICATION Spec
CONSTANTS
  ann = ann
  bob = bob
  cat = cat
  r1 = r1
  r2 = r2
  k1 = k1
  k2 = k2
  s1 = s1
  Users = {ann, bob, cat}
  Sender = ann
  InitialMembers = {ann, bob, cat}
  Movers = {}
  Requests = {r1, r2}
  Markers = {k1}
  Sweepers = {}
  Ops = {"send", "reveal"}
  Ttls = {3}
  MediaKinds = {FALSE}
  MediaWindow = 2
  Fallback = 1
  RecallWindow = 1
  ConvType = "group"
  Thresholds = {1}
  AckDays = 1
  SendBy = 1
  MaxTime = 3
  MaxCrashes = 0
INVARIANTS
  DestroyAtCoversBurnAt
