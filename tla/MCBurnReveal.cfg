\* Two members open, consume and list a media message, and one comes and goes, while R1 and R2 run.
SPECIFICATION Spec
CONSTANTS
  ann = ann
  bob = bob
  cat = cat
  r1 = r1
  r2 = r2
  k1 = k1
  k2 = k2
  s1 = s1
  Users = {ann, bob}
  Sender = ann
  InitialMembers = {ann, bob}
  Movers = {bob}
  Requests = {r1, r2}
  Markers = {k1}
  Sweepers = {}
  Ops = {"send", "reveal", "consume", "list"}
  Ttls = {2}
  MediaKinds = {TRUE}
  MediaWindow = 2
  Fallback = 1
  RecallWindow = 1
  ConvType = "group"
  Thresholds = {1}
  AckDays = 1
  SendBy = 1
  MaxTime = 3
  MaxCrashes = 0
SYMMETRY RequestSymmetry
INVARIANTS
  TypeOK
  PromisedTtlKept
  AllReadHasAReader
  AnnouncedMeansDestroyed
  DeliveredMeansTimed
