\* Two requests acknowledge or destroy while marker and sweep run, until the timeout has passed, with threshold 0 or 2.
SPECIFICATION Spec
CONSTANTS
  ann = ann
  bob = bob
  cat = cat
  r1 = r1
  r2 = r2
  k1 = k1
  k2 = k2
  s1 = s1
  Users = {ann, bob}
  Sender = ann
  InitialMembers = {ann, bob}
  Movers = {}
  Requests = {r1, r2}
  Markers = {k1}
  Sweepers = {s1}
  Ops = {"send", "ack", "destroy"}
  Ttls = {1}
  MediaKinds = {FALSE}
  MediaWindow = 2
  Fallback = 1
  RecallWindow = 1
  ConvType = "group"
  Thresholds = {0, 2}
  AckDays = 1
  SendBy = 1
  MaxTime = 3
  MaxCrashes = 0
SYMMETRY RequestSymmetry
PROPERTIES
  RefinesFate
  PurgeAccountable
  StampChangedOnlyByManual
