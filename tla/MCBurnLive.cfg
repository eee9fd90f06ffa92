\* Every burn message ends, under fair cron jobs and one crash, dissolved or not.
SPECIFICATION FairSpec
CONSTANTS
  ann = ann
  bob = bob
  cat = cat
  r1 = r1
  r2 = r2
  k1 = k1
  k2 = k2
  s1 = s1
  Users = {ann, bob}
  Sender = ann
  InitialMembers = {ann, bob}
  Movers = {}
  Requests = {r1}
  Markers = {k1}
  Sweepers = {s1}
  Ops = {"send", "reveal", "dissolve", "recall"}
  Ttls = {0, 2}
  MediaKinds = {FALSE}
  MediaWindow = 2
  Fallback = 1
  RecallWindow = 1
  ConvType = "group"
  Thresholds = {1}
  AckDays = 1
  SendBy = 1
  MaxTime = 3
  MaxCrashes = 1
PROPERTIES
  BurnEventuallyDestroyed
  EventuallyPurged
