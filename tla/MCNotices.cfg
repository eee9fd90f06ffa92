\* Two users, two announcements, two codes, two uploads; see AnnounceAndRelease.
SPECIFICATION Spec
CONSTANTS
  alice = alice
  bob = bob
  r1 = r1
  r2 = r2
  Users = {alice, bob}
  Audiences = {{alice}, {alice, bob}}
  MaxNotices = 2
  MaxCode = 2
  MaxUploads = 2
  Requests = {r1, r2}
  Scenarios <- AnnounceAndRelease
CHECK_DEADLOCK FALSE
SYMMETRY RequestSymmetry
INVARIANTS
  TypeOK
  BadgeIsPlausible
  NoFileLeft
  ReleaseHasFile
