\* Three devices log in, under both policies; see LoginsThenRequests.
SPECIFICATION Spec
CONSTANTS
  a = a
  b = b
  c = c
  l1 = l1
  l2 = l2
  g1 = g1
  m1 = m1
  Fingerprints = {a, b, c}
  MaxIds = 3
  RequestIds = 2
  Logins = {l1, l2}
  Guards = {g1}
  Admins = {m1}
  Policies = {"single", "notify"}
  MaxDevices = 2
  CacheTtl = 1
  Latency = 1
  Scenarios <- LoginsThenRequests
SYMMETRY DeviceSymmetry
INVARIANTS
  TypeOK
  AtMostAllowed
  RefusedAfterTtl
