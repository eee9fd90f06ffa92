-------------------------- MODULE MCDeviceSession --------------------------
(* Model values, scenarios and symmetry for the model checker. *)
EXTENDS DeviceSession, TLC

CONSTANTS a, b, c, l1, l2, g1, m1

\* Logins at the same time while devices are removed, or that die and fail;
\* requests with one login at a time while devices are removed, while the
\* account is disabled and enabled, or while it is deleted.
LoginsThenRequests ==
  {{"concurrent", "remove"},
   {"concurrent", "fail", "crash"},
   {"request", "remove", "force"},
   {"request", "disable", "enable"},
   {"request", "delete"}}


\* Fingerprints differ in nothing, nor do slots for logins.
DeviceSymmetry == Permutations(Fingerprints) \cup Permutations(Logins)
=============================================================================
