----------------------------- MODULE MCNotices -----------------------------
(* Users, scenarios and symmetry for the model checker. *)
EXTENDS Notices, TLC

CONSTANTS alice, bob, r1, r2

\* Announcements, and releases.
AnnounceAndRelease ==
  {{"announce", "read", "badge", "remove"},
   {"publish", "edit", "delete"},
   {"publish", "fail"},
   {"publish", "delete", "outage", "invalid"}}

RequestSymmetry == Permutations(Requests)
=============================================================================
