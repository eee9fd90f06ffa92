------------------------- MODULE MCGroupMembership -------------------------
(* Model values, scenarios and symmetry for the model checker. *)
EXTENDS GroupMembership, TLC

CONSTANTS ann, bob, cat, nobody, r1, r2

\* A group whose owner hands over while members come and go, and with the
\* failure of any statement; one that is dissolved, by requests and by the
\* deletion of accounts; a channel that users subscribe to, one whose owner
\* also removes members, and one that is edited meanwhile.
GroupsAndChannels ==
  {{"add", "remove", "transfer"},
   {"remove", "transfer", "fail"},
   {"transfer", "dissolve", "close"},
   {"channel", "subscribe", "unsubscribe", "dissolve"},
   {"channel", "subscribe", "remove"},
   {"channel", "update", "remove", "dissolve"}}

UserSymmetry == Permutations(Users) \cup Permutations(Requests)
=============================================================================
