--------------------------- MODULE MCDirectChat ---------------------------
(* Users, scenarios and symmetry for the model checker. *)
EXTENDS DirectChat, TLC

CONSTANTS alice, bob, carol, k1, k2, r1, r2

\* Alice and Bob share a group, Carol is in none.  Conversations appear while
\* keys are fetched and replaced, and Bob leaves the group and returns; times are
\* set and cleared while messages go.
ChatScenarios ==
  {{"open"},
   {"open", "upload", "fetch"},
   {"upload", "fetch", "move"},
   {"upload", "fail"},
   {"open", "send", "set"},
   {"send", "set", "default"},
   {"send", "set", "clear"}}

\* Setting and default at once, for UnsetOnlyIfNothingIsSet.
Changing == {{"send", "set", "clear", "default"}}

RequestSymmetry == Permutations(Requests)
=============================================================================
