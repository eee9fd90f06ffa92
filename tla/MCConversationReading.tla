----------------------- MODULE MCConversationReading -----------------------
(* Conversations, scenarios and symmetry for the model checker. *)
EXTENDS ConversationReading, TLC

CONSTANTS r1, r2

Message(k, s) == [kind |-> k, stamp |-> s]

\* Each kind of message first, last and in between, with and without two
\* messages of one instant.
Conversations ==
  {<<Message("burn", 1), Message("plain", 1), Message("burn", 2)>>,
   <<Message("plain", 1), Message("burn", 2), Message("secret", 2)>>,
   <<Message("secret", 1), Message("burn", 2), Message("plain", 3)>>}

\* Receipts and watermark while messages arrive and go; pages and search while
\* messages are opened and go.
ReadAndList ==
  {{"send", "mark", "markIds"},
   {"send", "markIds", "list"},
   {"mark", "markIds", "destroy"},
   {"mark", "reveal", "expire"},
   {"send", "reveal", "expire", "destroy"},
   {"list", "search", "reveal", "expire"},
   {"list", "reveal", "destroy"}}

RequestSymmetry == Permutations(Requests)
=============================================================================
