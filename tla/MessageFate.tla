---------------------------- MODULE MessageFate ----------------------------
(***************************************************************************)
(* What BurnMsg promises about one message, whatever its readers, the two  *)
(* schedulers and the administrators do: the message moves forward through *)
(* absent -> live -> destroyed -> purged and skips no stage.  The          *)
(* tombstone appears in the very step that removes the row, so a client    *)
(* always finds either the row or its tombstone, never both and never      *)
(* neither; the attachment outlives the row.                               *)
(*                                                                         *)
(* The promise is the one of the header of destroy.service.ts (two-phase   *)
(* destruction, one single physical delete).                               *)
(***************************************************************************)
VARIABLES
  fate,        \* stage of the message
  tombstone,   \* is there a row in message_tombstones
  attachment   \* is the uploaded file still in storage

fateVars == <<fate, tombstone, attachment>>

Stages == {"absent", "live", "destroyed", "purged"}

Init ==
  /\ fate = "absent"
  /\ tombstone = FALSE
  /\ attachment = TRUE

Advance(from, to) ==
  /\ fate = from
  /\ fate' = to

\* The message row is inserted.
Send ==
  /\ Advance("absent", "live")
  /\ UNCHANGED <<tombstone, attachment>>

\* Phase one: the row is marked, content and attachment stay.
Destroy ==
  /\ Advance("live", "destroyed")
  /\ UNCHANGED <<tombstone, attachment>>

\* Phase two: row out and tombstone in, in one step.
Purge ==
  /\ Advance("destroyed", "purged")
  /\ tombstone' = TRUE
  /\ UNCHANGED attachment

\* The file goes last, and may never go (the process died before).
EraseAttachment ==
  /\ fate = "purged"
  /\ attachment' = FALSE
  /\ UNCHANGED <<fate, tombstone>>

Next == Send \/ Destroy \/ Purge \/ EraseAttachment

Spec == Init /\ [][Next]_fateVars
=============================================================================
