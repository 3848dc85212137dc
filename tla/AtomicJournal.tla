---------------------------- MODULE AtomicJournal ----------------------------
(***************************************************************************)
(* What the metadata journal promises its callers: one record, replaced    *)
(* in a single step by a legal successor of itself, or not at all.  The    *)
(* flash operations, their failures and the power cuts between them are    *)
(* invisible at this level.                                                *)
(***************************************************************************)
EXTENDS BootMetadata

VARIABLE rec   \* the record a reader would recover now

Commit ==
  /\ rec' \in Record
  /\ validate_transition(rec, rec') = "OK"

Spec == rec \in Record /\ [][Commit]_rec
=============================================================================
