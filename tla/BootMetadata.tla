---------------------------- MODULE BootMetadata ----------------------------
(***************************************************************************)
(* The boot metadata record and the rules that govern it: what a           *)
(* well-formed record is, which record may follow which, what the          *)
(* bootloader reads back from the two flash copies, and which copy the     *)
(* next record goes to.  Everything here is a pure function of its         *)
(* arguments; MetadataJournal adds the flash and its failures.             *)
(***************************************************************************)
EXTENDS Integers

CONSTANTS
  UINT32_MAX,   \* the largest value of the 32-bit sequence counter
  Versions,     \* the nonzero image versions
  Results,      \* the diagnostic codes a record can carry; 0 is "none"
  Blank,        \* the body of an erased copy
  Torn          \* a body whose bytes do not pass the CRC and format checks

ASSUME WidthAssumption == UINT32_MAX \in Nat /\ UINT32_MAX > 2
ASSUME VersionAssumption == Versions \subseteq Nat \ {0}
ASSUME ResultAssumption == 0 \in Results

MAX_BOOT_ATTEMPTS == 3

Slots == {"A", "B"}
BOOT_SLOT_NONE == "NONE"
SlotValues == Slots \cup {BOOT_SLOT_NONE}
Copies == {"A", "B"}
COPY_NONE == "NONE"

States == {"EMPTY", "WRITING", "CANDIDATE_READY", "PENDING_TRIAL",
           "CONFIRMED", "REJECTED_INVALID"}

Record ==
  [sequence : 0..UINT32_MAX,
   state : States,
   active_slot : SlotValues,
   candidate_slot : SlotValues,
   candidate_image_version : Versions \cup {0},
   boot_attempt_count : 0..(MAX_BOOT_ATTEMPTS + 1),
   confirmation_state : 0..2,
   result : Results]

ASSUME BodyAssumption == Blank \notin Record /\ Torn \notin Record /\ Blank # Torn

metadata_empty ==
  [sequence |-> 0, state |-> "EMPTY", active_slot |-> BOOT_SLOT_NONE,
   candidate_slot |-> BOOT_SLOT_NONE, candidate_image_version |-> 0,
   boot_attempt_count |-> 0, confirmation_state |-> 0, result |-> 0]

-----------------------------------------------------------------------------
(* Which records are well formed.                                          *)

empty_is_canonical(r) ==
  /\ r.active_slot = BOOT_SLOT_NONE
  /\ r.candidate_slot = BOOT_SLOT_NONE
  /\ r.candidate_image_version = 0
  /\ r.boot_attempt_count = 0
  /\ r.confirmation_state = 0

confirmed_is_canonical(r) ==
  /\ r.active_slot # BOOT_SLOT_NONE
  /\ r.candidate_slot = BOOT_SLOT_NONE
  /\ r.candidate_image_version # 0
  /\ r.boot_attempt_count = 0
  /\ r.confirmation_state = 1

candidate_is_canonical(r) ==
  /\ r.candidate_slot # BOOT_SLOT_NONE
  /\ r.candidate_image_version # 0
  /\ r.active_slot # r.candidate_slot
  /\ r.state # "PENDING_TRIAL" => r.boot_attempt_count = 0
  /\ r.confirmation_state = 0

state_record_is_canonical(r) ==
  /\ r.sequence \notin {0, UINT32_MAX}
  /\ r.boot_attempt_count <= MAX_BOOT_ATTEMPTS
  /\ r.confirmation_state <= 1
  /\ CASE r.state = "EMPTY"     -> empty_is_canonical(r)
       [] r.state = "CONFIRMED" -> confirmed_is_canonical(r)
       [] OTHER                 -> candidate_is_canonical(r)

-----------------------------------------------------------------------------
(* Which record may follow which.                                          *)

transition_state_allowed(current, next) ==
  next \in CASE current = "EMPTY"            -> {"WRITING", "CONFIRMED"}
             [] current = "WRITING"          -> {"CANDIDATE_READY", "REJECTED_INVALID"}
             [] current = "CANDIDATE_READY"  -> {"PENDING_TRIAL", "REJECTED_INVALID"}
             [] current = "PENDING_TRIAL"    -> {"PENDING_TRIAL", "CONFIRMED", "REJECTED_INVALID"}
             [] current = "CONFIRMED"        -> {"WRITING", "CONFIRMED"}
             [] current = "REJECTED_INVALID" -> {"WRITING"}

transition_fields_allowed(current, next) ==
  /\ (current.state = "PENDING_TRIAL" /\ next.state = "PENDING_TRIAL") =>
       /\ current.boot_attempt_count # 0
       /\ next.active_slot = current.active_slot
       /\ next.candidate_slot = current.candidate_slot
       /\ next.candidate_image_version = current.candidate_image_version
       /\ next.boot_attempt_count + 1 = current.boot_attempt_count
       /\ next.confirmation_state = 0
  /\ (current.state = "PENDING_TRIAL" /\ next.state = "CONFIRMED") =>
       /\ next.active_slot = current.candidate_slot
       /\ next.candidate_slot = BOOT_SLOT_NONE
       /\ next.candidate_image_version = current.candidate_image_version
       /\ next.boot_attempt_count = 0
       /\ next.confirmation_state = 1
  /\ (current.state = "CONFIRMED" /\ next.state = "CONFIRMED") =>
       /\ next.active_slot = current.active_slot
       /\ next.candidate_slot = BOOT_SLOT_NONE
       /\ next.candidate_image_version = current.candidate_image_version
       /\ next.boot_attempt_count = 0
       /\ next.confirmation_state = 1

\* The counter is not checked, so a caller may be one record behind.
validate_transition_any_sequence(current, next) ==
  CASE next.sequence \in {0, UINT32_MAX}       -> "ERR_SEQUENCE"
    [] OTHER ->
       CASE ~state_record_is_canonical(next)   -> "ERR_BAD_FORMAT"
         [] ~transition_state_allowed(current.state, next.state)
            \/ ~transition_fields_allowed(current, next) -> "ERR_BAD_TRANSITION"
         [] OTHER -> "OK"

sequence_follows(current, next) ==
  /\ next.sequence \notin {0, UINT32_MAX}
  /\ current.sequence # UINT32_MAX
  /\ next.sequence = current.sequence + 1

validate_transition(current, next) ==
  IF ~sequence_follows(current, next) THEN "ERR_SEQUENCE"
  ELSE IF ~state_record_is_canonical(next) THEN "ERR_BAD_FORMAT"
  ELSE IF ~transition_state_allowed(current.state, next.state) THEN "ERR_BAD_TRANSITION"
  ELSE IF ~transition_fields_allowed(current, next) THEN "ERR_BAD_TRANSITION"
  ELSE "OK"

\* The fields of boot_metadata_prepare_next, with the counter advanced.
next_record(current, state, active, candidate, version, attempts, confirmation, result) ==
  [sequence |-> current.sequence + 1, state |-> state, active_slot |-> active,
   candidate_slot |-> candidate, candidate_image_version |-> version,
   boot_attempt_count |-> attempts, confirmation_state |-> confirmation,
   result |-> result]

prepare_next_status(current, next) ==
  IF current.sequence >= UINT32_MAX - 1 THEN "ERR_SEQUENCE"
  ELSE validate_transition(current, next)

-----------------------------------------------------------------------------
(* What a copy in flash decodes to.  A copy is its body and its commit     *)
(* marker, which is programmed last.                                       *)

Cell == [body : Record \cup {Blank, Torn}, marker : {"blank", "torn", "set"}]

ErasedCell == [body |-> Blank, marker |-> "blank"]

decode_ok(cell) ==
  /\ cell.marker = "set"
  /\ cell.body \in Record
  /\ state_record_is_canonical(cell.body)

a_valid(copies) == decode_ok(copies["A"])
b_valid(copies) == decode_ok(copies["B"])
both_valid(copies) == a_valid(copies) /\ b_valid(copies)

records_are_equal(left, right) == left = right

recover_status(copies) ==
  IF ~a_valid(copies) /\ ~b_valid(copies) THEN "ERR_NO_VALID_COPY"
  ELSE IF /\ both_valid(copies)
          /\ copies["A"].body.sequence = copies["B"].body.sequence
          /\ ~records_are_equal(copies["A"].body, copies["B"].body)
    THEN "ERR_AMBIGUOUS"
  ELSE "OK"

\* With two valid copies, copy A always wins.
recover_copy_prefers_a(copies) ==
  IF recover_status(copies) # "OK" THEN COPY_NONE
  ELSE IF a_valid(copies) THEN "A" ELSE "B"

recover_copy(copies) ==
  IF recover_status(copies) # "OK" THEN COPY_NONE
  ELSE IF ~b_valid(copies) THEN "A"
  ELSE IF ~a_valid(copies) THEN "B"
  ELSE IF copies["A"].body.sequence >= copies["B"].body.sequence THEN "A"
  ELSE "B"

\* The record the boot code acts on: the empty one when no copy is usable.
recover_selected(copies) ==
  IF recover_copy(copies) = COPY_NONE THEN metadata_empty
  ELSE copies[recover_copy(copies)].body

\* The newer copy is overwritten in place.
commit_target_in_place(copies) ==
  IF recover_copy(copies) = COPY_NONE THEN "A" ELSE recover_copy(copies)

\* The copy that boot_metadata_commit rewrites: never the selected one.
commit_target(copies) ==
  IF ~a_valid(copies) THEN "A"
  ELSE IF ~b_valid(copies) THEN "B"
  ELSE IF recover_copy(copies) = "A" THEN "B"
  ELSE "A"
=============================================================================
