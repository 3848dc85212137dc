--------------------------- MODULE UpdateInstaller ---------------------------
(***************************************************************************)
(* The streaming installer: session_init, begin, write, finish and abort.  *)
(* Each call is one action, with every result the flash can give it.       *)
(*                                                                         *)
(* The metadata journal appears as the one record a reader recovers, which *)
(* MetadataJournal is shown to implement: a commit is either acknowledged, *)
(* or reported as failed with the new record in place all the same, or     *)
(* reported as failed with the old one still there.                        *)
(***************************************************************************)
EXTENDS BootImage

CONSTANT BufferBlocks   \* how many blocks the program buffer holds

ASSUME BufferAssumption == BufferBlocks \in Nat \ {0}

VARIABLES
  rec,      \* the metadata record that recovery selects; metadata_empty if none
  slots,    \* what each firmware slot holds
  session   \* update_installer_session_t

SessionStates == {"EMPTY", "INITIALIZED", "WRITING", "PAYLOAD_COMPLETE",
                  "FINISHED", "ABORTED", "FAILED"}

Session ==
  [state : SessionStates,
   recovery_bootstrap : BOOLEAN,
   metadata : Record,            \* metadata_before, then writing_metadata
   active : SlotValues,
   candidate : SlotValues,
   version : Versions \cup {0},  \* header.manifest.image_version
   received : 0..PayloadBlocks,  \* payload_received
   genuine : BOOLEAN,            \* the received bytes hash as signed so far
   metadata_writing_committed : BOOLEAN]

NoSession ==
  [state |-> "EMPTY", recovery_bootstrap |-> FALSE, metadata |-> metadata_empty,
   active |-> BOOT_SLOT_NONE, candidate |-> BOOT_SLOT_NONE, version |-> 0,
   received |-> 0, genuine |-> TRUE, metadata_writing_committed |-> FALSE]

InstallerTypeOK ==
  /\ rec \in Record
  /\ slots \in [Slots -> Image]
  /\ session \in Session

\* The journal holds no usable copy: boot_metadata_recover gave an error.
no_valid_copy == rec = metadata_empty

-----------------------------------------------------------------------------
(* What boot_metadata_prepare_next and boot_metadata_commit may do to the  *)
(* record, given the record the caller believes is current.                *)

CommitOutcomes(current, next) ==
  IF prepare_next_status(current, next) # "OK" \/ validate_transition(rec, next) # "OK"
    THEN {[rec |-> rec, ok |-> FALSE]}
    ELSE {[rec |-> next, ok |-> TRUE], [rec |-> next, ok |-> FALSE],
          [rec |-> rec, ok |-> FALSE]}

writing_record(s, v) ==
  next_record(s.metadata, "WRITING", s.active, s.candidate, v, 0, 0, 0)

ready_record(s) ==
  next_record(s.metadata, "CANDIDATE_READY", s.active, s.candidate, s.version, 0, 0, 0)

\* The rejection forgets which slot is active.
rejected_record_without_active(s) ==
  next_record(rec, "REJECTED_INVALID", BOOT_SLOT_NONE, s.candidate, s.version, 0, 0, 0)

rejected_record(s) ==
  next_record(rec, "REJECTED_INVALID", s.active, s.candidate, s.version, 0, 0, 0)

fail_session(s) == [s EXCEPT !.state = "FAILED"]

-----------------------------------------------------------------------------
(* session_init                                                            *)

other_slot(slot) == IF slot = "A" THEN "B" ELSE "A"

select_inactive_slot_ok(r) ==
  \/ /\ r.state = "CONFIRMED"
     /\ r.candidate_slot = BOOT_SLOT_NONE
     /\ r.confirmation_state = 1
  \/ /\ r.state = "REJECTED_INVALID"
     /\ r.active_slot # BOOT_SLOT_NONE
     /\ r.candidate_slot = other_slot(r.active_slot)
     /\ r.confirmation_state = 0

session_init_ok(recovery) ==
  IF no_valid_copy THEN recovery ELSE select_inactive_slot_ok(rec)

init_session(recovery) ==
  IF ~session_init_ok(recovery) THEN fail_session(NoSession)
  ELSE [NoSession EXCEPT
          !.state = "INITIALIZED",
          !.recovery_bootstrap = recovery,
          !.metadata = rec,
          !.active = rec.active_slot,
          !.candidate = IF no_valid_copy THEN "A" ELSE other_slot(rec.active_slot)]

SessionInit(recovery) ==
  /\ session' = init_session(recovery)
  /\ UNCHANGED <<rec, slots>>

-----------------------------------------------------------------------------
(* begin                                                                   *)

\* confirmed_version_for_update fails when the active image it must read the
\* version from does not verify.
confirmed_version_known(s) ==
  \/ s.metadata.state = "CONFIRMED"
  \/ s.active = BOOT_SLOT_NONE
  \/ image_verifies(slots[s.active])

\* After a rejection the floor is taken from the bootstrap case.
confirmed_version_only_stable(s) ==
  IF s.metadata.state = "CONFIRMED" THEN s.metadata.candidate_image_version
  ELSE MIN_IMAGE_VERSION - 1

confirmed_version(s) ==
  IF s.metadata.state = "CONFIRMED" THEN s.metadata.candidate_image_version
  ELSE IF s.active = BOOT_SLOT_NONE THEN MIN_IMAGE_VERSION - 1
  ELSE slots[s.active].version

\* The record is still the one session_init found.
metadata_matches_start(s) == rec = s.metadata

begin_accepts(s, package) ==
  /\ no_valid_copy => s.recovery_bootstrap
  /\ metadata_matches_start(s)
  /\ verify_header_for_slot(package, s.candidate)
  /\ confirmed_version_known(s)
  /\ package.version > confirmed_version(s)
  /\ candidate_package_fits(package)

\* What is in the candidate slot after erase_candidate_slot and the
\* programming of the header.
HeaderWritten(v) == [version |-> v, programmed |-> 0, genuine |-> TRUE]

begin_slot_outcomes(old, v) ==
  {[image |-> HeaderWritten(v), ok |-> TRUE]}
    \cup [image : {old, NoImage, HeaderWritten(v)}, ok : {FALSE}]

\* begin, called on a session that session_init has just set up.  On any other
\* session begin, write and finish are refused and change nothing.
Begin(s, package) ==
  IF ~begin_accepts(s, package)
    THEN session' = fail_session(s) /\ UNCHANGED <<rec, slots>>
    ELSE \E c \in CommitOutcomes(s.metadata, writing_record(s, package.version)) :
           /\ rec' = c.rec
           /\ IF ~c.ok
                THEN /\ session' = [fail_session(s) EXCEPT !.version = package.version]
                     /\ UNCHANGED slots
                ELSE \E e \in begin_slot_outcomes(slots[s.candidate], package.version) :
                       /\ slots' = [slots EXCEPT ![s.candidate] = e.image]
                       /\ session' = [s EXCEPT
                            !.state = IF e.ok THEN "WRITING" ELSE "FAILED",
                            !.metadata = c.rec,
                            !.version = package.version,
                            !.metadata_writing_committed = TRUE]

-----------------------------------------------------------------------------
(* write                                                                   *)

\* The candidate slot after flush_payload_program_buffer has programmed the
\* blocks received so far.
FlushedImage(s) ==
  [version |-> s.version, programmed |-> s.received, genuine |-> s.genuine]

flush_outcomes(s) ==
  LET old == slots[s.candidate]
  IN  IF old.programmed = s.received
        THEN {[image |-> old, ok |-> TRUE]}
        ELSE {[image |-> FlushedImage(s), ok |-> TRUE]}
               \cup [image : {old, FlushedImage(s), [FlushedImage(s) EXCEPT !.genuine = FALSE]},
                     ok : {FALSE}]

\* One more block: the program buffer is flushed when it is full.
received_block(s, good) ==
  [s EXCEPT !.received = s.received + 1, !.genuine = s.genuine /\ good]

buffer_full(s) == s.received - slots[s.candidate].programmed = BufferBlocks

write_outcomes(s) ==
  IF buffer_full(s) THEN flush_outcomes(s)
  ELSE {[image |-> slots[s.candidate], ok |-> TRUE]}

WriteBlock(good) ==
  /\ session.state = "WRITING"
  /\ LET s == received_block(session, good)
     IN  \E w \in write_outcomes(s) :
           /\ slots' = [slots EXCEPT ![s.candidate] = w.image]
           /\ session' = [s EXCEPT !.state =
                IF ~w.ok THEN "FAILED"
                ELSE IF s.received = PayloadBlocks THEN "PAYLOAD_COMPLETE"
                ELSE "WRITING"]
  /\ UNCHANGED rec

\* A block at the wrong offset, one that is too long, or one more after the
\* last: the session fails.
WriteOutOfSequence ==
  /\ session.state \in {"WRITING", "PAYLOAD_COMPLETE"}
  /\ session' = fail_session(session)
  /\ UNCHANGED <<rec, slots>>

-----------------------------------------------------------------------------
(* finish                                                                  *)

\* Finish trusts the stream hash and does not read the slot back.
finish_verifies_stream_only(s, image) == image.programmed = PayloadBlocks

\* The bytes that came over the line are the signed ones.
verify_streaming_payload_hash(s) == s.genuine

\* So are the bytes read back from the slot.
hash_installed_payload(image) == image.programmed = PayloadBlocks /\ image.genuine

\* The header in flash is the one the session began with.
manifest_matches_header(s, image) == image.version = s.version

verify_installed_package(s, image) ==
  image_verifies(image) /\ manifest_matches_header(s, image)

finish_verifies(s, image) ==
  /\ image.programmed = PayloadBlocks
  /\ verify_streaming_payload_hash(s)
  /\ hash_installed_payload(image)
  /\ verify_installed_package(s, image)

FinishEarly ==
  /\ session.state = "WRITING"
  /\ session' = fail_session(session)
  /\ UNCHANGED <<rec, slots>>

Finish ==
  /\ session.state = "PAYLOAD_COMPLETE"
  /\ \E f \in flush_outcomes(session) :
       /\ slots' = [slots EXCEPT ![session.candidate] = f.image]
       /\ IF ~f.ok \/ ~finish_verifies(session, f.image)
            THEN session' = fail_session(session) /\ UNCHANGED rec
            ELSE \E c \in CommitOutcomes(session.metadata, ready_record(session)) :
                   /\ rec' = c.rec
                   /\ session' = [session EXCEPT !.state =
                                    IF c.ok THEN "FINISHED" ELSE "FAILED"]

-----------------------------------------------------------------------------
(* abort                                                                   *)

\* The record under way is this session's, so it is the session's to reject.
abort_rejects(s) ==
  /\ rec.state = "WRITING"
  /\ rec.active_slot = s.active
  /\ rec.candidate_slot = s.candidate
  /\ rec.candidate_image_version = s.version

Abort ==
  /\ IF session.state \in {"FINISHED", "ABORTED"} THEN UNCHANGED <<rec, session>>
     ELSE IF ~session.metadata_writing_committed
       THEN session' = [session EXCEPT !.state = "ABORTED"] /\ UNCHANGED rec
     ELSE IF abort_rejects(session)
       THEN \E c \in CommitOutcomes(rec, rejected_record(session)) :
              /\ rec' = c.rec
              /\ session' = [session EXCEPT !.state = IF c.ok THEN "ABORTED" ELSE "FAILED"]
     ELSE /\ session' = [session EXCEPT !.state =
                           IF no_valid_copy \/ rec.state = "CANDIDATE_READY"
                             THEN "FAILED" ELSE "ABORTED"]
          /\ UNCHANGED rec
  /\ UNCHANGED slots
==============================================================================
