--------------------------- MODULE MetadataJournal ---------------------------
(***************************************************************************)
(* The two-copy metadata journal in flash: boot_metadata_commit and        *)
(* boot_metadata_reinitialize_for_recovery, one flash operation per step,  *)
(* and the factory tool boot_metadata_provision, one output per step.      *)
(*                                                                         *)
(* Each flash operation either succeeds, or reports an error, or is cut    *)
(* short by a loss of power.  In the last two cases the sector may be      *)
(* untouched, partly changed, or completely changed: the controller        *)
(* programs byte by byte, and re-locking it can fail after the data is     *)
(* already in place.                                                       *)
(***************************************************************************)
EXTENDS BootMetadata

CONSTANT Requests   \* the records that callers hand to the journal

ASSUME RequestAssumption == Requests \subseteq Record

VARIABLES
  copies,   \* the two metadata sectors
  pc,       \* the flash operation that comes next; "idle" between calls
  target,   \* the copy being rewritten
  req,      \* the record being written, or the one last acknowledged
  status    \* what the last call returned; "none" after a reset

vars == <<copies, pc, target, req, status>>

FlashSteps == {"reinit_a", "reinit_b", "erase", "body", "marker"}
ProvisionSteps == {"copy_a", "copy_b", "json"}

TypeOK ==
  /\ copies \in [Copies -> Cell]
  /\ pc \in FlashSteps \cup ProvisionSteps \cup {"idle"}
  /\ target \in Copies
  /\ req \in Record
  /\ status \in {"none", "OK", "ERR_FLASH", "ERR_SEQUENCE", "ERR_BAD_FORMAT",
                 "ERR_BAD_TRANSITION", "ERR_AMBIGUOUS", "EXIT_FAILED"}

-----------------------------------------------------------------------------
UnusableCells == {ErasedCell, [body |-> Torn, marker |-> "torn"]}

\* A new device: nothing in its sectors is a record.
Init ==
  /\ pc = "idle"
  /\ target = "A"
  /\ req = metadata_empty
  /\ status = "none"
  /\ copies \in [Copies -> UnusableCells]

-----------------------------------------------------------------------------
(* The calls.                                                              *)

Return(result) ==
  /\ pc' = "idle"
  /\ status' = result
  /\ req' = IF result = "OK" THEN req ELSE metadata_empty

\* boot_metadata_commit up to its first flash write: recover, check the
\* transition against what was recovered, choose the copy to rewrite.
commit_check(next) ==
  IF recover_status(copies) = "ERR_AMBIGUOUS" THEN "ERR_AMBIGUOUS"
  ELSE validate_transition(recover_selected(copies), next)

CommitAccepted(next) ==
  /\ pc = "idle"
  /\ commit_check(next) = "OK"
  /\ pc' = "erase"
  /\ target' = commit_target(copies)
  /\ req' = next
  /\ status' = "none"
  /\ UNCHANGED copies

CommitRefused(next) ==
  /\ pc = "idle"
  /\ commit_check(next) # "OK"
  /\ status' = commit_check(next)
  /\ req' = metadata_empty
  /\ UNCHANGED <<copies, pc, target>>

\* A read failure ends the call before anything is written.
CommitUnreadable ==
  /\ pc = "idle"
  /\ status' = "ERR_FLASH"
  /\ req' = metadata_empty
  /\ UNCHANGED <<copies, pc, target>>

\* The installer rebuilds the journal only when nothing usable was recovered.
reinitialize_allowed(next) ==
  /\ next.sequence = 1
  /\ next.state = "WRITING"
  /\ next.active_slot = BOOT_SLOT_NONE
  /\ next.candidate_slot = "A"
  /\ validate_transition(metadata_empty, next) = "OK"

Reinitialize(next) ==
  /\ pc = "idle"
  /\ recover_status(copies) \in {"ERR_NO_VALID_COPY", "ERR_AMBIGUOUS"}
  /\ reinitialize_allowed(next)
  /\ pc' = "reinit_a"
  /\ target' = "A"
  /\ req' = next
  /\ status' = "none"
  /\ UNCHANGED copies

-----------------------------------------------------------------------------
(* The flash operations.  Step gives the sector of the operation that is   *)
(* due, what it holds when the operation succeeds, and what it may hold    *)
(* when the operation does not.                                            *)

sector == IF pc = "reinit_b" THEN "B" ELSE target

\* The sector's content once the due operation has succeeded.
write_result(c) ==
  IF pc = "body" THEN [copies[c] EXCEPT !.body = req]
  ELSE IF pc = "marker" THEN [copies[c] EXCEPT !.marker = "set"]
  ELSE ErasedCell

\* Its content if the operation was interrupted or reported an error.
partial_results(c) ==
  {cell \in [body : {copies[c].body, Torn, write_result(c).body},
             marker : {copies[c].marker, "torn", write_result(c).marker}] :
     /\ pc = "body" => cell.marker = copies[c].marker
     /\ pc = "marker" => cell.body = copies[c].body}

next_pc ==
  IF pc = "reinit_a" THEN "reinit_b"
  ELSE IF pc = "reinit_b" THEN "erase"
  ELSE IF pc = "erase" THEN "body"
  ELSE "marker"

FlashOperation ==
  /\ pc \in FlashSteps
  /\ copies' = [copies EXCEPT ![sector] = write_result(sector)]
  /\ IF pc = "marker"
       THEN Return("OK")
       ELSE pc' = next_pc /\ UNCHANGED <<req, status>>
  /\ UNCHANGED target

FlashFailure ==
  /\ pc \in FlashSteps
  /\ \E cell \in partial_results(sector) :
       copies' = [copies EXCEPT ![sector] = cell]
  /\ Return("ERR_FLASH")
  /\ UNCHANGED target

\* A reset forgets the call; the operation under way is left where it was.
PowerLoss ==
  /\ pc \in FlashSteps
  /\ \E cell \in partial_results(sector) :
       copies' = [copies EXCEPT ![sector] = cell]
  /\ pc' = "idle"
  /\ req' = metadata_empty
  /\ status' = "none"
  /\ UNCHANGED target

-----------------------------------------------------------------------------
(* boot_metadata_provision create-confirmed.  It writes one image per      *)
(* sector, and the factory programs each into its sector as it is.         *)

provision_confirmed_record(slot, version) ==
  next_record(metadata_empty, "CONFIRMED", slot, BOOT_SLOT_NONE, version, 0, 1, 0)

provisioned(r) == [body |-> r, marker |-> "set"]

\* The versions parse_u32 lets through; 0 is refused later.
ParsedVersions == Versions \cup {0}

\* A device with a usable record is not provisioned again.
Provision(slot, version) ==
  LET r == provision_confirmed_record(slot, version)
      result == prepare_next_status(metadata_empty, r)
  IN /\ pc = "idle"
     /\ recover_status(copies) = "ERR_NO_VALID_COPY"
     /\ target' = "A"
     /\ IF result = "OK"
          THEN pc' = "copy_a" /\ req' = r /\ status' = "none"
          ELSE Return(result)
     /\ UNCHANGED copies

image_sector == IF pc = "copy_a" THEN "A" ELSE "B"

WriteImage ==
  /\ pc \in {"copy_a", "copy_b"}
  /\ copies' = [copies EXCEPT ![image_sector] = provisioned(req)]
  /\ pc' = IF pc = "copy_a" THEN "copy_b" ELSE "json"
  /\ UNCHANGED <<target, req, status>>

WriteReport ==
  /\ pc = "json"
  /\ Return("OK")
  /\ UNCHANGED <<copies, target>>

\* An output cannot be written, or not in full, or not closed.
ProvisionFailure ==
  /\ pc \in ProvisionSteps
  /\ \/ UNCHANGED copies
     \/ /\ pc # "json"
        /\ \E cell \in UnusableCells \cup {provisioned(req)} :
             copies' = [copies EXCEPT ![image_sector] = cell]
  /\ Return("EXIT_FAILED")
  /\ UNCHANGED target

\* create-update-sequence: the records of an update up to its first start, or
\* none of them.
provision_update_sequence(active, candidate, active_version, candidate_version) ==
  LET confirmed == provision_confirmed_record(active, active_version)
      writing == next_record(confirmed, "WRITING", active, candidate, candidate_version, 0, 0, 0)
      ready == next_record(writing, "CANDIDATE_READY", active, candidate, candidate_version, 0, 0, 0)
  IN IF /\ active # candidate /\ candidate_version > active_version
        /\ prepare_next_status(metadata_empty, confirmed) = "OK"
        /\ prepare_next_status(confirmed, writing) = "OK"
        /\ prepare_next_status(writing, ready) = "OK"
       THEN <<confirmed, writing, ready>>
       ELSE <<>>

\* The command writes the records only if the core made all three of them.
run_create_update_sequence(active, candidate, active_version, candidate_version) ==
  IF {active, candidate} \subseteq Slots /\ {active_version, candidate_version} \subseteq ParsedVersions
    THEN provision_update_sequence(active, candidate, active_version, candidate_version)
    ELSE <<>>

\* install-sim of update_package.py: the metadata sectors of its flash image while
\* the package is being written, and once it has been read back and verified.
metadata_update_sequence(active, active_version, candidate_version) ==
  run_create_update_sequence(active, IF active = "A" THEN "B" ELSE "A",
                             active_version, candidate_version)
simulated_writing(records) ==
  [c \in Copies |-> provisioned(IF c = "A" THEN records[1] ELSE records[2])]
simulated_installed(records) ==
  [simulated_writing(records) EXCEPT !["A"] = provisioned(records[3])]

-----------------------------------------------------------------------------
Next ==
  \/ \E next \in Requests : CommitAccepted(next)
  \/ \E next \in Requests : CommitRefused(next)
  \/ CommitUnreadable
  \/ \E next \in Requests : Reinitialize(next)
  \/ FlashOperation
  \/ FlashFailure
  \/ PowerLoss
  \/ \E slot \in Slots, version \in ParsedVersions : Provision(slot, version)
  \/ WriteImage
  \/ WriteReport
  \/ ProvisionFailure

Spec == Init /\ [][Next]_vars

-----------------------------------------------------------------------------
(* Properties.                                                             *)

\* Two valid copies never carry the same sequence number with different
\* contents, so boot_metadata_recover never has to give up on a journal that
\* only boot_metadata_commit has written: not after a failed commit that was
\* durable all the same, not after any series of power cuts.
NeverAmbiguous == recover_status(copies) # "ERR_AMBIGUOUS"

\* While write_copy is changing a sector, the record that a reset would
\* recover is in the other sector.
SurvivingCopy ==
  (pc \in FlashSteps /\ recover_status(copies) = "OK") => recover_copy(copies) # sector

\* BOOT_METADATA_OK from a commit, and EXIT_OK from the factory tool, mean that
\* the new record, and no other, is what the next boot recovers.
AcknowledgedIsRecovered ==
  status = "OK" => recover_status(copies) = "OK" /\ recover_selected(copies) = req

\* Every step of the flash-level journal is a step of the atomic one: what a
\* reader recovers is replaced by a legal successor in one instant, never
\* lost, never rolled back to an older record, and never renumbered past the
\* end of the 32-bit counter.
Atomic == INSTANCE AtomicJournal WITH rec <- recover_selected(copies)
ImplementsAtomicJournal == Atomic!Spec
=============================================================================
