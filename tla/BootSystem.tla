----------------------------- MODULE BootSystem -----------------------------
(***************************************************************************)
(* The device from reset to reset: the update window, the update service   *)
(* driving the installer, the choice of the slot to boot, the running      *)
(* application confirming itself, and the recovery loop.  Power can fail   *)
(* between any two steps; a step that power cuts short leaves what one of  *)
(* its failing outcomes leaves.                                            *)
(***************************************************************************)
EXTENDS UpdateInstaller

CONSTANTS
  RESULT_CANDIDATE_VERIFY_FAILED,
  RESULT_ATTEMPTS_EXHAUSTED,
  TrialResults,   \* what reset_cause_trial_result may hand to the selection
  Packages        \* the package headers a host may offer

ASSUME SystemAssumption ==
  /\ TrialResults \subseteq Results
  /\ {RESULT_CANDIDATE_VERIFY_FAILED, RESULT_ATTEMPTS_EXHAUSTED} \subseteq Results
  /\ Packages \subseteq Package

VARIABLES
  phase,           \* what the processor is executing
  recovery_mode,   \* the service was entered from update_mode_run_recovery
  protocol,        \* the update session, as the service sees it
  running,         \* the slot whose application runs
  terminal,        \* confirmation_terminal of the application
  trials           \* history: how often the current candidate was started

journal == <<rec, slots, session>>
vars == <<rec, slots, session, phase, recovery_mode, protocol, running, terminal, trials>>

Phases == {"poll", "session", "select", "run", "recovery"}

\* BEGIN_FAILED: handle_begin_update has yet to abort the installer it
\* started.
ProtocolStates == {"IDLE", "UPDATING", "BEGIN_FAILED", "FAILED", "FINISHED",
                   "RESET_REQUESTED"}

TypeOK ==
  /\ InstallerTypeOK
  /\ phase \in Phases
  /\ recovery_mode \in BOOLEAN
  /\ protocol \in ProtocolStates
  /\ running \in SlotValues
  /\ terminal \in BOOLEAN
  /\ trials \in 0..(MAX_BOOT_ATTEMPTS + 1)

-----------------------------------------------------------------------------
(* A provisioned device has a confirmed image in one slot; a blank one has *)
(* neither metadata nor images.                                            *)

InitDevice ==
  /\ session = NoSession
  /\ phase = "poll"
  /\ recovery_mode = FALSE
  /\ protocol = "IDLE"
  /\ running = BOOT_SLOT_NONE
  /\ terminal = FALSE
  /\ trials = 0

confirmed_record(slot, version) ==
  next_record(metadata_empty, "CONFIRMED", slot, BOOT_SLOT_NONE, version, 0, 1, 0)

InitProvisioned ==
  \E s \in Slots, v \in Versions :
    /\ v >= MIN_IMAGE_VERSION
    /\ rec = confirmed_record(s, v)
    /\ slots = [t \in Slots |-> IF t = s THEN WholeImage(v) ELSE NoImage]

InitBlank ==
  /\ rec = metadata_empty
  /\ slots = [t \in Slots |-> NoImage]

Init == InitDevice /\ (InitProvisioned \/ InitBlank)

-----------------------------------------------------------------------------
(* Reset: whatever was in RAM is gone, flash stays.                        *)

Restart ==
  /\ phase' = "poll"
  /\ recovery_mode' = FALSE
  /\ protocol' = "IDLE"
  /\ running' = BOOT_SLOT_NONE
  /\ terminal' = FALSE
  /\ session' = NoSession

\* Power loss, the reset pin, the watchdog, the console's reboot command.
Reset ==
  /\ phase # "poll"
  /\ Restart
  /\ UNCHANGED <<rec, slots, trials>>

\* The console's recovery command, in the window before the boot decision.
RequestRecovery ==
  /\ phase = "poll"
  /\ phase' = "recovery"
  /\ UNCHANGED <<journal, recovery_mode, protocol, running, terminal, trials>>

-----------------------------------------------------------------------------
(* The update service.                                                     *)

\* A HELLO frame with sequence 0 opens the session.
OpenSession ==
  /\ phase \in {"poll", "recovery"}
  /\ phase' = "session"
  /\ recovery_mode' = (phase = "recovery")
  /\ protocol' = "IDLE"
  /\ session' = NoSession
  /\ UNCHANGED <<rec, slots, running, terminal, trials>>

\* The service returns: to the boot decision, or to the recovery loop.
BootContinue ==
  /\ phase' = IF recovery_mode THEN "recovery" ELSE "select"
  /\ protocol' = "IDLE"

Stay == UNCHANGED <<recovery_mode, running, terminal, trials>>

Handling(state) == phase = "session" /\ protocol = state

\* update_installer_session_init refuses: nothing was started, so the service
\* has nothing to abort.
HandleBeginNoSession ==
  /\ Handling("IDLE")
  /\ ~session_init_ok(recovery_mode)
  /\ SessionInit(recovery_mode)
  /\ BootContinue
  /\ Stay

HandleBegin(package) ==
  /\ Handling("IDLE")
  /\ session_init_ok(recovery_mode)
  /\ Begin(init_session(recovery_mode), package)
  /\ protocol' = IF session'.state = "WRITING" THEN "UPDATING" ELSE "BEGIN_FAILED"
  /\ UNCHANGED phase
  /\ Stay

HandleBeginAbort ==
  /\ Handling("BEGIN_FAILED")
  /\ Abort
  /\ protocol' = "FAILED"
  /\ UNCHANGED phase
  /\ Stay

\* A block with the offset the session expects.
HandleWrite ==
  /\ Handling("UPDATING")
  /\ (\E good \in BOOLEAN : WriteBlock(good)) \/ WriteOutOfSequence
  /\ protocol' = IF session'.state = "FAILED" THEN "FAILED" ELSE "UPDATING"
  /\ UNCHANGED phase
  /\ Stay

\* A block with another offset never reaches the installer.
HandleWriteWrongOffset ==
  /\ Handling("UPDATING")
  /\ protocol' = "FAILED"
  /\ UNCHANGED <<journal, phase>>
  /\ Stay

HandleFinish ==
  /\ Handling("UPDATING")
  /\ Finish \/ FinishEarly
  /\ protocol' = IF session'.state = "FAILED" THEN "FAILED" ELSE "FINISHED"
  /\ trials' = IF rec'.state = "CANDIDATE_READY" THEN 0 ELSE trials
  /\ UNCHANGED <<phase, recovery_mode, running, terminal>>

\* ABORT_UPDATE from the host.
HandleAbort ==
  /\ Handling("UPDATING")
  /\ Abort
  /\ IF session'.state = "FAILED"
       THEN protocol' = "FAILED" /\ UNCHANGED phase
       ELSE BootContinue
  /\ Stay

\* The host falls silent, the link fails, or a session that never began an
\* update is aborted.
SessionIdleEnds ==
  /\ Handling("IDLE")
  /\ BootContinue
  /\ UNCHANGED journal
  /\ Stay

\* abort_started_installer: after a failure, a timeout or a link error.  What
\* the abort returns is ignored.
ServiceAbort ==
  /\ Handling("FAILED") \/ Handling("UPDATING")
  /\ Abort
  /\ BootContinue
  /\ Stay

\* A RESET frame is obeyed in every state, an update in progress included.
HandleReset ==
  /\ Handling("IDLE") \/ Handling("UPDATING")
  /\ protocol' = "RESET_REQUESTED"
  /\ UNCHANGED <<journal, phase>>
  /\ Stay

-----------------------------------------------------------------------------
(* boot_slot_selection_select and the jump.                                *)

Selecting == phase \in {"poll", "select"}

Jump(slot) ==
  /\ phase' = "run"
  /\ running' = slot
  /\ terminal' = FALSE
  /\ session' = NoSession
  /\ UNCHANGED <<slots, recovery_mode, protocol>>

EnterRecovery ==
  /\ phase' = "recovery"
  /\ session' = NoSession
  /\ UNCHANGED <<slots, recovery_mode, protocol, running, terminal, trials>>

\* The active slot is started without being verified again.
boot_active_unverified ==
  IF rec.active_slot # BOOT_SLOT_NONE
    THEN Jump(rec.active_slot) /\ UNCHANGED trials
    ELSE EnterRecovery

\* select_confirmed_slot and fallback_to_confirmed.
BootActive ==
  IF rec.active_slot # BOOT_SLOT_NONE /\ image_verifies(slots[rec.active_slot])
    THEN Jump(rec.active_slot) /\ UNCHANGED trials
    ELSE EnterRecovery

\* A record in WRITING waits for the update to go on.
select_stable_not_writing ==
  /\ Selecting
  /\ rec.state \in {"CONFIRMED", "REJECTED_INVALID"}
  /\ BootActive
  /\ UNCHANGED rec

SelectStable ==
  /\ Selecting
  /\ rec.state \in {"CONFIRMED", "WRITING", "REJECTED_INVALID"}
  /\ BootActive
  /\ UNCHANGED rec

SelectNothing ==
  /\ Selecting
  /\ rec.state = "EMPTY"
  /\ EnterRecovery
  /\ UNCHANGED rec

OnTrial == rec.state \in {"CANDIDATE_READY", "PENDING_TRIAL"}

candidate_verifies == image_verifies(slots[rec.candidate_slot])

commit_next(next) == CommitOutcomes(rec, next)

\* reject_invalid_best_effort: the boot goes on whatever the commit reports.
RejectBestEffort(result) ==
  \E c \in commit_next(next_record(rec, "REJECTED_INVALID", rec.active_slot,
                rec.candidate_slot, rec.candidate_image_version, 0, 0, result)) :
    rec' = c.rec

SelectTrialInvalid ==
  /\ Selecting /\ OnTrial
  /\ ~candidate_verifies
  /\ RejectBestEffort(RESULT_CANDIDATE_VERIFY_FAILED)
  /\ BootActive

\* The fallback is started without recording that the candidate is rejected.
select_exhausted_unrecorded ==
  /\ Selecting /\ OnTrial
  /\ candidate_verifies
  /\ rec.state = "PENDING_TRIAL" /\ rec.boot_attempt_count = 0
  /\ BootActive
  /\ UNCHANGED rec

SelectTrialExhausted ==
  /\ Selecting /\ OnTrial
  /\ candidate_verifies
  /\ rec.state = "PENDING_TRIAL" /\ rec.boot_attempt_count = 0
  /\ RejectBestEffort(RESULT_ATTEMPTS_EXHAUSTED)
  /\ BootActive

next_attempts ==
  IF rec.state = "CANDIDATE_READY" THEN MAX_BOOT_ATTEMPTS - 1
  ELSE rec.boot_attempt_count - 1

trial_record(result) ==
  next_record(rec, "PENDING_TRIAL", rec.active_slot, rec.candidate_slot,
              rec.candidate_image_version, next_attempts, 0, result)

\* The candidate is started whatever the commit reported.
select_trial_unpaid ==
  /\ Selecting /\ OnTrial
  /\ candidate_verifies
  /\ rec.state = "PENDING_TRIAL" => rec.boot_attempt_count > 0
  /\ \E result \in TrialResults : \E c \in commit_next(trial_record(result)) : rec' = c.rec
  /\ Jump(rec.candidate_slot)
  /\ trials' = trials + 1

\* The attempt is paid for before the jump; without a receipt the confirmed
\* image is started instead.
SelectTrial ==
  /\ Selecting /\ OnTrial
  /\ candidate_verifies
  /\ rec.state = "PENDING_TRIAL" => rec.boot_attempt_count > 0
  /\ \E result \in TrialResults : \E c \in commit_next(trial_record(result)) :
       /\ rec' = c.rec
       /\ IF c.ok THEN Jump(rec.candidate_slot) /\ trials' = trials + 1 ELSE BootActive

-----------------------------------------------------------------------------
(* The running application: platform_confirmation_service.                 *)

metadata_allows_confirmation ==
  /\ rec.state = "PENDING_TRIAL"
  /\ rec.candidate_slot = running
  /\ rec.confirmation_state = 0

application_confirmed_record ==
  next_record(rec, "CONFIRMED", running, BOOT_SLOT_NONE, rec.candidate_image_version, 0, 1, 0)

\* The pending candidate is confirmed by whichever application runs.
confirm_pending_candidate ==
  /\ phase = "run" /\ ~terminal
  /\ terminal' = TRUE
  /\ IF rec.state = "PENDING_TRIAL"
       THEN \E c \in CommitOutcomes(rec, next_record(rec, "CONFIRMED", rec.candidate_slot,
                        BOOT_SLOT_NONE, rec.candidate_image_version, 0, 1, 0)) : rec' = c.rec
       ELSE UNCHANGED rec
  /\ UNCHANGED <<slots, session, phase, recovery_mode, protocol, running, trials>>

\* The health gate passed, or there is nothing to confirm.  Either way the
\* application does not ask again before the next reset.
Confirm ==
  /\ phase = "run" /\ ~terminal
  /\ terminal' = TRUE
  /\ IF metadata_allows_confirmation
       THEN \E c \in CommitOutcomes(rec, application_confirmed_record) : rec' = c.rec
       ELSE UNCHANGED rec
  /\ UNCHANGED <<slots, session, phase, recovery_mode, protocol, running, trials>>

-----------------------------------------------------------------------------
Service ==
  \/ OpenSession
  \/ HandleBeginNoSession
  \/ \E package \in Packages : HandleBegin(package)
  \/ HandleBeginAbort
  \/ HandleWrite
  \/ HandleWriteWrongOffset
  \/ HandleFinish
  \/ HandleAbort
  \/ SessionIdleEnds
  \/ ServiceAbort
  \/ HandleReset

Select ==
  \/ SelectStable
  \/ SelectNothing
  \/ SelectTrialInvalid
  \/ SelectTrialExhausted
  \/ SelectTrial

Next == Reset \/ RequestRecovery \/ Service \/ Select \/ Confirm

Spec == Init /\ [][Next]_vars

\* Flash that loses an image's bytes while nothing is writing it.
Corrupt(slot) ==
  /\ phase \in {"poll", "run", "recovery"}
  /\ slots[slot].genuine
  /\ slots' = [slots EXCEPT ![slot].genuine = FALSE]
  /\ UNCHANGED <<rec, session, phase, recovery_mode, protocol, running, terminal, trials>>

CorruptingNext == Next \/ \E slot \in Slots : Corrupt(slot)

CorruptingSpec == Init /\ [][CorruptingNext]_vars

-----------------------------------------------------------------------------
(* Properties of the device.                                               *)

\* What the metadata promises is in flash: the active slot boots, and so does
\* a candidate that is ready or on trial, which carries the version recorded
\* for it.  Nothing that can interrupt an update takes this away.
MetadataMatchesFlash ==
  /\ rec.active_slot # BOOT_SLOT_NONE => image_verifies(slots[rec.active_slot])
  /\ rec.state = "CONFIRMED" =>
       slots[rec.active_slot].version = rec.candidate_image_version
  /\ OnTrial =>
       /\ candidate_verifies
       /\ slots[rec.candidate_slot].version = rec.candidate_image_version

\* A device that once had a confirmed image never ends up without one: the
\* active slot is never given up, only handed to a candidate that confirmed
\* itself, and no step writes the slot that is active.
ActiveNeverLost ==
  [][rec.active_slot # BOOT_SLOT_NONE =>
       /\ slots'[rec.active_slot] = slots[rec.active_slot]
       /\ \/ rec'.active_slot = rec.active_slot
          \/ rec.state = "PENDING_TRIAL" /\ rec'.active_slot = rec.candidate_slot]_vars

\* Only the application that is running, started as a trial, is ever
\* confirmed: a fallback boot of the old image with the trial still pending
\* cannot confirm the candidate it did not run.
ConfirmsOnlyItself ==
  [][(rec.state # "CONFIRMED" /\ rec'.state = "CONFIRMED") =>
       /\ phase = "run"
       /\ running = rec.candidate_slot
       /\ rec'.active_slot = running
       /\ trials > 0]_vars

\* A candidate is started at most three times, and each start was paid for in
\* the metadata before the jump.  A commit that reports failure, a best-effort
\* rejection that is lost, or a reset at any point never buys another start.
TrialBudget ==
  OnTrial \/ rec.state = "REJECTED_INVALID" =>
    /\ trials <= MAX_BOOT_ATTEMPTS
    /\ rec.state = "CANDIDATE_READY" => trials = 0
    /\ rec.state = "PENDING_TRIAL" => trials + rec.boot_attempt_count <= MAX_BOOT_ATTEMPTS

\* The application that runs was verified in the slot it runs from, and the
\* metadata still entitles it to run: it is the active image, or the candidate
\* while its trial is pending.
RunningIsEntitled ==
  phase = "run" =>
    /\ image_verifies(slots[running])
    /\ running = rec.active_slot \/ (rec.state = "PENDING_TRIAL" /\ running = rec.candidate_slot)

\* Versions of the confirmed image only go up, whichever slots, rejections and
\* interrupted updates lie between two confirmations.
VersionNeverFalls ==
  [][(rec.active_slot # BOOT_SLOT_NONE /\ rec'.active_slot # rec.active_slot) =>
       slots'[rec'.active_slot].version > slots[rec.active_slot].version]_vars

\* A device with an active image reaches recovery only because someone asked
\* for it at the console.
RecoveryOnlyOnRequest ==
  [][(phase \in {"poll", "select"} /\ phase' = "recovery" /\ rec.active_slot # BOOT_SLOT_NONE)
       => RequestRecovery]_vars

\* The two parties of an update agree on it: while the service is updating, the
\* journal holds exactly the WRITING record of this session, and a session
\* that finished left its candidate ready.
SessionOwnsRecord ==
  /\ session.state \in {"WRITING", "PAYLOAD_COMPLETE"} =>
       /\ rec = session.metadata
       /\ rec.state = "WRITING"
       /\ rec.candidate_slot = session.candidate
       /\ rec.candidate_image_version = session.version
       /\ rec.active_slot # session.candidate
  /\ session.state = "FINISHED" =>
       rec.state = "CANDIDATE_READY" /\ rec.candidate_slot = session.candidate

\* In a device whose images can decay, every application that is started was
\* verified at that boot, in the slot it is started from.
JumpIsVerified ==
  [][(phase # "run" /\ phase' = "run") => image_verifies(slots'[running'])]_vars

-----------------------------------------------------------------------------
(* Liveness.  Every run of the processor ends in a reset sooner or later;  *)
(* the entry window is not hit by a reset or a host for ever; and flash    *)
(* that fails now and then does not fail at every boot.                    *)

TrialPaid == SelectTrial /\ running' = rec.candidate_slot

ExhaustedRecorded == SelectTrialExhausted /\ rec' # rec

Fairness ==
  /\ WF_vars(Reset)
  /\ SF_vars(Select)
  /\ SF_vars(TrialPaid)
  /\ SF_vars(ExhaustedRecorded)

FairSpec == Spec /\ Fairness

\* A trial ends: the candidate confirms itself or is rejected, however often
\* commits fail and the old image is started instead, unless the sequence
\* counter runs out first.
TrialResolves == OnTrial ~> (~OnTrial \/ rec.sequence >= UINT32_MAX - 1)

\* A device that has a confirmed image always gets back to running one.
KeepsRunning == (rec.active_slot # BOOT_SLOT_NONE) ~> (phase = "run")

-----------------------------------------------------------------------------
(* What the documents say and the code does not do.                        *)

\* docs/secure-update-hardware-test.md, G3: after a power cut during block
\* programming, metadata is WRITING, the confirmed slot runs, and recovery is
\* "Power restore; retry update".
RetryPossible ==
  (phase = "run" /\ running = rec.active_slot /\ rec.state = "WRITING"
     /\ rec.sequence < UINT32_MAX - 1) => session_init_ok(FALSE)
=============================================================================
