-------------------------- MODULE ModuleInstaller --------------------------
(***************************************************************************)
(* The A/B installer for signed research modules (tools/module_install.py).*)
(*                                                                         *)
(* Persistent state is what SimulatedFlash holds: an append-only catalog   *)
(* of fixed-size CRC-protected records, and two package slots per module.  *)
(* Everything else is recomputed from the catalog by recover_catalog at    *)
(* every call, so an installer that lost power is simply a new call.       *)
(*                                                                         *)
(* Every operation is one to three persistent writes computed by the       *)
(* method; the action performs all of them, or a prefix of them after      *)
(* which power is lost, the write in flight being whole, torn or not begun.*)
(*                                                                         *)
(* The catalog is read only through recover_catalog, which folds its       *)
(* decodable records into a view; the model keeps the view and the offset  *)
(* of the end of the catalog within the 128-byte grid recovery scans.  A   *)
(* torn record moves that offset, and what is appended off the grid cannot *)
(* be decoded.                                                             *)
(***************************************************************************)
EXTENDS Integers, FiniteSetsExt

CONSTANTS
  Modules,            \* module identifiers
  Packages,           \* package blobs: records with module_id, version, signer, parses
  ModuleSigner,       \* key id of the configured module public key
  FirmwareSigner,     \* key id of the firmware public key
  OtherSigner,        \* some other key id
  FailureThreshold,   \* failure_threshold of the constructor
  RecordUnits,        \* catalog bytes per record, in units a torn write leaves
  MaxSequence         \* 0xFFFFFFFF in the code

\* A package names one of the modules; sequence numbers and record parts are counted.
ASSUME InstallerAssumption ==
  /\ Packages \subseteq [module_id : Modules, version : Nat,
                         signer : {ModuleSigner, FirmwareSigner, OtherSigner}, parses : BOOLEAN]
  /\ FailureThreshold \in Nat /\ MaxSequence \in Nat /\ RecordUnits \in Nat \ {0}

VARIABLES
  view,      \* what recover_catalog makes of the catalog
  tail,      \* offset of the end of the catalog within the record grid
  slots      \* slots[m][s]: the package in slot s of module m

installer_vars == <<view, tail, slots>>

InstallState == {"EMPTY", "RECEIVING", "VERIFIED", "PENDING", "ACTIVE",
                 "CONFIRMED", "REJECTED", "QUARANTINED"}
SlotIds == {"A", "B"}
SLOT_NONE == "none"
NoPackage == [module_id |-> "none", version |-> 0, signer |-> "none", parses |-> FALSE]
\* What write_partial_slot leaves: a prefix, refused as a truncated header.
Truncated(package) == [package EXCEPT !.parses = FALSE]

Contents == Packages \cup {NoPackage} \cup {Truncated(p) : p \in Packages}

CatalogRecord == [kind : {"state", "revocation"}, sequence : 1..MaxSequence,
  module_id : Modules \cup {"none"}, module_version : Nat, min_version : Nat,
  state : InstallState, active_slot : SlotIds \cup {SLOT_NONE},
  candidate_slot : SlotIds \cup {SLOT_NONE}, failures : Nat,
  signer_key_id : {ModuleSigner, FirmwareSigner, OtherSigner},
  fingerprint : Packages \cup {NoPackage}]

-----------------------------------------------------------------------------
(* Recovery *)

identity_valid(r) ==
  \/ r.kind = "state" /\ r.module_id # "none" /\ r.module_version # 0
  \/ r = [kind |-> "revocation", sequence |-> r.sequence, module_id |-> "none",
          module_version |-> 0, min_version |-> 0, state |-> "EMPTY",
          active_slot |-> SLOT_NONE, candidate_slot |-> SLOT_NONE, failures |-> 0,
          signer_key_id |-> r.signer_key_id, fingerprint |-> NoPackage]
slots_valid(r) == {r.active_slot, r.candidate_slot} \subseteq SlotIds \cup {SLOT_NONE}

\* encode_record refuses to write, decode_record to read, anything else.
encode_record_ok(r) == r.sequence # 0 /\ identity_valid(r) /\ slots_valid(r)
decode_record_ok(r) ==
  r.sequence # 0 /\ r.state \in InstallState /\ slots_valid(r) /\ identity_valid(r)

NoRecord == [state |-> "EMPTY", sequence |-> 0]
RecoveryView(sequence, latest, confirmed, min_version, revoked) ==
  [sequence |-> sequence, latest |-> latest, confirmed |-> confirmed,
   min_version |-> min_version, revoked |-> revoked]
EmptyView == RecoveryView(0, [m \in Modules |-> NoRecord], [m \in Modules |-> NoRecord],
                          [m \in Modules |-> 0], {})

\* One turn of recover_catalog's loop.  Sequences grow along the catalog, so the
\* record at hand is never older than the one it replaces.
recover_step(v, r) ==
  IF r.kind = "revocation"
  THEN RecoveryView(r.sequence, v.latest, v.confirmed, v.min_version, v.revoked \cup {r.signer_key_id})
  ELSE RecoveryView(r.sequence,
         [v.latest EXCEPT ![r.module_id] = r],
         IF r.state = "CONFIRMED" THEN [v.confirmed EXCEPT ![r.module_id] = r] ELSE v.confirmed,
         [v.min_version EXCEPT ![r.module_id] = Max({@, r.min_version})],
         v.revoked)

Known(m) == view.latest[m] # NoRecord
latest(m) == view.latest[m]
HasConfirmed(m) == view.confirmed[m] # NoRecord
confirmed(m) == view.confirmed[m]
min_version(m) == view.min_version[m]
confirmed_slot(m) == IF HasConfirmed(m) THEN confirmed(m).active_slot ELSE SLOT_NONE

slot_package(m, s) == IF s = SLOT_NONE THEN NoPackage ELSE slots[m][s]

verify_package(package, m) ==
  /\ ModuleSigner \notin view.revoked
  /\ ModuleSigner # FirmwareSigner
  /\ package.parses /\ package.signer = ModuleSigner
  /\ package.module_id = m
  /\ package.version >= min_version(m)

\* current_confirmed_package: the slot still holds what was confirmed.
current_confirmed(m) ==
  IF HasConfirmed(m) /\ slot_package(m, confirmed(m).active_slot) = confirmed(m).fingerprint
  THEN confirmed(m).fingerprint ELSE NoPackage
-----------------------------------------------------------------------------
(* Persistent writes *)

SimulatedFlash(v, t, s) == [view |-> v, tail |-> t, slots |-> s]
Flash == SimulatedFlash(view, tail, slots)
Append_(record) == [kind |-> "append", record |-> record]
WriteSlot(m, s, package) == [kind |-> "slot", m |-> m, s |-> s, package |-> package]

state_record(package, state, active, candidate, min, failures) ==
  [kind |-> "state", sequence |-> 0, module_id |-> package.module_id,
   module_version |-> package.version, min_version |-> min, state |-> state,
   active_slot |-> active, candidate_slot |-> candidate, failures |-> failures,
   signer_key_id |-> package.signer, fingerprint |-> package]

\* _next_sequence raises when no sequence number is left, before anything is written.
sequenced(flash, record) == [record EXCEPT !.sequence = flash.view.sequence + 1]
refused(flash, w) ==
  /\ w.kind = "append"
  /\ \/ flash.view.sequence >= MaxSequence
     \/ ~encode_record_ok(sequenced(flash, w.record))

\* iter_valid_records scans the grid and skips what does not decode.
visible(flash, record) == flash.tail = 0 /\ decode_record_ok(record)
append_catalog(flash, record) ==
  IF visible(flash, sequenced(flash, record))
  THEN SimulatedFlash(recover_step(flash.view, sequenced(flash, record)), flash.tail, flash.slots)
  ELSE flash

write_slot(flash, m, s, package) ==
  SimulatedFlash(flash.view, flash.tail, [flash.slots EXCEPT ![m][s] = package])

Written(flash, w) ==
  IF w.kind = "append" THEN append_catalog(flash, w.record)
  ELSE write_slot(flash, w.m, w.s, w.package)

\* A write power loss interrupts: part of the record or part of the package.
TornWrites(flash, w) ==
  IF w.kind = "append"
  THEN {SimulatedFlash(flash.view, (flash.tail + k) % RecordUnits, flash.slots) :
          k \in 1..(RecordUnits - 1)}
  ELSE IF w.package = NoPackage THEN {}
  ELSE {write_slot(flash, w.m, w.s, Truncated(w.package))}

\* Where one, two or three writes leave the flash, wherever power is lost.
Ends(flash, w) ==
  {flash} \cup IF refused(flash, w) THEN {} ELSE {Written(flash, w)} \cup TornWrites(flash, w)
Ends2(flash, w1, w2) ==
  Ends(flash, w1) \cup IF refused(flash, w1) THEN {} ELSE Ends(Written(flash, w1), w2)
Ends3(flash, w1, w2, w3) ==
  Ends(flash, w1) \cup IF refused(flash, w1) THEN {} ELSE Ends2(Written(flash, w1), w2, w3)

Perform(ends) ==
  \E flash \in ends : view' = flash.view /\ tail' = flash.tail /\ slots' = flash.slots
-----------------------------------------------------------------------------
(* Operations *)

\* The slot the confirmed module is in, instead of the other one.
candidate_slot_same(m) == IF confirmed_slot(m) \in {SLOT_NONE, "A"} THEN "A" ELSE "B"
candidate_slot(m) == IF confirmed_slot(m) \in {SLOT_NONE, "B"} THEN "A" ELSE "B"

\* install without the refusal while a candidate is on trial.
install_over_trial(package) ==
  LET m == package.module_id
      record(state) == Append_(state_record(package, state, confirmed_slot(m),
                                 candidate_slot(m), min_version(m), 0))
  IN /\ verify_package(package, m)
     /\ min_version(m) # 0 => package.version > min_version(m)
     /\ Perform(Ends3(Flash, record("RECEIVING"), WriteSlot(m, candidate_slot(m), package),
                      record("VERIFIED")))
install(package) ==
  LET m == package.module_id
      record(state) == Append_(state_record(package, state, confirmed_slot(m),
                                 candidate_slot(m), min_version(m), 0))
  IN /\ verify_package(package, m)
     /\ Known(m) => latest(m).state \notin {"PENDING", "ACTIVE"}
     /\ min_version(m) # 0 => package.version > min_version(m)
     /\ Perform(Ends3(Flash, record("RECEIVING"), WriteSlot(m, candidate_slot(m), package),
                      record("VERIFIED")))

activate(m) ==
  LET r == latest(m)
      package == slot_package(m, r.candidate_slot)
  IN /\ Known(m) /\ r.state \in {"VERIFIED", "REJECTED"}
     /\ verify_package(package, m)
     /\ Perform(Ends2(Flash, Append_(state_record(package, "PENDING", r.active_slot,
                                       r.candidate_slot, r.min_version, r.failures)),
                      Append_(state_record(package, "ACTIVE", r.candidate_slot,
                                       r.active_slot, r.min_version, r.failures))))

confirm(m) ==
  LET r == latest(m)
      package == slot_package(m, r.active_slot)
  IN /\ Known(m) /\ r.state = "ACTIVE"
     /\ verify_package(package, m)
     /\ Perform(Ends(Flash, Append_(state_record(package, "CONFIRMED", r.active_slot, SLOT_NONE,
                                       Max({r.min_version, package.version}), 0))))

rollback(m) ==
  LET r == latest(m)
      c == confirmed(m)
      package == slot_package(m, c.active_slot)
      rejected == IF r.active_slot # c.active_slot THEN r.active_slot ELSE r.candidate_slot
  IN /\ Known(m) /\ HasConfirmed(m)
     /\ verify_package(package, m)
     /\ Perform(Ends(Flash, Append_(state_record(package, "REJECTED", c.active_slot, rejected,
                            Max({r.min_version, c.min_version}), r.failures + 1))))

\* record_initialization_result(success=False); success=True writes nothing.
initialization_failed(m) ==
  LET r == latest(m)
      failing == IF r.state = "ACTIVE" THEN r.active_slot ELSE r.candidate_slot
      package == slot_package(m, failing)
      state == IF r.failures + 1 >= FailureThreshold THEN "QUARANTINED" ELSE "REJECTED"
  IN /\ Known(m) /\ r.state \in {"PENDING", "ACTIVE"}
     /\ verify_package(package, m)
     /\ Perform(Ends(Flash, Append_(state_record(package, state, confirmed_slot(m), failing,
                                       r.min_version, r.failures + 1))))

installer_quarantine(m) ==
  LET r == latest(m)
      slot == IF r.candidate_slot # SLOT_NONE THEN r.candidate_slot ELSE r.active_slot
      package == slot_package(m, slot)
  IN /\ Known(m)
     /\ verify_package(package, m)
     /\ Perform(Ends(Flash, Append_(state_record(package, "QUARANTINED", confirmed_slot(m), slot,
                                       r.min_version, r.failures))))

\* The slot is erased first.  With a confirmed module the confirmed slot is read
\* and verified next; when that fails the erased slot is all that was written.
remove_candidate(m) ==
  LET r == latest(m)
      erase == WriteSlot(m, r.candidate_slot, NoPackage)
      package == IF r.candidate_slot = confirmed_slot(m) THEN NoPackage
                 ELSE slot_package(m, confirmed_slot(m))
      empty == [r EXCEPT !.state = "EMPTY", !.active_slot = SLOT_NONE,
                         !.candidate_slot = SLOT_NONE]
  IN /\ Known(m) /\ r.candidate_slot # SLOT_NONE
     /\ IF ~HasConfirmed(m) THEN Perform(Ends2(Flash, erase, Append_(empty)))
        ELSE IF ~verify_package(package, m) THEN Perform(Ends(Flash, erase))
        ELSE Perform(Ends2(Flash, erase, Append_(state_record(package, "CONFIRMED", confirmed_slot(m),
                                                   SLOT_NONE, r.min_version, 0))))

revoke_signer(signer) ==
  Perform(Ends(Flash, Append_([kind |-> "revocation", sequence |-> 0, module_id |-> "none",
    module_version |-> 0, min_version |-> 0, state |-> "EMPTY", active_slot |-> SLOT_NONE,
    candidate_slot |-> SLOT_NONE, failures |-> 0, signer_key_id |-> signer,
    fingerprint |-> NoPackage])))

InstallerInit ==
  /\ view = EmptyView
  /\ tail = 0
  /\ slots = [m \in Modules |-> [s \in SlotIds |-> NoPackage]]

InstallerNext ==
  \/ \E package \in Packages : install(package)
  \/ \E m \in Modules : activate(m)
  \/ \E m \in Modules : confirm(m)
  \/ \E m \in Modules : rollback(m)
  \/ \E m \in Modules : initialization_failed(m)
  \/ \E m \in Modules : installer_quarantine(m)
  \/ \E m \in Modules : remove_candidate(m)
  \/ \E signer \in {ModuleSigner, OtherSigner} : revoke_signer(signer)

InstallerSpec == InstallerInit /\ [][InstallerNext]_installer_vars
-----------------------------------------------------------------------------
(* Properties *)

InstallerTypeOK ==
  /\ view.latest \in [Modules -> CatalogRecord \cup {NoRecord}]
  /\ view.confirmed \in [Modules -> CatalogRecord \cup {NoRecord}]
  /\ view.min_version \in [Modules -> Nat]
  /\ view.sequence \in 0..MaxSequence
  /\ tail \in 0..(RecordUnits - 1)
  /\ slots \in [Modules -> [SlotIds -> Contents]]

\* The erase in remove_candidate when the record's candidate is the confirmed slot.
ErasesConfirmed(m) ==
  /\ latest(m).candidate_slot = confirmed(m).active_slot
  /\ slots'[m][confirmed(m).active_slot] = NoPackage

\* No operation, wherever power is lost in it and whatever was torn before,
\* takes the confirmed package away: afterwards the module's confirmed package
\* is the same one, or the package of an ACTIVE record that confirm promoted.
\* The one exception the code has is the erase of remove_candidate on a record
\* that names the confirmed slot as its candidate.
KeepsConfirmed ==
  \A m \in Modules : current_confirmed(m) # NoPackage /\ ~ErasesConfirmed(m) =>
    \/ current_confirmed(m)' = current_confirmed(m)
    \/ /\ latest(m).state = "ACTIVE"
       /\ current_confirmed(m)' = slot_package(m, latest(m).active_slot)

\* Every step of a behaviour is such a one.
ConfirmedKept == [][KeepsConfirmed]_installer_vars

\* The catalog is true of the slots, even when it was torn and later appends went
\* unseen.  The slot a PENDING or ACTIVE record puts on trial never holds another
\* package than the one the record was written for: install cannot replace it
\* while the trial is on; it can only be empty, when remove_candidate erased it and
\* power was lost.  And the rollback floor recovery computes is exactly the version
\* of the newest confirmed record: a candidate that was never confirmed does not
\* raise it, and nothing lowers it below a version once confirmed.
CatalogIsTrue ==
  \A m \in Modules :
    /\ Known(m) =>
         LET r == latest(m)
         IN /\ r.state = "ACTIVE" => slot_package(m, r.active_slot) \in {r.fingerprint, NoPackage}
            /\ r.state = "PENDING" => slot_package(m, r.candidate_slot) \in {r.fingerprint, NoPackage}
    /\ min_version(m) = IF HasConfirmed(m) THEN confirmed(m).module_version ELSE 0
=============================================================================
