------------------------------ MODULE ImageBoot ------------------------------
(***************************************************************************)
(* From the memory layout to the running application: the layout is loaded *)
(* and validated, the host builds a package and writes it to disk, the     *)
(* package (or one from elsewhere) reaches a slot of a board, the boot     *)
(* loader verifies the slot and jumps.  Between the verification and the   *)
(* jump (boot_sequence_run prints, shows LEDs and waits there) up to       *)
(* MaxFaults words of the flash or of the jump context in RAM change.      *)
(* The boards of the earlier experiments run beside it.                    *)
(***************************************************************************)
EXTENDS PackageTool, LegacyLoaders

CONSTANTS Configs,          \* configurations offered to load_layout
          RepositoryConfig, \* the one kept in config/
          Applications,     \* [app, size] pairs to be packaged
          Versions,         \* image versions given to the build
          Others,           \* packages that come from elsewhere
          VerifyArgs,       \* command lines of update_package verify
          ReleaseArgs,      \* command lines of release_artifacts verify-release
          Trees,            \* states of the working tree it is run in
          Resident,         \* slot -> the image it holds while the other one is programmed
          LegacyImages,     \* images programmed beside the earlier loaders
          Words,            \* values a faulty word takes
          MaxFaults         \* words that change between verification and jump

\* A package or an image, whatever its fields say.
IsPackage(p) ==
    /\ p = [m |-> p.m, sig |-> p.sig, pad |-> p.pad, pay |-> p.pay, length |-> p.length]
    /\ {p.m.vector_address, p.m.image_size, p.m.image_version, p.length, p.pay.msp, p.pay.reset} \subseteq Int

\* A configuration is JSON whose numbers are integers.
HasNumbers(c) ==
    /\ \A s \in c.sectors : {s.id, s.base, s.size} \subseteq Int
    /\ \A n \in Ranges :
          {c.regions[n].base, c.regions[n].size, c.regions[n].first_sector, c.regions[n].last_sector} \subseteq Int

ASSUME InputsAssumption ==
    /\ \A config \in Configs : \A profile \in DOMAIN config : HasNumbers(config[profile])
    /\ \A a \in Applications : {a.size, a.app.msp, a.app.reset} \subseteq Int
    /\ Versions \subseteq Int
    /\ \A p \in Others : IsPackage(p)

\* The generated header takes the slots from the layout; an address a multiple
\* of 256 is aligned for the vector table.
ASSUME GeneratedAssumption ==
    /\ Slots = [i \in {0, 1} |-> slot_from_region(RepositoryConfig["stm32f429_1m"],
                                                  IF i = 0 THEN "slot_a" ELSE "slot_b")]
    /\ APPLICATION_VTOR_ALIGNMENT \in 1..256 /\ 256 % APPLICATION_VTOR_ALIGNMENT = 0
    /\ {UINT32_MAX, APPLICATION_MIN_SIZE, APPLICATION_VECTOR_MIN_SIZE} \subseteq Nat \ {0}

\* The key the device holds is a key.
ASSUME KeyAssumption == DeviceKey \notin {NotGiven, Malformed}

VARIABLES layout,    \* what load_layout made of a configuration
          host,      \* the packaging process
          disk,      \* the output file and the temporary file
          received,  \* the package in the hands of a board's user
          board      \* loader, flash, context, where it stands

vars == <<layout, host, disk, received, board>>

NoPackage == [length |-> -1]
NoContext == [vector_address |-> -1]
Idle == [at |-> "idle"]
Off == [ loader |-> "exp045", at |-> "off", slot |-> 0, flash |-> <<>>, ctx |-> NoContext,
         verified |-> NoContext, entered |-> NoContext, faults |-> 0 ]

(***************************************************************************)
(* The layout and the host.                                                *)
(***************************************************************************)

\* The generator runs: only an accepted layout is emitted.
load_layout(config, profile) ==
    /\ layout.status = "none"
    /\ layout' = IF load_layout_ok(config, profile)
                 THEN [status |-> "accepted", profile |-> profile, config |-> config[profile]]
                 ELSE [status |-> "rejected"]
    /\ UNCHANGED <<host, disk, received, board>>

\* The tools and the boot loader are built from the repository's layout.
EmitLayout ==
    /\ layout.status = "accepted" /\ layout.profile = "stm32f429_1m"
    /\ layout.config = RepositoryConfig["stm32f429_1m"]
    /\ layout' = [status |-> "emitted"]
    /\ UNCHANGED <<host, disk, received, board>>

Built == layout.status = "emitted"
\* Host and board share nothing but the package: the host's steps come first.
AtHost == Built /\ host = Idle /\ received = NoPackage /\ board = Off

run_build_unverified(a, i, version) ==
    /\ AtHost
    /\ build_update_package_ok(a.app, a.size, Slots[i], version)
    /\ host' = [at |-> "create", slot |-> i, package |-> build_update_package(a.app, a.size, Slots[i], version, DeviceKey)]
    /\ UNCHANGED <<layout, disk, received, board>>

\* run_build of update_package.py: build, verify what was built, then write.
run_build(a, i, version) ==
    LET p == build_update_package(a.app, a.size, Slots[i], version, DeviceKey) IN
    /\ AtHost
    /\ build_update_package_ok(a.app, a.size, Slots[i], version)
    /\ verify_package_bytes(p, DeviceKey, i)
    /\ host' = [at |-> "create", slot |-> i, package |-> p]
    /\ UNCHANGED <<layout, disk, received, board>>

\* write_output_atomically: the temporary file fills up, is synchronised,
\* and takes the place of the output in one step.
WriteTemp ==
    /\ host.at = "create"
    /\ disk' = [disk EXCEPT !.temp = [host.package EXCEPT !.length = 0]]
    /\ host' = [host EXCEPT !.at = "written"]
    /\ UNCHANGED <<layout, received, board>>

SyncTemp ==
    /\ host.at = "written"
    /\ disk' = [disk EXCEPT !.temp = host.package]
    /\ host' = [host EXCEPT !.at = "synced"]
    /\ UNCHANGED <<layout, received, board>>

ReplaceOutput ==
    /\ host.at = "synced"
    /\ disk' = [file |-> disk.temp, slot |-> host.slot, temp |-> NoPackage]
    /\ host' = Idle
    /\ UNCHANGED <<layout, received, board>>

\* The write fails: the temporary file is removed and the error reported.
WriteFails ==
    /\ host.at \in {"create", "written", "synced"}
    /\ disk' = [disk EXCEPT !.temp = NoPackage]
    /\ host' = Idle
    /\ UNCHANGED <<layout, received, board>>

\* The process or the machine dies; the files stay as they are.
HostCrash ==
    /\ host # Idle
    /\ host' = Idle
    /\ UNCHANGED <<layout, disk, received, board>>

Deliver ==
    /\ AtHost /\ disk.file # NoPackage
    /\ received' = disk.file
    /\ UNCHANGED <<layout, host, disk, board>>

Receive(p) ==
    /\ AtHost /\ disk.file = NoPackage /\ disk.temp = NoPackage
    /\ received' = p
    /\ UNCHANGED <<layout, host, disk, board>>

(***************************************************************************)
(* The board.                                                              *)
(***************************************************************************)

\* The package is written to slot i; the other slot holds an older image.
\* install_simulated demands what the installer demands, a debugger nothing.
Program(i, simulated, active_version) ==
    /\ received # NoPackage /\ board = Off
    /\ simulated => install_simulated_ok(received, DeviceKey, 1 - i, active_version)
    /\ board' = [Off EXCEPT !.at = "reset", !.slot = i,
                            !.flash = [j \in {0, 1} |-> IF j = i THEN received ELSE Resident[j]]]
    /\ UNCHANGED <<layout, host, disk, received>>

Vector(c) == [vector_address |-> c.vector_address, initial_msp |-> c.initial_msp, reset_vector |-> c.reset_vector]

\* boot_sequence_run up to the jump; a slot that does not verify is recovery.
boot_policy_select ==
    LET p == board.flash[board.slot] IN
    /\ board.loader = "exp045" /\ board.at = "reset"
    /\ board' = IF verify_target_slot(p, Slots[board.slot])
                THEN [board EXCEPT !.at = "jump", !.ctx = jump_context(p.m, p.pay),
                                   !.verified = Vector(jump_context(p.m, p.pay))]
                ELSE [board EXCEPT !.at = "recovery"]
    /\ UNCHANGED <<layout, host, disk, received>>

FlashFault(word, value) ==
    /\ board.at = "jump" /\ board.faults < MaxFaults
    /\ board' = [board EXCEPT !.flash[board.slot].pay[word] = value, !.faults = @ + 1]
    /\ UNCHANGED <<layout, host, disk, received>>

ContextFault(field, value) ==
    /\ board.loader = "exp045" /\ board.at = "jump" /\ board.faults < MaxFaults
    /\ board' = [board EXCEPT !.ctx[field] = value, !.faults = @ + 1]
    /\ UNCHANGED <<layout, host, disk, received>>

\* The words confirm_jump_context_matches_flash reads at the context's address.
PayloadAt(address) ==
    IF slot_for_vector_address(address) = {} THEN [msp |-> -1, reset |-> -1]
    ELSE board.flash[CHOOSE j \in {0, 1} : Slots[j].payload_base = address].pay

\* A refused jump halts with the fatal indication until the next reset.
signed_image_jump ==
    /\ board.loader = "exp045" /\ board.at = "jump"
    /\ board' = IF /\ validate_jump_context(board.ctx)
                   /\ confirm_jump_context_matches_flash(board.ctx, PayloadAt(board.ctx.vector_address))
                THEN [board EXCEPT !.at = "app", !.entered = Vector(board.ctx)]
                ELSE [board EXCEPT !.at = "halted"]
    /\ UNCHANGED <<layout, host, disk, received>>

ProgramLegacy(loader, p) ==
    /\ AtHost /\ disk.file = NoPackage /\ disk.temp = NoPackage
    /\ board' = [Off EXCEPT !.loader = loader, !.at = "reset", !.flash = [j \in {0} |-> p]]
    /\ UNCHANGED <<layout, host, disk, received>>

LegacyBoot ==
    /\ board.loader \in Legacy /\ board.at = "reset"
    /\ board' = IF legacy_verify(board.loader, board.flash[0])
                THEN [board EXCEPT !.at = "jump", !.verified = legacy_jump(board.loader, board.flash[0])]
                ELSE [board EXCEPT !.at = "halted"]
    /\ UNCHANGED <<layout, host, disk, received>>

LegacyJump ==
    /\ board.loader \in Legacy /\ board.at = "jump"
    /\ board' = [board EXCEPT !.at = "app", !.entered = legacy_jump(board.loader, board.flash[0])]
    /\ UNCHANGED <<layout, host, disk, received>>

\* A reset: RAM is lost, the flash keeps its words, faulty ones included.
\* MaxFaults bounds the faults of a board's whole life.
PowerCycle ==
    /\ board.at \notin {"off", "reset"}
    /\ board' = [board EXCEPT !.at = "reset", !.ctx = NoContext, !.verified = NoContext, !.entered = NoContext]
    /\ UNCHANGED <<layout, host, disk, received>>

Init ==
    /\ layout = [status |-> "none"]
    /\ host = Idle
    /\ disk = [file |-> NoPackage, slot |-> 0, temp |-> NoPackage]
    /\ received = NoPackage
    /\ board = Off

Next ==
    \/ \E config \in Configs : \E profile \in DOMAIN config \cup Profiles : load_layout(config, profile)
    \/ EmitLayout
    \/ \E a \in Applications, i \in {0, 1}, version \in Versions : run_build(a, i, version)
    \/ WriteTemp \/ SyncTemp \/ ReplaceOutput \/ WriteFails \/ HostCrash \/ Deliver
    \/ \E p \in Others : Receive(p)
    \/ \E i \in {0, 1}, simulated \in BOOLEAN, version \in Versions : Program(i, simulated, version)
    \/ boot_policy_select \/ signed_image_jump
    \/ \E word \in {"msp", "reset", "body"}, value \in Words : FlashFault(word, value)
    \/ \E field \in {"vector_address", "image_size", "payload_end", "initial_msp", "reset_vector", "reset_address"},
          value \in Words : ContextFault(field, value)
    \/ \E loader \in Legacy, p \in LegacyImages : ProgramLegacy(loader, p)
    \/ LegacyBoot \/ LegacyJump \/ PowerCycle

Spec == Init /\ [][Next]_vars

(***************************************************************************)
(* Properties.                                                             *)
(***************************************************************************)

Sectors(r) == r.first_sector..r.last_sector

\* validate_layout: in a layout that load_layout accepts every sector belongs
\* to exactly one region and lies inside it, so erasing a region's sectors
\* never touches another region; and the 1 MiB layout passes the assertions
\* the boot loader is compiled with.
LayoutIsPartition ==
    layout.status = "accepted" =>
      LET c == layout.config IN
      /\ \A s \in c.sectors : \E n \in Ranges :
            /\ s.id \in Sectors(c.regions[n])
            /\ s.base >= c.regions[n].base /\ End(s) <= End(c.regions[n])
            /\ \A m \in Ranges \ {n} : s.id \notin Sectors(c.regions[m])
      /\ layout.profile = "stm32f429_1m" => static_asserts(c)

\* verify_package_bytes on the host and update_package_verify_for_slot on the
\* device accept the same packages for the same slot; what they accept passes
\* the header check made while it streams in and boots from flash; and a
\* single image the host accepts is one the device boots.  What the tools
\* report holds on the device: run_verify says ok of a package, for the device's
\* key, only if the device accepts it in that slot and the report names that
\* slot alone, and says so of every such package when no application is given;
\* run_verify_signed and run_verify_release say ok only of an image the device
\* boots.
HostAgreesWithDevice ==
    received # NoPackage =>
      /\ \A i \in {0, 1} :
           /\ verify_package_bytes(received, DeviceKey, i)
                <=> update_package_verify_for_slot(received, DeviceKey, Slots[i])
           /\ update_package_verify_for_slot(received, DeviceKey, Slots[i])
                => /\ update_package_verify_header_for_slot(received, DeviceKey, Slots[i])
                   /\ verify_target_slot(received, Slots[i])
           /\ \A args \in VerifyArgs : public_key_from_args(args) = DeviceKey =>
                /\ run_verify(received, i, args).ok
                     => /\ update_package_verify_for_slot(received, DeviceKey, Slots[i])
                        /\ run_verify(received, i, args).context.slot = {i}
                /\ (/\ args.application = NoApplication
                    /\ update_package_verify_for_slot(received, DeviceKey, Slots[i]))
                     => run_verify(received, i, args).ok
      /\ verify_signed_image(received, DeviceKey, Slots[0], FALSE)
           => signed_image_verify(received) /\ signed_image_prepare_jump(received)
      /\ \A args \in VerifyArgs :
           public_key_from_args(args) = DeviceKey /\ run_verify_signed(received, args)
             => signed_image_verify(received) /\ signed_image_prepare_jump(received)
      /\ \A args \in ReleaseArgs, tree \in Trees :
           public_key_from_args(args) = DeviceKey /\ run_verify_release(received, args, tree)
             => signed_image_verify(received) /\ signed_image_prepare_jump(received)

\* run_build and write_output_atomically: whatever crashes or fails on the
\* way, the output file is absent or a whole package that the device accepts
\* for the slot it was built for.
OutputIsAccepted ==
    disk.file # NoPackage => update_package_verify_for_slot(disk.file, DeviceKey, Slots[disk.slot])

\* signed_image_jump: the vector table the application is entered with is the
\* one that was verified, even when a word of the flash or of the context
\* changes in between; the earlier loaders promise it only without a fault.
EntersVerified ==
    board.at = "app" /\ board.faults <= (IF board.loader \in Legacy THEN 0 ELSE 1)
      => board.entered = board.verified

\* boot_sequence_run pays for a trial attempt before signed_image_jump checks
\* the context again: without a fault the jump never refuses what the
\* selection verified, so no attempt is lost to a halt.
RefusedOnlyByFault == board.loader = "exp045" /\ board.at = "halted" => board.faults > 0

=============================================================================
