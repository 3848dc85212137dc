----------------------------- MODULE PackageTool -----------------------------
(***************************************************************************)
(* The host's packaging tools: build_signed_image.py (exp065_signed_app)   *)
(* builds and signs a package, release_artifacts.py and update_package.py  *)
(* inspect, verify and install it into a simulated flash.  They are        *)
(* written independently of the boot loader's checks of SignedImage and    *)
(* have to agree with them.  A raised exception is FALSE.                  *)
(***************************************************************************)
EXTENDS SignedImage

require_u32(value) == value >= 0 /\ value <= UINT32_MAX
tool_checked_add_ok(left, right) == require_u32(left) /\ require_u32(right) /\ right <= UINT32_MAX - left

(***************************************************************************)
(* build_signed_image.py.  An application is [msp, reset, body] and a size.*)
(***************************************************************************)
validate_payload_size(size, s) ==
    /\ require_u32(size)
    /\ s.payload_base < s.end
    /\ size >= APPLICATION_MIN_SIZE
    /\ size <= s.payload_max_size
    /\ tool_checked_add_ok(s.payload_base, size)
    /\ s.payload_base + size <= s.end

build_validate_vector_table(app, size, s) ==
    /\ validate_payload_size(size, s)
    /\ app.msp > APPLICATION_MSP_BASE /\ app.msp <= APPLICATION_MSP_END
    /\ app.msp % APPLICATION_MSP_ALIGNMENT = 0
    /\ app.reset % 2 = 1
    /\ s.payload_base <= reset_address(app.reset) /\ reset_address(app.reset) < s.payload_base + size

build_manifest_ok(m) ==
    /\ require_u32(m.image_version) /\ require_u32(m.image_size)
    /\ m.header_version = UPDATE_PACKAGE_FORMAT_VERSION
    /\ m.flags \subseteq FLAGS_ALLOWED
    /\ m.reserved0 = UPDATE_TARGET /\ m.reserved1 = UPDATE_IMAGE_TYPE

build_manifest(app, size, s, version) ==
    [ magic |-> SIGNED_IMAGE_MAGIC, header_version |-> UPDATE_PACKAGE_FORMAT_VERSION,
      image_version |-> version, vector_address |-> s.payload_base, image_size |-> size,
      flags |-> {}, reserved0 |-> UPDATE_TARGET, reserved1 |-> UPDATE_IMAGE_TYPE,
      payload_sha512 |-> crypto_sha512(app, size, size) ]

build_update_package_ok(app, size, s, version) ==
    build_validate_vector_table(app, size, s) /\ build_manifest_ok(build_manifest(app, size, s, version))

build_update_package(app, size, s, version, seed) ==
    LET m == build_manifest(app, size, s, version) IN
    [m |-> m, sig |-> crypto_sign(seed, m), pad |-> TRUE, pay |-> app, length |-> size]

(***************************************************************************)
(* release_artifacts.py.                                                   *)
(***************************************************************************)
release_validate_vector_table(pay, length, payload_end, s) ==
    /\ length >= APPLICATION_MIN_SIZE
    /\ pay.msp > APPLICATION_MSP_BASE /\ pay.msp <= APPLICATION_MSP_END
    /\ pay.msp % APPLICATION_MSP_ALIGNMENT = 0
    /\ pay.reset % 2 = 1
    /\ reset_address(pay.reset) < s.end
    /\ s.payload_base <= reset_address(pay.reset) /\ reset_address(pay.reset) < payload_end

\* update: an update package for slot s; otherwise a single image (slot A).
verify_signed_image(p, key, s, update) ==
    /\ p.length >= APPLICATION_MIN_SIZE
    /\ p.m.magic = SIGNED_IMAGE_MAGIC
    /\ p.m.header_version = IF update THEN UPDATE_PACKAGE_FORMAT_VERSION ELSE SIGNED_HEADER_VERSION
    /\ p.m.image_version >= MIN_IMAGE_VERSION
    /\ p.m.flags \subseteq FLAGS_ALLOWED
    /\ p.m.reserved0 = (IF update THEN UPDATE_TARGET ELSE 0)
    /\ p.m.reserved1 = (IF update THEN UPDATE_IMAGE_TYPE ELSE 0)
    /\ p.m.vector_address = s.payload_base
    /\ p.m.image_size >= APPLICATION_MIN_SIZE
    /\ p.m.image_size <= s.payload_max_size
    /\ p.length = p.m.image_size
    /\ p.pad
    /\ p.m.vector_address + p.m.image_size <= s.end
    /\ crypto_sha512(p.pay, p.length, p.length) = p.m.payload_sha512
    /\ crypto_ed25519_check(p.sig, key, p.m)
    /\ release_validate_vector_table(p.pay, p.length, p.m.vector_address + p.m.image_size, s)

\* application: the binary the image is compared with, NoApplication if none is given.
NoApplication == [size |-> -1]
application_matches(p, application) ==
    application # NoApplication => application.app = p.pay /\ application.size = p.length

\* Exactly one source of the key, as text or as a header file; a source is the
\* key it holds, NotGiven, or Malformed.
NotGiven == "not given"
Malformed == "malformed"
public_key_from_args(args) ==
    IF (args.hex = NotGiven) = (args.header = NotGiven) THEN Malformed
    ELSE IF args.hex # NotGiven THEN args.hex ELSE args.header

\* verify-signed: one single image.
run_verify_signed(p, args) ==
    LET key == public_key_from_args(args) IN
    /\ key # Malformed
    /\ verify_signed_image(p, key, Slots[0], FALSE)
    /\ application_matches(p, args.application)

\* What is known of the sources: given by the caller, or asked of git; a git
\* status that fails counts as clean, and a tag that git does not find is NotGiven.
git_info(args, tree) ==
    IF args.git_commit THEN [exact_tag |-> args.git_exact_tag, dirty |-> args.git_dirty]
    ELSE [exact_tag |-> tree.exact_tag, dirty |-> tree.status = "dirty"]

validate_release_metadata(args, m, tree) ==
    LET info == git_info(args, tree) IN
    /\ m.header_version = args.expected_manifest_version
    /\ m.image_version = args.expected_application_version
    /\ m.image_version >= args.expected_rollback_version
    /\ args.bootloader_version
    /\ args.require_clean => ~info.dirty
    /\ args.require_exact_tag =>
          /\ info.exact_tag # NotGiven
          /\ args.release_version # NotGiven => info.exact_tag = args.release_version

\* verify-release: ok is reported, and the release manifest written, only after
\* every check.  artifacts: the ELF and HEX files are such files; compiler: it
\* answers with its version, which the manifest records.
run_verify_release(p, args, tree) ==
    /\ args.artifacts
    /\ run_verify_signed(p, args)
    /\ validate_release_metadata(args, p.m, tree)
    /\ args.compiler

(***************************************************************************)
(* update_package.py.                                                      *)
(***************************************************************************)
slot_from_vector(address) == {i \in DOMAIN Slots : Slots[i].payload_base = address}

inspect_package_bytes(p) ==
    /\ p.m.header_version = UPDATE_PACKAGE_FORMAT_VERSION
    /\ p.m.reserved0 = UPDATE_TARGET /\ p.m.reserved1 = UPDATE_IMAGE_TYPE
    /\ p.m.flags \subseteq FLAGS_ALLOWED
    /\ slot_from_vector(p.m.vector_address) # {}
    /\ p.length = p.m.image_size
    /\ p.pad

verify_trusting_size(p, key, i) == inspect_package_bytes(p) /\ slot_from_vector(p.m.vector_address) = {i}
                                   /\ crypto_ed25519_check(p.sig, key, p.m)
verify_package_bytes(p, key, i) ==
    /\ inspect_package_bytes(p)
    /\ slot_from_vector(p.m.vector_address) = {i}
    /\ verify_signed_image(p, key, Slots[i], TRUE)

\* The report of verify: the verdict, and what inspection finds, verified or not.
verify_report_context(p) ==
    IF inspect_package_bytes(p)
    THEN [slot |-> slot_from_vector(p.m.vector_address), image_version |-> p.m.image_version]
    ELSE [slot |-> {}, image_version |-> 0]
run_verify(p, i, args) ==
    LET key == public_key_from_args(args) IN
    [ ok |-> /\ key # Malformed
             /\ verify_package_bytes(p, key, i)
             /\ application_matches(p, args.application),
      context |-> verify_report_context(p) ]

\* The inactive slot of the simulated flash, and the metadata written around it.
install_simulated_ok(p, key, active, active_version) ==
    /\ verify_package_bytes(p, key, 1 - active)
    /\ p.m.image_version > active_version

=============================================================================
