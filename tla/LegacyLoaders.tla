---------------------------- MODULE LegacyLoaders ----------------------------
(***************************************************************************)
(* The boot loaders of the earlier experiments, which exp045 replaces:     *)
(* exp013 checks the two vector words, exp014 a header with a CRC, exp019  *)
(* a signed manifest, exp022 also a version floor.  Each reads the vector  *)
(* words from flash again when it jumps and does not check them again; a   *)
(* refused image halts the board.  Images have the form of SignedImage,    *)
(* for exp014 the digest stands for the CRC (equal data, equal CRC).       *)
(***************************************************************************)
EXTENDS SignedImage

CONSTANTS LEGACY_BASE, LEGACY_PAYLOAD,  \* APP_BASE of exp013, PAYLOAD_ADDRESS of the others
          LEGACY_END                    \* end of the flash they know

Legacy == {"exp013", "exp014", "exp019", "exp022"}

\* Both ends of the stack range are accepted and alignment is not asked for.
vector_words_ok(pay, base, limit) ==
    /\ pay.msp >= APPLICATION_MSP_BASE /\ pay.msp <= APPLICATION_MSP_END
    /\ pay.reset % 2 = 1
    /\ reset_address(pay.reset) >= base /\ reset_address(pay.reset) < limit

boot_application_is_valid(p) == vector_words_ok(p.pay, LEGACY_BASE, LEGACY_END)

header_and_words_ok(p) ==
    /\ p.m.magic = SIGNED_IMAGE_MAGIC
    /\ p.m.header_version = SIGNED_HEADER_VERSION
    /\ p.m.vector_address = LEGACY_PAYLOAD
    /\ p.m.image_size >= 8 /\ p.m.image_size <= LEGACY_END - LEGACY_PAYLOAD
    /\ vector_words_ok(p.pay, p.m.vector_address, p.m.vector_address + p.m.image_size)

image_validate(p) ==
    header_and_words_ok(p) /\ crypto_sha512(p.pay, p.length, p.m.image_size) = p.m.payload_sha512

exp019_verify(p) == image_validate(p) /\ crypto_ed25519_check(p.sig, DeviceKey, p.m)
exp022_verify(p) == exp019_verify(p) /\ p.m.image_version >= MIN_IMAGE_VERSION

legacy_verify(loader, p) ==
    \/ loader = "exp013" /\ boot_application_is_valid(p)
    \/ loader = "exp014" /\ image_validate(p)
    \/ loader = "exp019" /\ exp019_verify(p)
    \/ loader = "exp022" /\ exp022_verify(p)

\* What each jump hands over to: the words now in flash, at the address the
\* loader knows (exp013) or the header names.
boot_jump_to_application(p) == [vector_address |-> LEGACY_BASE, initial_msp |-> p.pay.msp, reset_vector |-> p.pay.reset]
image_jump(p) == [vector_address |-> p.m.vector_address, initial_msp |-> p.pay.msp, reset_vector |-> p.pay.reset]
legacy_jump(loader, p) == IF loader = "exp013" THEN boot_jump_to_application(p) ELSE image_jump(p)

=============================================================================
