----------------------------- MODULE SignedImage -----------------------------
(***************************************************************************)
(* Verification of a signed image and the transfer of control to it:       *)
(* signed_image.c, boot_slot.c, boot_policy.c and update_package.c of      *)
(* exp045_bootloader_v2.                                                   *)
(*                                                                         *)
(* A package is [m, sig, pad, pay, length]: the manifest, its signature,   *)
(* whether the padding is canonical, the payload and its length in bytes.  *)
(* Of a payload only the two vector words matter, body stands for the      *)
(* rest.  SHA-512 is an injective record and an Ed25519 signature the pair *)
(* of key and message: cryptography is ideal.  Flag words are sets of      *)
(* bits.  A status is what it is tested for: OK or not.                    *)
(***************************************************************************)
EXTENDS MemoryLayout

CONSTANTS Slots,                   \* 0..1 -> slot descriptors, from the memory layout
          HEADER_SIZE,             \* SIGNED_IMAGE_HEADER_SIZE
          APPLICATION_MIN_SIZE, APPLICATION_VECTOR_MIN_SIZE,
          APPLICATION_MSP_BASE, APPLICATION_MSP_END,
          APPLICATION_MSP_ALIGNMENT, APPLICATION_VTOR_ALIGNMENT,
          FLAGS_ALLOWED,           \* SIGNED_IMAGE_FLAGS_ALLOWED_MASK, as a set of bits
          MIN_IMAGE_VERSION,
          SIGNED_IMAGE_MAGIC, SIGNED_HEADER_VERSION, UPDATE_PACKAGE_FORMAT_VERSION,
          UPDATE_TARGET, UPDATE_IMAGE_TYPE,
          DeviceKey                \* firmware_public_key

\* The assertions signed_image.c makes about the constants it is compiled with.
constants_consistent ==
    /\ Slots[0].signed_image_base + HEADER_SIZE = Slots[0].payload_base
    /\ Slots[0].payload_max_size = Slots[0].end - Slots[0].payload_base
    /\ APPLICATION_MIN_SIZE >= APPLICATION_VECTOR_MIN_SIZE
    /\ APPLICATION_VTOR_ALIGNMENT \in {2^k : k \in 0..20}
    /\ Slots[0].payload_base % APPLICATION_VTOR_ALIGNMENT = 0
    /\ APPLICATION_MSP_ALIGNMENT \in {2^k : k \in 0..20}

ASSUME ConstantsConsistent == constants_consistent

\* External: SHA-512 and Ed25519.
crypto_sha512(pay, length, n) == [pay |-> pay, whole |-> n = length, n |-> n]
crypto_sign(key, m) == [key |-> key, m |-> m]
crypto_ed25519_check(sig, key, m) == sig = crypto_sign(key, m)

checked_u32_add_ok(left, right) == right <= UINT32_MAX - left
reset_address(v) == v - (v % 2)            \* reset & ~1

(***************************************************************************)
(* Policies: what is demanded of a slot image and of a single image.       *)
(***************************************************************************)
slot_policy(s) ==
    [ header_version |-> UPDATE_PACKAGE_FORMAT_VERSION, vector_address |-> s.payload_base,
      flash_end |-> s.end, max |-> s.payload_max_size,
      reserved0 |-> UPDATE_TARGET, reserved1 |-> UPDATE_IMAGE_TYPE ]

\* The single-image names alias slot A; the reserved fields must be zero.
single_policy == [slot_policy(Slots[0]) EXCEPT !.header_version = SIGNED_HEADER_VERSION,
                                              !.reserved0 = 0, !.reserved1 = 0]

slot_is_sane(s) == /\ s.signed_image_base < s.payload_base /\ s.payload_base < s.end
                   /\ s.payload_max_size = s.end - s.payload_base

(***************************************************************************)
(* The checks.                                                             *)
(***************************************************************************)
validate_manifest_header(m, policy) ==
    /\ m.magic = SIGNED_IMAGE_MAGIC
    /\ m.header_version = policy.header_version
    /\ m.flags \subseteq FLAGS_ALLOWED
    /\ m.reserved0 = policy.reserved0 /\ m.reserved1 = policy.reserved1
    /\ m.image_version >= MIN_IMAGE_VERSION

validate_payload_range(m, policy) ==
    /\ m.vector_address = policy.vector_address
    /\ m.image_size >= APPLICATION_MIN_SIZE
    /\ checked_u32_add_ok(m.vector_address, m.image_size)
    /\ m.image_size <= policy.max
    /\ m.vector_address + m.image_size <= policy.flash_end

validate_payload_range_independent(m, policy, payload_end) ==
    /\ policy.flash_end >= policy.vector_address
    /\ m.vector_address = policy.vector_address
    /\ m.image_size >= APPLICATION_VECTOR_MIN_SIZE
    /\ m.image_size <= policy.flash_end - policy.vector_address
    /\ payload_end \in m.vector_address..policy.flash_end
    /\ payload_end - m.vector_address = m.image_size

validate_application_msp(msp) ==
    /\ msp > APPLICATION_MSP_BASE /\ msp <= APPLICATION_MSP_END
    /\ msp % APPLICATION_MSP_ALIGNMENT = 0

validate_application_reset(reset, address, vector_address, payload_end, flash_end) ==
    /\ reset % 2 = 1
    /\ reset_address(reset) = address
    /\ vector_address <= address /\ address < payload_end /\ address < flash_end

validate_vector_table(m, policy, pay) ==
    /\ validate_application_msp(pay.msp)
    /\ validate_application_reset(pay.reset, reset_address(pay.reset), m.vector_address,
                                  m.vector_address + m.image_size, policy.flash_end)

\* The context validate_vector_table fills in for the jump.
jump_context(m, pay) ==
    [ vector_address |-> m.vector_address, image_size |-> m.image_size,
      payload_end |-> m.vector_address + m.image_size,
      initial_msp |-> pay.msp, reset_vector |-> pay.reset, reset_address |-> reset_address(pay.reset) ]

\* Everything but the hash and the signature; common to verify and prepare.
validate_manifest(m, policy, pay, capacity) ==
    /\ validate_manifest_header(m, policy)
    /\ validate_payload_range(m, policy)
    /\ validate_payload_range_independent(m, policy, m.vector_address + m.image_size)
    /\ m.image_size <= capacity
    /\ validate_vector_table(m, policy, pay)

verify_buffer_with_policy(p, capacity, key, policy) ==
    /\ validate_manifest(p.m, policy, p.pay, capacity)
    /\ crypto_sha512(p.pay, p.length, p.m.image_size) = p.m.payload_sha512
    /\ crypto_ed25519_check(p.sig, key, p.m)

signed_image_verify_buffer(p, capacity, key) == verify_buffer_with_policy(p, capacity, key, single_policy)

signed_image_verify_update_slot_buffer(p, capacity, key, s) ==
    slot_is_sane(s) /\ verify_buffer_with_policy(p, capacity, key, slot_policy(s))

(***************************************************************************)
(* The jump: the context is validated again and compared with the flash.   *)
(***************************************************************************)
slot_for_vector_address(address) == {Slots[i] : i \in {j \in DOMAIN Slots : Slots[j].payload_base = address}}

validate_jump_context(c) ==
    \E s \in slot_for_vector_address(c.vector_address) :
       /\ c.vector_address % APPLICATION_VTOR_ALIGNMENT = 0
       /\ c.image_size >= APPLICATION_VECTOR_MIN_SIZE
       /\ c.image_size <= s.payload_max_size
       /\ checked_u32_add_ok(c.vector_address, c.image_size)
       /\ c.payload_end = c.vector_address + c.image_size
       /\ c.payload_end > c.vector_address /\ c.payload_end <= s.end
       /\ validate_application_msp(c.initial_msp)
       /\ validate_application_reset(c.reset_vector, c.reset_address, c.vector_address, c.payload_end, s.end)

signed_image_prepare_update_slot_buffer(p, capacity, s) ==
    /\ slot_is_sane(s)
    /\ validate_manifest(p.m, slot_policy(s), p.pay, capacity)
    /\ validate_jump_context(jump_context(p.m, p.pay))

\* The single image, from flash: verified, then its context prepared.
signed_image_verify(p) == signed_image_verify_buffer(p, Slots[0].payload_max_size, DeviceKey)
signed_image_prepare_jump(p) ==
    /\ validate_manifest(p.m, single_policy, p.pay, Slots[0].payload_max_size)
    /\ validate_jump_context(jump_context(p.m, p.pay))

\* boot_policy.c: a slot boots when it verifies and its context is prepared.
verify_target_slot(p, s) ==
    /\ signed_image_verify_update_slot_buffer(p, s.payload_max_size, DeviceKey, s)
    /\ signed_image_prepare_update_slot_buffer(p, s.payload_max_size, s)

confirm_reset_only(c, pay) == pay.reset = c.reset_vector
confirm_against_address(c, pay) == pay.msp = c.initial_msp /\ pay.reset = c.reset_address
confirm_jump_context_matches_flash(c, pay) ==
    \E s \in slot_for_vector_address(c.vector_address) :
       /\ pay.msp = c.initial_msp
       /\ pay.reset = c.reset_vector
       /\ reset_address(pay.reset) = c.reset_address
       /\ validate_application_msp(pay.msp)
       /\ validate_application_reset(pay.reset, reset_address(pay.reset), c.vector_address, c.payload_end, s.end)

(***************************************************************************)
(* update_package.c: a package as it arrives, with its length.             *)
(***************************************************************************)
largest_slot_payload_size == IF Slots[0].payload_max_size > Slots[1].payload_max_size
                             THEN Slots[0].payload_max_size ELSE Slots[1].payload_max_size

parse_header_common(p) ==
    /\ p.m.magic = SIGNED_IMAGE_MAGIC
    /\ p.m.header_version = UPDATE_PACKAGE_FORMAT_VERSION
    /\ p.m.flags \subseteq FLAGS_ALLOWED
    /\ p.m.reserved0 = UPDATE_TARGET /\ p.m.reserved1 = UPDATE_IMAGE_TYPE
    /\ p.m.image_size >= APPLICATION_MIN_SIZE
    /\ p.m.image_size <= largest_slot_payload_size
    /\ p.pad

\* The whole package: neither truncated nor followed by other bytes.
update_package_parse(p) == parse_header_common(p) /\ p.length = p.m.image_size

update_package_verify_header_for_slot(p, key, s) ==
    /\ parse_header_common(p)
    /\ p.m.vector_address = s.payload_base
    /\ p.m.image_size <= s.payload_max_size
    /\ crypto_ed25519_check(p.sig, key, p.m)

update_package_verify_for_slot(p, key, s) ==
    /\ update_package_parse(p)
    /\ p.m.vector_address = s.payload_base /\ p.m.image_size <= s.payload_max_size
    /\ signed_image_verify_update_slot_buffer(p, p.length, key, s)

=============================================================================
