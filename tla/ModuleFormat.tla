---------------------------- MODULE ModuleFormat ----------------------------
(***************************************************************************)
(* The signed package of a research module (tools/module_format.py): its   *)
(* parser and its builder.                                                 *)
(*                                                                         *)
(* A blob is a header and the units behind it.  A unit is a record; a      *)
(* structure of n bytes is packed as one unit followed by n-1 zero units,  *)
(* so offsets, sizes and alignment keep their meaning.  SHA-512, CRC-32    *)
(* and Ed25519 are injective: a digest is the thing digested.              *)
(***************************************************************************)
EXTENDS Integers, Sequences, FiniteSets, SequencesExt

CONSTANTS
  HEADER_SIZE,        \* units of the package header
  CAPABILITY_SIZE,    \* units of one capability
  MAX_PACKAGE,
  MAX_CAPABILITIES

TYPE_BYTECODE == 1
TYPE_NATIVE == 2
SUPPORTED_TYPES == {TYPE_BYTECODE, TYPE_NATIVE}

Zero == [kind |-> "zero"]
Pack(unit, size) == <<unit>> \o [i \in 1..(size - 1) |-> Zero]
Zeroed(n) == [i \in 1..n |-> Zero]
\* blob[offset:end] of the bytes behind a header of the given size.
Slice(body, base, offset, end) == SubSeq(body, offset - base + 1, end - base)

None == [none |-> TRUE]
header_for_crc(h) == [h EXCEPT !.header_crc32 = None, !.signature = None]
header_for_signature(h) == [h EXCEPT !.signature = None]
crc32(h) == header_for_crc(h)
sign(key, h, capability_blob, payload) ==
  [key |-> key, header |-> header_for_signature(h), signed |-> capability_blob \o payload]

blob_size(blob) == blob.present + Len(blob.body)
-----------------------------------------------------------------------------
(* Parsing *)

region_ok(offset, size, total) ==
  offset >= HEADER_SIZE /\ offset <= total /\ size <= total - offset

\* The capability words of a region, and whether _decode_capabilities takes them.
capability_words(body, size) ==
  [i \in 1..(size \div CAPABILITY_SIZE) |-> body[CAPABILITY_SIZE * (i - 1) + 1]]
\* Without the test for a capability already seen.
decode_with_duplicates(body, size, supported) ==
  LET caps == capability_words(body, size)
  IN /\ size % CAPABILITY_SIZE = 0
     /\ Len(caps) <= MAX_CAPABILITIES
     /\ \A i \in 1..Len(caps) : caps[i].kind = "cap" /\ caps[i].value \in supported
decode_capabilities_ok(body, size, supported) ==
  LET caps == capability_words(body, size)
  IN /\ size % CAPABILITY_SIZE = 0
     /\ Len(caps) <= MAX_CAPABILITIES
     /\ \A i \in 1..Len(caps) : caps[i].kind = "cap" /\ caps[i].value \in supported
     /\ Cardinality(ToSet(caps)) = Len(caps)
capabilities_of(blob) == {c.value : c \in ToSet(capability_words(blob.body, blob.header.capability_size))}
payload_of(blob) == Slice(blob.body, HEADER_SIZE, blob.header.payload_offset, blob.header.total_size)

\* parse_package, in the order of its checks; key "none" when no key was given.
parse_package(blob, key, policy) ==
  LET h == blob.header
      capability_end == h.capability_offset + h.capability_size
      payload_end == h.payload_offset + h.payload_size
  IN /\ blob_size(blob) >= HEADER_SIZE /\ blob_size(blob) <= MAX_PACKAGE
     /\ h.identity = "MOD1"
     /\ h.total_size = blob_size(blob)
     /\ 0 \notin {h.module_id, h.module_version, h.min_platform, h.abi_version}
     /\ h.module_type \in SUPPORTED_TYPES /\ h.flags = 0 /\ h.reserved = 0
     /\ h.min_platform <= policy.min_platform
     /\ h.abi_version = policy.abi_version
     /\ h.module_version >= policy.min_module_version
     /\ h.capability_offset = HEADER_SIZE
     /\ region_ok(h.capability_offset, h.capability_size, h.total_size)
     /\ region_ok(h.payload_offset, h.payload_size, h.total_size)
     /\ capability_end = h.payload_offset /\ payload_end = h.total_size
     /\ h.code_size <= h.payload_size /\ h.entry_offset <= h.code_size
     /\ decode_capabilities_ok(blob.body, h.capability_size, policy.supported)
     /\ payload_of(blob) = h.payload_hash
     /\ crc32(h) = h.header_crc32
     /\ key # "none" =>
          /\ h.key_id = key
          /\ h.signature = sign(key, h, Slice(blob.body, HEADER_SIZE, HEADER_SIZE, capability_end),
                                payload_of(blob))
-----------------------------------------------------------------------------
(* Building *)

\* What build_package refuses before it lays anything out.
build_accepts(payload, a) ==
  /\ 0 \notin {a.module_id, a.version, a.min_platform, a.abi_version}
  /\ a.module_type \in SUPPORTED_TYPES
  /\ a.code_size <= Len(payload) /\ a.entry_offset <= a.code_size
  /\ Len(a.capabilities) <= MAX_CAPABILITIES
  /\ Cardinality(ToSet(a.capabilities)) = Len(a.capabilities)
  /\ HEADER_SIZE + CAPABILITY_SIZE * Len(a.capabilities) + Len(payload) <= MAX_PACKAGE

encode_capabilities(caps) ==
  FlattenSeq([i \in 1..Len(caps) |-> Pack([kind |-> "cap", value |-> caps[i]], CAPABILITY_SIZE)])

sealed(h, key, capability_blob, payload) ==
  LET checked == [h EXCEPT !.header_crc32 = crc32(h)]
  IN [checked EXCEPT !.signature = sign(key, checked, capability_blob, payload)]

build_package(payload, key, a) ==
  LET capability_blob == encode_capabilities(a.capabilities)
      payload_offset == HEADER_SIZE + Len(capability_blob)
      header == [identity |-> "MOD1", total_size |-> payload_offset + Len(payload),
        module_id |-> a.module_id, module_version |-> a.version,
        min_platform |-> a.min_platform, abi_version |-> a.abi_version,
        module_type |-> a.module_type, flags |-> 0, reserved |-> 0,
        code_size |-> a.code_size, rodata_size |-> a.rodata_size, data_size |-> a.data_size,
        bss_size |-> a.bss_size, stack_size |-> a.stack_size, entry_offset |-> a.entry_offset,
        capability_offset |-> HEADER_SIZE, capability_size |-> Len(capability_blob),
        payload_offset |-> payload_offset, payload_size |-> Len(payload),
        payload_hash |-> payload, key_id |-> key, header_crc32 |-> None, signature |-> None]
  IN [present |-> HEADER_SIZE, header |-> sealed(header, key, capability_blob, payload),
      body |-> capability_blob \o payload]
=============================================================================
