---------------------------- MODULE MemoryLayout ----------------------------
(***************************************************************************)
(* The memory layout of the board: tools/stm32f429_layout.py loads a       *)
(* configuration (config/stm32f429_memory_layout.json), validates it, and  *)
(* the constants every other part is built from are generated from what it *)
(* accepts.  The _Static_assert list of boot_slot.c repeats part of the    *)
(* validation when the boot loader is compiled.                            *)
(*                                                                         *)
(* A configuration is a record; banks and sectors are sets of records (the *)
(* code sorts both by id), regions a function of their names.  Numbers are *)
(* real addresses; text and descriptions are left out.                     *)
(***************************************************************************)
EXTENDS Integers, FiniteSets

CONSTANT UINT32_MAX      \* the largest uint32 (cut to what TLC can hold)

Profiles == {"stm32f429_1m", "stm32f429_2m"}   \* PROFILE_IDS
Ranges == {"bootloader", "boot_metadata_a", "boot_metadata_b", "update_metadata", "slot_a", "slot_b", "recovery"}
SlotRanges == {"slot_a", "slot_b"}

checked_add_ok(left, right) == left >= 0 /\ right >= 0 /\ left <= UINT32_MAX /\ right <= UINT32_MAX - left
End(r) == r.base + r.size
ById(records, id) == CHOOSE r \in records : r.id = id
Ids(records) == {r.id : r \in records}

(***************************************************************************)
(* Loading.                                                                *)
(***************************************************************************)

\* _select_profile: the named profile, or the default one, if it is known.
select_profile_ok(config, profile) == profile \in DOMAIN config /\ profile \in Profiles

read_region_ok(r) == checked_add_ok(r.base, r.size)

\* _validate_sector_region: the sectors a region names cover it exactly.
validate_sector_region(r, sectors) ==
    /\ {r.first_sector, r.last_sector} \subseteq Ids(sectors)
    /\ r.first_sector <= r.last_sector
    /\ r.base = ById(sectors, r.first_sector).base
    /\ End(r) = End(ById(sectors, r.last_sector))
    /\ \A i \in r.first_sector..r.last_sector :
          /\ i \in Ids(sectors)
          /\ i # r.first_sector => ById(sectors, i).base = End(ById(sectors, i - 1))

\* The descriptor of a slot: header, signature and payload inside its region.
slot_from_region(c, name) ==
    LET r == c.regions[name] IN
    [ id |-> c.slot_id[name], signed_image_base |-> r.base,
      signature_base |-> r.base + c.manifest_size, payload_base |-> r.base + c.header_size,
      end |-> End(r), size |-> r.size, payload_max_size |-> End(r) - (r.base + c.header_size),
      first_sector |-> r.first_sector, last_sector |-> r.last_sector ]

slot_from_region_ok(c, name) ==
    LET r == c.regions[name] IN
    /\ validate_sector_region(r, c.sectors)
    /\ checked_add_ok(r.base, c.manifest_size)
    /\ checked_add_ok(r.base, c.header_size)
    /\ r.base + c.header_size < End(r)

(***************************************************************************)
(* validate_layout.                                                        *)
(***************************************************************************)

banks_ok(c) ==
    LET bank1 == ById(c.banks, 1) IN
    /\ Cardinality(c.banks) \in {1, 2} /\ Ids(c.banks) = 1..Cardinality(c.banks)
    /\ bank1.base = c.flash_base /\ bank1.size = \h00100000
    /\ IF Cardinality(c.banks) = 1 THEN End(bank1) = c.flash_base + c.flash_total_size
       ELSE LET bank2 == ById(c.banks, 2) IN
            /\ bank2.size = \h00100000
            /\ End(bank1) = bank2.base
            /\ End(bank2) = c.flash_base + c.flash_total_size

profile_ok(profile, c) ==
    LET mebibytes == IF profile = "stm32f429_1m" THEN 1 ELSE 2 IN
    /\ c.flash_total_size = mebibytes * \h00100000
    /\ Cardinality(c.banks) = mebibytes
    /\ Cardinality(c.sectors) = 12 * mebibytes
    /\ Ids(c.sectors) = 0..(12 * mebibytes - 1)

expected_sector_size(id) ==
    LET i == id % 12 IN IF i < 4 THEN \h4000 ELSE IF i = 4 THEN \h10000 ELSE \h20000

sectors_ok(c) ==
    /\ \A s \in c.sectors :
          /\ s.size = expected_sector_size(s.id)
          /\ s.base = IF s.id = 0 THEN c.flash_base ELSE End(ById(c.sectors, s.id - 1))
    /\ End(ById(c.sectors, Cardinality(c.sectors) - 1)) = c.flash_base + c.flash_total_size

bank_sectors_ok(c) ==
    \A b \in c.banks :
       /\ {b.first_sector, b.last_sector} \subseteq Ids(c.sectors)
       /\ ById(c.sectors, b.first_sector).base = b.base
       /\ End(ById(c.sectors, b.last_sector)) = End(b)
       /\ \A i \in b.first_sector..b.last_sector : ById(c.sectors, i).bank = b.id

header_ok(c) == c.manifest_size = \h60 /\ c.signature_size = \h40 /\ c.header_size = \h200

expect_range_addresses(r, base, end, first, last) == r.base = base /\ End(r) = end
\* _expect_range
expect_range(r, base, end, first, last) ==
    /\ r.base = base /\ End(r) = end
    /\ r.first_sector = first /\ r.last_sector = last

fixed_ranges_ok(profile, c) ==
    /\ expect_range(c.regions["bootloader"], \h08000000, \h08008000, 0, 1)
    /\ expect_range(c.regions["boot_metadata_a"], \h08008000, \h0800C000, 2, 2)
    /\ expect_range(c.regions["boot_metadata_b"], \h0800C000, \h08010000, 3, 3)
    /\ expect_range(c.regions["update_metadata"], \h08010000, \h08020000, 4, 4)
    /\ IF profile = "stm32f429_1m" THEN expect_range(c.regions["recovery"], \h080E0000, \h08100000, 11, 11)
       ELSE expect_range(c.regions["recovery"], \h081E0000, \h08200000, 23, 23)

slots_ok(profile, c) ==
    LET a == slot_from_region(c, "slot_a")
        b == slot_from_region(c, "slot_b") IN
    /\ \A s \in {a, b} : s.payload_base % 256 = 0 /\ s.signed_image_base >= c.flash_base
                         /\ s.end <= c.flash_base + c.flash_total_size
    /\ a.id = 0 /\ b.id = 1
    /\ a.size = b.size /\ a.payload_max_size = b.payload_max_size
    /\ a.signed_image_base = \h08020000
    /\ IF profile = "stm32f429_1m"
       THEN /\ b.signed_image_base = \h08080000
            /\ a.end = \h08080000 /\ b.end = \h080E0000
            /\ a.first_sector = 5 /\ a.last_sector = 7
            /\ b.first_sector = 8 /\ b.last_sector = 10
       ELSE b.signed_image_base = \h08100000

\* The named ranges, taken in address order, follow each other without gaps.
named_ranges_ok(c) ==
    LET flash_end == c.flash_base + c.flash_total_size
        starts == {c.regions[n].base : n \in Ranges} IN
    /\ c.flash_base \in starts /\ \A a \in starts : a >= c.flash_base
    /\ Cardinality(starts) = Cardinality(Ranges)
    /\ \A n \in Ranges : /\ End(c.regions[n]) > c.regions[n].base
                         /\ End(c.regions[n]) \in starts \cup {flash_end}
                         /\ \A m \in Ranges : c.regions[m].base > c.regions[n].base
                                                 => c.regions[m].base >= End(c.regions[n])

\* The single-image names stand for slot A, the stack for the supported SRAM.
policy_ok(c) == slot_from_region(c, "slot_a").payload_max_size > c.minimum_payload_size

validate_layout(profile, c) ==
    /\ c.target = "STM32F429IGT6" /\ c.mcu = "STM32F429IGT6"
    /\ c.flash_base = \h08000000
    /\ banks_ok(c) /\ profile_ok(profile, c) /\ sectors_ok(c) /\ bank_sectors_ok(c)
    /\ header_ok(c) /\ fixed_ranges_ok(profile, c)
    /\ slots_ok(profile, c) /\ named_ranges_ok(c) /\ policy_ok(c)

load_layout_ok(config, profile) ==
    /\ select_profile_ok(config, profile)
    /\ LET c == config[profile] IN
       /\ checked_add_ok(c.flash_base, c.flash_total_size)
       /\ \A r \in c.banks \cup c.sectors : checked_add_ok(r.base, r.size)
       /\ \A n \in Ranges : read_region_ok(c.regions[n])
       /\ \A n \in SlotRanges : slot_from_region_ok(c, n)
       /\ checked_add_ok(c.sram_base, c.sram_supported_size)
       /\ checked_add_ok(c.sram_base, c.sram_device_size)
       /\ validate_layout(profile, c)

(***************************************************************************)
(* What the compiler checks again: the assertions of boot_slot.c.          *)
(***************************************************************************)
static_asserts(c) ==
    LET a == slot_from_region(c, "slot_a")
        b == slot_from_region(c, "slot_b") IN
    /\ a.id = 0 /\ b.id = 1
    /\ a.size = b.size /\ a.payload_max_size = b.payload_max_size
    /\ c.header_size = \h200
    /\ a.signed_image_base >= End(c.regions["update_metadata"])
    /\ a.end <= b.signed_image_base
    /\ b.end <= c.regions["recovery"].base
    /\ End(c.regions["recovery"]) = c.flash_base + c.flash_total_size
    /\ {a.last_sector, b.last_sector, c.regions["recovery"].last_sector} \subseteq 0..11
    /\ a.payload_base % 256 = 0 /\ b.payload_base % 256 = 0

=============================================================================
