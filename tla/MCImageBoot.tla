----------------------------- MODULE MCImageBoot -----------------------------
(***************************************************************************)
(* A small instance of ImageBoot with the repository's own layout: every   *)
(* configuration with one or two numbers moved, packages with up to two    *)
(* fields changed, sizes at both ends of the range.                        *)
(***************************************************************************)
EXTENDS ImageBoot

Bank(id) == [id |-> id, base |-> \h08000000 + (id - 1) * \h00100000, size |-> \h00100000,
             first_sector |-> 12 * (id - 1), last_sector |-> 12 * id - 1]
SectorBase[id \in 0..23] == IF id = 0 THEN \h08000000 ELSE SectorBase[id - 1] + expected_sector_size(id - 1)
Sector(id) == [id |-> id, bank |-> (id \div 12) + 1, base |-> SectorBase[id], size |-> expected_sector_size(id)]
Region(first, last) == [base |-> SectorBase[first], size |-> SectorBase[last] + expected_sector_size(last) - SectorBase[first],
                        first_sector |-> first, last_sector |-> last]
Profile(mebibytes) ==
    [ target |-> "STM32F429IGT6", mcu |-> "STM32F429IGT6",
      flash_base |-> \h08000000, flash_total_size |-> mebibytes * \h00100000,
      banks |-> {Bank(i) : i \in 1..mebibytes}, sectors |-> {Sector(i) : i \in 0..(12 * mebibytes - 1)},
      regions |-> [n \in Ranges |->
        CASE n = "bootloader" -> Region(0, 1) [] n = "boot_metadata_a" -> Region(2, 2)
          [] n = "boot_metadata_b" -> Region(3, 3) [] n = "update_metadata" -> Region(4, 4)
          [] n = "slot_a" -> IF mebibytes = 1 THEN Region(5, 7) ELSE Region(5, 11)
          [] n = "slot_b" -> IF mebibytes = 1 THEN Region(8, 10) ELSE Region(12, 22)
          [] OTHER -> IF mebibytes = 1 THEN Region(11, 11) ELSE Region(23, 23)],
      slot_id |-> [n \in SlotRanges |-> IF n = "slot_a" THEN 0 ELSE 1],
      manifest_size |-> 96, signature_size |-> 64, header_size |-> 512, minimum_payload_size |-> 8,
      sram_base |-> \h20000000, sram_supported_size |-> \h20000, sram_device_size |-> \h40000 ]

MCRepositoryConfig == [p \in Profiles |-> Profile(IF p = "stm32f429_1m" THEN 1 ELSE 2)]

\* One number of a profile moved by a sector, or to a neighbouring sector.
Moved(c, Names) ==
    {[c EXCEPT !.regions[n].base = @ + d] : n \in Names, d \in {-\h4000, \h20000}}
    \cup {[c EXCEPT !.regions[n].size = @ + d] : n \in Names, d \in {-\h20000, \h4000, \h20000}}
    \cup {[c EXCEPT !.regions[n].first_sector = @ + d] : n \in Names, d \in {-1, 1}}
    \cup {[c EXCEPT !.regions[n].last_sector = @ + d] : n \in Names, d \in {-1, 1}}
    \cup {[c EXCEPT !.header_size = 256], [c EXCEPT !.flash_total_size = \h00200000],
          [c EXCEPT !.sectors = @ \ {Sector(11)}], [c EXCEPT !.banks = @ \cup {Bank(2)}],
          [c EXCEPT !.sram_base = UINT32_MAX], [c EXCEPT !.slot_id["slot_b"] = 0],
          [c EXCEPT !.target = "STM32F407"], [c EXCEPT !.minimum_payload_size = 1]}
MCConfigs ==
    LET c == MCRepositoryConfig["stm32f429_1m"]
        e == MCRepositoryConfig["stm32f429_2m"] IN
    {MCRepositoryConfig, [p \in {"stm32f429_1m", "unknown"} |-> c]}
    \cup {[p \in {"stm32f429_1m"} |-> d] : d \in UNION {Moved(x, {"slot_b", "recovery"}) : x \in Moved(c, Ranges)}}
    \cup {[p \in {"stm32f429_2m"} |-> d] : d \in Moved(e, Ranges)}

MCSlots == [i \in {0, 1} |-> slot_from_region(MCRepositoryConfig["stm32f429_1m"], IF i = 0 THEN "slot_a" ELSE "slot_b")]
Max == MCSlots[0].payload_max_size
App(i, msp, offset, body) == [msp |-> msp, reset |-> MCSlots[i].payload_base + offset, body |-> body]
MCApplications ==
    {[app |-> App(i, \h20020000, 9, 0), size |-> size] : i \in {0, 1}, size \in {7, 12, Max, Max + 1}}
    \cup {[app |-> App(0, msp, 9, 0), size |-> 12] : msp \in {\h20000000, \h20020004}}
    \cup {[app |-> App(0, \h20000008, offset, 0), size |-> 12] : offset \in {8, 11, 13}}
MCVersions == {1, 2, 3}

Good(i, size) == build_update_package(App(i, \h20020000, 9, 0), size, MCSlots[i], 2, DeviceKey)
\* One field of a package changed; resigned: the signature is made again.
Changed(p, resigned) ==
    LET ms == {[p.m EXCEPT !.magic = 0], [p.m EXCEPT !.flags = {0}], [p.m EXCEPT !.reserved0 = 0],
               [p.m EXCEPT !.reserved1 = 0], [p.m EXCEPT !.vector_address = MCSlots[1].payload_base],
               [p.m EXCEPT !.vector_address = 0], [p.m EXCEPT !.payload_sha512.whole = FALSE]}
              \cup {[p.m EXCEPT !.header_version = v] : v \in {0, 1, 2}}
              \cup {[p.m EXCEPT !.image_version = v] : v \in {1, 3}}
              \cup {[p.m EXCEPT !.image_size = v] : v \in {0, 7, 8, 12, Max, Max + 1, UINT32_MAX}} IN
    {[p EXCEPT !.m = m, !.sig = IF resigned THEN crypto_sign(DeviceKey, m) ELSE p.sig] : m \in ms}
    \cup {[p EXCEPT !.pad = FALSE], [p EXCEPT !.sig.key = "other"]}
    \cup {[p EXCEPT !.length = v] : v \in {7, 8, 12, Max, Max + 1}}
    \cup {[p EXCEPT !.pay.msp = v] : v \in {\h20000000, \h20000004, \h20000008, \h20020008}}
    \cup {[p EXCEPT !.pay.reset = p.m.vector_address + v] : v \in {-1, 1, 8, 13}}
\* The payload changed and everything made again from it.
Rebuilt(p) == LET m == [p.m EXCEPT !.payload_sha512 = crypto_sha512(p.pay, p.length, p.length)] IN
              [p EXCEPT !.m = m, !.sig = crypto_sign(DeviceKey, m)]
Once == UNION {Changed(Good(i, size), TRUE) : i \in {0, 1}, size \in {12, Max}}
MCResident == [j \in {0, 1} |-> Good(j, 12)]
\* A single image of the format before the update packages.
Single(p) == LET m == [p.m EXCEPT !.header_version = SIGNED_HEADER_VERSION, !.reserved0 = 0, !.reserved1 = 0] IN
             [p EXCEPT !.m = m, !.sig = crypto_sign(DeviceKey, m)]
MCOthers == Once \cup {Single(p) : p \in Once} \cup {Single(Rebuilt(p)) : p \in Once} \cup {Rebuilt(p) : p \in Once}
            \cup UNION {Changed(p, TRUE) : p \in Changed(Good(1, Max), TRUE)}
            \cup Changed(Good(0, 12), FALSE)
            \cup {Rebuilt(p) : p \in UNION {Changed(q, TRUE) : q \in Changed(Good(0, 12), TRUE)}}

\* Command lines: a key from either source, from both or malformed; with the
\* application that was packaged, another one, or none.
Given == {NoApplication, [app |-> App(0, \h20020000, 9, 0), size |-> 12], [app |-> App(0, \h20000008, 9, 0), size |-> 12]}
MCVerifyArgs ==
    {[hex |-> k[1], header |-> k[2], application |-> a] :
        k \in {<<DeviceKey, NotGiven>>, <<NotGiven, "other">>, <<DeviceKey, DeviceKey>>, <<NotGiven, Malformed>>}, a \in Given}
Release == [hex |-> NotGiven, header |-> DeviceKey, application |-> [app |-> App(0, \h20020000, 9, 0), size |-> 12],
            artifacts |-> TRUE, compiler |-> TRUE, bootloader_version |-> TRUE, release_version |-> "v2",
            expected_manifest_version |-> SIGNED_HEADER_VERSION, expected_application_version |-> 2,
            expected_rollback_version |-> MIN_IMAGE_VERSION, require_clean |-> TRUE, require_exact_tag |-> TRUE,
            git_commit |-> FALSE, git_exact_tag |-> NotGiven, git_dirty |-> FALSE]
MCReleaseArgs ==
    {Release, [Release EXCEPT !.artifacts = FALSE], [Release EXCEPT !.expected_application_version = 3],
     [Release EXCEPT !.require_clean = FALSE, !.require_exact_tag = FALSE], [Release EXCEPT !.release_version = NotGiven],
     [Release EXCEPT !.git_commit = TRUE, !.git_exact_tag = "v2"]}
MCTrees == [exact_tag : {NotGiven, "v2", "v3"}, status : {"clean", "dirty", "failed"}]

LegacyImage(base, msp, offset, size, version) ==
    LET pay == [msp |-> msp, reset |-> base + offset, body |-> 0]
        m == [magic |-> SIGNED_IMAGE_MAGIC, header_version |-> SIGNED_HEADER_VERSION, image_version |-> version,
              vector_address |-> LEGACY_PAYLOAD, image_size |-> size, flags |-> {}, reserved0 |-> 0, reserved1 |-> 0,
              payload_sha512 |-> crypto_sha512(pay, 12, 12)] IN
    [m |-> m, sig |-> crypto_sign(DeviceKey, m), pad |-> TRUE, pay |-> pay, length |-> 12]
MCLegacyImages ==
    {LegacyImage(base, msp, offset, size, version) :
        base \in {LEGACY_BASE, LEGACY_PAYLOAD}, msp \in {\h20000000, \h20020000, \h20020008},
        offset \in {8, 9, 13}, size \in {7, 12, LEGACY_END}, version \in {1, 2}}
MCLegacyBase == \h08008000
MCLegacyPayload == \h08008200
MCLegacyEnd == \h08100000
MCUint32Max == 2147483647
MCMspBase == \h20000000
MCMspEnd == \h20020000
MCNoFlags == {}
MCWords == {0, 12, Max, MCSlots[0].payload_base, MCSlots[1].payload_base, MCSlots[0].payload_base + 9,
            MCSlots[0].payload_base + 8, MCSlots[0].end, \h20000008, \h20020000}
=============================================================================
