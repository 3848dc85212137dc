--------------------------- MODULE ImageBootProofs ---------------------------
(***************************************************************************)
(* Proofs for ImageBoot, for every configuration, application, package and *)
(* number of faults.  First what its checks come to: a layout that         *)
(* load_layout accepts is a partition of the flash with slots that fit,    *)
(* the host's and the device's checks of a package are the same five       *)
(* conditions, and what they accept has a valid jump context.  Then the    *)
(* inductive invariant that carries these facts from the layout over the   *)
(* host's files to the board.                                              *)
(***************************************************************************)
EXTENDS ImageBoot, TLAPS

-----------------------------------------------------------------------------
(* What the checks need of the slots.                                      *)

\* What the checks of SignedImage need of the two slots.
SlotsFit ==
  /\ DOMAIN Slots = {0, 1}
  /\ \A i \in {0, 1} :
        /\ {Slots[i].signed_image_base, Slots[i].payload_base, Slots[i].end,
            Slots[i].payload_max_size} \subseteq Nat
        /\ slot_is_sane(Slots[i])
        /\ Slots[i].end <= UINT32_MAX
        /\ Slots[i].payload_base % APPLICATION_VTOR_ALIGNMENT = 0
  /\ Slots[0].payload_base # Slots[1].payload_base
  /\ Slots[0].payload_max_size = Slots[1].payload_max_size

-----------------------------------------------------------------------------
(* The sectors of a layout.                                                *)

\* Where sector k of the part begins, counted from the start of the flash.
Start(k) == LET i == k % 12 IN (k \div 12) * \h00100000 + IF i <= 4 THEN i * \h4000 ELSE (i - 4) * \h20000

\* The sizes of the sectors add up to where they begin.
LEMMA StartsAddUp ==
  ASSUME NEW k \in 0..23
  PROVE  /\ Start(k) + expected_sector_size(k) = Start(k + 1)
         /\ Start(k) \in Nat /\ expected_sector_size(k) \in Nat /\ Start(k + 1) \in Nat
  BY DEF Start, expected_sector_size

\* A sector lies between the first and the last one of a range.
LEMMA StartsGrow ==
  ASSUME NEW j \in 0..24, NEW k \in 0..24
  PROVE  /\ j <= k => Start(j) <= Start(k)
         /\ Start(j) = Start(k) => j = k
<1>1. \A i \in 0..24 : Start(i) \in Nat
  BY DEF Start
<1>2. j < k => Start(j) < Start(k)
  BY DEF Start
<1>3. k < j => Start(k) < Start(j)
  BY DEF Start
<1>. QED  BY <1>1, <1>2, <1>3

\* Where the flash begins.
FlashBase == \h08000000

\* Every sector of c is where the part has it.
Placed(c, N) ==
  /\ Ids(c.sectors) = 0..N - 1
  /\ \A s \in c.sectors : s.base = FlashBase + Start(s.id) /\ End(s) = FlashBase + Start(s.id + 1)

\* A set that has 0, and n + 1 whenever it has n, has every number of a part's
\* sectors: the steps of one, two, four, eight and sixteen reach them all.
LEMMA SectorInduction ==
  ASSUME NEW S, 0 \in S, \A n \in Nat : n \in S => n + 1 \in S
  PROVE  0..23 \subseteq S
<1>1. \A n \in Nat : n \in S => n + 2 \in S
  OBVIOUS
<1>2. \A n \in Nat : n \in S => n + 4 \in S
  BY <1>1
<1>3. \A n \in Nat : n \in S => n + 8 \in S
  BY <1>2
<1>4. 0..7 \subseteq S
  BY <1>1, <1>2
<1>5. 0..15 \subseteq S
  BY <1>3, <1>4
<1>. QED  BY <1>3, <1>5

\* ById finds a record of that id.
LEMMA ByIdFinds ==
  ASSUME NEW records, NEW id \in Ids(records)
  PROVE  ById(records, id) \in records /\ ById(records, id).id = id
  BY DEF ById, Ids

\* sectors_ok and profile_ok fix where every sector begins and ends.
LEMMA SectorsPlaced ==
  ASSUME NEW c, HasNumbers(c), NEW N \in {12, 24}, Ids(c.sectors) = 0..N - 1,
         c.flash_base = FlashBase, sectors_ok(c)
  PROVE  Placed(c, N)
<1>0. FlashBase \in Nat
  BY SMT DEF FlashBase
<1>. DEFINE At(k) == \A s \in c.sectors : s.id = k => s.base = FlashBase + Start(k)
            S == {k \in Nat : k < N => At(k)}
<1>1. ASSUME NEW s \in c.sectors
      PROVE  /\ s.id \in 0..N - 1 /\ s.base \in Int /\ s.size = expected_sector_size(s.id)
             /\ s.base = IF s.id = 0 THEN FlashBase ELSE End(ById(c.sectors, s.id - 1))
  <2>1. s.id \in Ids(c.sectors)
    BY Zenon DEF Ids
  <2>. QED  BY <2>1, Zenon DEF sectors_ok, HasNumbers
<1>2. 0 \in S
  <2>1. Start(0) = 0
    BY DEF Start
  <2>. QED  BY <1>1, <2>1
<1>3. ASSUME NEW k \in Nat, k \in S PROVE k + 1 \in S
  <2>. SUFFICES ASSUME k + 1 < N, NEW s \in c.sectors, s.id = k + 1
                PROVE  s.base = FlashBase + Start(k + 1)
    OBVIOUS
  <2>. DEFINE t == ById(c.sectors, k)
  <2>1. k \in 0..23 /\ k \in 0..N - 1
    OBVIOUS
  <2>2. t \in c.sectors /\ t.id = k
    BY <2>1, ByIdFinds, Zenon
  <2>3. s.base = t.base + t.size
    BY <1>1, <2>1 DEF End
  <2>. HIDE DEF t
  <2>4. t.base = FlashBase + Start(k) /\ t.size = expected_sector_size(k)
    BY <1>1, <1>3, <2>1, <2>2
  <2>5. /\ Start(k) + expected_sector_size(k) = Start(k + 1)
        /\ Start(k) \in Nat /\ expected_sector_size(k) \in Nat /\ Start(k + 1) \in Nat
    BY <2>1, StartsAddUp, Zenon
  <2>. QED  BY <1>0, <2>3, <2>4, <2>5
<1>4. 0..23 \subseteq S
  <2>. HIDE DEF S
  <2>. QED  BY <1>2, <1>3, SectorInduction, Zenon
<1>5. ASSUME NEW s \in c.sectors
      PROVE  s.base = FlashBase + Start(s.id) /\ End(s) = FlashBase + Start(s.id + 1)
  <2>. DEFINE k == s.id
  <2>0. k \in 0..N - 1
    BY <1>1
  <2>1. k \in 0..23 /\ k < N
    <3>. HIDE DEF k
    <3>. QED  BY <2>0
  <2>2. k \in S
    <3>. HIDE DEF S, k
    <3>. QED  BY <1>4, <2>1, Zenon
  <2>3. s.base = FlashBase + Start(k) /\ s.size = expected_sector_size(k)
    BY <1>1, <2>1, <2>2, Zenon
  <2>. HIDE DEF k
  <2>4. /\ Start(k) + expected_sector_size(k) = Start(k + 1)
        /\ Start(k) \in Nat /\ expected_sector_size(k) \in Nat /\ Start(k + 1) \in Nat
    BY <2>1, StartsAddUp, Zenon
  <2>5. End(s) = FlashBase + Start(k + 1)
    BY <1>0, <2>3, <2>4 DEF End
  <2>. QED  BY <2>3, <2>5 DEF k
<1>. QED  BY <1>5, Zenon DEF Placed

\* A region whose bounds are those of its first and its last sector holds the
\* sectors between them.
Holds(r, f, l) ==
  /\ r.first_sector = f /\ r.last_sector = l
  /\ r.base = FlashBase + Start(f) /\ End(r) = FlashBase + Start(l + 1)

\* A sector that a region holds lies inside the region.
LEMMA HeldInside ==
  ASSUME NEW c, NEW N \in {12, 24}, Placed(c, N), NEW r, NEW f \in 0..N - 1, NEW l \in 0..N - 1,
         Holds(r, f, l), NEW s \in c.sectors, s.id \in f..l
  PROVE  s.id \in Sectors(r) /\ s.base >= r.base /\ End(s) <= End(r)
<1>0. FlashBase \in Nat
  BY SMT DEF FlashBase
<1>1. /\ s.base = FlashBase + Start(s.id) /\ End(s) = FlashBase + Start(s.id + 1)
      /\ r.base = FlashBase + Start(f) /\ End(r) = FlashBase + Start(l + 1)
  BY Zenon DEF Placed, Holds
<1>2. Start(f) <= Start(s.id) /\ Start(s.id + 1) <= Start(l + 1)
  BY StartsGrow
<1>3. Start(f) \in Nat /\ Start(s.id) \in Nat /\ Start(s.id + 1) \in Nat /\ Start(l + 1) \in Nat
  <2>1. \A k \in 0..23 : Start(k) \in Nat /\ Start(k + 1) \in Nat
    BY StartsAddUp, Zenon
  <2>2. s.id \in 0..23 /\ f \in 0..23 /\ l \in 0..23
    OBVIOUS
  <2>. QED  BY <2>1, <2>2, Zenon
<1>. QED  BY <1>0, <1>1, <1>2, <1>3 DEF Sectors, Holds

\* Regions that hold a partition of the numbers hold a partition of the sectors.
Parts(N, first, last) ==
  \A k \in 0..N - 1 : \E n \in Ranges :
     k \in first[n]..last[n] /\ \A m \in Ranges \ {n} : k \notin first[m]..last[m]

\* Regions that hold the parts of a partition partition the sectors.
LEMMA PartsPartition ==
  ASSUME NEW c, NEW N \in {12, 24}, Placed(c, N),
         NEW first \in [Ranges -> 0..N - 1], NEW last \in [Ranges -> 0..N - 1],
         Parts(N, first, last), \A n \in Ranges : Holds(c.regions[n], first[n], last[n]),
         NEW s \in c.sectors
  PROVE  \E n \in Ranges :
            /\ s.id \in Sectors(c.regions[n])
            /\ s.base >= c.regions[n].base /\ End(s) <= End(c.regions[n])
            /\ \A m \in Ranges \ {n} : s.id \notin Sectors(c.regions[m])
<1>1. s.id \in 0..N - 1
  BY DEF Placed, Ids
<1>2. PICK n \in Ranges :
        s.id \in first[n]..last[n] /\ \A m \in Ranges \ {n} : s.id \notin first[m]..last[m]
  BY <1>1 DEF Parts
<1>3. Holds(c.regions[n], first[n], last[n]) /\ first[n] \in 0..N - 1 /\ last[n] \in 0..N - 1
  OBVIOUS
<1>4. /\ s.id \in Sectors(c.regions[n])
      /\ s.base >= c.regions[n].base /\ End(s) <= End(c.regions[n])
  BY <1>2, <1>3, HeldInside, Zenon
<1>5. ASSUME NEW m \in Ranges \ {n} PROVE s.id \notin Sectors(c.regions[m])
  BY <1>2 DEF Sectors, Holds
<1>. QED  BY <1>4, <1>5, Zenon

\* The regions of a layout whose slot B begins at sector b and whose recovery
\* area is sector z.
First(b, z) == [n \in Ranges |-> CASE n = "bootloader" -> 0 [] n = "boot_metadata_a" -> 2
                                  [] n = "boot_metadata_b" -> 3 [] n = "update_metadata" -> 4
                                  [] n = "slot_a" -> 5 [] n = "slot_b" -> b [] OTHER -> z]
Last(b, z) == [n \in Ranges |-> CASE n = "bootloader" -> 1 [] n = "boot_metadata_a" -> 2
                                 [] n = "boot_metadata_b" -> 3 [] n = "update_metadata" -> 4
                                 [] n = "slot_a" -> b - 1 [] n = "slot_b" -> z - 1 [] OTHER -> z]

\* The parts of both profiles: the fixed regions, the two slots, recovery.
LEMMA PartsOf ==
  ASSUME NEW b \in Nat, NEW z \in Nat, 5 < b, b < z
  PROVE  Parts(z + 1, First(b, z), Last(b, z))
<1>. SUFFICES ASSUME NEW k \in 0..z
              PROVE  \E n \in Ranges : /\ k \in First(b, z)[n]..Last(b, z)[n]
                                       /\ \A m \in Ranges \ {n} : k \notin First(b, z)[m]..Last(b, z)[m]
  BY DEF Parts
<1>1. /\ First(b, z)["bootloader"] = 0 /\ Last(b, z)["bootloader"] = 1
      /\ First(b, z)["boot_metadata_a"] = 2 /\ Last(b, z)["boot_metadata_a"] = 2
      /\ First(b, z)["boot_metadata_b"] = 3 /\ Last(b, z)["boot_metadata_b"] = 3
      /\ First(b, z)["update_metadata"] = 4 /\ Last(b, z)["update_metadata"] = 4
      /\ First(b, z)["slot_a"] = 5 /\ Last(b, z)["slot_a"] = b - 1
      /\ First(b, z)["slot_b"] = b /\ Last(b, z)["slot_b"] = z - 1
      /\ First(b, z)["recovery"] = z /\ Last(b, z)["recovery"] = z
  BY Zenon DEF First, Last, Ranges
<1>2. CASE k <= 1
  <2>1. \A m \in Ranges \ {"bootloader"} : k \notin First(b, z)[m]..Last(b, z)[m]
    BY <1>1, <1>2 DEF Ranges
  <2>. QED  BY <1>1, <1>2, <2>1 DEF Ranges
<1>3. CASE k = 2
  <2>1. \A m \in Ranges \ {"boot_metadata_a"} : k \notin First(b, z)[m]..Last(b, z)[m]
    BY <1>1, <1>3 DEF Ranges
  <2>. QED  BY <1>1, <1>3, <2>1 DEF Ranges
<1>4. CASE k = 3
  <2>1. \A m \in Ranges \ {"boot_metadata_b"} : k \notin First(b, z)[m]..Last(b, z)[m]
    BY <1>1, <1>4 DEF Ranges
  <2>. QED  BY <1>1, <1>4, <2>1 DEF Ranges
<1>5. CASE k = 4
  <2>1. \A m \in Ranges \ {"update_metadata"} : k \notin First(b, z)[m]..Last(b, z)[m]
    BY <1>1, <1>5 DEF Ranges
  <2>. QED  BY <1>1, <1>5, <2>1 DEF Ranges
<1>6. CASE 5 <= k /\ k < b
  <2>1. \A m \in Ranges \ {"slot_a"} : k \notin First(b, z)[m]..Last(b, z)[m]
    BY <1>1, <1>6 DEF Ranges
  <2>. QED  BY <1>1, <1>6, <2>1 DEF Ranges
<1>7. CASE b <= k /\ k < z
  <2>1. \A m \in Ranges \ {"slot_b"} : k \notin First(b, z)[m]..Last(b, z)[m]
    BY <1>1, <1>7 DEF Ranges
  <2>. QED  BY <1>1, <1>7, <2>1 DEF Ranges
<1>8. CASE k = z
  <2>1. \A m \in Ranges \ {"recovery"} : k \notin First(b, z)[m]..Last(b, z)[m]
    BY <1>1, <1>8 DEF Ranges
  <2>. QED  BY <1>1, <1>8, <2>1 DEF Ranges
<1>. QED  BY <1>2, <1>3, <1>4, <1>5, <1>6, <1>7, <1>8

\* The part that a profile names.
Mebibytes(profile) == IF profile = "stm32f429_1m" THEN 1 ELSE 2
Recovery(profile) == 12 * Mebibytes(profile) - 1
SlotB(profile) == IF profile = "stm32f429_1m" THEN 8 ELSE 12

\* What _expect_range demands is where the sectors are.
LEMMA FixedHold ==
  ASSUME NEW c, NEW profile \in Profiles, fixed_ranges_ok(profile, c)
  PROVE  /\ Holds(c.regions["bootloader"], 0, 1)
         /\ Holds(c.regions["boot_metadata_a"], 2, 2)
         /\ Holds(c.regions["boot_metadata_b"], 3, 3)
         /\ Holds(c.regions["update_metadata"], 4, 4)
         /\ Holds(c.regions["recovery"], Recovery(profile), Recovery(profile))
<1>1. /\ FlashBase + Start(0) = \h08000000 /\ FlashBase + Start(1 + 1) = \h08008000
      /\ FlashBase + Start(2) = \h08008000 /\ FlashBase + Start(2 + 1) = \h0800C000
      /\ FlashBase + Start(3) = \h0800C000 /\ FlashBase + Start(3 + 1) = \h08010000
      /\ FlashBase + Start(4) = \h08010000 /\ FlashBase + Start(4 + 1) = \h08020000
      /\ FlashBase + Start(11) = \h080E0000 /\ FlashBase + Start(11 + 1) = \h08100000
      /\ FlashBase + Start(23) = \h081E0000 /\ FlashBase + Start(23 + 1) = \h08200000
  BY SMT DEF FlashBase, Start
<1>2. /\ Holds(c.regions["bootloader"], 0, 1)
      /\ Holds(c.regions["boot_metadata_a"], 2, 2)
      /\ Holds(c.regions["boot_metadata_b"], 3, 3)
      /\ Holds(c.regions["update_metadata"], 4, 4)
  BY <1>1, SMT DEF fixed_ranges_ok, expect_range, Holds
<1>3. CASE profile = "stm32f429_1m"
  <2>1. Recovery(profile) = 11
    BY <1>3 DEF Recovery, Mebibytes
  <2>2. Holds(c.regions["recovery"], 11, 11)
    BY <1>1, <1>3, SMT DEF fixed_ranges_ok, expect_range, Holds
  <2>. QED  BY <1>2, <2>1, <2>2
<1>4. CASE profile # "stm32f429_1m"
  <2>1. Recovery(profile) = 23
    BY <1>4 DEF Recovery, Mebibytes
  <2>2. Holds(c.regions["recovery"], 23, 23)
    BY <1>1, <1>4, SMT DEF fixed_ranges_ok, expect_range, Holds
  <2>. QED  BY <1>2, <2>1, <2>2, Zenon
<1>. QED  BY <1>3, <1>4, Zenon

\* Sectors whose bounds are known are known.
LEMMA RegionHolds ==
  ASSUME NEW c, NEW N \in {12, 24}, Placed(c, N), NEW r, validate_sector_region(r, c.sectors),
         NEW f \in 0..23, NEW l \in 0..23,
         r.base = FlashBase + Start(f), End(r) = FlashBase + Start(l + 1)
  PROVE  Holds(r, f, l)
<1>. DEFINE i == r.first_sector
            j == r.last_sector
            s == ById(c.sectors, i)
            t == ById(c.sectors, j)
<1>1. i \in Ids(c.sectors) /\ j \in Ids(c.sectors) /\ r.base = s.base /\ End(r) = End(t)
  BY DEF validate_sector_region
<1>2. i \in 0..23 /\ j \in 0..23
  <2>1. Ids(c.sectors) = 0..N - 1
    BY DEF Placed
  <2>. HIDE DEF i, j, s, t
  <2>2. i \in 0..N - 1 /\ j \in 0..N - 1
    BY <1>1, <2>1, Zenon
  <2>. QED  BY <2>2
<1>3. s \in c.sectors /\ s.id = i /\ t \in c.sectors /\ t.id = j
  BY <1>1, ByIdFinds, Zenon
<1>4. s.base = FlashBase + Start(i) /\ End(t) = FlashBase + Start(j + 1)
  <2>. HIDE DEF s, t, i, j
  <2>. QED  BY <1>3, Zenon DEF Placed
<1>. HIDE DEF s, t, i, j
<1>5. FlashBase \in Nat
  BY SMT DEF FlashBase
<1>6. \A k \in 0..23 : Start(k) \in Nat /\ Start(k + 1) \in Nat
  BY StartsAddUp
<1>7. Start(i) = Start(f) /\ Start(j + 1) = Start(l + 1)
  <2>1. /\ FlashBase + Start(i) = FlashBase + Start(f)
        /\ FlashBase + Start(j + 1) = FlashBase + Start(l + 1)
    BY <1>1, <1>4, Zenon
  <2>. QED  BY <1>2, <1>5, <1>6, <2>1, SMTT(30)
<1>8. i = f /\ j = l
  <2>1. i \in 0..24 /\ j + 1 \in 0..24 /\ f \in 0..24 /\ l + 1 \in 0..24
    BY <1>2
  <2>2. i = f /\ j + 1 = l + 1
    BY <1>7, <2>1, StartsGrow, Zenon
  <2>. QED  BY <1>2, <2>2
<1>9. r.first_sector = f /\ r.last_sector = l
  BY <1>8, Zenon DEF i, j
<1>. QED  BY <1>9 DEF Holds

\* The descriptor of a slot repeats its region.
LEMMA SlotFields ==
  ASSUME NEW c, NEW n
  PROVE  LET s == slot_from_region(c, n)
             r == c.regions[n]
         IN  /\ s.signed_image_base = r.base /\ s.size = r.size /\ s.end = End(r)
             /\ s.payload_base = s.signed_image_base + c.header_size
             /\ s.payload_max_size = s.end - s.payload_base
  BY SMT DEF slot_from_region

\* The bounds of the slots.
LEMMA SlotBounds ==
  ASSUME NEW c, HasNumbers(c), NEW profile \in Profiles, validate_layout(profile, c)
  PROVE  LET a == c.regions["slot_a"]
             b == c.regions["slot_b"]
         IN  /\ a.base = FlashBase + Start(5) /\ End(a) = FlashBase + Start(SlotB(profile) - 1 + 1)
             /\ b.base = FlashBase + Start(SlotB(profile))
             /\ End(b) = FlashBase + Start(Recovery(profile) - 1 + 1)
<1>. DEFINE a == c.regions["slot_a"]
            b == c.regions["slot_b"]
<1>1. /\ FlashBase + Start(5) = \h08020000
      /\ FlashBase + Start(8 - 1 + 1) = \h08080000 /\ FlashBase + Start(8) = \h08080000
      /\ FlashBase + Start(12 - 1 + 1) = \h08100000 /\ FlashBase + Start(12) = \h08100000
      /\ FlashBase + Start(11 - 1 + 1) = \h080E0000 /\ FlashBase + Start(23 - 1 + 1) = \h081E0000
  BY SMT DEF FlashBase, Start
<1>2. slots_ok(profile, c)
  BY SMT DEF validate_layout
<1>3. a.base = \h08020000 /\ a.size = b.size
  BY <1>2, SlotFields, SMT DEF slots_ok
<1>4. CASE profile = "stm32f429_1m"
  <2>1. SlotB(profile) = 8 /\ Recovery(profile) = 11
    BY <1>4 DEF SlotB, Recovery, Mebibytes
  <2>2. b.base = \h08080000 /\ End(a) = \h08080000 /\ End(b) = \h080E0000
    BY <1>4, <1>2, SlotFields, SMT DEF slots_ok
  <2>. QED  BY <1>1, <1>3, <2>1, <2>2, SMT
<1>5. CASE profile # "stm32f429_1m"
  <2>1. SlotB(profile) = 12 /\ Recovery(profile) = 23
    BY <1>5 DEF SlotB, Recovery, Mebibytes
  <2>2. b.base = \h08100000
    BY <1>5, <1>2, SlotFields, SMT DEF slots_ok
  <2>3. c.flash_base + c.flash_total_size = \h08200000
    BY <1>5, SMT DEF validate_layout, profile_ok
  <2>4. /\ c.regions["bootloader"].base = \h08000000
        /\ c.regions["boot_metadata_a"].base = \h08008000
        /\ c.regions["boot_metadata_b"].base = \h0800C000
        /\ c.regions["update_metadata"].base = \h08010000
        /\ c.regions["recovery"].base = \h081E0000
    BY <1>5, SMT DEF validate_layout, fixed_ranges_ok, expect_range
  <2>5. /\ End(a) > a.base
        /\ End(a) \in {c.regions[n].base : n \in Ranges} \cup {c.flash_base + c.flash_total_size}
        /\ b.base > a.base => b.base >= End(a)
    <3>1. "slot_a" \in Ranges /\ "slot_b" \in Ranges
      BY DEF Ranges
    <3>. QED  BY <3>1, SMT DEF validate_layout, named_ranges_ok
  <2>6. a.size \in Int
    BY SMT DEF HasNumbers, Ranges
  <2>7. End(a) = \h08100000
    <3>1. \/ End(a) \in {\h08000000, \h08008000, \h0800C000, \h08010000, \h081E0000, \h08200000}
          \/ End(a) = a.base \/ End(a) = b.base
      BY <2>3, <2>4, <2>5, SMT DEF Ranges
    <3>. DEFINE e == End(a)
    <3>2. e \in Int
      BY <1>3, <2>6, SMT DEF End
    <3>. HIDE DEF e
    <3>3. e > \h08020000 /\ \h08100000 >= e
      BY <1>3, <2>2, <2>5, <3>2, SMT DEF e
    <3>4. e = \h08100000
      BY <1>3, <2>2, <3>1, <3>2, <3>3, SMT DEF e
    <3>. QED  BY <3>4, SMT DEF e
  <2>8. End(b) = \h081E0000
    BY <1>3, <2>2, <2>6, <2>7, SMT DEF End
  <2>. QED  BY <1>1, <1>3, <2>1, <2>2, <2>7, <2>8, SMT
<1>. QED  BY <1>4, <1>5

\* _validate_layout: every sector belongs to one region and lies inside it.
LEMMA LayoutParts ==
  ASSUME NEW config, NEW profile, load_layout_ok(config, profile), HasNumbers(config[profile]),
         NEW s \in config[profile].sectors
  PROVE  LET c == config[profile]
         IN  \E n \in Ranges :
               /\ s.id \in Sectors(c.regions[n])
               /\ s.base >= c.regions[n].base /\ End(s) <= End(c.regions[n])
               /\ \A m \in Ranges \ {n} : s.id \notin Sectors(c.regions[m])
<1>. DEFINE c == config[profile]
            N == 12 * Mebibytes(profile)
            b == SlotB(profile)
            z == Recovery(profile)
<1>1. profile \in Profiles /\ validate_layout(profile, c)
      /\ \A n \in SlotRanges : validate_sector_region(c.regions[n], c.sectors)
  BY Zenon DEF load_layout_ok, select_profile_ok, slot_from_region_ok
<1>2. HasNumbers(c)
  OBVIOUS
<1>3. s \in c.sectors
  BY Zenon
<1>. HIDE DEF c
<1>4. N \in {12, 24} /\ b \in Nat /\ z \in Nat /\ 5 < b /\ b < z /\ N = z + 1 /\ z \in 0..23
  BY DEF Mebibytes, SlotB, Recovery
<1>5. Placed(c, N)
  <2>1. Ids(c.sectors) = 0..N - 1
    BY <1>1, SMT DEF validate_layout, profile_ok, Mebibytes
  <2>2. c.flash_base = FlashBase /\ sectors_ok(c)
    BY <1>1, SMT DEF validate_layout, FlashBase
  <2>. HIDE DEF N
  <2>. QED  BY <1>2, <1>4, <2>1, <2>2, SectorsPlaced, Zenon
<1>. HIDE DEF N, b, z
<1>6. /\ c.regions["slot_a"].base = FlashBase + Start(5)
      /\ End(c.regions["slot_a"]) = FlashBase + Start(b - 1 + 1)
      /\ c.regions["slot_b"].base = FlashBase + Start(b)
      /\ End(c.regions["slot_b"]) = FlashBase + Start(z - 1 + 1)
  BY <1>1, <1>2, SlotBounds, Zenon DEF b, z
<1>7. Holds(c.regions["slot_a"], 5, b - 1) /\ Holds(c.regions["slot_b"], b, z - 1)
  <2>1. 5 \in 0..23 /\ b - 1 \in 0..23 /\ b \in 0..23 /\ z - 1 \in 0..23
    BY <1>4
  <2>2. /\ validate_sector_region(c.regions["slot_a"], c.sectors)
        /\ validate_sector_region(c.regions["slot_b"], c.sectors)
    BY <1>1, Zenon DEF SlotRanges
  <2>. QED  BY <1>4, <1>5, <1>6, <2>1, <2>2, RegionHolds, Zenon
<1>8. /\ Holds(c.regions["bootloader"], 0, 1) /\ Holds(c.regions["boot_metadata_a"], 2, 2)
      /\ Holds(c.regions["boot_metadata_b"], 3, 3) /\ Holds(c.regions["update_metadata"], 4, 4)
      /\ Holds(c.regions["recovery"], z, z)
  <2>1. fixed_ranges_ok(profile, c)
    BY <1>1, SMT DEF validate_layout
  <2>. QED  BY <1>1, <2>1, FixedHold, Zenon DEF z
<1>9. \A n \in Ranges : Holds(c.regions[n], First(b, z)[n], Last(b, z)[n])
  BY <1>7, <1>8, Zenon DEF Ranges, First, Last
<1>10. First(b, z) \in [Ranges -> 0..N - 1] /\ Last(b, z) \in [Ranges -> 0..N - 1]
  BY <1>4 DEF First, Last
<1>11. Parts(N, First(b, z), Last(b, z))
  BY <1>4, PartsOf
<1>. DEFINE F == First(b, z)
            L == Last(b, z)
<1>. HIDE DEF F, L
<1>12. /\ F \in [Ranges -> 0..N - 1] /\ L \in [Ranges -> 0..N - 1] /\ Parts(N, F, L)
       /\ \A n \in Ranges : Holds(c.regions[n], F[n], L[n])
  BY <1>9, <1>10, <1>11, Zenon DEF F, L
<1>13. \E n \in Ranges :
          /\ s.id \in Sectors(c.regions[n])
          /\ s.base >= c.regions[n].base /\ End(s) <= End(c.regions[n])
          /\ \A m \in Ranges \ {n} : s.id \notin Sectors(c.regions[m])
  BY <1>3, <1>4, <1>5, <1>12, PartsPartition, Zenon
<1>. QED  BY <1>13, Zenon DEF c

\* The assertions of boot_slot.c hold of an accepted 1 MiB layout.
LEMMA AssertsHold ==
  ASSUME NEW c, validate_layout("stm32f429_1m", c)
  PROVE  static_asserts(c)
<1>. DEFINE a == slot_from_region(c, "slot_a")
            b == slot_from_region(c, "slot_b")
            r == c.regions["recovery"]
            u == c.regions["update_metadata"]
<1>1. slots_ok("stm32f429_1m", c) /\ header_ok(c) /\ fixed_ranges_ok("stm32f429_1m", c)
      /\ profile_ok("stm32f429_1m", c) /\ c.flash_base = \h08000000
  BY SMT DEF validate_layout
<1>2. /\ a.id = 0 /\ b.id = 1 /\ a.size = b.size /\ a.payload_max_size = b.payload_max_size
      /\ a.signed_image_base = \h08020000 /\ a.end = \h08080000
      /\ b.signed_image_base = \h08080000 /\ b.end = \h080E0000
      /\ a.last_sector = 7 /\ b.last_sector = 10
      /\ a.payload_base % 256 = 0 /\ b.payload_base % 256 = 0
  <2>. HIDE DEF a, b
  <2>. QED  BY <1>1, SMT DEF slots_ok, a, b
<1>3. c.header_size = \h200
  BY <1>1, SMT DEF header_ok
<1>4. /\ End(u) = \h08020000 /\ r.base = \h080E0000 /\ End(r) = \h08100000 /\ r.last_sector = 11
  BY <1>1, SMT DEF fixed_ranges_ok, expect_range
<1>5. c.flash_base + c.flash_total_size = \h08100000
  BY <1>1, SMT DEF profile_ok
<1>. HIDE DEF a, b, r, u
<1>6. /\ a.signed_image_base >= End(u) /\ a.end <= b.signed_image_base /\ b.end <= r.base
      /\ End(r) = c.flash_base + c.flash_total_size
      /\ {a.last_sector, b.last_sector, r.last_sector} \subseteq 0..11
  BY <1>2, <1>4, <1>5, SMT
<1>. QED  BY <1>2, <1>3, <1>6, SMT DEF static_asserts, a, b, r, u

-----------------------------------------------------------------------------
(* The slots of a board that is built from an accepted layout.             *)

\* A multiple of a multiple.
LEMMA Multiple ==
  ASSUME NEW x \in Nat, NEW y \in Nat \ {0}, NEW d \in 1..y, x % y = 0, y % d = 0
  PROVE  x % d = 0
<1>1. PICK q \in Nat : x = y * q
  <2>1. x = (y * (x \div y)) + (x % y) /\ x \div y \in Nat
    OBVIOUS
  <2>. QED  BY <2>1
<1>2. PICK r \in Nat : y = d * r
  <2>1. y = (d * (y \div d)) + (y % d) /\ y \div d \in Nat
    OBVIOUS
  <2>. QED  BY <2>1
<1>3. x = d * (r * q) /\ r * q \in Nat
  BY <1>1, <1>2
<1>. DEFINE k == r * q
<1>. HIDE DEF k
<1>4. x = d * k /\ k \in Nat
  BY <1>3 DEF k
<1>5. x \div d = k
  BY <1>4
<1>. QED  BY <1>4, <1>5

\* load_layout and the generated header give slots that fit.
LEMMA LayoutFits ==
  ASSUME NEW config, load_layout_ok(config, "stm32f429_1m"),
         HasNumbers(config["stm32f429_1m"]),
         config["stm32f429_1m"] = RepositoryConfig["stm32f429_1m"]
  PROVE  SlotsFit
<1>. DEFINE c == RepositoryConfig["stm32f429_1m"]
            a == slot_from_region(c, "slot_a")
            b == slot_from_region(c, "slot_b")
<1>1. validate_layout("stm32f429_1m", c)
  BY Zenon DEF load_layout_ok
<1>2. slots_ok("stm32f429_1m", c) /\ header_ok(c)
  BY <1>1, SMT DEF validate_layout
<1>3. DOMAIN Slots = {0, 1} /\ Slots[0] = a /\ Slots[1] = b
  BY GeneratedAssumption
<1>. HIDE DEF a, b
<1>4. /\ a.signed_image_base = \h08020000 /\ a.end = \h08080000
      /\ b.signed_image_base = \h08080000 /\ b.end = \h080E0000
      /\ a.payload_base % 256 = 0 /\ b.payload_base % 256 = 0
      /\ a.payload_max_size = b.payload_max_size
  BY <1>2, SMT DEF slots_ok, a, b
<1>5. c.header_size = \h200
  BY <1>2, SMT DEF header_ok
<1>6. /\ a.payload_base = a.signed_image_base + c.header_size /\ a.payload_max_size = a.end - a.payload_base
      /\ b.payload_base = b.signed_image_base + c.header_size /\ b.payload_max_size = b.end - b.payload_base
  BY SlotFields, Zenon DEF a, b
<1>7. b.end <= UINT32_MAX
  <2>. DEFINE r == c.regions["slot_b"]
  <2>1. checked_add_ok(r.base, r.size)
    BY Zenon DEF load_layout_ok, read_region_ok, Ranges
  <2>2. r.base \in Int /\ r.size \in Int
    BY Zenon DEF HasNumbers, Ranges
  <2>3. b.end = r.base + r.size
    BY SlotFields, Zenon DEF b, End
  <2>. HIDE DEF r
  <2>. QED  BY <2>1, <2>2, <2>3, GeneratedAssumption, SMT DEF checked_add_ok
<1>. HIDE DEF c
<1>8. a.payload_base = \h08020200 /\ b.payload_base = \h08080200
      /\ a.payload_max_size = \h5FE00 /\ b.payload_max_size = \h5FE00
  BY <1>4, <1>5, <1>6, SMT
<1>9. a.payload_base % APPLICATION_VTOR_ALIGNMENT = 0 /\ b.payload_base % APPLICATION_VTOR_ALIGNMENT = 0
  <2>. DEFINE x == a.payload_base
              y == b.payload_base
  <2>1. x \in Nat /\ y \in Nat /\ x % 256 = 0 /\ y % 256 = 0
    BY <1>4, <1>8, SMT
  <2>. HIDE DEF x, y
  <2>2. 256 \in Nat \ {0} /\ APPLICATION_VTOR_ALIGNMENT \in 1..256
        /\ 256 % APPLICATION_VTOR_ALIGNMENT = 0
    BY GeneratedAssumption, SMT
  <2>3. x % APPLICATION_VTOR_ALIGNMENT = 0 /\ y % APPLICATION_VTOR_ALIGNMENT = 0
    BY <2>1, <2>2, Multiple, SMT
  <2>. QED  BY <2>3 DEF x, y
<1>10. /\ {a.signed_image_base, a.payload_base, a.end, a.payload_max_size} \subseteq Nat
       /\ {b.signed_image_base, b.payload_base, b.end, b.payload_max_size} \subseteq Nat
       /\ slot_is_sane(a) /\ slot_is_sane(b)
       /\ a.end <= UINT32_MAX /\ a.payload_base # b.payload_base
  BY <1>4, <1>7, <1>8, GeneratedAssumption, SMT DEF slot_is_sane
<1>. QED  BY <1>3, <1>4, <1>7, <1>9, <1>10, SMT DEF SlotsFit

-----------------------------------------------------------------------------
(* The host's checks and the device's.                                     *)

\* What both demand of a package for slot s.
WellFormed(p) ==
  /\ p.m.magic = SIGNED_IMAGE_MAGIC /\ p.m.header_version = UPDATE_PACKAGE_FORMAT_VERSION
  /\ p.m.flags \subseteq FLAGS_ALLOWED
  /\ p.m.reserved0 = UPDATE_TARGET /\ p.m.reserved1 = UPDATE_IMAGE_TYPE
  /\ p.m.image_version >= MIN_IMAGE_VERSION
Sized(p, s) ==
  /\ p.m.vector_address = s.payload_base
  /\ p.m.image_size >= APPLICATION_MIN_SIZE /\ p.m.image_size <= s.payload_max_size
Vectored(p, s) ==
  /\ validate_application_msp(p.pay.msp)
  /\ p.pay.reset % 2 = 1
  /\ s.payload_base <= reset_address(p.pay.reset)
  /\ reset_address(p.pay.reset) < s.payload_base + p.m.image_size
Authentic(p, key) ==
  /\ crypto_sha512(p.pay, p.length, p.m.image_size) = p.m.payload_sha512
  /\ crypto_ed25519_check(p.sig, key, p.m)
Whole(p) == p.pad /\ p.length = p.m.image_size

\* A size that fits the slot fits everything that is asked of it.
LEMMA SizeFits ==
  ASSUME SlotsFit, NEW i \in {0, 1}, NEW n \in Int, n >= APPLICATION_MIN_SIZE,
         n <= Slots[i].payload_max_size
  PROVE  LET s == Slots[i]
         IN  /\ n >= APPLICATION_VECTOR_MIN_SIZE /\ n > 0
             /\ checked_u32_add_ok(s.payload_base, n)
             /\ s.payload_base + n <= s.end /\ s.payload_base + n > s.payload_base
             /\ s.payload_base + n \in s.payload_base..s.end
             /\ s.payload_base + n - s.payload_base = n
             /\ s.end >= s.payload_base /\ n <= s.end - s.payload_base
             /\ n <= largest_slot_payload_size
<1>. DEFINE s == Slots[i]
            b == s.payload_base
            e == s.end
            m == s.payload_max_size
<1>1. b \in Nat /\ e \in Nat /\ m \in Nat /\ e <= UINT32_MAX /\ b < e /\ m = e - b
  BY Zenon DEF SlotsFit, slot_is_sane
<1>2. m = Slots[0].payload_max_size /\ m = Slots[1].payload_max_size
  BY DEF SlotsFit
<1>3. /\ APPLICATION_MIN_SIZE \in Nat /\ APPLICATION_VECTOR_MIN_SIZE \in Nat \ {0}
      /\ UINT32_MAX \in Nat /\ APPLICATION_MIN_SIZE >= APPLICATION_VECTOR_MIN_SIZE
  BY GeneratedAssumption, ConstantsConsistent DEF constants_consistent
<1>4. largest_slot_payload_size = m
  BY <1>1, <1>2, Zenon DEF largest_slot_payload_size
<1>5. n <= m
  BY Zenon
<1>. HIDE DEF s, b, e, m
<1>6. /\ n >= APPLICATION_VECTOR_MIN_SIZE /\ n > 0
      /\ checked_u32_add_ok(b, n)
      /\ b + n <= e /\ b + n > b /\ b + n \in b..e /\ b + n - b = n
      /\ e >= b /\ n <= e - b /\ n <= largest_slot_payload_size
  BY <1>1, <1>3, <1>4, <1>5 DEF checked_u32_add_ok
<1>. QED  BY <1>6, Zenon DEF s, b, e, m

\* The address of a reset handler.
LEMMA ResetAddress ==
  ASSUME NEW r \in Int
  PROVE  reset_address(r) \in Int
  BY DEF reset_address

\* validate_manifest in terms of these.
LEMMA ManifestChecked ==
  ASSUME SlotsFit, NEW i \in {0, 1}, NEW p, IsPackage(p), NEW capacity
  PROVE  validate_manifest(p.m, slot_policy(Slots[i]), p.pay, capacity)
           <=> /\ WellFormed(p) /\ Sized(p, Slots[i]) /\ Vectored(p, Slots[i])
               /\ p.m.image_size <= capacity
<1>. DEFINE s == Slots[i]
            n == p.m.image_size
            q == slot_policy(s)
            r == reset_address(p.pay.reset)
<1>1. /\ q.header_version = UPDATE_PACKAGE_FORMAT_VERSION /\ q.vector_address = s.payload_base
      /\ q.flash_end = s.end /\ q.max = s.payload_max_size
      /\ q.reserved0 = UPDATE_TARGET /\ q.reserved1 = UPDATE_IMAGE_TYPE
  BY DEF slot_policy
<1>2. n \in Int /\ r \in Int
  BY ResetAddress DEF IsPackage
<1>3. s.payload_base \in Nat /\ s.end \in Nat /\ s.payload_max_size \in Nat
  BY Zenon DEF SlotsFit
<1>. HIDE DEF q, s
<1>4. validate_manifest_header(p.m, q) <=> WellFormed(p)
  BY <1>1, Zenon DEF validate_manifest_header, WellFormed
<1>5. validate_payload_range(p.m, q) => Sized(p, s)
  BY <1>1, Zenon DEF validate_payload_range, Sized
<1>6. ASSUME Sized(p, s)
      PROVE  /\ validate_payload_range(p.m, q)
             /\ validate_payload_range_independent(p.m, q, p.m.vector_address + n)
             /\ validate_vector_table(p.m, q, p.pay) <=> Vectored(p, s)
  <2>1. /\ p.m.vector_address = s.payload_base
        /\ n >= APPLICATION_MIN_SIZE /\ n <= s.payload_max_size
    BY <1>6, Zenon DEF Sized
  <2>2. /\ n >= APPLICATION_VECTOR_MIN_SIZE /\ n > 0
        /\ checked_u32_add_ok(s.payload_base, n)
        /\ s.payload_base + n <= s.end /\ s.payload_base + n > s.payload_base
        /\ s.payload_base + n \in s.payload_base..s.end
        /\ s.payload_base + n - s.payload_base = n
        /\ s.end >= s.payload_base /\ n <= s.end - s.payload_base
    BY <1>2, <2>1, SizeFits, Zenon DEF s
  <2>3. validate_payload_range(p.m, q)
    BY <1>1, <2>1, <2>2, Zenon DEF validate_payload_range
  <2>4. validate_payload_range_independent(p.m, q, p.m.vector_address + n)
    <3>. DEFINE v == p.m.vector_address
                e == v + n
    <3>1. v = s.payload_base /\ v = q.vector_address /\ q.flash_end = s.end
      BY <1>1, <2>1, Zenon
    <3>. HIDE DEF v
    <3>2. e \in v..q.flash_end /\ e - v = n /\ q.flash_end >= q.vector_address
          /\ n <= q.flash_end - q.vector_address
      <4>. HIDE DEF n
      <4>. QED  BY <1>2, <1>3, <2>2, <3>1
    <3>. HIDE DEF e
    <3>3. validate_payload_range_independent(p.m, q, e)
      BY <2>2, <3>1, <3>2, Zenon DEF validate_payload_range_independent, v
    <3>. QED  BY <3>3 DEF e, v
  <2>5. validate_vector_table(p.m, q, p.pay) <=> Vectored(p, s)
    <3>1. (r < s.payload_base + n) => r < s.end
      <4>. HIDE DEF n, r
      <4>. QED  BY <1>2, <1>3, <2>2
    <3>. QED  BY <1>1, <2>1, <3>1, Zenon DEF validate_vector_table, validate_application_reset, Vectored
  <2>. QED  BY <2>3, <2>4, <2>5, Zenon
<1>7. validate_manifest(p.m, q, p.pay, capacity)
        <=> /\ WellFormed(p) /\ Sized(p, s) /\ Vectored(p, s) /\ n <= capacity
  BY <1>4, <1>5, <1>6, Zenon DEF validate_manifest
<1>. QED  BY <1>7, Zenon DEF q, s

\* The host and the device accept the same packages for a slot.
LEMMA HostAndDevice ==
  ASSUME SlotsFit, NEW i \in {0, 1}, NEW p, IsPackage(p), NEW key
  PROVE  /\ verify_package_bytes(p, key, i)
              <=> /\ WellFormed(p) /\ Sized(p, Slots[i]) /\ Vectored(p, Slots[i])
                  /\ Authentic(p, key) /\ Whole(p)
         /\ update_package_verify_for_slot(p, key, Slots[i])
              <=> /\ WellFormed(p) /\ Sized(p, Slots[i]) /\ Vectored(p, Slots[i])
                  /\ Authentic(p, key) /\ Whole(p)
<1>. DEFINE s == Slots[i]
            n == p.m.image_size
            r == reset_address(p.pay.reset)
            All == /\ WellFormed(p) /\ Sized(p, s) /\ Vectored(p, s)
                   /\ Authentic(p, key) /\ Whole(p)
<1>1. n \in Int /\ r \in Int
  BY ResetAddress DEF IsPackage
<1>2. s.payload_base \in Nat /\ s.end \in Nat /\ s.payload_max_size \in Nat /\ slot_is_sane(s)
  BY Zenon DEF SlotsFit
<1>3. p.m.vector_address = s.payload_base <=> slot_from_vector(p.m.vector_address) = {i}
  BY Zenon DEF SlotsFit, slot_from_vector
<1>4. ASSUME Sized(p, s)
      PROVE  /\ s.payload_base + n <= s.end
             /\ n <= largest_slot_payload_size
             /\ r < s.payload_base + n => r < s.end
  <2>1. n >= APPLICATION_MIN_SIZE /\ n <= s.payload_max_size
    BY <1>4 DEF Sized
  <2>2. s.payload_base + n <= s.end /\ n <= largest_slot_payload_size
    BY <1>1, <2>1, SizeFits, Zenon
  <2>. HIDE DEF n, r, s
  <2>. QED  BY <1>1, <1>2, <2>2
<1>. HIDE DEF All
<1>5. verify_package_bytes(p, key, i) => All
  <2>. SUFFICES ASSUME verify_package_bytes(p, key, i) PROVE All
    OBVIOUS
  <2>1. p.m.vector_address = s.payload_base /\ verify_signed_image(p, key, s, TRUE)
    BY <1>3, Zenon DEF verify_package_bytes
  <2>. HIDE DEF s
  <2>2. WellFormed(p) /\ Sized(p, s) /\ Whole(p)
    BY <2>1, Zenon DEF verify_signed_image, WellFormed, Sized, Whole
  <2>3. Vectored(p, s)
    BY <2>1 DEF verify_signed_image, release_validate_vector_table, Vectored, validate_application_msp
  <2>4. Authentic(p, key)
    BY <2>1, Zenon DEF verify_signed_image, Authentic
  <2>. QED  BY <2>2, <2>3, <2>4, Zenon DEF All
<1>6. All => verify_package_bytes(p, key, i)
  <2>. SUFFICES ASSUME WellFormed(p), Sized(p, s), Vectored(p, s), Authentic(p, key), Whole(p)
               PROVE  verify_package_bytes(p, key, i)
    BY Zenon DEF All
  <2>1. slot_from_vector(p.m.vector_address) = {i} /\ p.m.vector_address = s.payload_base
    BY <1>3, Zenon DEF Sized
  <2>2. inspect_package_bytes(p)
    BY <2>1, Zenon DEF inspect_package_bytes, WellFormed, Whole
  <2>. HIDE DEF s
  <2>3. release_validate_vector_table(p.pay, p.length, p.m.vector_address + n, s)
    BY <1>4, <2>1, Zenon DEF release_validate_vector_table, Vectored, validate_application_msp, Whole, Sized
  <2>4. p.m.vector_address + n <= s.end
    BY <1>4, <2>1, Zenon
  <2>5. crypto_sha512(p.pay, p.length, p.length) = p.m.payload_sha512
    BY Zenon DEF Authentic, Whole
  <2>6. verify_signed_image(p, key, s, TRUE)
    BY <2>1, <2>3, <2>4, <2>5, Zenon DEF verify_signed_image, WellFormed, Sized, Whole, Authentic
  <2>. QED  BY <2>1, <2>2, <2>6, Zenon DEF verify_package_bytes, s
<1>7. validate_manifest(p.m, slot_policy(s), p.pay, p.length)
        <=> /\ WellFormed(p) /\ Sized(p, s) /\ Vectored(p, s) /\ n <= p.length
  BY ManifestChecked, Zenon
<1>8. update_package_verify_for_slot(p, key, s) => All
  <2>. SUFFICES ASSUME update_package_verify_for_slot(p, key, s) PROVE All
    BY Zenon
  <2>. HIDE DEF s
  <2>1. /\ validate_manifest(p.m, slot_policy(s), p.pay, p.length)
        /\ Authentic(p, key)
    BY Zenon DEF update_package_verify_for_slot, signed_image_verify_update_slot_buffer,
                 verify_buffer_with_policy, Authentic
  <2>2. Whole(p)
    BY Zenon DEF update_package_verify_for_slot, update_package_parse, parse_header_common, Whole
  <2>. QED  BY <1>7, <2>1, <2>2, Zenon DEF All
<1>9. All => update_package_verify_for_slot(p, key, s)
  <2>. SUFFICES ASSUME WellFormed(p), Sized(p, s), Vectored(p, s), Authentic(p, key), Whole(p)
               PROVE  update_package_verify_for_slot(p, key, s)
    BY Zenon DEF All
  <2>. HIDE DEF s
  <2>1. update_package_parse(p)
    BY <1>4, Zenon DEF update_package_parse, parse_header_common, WellFormed, Sized, Whole
  <2>2. validate_manifest(p.m, slot_policy(s), p.pay, p.length)
    <3>1. n <= p.length
      BY <1>1 DEF Whole
    <3>. QED  BY <1>7, <3>1, Zenon
  <2>3. signed_image_verify_update_slot_buffer(p, p.length, key, s)
    BY <1>2, <2>2, Zenon DEF signed_image_verify_update_slot_buffer, verify_buffer_with_policy, Authentic
  <2>. QED  BY <2>1, <2>3 DEF update_package_verify_for_slot, Sized
<1>. QED  BY <1>5, <1>6, <1>8, <1>9, Zenon DEF All

\* The context of a well placed image passes the check before the jump.
LEMMA ContextValid ==
  ASSUME SlotsFit, NEW i \in {0, 1}, NEW p, IsPackage(p), Sized(p, Slots[i]), Vectored(p, Slots[i])
  PROVE  validate_jump_context(jump_context(p.m, p.pay))
<1>. DEFINE s == Slots[i]
            n == p.m.image_size
            b == s.payload_base
            r == reset_address(p.pay.reset)
            c == jump_context(p.m, p.pay)
<1>1. n \in Int /\ r \in Int
  BY ResetAddress, Zenon DEF IsPackage
<1>2. b \in Nat /\ s.end \in Nat /\ b % APPLICATION_VTOR_ALIGNMENT = 0
  BY Zenon DEF SlotsFit
<1>3. p.m.vector_address = b /\ n >= APPLICATION_MIN_SIZE /\ n <= s.payload_max_size
  BY DEF Sized
<1>4. /\ n >= APPLICATION_VECTOR_MIN_SIZE /\ checked_u32_add_ok(b, n)
      /\ b + n <= s.end /\ b + n > b
  BY <1>1, <1>3, SizeFits, Zenon
<1>5. /\ c.vector_address = b /\ c.image_size = n /\ c.payload_end = b + n
      /\ c.initial_msp = p.pay.msp /\ c.reset_vector = p.pay.reset /\ c.reset_address = r
  BY <1>3, Zenon DEF jump_context
<1>6. s \in slot_for_vector_address(b)
  BY Zenon DEF slot_for_vector_address, SlotsFit
<1>. HIDE DEF c, s
<1>7. validate_application_reset(c.reset_vector, c.reset_address, c.vector_address, c.payload_end, s.end)
  <2>1. b <= r /\ r < b + n /\ p.pay.reset % 2 = 1
    BY Zenon DEF Vectored, s
  <2>2. r < s.end
    <3>. HIDE DEF b, r, n
    <3>. QED  BY <1>1, <1>2, <1>4, <2>1
  <2>. QED  BY <1>5, <2>1, <2>2, Zenon DEF validate_application_reset
<1>8. validate_application_msp(c.initial_msp)
  BY <1>5 DEF Vectored
<1>9. validate_jump_context(c)
  <2>. HIDE DEF b, n
  <2>1. /\ c.vector_address % APPLICATION_VTOR_ALIGNMENT = 0
        /\ c.image_size >= APPLICATION_VECTOR_MIN_SIZE /\ c.image_size <= s.payload_max_size
        /\ checked_u32_add_ok(c.vector_address, c.image_size)
        /\ c.payload_end = c.vector_address + c.image_size
        /\ c.payload_end > c.vector_address /\ c.payload_end <= s.end
        /\ s \in slot_for_vector_address(c.vector_address)
    BY <1>2, <1>3, <1>4, <1>5, <1>6, Zenon
  <2>. QED  BY <1>7, <1>8, <2>1, Zenon DEF validate_jump_context
<1>. QED  BY <1>9 DEF c

\* What they accept passes the streamed header's check and boots.
LEMMA AcceptedBoots ==
  ASSUME SlotsFit, NEW i \in {0, 1}, NEW p, IsPackage(p),
         update_package_verify_for_slot(p, DeviceKey, Slots[i])
  PROVE  /\ update_package_verify_header_for_slot(p, DeviceKey, Slots[i])
         /\ verify_target_slot(p, Slots[i])
<1>. DEFINE s == Slots[i]
<1>1. /\ WellFormed(p) /\ Sized(p, s) /\ Vectored(p, s)
      /\ Authentic(p, DeviceKey) /\ Whole(p)
  BY HostAndDevice, Zenon
<1>2. slot_is_sane(s)
  BY Zenon DEF SlotsFit
<1>3. validate_manifest(p.m, slot_policy(s), p.pay, s.payload_max_size)
  <2>1. p.m.image_size <= s.payload_max_size
    BY <1>1, Zenon DEF Sized
  <2>. QED  BY <1>1, <2>1, ManifestChecked, Zenon
<1>4. validate_jump_context(jump_context(p.m, p.pay))
  BY <1>1, ContextValid, Zenon
<1>. HIDE DEF s
<1>5. update_package_verify_header_for_slot(p, DeviceKey, s)
  BY <1>1 DEF update_package_verify_header_for_slot, update_package_verify_for_slot,
              update_package_parse, Authentic, s
<1>6. verify_target_slot(p, s)
  BY <1>1, <1>2, <1>3, <1>4, Zenon
  DEF verify_target_slot, signed_image_verify_update_slot_buffer, verify_buffer_with_policy,
      signed_image_prepare_update_slot_buffer, Authentic
<1>. QED  BY <1>5, <1>6, Zenon DEF s

\* A single image that the host accepts is one that the device boots.
LEMMA SingleBoots ==
  ASSUME SlotsFit, NEW p, IsPackage(p), verify_signed_image(p, DeviceKey, Slots[0], FALSE)
  PROVE  signed_image_verify(p) /\ signed_image_prepare_jump(p)
<1>. DEFINE s == Slots[0]
            n == p.m.image_size
            q == single_policy
            r == reset_address(p.pay.reset)
<1>1. /\ q.header_version = SIGNED_HEADER_VERSION /\ q.vector_address = s.payload_base
      /\ q.flash_end = s.end /\ q.max = s.payload_max_size
      /\ q.reserved0 = 0 /\ q.reserved1 = 0
  BY DEF single_policy, slot_policy
<1>2. n \in Int /\ r \in Int
  BY ResetAddress, Zenon DEF IsPackage
<1>3. s.payload_base \in Nat /\ s.end \in Nat /\ s.payload_max_size \in Nat
  BY Zenon DEF SlotsFit
<1>. HIDE DEF q
<1>4. Sized(p, s)
  BY DEF verify_signed_image, Sized
<1>5. Vectored(p, s)
  BY <1>4, Zenon DEF verify_signed_image, release_validate_vector_table, Vectored,
              validate_application_msp, Sized
<1>6. Authentic(p, DeviceKey) /\ Whole(p)
  BY Zenon DEF verify_signed_image, Authentic, Whole
<1>7. validate_manifest_header(p.m, q)
  BY <1>1, Zenon DEF validate_manifest_header, verify_signed_image
<1>8. /\ p.m.vector_address = s.payload_base
      /\ n >= APPLICATION_MIN_SIZE /\ n <= s.payload_max_size
  BY <1>4 DEF Sized
<1>9. /\ n >= APPLICATION_VECTOR_MIN_SIZE /\ checked_u32_add_ok(s.payload_base, n)
      /\ s.payload_base + n <= s.end /\ s.payload_base + n \in s.payload_base..s.end
      /\ s.payload_base + n - s.payload_base = n
      /\ s.end >= s.payload_base /\ n <= s.end - s.payload_base
  BY <1>2, <1>8, SizeFits, Zenon
<1>. HIDE DEF s
<1>10. validate_payload_range(p.m, q)
  BY <1>1, <1>8, <1>9, Zenon DEF validate_payload_range
<1>11. validate_payload_range_independent(p.m, q, p.m.vector_address + n)
  <2>. DEFINE v == p.m.vector_address
              e == v + n
  <2>1. v = s.payload_base /\ v = q.vector_address /\ q.flash_end = s.end
    BY <1>1, <1>8, Zenon
  <2>. HIDE DEF v
  <2>2. e \in v..q.flash_end /\ e - v = n /\ q.flash_end >= q.vector_address
        /\ n <= q.flash_end - q.vector_address
    <3>. HIDE DEF n
    <3>. QED  BY <1>2, <1>3, <1>9, <2>1
  <2>. HIDE DEF e
  <2>3. validate_payload_range_independent(p.m, q, e)
    BY <1>9, <2>1, <2>2, Zenon DEF validate_payload_range_independent, v
  <2>. QED  BY <2>3 DEF e, v
<1>12. validate_vector_table(p.m, q, p.pay)
  <2>1. (r < s.payload_base + n) => r < s.end
    <3>. HIDE DEF n, r
    <3>. QED  BY <1>2, <1>3, <1>9
  <2>. QED  BY <1>1, <1>5, <1>8, <2>1, Zenon DEF validate_vector_table, validate_application_reset, Vectored
<1>13. validate_manifest(p.m, single_policy, p.pay, Slots[0].payload_max_size)
  BY <1>7, <1>8, <1>10, <1>11, <1>12, Zenon DEF validate_manifest, q, s
<1>14. validate_jump_context(jump_context(p.m, p.pay))
  BY <1>4, <1>5, ContextValid, Zenon DEF s
<1>. QED  BY <1>6, <1>13, <1>14, Zenon
          DEF signed_image_verify, signed_image_verify_buffer, verify_buffer_with_policy,
              signed_image_prepare_jump, Authentic

-----------------------------------------------------------------------------
(* The inductive invariant.                                                *)

\* A layout is kept only when load_layout has accepted it, and what is built
\* from the repository's has slots that fit.
LayoutInv ==
  \/ layout = [status |-> "none"] \/ layout = [status |-> "rejected"]
  \/ /\ layout.status = "accepted"
     /\ layout = [status |-> "accepted", profile |-> layout.profile, config |-> layout.config]
     /\ \E config \in Configs :
          load_layout_ok(config, layout.profile) /\ layout.config = config[layout.profile]
  \/ layout = [status |-> "emitted"] /\ SlotsFit

\* A package that the host has verified for slot i.
Verified(p, i) == Built /\ i \in {0, 1} /\ IsPackage(p) /\ verify_package_bytes(p, DeviceKey, i)

\* The host writes only what it has verified, and replaces the output only by a
\* temporary file that is complete.
HostInv ==
  /\ \/ host = Idle
     \/ /\ host = [at |-> host.at, slot |-> host.slot, package |-> host.package]
        /\ host.at \in {"create", "written", "synced"}
        /\ Verified(host.package, host.slot)
        /\ host.at = "synced" => disk.temp = host.package
  /\ disk = [file |-> disk.file, slot |-> disk.slot, temp |-> disk.temp]
  /\ disk.file = NoPackage \/ Verified(disk.file, disk.slot)
  /\ received = NoPackage \/ (Built /\ IsPackage(received))

\* An image in flash: faults reach its payload only.
Stored(p) ==
  /\ p = [m |-> p.m, sig |-> p.sig, pad |-> p.pad, pay |-> p.pay, length |-> p.length]
  /\ p.m.image_size \in Int

BoardInv ==
  /\ board = [loader |-> board.loader, at |-> board.at, slot |-> board.slot, flash |-> board.flash,
              ctx |-> board.ctx, verified |-> board.verified, entered |-> board.entered,
              faults |-> board.faults]
  /\ board.loader \in Legacy \cup {"exp045"} /\ board.slot \in {0, 1} /\ board.faults \in Nat
  /\ board.at \in {"off", "reset", "jump", "app", "halted", "recovery"}
  /\ board.at # "off" => Built
  /\ board.loader = "exp045" /\ board.at # "off" =>
       board.flash = [j \in {0, 1} |-> board.flash[j]] /\ Stored(board.flash[board.slot])

\* The words in flash are the verified ones.
Matches ==
  LET pay == board.flash[board.slot].pay
  IN  pay.msp = board.verified.initial_msp /\ pay.reset = board.verified.reset_vector

\* Before the jump: the context as it was filled in, or with one word changed.
\* A changed address no longer agrees with the end of the payload.
JumpInv ==
  board.loader = "exp045" /\ board.at = "jump" =>
    LET c == board.ctx
        v == board.verified
    IN  /\ c = [vector_address |-> c.vector_address, image_size |-> c.image_size,
                payload_end |-> c.payload_end, initial_msp |-> c.initial_msp,
                reset_vector |-> c.reset_vector, reset_address |-> c.reset_address]
        /\ v = [vector_address |-> v.vector_address, initial_msp |-> v.initial_msp,
                reset_vector |-> v.reset_vector]
        /\ v.vector_address = Slots[board.slot].payload_base
        /\ board.faults = 0 => /\ v = Vector(c) /\ Matches /\ c.image_size \in Int
                              /\ validate_jump_context(c) /\ c.reset_address = reset_address(c.reset_vector)
        /\ board.faults = 1 =>
             \/ v = Vector(c)
             \/ Matches /\ c.vector_address = v.vector_address
             \/ /\ c.initial_msp = v.initial_msp /\ c.reset_vector = v.reset_vector
                /\ c.payload_end = v.vector_address + c.image_size /\ c.image_size \in Int

\* An earlier loader reads the words again: without a fault they are the same.
LegacyInv ==
  board.loader \in Legacy /\ board.at = "jump" /\ board.faults = 0 =>
    board.verified = legacy_jump(board.loader, board.flash[0])

IInv ==
  /\ LayoutInv /\ HostInv /\ BoardInv /\ JumpInv /\ LegacyInv
  /\ EntersVerified /\ RefusedOnlyByFault

-----------------------------------------------------------------------------
(* The steps.                                                              *)

\* What is built from the repository's layout has slots that fit.
LEMMA BuiltFits ==
  ASSUME LayoutInv, Built
  PROVE  SlotsFit
  BY DEF LayoutInv, Built

\* Until the tools and the boot loader are built nothing else has happened.
LEMMA Unbuilt ==
  ASSUME HostInv, BoardInv, ~Built
  PROVE  host = Idle /\ disk.file = NoPackage /\ received = NoPackage /\ board.at = "off"
  BY Zenon DEF HostInv, BoardInv, Verified

\* A step that leaves the host's files and the package alone.
LEMMA HostSame ==
  ASSUME HostInv, UNCHANGED <<host, disk, received>>, Built => Built'
  PROVE  HostInv'
  BY Zenon DEF HostInv, Verified

\* A step that leaves the board alone.
LEMMA BoardSame ==
  ASSUME BoardInv, JumpInv, LegacyInv, EntersVerified, RefusedOnlyByFault,
         UNCHANGED board, Built => Built'
  PROVE  BoardInv' /\ JumpInv' /\ LegacyInv' /\ EntersVerified' /\ RefusedOnlyByFault'
<1>1. BoardInv'
  BY Zenon DEF BoardInv
<1>2. JumpInv'
  BY Zenon DEF JumpInv, Matches
<1>3. LegacyInv' /\ EntersVerified' /\ RefusedOnlyByFault'
  BY Zenon DEF LegacyInv, EntersVerified, RefusedOnlyByFault
<1> QED
  BY <1>1, <1>2, <1>3, Zenon

\* Nothing is built, packaged or programmed at the start.
LEMMA InitInv == Init => IInv
<1> SUFFICES ASSUME Init
             PROVE  IInv
  BY Zenon
<1>1. LayoutInv /\ HostInv
  BY DEF Init, LayoutInv, HostInv
<1>2. BoardInv
  BY Zenon DEF Init, BoardInv, Off
<1>3. JumpInv /\ LegacyInv /\ EntersVerified /\ RefusedOnlyByFault
  BY Zenon DEF Init, JumpInv, LegacyInv, EntersVerified, RefusedOnlyByFault, Off
<1> QED
  BY <1>1, <1>2, <1>3, Zenon DEF IInv

\* load_layout keeps a layout only when every check of it passed.
LEMMA LoadStep ==
  ASSUME IInv, NEW config \in Configs, NEW profile, load_layout(config, profile)
  PROVE  IInv'
<1>1. ~Built /\ layout.status = "none"
  BY Zenon DEF load_layout, Built
<1>2. LayoutInv'
  <2>1. CASE load_layout_ok(config, profile)
    <3>1. layout' = [status |-> "accepted", profile |-> profile, config |-> config[profile]]
      BY <2>1 DEF load_layout
    <3>2. layout'.status = "accepted" /\ layout'.profile = profile /\ layout'.config = config[profile]
      BY <3>1, Zenon
    <3> QED
      BY <2>1, <3>1, <3>2, Zenon DEF LayoutInv
  <2>2. CASE ~load_layout_ok(config, profile)
    BY <2>2, Zenon DEF load_layout, LayoutInv
  <2> QED
    BY <2>1, <2>2, Zenon
<1>3. HostInv'
  BY <1>1, HostSame, Zenon DEF IInv, load_layout
<1>4. BoardInv' /\ JumpInv' /\ LegacyInv' /\ EntersVerified' /\ RefusedOnlyByFault'
  BY <1>1, BoardSame, Zenon DEF IInv, load_layout
<1> QED
  BY <1>2, <1>3, <1>4, Zenon DEF IInv

\* EmitLayout: an accepted layout of the repository has slots that fit.
LEMMA EmitStep ==
  ASSUME IInv, EmitLayout
  PROVE  IInv'
<1>1. ~Built /\ layout.status = "accepted" /\ layout.profile = "stm32f429_1m"
      /\ layout.config = RepositoryConfig["stm32f429_1m"]
  BY Zenon DEF EmitLayout, Built
<1>2. PICK config \in Configs : load_layout_ok(config, layout.profile) /\ layout.config = config[layout.profile]
  BY <1>1 DEF IInv, LayoutInv
<1>3. "stm32f429_1m" \in DOMAIN config
  BY <1>1, <1>2, Zenon DEF load_layout_ok, select_profile_ok
<1>4. HasNumbers(config["stm32f429_1m"])
  BY <1>3, InputsAssumption, Zenon
<1>5. SlotsFit
  BY <1>1, <1>2, <1>4, LayoutFits, Zenon
<1>6. LayoutInv'
  BY <1>5, Zenon DEF EmitLayout, LayoutInv, SlotsFit
<1>7. HostInv'
  BY <1>1, HostSame, Zenon DEF IInv, EmitLayout
<1>8. BoardInv' /\ JumpInv' /\ LegacyInv' /\ EntersVerified' /\ RefusedOnlyByFault'
  BY <1>1, BoardSame, Zenon DEF IInv, EmitLayout
<1> QED
  BY <1>6, <1>7, <1>8, Zenon DEF IInv

\* The steps of the host leave the layout and the board alone.
LEMMA HostLeaves ==
  ASSUME IInv, UNCHANGED <<layout, board>>, HostInv'
  PROVE  IInv'
<1>1. LayoutInv' /\ (Built => Built')
  BY Zenon DEF IInv, LayoutInv, SlotsFit, Built
<1>2. BoardInv' /\ JumpInv' /\ LegacyInv' /\ EntersVerified' /\ RefusedOnlyByFault'
  BY <1>1, BoardSame DEF IInv
<1> QED
  BY <1>1, <1>2 DEF IInv

\* The steps of the board leave the layout, the host and the package alone.
LEMMA BoardLeaves ==
  ASSUME IInv, UNCHANGED <<layout, host, disk, received>>
  PROVE  LayoutInv' /\ HostInv' /\ Built' = Built
<1>1. LayoutInv' /\ Built' = Built
  BY Zenon DEF IInv, LayoutInv, SlotsFit, Built
<1> QED
  BY <1>1, HostSame, Zenon DEF IInv

\* build_update_package makes a package of integers.
LEMMA BuiltIsPackage ==
  ASSUME SlotsFit, NEW a \in Applications, NEW i \in {0, 1}, NEW version \in Versions
  PROVE  IsPackage(build_update_package(a.app, a.size, Slots[i], version, DeviceKey))
<1> DEFINE m == build_manifest(a.app, a.size, Slots[i], version)
           p == build_update_package(a.app, a.size, Slots[i], version, DeviceKey)
<1>1. {a.size, a.app.msp, a.app.reset} \subseteq Int /\ version \in Int /\ Slots[i].payload_base \in Int
  BY InputsAssumption DEF SlotsFit
<1>2. m.vector_address = Slots[i].payload_base /\ m.image_size = a.size /\ m.image_version = version
  BY Zenon DEF build_manifest
<1>3. p = [m |-> m, sig |-> crypto_sign(DeviceKey, m), pad |-> TRUE, pay |-> a.app, length |-> a.size]
  BY DEF build_update_package
<1> HIDE DEF m, p
<1>4. p.m = m /\ p.pay = a.app /\ p.length = a.size
      /\ p = [m |-> p.m, sig |-> p.sig, pad |-> p.pad, pay |-> p.pay, length |-> p.length]
  BY <1>3, Zenon
<1>5. IsPackage(p)
  BY <1>1, <1>2, <1>4, Zenon DEF IsPackage
<1> QED
  BY <1>5, Zenon DEF p

\* run_build: what is handed to write_output_atomically has been verified.
LEMMA BuildStep ==
  ASSUME IInv, NEW a \in Applications, NEW i \in {0, 1}, NEW version \in Versions, run_build(a, i, version)
  PROVE  IInv'
<1> DEFINE p == build_update_package(a.app, a.size, Slots[i], version, DeviceKey)
<1>1. /\ Built /\ Built' /\ verify_package_bytes(p, DeviceKey, i)
      /\ host' = [at |-> "create", slot |-> i, package |-> p]
      /\ UNCHANGED <<layout, disk, received, board>>
  BY DEF run_build, AtHost, Built
<1>2. IsPackage(p)
  BY <1>1, BuiltFits, BuiltIsPackage, Zenon DEF IInv
<1> HIDE DEF p
<1>3. host'.at = "create" /\ host'.slot = i /\ host'.package = p
  BY <1>1, Zenon
<1>4. Verified(host.package, host.slot)'
  BY <1>1, <1>2, <1>3, Zenon DEF Verified
<1>5. disk'.file = NoPackage \/ Verified(disk.file, disk.slot)'
  BY <1>1, Zenon DEF IInv, HostInv, Verified
<1>6. disk' = [file |-> disk'.file, slot |-> disk'.slot, temp |-> disk'.temp]
      /\ (received' = NoPackage \/ (Built' /\ IsPackage(received')))
  BY <1>1, Zenon DEF IInv, HostInv
<1>7. HostInv'
  BY <1>1, <1>3, <1>4, <1>5, <1>6, Zenon DEF HostInv
<1> QED
  BY <1>1, <1>7, HostLeaves, Zenon

\* What the host's invariant says while write_output_atomically runs.
LEMMA Writing ==
  ASSUME IInv, host.at \in {"create", "written", "synced"}
  PROVE  /\ host = [at |-> host.at, slot |-> host.slot, package |-> host.package]
         /\ Verified(host.package, host.slot) /\ Built
         /\ host.at = "synced" => disk.temp = host.package
  BY DEF IInv, HostInv, Idle, Verified

\* write_output_atomically: only a complete temporary file takes the place of
\* the output; a failure or a crash leaves the output as it was.
LEMMA WriteStep ==
  ASSUME IInv, WriteTemp \/ SyncTemp \/ ReplaceOutput \/ WriteFails \/ HostCrash
  PROVE  IInv'
<1>1. UNCHANGED <<layout, received, board>> /\ Built' = Built
  BY Zenon DEF WriteTemp, SyncTemp, ReplaceOutput, WriteFails, HostCrash, Built
<1>2. /\ disk = [file |-> disk.file, slot |-> disk.slot, temp |-> disk.temp]
      /\ disk.file = NoPackage \/ Verified(disk.file, disk.slot)
      /\ received' = NoPackage \/ (Built' /\ IsPackage(received'))
  BY <1>1 DEF IInv, HostInv
<1>3. ASSUME NEW q, NEW i
      PROVE  Verified(q, i) <=> (Built' /\ i \in {0, 1} /\ IsPackage(q) /\ verify_package_bytes(q, DeviceKey, i))
  BY <1>1, Zenon DEF Verified
<1>4. ASSUME disk'.file = disk.file, disk'.slot = disk.slot
      PROVE  disk'.file = NoPackage \/ Verified(disk.file, disk.slot)'
  BY <1>2, <1>3, <1>4 DEF Verified
<1>5. CASE WriteTemp
  <2> DEFINE t == [host.package EXCEPT !.length = 0]
  <2>1. host.at = "create" /\ disk' = [disk EXCEPT !.temp = t] /\ host' = [host EXCEPT !.at = "written"]
    BY <1>5, Zenon DEF WriteTemp
  <2> HIDE DEF t
  <2>2. /\ host' = [at |-> "written", slot |-> host.slot, package |-> host.package]
        /\ Verified(host.package, host.slot)
    BY <2>1, Writing
  <2>3. disk' = [file |-> disk.file, slot |-> disk.slot, temp |-> t]
    BY <2>1, <1>2
  <2>4. HostInv'
    <3>1. disk'.file = disk.file /\ disk'.slot = disk.slot
          /\ disk' = [file |-> disk'.file, slot |-> disk'.slot, temp |-> disk'.temp]
      BY <2>3, Zenon
    <3>2. host' = [at |-> host'.at, slot |-> host'.slot, package |-> host'.package] /\ host'.at = "written"
          /\ Verified(host.package, host.slot)'
      BY <2>2, <1>3, Zenon DEF Verified
    <3> QED
      BY <3>1, <3>2, <1>2, <1>4, Zenon DEF HostInv
  <2> QED
    BY <2>4, <1>1, HostLeaves, Zenon
<1>6. CASE SyncTemp
  <2>1. host.at = "written" /\ disk' = [disk EXCEPT !.temp = host.package] /\ host' = [host EXCEPT !.at = "synced"]
    BY <1>6, Zenon DEF SyncTemp
  <2>2. /\ host' = [at |-> "synced", slot |-> host.slot, package |-> host.package]
        /\ Verified(host.package, host.slot)
    BY <2>1, Writing, Zenon
  <2>3. disk' = [file |-> disk.file, slot |-> disk.slot, temp |-> host.package]
    BY <2>1, <1>2, Zenon
  <2>4. HostInv'
    <3>1. disk'.file = disk.file /\ disk'.slot = disk.slot /\ disk'.temp = host.package
          /\ disk' = [file |-> disk'.file, slot |-> disk'.slot, temp |-> disk'.temp]
      BY <2>3, Zenon
    <3>2. host' = [at |-> host'.at, slot |-> host'.slot, package |-> host'.package] /\ host'.at = "synced"
          /\ Verified(host.package, host.slot)' /\ host'.package = host.package
      BY <2>2, <1>3 DEF Verified
    <3> QED
      BY <3>1, <3>2, <1>2, <1>4, Zenon DEF HostInv
  <2> QED
    BY <2>4, <1>1, HostLeaves
<1>7. CASE ReplaceOutput
  <2>1. host.at = "synced" /\ disk' = [file |-> disk.temp, slot |-> host.slot, temp |-> NoPackage] /\ host' = Idle
    BY <1>7, Zenon DEF ReplaceOutput
  <2>2. disk.temp = host.package /\ Verified(host.package, host.slot)
    BY <2>1, Writing, Zenon
  <2>3. disk'.file = host.package /\ disk'.slot = host.slot
        /\ disk' = [file |-> disk'.file, slot |-> disk'.slot, temp |-> disk'.temp]
    BY <2>1, <2>2, Zenon
  <2>4. HostInv'
    BY <2>1, <2>2, <2>3, <1>2, <1>3, Zenon DEF HostInv, Verified
  <2> QED
    BY <2>4, <1>1, HostLeaves
<1>8. CASE WriteFails
  <2>1. disk' = [disk EXCEPT !.temp = NoPackage] /\ host' = Idle
    BY <1>8, Zenon DEF WriteFails
  <2>2. disk'.file = disk.file /\ disk'.slot = disk.slot
        /\ disk' = [file |-> disk'.file, slot |-> disk'.slot, temp |-> disk'.temp]
    BY <2>1, <1>2
  <2>3. HostInv'
    BY <2>1, <2>2, <1>2, <1>4, Zenon DEF HostInv
  <2> QED
    BY <2>3, <1>1, HostLeaves
<1>9. CASE HostCrash
  <2>1. disk' = disk /\ host' = Idle
    BY <1>9, Zenon DEF HostCrash
  <2>2. HostInv'
    BY <2>1, <1>2, <1>4, Zenon DEF HostInv
  <2> QED
    BY <2>2, <1>1, HostLeaves, Zenon
<1> QED
  BY <1>5, <1>6, <1>7, <1>8, <1>9, Zenon

\* A package reaches the board's user: the output, or one from elsewhere.
LEMMA HandOverStep ==
  ASSUME IInv, Deliver \/ (\E p \in Others : Receive(p))
  PROVE  IInv'
<1>1. UNCHANGED <<layout, host, disk, board>> /\ Built /\ Built' /\ host = Idle
  BY Zenon DEF Deliver, Receive, AtHost, Built
<1>2. IsPackage(received')
  <2>1. CASE Deliver
    BY <2>1 DEF Deliver, IInv, HostInv, Verified
  <2>2. CASE \E p \in Others : Receive(p)
    BY <2>2, InputsAssumption, Zenon DEF Receive
  <2> QED
    BY <2>1, <2>2, Zenon
<1>3. /\ disk' = [file |-> disk'.file, slot |-> disk'.slot, temp |-> disk'.temp]
      /\ disk'.file = NoPackage \/ Verified(disk.file, disk.slot)'
  BY <1>1, Zenon DEF IInv, HostInv, Verified
<1>4. HostInv'
  BY <1>1, <1>2, <1>3 DEF HostInv
<1> QED
  BY <1>1, <1>4, HostLeaves, Zenon

\* A package programmed into a slot, beside an older image.
LEMMA ProgramStep ==
  ASSUME IInv, NEW i \in {0, 1}, NEW simulated, NEW version, Program(i, simulated, version)
  PROVE  IInv'
<1> DEFINE f == [j \in {0, 1} |-> IF j = i THEN received ELSE Resident[j]]
<1>1. LayoutInv' /\ HostInv' /\ Built' = Built
  BY BoardLeaves DEF Program
<1>2. Built /\ IsPackage(received)
  BY DEF Program, IInv, HostInv
<1>3. f = [j \in {0, 1} |-> f[j]] /\ Stored(f[i])
  BY <1>2, Zenon DEF Stored, IsPackage
<1>4. board' = [Off EXCEPT !.at = "reset", !.slot = i, !.flash = f]
  BY DEF Program
<1> HIDE DEF f
<1>5. board' = [loader |-> "exp045", at |-> "reset", slot |-> i, flash |-> f, ctx |-> NoContext,
                verified |-> NoContext, entered |-> NoContext, faults |-> 0]
  BY <1>4, Zenon DEF Off
<1>6. BoardInv'
  BY <1>1, <1>2, <1>3, <1>5, Zenon DEF BoardInv, Stored
<1>7. JumpInv' /\ LegacyInv' /\ EntersVerified' /\ RefusedOnlyByFault'
  BY <1>5, Zenon DEF JumpInv, LegacyInv, EntersVerified, RefusedOnlyByFault
<1> QED
  BY <1>1, <1>6, <1>7 DEF IInv

\* An image programmed beside an earlier loader.
LEMMA ProgramLegacyStep ==
  ASSUME IInv, NEW loader \in Legacy, NEW p, ProgramLegacy(loader, p)
  PROVE  IInv'
<1> DEFINE f == [j \in {0} |-> p]
<1>1. LayoutInv' /\ HostInv' /\ Built' = Built
  BY BoardLeaves DEF ProgramLegacy
<1>2. Built /\ board' = [Off EXCEPT !.loader = loader, !.at = "reset", !.flash = f]
  BY DEF ProgramLegacy, AtHost
<1> HIDE DEF f
<1>3. board' = [loader |-> loader, at |-> "reset", slot |-> 0, flash |-> f, ctx |-> NoContext,
                verified |-> NoContext, entered |-> NoContext, faults |-> 0]
  BY <1>2, Zenon DEF Off
<1>4. loader # "exp045"
  BY DEF Legacy
<1>5. BoardInv'
  <2>1. /\ board'.loader = loader /\ board'.at = "reset" /\ board'.slot = 0 /\ board'.faults = 0
        /\ board' = [loader |-> board'.loader, at |-> board'.at, slot |-> board'.slot, flash |-> board'.flash,
                     ctx |-> board'.ctx, verified |-> board'.verified, entered |-> board'.entered,
                     faults |-> board'.faults]
    BY <1>3, Zenon
  <2> QED
    BY <1>1, <1>2, <1>4, <2>1 DEF BoardInv
<1>6. JumpInv' /\ LegacyInv' /\ EntersVerified' /\ RefusedOnlyByFault'
  BY <1>3, <1>4, Zenon DEF JumpInv, LegacyInv, EntersVerified, RefusedOnlyByFault
<1> QED
  BY <1>1, <1>5, <1>6 DEF IInv

\* A step of the board that leaves the loader, the slot and the flash alone.
LEMMA BoardMoves ==
  ASSUME BoardInv, Built' = Built, board.at # "off",
         NEW at \in {"reset", "jump", "app", "halted", "recovery"}, NEW c, NEW v, NEW e, NEW n \in Nat,
         board' = [loader |-> board.loader, at |-> at, slot |-> board.slot, flash |-> board.flash,
                   ctx |-> c, verified |-> v, entered |-> e, faults |-> n]
  PROVE  /\ BoardInv'
         /\ board'.loader = board.loader /\ board'.at = at /\ board'.slot = board.slot
         /\ board'.flash = board.flash /\ board'.ctx = c /\ board'.verified = v
         /\ board'.entered = e /\ board'.faults = n
<1>1. /\ board'.loader = board.loader /\ board'.at = at /\ board'.slot = board.slot
      /\ board'.flash = board.flash /\ board'.ctx = c /\ board'.verified = v
      /\ board'.entered = e /\ board'.faults = n
      /\ board' = [loader |-> board'.loader, at |-> board'.at, slot |-> board'.slot, flash |-> board'.flash,
                   ctx |-> board'.ctx, verified |-> board'.verified, entered |-> board'.entered,
                   faults |-> board'.faults]
  BY Zenon
<1>2. /\ board.loader \in Legacy \cup {"exp045"} /\ board.slot \in {0, 1} /\ Built
      /\ board.loader = "exp045" =>
           board.flash = [j \in {0, 1} |-> board.flash[j]] /\ Stored(board.flash[board.slot])
  BY DEF BoardInv
<1>3. Stored(board.flash[board.slot])' <=> Stored(board.flash[board.slot])
  BY <1>1, Zenon DEF Stored
<1>4. BoardInv'
  BY <1>1, <1>2, <1>3, Zenon DEF BoardInv
<1> QED
  BY <1>1, <1>4, Zenon

\* A slot that boots has the vector address of its slot and a valid context.
LEMMA TargetVerified ==
  ASSUME NEW p, NEW s, verify_target_slot(p, s)
  PROVE  p.m.vector_address = s.payload_base /\ validate_jump_context(jump_context(p.m, p.pay))
<1>1. validate_manifest(p.m, slot_policy(s), p.pay, s.payload_max_size)
      /\ validate_jump_context(jump_context(p.m, p.pay))
  BY Zenon DEF verify_target_slot, signed_image_prepare_update_slot_buffer
<1>2. validate_payload_range(p.m, slot_policy(s))
  BY <1>1, Zenon DEF validate_manifest
<1>3. slot_policy(s).vector_address = s.payload_base
  BY DEF slot_policy
<1> QED
  BY <1>1, <1>2, <1>3, Zenon DEF validate_payload_range

\* boot_sequence_run: the context is filled in from a slot that has just been
\* verified.
LEMMA SelectStep ==
  ASSUME IInv, boot_policy_select
  PROVE  IInv'
<1> DEFINE p == board.flash[board.slot]
           c == jump_context(p.m, p.pay)
<1>1. LayoutInv' /\ HostInv' /\ Built' = Built
  BY BoardLeaves, Zenon DEF boot_policy_select
<1>2. BoardInv /\ board.loader = "exp045" /\ board.at = "reset" /\ board.slot \in {0, 1} /\ board.faults \in Nat
  BY Zenon DEF boot_policy_select, IInv, BoardInv
<1>3. Stored(p) /\ board.flash = [j \in {0, 1} |-> board.flash[j]] /\ Built
  BY <1>2 DEF BoardInv
<1>4. CASE verify_target_slot(p, Slots[board.slot])
  <2>1. p.m.vector_address = Slots[board.slot].payload_base /\ validate_jump_context(c)
    BY <1>4, TargetVerified, Zenon
  <2>2. /\ c = [vector_address |-> c.vector_address, image_size |-> c.image_size,
                payload_end |-> c.payload_end, initial_msp |-> c.initial_msp,
                reset_vector |-> c.reset_vector, reset_address |-> c.reset_address]
        /\ c.vector_address = p.m.vector_address /\ c.image_size = p.m.image_size
        /\ c.initial_msp = p.pay.msp /\ c.reset_vector = p.pay.reset
        /\ c.reset_address = reset_address(c.reset_vector)
    BY Zenon DEF jump_context
  <2>3. board' = [board EXCEPT !.at = "jump", !.ctx = c, !.verified = Vector(c)]
    BY <1>4 DEF boot_policy_select
  <2>4. c.image_size \in Int
    BY <1>3, <2>2, Zenon DEF Stored
  <2> HIDE DEF c, p
  <2> DEFINE v == Vector(c)
  <2>5. /\ v = [vector_address |-> v.vector_address, initial_msp |-> v.initial_msp,
                reset_vector |-> v.reset_vector]
        /\ v.vector_address = c.vector_address /\ v.initial_msp = c.initial_msp
        /\ v.reset_vector = c.reset_vector
    BY DEF Vector
  <2>6. v = Vector(c)
    BY Zenon
  <2> HIDE DEF v
  <2>7. board' = [loader |-> board.loader, at |-> "jump", slot |-> board.slot, flash |-> board.flash,
                  ctx |-> c, verified |-> v, entered |-> board.entered, faults |-> board.faults]
    BY <1>2, <2>3, <2>6, Zenon DEF BoardInv
  <2>8. /\ board'.loader = "exp045" /\ board'.at = "jump" /\ board'.slot = board.slot
        /\ board'.flash = board.flash /\ board'.ctx = c /\ board'.verified = v
        /\ board'.faults = board.faults /\ BoardInv'
    BY <2>7, <1>1, <1>2, BoardMoves
  <2>10. Matches'
    <3> DEFINE w == board.flash[board.slot].pay
    <3>1. v.initial_msp = w.msp /\ v.reset_vector = w.reset
      BY <2>2, <2>5, Zenon DEF p
    <3> HIDE DEF w
    <3>2. board'.flash[board'.slot].pay = w
      BY <2>8, Zenon DEF w
    <3> QED
      BY <2>8, <3>1, <3>2, Zenon DEF Matches
  <2>11. JumpInv'
    BY <2>10, <2>8, <2>6, <2>5, <2>4, <2>2, <2>1, Zenon DEF JumpInv
  <2>12. LegacyInv' /\ EntersVerified' /\ RefusedOnlyByFault'
    BY <2>8, Zenon DEF LegacyInv, EntersVerified, RefusedOnlyByFault, Legacy
  <2> QED
    BY <1>1, <2>8, <2>11, <2>12, Zenon DEF IInv
<1>5. CASE ~verify_target_slot(p, Slots[board.slot])
  <2>1. board' = [board EXCEPT !.at = "recovery"]
    BY <1>5, Zenon DEF boot_policy_select
  <2>2. board' = [loader |-> board.loader, at |-> "recovery", slot |-> board.slot, flash |-> board.flash,
                  ctx |-> board.ctx, verified |-> board.verified, entered |-> board.entered,
                  faults |-> board.faults]
    BY <1>2, <2>1, Zenon DEF BoardInv
  <2>3. BoardInv' /\ board'.at = "recovery"
    BY <1>1, <1>2, <2>2, BoardMoves, SMTT(30)
  <2>4. JumpInv' /\ LegacyInv' /\ EntersVerified' /\ RefusedOnlyByFault'
    BY <2>3, Zenon DEF JumpInv, LegacyInv, EntersVerified, RefusedOnlyByFault
  <2> QED
    BY <1>1, <2>3, <2>4 DEF IInv
<1> QED
  BY <1>4, <1>5, Zenon

\* A reset loses the RAM and keeps the flash.
LEMMA PowerStep ==
  ASSUME IInv, PowerCycle
  PROVE  IInv'
<1>1. LayoutInv' /\ HostInv' /\ Built' = Built
  BY BoardLeaves DEF PowerCycle
<1>2. BoardInv /\ board.at # "off" /\ Built
  BY Zenon DEF PowerCycle, IInv, BoardInv
<1>3. board' = [board EXCEPT !.at = "reset", !.ctx = NoContext, !.verified = NoContext, !.entered = NoContext]
  BY DEF PowerCycle
<1>4. board' = [loader |-> board.loader, at |-> "reset", slot |-> board.slot, flash |-> board.flash,
                ctx |-> NoContext, verified |-> NoContext, entered |-> NoContext, faults |-> board.faults]
  BY <1>2, <1>3, Zenon DEF BoardInv
<1>5. BoardInv' /\ board'.at = "reset"
  BY <1>1, <1>2, <1>4, BoardMoves, Zenon DEF BoardInv
<1>6. JumpInv' /\ LegacyInv' /\ EntersVerified' /\ RefusedOnlyByFault'
  BY <1>5, Zenon DEF JumpInv, LegacyInv, EntersVerified, RefusedOnlyByFault
<1> QED
  BY <1>1, <1>5, <1>6 DEF IInv

\* A word of the flash changes: the context is the one that was verified.
LEMMA FlashFaultStep ==
  ASSUME IInv, NEW word, NEW value, FlashFault(word, value)
  PROVE  IInv'
<1>1. LayoutInv' /\ HostInv' /\ Built' = Built
  BY BoardLeaves DEF FlashFault
<1>2. BoardInv /\ JumpInv /\ board.at = "jump" /\ board.faults \in Nat /\ Built
  BY DEF FlashFault, IInv, BoardInv
<1> DEFINE w == board.flash[board.slot]
           y == [w.pay EXCEPT ![word] = value]
           q == [w EXCEPT !.pay = y]
           f == [board.flash EXCEPT ![board.slot] = q]
<1>3. board' = [board EXCEPT !.flash = f, !.faults = board.faults + 1]
  BY DEF FlashFault
<1>4. board.loader = "exp045" => f = [j \in {0, 1} |-> f[j]] /\ Stored(f[board.slot])
  <2> SUFFICES ASSUME board.loader = "exp045"
               PROVE  f = [j \in {0, 1} |-> f[j]] /\ Stored(f[board.slot])
    BY Zenon
  <2>1. board.flash = [j \in {0, 1} |-> board.flash[j]] /\ Stored(board.flash[board.slot]) /\ board.slot \in {0, 1}
    BY <1>2, Zenon DEF BoardInv
  <2> HIDE DEF y
  <2>2. q = [m |-> w.m, sig |-> w.sig, pad |-> w.pad, pay |-> y, length |-> w.length]
    BY <2>1 DEF Stored
  <2>3. Stored(q)
    BY <2>1, <2>2, Zenon DEF Stored
  <2> HIDE DEF q
  <2>4. f = [j \in {0, 1} |-> f[j]] /\ f[board.slot] = q
    BY <2>1, Zenon
  <2> QED
    BY <2>3, <2>4, Zenon
<1> HIDE DEF f
<1>5. board' = [loader |-> board.loader, at |-> "jump", slot |-> board.slot, flash |-> f,
                ctx |-> board.ctx, verified |-> board.verified, entered |-> board.entered,
                faults |-> board.faults + 1]
  BY <1>2, <1>3, Zenon DEF BoardInv
<1>6. /\ board'.loader = board.loader /\ board'.at = "jump" /\ board'.slot = board.slot /\ board'.flash = f
      /\ board'.ctx = board.ctx /\ board'.verified = board.verified /\ board'.entered = board.entered
  BY <1>5, Zenon
<1>7. /\ board'.faults = board.faults + 1
      /\ board' = [loader |-> board'.loader, at |-> board'.at, slot |-> board'.slot, flash |-> board'.flash,
                   ctx |-> board'.ctx, verified |-> board'.verified, entered |-> board'.entered,
                   faults |-> board'.faults]
  BY <1>5, <1>6, Zenon
<1>8. board'.faults \in Nat \ {0} /\ (board'.faults = 1 => board.faults = 0)
  BY <1>2, <1>7
<1>9. BoardInv'
  <2>1. board.loader \in Legacy \cup {"exp045"} /\ board.slot \in {0, 1}
    BY <1>2 DEF BoardInv
  <2> QED
    BY <1>1, <1>2, <1>4, <1>6, <1>7, <1>8, <2>1, Zenon DEF BoardInv, Stored
<1>10. JumpInv'
  BY <1>2, <1>6, <1>8, Zenon DEF JumpInv
<1>11. LegacyInv' /\ EntersVerified' /\ RefusedOnlyByFault'
  BY <1>6, <1>8, Zenon DEF LegacyInv, EntersVerified, RefusedOnlyByFault
<1> QED
  BY <1>1, <1>9, <1>10, <1>11, Zenon DEF IInv

\* The fields of the jump context.
ContextFields == {"vector_address", "image_size", "payload_end", "initial_msp", "reset_vector", "reset_address"}

\* A word of the context changes: what is entered no longer matches the words
\* in flash, or its address no longer matches the end of the payload.
LEMMA ContextFaultStep ==
  ASSUME IInv, NEW field \in ContextFields, NEW value, ContextFault(field, value)
  PROVE  IInv'
<1>1. LayoutInv' /\ HostInv' /\ Built' = Built
  BY BoardLeaves DEF ContextFault
<1>2. /\ BoardInv /\ JumpInv /\ board.loader = "exp045" /\ board.at = "jump" /\ board.faults \in Nat
      /\ board.slot \in {0, 1} /\ Built
  BY DEF ContextFault, IInv, BoardInv
<1> DEFINE c == board.ctx
           v == board.verified
           d == [c EXCEPT ![field] = value]
<1>3. board' = [board EXCEPT !.ctx = d, !.faults = board.faults + 1]
  BY Zenon DEF ContextFault
<1>4. c = [vector_address |-> c.vector_address, image_size |-> c.image_size,
           payload_end |-> c.payload_end, initial_msp |-> c.initial_msp,
           reset_vector |-> c.reset_vector, reset_address |-> c.reset_address]
  BY <1>2, Zenon DEF JumpInv
<1>5. /\ d = [vector_address |-> d.vector_address, image_size |-> d.image_size,
              payload_end |-> d.payload_end, initial_msp |-> d.initial_msp,
              reset_vector |-> d.reset_vector, reset_address |-> d.reset_address]
      /\ \A g \in ContextFields \ {field} : d[g] = c[g]
  BY <1>4 DEF ContextFields
<1>6. /\ field # "vector_address" => d.vector_address = c.vector_address
      /\ field # "image_size" => d.image_size = c.image_size
      /\ field # "payload_end" => d.payload_end = c.payload_end
      /\ field # "initial_msp" => d.initial_msp = c.initial_msp
      /\ field # "reset_vector" => d.reset_vector = c.reset_vector
  BY <1>5, Zenon DEF ContextFields
<1>7. board.faults = 0 =>
        \/ v = Vector(d)
        \/ Matches /\ d.vector_address = v.vector_address
        \/ /\ d.initial_msp = v.initial_msp /\ d.reset_vector = v.reset_vector
           /\ d.payload_end = v.vector_address + d.image_size /\ d.image_size \in Int
  <2> SUFFICES ASSUME board.faults = 0
               PROVE  \/ v = Vector(d)
                      \/ Matches /\ d.vector_address = v.vector_address
                      \/ /\ d.initial_msp = v.initial_msp /\ d.reset_vector = v.reset_vector
                         /\ d.payload_end = v.vector_address + d.image_size /\ d.image_size \in Int
    BY Zenon
  <2>1. v = Vector(c) /\ Matches /\ c.image_size \in Int /\ validate_jump_context(c)
    BY <1>2, Zenon DEF JumpInv
  <2>2. c.payload_end = c.vector_address + c.image_size
    BY <2>1, Zenon DEF validate_jump_context
  <2> HIDE DEF d, c, v
  <2>3. v.vector_address = c.vector_address /\ v.initial_msp = c.initial_msp /\ v.reset_vector = c.reset_vector
    BY <2>1, Zenon DEF Vector
  <2>4. CASE field = "vector_address"
    BY <2>1, <2>2, <2>3, <2>4, <1>6, Zenon
  <2>5. CASE field \in {"initial_msp", "reset_vector"}
    BY <2>1, <2>3, <2>5, <1>6, Zenon
  <2>6. CASE field \in {"image_size", "payload_end", "reset_address"}
    BY <2>1, <2>6, <1>6, Zenon DEF Vector
  <2> QED
    BY <2>4, <2>5, <2>6, Zenon DEF ContextFields
<1> HIDE DEF d
<1>8. board' = [loader |-> board.loader, at |-> "jump", slot |-> board.slot, flash |-> board.flash,
                ctx |-> d, verified |-> board.verified, entered |-> board.entered,
                faults |-> board.faults + 1]
  BY <1>2, <1>3, Zenon DEF BoardInv
<1>9. /\ board'.loader = "exp045" /\ board'.at = "jump" /\ board'.slot = board.slot
      /\ board'.flash = board.flash /\ board'.ctx = d /\ board'.verified = v
      /\ board'.faults = board.faults + 1 /\ BoardInv'
  BY <1>1, <1>2, <1>8, BoardMoves, SMTT(30)
<1>11. board'.faults # 0 /\ (board'.faults = 1 => board.faults = 0) /\ (Matches => Matches')
  BY <1>2, <1>9 DEF Matches
<1>12. /\ v = [vector_address |-> v.vector_address, initial_msp |-> v.initial_msp,
                reset_vector |-> v.reset_vector]
       /\ v.vector_address = Slots[board.slot].payload_base
  BY <1>2, Zenon DEF JumpInv
<1>13. JumpInv'
  BY <1>5, <1>7, <1>9, <1>11, <1>12, Zenon DEF JumpInv
<1>14. LegacyInv' /\ EntersVerified' /\ RefusedOnlyByFault'
  BY <1>9, Zenon DEF LegacyInv, EntersVerified, RefusedOnlyByFault, Legacy
<1> QED
  BY <1>1, <1>9, <1>13, <1>14, Zenon DEF IInv

\* The vector address of a slot finds the words of that slot.
LEMMA PayloadFound ==
  ASSUME SlotsFit, NEW i \in {0, 1}
  PROVE  /\ slot_for_vector_address(Slots[i].payload_base) = {Slots[i]}
         /\ PayloadAt(Slots[i].payload_base) = board.flash[i].pay
<1>1. DOMAIN Slots = {0, 1} /\ Slots[0].payload_base # Slots[1].payload_base
  BY Zenon DEF SlotsFit
<1>2. slot_for_vector_address(Slots[i].payload_base) = {Slots[i]}
  BY <1>1 DEF slot_for_vector_address
<1>3. (CHOOSE j \in {0, 1} : Slots[j].payload_base = Slots[i].payload_base) = i
  BY <1>1
<1> QED
  BY <1>2, <1>3, Zenon DEF PayloadAt

\* signed_image_jump: with at most one word changed, a context that passes both
\* checks is the verified one; with none changed it passes.
LEMMA JumpStep ==
  ASSUME IInv, signed_image_jump
  PROVE  IInv'
<1> DEFINE c == board.ctx
           v == board.verified
           ok == /\ validate_jump_context(c)
                 /\ confirm_jump_context_matches_flash(c, PayloadAt(c.vector_address))
<1>1. LayoutInv' /\ HostInv' /\ Built' = Built
  BY BoardLeaves, Zenon DEF signed_image_jump
<1>2. /\ BoardInv /\ JumpInv /\ board.loader = "exp045" /\ board.at = "jump" /\ board.faults \in Nat
      /\ board.slot \in {0, 1} /\ Built
  BY DEF signed_image_jump, IInv, BoardInv
<1>3. SlotsFit
  BY <1>2, BuiltFits, Zenon DEF IInv
<1>4. /\ v = [vector_address |-> v.vector_address, initial_msp |-> v.initial_msp,
              reset_vector |-> v.reset_vector]
      /\ v.vector_address = Slots[board.slot].payload_base
  BY <1>2, Zenon DEF JumpInv
<1>5. ok /\ board.faults <= 1 => Vector(c) = v
  <2> SUFFICES ASSUME ok, board.faults <= 1
               PROVE  Vector(c) = v
    OBVIOUS
  <2>1. board.faults = 0 \/ board.faults = 1
    BY <1>2
  <2>2. \/ v = Vector(c)
        \/ Matches /\ c.vector_address = v.vector_address
        \/ /\ c.initial_msp = v.initial_msp /\ c.reset_vector = v.reset_vector
           /\ c.payload_end = v.vector_address + c.image_size /\ c.image_size \in Int
    BY <2>1, <1>2, Zenon DEF JumpInv
  <2>3. CASE Matches /\ c.vector_address = v.vector_address
    <3>1. PayloadAt(c.vector_address) = board.flash[board.slot].pay
      BY <2>3, <1>2, <1>3, <1>4, PayloadFound, Zenon
    <3>2. c.initial_msp = v.initial_msp /\ c.reset_vector = v.reset_vector
      BY <2>3, <3>1, Zenon DEF Matches, confirm_jump_context_matches_flash
    <3> QED
      BY <2>3, <3>2, <1>4, Zenon DEF Vector
  <2>4. CASE /\ c.initial_msp = v.initial_msp /\ c.reset_vector = v.reset_vector
             /\ c.payload_end = v.vector_address + c.image_size /\ c.image_size \in Int
    <3>1. \E s \in slot_for_vector_address(c.vector_address) : c.payload_end = c.vector_address + c.image_size
      BY Zenon DEF validate_jump_context
    <3>2. \E j \in {0, 1} : Slots[j].payload_base = c.vector_address
      BY <3>1, <1>3, Zenon DEF slot_for_vector_address, SlotsFit
    <3>3. c.vector_address \in Nat /\ v.vector_address \in Nat
      BY <3>2, <1>2, <1>3, <1>4, Zenon DEF SlotsFit
    <3>4. c.vector_address = v.vector_address
      BY <2>4, <3>1, <3>3
    <3> QED
      BY <2>4, <3>4, <1>4, Zenon DEF Vector
  <2> QED
    BY <2>2, <2>3, <2>4, Zenon
<1>6. board.faults = 0 => ok
  <2> SUFFICES ASSUME board.faults = 0
               PROVE  ok
    BY Zenon
  <2>1. v = Vector(c) /\ Matches /\ validate_jump_context(c) /\ c.reset_address = reset_address(c.reset_vector)
    BY <1>2, Zenon DEF JumpInv
  <2>2. c.vector_address = v.vector_address /\ c.initial_msp = v.initial_msp /\ c.reset_vector = v.reset_vector
    BY <2>1, SMTT(30) DEF Vector
  <2>3. PayloadAt(c.vector_address) = board.flash[board.slot].pay
    BY <2>2, <1>2, <1>3, <1>4, PayloadFound, Zenon
  <2> DEFINE pay == PayloadAt(c.vector_address)
  <2>4. pay.msp = c.initial_msp /\ pay.reset = c.reset_vector
    BY <2>1, <2>2, <2>3, Zenon DEF Matches
  <2> HIDE DEF pay
  <2>5. confirm_jump_context_matches_flash(c, pay)
    BY <2>1, <2>4, Zenon DEF confirm_jump_context_matches_flash, validate_jump_context
  <2> QED
    BY <2>1, <2>5 DEF pay
<1>7. CASE ok
  <2>1. board' = [board EXCEPT !.at = "app", !.entered = Vector(board.ctx)]
    BY <1>7 DEF signed_image_jump
  <2> DEFINE e == Vector(c)
  <2> HIDE DEF e
  <2>2. board' = [loader |-> board.loader, at |-> "app", slot |-> board.slot, flash |-> board.flash,
                  ctx |-> board.ctx, verified |-> board.verified, entered |-> e, faults |-> board.faults]
    BY <1>2, <2>1, Zenon DEF BoardInv, e
  <2>3. /\ board'.loader = "exp045" /\ board'.at = "app" /\ board'.faults = board.faults
        /\ board'.verified = v /\ board'.entered = e /\ BoardInv'
    BY <1>1, <1>2, <2>2, BoardMoves, SMTT(30)
  <2>5. EntersVerified'
    BY <1>5, <1>7, <2>3, Zenon DEF EntersVerified, Legacy, e
  <2>6. JumpInv' /\ LegacyInv' /\ RefusedOnlyByFault'
    BY <2>3, Zenon DEF JumpInv, LegacyInv, RefusedOnlyByFault
  <2> QED
    BY <1>1, <2>3, <2>5, <2>6, Zenon DEF IInv
<1>8. CASE ~ok
  <2>1. board' = [board EXCEPT !.at = "halted"]
    BY <1>8, Zenon DEF signed_image_jump
  <2>2. board' = [loader |-> board.loader, at |-> "halted", slot |-> board.slot, flash |-> board.flash,
                  ctx |-> board.ctx, verified |-> board.verified, entered |-> board.entered,
                  faults |-> board.faults]
    BY <1>2, <2>1, Zenon DEF BoardInv
  <2>3. board'.loader = "exp045" /\ board'.at = "halted" /\ board'.faults = board.faults /\ BoardInv'
    BY <1>1, <1>2, <2>2, BoardMoves
  <2>5. RefusedOnlyByFault'
    BY <1>2, <1>6, <1>8, <2>3 DEF RefusedOnlyByFault
  <2>6. JumpInv' /\ LegacyInv' /\ EntersVerified'
    BY <2>3, Zenon DEF JumpInv, LegacyInv, EntersVerified
  <2> QED
    BY <1>1, <2>3, <2>5, <2>6 DEF IInv
<1> QED
  BY <1>7, <1>8

\* The earlier loaders verify, and jump with the words they read again.
LEMMA LegacyStep ==
  ASSUME IInv, LegacyBoot \/ LegacyJump
  PROVE  IInv'
<1>1. LayoutInv' /\ HostInv' /\ Built' = Built
  BY BoardLeaves DEF LegacyBoot, LegacyJump
<1>2. /\ BoardInv /\ LegacyInv /\ board.loader \in Legacy /\ board.loader # "exp045" /\ board.faults \in Nat
      /\ board.at # "off" /\ Built
  BY DEF LegacyBoot, LegacyJump, IInv, BoardInv, Legacy
<1> DEFINE g == legacy_jump(board.loader, board.flash[0])
<1>3. ASSUME NEW at \in {"jump", "app", "halted"}, NEW v, NEW e,
             board' = [board EXCEPT !.at = at, !.verified = v, !.entered = e],
             at = "jump" => v = g,
             at = "app" /\ board.faults = 0 => e = v
      PROVE  IInv'
  <2> HIDE DEF g
  <2>1. board' = [loader |-> board.loader, at |-> at, slot |-> board.slot, flash |-> board.flash,
                  ctx |-> board.ctx, verified |-> v, entered |-> e, faults |-> board.faults]
    BY <1>2, <1>3, Zenon DEF BoardInv
  <2>2. /\ board'.loader = board.loader /\ board'.at = at
        /\ board'.flash = board.flash /\ board'.faults = board.faults
        /\ board'.verified = v /\ board'.entered = e /\ BoardInv'
    BY <1>1, <1>2, <2>1, BoardMoves, Zenon
  <2>4. JumpInv' /\ RefusedOnlyByFault'
    BY <1>2, <2>2, Zenon DEF JumpInv, RefusedOnlyByFault
  <2>5. LegacyInv'
    BY <1>3, <2>2, Zenon DEF LegacyInv, g
  <2>6. EntersVerified'
    BY <1>2, <1>3, <2>2 DEF EntersVerified
  <2> QED
    BY <1>1, <2>2, <2>4, <2>5, <2>6, Zenon DEF IInv
<1>4. CASE LegacyBoot
  <2>1. CASE legacy_verify(board.loader, board.flash[0])
    <3> HIDE DEF g
    <3>1. board' = [board EXCEPT !.at = "jump", !.verified = g]
      BY <1>4, <2>1, Zenon DEF LegacyBoot, g
    <3>2. board' = [board EXCEPT !.at = "jump", !.verified = g, !.entered = board.entered]
      BY <1>2, <3>1, Zenon DEF BoardInv
    <3> QED
      BY <1>3, <3>2, Zenon
  <2>2. CASE ~legacy_verify(board.loader, board.flash[0])
    <3>1. board' = [board EXCEPT !.at = "halted"]
      BY <1>4, <2>2 DEF LegacyBoot
    <3>2. board' = [board EXCEPT !.at = "halted", !.verified = board.verified, !.entered = board.entered]
      BY <1>2, <3>1, Zenon DEF BoardInv
    <3> QED
      BY <1>3, <3>2, Zenon
  <2> QED
    BY <2>1, <2>2, Zenon
<1>5. CASE LegacyJump
  <2>1. board.at = "jump" /\ (board.faults = 0 => g = board.verified)
    BY <1>2, <1>5, Zenon DEF LegacyJump, LegacyInv
  <2> HIDE DEF g
  <2>2. board' = [board EXCEPT !.at = "app", !.entered = g]
    BY <1>5 DEF LegacyJump, g
  <2>3. board' = [board EXCEPT !.at = "app", !.verified = board.verified, !.entered = g]
    BY <1>2, <2>2, Zenon DEF BoardInv
  <2> QED
    BY <1>3, <2>1, <2>3, Zenon
<1> QED
  BY <1>4, <1>5, Zenon

-----------------------------------------------------------------------------
(* The theorems.                                                           *)

\* Every step keeps the invariant.
LEMMA StepInv == IInv /\ [Next]_vars => IInv'
<1> SUFFICES ASSUME IInv, [Next]_vars
             PROVE  IInv'
  BY Zenon
<1>1. ASSUME NEW config \in Configs, NEW profile \in DOMAIN config \cup Profiles, load_layout(config, profile)
      PROVE  IInv'
  BY <1>1, LoadStep, Zenon
<1>2. CASE EmitLayout
  BY <1>2, EmitStep, Zenon
<1>3. ASSUME NEW a \in Applications, NEW i \in {0, 1}, NEW version \in Versions, run_build(a, i, version)
      PROVE  IInv'
  BY <1>3, BuildStep
<1>4. CASE WriteTemp \/ SyncTemp \/ ReplaceOutput \/ WriteFails \/ HostCrash
  BY <1>4, WriteStep, Zenon
<1>5. CASE Deliver \/ \E p \in Others : Receive(p)
  BY <1>5, HandOverStep
<1>6. ASSUME NEW i \in {0, 1}, NEW simulated \in BOOLEAN, NEW version \in Versions, Program(i, simulated, version)
      PROVE  IInv'
  BY <1>6, ProgramStep, Zenon
<1>7. CASE boot_policy_select
  BY <1>7, SelectStep
<1>8. CASE signed_image_jump
  BY <1>8, JumpStep
<1>9. ASSUME NEW word \in {"msp", "reset", "body"}, NEW value \in Words, FlashFault(word, value)
      PROVE  IInv'
  BY <1>9, FlashFaultStep
<1>10. ASSUME NEW field \in ContextFields, NEW value \in Words, ContextFault(field, value)
       PROVE  IInv'
  BY <1>10, ContextFaultStep, Zenon
<1>11. ASSUME NEW loader \in Legacy, NEW p \in LegacyImages, ProgramLegacy(loader, p)
       PROVE  IInv'
  BY <1>11, ProgramLegacyStep, Zenon
<1>12. CASE LegacyBoot \/ LegacyJump
  BY <1>12, LegacyStep, Zenon
<1>13. CASE PowerCycle
  BY <1>13, PowerStep
<1>14. CASE UNCHANGED vars
  <2>1. UNCHANGED <<layout, board>> /\ UNCHANGED <<host, disk, received>> /\ Built' = Built
    BY <1>14, Zenon DEF vars, Built
  <2>2. HostInv'
    BY <2>1, HostSame DEF IInv
  <2> QED
    BY <2>1, <2>2, HostLeaves, Zenon
<1> QED
  BY <1>1, <1>2, <1>3, <1>4, <1>5, <1>6, <1>7, <1>8, <1>9, <1>10, <1>11, <1>12, <1>13, <1>14, SMTT(30)
     DEF Next, ContextFields

\* In every state that load_layout, the packaging tools, the boot loader and the
\* faults can reach the invariant holds.
THEOREM ImageInvariant == Spec => []IInv
<1> QED
  BY InitInv, StepInv, PTL DEF Spec

\* validate_layout: an accepted layout is a partition of the sectors, for every
\* configuration.
THEOREM ImageLayoutIsPartition == Spec => []LayoutIsPartition
<1>1. IInv => LayoutIsPartition
  <2> SUFFICES ASSUME IInv, layout.status = "accepted"
               PROVE  LayoutIsPartition
    BY Zenon DEF LayoutIsPartition
  <2>1. PICK config \in Configs : load_layout_ok(config, layout.profile) /\ layout.config = config[layout.profile]
    BY DEF IInv, LayoutInv
  <2>2. layout.profile \in DOMAIN config
    BY <2>1, Zenon DEF load_layout_ok, select_profile_ok
  <2>3. HasNumbers(config[layout.profile])
    BY <2>2, InputsAssumption, Zenon
  <2>4. layout.profile = "stm32f429_1m" => static_asserts(layout.config)
    BY <2>1, AssertsHold, Zenon DEF load_layout_ok
  <2>5. ASSUME NEW s \in layout.config.sectors
        PROVE  \E n \in Ranges :
                 /\ s.id \in Sectors(layout.config.regions[n])
                 /\ s.base >= layout.config.regions[n].base /\ End(s) <= End(layout.config.regions[n])
                 /\ \A m \in Ranges \ {n} : s.id \notin Sectors(layout.config.regions[m])
    <3>1. s \in config[layout.profile].sectors
      BY <2>1, Zenon
    <3>2. LET c == config[layout.profile]
          IN  \E n \in Ranges :
                /\ s.id \in Sectors(c.regions[n])
                /\ s.base >= c.regions[n].base /\ End(s) <= End(c.regions[n])
                /\ \A m \in Ranges \ {n} : s.id \notin Sectors(c.regions[m])
      BY <2>1, <2>3, <3>1, LayoutParts, Zenon
    <3>. QED  BY <2>1, <3>2, Zenon
  <2> QED
    BY <2>4, <2>5, Zenon DEF LayoutIsPartition
<1> QED
  BY <1>1, ImageInvariant, PTL

\* update_package.py and update_package.c, written independently, accept the
\* same packages, and what they accept boots; what the tools report ok of, for
\* whatever command line and working tree, is what the device accepts.
THEOREM ImageHostAgreesWithDevice == Spec => []HostAgreesWithDevice
<1>1. IInv => HostAgreesWithDevice
  <2> SUFFICES ASSUME IInv, received # NoPackage
               PROVE  HostAgreesWithDevice
    BY Zenon DEF HostAgreesWithDevice
  <2>1. SlotsFit /\ IsPackage(received)
    BY BuiltFits, Zenon DEF IInv, HostInv
  <2>2. ASSUME NEW i \in {0, 1}
        PROVE  /\ verify_package_bytes(received, DeviceKey, i)
                    <=> update_package_verify_for_slot(received, DeviceKey, Slots[i])
               /\ update_package_verify_for_slot(received, DeviceKey, Slots[i])
                    => /\ update_package_verify_header_for_slot(received, DeviceKey, Slots[i])
                       /\ verify_target_slot(received, Slots[i])
    BY <2>1, HostAndDevice, AcceptedBoots, Zenon
  <2>3. verify_signed_image(received, DeviceKey, Slots[0], FALSE)
          => signed_image_verify(received) /\ signed_image_prepare_jump(received)
    BY <2>1, SingleBoots, Zenon
  <2>4. ASSUME NEW i \in {0, 1}, NEW args \in VerifyArgs, public_key_from_args(args) = DeviceKey
        PROVE  /\ run_verify(received, i, args).ok
                    => /\ update_package_verify_for_slot(received, DeviceKey, Slots[i])
                       /\ run_verify(received, i, args).context.slot = {i}
               /\ (/\ args.application = NoApplication
                   /\ update_package_verify_for_slot(received, DeviceKey, Slots[i]))
                    => run_verify(received, i, args).ok
    <3>1. /\ run_verify(received, i, args).ok
               = (/\ DeviceKey # Malformed
                  /\ verify_package_bytes(received, DeviceKey, i)
                  /\ application_matches(received, args.application))
          /\ run_verify(received, i, args).context = verify_report_context(received)
      BY <2>4, Zenon DEF run_verify
    <3>2. verify_package_bytes(received, DeviceKey, i) => verify_report_context(received).slot = {i}
      BY Zenon DEF verify_package_bytes, verify_report_context
    <3>3. args.application = NoApplication => application_matches(received, args.application)
      BY Zenon DEF application_matches
    <3> QED
      BY <2>2, <3>1, <3>2, <3>3, KeyAssumption, Zenon
  <2>5. ASSUME NEW args, public_key_from_args(args) = DeviceKey, run_verify_signed(received, args)
        PROVE  signed_image_verify(received) /\ signed_image_prepare_jump(received)
    BY <2>3, <2>5, Zenon DEF run_verify_signed
  <2>6. \A args, tree : run_verify_release(received, args, tree) => run_verify_signed(received, args)
    BY Zenon DEF run_verify_release
  <2> QED
    BY <2>2, <2>3, <2>4, <2>5, <2>6, Zenon DEF HostAgreesWithDevice
<1> QED
  BY <1>1, ImageInvariant, PTL

\* write_output_atomically: the output is a package that the device accepts,
\* wherever the host stops.
THEOREM ImageOutputIsAccepted == Spec => []OutputIsAccepted
<1>1. IInv => OutputIsAccepted
  <2> SUFFICES ASSUME IInv, disk.file # NoPackage
               PROVE  update_package_verify_for_slot(disk.file, DeviceKey, Slots[disk.slot])
    BY Zenon DEF OutputIsAccepted
  <2>1. Verified(disk.file, disk.slot)
    BY Zenon DEF IInv, HostInv
  <2>2. SlotsFit
    BY <2>1, BuiltFits, Zenon DEF IInv, Verified
  <2> QED
    BY <2>1, <2>2, HostAndDevice, Zenon DEF Verified
<1> QED
  BY <1>1, ImageInvariant, PTL

\* signed_image_jump: one changed word of the flash or of the context never
\* sends the processor to a vector table that was not verified.
THEOREM ImageEntersVerified == Spec => []EntersVerified
<1>1. IInv => EntersVerified
  BY DEF IInv
<1> QED
  BY <1>1, ImageInvariant, PTL

\* Without a fault signed_image_jump refuses nothing the selection verified.
THEOREM ImageRefusedOnlyByFault == Spec => []RefusedOnlyByFault
<1>1. IInv => RefusedOnlyByFault
  BY DEF IInv
<1> QED
  BY <1>1, ImageInvariant, PTL

=============================================================================
