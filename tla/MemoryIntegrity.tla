-------------------------- MODULE MemoryIntegrity --------------------------
(***************************************************************************)
(* tools/memory_integrity.py: a reference manifest made from a flash dump, *)
(* later dumps compared with it region by region and block by block, and   *)
(* canary patterns for laboratory regions.  Between two uses of the tool   *)
(* the flash, the option bytes and the tool's own layout may change.       *)
(*                                                                         *)
(* A digest stands for the bytes it is computed from (collisions are left  *)
(* out).  A byte has two bits, so 3 is the erased value.                   *)
(***************************************************************************)
EXTENDS Integers, Sequences, FiniteSets, SequencesExt

CONSTANTS
  Layout,          \* [flash_end, sectors, ranges, slots, header_size], flash_base = 0
  Dumps,           \* flash contents at the start
  OptionNames,     \* option bytes a snapshot may name
  CanarySpecs,     \* regions given on the command line
  BlockSizes,      \* block sizes asked for
  Prng,            \* the pseudo-random pattern
  MaxWrites        \* bound: flash and option changes

VARIABLES
  flash,      \* the device's flash
  options,    \* the option bytes a user reads out
  digest,     \* the layout the tool is built with
  reference,  \* the reference manifest, or none
  baseline,   \* history: flash and option bytes when the reference was made
  report,     \* what the last comparison or validation reported
  canary,     \* the canary image written last, or none
  writes      \* what MaxWrites bounds, so far

integrity_vars == <<flash, options, digest, reference, baseline, report, canary, writes>>

ERASED == 3
Cells == 0..(Layout.flash_end - 1)
none == [kind |-> "none"]
-----------------------------------------------------------------------------
(* Regions *)

Region(name, start, end, pattern) == [name |-> name, start |-> start, end |-> end, pattern |-> pattern]
Within(r) == r.start..(r.end - 1)

fixed(name) == Region(<<name, "range">>, Layout.ranges[name][1], Layout.ranges[name][2], "none")
header(slot) == Region(<<slot, "manifest_signature">>, Layout.slots[slot].base,
                       Layout.slots[slot].base + Layout.header_size, "none")
payload(slot) == Region(<<slot, "payload">>, Layout.slots[slot].payload, Layout.slots[slot].end, "none")

default_regions ==
  <<fixed("stage0"), fixed("metadata_copy_0"), fixed("metadata_copy_1"), fixed("update_metadata"),
    header("slot_a"), payload("slot_a"), header("slot_b"), payload("slot_b"), fixed("recovery")>>

ranges_overlap(left, right) == left.start < right.end /\ right.start < left.end

validate_regions(regions) ==
  /\ \A i \in DOMAIN regions :
       /\ regions[i].start < regions[i].end
       /\ regions[i].start >= 0 /\ regions[i].end <= Layout.flash_end
  /\ \A i, j \in DOMAIN regions : i < j =>
       /\ regions[i].name # regions[j].name
       /\ ~ranges_overlap(regions[i], regions[j])

\* What a region given on the command line must be to be taken at all.
require_pattern(pattern) ==
  pattern \in {"all00", "allff", "aa55", "address", "prng", "walking_one", "walking_zero"}
parse_region_spec_ok(r, pattern_allowed) ==
  /\ r.start >= 0 /\ r.start < r.end
  /\ r.pattern # "none" => pattern_allowed /\ require_pattern(r.pattern)

\* NAME=VALUE arguments: a name given twice fails the command.
parse_snapshot_specs_ok(names) == IsInjective(names)
parse_snapshot_specs(names) == [n \in ToSet(names) |-> options[n]]

region_slice(dump, r) == [i \in 1..(r.end - r.start) |-> dump[r.start + i - 1]]
-----------------------------------------------------------------------------
(* Blocks and sectors *)

require_block_size(size) == \E k \in 0..16 : size = 2^k

\* Drops the bytes after the last whole block.
whole_blocks(data, size) ==
  [k \in 1..(Len(data) \div size) |-> SubSeq(data, (k - 1) * size + 1, k * size)]
block_hashes(data, size) ==
  [k \in 1..((Len(data) + size - 1) \div size) |->
     SubSeq(data, (k - 1) * size + 1, Min({k * size, Len(data)}))]

sectors_for_region(r, dump) ==
  {[id |-> i, sha512 |-> region_slice(dump,
       [start |-> Max({r.start, Layout.sectors[i][1]}), end |-> Min({r.end, Layout.sectors[i][2]})])] :
     i \in {j \in DOMAIN Layout.sectors :
              Max({r.start, Layout.sectors[j][1]}) < Min({r.end, Layout.sectors[j][2]})}}

affected_sectors(r, changed_blocks, size) ==
  {i \in DOMAIN Layout.sectors : \E k \in changed_blocks :
     LET start == r.start + (k - 1) * size
     IN start < Layout.sectors[i][2] /\ Layout.sectors[i][1] < Min({r.end, start + size})}

region_record(r, dump, size) ==
  [region |-> r, sha512 |-> region_slice(dump, r), sectors |-> sectors_for_region(r, dump),
   blocks |-> block_hashes(region_slice(dump, r), size)]
-----------------------------------------------------------------------------
(* Canary patterns *)

pattern_byte(pattern, address, start) ==
  CASE pattern = "all00" -> 0
    [] pattern = "allff" -> ERASED
    [] pattern = "aa55" -> IF (address - start) % 2 = 0 THEN 2 ELSE 1
    [] pattern = "address" -> address % 4
    [] pattern = "walking_one" -> 2^((address - start) % 2)
    [] pattern = "walking_zero" -> ERASED - 2^((address - start) % 2)
    [] OTHER -> Prng[address]

expected_pattern_bytes(r) ==
  [i \in 1..(r.end - r.start) |-> pattern_byte(r.pattern, r.start + i - 1, r.start)]

active(slot) == Region(<<slot, "active">>, Layout.slots[slot].base, Layout.slots[slot].end, "none")
\* The active slot is protected only when the user names it.
protected_regions(active_slot) ==
  {fixed(name) : name \in DOMAIN Layout.ranges} \cup {active(s) : s \in active_slot}

parse_lab_region_ok(r, allowlist, active_slot) ==
  /\ parse_region_spec_ok(r, TRUE) /\ r.end <= Layout.flash_end
  /\ \A allowed \in allowlist : parse_region_spec_ok(allowed, FALSE)
  /\ \E allowed \in allowlist : r.start >= allowed.start /\ r.end <= allowed.end
  /\ \A p \in protected_regions(active_slot) : ~ranges_overlap(r, p)
-----------------------------------------------------------------------------
(* Comparing *)

compare_snapshot_map(expected, observed) ==
  {<<n, "missing_observation">> : n \in DOMAIN expected \ DOMAIN observed}
  \cup {<<n, "modified">> : n \in {m \in DOMAIN expected \cap DOMAIN observed : expected[m] # observed[m]}}
  \cup {<<n, "unexpected_observation">> : n \in DOMAIN observed \ DOMAIN expected}

Bits(byte) == {b \in 0..1 : (byte \div 2^b) % 2 = 1}

diff_metrics(r, expected, observed) ==
  LET differing == {i \in 1..Len(expected) : expected[i] # observed[i]}
      Count(f(_)) == FoldLeft(LAMBDA n, i : n + Cardinality(f(i)), 0, [i \in 1..Len(expected) |-> i])
      address(i) == r.start + i - 1
  IN [byte_difference_count |-> Cardinality(differing),
      bit_difference_count |-> Count(LAMBDA i : (Bits(expected[i]) \ Bits(observed[i]))
                                                \cup (Bits(observed[i]) \ Bits(expected[i]))),
      one_to_zero_count |-> Count(LAMBDA i : Bits(expected[i]) \ Bits(observed[i])),
      zero_to_one_count |-> Count(LAMBDA i : Bits(observed[i]) \ Bits(expected[i])),
      ends |-> IF differing = {} THEN <<>> ELSE <<address(Min(differing)), address(Max(differing))>>]

\* The regions of the manifest, and where a block's content occurs in it.
reference_regions == [i \in DOMAIN reference.records |-> reference.records[i].region]
reference_block_index(sha512) ==
  UNION {{<<other.region.name, j>> : j \in {i \in DOMAIN other.blocks : other.blocks[i] = sha512}} :
           other \in ToSet(reference.records)}

\* Guesses at what happened to a region that changed.
classify_region(record, observed, blocks) ==
  LET erased == {i \in DOMAIN observed : observed[i] = ERASED}
      copied(k) == reference_block_index(blocks[k]) \ {<<record.region.name, k>>} # {}
      shifted(k) == \E j \in {k - 1, k + 1} \cap DOMAIN record.blocks : record.blocks[j] = blocks[k]
      FirstOf(kind, ks) == IF ks = {} THEN {} ELSE {<<kind, Min(ks)>>}
  IN (IF erased = DOMAIN observed THEN {<<"erased", 0>>}
      ELSE IF Cardinality(erased) * 100 >= Len(observed) * 80 THEN {<<"partial_erase_looking", 0>>} ELSE {})
     \cup FirstOf("copied_block", {k \in DOMAIN blocks : copied(k)})
     \cup FirstOf("shifted_block", {k \in DOMAIN blocks : shifted(k)})

\* One region's entry; the pattern of a canary takes the place of the old bytes.
compare_region(record, dump, reference_dump) ==
  LET r == record.region
      observed == region_slice(dump, r)
      blocks == block_hashes(observed, reference.block_size)
      changed_blocks == {k \in DOMAIN blocks : blocks[k] # record.blocks[k]}
      expected == CASE r.pattern # "none" -> <<expected_pattern_bytes(r)>>
                    [] r.pattern = "none" /\ reference_dump # <<>> -> <<region_slice(reference_dump[1], r)>>
                    [] OTHER -> <<>>
  IN [region |-> r, changed |-> observed # record.sha512, changed_blocks |-> changed_blocks,
      affected_sectors |-> affected_sectors(r, changed_blocks, reference.block_size),
      differences |-> IF expected = <<>> THEN <<>> ELSE <<diff_metrics(r, expected[1], observed)>>,
      heuristics |-> classify_region(record, observed, blocks)]
-----------------------------------------------------------------------------
(* Commands.  A failure of any kind is caught, reported, and exits with an   *)
(* error that no other outcome has.                                          *)

Failed(code) == [kind |-> "failed", exit |-> code]

create_reference(canaries, size, names) ==
  LET regions == default_regions \o canaries
      ok == /\ \A i \in DOMAIN canaries : parse_region_spec_ok(canaries[i], TRUE)
            /\ validate_regions(regions)
            /\ parse_snapshot_specs_ok(names) /\ require_block_size(size)
  IN /\ report' = IF ok THEN none ELSE Failed(1)
     /\ reference' = IF ~ok THEN none
          ELSE [kind |-> "reference", digest |-> digest, block_size |-> size,
                options |-> parse_snapshot_specs(names),
                records |-> [i \in DOMAIN regions |-> region_record(regions[i], flash, size)]]
     /\ baseline' = [flash |-> flash, options |-> options, names |-> ToSet(names)]
     /\ UNCHANGED <<flash, options, digest, canary, writes>>

\* validate_reference: a manifest made for another layout is not compared.
validate_reference == reference.digest = digest /\ validate_regions(reference_regions)

compare_reference(with_dump, names) ==
  /\ IF reference.kind # "reference" \/ ~validate_reference \/ ~parse_snapshot_specs_ok(names)
     THEN report' = Failed(2)
     ELSE LET dump == IF with_dump THEN <<baseline.flash>> ELSE <<>>
              entries == {compare_region(record, flash, dump) : record \in ToSet(reference.records)}
              snapshots == compare_snapshot_map(reference.options, parse_snapshot_specs(names))
              changed == {e \in entries : e.changed}
          IN report' = [kind |-> "compare", exit |-> IF changed # {} \/ snapshots # {} THEN 1 ELSE 0,
                        names |-> ToSet(names), changed_regions |-> changed, snapshot_changes |-> snapshots]
  /\ UNCHANGED <<flash, options, digest, reference, baseline, canary, writes>>

canary_provision(r, allowlist, active_slot) ==
  /\ IF r.pattern # "none" /\ parse_lab_region_ok(r, allowlist, active_slot)
       THEN /\ canary' = [kind |-> "canary", region |-> r, data |-> expected_pattern_bytes(r),
                          active |-> active_slot]
            /\ report' = none
       ELSE report' = Failed(1) /\ UNCHANGED canary
  /\ UNCHANGED <<flash, options, digest, reference, baseline, writes>>

canary_validate(r) ==
  /\ report' = IF r.pattern = "none" \/ ~parse_region_spec_ok(r, TRUE) \/ r.end > Layout.flash_end
               THEN Failed(2)
               ELSE LET d == diff_metrics(r, expected_pattern_bytes(r), region_slice(flash, r))
                    IN [kind |-> "validate", region |-> r, differences |-> d,
                        exit |-> IF d.byte_difference_count # 0 THEN 1 ELSE 0]
  /\ UNCHANGED <<flash, options, digest, reference, baseline, canary, writes>>
-----------------------------------------------------------------------------
(* The world between two uses of the tool *)

Change ==
  /\ writes < MaxWrites /\ writes' = writes + 1
  /\ \/ /\ \E a \in Cells, byte \in {0, ERASED} :
             flash[a] # byte /\ flash' = [flash EXCEPT ![a] = byte]
        /\ UNCHANGED <<options, digest, canary>>
     \/ /\ canary.kind = "canary" /\ canary' = none
        /\ flash' = [a \in Cells |-> IF a \in Within(canary.region)
                       THEN canary.data[a - canary.region.start + 1] ELSE flash[a]]
        /\ UNCHANGED <<options, digest>>
     \/ /\ \E n \in OptionNames : options' = [options EXCEPT ![n] = 1 - @]
        /\ UNCHANGED <<flash, digest, canary>>
     \/ digest' = "other" /\ UNCHANGED <<flash, options, canary>>
  /\ report' = none
  /\ UNCHANGED <<reference, baseline>>

IntegrityInit ==
  /\ flash \in Dumps /\ options = [n \in OptionNames |-> 0] /\ digest = "this"
  /\ reference = none /\ report = none /\ canary = none /\ writes = 0
  /\ baseline = [flash |-> flash, options |-> options, names |-> {}]

\* Bounds: two option bytes named in a command; one reference, made when no canary image waits to be written, and
\* canaries before it; no second command on the same state, which none of them
\* changes but for the report.
IntegrityNext ==
  \/ /\ report.kind = "none" /\ reference.kind = "none" /\ canary.kind = "none"
     /\ \E c \in {<<>>} \cup {<<r>> : r \in CanarySpecs}, size \in BlockSizes, names \in BoundedSeq(OptionNames, 2) :
          create_reference(c, size, names)
  \/ /\ report.kind = "none"
     /\ \E with_dump \in BOOLEAN, names \in BoundedSeq(OptionNames, 2) : compare_reference(with_dump, names)
  \/ /\ report.kind = "none" /\ reference.kind = "none" /\ canary.kind = "none"
     /\ \E r, allowed \in CanarySpecs, slot \in {{}} \cup {{s} : s \in DOMAIN Layout.slots} :
          canary_provision(r, {allowed}, slot)
  \/ /\ report.kind = "none" /\ reference.kind = "none"
     /\ \E r \in CanarySpecs : canary_validate(r)
  \/ Change

IntegritySpec == IntegrityInit /\ [][IntegrityNext]_integrity_vars
-----------------------------------------------------------------------------
(* Properties *)

\* compare_reference exits with 0 exactly when every byte of the regions, and every
\* option byte asked for, is what it was when the reference was made; the regions
\* leave out nothing but the padding after a slot's header; the blocks and sectors
\* it names are those that changed, the last, shorter block included; and the
\* counts and addresses are those of the bytes.
VerdictIsDifference ==
  report.kind = "compare" =>
    LET covered == UNION {Within(record.region) : record \in ToSet(reference.records)}
        padding == UNION {(Layout.slots[s].base + Layout.header_size)..(Layout.slots[s].payload - 1) :
                            s \in DOMAIN Layout.slots}
        differ == {a \in covered : flash[a] # baseline.flash[a]}
        Block(e, k) == {a \in Within(e.region) : (a - e.region.start) \div reference.block_size = k - 1}
    IN /\ Cells \ padding \subseteq covered
       /\ report.exit = 0 <=>
            /\ differ = {} /\ report.names = baseline.names
            /\ \A n \in report.names : options[n] = baseline.options[n]
       /\ \A a \in differ : \E e \in report.changed_regions :
            /\ \E k \in e.changed_blocks : a \in Block(e, k)
            /\ \E i \in e.affected_sectors : Layout.sectors[i][1] <= a /\ a < Layout.sectors[i][2]
       /\ \A e \in report.changed_regions :
            /\ \A k \in e.changed_blocks : Block(e, k) \cap differ # {}
            /\ e.region.pattern = "none" /\ e.differences # <<>> =>
                 LET d == e.differences[1]
                     here == differ \cap Within(e.region)
                 IN /\ d.byte_difference_count = Cardinality(here)
                    /\ d.ends = <<Min(here), Max(here)>>
                    /\ d.bit_difference_count = d.one_to_zero_count + d.zero_to_one_count
=============================================================================
