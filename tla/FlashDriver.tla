---------------------------- MODULE FlashDriver ----------------------------
(***************************************************************************)
(* The flash layer: the checked front (boot_flash.c), the handles it is    *)
(* opened with, and the register sequences of the STM32F429 backend        *)
(* (boot_flash_target.c), step by step, against the flash controller, the  *)
(* data cache, interrupts and a reset at any point.                        *)
(*                                                                         *)
(* A cell is one bit: 1 erased, 0 programmed; programming can only clear.  *)
(* The controller is external: it may refuse the keys, report an error,    *)
(* stay busy past the polls, or leave a cell unprogrammed without a flag.  *)
(* While it is busy a write to FLASH_CR stalls the bus, so an operation    *)
(* that timed out has ended, somehow, before the driver goes on.           *)
(***************************************************************************)
EXTENDS Integers, Sequences

CONSTANTS
  FLASH_BASE, FLASH_END, UINT32_MAX,
  Sectors,              \* sequence of [base, end], sector k at Sectors[k + 1]
  MetadataA, MetadataB, Candidate,        \* regions [base, end]
  ProtectedRegions,     \* what lab canary writes may never touch
  LabRequests,          \* region lists a lab build may ask for
  program_alignment, VerifyChunk,
  Programs,             \* <<address, data>> requests
  IsrReads              \* flash addresses the interrupt handlers read

VARIABLES
  handle,     \* the open boot_flash_t
  cells,      \* flash contents
  cache,      \* data cache: address -> value, or Absent
  ctl,        \* flash controller: lock, pg, ser, err
  dcen,       \* FLASH_ACR.DCEN
  primask,    \* 1 while interrupts are masked
  call,       \* the call in progress
  last        \* the call that returned last and its status

Regions == [base : Nat, end : Nat]

\* The memory map is in natural numbers and its sectors are flash; a request is an
\* address and the bits to write there; interrupt handlers read flash.
ASSUME FlashAssumption ==
  /\ FLASH_BASE \in Nat /\ FLASH_END \in Nat /\ UINT32_MAX \in Nat
  /\ Sectors \in Seq(Regions)
  /\ \A k \in 1..Len(Sectors) :
       /\ Sectors[k].base >= FLASH_BASE /\ Sectors[k].end <= FLASH_END
       /\ Sectors[k].base < Sectors[k].end
  /\ {MetadataA, MetadataB, Candidate} \cup ProtectedRegions \subseteq Regions
  /\ \A regions \in LabRequests : regions \in Seq(Regions)
  /\ program_alignment \in Nat \ {0} /\ VerifyChunk \in Nat \ {0}
  /\ \A p \in Programs : p[1] \in Nat /\ p[2] \in Seq({0, 1})
  /\ IsrReads \subseteq FLASH_BASE..(FLASH_END - 1)

vars == <<handle, cells, cache, ctl, dcen, primask, call, last>>

Addresses == FLASH_BASE..(FLASH_END - 1)
Within(region) == region.base..(region.end - 1)
Absent == 2
NoCache == [a \in Addresses |-> Absent]
Idle == [at |-> "idle"]
Returned(status) == [status |-> status, op |-> "none"]
-----------------------------------------------------------------------------
(* Range checks *)

checked_range_ok(address, length) ==
  length <= UINT32_MAX /\ length <= UINT32_MAX - address
range_in_bounds(base, end, address, length) ==
  /\ checked_range_ok(address, length)
  /\ address >= base /\ address + length <= end
\* The end of the range is not compared with the region's.
range_starts_in_region(flash, address, length) ==
  /\ flash.regions # <<>> /\ checked_range_ok(address, length)
  /\ \E i \in 1..Len(flash.regions) :
       address >= flash.regions[i].base /\ address < flash.regions[i].end
range_is_write_allowed(flash, address, length) ==
  /\ flash.regions # <<>> /\ checked_range_ok(address, length)
  /\ \E i \in 1..Len(flash.regions) :
       address >= flash.regions[i].base /\ address + length <= flash.regions[i].end
target_range_is_flash(address, length) ==
  /\ address >= FLASH_BASE /\ address <= FLASH_END
  /\ length <= FLASH_END - FLASH_BASE
  /\ length <= FLASH_END - address
-----------------------------------------------------------------------------
(* Handles *)

Overlap(r, s) == r.base < s.end /\ s.base < r.end

target_region_is_protected(r) ==
  \/ r.base >= r.end \/ r.base < FLASH_BASE \/ r.end > FLASH_END
  \/ \E p \in ProtectedRegions : Overlap(r, p)
lab_regions_are_valid(regions) ==
  /\ regions # <<>>
  /\ \A i \in 1..Len(regions) :
       /\ ~target_region_is_protected(regions[i])
       /\ \A j \in (i + 1)..Len(regions) : ~Overlap(regions[i], regions[j])

boot_flash_init_ok(regions) ==
  \A i \in 1..Len(regions) : /\ regions[i].base < regions[i].end
                             /\ regions[i].base >= FLASH_BASE /\ regions[i].end <= FLASH_END
Opened(by, ops, regions) == [by |-> by, ops |-> ops, regions |-> regions]

init_disabled == Opened("disabled", "disabled", <<>>)
init_readonly == Opened("readonly", "readonly", <<>>)
init_target == Opened("target", "writable", <<>>)
init_metadata == Opened("metadata", "writable", <<MetadataA, MetadataB>>)
\* The installer narrows the handle update mode opened to one candidate slot.
init_restricted_flash == Opened("installer", "writable", <<MetadataA, MetadataB, Candidate>>)
init_lab_canary ==
  {Opened("lab", "writable", r) : r \in {q \in LabRequests : lab_regions_are_valid(q)}}

Open ==
  /\ call = Idle
  /\ handle' \in {h \in {init_disabled, init_readonly, init_target, init_metadata,
                         init_restricted_flash} \cup init_lab_canary : boot_flash_init_ok(h.regions)}
  /\ last' = Returned("OK")
  /\ UNCHANGED <<cells, cache, ctl, dcen, primask, call>>
-----------------------------------------------------------------------------
(* The checked front *)

Refuse(status) == last' = Returned(status) /\ UNCHANGED call
Begin(op, address, sector, data) ==
  /\ call' = [op |-> op, address |-> address, sector |-> sector, data |-> data,
              at |-> "unlock", saved_dcen |-> FALSE, entry |-> primask, primask |-> 0,
              i |-> 0, ok |-> TRUE]
  /\ last' = Returned("OK")

boot_flash_erase_sector(id) ==
  /\ call = Idle
  /\ LET s == Sectors[id + 1]
     IN IF id >= Len(Sectors) THEN Refuse("INVALID_ARGUMENT")
        ELSE IF ~range_is_write_allowed(handle, s.base, s.end - s.base) \/ handle.ops # "writable"
        THEN Refuse("PROTECTED_REGION")
        ELSE Begin("erase", s.base, id, <<>>)
  /\ UNCHANGED <<handle, cells, cache, ctl, dcen, primask>>

boot_flash_program_aligned(address, data) ==
  /\ call = Idle
  /\ IF data = <<>> THEN Refuse("OK")
     ELSE IF address % program_alignment # 0 \/ Len(data) % program_alignment # 0
     THEN Refuse("ALIGNMENT")
     ELSE IF ~range_in_bounds(FLASH_BASE, FLASH_END, address, Len(data)) THEN Refuse("OUT_OF_BOUNDS")
     ELSE IF ~range_is_write_allowed(handle, address, Len(data)) \/ handle.ops # "writable"
     THEN Refuse("PROTECTED_REGION")
     ELSE IF ~target_range_is_flash(address, Len(data)) THEN Refuse("BACKEND")
     ELSE Begin("program", address, 0, data)
  /\ UNCHANGED <<handle, cells, cache, ctl, dcen, primask>>
-----------------------------------------------------------------------------
(* The backend *)

GoTo(at) == call' = [call EXCEPT !.at = at]
Return(status) ==
  /\ call' = Idle
  /\ last' = [status |-> status, op |-> call.op, address |-> call.address, data |-> call.data]

target_unlock ==
  /\ call.at = "unlock"
  /\ \E granted \in BOOLEAN :
       IF granted \/ ~ctl.lock
       THEN ctl' = [ctl EXCEPT !.lock = FALSE] /\ GoTo("prepare") /\ UNCHANGED last
       ELSE Return("BACKEND") /\ UNCHANGED ctl
  /\ UNCHANGED <<handle, cells, cache, dcen, primask>>

\* target_clear_status_flags and flash_data_cache_prepare.
flash_data_cache_prepare ==
  /\ call.at = "prepare"
  /\ ctl' = [ctl EXCEPT !.err = FALSE]
  /\ dcen' = FALSE
  /\ call' = [call EXCEPT !.at = "mask", !.saved_dcen = dcen]
  /\ UNCHANGED <<handle, cells, cache, primask, last>>

interrupt_save_disable ==
  /\ call.at = "mask"
  /\ primask' = 1
  /\ call' = [call EXCEPT !.at = "start", !.primask = primask]
  /\ UNCHANGED <<handle, cells, cache, ctl, dcen, last>>

\* FLASH_CR set up for the operation: SER with the sector number, or PG.
critical_start ==
  /\ call.at = "start"
  /\ ctl' = IF call.op = "erase" THEN [ctl EXCEPT !.ser = TRUE, !.pg = FALSE]
            ELSE [ctl EXCEPT !.pg = TRUE, !.ser = FALSE]
  /\ GoTo("critical")
  /\ UNCHANGED <<handle, cells, cache, dcen, primask, last>>

\* STRT and the wait: done, or reported failed with the sector in any mixture.
flash_erase_sector_critical ==
  /\ call.at = "critical" /\ call.op = "erase"
  /\ LET sector == Within(Sectors[call.sector + 1])
     IN \E erased \in SUBSET sector, failed \in BOOLEAN :
          /\ ~failed => erased = sector
          /\ cells' = [a \in Addresses |-> IF a \in erased THEN 1 ELSE cells[a]]
          /\ call' = [call EXCEPT !.at = "unmask", !.ok = ~failed]
          /\ ctl' = [ctl EXCEPT !.ser = FALSE, !.err = failed]
  /\ UNCHANGED <<handle, cache, dcen, primask, last>>

\* One byte and its wait; the first failure ends the loop with a prefix written.
flash_program_critical ==
  /\ call.at = "critical" /\ call.op = "program"
  /\ IF call.i = Len(call.data)
     THEN /\ ctl' = [ctl EXCEPT !.pg = FALSE]
          /\ call' = [call EXCEPT !.at = "unmask", !.i = 0]
          /\ UNCHANGED cells
     ELSE \E taken, failed \in BOOLEAN :
          LET a == call.address + call.i
          IN /\ cells' = IF taken /\ call.data[call.i + 1] = 0 THEN [cells EXCEPT ![a] = 0] ELSE cells
             /\ ctl' = [ctl EXCEPT !.err = failed, !.pg = ~failed]
             /\ call' = IF failed THEN [call EXCEPT !.at = "unmask", !.ok = FALSE]
                        ELSE [call EXCEPT !.i = @ + 1]
  /\ UNCHANGED <<handle, cache, dcen, primask, last>>

interrupt_restore ==
  /\ call.at = "unmask"
  /\ primask' = IF call.primask = 0 THEN 0 ELSE primask
  /\ GoTo("restore")
  /\ UNCHANGED <<handle, cells, cache, ctl, dcen, last>>

\* The data cache enabled again without DCRST.
cache_enable_only ==
  /\ call.at = "restore"
  /\ dcen' = (dcen \/ call.saved_dcen)
  /\ GoTo("lock")
  /\ UNCHANGED <<handle, cells, cache, ctl, primask, last>>
flash_data_cache_restore ==
  /\ call.at = "restore"
  /\ IF call.saved_dcen THEN cache' = NoCache /\ dcen' = TRUE ELSE UNCHANGED <<cache, dcen>>
  /\ GoTo("lock")
  /\ UNCHANGED <<handle, cells, ctl, primask, last>>

target_lock ==
  /\ call.at = "lock"
  /\ \E locked \in BOOLEAN :
       /\ ctl' = [ctl EXCEPT !.lock = locked]
       /\ IF ~call.ok \/ ~locked THEN Return("BACKEND")
          ELSE IF call.op = "erase" THEN Return("OK")
          ELSE GoTo("verify") /\ UNCHANGED last
  /\ UNCHANGED <<handle, cells, cache, dcen, primask>>

\* A load from flash: through the cache, filling it, when it is enabled.
Loaded(a) == IF dcen /\ cache[a] # Absent THEN cache[a] ELSE cells[a]
Filled(read) == [a \in Addresses |-> IF dcen /\ a \in read THEN Loaded(a) ELSE cache[a]]

\* One chunk of the read-back in boot_flash_program_aligned.
verify_chunk ==
  /\ call.at = "verify"
  /\ LET n == IF Len(call.data) - call.i > VerifyChunk THEN VerifyChunk ELSE Len(call.data) - call.i
         read == (call.address + call.i)..(call.address + call.i + n - 1)
     IN /\ cache' = Filled(read)
        /\ IF \E a \in read : Loaded(a) # call.data[a - call.address + 1] THEN Return("VERIFY")
           ELSE IF call.i + n < Len(call.data)
           THEN call' = [call EXCEPT !.i = @ + n] /\ UNCHANGED last
           ELSE Return("OK")
  /\ UNCHANGED <<handle, cells, ctl, dcen, primask>>
-----------------------------------------------------------------------------
(* Environment *)

Interrupt ==
  /\ primask = 0
  /\ \E a \in IsrReads : cache' = Filled({a})
  /\ UNCHANGED <<handle, cells, ctl, dcen, primask, call, last>>

\* The caller masks or unmasks interrupts between calls.
CallerMasks ==
  /\ call = Idle
  /\ primask' = 1 - primask
  /\ UNCHANGED <<handle, cells, cache, ctl, dcen, call, last>>

\* A reset takes the registers back to their defaults and stops an erase halfway.
Reset ==
  /\ call # Idle
  /\ call' = Idle /\ last' = Returned("reset")
  /\ ctl' = [lock |-> TRUE, pg |-> FALSE, ser |-> FALSE, err |-> FALSE]
  /\ cache' = NoCache /\ primask' = 0
  /\ dcen' = (dcen \/ call.saved_dcen)
  /\ handle' = init_disabled
  /\ IF call.at = "critical" /\ call.op = "erase"
     THEN \E erased \in SUBSET Within(Sectors[call.sector + 1]) :
            cells' = [a \in Addresses |-> IF a \in erased THEN 1 ELSE cells[a]]
     ELSE UNCHANGED cells

Init ==
  /\ handle = init_disabled
  /\ cells \in [Addresses -> {0, 1}]
  /\ \A a, b \in Addresses : cells[a] = cells[b]
  /\ cache = NoCache
  /\ ctl = [lock |-> TRUE, pg |-> FALSE, ser |-> FALSE, err |-> FALSE]
  /\ dcen \in BOOLEAN /\ primask = 0
  /\ call = Idle /\ last = Returned("OK")

Backend ==
  \/ target_unlock \/ flash_data_cache_prepare \/ interrupt_save_disable \/ critical_start
  \/ flash_erase_sector_critical \/ flash_program_critical \/ interrupt_restore
  \/ flash_data_cache_restore \/ target_lock \/ verify_chunk

Next ==
  \/ Open
  \/ \E id \in 0..Len(Sectors) : boot_flash_erase_sector(id)
  \/ \E p \in Programs : boot_flash_program_aligned(p[1], p[2])
  \/ Backend \/ Interrupt \/ CallerMasks \/ Reset

Spec == Init /\ [][Next]_vars
-----------------------------------------------------------------------------
(* Properties *)

\* The cells a handle was opened for, stated from the memory map.
Entitled(h) ==
  CASE h.by = "metadata" -> Within(MetadataA) \cup Within(MetadataB)
    [] h.by = "installer" -> Within(MetadataA) \cup Within(MetadataB) \cup Within(Candidate)
    [] h.by = "lab" -> Addresses \ UNION {Within(p) : p \in ProtectedRegions}
    [] OTHER -> {}

\* No step changes a cell the open handle was not opened for, or a cell while the
\* controller is locked: neither a range across the end of a region, a sector that
\* sticks out of it, nor a lab region that touches the bootloader, the metadata or
\* the recovery area gets past the checks.
OnlyEntitledCells ==
  [][\A a \in Addresses : cells'[a] # cells[a] =>
       a \in Entitled(handle) /\ ~ctl.lock /\ (ctl.pg \/ ctl.ser)]_vars

\* When boot_flash_program_aligned returns OK the cells themselves hold the data:
\* the read-back is not fooled by a byte that was never programmed nor by a line an
\* interrupt handler or an earlier read left in the data cache; and the controller
\* is locked.  A call that returned, whatever went wrong in it, leaves neither PG
\* nor SER set, and once its critical section is over the interrupt mask is the
\* caller's again.
OkMeansWritten ==
  /\ last.status = "OK" /\ last.op = "program" =>
       \A i \in 1..Len(last.data) : cells[last.address + i - 1] = last.data[i]
  /\ last.op \in {"erase", "program"} /\ last.status = "OK" => ctl.lock
  /\ call = Idle => ~ctl.pg /\ ~ctl.ser
  /\ call.at \in {"restore", "lock", "verify"} => primask = call.entry
=============================================================================
