---------------------------- MODULE VectorMonitor ----------------------------
(***************************************************************************)
(* The application's vector-table monitor, runtime_monitor_vector.c, as    *)
(* functions on its state.  The table is checked in full at boot and then  *)
(* a few entries at a time, with VTOR checked before each portion.         *)
(* Addresses are abstracted to what the checks tell apart.                 *)
(***************************************************************************)
EXTENDS Integers

CONSTANTS
  ENTRY_COUNT,     \* entries of the vector table
  entry_kinds,     \* for each entry "INITIAL_MSP", "HANDLER" or "RESERVED"
  STEP_BUDGET,     \* RSM_VECTOR_DEFAULT_STEP_BUDGET
  COUNTER_MAX      \* UINT32_MAX of the saturating counters

Indices == 0..(ENTRY_COUNT - 1)

ASSUME MonitorAssumption ==
  /\ ENTRY_COUNT \in Nat \ {0}
  /\ STEP_BUDGET \in Nat \ {0}
  /\ COUNTER_MAX \in Nat \ {0}
  /\ entry_kinds \in [Indices -> {"INITIAL_MSP", "HANDLER", "RESERVED"}]

\* What a table entry may hold: the value of the build, zero, an even
\* address, an address outside the memory it belongs to, another address.
EntryValues == {"expected", "zero", "even", "outside", "other"}
VtorValues == {"expected", "misaligned", "other"}

PASS == "PASS"
NONE == -1    \* RSM_VECTOR_FAILURE_INDEX_NONE

Statuses == {"UNINITIALIZED", PASS, "VTOR_MISMATCH", "ALIGNMENT_FAILURE",
             "INITIAL_MSP_INVALID", "HANDLER_RANGE_FAILURE", "THUMB_BIT_FAILURE",
             "ENTRY_CHANGED", "BASELINE_UNAVAILABLE"}

Monitors ==
  [status : Statuses, failing_index : Indices \cup {NONE}, latched_failure : BOOLEAN,
   failure_count : 0..COUNTER_MAX, check_count : 0..COUNTER_MAX, available : BOOLEAN,
   next_index : Indices, current_cycle_failed : BOOLEAN]

rsm_saturating_increment(value) ==
  IF value >= COUNTER_MAX - 1 THEN COUNTER_MAX ELSE value + 1

-----------------------------------------------------------------------------
validate_vtor(vtor) ==
  CASE vtor = "misaligned" -> "ALIGNMENT_FAILURE"
    [] vtor = "other"      -> "VTOR_MISMATCH"
    [] vtor = "expected"   -> PASS

validate_reserved(observed) == IF observed = "zero" THEN PASS ELSE "ENTRY_CHANGED"

validate_msp(observed) ==
  CASE observed \in {"zero", "even", "outside"} -> "INITIAL_MSP_INVALID"
    [] observed = "other" -> "ENTRY_CHANGED"
    [] observed = "expected" -> PASS

validate_handler(observed) ==
  CASE observed \in {"zero", "outside"} -> "HANDLER_RANGE_FAILURE"
    [] observed = "even" -> "THUMB_BIT_FAILURE"
    [] observed = "other" -> "ENTRY_CHANGED"
    [] observed = "expected" -> PASS

validate_entry(index, observed) ==
  CASE entry_kinds[index] = "RESERVED" -> validate_reserved(observed)
    [] entry_kinds[index] = "INITIAL_MSP" -> validate_msp(observed)
    [] entry_kinds[index] = "HANDLER" -> validate_handler(observed)

reset_snapshot(m) ==
  [m EXCEPT !.status = "UNINITIALIZED", !.failing_index = NONE, !.latched_failure = FALSE,
            !.failure_count = 0, !.check_count = 0, !.available = FALSE]

mark_baseline_unavailable(m) ==
  [reset_snapshot(m) EXCEPT !.status = "BASELINE_UNAVAILABLE", !.latched_failure = TRUE]

\* Only the first failure is counted; the description is of the latest one.
record_failure(m, status, index) ==
  [m EXCEPT !.failure_count = IF m.latched_failure THEN @ ELSE rsm_saturating_increment(@),
            !.status = status, !.failing_index = index,
            !.latched_failure = TRUE, !.current_cycle_failed = TRUE]

check_entry(m, table, index) ==
  LET status == validate_entry(index, table[index])
  IN  IF status = PASS THEN m ELSE record_failure(m, status, index)

\* A clean cycle puts the status back to PASS after a failure.
successful_complete_check_unlatched(m) ==
  [m EXCEPT !.check_count = rsm_saturating_increment(@),
            !.status = PASS, !.latched_failure = FALSE]

record_successful_complete_check(m) ==
  [m EXCEPT !.check_count = rsm_saturating_increment(@),
            !.status = IF m.latched_failure THEN @ ELSE PASS]

-----------------------------------------------------------------------------
(* rsm_vector_monitor_init stops at the first entry that fails.            *)

fresh == [status |-> "UNINITIALIZED", failing_index |-> NONE, latched_failure |-> FALSE,
          failure_count |-> 0, check_count |-> 0, available |-> FALSE,
          next_index |-> 0, current_cycle_failed |-> FALSE]

bad_entries(table) == {i \in Indices : validate_entry(i, table[i]) # PASS}

first_bad(table) ==
  CHOOSE i \in bad_entries(table) : \A j \in bad_entries(table) : i <= j

monitor_init(configured, table, vtor) ==
  LET m == [fresh EXCEPT !.available = TRUE]
  IN  CASE ~configured -> mark_baseline_unavailable(fresh)
        [] configured /\ validate_vtor(vtor) # PASS -> record_failure(m, validate_vtor(vtor), NONE)
        [] configured /\ validate_vtor(vtor) = PASS /\ bad_entries(table) # {} ->
             [check_entry(m, table, first_bad(table))
                EXCEPT !.next_index = (first_bad(table) + 1) % ENTRY_COUNT]
        [] OTHER -> record_successful_complete_check(m)

-----------------------------------------------------------------------------
(* rsm_vector_monitor_step.                                                *)

\* The index goes round before the last entry and the end is never seen.
finish_entry_goes_round(m) == [m EXCEPT !.next_index = (@ + 1) % (ENTRY_COUNT - 1)]

\* On to the next entry; after the last one the cycle is counted.
finish_entry(m) ==
  IF m.next_index + 1 < ENTRY_COUNT THEN [m EXCEPT !.next_index = @ + 1]
  ELSE LET done == IF m.current_cycle_failed
                     THEN [m EXCEPT !.check_count = rsm_saturating_increment(@)]
                     ELSE record_successful_complete_check(m)
       IN  [done EXCEPT !.next_index = 0, !.current_cycle_failed = FALSE]

Portion == IF STEP_BUDGET < ENTRY_COUNT THEN STEP_BUDGET ELSE ENTRY_COUNT

check_portion(monitor, table) ==
  LET after[k \in 0..Portion] ==
        IF k = 0 THEN monitor
        ELSE finish_entry(check_entry(after[k - 1], table, after[k - 1].next_index))
  IN  after[Portion]

monitor_step(monitor, configured, table, vtor) ==
  CASE ~configured -> mark_baseline_unavailable(monitor)
    [] configured /\ validate_vtor(vtor) # PASS ->
         record_failure([monitor EXCEPT !.available = TRUE], validate_vtor(vtor), NONE)
    [] OTHER -> check_portion([monitor EXCEPT !.available = TRUE], table)

public_status(m) ==
  CASE ~m.available \/ m.status \in {"UNINITIALIZED", "BASELINE_UNAVAILABLE"} -> "unavailable"
    [] m.available /\ m.status \notin {"UNINITIALIZED", "BASELINE_UNAVAILABLE"} ->
         IF m.latched_failure \/ m.status # PASS THEN "fail" ELSE "pass"

rsm_vector_failure_class_name(status) ==
  CASE status = PASS -> "none"
    [] status = "UNINITIALIZED" -> "unavailable"
    [] status = "BASELINE_UNAVAILABLE" -> "baseline_unavailable"
    [] OTHER -> status
=============================================================================
