--------------------------- MODULE RuntimeMonitor ---------------------------
(***************************************************************************)
(* The research platform application from boot to reset: the vector-table  *)
(* monitor, the events it logs, the health state it reports to, the        *)
(* console commands that change what is shown, the status the console      *)
(* prints, and the fault record kept across a reset.  Memory and VTOR may  *)
(* change between any two turns of the main loop.                          *)
(***************************************************************************)
EXTENDS VectorMonitor, Sequences

CONSTANTS
  BadValues,       \* per entry, the wrong values it may take
  BadVtors,        \* the wrong values VTOR may take
  TestStates,      \* the states the console can show as a test
  TEMPORARY_TICKS, \* PLATFORM_HEALTH_LED_TEST_TICKS
  RESTRICTED       \* RSM_RESTRICTED_DIAGNOSTICS: the build allows fault clear

HealthStates == {"BOOTING", "HEALTHY", "DEGRADED", "UPDATING", "RECOVERY",
                 "TEST_RUNNING", "FAULT", "SECURITY_FAILURE"}

ASSUME PlatformAssumption ==
  /\ BadValues \in [Indices -> SUBSET (EntryValues \ {"expected", "zero"})]
  /\ BadVtors \subseteq VtorValues \ {"expected"}
  /\ TestStates \subseteq HealthStates
  /\ TEMPORARY_TICKS \in Nat \ {0}
  /\ RESTRICTED \in BOOLEAN

VARIABLES
  phase,                 \* "reset", "running", or "halted" in a fault handler
  configured,            \* config_valid of the monitor's configuration
  table, vtor,           \* the vector table and SCB->VTOR
  monitor,               \* vector_monitor
  vector_table_changes,  \* of security_counters
  events,                \* the events of the vector domain logged in this boot
  vector_cycle_pass_event_logged,
  health,                \* automatic_state and the temporary state
  fault_valid,           \* the fault record in .noinit
  bad_read,              \* history: a check of this boot read something wrong
  bad_for                \* history: checks an entry was wrong for, undetected

history == <<bad_read, bad_for>>
logged == <<events, vector_cycle_pass_event_logged>>
vars == <<phase, configured, table, vtor, monitor, vector_table_changes, events,
          vector_cycle_pass_event_logged, health, fault_valid, bad_read, bad_for>>

Healths == [automatic : HealthStates, temporary : HealthStates, ticks : 0..TEMPORARY_TICKS]

\* rsm_event_id_t of the vector domain with the severity the log stores.
Events == [event : Statuses \cup {"MONITOR_INITIALIZED", "FULL_CYCLE_PASSED"},
           severity : {"DEBUG", "INFO", "WARNING", "ERROR", "CRITICAL"}]

\* The number of checks in which every entry is read.
CyclePeriod == (ENTRY_COUNT + Portion - 1) \div Portion

TypeOK ==
  /\ phase \in {"reset", "running", "halted"}
  /\ configured \in BOOLEAN
  /\ table \in [Indices -> EntryValues]
  /\ vtor \in VtorValues
  /\ monitor \in Monitors
  /\ vector_table_changes \in 0..COUNTER_MAX
  /\ events \in Seq(Events)
  /\ vector_cycle_pass_event_logged \in BOOLEAN
  /\ health \in Healths
  /\ fault_valid \in BOOLEAN
  /\ bad_read \in BOOLEAN
  /\ bad_for \in [Indices -> Nat]

-----------------------------------------------------------------------------
(* platform_health.c                                                       *)

state_priority(state) ==
  CASE state = "SECURITY_FAILURE" -> 8
    [] state = "FAULT" -> 7
    [] state = "RECOVERY" -> 6
    [] state = "UPDATING" -> 5
    [] state = "DEGRADED" -> 4
    [] state = "TEST_RUNNING" -> 3
    [] state = "BOOTING" -> 2
    [] state = "HEALTHY" -> 1

selected_state(h) ==
  IF h.ticks > 0 /\ state_priority(h.temporary) >= state_priority(h.automatic)
    THEN h.temporary ELSE h.automatic

health_init == [automatic |-> "BOOTING", temporary |-> "HEALTHY", ticks |-> 0]

set_state(h, state) ==
  [h EXCEPT !.automatic = IF state_priority(state) >= state_priority(@) THEN state ELSE @]

report_security_failure(h) == [h EXCEPT !.automatic = "SECURITY_FAILURE"]

stop_temporary(h) == [h EXCEPT !.ticks = 0]

acknowledge(h) ==
  stop_temporary([h EXCEPT !.automatic = IF @ = "DEGRADED" THEN "HEALTHY" ELSE @])

start_led_test(h, state) == [h EXCEPT !.temporary = state, !.ticks = TEMPORARY_TICKS]

service_tick(h) == [h EXCEPT !.ticks = IF @ > 0 THEN @ - 1 ELSE 0]

evaluate_boot_policy(watchdog_reset, fault_record_valid, self_tests_passed) ==
  CASE ~self_tests_passed -> "FAULT"
    [] self_tests_passed /\ (fault_record_valid \/ watchdog_reset) -> "DEGRADED"
    [] OTHER -> "HEALTHY"

apply_boot_policy(h, state) == [h EXCEPT !.automatic = state]

-----------------------------------------------------------------------------
(* runtime_monitor.c: what a finding of the monitor sets off.              *)

apply_vector_health_state(h, status) ==
  CASE status = "BASELINE_UNAVAILABLE" -> set_state(h, "DEGRADED")
    [] status \in {PASS, "UNINITIALIZED"} -> h
    [] OTHER -> report_security_failure(h)

vector_event_for_status(status) ==
  IF status \in {PASS, "UNINITIALIZED"} THEN "BASELINE_UNAVAILABLE" ELSE status

vector_severity_for_status(status) ==
  CASE status \in {"ENTRY_CHANGED", "VTOR_MISMATCH"} -> "CRITICAL"
    [] status \in {"INITIAL_MSP_INVALID", "HANDLER_RANGE_FAILURE", "THUMB_BIT_FAILURE",
                   "ALIGNMENT_FAILURE"} -> "ERROR"
    [] OTHER -> "WARNING"

finding_event(status) ==
  [event |-> vector_event_for_status(status), severity |-> vector_severity_for_status(status)]

log_vector_finding(l, status) == Append(l, finding_event(status))

failure_changes(changes, finding) ==
  IF finding THEN rsm_saturating_increment(changes) ELSE changes

failure_health(h, m, finding) ==
  IF finding THEN apply_vector_health_state(h, m.status) ELSE h

\* Only a failure that was counted is reported.
is_new_finding(before, after) == after.failure_count # before.failure_count

vector_check_passed(m) == m.available /\ ~m.latched_failure /\ m.status = PASS

Initialized == [event |-> "MONITOR_INITIALIZED", severity |-> "INFO"]
FullCyclePassed == [event |-> "FULL_CYCLE_PASSED", severity |-> "DEBUG"]

\* runtime_monitor_vector_init and runtime_monitor_vector_periodic: what they log
\* of the monitor's state m.  The first whole cycle that passes is told once.
init_events(m) ==
  IF vector_check_passed(m) THEN <<Initialized>> ELSE log_vector_finding(<<>>, m.status)

first_cycle_passed(before, after, told) ==
  /\ ~told
  /\ after.check_count # before.check_count
  /\ ~after.latched_failure /\ after.status = PASS

finding_events(l, m, finding) == IF finding THEN log_vector_finding(l, m.status) ELSE l

periodic_events(l, m, finding, passed) ==
  LET found == finding_events(l, m, finding)
  IN  IF passed THEN Append(found, FullCyclePassed) ELSE found

-----------------------------------------------------------------------------
(* What the checks of one turn of the loop really read, for the history    *)
(* variables.                                                              *)

entries_read ==
  IF ~configured \/ validate_vtor(vtor) # PASS THEN {}
  ELSE {(monitor.next_index + k) % ENTRY_COUNT : k \in 0..(Portion - 1)}

read_something_wrong ==
  configured /\ (validate_vtor(vtor) # PASS \/ entries_read \cap bad_entries(table) # {})

Remember ==
  /\ bad_read' = (bad_read \/ read_something_wrong)
  /\ bad_for' = [i \in Indices |->
       IF ~configured \/ monitor'.latched_failure \/ i \notin bad_entries(table) THEN 0
       ELSE bad_for[i] + 1]

-----------------------------------------------------------------------------
Init ==
  /\ phase = "reset"
  /\ configured \in BOOLEAN
  /\ table = [i \in Indices |-> IF entry_kinds[i] = "RESERVED" THEN "zero" ELSE "expected"]
  /\ vtor = "expected"
  /\ monitor = fresh
  /\ vector_table_changes = 0
  /\ events = <<>> /\ vector_cycle_pass_event_logged = FALSE
  /\ health = health_init
  /\ fault_valid = FALSE
  /\ bad_read = FALSE
  /\ bad_for = [i \in Indices |-> 0]

\* platform_init: the boot policy, then the monitor's full check.
Boot(watchdog_reset, self_tests_passed) ==
  /\ phase = "reset"
  /\ phase' = "running"
  /\ monitor' = monitor_init(configured, table, vtor)
  /\ vector_table_changes' = failure_changes(0, ~vector_check_passed(monitor'))
  /\ events' = init_events(monitor')
  /\ vector_cycle_pass_event_logged' = FALSE
  /\ health' = failure_health(apply_boot_policy(health_init,
                   evaluate_boot_policy(watchdog_reset, fault_valid, self_tests_passed)),
                 monitor', ~vector_check_passed(monitor'))
  /\ bad_read' = (configured /\ (vtor # "expected" \/ bad_entries(table) # {}))
  /\ bad_for' = [i \in Indices |-> 0]
  /\ UNCHANGED <<configured, table, vtor, fault_valid>>

\* The console commands that change the state: each turn of the loop takes at
\* most one.
Commands == {"none", "health acknowledge", "led test stop", "fault clear"} \cup TestStates

dispatch_command(command, h) ==
  CASE command = "health acknowledge" -> acknowledge(h)
    [] command = "fault clear" -> IF RESTRICTED THEN acknowledge(h) ELSE h
    [] command = "led test stop" -> stop_temporary(h)
    [] command \in TestStates -> start_led_test(h, command)
    [] command = "none" -> h

\* platform_idle: the health tick, the monitor's portion, the console.
Idle(command) ==
  /\ phase = "running"
  /\ monitor' = monitor_step(monitor, configured, table, vtor)
  /\ LET finding == is_new_finding(monitor, monitor')
         passed == first_cycle_passed(monitor, monitor', vector_cycle_pass_event_logged)
     IN  /\ vector_table_changes' = failure_changes(vector_table_changes, finding)
         /\ events' = periodic_events(events, monitor', finding, passed)
         /\ vector_cycle_pass_event_logged' = (vector_cycle_pass_event_logged \/ passed)
         /\ health' = dispatch_command(command,
                        failure_health(service_tick(health), monitor', finding))
  /\ fault_valid' = (fault_valid /\ ~(command = "fault clear" /\ RESTRICTED))
  /\ Remember
  /\ UNCHANGED <<phase, configured, table, vtor>>

\* A fault handler writes the record and waits for the watchdog; the watchdog
\* may come before the record is complete.
Fault ==
  /\ phase = "running"
  /\ phase' = "halted"
  /\ fault_valid' \in BOOLEAN
  /\ UNCHANGED <<configured, table, vtor, monitor, vector_table_changes, logged, health, history>>

\* Any reset.  RAM is lost, .noinit too if power failed; the table is in flash
\* and stays; the bootloader sets VTOR when it starts the image again.
Reset ==
  /\ phase # "reset"
  /\ phase' = "reset"
  /\ fault_valid' \in {FALSE, fault_valid}
  /\ monitor' = fresh
  /\ vector_table_changes' = 0
  /\ events' = <<>> /\ vector_cycle_pass_event_logged' = FALSE
  /\ health' = health_init
  /\ bad_read' = FALSE
  /\ bad_for' = [i \in Indices |-> 0]
  /\ vtor' = "expected"
  /\ UNCHANGED <<configured, table>>

\* An entry of the table, or VTOR, changes or is put right again.
DisturbEntry(i) ==
  /\ \E v \in BadValues[i] \cup {IF entry_kinds[i] = "RESERVED" THEN "zero" ELSE "expected"} :
       /\ table[i] # v
       /\ table' = [table EXCEPT ![i] = v]
  /\ UNCHANGED <<phase, configured, vtor, monitor, vector_table_changes, logged,
                 health, fault_valid, history>>

DisturbVtor ==
  /\ \E v \in BadVtors \cup {"expected"} : v # vtor /\ vtor' = v
  /\ UNCHANGED <<phase, configured, table, monitor, vector_table_changes, logged,
                 health, fault_valid, history>>

Next ==
  \/ \E watchdog_reset, self_tests_passed \in BOOLEAN : Boot(watchdog_reset, self_tests_passed)
  \/ \E command \in Commands : Idle(command)
  \/ Fault
  \/ Reset
  \/ \E i \in Indices : DisturbEntry(i)
  \/ DisturbVtor

Spec == Init /\ [][Next]_vars

-----------------------------------------------------------------------------
(* What the console prints of it.                                          *)

runtime_monitor_get_evidence ==
  [vector_check_count |-> monitor.check_count, vector_failure_count |-> monitor.failure_count,
   vector_check_passed |-> vector_check_passed(monitor),
   latched_vector_failure |-> monitor.latched_failure, fault_record_valid |-> fault_valid]

\* The lines of "rsm status" about the table, the health and the last fault.
print_vector_public_status ==
  LET evidence == runtime_monitor_get_evidence
  IN  [vector_status |-> public_status(monitor),
       vector_failure_class |-> rsm_vector_failure_class_name(monitor.status),
       vector_failure_count |-> evidence.vector_failure_count,
       vector_latched_failure |-> IF evidence.latched_vector_failure THEN "yes" ELSE "no",
       health_state |-> selected_state(health),
       last_fault |-> IF evidence.fault_record_valid THEN "valid" ELSE "none"]

-----------------------------------------------------------------------------
FindingEvents == {e \in Events : e.severity \in {"ERROR", "CRITICAL"}}

\* A history of this boot's vector events: the start, the first passed cycle if
\* one was completed, and the finding if something wrong was read.
Told(passed, found) ==
  LET clean == IF passed THEN <<Initialized, FullCyclePassed>> ELSE <<Initialized>>
  IN  IF found THEN \E e \in FindingEvents : events \in {<<e>>, Append(clean, e)}
      ELSE events = clean

\* What "rsm status" prints is exactly what the checks of this boot have read:
\* "pass" and no failure class as long as everything read was right, "fail", a
\* class and a latched failure for good from the first wrong reading on, however
\* many clean cycles follow.  From then on the health printed is SECURITY_FAILURE
\* until the next reset: no acknowledgement, boot policy, test pattern or later
\* finding replaces or hides it.  And however long the failure lasts it is one
\* finding: it is counted once, and logged once, as an error and as the last
\* event of the monitor.  Without a valid baseline "unavailable" is all that is
\* ever said.
VerdictIsReadings ==
  LET printed == print_vector_public_status
  IN  phase = "running" =>
        IF configured
        THEN /\ printed.vector_status = IF bad_read THEN "fail" ELSE "pass"
             /\ printed.vector_latched_failure = IF bad_read THEN "yes" ELSE "no"
             /\ printed.vector_failure_class = "none" <=> ~bad_read
             /\ runtime_monitor_get_evidence.vector_check_passed <=> ~bad_read
             /\ bad_read => printed.health_state = "SECURITY_FAILURE"
             /\ printed.vector_failure_count = IF bad_read THEN 1 ELSE 0
             /\ vector_table_changes = IF bad_read THEN 1 ELSE 0
             /\ Told(vector_cycle_pass_event_logged, bad_read)
        ELSE /\ printed.vector_status = "unavailable"
             /\ printed.vector_failure_class = "baseline_unavailable"
             /\ vector_table_changes = 1
             /\ events = log_vector_finding(<<>>, "BASELINE_UNAVAILABLE")

\* An entry cannot stay wrong for as many checks as a cycle has portions
\* without the monitor latching, wherever in the cycle it went wrong.
DetectedInTime == \A i \in Indices : bad_for[i] < CyclePeriod
=============================================================================
