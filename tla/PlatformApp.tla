---------------------------- MODULE PlatformApp ----------------------------
(***************************************************************************)
(* A trial image of the research platform from reset to reset: Stage 0's   *)
(* use of the reset flags, platform_init step by step, the main loop with  *)
(* its health gate and confirmation, and what outlives a reset or bounds a *)
(* hang: the telemetry report and fault record in .noinit, the reset       *)
(* flags, the MPU policy and the independent watchdog.  A fault, the reset *)
(* pin or a power loss may strike between any two steps.                   *)
(***************************************************************************)
EXTENDS Integers, Sequences, FiniteSetsExt

CONSTANTS
  Builds,          \* the builds of the trial image
  ATTEMPTS,        \* starts a trial has left when it is first seen
  LOG_CAPACITY,    \* records in the event log
  UINT32_MAX,      \* largest log sequence number and dropped count
  BOOT_COUNTER_MAX, \* largest boot counter (UINT32_MAX too in the code)
  SCENARIO_TICK,   \* the loop a test scenario strikes at (10 in the code)
  STABLE_TICK,     \* the loop trial_delayed_confirm waits for (100)
  MaxCommands,     \* bound: console commands of interest in one boot
  MaxStrikes       \* bound: pin resets, power losses, faults and failed selections

\* The log and the counters hold something, and a build is one of the image's.
PlatformConstants ==
  /\ Builds \subseteq [scenario : STRING, rsm : BOOLEAN, restricted : BOOLEAN]
  /\ LOG_CAPACITY \in Nat \ {0}
  /\ UINT32_MAX \in Nat \ {0}
  /\ BOOT_COUNTER_MAX \in Nat \ {0}
  /\ {ATTEMPTS, SCENARIO_TICK, STABLE_TICK} \subseteq Nat
ASSUME PlatformConstantsAssumption == PlatformConstants

VARIABLES
  pc,         \* the step the processor is at
  build,      \* the image's build
  metadata,   \* the journal's record, as far as a trial changes it
  csr,        \* the reset flags in RCC_CSR
  app,        \* the application's RAM
  mpu,        \* MPU_CTRL and the copy kept while it is suspended
  iwdg,       \* the watchdog: counting, and whether the loop refreshes it
  log,        \* the event log
  report,     \* the telemetry report in .noinit
  fault,      \* the fault record in .noinit holds a whole record
  last_reset, \* history: what the last reset was
  captured,   \* history: a fault was stored and neither cleared nor lost
  written,    \* history: the events numbered since log_init
  asked,      \* history: the writes asked for since log_init or log_clear
  boots,      \* history: boots since the report was last lost
  strikes     \* what MaxStrikes bounds, so far

platform_history == <<last_reset, captured, written, asked, boots, strikes>>
board == <<build, metadata, csr, mpu, iwdg>>
platform_vars == <<pc, build, metadata, csr, app, mpu, iwdg, log, report, fault,
                   last_reset, captured, written, asked, boots, strikes>>

InApp == pc \notin {"stage0", "recovery"}

-----------------------------------------------------------------------------
(* reset_cause.c                                                           *)

ResetFlags == [pin |-> {"PIN"}, software |-> {"SOFTWARE", "PIN"},
               iwdg |-> {"IWDG", "PIN"}, power |-> {"POWER_ON", "PIN", "BROWNOUT"}]

Priority == <<"IWDG", "WWDG", "SOFTWARE", "BROWNOUT", "PIN", "POWER_ON", "LOW_POWER">>

\* Several flags may be set at once, and flags of resets before the last one
\* if nobody cleared them; the watchdog is named first.
reset_cause_primary_kind_from_raw(flags) ==
  IF flags = {} THEN "NONE"
  ELSE Priority[Min({i \in 1..Len(Priority) : Priority[i] \in flags})]

\* The application's own order, in runtime_monitor_core.c, differs from Stage 0's
\* where power came up.
NameOrder == <<"IWDG", "WWDG", "SOFTWARE", "POWER_ON", "BROWNOUT", "PIN", "LOW_POWER">>

rsm_reset_cause_name(flags) ==
  IF flags = {} THEN "unknown"
  ELSE NameOrder[Min({i \in 1..Len(NameOrder) : NameOrder[i] \in flags})]

-----------------------------------------------------------------------------
(* log.c                                                                   *)

log_init == [records |-> [slot \in 0..LOG_CAPACITY - 1 |-> [sequence |-> 0, event |-> "none"]],
             next_sequence |-> 1, count |-> 0, dropped |-> 0]

increment(n, max) == IF n = max THEN n ELSE n + 1

log_write_stuck(l, event) ==
  [l EXCEPT !.records[l.count % LOG_CAPACITY] =
                [sequence |-> l.next_sequence, event |-> event],
            !.count = IF @ < LOG_CAPACITY THEN @ + 1 ELSE @,
            !.dropped = IF l.count < LOG_CAPACITY THEN @ ELSE increment(@, UINT32_MAX),
            !.next_sequence = IF @ = UINT32_MAX THEN 0 ELSE @ + 1]

\* After the last sequence number nothing is stored any more.  No caller
\* passes a payload longer than a record holds.
log_write(l, event) ==
  IF l.next_sequence = 0
  THEN [l EXCEPT !.dropped = increment(@, UINT32_MAX)]
  ELSE [l EXCEPT !.records[(l.next_sequence - 1) % LOG_CAPACITY] =
                     [sequence |-> l.next_sequence, event |-> event],
                 !.count = IF @ < LOG_CAPACITY THEN @ + 1 ELSE @,
                 !.dropped = IF l.count < LOG_CAPACITY THEN @ ELSE increment(@, UINT32_MAX),
                 !.next_sequence = IF @ = UINT32_MAX THEN 0 ELSE @ + 1]

log_clear(l) == [l EXCEPT !.count = 0, !.dropped = 0]

log_last_sequence(l) == IF l.next_sequence = 0 THEN UINT32_MAX ELSE l.next_sequence - 1

\* What the console lists.
log_show(l) ==
  LET first == log_last_sequence(l) - l.count + 1
  IN  [i \in 1..l.count |-> l.records[(first + i - 2) % LOG_CAPACITY]]

\* Writes the events in order.
log_writes(l, events) ==
  LET after[k \in 0..Len(events)] ==
        IF k = 0 THEN l ELSE log_write(after[k - 1], events[k])
  IN  after[Len(events)]

\* The histories take the events too.
Logs(events) ==
  /\ log' = log_writes(log, events)
  /\ written' = SubSeq(written \o events, 1, Min({Len(written \o events), UINT32_MAX}))
  /\ asked' = Min({UINT32_MAX + LOG_CAPACITY, asked + Len(events)})

\* The image that runs: the trial's, or after its rejection the previous one.
image == IF metadata.state = "REJECTED_INVALID"
         THEN [scenario |-> "none", rsm |-> TRUE, restricted |-> FALSE] ELSE build

\* runtime_monitor_log_event: nothing in a build without the monitor.
rsm_events(events) == IF image.rsm THEN events ELSE <<>>

\* runtime_monitor_diagnostic_allowed, for what is not public.
restricted_diagnostics_allowed == image.rsm /\ image.restricted

-----------------------------------------------------------------------------
(* experiment_telemetry.c: an update leaves the checksum stale until       *)
(* finalize_report, and a reset in between leaves a report that is refused. *)

no_report == [valid |-> FALSE, boot_counter |-> 0, reset_cause |-> {}, metadata |-> "none"]

next_boot_counter_trusting == increment(report.boot_counter, BOOT_COUNTER_MAX)

next_boot_counter == IF ~report.valid THEN 1 ELSE increment(report.boot_counter, BOOT_COUNTER_MAX)

\* refresh_metadata: a journal that cannot be read is reported as that.
refresh_metadata(r, readable) ==
  [r EXCEPT !.metadata = IF readable THEN metadata.state ELSE "UNRECOVERABLE"]

finalize_report(r) == [r EXCEPT !.valid = TRUE]

\* A version is published for a journal that names the running image.
trusted_metadata_image_version(state) ==
  IF state \in {"PENDING_TRIAL", "CONFIRMED"} THEN "candidate" ELSE "unavailable"

-----------------------------------------------------------------------------
(* mpu_policy.c and the accesses of the test scenarios.                    *)

\* What each region, in rising priority, lets privileged code do.
Regions == <<
  [base |-> \h08000000, size |-> \h100000, allows |-> {"read", "execute"}],
  [base |-> \h20000000, size |-> \h20000,  allows |-> {"read", "write"}],
  [base |-> \h08000000, size |-> \h20000,  allows |-> {"read"}],
  [base |-> 0,          size |-> 32,       allows |-> {}],
  [base |-> \h2001E000, size |-> 256,      allows |-> {}]>>

region_valid(region) ==
  (\E k \in 0..20 : region.size = 2^k) /\ region.base % region.size = 0

mpu_policy_build_regions == \A i \in DOMAIN Regions : region_valid(Regions[i])

\* The highest region that holds the address decides; PRIVDEFENA for the rest.
mpu_denies(address, access) ==
  LET holding == {i \in DOMAIN Regions :
                    address >= Regions[i].base /\ address - Regions[i].base < Regions[i].size}
  IN  holding # {} /\ access \notin Regions[Max(holding)].allows

mpu_policy_init(regions_ok) == [mpu EXCEPT !.ctrl = regions_ok]

mpu_policy_suspend_for_metadata_commit == [ctrl |-> FALSE, saved |-> mpu.ctrl]

mpu_policy_resume_after_metadata_commit == [mpu EXCEPT !.ctrl = mpu.saved]

ScenarioAccess ==
  [mpu_null_access      |-> <<0, "write">>,
   mpu_execute_sram     |-> <<\h20000000, "execute">>,
   mpu_write_bootloader |-> <<\h08000000, "write">>,
   mpu_write_metadata   |-> <<\h08008000, "write">>,
   mpu_stack_guard      |-> <<\h2001E000, "write">>]

\* The scenario's access ends in a fault; with the MPU off it may or may not.
ScenarioFaults ==
  IF image.scenario = "hardfault" THEN {TRUE}
  ELSE IF image.scenario \notin DOMAIN ScenarioAccess THEN {FALSE}
  ELSE LET access == ScenarioAccess[image.scenario]
       IN  IF mpu.ctrl /\ mpu_denies(access[1], access[2]) THEN {TRUE} ELSE BOOLEAN

-----------------------------------------------------------------------------
(* Resets.                                                                 *)

no_app == [vtor_ok |-> FALSE, self_tests |-> FALSE, critical |-> FALSE,
           monitor_ready |-> FALSE, mpu_ready |-> FALSE, watchdog_ready |-> FALSE,
           terminal |-> FALSE, ticks |-> 0, commands |-> 0,
           policy |-> "BOOTING", boot_reset_csr |-> {}, diagnostic_denials |-> 0]

RewritingReport == pc \in {"telemetry_init", "policy", "telemetry_confirmation"}

\* RAM, the MPU and, unless the watchdog is taken to run across a reset as
\* watchdog.c does, the watchdog start afresh; .noinit survives all but power.
ResetBy(kind) ==
  /\ pc' = "stage0"
  /\ csr' = IF kind = "power" THEN ResetFlags[kind] ELSE csr \cup ResetFlags[kind]
  /\ app' = no_app
  /\ mpu' = [ctrl |-> FALSE, saved |-> FALSE]
  /\ \E counting \in IF kind = "power" THEN {FALSE} ELSE {FALSE, iwdg.counting} :
       iwdg' = [counting |-> counting, active |-> FALSE]
  /\ log' = log_init
  /\ report' = IF kind = "power" THEN no_report ELSE report
  /\ fault' = IF kind = "power" THEN FALSE ELSE fault
  /\ last_reset' = kind
  /\ captured' = (captured /\ kind # "power" /\ pc # "faulting")
  /\ written' = <<>>
  /\ asked' = 0
  /\ boots' = IF kind = "power" \/ RewritingReport THEN 0 ELSE boots
  /\ UNCHANGED <<build, metadata>>

\* The reset pin or a power loss.
PlatformReset ==
  /\ strikes < MaxStrikes
  /\ strikes' = strikes + 1
  /\ \E kind \in {"pin", "power"} : ResetBy(kind)

\* platform_watchdog_refresh comes last in the loop: a loop that never gets
\* there, or finds the watchdog not active, lets it run out.
Starved == pc \in {"hung", "halted"} \/ (pc = "idle" /\ ~iwdg.active)

WatchdogTimeout == iwdg.counting /\ Starved /\ ResetBy("iwdg") /\ UNCHANGED strikes

-----------------------------------------------------------------------------
(* Stage 0.                                                                *)

\* A pending trial is started while it has attempts left and rejected when it
\* has none; why its last start ended is stored with the attempt.  (A commit of
\* Stage 0 that fails is in BootSystem.)  The flags are left to the application.
Select ==
  /\ pc = "stage0"
  /\ pc' = "start"
  /\ metadata' =
       CASE metadata.state # "PENDING_TRIAL" -> metadata
         [] metadata.state = "PENDING_TRIAL" /\ metadata.attempts > 0 ->
              [metadata EXCEPT !.attempts = @ - 1,
                               !.result = reset_cause_primary_kind_from_raw(csr)]
         [] OTHER -> [state |-> "REJECTED_INVALID", attempts |-> 0,
                      result |-> "ATTEMPTS_EXHAUSTED"]
  /\ UNCHANGED <<build, csr, app, mpu, iwdg, log, report, fault, platform_history>>

\* No image can be started: the flags are cleared and the recovery service
\* waits, refreshing the watchdog, for the frame that resets the board.
SelectFails ==
  /\ pc = "stage0"
  /\ pc' = "recovery"
  /\ strikes < MaxStrikes
  /\ strikes' = strikes + 1
  /\ csr' = {}
  /\ UNCHANGED <<build, metadata, app, mpu, iwdg, log, report, fault,
                 last_reset, captured, written, asked, boots>>

LeaveRecovery == pc = "recovery" /\ ResetBy("software") /\ UNCHANGED strikes

-----------------------------------------------------------------------------
(* platform_init.                                                          *)

\* From the start to the middle of experiment_telemetry_init.
InitTelemetry ==
  /\ pc = "start"
  /\ pc' = "telemetry_init"
  /\ report' = [no_report EXCEPT !.boot_counter = next_boot_counter, !.reset_cause = csr]
  /\ app' = [app EXCEPT !.boot_reset_csr = csr]
  /\ boots' = Min({boots + 1, BOOT_COUNTER_MAX})
  /\ UNCHANGED <<board, log, fault, last_reset, captured, written, asked, strikes>>

FinishInitTelemetry ==
  /\ pc = "telemetry_init"
  /\ pc' = "captured"
  /\ \E readable \in BOOLEAN : report' = finalize_report(refresh_metadata(report, readable))
  /\ Logs(<<"BOOT_RESET">>)
  /\ UNCHANGED <<board, app, fault, last_reset, captured, boots, strikes>>

platform_evaluate_boot_policy(reset_csr, self_tests) ==
  CASE ~self_tests -> "FAULT"
    [] self_tests /\ (fault \/ reset_csr \cap {"IWDG", "WWDG"} # {}) -> "DEGRADED"
    [] OTHER -> "HEALTHY"

\* The flags are read again instead of using the value captured before RMVF.
apply_policy_rereading ==
  /\ pc = "captured"
  /\ pc' = "policy"
  /\ csr' = {}
  /\ app' = [app EXCEPT !.vtor_ok = TRUE, !.self_tests = TRUE,
                        !.policy = platform_evaluate_boot_policy(csr', TRUE)]
  /\ report' = [report EXCEPT !.valid = FALSE]
  /\ Logs(IF fault THEN <<"BOOT_FAULT_RECORD">> ELSE <<>>)
  /\ UNCHANGED <<build, metadata, mpu, iwdg, fault, last_reset, captured, boots, strikes>>

\* From the RMVF write to the middle of set_boot_policy_result.
ApplyPolicy ==
  /\ pc = "captured"
  /\ pc' = "policy"
  /\ csr' = {}
  /\ \E vtor_ok, flash_size_ok \in BOOLEAN :
       LET self_tests == vtor_ok /\ flash_size_ok
       IN  /\ app' = [app EXCEPT !.vtor_ok = vtor_ok, !.self_tests = self_tests,
                        !.critical = ~self_tests,
                        !.policy = platform_evaluate_boot_policy(app.boot_reset_csr, self_tests)]
           /\ Logs((IF fault THEN <<"BOOT_FAULT_RECORD">> ELSE <<>>)
                    \o (IF self_tests THEN <<>> ELSE <<"SELFTEST_FAILED">>))
  /\ report' = [report EXCEPT !.valid = FALSE]
  /\ UNCHANGED <<build, metadata, mpu, iwdg, fault, last_reset, captured, boots, strikes>>

\* The rest of set_boot_policy_result, the monitor, and the MPU.
InitProtection ==
  /\ pc = "policy"
  /\ pc' = "watchdog"
  /\ report' = finalize_report(report)
  /\ \E regions_ok \in {FALSE, mpu_policy_build_regions} :
       /\ app' = [app EXCEPT !.monitor_ready = image.rsm, !.mpu_ready = regions_ok,
                             !.critical = @ \/ ~image.rsm \/ ~regions_ok]
       /\ mpu' = mpu_policy_init(regions_ok)
       /\ Logs(rsm_events(<<"EVIDENCE_RUNTIME_READY", "RESET_CAUSE_CAPTURED",
            IF regions_ok THEN "MPU_POLICY_INITIALIZED" ELSE "MPU_POLICY_FAILED">>))
  /\ UNCHANGED <<build, metadata, csr, iwdg, fault, last_reset, captured, boots, strikes>>

\* The watchdog is started only when the clock and the registers are ready.
watchdog_init_after_waits(ready) == [counting |-> ready, active |-> ready]

\* The watchdog is started before the waits for its clock and its registers;
\* when a wait runs out it counts on, unattended.
platform_watchdog_init(ready) == [counting |-> TRUE, active |-> ready]

InitWatchdog ==
  /\ pc = "watchdog"
  /\ pc' = "idle"
  /\ \E ready \in BOOLEAN :
       /\ iwdg' = platform_watchdog_init(ready)
       /\ app' = [app EXCEPT !.watchdog_ready = ready, !.critical = @ \/ ~ready]
       /\ Logs(rsm_events(<<IF ready THEN "WATCHDOG_INITIALIZED" ELSE "WATCHDOG_INIT_FAILED">>))
  /\ UNCHANGED <<build, metadata, csr, mpu, report, fault, last_reset, captured, boots, strikes>>

-----------------------------------------------------------------------------
(* platform_idle.                                                          *)

\* An access the image must not make, or any other exception: fault_capture
\* rewrites the record field by field, then spins.
Faulting ==
  /\ pc' = "faulting"
  /\ fault' = FALSE

PlatformFault ==
  /\ InApp /\ pc \notin {"faulting", "halted"}
  /\ strikes < MaxStrikes
  /\ strikes' = strikes + 1
  /\ Faulting
  /\ captured' = FALSE
  /\ boots' = IF RewritingReport THEN 0 ELSE boots
  /\ UNCHANGED <<board, app, log, report, last_reset, written, asked>>

fault_capture ==
  /\ pc = "faulting"
  /\ pc' = "halted"
  /\ fault' = TRUE
  /\ captured' = TRUE
  /\ UNCHANGED <<board, app, log, report, last_reset, written, asked, boots, strikes>>

\* "log show" stands for every command that only prints what is restricted, and
\* "health acknowledge" for those that only log that they were given.
RestrictedCommands == {"log clear", "fault clear", "log show"}
PlatformCommands == {"none", "health acknowledge"} \cup RestrictedCommands

refused(command) == command \in RestrictedCommands /\ ~restricted_diagnostics_allowed

\* help, version, device, boot, reset, clock, registers, memory, health status, led
\* status, confirmation and telemetry read and print, and change nothing.
print_only == UNCHANGED <<log, fault, captured, written, asked>>

\* platform_cli_poll and the commands that touch the log or the fault record;
\* one a build does not allow is refused and the refusal is logged.
platform_dispatch_command(command) ==
  CASE refused(command) ->
         Logs(rsm_events(<<"DIAG_RESTRICTED_DENIED">>)) /\ UNCHANGED <<fault, captured>>
    [] command = "health acknowledge" ->
         Logs(<<"HEALTH_ACK">>) /\ UNCHANGED <<fault, captured>>
    [] command = "log clear" /\ ~refused(command) ->
         log' = log_clear(log) /\ asked' = 0 /\ UNCHANGED <<fault, captured, written>>
    [] command = "fault clear" /\ ~refused(command) ->
         fault' = FALSE /\ captured' = FALSE /\ UNCHANGED <<log, written, asked>>
    [] OTHER -> print_only

\* runtime_monitor_record_diagnostic_denial's counter.
denials_after(command) ==
  IF refused(command) /\ image.rsm THEN increment(app.diagnostic_denials, UINT32_MAX)
  ELSE app.diagnostic_denials

\* Up to the test scenario's stroke.
Turn(command) ==
  /\ pc = "idle"
  /\ command # "none" => app.commands < MaxCommands
  /\ app' = [app EXCEPT !.ticks = Min({@ + 1, STABLE_TICK + 1}),
                        !.commands = IF command = "none" THEN @ ELSE @ + 1,
                        !.diagnostic_denials = denials_after(command)]
  /\ platform_dispatch_command(command)
  /\ pc' = "scenario"
  /\ UNCHANGED <<board, report, last_reset, boots, strikes>>

\* test_scenario_service.
ScenarioStrikes == app.ticks >= SCENARIO_TICK

test_scenario_service ==
  /\ pc = "scenario"
  /\ \/ /\ image.scenario = "watchdog_hang" /\ ScenarioStrikes
        /\ pc' = "hung"
        /\ UNCHANGED <<board, app, log, report, fault, platform_history>>
     \/ /\ app.ticks = SCENARIO_TICK /\ TRUE \in ScenarioFaults
        /\ Faulting
        /\ captured' = FALSE
        /\ UNCHANGED <<board, app, log, report, last_reset, written, asked, boots, strikes>>
     \/ /\ image.scenario = "software_reset" /\ app.ticks = SCENARIO_TICK
        /\ ResetBy("software")
        /\ UNCHANGED strikes
     \/ /\ image.scenario = "watchdog_hang" => ~ScenarioStrikes
        /\ app.ticks = SCENARIO_TICK =>
             image.scenario # "software_reset" /\ FALSE \in ScenarioFaults
        /\ pc' = "gate"
        /\ UNCHANGED <<board, app, log, report, fault, platform_history>>

test_scenario_health_ok == image.scenario \in {"none", "delayed_confirm"}

test_scenario_stable == image.scenario = "delayed_confirm" => app.ticks >= STABLE_TICK

metadata_allows_confirmation == metadata.state \in {"PENDING_TRIAL", "CONFIRMED"}

\* What decides between NOT_PENDING, which ends the waiting, and NOT_HEALTHY.
basically_healthy ==
  app.self_tests /\ ~app.critical /\ test_scenario_stable

health_gate_optional_mpu ==
  /\ app.self_tests
  /\ test_scenario_stable
  /\ app.monitor_ready /\ app.watchdog_ready
  /\ test_scenario_health_ok
  /\ metadata_allows_confirmation

platform_confirmation_health_gate ==
  /\ basically_healthy
  /\ app.monitor_ready /\ app.mpu_ready /\ app.watchdog_ready
  /\ test_scenario_health_ok
  /\ metadata_allows_confirmation

\* What platform_confirmation_service finds before it tries to commit.
Findings ==
  IF ~app.vtor_ok THEN {"SLOT"}
  ELSE {"FLASH", "AMBIGUOUS_METADATA", "METADATA"} \cup
       {CASE platform_confirmation_health_gate -> "COMMITTING"
          [] ~platform_confirmation_health_gate /\ basically_healthy
             /\ ~metadata_allows_confirmation -> "NOT_PENDING"
          [] OTHER -> "NOT_HEALTHY"}

\* The rest of platform_idle: every status but NOT_HEALTHY is the last one of
\* this boot and goes to the telemetry report; NOT_HEALTHY is asked again.
Conclude(status) ==
  /\ Logs(rsm_events(<<IF status = "OK" THEN "HEALTH_GATE_PASSED" ELSE "HEALTH_GATE_FAILED">>)
          \o <<"CONFIRMATION">>)
  /\ app' = [app EXCEPT !.terminal = TRUE]
  /\ pc' = "telemetry_confirmation"
  /\ report' = [report EXCEPT !.valid = FALSE]

AskAgain ==
  /\ Logs(rsm_events(<<"HEALTH_GATE_FAILED">>))
  /\ pc' = "idle"
  /\ UNCHANGED <<app, report>>

Gate ==
  /\ pc = "gate"
  /\ \/ /\ app.terminal
        /\ pc' = "idle"
        /\ UNCHANGED <<app, mpu, log, report, written, asked>>
     \/ /\ ~app.terminal
        /\ \E status \in Findings :
             \/ /\ status = "COMMITTING"
                /\ pc' = "commit"
                /\ mpu' = mpu_policy_suspend_for_metadata_commit
                /\ UNCHANGED <<app, log, report, written, asked>>
             \/ status = "NOT_HEALTHY" /\ AskAgain /\ UNCHANGED mpu
             \/ status \notin {"COMMITTING", "NOT_HEALTHY"} /\ Conclude(status) /\ UNCHANGED mpu
  /\ UNCHANGED <<build, metadata, csr, iwdg, fault, last_reset, captured, boots, strikes>>

\* boot_confirm_current_slot with the MPU off: the journal's commit is atomic.
Commit ==
  /\ pc = "commit"
  /\ \E status \in {"OK", "COMMIT"} :
       /\ metadata.state = "CONFIRMED" => status = "OK"
       /\ metadata' = IF status = "OK" /\ metadata.state # "CONFIRMED"
                      THEN [state |-> "CONFIRMED", attempts |-> 0, result |-> "NONE"]
                      ELSE metadata
       /\ mpu' = mpu_policy_resume_after_metadata_commit
       /\ Conclude(status)
  /\ UNCHANGED <<build, csr, iwdg, fault, last_reset, captured, boots, strikes>>

\* The rest of set_confirmation_result.
FinishConfirmation ==
  /\ pc = "telemetry_confirmation"
  /\ pc' = "idle"
  /\ \E readable \in BOOLEAN : report' = finalize_report(refresh_metadata(report, readable))
  /\ UNCHANGED <<board, app, log, fault, platform_history>>

-----------------------------------------------------------------------------
(* What the console prints.                                                *)

print_reset_decoded ==
  [reset_cause |-> rsm_reset_cause_name(app.boot_reset_csr), flags |-> app.boot_reset_csr]

print_log_public_summary ==
  [records |-> log.count, dropped |-> log.dropped, last_sequence |-> log_last_sequence(log)]

print_fault_public_summary == IF fault THEN "valid" ELSE "none"

runtime_monitor_get_statistics ==
  [event_count |-> log.count, event_dropped |-> log.dropped,
   diagnostic_denials |-> app.diagnostic_denials]

\* The other registers it reads never change.
runtime_monitor_get_hardware_info == [mpu_enabled |-> mpu.ctrl]

\* The lines of "rsm status" that are not about the vector table.
runtime_monitor_print_public_status ==
  [status |-> IF app.monitor_ready THEN "ok" ELSE "unavailable",
   boot_sequence |-> report.boot_counter,
   firmware_version |-> trusted_metadata_image_version(report.metadata),
   last_reset |-> print_reset_decoded.reset_cause,
   cpu_mpu |-> IF runtime_monitor_get_hardware_info.mpu_enabled THEN "enabled" ELSE "disabled",
   security_stack |-> IF mpu.ctrl THEN "mpu_guard_enabled" ELSE "unavailable",
   last_event_sequence |-> print_log_public_summary.last_sequence,
   last_fault |-> print_fault_public_summary,
   event_count |-> runtime_monitor_get_statistics.event_count,
   event_dropped |-> runtime_monitor_get_statistics.event_dropped,
   diagnostic_denials |-> runtime_monitor_get_statistics.diagnostic_denials]

-----------------------------------------------------------------------------
PlatformInit ==
  /\ pc = "stage0"
  /\ build \in Builds
  /\ metadata = [state |-> "PENDING_TRIAL", attempts |-> ATTEMPTS, result |-> "NONE"]
  /\ csr = ResetFlags["power"]
  /\ app = no_app
  /\ mpu = [ctrl |-> FALSE, saved |-> FALSE]
  /\ iwdg = [counting |-> FALSE, active |-> FALSE]
  /\ log = log_init
  /\ report = no_report
  /\ fault = FALSE
  /\ last_reset = "power" /\ captured = FALSE
  /\ written = <<>> /\ asked = 0 /\ boots = 0 /\ strikes = 0

Platform ==
  \/ InitTelemetry \/ FinishInitTelemetry \/ ApplyPolicy \/ InitProtection \/ InitWatchdog
  \/ (\E command \in PlatformCommands : Turn(command))
  \/ test_scenario_service \/ Gate \/ Commit \/ FinishConfirmation
  \/ fault_capture

PlatformNext ==
  \/ PlatformReset \/ WatchdogTimeout
  \/ Select \/ SelectFails \/ LeaveRecovery
  \/ Platform
  \/ PlatformFault

\* The processor takes its next step, and a watchdog that nobody refreshes
\* runs out.  Neither the reset pin nor power nor the host is ever certain.
PlatformSpec ==
  /\ PlatformInit /\ [][PlatformNext]_platform_vars
  /\ WF_platform_vars(Platform) /\ WF_platform_vars(Select) /\ WF_platform_vars(WatchdogTimeout)

-----------------------------------------------------------------------------
\* The application changes the journal only to confirm itself, and only from a
\* boot in which the self tests, the monitor, the MPU policy and the watchdog
\* came up and the image holds itself healthy; the MPU is off for that write
\* and on again in the main loop (platform_confirmation_service).
ConfirmsHealthy ==
  /\ (metadata' # metadata /\ pc # "stage0") =>
       /\ pc = "commit" /\ ~mpu.ctrl /\ metadata'.state = "CONFIRMED"
       /\ app.self_tests /\ app.monitor_ready /\ app.mpu_ready
       /\ iwdg.counting /\ iwdg.active
       /\ image.scenario \in {"none", "delayed_confirm"}
  /\ (pc' = "idle" /\ app'.mpu_ready) => mpu'.ctrl

\* Every step of a behaviour is such a one.
ConfirmsOnlyHealthy == [][ConfirmsHealthy]_platform_vars

\* In the main loop the telemetry report is whole, shows the journal as it is or
\* says that it could not be read, its counter is the number of boots since power
\* came up or a reset or fault struck while the report was being rewritten, and
\* its reset cause is the one this boot has captured.  "rsm status" prints the
\* same count, calls the stack guarded and the MPU on exactly if it came up, and names a
\* firmware version only when the journal vouches for the running image.
ReportIsTrue ==
  LET printed == runtime_monitor_print_public_status
  IN  pc = "idle" =>
        /\ report.valid
        /\ report.metadata \in {metadata.state, "UNRECOVERABLE"}
        /\ report.boot_counter = boots
        /\ report.reset_cause = app.boot_reset_csr
        /\ image.rsm => printed.status = "ok" /\ printed.boot_sequence = boots
        /\ (printed.security_stack = "mpu_guard_enabled") <=> app.mpu_ready
        /\ (printed.cpu_mpu = "enabled") <=> app.mpu_ready
        /\ printed.firmware_version = "candidate" => metadata.state \in {"PENDING_TRIAL", "CONFIRMED"}

\* Evidence of a bad end reaches the next boot: after a watchdog reset, or while
\* a whole fault record is kept, no boot that starts the main loop is taken for
\* healthy, Stage 0 stores the watchdog as the reason with the attempt, and the
\* console names the watchdog, whatever other flags are set, and the record.
EvidenceSurvives ==
  LET printed == runtime_monitor_print_public_status
  IN  /\ (pc = "watchdog" /\ (last_reset = "iwdg" \/ captured)) => app.policy \in {"DEGRADED", "FAULT"}
      /\ (pc = "start" /\ last_reset = "iwdg" /\ metadata.state = "PENDING_TRIAL")
           => metadata.result = "IWDG"
      /\ (pc = "idle" /\ last_reset = "iwdg") => printed.last_reset = "IWDG"
      /\ (pc = "idle" /\ captured) => printed.last_fault = "valid"

\* The console lists exactly the last events that were numbered, in order and
\* without a gap, also when the ring has wrapped, was cleared, or has run out
\* of numbers.  "rsm status" tells how many they are and names the last number,
\* counts every other write since the last clear as dropped, and the refusals
\* it counts are those numbered in the log, one for one.
LogShowsLast ==
  LET n == Len(written)
      printed == runtime_monitor_print_public_status
  IN  /\ log_show(log) = [i \in 1..log.count |->
             [sequence |-> n - log.count + i, event |-> written[n - log.count + i]]]
      /\ printed.event_count = Len(log_show(log))
      /\ printed.event_dropped = Min({UINT32_MAX, asked - log.count})
      /\ printed.last_event_sequence = n
      /\ n < UINT32_MAX =>
           printed.diagnostic_denials =
             Cardinality({i \in 1..n : written[i] = "DIAG_RESTRICTED_DENIED"})

\* A trial whose image hangs, faults or resets itself is over after its
\* attempts with no hand on the board; unless Stage 0 found nothing to start,
\* or the image faulted before it had started the watchdog.
HangingTrialEnds ==
  (build.scenario \in {"watchdog_hang", "hardfault", "software_reset"}
     /\ metadata.state = "PENDING_TRIAL")
  ~> \/ metadata.state # "PENDING_TRIAL"
     \/ pc = "recovery"
     \/ pc = "halted" /\ ~iwdg.counting

\* What docs/watchdog-policy.md says of a fault handler without a condition:
\* that it eventually produces an IWDG reset.
FaultHandlerIsReset == pc = "halted" ~> pc = "stage0"

=============================================================================
