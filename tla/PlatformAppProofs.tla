------------------------- MODULE PlatformAppProofs -------------------------
(***************************************************************************)
(* What PlatformApp says of a trial image across resets, faults and power  *)
(* losses, proved for every build, log size, counter width and number of   *)
(* strikes: the report, the evidence, the confirmation and the event log.  *)
(***************************************************************************)
EXTENDS PlatformApp, SequenceTheorems, FiniteSetTheorems, WellFoundedInduction, TLAPS

-----------------------------------------------------------------------------
(* The inductive invariant.                                                *)

\* The flags of RCC_CSR.
FlagNames == {"IWDG", "WWDG", "SOFTWARE", "BROWNOUT", "PIN", "POWER_ON", "LOW_POWER"}

Policies == {"BOOTING", "HEALTHY", "DEGRADED", "FAULT"}

Apps == [vtor_ok : BOOLEAN, self_tests : BOOLEAN, critical : BOOLEAN,
         monitor_ready : BOOLEAN, mpu_ready : BOOLEAN, watchdog_ready : BOOLEAN,
         terminal : BOOLEAN, ticks : Nat, commands : Nat,
         policy : Policies, boot_reset_csr : SUBSET FlagNames, diagnostic_denials : Nat]

MetadataStates == {"PENDING_TRIAL", "CONFIRMED", "REJECTED_INVALID"}

Reports == [valid : BOOLEAN, boot_counter : 0..BOOT_COUNTER_MAX, reset_cause : SUBSET FlagNames,
            metadata : MetadataStates \cup {"none", "UNRECOVERABLE"}]

Kinds == {"pin", "software", "iwdg", "power"}

PCs == {"stage0", "recovery", "start", "telemetry_init", "captured", "policy", "watchdog",
        "idle", "scenario", "gate", "commit", "telemetry_confirmation", "hung",
        "faulting", "halted"}

TypeInv ==
  /\ pc \in PCs
  /\ build \in [scenario : STRING, rsm : BOOLEAN, restricted : BOOLEAN]
  /\ metadata.state \in MetadataStates /\ metadata.attempts \in Nat
  /\ metadata = [state |-> metadata.state, attempts |-> metadata.attempts,
                 result |-> metadata.result]
  /\ csr \in SUBSET FlagNames
  /\ app \in Apps
  /\ mpu \in [ctrl : BOOLEAN, saved : BOOLEAN]
  /\ iwdg \in [counting : BOOLEAN, active : BOOLEAN]
  /\ report \in Reports
  /\ fault \in BOOLEAN
  /\ last_reset \in Kinds
  /\ captured \in BOOLEAN
  /\ boots \in 0..BOOT_COUNTER_MAX

\* The steps at which the report is whole and true.
Reported == {"captured", "watchdog", "idle", "scenario", "gate", "commit", "hung"}

\* A report is invalid exactly while it is rewritten; where it is refused at the
\* next start the boots are counted from none again.
ReportInv ==
  /\ pc \in Reported => report.valid
  /\ pc \in Reported \cup {"policy"} => report.metadata \in {metadata.state, "UNRECOVERABLE"}
  /\ RewritingReport => ~report.valid
  /\ pc \in Reported \/ RewritingReport => report.boot_counter = boots
  /\ pc \notin Reported /\ ~RewritingReport =>
       IF report.valid THEN report.boot_counter = boots ELSE boots = 0

\* The steps at which the application works with the flags it has taken over.
Carrying == Reported \cup {"telemetry_init", "policy", "telemetry_confirmation"}

\* What the application has taken over is what it has reported, and it keeps the
\* flag of a watchdog reset to the end of the boot.
CauseInv ==
  pc \in Carrying =>
    /\ report.reset_cause = app.boot_reset_csr
    /\ last_reset = "iwdg" => "IWDG" \in app.boot_reset_csr

\* The flag of a watchdog reset stays in RCC_CSR until the application has taken
\* it over, and a fault record that was stored stays.
EvidenceInv ==
  /\ captured => fault
  /\ pc \in {"stage0", "start", "telemetry_init", "captured"} /\ last_reset = "iwdg"
       => "IWDG" \in csr
  /\ pc \in {"policy", "watchdog"} /\ (last_reset = "iwdg" \/ captured)
       => app.policy \in {"DEGRADED", "FAULT"}
  /\ pc = "start" /\ last_reset = "iwdg" /\ metadata.state = "PENDING_TRIAL"
       => metadata.result = "IWDG"

Looping == {"idle", "scenario", "gate", "telemetry_confirmation", "hung"}

\* What the image believes of the MPU and the watchdog is true, and the commit
\* is entered through the health gate.
ProtectionInv ==
  /\ pc \in Looping \cup {"watchdog"} => (app.mpu_ready <=> mpu.ctrl)
  /\ pc = "commit" => mpu.saved /\ ~mpu.ctrl /\ platform_confirmation_health_gate
  /\ pc \in Looping \cup {"commit"} => (app.watchdog_ready => iwdg.counting /\ iwdg.active)
  /\ pc \in Looping \cup {"watchdog", "commit"} => (app.monitor_ready <=> image.rsm)

\* Of a writes the log holds c; the others are dropped, up to where the counter
\* stops at U.
Dropped(d, a, c, U, C) == a \in c..(U + C) /\ d = IF a - c < U THEN a - c ELSE U

\* The c last of the numbers 1, ..., n.
LastNumbers(n, c) == (n - c + 1)..n

\* The events that are written, and the content of an empty place.
EventNames ==
  {"none", "BOOT_RESET", "BOOT_FAULT_RECORD", "SELFTEST_FAILED", "EVIDENCE_RUNTIME_READY",
   "RESET_CAUSE_CAPTURED", "MPU_POLICY_INITIALIZED", "MPU_POLICY_FAILED",
   "WATCHDOG_INITIALIZED", "WATCHDOG_INIT_FAILED", "DIAG_RESTRICTED_DENIED",
   "HEALTH_GATE_PASSED", "HEALTH_GATE_FAILED", "CONFIRMATION", "HEALTH_ACK"}

\* The ring holds the last count events numbered, and what is not held of the
\* writes since the last clear is dropped; l, w and a are a log and its histories.
LogOf(l, w, a) ==
  /\ l = [records |-> l.records, next_sequence |-> l.next_sequence,
          count |-> l.count, dropped |-> l.dropped]
  /\ l.records \in [0..LOG_CAPACITY - 1 -> [sequence : Nat, event : EventNames]]
  /\ l.count \in 0..LOG_CAPACITY
  /\ w \in Seq(EventNames) /\ Len(w) <= UINT32_MAX
  /\ l.next_sequence = IF Len(w) = UINT32_MAX THEN 0 ELSE Len(w) + 1
  /\ l.count <= Len(w)
  /\ \A s \in LastNumbers(Len(w), l.count) :
       l.records[(s - 1) % LOG_CAPACITY] = [sequence |-> s, event |-> w[s]]
  /\ Dropped(l.dropped, a, l.count, UINT32_MAX, LOG_CAPACITY)

LogInv == LogOf(log, written, asked)

\* The numbers of the refusals.
Denied(w) == {i \in 1..Len(w) : w[i] = "DIAG_RESTRICTED_DENIED"}

\* The refusals counted are those numbered, until the numbers are used up.
DenialInv == Len(written) < UINT32_MAX => app.diagnostic_denials = Cardinality(Denied(written))

IInv == TypeInv /\ ReportInv /\ CauseInv /\ EvidenceInv /\ ProtectionInv /\ LogInv /\ DenialInv

-----------------------------------------------------------------------------
(* Facts about the operators.                                              *)

\* The least of two.
LEMMA MinOfTwo ==
  ASSUME NEW a \in Nat, NEW b \in Nat
  PROVE  Min({a, b}) = IF a <= b THEN a ELSE b
<1>. DEFINE m == IF a <= b THEN a ELSE b
<1>1. m \in {a, b} /\ \A y \in {a, b} : m <= y
  OBVIOUS
<1>2. \A x \in {a, b} : (\A y \in {a, b} : x <= y) => x = m
  OBVIOUS
<1>. HIDE DEF m
<1>3. Min({a, b}) = m
  BY <1>1, <1>2 DEF Min
<1>. QED  BY <1>3 DEF m

\* The watchdog's flag is named whatever other flags are set.
LEMMA WatchdogFirst ==
  ASSUME NEW flags, "IWDG" \in flags
  PROVE  reset_cause_primary_kind_from_raw(flags) = "IWDG"
<1>. DEFINE S == {i \in 1..Len(Priority) : Priority[i] \in flags}
<1>1. Len(Priority) = 7 /\ Priority[1] = "IWDG"
  BY DEF Priority
<1>2. 1 \in S /\ \A i \in S : i \in Nat /\ 1 <= i
  BY <1>1
<1>3. reset_cause_primary_kind_from_raw(flags) = Priority[Min(S)]
  BY DEF reset_cause_primary_kind_from_raw
<1>. HIDE DEF S
<1>4. Min(S) = 1
  BY <1>2 DEF Min
<1>. QED  BY <1>1, <1>3, <1>4

\* The console names it first too, though its order is another one.
LEMMA WatchdogNamed ==
  ASSUME NEW flags, "IWDG" \in flags
  PROVE  rsm_reset_cause_name(flags) = "IWDG"
<1>. DEFINE S == {i \in 1..Len(NameOrder) : NameOrder[i] \in flags}
<1>1. Len(NameOrder) = 7 /\ NameOrder[1] = "IWDG"
  BY DEF NameOrder
<1>2. 1 \in S /\ \A i \in S : i \in Nat /\ 1 <= i
  BY <1>1
<1>3. rsm_reset_cause_name(flags) = NameOrder[Min(S)]
  BY DEF rsm_reset_cause_name
<1>. HIDE DEF S
<1>4. Min(S) = 1
  BY <1>2 DEF Min
<1>. QED  BY <1>1, <1>3, <1>4

\* The next counter and the number of boots saturate alike.
LEMMA CountersAgree ==
  ASSUME PlatformConstants, NEW n \in 0..BOOT_COUNTER_MAX
  PROVE  /\ increment(n, BOOT_COUNTER_MAX) = Min({n + 1, BOOT_COUNTER_MAX})
         /\ Min({n + 1, BOOT_COUNTER_MAX}) \in 0..BOOT_COUNTER_MAX
         /\ Min({0 + 1, BOOT_COUNTER_MAX}) = 1
<1>1. n + 1 \in Nat /\ BOOT_COUNTER_MAX \in Nat \ {0} /\ 0 + 1 \in Nat
  BY DEF PlatformConstants
<1>2. Min({n + 1, BOOT_COUNTER_MAX}) = IF n + 1 <= BOOT_COUNTER_MAX THEN n + 1 ELSE BOOT_COUNTER_MAX
  BY <1>1, MinOfTwo
<1>3. Min({0 + 1, BOOT_COUNTER_MAX}) = IF 0 + 1 <= BOOT_COUNTER_MAX THEN 0 + 1 ELSE BOOT_COUNTER_MAX
  BY <1>1, MinOfTwo
<1>. QED  BY <1>1, <1>2, <1>3 DEF increment

\* The image that runs has the fields of a build.
LEMMA ImageIsBuild ==
  ASSUME TypeInv
  PROVE  image.rsm \in BOOLEAN /\ image.restricted \in BOOLEAN
BY Zenon DEF TypeInv, image

\* The flags of every reset are names.
LEMMA FlagsAreNames == \A kind \in Kinds : ResetFlags[kind] \in SUBSET FlagNames
<1>1. /\ ResetFlags["pin"] = {"PIN"} /\ ResetFlags["software"] = {"SOFTWARE", "PIN"}
      /\ ResetFlags["iwdg"] = {"IWDG", "PIN"}
      /\ ResetFlags["power"] = {"POWER_ON", "PIN", "BROWNOUT"}
  BY DEF ResetFlags
<1>. QED  BY <1>1, Zenon DEF Kinds, FlagNames

\* The state the application's RAM comes up in.
LEMMA NoAppIsApp == no_app \in Apps
BY Zenon DEF no_app, Apps, Policies

-----------------------------------------------------------------------------
(* Types.                                                                  *)

\* The watchdog after a reset counts on or does not.
LEMMA ResetTypes ==
  ASSUME PlatformConstants, TypeInv, NEW kind \in Kinds, ResetBy(kind)
  PROVE  TypeInv'
<1>1. pc' \in PCs /\ app' \in Apps /\ last_reset' \in Kinds
  BY NoAppIsApp DEF ResetBy, PCs
<1>2. mpu' \in [ctrl : BOOLEAN, saved : BOOLEAN]
  BY DEF ResetBy
<1>3. iwdg' \in [counting : BOOLEAN, active : BOOLEAN]
  <2>1. iwdg.counting \in BOOLEAN
    BY DEF TypeInv
  <2>2. PICK c \in IF kind = "power" THEN {FALSE} ELSE {FALSE, iwdg.counting} :
               iwdg' = [counting |-> c, active |-> FALSE]
    BY Zenon DEF ResetBy
  <2>3. c \in BOOLEAN
    BY <2>1, <2>2, Zenon
  <2>. QED  BY <2>2, <2>3
<1>4. report' \in Reports
  <2>1. no_report \in Reports
    BY DEF no_report, Reports, PlatformConstants
  <2>. QED  BY <2>1 DEF ResetBy, TypeInv
<1>5. fault' \in BOOLEAN /\ captured' \in BOOLEAN
  BY Zenon DEF ResetBy, TypeInv
<1>6. boots' \in 0..BOOT_COUNTER_MAX
  BY DEF ResetBy, TypeInv, PlatformConstants
<1>7. UNCHANGED <<build, metadata>>
  BY DEF ResetBy
<1>8. csr' \in SUBSET FlagNames
  <2>1. ResetFlags[kind] \in SUBSET FlagNames
    BY FlagsAreNames
  <2>. QED  BY <2>1 DEF ResetBy, TypeInv
<1>. QED  BY <1>1, <1>2, <1>3, <1>4, <1>5, <1>6, <1>7, <1>8 DEF TypeInv

\* What Stage 0 does keeps the types.
LEMMA StageZeroTypes ==
  ASSUME PlatformConstants, TypeInv, Select \/ SelectFails \/ LeaveRecovery
  PROVE  TypeInv'
<1>1. CASE Select
  <2>1. UNCHANGED <<build, csr, app, mpu, iwdg, report, fault, last_reset, captured, boots>>
        /\ pc' = "start"
    BY <1>1 DEF Select, platform_history
  <2>. DEFINE mm == [metadata EXCEPT !.attempts = @ - 1,
                       !.result = reset_cause_primary_kind_from_raw(csr)]
              nn == [state |-> "REJECTED_INVALID", attempts |-> 0,
                     result |-> "ATTEMPTS_EXHAUSTED"]
  <2>2. CASE metadata.state # "PENDING_TRIAL"
    <3>1. metadata' = metadata
      BY <1>1, <2>2 DEF Select
    <3>. QED  BY <2>1, <3>1 DEF TypeInv, PCs
  <2>3. CASE metadata.state = "PENDING_TRIAL" /\ metadata.attempts > 0
    <3>1. metadata' = mm
      BY <1>1, <2>3 DEF Select
    <3>2. /\ metadata'.state \in MetadataStates /\ metadata'.attempts \in Nat
          /\ metadata' = [state |-> metadata'.state, attempts |-> metadata'.attempts,
                          result |-> metadata'.result]
      <4>. DEFINE r == reset_cause_primary_kind_from_raw(csr)
      <4>1. metadata.attempts - 1 \in Nat
        BY <2>3 DEF TypeInv
      <4>. HIDE DEF r
      <4>2. metadata' = [state |-> metadata.state, attempts |-> metadata.attempts - 1, result |-> r]
        BY <3>1, Zenon DEF TypeInv, r
      <4>. QED  BY <4>1, <4>2 DEF TypeInv
    <3>. QED  BY <2>1, <3>2, Zenon DEF TypeInv, PCs
  <2>4. CASE metadata.state = "PENDING_TRIAL" /\ ~(metadata.attempts > 0)
    <3>1. metadata' = nn
      BY <1>1, <2>4 DEF Select
    <3>2. /\ metadata'.state \in MetadataStates /\ metadata'.attempts \in Nat
          /\ metadata' = [state |-> metadata'.state, attempts |-> metadata'.attempts,
                          result |-> metadata'.result]
      BY <3>1 DEF MetadataStates
    <3>. QED  BY <2>1, <3>2 DEF TypeInv, PCs
  <2>. QED  BY <2>2, <2>3, <2>4
<1>2. CASE SelectFails
  BY <1>2 DEF SelectFails, TypeInv, PCs
<1>3. CASE LeaveRecovery
  BY <1>3, ResetTypes, Zenon DEF LeaveRecovery, Kinds
<1>. QED  BY <1>1, <1>2, <1>3

\* So does platform_init.
LEMMA BootTypes ==
  ASSUME PlatformConstants, TypeInv,
         InitTelemetry \/ FinishInitTelemetry \/ ApplyPolicy \/ InitProtection \/ InitWatchdog
  PROVE  TypeInv'
<1>1. CASE InitTelemetry
  <2>1. report' \in Reports
    <3>1. next_boot_counter \in 0..BOOT_COUNTER_MAX
      <4>1. report.boot_counter \in 0..BOOT_COUNTER_MAX
        BY DEF TypeInv, Reports
      <4>2. increment(report.boot_counter, BOOT_COUNTER_MAX) \in 0..BOOT_COUNTER_MAX
        BY <4>1, CountersAgree, Zenon
      <4>. QED  BY <4>2 DEF next_boot_counter, PlatformConstants
    <3>2. report' = [no_report EXCEPT !.boot_counter = next_boot_counter, !.reset_cause = csr]
      BY <1>1 DEF InitTelemetry
    <3>3. csr \in SUBSET FlagNames
      BY DEF TypeInv
    <3>. QED  BY <3>1, <3>2, <3>3, Zenon DEF no_report, Reports
  <2>2. boots' \in 0..BOOT_COUNTER_MAX
    BY <1>1, CountersAgree DEF InitTelemetry, TypeInv
  <2>3. app' \in Apps
    <3>1. csr \in SUBSET FlagNames /\ app' = [app EXCEPT !.boot_reset_csr = csr]
      BY <1>1 DEF InitTelemetry, TypeInv
    <3>. QED  BY <3>1, Zenon DEF TypeInv, Apps
  <2>. QED  BY <1>1, <2>1, <2>2, <2>3, Zenon DEF InitTelemetry, TypeInv, PCs, board
<1>2. CASE FinishInitTelemetry
  <2>1. report' \in Reports
    BY <1>2, Zenon DEF FinishInitTelemetry, finalize_report, refresh_metadata, TypeInv, Reports
  <2>. QED  BY <1>2, <2>1 DEF FinishInitTelemetry, TypeInv, PCs, board
<1>3. CASE ApplyPolicy
  <2>1. report' \in Reports
    BY <1>3, Zenon DEF ApplyPolicy, TypeInv, Reports
  <2>2. app' \in Apps
    <3>1. PICK v, f \in BOOLEAN :
            app' = [app EXCEPT !.vtor_ok = v, !.self_tests = v /\ f, !.critical = ~(v /\ f),
                      !.policy = platform_evaluate_boot_policy(app.boot_reset_csr, v /\ f)]
      BY <1>3, Zenon DEF ApplyPolicy
    <3>2. platform_evaluate_boot_policy(app.boot_reset_csr, v /\ f) \in Policies
      BY DEF platform_evaluate_boot_policy, Policies
    <3>. QED  BY <3>1, <3>2, Zenon DEF TypeInv, Apps
  <2>. QED  BY <1>3, <2>1, <2>2, Zenon DEF ApplyPolicy, TypeInv, PCs
<1>4. CASE InitProtection
  <2>1. report' \in Reports
    BY <1>4, Zenon DEF InitProtection, finalize_report, TypeInv, Reports
  <2>2. PICK r \in {FALSE, mpu_policy_build_regions} :
          /\ app' = [app EXCEPT !.monitor_ready = image.rsm, !.mpu_ready = r,
                                !.critical = @ \/ ~image.rsm \/ ~r]
          /\ mpu' = mpu_policy_init(r)
    BY <1>4, Zenon DEF InitProtection
  <2>3. r \in BOOLEAN
    BY <2>2, Zenon DEF mpu_policy_build_regions
  <2>4. app' \in Apps
    <3>. DEFINE c == app.critical \/ ~image.rsm \/ ~r
                m == image.rsm
    <3>1. c \in BOOLEAN /\ m \in BOOLEAN
      BY ImageIsBuild
    <3>2. app' = [app EXCEPT !.monitor_ready = m, !.mpu_ready = r, !.critical = c]
      BY <2>2 DEF TypeInv, Apps
    <3>. HIDE DEF c, m
    <3>. QED  BY <2>3, <3>1, <3>2, Zenon DEF TypeInv, Apps
  <2>5. mpu' \in [ctrl : BOOLEAN, saved : BOOLEAN]
    BY <2>2, <2>3 DEF TypeInv, mpu_policy_init
  <2>. QED  BY <1>4, <2>1, <2>4, <2>5 DEF InitProtection, TypeInv, PCs
<1>5. CASE InitWatchdog
  <2>1. PICK r \in BOOLEAN :
          /\ iwdg' = platform_watchdog_init(r)
          /\ app' = [app EXCEPT !.watchdog_ready = r, !.critical = @ \/ ~r]
    BY <1>5, Zenon DEF InitWatchdog
  <2>2. app' \in Apps
    BY <2>1, Zenon DEF TypeInv, Apps
  <2>3. iwdg' \in [counting : BOOLEAN, active : BOOLEAN]
    BY <2>1 DEF platform_watchdog_init
  <2>. QED  BY <1>5, <2>2, <2>3, Zenon DEF InitWatchdog, TypeInv, PCs
<1>. QED  BY <1>1, <1>2, <1>3, <1>4, <1>5, Zenon

\* So does platform_idle, and the fault handler.
LEMMA LoopTypes ==
  ASSUME PlatformConstants, TypeInv,
         \/ \E command \in PlatformCommands : Turn(command)
         \/ test_scenario_service \/ Gate \/ Commit \/ FinishConfirmation
         \/ fault_capture \/ PlatformFault
  PROVE  TypeInv'
<1>1. ASSUME NEW command \in PlatformCommands, Turn(command) PROVE TypeInv'
  <2>1. app' \in Apps
    <3>. DEFINE t == Min({app.ticks + 1, STABLE_TICK + 1})
                c == IF command = "none" THEN app.commands ELSE app.commands + 1
                d == denials_after(command)
    <3>1. app' = [app EXCEPT !.ticks = t, !.commands = c, !.diagnostic_denials = d]
      BY <1>1, Zenon DEF Turn, TypeInv, Apps
    <3>2. app.ticks + 1 \in Nat /\ STABLE_TICK + 1 \in Nat /\ c \in Nat
      BY DEF TypeInv, Apps, PlatformConstants
    <3>3. t \in Nat
      BY <3>2, MinOfTwo
    <3>4. d \in Nat
      <4>1. app.diagnostic_denials \in Nat
        BY DEF TypeInv, Apps
      <4>2. increment(app.diagnostic_denials, UINT32_MAX) \in Nat
        BY <4>1 DEF increment
      <4>. QED  BY <4>1, <4>2, Zenon DEF denials_after
    <3>. HIDE DEF t, c, d
    <3>. QED  BY <3>1, <3>2, <3>3, <3>4, Zenon DEF TypeInv, Apps
  <2>2. fault' \in BOOLEAN /\ captured' \in BOOLEAN
    <3>1. platform_dispatch_command(command)
      BY <1>1, Zenon DEF Turn
    <3>3. UNCHANGED <<fault, captured>> \/ (fault' = FALSE /\ captured' = FALSE)
      BY <3>1, Zenon DEF platform_dispatch_command, print_only
    <3>. QED  BY <3>3, Zenon DEF TypeInv
  <2>. QED  BY <1>1, <2>1, <2>2, Zenon DEF Turn, TypeInv, PCs, board
<1>2. CASE test_scenario_service
  <2>1. CASE ResetBy("software")
    BY <2>1, ResetTypes DEF Kinds
  <2>2. CASE ~ResetBy("software")
    BY <1>2, <2>2, Zenon DEF test_scenario_service, Faulting, TypeInv, PCs, board, platform_history
  <2>. QED  BY <2>1, <2>2
<1>3. CASE Gate
  <2>1. UNCHANGED <<build, metadata, csr, iwdg, fault, last_reset, captured, boots>>
    BY <1>3 DEF Gate
  <2>2. pc' \in PCs
    BY <1>3, Zenon DEF Gate, AskAgain, Conclude, PCs
  <2>3. app' \in Apps
    <3>1. app' = app \/ app' = [app EXCEPT !.terminal = TRUE]
      BY <1>3, Zenon DEF Gate, AskAgain, Conclude
    <3>. QED  BY <3>1, Zenon DEF TypeInv, Apps
  <2>4. mpu' \in [ctrl : BOOLEAN, saved : BOOLEAN]
    <3>1. mpu' = mpu \/ mpu' = [ctrl |-> FALSE, saved |-> mpu.ctrl]
      BY <1>3 DEF Gate, mpu_policy_suspend_for_metadata_commit
    <3>2. mpu \in [ctrl : BOOLEAN, saved : BOOLEAN] /\ mpu.ctrl \in BOOLEAN
      BY DEF TypeInv
    <3>3. [ctrl |-> FALSE, saved |-> mpu.ctrl] \in [ctrl : BOOLEAN, saved : BOOLEAN]
      BY <3>2
    <3>. QED  BY <3>1, <3>2, <3>3, Zenon
  <2>5. report' \in Reports
    <3>1. report' = report \/ report' = [report EXCEPT !.valid = FALSE]
      BY <1>3, Zenon DEF Gate, AskAgain, Conclude
    <3>. QED  BY <3>1, Zenon DEF TypeInv, Reports
  <2>. QED  BY <2>1, <2>2, <2>3, <2>4, <2>5, Zenon DEF TypeInv
<1>4. CASE Commit
  <2>1. /\ UNCHANGED <<build, csr, iwdg, fault, last_reset, captured, boots>>
        /\ mpu' = [mpu EXCEPT !.ctrl = mpu.saved]
        /\ app' = [app EXCEPT !.terminal = TRUE]
        /\ report' = [report EXCEPT !.valid = FALSE]
        /\ pc' = "telemetry_confirmation"
    BY <1>4 DEF Commit, Conclude, mpu_policy_resume_after_metadata_commit
  <2>2. metadata' = metadata
        \/ metadata' = [state |-> "CONFIRMED", attempts |-> 0, result |-> "NONE"]
    BY <1>4, Zenon DEF Commit
  <2>3. /\ metadata'.state \in MetadataStates /\ metadata'.attempts \in Nat
        /\ metadata' = [state |-> metadata'.state, attempts |-> metadata'.attempts,
                        result |-> metadata'.result]
    <3>1. CASE metadata' = metadata
      BY <3>1 DEF TypeInv
    <3>2. CASE metadata' = [state |-> "CONFIRMED", attempts |-> 0, result |-> "NONE"]
      BY <3>2 DEF MetadataStates
    <3>. QED  BY <2>2, <3>1, <3>2
  <2>4. app' \in Apps
    BY <2>1, Zenon DEF TypeInv, Apps
  <2>5. report' \in Reports
    BY <2>1, Zenon DEF TypeInv, Reports
  <2>6. mpu' \in [ctrl : BOOLEAN, saved : BOOLEAN]
    BY <2>1, Zenon DEF TypeInv
  <2>. QED  BY <2>1, <2>3, <2>4, <2>5, <2>6, Zenon DEF TypeInv, PCs
<1>5. CASE FinishConfirmation
  <2>1. report' \in Reports
    BY <1>5, Zenon DEF FinishConfirmation, finalize_report, refresh_metadata, TypeInv, Reports
  <2>. QED  BY <1>5, <2>1 DEF FinishConfirmation, TypeInv, PCs, board, platform_history
<1>6. CASE fault_capture
  BY <1>6 DEF fault_capture, TypeInv, PCs, board
<1>7. CASE PlatformFault
  <2>1. boots' \in 0..BOOT_COUNTER_MAX
    BY <1>7 DEF PlatformFault, TypeInv, PlatformConstants
  <2>. QED  BY <1>7, <2>1, Zenon DEF PlatformFault, Faulting, TypeInv, PCs, board
<1>. QED  BY <1>1, <1>2, <1>3, <1>4, <1>5, <1>6, <1>7, Zenon

\* Every step keeps the types.
LEMMA TypeStep ==
  ASSUME PlatformConstants, TypeInv, [PlatformNext]_platform_vars
  PROVE  TypeInv'
<1>1. CASE PlatformReset
  BY <1>1, ResetTypes DEF PlatformReset, Kinds
<1>2. CASE WatchdogTimeout
  BY <1>2, ResetTypes, Zenon DEF WatchdogTimeout, Kinds
<1>3. CASE UNCHANGED platform_vars
  BY <1>3 DEF TypeInv, platform_vars
<1>. QED  BY <1>1, <1>2, <1>3, StageZeroTypes, BootTypes, LoopTypes, Zenon DEF PlatformNext, Platform

-----------------------------------------------------------------------------
(* The telemetry report.                                                   *)

\* A reset keeps the report as it is, and the boots start anew where it is lost
\* or was being rewritten.
LEMMA ResetReport ==
  ASSUME TypeInv, ReportInv, NEW kind \in Kinds, ResetBy(kind)
  PROVE  ReportInv'
<1>1. pc' = "stage0" /\ metadata' = metadata
  BY DEF ResetBy
<1>2. IF report'.valid THEN report'.boot_counter = boots' ELSE boots' = 0
  <2>1. CASE kind = "power"
    BY <2>1 DEF ResetBy, no_report
  <2>2. CASE kind # "power" /\ RewritingReport
    BY <2>2, Zenon DEF ResetBy, ReportInv
  <2>3. CASE kind # "power" /\ ~RewritingReport
    BY <2>3 DEF ResetBy, ReportInv
  <2>. QED  BY <2>1, <2>2, <2>3, Zenon
<1>. QED  BY <1>1, <1>2, Zenon DEF ReportInv, Reported, RewritingReport

\* Steps that touch neither the report nor what it is about.
LEMMA ReportKept ==
  ASSUME ReportInv, UNCHANGED <<report, metadata, boots>>,
         \/ pc \in Reported /\ pc' \in Reported
         \/ pc \in Reported /\ pc' = "faulting"
         \/ pc \notin Reported /\ ~RewritingReport /\ pc' \in {"start", "recovery", "faulting", "halted"}
  PROVE  ReportInv'
BY Zenon DEF ReportInv, Reported, RewritingReport

\* Every step keeps the report true, or marks it as being rewritten.
LEMMA ReportStep ==
  ASSUME PlatformConstants, TypeInv, ReportInv, [PlatformNext]_platform_vars
  PROVE  ReportInv'
<1>1. CASE PlatformReset
  BY <1>1, ResetReport, Zenon DEF PlatformReset, Kinds
<1>2. CASE WatchdogTimeout
  BY <1>2, ResetReport DEF WatchdogTimeout, Kinds
<1>3. CASE LeaveRecovery
  BY <1>3, ResetReport, Zenon DEF LeaveRecovery, Kinds
<1>4. CASE Select
  <2>1. pc = "stage0" /\ pc' = "start" /\ UNCHANGED <<report, boots>>
    BY <1>4, Zenon DEF Select, platform_history
  <2>. QED  BY <2>1 DEF ReportInv, Reported, RewritingReport
<1>5. CASE SelectFails
  BY <1>5 DEF SelectFails, ReportInv, Reported, RewritingReport
<1>6. CASE InitTelemetry
  <2>1. /\ pc = "start" /\ pc' = "telemetry_init" /\ metadata' = metadata
        /\ report' = [no_report EXCEPT !.boot_counter = next_boot_counter, !.reset_cause = csr]
        /\ boots' = Min({boots + 1, BOOT_COUNTER_MAX})
    BY <1>6 DEF InitTelemetry, board
  <2>2. ~report'.valid /\ report'.boot_counter = next_boot_counter
    BY <2>1 DEF no_report
  <2>3. IF report.valid THEN report.boot_counter = boots ELSE boots = 0
    BY <2>1 DEF ReportInv, Reported, RewritingReport
  <2>4. boots \in 0..BOOT_COUNTER_MAX /\ report.valid \in BOOLEAN
    BY Zenon DEF TypeInv, Reports
  <2>5. next_boot_counter = boots'
    BY <2>1, <2>3, <2>4, CountersAgree, Zenon DEF next_boot_counter
  <2>. QED  BY <2>1, <2>2, <2>5, Zenon DEF ReportInv, Reported, RewritingReport
<1>7. CASE FinishInitTelemetry \/ FinishConfirmation
  <2>1. /\ RewritingReport /\ pc' \in {"captured", "idle"}
        /\ UNCHANGED <<metadata, boots>>
        /\ \E readable \in BOOLEAN : report' = finalize_report(refresh_metadata(report, readable))
    BY <1>7 DEF FinishInitTelemetry, FinishConfirmation, RewritingReport, board, platform_history
  <2>2. /\ report'.valid /\ report'.boot_counter = report.boot_counter
        /\ report'.metadata \in {metadata.state, "UNRECOVERABLE"}
    BY <2>1 DEF finalize_report, refresh_metadata, TypeInv, Reports
  <2>3. report.boot_counter = boots
    BY <2>1 DEF ReportInv
  <2>. QED  BY <2>1, <2>2, <2>3, Zenon DEF ReportInv, Reported, RewritingReport
<1>8. CASE ApplyPolicy
  <2>1. pc = "captured" /\ pc' = "policy" /\ UNCHANGED <<metadata, boots>>
        /\ report' = [report EXCEPT !.valid = FALSE]
    BY <1>8 DEF ApplyPolicy
  <2>2. ~report'.valid /\ report'.boot_counter = report.boot_counter
        /\ report'.metadata = report.metadata
    BY <2>1 DEF TypeInv, Reports
  <2>. QED  BY <2>1, <2>2 DEF ReportInv, Reported, RewritingReport
<1>9. CASE InitProtection
  <2>1. pc = "policy" /\ pc' = "watchdog" /\ UNCHANGED <<metadata, boots>>
        /\ report' = [report EXCEPT !.valid = TRUE]
    BY <1>9, Zenon DEF InitProtection, finalize_report
  <2>2. report'.valid /\ report'.boot_counter = report.boot_counter
        /\ report'.metadata = report.metadata
    BY <2>1 DEF TypeInv, Reports
  <2>. QED  BY <2>1, <2>2 DEF ReportInv, Reported, RewritingReport
<1>10. CASE InitWatchdog
  BY <1>10, ReportKept, Zenon DEF InitWatchdog, Reported
<1>11. CASE \E command \in PlatformCommands : Turn(command)
  BY <1>11, ReportKept DEF Turn, board, Reported
<1>12. CASE test_scenario_service
  <2>1. CASE ResetBy("software")
    BY <2>1, ResetReport DEF Kinds
  <2>2. CASE ~ResetBy("software")
    BY <1>12, <2>2, ReportKept, Zenon DEF test_scenario_service, Faulting, board, platform_history, Reported
  <2>. QED  BY <2>1, <2>2, Zenon
<1>13. CASE Gate
  <2>1. pc = "gate" /\ UNCHANGED <<metadata, boots>>
    BY <1>13 DEF Gate
  <2>2. \/ report' = report /\ pc' \in {"idle", "commit"}
        \/ report' = [report EXCEPT !.valid = FALSE] /\ pc' = "telemetry_confirmation"
    BY <1>13, Zenon DEF Gate, AskAgain, Conclude
  <2>3. CASE report' = report /\ pc' \in {"idle", "commit"}
    BY <2>1, <2>3, ReportKept, Zenon DEF Reported
  <2>4. CASE report' = [report EXCEPT !.valid = FALSE] /\ pc' = "telemetry_confirmation"
    <3>1. ~report'.valid /\ report'.boot_counter = report.boot_counter
      BY <2>4, Zenon DEF TypeInv, Reports
    <3>. QED  BY <2>1, <2>4, <3>1 DEF ReportInv, Reported, RewritingReport
  <2>. QED  BY <2>2, <2>3, <2>4
<1>14. CASE Commit
  <2>1. pc = "commit" /\ boots' = boots /\ pc' = "telemetry_confirmation"
        /\ report' = [report EXCEPT !.valid = FALSE]
    BY <1>14 DEF Commit, Conclude
  <2>2. ~report'.valid /\ report'.boot_counter = report.boot_counter
    BY <2>1 DEF TypeInv, Reports
  <2>. QED  BY <2>1, <2>2 DEF ReportInv, Reported, RewritingReport
<1>15. CASE fault_capture
  BY <1>15, ReportKept, Zenon DEF fault_capture, board, Reported, RewritingReport
<1>16. CASE PlatformFault
  <2>1. pc \in PCs /\ pc \notin {"stage0", "recovery", "faulting", "halted"}
        /\ pc' = "faulting" /\ UNCHANGED <<report, metadata>>
        /\ boots' = IF RewritingReport THEN 0 ELSE boots
    BY <1>16, Zenon DEF PlatformFault, Faulting, board, InApp, TypeInv
  <2>2. CASE RewritingReport
    BY <2>1, <2>2 DEF ReportInv, Reported, RewritingReport
  <2>3. CASE ~RewritingReport
    BY <2>1, <2>3, ReportKept, Zenon DEF PCs, Reported, RewritingReport
  <2>. QED  BY <2>2, <2>3
<1>17. CASE UNCHANGED platform_vars
  BY <1>17 DEF ReportInv, RewritingReport, platform_vars
<1>. QED  BY <1>1, <1>2, <1>3, <1>4, <1>5, <1>6, <1>7, <1>8, <1>9, <1>10, <1>11, <1>12,
             <1>13, <1>14, <1>15, <1>16, <1>17 DEF PlatformNext, Platform

-----------------------------------------------------------------------------
(* The reset cause, from the flags to the console.                         *)

\* What a command leaves of the application's RAM and the report.
LEMMA TurnKeeps ==
  ASSUME TypeInv, NEW command \in PlatformCommands, Turn(command)
  PROVE  /\ app'.boot_reset_csr = app.boot_reset_csr /\ report' = report
         /\ app'.diagnostic_denials = denials_after(command)
         /\ app'.mpu_ready = app.mpu_ready /\ app'.watchdog_ready = app.watchdog_ready
         /\ app'.monitor_ready = app.monitor_ready
<1>. DEFINE t == Min({app.ticks + 1, STABLE_TICK + 1})
            c == IF command = "none" THEN app.commands ELSE app.commands + 1
            d == denials_after(command)
<1>1. app' = [app EXCEPT !.ticks = t, !.commands = c, !.diagnostic_denials = d] /\ report' = report
  BY Zenon DEF Turn, TypeInv, Apps
<1>. HIDE DEF t, c, d
<1>2. /\ app'.boot_reset_csr = app.boot_reset_csr /\ app'.diagnostic_denials = d
      /\ app'.mpu_ready = app.mpu_ready /\ app'.watchdog_ready = app.watchdog_ready
      /\ app'.monitor_ready = app.monitor_ready
  BY <1>1, Zenon DEF TypeInv, Apps
<1>. QED  BY <1>1, <1>2, Zenon DEF d

\* What concluding the confirmation leaves of them.
LEMMA ConcludeKeeps ==
  ASSUME TypeInv, NEW status, Conclude(status)
  PROVE  /\ app'.boot_reset_csr = app.boot_reset_csr /\ report'.reset_cause = report.reset_cause
         /\ app'.diagnostic_denials = app.diagnostic_denials
<1>1. app' = [app EXCEPT !.terminal = TRUE] /\ report' = [report EXCEPT !.valid = FALSE]
  BY Zenon DEF Conclude
<1>. QED  BY <1>1, Zenon DEF TypeInv, Apps, Reports

\* Only the capture and a reset change the reset cause, and only a command or a
\* reset the count of refusals.
LEMMA Carried ==
  ASSUME TypeInv, [PlatformNext]_platform_vars, ~(\E kind : ResetBy(kind))
  PROVE  /\ ~InitTelemetry => /\ app'.boot_reset_csr = app.boot_reset_csr
                              /\ report'.reset_cause = report.reset_cause
         /\ \/ app'.diagnostic_denials = app.diagnostic_denials
            \/ \E command \in PlatformCommands : Turn(command)
<1>1. CASE UNCHANGED <<app, report>>
  BY <1>1, Zenon
<1>2. CASE InitTelemetry
  <2>1. app' = [app EXCEPT !.boot_reset_csr = csr]
    BY <1>2 DEF InitTelemetry
  <2>2. app'.diagnostic_denials = app.diagnostic_denials
    BY <2>1, Zenon DEF TypeInv, Apps
  <2>. QED  BY <1>2, <2>2
<1>3. CASE FinishInitTelemetry \/ FinishConfirmation
  <2>1. PICK readable \in BOOLEAN : report' = finalize_report(refresh_metadata(report, readable))
    BY <1>3, Zenon DEF FinishInitTelemetry, FinishConfirmation
  <2>2. app' = app
    BY <1>3, Zenon DEF FinishInitTelemetry, FinishConfirmation
  <2>3. report'.reset_cause = report.reset_cause
    BY <2>1, Zenon DEF finalize_report, refresh_metadata, TypeInv, Reports
  <2>. QED  BY <2>2, <2>3, Zenon
<1>4. CASE ApplyPolicy
  <2>1. PICK v, f \in BOOLEAN :
          app' = [app EXCEPT !.vtor_ok = v, !.self_tests = v /\ f, !.critical = ~(v /\ f),
                    !.policy = platform_evaluate_boot_policy(app.boot_reset_csr, v /\ f)]
    BY <1>4, Zenon DEF ApplyPolicy
  <2>2. report' = [report EXCEPT !.valid = FALSE]
    BY <1>4, Zenon DEF ApplyPolicy
  <2>3. app'.boot_reset_csr = app.boot_reset_csr /\ app'.diagnostic_denials = app.diagnostic_denials
    BY <2>1, Zenon DEF TypeInv, Apps
  <2>4. report'.reset_cause = report.reset_cause
    BY <2>2, Zenon DEF TypeInv, Reports
  <2>. QED  BY <2>3, <2>4
<1>5. CASE InitProtection
  <2>1. PICK r : app' = [app EXCEPT !.monitor_ready = image.rsm, !.mpu_ready = r,
                                    !.critical = @ \/ ~image.rsm \/ ~r]
    BY <1>5, Zenon DEF InitProtection
  <2>2. report' = [report EXCEPT !.valid = TRUE]
    BY <1>5, Zenon DEF InitProtection, finalize_report
  <2>3. app'.boot_reset_csr = app.boot_reset_csr /\ app'.diagnostic_denials = app.diagnostic_denials
    BY <2>1, Zenon DEF TypeInv, Apps
  <2>4. report'.reset_cause = report.reset_cause
    BY <2>2, Zenon DEF TypeInv, Reports
  <2>. QED  BY <2>3, <2>4
<1>6. CASE InitWatchdog
  <2>1. PICK r : app' = [app EXCEPT !.watchdog_ready = r, !.critical = @ \/ ~r]
    BY <1>6, Zenon DEF InitWatchdog
  <2>2. report' = report
    BY <1>6, Zenon DEF InitWatchdog
  <2>3. app'.boot_reset_csr = app.boot_reset_csr /\ app'.diagnostic_denials = app.diagnostic_denials
    BY <2>1, Zenon DEF TypeInv, Apps
  <2>. QED  BY <2>2, <2>3
<1>7. CASE \E command \in PlatformCommands : Turn(command)
  BY <1>7, TurnKeeps, Zenon
<1>8. CASE \E status : Conclude(status)
  BY <1>8, ConcludeKeeps, Zenon
<1>9. CASE Select \/ SelectFails \/ fault_capture \/ PlatformFault
  <2>1. UNCHANGED <<app, report>>
    BY <1>9 DEF Select, SelectFails, fault_capture, PlatformFault
  <2>. QED  BY <1>1, <2>1, Zenon
<1>10. CASE test_scenario_service
  <2>1. UNCHANGED <<app, report>>
    BY <1>10, Zenon DEF test_scenario_service
  <2>. QED  BY <1>1, <2>1, Zenon
<1>11. CASE Gate \/ Commit
  <2>1. UNCHANGED <<app, report>> \/ \E status : Conclude(status)
    BY <1>11, Zenon DEF Gate, Commit, AskAgain
  <2>. QED  BY <1>1, <1>8, <2>1, Zenon
<1>12. CASE UNCHANGED platform_vars
  BY <1>1, <1>12 DEF platform_vars
<1>13. ~PlatformReset /\ ~WatchdogTimeout /\ ~LeaveRecovery
  BY DEF PlatformReset, WatchdogTimeout, LeaveRecovery
<1>. QED  BY <1>2, <1>3, <1>4, <1>5, <1>6, <1>7, <1>9, <1>10, <1>11, <1>12, <1>13, Zenon
          DEF PlatformNext, Platform

\* Where a step that carries the reset cause on comes from.
LEMMA CarriedFrom ==
  ASSUME [PlatformNext]_platform_vars, pc' \in Carrying, ~InitTelemetry
  PROVE  pc \in Carrying /\ last_reset' = last_reset /\ ~(\E kind : ResetBy(kind))
<1>1. ~(\E kind : ResetBy(kind)) /\ ~PlatformReset /\ ~WatchdogTimeout /\ ~LeaveRecovery
  <2>1. "stage0" \notin Carrying
    BY DEF Carrying, Reported
  <2>2. ~(\E kind : ResetBy(kind))
    BY <2>1, Zenon DEF ResetBy
  <2>. QED  BY <2>2, Zenon DEF PlatformReset, WatchdogTimeout, LeaveRecovery
<1>2. ~Select /\ ~SelectFails /\ ~fault_capture /\ ~PlatformFault
  <2>1. {"start", "recovery", "halted", "faulting"} \cap Carrying = {}
    BY DEF Carrying, Reported
  <2>. QED  BY <2>1, Zenon DEF Select, SelectFails, fault_capture, PlatformFault, Faulting
<1>3. last_reset' = last_reset
  BY <1>1, <1>2, Zenon DEF PlatformNext, Platform, FinishInitTelemetry, ApplyPolicy,
     InitProtection, InitWatchdog, Turn, test_scenario_service, Gate, Commit, FinishConfirmation,
     platform_history, platform_vars
<1>4. pc \in Carrying
  <2>1. CASE UNCHANGED platform_vars
    BY <2>1, Zenon DEF platform_vars
  <2>2. CASE ~UNCHANGED platform_vars
    <3>1. pc \in {"telemetry_init", "captured", "policy", "watchdog", "idle", "scenario", "gate",
                  "commit", "telemetry_confirmation"}
      BY <1>1, <1>2, <2>2, Zenon DEF PlatformNext, Platform, FinishInitTelemetry, ApplyPolicy,
         InitProtection, InitWatchdog, Turn, test_scenario_service, Gate, Commit, FinishConfirmation
    <3>. QED  BY <3>1 DEF Carrying, Reported
  <2>. QED  BY <2>1, <2>2
<1>. QED  BY <1>1, <1>3, <1>4, Zenon

\* The cause captured is the cause reported, from the capture to the end of the boot.
LEMMA CauseStep ==
  ASSUME TypeInv, CauseInv, EvidenceInv, [PlatformNext]_platform_vars
  PROVE  CauseInv'
<1>1. CASE InitTelemetry
  <2>1. /\ pc = "start" /\ last_reset' = last_reset
        /\ report' = [no_report EXCEPT !.boot_counter = next_boot_counter, !.reset_cause = csr]
        /\ app' = [app EXCEPT !.boot_reset_csr = csr]
    BY <1>1 DEF InitTelemetry
  <2>2. report'.reset_cause = csr /\ app'.boot_reset_csr = csr
    BY <2>1, Zenon DEF no_report, TypeInv, Apps
  <2>3. last_reset = "iwdg" => "IWDG" \in csr
    BY <2>1, Zenon DEF EvidenceInv
  <2>. QED  BY <2>1, <2>2, <2>3 DEF CauseInv
<1>2. CASE ~InitTelemetry
  <2>. SUFFICES ASSUME pc' \in Carrying
       PROVE  /\ report'.reset_cause = app'.boot_reset_csr
              /\ last_reset' = "iwdg" => "IWDG" \in app'.boot_reset_csr
    BY DEF CauseInv
  <2>1. pc \in Carrying /\ last_reset' = last_reset /\ ~(\E kind : ResetBy(kind))
    BY <1>2, CarriedFrom, Zenon
  <2>2. app'.boot_reset_csr = app.boot_reset_csr /\ report'.reset_cause = report.reset_cause
    BY <1>2, <2>1, Carried, Zenon
  <2>3. /\ report.reset_cause = app.boot_reset_csr
        /\ last_reset = "iwdg" => "IWDG" \in app.boot_reset_csr
    BY <2>1 DEF CauseInv
  <2>. QED  BY <2>1, <2>2, <2>3
<1>. QED  BY <1>1, <1>2, Zenon

-----------------------------------------------------------------------------
(* The evidence of a bad end.                                              *)

\* A watchdog reset sets its flag; power takes the fault record with it.
LEMMA ResetEvidence ==
  ASSUME EvidenceInv, NEW kind \in Kinds, ResetBy(kind)
  PROVE  EvidenceInv'
<1>1. pc' = "stage0" /\ last_reset' = kind
  BY DEF ResetBy
<1>2. captured' => fault'
  BY Zenon DEF ResetBy, EvidenceInv
<1>3. kind = "iwdg" => "IWDG" \in csr'
  <2>1. ResetFlags["iwdg"] = {"IWDG", "PIN"}
    BY DEF ResetFlags
  <2>. QED  BY <2>1 DEF ResetBy
<1>. QED  BY <1>1, <1>2, <1>3, Zenon DEF EvidenceInv

\* Steps after the boot policy was applied.
LEMMA EvidenceSpent ==
  ASSUME captured' => fault',
         pc' \notin {"stage0", "start", "telemetry_init", "captured", "policy", "watchdog"}
  PROVE  EvidenceInv'
BY DEF EvidenceInv

\* Every step hands the evidence on.
LEMMA EvidenceStep ==
  ASSUME TypeInv, CauseInv, EvidenceInv, [PlatformNext]_platform_vars
  PROVE  EvidenceInv'
<1>1. CASE PlatformReset
  BY <1>1, ResetEvidence, Zenon DEF PlatformReset, Kinds
<1>2. CASE WatchdogTimeout
  BY <1>2, ResetEvidence DEF WatchdogTimeout, Kinds
<1>3. CASE LeaveRecovery
  BY <1>3, ResetEvidence, Zenon DEF LeaveRecovery, Kinds
<1>4. CASE Select
  <2>1. pc = "stage0" /\ pc' = "start" /\ UNCHANGED <<csr, fault, captured, last_reset>>
    BY <1>4, Zenon DEF Select, platform_history
  <2>2. ASSUME last_reset = "iwdg", metadata'.state = "PENDING_TRIAL"
        PROVE  metadata'.result = "IWDG"
    <3>. DEFINE r == reset_cause_primary_kind_from_raw(csr)
    <3>1. r = "IWDG"
      BY <2>1, <2>2, WatchdogFirst, Zenon DEF EvidenceInv
    <3>. HIDE DEF r
    <3>2. CASE metadata.state # "PENDING_TRIAL"
      <4>1. metadata' = metadata
        BY <1>4, <3>2 DEF Select
      <4>. QED  BY <2>2, <3>2, <4>1
    <3>3. CASE metadata.state = "PENDING_TRIAL" /\ metadata.attempts > 0
      <4>1. metadata' = [metadata EXCEPT !.attempts = @ - 1, !.result = r]
        BY <1>4, <3>3, Zenon DEF Select, r
      <4>. QED  BY <3>1, <4>1 DEF TypeInv
    <3>4. CASE metadata.state = "PENDING_TRIAL" /\ ~(metadata.attempts > 0)
      <4>1. metadata' = [state |-> "REJECTED_INVALID", attempts |-> 0,
                         result |-> "ATTEMPTS_EXHAUSTED"]
        BY <1>4, <3>4, Zenon DEF Select
      <4>. QED  BY <2>2, <4>1
    <3>. QED  BY <3>2, <3>3, <3>4
  <2>. QED  BY <2>1, <2>2 DEF EvidenceInv
<1>5. CASE SelectFails
  BY <1>5, EvidenceSpent DEF SelectFails, EvidenceInv
<1>6. CASE InitTelemetry
  BY <1>6, Zenon DEF InitTelemetry, board, EvidenceInv
<1>7. CASE FinishInitTelemetry
  BY <1>7 DEF FinishInitTelemetry, board, EvidenceInv
<1>8. CASE ApplyPolicy
  <2>1. pc = "captured" /\ pc' = "policy" /\ UNCHANGED <<fault, captured, last_reset>>
    BY <1>8, Zenon DEF ApplyPolicy
  <2>2. PICK v, f \in BOOLEAN :
          app' = [app EXCEPT !.vtor_ok = v, !.self_tests = v /\ f, !.critical = ~(v /\ f),
                    !.policy = platform_evaluate_boot_policy(app.boot_reset_csr, v /\ f)]
    BY <1>8, Zenon DEF ApplyPolicy
  <2>3. app'.policy = platform_evaluate_boot_policy(app.boot_reset_csr, v /\ f)
    BY <2>2 DEF TypeInv, Apps
  <2>4. "IWDG" \in app.boot_reset_csr \/ fault
          => platform_evaluate_boot_policy(app.boot_reset_csr, v /\ f) \in {"DEGRADED", "FAULT"}
    BY DEF platform_evaluate_boot_policy
  <2>5. last_reset = "iwdg" \/ captured => "IWDG" \in app.boot_reset_csr \/ fault
    BY <2>1, Zenon DEF CauseInv, Carrying, Reported, EvidenceInv
  <2>. QED  BY <2>1, <2>3, <2>4, <2>5, Zenon DEF EvidenceInv
<1>9. CASE InitProtection
  <2>1. /\ pc = "policy" /\ pc' = "watchdog" /\ UNCHANGED <<fault, captured, last_reset>>
        /\ \E r : app' = [app EXCEPT !.monitor_ready = image.rsm, !.mpu_ready = r,
                                      !.critical = @ \/ ~image.rsm \/ ~r]
    BY <1>9, Zenon DEF InitProtection
  <2>2. app'.policy = app.policy
    BY <2>1 DEF TypeInv, Apps
  <2>. QED  BY <2>1, <2>2, Zenon DEF EvidenceInv
<1>10. CASE InitWatchdog
  BY <1>10, EvidenceSpent DEF InitWatchdog, EvidenceInv
<1>11. CASE \E command \in PlatformCommands : Turn(command)
  <2>1. PICK command \in PlatformCommands : Turn(command)
    BY <1>11
  <2>2. UNCHANGED <<fault, captured>> \/ (fault' = FALSE /\ captured' = FALSE)
    <3>1. platform_dispatch_command(command)
      BY <2>1 DEF Turn
    <3>. QED  BY <3>1, Zenon DEF platform_dispatch_command, print_only
  <2>. QED  BY <2>1, <2>2, EvidenceSpent DEF Turn, EvidenceInv
<1>12. CASE test_scenario_service
  <2>1. CASE ResetBy("software")
    BY <2>1, ResetEvidence DEF Kinds
  <2>2. CASE ~ResetBy("software")
    <3>1. captured => fault
      BY DEF EvidenceInv
    <3>2. /\ pc' \in {"hung", "faulting", "gate"}
          /\ UNCHANGED <<captured, fault>> \/ captured' = FALSE
      BY <1>12, <2>2, Zenon DEF test_scenario_service, Faulting, platform_history
    <3>. QED  BY <3>1, <3>2, EvidenceSpent
  <2>. QED  BY <2>1, <2>2, Zenon
<1>13. CASE Gate
  BY <1>13, EvidenceSpent, Zenon DEF Gate, AskAgain, Conclude, EvidenceInv
<1>14. CASE Commit
  BY <1>14, EvidenceSpent, Zenon DEF Commit, Conclude, EvidenceInv
<1>15. CASE FinishConfirmation
  BY <1>15, EvidenceSpent DEF FinishConfirmation, platform_history, EvidenceInv
<1>16. CASE fault_capture
  BY <1>16, EvidenceSpent, Zenon DEF fault_capture
<1>17. CASE PlatformFault
  BY <1>17, EvidenceSpent DEF PlatformFault, Faulting
<1>18. CASE UNCHANGED platform_vars
  BY <1>18, Zenon DEF EvidenceInv, platform_vars
<1>. QED  BY <1>1, <1>2, <1>3, <1>4, <1>5, <1>6, <1>7, <1>8, <1>9, <1>10, <1>11, <1>12,
             <1>13, <1>14, <1>15, <1>16, <1>17, <1>18 DEF PlatformNext, Platform

-----------------------------------------------------------------------------
(* The MPU, the watchdog and the confirmation.                             *)

\* Steps that leave the main loop.
LEMMA ProtectionOver ==
  ASSUME pc' \notin Looping \cup {"commit", "watchdog"}
  PROVE  ProtectionInv'
BY DEF ProtectionInv

\* Steps within the main loop.
LEMMA ProtectionKept ==
  ASSUME ProtectionInv, pc \in Looping, pc' \in Looping,
         UNCHANGED <<build, metadata, mpu, iwdg>>,
         app'.mpu_ready = app.mpu_ready, app'.watchdog_ready = app.watchdog_ready,
         app'.monitor_ready = app.monitor_ready
  PROVE  ProtectionInv'
BY Zenon DEF ProtectionInv, Looping, image

\* Every step keeps what the image believes of its protection true.
LEMMA ProtectionStep ==
  ASSUME TypeInv, ProtectionInv, [PlatformNext]_platform_vars
  PROVE  ProtectionInv'
<1>1. CASE \E kind \in Kinds : ResetBy(kind)
  BY <1>1, ProtectionOver, Zenon DEF ResetBy, Looping
<1>2. CASE PlatformReset \/ WatchdogTimeout \/ LeaveRecovery
  BY <1>1, <1>2, Zenon DEF PlatformReset, WatchdogTimeout, LeaveRecovery, Kinds
<1>3. CASE Select \/ SelectFails \/ InitTelemetry \/ FinishInitTelemetry \/ ApplyPolicy
           \/ fault_capture \/ PlatformFault
  <2>1. pc' \in {"start", "recovery", "telemetry_init", "captured", "policy", "halted", "faulting"}
    BY <1>3, Zenon DEF Select, SelectFails, InitTelemetry, FinishInitTelemetry, ApplyPolicy,
                fault_capture, PlatformFault, Faulting
  <2>. QED  BY <2>1, ProtectionOver, Zenon DEF Looping
<1>4. CASE InitProtection
  <2>1. PICK r :
          /\ app' = [app EXCEPT !.monitor_ready = image.rsm, !.mpu_ready = r,
                                !.critical = @ \/ ~image.rsm \/ ~r]
          /\ mpu' = [mpu EXCEPT !.ctrl = r]
    BY <1>4, Zenon DEF InitProtection, mpu_policy_init
  <2>2. app'.mpu_ready = r /\ mpu'.ctrl = r /\ app'.monitor_ready = image.rsm
    BY <2>1, Zenon DEF TypeInv, Apps
  <2>3. pc' = "watchdog" /\ UNCHANGED <<build, metadata>>
    BY <1>4, Zenon DEF InitProtection
  <2>4. image' = image
    BY <2>3, Zenon DEF image
  <2>. QED  BY <2>2, <2>3, <2>4, Zenon DEF ProtectionInv, Looping
<1>5. CASE InitWatchdog
  <2>1. PICK r \in BOOLEAN :
          /\ iwdg' = [counting |-> TRUE, active |-> r]
          /\ app' = [app EXCEPT !.watchdog_ready = r, !.critical = @ \/ ~r]
    BY <1>5, Zenon DEF InitWatchdog, platform_watchdog_init
  <2>2. app'.watchdog_ready = r /\ app'.mpu_ready = app.mpu_ready
        /\ app'.monitor_ready = app.monitor_ready
    BY <2>1 DEF TypeInv, Apps
  <2>3. pc = "watchdog" /\ pc' = "idle" /\ mpu' = mpu /\ UNCHANGED <<build, metadata>>
    BY <1>5, Zenon DEF InitWatchdog
  <2>4. image' = image
    BY <2>3 DEF image
  <2>. QED  BY <2>1, <2>2, <2>3, <2>4, Zenon DEF ProtectionInv, Looping
<1>6. CASE \E command \in PlatformCommands : Turn(command)
  <2>1. PICK command \in PlatformCommands : Turn(command)
    BY <1>6
  <2>2. app'.mpu_ready = app.mpu_ready /\ app'.watchdog_ready = app.watchdog_ready
        /\ app'.monitor_ready = app.monitor_ready
    BY <2>1, TurnKeeps, Zenon
  <2>. QED  BY <2>1, <2>2, ProtectionKept, Zenon DEF Turn, board, Looping
<1>7. CASE test_scenario_service
  <2>1. CASE ResetBy("software")
    BY <1>1, <2>1, Zenon DEF Kinds
  <2>2. CASE pc' = "faulting"
    BY <2>2, ProtectionOver, Zenon DEF Looping
  <2>3. CASE pc' \in {"hung", "gate"} /\ UNCHANGED <<board, app>>
    BY <1>7, <2>3, ProtectionKept, Zenon DEF test_scenario_service, board, Looping
  <2>. QED  BY <1>7, <2>1, <2>2, <2>3, Zenon DEF test_scenario_service, Faulting
<1>8. CASE Gate
  <2>1. pc = "gate" /\ UNCHANGED <<build, metadata, iwdg>>
    BY <1>8, Zenon DEF Gate
  <2>2. CASE /\ "COMMITTING" \in Findings /\ pc' = "commit"
             /\ mpu' = mpu_policy_suspend_for_metadata_commit /\ app' = app
    <3>1. platform_confirmation_health_gate
      <4>1. CASE ~app.vtor_ok
        BY <2>2, <4>1 DEF Findings
      <4>2. CASE app.vtor_ok /\ ~platform_confirmation_health_gate
        BY <2>2, <4>2, Zenon DEF Findings
      <4>. QED  BY <4>1, <4>2, Zenon DEF TypeInv, Apps
    <3>2. platform_confirmation_health_gate'
      BY <2>1, <2>2, <3>1
         DEF platform_confirmation_health_gate, basically_healthy, test_scenario_stable,
             test_scenario_health_ok, metadata_allows_confirmation, image
    <3>3. app.mpu_ready
      BY <3>1, Zenon DEF platform_confirmation_health_gate
    <3>4. mpu'.saved /\ ~mpu'.ctrl
      BY <2>1, <2>2, <3>3 DEF mpu_policy_suspend_for_metadata_commit, ProtectionInv, Looping
    <3>5. image' = image
      BY <2>1, Zenon DEF image
    <3>. QED  BY <2>1, <2>2, <3>2, <3>4, <3>5, Zenon DEF ProtectionInv, Looping
  <2>3. CASE pc' = "idle" /\ app' = app /\ mpu' = mpu
    BY <2>1, <2>3, ProtectionKept DEF Looping
  <2>4. CASE pc' = "telemetry_confirmation" /\ app' = [app EXCEPT !.terminal = TRUE] /\ mpu' = mpu
    <3>1. app'.mpu_ready = app.mpu_ready /\ app'.watchdog_ready = app.watchdog_ready
          /\ app'.monitor_ready = app.monitor_ready
      BY <2>4 DEF TypeInv, Apps
    <3>. QED  BY <2>1, <2>4, <3>1, ProtectionKept, Zenon DEF Looping
  <2>. QED  BY <1>8, <2>2, <2>3, <2>4, Zenon DEF Gate, AskAgain, Conclude
<1>9. CASE Commit
  <2>1. /\ pc = "commit" /\ pc' = "telemetry_confirmation" /\ iwdg' = iwdg
        /\ mpu' = [mpu EXCEPT !.ctrl = mpu.saved]
        /\ app' = [app EXCEPT !.terminal = TRUE]
    BY <1>9 DEF Commit, Conclude, mpu_policy_resume_after_metadata_commit
  <2>2. app'.mpu_ready = app.mpu_ready /\ app'.watchdog_ready = app.watchdog_ready
        /\ app'.monitor_ready = app.monitor_ready /\ mpu'.ctrl = mpu.saved
    BY <2>1, Zenon DEF TypeInv, Apps
  <2>3. mpu.saved /\ app.mpu_ready /\ metadata.state \in {"PENDING_TRIAL", "CONFIRMED"}
    BY <2>1 DEF ProtectionInv, platform_confirmation_health_gate, metadata_allows_confirmation
  <2>4. metadata' = metadata
        \/ metadata' = [state |-> "CONFIRMED", attempts |-> 0, result |-> "NONE"]
    BY <1>9, Zenon DEF Commit
  <2>5. metadata'.state \in {"PENDING_TRIAL", "CONFIRMED"} /\ build' = build
    BY <1>9, <2>3, <2>4 DEF Commit
  <2>6. image' = image
    BY <2>3, <2>5, Zenon DEF image
  <2>. QED  BY <2>1, <2>2, <2>3, <2>6, Zenon DEF ProtectionInv, Looping
<1>10. CASE FinishConfirmation
  BY <1>10, ProtectionKept, Zenon DEF FinishConfirmation, board, Looping
<1>11. CASE UNCHANGED platform_vars
  BY <1>11 DEF ProtectionInv, platform_confirmation_health_gate, basically_healthy,
               test_scenario_stable, test_scenario_health_ok, metadata_allows_confirmation,
               image, platform_vars
<1>. QED  BY <1>2, <1>3, <1>4, <1>5, <1>6, <1>7, <1>8, <1>9, <1>10, <1>11 DEF PlatformNext, Platform

-----------------------------------------------------------------------------
(* The event log.                                                          *)

\* Quotient and remainder.
LEMMA Division ==
  ASSUME NEW C \in Nat \ {0}, NEW x \in Nat
  PROVE  x \div C \in Nat /\ x = C * (x \div C) + (x % C) /\ x % C \in 0..C - 1
OBVIOUS

\* Numbers less than a ring apart have places of their own in it.
LEMMA PlacesDiffer ==
  ASSUME NEW C \in Nat \ {0}, NEW x \in Nat, NEW y \in Nat, x < y, y - x < C
  PROVE  x % C # y % C
<1>. SUFFICES ASSUME x % C = y % C PROVE FALSE
  OBVIOUS
<1>. DEFINE p == x \div C
            q == y \div C
<1>1. p \in Nat /\ x = C * p + (x % C) /\ x % C \in 0..C - 1
  BY Division, Zenon
<1>2. q \in Nat /\ y = C * q + (y % C)
  BY Division, Zenon
<1>. HIDE DEF p, q
<1>3. y - x = C * q - C * p
  BY <1>1, <1>2
<1>4. C * q - C * p = C * (q - p)
  BY <1>1, <1>2
<1>5. q - p >= 1
  BY <1>1, <1>2, <1>3, <1>4, SMTT(30)
<1>6. C * (q - p) >= C
  BY <1>1, <1>2, <1>5
<1>. QED  BY <1>1, <1>2, <1>3, <1>4, <1>6

OneMore(a, top) == IF a < top THEN a + 1 ELSE a

\* One more write is one more held or one more dropped.
LEMMA DropCounted ==
  ASSUME NEW U \in Nat \ {0}, NEW C \in Nat \ {0}, NEW c \in 0..C, NEW a, NEW d,
         Dropped(d, a, c, U, C)
  PROVE  /\ Dropped(increment(d, U), OneMore(a, U + C), c, U, C)
         /\ c < C => Dropped(d, OneMore(a, U + C), c + 1, U, C)
<1>1. CASE a < U + C
  BY <1>1 DEF increment, Dropped, OneMore
<1>2. CASE a = U + C
  <2>1. d = U /\ OneMore(a, U + C) = a
    BY <1>2 DEF Dropped, OneMore
  <2>. QED  BY <1>2, <2>1 DEF increment, Dropped
<1>. QED  BY <1>1, <1>2 DEF Dropped

\* Of the c1 last numbers the older ones were among the c last before, and are
\* less than a ring away from the newest.
LEMMA StillHeld ==
  ASSUME NEW C \in Nat \ {0}, NEW n \in Nat, NEW c \in 0..C, c <= n
  PROVE  \A s \in LastNumbers(n + 1, IF c < C THEN c + 1 ELSE c) :
           s = n + 1 \/ (s \in LastNumbers(n, c) /\ s \in 1..n /\ s - 1 \in Nat
                          /\ s - 1 < n /\ n - (s - 1) < C)
BY DEF LastNumbers

\* w1 is w with e at its end.
Longer(w1, w, e, S) ==
  /\ w1 \in Seq(S)
  /\ Len(w1) = Len(w) + 1
  /\ w1[Len(w) + 1] = e
  /\ \A s \in 1..Len(w) : w1[s] = w[s]

\* What Append returns.
LEMMA Appended ==
  ASSUME NEW S, NEW w \in Seq(S), NEW e \in S
  PROVE  Longer(Append(w, e), w, e, S)
BY AppendProperties DEF Longer

\* One write: the event takes the next number and the place of the oldest one,
\* or is dropped when the numbers are used up.
LEMMA LogWrite ==
  ASSUME PlatformConstants, NEW l, NEW w, NEW a, LogOf(l, w, a), NEW e \in EventNames
  PROVE  LogOf(log_write(l, e), IF Len(w) < UINT32_MAX THEN Append(w, e) ELSE w,
               OneMore(a, UINT32_MAX + LOG_CAPACITY))
<1>. DEFINE n == Len(w)
            C == LOG_CAPACITY
            k == l.count
            d == l.dropped
            recs == l.records
            a1 == OneMore(a, UINT32_MAX + C)
            r == log_write(l, e)
            w1 == IF n < UINT32_MAX THEN Append(w, e) ELSE w
<1>. SUFFICES LogOf(r, w1, a1)
  BY Zenon
<1>1. C \in Nat \ {0} /\ UINT32_MAX \in Nat \ {0}
  BY DEF PlatformConstants
<1>2. w \in Seq(EventNames) /\ n \in Nat /\ n <= UINT32_MAX
  BY DEF LogOf
<1>3. k \in 0..C /\ k <= n /\ Dropped(d, a, k, UINT32_MAX, C)
  BY Zenon DEF LogOf
<1>4. recs \in [0..C - 1 -> [sequence : Nat, event : EventNames]]
      /\ \A s \in LastNumbers(n, k) : recs[(s - 1) % C] = [sequence |-> s, event |-> w[s]]
  BY Zenon DEF LogOf
<1>5. l = [records |-> recs, next_sequence |-> l.next_sequence, count |-> k, dropped |-> d]
  BY DEF LogOf
<1>6. l.next_sequence = IF n = UINT32_MAX THEN 0 ELSE n + 1
  BY DEF LogOf
<1>7. CASE n = UINT32_MAX
  <2>. DEFINE i == increment(d, UINT32_MAX)
  <2>1. r = [records |-> recs, next_sequence |-> 0, count |-> k, dropped |-> i]
    <3>1. r = [l EXCEPT !.dropped = increment(@, UINT32_MAX)]
      BY <1>6, <1>7, Zenon DEF log_write
    <3>. HIDE DEF r
    <3>. QED  BY <1>5, <1>6, <1>7, <3>1, Zenon
  <2>2. Dropped(i, a1, k, UINT32_MAX, C)
    BY <1>1, <1>3, DropCounted, Zenon
  <2>. HIDE DEF a1, i, r, k, d, recs
  <2>3. w1 = w
    <3>1. ~(n < UINT32_MAX)
      BY <1>1, <1>7
    <3>. QED  BY <3>1, Zenon
  <2>4. LogOf(r, w, a1)
    BY <1>2, <1>3, <1>4, <1>7, <2>1, <2>2, Zenon DEF LogOf
  <2>. HIDE DEF w1
  <2>. QED  BY <2>3, <2>4
<1>8. CASE n < UINT32_MAX
  <2>. DEFINE p == n % C
              rec == [sequence |-> n + 1, event |-> e]
              recs1 == [recs EXCEPT ![p] = rec]
              c1 == IF k < C THEN k + 1 ELSE k
              d1 == IF k < C THEN d ELSE increment(d, UINT32_MAX)
              s1 == IF n + 1 = UINT32_MAX THEN 0 ELSE (n + 1) + 1
  <2>1. l.next_sequence = n + 1 /\ l.next_sequence # 0 /\ l.next_sequence - 1 = n
    BY <1>1, <1>2, <1>6, <1>8
  <2>2. r = [records |-> recs1, next_sequence |-> s1, count |-> c1, dropped |-> d1]
    <3>1. r = [l EXCEPT !.records[p] = rec,
                 !.count = IF @ < C THEN @ + 1 ELSE @,
                 !.dropped = IF k < C THEN @ ELSE increment(@, UINT32_MAX),
                 !.next_sequence = IF @ = UINT32_MAX THEN 0 ELSE @ + 1]
      BY <2>1 DEF log_write
    <3>. HIDE DEF r, p, rec
    <3>. QED  BY <1>5, <2>1, <3>1, Zenon
  <2>3. w1 \in Seq(EventNames) /\ Len(w1) = n + 1 /\ w1[n + 1] = e
        /\ \A s \in 1..n : w1[s] = w[s]
    <3>1. w1 = Append(w, e)
      BY <1>8, Zenon
    <3>2. Longer(Append(w, e), w, e, EventNames)
      BY <1>2, Appended, Zenon
    <3>. HIDE DEF w1
    <3>. QED  BY <3>1, <3>2, Zenon DEF Longer
  <2>. HIDE DEF k, d, recs, a1, r
  <2>4. c1 \in 0..C /\ c1 <= n + 1
    BY <1>1, <1>2, <1>3, SMTT(30)
  <2>5. Dropped(d1, a1, c1, UINT32_MAX, C)
    <3>1. CASE k < C
      BY <1>1, <1>3, <3>1, DropCounted, Zenon DEF a1
    <3>2. CASE ~(k < C)
      BY <1>1, <1>3, <3>2, DropCounted, Zenon DEF a1
    <3>. QED  BY <3>1, <3>2, Zenon
  <2>6. p \in 0..C - 1
    BY <1>1, <1>2, Division, Zenon
  <2>. HIDE DEF p
  <2>7. recs1 \in [0..C - 1 -> [sequence : Nat, event : EventNames]]
    BY <1>2, <1>4, <2>6
  <2>8. \A s \in LastNumbers(n + 1, c1) :
           recs1[(s - 1) % C] = [sequence |-> s, event |-> w1[s]]
    <3>. SUFFICES ASSUME NEW s \in LastNumbers(n + 1, c1)
         PROVE  recs1[(s - 1) % C] = [sequence |-> s, event |-> w1[s]]
      BY Zenon
    <3>1. CASE s = n + 1
      <4>. HIDE DEF n, w1
      <4>1. w1[s] = e
        BY <2>3, <3>1, Zenon
      <4>2. (s - 1) % C = p
        <5>1. s - 1 = n
          BY <1>2, <3>1
        <5>. QED  BY <5>1 DEF p
      <4>. QED  BY <1>4, <2>6, <3>1, <4>1, <4>2
    <3>2. CASE s # n + 1
      <4>1. s \in LastNumbers(n, k) /\ s \in 1..n /\ s - 1 \in Nat /\ s - 1 < n /\ n - (s - 1) < C
        BY <1>1, <1>2, <1>3, <3>2, StillHeld, Zenon
      <4>2. (s - 1) % C # p
        BY <1>1, <1>2, <4>1, PlacesDiffer, Zenon DEF p
      <4>3. (s - 1) % C \in 0..C - 1
        BY <1>1, <4>1, Division, Zenon
      <4>4. recs[(s - 1) % C] = [sequence |-> s, event |-> w[s]] /\ w1[s] = w[s]
        BY <1>4, <2>3, <4>1, Zenon
      <4>. HIDE DEF rec, w1
      <4>. QED  BY <1>4, <4>2, <4>3, <4>4
    <3>. QED  BY <3>1, <3>2, Zenon
  <2>9. s1 = IF Len(w1) = UINT32_MAX THEN 0 ELSE Len(w1) + 1
    BY <2>3
  <2>10. n + 1 <= UINT32_MAX
    BY <1>1, <1>2, <1>8, SMTT(30)
  <2>. HIDE DEF recs1, c1, d1, s1, w1
  <2>11. LogOf(r, w1, a1)
    BY <2>2, <2>3, <2>4, <2>5, <2>7, <2>8, <2>9, <2>10, Zenon DEF LogOf
  <2>. QED  BY <2>11, Zenon
<1>9. n = UINT32_MAX \/ n < UINT32_MAX
  BY <1>1, <1>2
<1>. QED  BY <1>7, <1>8, <1>9

\* Every nonempty set of naturals has a least member.
LEMMA LeastElement ==
  ASSUME NEW T, T \subseteq Nat, T # {}
  PROVE  \E x \in T : \A y \in T : x <= y
<1>. DEFINE R == OpToRel(<, Nat)
<1>1. IsWellFoundedOn(R, Nat)
  BY NatLessThanWellFounded, Zenon
<1>2. \A x, y \in Nat : <<y, x>> \in R <=> y < x
  BY DEF OpToRel
<1>. HIDE DEF R
<1>3. PICK x \in T : \A y \in T : ~ (<<y, x>> \in R)
  BY <1>1, WFMin, Zenon
<1>4. \A y \in T : x \in Nat /\ y \in Nat /\ ~(y < x)
  BY <1>2, <1>3, Zenon
<1>5. \A y \in T : x <= y
  BY <1>4
<1>. QED  BY <1>5

\* A set that has 0, and n + 1 whenever it has n, has every natural.
LEMMA SetInduction ==
  ASSUME NEW S, 0 \in S, \A n \in Nat : n \in S => n + 1 \in S
  PROVE  Nat \subseteq S
<1>. DEFINE T == Nat \ S
<1>. SUFFICES ASSUME T # {} PROVE FALSE
  BY Zenon
<1>1. PICK x \in T : \A y \in T : x <= y
  <2>1. T \subseteq Nat
    OBVIOUS
  <2>. HIDE DEF T
  <2>. QED  BY <2>1, LeastElement, Zenon
<1>2. x \in Nat /\ x # 0 /\ x \notin S
  OBVIOUS
<1>3. x - 1 \in Nat /\ x - 1 + 1 = x
  BY <1>2
<1>4. x - 1 \in T
  BY <1>2, <1>3
<1>. QED  BY <1>1, <1>2, <1>3, <1>4

\* One element more of a sequence.
LEMMA PrefixGrows ==
  ASSUME NEW S, NEW x \in Seq(S), NEW m \in 0..(Len(x) - 1)
  PROVE  Append(SubSeq(x, 1, m), x[m + 1]) = SubSeq(x, 1, m + 1)
<1>. DEFINE y == SubSeq(x, 1, m)
            z == SubSeq(x, 1, m + 1)
            e == x[m + 1]
<1>1. Len(x) \in Nat /\ \A i \in 1..Len(x) : x[i] \in S
  BY LenProperties
<1>2. m \in Int /\ m + 1 \in Int /\ m >= 0 /\ m + 1 <= Len(x)
  BY <1>1
<1>3. (\A i \in 1..m : x[i] \in S) /\ (\A i \in 1..(m + 1) : x[i] \in S)
  BY <1>1, <1>2
<1>4. y \in Seq(S) /\ Len(y) = m /\ \A i \in 1..m : y[i] = x[i]
  <2>1. y \in Seq(S) /\ Len(y) = (IF 1 <= m THEN m - 1 + 1 ELSE 0)
        /\ \A i \in 1..(m - 1 + 1) : y[i] = x[1 + i - 1]
    BY <1>2, <1>3, SubSeqProperties
  <2>. HIDE DEF y
  <2>. QED  BY <1>2, <2>1
<1>5. z \in Seq(S) /\ Len(z) = m + 1 /\ \A i \in 1..(m + 1) : z[i] = x[i]
  <2>1. z \in Seq(S) /\ Len(z) = (IF 1 <= m + 1 THEN m + 1 - 1 + 1 ELSE 0)
        /\ \A i \in 1..(m + 1 - 1 + 1) : z[i] = x[1 + i - 1]
    BY <1>2, <1>3, SubSeqProperties
  <2>. HIDE DEF z
  <2>. QED  BY <1>2, <2>1
<1>6. e \in S
  BY <1>2, <1>3
<1>. HIDE DEF y, z, e
<1>7. Longer(Append(y, e), y, e, S)
  BY <1>4, <1>6, Appended, Zenon
<1>8. \A i \in 1..(m + 1) : Append(y, e)[i] = z[i]
  BY <1>2, <1>4, <1>5, <1>7 DEF Longer, e
<1>9. Append(y, e) \in Seq(S) /\ Len(Append(y, e)) = Len(z)
  BY <1>4, <1>5, <1>7 DEF Longer
<1>10. Append(y, e) = z
  BY <1>5, <1>8, <1>9, SeqEqual, Zenon
<1>. QED  BY <1>10, Zenon DEF y, z, e

\* x, but no more than top.
UpTo(x, top) == IF x <= top THEN x ELSE top

\* The histories after k of the events are written.
AfterWrites(l1, w, a, events, k) ==
  LogOf(l1, SubSeq(w \o events, 1, UpTo(Len(w) + k, UINT32_MAX)),
        UpTo(a + k, UINT32_MAX + LOG_CAPACITY))

\* Counting one more up to a limit.
LEMMA UpToGrows ==
  ASSUME NEW x \in Nat, NEW k \in Nat, NEW top \in Nat
  PROVE  OneMore(UpTo(x + k, top), top) = UpTo(x + (k + 1), top)
BY DEF OneMore, UpTo

\* The first events numbered, one write later.
LEMMA NumberedGrows ==
  ASSUME NEW S, NEW w \in Seq(S), NEW events \in Seq(S), NEW U \in Nat,
         Len(w) <= U, NEW k \in 0..(Len(events) - 1)
  PROVE  LET v == SubSeq(w \o events, 1, UpTo(Len(w) + k, U))
         IN  SubSeq(w \o events, 1, UpTo(Len(w) + (k + 1), U))
               = IF Len(v) < U THEN Append(v, events[k + 1]) ELSE v
<1>. DEFINE x == w \o events
            m == UpTo(Len(w) + k, U)
            v == SubSeq(x, 1, m)
<1>1. Len(w) \in Nat /\ Len(events) \in Nat
  BY LenProperties
<1>2. x \in Seq(S) /\ Len(x) = Len(w) + Len(events)
      /\ \A i \in 1..(Len(w) + Len(events)) :
           x[i] = IF i <= Len(w) THEN w[i] ELSE events[i - Len(w)]
  BY ConcatProperties, Zenon
<1>3. \A i \in 1..Len(x) : x[i] \in S
  BY <1>2, LenProperties, Zenon
<1>. HIDE DEF x
<1>4. m \in Nat /\ m <= Len(x) /\ m <= U
  BY <1>1, <1>2 DEF UpTo
<1>5. Len(v) = m
  <2>1. m \in Int /\ \A i \in 1..m : x[i] \in S
    BY <1>1, <1>2, <1>3, <1>4
  <2>. HIDE DEF m
  <2>2. Len(v) = IF 1 <= m THEN m - 1 + 1 ELSE 0
    BY <2>1, SubSeqProperties
  <2>. QED  BY <1>4, <2>2
<1>6. CASE Len(w) + k < U
  <2>1. m = Len(w) + k /\ UpTo(Len(w) + (k + 1), U) = m + 1 /\ m < U /\ m \in 0..(Len(x) - 1)
        /\ m + 1 \in 1..(Len(w) + Len(events)) /\ ~(m + 1 <= Len(w)) /\ m + 1 - Len(w) = k + 1
    BY <1>1, <1>2, <1>6 DEF UpTo
  <2>. HIDE DEF m
  <2>2. x[m + 1] = events[k + 1]
    BY <1>2, <2>1
  <2>3. Append(v, x[m + 1]) = SubSeq(x, 1, m + 1)
    BY <1>2, <2>1, PrefixGrows, Zenon
  <2>. HIDE DEF v
  <2>4. SubSeq(x, 1, UpTo(Len(w) + (k + 1), U)) = IF Len(v) < U THEN Append(v, events[k + 1]) ELSE v
    BY <1>5, <2>1, <2>2, <2>3, Zenon
  <2>. QED  BY <2>4, Zenon DEF v, m, x
<1>7. CASE ~(Len(w) + k < U)
  <2>1. m = U /\ UpTo(Len(w) + (k + 1), U) = m
    BY <1>1, <1>7 DEF UpTo
  <2>. HIDE DEF m
  <2>2. ~(Len(v) < U)
    BY <1>5, <2>1
  <2>. HIDE DEF v
  <2>3. SubSeq(x, 1, UpTo(Len(w) + (k + 1), U)) = IF Len(v) < U THEN Append(v, events[k + 1]) ELSE v
    BY <2>1, <2>2, Zenon DEF v
  <2>. QED  BY <2>3, Zenon DEF v, m, x
<1>. QED  BY <1>6, <1>7, Zenon

\* g is the log after 0, 1, ..., n of the events.
Wrote(g, l, events, n) ==
  /\ g = [i \in 0..n |-> g[i]]
  /\ g[0] = l
  /\ \A k \in 1..n : g[k] = log_write(g[k - 1], events[k])

\* Any number of events can be written.
LEMMA CanWrite ==
  ASSUME NEW l, NEW events, NEW N \in Nat
  PROVE  \E g : Wrote(g, l, events, N)
<1>. DEFINE S == {n \in Nat : \E g : Wrote(g, l, events, n)}
<1>1. 0 \in S
  <2>. DEFINE g == [i \in 0..0 |-> l]
  <2>1. Wrote(g, l, events, 0)
    BY DEF Wrote
  <2>. QED  BY <2>1, Zenon
<1>2. ASSUME NEW n \in Nat, n \in S PROVE n + 1 \in S
  <2>1. PICK g : Wrote(g, l, events, n)
    BY <1>2, Zenon
  <2>. DEFINE e == log_write(g[n], events[n + 1])
              h == [i \in 0..(n + 1) |-> IF i = n + 1 THEN e ELSE g[i]]
  <2>2. /\ h = [i \in 0..(n + 1) |-> h[i]] /\ h[0] = g[0] /\ h[n + 1] = e
        /\ \A k \in 0..n : h[k] = g[k]
    <3>. HIDE DEF e
    <3>. QED  OBVIOUS
  <2>. HIDE DEF h
  <2>3. ASSUME NEW k \in 1..(n + 1) PROVE h[k] = log_write(h[k - 1], events[k])
    <3>1. CASE k = n + 1
      <4>1. k - 1 = n /\ n \in 0..n
        BY <3>1
      <4>. QED  BY <2>2, <3>1, <4>1, Zenon
    <3>2. CASE k # n + 1
      <4>1. k \in 1..n /\ k \in 0..n /\ k - 1 \in 0..n
        BY <3>2
      <4>. QED  BY <2>1, <2>2, <4>1, Zenon DEF Wrote
    <3>. QED  BY <3>1, <3>2
  <2>4. Wrote(h, l, events, n + 1)
    BY <2>1, <2>2, <2>3, Zenon DEF Wrote
  <2>. QED  BY <2>4
<1>. HIDE DEF S
<1>3. Nat \subseteq S
  BY <1>1, <1>2, SetInduction
<1>. QED  BY <1>3 DEF S

\* Writing several events is writing them one after the other.
LEMMA LogWritten ==
  ASSUME PlatformConstants, NEW l, NEW w, NEW a, LogOf(l, w, a), NEW events \in Seq(EventNames)
  PROVE  AfterWrites(log_writes(l, events), w, a, events, Len(events))
<1>. DEFINE N == Len(events)
            U == UINT32_MAX
            top == UINT32_MAX + LOG_CAPACITY
            after == CHOOSE g : g = [k \in 0..N |->
                       IF k = 0 THEN l ELSE log_write(g[k - 1], events[k])]
<1>1. log_writes(l, events) = after[N]
  BY DEF log_writes
<1>2. N \in Nat /\ \A k \in 1..N : events[k] \in EventNames
  BY LenProperties, Zenon
<1>3. U \in Nat /\ top \in Nat /\ w \in Seq(EventNames) /\ Len(w) \in Nat /\ Len(w) <= U
      /\ a \in Nat /\ a <= top
  BY DEF LogOf, Dropped, PlatformConstants
<1>. HIDE DEF N
<1>4. PICK g : Wrote(g, l, events, N)
  BY <1>2, CanWrite, Zenon
<1>5. g = [k \in 0..N |-> IF k = 0 THEN l ELSE log_write(g[k - 1], events[k])]
  <2>1. ASSUME NEW k \in 0..N PROVE g[k] = IF k = 0 THEN l ELSE log_write(g[k - 1], events[k])
    <3>1. CASE k = 0
      BY <1>4, <3>1, Zenon DEF Wrote
    <3>2. CASE k # 0
      <4>1. k \in 1..N
        BY <1>2, <3>2
      <4>. QED  BY <1>4, <3>2, <4>1, Zenon DEF Wrote
    <3>. QED  BY <3>1, <3>2
  <2>2. g = [k \in 0..N |-> g[k]]
    BY <1>4, Zenon DEF Wrote
  <2>. QED  BY <2>1, <2>2, Zenon
<1>6. after = [k \in 0..N |-> IF k = 0 THEN l ELSE log_write(after[k - 1], events[k])]
  BY <1>5, Zenon
<1>. HIDE DEF after
<1>. DEFINE S == {k \in Nat : k <= N => AfterWrites(after[k], w, a, events, k)}
<1>7. 0 \in S
  <2>1. after[0] = l
    BY <1>2, <1>6
  <2>2. UpTo(Len(w) + 0, U) = Len(w) /\ UpTo(a + 0, top) = a
    BY <1>3 DEF UpTo
  <2>3. SubSeq(w \o events, 1, Len(w)) = w
    <3>. DEFINE x == w \o events
                y == SubSeq(x, 1, Len(w))
    <3>1. x \in Seq(EventNames) /\ Len(x) = Len(w) + Len(events)
          /\ \A i \in 1..(Len(w) + Len(events)) :
               x[i] = IF i <= Len(w) THEN w[i] ELSE events[i - Len(w)]
      BY <1>3, ConcatProperties, Zenon
    <3>. HIDE DEF x
    <3>2. \A i \in 1..Len(w) : x[i] = w[i] /\ w[i] \in EventNames
      <4>1. \A i \in 1..Len(w) : w[i] \in EventNames
        BY <1>3, LenProperties, Zenon
      <4>. QED  BY <1>2, <1>3, <3>1, <4>1 DEF N
    <3>3. y \in Seq(EventNames) /\ Len(y) = (IF 1 <= Len(w) THEN Len(w) - 1 + 1 ELSE 0)
          /\ \A i \in 1..(Len(w) - 1 + 1) : y[i] = x[1 + i - 1]
      <4>1. \A i \in 1..Len(w) : x[i] \in EventNames
        BY <3>2, Zenon
      <4>. QED  BY <1>3, <4>1, SubSeqProperties
    <3>. HIDE DEF y
    <3>4. y \in Seq(EventNames) /\ Len(y) = Len(w) /\ \A i \in 1..Len(y) : y[i] = w[i]
      BY <1>3, <3>2, <3>3
    <3>5. y = w
      BY <1>3, <3>4, SeqEqual, Zenon
    <3>. QED  BY <3>5 DEF x, y
  <2>4. AfterWrites(after[0], w, a, events, 0)
    BY <2>1, <2>2, <2>3, Zenon DEF AfterWrites
  <2>. QED  BY <2>4, Zenon
<1>8. ASSUME NEW k \in Nat, k \in S PROVE k + 1 \in S
  <2>. SUFFICES ASSUME k + 1 <= N PROVE AfterWrites(after[k + 1], w, a, events, k + 1)
    OBVIOUS
  <2>. DEFINE v == SubSeq(w \o events, 1, UpTo(Len(w) + k, U))
              b == UpTo(a + k, top)
              e == events[k + 1]
              l1 == after[k]
  <2>1. k \in 0..(N - 1) /\ k <= N /\ k + 1 \in 0..N /\ k + 1 # 0 /\ k + 1 - 1 = k /\ k + 1 \in 1..N
    BY <1>2
  <2>2. LogOf(l1, v, b)
    BY <1>8, <2>1, Zenon DEF AfterWrites
  <2>3. after[k + 1] = log_write(l1, e)
    BY <1>6, <2>1
  <2>4. e \in EventNames
    BY <1>2, <2>1, Zenon
  <2>5. SubSeq(w \o events, 1, UpTo(Len(w) + (k + 1), U)) = IF Len(v) < U THEN Append(v, e) ELSE v
    BY <1>3, <2>1, NumberedGrows, Zenon DEF N
  <2>6. UpTo(a + (k + 1), top) = OneMore(b, top)
    BY <1>3, UpToGrows, Zenon
  <2>. HIDE DEF v, b, e, l1
  <2>7. LogOf(log_write(l1, e), IF Len(v) < U THEN Append(v, e) ELSE v, OneMore(b, top))
    BY <2>2, <2>4, LogWrite
  <2>. QED  BY <2>3, <2>5, <2>6, <2>7, Zenon DEF AfterWrites
<1>. HIDE DEF S
<1>9. Nat \subseteq S
  BY <1>7, <1>8, SetInduction, Zenon
<1>10. AfterWrites(after[N], w, a, events, N)
  BY <1>2, <1>9 DEF S
<1>. QED  BY <1>1, <1>10, Zenon DEF N

\* Logs keeps the log and its histories together.
LEMMA LogsKeeps ==
  ASSUME PlatformConstants, LogInv, NEW events \in Seq(EventNames), Logs(events)
  PROVE  LogInv'
<1>. DEFINE U == UINT32_MAX
            top == UINT32_MAX + LOG_CAPACITY
            x == written \o events
<1>1. U \in Nat /\ top \in Nat /\ written \in Seq(EventNames) /\ Len(written) \in Nat /\ asked \in Nat
  BY DEF LogInv, LogOf, Dropped, PlatformConstants
<1>2. Len(events) \in Nat
  BY LenProperties
<1>3. Len(x) = Len(written) + Len(events)
  BY <1>1, ConcatProperties
<1>4. Min({Len(x), U}) = UpTo(Len(written) + Len(events), U)
  <2>1. Len(x) \in Nat
    BY <1>1, <1>2, <1>3
  <2>. HIDE DEF x
  <2>2. Min({Len(x), U}) = IF Len(x) <= U THEN Len(x) ELSE U
    BY <1>1, <2>1, MinOfTwo
  <2>. QED  BY <1>3, <2>2 DEF UpTo
<1>5. Min({top, asked + Len(events)}) = UpTo(asked + Len(events), top)
  <2>. DEFINE b == asked + Len(events)
  <2>1. b \in Nat
    BY <1>1, <1>2
  <2>. HIDE DEF b, top
  <2>2. Min({top, b}) = IF top <= b THEN top ELSE b
    BY <1>1, <2>1, MinOfTwo
  <2>3. Min({top, b}) = UpTo(b, top)
    BY <1>1, <2>1, <2>2 DEF UpTo
  <2>. QED  BY <2>3 DEF b, top
<1>6. AfterWrites(log_writes(log, events), written, asked, events, Len(events))
  BY LogWritten DEF LogInv
<1>7. /\ log' = log_writes(log, events)
      /\ written' = SubSeq(x, 1, Min({Len(x), U}))
      /\ asked' = Min({top, asked + Len(events)})
  BY DEF Logs
<1>8. LogOf(log', written', asked')
  BY <1>4, <1>5, <1>6, <1>7 DEF AfterWrites
<1>. QED  BY <1>8, Zenon DEF LogInv

\* log_init and log_clear leave nothing to list and nothing dropped.
LEMMA LogEmptied ==
  ASSUME PlatformConstants
  PROVE  /\ LogOf(log_init, <<>>, 0)
         /\ \A l, w, a : LogOf(l, w, a) => LogOf(log_clear(l), w, 0)
<1>1. LogOf(log_init, <<>>, 0)
  <2>. DEFINE E == EventNames
              none == [sequence |-> 0, event |-> "none"]
              recs == [slot \in 0..LOG_CAPACITY - 1 |-> none]
  <2>1. <<>> \in Seq(E) /\ Len(<<>>) = 0
    OBVIOUS
  <2>2. recs \in [0..LOG_CAPACITY - 1 -> [sequence : Nat, event : E]]
    <3>1. "none" \in E
      BY DEF EventNames
    <3>. HIDE DEF E
    <3>2. none \in [sequence : Nat, event : E]
      BY <3>1
    <3>. HIDE DEF none
    <3>. QED  BY <3>2
  <2>3. \A s \in LastNumbers(0, 0) : FALSE
    BY DEF LastNumbers
  <2>4. Dropped(0, 0, 0, UINT32_MAX, LOG_CAPACITY)
    BY DEF Dropped, PlatformConstants
  <2>5. log_init = [records |-> recs, next_sequence |-> 1, count |-> 0, dropped |-> 0]
    BY Zenon DEF log_init
  <2>6. 0 \in 0..LOG_CAPACITY /\ 0 <= UINT32_MAX /\ UINT32_MAX # 0
    BY DEF PlatformConstants
  <2>. HIDE DEF recs, none, E
  <2>7. LogOf(log_init, <<>>, 0)
    BY <2>1, <2>2, <2>3, <2>4, <2>5, <2>6, SMTT(30) DEF LogOf, E
  <2>. QED  BY <2>7
<1>2. ASSUME NEW l, NEW w, NEW a, LogOf(l, w, a) PROVE LogOf(log_clear(l), w, 0)
  <2>. DEFINE r == log_clear(l)
              k == l.count
              d == l.dropped
              n == l.next_sequence
              recs == l.records
  <2>1. l = [records |-> recs, next_sequence |-> n, count |-> k, dropped |-> d]
    BY <1>2, Zenon DEF LogOf
  <2>2. /\ recs \in [0..LOG_CAPACITY - 1 -> [sequence : Nat, event : EventNames]]
        /\ w \in Seq(EventNames) /\ Len(w) <= UINT32_MAX
        /\ n = IF Len(w) = UINT32_MAX THEN 0 ELSE Len(w) + 1
    BY <1>2 DEF LogOf
  <2>3. Len(w) \in Nat /\ 0 <= Len(w)
    BY <2>2, LenProperties
  <2>4. \A s \in LastNumbers(Len(w), 0) : FALSE
    BY <2>3 DEF LastNumbers
  <2>5. Dropped(0, 0, 0, UINT32_MAX, LOG_CAPACITY) /\ 0 \in 0..LOG_CAPACITY
    BY DEF Dropped, PlatformConstants
  <2>6. r = [l EXCEPT !.count = 0, !.dropped = 0]
    BY DEF log_clear
  <2>. HIDE DEF r
  <2>7. r = [records |-> recs, next_sequence |-> n, count |-> 0, dropped |-> 0]
    BY <2>1, <2>6, Zenon
  <2>. HIDE DEF recs, n, k, d
  <2>8. LogOf(r, w, 0)
    BY <2>2, <2>3, <2>4, <2>5, <2>7 DEF LogOf
  <2>. QED  BY <2>8 DEF r
<1>. QED  BY <1>1, <1>2

\* The sequences over a set that the model writes down.
Listed(S) ==
  /\ <<>> \in Seq(S)
  /\ \A a \in S : <<a>> \in Seq(S)
  /\ \A a, b, c \in S : <<a, b, c>> \in Seq(S)
  /\ \A s, t \in Seq(S) : s \o t \in Seq(S)

LEMMA SequencesListed ==
  ASSUME NEW S
  PROVE  Listed(S)
  BY DEF Listed

\* A step that writes a sequence of events of S.
Writes(S) == \E events \in Seq(S) : Logs(events)

\* What every handler passes to event_log_write, with and without the monitor.
LEMMA Written ==
  ASSUME NEW S, NEW a \in S, NEW b \in S, NEW c \in S
  PROVE  /\ Logs(<<a>>) => Writes(S)
         /\ Logs(rsm_events(<<a>>)) => Writes(S)
         /\ Logs(rsm_events(<<a, b, c>>)) => Writes(S)
         /\ Logs(rsm_events(<<a>>) \o <<b>>) => Writes(S)
         /\ Logs(<<>>) => Writes(S)
<1>1. Listed(S)
  BY SequencesListed
<1>2. <<>> \in Seq(S) /\ <<a>> \in Seq(S) /\ <<b>> \in Seq(S) /\ <<a, b, c>> \in Seq(S)
  BY <1>1, Zenon DEF Listed
<1>3. rsm_events(<<a>>) \in Seq(S) /\ rsm_events(<<a, b, c>>) \in Seq(S)
  BY <1>2, Zenon DEF rsm_events
<1>4. rsm_events(<<a>>) \o <<b>> \in Seq(S)
  BY <1>1, <1>2, <1>3, Zenon DEF Listed
<1>. QED  BY <1>2, <1>3, <1>4, Zenon DEF Writes

\* The events that are not a refusal.
OtherNames == EventNames \ {"DIAG_RESTRICTED_DENIED"}

\* A step that refuses a command counts it and writes that.
Refuses ==
  /\ Logs(<<"DIAG_RESTRICTED_DENIED">>)
  /\ app'.diagnostic_denials = increment(app.diagnostic_denials, UINT32_MAX)

\* What a command does to the log and the count of refusals.
LEMMA TurnLogs ==
  ASSUME TypeInv, NEW command \in PlatformCommands, Turn(command)
  PROVE  \/ Refuses
         \/ /\ app'.diagnostic_denials = app.diagnostic_denials
            /\ \/ Writes(OtherNames)
               \/ UNCHANGED <<log, written, asked>>
               \/ log' = log_clear(log) /\ asked' = 0 /\ written' = written
<1>1. platform_dispatch_command(command) /\ app'.diagnostic_denials = denials_after(command)
  BY TurnKeeps, Zenon DEF Turn
<1>4. refused(command) => command # "health acknowledge"
  BY Zenon DEF refused, RestrictedCommands
<1>2. CASE refused(command) /\ image.rsm
  <2>1. Logs(rsm_events(<<"DIAG_RESTRICTED_DENIED">>))
    BY <1>1, <1>2, <1>4, Zenon DEF platform_dispatch_command, print_only
  <2>2. Logs(<<"DIAG_RESTRICTED_DENIED">>)
    <3>1. rsm_events(<<"DIAG_RESTRICTED_DENIED">>) = <<"DIAG_RESTRICTED_DENIED">>
      BY <1>2, Zenon DEF rsm_events
    <3>. QED  BY <2>1, <3>1
  <2>3. denials_after(command) = increment(app.diagnostic_denials, UINT32_MAX)
    BY <1>2, Zenon DEF denials_after
  <2>. QED  BY <1>1, <2>2, <2>3, Zenon DEF Refuses
<1>3. CASE ~(refused(command) /\ image.rsm)
  <2>1. denials_after(command) = app.diagnostic_denials
    BY <1>3, Zenon DEF denials_after
  <2>2. "HEALTH_ACK" \in OtherNames
    BY DEF OtherNames, EventNames
  <2>3. CASE refused(command)
    <3>1. Logs(rsm_events(<<"DIAG_RESTRICTED_DENIED">>))
      BY <1>1, <1>4, <2>3, Zenon DEF platform_dispatch_command, print_only
    <3>2. Logs(<<>>)
      <4>1. rsm_events(<<"DIAG_RESTRICTED_DENIED">>) = <<>>
        BY <1>3, <2>3, Zenon DEF rsm_events
      <4>. QED  BY <3>1, <4>1
    <3>3. Writes(OtherNames)
      BY <2>2, <3>2, Written, Zenon
    <3>. QED  BY <1>1, <2>1, <3>3
  <2>4. CASE ~refused(command)
    <3>1. \/ Logs(<<"HEALTH_ACK">>)
          \/ UNCHANGED <<log, written, asked>>
          \/ log' = log_clear(log) /\ asked' = 0 /\ written' = written
      BY <1>1, <2>4, Zenon DEF platform_dispatch_command, print_only
    <3>2. Logs(<<"HEALTH_ACK">>) => Writes(OtherNames)
      BY <2>2, Written, Zenon
    <3>. QED  BY <1>1, <2>1, <3>1, <3>2
  <2>. QED  BY <2>3, <2>4
<1>. QED  BY <1>2, <1>3

\* Every step refuses a command, writes other events, clears the log, starts it
\* anew, or leaves it alone.
LEMMA LogCases ==
  ASSUME TypeInv, [PlatformNext]_platform_vars
  PROVE  \/ \E kind : ResetBy(kind)
         \/ Refuses
         \/ /\ app'.diagnostic_denials = app.diagnostic_denials
            /\ \/ Writes(OtherNames)
               \/ UNCHANGED <<log, written, asked>>
               \/ log' = log_clear(log) /\ asked' = 0 /\ written' = written
<1>. SUFFICES ASSUME ~(\E kind : ResetBy(kind)), \A command \in PlatformCommands : ~Turn(command)
     PROVE  Writes(OtherNames) \/ UNCHANGED <<log, written, asked>>
  BY Carried, TurnLogs, Zenon
<1>6. {"BOOT_RESET", "BOOT_FAULT_RECORD", "SELFTEST_FAILED", "EVIDENCE_RUNTIME_READY",
       "RESET_CAUSE_CAPTURED", "HEALTH_GATE_FAILED", "CONFIRMATION"}
        \subseteq OtherNames
  BY DEF OtherNames, EventNames
<1>7. ~PlatformReset /\ ~WatchdogTimeout /\ ~LeaveRecovery
  BY DEF PlatformReset, WatchdogTimeout, LeaveRecovery
<1>8. CASE Select \/ SelectFails \/ InitTelemetry \/ FinishConfirmation \/ fault_capture \/ PlatformFault
  <2>1. UNCHANGED <<log, written, asked>>
    BY <1>8 DEF Select, SelectFails, InitTelemetry, FinishConfirmation, fault_capture, PlatformFault, platform_history
  <2>. QED  BY <2>1
<1>9. CASE FinishInitTelemetry
  <2>1. Logs(<<"BOOT_RESET">>)
    BY <1>9 DEF FinishInitTelemetry
  <2>. QED  BY <1>6, <2>1, Written, Zenon
<1>10. CASE ApplyPolicy
  <2>. DEFINE a(f) == IF f THEN <<"BOOT_FAULT_RECORD">> ELSE <<>>
              b(t) == IF t THEN <<>> ELSE <<"SELFTEST_FAILED">>
  <2>1. PICK t : Logs(a(fault) \o b(t))
    BY <1>10 DEF ApplyPolicy
  <2>2. Listed(OtherNames)
    BY SequencesListed
  <2>3. a(fault) \in Seq(OtherNames) /\ b(t) \in Seq(OtherNames)
    BY <1>6, <2>2, Zenon DEF Listed
  <2>. HIDE DEF a, b
  <2>4. a(fault) \o b(t) \in Seq(OtherNames)
    BY <2>2, <2>3, Zenon DEF Listed
  <2>5. Writes(OtherNames)
    BY <2>1, <2>4, Zenon DEF Writes
  <2>. QED  BY <2>5
<1>11. CASE InitProtection
  <2>1. PICK r \in {FALSE, mpu_policy_build_regions} :
          Logs(rsm_events(<<"EVIDENCE_RUNTIME_READY", "RESET_CAUSE_CAPTURED",
                 IF r THEN "MPU_POLICY_INITIALIZED" ELSE "MPU_POLICY_FAILED">>))
    BY <1>11, Zenon DEF InitProtection
  <2>. DEFINE e == IF r THEN "MPU_POLICY_INITIALIZED" ELSE "MPU_POLICY_FAILED"
  <2>2. e \in OtherNames
    BY DEF OtherNames, EventNames
  <2>. HIDE DEF e
  <2>3. Logs(rsm_events(<<"EVIDENCE_RUNTIME_READY", "RESET_CAUSE_CAPTURED", e>>))
    BY <2>1, Zenon DEF e
  <2>. QED  BY <1>6, <2>2, <2>3, Written, Zenon
<1>12. CASE InitWatchdog
  <2>1. PICK r : Logs(rsm_events(<<IF r THEN "WATCHDOG_INITIALIZED" ELSE "WATCHDOG_INIT_FAILED">>))
    BY <1>12 DEF InitWatchdog
  <2>. DEFINE e == IF r THEN "WATCHDOG_INITIALIZED" ELSE "WATCHDOG_INIT_FAILED"
  <2>2. e \in OtherNames
    BY DEF OtherNames, EventNames
  <2>. HIDE DEF e
  <2>3. Logs(rsm_events(<<e>>))
    BY <2>1, Zenon DEF e
  <2>. QED  BY <2>2, <2>3, Written, Zenon
<1>14. CASE test_scenario_service
  BY <1>14, Zenon DEF test_scenario_service, platform_history
<1>15. ASSUME NEW status, Conclude(status) PROVE Writes(OtherNames)
  <2>. DEFINE e == IF status = "OK" THEN "HEALTH_GATE_PASSED" ELSE "HEALTH_GATE_FAILED"
  <2>1. e \in OtherNames
    BY DEF OtherNames, EventNames
  <2>2. Logs(rsm_events(<<e>>) \o <<"CONFIRMATION">>)
    BY <1>15 DEF Conclude
  <2>. HIDE DEF e
  <2>. QED  BY <1>6, <2>1, <2>2, Written, Zenon
<1>16. CASE Gate
  <2>1. \/ UNCHANGED <<log, written, asked>>
        \/ AskAgain
        \/ \E status : Conclude(status)
    BY <1>16 DEF Gate
  <2>2. CASE AskAgain
    <3>1. Logs(rsm_events(<<"HEALTH_GATE_FAILED">>))
      BY <2>2 DEF AskAgain
    <3>. QED  BY <1>6, <3>1, Written, Zenon
  <2>. QED  BY <1>15, <2>1, <2>2
<1>17. CASE Commit
  BY <1>15, <1>17 DEF Commit
<1>18. CASE UNCHANGED platform_vars
  BY <1>18 DEF platform_vars
<1>. QED  BY <1>7, <1>8, <1>9, <1>10, <1>11, <1>12, <1>14, <1>16, <1>17, <1>18, SMTT(30)
          DEF PlatformNext, Platform

\* Every step keeps the log and its histories together.
LEMMA LogStep ==
  ASSUME PlatformConstants, TypeInv, LogInv, [PlatformNext]_platform_vars
  PROVE  LogInv'
<1>1. CASE Writes(OtherNames)
  <2>1. PICK events \in Seq(OtherNames) : Logs(events)
    BY <1>1 DEF Writes
  <2>2. events \in Seq(EventNames)
    BY DEF OtherNames
  <2>. QED  BY <2>1, <2>2, LogsKeeps
<1>2. CASE UNCHANGED <<log, written, asked>>
  BY <1>2, Zenon DEF LogInv
<1>3. CASE \E kind : ResetBy(kind)
  <2>1. log' = log_init /\ written' = <<>> /\ asked' = 0
    BY <1>3 DEF ResetBy
  <2>. QED  BY <2>1, LogEmptied DEF LogInv
<1>4. CASE log' = log_clear(log) /\ asked' = 0 /\ written' = written
  BY <1>4, LogEmptied DEF LogInv
<1>5. CASE Refuses
  <2>1. <<"DIAG_RESTRICTED_DENIED">> \in Seq(EventNames)
    BY DEF EventNames
  <2>. QED  BY <1>5, <2>1, LogsKeeps, Zenon DEF Refuses
<1>. QED  BY <1>1, <1>2, <1>3, <1>4, <1>5, LogCases, Zenon

-----------------------------------------------------------------------------
(* The refusals.                                                           *)

\* While numbers are left, the events written are at the end of those numbered.
LEMMA AllNumbered ==
  ASSUME PlatformConstants, LogInv, NEW events \in Seq(EventNames), Logs(events),
         Len(written') < UINT32_MAX
  PROVE  /\ written' = written \o events
         /\ written \in Seq(EventNames) /\ Len(written) <= Len(written')
<1>. DEFINE x == written \o events
            U == UINT32_MAX
<1>1. written \in Seq(EventNames) /\ U \in Nat
  BY DEF LogInv, LogOf, PlatformConstants
<1>2. Len(written) \in Nat /\ Len(events) \in Nat
  BY <1>1, LenProperties
<1>3. x \in Seq(EventNames) /\ Len(x) = Len(written) + Len(events) /\ Len(x) \in Nat
  BY <1>1, <1>2, ConcatProperties
<1>4. written' = SubSeq(x, 1, Min({Len(x), U}))
  BY DEF Logs
<1>. HIDE DEF x
<1>5. Min({Len(x), U}) = IF Len(x) <= U THEN Len(x) ELSE U
  BY <1>1, <1>3, MinOfTwo
<1>6. CASE Len(x) <= U
  <2>1. written' = SubSeq(x, 1, Len(x))
    BY <1>4, <1>5, <1>6, Zenon
  <2>2. SubSeq(x, 1, Len(x)) = x
    BY <1>3
  <2>. QED  BY <1>1, <1>2, <1>3, <2>1, <2>2 DEF x
<1>7. CASE ~(Len(x) <= U)
  <2>1. written' = SubSeq(x, 1, U) /\ U \in 0..Len(x)
    BY <1>1, <1>3, <1>4, <1>5, <1>7
  <2>2. Len(SubSeq(x, 1, U)) = U
    BY <1>3, <2>1
  <2>. QED  BY <1>1, <2>1, <2>2
<1>. QED  BY <1>6, <1>7

\* The refusals numbered are finitely many, no more than there are numbers.
LEMMA DeniedFinite ==
  ASSUME NEW w \in Seq(EventNames)
  PROVE  IsFiniteSet(Denied(w)) /\ Cardinality(Denied(w)) \in Nat /\ Cardinality(Denied(w)) <= Len(w)
<1>1. Len(w) \in Nat
  BY LenProperties
<1>2. IsFiniteSet(1..Len(w)) /\ Cardinality(1..Len(w)) = Len(w)
  <2>1. IsFiniteSet(1..Len(w)) /\ Cardinality(1..Len(w)) = IF 1 > Len(w) THEN 0 ELSE Len(w) - 1 + 1
    BY <1>1, FS_Interval
  <2>. QED  BY <1>1, <2>1
<1>3. Denied(w) \subseteq 1..Len(w)
  BY DEF Denied
<1>. QED  BY <1>2, <1>3, FS_Subset, FS_CardinalityType

\* One refusal more, and events that are none.
LEMMA DeniedGrows ==
  ASSUME NEW w \in Seq(EventNames)
  PROVE  /\ \A events \in Seq(OtherNames) : Denied(w \o events) = Denied(w)
         /\ Cardinality(Denied(w \o <<"DIAG_RESTRICTED_DENIED">>)) = Cardinality(Denied(w)) + 1
<1>1. Len(w) \in Nat
  BY LenProperties
<1>2. ASSUME NEW events \in Seq(OtherNames) PROVE Denied(w \o events) = Denied(w)
  <2>1. events \in Seq(EventNames)
    BY DEF OtherNames
  <2>2. Len(events) \in Nat /\ \A i \in 1..Len(events) : events[i] # "DIAG_RESTRICTED_DENIED"
    BY LenProperties DEF OtherNames
  <2>. DEFINE x == w \o events
  <2>3. Len(x) = Len(w) + Len(events)
        /\ \A i \in 1..(Len(w) + Len(events)) : x[i] = IF i <= Len(w) THEN w[i] ELSE events[i - Len(w)]
    BY <2>1, ConcatProperties
  <2>. HIDE DEF x
  <2>4. \A i \in 1..Len(x) : x[i] = "DIAG_RESTRICTED_DENIED" => i <= Len(w) /\ x[i] = w[i]
    <3>. SUFFICES ASSUME NEW i \in 1..Len(x), ~(i <= Len(w)) PROVE x[i] # "DIAG_RESTRICTED_DENIED"
      BY <2>3
    <3>1. x[i] = events[i - Len(w)] /\ i - Len(w) \in 1..Len(events)
      BY <1>1, <2>2, <2>3
    <3>. QED  BY <2>2, <3>1
  <2>5. \A i \in 1..Len(w) : i \in 1..Len(x) /\ x[i] = w[i]
    BY <1>1, <2>2, <2>3
  <2>6. \A i \in 1..Len(x) : i <= Len(w) => i \in 1..Len(w)
    BY <1>1
  <2>7. Denied(x) = Denied(w)
    BY <2>4, <2>5, <2>6, Zenon DEF Denied
  <2>. QED  BY <2>7 DEF x
<1>3. Cardinality(Denied(w \o <<"DIAG_RESTRICTED_DENIED">>)) = Cardinality(Denied(w)) + 1
  <2>. DEFINE d == "DIAG_RESTRICTED_DENIED"
              x == w \o <<d>>
              n == Len(w)
  <2>1. <<d>> \in Seq(EventNames) /\ Len(<<d>>) = 1 /\ <<d>>[1] = d
    BY DEF EventNames
  <2>2. Len(x) = n + 1 /\ x[n + 1] = d /\ \A i \in 1..n : x[i] = w[i]
    BY <1>1, <2>1, ConcatProperties
  <2>. HIDE DEF x, n, d
  <2>3. \A i : i \in 1..Len(x) <=> i \in 1..n \/ i = n + 1
    BY <1>1, <2>2 DEF n
  <2>4. Denied(x) = Denied(w) \cup {n + 1}
    BY <2>2, <2>3, Zenon DEF Denied, n, d
  <2>5. n + 1 \notin Denied(w)
    BY <1>1 DEF Denied, n
  <2>6. IsFiniteSet(Denied(w))
    BY DeniedFinite
  <2>7. Cardinality(Denied(w) \cup {n + 1}) = Cardinality(Denied(w)) + 1
    BY <2>5, <2>6, FS_AddElement, Zenon
  <2>. QED  BY <2>4, <2>7, Zenon DEF x, d
<1>. QED  BY <1>2, <1>3

\* Every refusal is counted as it is written, and nothing else is.
LEMMA DenialStep ==
  ASSUME PlatformConstants, TypeInv, LogInv, DenialInv, [PlatformNext]_platform_vars
  PROVE  DenialInv'
<1>1. UINT32_MAX \in Nat /\ written \in Seq(EventNames)
  BY DEF PlatformConstants, LogInv, LogOf
<1>2. Len(written) \in Nat
  BY <1>1, LenProperties
<1>3. CASE \E kind : ResetBy(kind)
  <2>1. app' = no_app /\ written' = <<>>
    BY <1>3 DEF ResetBy
  <2>2. app'.diagnostic_denials = 0
    BY <2>1 DEF no_app
  <2>3. Denied(written') = {}
    BY <2>1 DEF Denied
  <2>. QED  BY <2>2, <2>3, FS_EmptySet, Zenon DEF DenialInv
<1>4. CASE Refuses
  <2>. SUFFICES ASSUME Len(written') < UINT32_MAX
       PROVE  app'.diagnostic_denials = Cardinality(Denied(written'))
    BY DEF DenialInv
  <2>. DEFINE d == app.diagnostic_denials
  <2>1. <<"DIAG_RESTRICTED_DENIED">> \in Seq(EventNames)
    BY DEF EventNames
  <2>2. written' = written \o <<"DIAG_RESTRICTED_DENIED">>
    BY <1>4, <2>1, AllNumbered, Zenon DEF Refuses
  <2>3. Len(written') = Len(written) + 1
    BY <1>1, <2>1, <2>2, ConcatProperties
  <2>4. d = Cardinality(Denied(written)) /\ d \in Nat /\ d <= Len(written)
    BY <1>1, <1>2, <2>3, DeniedFinite DEF DenialInv
  <2>5. Cardinality(Denied(written')) = d + 1
    BY <1>1, <2>2, <2>4, DeniedGrows
  <2>6. app'.diagnostic_denials = increment(d, UINT32_MAX)
    BY <1>4 DEF Refuses
  <2>. HIDE DEF d
  <2>7. increment(d, UINT32_MAX) = d + 1
    BY <1>1, <1>2, <2>3, <2>4 DEF increment
  <2>. QED  BY <2>5, <2>6, <2>7
<1>5. CASE app'.diagnostic_denials = app.diagnostic_denials /\ Writes(OtherNames)
  <2>. SUFFICES ASSUME Len(written') < UINT32_MAX
       PROVE  app'.diagnostic_denials = Cardinality(Denied(written'))
    BY DEF DenialInv
  <2>1. PICK events \in Seq(OtherNames) : Logs(events)
    BY <1>5 DEF Writes
  <2>2. events \in Seq(EventNames)
    BY DEF OtherNames
  <2>3. written' = written \o events /\ Len(written) <= Len(written')
    BY <2>1, <2>2, AllNumbered
  <2>4. Denied(written') = Denied(written)
    BY <1>1, <2>3, DeniedGrows
  <2>5. Len(written) < UINT32_MAX
    <3>1. written' \in Seq(EventNames)
      BY <1>1, <2>2, <2>3, ConcatProperties
    <3>2. Len(written') \in Nat
      BY <3>1, LenProperties
    <3>. QED  BY <1>1, <1>2, <2>3, <3>2
  <2>. QED  BY <1>5, <2>4, <2>5 DEF DenialInv
<1>6. CASE app'.diagnostic_denials = app.diagnostic_denials /\ written' = written
  BY <1>6 DEF DenialInv
<1>. QED  BY <1>3, <1>4, <1>5, <1>6, LogCases, Zenon

-----------------------------------------------------------------------------
(* The theorems.                                                           *)

\* Power comes up.
LEMMA InitInv ==
  ASSUME PlatformConstants, PlatformInit
  PROVE  IInv
<1>1. TypeInv
  <2>1. build \in [scenario : STRING, rsm : BOOLEAN, restricted : BOOLEAN]
    BY DEF PlatformInit, PlatformConstants
  <2>2. app \in Apps
    BY NoAppIsApp, Zenon DEF PlatformInit
  <2>3. report \in Reports
    <3>1. report = [valid |-> FALSE, boot_counter |-> 0, reset_cause |-> {}, metadata |-> "none"]
      BY Zenon DEF PlatformInit, no_report
    <3>2. 0 \in 0..BOOT_COUNTER_MAX
      BY DEF PlatformConstants
    <3>. QED  BY <3>1, <3>2 DEF Reports
  <2>4. metadata = [state |-> "PENDING_TRIAL", attempts |-> ATTEMPTS, result |-> "NONE"]
        /\ ATTEMPTS \in Nat
    BY Zenon DEF PlatformInit, PlatformConstants
  <2>5. mpu \in [ctrl : BOOLEAN, saved : BOOLEAN] /\ iwdg \in [counting : BOOLEAN, active : BOOLEAN]
    BY DEF PlatformInit
  <2>8. csr \in SUBSET FlagNames
    BY FlagsAreNames, Zenon DEF PlatformInit, Kinds
  <2>6. pc \in PCs /\ fault \in BOOLEAN /\ last_reset \in Kinds /\ captured \in BOOLEAN
    BY Zenon DEF PlatformInit, PCs, Kinds
  <2>7. boots \in 0..BOOT_COUNTER_MAX
    BY SMTT(30) DEF PlatformInit, PlatformConstants
  <2>. QED  BY <2>1, <2>2, <2>3, <2>4, <2>5, <2>6, <2>7, <2>8, SMTT(30) DEF TypeInv, MetadataStates
<1>2. ReportInv
  BY Zenon DEF PlatformInit, ReportInv, Reported, RewritingReport, no_report
<1>3. EvidenceInv
  BY DEF PlatformInit, EvidenceInv
<1>4. ProtectionInv
  BY DEF PlatformInit, ProtectionInv, Looping
<1>5. LogInv
  BY LogEmptied, Zenon DEF PlatformInit, LogInv
<1>6. CauseInv
  BY DEF PlatformInit, CauseInv, Carrying, Reported
<1>7. DenialInv
  <2>1. Denied(<<>>) = {}
    BY SMTT(30) DEF Denied
  <2>2. app.diagnostic_denials = 0 /\ written = <<>>
    BY Zenon DEF PlatformInit, no_app
  <2>. QED  BY <2>1, <2>2, FS_EmptySet DEF DenialInv
<1>. QED  BY <1>1, <1>2, <1>3, <1>4, <1>5, <1>6, <1>7 DEF IInv

\* Every state of the platform satisfies the inductive invariant.
THEOREM PlatformInvariant == PlatformSpec => []IInv
<1>1. PlatformInit => IInv
  BY PlatformConstantsAssumption, InitInv
<1>2. IInv /\ [PlatformNext]_platform_vars => IInv'
  BY PlatformConstantsAssumption, TypeStep, ReportStep, CauseStep, EvidenceStep, ProtectionStep,
     LogStep, DenialStep DEF IInv
<1>. QED  BY <1>1, <1>2, PTL DEF PlatformSpec

\* In the main loop the telemetry report is whole and true, and what the console
\* prints from it, from the MPU and from the journal: experiment_telemetry.c and
\* runtime_monitor.c across every reset, power loss and fault.
THEOREM PlatformReportIsTrue == PlatformSpec => []ReportIsTrue
<1>1. IInv => ReportIsTrue
  <2>. SUFFICES ASSUME IInv, pc = "idle" PROVE ReportIsTrue
    BY DEF ReportIsTrue
  <2>. DEFINE printed == runtime_monitor_print_public_status
  <2>1. /\ report.valid /\ report.metadata \in {metadata.state, "UNRECOVERABLE"}
        /\ report.boot_counter = boots
    BY DEF IInv, ReportInv, Reported
  <2>2. report.reset_cause = app.boot_reset_csr
    BY DEF IInv, CauseInv, Carrying, Reported
  <2>3. (app.mpu_ready <=> mpu.ctrl) /\ (app.monitor_ready <=> image.rsm)
    BY DEF IInv, ProtectionInv, Looping
  <2>4. /\ printed.status = (IF app.monitor_ready THEN "ok" ELSE "unavailable")
        /\ printed.boot_sequence = report.boot_counter
        /\ printed.firmware_version = trusted_metadata_image_version(report.metadata)
        /\ printed.cpu_mpu = (IF mpu.ctrl THEN "enabled" ELSE "disabled")
        /\ printed.security_stack = IF mpu.ctrl THEN "mpu_guard_enabled" ELSE "unavailable"
    BY Zenon DEF runtime_monitor_print_public_status, runtime_monitor_get_hardware_info
  <2>. HIDE DEF printed
  <2>5. printed.firmware_version = "candidate" => metadata.state \in {"PENDING_TRIAL", "CONFIRMED"}
    BY <2>1, <2>4 DEF trusted_metadata_image_version
  <2>6. /\ (printed.security_stack = "mpu_guard_enabled") <=> app.mpu_ready
        /\ (printed.cpu_mpu = "enabled") <=> app.mpu_ready
    BY <2>3, <2>4
  <2>7. image.rsm => printed.status = "ok" /\ printed.boot_sequence = boots
    BY <2>1, <2>3, <2>4, Zenon
  <2>. QED  BY <2>1, <2>2, <2>5, <2>6, <2>7, Zenon DEF ReportIsTrue, printed
<1>. QED  BY <1>1, PlatformInvariant, PTL

\* Evidence of a watchdog reset or a fault reaches the policy of the next boot, the
\* journal and the console.
THEOREM PlatformEvidenceSurvives == PlatformSpec => []EvidenceSurvives
<1>1. ASSUME IInv PROVE EvidenceSurvives
  <2>. DEFINE printed == runtime_monitor_print_public_status
  <2>1. /\ (pc = "watchdog" /\ (last_reset = "iwdg" \/ captured)) => app.policy \in {"DEGRADED", "FAULT"}
        /\ (pc = "start" /\ last_reset = "iwdg" /\ metadata.state = "PENDING_TRIAL")
             => metadata.result = "IWDG"
        /\ captured => fault
    BY <1>1 DEF IInv, EvidenceInv
  <2>2. /\ printed.last_reset = rsm_reset_cause_name(app.boot_reset_csr)
        /\ printed.last_fault = IF fault THEN "valid" ELSE "none"
    BY Zenon DEF runtime_monitor_print_public_status, print_reset_decoded, print_fault_public_summary
  <2>3. (pc = "idle" /\ last_reset = "iwdg") => "IWDG" \in app.boot_reset_csr
    BY <1>1 DEF IInv, CauseInv, Carrying, Reported
  <2>. HIDE DEF printed
  <2>4. (pc = "idle" /\ last_reset = "iwdg") => printed.last_reset = "IWDG"
    BY <2>2, <2>3, WatchdogNamed, Zenon
  <2>5. captured => printed.last_fault = "valid"
    BY <2>1, <2>2
  <2>. QED  BY <2>1, <2>4, <2>5 DEF EvidenceSurvives, printed
<1>. QED  BY <1>1, PlatformInvariant, PTL

\* The place of the i-th event listed.
LEMMA PlaceListed ==
  ASSUME NEW n \in Nat, NEW c \in Nat, c <= n, NEW i \in 1..c
  PROVE  /\ n - c + i \in LastNumbers(n, c)
         /\ (n - c + 1) + i - 2 = (n - c + i) - 1
  BY SMTT(30) DEF LastNumbers

\* event_log.c lists the last events in order, also when the ring has wrapped,
\* was cleared, or has run out of numbers; the rest is counted as dropped, and
\* the refusals counted are those numbered.
THEOREM PlatformLogShowsLast == PlatformSpec => []LogShowsLast
<1>1. ASSUME LogInv, DenialInv PROVE LogShowsLast
  <2>. DEFINE n == Len(written)
              c == log.count
              U == UINT32_MAX
  <2>1. n \in Nat /\ n <= U /\ U \in Nat \ {0} /\ c \in Nat /\ c <= n
    <3>1. written \in Seq(EventNames)
      BY <1>1, Zenon DEF LogInv, LogOf
    <3>. QED  BY <1>1, <3>1, LenProperties, PlatformConstantsAssumption, SMTT(30)
              DEF LogInv, LogOf, PlatformConstants
  <2>2. log_last_sequence(log) = n
    <3>1. log.next_sequence = IF n = U THEN 0 ELSE n + 1
      BY <1>1 DEF LogInv, LogOf
    <3>. HIDE DEF n
    <3>. QED  BY <2>1, <3>1, SMTT(30) DEF log_last_sequence
  <2>3. \A s \in LastNumbers(n, c) :
          log.records[(s - 1) % LOG_CAPACITY] = [sequence |-> s, event |-> written[s]]
    BY <1>1, Zenon DEF LogInv, LogOf
  <2>4. log_show(log) = [i \in 1..c |-> log.records[((n - c + 1) + i - 2) % LOG_CAPACITY]]
    <3>. HIDE DEF n
    <3>. QED  BY <2>2 DEF log_show
  <2>5. ASSUME NEW i \in 1..c
        PROVE  log.records[((n - c + 1) + i - 2) % LOG_CAPACITY]
                 = [sequence |-> n - c + i, event |-> written[n - c + i]]
    <3>. HIDE DEF n, c
    <3>1. n - c + i \in LastNumbers(n, c) /\ (n - c + 1) + i - 2 = (n - c + i) - 1
      BY <2>1, PlaceListed, Zenon
    <3>. QED  BY <2>3, <3>1
  <2>6. log_show(log) = [i \in 1..c |->
           [sequence |-> n - c + i, event |-> written[n - c + i]]]
    <3>. HIDE DEF n, c
    <3>. QED  BY <2>4, <2>5, Zenon
  <2>7. log.dropped = Min({U, asked - c})
    <3>1. Dropped(log.dropped, asked, c, U, LOG_CAPACITY)
      BY <1>1 DEF LogInv, LogOf
    <3>. HIDE DEF c
    <3>. DEFINE b == asked - c
    <3>2. b \in Nat /\ log.dropped = IF b < U THEN b ELSE U
      BY <2>1, <3>1 DEF Dropped
    <3>. HIDE DEF b
    <3>3. Min({U, b}) = IF U <= b THEN U ELSE b
      BY <2>1, <3>2, MinOfTwo
    <3>4. log.dropped = Min({U, b})
      BY <2>1, <3>2, <3>3
    <3>. QED  BY <3>4 DEF b
  <2>. DEFINE printed == runtime_monitor_print_public_status
  <2>8. /\ printed.last_event_sequence = log_last_sequence(log)
        /\ printed.event_count = c
        /\ printed.event_dropped = log.dropped
        /\ printed.diagnostic_denials = app.diagnostic_denials
    BY Zenon DEF runtime_monitor_print_public_status, print_log_public_summary,
         runtime_monitor_get_statistics
  <2>. HIDE DEF printed
  <2>9. /\ printed.last_event_sequence = n
        /\ printed.event_dropped = Min({U, asked - c})
        /\ n < U => printed.diagnostic_denials
                     = Cardinality({i \in 1..n : written[i] = "DIAG_RESTRICTED_DENIED"})
    BY <1>1, <2>2, <2>7, <2>8, Zenon DEF DenialInv, Denied
  <2>10. printed.event_count = Len(log_show(log))
    <3>. HIDE DEF n, c
    <3>. DEFINE shown == log_show(log)
                S == {shown[i] : i \in 1..c}
    <3>1. shown \in [1..c -> S]
      BY <2>6, Zenon
    <3>. HIDE DEF shown, S
    <3>2. shown \in Seq(S) /\ DOMAIN shown = 1..c
      BY <2>1, <3>1
    <3>3. Len(shown) = c
      BY <2>1, <3>2, LenProperties
    <3>. QED  BY <2>8, <3>3, Zenon DEF shown
  <2>. QED  BY <2>6, <2>9, <2>10, Zenon DEF LogShowsLast, printed
<1>2. IInv => LogShowsLast
  BY <1>1 DEF IInv
<1>. QED  BY <1>2, PlatformInvariant, PTL

\* The application changes the journal only to confirm itself, through the health
\* gate and with the MPU off for that write: platform_confirmation_service.
THEOREM PlatformConfirmsOnlyHealthy == PlatformSpec => ConfirmsOnlyHealthy
<1>1. ASSUME IInv, IInv', [PlatformNext]_platform_vars PROVE [ConfirmsHealthy]_platform_vars
  <2>1. (metadata' # metadata /\ pc # "stage0") => Commit
    BY <1>1, Zenon DEF PlatformNext, Platform, platform_vars, board, platform_history,
         PlatformReset, ResetBy, WatchdogTimeout, Select,
         SelectFails, LeaveRecovery, InitTelemetry, FinishInitTelemetry, ApplyPolicy,
         InitProtection, InitWatchdog, Turn, test_scenario_service, Gate, FinishConfirmation,
         fault_capture, PlatformFault
  <2>2. ASSUME Commit, metadata' # metadata
        PROVE  pc = "commit" /\ metadata'.state = "CONFIRMED"
    <3>1. metadata' = [state |-> "CONFIRMED", attempts |-> 0, result |-> "NONE"] /\ pc = "commit"
      BY <2>2, Zenon DEF Commit
    <3>. QED  BY <3>1, Zenon
  <2>3. pc = "commit" => /\ ~mpu.ctrl /\ app.self_tests /\ app.monitor_ready /\ app.mpu_ready
                         /\ iwdg.counting /\ iwdg.active
                         /\ image.scenario \in {"none", "delayed_confirm"}
    BY <1>1 DEF IInv, ProtectionInv, Looping, platform_confirmation_health_gate,
         basically_healthy, test_scenario_health_ok
  <2>4. (pc' = "idle" /\ app'.mpu_ready) => mpu'.ctrl
    BY <1>1 DEF IInv, ProtectionInv, Looping
  <2>. QED  BY <2>1, <2>2, <2>3, <2>4, Zenon DEF ConfirmsHealthy
<1>. QED  BY <1>1, PlatformInvariant, PTL DEF PlatformSpec, ConfirmsOnlyHealthy
=============================================================================
