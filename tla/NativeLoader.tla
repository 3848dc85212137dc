---------------------------- MODULE NativeLoader ----------------------------
(***************************************************************************)
(* The validator and the lifecycle manager of native modules               *)
(* (tools/native_loader.py): the payload layout, the checks that tie it to *)
(* the signed package around it, and NativeModuleManager, whose host and   *)
(* caller are the environment.                                             *)
(***************************************************************************)
EXTENDS ModuleFormat

CONSTANTS
  NATIVE_HEADER_SIZE, Align,
  MaxNativeCode, MaxRodata, MaxData, MaxBss, MaxStack, MaxRam, StackAlign,
  failure_threshold

VARIABLES
  loaded,      \* the LoadedModule, NotLoaded before the first load
  emitted,     \* whether the simulation of this load emitted its results
  initialized  \* history: initialize succeeded since this load

managervars == <<loaded, emitted, initialized>>

MaxPayload == MaxNativeCode + MaxRodata + MaxData + NATIVE_HEADER_SIZE
SIM_NONE == 0
SIM_RCC_ANALYSIS == 1
API_READ_RCC == 1
API_EMIT == 2
\* The capability each service of the platform API requires.
required_capability == [s \in {API_READ_RCC, API_EMIT} |-> s]
SUPPORTED_NATIVE_CAPABILITIES == {1, 2}
NotLoaded == [state |-> "none"]
-----------------------------------------------------------------------------
(* The payload *)

align4(n) == ((n + Align - 1) \div Align) * Align

native_region_ok(offset, size, total) ==
  /\ offset % Align = 0
  /\ offset >= NATIVE_HEADER_SIZE
  /\ offset <= total /\ size <= total - offset

build_native_payload(code, rodata, data, a) ==
  LET code_offset == NATIVE_HEADER_SIZE
      code_end == code_offset + Len(code)
      rodata_offset == align4(code_end)
      rodata_end == rodata_offset + Len(rodata)
      data_offset == align4(rodata_end)
      header == [kind |-> "NMV1", reserved |-> 0, total_size |-> data_offset + Len(data),
        code_offset |-> code_offset, code_size |-> Len(code),
        rodata_offset |-> rodata_offset, rodata_size |-> Len(rodata),
        data_offset |-> data_offset, data_size |-> Len(data), bss_size |-> a.bss_size,
        stack_size |-> a.stack_size, entry_offset |-> a.entry_offset,
        api_version |-> a.api_version, simulation_id |-> a.simulation_id]
  IN Pack(header, NATIVE_HEADER_SIZE) \o code \o Zeroed(rodata_offset - code_end)
     \o rodata \o Zeroed(data_offset - rodata_end) \o data

payload_slice(payload, from, to) == SubSeq(payload, from + 1, to)
NativeCode(payload) ==
  payload_slice(payload, payload[1].code_offset, payload[1].code_offset + payload[1].code_size)
NativeRodata(payload) ==
  payload_slice(payload, payload[1].rodata_offset, payload[1].rodata_offset + payload[1].rodata_size)
NativeData(payload) ==
  payload_slice(payload, payload[1].data_offset, payload[1].data_offset + payload[1].data_size)

validate_native_payload(payload) ==
  /\ Len(payload) >= NATIVE_HEADER_SIZE
  /\ LET h == payload[1]
         code_end == h.code_offset + h.code_size
         rodata_end == h.rodata_offset + h.rodata_size
         data_end == h.data_offset + h.data_size
     IN /\ h.kind = "NMV1" /\ h.reserved = 0
        /\ h.total_size = Len(payload) /\ h.total_size <= MaxPayload
        /\ h.api_version = 1 /\ h.simulation_id \in {SIM_NONE, SIM_RCC_ANALYSIS}
        /\ h.code_offset = NATIVE_HEADER_SIZE
        /\ native_region_ok(h.code_offset, h.code_size, h.total_size)
        /\ native_region_ok(h.rodata_offset, h.rodata_size, h.total_size)
        /\ native_region_ok(h.data_offset, h.data_size, h.total_size)
        /\ code_end <= h.rodata_offset /\ rodata_end <= h.data_offset
        /\ h.rodata_offset = align4(code_end) /\ h.data_offset = align4(rodata_end)
        /\ data_end = h.total_size
        /\ payload_slice(payload, code_end, h.rodata_offset) = Zeroed(h.rodata_offset - code_end)
        /\ payload_slice(payload, rodata_end, h.data_offset) = Zeroed(h.data_offset - rodata_end)
        /\ h.code_size \in 1..MaxNativeCode /\ h.code_size % 2 = 0
        /\ h.rodata_size <= MaxRodata /\ h.data_size <= MaxData /\ h.bss_size <= MaxBss
        /\ h.stack_size \in 1..MaxStack /\ h.stack_size % StackAlign = 0
        /\ h.data_size + h.bss_size + h.stack_size <= MaxRam
        /\ h.entry_offset % 2 = 0 /\ h.entry_offset < h.code_size

\* load_native_package: the signed sizes must be the payload's own.
load_native_package(blob, key, policy) ==
  /\ parse_package(blob, key, [policy EXCEPT !.supported = SUPPORTED_NATIVE_CAPABILITIES])
  /\ blob.header.module_type = TYPE_NATIVE
  /\ validate_native_payload(payload_of(blob))
  /\ LET h == payload_of(blob)[1]
     IN <<h.code_size, h.rodata_size, h.data_size, h.bss_size, h.stack_size, h.entry_offset>>
        = <<blob.header.code_size, blob.header.rodata_size, blob.header.data_size,
            blob.header.bss_size, blob.header.stack_size, blob.header.entry_offset>>
-----------------------------------------------------------------------------
(* NativeModuleManager *)

\* load: a fresh LoadedModule, its failures zero, whatever was loaded before.
load(package) ==
  /\ loaded' = [state |-> "LOADED", failures |-> 0,
                simulation_id |-> payload_of(package)[1].simulation_id,
                capabilities |-> capabilities_of(package)]
  /\ emitted' = FALSE /\ initialized' = FALSE

failed(module) ==
  [module EXCEPT !.failures = @ + 1,
     !.state = IF module.failures + 1 >= failure_threshold THEN "QUARANTINED" ELSE "STOPPED"]

initialize(force_init_failure) ==
  /\ loaded.state \in {"LOADED", "STOPPED"}
  /\ IF force_init_failure
     THEN loaded' = failed(loaded) /\ UNCHANGED initialized
     ELSE loaded' = [loaded EXCEPT !.state = "INITIALIZED"] /\ initialized' = TRUE
  /\ UNCHANGED emitted

may_call(service, module) == required_capability[service] \in module.capabilities

\* _simulate: both services are required before anything is read or emitted; the
\* refusal is an exception, the module stays RUNNING and no failure is counted.
run(force_run_failure) ==
  /\ loaded.state \notin {"none", "QUARANTINED"}
  /\ IF loaded.state \notin {"INITIALIZED", "STOPPED"} \/ force_run_failure
     THEN loaded' = failed(loaded) /\ UNCHANGED emitted
     ELSE /\ loaded' = [loaded EXCEPT !.state = "RUNNING"]
          /\ emitted' = \/ emitted
                        \/ /\ loaded.simulation_id = SIM_RCC_ANALYSIS
                           /\ may_call(API_READ_RCC, loaded) /\ may_call(API_EMIT, loaded)
  /\ UNCHANGED initialized

stop ==
  /\ loaded.state # "none"
  /\ loaded' = IF loaded.state = "QUARANTINED" THEN loaded ELSE [loaded EXCEPT !.state = "STOPPED"]
  /\ UNCHANGED <<emitted, initialized>>

quarantine ==
  /\ loaded.state # "none"
  /\ loaded' = [loaded EXCEPT !.state = "QUARANTINED"]
  /\ UNCHANGED <<emitted, initialized>>

ManagerStep ==
  \/ \E forced \in BOOLEAN : initialize(forced) \/ run(forced)
  \/ stop \/ quarantine
=============================================================================
