--------------------------- MODULE ModuleRuntime ---------------------------
(***************************************************************************)
(* A research module from its source to its execution: the assembler and   *)
(* the packer make a signed package, run_package verifies it and executes  *)
(* its bytecode, or NativeModuleManager verifies, loads and drives it.     *)
(* The package in hand is any member of Inputs: assembled programs, and    *)
(* packages whose header was laid out differently before it was signed.    *)
(***************************************************************************)
EXTENDS BytecodeVM, NativeLoader

CONSTANTS Inputs, Key, Policy

vars == <<source, blob, vmvars, managervars>>

Init ==
  /\ \E i \in Inputs : source = i.source /\ blob = i.blob
  /\ program = NoProgram /\ vm = "idle" /\ pc = 0 /\ stack = <<>>
  /\ executed = 0 /\ outputs = <<>>
  /\ loaded = NotLoaded /\ emitted = FALSE /\ initialized = FALSE

RunBytecode == run_package(Key, Policy) /\ UNCHANGED managervars
ExecuteBytecode == VMStep /\ UNCHANGED managervars
LoadNative ==
  /\ load_native_package(blob, Key, Policy)
  /\ load(blob)
  /\ UNCHANGED <<source, blob, vmvars>>
DriveNative == ManagerStep /\ UNCHANGED <<source, blob, vmvars>>

Next == RunBytecode \/ ExecuteBytecode \/ LoadNative \/ DriveNative

Spec == Init /\ [][Next]_vars
-----------------------------------------------------------------------------
(* Properties *)

\* The arguments build_package would have been given for this header.
Arguments(b) ==
  LET words == capability_words(b.body, b.header.capability_size)
  IN [module_id |-> b.header.module_id, version |-> b.header.module_version,
      min_platform |-> b.header.min_platform, abi_version |-> b.header.abi_version,
      module_type |-> b.header.module_type, code_size |-> b.header.code_size,
      rodata_size |-> b.header.rodata_size, data_size |-> b.header.data_size,
      bss_size |-> b.header.bss_size, stack_size |-> b.header.stack_size,
      entry_offset |-> b.header.entry_offset,
      capabilities |-> [i \in 1..Len(words) |-> words[i].value]]

\* parse_package and validate_native_payload accept only what their builders
\* make: rebuilding the package from the parsed header, capabilities and payload,
\* and the native payload from its three regions, gives the same bytes.  So no
\* accepted package has a gap, an overlap, trailing data or unread bytes.
AcceptedIsCanonical ==
  parse_package(blob, Key, Policy) =>
    /\ build_accepts(payload_of(blob), Arguments(blob))
    /\ build_package(payload_of(blob), Key, Arguments(blob)) = blob
    /\ load_native_package(blob, Key, Policy) =>
         LET payload == payload_of(blob)
         IN build_native_payload(NativeCode(payload), NativeRodata(payload),
                                 NativeData(payload), payload[1]) = payload

\* Every instruction the VM executes does what the source line it was assembled
\* from says: a push leaves the unsigned constant that was written, a branch goes
\* to its label, a system call that returns was declared by a .cap line.  And it
\* stays within what the header declares and the package is signed for: the stack
\* limit, the instruction budget (loops included), and no output without its
\* capability.
FollowsSource ==
  [][vm = "running" /\ pc < Len(code_lines(source)) /\ executed' # executed =>
       LET item == code_lines(source)[pc + 1]
       IN /\ (item.op = "HALT") <=> (vm' = "halted")
          /\ Len(stack') <= program.stack_limit
          /\ executed' <= instruction_budget
          /\ outputs' # outputs => CAP_OUTPUT \in capabilities_of(blob)
          /\ vm' = "running" =>
               /\ item.op = "PUSH" => stack' = Append(stack, item.arg)
               /\ item.op = "JMP" => pc' = label_target(source, item.name)
               /\ item.op = "JZ" => pc' = IF Last(stack) = 0 THEN label_target(source, item.name)
                                          ELSE pc + 1
               /\ item.op = "SYSCALL" => item.arg \in ToSet(source_caps(source))
               /\ item.op \notin {"JMP", "JZ"} => pc' = pc + 1]_vars
=============================================================================
