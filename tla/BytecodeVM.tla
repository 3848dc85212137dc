----------------------------- MODULE BytecodeVM -----------------------------
(***************************************************************************)
(* The assembler and the sandboxed virtual machine of bytecode modules     *)
(* (tools/bytecode_asm.py, tools/bytecode_vm.py).                          *)
(*                                                                         *)
(* Words keep their arithmetic modulo 2^WordBits and immediates their two's*)
(* complement width ImmBits.  A source program is a sequence of lines:     *)
(* labels, .cap and .stack directives, instructions with their arguments   *)
(* already split.                                                          *)
(***************************************************************************)
EXTENDS ModuleFormat

CONSTANTS
  WordBits, ImmBits,           \* 32 and 16
  BYTECODE_HEADER_SIZE, INSTRUCTION_SIZE,
  MAX_CODE_SIZE, MAX_STACK_LIMIT, MAX_SYSCALL_ARGS, MaxShift,
  instruction_budget,          \* of the VM's caller
  rcc                          \* the host's register snapshot

VARIABLES
  source,        \* the assembled program text, <<>> for a blob of other origin
  blob,          \* the package in hand
  program,       \* what parse_program returned
  vm,            \* "idle" | "running" | "halted" | "error"
  pc, stack, executed, outputs

vmvars == <<program, vm, pc, stack, executed, outputs>>

CAP_RCC_READ == 1
CAP_OUTPUT == 2
SUPPORTED_VM_CAPABILITIES == {CAP_RCC_READ, CAP_OUTPUT}
SYS_RCC_READ == 1
SYS_EMIT == 2

NoArgOps == {"HALT", "DROP", "DUP", "SWAP", "ADD", "SUB", "AND", "OR", "XOR", "NEZ", "EQ"}
BinaryOps == {"ADD", "SUB", "AND", "OR", "XOR", "EQ"}
Opcodes == NoArgOps \cup {"PUSH", "SHL", "SHR", "JMP", "JZ", "SYSCALL"}

Word(n) == n % 2^WordBits
UImm(n) == n % 2^ImmBits
MaxImm == 2^(ImmBits - 1) - 1
MinImm == 0 - 2^(ImmBits - 1)
u16_as_i16(n) == IF n <= MaxImm THEN n ELSE n - 2^ImmBits
-----------------------------------------------------------------------------
(* The assembler *)

Instruction(op, operand, imm) ==
  [kind |-> "instruction", opcode |-> op, operand |-> operand, immediate |-> imm]

code_lines(lines) == SelectSeq(lines, LAMBDA l : l.kind = "op")
label_lines(lines) == {i \in 1..Len(lines) : lines[i].kind = "label"}
\* labels[name]: the number of instructions above the label.
label_target(lines, name) ==
  LET i == CHOOSE i \in label_lines(lines) : lines[i].name = name
  IN Len(code_lines(SubSeq(lines, 1, i)))
has_label(lines, name) == \E i \in label_lines(lines) : lines[i].name = name
source_caps(lines) ==
  LET caps == SelectSeq(lines, LAMBDA l : l.kind = "cap")
  IN [i \in 1..Len(caps) |-> caps[i].arg]
source_stack(lines) ==
  LET sizes == SelectSeq(lines, LAMBDA l : l.kind = "stack")
  IN IF sizes = <<>> THEN 16 ELSE Last(sizes).arg

\* A branch counted from the branch itself, as if the fetch had not moved the PC.
relative_from_branch(lines, name, at) == label_target(lines, name) - at
relative_branch(lines, name, at) == label_target(lines, name) - (at + 1)

instruction_ok(lines, item, at) ==
  \/ item.op \in NoArgOps
  \/ item.op = "PUSH" /\ item.arg \in 0..(2^ImmBits - 1)
  \/ item.op \in {"SHL", "SHR"} /\ item.arg \in 0..MaxShift
  \/ /\ item.op \in {"JMP", "JZ"} /\ has_label(lines, item.name)
     /\ relative_branch(lines, item.name, at) \in MinImm..MaxImm
  \/ item.op = "SYSCALL" /\ item.arg \in 0..(2^ImmBits - 1)

assemble_instruction(lines, item, at) ==
  CASE item.op \in NoArgOps -> Instruction(item.op, 0, 0)
    [] item.op = "PUSH" -> Instruction("PUSH", 0, u16_as_i16(item.arg))
    [] item.op \in {"SHL", "SHR"} -> Instruction(item.op, item.arg, 0)
    [] item.op \in {"JMP", "JZ"} ->
         Instruction(item.op, 0, relative_branch(lines, item.name, at))
    [] item.op = "SYSCALL" -> Instruction("SYSCALL", item.argc, u16_as_i16(item.arg))

\* What encode_program checks of the assembled instructions.
encode_accepts(count, entry_offset, max_stack) ==
  LET code_size == count * INSTRUCTION_SIZE
  IN /\ max_stack \in 1..MAX_STACK_LIMIT
     /\ code_size \in 1..MAX_CODE_SIZE
     /\ entry_offset % INSTRUCTION_SIZE = 0 /\ entry_offset < code_size

assemble_accepts(lines) ==
  LET pending == code_lines(lines)
  IN /\ pending # <<>>
     /\ \A i, j \in label_lines(lines) : lines[i].name = lines[j].name => i = j
     /\ Cardinality(ToSet(source_caps(lines))) = Len(source_caps(lines))
     /\ \A i \in 1..Len(pending) : instruction_ok(lines, pending[i], i - 1)
     /\ encode_accepts(Len(pending), 0, source_stack(lines))

encode_program(instructions, entry_offset, max_stack) ==
  Pack([kind |-> "BCV1", reserved |-> 0, code_size |-> Len(instructions) * INSTRUCTION_SIZE,
        entry_offset |-> entry_offset, max_stack |-> max_stack], BYTECODE_HEADER_SIZE)
  \o FlattenSeq([i \in 1..Len(instructions) |-> Pack(instructions[i], INSTRUCTION_SIZE)])

assemble_text(lines) ==
  LET pending == code_lines(lines)
  IN encode_program([i \in 1..Len(pending) |-> assemble_instruction(lines, pending[i], i - 1)],
                    0, source_stack(lines))
-----------------------------------------------------------------------------
(* Loading a program *)

validate_instruction(i) ==
  /\ i.kind = "instruction" /\ i.opcode \in Opcodes
  /\ i.opcode \in {"SHL", "SHR"} => i.operand <= MaxShift
  /\ i.opcode = "SYSCALL" => i.operand <= MAX_SYSCALL_ARGS

instructions_of(payload) ==
  [i \in 1..((Len(payload) - BYTECODE_HEADER_SIZE) \div INSTRUCTION_SIZE) |->
     payload[BYTECODE_HEADER_SIZE + INSTRUCTION_SIZE * (i - 1) + 1]]

parse_program(payload) ==
  /\ Len(payload) >= BYTECODE_HEADER_SIZE
  /\ LET h == payload[1]
     IN /\ h.kind = "BCV1" /\ h.reserved = 0
        /\ h.code_size \in 1..MAX_CODE_SIZE
        /\ Len(payload) = BYTECODE_HEADER_SIZE + h.code_size
        /\ h.code_size % INSTRUCTION_SIZE = 0
        /\ h.entry_offset % INSTRUCTION_SIZE = 0 /\ h.entry_offset < h.code_size
        /\ h.max_stack \in 1..MAX_STACK_LIMIT
        /\ \A i \in 1..Len(instructions_of(payload)) :
             validate_instruction(instructions_of(payload)[i])

NoProgram == [instructions |-> <<>>, stack_limit |-> 0, capabilities |-> {}]

\* run_package and the prologue of execute; the package must be bytecode and
\* start at its first byte.
run_package(key, policy) ==
  /\ vm = "idle"
  /\ parse_package(blob, key, policy)
  /\ blob.header.module_type = TYPE_BYTECODE /\ blob.header.entry_offset = 0
  /\ outputs' = <<>>
  /\ LET payload == payload_of(blob)
     IN IF parse_program(payload)
        THEN /\ program' = [instructions |-> instructions_of(payload),
                            stack_limit |-> payload[1].max_stack,
                            capabilities |-> capabilities_of(blob)]
             /\ vm' = "running"
             /\ pc' = payload[1].entry_offset \div INSTRUCTION_SIZE
             /\ stack' = <<>> /\ executed' = 0
        ELSE vm' = "error" /\ UNCHANGED <<program, pc, stack, executed>>
  /\ UNCHANGED <<source, blob>>
-----------------------------------------------------------------------------
(* Execution *)

Fail == vm' = "error" /\ UNCHANGED <<stack, outputs>>
Fetched == program.instructions[pc + 1]
Fetch(op) ==
  /\ vm = "running" /\ executed < instruction_budget
  /\ pc \in 0..(Len(program.instructions) - 1)
  /\ Fetched.opcode = op
  /\ executed' = executed + 1
  /\ UNCHANGED <<program, source, blob>>
Continue == vm' = vm /\ pc' = pc + 1

\* Replace the top n words by the given ones, or fail on underflow or overflow.
Replace(n, words) ==
  IF Len(stack) < n \/ Len(stack) - n + Len(words) > program.stack_limit
  THEN Fail /\ pc' = pc + 1
  ELSE /\ stack' = SubSeq(stack, 1, Len(stack) - n) \o words
       /\ Continue /\ UNCHANGED outputs
Top(k) == IF Len(stack) > k THEN stack[Len(stack) - k] ELSE 0

Halt == Fetch("HALT") /\ vm' = "halted" /\ pc' = pc + 1 /\ UNCHANGED <<stack, outputs>>
Push == Fetch("PUSH") /\ Replace(0, <<UImm(Fetched.immediate)>>)
Drop == Fetch("DROP") /\ Replace(1, <<>>)
Dup == Fetch("DUP") /\ Replace(1, <<Top(0), Top(0)>>)
Swap == Fetch("SWAP") /\ Replace(2, <<Top(0), Top(1)>>)

\* Words as the sets of their one bits.
bits(x) == {n \in 0..(WordBits - 1) : (x \div 2^n) % 2 = 1}
word_of(ones) == FoldLeft(LAMBDA sum, n : IF n - 1 \in ones THEN sum + 2^(n - 1) ELSE sum, 0,
                          [n \in 1..WordBits |-> n])

alu(op, left, right) ==
  CASE op = "ADD" -> Word(left + right)
    [] op = "SUB" -> Word(left - right)
    [] op = "AND" -> word_of(bits(left) \cap bits(right))
    [] op = "OR" -> word_of(bits(left) \cup bits(right))
    [] op = "XOR" -> word_of((bits(left) \cup bits(right)) \ (bits(left) \cap bits(right)))
    [] op = "EQ" -> IF left = right THEN 1 ELSE 0
Binary == \E op \in BinaryOps : Fetch(op) /\ Replace(2, <<alu(op, Top(1), Top(0))>>)
Shl == Fetch("SHL") /\ Replace(1, <<Word(Top(0) * 2^Fetched.operand)>>)
Shr == Fetch("SHR") /\ Replace(1, <<Top(0) \div 2^Fetched.operand>>)
Nez == Fetch("NEZ") /\ Replace(1, <<IF Top(0) # 0 THEN 1 ELSE 0>>)

\* _branch_target counts from the PC after the fetch.
branch_target == pc + 1 + Fetched.immediate
Branch ==
  IF branch_target \in 0..(Len(program.instructions) - 1)
  THEN pc' = branch_target /\ vm' = vm /\ UNCHANGED outputs
  ELSE pc' = pc + 1 /\ vm' = "error" /\ UNCHANGED outputs

Jmp == Fetch("JMP") /\ Branch /\ UNCHANGED stack
Jz ==
  /\ Fetch("JZ")
  /\ IF stack = <<>> THEN Fail /\ pc' = pc + 1
     ELSE /\ stack' = Front(stack)
          /\ IF Last(stack) = 0 THEN Branch ELSE Continue /\ UNCHANGED outputs

\* SyscallHost.handle: the arguments are removed before it is called.
handle_ok(id, args) ==
  \/ id = SYS_RCC_READ /\ CAP_RCC_READ \in program.capabilities /\ Len(args) = 1 /\ args[1] < Len(rcc)
  \/ id = SYS_EMIT /\ CAP_OUTPUT \in program.capabilities /\ Len(args) = 2
Syscall ==
  LET argc == Fetched.operand
      id == UImm(Fetched.immediate)
      args == SubSeq(stack, Len(stack) - argc + 1, Len(stack))
      rest == SubSeq(stack, 1, Len(stack) - argc)
  IN /\ Fetch("SYSCALL") /\ pc' = pc + 1
     /\ IF Len(stack) < argc THEN Fail
        ELSE IF ~handle_ok(id, args)
        THEN stack' = rest /\ vm' = "error" /\ UNCHANGED outputs
        ELSE IF id = SYS_EMIT
        THEN stack' = rest /\ outputs' = Append(outputs, <<args[2], args[1]>>) /\ vm' = vm
        ELSE stack' = Append(rest, Word(rcc[args[1] + 1])) /\ vm' = vm /\ UNCHANGED outputs

\* The two checks at the head of the loop.
OutOfBudgetOrRange ==
  /\ vm = "running"
  /\ executed >= instruction_budget \/ pc \notin 0..(Len(program.instructions) - 1)
  /\ vm' = "error"
  /\ UNCHANGED <<source, blob, program, pc, stack, executed, outputs>>

VMStep ==
  \/ Halt \/ Push \/ Drop \/ Dup \/ Swap \/ Binary \/ Shl \/ Shr \/ Nez
  \/ Jmp \/ Jz \/ Syscall \/ OutOfBudgetOrRange
=============================================================================
