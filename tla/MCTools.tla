------------------------------ MODULE MCTools ------------------------------
(***************************************************************************)
(* Host tools, three instances side by side that share no state.           *)
(* "runtime": every program of up to two lines over all instructions,      *)
(* families of longer ones, packages whose header was laid out differently *)
(* before signing, and native payloads with every combination of small     *)
(* regions.  "install": one module, three versions of its package and one  *)
(* package of another signer.  "integrity": fifteen bytes of flash in the  *)
(* order of the memory map; the slots have one byte of padding after the   *)
(* header, and a payload that is no whole number of blocks.                *)
(***************************************************************************)
EXTENDS ModuleRuntime, MemoryIntegrity, ModuleInstaller

CONSTANT m1

VARIABLE part    \* which of them a behaviour is about

First == CHOOSE i \in Inputs : i.blob.present < HEADER_SIZE
ToolsInit ==
  /\ part \in {"runtime", "install", "integrity"}
  /\ Init /\ InstallerInit /\ IntegrityInit
  /\ part # "runtime" => source = First.source /\ blob = First.blob
ToolsNext ==
  \/ part = "runtime" /\ Next /\ UNCHANGED <<part, installer_vars, integrity_vars>>
  \/ part = "install" /\ InstallerNext /\ UNCHANGED <<part, vars, integrity_vars>>
  \/ part = "integrity" /\ IntegrityNext /\ UNCHANGED <<part, vars, installer_vars>>
ToolsSpec ==
  ToolsInit /\ [][ToolsNext]_<<part, vars, installer_vars, integrity_vars>>

MCModuleSet == {m1}
MCPackages ==
  {[module_id |-> m1, version |-> v, signer |-> ModuleSigner, parses |-> TRUE] : v \in 1..3}
  \cup {[module_id |-> m1, version |-> 3, signer |-> OtherSigner, parses |-> TRUE]}

MCPolicy == [min_platform |-> 1, abi_version |-> 1, min_module_version |-> 1,
             supported |-> SUPPORTED_VM_CAPABILITIES]
MCRcc == <<3, 9, 20>>

Op(op) == [kind |-> "op", op |-> op, arg |-> 0, argc |-> 0, name |-> ""]
OpArg(op, arg, argc) == [kind |-> "op", op |-> op, arg |-> arg, argc |-> argc, name |-> ""]
OpLabel(op, name) == [kind |-> "op", op |-> op, arg |-> 0, argc |-> 0, name |-> name]
Label(name) == [kind |-> "label", op |-> "", arg |-> 0, argc |-> 0, name |-> name]
Directive(kind, arg) == [kind |-> kind, op |-> "", arg |-> arg, argc |-> 0, name |-> ""]

Lines ==
  {Op(op) : op \in NoArgOps} \cup {OpArg("PUSH", n, 0) : n \in {0, 1, 5}}
  \cup {OpArg("SHL", 2, 0), OpArg("SHR", 1, 0), OpLabel("JMP", "a"), OpLabel("JZ", "a"),
        OpArg("SYSCALL", 1, 1), OpArg("SYSCALL", 2, 2), OpArg("SYSCALL", 7, 0), Label("a")}
Bodies ==
  {<<OpArg("PUSH", 0, 0), OpLabel("JZ", "a"), Label("a")>>} \cup
  UNION {[1..n -> Lines] : n \in 1..2}
  \cup {<<first, OpArg("PUSH", n, 0), l>> : first \in {OpArg("PUSH", 5, 0), Label("a")},
                                           n \in {0, 1}, l \in Lines}
  \cup {<<OpArg("PUSH", 0, 0), OpLabel("JZ", "a"), Op("HALT"), Label("a"), l>> : l \in Lines}
  \cup {<<OpArg("PUSH", 5, 0), Label("a"), OpArg("PUSH", 1, 0), Op("SUB"), Op("DUP"),
          OpLabel("JZ", "b"), OpLabel("JMP", "a"), Label("b"), l>> : l \in Lines}
  \cup {<<OpArg("PUSH", i, 0), OpArg("SYSCALL", 1, 1), OpArg("PUSH", 1, 0),
          OpArg("SYSCALL", 2, 2), l>> : i \in {0, 5}, l \in Lines}
Prefix(caps) ==
  <<Directive("stack", 2)>> \o [i \in 1..Len(caps) |-> Directive("cap", caps[i])]
Programs ==
  {lines \in {Prefix(caps) \o b : b \in Bodies, caps \in {<<>>, <<2, 1>>}} : assemble_accepts(lines)}

Args(type, caps, code, entry) ==
  [module_id |-> 1, version |-> 1, min_platform |-> 1, abi_version |-> 1, module_type |-> type,
   code_size |-> code, rodata_size |-> 0, data_size |-> 0, bss_size |-> 0, stack_size |-> 0,
   entry_offset |-> entry, capabilities |-> caps]
Assembled ==
  {[source |-> p, blob |-> build_package(assemble_text(p), Key,
      Args(TYPE_BYTECODE, source_caps(p), Len(assemble_text(p)), 0))] : p \in Programs}

\* Signed headers over bodies they need not describe.
Cap(n) == [kind |-> "cap", value |-> n]
Byte(n) == [kind |-> "byte", value |-> n]
UnitBodies ==
  {<<>>, <<Byte(1)>>, <<Cap(1), Zero>>, <<Zero, Zero>>,
   <<Cap(1), Zero, Byte(1)>>, <<Cap(1), Zero, Cap(1), Zero>>, <<Cap(1), Zero, Cap(2), Zero>>,
   <<Cap(3), Zero, Byte(1)>>, <<Cap(1), Zero, Cap(2), Zero, Byte(1)>>}
Base == build_package(<<>>, Key, Args(TYPE_BYTECODE, <<>>, 0, 0))
Laid(b, total, co, cs, po, ps, code, entry) ==
  LET size == HEADER_SIZE + Len(b)
      cut(from, to) == IF from >= HEADER_SIZE /\ to <= size THEN Slice(b, HEADER_SIZE, from, to) ELSE <<>>
      h == [Base.header EXCEPT !.total_size = total, !.capability_offset = co,
              !.capability_size = cs, !.payload_offset = po, !.payload_size = ps,
              !.code_size = code, !.entry_offset = entry,
              !.payload_hash = cut(po, po + ps), !.header_crc32 = None, !.signature = None]
  IN [present |-> HEADER_SIZE, header |-> sealed(h, Key, cut(co, co + cs), cut(po, po + ps)), body |-> b]
LaidOut ==
  {Laid(b, HEADER_SIZE + Len(b) + t, co, cs, po, ps, entry[1], entry[2]) :
     b \in UnitBodies, t \in {-1, 0}, co \in {2, 3}, cs \in {0, 1, 2, 4}, po \in {2, 3, 4, 6},
     ps \in 0..2, entry \in {<<0, 0>>, <<0, 1>>, <<1, 1>>}}
\* A field changed after signing, another signer, a header cut short.
Altered ==
  LET p == build_package(<<Byte(1)>>, Key, Args(TYPE_BYTECODE, <<1>>, 1, 0))
      again(h) == [p EXCEPT !.header = sealed(h, Key, SubSeq(p.body, 1, 2), <<Byte(1)>>)]
  IN {[p EXCEPT !.header.module_version = 2], [p EXCEPT !.header.entry_offset = 1],
      [p EXCEPT !.body[3] = Byte(2)], [p EXCEPT !.body[1] = Cap(2)],
      [p EXCEPT !.present = 1, !.body = <<>>],
      build_package(<<Byte(1)>>, "other", Args(TYPE_BYTECODE, <<1>>, 1, 0)),
      again([p.header EXCEPT !.flags = 1]), again([p.header EXCEPT !.reserved = 1]),
      again([p.header EXCEPT !.module_id = 0]), again([p.header EXCEPT !.module_type = 3]),
      again([p.header EXCEPT !.min_platform = 2]), again([p.header EXCEPT !.abi_version = 2]),
      again([p.header EXCEPT !.identity = "XXXX"])}

\* Native payloads: built ones, and ones with moved regions or dirty padding.
Bytes(n) == [i \in 1..n |-> Byte(i)]
NativeArgs(bss, stk, entry, sim) ==
  [bss_size |-> bss, stack_size |-> stk, entry_offset |-> entry, api_version |-> 1,
   simulation_id |-> sim]
Built ==
  {build_native_payload(Bytes(c), Bytes(r), Bytes(d), NativeArgs(bss, stk, entry, sim)) :
     c \in {0, 2, 3, 6}, r \in {0, 1}, d \in {0, 2}, bss \in {0, 2}, stk \in {0, 2, 3},
     entry \in {0, 1, 2}, sim \in 0..1}
Moved ==
  LET p == build_native_payload(Bytes(2), Bytes(1), Bytes(1), NativeArgs(0, 2, 0, 1))
  IN {[p EXCEPT ![1].rodata_offset = o] : o \in 4..16} \cup {[p EXCEPT ![1].data_offset = o] : o \in 4..16}
     \cup {[p EXCEPT ![i] = Byte(1)] : i \in 5..Len(p)} \cup {Append(p, Zero)}
NativeInputs ==
  {LET h == p[1]
   IN build_package(p, Key, [Args(TYPE_NATIVE, caps, h.code_size + off, h.entry_offset) EXCEPT
        !.rodata_size = h.rodata_size, !.data_size = h.data_size, !.bss_size = h.bss_size,
        !.stack_size = h.stack_size]) :
     p \in Built \cup Moved, caps \in {<<1>>, <<1, 2>>}, off \in {0, 1}}

MCInputs ==
  Assembled \cup {[source |-> <<>>, blob |-> b] : b \in LaidOut \cup Altered \cup NativeInputs}

MCLayout ==
  [flash_end |-> 15, header_size |-> 1,
   sectors |-> <<<<0, 2>>, <<2, 3>>, <<3, 4>>, <<4, 5>>, <<5, 8>>, <<8, 10>>, <<10, 14>>, <<14, 15>>>>,
   ranges |-> [stage0 |-> <<0, 2>>, metadata_copy_0 |-> <<2, 3>>, metadata_copy_1 |-> <<3, 4>>,
               update_metadata |-> <<4, 5>>, recovery |-> <<14, 15>>],
   slots |-> [slot_a |-> [base |-> 5, payload |-> 7, end |-> 10],
              slot_b |-> [base |-> 10, payload |-> 12, end |-> 14]]]

MCDumps == {[a \in 0..14 |-> IF a \in {0, 1, 5, 7, 8} THEN 1 ELSE 3]}
MCPrng == [a \in 0..14 |-> (a * a + 1) % 4]
Lab(name, start, end, pattern) == Region(<<name, "lab">>, start, end, pattern)
MCCanarySpecs ==
  {Lab("gap", 6, 7, "all00"), Lab("lab", 11, 13, "none"),
   Lab("slot", 6, 9, "walking_zero"), Lab("all", 1, 14, "prng"),
   Lab("out", 13, 16, "allff"), Lab("empty", 12, 12, "allff"),
   Lab("slot", 12, 14, "address"), Lab("wide", 5, 15, "none"),
   Lab("odd", 6, 7, "stripes")}
=============================================================================
