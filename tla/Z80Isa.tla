------------------------------- MODULE Z80Isa -------------------------------
(***************************************************************************)
(* Opcode dispatch and the fixed addresses of the processor.  The two      *)
(* tables give the handler of each byte, as OpcodeTable::init fills        *)
(* main_table and ed_table; which byte stands for which handler is data,   *)
(* and a configuration chooses it.                                         *)
(***************************************************************************)
EXTENDS Z80Words

CONSTANTS MainTable, EdTable

MainHandlers ==
  {"nop", "halt", "di", "ei", "jp_nn", "jp_cc_nn", "jp_hl", "jr_e", "jr_cc_e",
   "djnz_e", "call_nn", "call_cc_nn", "ret", "ret_cc", "rst", "ld_hl_imm",
   "ld_sp_imm", "ED"}

EdHandlers == {"nop", "im_0", "im_1", "im_2", "retn", "reti", "ld_i_a"}

ASSUME TableAssumption == /\ MainTable \in [Byte -> MainHandlers]
                          /\ EdTable \in [Byte -> EdHandlers]

NmiVector == 102  \* 0x66
Im1Vector == 56   \* 0x38

ASSUME VectorAssumption == W * W > NmiVector

\* v & 0x38, the address of RST and of an IM 0 response.
RstVector(v) == 8 * ((v \div 8) % 8)

\* The IM 2 table entry (I << 8) | (vec & 0xFE).
TableEntry(i, vec) == WordOf(vec - (vec % 2), i)

-----------------------------------------------------------------------------

\* The handler execute_instruction dispatches to when PC is a, and the
\* address of the byte that follows the opcode.
Prefixed(m, a)  == MainTable[m[a]] = "ED"
Dispatch(m, a)  == IF Prefixed(m, a) THEN EdTable[m[Plus(a, 1)]]
                                     ELSE MainTable[m[a]]
AfterOpcode(m, a) == Plus(a, IF Prefixed(m, a) THEN 2 ELSE 1)
=============================================================================
