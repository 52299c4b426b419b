---------------------------- MODULE MCZ80Machine ----------------------------
(***************************************************************************)
(* The machine of the model-checking runs: dispatch tables that give every *)
(* handler one of 18 byte values, and memory images put together from      *)
(* programs.  Its 324 addresses include the vectors 0x38 and 0x66.         *)
(***************************************************************************)
EXTENDS Z80Isa, SequencesExt

\* Byte b is dispatched to the (b+1)-st handler of the list.
MCMainTable ==
  LET handlers == <<"nop", "halt", "di", "ei", "jp_nn", "jp_cc_nn", "jp_hl",
                    "jr_e", "rst", "jr_cc_e", "djnz_e", "call_nn",
                    "call_cc_nn", "ret", "ret_cc", "ED", "ld_hl_imm", "ld_sp_imm">>
  IN  [b \in Byte |-> handlers[b + 1]]

MCEdTable ==
  LET handlers == <<"im_0", "im_1", "im_2", "retn", "reti", "ld_i_a">>
  IN  [b \in Byte |-> IF b < Len(handlers) THEN handlers[b + 1] ELSE "nop"]

-----------------------------------------------------------------------------
(* Memory images are written as programs placed at addresses.              *)

Code(handler) == CHOOSE b \in Byte : MCMainTable[b] = handler
EdCode(handler) ==
  <<Code("ED"), CHOOSE b \in Byte : MCEdTable[b] = handler>>

\* An instruction with a word operand.
With(handler, w) == <<Code(handler), Lo(w), Hi(w)>>
\* A relative jump to the address delta bytes from the next instruction.
Relative(handler, delta) == <<Code(handler), delta % W>>

\* The image with bytes[k] placed from address at[k] on, and NOPs elsewhere.
Image(at, bytes) ==
  [a \in Word |->
     IF \E k \in DOMAIN at : a \in at[k] .. (at[k] + Len(bytes[k]) - 1)
     THEN LET k == CHOOSE j \in DOMAIN at :
                     a \in at[j] .. (at[j] + Len(bytes[j]) - 1)
          IN  bytes[k][a - at[k] + 1]
     ELSE 0]

One(handler) == <<Code(handler)>>

\* Reset, and so RST 0, jumps there.
MainBase == 120
=============================================================================
