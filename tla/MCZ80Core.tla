----------------------------- MODULE MCZ80Core -----------------------------
(***************************************************************************)
(* Z80Core under every interrupt mode, with programs that between them use *)
(* every handler.                                                          *)
(***************************************************************************)
EXTENDS Z80Core, MCZ80Machine

\* The main programs, each repeated for ever.
Pieces ==
  {One("nop"), One("halt"), One("di"), One("ei"), EdCode("im_1"),
   EdCode("ld_i_a") \o EdCode("im_2"), Relative("jr_e", 0)}

Programs ==
  {p \o q : p, q \in Pieces}
    \cup {EdCode("nop") \o One("rst") \o Relative("djnz_e", -2),
          With("call_cc_nn", 90)}

\* Reset jumps to the main program, and the bodies of the subroutines use the
\* remaining handlers.
CoreImages ==
  {Image(<<0, 8, 16, 56, 90, 101, NmiVector, MainBase, 232>>,
         <<With("ld_sp_imm", 320) \o With("jp_nn", MainBase),
           One("ret"),                                   \* RST 8
           One("ei") \o One("ret"),                      \* IM 0
           One("ei") \o EdCode("reti"),                  \* IM 1 and IM 2
           With("ld_hl_imm", 97) \o Relative("jr_cc_e", 1) \o One("jp_hl")
             \o One("nop") \o With("jp_cc_nn", 101),     \* a subroutine
           With("call_nn", 8) \o One("ret_cc") \o One("ret"),
           EdCode("retn"),                               \* NMI
           p \o With("jp_nn", MainBase),
           <<Lo(56), Hi(56)>>>>) :                       \* IM 2 table
   p \in Programs}

MCAccValues  == {12}       \* the IM 2 table is at 12 * W = 216
MCIntData    == {8}
MCAckVectors == {16, 17}
=============================================================================
