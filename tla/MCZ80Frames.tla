---------------------------- MODULE MCZ80Frames ----------------------------
(***************************************************************************)
(* Main programs with subroutines and HALT, under interrupts whose         *)
(* handlers end in "EI; RETI" and "RETN".                                  *)
(***************************************************************************)
EXTENDS Z80Frames, MCZ80Machine

Pieces ==
  {One("halt"), One("di"), One("ei"), With("call_cc_nn", 90),
   One("rst"), EdCode("im_1"), Relative("jr_cc_e", 1) \o One("ei")}

FrameImages ==
  {Image(<<0, 8, 16, 56, 90, NmiVector, MainBase>>,
         <<With("jp_nn", MainBase),
           One("ret"),                                        \* RST 8
           With("call_nn", 8) \o One("ei") \o One("ret"),      \* IM 0
           One("ei") \o EdCode("reti"),                       \* IM 1
           One("rst") \o One("ret_cc") \o One("halt") \o One("ret"),
           EdCode("retn"),                                    \* NMI
           p \o q \o Relative("jr_e", (-2) - Len(p \o q))>>) :
   p, q \in Pieces}

MCAccValues  == {12}
MCIntData    == {8}
MCAckVectors == {17}
=============================================================================
