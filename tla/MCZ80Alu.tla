------------------------------ MODULE MCZ80Alu ------------------------------
(***************************************************************************)
(* Z80Alu with real bytes.  The operands are decimal numbers that do and   *)
(* do not carry out of either digit, and bytes at the signed boundaries.   *)
(***************************************************************************)
EXTENDS Z80Alu

MCRead == {0, 147}
MCTested == {3, 7}
MCOperands == {1, 9, 25, 102, 127, 133, 153}
=============================================================================
