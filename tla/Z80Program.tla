----------------------------- MODULE Z80Program -----------------------------
(***************************************************************************)
(* What a program means to the programmer who wrote it: a program counter, *)
(* a counter B, the word in HL, a stack of return addresses and an         *)
(* interrupt switch.  There are no flip-flops, no latches and no memory    *)
(* below the stack pointer.  An interrupt is not part of the picture: it   *)
(* is only what ends a HALT.                                               *)
(*                                                                         *)
(* The code is in the words below StackFloor.  The program does not move   *)
(* its stack (LD SP,nn) and does not return more often than it called.     *)
(***************************************************************************)
EXTENDS Z80Isa, Sequences

CONSTANTS StackFloor, Codes

VARIABLES code, pc, b, hl, stack, ie, stopped

vars == <<code, pc, b, hl, stack, ie, stopped>>

Handler  == Dispatch(code, pc)
Operands == AfterOpcode(code, pc)
Imm16    == WordAt(code, Operands)
After(n) == Plus(Operands, n)
Relative == After(1 + Signed(code[Operands]))

Init ==
  /\ code \in Codes
  /\ pc = 0 /\ b = W - 1 /\ hl = W * W - 1
  /\ stack = <<>>
  /\ ie = FALSE
  /\ stopped = FALSE

\* Where control may go from a handler that only moves control.
Targets ==
  CASE Handler \in {"nop", "im_0", "im_1", "im_2", "ld_i_a"} -> {After(0)}
    [] Handler = "jp_nn"    -> {Imm16}
    [] Handler = "jp_cc_nn" -> {Imm16, After(2)}
    [] Handler = "jp_hl"    -> {hl}
    [] Handler = "jr_e"     -> {Relative}
    [] Handler = "jr_cc_e"  -> {Relative, After(1)}
    [] Handler = "call_cc_nn" -> {After(2)}
    [] Handler = "ret_cc"     -> {After(0)}
    [] OTHER -> {}

Move ==
  /\ ~stopped
  /\ pc' \in Targets
  /\ UNCHANGED <<code, b, hl, stack, ie, stopped>>

Loop ==
  /\ ~stopped /\ Handler = "djnz_e"
  /\ b' = (b - 1) % W
  /\ pc' = IF b' = 0 THEN After(1) ELSE Relative
  /\ UNCHANGED <<code, hl, stack, ie, stopped>>

Load ==
  /\ ~stopped /\ Handler = "ld_hl_imm"
  /\ hl' = Imm16
  /\ pc' = After(2)
  /\ UNCHANGED <<code, b, stack, ie, stopped>>

Call ==
  /\ ~stopped
  /\ \/ /\ Handler \in {"call_nn", "call_cc_nn"}
        /\ pc' = Imm16
        /\ stack' = Append(stack, After(2))
     \/ /\ Handler = "rst"
        /\ pc' = RstVector(code[pc])
        /\ stack' = Append(stack, After(0))
  /\ UNCHANGED <<code, b, hl, ie, stopped>>

Return ==
  /\ ~stopped /\ Handler \in {"ret", "ret_cc", "retn", "reti"}
  /\ stack # <<>>
  /\ pc' = stack[Len(stack)]
  /\ stack' = SubSeq(stack, 1, Len(stack) - 1)
  /\ UNCHANGED <<code, b, hl, ie, stopped>>

Switch ==
  /\ ~stopped /\ Handler \in {"ei", "di"}
  /\ ie' = (Handler = "ei")
  /\ pc' = After(0)
  /\ UNCHANGED <<code, b, hl, stack, stopped>>

Stop ==
  /\ ~stopped /\ Handler = "halt"
  /\ stopped' = TRUE
  /\ UNCHANGED <<code, pc, b, hl, stack, ie>>

Wake ==
  /\ stopped
  /\ stopped' = FALSE
  /\ pc' = After(0)
  /\ UNCHANGED <<code, b, hl, stack, ie>>

Restart ==
  /\ pc' = 0 /\ b' = W - 1 /\ hl' = W * W - 1
  /\ stack' = <<>> /\ ie' = FALSE /\ stopped' = FALSE
  /\ UNCHANGED code

Next == Move \/ Loop \/ Load \/ Call \/ Return \/ Switch \/ Stop \/ Wake
          \/ Restart

Spec == Init /\ [][Next]_vars
=============================================================================
