------------------------------ MODULE MCZ80Run ------------------------------
(***************************************************************************)
(* Z80Run with the times of the processor and an int of eight bits.  The    *)
(* arguments of run() are zero, less than a step, and several steps.       *)
(***************************************************************************)
EXTENDS Z80Run

MCAddresses        == 0 .. 2
MCInstructionTimes == {4, 23}
MCResponseTimes    == {11, 19}
MCCycleArgs        == {0, 3, 40}
MCCountArgs        == {0, 3}
=============================================================================
