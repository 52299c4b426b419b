------------------------------- MODULE Z80Run -------------------------------
(***************************************************************************)
(* The loops around step(): run(max_cycles) and run_instructions(count),   *)
(* with the cycle counter they measure themselves by, an int, and the trap *)
(* address.                                                                *)
(*                                                                         *)
(* step() itself is abstract: it accepts an interrupt, ticks in HALT, or   *)
(* executes an instruction that takes some time and leaves PC anywhere.    *)
(* Z80Core says which; here only the time and PC matter.                   *)
(***************************************************************************)
EXTENDS Integers

CONSTANTS
  Addresses,
  DefaultTrap,      \* 0xFFFF, the trap address after reset()
  InstructionTimes, \* T-states of instructions, wait states included
  ResponseTimes,    \* T-states of interrupt responses
  CycleArgs,        \* arguments of run()
  CountArgs,        \* arguments of run_instructions()
  Longest,          \* a bound on all of them
  IntMax,           \* the largest int
  Careful           \* the host sets the counter between calls only, and back
                    \* before it can overflow

HaltTime == 4

ASSUME RunAssumption ==
  /\ {0, DefaultTrap} \subseteq Addresses
  /\ InstructionTimes \cup ResponseTimes \subseteq 1 .. Longest
  /\ Longest \in Nat /\ HaltTime <= Longest
  /\ CycleArgs \subseteq Nat /\ CountArgs \subseteq Nat
  /\ IntMax \in Nat /\ Careful \in BOOLEAN

VARIABLES
  PC, halted,
  request,      \* the next step() accepts an interrupt
  total_cycles,
  trap_address,
  call          \* the call in progress

vars == <<PC, halted, request, total_cycles, trap_address, call>>

Idle == [fn |-> "none"]

IntRange == -(IntMax + 1) .. IntMax

\* An int addition as the compiled code does it, wrapping around (a signed
\* overflow, so undefined by the language).
AddInt(a, n) == ((a + n + IntMax + 1) % (2 * (IntMax + 1))) - (IntMax + 1)

Init ==
  /\ PC = 0
  /\ halted = FALSE /\ request = FALSE
  /\ total_cycles = 0
  /\ trap_address = DefaultTrap
  /\ call = Idle

-----------------------------------------------------------------------------
(* step()                                                                  *)

Elapse(times) == \E t \in times : total_cycles' = AddInt(total_cycles, t)

Accept ==
  /\ request
  /\ request' = FALSE
  /\ halted' = FALSE
  /\ PC' \in Addresses
  /\ Elapse(ResponseTimes)
  /\ UNCHANGED trap_address

\* Fault: a HALT tick takes no time.
HaltTickFree ==
  /\ ~request /\ halted
  /\ UNCHANGED <<PC, halted, request, total_cycles, trap_address>>

HaltTick ==
  /\ ~request /\ halted
  /\ Elapse({HaltTime})
  /\ UNCHANGED <<PC, halted, request, trap_address>>

Instruction ==
  /\ ~request /\ ~halted
  /\ \/ PC' \in Addresses /\ UNCHANGED halted
     \/ UNCHANGED PC /\ halted' = TRUE
  /\ Elapse(InstructionTimes)
  /\ UNCHANGED <<request, trap_address>>

-----------------------------------------------------------------------------
(* run()                                                                   *)

NoOverflow(max) == total_cycles + max + Longest <= IntMax

CallRun(max) ==
  /\ call = Idle
  /\ Careful => NoOverflow(max)
  /\ call' = [fn |-> "run", max |-> max, start |-> total_cycles,
              target |-> AddInt(total_cycles, max)]
  /\ UNCHANGED <<PC, halted, request, total_cycles, trap_address>>

\* Fault: <= for <.
RunsOnInclusive == total_cycles <= call.target /\ PC # trap_address

RunsOn == total_cycles < call.target /\ PC # trap_address

RunStep ==
  /\ call.fn = "run" /\ RunsOn
  /\ Accept \/ HaltTick \/ Instruction
  /\ UNCHANGED call

RunReturn ==
  /\ call.fn = "run" /\ ~RunsOn
  /\ call' = Idle
  /\ UNCHANGED <<PC, halted, request, total_cycles, trap_address>>

-----------------------------------------------------------------------------
(* run_instructions(): left is count - i.  An interrupt response counts as *)
(* an instruction.                                                         *)

CallRunInstructions(count) ==
  /\ call = Idle
  /\ Careful => NoOverflow(count * Longest)
  /\ call' = [fn |-> "run_instructions", left |-> count]
  /\ UNCHANGED <<PC, halted, request, total_cycles, trap_address>>

InstructionsStep ==
  /\ call.fn = "run_instructions" /\ call.left > 0 /\ ~halted
  /\ Accept \/ Instruction
  /\ call' = [call EXCEPT !.left = @ - 1]

InstructionsReturn ==
  /\ call.fn = "run_instructions" /\ (call.left = 0 \/ halted)
  /\ call' = Idle
  /\ UNCHANGED <<PC, halted, request, total_cycles, trap_address>>

-----------------------------------------------------------------------------
(* The host, which may raise a request from a bus callback too.            *)

Trigger ==
  /\ request' = TRUE
  /\ UNCHANGED <<PC, halted, total_cycles, trap_address, call>>

SetTrap ==
  /\ trap_address' \in Addresses
  /\ UNCHANGED <<PC, halted, request, total_cycles, call>>

\* The setter of the counter takes any int.
SetCycles ==
  /\ Careful => call = Idle
  /\ total_cycles' \in IntRange
  /\ UNCHANGED <<PC, halted, request, trap_address, call>>

Reset ==
  /\ call = Idle
  /\ PC' = 0
  /\ halted' = FALSE /\ request' = FALSE
  /\ total_cycles' = 0
  /\ trap_address' = DefaultTrap
  /\ UNCHANGED call

Loop == RunStep \/ RunReturn \/ InstructionsStep \/ InstructionsReturn
Host == \/ \E max \in CycleArgs : CallRun(max)
        \/ \E count \in CountArgs : CallRunInstructions(count)
        \/ Trigger \/ SetTrap \/ SetCycles \/ Reset
Next == Loop \/ Host

Spec == Init /\ [][Next]_vars

\* A call that has been made executes its loop.
FairSpec == Spec /\ WF_vars(Loop)

-----------------------------------------------------------------------------
(* Properties.                                                             *)

Elapsed == total_cycles - call.start

\* run() overshoots by less than one step(), and it falls short only when it
\* meets the trap address.
RunLength ==
  [][RunReturn => /\ Elapsed < call.max + Longest
                  /\ Elapsed < call.max => PC = trap_address]_vars

\* Every call returns, halted processor or not: each step() takes time or uses
\* up a count.
CallsReturn == call # Idle ~> call = Idle

=============================================================================
