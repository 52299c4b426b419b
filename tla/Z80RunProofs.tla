---------------------------- MODULE Z80RunProofs ----------------------------
(* How far run() goes, for all instruction times and arguments.            *)
EXTENDS Z80Run, TLAPS

CountCall == [fn : {"run_instructions"}, left : Nat]

RunCall == [fn : {"run"}, max : Nat, start : Int, target : Int]

\* Throughout a call of run() the counter has passed the target by less than
\* one step, and no addition has overflowed on the way.
RunInv ==
  /\ total_cycles \in IntRange
  /\ call \in {Idle} \cup RunCall \cup CountCall
  /\ call.fn = "run" =>
       /\ call \in RunCall
       /\ call.target = call.start + call.max
       /\ call.target + Longest <= IntMax
       /\ call.start \in IntRange
       /\ total_cycles >= call.start
       /\ total_cycles < call.target + Longest

\* An addition gives an int, and the sum if the sum is one.
LEMMA AddIntType ==
  \A a, n \in Int :
    /\ AddInt(a, n) \in IntRange
    /\ a + n \in IntRange => AddInt(a, n) = a + n
<1> SUFFICES ASSUME NEW a \in Int, NEW n \in Int
             PROVE  /\ AddInt(a, n) \in IntRange
                    /\ a + n \in IntRange => AddInt(a, n) = a + n
  OBVIOUS
<1> DEFINE M == 2 * (IntMax + 1)
           s == a + n + IntMax + 1
<1>1. M \in Nat /\ M > 0 /\ IntMax \in Nat /\ s \in Int
  BY RunAssumption
<1>2. s % M \in 0 .. (M - 1)
  BY <1>1
<1>3. s \in 0 .. (M - 1) => s % M = s
  BY <1>1
<1>4. AddInt(a, n) = (s % M) - (IntMax + 1)
  BY DEF AddInt
<1>5. QED BY <1>1, <1>2, <1>3, <1>4 DEF IntRange

\* One step() lengthens the run by at most Longest, without overflow.
LEMMA StepTime ==
  ASSUME RunInv, Accept \/ HaltTick \/ Instruction
  PROVE  /\ total_cycles' \in IntRange
         /\ call.fn = "run" /\ RunsOn =>
              /\ total_cycles' >= total_cycles
              /\ total_cycles' < call.target + Longest
<1>1. PICK t \in 1 .. Longest : total_cycles' = AddInt(total_cycles, t)
  <2>1. HaltTime \in 1 .. Longest
    BY RunAssumption DEF HaltTime
  <2>2. InstructionTimes \subseteq 1 .. Longest /\ ResponseTimes \subseteq 1 .. Longest
    BY RunAssumption
  <2>3. QED BY <2>1, <2>2 DEF Accept, HaltTick, Instruction, Elapse
<1>2. total_cycles \in Int /\ t \in Int
  BY RunAssumption DEF RunInv, IntRange
<1>3. total_cycles' \in IntRange
  BY <1>1, <1>2, AddIntType
<1>4. ASSUME call.fn = "run", RunsOn
      PROVE  /\ total_cycles' >= total_cycles
             /\ total_cycles' < call.target + Longest
  <2>1. /\ call.target \in Int /\ call.target + Longest <= IntMax
        /\ total_cycles < call.target
    BY <1>4 DEF RunInv, RunCall, RunsOn
  <2>2. /\ total_cycles + t \in IntRange
        /\ total_cycles + t < call.target + Longest
    BY <1>2, <2>1, RunAssumption DEF RunInv, IntRange
  <2>3. QED BY <1>1, <1>2, <2>2, AddIntType, RunAssumption
<1>5. QED BY <1>3, <1>4

LEMMA RunInvNext == Careful /\ RunInv /\ [Next]_vars => RunInv'
<1> SUFFICES ASSUME Careful, RunInv, [Next]_vars PROVE RunInv'
  OBVIOUS
<1>1. CASE RunStep
  <2>1. call.fn = "run" /\ RunsOn /\ call' = call
    BY <1>1 DEF RunStep
  <2>2. /\ total_cycles' \in IntRange /\ total_cycles' >= total_cycles
        /\ total_cycles' < call.target + Longest
    BY <1>1, <2>1, StepTime DEF RunStep
  <2>3. total_cycles \in Int /\ call.start \in Int /\ total_cycles' \in Int
    BY <2>1, <2>2, RunAssumption DEF RunInv, IntRange
  <2>4. total_cycles' >= call.start
    BY <2>1, <2>2, <2>3 DEF RunInv
  <2>5. QED BY <2>1, <2>2, <2>4 DEF RunInv
<1>2. CASE InstructionsStep
  <2>1. total_cycles' \in IntRange
    BY <1>2, StepTime DEF InstructionsStep
  <2>2. call \in CountCall
    BY <1>2 DEF InstructionsStep, RunInv, Idle, RunCall
  <2>3. call.left - 1 \in Nat
    BY <1>2, <2>2 DEF InstructionsStep, CountCall
  <2>4. call' \in CountCall
    BY <1>2, <2>2, <2>3 DEF InstructionsStep, CountCall
  <2>5. QED BY <2>1, <2>4 DEF RunInv, CountCall
<1>3. ASSUME NEW max \in CycleArgs, CallRun(max) PROVE RunInv'
  <2>1. max \in Nat /\ total_cycles \in Int /\ IntMax \in Nat /\ Longest \in Nat
        /\ Longest > 0
    BY RunAssumption DEF RunInv, IntRange, HaltTime
  <2>2. total_cycles + max + Longest <= IntMax
    BY <1>3 DEF CallRun, NoOverflow
  <2>3. AddInt(total_cycles, max) = total_cycles + max
    BY <2>1, <2>2, AddIntType DEF RunInv, IntRange
  <2>4. call' = [fn |-> "run", max |-> max, start |-> total_cycles,
                 target |-> total_cycles + max] /\ total_cycles' = total_cycles
    BY <1>3, <2>3 DEF CallRun
  <2>5. QED BY <2>1, <2>2, <2>4 DEF RunInv, RunCall
<1>4. ASSUME NEW count \in CountArgs, CallRunInstructions(count) PROVE RunInv'
  BY <1>4, RunAssumption DEF CallRunInstructions, RunInv, CountCall
<1>5. CASE RunReturn \/ InstructionsReturn
  BY <1>5 DEF RunReturn, InstructionsReturn, Idle, RunInv
<1>6. CASE Trigger \/ SetTrap \/ UNCHANGED vars
  BY <1>6 DEF Trigger, SetTrap, vars, RunInv
<1>7. CASE SetCycles \/ Reset
  BY <1>7, RunAssumption DEF SetCycles, Reset, Idle, RunInv, IntRange
<1>8. QED BY <1>1, <1>2, <1>3, <1>4, <1>5, <1>6, <1>7 DEF Next, Loop, Host

\* If the host sets the counter between calls only, and back before it can
\* overflow, a call of run() stops
\* within one step() of its target, and before it only at the trap address.
THEOREM RunIsOnTime ==
  ASSUME Careful
  PROVE  Spec => RunLength
<1>1. Init => RunInv
  BY RunAssumption DEF Init, Idle, RunInv, IntRange
<1>2. RunInv /\ [Next]_vars =>
        (RunReturn => /\ Elapsed < call.max + Longest
                      /\ Elapsed < call.max => PC = trap_address)
  <2> SUFFICES ASSUME RunInv, RunReturn
               PROVE  /\ Elapsed < call.max + Longest
                      /\ Elapsed < call.max => PC = trap_address
    OBVIOUS
  <2>1. /\ call.target = call.start + call.max
        /\ call.start \in Int /\ call.max \in Int /\ total_cycles \in Int
        /\ total_cycles < call.target + Longest
        /\ Longest \in Int
    BY RunAssumption DEF RunReturn, RunInv, RunCall, IntRange
  <2>2. total_cycles >= call.target \/ PC = trap_address
    BY <2>1 DEF RunReturn, RunsOn
  <2>3. QED BY <2>1, <2>2 DEF Elapsed
<1>3. RunInv /\ [Next]_vars => RunInv'
  BY RunInvNext
<1>4. QED BY <1>1, <1>2, <1>3, PTL DEF Spec, RunLength
=============================================================================
