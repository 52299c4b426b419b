--------------------------- MODULE Z80CoreProofs ---------------------------
(***************************************************************************)
(* Theorems about Z80Core, for every byte width, opcode assignment, memory *)
(* image and host.                                                         *)
(***************************************************************************)
EXTENDS Z80Core, Z80WordsTheorems

-----------------------------------------------------------------------------
(* Operands and addresses are words.                                       *)

\* The addresses of the fixed vectors, of RST and of IM 0.
LEMMA VectorWord ==
  /\ NmiVector \in Word /\ Im1Vector \in Word /\ 0 \in Word /\ (W * W - 1) \in Word
  /\ \A v \in Byte : RstVector(v) \in Word
<1>1. W \in Nat /\ W * W \in Nat
  BY WidthAssumption
<1>3. W * W > 102
  BY VectorAssumption DEF NmiVector
<1>4. ASSUME NEW v \in Byte PROVE RstVector(v) \in 0 .. 56
  <2>1. v \in Nat
    BY <1>1 DEF Byte
  <2>2. v \div 8 \in Nat
    BY <2>1
  <2>3. (v \div 8) % 8 \in 0 .. 7
    BY <2>2
  <2>4. QED BY <2>3 DEF RstVector
<1>5. QED BY <1>1, <1>3, <1>4 DEF NmiVector, Im1Vector, Word

\* An IM 2 response reads its vector from inside the address space.
LEMMA TableEntryWord == \A i, v \in Byte : TableEntry(i, v) \in Word
<1> SUFFICES ASSUME NEW i \in Byte, NEW v \in Byte
             PROVE  TableEntry(i, v) \in Word
  OBVIOUS
<1>1. v - (v % 2) \in Byte
  <2>1. W \in Nat /\ v \in Nat /\ v <= W - 1
    BY WidthAssumption DEF Byte
  <2>2. v % 2 \in 0 .. 1 /\ (v % 2) <= v
    BY <2>1
  <2>3. QED BY <2>1, <2>2 DEF Byte
<1>2. QED BY <1>1, WordOfWord DEF TableEntry

LEMMA WordInt == Word \subseteq Int /\ Byte \subseteq Int
BY DEF Word, Byte

LEMMA Stepped == \A a \in Word, n \in Int : Plus(a, n) \in Word
BY WordInt, PlusWord

\* What the handlers of execute_instruction read behind the opcode.
LEMMA OperandsType ==
  ASSUME TypeOK
  PROVE  /\ Operands \in Word /\ Imm8 \in Byte /\ Imm16 \in Word
         /\ JrTarget \in Word /\ Resume \in Word
         /\ \A n \in Int : Plus(Operands, n) \in Word
<1>1. PC \in Word /\ mem \in [Word -> Byte]
  BY DEF TypeOK
<1>2. AfterOpcode(mem, PC) \in Word
  BY <1>1, Stepped DEF AfterOpcode
<1>3. Operands \in Word /\ Imm8 \in Byte /\ Imm16 \in Word
  BY <1>1, <1>2, WordAtWord DEF Operands, Imm8, Imm16
<1>4. Signed(Imm8) \in Int
  BY <1>3, WordInt, WidthAssumption DEF Signed
<1>5. JrTarget \in Word /\ \A n \in Int : Plus(Operands, n) \in Word
  BY <1>3, <1>4, Stepped DEF JrTarget
<1>6. Resume \in Word
  BY <1>1, Stepped DEF Resume
<1>7. QED BY <1>3, <1>5, <1>6

-----------------------------------------------------------------------------
(* Type correctness.                                                       *)

LEMMA InitType == Init => TypeOK
<1> SUFFICES ASSUME Init PROVE TypeOK
  OBVIOUS
<1>1. 0 \in Byte /\ W - 1 \in Byte
  BY WidthAssumption DEF Byte
<1>2. mem \in [Word -> Byte]
  BY ImageAssumption DEF Init
<1>3. PC \in Word /\ SP \in Word /\ HL \in Word
  BY VectorWord DEF Init
<1>4. nmis \in 0 .. MaxNmi /\ IM \in 0 .. 2
  BY HostAssumption DEF Init
<1>5. B \in Byte /\ I \in Byte /\ interrupt_data \in Byte
  BY <1>1 DEF Init
<1>6. /\ IFF1 \in BOOLEAN /\ IFF2 \in BOOLEAN /\ EI_JUST_RESOLVED \in BOOLEAN
      /\ halted \in BOOLEAN /\ acknowledging \in BOOLEAN
      /\ interrupt_pending \in BOOLEAN /\ nmi_pending \in BOOLEAN
  BY DEF Init
<1>7. QED BY <1>2, <1>3, <1>4, <1>5, <1>6 DEF TypeOK

\* The three ways a handler moves control.
LEMMA GotoType ==
  ASSUME TypeOK, NEW target \in Word, Goto(target)
  PROVE  /\ PC' \in Word /\ SP' \in Word /\ HL' \in Word /\ B' \in Byte
         /\ I' \in Byte /\ IM' \in 0 .. 2 /\ mem' \in [Word -> Byte]
         /\ IFF1' \in BOOLEAN /\ IFF2' \in BOOLEAN /\ halted' \in BOOLEAN
BY DEF TypeOK, Goto, modes, iffs

LEMMA CallType ==
  ASSUME TypeOK, NEW target \in Word, NEW return \in Word,
         CallTo(target, return)
  PROVE  /\ PC' \in Word /\ SP' \in Word /\ HL' \in Word /\ B' \in Byte
         /\ I' \in Byte /\ IM' \in 0 .. 2 /\ mem' \in [Word -> Byte]
         /\ IFF1' \in BOOLEAN /\ IFF2' \in BOOLEAN /\ halted' \in BOOLEAN
<1>1. SP \in Word /\ mem \in [Word -> Byte]
  BY DEF TypeOK
<1>2. mem' \in [Word -> Byte] /\ SP' \in Word
  BY <1>1, PushType, Stepped DEF CallTo
<1>3. QED BY <1>2 DEF TypeOK, CallTo, modes, iffs

LEMMA PopType ==
  ASSUME TypeOK, PopPC
  PROVE  /\ PC' \in Word /\ SP' \in Word /\ HL' \in Word /\ B' \in Byte
         /\ I' \in Byte /\ IM' \in 0 .. 2 /\ mem' \in [Word -> Byte]
         /\ halted' \in BOOLEAN
<1>1. SP \in Word /\ mem \in [Word -> Byte]
  BY DEF TypeOK
<1>2. PC' \in Word /\ SP' \in Word
  BY <1>1, WordAtWord, Stepped DEF PopPC
<1>3. QED BY <1>2 DEF TypeOK, PopPC, modes

\* What execute_instruction itself keeps, whatever the handler.
LEMMA ExecuteType ==
  ASSUME TypeOK, NEW handler, Execute(handler)
  PROVE  /\ EI_JUST_RESOLVED' \in BOOLEAN /\ acknowledging' \in BOOLEAN
         /\ interrupt_pending' \in BOOLEAN /\ nmi_pending' \in BOOLEAN
         /\ interrupt_data' \in Byte /\ nmis' \in 0 .. MaxNmi
BY DEF TypeOK, Execute, lines

LEMMA InstructionType == TypeOK /\ Instruction => TypeOK'
<1> SUFFICES ASSUME TypeOK, Instruction PROVE TypeOK'
  OBVIOUS
<1> DEFINE Registers ==
      /\ PC \in Word /\ SP \in Word /\ HL \in Word /\ B \in Byte
      /\ I \in Byte /\ IM \in 0 .. 2 /\ mem \in [Word -> Byte]
      /\ IFF1 \in BOOLEAN /\ IFF2 \in BOOLEAN /\ halted \in BOOLEAN
<1>1. /\ EI_JUST_RESOLVED' \in BOOLEAN /\ acknowledging' \in BOOLEAN
      /\ interrupt_pending' \in BOOLEAN /\ nmi_pending' \in BOOLEAN
      /\ interrupt_data' \in Byte /\ nmis' \in 0 .. MaxNmi
  <2>1. PICK handler : Execute(handler)
    BY DEF Instruction, Nop, Halt, Di, Ei, RetnReti, LdIA, LdHlImm, LdSpImm, Im,
           JpNn, JpCcNn, JpHl, JrE, JrCcE, DjnzE, CallNn, CallCcNn, Rst, Ret,
           RetCc
  <2>2. QED BY <2>1, ExecuteType
<1>2. Registers'
  <2>1. CASE Nop \/ JpNn \/ JpCcNn \/ JpHl \/ JrE \/ JrCcE
    <3>1. PICK target \in Word : Goto(target)
      <4>1. HL \in Word /\ 1 \in Int /\ 2 \in Int
        BY DEF TypeOK
      <4>2. QED BY <2>1, <4>1, OperandsType
                DEF Nop, JpNn, JpCcNn, JpHl, JrE, JrCcE
    <3>2. QED BY <3>1, GotoType
  <2>2. CASE DjnzE
    <3>1. B' \in Byte
      BY <2>2, WidthAssumption DEF DjnzE, TypeOK, Byte
    <3>2. PC' \in Word
      BY <2>2, OperandsType DEF DjnzE
    <3>3. QED BY <2>2, <3>1, <3>2 DEF DjnzE, TypeOK, modes, iffs
  <2>3. CASE CallNn \/ CallCcNn \/ Rst
    <3>1. Imm16 \in Word /\ Operands \in Word /\ Plus(Operands, 2) \in Word
      BY OperandsType
    <3>2. RstVector(mem[PC]) \in Word
      BY VectorWord DEF TypeOK
    <3>3. CASE \E target, return \in Word : CallTo(target, return)
      BY <3>3, CallType
    <3>4. CASE Goto(Plus(Operands, 2))
      BY <3>1, <3>4, GotoType
    <3>5. QED BY <2>3, <3>1, <3>2, <3>3, <3>4 DEF CallNn, CallCcNn, Rst
  <2>4. CASE Ret \/ RetCc
    <3>1. CASE PopPC /\ UNCHANGED iffs
      BY <3>1, PopType DEF iffs, TypeOK
    <3>2. CASE Goto(Operands)
      BY <3>2, OperandsType, GotoType
    <3>3. QED BY <2>4, <3>1, <3>2 DEF Ret, RetCc
  <2>5. CASE RetnReti
    BY <2>5, PopType DEF RetnReti, TypeOK
  <2>6. CASE Di \/ Ei
    BY <2>6, OperandsType DEF Di, Ei, TypeOK, modes
  <2>7. CASE Im(0, "im_0") \/ Im(1, "im_1") \/ Im(2, "im_2")
    BY <2>7, OperandsType DEF Im, TypeOK, iffs
  <2>8. CASE LdIA
    BY <2>8, OperandsType, HostAssumption DEF LdIA, TypeOK, iffs
  <2>9. CASE LdHlImm \/ LdSpImm
    BY <2>9, OperandsType DEF LdHlImm, LdSpImm, TypeOK, modes, iffs
  <2>10. CASE Halt
    BY <2>10, OperandsType DEF Halt, TypeOK, modes, iffs
  <2>11. QED BY <2>1, <2>2, <2>3, <2>4, <2>5, <2>6, <2>7, <2>8, <2>9, <2>10
             DEF Instruction
<1>3. QED BY <1>1, <1>2 DEF TypeOK

\* The acceptance of an interrupt keeps the registers in range.
LEMMA AcceptType == TypeOK /\ (AcceptNmi \/ AcceptInt) => TypeOK'
<1> SUFFICES ASSUME TypeOK, AcceptNmi \/ AcceptInt PROVE TypeOK'
  OBVIOUS
<1>1. PC \in Word /\ SP \in Word /\ mem \in [Word -> Byte] /\ I \in Byte
  BY DEF TypeOK
<1>2. Plus(SP, -2) \in Word
  BY <1>1, Stepped
<1>3. \A w \in Word : Push(mem, SP, w) \in [Word -> Byte]
  BY <1>1, PushType
<1>4. CASE AcceptNmi
  <2>1. mem' \in [Word -> Byte] /\ PC' \in Word /\ SP' \in Word
    BY <1>2, <1>3, <1>4, OperandsType, VectorWord DEF AcceptNmi
  <2>2. QED BY <1>4, <2>1 DEF AcceptNmi, TypeOK, modes
<1>5. CASE BeginInt \/ UnwindInt
  BY <1>5, OperandsType DEF BeginInt, UnwindInt, TypeOK, flow, modes, iffs
<1>6. ASSUME NEW vec \in AckVectors, FinishInt(vec) PROVE TypeOK'
  <2>1. mem' \in [Word -> Byte] /\ SP' \in Word
    BY <1>1, <1>2, <1>3, <1>6 DEF FinishInt
  <2>2. vec \in Byte
    BY HostAssumption
  <2>3. WordAt(mem', TableEntry(I, vec)) \in Word
    BY <1>1, <2>1, <2>2, TableEntryWord, WordAtWord
  <2>4. PC' \in Word
    BY <1>6, <2>2, <2>3, VectorWord DEF FinishInt, ServiceRoutine
  <2>5. QED BY <1>6, <2>1, <2>4 DEF FinishInt, TypeOK, modes, iffs
<1>7. QED BY <1>4, <1>5, <1>6 DEF AcceptInt

LEMMA HostType == TypeOK /\ Host => TypeOK'
<1> SUFFICES ASSUME TypeOK, Host PROVE TypeOK'
  OBVIOUS
<1>1. CASE TriggerInterrupt
  BY <1>1, HostAssumption DEF TriggerInterrupt, TypeOK, flow, modes, iffs
<1>2. CASE TriggerNmi
  <2>1. nmis' \in 0 .. MaxNmi
    BY <1>2, HostAssumption DEF TriggerNmi, TypeOK
  <2>2. QED BY <1>2, <2>1 DEF TriggerNmi, TypeOK, flow, modes, iffs
<1>3. CASE Reset
  <2>1. 0 \in Byte /\ W - 1 \in Byte
    BY WidthAssumption DEF Byte
  <2>2. PC' \in Word /\ SP' \in Word /\ HL' \in Word
    BY <1>3, VectorWord DEF Reset
  <2>3. B' \in Byte /\ I' \in Byte /\ interrupt_data' \in Byte
    BY <1>3, <2>1 DEF Reset
  <2>4. /\ IFF1' \in BOOLEAN /\ IFF2' \in BOOLEAN
        /\ EI_JUST_RESOLVED' \in BOOLEAN /\ halted' \in BOOLEAN
        /\ interrupt_pending' \in BOOLEAN /\ nmi_pending' \in BOOLEAN
    BY <1>3 DEF Reset
  <2>5. /\ mem' \in [Word -> Byte] /\ acknowledging' \in BOOLEAN
        /\ nmis' \in 0 .. MaxNmi /\ IM' \in 0 .. 2
    BY <1>3 DEF Reset, TypeOK
  <2>6. QED BY <2>2, <2>3, <2>4, <2>5 DEF TypeOK
<1>4. QED BY <1>1, <1>2, <1>3 DEF Host

\* Every register and every memory cell keeps its width: no computation of an
\* address, however it wraps around, leaves the address space.
THEOREM TypeCorrect == Spec => []TypeOK
<1>1. TypeOK /\ [Next]_vars => TypeOK'
  <2> SUFFICES ASSUME TypeOK, [Next]_vars PROVE TypeOK'
    OBVIOUS
  <2>1. CASE Step
    BY <2>1, InstructionType, AcceptType DEF Step
  <2>2. CASE Host
    BY <2>2, HostType
  <2>3. CASE UNCHANGED vars
    BY <2>3 DEF vars, TypeOK, flow, modes, iffs, lines
  <2>4. QED BY <2>1, <2>2, <2>3 DEF Next
<1>2. QED BY <1>1, InitType, PTL DEF Spec

-----------------------------------------------------------------------------
(* HALT.                                                                   *)

\* A HALT opcode has no prefix: one byte back from its end is the opcode.
LEMMA HaltOpcode ==
  ASSUME TypeOK, Halt
  PROVE  PC' = PC /\ MainTable[mem[PC]] = "halt"
<1>1. Dispatch(mem, PC) = "halt"
  BY DEF Halt, Execute
<1>2. ~Prefixed(mem, PC) /\ MainTable[mem[PC]] = "halt"
  <2>1. mem[Plus(PC, 1)] \in Byte
    BY Stepped DEF TypeOK
  <2>2. EdTable[mem[Plus(PC, 1)]] \in EdHandlers
    BY <2>1, TableAssumption
  <2>3. QED BY <1>1, <2>2 DEF Dispatch, EdHandlers
<1>3. Operands = Plus(PC, 1)
  BY <1>2 DEF Operands, AfterOpcode
<1>4. Plus(Plus(PC, 1), -1) = PC
  BY PlusBack DEF TypeOK
<1>5. QED BY <1>2, <1>3, <1>4 DEF Halt

\* The end of an acceptance writes memory too, so what is inductive says as
\* well that an acceptance has left HALT before it calls the bus.
HaltInv == HaltPointsAtHalt /\ (acknowledging => ~halted)

LEMMA HaltInvInit == Init => HaltInv
BY DEF Init, HaltInv, HaltPointsAtHalt

LEMMA HaltInvNext == TypeOK /\ HaltInv /\ [Next]_vars => HaltInv'
<1> SUFFICES ASSUME TypeOK, HaltInv, [Next]_vars PROVE HaltInv'
  OBVIOUS
<1>1. CASE Halt
  <2>1. ~acknowledging'
    BY <1>1 DEF Halt, Execute, lines
  <2>2. mem' = mem
    BY <1>1 DEF Halt
  <2>3. QED BY <1>1, <2>1, <2>2, HaltOpcode DEF HaltInv, HaltPointsAtHalt
<1>2. CASE Instruction /\ ~Halt
  <2>1. ~halted
    BY <1>2 DEF Instruction, Execute, Nop, Di, Ei, RetnReti, LdIA, LdHlImm,
                LdSpImm, Im, JpNn, JpCcNn, JpHl, JrE, JrCcE, DjnzE, CallNn,
                CallCcNn, Rst, Ret, RetCc
  <2>2. halted' = halted
    BY <1>2 DEF Instruction, Goto, CallTo, PopPC, Nop, Di, Ei, RetnReti, LdIA,
                LdHlImm, LdSpImm, Im, JpNn, JpCcNn, JpHl, JrE, JrCcE, DjnzE,
                CallNn, CallCcNn, Rst, Ret, RetCc
  <2>3. QED BY <2>1, <2>2 DEF HaltInv, HaltPointsAtHalt
<1>3. CASE AcceptNmi \/ BeginInt \/ Reset
  BY <1>3 DEF AcceptNmi, BeginInt, Reset, HaltInv, HaltPointsAtHalt
<1>4. ASSUME NEW vec \in AckVectors, FinishInt(vec) PROVE HaltInv'
  BY <1>4 DEF FinishInt, HaltInv, HaltPointsAtHalt
<1>5. CASE UnwindInt \/ TriggerInterrupt \/ TriggerNmi \/ UNCHANGED vars
  BY <1>5 DEF UnwindInt, TriggerInterrupt, TriggerNmi, vars, flow, lines,
              HaltInv, HaltPointsAtHalt
<1>6. QED BY <1>1, <1>2, <1>3, <1>4, <1>5 DEF Next, Step, Host, AcceptInt

\* Nothing that happens to a halted processor moves PC or writes memory, except
\* the acceptance that ends the HALT: PC points at the HALT opcode throughout.
THEOREM HaltedAtHalt == Spec => []HaltPointsAtHalt
<1>1. HaltInv => HaltPointsAtHalt
  BY DEF HaltInv
<1>2. QED BY <1>1, HaltInvInit, HaltInvNext, TypeCorrect, PTL DEF Spec

-----------------------------------------------------------------------------
(* Requests.                                                               *)

\* Only the start of an acceptance and reset() drop a latched request.
THEOREM RequestsSurvive == Spec => RequestSurvives
<1>1. [Next]_vars =>
        (interrupt_pending /\ ~interrupt_pending' => BeginInt \/ Reset)
  <2> SUFFICES ASSUME [Next]_vars, ~BeginInt, ~Reset, interrupt_pending
               PROVE  interrupt_pending'
    OBVIOUS
  <2>1. CASE Instruction
    BY <2>1 DEF Instruction, Execute, lines, Nop, Halt, Di, Ei, RetnReti, LdIA,
                LdHlImm, LdSpImm, Im, JpNn, JpCcNn, JpHl, JrE, JrCcE, DjnzE,
                CallNn, CallCcNn, Rst, Ret, RetCc
  <2>2. CASE AcceptNmi \/ UnwindInt \/ \E vec \in AckVectors : FinishInt(vec)
    BY <2>2 DEF AcceptNmi, UnwindInt, FinishInt
  <2>3. CASE TriggerInterrupt \/ TriggerNmi \/ UNCHANGED vars
    BY <2>3 DEF TriggerInterrupt, TriggerNmi, vars, lines
  <2>4. QED BY <2>1, <2>2, <2>3 DEF Next, Step, Host, AcceptInt
<1>2. QED BY <1>1, PTL DEF Spec, RequestSurvives
=============================================================================
