------------------------------ MODULE Z80Core ------------------------------
(***************************************************************************)
(* The control core of the processor: Z80::step with the acceptance of     *)
(* NMI and INT, the interrupt flip-flops, HALT, and every handler that     *)
(* changes the flow of control.                                            *)
(*                                                                         *)
(* One call of step() is one action, except that the acceptance of an INT  *)
(* is cut at the bus callback interrupt_acknowledge() (BeginInt, then      *)
(* FinishInt), because the host runs there and may raise new requests.  A  *)
(* request raised from any other bus callback is the same as one raised    *)
(* after the step: only the start of step() reads the latches.             *)
(*                                                                         *)
(* Abstracted: the flags (a condition may be true or false), the value of  *)
(* A (any of AccValues), and MEMPTR, Q, R and the cycle counters, which no *)
(* guard reads.  A HALT tick changes only R and the counters, so it is a   *)
(* stuttering step here.                                                   *)
(***************************************************************************)
EXTENDS Z80Isa

CONSTANTS
  Images,     \* the memory images the host may load before it starts
  AccValues,  \* values A may hold when LD I,A executes
  IntData,    \* bytes the host passes to trigger_interrupt
  AckVectors, \* bytes the bus may return from interrupt_acknowledge
  MaxNmi      \* how often the host raises NMI

ASSUME ImageAssumption == Images \subseteq [Word -> Byte]
ASSUME HostAssumption  == /\ AccValues \subseteq Byte
                          /\ IntData \subseteq Byte
                          /\ AckVectors \subseteq Byte
                          /\ MaxNmi \in Nat

VARIABLES
  PC, SP, B, HL, I, IM,
  IFF1, IFF2, EI_JUST_RESOLVED,
  mem,
  halted,
  interrupt_pending, interrupt_data, nmi_pending,
  acknowledging,  \* step() is inside interrupt_acknowledge()
  nmis            \* NMIs raised so far

flow  == <<PC, SP, mem>>
modes == <<I, IM>>
iffs  == <<IFF1, IFF2>>
lines == <<interrupt_pending, interrupt_data, nmi_pending, acknowledging, nmis>>
vars  == <<flow, B, HL, modes, iffs, EI_JUST_RESOLVED, halted, lines>>

TypeOK ==
  /\ PC \in Word /\ SP \in Word /\ HL \in Word
  /\ B \in Byte /\ I \in Byte
  /\ IM \in 0 .. 2
  /\ mem \in [Word -> Byte]
  /\ interrupt_data \in Byte
  /\ nmis \in 0 .. MaxNmi
  /\ IFF1 \in BOOLEAN /\ IFF2 \in BOOLEAN /\ EI_JUST_RESOLVED \in BOOLEAN
  /\ halted \in BOOLEAN /\ acknowledging \in BOOLEAN
  /\ interrupt_pending \in BOOLEAN /\ nmi_pending \in BOOLEAN

\* The state the constructor leaves, by way of reset().
Init ==
  /\ PC = 0 /\ SP = W * W - 1 /\ HL = W * W - 1
  /\ B = W - 1 /\ I = 0 /\ IM = 0
  /\ IFF1 = FALSE /\ IFF2 = FALSE /\ EI_JUST_RESOLVED = FALSE
  /\ halted = FALSE
  /\ interrupt_pending = FALSE /\ interrupt_data = W - 1
  /\ nmi_pending = FALSE
  /\ mem \in Images
  /\ acknowledging = FALSE
  /\ nmis = 0

-----------------------------------------------------------------------------
(* The host.                                                               *)

TriggerInterrupt ==
  /\ interrupt_data' \in IntData
  /\ interrupt_pending' = TRUE
  /\ UNCHANGED <<flow, B, HL, modes, iffs, EI_JUST_RESOLVED, halted,
                 nmi_pending, acknowledging, nmis>>

TriggerNmi ==
  /\ nmis < MaxNmi
  /\ nmis' = nmis + 1
  /\ nmi_pending' = TRUE
  /\ UNCHANGED <<flow, B, HL, modes, iffs, EI_JUST_RESOLVED, halted,
                 interrupt_pending, interrupt_data, acknowledging>>

\* reset(): the whole processor, but not the memory.
Reset ==
  /\ ~acknowledging
  /\ PC' = 0 /\ SP' = W * W - 1 /\ HL' = W * W - 1
  /\ B' = W - 1 /\ I' = 0 /\ IM' = 0
  /\ IFF1' = FALSE /\ IFF2' = FALSE /\ EI_JUST_RESOLVED' = FALSE
  /\ halted' = FALSE
  /\ interrupt_pending' = FALSE /\ interrupt_data' = W - 1
  /\ nmi_pending' = FALSE
  /\ UNCHANGED <<mem, acknowledging, nmis>>

-----------------------------------------------------------------------------
(* step(): interrupt acceptance.                                           *)

\* No code ever sets regs.UnresolvedPrefix, so it does not appear.
IntAccepted == interrupt_pending /\ IFF1 /\ ~EI_JUST_RESOLVED

\* Where the interrupted program continues: past a HALT.
Resume == IF halted THEN Plus(PC, 1) ELSE PC

\* Fault: NMI masked by IFF1.
AcceptNmiMasked ==
  /\ ~acknowledging /\ nmi_pending /\ IFF1
  /\ nmi_pending' = FALSE
  /\ halted' = FALSE
  /\ IFF2' = IFF1
  /\ IFF1' = FALSE
  /\ mem' = Push(mem, SP, Resume)
  /\ SP' = Plus(SP, -2)
  /\ PC' = NmiVector
  /\ UNCHANGED <<B, HL, modes, EI_JUST_RESOLVED, interrupt_pending,
                 interrupt_data, acknowledging, nmis>>

AcceptNmi ==
  /\ ~acknowledging /\ nmi_pending
  /\ nmi_pending' = FALSE
  /\ halted' = FALSE
  /\ IFF2' = IFF1
  /\ IFF1' = FALSE
  /\ mem' = Push(mem, SP, Resume)
  /\ SP' = Plus(SP, -2)
  /\ PC' = NmiVector
  /\ UNCHANGED <<B, HL, modes, EI_JUST_RESOLVED, interrupt_pending,
                 interrupt_data, acknowledging, nmis>>

\* Fault: only IFF1 is cleared, and RETI gets it back from IFF2.
BeginIntKeepsIff2 ==
  /\ ~acknowledging /\ ~nmi_pending /\ IntAccepted
  /\ interrupt_pending' = FALSE
  /\ IFF1' = FALSE /\ UNCHANGED IFF2
  /\ halted' = FALSE
  /\ PC' = Resume
  /\ acknowledging' = TRUE
  /\ UNCHANGED <<SP, mem, B, HL, modes, EI_JUST_RESOLVED, interrupt_data,
                 nmi_pending, nmis>>

\* Up to the call of interrupt_acknowledge().
BeginInt ==
  /\ ~acknowledging /\ ~nmi_pending /\ IntAccepted
  /\ interrupt_pending' = FALSE
  /\ IFF1' = FALSE /\ IFF2' = FALSE
  /\ halted' = FALSE
  /\ PC' = Resume
  /\ acknowledging' = TRUE
  /\ UNCHANGED <<SP, mem, B, HL, modes, EI_JUST_RESOLVED, interrupt_data,
                 nmi_pending, nmis>>

\* The address an acceptance jumps to, once PC has been pushed to m.
ServiceRoutine(m, vec) ==
  CASE IM = 0 -> RstVector(vec)
    [] IM = 2 -> WordAt(m, TableEntry(I, vec))
    [] OTHER  -> Im1Vector

\* Fault: the latch is cleared after the callback instead of before it.
FinishIntClearsLatch(vec) ==
  /\ acknowledging
  /\ acknowledging' = FALSE
  /\ interrupt_pending' = FALSE
  /\ mem' = Push(mem, SP, PC)
  /\ SP' = Plus(SP, -2)
  /\ PC' = ServiceRoutine(mem', vec)
  /\ UNCHANGED <<B, HL, modes, iffs, EI_JUST_RESOLVED, halted,
                 interrupt_data, nmi_pending, nmis>>

\* The rest of the acceptance, with the byte the bus returned.
FinishInt(vec) ==
  /\ acknowledging
  /\ acknowledging' = FALSE
  /\ mem' = Push(mem, SP, PC)
  /\ SP' = Plus(SP, -2)
  /\ PC' = ServiceRoutine(mem', vec)
  /\ UNCHANGED <<B, HL, modes, iffs, EI_JUST_RESOLVED, halted,
                 interrupt_pending, interrupt_data, nmi_pending, nmis>>

\* interrupt_acknowledge() raises: the exception leaves step() there, and what
\* BeginInt did stays done.
UnwindInt ==
  /\ acknowledging
  /\ acknowledging' = FALSE
  /\ UNCHANGED <<flow, B, HL, modes, iffs, EI_JUST_RESOLVED, halted,
                 interrupt_pending, interrupt_data, nmi_pending, nmis>>

-----------------------------------------------------------------------------
(* step(): execute_instruction and the handlers it dispatches to.          *)

Operands == AfterOpcode(mem, PC)
Imm8     == mem[Operands]
Imm16    == WordAt(mem, Operands)

\* Faults: Part A is missing; Part B does not start the delay.
ExecuteKeepsDelay(handler) ==
  /\ ~acknowledging /\ ~nmi_pending /\ ~IntAccepted /\ ~halted
  /\ Dispatch(mem, PC) = handler
  /\ EI_JUST_RESOLVED' = (EI_JUST_RESOLVED \/ handler = "ei")
  /\ UNCHANGED lines

ExecuteNoDelay(handler) ==
  /\ ~acknowledging /\ ~nmi_pending /\ ~IntAccepted /\ ~halted
  /\ Dispatch(mem, PC) = handler
  /\ EI_JUST_RESOLVED' = FALSE
  /\ UNCHANGED lines

\* execute_instruction around a handler: it is reached when nothing is
\* accepted, Part A drops the delay flag and Part B raises it after an EI.
Execute(handler) ==
  /\ ~acknowledging /\ ~nmi_pending /\ ~IntAccepted /\ ~halted
  /\ Dispatch(mem, PC) = handler
  /\ EI_JUST_RESOLVED' = (handler = "ei")
  /\ UNCHANGED lines

\* Control goes to target, and nothing else changes.
Goto(target) ==
  /\ PC' = target
  /\ UNCHANGED <<SP, mem, B, HL, modes, iffs, halted>>

CallTo(target, return) ==
  /\ mem' = Push(mem, SP, return)
  /\ SP' = Plus(SP, -2)
  /\ PC' = target
  /\ UNCHANGED <<B, HL, modes, iffs, halted>>

PopPC ==
  /\ PC' = WordAt(mem, SP)
  /\ SP' = Plus(SP, 2)
  /\ UNCHANGED <<mem, B, HL, modes, halted>>

Nop    == Execute("nop") /\ Goto(Operands)
JpNn   == Execute("jp_nn") /\ Goto(Imm16)
JpCcNn == Execute("jp_cc_nn") /\ (Goto(Imm16) \/ Goto(Plus(Operands, 2)))
JpHl   == Execute("jp_hl") /\ Goto(HL)

JrTarget == Plus(Operands, 1 + Signed(Imm8))
JrE   == Execute("jr_e") /\ Goto(JrTarget)
JrCcE == Execute("jr_cc_e") /\ (Goto(JrTarget) \/ Goto(Plus(Operands, 1)))

\* Fault: B is decremented without wrapping around.
DjnzNoWrap ==
  /\ Execute("djnz_e")
  /\ B' = B - 1
  /\ PC' = IF B' # 0 THEN JrTarget ELSE Plus(Operands, 1)
  /\ UNCHANGED <<SP, mem, HL, modes, iffs, halted>>

DjnzE ==
  /\ Execute("djnz_e")
  /\ B' = (B - 1) % W
  /\ PC' = IF B' # 0 THEN JrTarget ELSE Plus(Operands, 1)
  /\ UNCHANGED <<SP, mem, HL, modes, iffs, halted>>

CallNn   == Execute("call_nn") /\ CallTo(Imm16, Plus(Operands, 2))
CallCcNn == /\ Execute("call_cc_nn")
            /\ \/ CallTo(Imm16, Plus(Operands, 2))
               \/ Goto(Plus(Operands, 2))
Rst      == Execute("rst") /\ CallTo(RstVector(mem[PC]), Operands)
Ret      == Execute("ret") /\ PopPC /\ UNCHANGED iffs
RetCc    == /\ Execute("ret_cc")
            /\ \/ PopPC /\ UNCHANGED iffs
               \/ Goto(Operands)

\* Fault: IFF1 is not restored.
RetnRetiKeepsIff1 ==
  /\ Execute("retn") \/ Execute("reti")
  /\ UNCHANGED iffs
  /\ PopPC

\* RETN and RETI both restore IFF1 from IFF2.
RetnReti ==
  /\ Execute("retn") \/ Execute("reti")
  /\ IFF1' = IFF2
  /\ UNCHANGED IFF2
  /\ PopPC

Di == /\ Execute("di")
      /\ IFF1' = FALSE /\ IFF2' = FALSE
      /\ PC' = Operands
      /\ UNCHANGED <<SP, mem, B, HL, modes, halted>>

\* The handler sets EI_PENDING; Part B of the same call consumes it.
Ei == /\ Execute("ei")
      /\ IFF1' = TRUE /\ IFF2' = TRUE
      /\ PC' = Operands
      /\ UNCHANGED <<SP, mem, B, HL, modes, halted>>

Im(n, handler) ==
  /\ Execute(handler)
  /\ IM' = n
  /\ PC' = Operands
  /\ UNCHANGED <<SP, mem, B, HL, I, iffs, halted>>

LdIA ==
  /\ Execute("ld_i_a")
  /\ I' \in AccValues
  /\ PC' = Operands
  /\ UNCHANGED <<SP, mem, B, HL, IM, iffs, halted>>

LdHlImm ==
  /\ Execute("ld_hl_imm")
  /\ HL' = Imm16
  /\ PC' = Plus(Operands, 2)
  /\ UNCHANGED <<SP, mem, B, modes, iffs, halted>>

LdSpImm ==
  /\ Execute("ld_sp_imm")
  /\ SP' = Imm16
  /\ PC' = Plus(Operands, 2)
  /\ UNCHANGED <<mem, B, HL, modes, iffs, halted>>

\* Fault: PC is left behind the opcode.
HaltPastOpcode ==
  /\ Execute("halt")
  /\ halted' = TRUE
  /\ PC' = Operands
  /\ UNCHANGED <<SP, mem, B, HL, modes, iffs>>

\* PC goes back to the HALT opcode.
Halt ==
  /\ Execute("halt")
  /\ halted' = TRUE
  /\ PC' = Plus(Operands, -1)
  /\ UNCHANGED <<SP, mem, B, HL, modes, iffs>>

Instruction ==
  \/ Nop \/ Halt \/ Di \/ Ei \/ RetnReti \/ LdIA \/ LdHlImm \/ LdSpImm
  \/ Im(0, "im_0") \/ Im(1, "im_1") \/ Im(2, "im_2")
  \/ JpNn \/ JpCcNn \/ JpHl \/ JrE \/ JrCcE \/ DjnzE
  \/ CallNn \/ CallCcNn \/ Rst \/ Ret \/ RetCc

-----------------------------------------------------------------------------

AcceptInt == BeginInt \/ UnwindInt \/ \E vec \in AckVectors : FinishInt(vec)
Step == AcceptNmi \/ AcceptInt \/ Instruction
Host == TriggerInterrupt \/ TriggerNmi \/ Reset
Next == Step \/ Host

Spec == Init /\ [][Next]_vars

\* The host keeps calling step(), directly or from the loop of run().
FairSpec == Spec /\ WF_vars(Step)

-----------------------------------------------------------------------------
(* Properties.                                                             *)

\* While the processor is halted PC points at a HALT opcode, whatever calls,
\* pushes and interrupts came before: accepting an interrupt then skips that
\* opcode and nothing else (handle_halt, and the wake-up in step()).
HaltPointsAtHalt == halted => MainTable[mem[PC]] = "halt"

\* A request latched by trigger_interrupt is dropped by nothing but the start
\* of an acceptance or reset(): in particular not by the end of the
\* acceptance during whose acknowledge callback it was raised.
RequestSurvives ==
  [][interrupt_pending /\ ~interrupt_pending' => BeginInt \/ Reset]_vars

\* A halted processor with interrupts enabled leaves HALT once a request is
\* pending: the delay after EI never lets "EI; HALT" sleep through a request.
HaltWakes == halted /\ interrupt_pending /\ IFF1 ~> ~halted

\* Every NMI raised is accepted: nothing masks it, not even the acceptance
\* of an INT that is under way.
NmiAccepted == nmi_pending ~> ~nmi_pending

=============================================================================
