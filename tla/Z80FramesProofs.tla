-------------------------- MODULE Z80FramesProofs --------------------------
(***************************************************************************)
(* Theorems about interrupts and what they interrupt.  Those about the     *)
(* interrupt switch hold for every program and host, those about the stack *)
(* for programs that keep to it: return addresses stay where they were     *)
(* pushed, a handler gives the switch back as it found it, an interrupt    *)
(* cannot be seen by what it interrupts, and the nesting is bounded.       *)
(***************************************************************************)
EXTENDS Z80Frames, Z80CoreProofs, SequenceTheorems

\* What is proved of Z80Core holds with the history variables too.
LEMMA BehavesAsCore == HSpec => Spec
<1>1. HInit => Init
  BY DEF HInit
<1>2. [HNext]_hvars => [Next]_vars
  <2> SUFFICES ASSUME [HNext]_hvars PROVE [Next]_vars
    OBVIOUS
  <2>1. CASE HNext
    BY <2>1 DEF HNext, HAcceptNmi, HBeginInt, HFinishInt, HUnwindInt,
                HInstruction, HTriggerInterrupt, HTriggerNmi, HReset, Next, Step, Host,
                AcceptInt
  <2>2. CASE UNCHANGED hvars
    BY <2>2 DEF hvars
  <2>3. QED BY <2>1, <2>2
<1>3. QED BY <1>1, <1>2, PTL DEF HSpec, Spec

\* An instruction enables interrupts only if it is EI, or RETN or RETI with
\* IFF2 set; DI leaves neither flip-flop set.
LEMMA InstructionSwitch ==
  ASSUME Instruction
  PROVE  \/ Ei
         \/ Di /\ ~IFF1' /\ ~IFF2'
         \/ ~Di /\ (IFF1' = IFF1 \/ IFF1' = IFF2) /\ IFF2' = IFF2
<1>1. CASE Ei
  BY <1>1
<1>2. CASE Di
  BY <1>2 DEF Di
<1>3. CASE RetnReti
  <2>1. ~Di
    BY <1>3 DEF RetnReti, Di, Execute
  <2>2. QED BY <1>3, <2>1 DEF RetnReti
<1>4. CASE Instruction /\ ~Ei /\ ~Di /\ ~RetnReti
  BY <1>4 DEF Instruction, Goto, CallTo, PopPC, iffs, Nop, Halt, LdIA,
              LdHlImm, LdSpImm, Im, JpNn, JpCcNn, JpHl, JrE, JrCcE, DjnzE,
              CallNn, CallCcNn, Rst, Ret, RetCc
<1>5. QED BY <1>1, <1>2, <1>3, <1>4

\* Between two INT acceptances, and after a DI, the program must execute EI
\* before another INT is accepted, whatever NMIs and returns come in between.
THEOREM EnabledOnlyByEi == HSpec => []EnabledByEi
<1>1. HInit => EnabledByEi
  BY DEF HInit, Init, EnabledByEi
<1>2. EnabledByEi /\ [HNext]_hvars => EnabledByEi'
  <2> SUFFICES ASSUME EnabledByEi, [HNext]_hvars PROVE EnabledByEi'
    OBVIOUS
  <2>1. CASE HAcceptNmi
    BY <2>1 DEF HAcceptNmi, AcceptNmi, EnabledByEi
  <2>2. CASE HBeginInt
    BY <2>2 DEF HBeginInt, BeginInt, EnabledByEi
  <2>3. CASE HFinishInt \/ HUnwindInt
    BY <2>3 DEF HFinishInt, FinishInt, HUnwindInt, UnwindInt, iffs, history,
                EnabledByEi
  <2>4. CASE HInstruction
    BY <2>4, InstructionSwitch DEF HInstruction, EnabledByEi
  <2>5. CASE HTriggerInterrupt \/ HTriggerNmi
    BY <2>5 DEF HTriggerInterrupt, HTriggerNmi, TriggerInterrupt, TriggerNmi,
                iffs, history, EnabledByEi
  <2>6. CASE HReset
    BY <2>6 DEF HReset, Reset, EnabledByEi
  <2>7. CASE UNCHANGED hvars
    BY <2>7 DEF hvars, vars, iffs, history, EnabledByEi
  <2>8. QED BY <2>1, <2>2, <2>3, <2>4, <2>5, <2>6, <2>7 DEF HNext
<1>3. QED BY <1>1, <1>2, PTL DEF HSpec
-----------------------------------------------------------------------------
(* The stack.                                                              *)

\* A push leaves the return addresses above it where they are,
LEMMA PushHolds ==
  ASSUME NEW f \in Frame, NEW m \in [Word -> Byte], NEW sp \in Word, sp >= 2,
         NEW w \in Word, Held(f, m, sp)
  PROVE  Held(f, Push(m, sp, w), Plus(sp, -2))
<1>1. /\ f.sp \in Word /\ f.sp \in Nat /\ sp \in Nat
      /\ sp < f.sp /\ (f.sp - sp) % 2 = 0
  BY DEF Held, Frame, Word
<1>2. f.sp >= sp + 2
  BY <1>1
<1>3. f.sp - 2 \in Word /\ (f.sp - 2) + 1 \in Word
  <2>1. f.sp - 2 \in Nat /\ (f.sp - 2) + 1 \in Nat
    BY <1>1, <1>2
  <2>2. QED BY <1>1, <2>1, WordBelow
<1>4. WordAt(Push(m, sp, w), f.sp - 2) = f.ret
  <2>1. f.sp - 2 >= sp
    BY <1>1, <1>2
  <2>2. QED BY <1>3, <2>1, PushBelow DEF Held
<1>5. Plus(sp, -2) = sp - 2
  BY PushBelow
<1>6. sp - 2 < f.sp /\ (f.sp - (sp - 2)) % 2 = 0
  BY <1>1
<1>7. QED BY <1>4, <1>5, <1>6 DEF Held

\* and puts one there.
LEMMA PushHeld ==
  ASSUME NEW f \in Frame, NEW m \in [Word -> Byte], NEW sp \in Word, sp >= 2,
         f.sp = sp
  PROVE  Held(f, Push(m, sp, f.ret), Plus(sp, -2))
<1>1. f.ret \in Word
  BY DEF Frame
<1>2. /\ Plus(sp, -2) = sp - 2
      /\ WordAt(Push(m, sp, f.ret), sp - 2) = f.ret
  BY <1>1, PushBelow
<1>3. sp - 2 < sp /\ (sp - (sp - 2)) % 2 = 0
  BY DEF Word
<1>4. QED BY <1>2, <1>3 DEF Held

\* A pop stays below a return address or is the one that fetches it.
LEMMA PopHolds ==
  ASSUME NEW f \in Frame, NEW m \in [Word -> Byte], NEW sp \in Word,
         Held(f, m, sp)
  PROVE  \/ Held(f, m, Plus(sp, 2))
         \/ Plus(sp, 2) = f.sp /\ WordAt(m, sp) = f.ret
<1>1. /\ f.sp \in Word /\ f.sp \in Nat /\ sp \in Nat
      /\ sp < f.sp /\ (f.sp - sp) % 2 = 0
  BY DEF Held, Frame, Word
<1>2. sp + 2 <= f.sp
  BY <1>1
<1>3. Plus(sp, 2) = sp + 2
  <2>1. sp + 2 \in Word
    BY <1>1, <1>2, WordBelow
  <2>2. QED BY <1>1, <2>1, PlusFits
<1>4. CASE sp + 2 = f.sp
  <2>1. sp = f.sp - 2
    BY <1>1, <1>4
  <2>2. QED BY <1>3, <1>4, <2>1 DEF Held
<1>5. CASE sp + 2 < f.sp
  <2>1. (f.sp - (sp + 2)) % 2 = 0
    BY <1>1
  <2>2. QED BY <1>3, <1>5, <2>1 DEF Held
<1>6. QED BY <1>1, <1>2, <1>4, <1>5

\* There is room for a push.
LEMMA StackRoom == TypeOK /\ StackFits => SP \in Nat /\ SP >= 2
<1> SUFFICES ASSUME TypeOK, StackFits PROVE SP \in Nat /\ SP >= 2
  OBVIOUS
<1>1. SP \in Nat /\ StackFloor \in Nat
  BY FrameAssumption DEF TypeOK, Word
<1>2. QED BY <1>1, FrameAssumption DEF StackFits

\* What an instruction does to the stack: nothing, a push, a pop into PC, or
\* LD SP,nn.
LEMMA StackStep ==
  ASSUME TypeOK, Instruction
  PROVE  /\ ~acknowledging /\ ~acknowledging'
         /\ \/ UNCHANGED <<SP, mem>>
            \/ \E w \in Word : mem' = Push(mem, SP, w) /\ SP' = Plus(SP, -2)
            \/ PopPC
            \/ LdSpImm
<1>1. PICK handler : Execute(handler)
  BY DEF Instruction, Nop, Halt, Di, Ei, RetnReti, LdIA, LdHlImm, LdSpImm, Im,
         JpNn, JpCcNn, JpHl, JrE, JrCcE, DjnzE, CallNn, CallCcNn, Rst, Ret,
         RetCc
<1>2. ~acknowledging /\ ~acknowledging'
  BY <1>1 DEF Execute, lines
<1>3. Operands \in Word /\ Plus(Operands, 2) \in Word
  BY OperandsType
<1>4. CASE CallNn \/ CallCcNn \/ Rst
  BY <1>2, <1>3, <1>4 DEF CallNn, CallCcNn, Rst, CallTo, Goto
<1>5. CASE Ret \/ RetCc \/ RetnReti
  BY <1>2, <1>5 DEF Ret, RetCc, RetnReti, Goto
<1>6. CASE LdSpImm
  BY <1>2, <1>6
<1>7. CASE Nop \/ JpNn \/ JpCcNn \/ JpHl \/ JrE \/ JrCcE \/ DjnzE
  BY <1>2, <1>7 DEF Nop, JpNn, JpCcNn, JpHl, JrE, JrCcE, DjnzE, Goto
<1>8. CASE Halt \/ Di \/ Ei \/ LdIA \/ LdHlImm
             \/ Im(0, "im_0") \/ Im(1, "im_1") \/ Im(2, "im_2")
  BY <1>2, <1>8 DEF Halt, Di, Ei, LdIA, LdHlImm, Im
<1>9. QED BY <1>4, <1>5, <1>6, <1>7, <1>8 DEF Instruction
\* The frames are numbered, and hold words.
LEMMA FramesType ==
  ASSUME frames \in Seq(Frame)
  PROVE  /\ Len(frames) \in Nat /\ DOMAIN frames = 1 .. Len(frames)
         /\ Interrupted <=> Len(frames) > 0
         /\ \A i \in 1 .. Len(frames) : frames[i] \in Frame
         /\ Interrupted => Last(frames) = frames[Len(frames)]
<1>1. Len(frames) \in Nat /\ DOMAIN frames = 1 .. Len(frames)
  BY LenProperties
<1>2. Interrupted <=> Len(frames) > 0
  BY <1>1, EmptySeq DEF Interrupted
<1>3. \A i \in 1 .. Len(frames) : frames[i] \in Frame
  BY ElementOfSeq
<1>4. QED BY <1>1, <1>2, <1>3 DEF Last

\* No interrupt is over while the stack pointer is below all of them,
LEMMA LeaveNone ==
  ASSUME frames \in Seq(Frame), SP' \in Word, Leave,
         \A i \in 1 .. Len(frames) : SP' < frames[i].sp
  PROVE  frames' = frames
<1>1. PICK n \in 0 .. Len(frames) :
        /\ frames' = SubSeq(frames, 1, n)
        /\ n < Len(frames) => SP' >= frames[n + 1].sp
  BY DEF Leave
<1>2. Len(frames) \in Nat /\ \A i \in 1 .. Len(frames) : frames[i].sp \in Int
  BY FramesType DEF Frame, Word
<1>3. n = Len(frames)
  <2> SUFFICES ASSUME n < Len(frames) PROVE FALSE
    BY <1>2
  <2>1. n + 1 \in 1 .. Len(frames)
    BY <1>2
  <2>2. SP' < frames[n + 1].sp /\ SP' >= frames[n + 1].sp /\ SP' \in Int
    BY <1>1, <2>1 DEF Word
  <2>3. QED BY <1>2, <2>1, <2>2
<1>4. QED BY <1>1, <1>3, SubSeqFull

\* and only the last one when the stack pointer reaches it and no other.
LEMMA LeaveLast ==
  ASSUME frames \in Seq(Frame), Interrupted, SP' \in Word, Leave,
         SP' = Last(frames).sp,
         \A i \in 1 .. (Len(frames) - 1) : SP' < frames[i].sp
  PROVE  frames' = Front(frames)
<1>1. PICK n \in 0 .. Len(frames) :
        /\ frames' = SubSeq(frames, 1, n)
        /\ \A i \in 1 .. n : SP' < frames[i].sp
        /\ n < Len(frames) => SP' >= frames[n + 1].sp
  BY DEF Leave
<1>2. /\ Len(frames) \in Nat /\ Len(frames) > 0
      /\ \A i \in 1 .. Len(frames) : frames[i].sp \in Int
      /\ Last(frames) = frames[Len(frames)]
  BY FramesType DEF Frame, Word
<1>3. n # Len(frames)
  BY <1>1, <1>2 DEF Word
<1>4. n = Len(frames) - 1
  <2> SUFFICES ASSUME n < Len(frames) - 1 PROVE FALSE
    BY <1>2, <1>3
  <2>1. n + 1 \in 1 .. (Len(frames) - 1) /\ n + 1 \in 1 .. Len(frames)
    BY <1>2
  <2>2. SP' < frames[n + 1].sp
    BY <2>1
  <2>3. SP' >= frames[n + 1].sp
    <3>1. n < Len(frames)
      BY <1>2
    <3>2. QED BY <1>1, <3>1
  <2>4. SP' \in Int /\ frames[n + 1].sp \in Int
    BY <1>2, <2>1, WordInt
  <2>5. QED BY <2>2, <2>3, <2>4
<1>5. QED BY <1>1, <1>4 DEF Front

\* The front of the frames are all but the last.
LEMMA FrontType ==
  ASSUME frames \in Seq(Frame), Interrupted
  PROVE  /\ Front(frames) \in Seq(Frame)
         /\ Len(Front(frames)) = Len(frames) - 1
         /\ \A i \in 1 .. (Len(frames) - 1) : Front(frames)[i] = frames[i]
<1>1. /\ Len(frames) \in Nat /\ Len(frames) > 0
      /\ \A i \in 1 .. Len(frames) : frames[i] \in Frame
  BY FramesType
<1> DEFINE n == Len(frames) - 1
<1>2. n \in Nat /\ \A i \in 1 .. n : frames[i] \in Frame
  BY <1>1
<1>3. /\ SubSeq(frames, 1, n) \in Seq(Frame)
      /\ Len(SubSeq(frames, 1, n)) = IF 1 <= n THEN n - 1 + 1 ELSE 0
      /\ \A i \in 1 .. (n - 1 + 1) : SubSeq(frames, 1, n)[i] = frames[1 + i - 1]
  BY <1>2, SubSeqProperties
<1>4. Front(frames) = SubSeq(frames, 1, n)
  BY DEF Front
<1>5. n = Len(frames) - 1
  OBVIOUS
<1> HIDE DEF n
<1>6. \A i \in 1 .. n : i \in 1 .. (n - 1 + 1) /\ 1 + i - 1 = i
  BY <1>2
<1>7. Len(SubSeq(frames, 1, n)) = n
  BY <1>2, <1>3
<1>8. \A i \in 1 .. n : SubSeq(frames, 1, n)[i] = frames[i]
  BY <1>3, <1>6
<1>9. QED BY <1>3, <1>4, <1>5, <1>7, <1>8

\* Enter adds a frame at the end.
LEMMA EnterType ==
  ASSUME TypeOK, frames \in Seq(Frame), NEW kind \in {"nmi", "int"}, Enter(kind)
  PROVE  /\ frames' \in Seq(Frame) /\ Len(frames') = Len(frames) + 1
         /\ \A i \in 1 .. Len(frames) : frames'[i] = frames[i]
         /\ Last(frames') = frames'[Len(frames) + 1]
         /\ Last(frames') = [kind |-> kind, ret |-> Resume, sp |-> SP, ie |-> IFF1]
<1> DEFINE f == [kind |-> kind, ret |-> Resume, sp |-> SP, ie |-> IFF1]
<1>1. f \in Frame
  BY OperandsType DEF TypeOK, Frame
<1>2. frames' = Append(frames, f)
  BY DEF Enter
<1> HIDE DEF f
<1>3. /\ frames' \in Seq(Frame) /\ Len(frames') = Len(frames) + 1
      /\ \A i \in 1 .. Len(frames) : frames'[i] = frames[i]
      /\ frames'[Len(frames) + 1] = f
  BY <1>1, <1>2, AppendProperties
<1>4. QED BY <1>3 DEF Last, f

\* Entering an interrupt keeps the return addresses in order.
LEMMA EnterOrder ==
  ASSUME TypeOK, FramesOnStack, ~acknowledging,
         NEW kind \in {"nmi", "int"}, Enter(kind)
  PROVE  \A i, j \in DOMAIN frames' : i < j => frames'[j].sp < frames'[i].sp
<1>1. /\ frames \in Seq(Frame) /\ frames' \in Seq(Frame)
      /\ Len(frames) \in Nat /\ Len(frames') = Len(frames) + 1
      /\ DOMAIN frames = 1 .. Len(frames) /\ DOMAIN frames' = 1 .. Len(frames')
      /\ \A i \in 1 .. Len(frames) : frames'[i] = frames[i]
      /\ frames'[Len(frames) + 1].sp = SP
  BY EnterType, FramesType, LenProperties DEF FramesOnStack
<1> SUFFICES ASSUME NEW i \in DOMAIN frames', NEW j \in DOMAIN frames', i < j
             PROVE  frames'[j].sp < frames'[i].sp
  OBVIOUS
<1>2. i \in 1 .. Len(frames) /\ frames'[i] = frames[i]
  BY <1>1
<1>3. CASE j \in 1 .. Len(frames)
  BY <1>1, <1>2, <1>3 DEF FramesOnStack
<1>4. CASE j = Len(frames) + 1
  <2>1. Held(frames[i], mem, SP)
    BY <1>2 DEF FramesOnStack, Stacked
  <2>2. QED BY <1>1, <1>2, <1>4, <2>1 DEF Held
<1>5. QED BY <1>1, <1>3, <1>4

LEMMA AcceptNmiFrames ==
  ASSUME TypeOK, FramesOnStack, StackFits, HAcceptNmi
  PROVE  FramesOnStack'
<1>1. /\ frames \in Seq(Frame) /\ frames' \in Seq(Frame)
      /\ Len(frames) \in Nat /\ Len(frames') = Len(frames) + 1
      /\ \A i \in 1 .. Len(frames) : frames'[i] = frames[i]
      /\ frames'[Len(frames) + 1].sp = SP
      /\ frames'[Len(frames) + 1].ret = Resume
      /\ frames'[Len(frames) + 1] \in Frame
  <2>1. frames \in Seq(Frame) /\ Enter("nmi")
    BY DEF FramesOnStack, HAcceptNmi
  <2>2. Len(frames) \in Nat
    BY <2>1, FramesType
  <2>3. frames' \in Seq(Frame) /\ Len(frames') = Len(frames) + 1
    BY <2>1, EnterType
  <2>4. frames'[Len(frames) + 1] \in Frame
    BY <2>2, <2>3, ElementOfSeq
  <2>5. QED BY <2>1, <2>2, <2>3, <2>4, EnterType
<1>2. /\ ~acknowledging /\ ~acknowledging'
      /\ mem' = Push(mem, SP, Resume) /\ SP' = Plus(SP, -2)
  BY DEF HAcceptNmi, AcceptNmi
<1>3. /\ Resume \in Word /\ SP \in Word /\ SP >= 2
      /\ mem \in [Word -> Byte]
  BY OperandsType, StackRoom DEF TypeOK
<1>4. ASSUME NEW i \in 1 .. Len(frames) PROVE Held(frames'[i], mem', SP')
  <2>1. Held(frames[i], mem, SP) /\ frames[i] \in Frame
    BY <1>1, <1>2, FramesType DEF FramesOnStack, Stacked
  <2>2. Held(frames[i], mem', SP')
    BY <1>2, <1>3, <2>1, PushHolds
  <2>3. QED BY <1>1, <2>2
<1>5. Held(frames'[Len(frames) + 1], mem', SP')
  BY <1>1, <1>2, <1>3, PushHeld
<1>6. \A i \in 1 .. Stacked' : Held(frames'[i], mem', SP')
  BY <1>1, <1>2, <1>4, <1>5 DEF Stacked
<1>7. \A i, j \in DOMAIN frames' : i < j => frames'[j].sp < frames'[i].sp
  BY <1>2, EnterOrder DEF HAcceptNmi
<1>8. QED BY <1>1, <1>2, <1>6, <1>7 DEF FramesOnStack

LEMMA BeginIntFrames ==
  ASSUME TypeOK, FramesOnStack, HBeginInt
  PROVE  FramesOnStack'
<1>1. /\ frames \in Seq(Frame) /\ Enter("int")
      /\ ~acknowledging /\ acknowledging'
      /\ mem' = mem /\ SP' = SP /\ PC' = Resume
  BY DEF FramesOnStack, HBeginInt, BeginInt
<1>2. /\ frames' \in Seq(Frame) /\ Len(frames) \in Nat
      /\ Len(frames') = Len(frames) + 1
      /\ \A i \in 1 .. Len(frames) : frames'[i] = frames[i]
      /\ Last(frames').sp = SP /\ Last(frames').ret = Resume
  BY <1>1, EnterType, FramesType
<1>3. Interrupted'
  BY <1>2, EmptySeq DEF Interrupted
<1>4. \A i \in 1 .. Stacked' : Held(frames'[i], mem', SP')
  BY <1>1, <1>2 DEF Stacked, FramesOnStack
<1>5. \A i, j \in DOMAIN frames' : i < j => frames'[j].sp < frames'[i].sp
  BY <1>1, EnterOrder
<1>6. QED BY <1>1, <1>2, <1>3, <1>4, <1>5 DEF FramesOnStack

LEMMA FinishIntFrames ==
  ASSUME TypeOK, FramesOnStack, StackFits, HFinishInt
  PROVE  FramesOnStack'
<1>1. /\ acknowledging /\ ~acknowledging' /\ frames' = frames
      /\ mem' = Push(mem, SP, PC) /\ SP' = Plus(SP, -2)
  BY DEF HFinishInt, FinishInt, history
<1>2. /\ frames \in Seq(Frame) /\ Len(frames) \in Nat /\ Len(frames) > 0
      /\ \A i \in 1 .. Len(frames) : frames[i] \in Frame
      /\ Last(frames) = frames[Len(frames)]
      /\ PC = Last(frames).ret /\ SP = Last(frames).sp
  BY <1>1, FramesType DEF FramesOnStack
<1>3. SP \in Word /\ PC \in Word /\ SP >= 2 /\ mem \in [Word -> Byte]
  BY StackRoom DEF TypeOK
<1>4. ASSUME NEW i \in 1 .. Len(frames) PROVE Held(frames[i], mem', SP')
  <2>1. CASE i = Len(frames)
    BY <1>1, <1>2, <1>3, <2>1, PushHeld
  <2>2. CASE i # Len(frames)
    <3>1. Held(frames[i], mem, SP)
      BY <1>1, <1>2, <2>2 DEF FramesOnStack, Stacked
    <3>2. QED BY <1>1, <1>2, <1>3, <3>1, PushHolds
  <2>3. QED BY <2>1, <2>2
<1>5. QED BY <1>1, <1>4 DEF FramesOnStack, Stacked

LEMMA UnwindIntFrames ==
  ASSUME TypeOK, FramesOnStack, HUnwindInt
  PROVE  /\ FramesOnStack'
         /\ frames' = Front(frames)
         /\ PC' = Last(frames).ret /\ SP' = Last(frames).sp
<1>1. /\ acknowledging /\ ~acknowledging' /\ frames' = Front(frames)
      /\ mem' = mem /\ SP' = SP /\ PC' = PC
  BY DEF HUnwindInt, UnwindInt, flow
<1>2. /\ frames \in Seq(Frame) /\ Interrupted
      /\ PC = Last(frames).ret /\ SP = Last(frames).sp
  BY <1>1 DEF FramesOnStack
<1>3. /\ frames' \in Seq(Frame) /\ Len(frames') = Len(frames) - 1
      /\ \A i \in 1 .. (Len(frames) - 1) : frames'[i] = frames[i]
      /\ Len(frames) \in Nat
      /\ DOMAIN frames = 1 .. Len(frames) /\ DOMAIN frames' = 1 .. Len(frames')
  BY <1>1, <1>2, FrontType, FramesType, LenProperties
<1>4. \A i \in 1 .. Stacked' : Held(frames'[i], mem', SP')
  BY <1>1, <1>3 DEF FramesOnStack, Stacked
<1>5. \A i, j \in DOMAIN frames' : i < j => frames'[j].sp < frames'[i].sp
  BY <1>3 DEF FramesOnStack
<1>6. QED BY <1>1, <1>2, <1>3, <1>4, <1>5 DEF FramesOnStack
\* An instruction leaves the frames as they are, or returns to the last one.
LEMMA InstructionFrames ==
  ASSUME TypeOK, TypeOK', FramesOnStack, StackFits, HInstruction,
         HInstruction /\ Interrupted => ~LdSpImm
  PROVE  /\ FramesOnStack'
         /\ \/ frames' = frames
            \/ /\ Interrupted /\ frames' = Front(frames)
               /\ PC' = Last(frames).ret /\ SP' = Last(frames).sp
               /\ PopPC
<1>1. /\ ~acknowledging /\ ~acknowledging'
      /\ \/ UNCHANGED <<SP, mem>>
         \/ \E w \in Word : mem' = Push(mem, SP, w) /\ SP' = Plus(SP, -2)
         \/ PopPC
         \/ LdSpImm
  BY StackStep DEF HInstruction
<1>2. /\ frames \in Seq(Frame) /\ Len(frames) \in Nat
      /\ DOMAIN frames = 1 .. Len(frames)
      /\ Interrupted <=> Len(frames) > 0
      /\ \A i \in 1 .. Len(frames) : frames[i] \in Frame
      /\ Interrupted => Last(frames) = frames[Len(frames)]
  BY FramesType DEF FramesOnStack
<1>3. \A i \in 1 .. Len(frames) : Held(frames[i], mem, SP)
  BY <1>1 DEF FramesOnStack, Stacked
<1>4. SP \in Word /\ SP' \in Word /\ mem \in [Word -> Byte] /\ SP >= 2
  BY StackRoom DEF TypeOK
<1>5. Leave
  BY DEF HInstruction
<1>6. ASSUME \A i \in 1 .. Len(frames) : Held(frames[i], mem', SP')
      PROVE  FramesOnStack' /\ frames' = frames
  <2>1. \A i \in 1 .. Len(frames) : SP' < frames[i].sp
    BY <1>6 DEF Held
  <2>2. frames' = frames
    BY <1>2, <1>4, <1>5, <2>1, LeaveNone
  <2>3. QED BY <1>1, <1>6, <2>2 DEF FramesOnStack, Stacked
<1>7. CASE UNCHANGED <<SP, mem>>
  BY <1>3, <1>6, <1>7
<1>8. CASE \E w \in Word : mem' = Push(mem, SP, w) /\ SP' = Plus(SP, -2)
  <2>1. \A i \in 1 .. Len(frames) : Held(frames[i], mem', SP')
    BY <1>2, <1>3, <1>4, <1>8, PushHolds
  <2>2. QED BY <1>6, <2>1
<1>9. CASE LdSpImm
  <2>1. Len(frames) = 0
    BY <1>2, <1>9
  <2>2. QED BY <1>6, <2>1
<1>10. CASE PopPC
  <2>1. SP' = Plus(SP, 2) /\ PC' = WordAt(mem, SP) /\ mem' = mem
    BY <1>10 DEF PopPC
  <2>2. \A i \in 1 .. Len(frames) :
          \/ Held(frames[i], mem', SP')
          \/ SP' = frames[i].sp /\ PC' = frames[i].ret
    BY <1>2, <1>3, <1>4, <2>1, PopHolds
  <2>3. CASE \A i \in 1 .. Len(frames) : Held(frames[i], mem', SP')
    BY <1>6, <2>3
  <2>4. CASE \E i \in 1 .. Len(frames) : ~Held(frames[i], mem', SP')
    <3>1. PICK k \in 1 .. Len(frames) :
            ~Held(frames[k], mem', SP') /\ SP' = frames[k].sp /\ PC' = frames[k].ret
      BY <2>2, <2>4
    <3>2. \A i, j \in 1 .. Len(frames) : i < j => frames[j].sp < frames[i].sp
      BY <1>2 DEF FramesOnStack
    <3>3. \A i \in 1 .. Len(frames) : frames[i].sp \in Int
      BY <1>2 DEF Frame, Word
    <3>4. k = Len(frames)
      <4> DEFINE n == Len(frames)
      <4>1. n \in Nat /\ k \in 1 .. n
        BY <1>2
      <4>2. k = n \/ k < n
        <5> HIDE DEF n
        <5>1. QED BY <4>1
      <4> SUFFICES ASSUME k < Len(frames) PROVE FALSE
        BY <4>2
      <4>3. Len(frames) \in 1 .. Len(frames)
        BY <1>2
      <4>4. frames[Len(frames)].sp < SP'
        BY <3>1, <3>2, <4>3
      <4>5. \/ SP' < frames[Len(frames)].sp
            \/ SP' = frames[Len(frames)].sp
        BY <2>2, <4>3 DEF Held
      <4>6. QED BY <1>4, <3>3, <4>3, <4>4, <4>5 DEF Word
    <3>5. /\ Interrupted
          /\ PC' = Last(frames).ret /\ SP' = Last(frames).sp
      BY <1>2, <3>1, <3>4
    <3>6. \A i \in 1 .. (Len(frames) - 1) : SP' < frames[i].sp
      BY <1>2, <3>1, <3>2, <3>4
    <3>7. frames' = Front(frames)
      BY <1>2, <1>4, <1>5, <3>5, <3>6, LeaveLast
    <3>8. /\ frames' \in Seq(Frame) /\ Len(frames') = Len(frames) - 1
          /\ DOMAIN frames' = 1 .. Len(frames')
          /\ \A i \in 1 .. (Len(frames) - 1) : frames'[i] = frames[i]
      <4>1. /\ frames' \in Seq(Frame) /\ Len(frames') = Len(frames) - 1
            /\ \A i \in 1 .. (Len(frames) - 1) : frames'[i] = frames[i]
        BY <1>2, <3>5, <3>7, FrontType
      <4>2. QED BY <4>1, LenProperties
    <3>9. \A i \in 1 .. Stacked' : Held(frames'[i], mem', SP')
      <4> SUFFICES ASSUME NEW i \in 1 .. (Len(frames) - 1)
                   PROVE  Held(frames[i], mem', SP')
        BY <1>1, <3>8 DEF Stacked
      <4>1. i \in 1 .. Len(frames) /\ SP' < frames[i].sp /\ frames[i].sp \in Int
        BY <1>2, <3>3, <3>6
      <4>2. QED BY <1>4, <2>2, <4>1 DEF Word
    <3>10. \A i, j \in DOMAIN frames' : i < j => frames'[j].sp < frames'[i].sp
      BY <1>2, <3>2, <3>8
    <3>11. FramesOnStack'
      BY <1>1, <3>8, <3>9, <3>10 DEF FramesOnStack
    <3>12. QED BY <1>10, <3>5, <3>7, <3>11
  <2>5. QED BY <2>3, <2>4
<1>11. QED BY <1>1, <1>7, <1>8, <1>9, <1>10

\* A step that loses a frame returns to it, or is reset().
ReturnStep ==
  Returning /\ ~Reset
    => /\ frames' = Front(frames)
       /\ PC' = Last(frames).ret
       /\ SP' = Last(frames).sp

LEMMA FramesNext ==
  ASSUME TypeOK, TypeOK', FramesOnStack, StackFits, [HNext]_hvars,
         HInstruction /\ Interrupted => ~LdSpImm
  PROVE  FramesOnStack' /\ ReturnStep
<1>1. CASE HInstruction
  <2>1. QED BY <1>1, InstructionFrames DEF ReturnStep, Returning
<1>2. CASE HAcceptNmi \/ HBeginInt
  <2>1. Enter("nmi") \/ Enter("int")
    BY <1>2 DEF HAcceptNmi, HBeginInt
  <2>2. frames \in Seq(Frame) /\ Len(frames) \in Nat
    BY FramesType DEF FramesOnStack
  <2>3. Len(frames') = Len(frames) + 1
    BY <2>1, <2>2, EnterType
  <2>4. ~(Len(frames') < Len(frames))
    BY <2>2, <2>3
  <2>5. QED BY <1>2, <2>4, AcceptNmiFrames, BeginIntFrames
            DEF ReturnStep, Returning
<1>3. CASE HFinishInt
  <2>1. frames' = frames /\ Len(frames) \in Nat
    BY <1>3, FramesType DEF HFinishInt, history, FramesOnStack
  <2>2. QED BY <1>3, <2>1, FinishIntFrames DEF ReturnStep, Returning
<1>4. CASE HUnwindInt
  BY <1>4, UnwindIntFrames DEF ReturnStep
<1>5. CASE HTriggerInterrupt \/ HTriggerNmi \/ UNCHANGED hvars
  <2>1. /\ frames' = frames /\ acknowledging' = acknowledging
        /\ PC' = PC /\ SP' = SP /\ mem' = mem
    BY <1>5 DEF HTriggerInterrupt, HTriggerNmi, TriggerInterrupt, TriggerNmi,
                hvars, history, vars, flow, lines
  <2>2. Len(frames) \in Nat
    BY FramesType DEF FramesOnStack
  <2>3. QED BY <2>1, <2>2 DEF ReturnStep, Returning, FramesOnStack, Stacked,
                              Interrupted
<1>6. CASE HReset
  <2>1. frames' = <<>> /\ ~acknowledging /\ acknowledging' = acknowledging /\ Reset
    BY <1>6 DEF HReset, Reset
  <2>2. FramesOnStack'
    BY <2>1, EmptySeq DEF FramesOnStack, Stacked
  <2>3. QED BY <2>1, <2>2 DEF ReturnStep, Returning
<1>7. QED BY <1>1, <1>2, <1>3, <1>4, <1>5, <1>6 DEF HNext

LEMMA FramesInit == HInit => FramesOnStack
BY EmptySeq DEF HInit, Init, FramesOnStack, Stacked

\* As long as the stack stays inside memory and handlers do not load SP, every
\* interrupt's return address stays where it was pushed, however NMIs, INTs and
\* failing acknowledge callbacks are nested,
THEOREM ReturnAddressesStay ==
  HSpec /\ []StackFits /\ KeepsStack => []FramesOnStack
<1>1. TypeOK /\ TypeOK' /\ StackFits /\ FramesOnStack /\ [HNext]_hvars
        /\ [HInstruction /\ Interrupted => ~LdSpImm]_hvars => FramesOnStack'
  <2> SUFFICES ASSUME TypeOK, TypeOK', StackFits, FramesOnStack, [HNext]_hvars,
                      [HInstruction /\ Interrupted => ~LdSpImm]_hvars
               PROVE  FramesOnStack'
    OBVIOUS
  <2>1. CASE HInstruction /\ Interrupted => ~LdSpImm
    BY <2>1, FramesNext
  <2>2. CASE UNCHANGED hvars
    BY <2>2 DEF hvars, history, vars, flow, lines, FramesOnStack, Stacked,
                Interrupted
  <2>3. QED BY <2>1, <2>2
<1>2. QED BY <1>1, FramesInit, BehavesAsCore, TypeCorrect, PTL
          DEF HSpec, KeepsStack

\* and every interrupt returns where it interrupted.
THEOREM InterruptsReturn ==
  HSpec /\ []StackFits /\ KeepsStack => ReturnsWhereInterrupted
<1>1. TypeOK /\ TypeOK' /\ StackFits /\ FramesOnStack /\ [HNext]_hvars
        /\ [HInstruction /\ Interrupted => ~LdSpImm]_hvars => [ReturnStep]_hvars
  BY FramesNext
<1>2. ReturnsWhereInterrupted <=> [][ReturnStep]_hvars
  BY PTL DEF ReturnsWhereInterrupted, ReturnStep, Returning
<1>3. QED BY <1>1, <1>2, BehavesAsCore, TypeCorrect, ReturnAddressesStay, PTL
          DEF HSpec, KeepsStack

-----------------------------------------------------------------------------
(* The refinement: what the program reads.                                 *)

\* The operators of the program's view are the processor's.
LEMMA SameOperators ==
  /\ \A a, n : P!Plus(a, n) = Plus(a, n)
  /\ \A m, a : P!WordAt(m, a) = WordAt(m, a)
  /\ \A m, a : P!Dispatch(m, a) = Dispatch(m, a)
  /\ \A m, a : P!AfterOpcode(m, a) = AfterOpcode(m, a)
  /\ \A v : P!Signed(v) = Signed(v) /\ P!RstVector(v) = RstVector(v)
<1>1. \A a, n : P!Plus(a, n) = Plus(a, n)
  BY DEF P!Plus, Plus
<1>2. \A m, a : P!WordAt(m, a) = WordAt(m, a)
  BY <1>1 DEF P!WordAt, WordAt, P!WordOf, WordOf
<1>3. \A m, a : P!Prefixed(m, a) = Prefixed(m, a)
  BY DEF P!Prefixed, Prefixed
<1>4. \A m, a : P!Dispatch(m, a) = Dispatch(m, a)
  BY <1>1, <1>3 DEF P!Dispatch, Dispatch
<1>5. \A m, a : P!AfterOpcode(m, a) = AfterOpcode(m, a)
  BY <1>1, <1>3 DEF P!AfterOpcode, AfterOpcode
<1>6. \A v : P!Signed(v) = Signed(v) /\ P!RstVector(v) = RstVector(v)
  BY DEF P!Signed, Signed, P!RstVector, RstVector
<1>7. QED BY <1>1, <1>2, <1>4, <1>5, <1>6

\* The program reads its code from memory, and an instruction and its operands
\* are in it.
LEMMA ProgramCode ==
  ASSUME TypeOK, ~Interrupted, CodeFits
  PROVE  /\ P!Handler = Dispatch(mem, PC) /\ P!Operands = Operands
         /\ P!Relative = JrTarget
         /\ CodeOf(mem)[PC] = mem[PC]
         /\ \A n : P!After(n) = Plus(Operands, n)
         /\ ~Prefixed(mem, PC) => P!Imm16 = Imm16
<1>1. /\ PC \in Word /\ PC \in Nat /\ StackFloor \in Word /\ StackFloor \in Nat
      /\ PC + 2 < StackFloor /\ PC < StackFloor /\ PC + 1 < StackFloor
  BY FrameAssumption DEF TypeOK, CodeFits, Word
<1>2. Plus(PC, 1) = PC + 1 /\ Plus(PC, 2) = PC + 2
  <2>1. PC + 1 \in Word /\ PC + 2 \in Word
    BY <1>1, WordBelow
  <2>2. QED BY <1>1, <2>1, PlusFits
<1>3. \A a \in 0 .. (StackFloor - 1) : CodeOf(mem)[a] = mem[a]
  BY DEF CodeOf
<1>4. /\ CodeOf(mem)[PC] = mem[PC]
      /\ CodeOf(mem)[PC + 1] = mem[PC + 1] /\ CodeOf(mem)[PC + 2] = mem[PC + 2]
  BY <1>1, <1>3
<1>5. ProgramPC = PC
  BY DEF ProgramPC
<1>6. Prefixed(CodeOf(mem), PC) = Prefixed(mem, PC)
  BY <1>4 DEF Prefixed
<1>7. P!Handler = Dispatch(mem, PC)
  BY <1>2, <1>4, <1>5, <1>6, SameOperators DEF P!Handler, Dispatch
<1>8. P!Operands = Operands
  BY <1>5, <1>6, SameOperators DEF P!Operands, AfterOpcode, Operands
<1>9. /\ Operands = (IF Prefixed(mem, PC) THEN PC + 2 ELSE PC + 1)
  BY <1>2 DEF Operands, AfterOpcode
<1>10. \A n : P!After(n) = Plus(Operands, n)
  BY <1>8, SameOperators DEF P!After
<1>11. P!Relative = JrTarget
  <2>1. CodeOf(mem)[Operands] = mem[Operands]
    BY <1>4, <1>9
  <2>2. QED BY <1>8, <1>10, <2>1, SameOperators
            DEF P!Relative, JrTarget, Imm8
<1>12. ASSUME ~Prefixed(mem, PC) PROVE P!Imm16 = Imm16
  <2>1. Operands = PC + 1
    BY <1>9, <1>12
  <2>2. Plus(PC + 1, 1) = PC + 2
    <3>1. PC + 2 \in Word
      BY <1>1, WordBelow
    <3>2. (PC + 1) + 1 = PC + 2 /\ PC + 1 \in Int
      BY <1>1
    <3>3. QED BY <3>1, <3>2, PlusFits
  <2>3. WordAt(CodeOf(mem), PC + 1) = WordAt(mem, PC + 1)
    BY <1>4, <2>2 DEF WordAt
  <2>4. QED BY <1>8, <2>1, <2>3, SameOperators DEF P!Imm16, Imm16
<1>13. QED BY <1>4, <1>7, <1>8, <1>10, <1>11, <1>12

-----------------------------------------------------------------------------
(* The refinement: the program's stack.                                    *)

\* A function on 1 .. n is a sequence of length n.
LEMMA SequenceOfLength ==
  ASSUME NEW S, NEW n \in Nat, NEW s \in [1 .. n -> S]
  PROVE  s \in Seq(S) /\ Len(s) = n
<1>1. s \in Seq(S)
  BY SeqDef
<1>2. Len(s) \in Nat /\ 1 .. Len(s) = 1 .. n
  BY <1>1, LenProperties
<1> DEFINE k == Len(s)
<1>3. k \in Nat /\ 1 .. k = 1 .. n
  BY <1>2
<1>4. k = n
  <2> HIDE DEF k
  <2>1. k >= 1 => k \in 1 .. n
    BY <1>3
  <2>2. n >= 1 => n \in 1 .. k
    BY <1>3
  <2>3. QED BY <1>3, <2>1, <2>2
<1>5. QED BY <1>1, <1>4

\* A whole number of words lies between sp and Bottom.
Aligned(sp) == (Bottom - sp) % 2 = 0
Depth(sp)   == (Bottom - sp) \div 2

LEMMA DepthType ==
  ASSUME NEW sp \in Word, Aligned(sp)
  PROVE  /\ sp \in Nat /\ Bottom \in Nat /\ Bottom \in Word
         /\ Depth(sp) \in Nat /\ Bottom = sp + 2 * Depth(sp)
<1>1. Bottom \in Nat /\ sp \in 0 .. Bottom
  BY WordsNumber DEF Bottom, Word
<1>2. Bottom \in Word
  BY <1>1 DEF Bottom, Word
<1>3. Depth(sp) \in Nat /\ Bottom = sp + 2 * Depth(sp)
  <2> DEFINE d == Bottom - sp
  <2>1. d \in Nat /\ d % 2 = 0
    BY <1>1 DEF Aligned
  <2>2. d \div 2 \in Nat /\ d = 2 * (d \div 2)
    <3> HIDE DEF d
    <3>1. QED BY <2>1
  <2>3. QED BY <1>1, <2>2 DEF Depth
<1>4. QED BY <1>1, <1>2, <1>3

\* The words of a stack are at addresses from sp to two below Bottom.
LEMMA DepthAddress ==
  ASSUME NEW sp \in Word, Aligned(sp), NEW i \in 1 .. Depth(sp)
  PROVE  /\ Bottom - 2 * i \in Word /\ Bottom - 2 * i >= sp
         /\ (Bottom - 2 * i) + 1 \in Word
         /\ i = Depth(sp) => Bottom - 2 * i = sp
<1> DEFINE d == Depth(sp)
<1>1. /\ sp \in Nat /\ Bottom \in Nat /\ Bottom \in Word
      /\ d \in Nat /\ Bottom = sp + 2 * d
  BY DepthType
<1>2. i \in 1 .. d
  OBVIOUS
<1> HIDE DEF d
<1>3. /\ Bottom - 2 * i \in Nat /\ Bottom - 2 * i >= sp
      /\ (Bottom - 2 * i) + 1 \in Nat /\ (Bottom - 2 * i) + 1 <= Bottom
      /\ i = d => Bottom - 2 * i = sp
  BY <1>1, <1>2
<1>4. Bottom - 2 * i \in Word /\ (Bottom - 2 * i) + 1 \in Word
  BY <1>1, <1>3, WordBelow
<1>5. QED BY <1>3, <1>4 DEF d

LEMMA WordsType ==
  ASSUME NEW m \in [Word -> Byte], NEW sp \in Word, Aligned(sp)
  PROVE  /\ WordsFrom(m, sp) \in Seq(Word)
         /\ Len(WordsFrom(m, sp)) = Depth(sp)
         /\ \A i \in 1 .. Depth(sp) :
              WordsFrom(m, sp)[i] = WordAt(m, Bottom - 2 * i)
<1>1. WordsFrom(m, sp) = [i \in 1 .. Depth(sp) |-> WordAt(m, Bottom - 2 * i)]
  BY DEF WordsFrom, Depth
<1>2. \A i \in 1 .. Depth(sp) : WordAt(m, Bottom - 2 * i) \in Word
  BY DepthAddress, WordAtWord
<1>3. WordsFrom(m, sp) \in [1 .. Depth(sp) -> Word]
  BY <1>1, <1>2
<1>4. Depth(sp) \in Nat
  BY DepthType
<1>5. QED BY <1>1, <1>3, <1>4, SequenceOfLength

\* What is written below the stack pointer does not change the stack.
LEMMA WordsSame ==
  ASSUME NEW m \in [Word -> Byte], NEW n \in [Word -> Byte],
         NEW sp \in Word, Aligned(sp),
         \A a \in Word : a >= sp => n[a] = m[a]
  PROVE  WordsFrom(n, sp) = WordsFrom(m, sp)
<1>1. ASSUME NEW i \in 1 .. Depth(sp)
      PROVE  WordAt(n, Bottom - 2 * i) = WordAt(m, Bottom - 2 * i)
  <2> DEFINE a == Bottom - 2 * i
  <2>1. a \in Word /\ a + 1 \in Word /\ a >= sp
    BY DepthAddress
  <2> HIDE DEF a
  <2>2. a \in Int /\ sp \in Int
    BY <2>1, WordInt
  <2>3. Plus(a, 1) = a + 1 /\ a + 1 >= sp
    BY <2>1, <2>2, PlusFits
  <2>4. WordAt(n, a) = WordAt(m, a)
    BY <2>1, <2>3 DEF WordAt
  <2>5. QED BY <2>4 DEF a
<1>2. QED BY <1>1 DEF WordsFrom, Depth

\* A push appends to the stack.
LEMMA WordsPush ==
  ASSUME NEW m \in [Word -> Byte], NEW sp \in Word, sp >= 2, Aligned(sp),
         NEW w \in Word
  PROVE  /\ Aligned(Plus(sp, -2))
         /\ WordsFrom(Push(m, sp, w), Plus(sp, -2)) = Append(WordsFrom(m, sp), w)
<1> DEFINE d == Depth(sp)
           n == Push(m, sp, w)
           top == sp - 2
           old == WordsFrom(m, sp)
           new == WordsFrom(n, top)
<1>1. /\ sp \in Nat /\ Bottom \in Nat
      /\ d \in Nat /\ Bottom = sp + 2 * d
  BY DepthType
<1>2. Plus(sp, -2) = top /\ top \in Word
  BY <1>1, PushBelow, WordBelow
<1>3. Aligned(top) /\ Depth(top) = d + 1
  <2> HIDE DEF d
  <2>1. Bottom - top = 2 * (d + 1)
    BY <1>1
  <2>2. (2 * (d + 1)) % 2 = 0 /\ (2 * (d + 1)) \div 2 = d + 1
    BY <1>1
  <2>3. QED BY <2>1, <2>2 DEF Aligned, Depth
<1>4. n \in [Word -> Byte]
  BY PushType
<1>5. /\ old \in Seq(Word) /\ Len(old) = d
      /\ \A i \in 1 .. d : old[i] = WordAt(m, Bottom - 2 * i)
  BY WordsType
<1>6. /\ new \in Seq(Word) /\ Len(new) = d + 1
      /\ \A i \in 1 .. (d + 1) : new[i] = WordAt(n, Bottom - 2 * i)
  BY <1>2, <1>3, <1>4, WordsType
<1>7. \A i \in 1 .. d : new[i] = old[i]
  <2> SUFFICES ASSUME NEW i \in 1 .. d PROVE new[i] = old[i]
    OBVIOUS
  <2>1. /\ Bottom - 2 * i \in Word /\ Bottom - 2 * i >= sp
        /\ (Bottom - 2 * i) + 1 \in Word
    BY DepthAddress
  <2>2. WordAt(n, Bottom - 2 * i) = WordAt(m, Bottom - 2 * i)
    BY <2>1, PushBelow
  <2>3. i \in 1 .. (d + 1)
    <3> HIDE DEF d
    <3>1. QED BY <1>1
  <2>4. QED BY <1>5, <1>6, <2>2, <2>3
<1>8. new[d + 1] = w
  <2>1. d + 1 \in 1 .. (d + 1) /\ Bottom - 2 * (d + 1) = top
    <3> HIDE DEF d
    <3>1. QED BY <1>1
  <2>2. WordAt(n, top) = w
    BY PushBelow
  <2>3. QED BY <1>6, <2>1, <2>2
<1>9. new = Append(old, w)
  <2> HIDE DEF new, old, d
  <2>1. /\ Append(old, w) \in Seq(Word) /\ Len(Append(old, w)) = d + 1
        /\ \A i \in 1 .. d : Append(old, w)[i] = old[i]
        /\ Append(old, w)[d + 1] = w
    BY <1>5, AppendProperties
  <2>2. \A i \in 1 .. (d + 1) : i \in 1 .. d \/ i = d + 1
    BY <1>1
  <2>3. \A i \in 1 .. (d + 1) : new[i] = Append(old, w)[i]
    BY <1>7, <1>8, <2>1, <2>2
  <2>4. QED BY <1>6, <2>1, <2>3, SeqEqual
<1>10. QED BY <1>2, <1>3, <1>9

\* A pop takes the last word from it.
LEMMA WordsPop ==
  ASSUME NEW m \in [Word -> Byte], NEW sp \in Word, Aligned(sp), sp < Bottom
  PROVE  /\ Plus(sp, 2) = sp + 2 /\ sp + 2 \in Word /\ Aligned(sp + 2)
         /\ WordsFrom(m, sp) # <<>>
         /\ WordsFrom(m, sp)[Len(WordsFrom(m, sp))] = WordAt(m, sp)
         /\ WordsFrom(m, sp + 2)
              = SubSeq(WordsFrom(m, sp), 1, Len(WordsFrom(m, sp)) - 1)
<1> DEFINE d == Depth(sp)
           old == WordsFrom(m, sp)
           new == WordsFrom(m, sp + 2)
<1>1. /\ sp \in Nat /\ Bottom \in Nat /\ Bottom \in Word
      /\ d \in Nat /\ Bottom = sp + 2 * d
  BY DepthType
<1>2. d >= 1 /\ sp + 2 \in Word /\ Plus(sp, 2) = sp + 2
  <2> HIDE DEF d
  <2>1. d >= 1 /\ sp + 2 \in Nat /\ sp + 2 <= Bottom
    BY <1>1
  <2>2. sp + 2 \in Word
    BY <1>1, <2>1, WordBelow
  <2>3. QED BY <1>1, <2>1, <2>2, PlusFits
<1>3. Aligned(sp + 2) /\ Depth(sp + 2) = d - 1
  <2> HIDE DEF d
  <2>1. Bottom - (sp + 2) = 2 * (d - 1)
    BY <1>1
  <2>2. (2 * (d - 1)) % 2 = 0 /\ (2 * (d - 1)) \div 2 = d - 1
    BY <1>1, <1>2
  <2>3. QED BY <2>1, <2>2 DEF Aligned, Depth
<1>4. /\ old \in Seq(Word) /\ Len(old) = d
      /\ \A i \in 1 .. d : old[i] = WordAt(m, Bottom - 2 * i)
  BY WordsType
<1>5. /\ new \in Seq(Word) /\ Len(new) = d - 1
      /\ \A i \in 1 .. (d - 1) : new[i] = WordAt(m, Bottom - 2 * i)
  BY <1>2, <1>3, WordsType
<1>6. old # <<>> /\ old[Len(old)] = WordAt(m, sp)
  <2>1. d \in 1 .. d /\ Bottom - 2 * d = sp
    <3> HIDE DEF d
    <3>1. QED BY <1>1, <1>2
  <2>2. old[Len(old)] = WordAt(m, sp)
    BY <1>4, <2>1
  <2>3. Len(old) # 0
    BY <1>2, <1>4
  <2>4. QED BY <2>2, <2>3, EmptySeq
<1>7. new = SubSeq(old, 1, Len(old) - 1)
  <2> HIDE DEF new, old, d
  <2>1. \A i \in 1 .. (d - 1) : i \in 1 .. d /\ 1 + i - 1 = i
    BY <1>1
  <2>2. \A i \in 1 .. (d - 1) : old[i] \in Word
    BY <1>4, <2>1, ElementOfSeq
  <2>3. /\ SubSeq(old, 1, d - 1) \in Seq(Word)
        /\ Len(SubSeq(old, 1, d - 1)) = IF 1 <= d - 1 THEN (d - 1) - 1 + 1 ELSE 0
        /\ \A i \in 1 .. ((d - 1) - 1 + 1) :
             SubSeq(old, 1, d - 1)[i] = old[1 + i - 1]
    BY <1>1, <2>2, SubSeqProperties
  <2>4. Len(SubSeq(old, 1, d - 1)) = d - 1
    BY <1>1, <1>2, <2>3
  <2>5. \A i \in 1 .. (d - 1) : SubSeq(old, 1, d - 1)[i] = new[i]
    <3>1. \A i \in 1 .. (d - 1) : i \in 1 .. ((d - 1) - 1 + 1)
      BY <1>1
    <3>2. QED BY <1>4, <1>5, <2>1, <2>3, <3>1
  <2>6. new = SubSeq(old, 1, d - 1)
    BY <1>5, <2>3, <2>4, <2>5, SeqEqual
  <2>7. QED BY <1>4, <2>6
<1>8. QED BY <1>2, <1>3, <1>6, <1>7

-----------------------------------------------------------------------------
(* The refinement: what is invariant.                                      *)

\* Every stack pointer is a whole number of words below Bottom.
StackAligned ==
  /\ Aligned(SP)
  /\ \A i \in 1 .. Len(frames) : Aligned(frames[i].sp)

\* A step writes memory only by pushing.
LEMMA MemoryStep ==
  ASSUME TypeOK, [HNext]_hvars, ~(HInstruction /\ LdSpImm)
  PROVE  \/ mem' = mem
         \/ \E w \in Word : mem' = Push(mem, SP, w) /\ SP' = Plus(SP, -2)
<1>1. CASE HInstruction
  BY <1>1, StackStep DEF HInstruction, PopPC
<1>2. CASE HAcceptNmi
  BY <1>2, OperandsType DEF HAcceptNmi, AcceptNmi
<1>3. CASE HFinishInt
  BY <1>3 DEF HFinishInt, FinishInt, TypeOK
<1>4. CASE HBeginInt \/ HUnwindInt \/ HTriggerInterrupt \/ HTriggerNmi \/ HReset
           \/ UNCHANGED hvars
  BY <1>4 DEF HBeginInt, BeginInt, HUnwindInt, UnwindInt, HTriggerInterrupt,
              TriggerInterrupt, HTriggerNmi, TriggerNmi, HReset, Reset,
              hvars, vars, flow
<1>5. QED BY <1>1, <1>2, <1>3, <1>4 DEF HNext

\* So the code, and what is above the stack pointer, stay as they are.
LEMMA MemoryKept ==
  ASSUME TypeOK, [HNext]_hvars, ~(HInstruction /\ LdSpImm), StackFits, StackFits'
  PROVE  /\ CodeOf(mem') = CodeOf(mem)
         /\ \A a \in Word : a >= SP => mem'[a] = mem[a]
<1>1. CASE mem' = mem
  BY <1>1
<1>2. CASE \E w \in Word : mem' = Push(mem, SP, w) /\ SP' = Plus(SP, -2)
  <2>1. PICK w \in Word : mem' = Push(mem, SP, w) /\ SP' = Plus(SP, -2)
    BY <1>2
  <2>2. /\ SP \in Word /\ SP \in Nat /\ SP >= 2 /\ mem \in [Word -> Byte]
    BY StackRoom DEF TypeOK
  <2>3. /\ SP' = SP - 2
        /\ \A a \in Word : a < SP - 2 \/ a >= SP => mem'[a] = mem[a]
    BY <2>1, <2>2, PushBelow
  <2>4. \A a \in 0 .. (StackFloor - 1) : a \in Word /\ a < SP - 2
    <3>1. SP - 2 >= StackFloor /\ StackFloor \in Word /\ StackFloor \in Nat
      BY <2>3, FrameAssumption DEF StackFits, Word
    <3>2. \A a \in 0 .. (StackFloor - 1) : a \in Nat /\ a <= StackFloor /\ a < SP - 2
      BY <2>2, <3>1
    <3>3. QED BY <3>1, <3>2, WordBelow
  <2>5. QED BY <2>3, <2>4 DEF CodeOf
<1>3. QED BY <1>1, <1>2, MemoryStep

LEMMA AlignedInit == HInit => StackAligned
<1> SUFFICES ASSUME HInit PROVE StackAligned
  OBVIOUS
<1>1. SP = Bottom /\ frames = <<>> /\ Bottom \in Int
  BY WordsNumber DEF HInit, Init, Bottom
<1>2. (Bottom - Bottom) % 2 = 0
  BY <1>1
<1>3. QED BY <1>1, <1>2, EmptySeq DEF StackAligned, Aligned

\* Of what a step does to the frames, what matters here: each frame was there,
\* or was made now.
LEMMA FramesFrom ==
  ASSUME TypeOK, TypeOK', FramesOnStack, StackFits, [HNext]_hvars,
         HInstruction /\ Interrupted => ~LdSpImm
  PROVE  /\ frames' \in Seq(Frame)
         /\ \A i \in 1 .. Len(frames') :
              \/ i \in 1 .. Len(frames) /\ frames'[i] = frames[i]
              \/ frames'[i].sp = SP
<1>1. FramesOnStack' /\ frames \in Seq(Frame) /\ frames' \in Seq(Frame)
  BY FramesNext DEF FramesOnStack
<1>2. /\ Len(frames) \in Nat
      /\ Interrupted <=> Len(frames) > 0
      /\ Len(frames') \in Nat
  BY <1>1, FramesType, LenProperties
<1>3. CASE HAcceptNmi \/ HBeginInt
  <2>1. PICK kind \in {"nmi", "int"} : Enter(kind)
    BY <1>3 DEF HAcceptNmi, HBeginInt
  <2>2. /\ Len(frames') = Len(frames) + 1
        /\ \A i \in 1 .. Len(frames) : frames'[i] = frames[i]
        /\ frames'[Len(frames) + 1].sp = SP
    BY <1>1, <2>1, EnterType
  <2>3. \A i \in 1 .. Len(frames') : i \in 1 .. Len(frames) \/ i = Len(frames) + 1
    BY <1>2, <2>2
  <2>4. QED BY <1>1, <2>2, <2>3
<1>4. CASE frames' = Front(frames) /\ Interrupted
  <2>1. /\ Len(frames') = Len(frames) - 1
        /\ \A i \in 1 .. (Len(frames) - 1) : frames'[i] = frames[i]
    BY <1>1, <1>4, FrontType
  <2>2. \A i \in 1 .. Len(frames') : i \in 1 .. Len(frames)
    BY <1>2, <2>1
  <2>3. QED BY <1>1, <2>1, <2>2
<1>5. CASE frames' = frames
  BY <1>1, <1>5
<1>6. CASE HReset
  BY <1>1, <1>6, EmptySeq DEF HReset
<1>7. CASE HInstruction
  BY <1>4, <1>5, <1>7, InstructionFrames
<1>8. CASE HUnwindInt
  <2>1. Interrupted
    BY <1>8 DEF HUnwindInt, UnwindInt, FramesOnStack
  <2>2. QED BY <1>4, <1>8, <2>1 DEF HUnwindInt
<1>9. CASE HFinishInt \/ HTriggerInterrupt \/ HTriggerNmi \/ UNCHANGED hvars
  BY <1>5, <1>9 DEF HFinishInt, HTriggerInterrupt, HTriggerNmi, hvars, history
<1>10. QED BY <1>3, <1>6, <1>7, <1>8, <1>9 DEF HNext

\* Nothing but LD SP,nn moves the stack pointer by an odd distance; and the
\* program does not pop more than was pushed, or its stack would wrap around to
\* below StackFloor.
LEMMA AlignedNext ==
  ASSUME TypeOK, TypeOK', FramesOnStack, StackFits, StackFits', StackAligned,
         [HNext]_hvars, ~(HInstruction /\ LdSpImm)
  PROVE  StackAligned' /\ (HInstruction /\ PopPC => SP < Bottom)
<1>1. /\ SP \in Word /\ SP \in Nat /\ SP >= 2 /\ mem \in [Word -> Byte]
      /\ Aligned(SP) /\ Bottom \in Nat /\ SP <= Bottom
  BY StackRoom, WordsNumber DEF TypeOK, StackAligned, Bottom, Word
<1>2. ASSUME SP' = Plus(SP, 2) PROVE SP < Bottom
  <2> SUFFICES ASSUME SP = Bottom PROVE FALSE
    BY <1>1
  <2> DEFINE size == W * W
  <2>1. size \in Nat /\ size >= 4 /\ SP = size - 1
    BY WordsNumber DEF Bottom
  <2>2. (SP + 2) % size = 1
    <3> HIDE DEF size
    <3>1. SP + 2 = size + 1
      BY <2>1
    <3>2. (size + 1) % size = 1
      BY <2>1
    <3>3. QED BY <3>1, <3>2
  <2>3. SP' = 1
    BY <1>2, <2>2 DEF Plus
  <2>4. StackFloor \in Nat /\ StackFloor >= 2
    BY FrameAssumption DEF Word
  <2>5. QED BY <2>3, <2>4 DEF StackFits
<1>3. Aligned(SP')
  <2>1. CASE SP' = SP
    BY <1>1, <2>1
  <2>2. CASE SP' = Plus(SP, -2)
    BY <1>1, <2>2, WordsPush, PushType, DepthType, VectorWord
  <2>3. CASE SP' = Plus(SP, 2)
    <3>1. SP < Bottom
      BY <1>2, <2>3
    <3>2. QED BY <1>1, <2>3, <3>1, WordsPop
  <2>4. CASE SP' = Bottom
    BY <1>1, <2>4 DEF Aligned
  <2>5. \/ SP' = SP \/ SP' = Plus(SP, -2) \/ SP' = Plus(SP, 2) \/ SP' = Bottom
    <3>1. CASE HInstruction
      BY <3>1, StackStep DEF HInstruction, PopPC
    <3>2. CASE HAcceptNmi \/ HFinishInt
      BY <3>2 DEF HAcceptNmi, AcceptNmi, HFinishInt, FinishInt
    <3>3. CASE HReset
      BY <3>3 DEF HReset, Reset, Bottom
    <3>4. CASE HBeginInt \/ HUnwindInt \/ HTriggerInterrupt \/ HTriggerNmi
               \/ UNCHANGED hvars
      BY <3>4 DEF HBeginInt, BeginInt, HUnwindInt, UnwindInt, HTriggerInterrupt,
                  TriggerInterrupt, HTriggerNmi, TriggerNmi, hvars, vars, flow
    <3>5. QED BY <3>1, <3>2, <3>3, <3>4 DEF HNext
  <2>6. QED BY <2>1, <2>2, <2>3, <2>4, <2>5
<1>4. \A i \in 1 .. Len(frames') : Aligned(frames'[i].sp)
  BY <1>1, FramesFrom DEF StackAligned
<1>5. QED BY <1>2, <1>3, <1>4 DEF StackAligned, PopPC

LEMMA SwitchInit == HInit => SwitchKept
<1> SUFFICES ASSUME HInit PROVE SwitchKept
  OBVIOUS
<1>1. frames = <<>> /\ IFF1 = FALSE /\ IFF2 = FALSE
  BY DEF HInit, Init
<1>2. ~Serving("nmi")
  BY <1>1 DEF Serving, Interrupted
<1>3. Len(frames) = 0 /\ DOMAIN frames = {}
  BY <1>1, EmptySeq
<1>4. 1 .. (Len(frames) - 1) = {}
  BY <1>3
<1>5. QED BY <1>1, <1>2, <1>3, <1>4 DEF SwitchKept

\* The kinds of the frames, one by one.
LEMMA ServingType ==
  ASSUME frames \in Seq(Frame)
  PROVE  /\ \A i \in 1 .. Len(frames) : frames[i].kind \in {"nmi", "int"}
         /\ Serving("nmi") <=> Len(frames) > 0 /\ frames[Len(frames)].kind = "nmi"
         /\ Interrupted => Serving("nmi") \/ Serving("int")
<1>1. /\ Len(frames) \in Nat
      /\ Interrupted <=> Len(frames) > 0
      /\ \A i \in 1 .. Len(frames) : frames[i] \in Frame
      /\ Interrupted => Last(frames) = frames[Len(frames)]
  BY FramesType
<1>2. \A i \in 1 .. Len(frames) : frames[i].kind \in {"nmi", "int"}
  BY <1>1 DEF Frame
<1>3. Interrupted => Len(frames) \in 1 .. Len(frames)
  BY <1>1
<1>4. QED BY <1>1, <1>2, <1>3 DEF Serving

\* An acceptance: the new frame is the only one that may be an NMI's.
LEMMA SwitchAccept ==
  ASSUME TypeOK, FramesOnStack, SwitchKept, HAcceptNmi \/ HBeginInt
  PROVE  SwitchKept'
<1>1. PICK kind \in {"nmi", "int"} : Enter(kind) /\ (HAcceptNmi <=> kind = "nmi")
                                       /\ (HBeginInt <=> kind = "int")
  BY DEF HAcceptNmi, HBeginInt, AcceptNmi, BeginInt
<1>2. /\ frames \in Seq(Frame) /\ Len(frames) \in Nat /\ DOMAIN frames = 1 .. Len(frames)
      /\ frames' \in Seq(Frame) /\ Len(frames') = Len(frames) + 1
      /\ DOMAIN frames' = 1 .. Len(frames')
      /\ \A i \in 1 .. Len(frames) : frames'[i] = frames[i]
      /\ Last(frames') = frames'[Len(frames) + 1]
      /\ Last(frames').kind = kind /\ Last(frames').ie = IFF1
  <2>1. frames \in Seq(Frame)
    BY DEF FramesOnStack
  <2>2. QED BY <1>1, <2>1, EnterType, FramesType, LenProperties
<1>3. \A i \in 1 .. Len(frames) : frames[i].kind = "int"
  <2>1. CASE HAcceptNmi
    BY <1>2, <2>1 DEF HAcceptNmi, AcceptNmi, SwitchKept
  <2>2. CASE HBeginInt
    <3>1. ~Serving("nmi")
      BY <2>2 DEF HBeginInt, BeginInt, IntAccepted, SwitchKept
    <3>2. \A i \in 1 .. Len(frames) : i \in 1 .. (Len(frames) - 1) \/ i = Len(frames)
      <4> DEFINE n == Len(frames)
      <4>1. n \in Nat
        BY <1>2
      <4> HIDE DEF n
      <4>2. \A i \in 1 .. n : i \in 1 .. (n - 1) \/ i = n
        BY <4>1
      <4>3. QED BY <4>2 DEF n
    <3>3. QED BY <1>2, <3>1, <3>2, ServingType DEF SwitchKept
  <2>3. QED BY <2>1, <2>2
<1>4. Interrupted'
  BY <1>2, EmptySeq DEF Interrupted
<1>5. \A i \in 1 .. (Len(frames') - 1) : frames'[i].kind = "int"
  BY <1>2, <1>3
<1>6. \A i \in 1 .. Len(frames) : frames[i].ie
  BY <1>2, <1>3 DEF SwitchKept
<1>7. \A i \in 1 .. Len(frames') : i \in 1 .. Len(frames) \/ i = Len(frames) + 1
  BY <1>2
<1>8. CASE HAcceptNmi
  <2>1. /\ kind = "nmi" /\ ~nmi_pending' /\ IFF2' = IFF1 /\ ~IFF1'
    BY <1>1, <1>8 DEF HAcceptNmi, AcceptNmi
  <2>2. \A i \in 1 .. Len(frames') : frames'[i].kind = "int" => frames'[i].ie
    BY <1>2, <1>6, <1>7, <2>1
  <2>3. Interrupted' /\ Last(frames').kind = "nmi"
    BY <1>2, <1>4, <2>1
  <2>4. IFF2' = Last(frames').ie
    BY <1>2, <2>1
  <2>5. \A i \in DOMAIN frames' : frames'[i].kind = "int" => frames'[i].ie
    BY <1>2, <2>2
  <2>6. QED BY <1>5, <2>1, <2>3, <2>4, <2>5 DEF SwitchKept, Serving
<1>9. CASE HBeginInt
  <2>1. /\ kind = "int" /\ ~nmi_pending' /\ IFF1
        /\ IFF1' = FALSE /\ IFF2' = FALSE
    BY <1>1, <1>9 DEF HBeginInt, BeginInt, IntAccepted
  <2>2. \A i \in 1 .. Len(frames') : frames'[i].kind = "int" => frames'[i].ie
    BY <1>2, <1>6, <1>7, <2>1
  <2>3. ~Serving("nmi")'
    BY <1>2, <2>1 DEF Serving
  <2>4. QED BY <1>2, <1>5, <2>1, <2>2, <2>3 DEF SwitchKept
<1>10. QED BY <1>8, <1>9

\* What an instruction does to the flip-flops.
LEMMA SwitchStep ==
  ASSUME Instruction
  PROVE  /\ nmi_pending' = nmi_pending
         /\ \/ (Ei \/ Di) /\ IFF1' = IFF2'
            \/ RetnReti /\ IFF1' = IFF2 /\ IFF2' = IFF2
            \/ IFF1' = IFF1 /\ IFF2' = IFF2
<1>1. PICK handler : Execute(handler)
  BY DEF Instruction, Nop, Halt, Di, Ei, RetnReti, LdIA, LdHlImm, LdSpImm, Im,
         JpNn, JpCcNn, JpHl, JrE, JrCcE, DjnzE, CallNn, CallCcNn, Rst, Ret,
         RetCc
<1>2. nmi_pending' = nmi_pending
  BY <1>1 DEF Execute, lines
<1>3. CASE Ei \/ Di
  BY <1>2, <1>3 DEF Ei, Di
<1>4. CASE RetnReti
  BY <1>2, <1>4 DEF RetnReti
<1>5. CASE Instruction /\ ~Ei /\ ~Di /\ ~RetnReti
  BY <1>2, <1>5 DEF Instruction, Goto, CallTo, PopPC, iffs, Nop, Halt, LdIA,
              LdHlImm, LdSpImm, Im, JpNn, JpCcNn, JpHl, JrE, JrCcE, DjnzE,
              CallNn, CallCcNn, Rst, Ret, RetCc
<1>6. QED BY <1>3, <1>4, <1>5

LEMMA SwitchInstruction ==
  ASSUME TypeOK, TypeOK', FramesOnStack, StackFits, SwitchKept,
         HInstruction, TidyStep
  PROVE  SwitchKept'
<1>1. /\ nmi_pending' = nmi_pending
      /\ \/ (Ei \/ Di) /\ IFF1' = IFF2'
         \/ RetnReti /\ IFF1' = IFF2 /\ IFF2' = IFF2
         \/ IFF1' = IFF1 /\ IFF2' = IFF2
  BY SwitchStep DEF HInstruction
<1>2. /\ frames \in Seq(Frame) /\ Len(frames) \in Nat /\ DOMAIN frames = 1 .. Len(frames)
      /\ Interrupted <=> Len(frames) > 0
  BY FramesType DEF FramesOnStack
<1>3. CASE frames' = frames
  <2>1. Serving("nmi")' <=> Serving("nmi")
    BY <1>3 DEF Serving, Interrupted
  <2>2. Serving("nmi") => ~Ei /\ ~Di /\ ~RetnReti
    BY <1>2, <1>3 DEF TidyStep, Returning
  <2>3. QED BY <1>1, <1>3, <2>1, <2>2 DEF SwitchKept
<1>4. CASE frames' = Front(frames) /\ Interrupted
  <2>1. /\ frames' \in Seq(Frame) /\ Len(frames') = Len(frames) - 1
        /\ DOMAIN frames' = 1 .. Len(frames')
        /\ \A i \in 1 .. (Len(frames) - 1) : frames'[i] = frames[i]
    BY <1>2, <1>4, FrontType, LenProperties
  <2>2. Returning
    BY <1>2, <2>1 DEF Returning
  <2>3. \A i \in 1 .. Len(frames') : frames'[i].kind = "int" /\ frames'[i].ie
    BY <1>2, <2>1 DEF SwitchKept
  <2>4. \A i \in 1 .. (Len(frames') - 1) : i \in 1 .. Len(frames')
    BY <1>2, <2>1
  <2>5. ~Serving("nmi")'
    <3>1. /\ Interrupted' => Len(frames') \in 1 .. Len(frames')
          /\ Last(frames') = frames'[Len(frames')]
      BY <1>2, <2>1, EmptySeq DEF Interrupted, Last
    <3>2. QED BY <2>3, <3>1 DEF Serving
  <2>6. IFF1' = IFF2'
    <3>1. CASE Serving("nmi")
      BY <1>1, <2>2, <3>1 DEF TidyStep, RetnReti
    <3>2. CASE ~Serving("nmi")
      BY <1>1, <3>2 DEF SwitchKept
    <3>3. QED BY <3>1, <3>2
  <2>7. QED BY <2>1, <2>3, <2>4, <2>5, <2>6 DEF SwitchKept
<1>5. QED BY <1>3, <1>4, InstructionFrames DEF TidyStep

LEMMA SwitchNext ==
  ASSUME ~NestNmi, ~AckRaises,
         TypeOK, TypeOK', FramesOnStack, StackFits, SwitchKept, [HNext]_hvars,
         TidyStep
  PROVE  SwitchKept'
<1>1. CASE HTriggerNmi
  <2>1. /\ frames' = frames /\ IFF1' = IFF1 /\ IFF2' = IFF2
    BY <1>1 DEF HTriggerNmi, TriggerNmi, history, iffs
  <2>2. \A i \in DOMAIN frames : frames[i].kind = "int"
    <3>1. ~NmiInService
      BY <1>1 DEF HTriggerNmi
    <3>2. frames \in Seq(Frame) /\ DOMAIN frames = 1 .. Len(frames)
      BY FramesType DEF FramesOnStack
    <3>3. QED BY <3>1, <3>2, ServingType DEF NmiInService
  <2>3. QED BY <2>1, <2>2 DEF SwitchKept, Serving, Interrupted
<1>2. CASE HTriggerInterrupt \/ HFinishInt \/ UNCHANGED hvars
  <2>1. /\ frames' = frames /\ IFF1' = IFF1 /\ IFF2' = IFF2
        /\ nmi_pending' = nmi_pending
    BY <1>2 DEF HTriggerInterrupt, TriggerInterrupt, HFinishInt, FinishInt,
                hvars, vars, lines, history, iffs
  <2>2. QED BY <2>1 DEF SwitchKept, Serving, Interrupted
<1>3. CASE HReset
  <2>1. frames' = <<>> /\ IFF1' = FALSE /\ IFF2' = FALSE
    BY <1>3 DEF HReset, Reset
  <2>2. ~Interrupted'
    BY <2>1 DEF Interrupted
  <2>3. Len(frames') = 0 /\ DOMAIN frames' = {}
    BY <2>1, EmptySeq
  <2>4. 1 .. (Len(frames') - 1) = {}
    BY <2>3
  <2>5. QED BY <2>1, <2>2, <2>3, <2>4 DEF SwitchKept, Serving
<1>4. QED BY <1>1, <1>2, <1>3, SwitchAccept, SwitchInstruction
          DEF HNext, HUnwindInt

-----------------------------------------------------------------------------
(* The refinement: every step is one of the program's, or none.            *)

\* The program is as it was.
Unseen ==
  /\ CodeOf(mem') = CodeOf(mem) /\ B' = B /\ HL' = HL
  /\ WordsFrom(mem', ProgramSP') = WordsFrom(mem, ProgramSP)
  /\ ProgramPC' = ProgramPC /\ ProgramSwitch' = ProgramSwitch
  /\ ProgramStopped' = ProgramStopped

LEMMA UnseenStutters == Unseen => UNCHANGED P!vars
BY DEF Unseen, P!vars

\* The innermost frames come and go on top of the first.
LEMMA FirstFrame ==
  ASSUME TypeOK, FramesOnStack, Interrupted
  PROVE  /\ frames[1] \in Frame /\ SP <= frames[1].sp
         /\ Len(frames) \in Nat /\ Len(frames) > 0
<1>1. /\ frames \in Seq(Frame) /\ Len(frames) \in Nat /\ Len(frames) > 0
      /\ Last(frames) = frames[Len(frames)]
      /\ \A i \in 1 .. Len(frames) : frames[i] \in Frame
  BY FramesType DEF FramesOnStack
<1>2. 1 \in 1 .. Len(frames) /\ frames[1] \in Frame
  BY <1>1
<1>3. SP \in Int /\ frames[1].sp \in Int
  BY <1>2 DEF TypeOK, Frame, Word
<1>4. CASE acknowledging /\ Len(frames) = 1
  BY <1>1, <1>3, <1>4 DEF FramesOnStack
<1>5. CASE ~(acknowledging /\ Len(frames) = 1)
  <2> DEFINE n == Len(frames)
  <2>1. n \in Nat /\ n > 0 /\ Stacked = (IF acknowledging THEN n - 1 ELSE n)
    BY <1>1 DEF Stacked
  <2>2. 1 \in 1 .. Stacked
    <3> HIDE DEF n
    <3>1. ~(acknowledging /\ n = 1)
      BY <1>5 DEF n
    <3>2. QED BY <2>1, <3>1
  <2>3. SP < frames[1].sp
    BY <2>2 DEF FramesOnStack, Held
  <2>4. QED BY <1>1, <1>2, <1>3, <2>3
<1>6. QED BY <1>1, <1>2, <1>4, <1>5

\* Whatever a handler does on top of the first frame, the program sees nothing.
LEMMA ServingUnseen ==
  ASSUME TypeOK, TypeOK', FramesOnStack, StackAligned,
         Interrupted, Interrupted', frames'[1] = frames[1],
         B' = B, HL' = HL, CodeOf(mem') = CodeOf(mem),
         \A a \in Word : a >= SP => mem'[a] = mem[a]
  PROVE  Unseen
<1>1. /\ frames[1] \in Frame /\ SP <= frames[1].sp
      /\ 1 \in 1 .. Len(frames)
  BY FirstFrame
<1>2. frames[1].sp \in Word /\ Aligned(frames[1].sp)
  BY <1>1 DEF Frame, StackAligned
<1>3. \A a \in Word : a >= frames[1].sp => mem'[a] = mem[a]
  <2>1. SP \in Int /\ frames[1].sp \in Int /\ Word \subseteq Int
    BY <1>2 DEF TypeOK, Word
  <2>2. QED BY <1>1, <2>1
<1>4. WordsFrom(mem', frames[1].sp) = WordsFrom(mem, frames[1].sp)
  BY <1>2, <1>3, WordsSame DEF TypeOK
<1>5. QED BY <1>4 DEF Unseen, ProgramSP, ProgramPC, ProgramSwitch, ProgramStopped

\* An acceptance ends a HALT of the program and is unseen otherwise.
LEMMA AcceptRefines ==
  ASSUME TypeOK, TypeOK', HaltPointsAtHalt, FramesOnStack, StackFits, StackFits',
         CodeFits, StackAligned, [HNext]_hvars, HAcceptNmi \/ HBeginInt
  PROVE  P!Wake \/ UNCHANGED P!vars
<1>1. PICK kind \in {"nmi", "int"} : Enter(kind)
  BY DEF HAcceptNmi, HBeginInt
<1>2. /\ ~halted' /\ B' = B /\ HL' = HL
  BY DEF HAcceptNmi, HBeginInt, AcceptNmi, BeginInt
<1>3. /\ CodeOf(mem') = CodeOf(mem)
      /\ \A a \in Word : a >= SP => mem'[a] = mem[a]
  <2>1. ~(HInstruction /\ LdSpImm)
    BY DEF HAcceptNmi, HBeginInt, AcceptNmi, BeginInt, IntAccepted, HInstruction,
           LdSpImm, Execute
  <2>2. QED BY <2>1, MemoryKept
<1>4. /\ frames \in Seq(Frame) /\ Len(frames) \in Nat
      /\ frames' \in Seq(Frame) /\ Len(frames') = Len(frames) + 1
      /\ \A i \in 1 .. Len(frames) : frames'[i] = frames[i]
      /\ frames'[Len(frames) + 1]
           = [kind |-> kind, ret |-> Resume, sp |-> SP, ie |-> IFF1]
  <2>1. frames \in Seq(Frame)
    BY DEF FramesOnStack
  <2>2. QED BY <1>1, <2>1, EnterType, FramesType
<1>5. Interrupted'
  BY <1>4, EmptySeq DEF Interrupted
<1>6. CASE Interrupted
  <2>1. frames'[1] = frames[1]
    BY <1>4, <1>6, FirstFrame
  <2>2. QED BY <1>2, <1>3, <1>5, <1>6, <2>1, ServingUnseen, UnseenStutters
<1>7. CASE ~Interrupted
  <2>1. Len(frames) = 0
    BY <1>4, <1>7, FramesType
  <2>2. frames'[1] = [kind |-> kind, ret |-> Resume, sp |-> SP, ie |-> IFF1]
    BY <1>4, <2>1
  <2>3. /\ ProgramPC' = Resume /\ ProgramSP' = SP
        /\ ProgramSwitch' = IFF1 /\ ProgramStopped' = FALSE
    BY <1>5, <2>2 DEF ProgramPC, ProgramSP, ProgramSwitch, ProgramStopped
  <2>4. /\ ProgramPC = PC /\ ProgramSP = SP
        /\ ProgramSwitch = IFF1 /\ ProgramStopped = halted
    BY <1>7 DEF ProgramPC, ProgramSP, ProgramSwitch, ProgramStopped, TypeOK
  <2>5. WordsFrom(mem', SP) = WordsFrom(mem, SP)
    BY <1>3, WordsSame DEF TypeOK, StackAligned
  <2>6. CASE halted
    <3>1. ~Prefixed(mem, PC)
      BY <2>6 DEF HaltPointsAtHalt, Prefixed
    <3>2. Operands = Plus(PC, 1) /\ Operands \in Word
      BY <3>1, OperandsType DEF Operands, AfterOpcode
    <3>3. P!After(0) = Resume
      BY <1>7, <2>6, <3>2, ProgramCode, PlusZero DEF Resume
    <3>4. QED BY <1>2, <1>3, <2>3, <2>4, <2>5, <2>6, <3>3 DEF P!Wake
  <2>7. CASE ~halted
    <3>1. Resume = PC /\ halted = FALSE
      BY <2>7 DEF Resume, TypeOK
    <3>2. Unseen
      BY <1>2, <1>3, <2>3, <2>4, <2>5, <3>1 DEF Unseen
    <3>3. QED BY <3>2, UnseenStutters
  <2>8. QED BY <2>6, <2>7
<1>8. QED BY <1>6, <1>7

\* The instructions of a handler are unseen, the one that returns to the program
\* too.
LEMMA HandlerRefines ==
  ASSUME TypeOK, TypeOK', FramesOnStack, SwitchKept, SwitchKept',
         StackFits, StackFits', StackAligned, [HNext]_hvars,
         HInstruction, TidyStep, Interrupted
  PROVE  UNCHANGED P!vars
<1>1. /\ B' = B /\ HL' = HL /\ ~(HInstruction /\ LdSpImm)
  BY DEF TidyStep
<1>2. /\ CodeOf(mem') = CodeOf(mem)
      /\ \A a \in Word : a >= SP => mem'[a] = mem[a]
  BY <1>1, MemoryKept
<1>3. /\ frames \in Seq(Frame) /\ Len(frames) \in Nat /\ Len(frames) > 0
      /\ frames[1] \in Frame /\ SP <= frames[1].sp
      /\ Last(frames) = frames[Len(frames)]
  BY FirstFrame, FramesType DEF FramesOnStack
<1>4. \/ frames' = frames
      \/ /\ frames' = Front(frames)
         /\ PC' = Last(frames).ret /\ SP' = Last(frames).sp /\ PopPC
  BY <1>1, InstructionFrames
<1>5. CASE Interrupted'
  <2>1. frames'[1] = frames[1]
    <3>1. CASE frames' = frames
      BY <3>1
    <3>2. CASE frames' = Front(frames)
      <4>1. /\ frames' \in Seq(Frame) /\ Len(frames') = Len(frames) - 1
            /\ \A i \in 1 .. (Len(frames) - 1) : frames'[i] = frames[i]
        BY <1>3, <3>2, FrontType
      <4>2. Len(frames') # 0
        BY <1>5, <4>1, EmptySeq DEF Interrupted
      <4>3. QED BY <1>3, <4>1, <4>2
    <3>3. QED BY <1>4, <3>1, <3>2
  <2>2. QED BY <1>1, <1>2, <1>5, <2>1, ServingUnseen, UnseenStutters
<1>6. CASE ~Interrupted'
  <2>1. /\ frames' = Front(frames)
        /\ PC' = Last(frames).ret /\ SP' = Last(frames).sp /\ PopPC
    BY <1>4, <1>6 DEF Interrupted
  <2>2. /\ Len(frames) = 1 /\ Last(frames) = frames[1] /\ Returning
    <3>1. Len(frames') = Len(frames) - 1
      BY <1>3, <2>1, FrontType
    <3>2. Len(frames') = 0
      BY <1>6, EmptySeq DEF Interrupted
    <3> DEFINE n == Len(frames)
    <3>3. n \in Nat /\ n - 1 = 0
      BY <1>3, <3>1, <3>2
    <3>4. n = 1
      <4> HIDE DEF n
      <4>1. QED BY <3>3
    <3>5. QED BY <1>3, <3>2, <3>4 DEF Returning
  <2>3. IFF1' = frames[1].ie
    <3>1. CASE Serving("nmi")
      <4>1. RetnReti
        BY <2>2, <3>1 DEF TidyStep
      <4>2. QED BY <2>2, <3>1, <4>1 DEF RetnReti, SwitchKept
    <3>2. CASE ~Serving("nmi")
      <4>1. Serving("int") /\ frames[1].kind = "int"
        BY <1>3, <2>2, <3>2, ServingType DEF Serving
      <4>2. IFF1'
        BY <2>2, <4>1 DEF TidyStep
      <4>3. frames[1].ie
        <5>1. 1 \in DOMAIN frames
          BY <1>3, <2>2, FramesType
        <5>2. QED BY <4>1, <5>1 DEF SwitchKept
      <4>4. IFF1' \in BOOLEAN /\ frames[1].ie \in BOOLEAN
        BY <1>3 DEF TypeOK, Frame
      <4>5. QED BY <4>2, <4>3, <4>4
    <3>3. QED BY <3>1, <3>2
  <2>4. halted' = FALSE
    <3>1. ~halted
      <4>1. PICK handler : Execute(handler)
        BY DEF HInstruction, Instruction, Nop, Halt, Di, Ei, RetnReti, LdIA,
               LdHlImm, LdSpImm, Im, JpNn, JpCcNn, JpHl, JrE, JrCcE, DjnzE,
               CallNn, CallCcNn, Rst, Ret, RetCc
      <4>2. QED BY <4>1 DEF Execute
    <3>2. QED BY <2>1, <3>1 DEF PopPC, TypeOK
  <2>5. WordsFrom(mem', frames[1].sp) = WordsFrom(mem, frames[1].sp)
    BY <2>1 DEF PopPC
  <2>6. /\ ProgramPC' = frames[1].ret /\ ProgramSP' = frames[1].sp
        /\ ProgramSwitch' = frames[1].ie /\ ProgramStopped' = FALSE
    BY <1>6, <2>1, <2>2, <2>3, <2>4
       DEF ProgramPC, ProgramSP, ProgramSwitch, ProgramStopped
  <2>7. /\ ProgramPC = frames[1].ret /\ ProgramSP = frames[1].sp
        /\ ProgramSwitch = frames[1].ie /\ ProgramStopped = FALSE
    BY DEF ProgramPC, ProgramSP, ProgramSwitch, ProgramStopped
  <2>8. Unseen
    BY <1>1, <1>2, <2>5, <2>6, <2>7 DEF Unseen
  <2>9. QED BY <2>8, UnseenStutters
<1>7. QED BY <1>5, <1>6

\* The program by itself: what its registers are.
LEMMA ProgramRegisters ==
  ASSUME TypeOK, ~Interrupted
  PROVE  /\ ProgramPC = PC /\ ProgramSP = SP
         /\ ProgramSwitch = IFF1 /\ ProgramStopped = halted
BY DEF ProgramPC, ProgramSP, ProgramSwitch, ProgramStopped, TypeOK

LEMMA NotPrefixed ==
  ASSUME TypeOK, Dispatch(mem, PC) \notin EdHandlers
  PROVE  ~Prefixed(mem, PC)
<1>1. Plus(PC, 1) \in Word /\ mem[Plus(PC, 1)] \in Byte
  BY Stepped DEF TypeOK
<1>2. EdTable[mem[Plus(PC, 1)]] \in EdHandlers
  BY <1>1, TableAssumption
<1>3. QED BY <1>2 DEF Dispatch

\* An instruction of the program, as the program sees it.
LEMMA ProgramRefines ==
  ASSUME TypeOK, TypeOK', FramesOnStack, SwitchKept, StackFits, StackFits',
         CodeFits, StackAligned, [HNext]_hvars, HInstruction, TidyStep,
         ~Interrupted
  PROVE  P!Next
<1>1. /\ Instruction /\ ~LdSpImm /\ ~(HInstruction /\ LdSpImm)
  BY DEF TidyStep, HInstruction
<1>2. PICK handler : Execute(handler) /\ Dispatch(mem, PC) = handler
  BY <1>1 DEF Instruction, Execute, Nop, Halt, Di, Ei, RetnReti, LdIA,
               LdHlImm, LdSpImm, Im, JpNn, JpCcNn, JpHl, JrE, JrCcE, DjnzE,
               CallNn, CallCcNn, Rst, Ret, RetCc
<1>3. ~Interrupted' /\ ~halted
  <2>1. frames' = frames
    BY <1>1, InstructionFrames
  <2>2. QED BY <1>2, <2>1 DEF Interrupted, Execute
<1>4. /\ ProgramPC = PC /\ ProgramSP = SP /\ ~ProgramStopped
      /\ ProgramSwitch = IFF1 /\ ProgramStopped = halted
  BY <1>3, ProgramRegisters
<1>5. /\ ProgramPC' = PC' /\ ProgramSP' = SP'
      /\ ProgramSwitch' = IFF1' /\ ProgramStopped' = halted'
  BY <1>3 DEF ProgramPC, ProgramSP, ProgramSwitch, ProgramStopped, TypeOK
<1>6. /\ CodeOf(mem') = CodeOf(mem)
  BY <1>1, MemoryKept
<1>7. /\ P!Handler = Dispatch(mem, PC) /\ P!Operands = Operands
      /\ P!Relative = JrTarget /\ CodeOf(mem)[PC] = mem[PC]
      /\ P!After(0) = Operands
      /\ P!After(1) = Plus(Operands, 1) /\ P!After(2) = Plus(Operands, 2)
      /\ ~Prefixed(mem, PC) => P!Imm16 = Imm16
  BY ProgramCode, OperandsType, PlusZero
<1>8. /\ SP \in Word /\ SP \in Nat /\ SP >= 2 /\ Aligned(SP)
      /\ mem \in [Word -> Byte]
  BY StackRoom DEF TypeOK, StackAligned
<1>9. /\ Operands \in Word /\ Plus(Operands, 2) \in Word
  BY OperandsType
\* Instructions that only move control.
<1>10. ASSUME NEW target, Goto(target), target \in P!Targets PROVE P!Next
  <2>1. /\ PC' = target /\ SP' = SP /\ mem' = mem /\ B' = B /\ HL' = HL
        /\ IFF1' = IFF1 /\ halted' = halted
    BY <1>10 DEF Goto, iffs
  <2>2. P!Move
    BY <1>4, <1>5, <1>6, <1>10, <2>1 DEF P!Move
  <2>3. QED BY <2>2 DEF P!Next
<1>11. CASE Nop
  <2>1. Goto(Operands) /\ Operands \in P!Targets
    BY <1>7, <1>11 DEF Nop, Execute, P!Targets
  <2>2. QED BY <1>10, <2>1
<1>12. CASE JpNn
  <2>1. Goto(Imm16) /\ P!Handler = "jp_nn"
    BY <1>7, <1>12 DEF JpNn, Execute
  <2>2. Imm16 \in P!Targets
    BY <1>7, <2>1, NotPrefixed DEF EdHandlers, P!Targets
  <2>3. QED BY <1>10, <2>1, <2>2
<1>13. CASE JpCcNn
  <2>1. P!Handler = "jp_cc_nn" /\ (Goto(Imm16) \/ Goto(Plus(Operands, 2)))
    BY <1>7, <1>13 DEF JpCcNn, Execute
  <2>2. Imm16 \in P!Targets /\ Plus(Operands, 2) \in P!Targets
    BY <1>7, <2>1, NotPrefixed DEF EdHandlers, P!Targets
  <2>3. QED BY <1>10, <2>1, <2>2
<1>14. CASE JpHl
  <2>1. Goto(HL) /\ P!Handler = "jp_hl"
    BY <1>7, <1>14 DEF JpHl, Execute
  <2>2. HL \in P!Targets
    BY <2>1 DEF P!Targets
  <2>3. QED BY <1>10, <2>1, <2>2
<1>15. CASE JrE
  <2>1. Goto(JrTarget) /\ P!Handler = "jr_e"
    BY <1>7, <1>15 DEF JrE, Execute
  <2>2. JrTarget \in P!Targets
    BY <1>7, <2>1 DEF P!Targets
  <2>3. QED BY <1>10, <2>1, <2>2
<1>16. CASE JrCcE
  <2>1. P!Handler = "jr_cc_e" /\ (Goto(JrTarget) \/ Goto(Plus(Operands, 1)))
    BY <1>7, <1>16 DEF JrCcE, Execute
  <2>2. JrTarget \in P!Targets /\ Plus(Operands, 1) \in P!Targets
    BY <1>7, <2>1 DEF P!Targets
  <2>3. QED BY <1>10, <2>1, <2>2
<1>17. CASE Im(0, "im_0") \/ Im(1, "im_1") \/ Im(2, "im_2") \/ LdIA
  <2>1. /\ PC' = Operands /\ SP' = SP /\ mem' = mem /\ B' = B /\ HL' = HL
        /\ IFF1' = IFF1 /\ halted' = halted
        /\ P!Handler \in {"im_0", "im_1", "im_2", "ld_i_a"}
    BY <1>7, <1>17 DEF Im, LdIA, Execute, iffs
  <2>2. Operands \in P!Targets
    BY <1>7, <2>1 DEF P!Targets
  <2>3. P!Move
    BY <1>4, <1>5, <1>6, <2>1, <2>2 DEF P!Move
  <2>4. QED BY <2>3 DEF P!Next
\* A loop, a load, the switch and HALT.
<1>18. CASE DjnzE
  <2>1. /\ P!Handler = "djnz_e" /\ B' = (B - 1) % W
        /\ PC' = (IF B' # 0 THEN JrTarget ELSE Plus(Operands, 1))
        /\ SP' = SP /\ mem' = mem /\ HL' = HL
        /\ IFF1' = IFF1 /\ halted' = halted
    BY <1>7, <1>18 DEF DjnzE, Execute, iffs
  <2>2. P!Loop
    BY <1>4, <1>5, <1>6, <1>7, <2>1 DEF P!Loop
  <2>3. QED BY <2>2 DEF P!Next
<1>19. CASE LdHlImm
  <2>1. /\ P!Handler = "ld_hl_imm" /\ HL' = Imm16
        /\ PC' = Plus(Operands, 2)
        /\ SP' = SP /\ mem' = mem /\ B' = B
        /\ IFF1' = IFF1 /\ halted' = halted
    BY <1>7, <1>19 DEF LdHlImm, Execute, iffs
  <2>2. P!Imm16 = Imm16
    BY <1>7, <2>1, NotPrefixed DEF EdHandlers
  <2>3. P!Load
    BY <1>4, <1>5, <1>6, <1>7, <2>1, <2>2 DEF P!Load
  <2>4. QED BY <2>3 DEF P!Next
<1>20. CASE Di \/ Ei
  <2>1. /\ P!Handler \in {"ei", "di"} /\ IFF1' = (P!Handler = "ei")
        /\ PC' = Operands
        /\ SP' = SP /\ mem' = mem /\ B' = B /\ HL' = HL /\ halted' = halted
    <3>1. CASE Di
      BY <1>7, <3>1 DEF Di, Execute
    <3>2. CASE Ei
      BY <1>7, <3>2 DEF Ei, Execute
    <3>3. QED BY <1>20, <3>1, <3>2
  <2>2. P!Switch
    BY <1>4, <1>5, <1>6, <1>7, <2>1 DEF P!Switch
  <2>3. QED BY <2>2 DEF P!Next
<1>21. CASE Halt
  <2>1. /\ P!Handler = "halt" /\ halted' = TRUE
        /\ SP' = SP /\ mem' = mem /\ B' = B /\ HL' = HL /\ IFF1' = IFF1
    BY <1>7, <1>21 DEF Halt, Execute, iffs
  <2>2. PC' = PC
    BY <1>21, HaltOpcode
  <2>3. P!Stop
    BY <1>4, <1>5, <1>6, <2>1, <2>2 DEF P!Stop
  <2>4. QED BY <2>3 DEF P!Next
\* Calls and returns.
<1>22. ASSUME NEW target, NEW return \in Word, CallTo(target, return)
       PROVE  /\ PC' = target /\ B' = B /\ HL' = HL /\ IFF1' = IFF1
              /\ halted' = halted
              /\ WordsFrom(mem', SP') = Append(WordsFrom(mem, SP), return)
  BY <1>8, <1>22, WordsPush DEF CallTo, iffs
<1>23. CASE CallNn \/ (CallCcNn /\ CallTo(Imm16, Plus(Operands, 2)))
  <2>1. /\ P!Handler \in {"call_nn", "call_cc_nn"}
        /\ CallTo(Imm16, Plus(Operands, 2))
    BY <1>7, <1>23 DEF CallNn, CallCcNn, Execute
  <2>2. P!Imm16 = Imm16
    BY <1>7, <2>1, NotPrefixed DEF EdHandlers
  <2>3. /\ PC' = Imm16 /\ B' = B /\ HL' = HL /\ IFF1' = IFF1
        /\ halted' = halted
        /\ WordsFrom(mem', SP')
             = Append(WordsFrom(mem, SP), Plus(Operands, 2))
    BY <1>9, <1>22, <2>1
  <2>4. P!Call
    BY <1>4, <1>5, <1>6, <1>7, <2>1, <2>2, <2>3 DEF P!Call
  <2>5. QED BY <2>4 DEF P!Next
<1>24. CASE CallCcNn /\ Goto(Plus(Operands, 2))
  <2>1. P!Handler = "call_cc_nn"
    BY <1>7, <1>24 DEF CallCcNn, Execute
  <2>2. Plus(Operands, 2) \in P!Targets
    BY <1>7, <2>1 DEF P!Targets
  <2>3. QED BY <1>10, <1>24, <2>2
<1>25. CASE Rst
  <2>1. /\ P!Handler = "rst"
        /\ CallTo(RstVector(mem[PC]), Operands)
    BY <1>7, <1>25 DEF Rst, Execute
  <2>2. /\ PC' = RstVector(mem[PC]) /\ B' = B /\ HL' = HL /\ IFF1' = IFF1
        /\ halted' = halted
        /\ WordsFrom(mem', SP') = Append(WordsFrom(mem, SP), Operands)
    BY <1>9, <1>22, <2>1
  <2>3. P!RstVector(CodeOf(mem)[PC]) = RstVector(mem[PC])
    BY <1>7, SameOperators
  <2>4. P!Call
    BY <1>4, <1>5, <1>6, <1>7, <2>1, <2>2, <2>3 DEF P!Call
  <2>5. QED BY <2>4 DEF P!Next
<1>26. CASE Ret \/ RetnReti \/ (RetCc /\ PopPC)
  <2>1. /\ P!Handler \in {"ret", "ret_cc", "retn", "reti"} /\ PopPC
    BY <1>7, <1>26 DEF Ret, RetCc, RetnReti, Execute
  <2>2. IFF1' = IFF1
    <3>1. ~Serving("nmi")
      BY DEF Serving
    <3>2. IFF1 = IFF2
      BY <3>1 DEF SwitchKept
    <3>3. CASE RetnReti
      BY <3>2, <3>3 DEF RetnReti
    <3>4. CASE Ret
      BY <3>4 DEF Ret, iffs
    <3>5. CASE RetCc
      BY <3>5 DEF RetCc, Goto, iffs
    <3>6. QED BY <1>26, <3>3, <3>4, <3>5
  <2>3. /\ PC' = WordAt(mem, SP) /\ SP' = Plus(SP, 2) /\ mem' = mem
        /\ B' = B /\ HL' = HL /\ halted' = halted
    BY <2>1 DEF PopPC
  <2>4. SP < Bottom
    BY <1>1, <2>1, AlignedNext
  <2>5. /\ WordsFrom(mem, SP) # <<>>
        /\ PC' = WordsFrom(mem, SP)[Len(WordsFrom(mem, SP))]
        /\ WordsFrom(mem', SP')
             = SubSeq(WordsFrom(mem, SP), 1, Len(WordsFrom(mem, SP)) - 1)
    BY <1>8, <2>3, <2>4, WordsPop
  <2>6. P!Return
    BY <1>4, <1>5, <1>6, <2>1, <2>2, <2>3, <2>5 DEF P!Return
  <2>7. QED BY <2>6 DEF P!Next
<1>27. CASE RetCc /\ Goto(Operands)
  <2>1. P!Handler = "ret_cc"
    BY <1>7, <1>27 DEF RetCc, Execute
  <2>2. Operands \in P!Targets
    BY <1>7, <2>1 DEF P!Targets
  <2>3. QED BY <1>10, <1>27, <2>2
<1>28. CASE CallCcNn
  BY <1>23, <1>24, <1>28 DEF CallCcNn
<1>29. CASE RetCc
  BY <1>26, <1>27, <1>29 DEF RetCc
<1>30. QED
  BY <1>1, <1>11, <1>12, <1>13, <1>14, <1>15, <1>16, <1>17, <1>18, <1>19, <1>20,
     <1>21, <1>23, <1>25, <1>26, <1>28, <1>29 DEF Instruction

\* Nothing has been pushed after reset().
LEMMA EmptyStack ==
  ASSUME NEW m \in [Word -> Byte]
  PROVE  WordsFrom(m, Bottom) = <<>>
<1>1. Bottom \in Int /\ Bottom \in Word
  BY WordsNumber DEF Bottom, Word
<1>2. (Bottom - Bottom) % 2 = 0 /\ (Bottom - Bottom) \div 2 = 0
  BY <1>1
<1>3. Aligned(Bottom) /\ Depth(Bottom) = 0
  BY <1>2 DEF Aligned, Depth
<1>4. WordsFrom(m, Bottom) \in Seq(Word) /\ Len(WordsFrom(m, Bottom)) = 0
  BY <1>1, <1>3, WordsType
<1>5. QED BY <1>4, EmptySeq

LEMMA TransparentInit == HInit => P!Init
<1> SUFFICES ASSUME HInit PROVE P!Init
  OBVIOUS
<1>1. /\ mem \in Images /\ mem \in [Word -> Byte] /\ ~Interrupted
      /\ SP = Bottom /\ IFF1 = FALSE /\ halted = FALSE
  BY ImageAssumption DEF HInit, Init, Interrupted, Bottom
<1>2. /\ ProgramPC = PC /\ ProgramSP = Bottom
      /\ ProgramSwitch = FALSE /\ ProgramStopped = FALSE
  BY <1>1 DEF ProgramPC, ProgramSP, ProgramSwitch, ProgramStopped
<1>3. WordsFrom(mem, ProgramSP) = <<>>
  BY <1>1, <1>2, EmptyStack
<1>4. CodeOf(mem) \in {CodeOf(m) : m \in Images}
  BY <1>1
<1>5. QED BY <1>2, <1>3, <1>4 DEF HInit, Init, P!Init

\* reset() restarts the program.
LEMMA ResetRefines ==
  ASSUME TypeOK, HReset
  PROVE  P!Restart
<1>1. /\ mem' = mem /\ mem \in [Word -> Byte] /\ ~Interrupted'
      /\ SP' = Bottom /\ IFF1' = FALSE /\ halted' = FALSE /\ PC' = 0
      /\ B' = W - 1 /\ HL' = W * W - 1
  BY DEF HReset, Reset, Interrupted, Bottom, TypeOK
<1>2. /\ ProgramPC' = 0 /\ ProgramSP' = Bottom
      /\ ProgramSwitch' = FALSE /\ ProgramStopped' = FALSE
  BY <1>1 DEF ProgramPC, ProgramSP, ProgramSwitch, ProgramStopped
<1>3. WordsFrom(mem', ProgramSP') = <<>> /\ CodeOf(mem') = CodeOf(mem)
  BY <1>1, <1>2, EmptyStack
<1>4. QED BY <1>1, <1>2, <1>3 DEF P!Restart

\* Every step is one of the program's, or none.
LEMMA TransparentNext ==
  ASSUME ~NestNmi, ~AckRaises,
         TypeOK, TypeOK', HaltPointsAtHalt, FramesOnStack,
         SwitchKept, SwitchKept', StackFits, StackFits', CodeFits,
         StackAligned, [HNext]_hvars, TidyStep
  PROVE  [P!Next]_(P!vars)
<1>1. CASE HAcceptNmi \/ HBeginInt
  BY <1>1, AcceptRefines DEF P!Next
<1>2. CASE HFinishInt
  <2>1. /\ Interrupted /\ frames' = frames /\ B' = B /\ HL' = HL
        /\ ~(HInstruction /\ LdSpImm)
    BY <1>2 DEF HFinishInt, FinishInt, history, FramesOnStack, HInstruction,
                LdSpImm, Execute
  <2>2. /\ CodeOf(mem') = CodeOf(mem)
        /\ \A a \in Word : a >= SP => mem'[a] = mem[a]
    BY <2>1, MemoryKept
  <2>3. Interrupted'
    BY <2>1 DEF Interrupted
  <2>4. QED BY <2>1, <2>2, <2>3, ServingUnseen, UnseenStutters
<1>3. CASE HInstruction
  BY <1>3, HandlerRefines, ProgramRefines
<1>4. CASE HTriggerInterrupt \/ HTriggerNmi \/ UNCHANGED hvars
  <2>1. /\ PC' = PC /\ SP' = SP /\ mem' = mem /\ B' = B /\ HL' = HL
        /\ IFF1' = IFF1 /\ halted' = halted /\ frames' = frames
    BY <1>4 DEF HTriggerInterrupt, HTriggerNmi, TriggerInterrupt, TriggerNmi,
                hvars, vars, history, flow, iffs
  <2>2. Interrupted' = Interrupted
    BY <2>1 DEF Interrupted
  <2>3. /\ ProgramPC' = ProgramPC /\ ProgramSP' = ProgramSP
        /\ ProgramSwitch' = ProgramSwitch /\ ProgramStopped' = ProgramStopped
    BY <2>1, <2>2 DEF ProgramPC, ProgramSP, ProgramSwitch, ProgramStopped
  <2>4. Unseen
    BY <2>1, <2>3 DEF Unseen
  <2>5. QED BY <2>4, UnseenStutters
<1>5. CASE HReset
  BY <1>5, ResetRefines DEF P!Next
<1>6. QED BY <1>1, <1>2, <1>3, <1>4, <1>5 DEF HNext, HUnwindInt

\* Where the program and its handlers are tidy, IFF1 and IFF2 remember the
\* switch of whatever is interrupted,
THEOREM SwitchIsKept ==
  ASSUME ~NestNmi, ~AckRaises
  PROVE  HSpec /\ []StackFits /\ Tidy => []SwitchKept
<1>1. TypeOK /\ TypeOK' /\ StackFits /\ FramesOnStack /\ SwitchKept
        /\ [HNext]_hvars /\ [TidyStep]_hvars => SwitchKept'
  <2> SUFFICES ASSUME TypeOK, TypeOK', StackFits, FramesOnStack, SwitchKept,
                      [HNext]_hvars, [TidyStep]_hvars
               PROVE  SwitchKept'
    OBVIOUS
  <2>1. CASE TidyStep
    BY <2>1, SwitchNext
  <2>2. CASE UNCHANGED hvars
    BY <2>2 DEF hvars, history, vars, lines, iffs, SwitchKept, Serving,
                Interrupted
  <2>3. QED BY <2>1, <2>2
<1>2. [TidyStep]_hvars => [HInstruction /\ Interrupted => ~LdSpImm]_hvars
  BY DEF TidyStep
<1>3. QED BY <1>1, <1>2, SwitchInit, BehavesAsCore, TypeCorrect,
             ReturnAddressesStay, PTL DEF HSpec, KeepsStack, Tidy

\* and interrupts are transparent: what remains of the behaviour of the
\* processor when interrupts are left out is a behaviour of the program.
THEOREM InterruptsAreTransparent ==
  ASSUME ~NestNmi, ~AckRaises
  PROVE  HSpec /\ []StackFits /\ []CodeFits /\ Tidy => Transparent
<1>1. TypeOK /\ TypeOK' /\ FramesOnStack /\ StackFits /\ StackFits'
        /\ StackAligned /\ [HNext]_hvars /\ [TidyStep]_hvars => StackAligned'
  <2> SUFFICES ASSUME TypeOK, TypeOK', FramesOnStack, StackFits, StackFits',
                      StackAligned, [HNext]_hvars, [TidyStep]_hvars
               PROVE  StackAligned'
    OBVIOUS
  <2>1. CASE TidyStep
    BY <2>1, AlignedNext DEF TidyStep
  <2>2. CASE UNCHANGED hvars
    BY <2>2 DEF hvars, history, vars, flow, StackAligned
  <2>3. QED BY <2>1, <2>2
<1>2. TypeOK /\ TypeOK' /\ HaltPointsAtHalt /\ FramesOnStack
        /\ SwitchKept /\ SwitchKept' /\ StackFits /\ StackFits' /\ CodeFits
        /\ StackAligned /\ [HNext]_hvars /\ [TidyStep]_hvars
        => [P!Next]_(P!vars)
  <2> SUFFICES ASSUME TypeOK, TypeOK', HaltPointsAtHalt, FramesOnStack,
                      SwitchKept, SwitchKept', StackFits, StackFits', CodeFits,
                      StackAligned, [HNext]_hvars, [TidyStep]_hvars
               PROVE  [P!Next]_(P!vars)
    OBVIOUS
  <2>1. CASE TidyStep
    BY <2>1, TransparentNext
  <2>2. CASE UNCHANGED hvars
    <3>1. /\ PC' = PC /\ SP' = SP /\ mem' = mem /\ B' = B /\ HL' = HL
          /\ IFF1' = IFF1 /\ halted' = halted /\ frames' = frames
      BY <2>2 DEF hvars, vars, history, flow, iffs
    <3>2. Interrupted' = Interrupted
      BY <3>1 DEF Interrupted
    <3>3. Unseen
      BY <3>1, <3>2 DEF Unseen, ProgramPC, ProgramSP, ProgramSwitch, ProgramStopped
    <3>4. QED BY <3>3, UnseenStutters
  <2>3. QED BY <2>1, <2>2
<1>3. [TidyStep]_hvars => [HInstruction /\ Interrupted => ~LdSpImm]_hvars
  BY DEF TidyStep
<1>4. QED BY <1>1, <1>2, <1>3, AlignedInit, TransparentInit, BehavesAsCore,
             TypeCorrect, HaltedAtHalt, ReturnAddressesStay, SwitchIsKept, PTL
          DEF HSpec, KeepsStack, Tidy, Transparent, P!Spec
-----------------------------------------------------------------------------
(* How deep interrupts nest.                                               *)

\* One more INT may be taken on top of the innermost handler before it returns,
\* unless it has just executed EI.
Window == IF Interrupted /\ (IFF1 \/ IFF2) /\ ~(EI_JUST_RESOLVED /\ IFF1)
          THEN 1 ELSE 0

\* An NMI that is pending brings a frame, and perhaps a window.
Credit == IF nmi_pending THEN 2 ELSE 0

NestingInv ==
  /\ frames \in Seq(Frame)
  /\ acknowledging => Interrupted
  /\ Len(frames) + Window + Credit <= 1 + 2 * nmis

\* The types that the sums over the stack need.
LEMMA NestingType ==
  ASSUME TypeOK, NestingInv
  PROVE  /\ frames \in Seq(Frame) /\ Len(frames) \in Nat
         /\ Interrupted <=> Len(frames) > 0
         /\ nmis \in Nat /\ Window \in {0, 1} /\ Credit \in {0, 2}
         /\ Len(frames) + Window + Credit <= 1 + 2 * nmis
         /\ acknowledging => Interrupted
<1>1. nmis \in Nat
  BY HostAssumption DEF TypeOK
<1>2. Window \in {0, 1} /\ Credit \in {0, 2}
  BY DEF Window, Credit
<1>3. frames \in Seq(Frame) /\ (acknowledging => Interrupted)
  BY DEF NestingInv
<1>4. Len(frames) + Window + Credit <= 1 + 2 * nmis
  BY DEF NestingInv
<1>5. QED BY <1>1, <1>2, <1>3, <1>4, FramesType

\* The sums that follow.
LEMMA NestingSums ==
  ASSUME NEW n \in Nat, NEW w \in {0, 1}, NEW c \in {0, 2}, NEW m \in Nat,
         n + w + c <= 1 + 2 * m, NEW k \in Nat, NEW v \in {0, 1}
  PROVE  /\ k + v <= n + w => k + v + c <= 1 + 2 * m
         /\ c = 2 => n + 1 + v + 0 <= 1 + 2 * m
         /\ n + w + 2 <= 1 + 2 * (m + 1)
OBVIOUS

\* A frame less, and a window no wider.
LEMMA OneLess ==
  ASSUME NEW n \in Nat, n > 0, NEW w \in {0, 1}, NEW v \in {0, 1}, v <= w
  PROVE  n - 1 \in Nat /\ (n - 1) + v <= n + w
OBVIOUS

\* No handler runs to begin with.
LEMMA NestingInit == HInit => NestingInv
<1> SUFFICES ASSUME HInit PROVE NestingInv
  OBVIOUS
<1>1. frames = <<>> /\ frames \in Seq(Frame) /\ Len(frames) = 0 /\ ~Interrupted
  BY EmptySeq DEF HInit, Interrupted
<1>2. Window = 0 /\ Credit = 0 /\ nmis = 0 /\ ~acknowledging
  BY <1>1 DEF HInit, Init, Window, Credit
<1>3. QED BY <1>1, <1>2 DEF NestingInv

\* An instruction opens a window only if the handler goes on after EI.
LEMMA InstructionNesting ==
  ASSUME TypeOK, NestingInv, HInstruction,
         Interrupted /\ EI_JUST_RESOLVED /\ IFF1 => Returning \/ Ei
  PROVE  NestingInv'
<1>1. /\ frames \in Seq(Frame) /\ Len(frames) \in Nat
      /\ Interrupted <=> Len(frames) > 0
      /\ \A i \in 1 .. Len(frames) : frames[i] \in Frame
  BY FramesType DEF NestingInv
<1>2. PICK n \in 0 .. Len(frames) : frames' = SubSeq(frames, 1, n)
  BY DEF HInstruction, Leave
<1>3. frames' \in Seq(Frame) /\ Len(frames') = n /\ (Interrupted' <=> n > 0)
  <2>1. \A i \in 1 .. n : frames[i] \in Frame
    BY <1>1
  <2>2. /\ frames' \in Seq(Frame)
        /\ Len(frames') = IF 1 <= n THEN n - 1 + 1 ELSE 0
    BY <1>2, <2>1, SubSeqProperties
  <2>3. n \in Nat
    BY <1>1
  <2>4. Len(frames') = n
    BY <2>2, <2>3
  <2>5. QED BY <2>2, <2>3, <2>4, EmptySeq DEF Interrupted
<1>4. PICK handler : Execute(handler) /\ (Ei <=> handler = "ei")
  BY DEF HInstruction, Instruction, Nop, Halt, Di, Ei, RetnReti, LdIA,
         LdHlImm, LdSpImm, Im, JpNn, JpCcNn, JpHl, JrE, JrCcE, DjnzE,
         CallNn, CallCcNn, Rst, Ret, RetCc, Execute
<1>5. /\ ~acknowledging /\ ~acknowledging' /\ nmis' = nmis
      /\ Credit' = Credit /\ EI_JUST_RESOLVED' = (handler = "ei")
  BY <1>4 DEF Execute, lines, Credit
<1>6. n + Window' <= Len(frames) + Window
  <2>1. n \in Nat /\ n <= Len(frames) /\ (n = Len(frames) \/ n + 1 <= Len(frames))
    BY <1>1
  <2>2. CASE Window' = 0
    BY <1>1, <2>1, <2>2 DEF Window
  <2>3. CASE Window' = 1
    <3>1. n > 0 /\ (IFF1' \/ IFF2') /\ ~Ei
      <4>1. /\ Interrupted' /\ (IFF1' \/ IFF2')
            /\ ~(EI_JUST_RESOLVED' /\ IFF1')
        BY <2>3 DEF Window
      <4>2. Ei => EI_JUST_RESOLVED' /\ IFF1'
        BY DEF Ei, Execute
      <4>3. QED BY <1>3, <4>1, <4>2
    <3>2. IFF1 \/ IFF2
      BY <3>1, InstructionSwitch DEF HInstruction
    <3>3. Interrupted
      BY <1>1, <2>1, <3>1
    <3>4. CASE EI_JUST_RESOLVED /\ IFF1
      <4>1. n < Len(frames)
        BY <1>3, <3>1, <3>3, <3>4 DEF Returning
      <4>2. QED BY <1>1, <2>1, <2>3, <4>1 DEF Window
    <3>5. CASE ~(EI_JUST_RESOLVED /\ IFF1)
      <4>1. Window = 1
        BY <3>2, <3>3, <3>5 DEF Window
      <4>2. QED BY <1>1, <2>1, <2>3, <4>1
    <3>6. QED BY <3>4, <3>5
  <2>4. QED BY <2>2, <2>3 DEF Window
<1>7. n + Window' + Credit <= 1 + 2 * nmis
  <2>1. n \in Nat /\ Window' \in {0, 1}
    BY <1>1 DEF Window
  <2>2. QED BY <1>6, <2>1, NestingType, NestingSums
<1>8. QED BY <1>3, <1>5, <1>7 DEF NestingInv

\* Every step keeps the sum, if handlers return right after EI.
LEMMA NestingNext ==
  ASSUME TypeOK, NestingInv, [HNext]_hvars,
         HInstruction /\ Interrupted /\ EI_JUST_RESOLVED /\ IFF1
           => Returning \/ Ei
  PROVE  NestingInv'
<1> DEFINE n == Len(frames)
<1>1. /\ frames \in Seq(Frame) /\ n \in Nat
      /\ Interrupted <=> n > 0
      /\ nmis \in Nat /\ Window \in {0, 1} /\ Credit \in {0, 2}
      /\ n + Window + Credit <= 1 + 2 * nmis
      /\ acknowledging => Interrupted
  BY NestingType
<1>2. CASE HInstruction
  BY <1>2, InstructionNesting
<1>3. CASE HAcceptNmi \/ HBeginInt
  <2>1. PICK kind \in {"nmi", "int"} : Enter(kind)
    BY <1>3 DEF HAcceptNmi, HBeginInt
  <2>2. frames' \in Seq(Frame) /\ Len(frames') = n + 1
    BY <1>1, <2>1, EnterType
  <2>3. Interrupted'
    BY <1>1, <2>2, EmptySeq DEF Interrupted
  <2>4. nmis' = nmis /\ Credit' = 0 /\ Window' \in {0, 1}
    BY <1>3 DEF HAcceptNmi, AcceptNmi, HBeginInt, BeginInt, Credit, Window
  <2>5. n + 1 + Window' + 0 <= 1 + 2 * nmis
    <3>1. CASE HAcceptNmi
      <4>1. Credit = 2
        BY <3>1 DEF HAcceptNmi, AcceptNmi, Credit
      <4>2. QED BY <1>1, <2>4, <4>1, NestingSums
    <3>2. CASE HBeginInt
      <4>1. Window' = 0 /\ (Interrupted => Window = 1)
        BY <3>2 DEF HBeginInt, BeginInt, IntAccepted, Window
      <4> HIDE DEF n
      <4>2. CASE Interrupted
        <5>1. Window = 1
          BY <4>1, <4>2
        <5>2. QED BY <1>1, <4>1, <5>1
      <4>3. CASE ~Interrupted
        <5>1. n = 0
          BY <1>1, <4>3
        <5>2. QED BY <1>1, <4>1, <5>1
      <4>4. QED BY <4>2, <4>3
    <3>3. QED BY <1>3, <3>1, <3>2
  <2>6. ~acknowledging' \/ Interrupted'
    BY <2>3
  <2>7. QED BY <2>2, <2>4, <2>5, <2>6 DEF NestingInv
<1>4. CASE HUnwindInt
  <2>1. Interrupted /\ ~acknowledging' /\ nmis' = nmis /\ Credit' = Credit
    BY <1>1, <1>4 DEF HUnwindInt, UnwindInt, Credit
  <2>2. frames' \in Seq(Frame) /\ Len(frames') = n - 1
    BY <1>1, <1>4, <2>1, FrontType DEF HUnwindInt
  <2>3. Window' <= Window
    BY <1>4, <2>1 DEF HUnwindInt, UnwindInt, Window, iffs
  <2>4. Window' \in {0, 1}
    BY DEF Window
  <2>5. n > 0
    BY <1>1, <2>1
  <2>6. n - 1 \in Nat /\ (n - 1) + Window' <= n + Window
    <3>1. n \in Nat /\ Window \in {0, 1}
      BY <1>1
    <3> HIDE DEF n
    <3>2. QED BY <3>1, <2>3, <2>4, <2>5, OneLess
  <2>7. (n - 1) + Window' + Credit <= 1 + 2 * nmis
    BY <1>1, <2>4, <2>6, NestingSums
  <2>8. QED BY <2>1, <2>2, <2>7 DEF NestingInv
<1>5. CASE HTriggerNmi
  <2>1. /\ frames' = frames /\ acknowledging' = acknowledging
        /\ IFF1' = IFF1 /\ IFF2' = IFF2 /\ EI_JUST_RESOLVED' = EI_JUST_RESOLVED
        /\ nmis' = nmis + 1 /\ Credit' = 2
    BY <1>5 DEF HTriggerNmi, TriggerNmi, history, iffs, Credit, lines
  <2>2. Window' = Window /\ (Interrupted' <=> Interrupted)
    BY <2>1 DEF Window, Interrupted
  <2>3. n + Window + 2 <= 1 + 2 * (nmis + 1)
    BY <1>1, NestingSums
  <2>4. QED BY <1>1, <2>1, <2>2, <2>3 DEF NestingInv
<1>6. CASE HFinishInt \/ HTriggerInterrupt \/ UNCHANGED hvars
  <2>1. /\ frames' = frames /\ (acknowledging' => acknowledging)
        /\ IFF1' = IFF1 /\ IFF2' = IFF2 /\ EI_JUST_RESOLVED' = EI_JUST_RESOLVED
        /\ nmis' = nmis /\ nmi_pending' = nmi_pending
    BY <1>6 DEF HFinishInt, FinishInt, HTriggerInterrupt, TriggerInterrupt,
                hvars, vars, history, iffs, lines
  <2>2. Window' = Window /\ Credit' = Credit /\ (Interrupted' <=> Interrupted)
    BY <2>1 DEF Window, Credit, Interrupted
  <2>3. QED BY <1>1, <2>1, <2>2 DEF NestingInv
<1>7. CASE HReset
  <2>1. /\ frames' = <<>> /\ ~acknowledging' /\ nmis' = nmis /\ ~nmi_pending'
    BY <1>7 DEF HReset, Reset
  <2>2. frames' \in Seq(Frame) /\ Len(frames') = 0
    BY <2>1, EmptySeq
  <2>3. Window' = 0 /\ Credit' = 0
    BY <2>1 DEF Window, Credit, Interrupted
  <2>4. QED BY <1>1, <2>1, <2>2, <2>3 DEF NestingInv
<1>8. QED BY <1>2, <1>3, <1>4, <1>5, <1>6, <1>7 DEF HNext

\* If handlers return right after EI, each NMI lets one more INT in, and no
\* request of the host adds to the stack but by that.
THEOREM StackStaysBounded == HSpec /\ ReturnsAfterEi => []StackBounded
<1>1. TypeOK /\ NestingInv /\ [HNext]_hvars
        /\ [HInstruction /\ Interrupted /\ EI_JUST_RESOLVED /\ IFF1
              => Returning \/ Ei]_hvars => NestingInv'
  <2> SUFFICES ASSUME TypeOK, NestingInv, [HNext]_hvars,
                      [HInstruction /\ Interrupted /\ EI_JUST_RESOLVED /\ IFF1
                         => Returning \/ Ei]_hvars
               PROVE  NestingInv'
    OBVIOUS
  <2>1. CASE UNCHANGED hvars
    BY <2>1 DEF hvars, vars, history, iffs, lines, NestingInv, Window, Credit,
                Interrupted
  <2>2. CASE HInstruction /\ Interrupted /\ EI_JUST_RESOLVED /\ IFF1
               => Returning \/ Ei
    BY <2>2, NestingNext
  <2>3. QED BY <2>1, <2>2
<1>2. TypeOK /\ NestingInv => StackBounded
  <2> SUFFICES ASSUME TypeOK, NestingInv PROVE StackBounded
    OBVIOUS
  <2> DEFINE n == Len(frames)
  <2>1. /\ n \in Nat /\ nmis \in Nat /\ Window \in {0, 1} /\ Credit \in {0, 2}
        /\ n + Window + Credit <= 1 + 2 * nmis
    BY NestingType
  <2>2. n <= 1 + 2 * nmis
    <3> HIDE DEF n
    <3>1. QED BY <2>1
  <2>3. QED BY <2>2 DEF StackBounded
<1>3. QED BY <1>1, <1>2, NestingInit, BehavesAsCore, TypeCorrect, PTL
          DEF HSpec, ReturnsAfterEi
=============================================================================
