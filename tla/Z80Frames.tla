----------------------------- MODULE Z80Frames -----------------------------
(***************************************************************************)
(* Z80Core with two history variables: the interrupts that are being       *)
(* served, innermost last, and whether the program has asked for           *)
(* interrupts since the last time one was taken or DI was executed.  With  *)
(* them one can say that interrupts are transparent to the program they    *)
(* interrupt: Z80Core implements Z80Program.                               *)
(***************************************************************************)
EXTENDS Z80Core, SequencesExt

CONSTANTS
  StackFloor, \* the program's code is below, the stack never
  NestNmi,    \* whether the host raises NMI while it is being served
  AckRaises   \* whether interrupt_acknowledge() may raise

ASSUME FrameAssumption == /\ StackFloor \in Word /\ StackFloor >= 2
                          /\ NestNmi \in BOOLEAN /\ AckRaises \in BOOLEAN

VARIABLES
  frames, \* sequence of [kind, ret, sp, ie]: what was interrupted
  armed   \* EI was executed since the last DI and the last INT

history == <<frames, armed>>
hvars   == <<vars, history>>

Frame == [kind : {"nmi", "int"}, ret : Word, sp : Word, ie : BOOLEAN]

Interrupted == frames # <<>>

HInit == Init /\ frames = <<>> /\ armed = FALSE

Enter(kind) ==
  frames' = Append(frames, [kind |-> kind, ret |-> Resume, sp |-> SP, ie |-> IFF1])

\* An interrupt is over, with all that interrupted it, when the stack pointer
\* is back where it was.
Leave ==
  \E n \in 0 .. Len(frames) :
    /\ frames' = SubSeq(frames, 1, n)
    /\ \A i \in 1 .. n : SP' < frames[i].sp
    /\ n < Len(frames) => SP' >= frames[n + 1].sp

HAcceptNmi == AcceptNmi /\ Enter("nmi") /\ UNCHANGED armed
HBeginInt  == BeginInt /\ Enter("int") /\ armed' = FALSE
HFinishInt == (\E vec \in AckVectors : FinishInt(vec)) /\ UNCHANGED history

\* The interrupt that could not be acknowledged is over at once.
HUnwindInt == /\ UnwindInt /\ AckRaises
              /\ frames' = Front(frames)
              /\ UNCHANGED armed

HInstruction ==
  /\ Instruction
  /\ Leave
  /\ armed' = (Ei \/ (armed /\ ~Di))

NmiInService == nmi_pending \/ \E i \in DOMAIN frames : frames[i].kind = "nmi"

HTriggerInterrupt == TriggerInterrupt /\ UNCHANGED history
HTriggerNmi == TriggerNmi /\ (NestNmi \/ ~NmiInService) /\ UNCHANGED history
HReset      == Reset /\ frames' = <<>> /\ armed' = FALSE

HNext == \/ HAcceptNmi \/ HBeginInt \/ HFinishInt \/ HUnwindInt \/ HInstruction
         \/ HTriggerInterrupt \/ HTriggerNmi \/ HReset

HSpec == HInit /\ [][HNext]_hvars

-----------------------------------------------------------------------------
(* What programs and interrupt handlers keep to, for interrupts to be      *)
(* transparent.                                                            *)

\* The stack stays above the code and inside memory.
StackFits == SP >= StackFloor

\* The program runs in the code: a whole instruction fits at PC.
CodeFits == Interrupted \/ PC + 2 < StackFloor

\* Handlers do not move the stack away from the return addresses in it.
KeepsStack == [][HInstruction /\ Interrupted => ~LdSpImm]_hvars

Serving(kind) == Interrupted /\ Last(frames).kind = kind
Returning     == Len(frames') < Len(frames)

\* Nobody moves the stack.  Handlers leave B and HL alone.  An NMI handler does
\* not touch the interrupt switch and has RETN or RETI at its end and nowhere
\* else; an INT handler enables interrupts before it returns.
TidyStep ==
  HInstruction =>
    /\ ~LdSpImm
    /\ Interrupted => UNCHANGED <<B, HL>>
    /\ Serving("nmi") => ~Ei /\ ~Di /\ (Returning <=> RetnReti)
    /\ Serving("int") /\ Returning => IFF1'

Tidy == [][TidyStep]_hvars

\* Handlers return right after EI.
ReturnsAfterEi ==
  [][HInstruction /\ Interrupted /\ EI_JUST_RESOLVED /\ IFF1
       => Returning \/ Ei]_hvars

-----------------------------------------------------------------------------
(* Properties.                                                             *)

\* Interrupts are only ever enabled by an EI that no later DI or INT
\* acceptance has cancelled, however NMIs, RETN and RETI, which copy IFF1 to
\* IFF2 and back, are interleaved with them.  Between two INT acceptances,
\* therefore, the program executes EI.
EnabledByEi == IFF1 \/ IFF2 => armed

\* Each interrupt ends at the instruction, with the stack pointer, where the
\* program was interrupted: the pushes of step() and the pops of RET, RETI and
\* RETN fit, in every nesting, and a HALT is left behind.  So it is when the
\* acknowledge callback raises and nothing is served: the request is lost, but
\* the program's place is not.
ReturnsWhereInterrupted ==
  [][Returning /\ ~Reset
       => /\ frames' = Front(frames)
          /\ PC' = Last(frames).ret
          /\ SP' = Last(frames).sp]_hvars

\* The frames whose return address has been pushed: all, except the one of an
\* INT that is being acknowledged.
Stacked == IF acknowledging THEN Len(frames) - 1 ELSE Len(frames)

\* With memory m and stack pointer sp, the return address of f is on the stack,
\* right below where the stack pointer was.
Held(f, m, sp) ==
  /\ sp < f.sp /\ (f.sp - sp) % 2 = 0
  /\ WordAt(m, f.sp - 2) = f.ret

\* What is on the stack: each interrupt being served has its return address
\* below those of the interrupts it interrupted and above everything pushed
\* since, an even distance from the top; the one that is being acknowledged is
\* about to push PC.
FramesOnStack ==
  /\ frames \in Seq(Frame)
  /\ acknowledging => /\ Interrupted
                      /\ PC = Last(frames).ret /\ SP = Last(frames).sp
  /\ \A i \in 1 .. Stacked : Held(frames[i], mem, SP)
  /\ \A i, j \in DOMAIN frames : i < j => frames[j].sp < frames[i].sp

\* While an NMI is served IFF2 holds the switch of what it interrupted, and
\* otherwise IFF2 is a copy of IFF1: an INT is never taken inside an NMI
\* handler, an NMI interrupts the handler of an INT at most, and an INT finds
\* interrupts enabled.
SwitchKept ==
  /\ nmi_pending => \A i \in DOMAIN frames : frames[i].kind = "int"
  /\ \A i \in 1 .. (Len(frames) - 1) : frames[i].kind = "int"
  /\ \A i \in DOMAIN frames : frames[i].kind = "int" => frames[i].ie
  /\ Serving("nmi") => ~IFF1 /\ IFF2 = Last(frames).ie
  /\ ~Serving("nmi") => IFF1 = IFF2

\* Handlers that end in "EI; RET" do not pile up on the stack, however often
\* the host requests interrupts: the delay after EI lets the return happen
\* first.  An NMI that falls between EI and the return uses the delay up, so
\* each NMI may let one more INT in.
StackBounded == Len(frames) <= 1 + 2 * nmis

-----------------------------------------------------------------------------
(* The refinement mapping.                                                 *)

ProgramPC      == IF Interrupted THEN frames[1].ret ELSE PC
ProgramSP      == IF Interrupted THEN frames[1].sp ELSE SP
ProgramSwitch  == IF Interrupted THEN frames[1].ie ELSE IFF1
ProgramStopped == ~Interrupted /\ halted

\* reset() sets SP there.
Bottom == W * W - 1

\* The words pushed on a stack that reaches from Bottom down to sp.
WordsFrom(m, sp) ==
  [i \in 1 .. ((Bottom - sp) \div 2) |-> WordAt(m, Bottom - 2 * i)]

CodeOf(m) == [a \in 0 .. (StackFloor - 1) |-> m[a]]

P == INSTANCE Z80Program WITH
       Codes   <- {CodeOf(m) : m \in Images},
       code    <- CodeOf(mem),
       pc      <- ProgramPC,
       b       <- B,
       hl      <- HL,
       stack   <- WordsFrom(mem, ProgramSP),
       ie      <- ProgramSwitch,
       stopped <- ProgramStopped

\* Interrupts are transparent: apart from the time it takes, a program whose
\* handlers save what they use runs as if it were never interrupted, with its
\* interrupt switch as it left it.
Transparent == P!Spec
=============================================================================
