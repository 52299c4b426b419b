------------------------------ MODULE Z80Block ------------------------------
(***************************************************************************)
(* The block instructions: transfer (LDI, LDD, LDIR, LDDR), search (CPI,   *)
(* ...), input (INI, ...) and output (OUTI, ...).                          *)
(*                                                                         *)
(* A repeating instruction is not a loop inside one step(): each step()    *)
(* does one iteration and puts PC back to the opcode, which the next one   *)
(* fetches again.  So interrupts are accepted between iterations, and an   *)
(* instruction may overwrite itself.                                       *)
(*                                                                         *)
(* One instruction is followed from its first fetch.  The flags are        *)
(* reduced to Z and P/V; interrupts to the push of PC and the return.      *)
(***************************************************************************)
EXTENDS Z80Words, Sequences

CONSTANTS
  Setups,       \* states of the registers and memory the instruction meets
  PortData,     \* bytes an input port may deliver
  Handler,      \* address of the interrupt handler
  MaxInterrupts \* how many interrupts are taken

Transfers == {"ldi", "ldd", "ldir", "lddr"}
Searches  == {"cpi", "cpd", "cpir", "cpdr"}
Inputs    == {"ini", "ind", "inir", "indr"}
Outputs   == {"outi", "outd", "otir", "otdr"}
Ops       == Transfers \cup Searches \cup Inputs \cup Outputs

Repeating  == {"ldir", "lddr", "cpir", "cpdr", "inir", "indr", "otir", "otdr"}
Descending == {"ldd", "lddr", "cpd", "cpdr", "ind", "indr", "outd", "otdr"}

\* A setup: op is the instruction, and code its two bytes, which are at PC.
Setup == [op : Ops, code : Byte \X Byte, mem : [Word -> Byte], A : Byte,
          BC : Word, DE : Word, HL : Word, PC : Word, SP : Word]

ASSUME BlockAssumption ==
  /\ Setups \subseteq Setup
  /\ \A s \in Setups :
       s.mem[s.PC] = s.code[1] /\ s.mem[Plus(s.PC, 1)] = s.code[2]
  /\ PortData \subseteq Byte
  /\ Handler \in Word
  /\ MaxInterrupts \in Nat

VARIABLES
  start,   \* the setup
  mem, BC, DE, HL, PC, SP,
  zero, parity, \* the flags Z and P/V
  io,      \* the I/O cycles so far, each [port, val]
  serving, \* an interrupt handler is running
  taken    \* interrupts taken so far

pairs == <<BC, DE, HL>>
flags == <<zero, parity>>
vars  == <<start, mem, pairs, PC, SP, flags, io, serving, taken>>

TypeOK ==
  /\ start \in Setups
  /\ mem \in [Word -> Byte]
  /\ BC \in Word /\ DE \in Word /\ HL \in Word /\ PC \in Word /\ SP \in Word
  /\ zero \in BOOLEAN /\ parity \in BOOLEAN
  /\ io \in Seq([port : Word, val : Byte])
  /\ serving \in BOOLEAN
  /\ taken \in 0 .. MaxInterrupts

Init ==
  /\ start \in Setups
  /\ mem = start.mem
  /\ BC = start.BC /\ DE = start.DE /\ HL = start.HL
  /\ PC = start.PC /\ SP = start.SP
  /\ zero \in BOOLEAN /\ parity \in BOOLEAN
  /\ io = <<>>
  /\ serving = FALSE
  /\ taken = 0

-----------------------------------------------------------------------------
(* One iteration.                                                          *)

Dir == IF start.op \in Descending THEN -1 ELSE 1

\* Fault: the borrow of an empty B is lost.
DecBNoWrap == WordOf(Lo(BC), Hi(BC) - 1)

\* B is the high byte of BC and is decremented on its own.
DecB == WordOf(Lo(BC), (Hi(BC) - 1) % W)

\* Fault: DE moves up whatever the direction.
TransferUp ==
  /\ start.op \in Transfers
  /\ mem' = [mem EXCEPT ![DE] = mem[HL]]
  /\ HL' = Plus(HL, Dir) /\ DE' = Plus(DE, 1) /\ BC' = Plus(BC, -1)
  /\ parity' = (BC' # 0)
  /\ UNCHANGED <<zero, io>>

Transfer ==
  /\ start.op \in Transfers
  /\ mem' = [mem EXCEPT ![DE] = mem[HL]]
  /\ HL' = Plus(HL, Dir) /\ DE' = Plus(DE, Dir) /\ BC' = Plus(BC, -1)
  /\ parity' = (BC' # 0)
  /\ UNCHANGED <<zero, io>>

Compare ==
  /\ start.op \in Searches
  /\ HL' = Plus(HL, Dir) /\ BC' = Plus(BC, -1)
  /\ zero' = (mem[HL] = start.A)
  /\ parity' = (BC' # 0)
  /\ UNCHANGED <<mem, DE, io>>

\* P/V is a parity nobody relies on.
Input ==
  /\ start.op \in Inputs
  /\ \E val \in PortData :
       /\ io' = Append(io, [port |-> BC, val |-> val])
       /\ mem' = [mem EXCEPT ![HL] = val]
  /\ HL' = Plus(HL, Dir) /\ BC' = DecB
  /\ zero' = (Hi(BC') = 0)
  /\ parity' \in BOOLEAN
  /\ UNCHANGED DE

\* Fault: the port is put on the bus before B is decremented, as in INI.
OutputEarly ==
  /\ start.op \in Outputs
  /\ BC' = DecB
  /\ io' = Append(io, [port |-> BC, val |-> mem[HL]])
  /\ HL' = Plus(HL, Dir)
  /\ zero' = (Hi(BC') = 0)
  /\ parity' \in BOOLEAN
  /\ UNCHANGED <<mem, DE>>

Output ==
  /\ start.op \in Outputs
  /\ BC' = DecB
  /\ io' = Append(io, [port |-> BC', val |-> mem[HL]])
  /\ HL' = Plus(HL, Dir)
  /\ zero' = (Hi(BC') = 0)
  /\ parity' \in BOOLEAN
  /\ UNCHANGED <<mem, DE>>

\* Faults: a search goes on until both conditions end it; or past a match.
RepeatsUntilBoth ==
  CASE start.op \in {"ldir", "lddr"} -> BC' # 0
    [] start.op \in {"cpir", "cpdr"} -> ~zero' \/ BC' # 0
    [] OTHER -> start.op \in Repeating /\ Hi(BC') # 0

RepeatsPastMatch ==
  CASE start.op \in {"ldir", "lddr", "cpir", "cpdr"} -> BC' # 0
    [] OTHER -> start.op \in Repeating /\ Hi(BC') # 0

\* Whether the handler puts PC back.
Repeats ==
  CASE start.op \in {"ldir", "lddr"} -> BC' # 0
    [] start.op \in {"cpir", "cpdr"} -> ~zero' /\ BC' # 0
    [] OTHER -> start.op \in Repeating /\ Hi(BC') # 0

\* The instruction is fetched again, byte by byte, before each iteration.
Fetched == /\ PC = start.PC
           /\ mem[PC] = start.code[1] /\ mem[Plus(PC, 1)] = start.code[2]

Iterate ==
  /\ ~serving /\ Fetched
  /\ Transfer \/ Compare \/ Input \/ Output
  /\ PC' = IF Repeats THEN Plus(Plus(PC, 2), -2) ELSE Plus(PC, 2)
  /\ UNCHANGED <<start, SP, serving, taken>>

-----------------------------------------------------------------------------
(* Interrupts.  The handler saves what it uses and ends with a return.     *)

Interrupt ==
  /\ ~serving /\ taken < MaxInterrupts
  /\ serving' = TRUE
  /\ taken' = taken + 1
  /\ mem' = Push(mem, SP, PC)
  /\ SP' = Plus(SP, -2)
  /\ PC' = Handler
  /\ UNCHANGED <<start, pairs, flags, io>>

Return ==
  /\ serving
  /\ serving' = FALSE
  /\ PC' = WordAt(mem, SP)
  /\ SP' = Plus(SP, 2)
  /\ UNCHANGED <<start, mem, pairs, flags, io, taken>>

Next == Iterate \/ Interrupt \/ Return

Spec == Init /\ [][Next]_vars

\* The processor goes on, and what it does is not up to it: an interrupt
\* handler returns, and an instruction that is fetched executes.
FairSpec == Spec /\ WF_vars(Iterate) /\ WF_vars(Return)

-----------------------------------------------------------------------------
(* What the instructions are documented to do, in one go.  Everything is   *)
(* said in terms of the setup.                                             *)

\* How many bytes: a count of zero stands for all of them.
Wrapped(n, all) == IF n = 0 THEN all ELSE n
Size ==
  IF start.op \notin Repeating THEN 1
  ELSE IF start.op \in Inputs \cup Outputs THEN Wrapped(Hi(start.BC), W)
  ELSE Wrapped(start.BC, W * W)

Source(i) == Plus(start.HL, Dir * i)
Target(i) == Plus(start.DE, Dir * i)

Written ==
  CASE start.op \in Transfers -> {Target(i) : i \in 0 .. (Size - 1)}
    [] start.op \in Inputs    -> {Source(i) : i \in 0 .. (Size - 1)}
    [] OTHER -> {}

StackArea == {Plus(start.SP, -1), Plus(start.SP, -2)}

\* The operation and the interrupts leave the instruction alone.
Intact == {start.PC, Plus(start.PC, 1)} \cap (Written \cup StackArea) = {}

\* Besides, no interrupt pushes into what the operation reads or writes.
Undisturbed ==
  /\ Intact
  /\ \/ taken = 0
     \/ StackArea \cap (Written \cup {Source(i) : i \in 0 .. (Size - 1)}) = {}

Done == ~serving /\ PC = Plus(start.PC, 2)

Outside(addresses) ==
  \A a \in Word \ (addresses \cup StackArea) : mem[a] = start.mem[a]

\* How far the target is ahead of the source.
Lead == (Dir * (start.DE - start.HL)) % (W * W)

-----------------------------------------------------------------------------
(* Properties.                                                             *)

\* A transfer, cut by interrupts or not, copies the block as it was, unless the
\* target overlaps the source ahead of it: then it repeats the first Lead
\* bytes through the target.  It writes nothing else, and leaves HL and DE
\* behind the last byte, BC counted down, P/V telling whether BC is 0.
Copied ==
  Done /\ Undisturbed /\ start.op \in Transfers =>
    /\ \A i \in 0 .. (Size - 1) :
         mem[Target(i)] =
           start.mem[Source(IF Lead \in 1 .. (Size - 1) THEN i % Lead ELSE i)]
    /\ Outside(Written)
    /\ HL = Source(Size) /\ DE = Target(Size)
    /\ BC = Plus(start.BC, -Size)
    /\ parity = (BC # 0)

Matches == {i \in 0 .. (Size - 1) : start.mem[Source(i)] = start.A}

\* A search ends behind the first byte equal to A, with Z set, and if there is
\* none behind the last byte, with Z reset; BC is what is left to search, and
\* P/V whether there is any.
Found ==
  Done /\ Undisturbed /\ start.op \in Searches =>
    LET searched == IF Matches = {} THEN Size
                    ELSE 1 + CHOOSE i \in Matches : \A j \in Matches : i <= j
    IN  /\ HL = Source(searched)
        /\ BC = Plus(start.BC, -searched)
        /\ zero = (Matches # {})
        /\ parity = (BC # 0)
        /\ Outside({})

\* The value of B on the address bus in cycle i: counting down from B for
\* input, which addresses the port first, and from B - 1 for output.
PortB(i) ==
  (Hi(start.BC) - (IF start.op \in Inputs THEN i ELSE i + 1)) % W

\* Input and output make one I/O cycle per byte, in order, with B counting down
\* in the upper half of the port address; no interrupt makes one twice.
Exchanged ==
  Done /\ Undisturbed /\ start.op \in Inputs \cup Outputs =>
    /\ Len(io) = Size
    /\ \A i \in 0 .. (Size - 1) :
         /\ io[i + 1].port = WordOf(Lo(start.BC), PortB(i))
         /\ io[i + 1].val = mem[Source(i)]
    /\ Outside(Written)
    /\ HL = Source(Size)
    /\ zero = (Hi(BC) = 0)

\* An operation whose code is left alone ends, even one that goes through all
\* of memory.
Ends == Intact ~> Done
=============================================================================
