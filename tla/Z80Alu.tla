------------------------------- MODULE Z80Alu -------------------------------
(***************************************************************************)
(* The accumulator under any sequence of the instructions that compute     *)
(* with it.  Q is what CCF and SCF remember of the last instruction: its   *)
(* flags if it changed F, and no flag otherwise.                           *)
(*                                                                         *)
(* The operand of a binary instruction is any of Operands; where it comes  *)
(* from (a register, (HL) or the instruction itself) is left out.          *)
(***************************************************************************)
EXTENDS Z80Bits

CONSTANTS
  Operands,
  Read,     \* what memory, ports, I and R hold
  Tested    \* bits for BIT, RES and SET

ASSUME OperandAssumption == (Operands \cup Read) \subseteq Byte /\ Tested \subseteq 0 .. 7

VARIABLES
  A, F, Q,
  computed, \* whether the last instruction but HALT computed its flags
  due \* what the next DAA has to make of A and the carry, if anything

vars == <<A, F, Q, computed, due>>

None == [digits |-> 0, carry |-> -1]

\* Registers::reset
Init == A = W - 1 /\ F = Flag /\ Q = {} /\ computed = FALSE /\ due = None

-----------------------------------------------------------------------------

Carry == Bit("C" \in F)

\* Every handler that changes F ends with Q = F.
Sets(flags) == F' = flags /\ Q' = flags

Kept(flags) == F \cap flags

Decimal(b) == b \div K <= 9 /\ b % K <= 9
ValueOf(b) == 10 * (b \div K) + (b % K)

\* What DAA owes after an operation on two decimal numbers with result n.
Owes(a, b, n) ==
  due' = IF Decimal(a) /\ Decimal(b)
         THEN [digits |-> n % 100, carry |-> Bit(n \notin 0 .. 99)] ELSE None

Add(n, c) ==
  /\ A' = Sum(A, n, c)
  /\ Sets(AddFlags(A, n, c))
  /\ Owes(A, n, ValueOf(A) + ValueOf(n) + c)

Subtract(n, c) ==
  /\ A' = Diff(A, n, c)
  /\ Sets(SubFlags(A, n, c))
  /\ Owes(A, n, ValueOf(A) - ValueOf(n) - c)

Neg ==
  /\ A' = Diff(0, A, 0)
  /\ Sets(NegFlags(A))
  /\ Owes(0, A, 0 - ValueOf(A))

\* F3 and F5 of CP are those of the operand.
Cp(n) ==
  /\ Sets((SubFlags(A, n, 0) \ {"F5", "F3"}) \cup F53(n))
  /\ UNCHANGED A /\ due' = None

Logic(r, half) ==
  /\ A' = r
  /\ Sets(LogicFlags(r) \cup half)
  /\ due' = None

\* The bits that are 1, and back.
BitsOf(b) == {i \in 0 .. 7 : TestBit(b, i) = 1}
ByteOf(bits) ==
  LET value(i) == IF i \in bits THEN 2^i ELSE 0
  IN  value(0) + value(1) + value(2) + value(3)
        + value(4) + value(5) + value(6) + value(7)

AndN(n) == Logic(ByteOf(BitsOf(A) \cap BitsOf(n)), {"H"})
OrN(n)  == Logic(ByteOf(BitsOf(A) \cup BitsOf(n)), {})
XorN(n) == Logic(ByteOf((BitsOf(A) \ BitsOf(n)) \cup (BitsOf(n) \ BitsOf(A))), {})

Inc == /\ A' = Sum(A, 1, 0) /\ Sets(Kept({"C"}) \cup IncFlags(A))
       /\ due' = None
Dec == /\ A' = Diff(A, 1, 0) /\ Sets(Kept({"C"}) \cup DecFlags(A))
       /\ due' = None

\* Fault: a > 0x9F for a > 0x99.
DaaHighDigit ==
  LET low  == If("H" \in F \/ A % K > 9, "H")
      high == If("C" \in F \/ A \div K > 9, "C")
      corr == (IF low # {} THEN 6 ELSE 0) + (IF high # {} THEN 6 * K ELSE 0)
      r == IF "N" \in F THEN Diff(A, corr, 0) ELSE Sum(A, corr, 0)
      half == IF "N" \in F THEN "H" \in F /\ A % K < 6 ELSE A % K > 9
  IN  /\ A' = r
      /\ Sets(SZ53(r) \cup If(half, "H") \cup Parity(r) \cup Kept({"N"}) \cup high)
      /\ due' = None

Daa ==
  LET low  == If("H" \in F \/ A % K > 9, "H")
      high == If("C" \in F \/ A > 9 * K + 9, "C")
      corr == (IF low # {} THEN 6 ELSE 0) + (IF high # {} THEN 6 * K ELSE 0)
      r == IF "N" \in F THEN Diff(A, corr, 0) ELSE Sum(A, corr, 0)
      half == IF "N" \in F THEN "H" \in F /\ A % K < 6 ELSE A % K > 9
  IN  /\ A' = r
      /\ Sets(SZ53(r) \cup If(half, "H") \cup Parity(r) \cup Kept({"N"}) \cup high)
      /\ due' = None

Cpl ==
  /\ A' = W - 1 - A
  /\ Sets(Kept({"S", "Z", "PV", "C"}) \cup F53(A') \cup {"N", "H"})
  /\ due' = None

-----------------------------------------------------------------------------
(* Rotations and bits of A, and the other handlers that change F.          *)

\* RLCA and the like keep S, Z and P/V.
Rotate(r) ==
  /\ A' = r.res
  /\ Sets(Kept({"S", "Z", "PV"}) \cup F53(r.res) \cup If(r.carry = 1, "C"))
  /\ due' = None

Rlca == Rotate(Left(A, Top(A)))
Rrca == Rotate(Right(A, Low(A)))
Rla  == Rotate(Left(A, Carry))
Rra  == Rotate(Right(A, Carry))

RotateR(op) ==
  LET r == Rotation(op, A, Carry) IN
  A' = r.res /\ Sets(RotationFlags(r)) /\ due' = None

CbBit(b) == Sets(BitFlags(F, A, b, A)) /\ UNCHANGED A /\ due' = None

IndexedBit(n, b, hi) == Sets(BitFlags(F, n, b, hi)) /\ UNCHANGED A /\ due' = None

CbResSet(b) == /\ A' \in {ResetBit(A, b), SetBit(A, b)} /\ Q' = {} /\ UNCHANGED F
               /\ due' = None

\* RLD, RRD, IN A,(C), and LD A,I and LD A,R with IFF2 in P/V.
Takes(n, pv) == A' = n /\ Sets(SZ53(n) \cup pv \cup Kept({"C"})) /\ due' = None

RldRrd(m) == \E a \in {Rld(A, m).A, Rrd(A, m).A} : Takes(a, Parity(a))
InRC(n) == Takes(n, Parity(n))
LdAI(n) == \E iff2 \in BOOLEAN : Takes(n, If(iff2, "PV"))

\* C, or L, is taken for one of the operands, and B for another.
BlockFlags(n, m) ==
  /\ \/ \E more \in BOOLEAN : \/ Sets(TransferFlags(F, A, n, more))
                              \/ Sets(CompareFlags(F, A, n, more))
     \/ Sets(BlockIoFlags(m, n, n))
  /\ UNCHANGED A /\ due' = None

-----------------------------------------------------------------------------
(* CCF and SCF: F3 and F5 are bits of (Q ^ F) | A.                         *)

CarryF53 == {f \in {"F5", "F3"} : (f \in Q) # (f \in F) \/ f \in F53(A)}

Ccf ==
  /\ Sets(Kept({"S", "Z", "PV"}) \cup CarryF53
            \cup (IF "C" \in F THEN {"H"} ELSE {"C"}))
  /\ UNCHANGED A /\ due' = None

Scf ==
  /\ Sets(Kept({"S", "Z", "PV"}) \cup CarryF53 \cup {"C"})
  /\ UNCHANGED A /\ due' = None

-----------------------------------------------------------------------------
(* Loads, of A (LD A,n and the like) and of both (POP AF), and HALT, whose *)
(* handler does not write Q.                                               *)

\* Fault: Q is not written.
LoadKeepsQ(n) ==
  /\ A' = n /\ UNCHANGED <<F, Q>>
  /\ due' = None

Load(n) ==
  /\ A' = n /\ Q' = {} /\ UNCHANGED F
  /\ due' = None

\* The flags in the bits of a byte.
FlagsOf(b) ==
  If(Negative(b), "S") \cup If((b \div 64) % 2 = 1, "Z") \cup F53(b)
    \cup If((b \div 16) % 2 = 1, "H") \cup If((b \div 4) % 2 = 1, "PV")
    \cup If((b \div 2) % 2 = 1, "N") \cup If(b % 2 = 1, "C")

PopAF(hi, lo) ==
  /\ A' = hi /\ F' = FlagsOf(lo) /\ Q' = {}
  /\ due' = None

Halt == UNCHANGED vars

-----------------------------------------------------------------------------

Binary(n) == \/ \E c \in {0, Carry} : Add(n, c) \/ Subtract(n, c)
             \/ Cp(n) \/ AndN(n) \/ OrN(n) \/ XorN(n)
Other(n) == \/ RldRrd(n) \/ InRC(n) \/ LdAI(n)
            \/ \E m \in Read : BlockFlags(n, m) \/ \E b \in Tested : IndexedBit(n, b, m)
Unary == \/ Neg \/ Inc \/ Dec \/ Daa \/ Cpl
         \/ Rlca \/ Rrca \/ Rla \/ Rra \/ Ccf \/ Scf
         \/ \E op \in {Rotations[i] : i \in 1 .. 8} : RotateR(op)
         \/ \E b \in Tested : CbBit(b)

\* The instructions whose entries in the opcode tables affect flags, and others.
Computing ==
  /\ computed' = TRUE
  /\ Unary \/ (\E n \in Operands : Binary(n)) \/ (\E n \in Read : Other(n))

Moving ==
  /\ computed' = FALSE
  /\ \/ \E n \in Operands : Load(n) \/ \E lo \in Read : PopAF(n, lo)
     \/ \E b \in Tested : CbResSet(b)

Next == Computing \/ Moving \/ Halt

Spec == Init /\ [][Next]_vars

-----------------------------------------------------------------------------
(* Properties.                                                             *)

\* DAA makes a decimal number of the result of adding, subtracting or negating
\* decimal numbers, with the decimal carry or borrow in C.  With the carry of
\* one DAA going into the next ADC or SBC, numbers of any length come out right.
DecimalResult ==
  [][Daa /\ due # None =>
       /\ Decimal(A') /\ ValueOf(A') = due.digits
       /\ "C" \in F' <=> due.carry = 1]_vars

\* What CCF and SCF find in Q is of the instruction before them: its flags if it
\* computed any, and nothing if it did not, a load after a computation too.  HALT is
\* passed over, its handler being the one that does not write Q.
QIsCurrent == Q = IF computed THEN F ELSE {}
=============================================================================
