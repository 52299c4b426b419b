------------------------------ MODULE Z80Arith ------------------------------
(***************************************************************************)
(* Results and flags of the arithmetic instructions, as operators on bytes *)
(* and words.  K is the number of values of half a byte (16 in the code).  *)
(* The flag register is the set of the flags that are 1.                   *)
(*                                                                         *)
(* The code tests single bits of sums and exclusive ors, and so do these   *)
(* definitions: what the flags are for is left to the properties.          *)
(***************************************************************************)
EXTENDS Z80Words

CONSTANT K

ASSUME NibbleAssumption == K \in Nat /\ K >= 2 /\ K % 2 = 0 /\ W = K * K

Flag == {"S", "Z", "F5", "H", "F3", "PV", "N", "C"}

If(c, flag) == IF c THEN {flag} ELSE {}
Bit(c) == IF c THEN 1 ELSE 0

Negative(b) == b >= W \div 2
F53(b)  == If((b \div (2 * K)) % 2 = 1, "F5") \cup If((b \div (K \div 2)) % 2 = 1, "F3")
SZ53(b) == If(Negative(b), "S") \cup If(b = 0, "Z") \cup F53(b)

-----------------------------------------------------------------------------
(* Bytes.  c is the carry, 0 where there is none.                          *)

Sum(a, b, c)  == (a + b + c) % W
Diff(a, b, c) == (a - b - c) % W

\* (a ^ b ^ r) & 0x10
Bit4Differs(a, b, r) == (a \div K + b \div K + r \div K) % 2 = 1

\* Fault: the carry is added to the operand first.
AddFlagsFolded(a, b, c) ==
  LET r == Sum(a, b, c)
      d == (b + c) % W
  IN  SZ53(r) \cup If(a + b + c >= W, "C") \cup If(Bit4Differs(a, d, r), "H")
        \cup If(Negative(a) = Negative(d) /\ Negative(a) # Negative(r), "PV")

AddFlags(a, b, c) ==
  LET r == Sum(a, b, c)
  IN  SZ53(r) \cup If(a + b + c >= W, "C") \cup If(Bit4Differs(a, b, r), "H")
        \cup If(Negative(a) = Negative(b) /\ Negative(a) # Negative(r), "PV")

\* Fault: the overflow test of the addition.
SubFlagsAddOverflow(a, b, c) ==
  LET r == Diff(a, b, c)
  IN  {"N"} \cup SZ53(r) \cup If(a - b - c < 0, "C") \cup If(Bit4Differs(a, b, r), "H")
        \cup If(Negative(a) = Negative(b) /\ Negative(a) # Negative(r), "PV")

SubFlags(a, b, c) ==
  LET r == Diff(a, b, c)
  IN  {"N"} \cup SZ53(r) \cup If(a - b - c < 0, "C") \cup If(Bit4Differs(a, b, r), "H")
        \cup If(Negative(a) # Negative(b) /\ Negative(a) # Negative(r), "PV")

\* Without the carry, which INC and DEC preserve.
IncFlags(v) ==
  SZ53(Sum(v, 1, 0)) \cup If(v % K = K - 1, "H") \cup If(v = W \div 2 - 1, "PV")

\* Fault: the borrow of the low half is tested as INC's carry.
DecFlagsIncHalf(v) ==
  {"N"} \cup SZ53(Diff(v, 1, 0)) \cup If(v % K = K - 1, "H") \cup If(v = W \div 2, "PV")

DecFlags(v) ==
  {"N"} \cup SZ53(Diff(v, 1, 0)) \cup If(v % K = 0, "H") \cup If(v = W \div 2, "PV")

NegFlags(a) ==
  {"N"} \cup SZ53(Diff(0, a, 0)) \cup If(a % K # 0, "H") \cup If(a = W \div 2, "PV")
    \cup If(a # 0, "C")

-----------------------------------------------------------------------------
(* Words.                                                                  *)

WordSum(x, y, c)  == (x + y + c) % (W * W)
WordDiff(x, y, c) == (x - y - c) % (W * W)

NegativeWord(x) == x >= (W * W) \div 2
Low12(x) == x % (K * W)

\* ADD HL,rr replaces these flags and preserves S, Z and P/V.
AddHlFlags(x, y) ==
  F53(Hi(WordSum(x, y, 0)))
    \cup If(Low12(x) + Low12(y) >= K * W, "H") \cup If(x + y >= W * W, "C")

WordSZ53(r) ==
  If(Negative(Hi(r)), "S") \cup F53(Hi(r)) \cup If(r = 0, "Z")

AdcHlFlags(x, y, c) ==
  LET r == WordSum(x, y, c)
  IN  WordSZ53(r) \cup If(Low12(x) + Low12(y) + c >= K * W, "H")
        \cup If(x + y + c >= W * W, "C")
        \cup If(/\ NegativeWord(x) = NegativeWord(y)
                /\ NegativeWord(x) # NegativeWord(r), "PV")

\* Fault: the carry is left out of the half-borrow test.
SbcHlFlagsHalf(x, y, c) ==
  LET r == WordDiff(x, y, c)
  IN  {"N"} \cup WordSZ53(r) \cup If(Low12(x) < Low12(y), "H")
        \cup If(x - y - c < 0, "C")
        \cup If(/\ NegativeWord(x) # NegativeWord(y)
                /\ NegativeWord(x) # NegativeWord(r), "PV")

SbcHlFlags(x, y, c) ==
  LET r == WordDiff(x, y, c)
  IN  {"N"} \cup WordSZ53(r) \cup If(Low12(x) < Low12(y) + c, "H")
        \cup If(x - y - c < 0, "C")
        \cup If(/\ NegativeWord(x) # NegativeWord(y)
                /\ NegativeWord(x) # NegativeWord(r), "PV")

-----------------------------------------------------------------------------
(* What the flags mean, for any arguments.                                 *)

\* ADC HL and SBC HL are the chains of two byte operations a program for a
\* wider number is made of: the same result, the flags of the upper byte, but
\* Z for the whole word.
WordIsTwoBytes(x, y, c) ==
  LET lowC == Bit("C" \in AddFlags(Lo(x), Lo(y), c))
      lowB == Bit("C" \in SubFlags(Lo(x), Lo(y), c))
  IN  /\ WordSum(x, y, c) =
           WordOf(Sum(Lo(x), Lo(y), c), Sum(Hi(x), Hi(y), lowC))
      /\ AdcHlFlags(x, y, c) \ {"Z"} = AddFlags(Hi(x), Hi(y), lowC) \ {"Z"}
      /\ WordDiff(x, y, c) =
           WordOf(Diff(Lo(x), Lo(y), c), Diff(Hi(x), Hi(y), lowB))
      /\ SbcHlFlags(x, y, c) \ {"Z"} = SubFlags(Hi(x), Hi(y), lowB) \ {"Z"}
      /\ c = 0 => AddHlFlags(x, y) = AdcHlFlags(x, y, 0) \ {"S", "Z", "PV"}

\* INC, DEC and NEG compute their flags by tests of their own; they agree with
\* those of adding and subtracting 1, and of subtracting from 0.
SpecialCases(v) ==
  /\ IncFlags(v) = AddFlags(v, 1, 0) \ {"C"}
  /\ DecFlags(v) = SubFlags(v, 1, 0) \ {"C"}
  /\ NegFlags(v) = SubFlags(0, v, 0)

SignedByte == -(W \div 2) .. (W \div 2 - 1)

\* H and P/V of additions and subtractions are the carry out of the lower half
\* of the byte and the overflow of the signed numbers.
Exact(a, b, c) ==
  LET f == AddFlags(a, b, c)
      g == SubFlags(a, b, c)
  IN  /\ "H" \in f <=> (a % K) + (b % K) + c >= K
      /\ "PV" \in f <=> Signed(a) + Signed(b) + c \notin SignedByte
      /\ "H" \in g <=> (a % K) - (b % K) - c < 0
      /\ "PV" \in g <=> Signed(a) - Signed(b) - c \notin SignedByte

\* After comparing a with b, the flags tell their order as unsigned and as
\* signed numbers.
Ordered(a, b) ==
  LET f == SubFlags(a, b, 0)
  IN  /\ "Z" \in f <=> a = b
      /\ "C" \in f <=> a < b
      /\ ("S" \in f) # ("PV" \in f) <=> Signed(a) < Signed(b)
=============================================================================
