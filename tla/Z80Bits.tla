------------------------------ MODULE Z80Bits ------------------------------
(***************************************************************************)
(* Results and flags of the shifts, rotations and bit operations, of RLD   *)
(* and RRD, and of the block instructions, as operators on bytes.          *)
(***************************************************************************)
EXTENDS Z80Arith, FiniteSets

Parity(b) == If(Cardinality({i \in 0 .. 7 : (b \div 2^i) % 2 = 1}) % 2 = 0, "PV")

\* S, Z, F5, F3 and parity of a result; H and N are 0.
LogicFlags(r) == SZ53(r) \cup Parity(r)

-----------------------------------------------------------------------------
(* Rotations and shifts, each a result and the bit that becomes the carry. *)

Top(v) == v \div (W \div 2)
Low(v) == v % 2

\* One place to the left or right, with in for the bit that becomes free.
Left(v, in)  == [res |-> ((2 * v) % W) + in, carry |-> Top(v)]
Right(v, in) == [res |-> v \div 2 + in * (W \div 2), carry |-> Low(v)]

\* Fault: SRA shifts a 0 in.
RotationSraAsSrl(op, v, c) ==
  CASE op = "rlc" -> Left(v, Top(v)) [] op = "rrc" -> Right(v, Low(v))
    [] op = "rl"  -> Left(v, c)      [] op = "rr"  -> Right(v, c)
    [] op = "sla" -> Left(v, 0)      [] op = "sra" -> Right(v, 0)
    [] op = "sll" -> Left(v, 1)      [] op = "srl" -> Right(v, 0)

\* The handlers that ROT_OP defines.
Rotation(op, v, c) ==
  CASE op = "rlc" -> Left(v, Top(v)) [] op = "rrc" -> Right(v, Low(v))
    [] op = "rl"  -> Left(v, c)      [] op = "rr"  -> Right(v, c)
    [] op = "sla" -> Left(v, 0)      [] op = "sra" -> Right(v, Top(v))
    [] op = "sll" -> Left(v, 1)      [] op = "srl" -> Right(v, 0)

Rotations == <<"rlc", "rrc", "rl", "rr", "sla", "sra", "sll", "srl">>

\* Fault: RL shifts a 0 in.
IndexedRotationRlAsSla(n, v, c) ==
  IF n % 2 = 0 THEN Left(v, <<Top(v), 0, 0, 1>>[n \div 2 + 1])
  ELSE Right(v, <<Low(v), c, Top(v), 0>>[n \div 2 + 1])

\* The switch of the indexed rotations: even cases go left, odd ones right.
IndexedRotation(n, v, c) ==
  IF n % 2 = 0 THEN Left(v, <<Top(v), c, 0, 1>>[n \div 2 + 1])
  ELSE Right(v, <<Low(v), c, Top(v), 0>>[n \div 2 + 1])

RotationFlags(r) == LogicFlags(r.res) \cup If(r.carry = 1, "C")

-----------------------------------------------------------------------------
(* Single bits.  f: the flags before.                                      *)

TestBit(v, b) == (v \div 2^b) % 2
ResetBit(v, b) == v - 2^b * TestBit(v, b)
SetBit(v, b) == v + 2^b * (1 - TestBit(v, b))

\* BIT b; F5 and F3 are those of the byte itself, or, indexed, of the upper half
\* of its address.
BitFlags(f, v, b, from) ==
  (f \cap {"C"}) \cup {"H"} \cup F53(from)
    \cup (IF TestBit(v, b) = 0 THEN {"Z", "PV"} ELSE If(2^b = W \div 2, "S"))

-----------------------------------------------------------------------------
(* RLD and RRD: the digits of a byte m of memory and the lower one of A.   *)

\* Fault: the digit of A goes to the upper half of the byte.
RldUpper(a, m) ==
  [A |-> (a \div K) * K + m \div K, m |-> (m % K) + (a % K) * K]

Rld(a, m) ==
  [A |-> (a \div K) * K + m \div K, m |-> ((m * K) % W) + (a % K)]

Rrd(a, m) ==
  [A |-> (a \div K) * K + (m % K), m |-> m \div K + ((a * K) % W)]

-----------------------------------------------------------------------------
(* The block instructions.  more: the counter has not come to 0.           *)

\* F5 and F3 are bits 1 and 3 of a sum or difference.
BlockF53(n) == If((n \div 2) % 2 = 1, "F5") \cup If((n \div (K \div 2)) % 2 = 1, "F3")

TransferFlags(f, a, v, more) ==
  (f \cap {"S", "Z", "C"}) \cup If(more, "PV") \cup BlockF53(Sum(a, v, 0))

CompareFlags(f, a, v, more) ==
  LET half == Bit(a % K < v % K)
  IN  {"N"} \cup (SZ53(Diff(a, v, 0)) \ {"F5", "F3"}) \cup If(half = 1, "H")
        \cup If(more, "PV") \cup (f \cap {"C"}) \cup BlockF53(Diff(a, v, half))

\* b: the counter B afterwards; t: what is added to the byte for the carry.
BlockIoFlags(b, v, t) ==
  SZ53(b) \cup If(Negative(v), "N") \cup (IF v + t >= W THEN {"C", "H"} ELSE {})
    \cup If((Parity((v + t) % 8) = {}) = (Parity(b) = {}), "PV")

-----------------------------------------------------------------------------
(* What they are for, for any arguments.                                   *)

NumberOf(hi, lo) == WordOf(lo.res, hi.res)

\* Two shifts chained through the carry are one shift of a word, which doubles
\* or halves it, unsigned or signed; RR undoes RL.
ShiftsArithmetic(x, c) ==
  LET sla == Rotation("sla", Lo(x), c)
      rl  == Rotation("rl", Hi(x), sla.carry)
      srl == Rotation("srl", Hi(x), c)
      rr  == Rotation("rr", Lo(x), srl.carry)
      sra == Rotation("sra", Hi(x), c)
      rra == Rotation("rr", Lo(x), sra.carry)
      signed == IF NegativeWord(x) THEN x - W * W ELSE x
      round == Rotation("rl", Lo(x), c)
  IN  /\ NumberOf(rl, sla) = (2 * x) % (W * W) /\ rl.carry = (2 * x) \div (W * W)
      /\ NumberOf(srl, rr) = x \div 2 /\ rr.carry = x % 2
      /\ NumberOf(sra, rra) = (signed \div 2) % (W * W) /\ rra.carry = x % 2
      /\ Rotation("rr", round.res, round.carry) = [res |-> Lo(x), carry |-> c]

\* The three digits of the lower half of A and of a byte in memory, as a number,
\* go round by RLD and back by RRD; the upper digit of A stays.
DigitsRound(a, m) ==
  LET number(q) == (q.A % K) * W + q.m
      l == Rld(a, m)
      r == Rrd(a, m)
  IN  /\ number(l) = ((K * number([A |-> a, m |-> m])) % (K * W)) + (a % K)
      /\ Rrd(l.A, l.m) = [A |-> a, m |-> m] /\ Rld(r.A, r.m) = [A |-> a, m |-> m]
      /\ l.A \div K = a \div K /\ r.A \div K = a \div K

\* The rotations of (IX+d), a second copy of the others, are the same; what SET
\* sets and RES resets, BIT tests, and no other bit.
BitCopies(v, c) ==
  /\ \A n \in 0 .. 7 : IndexedRotation(n, v, c) = Rotation(Rotations[n + 1], v, c)
  /\ \A b, d \in 0 .. 7 :
       /\ TestBit(SetBit(v, b), d) = IF b = d THEN 1 ELSE TestBit(v, d)
       /\ TestBit(ResetBit(v, b), d) = IF b = d THEN 0 ELSE TestBit(v, d)

\* CPI and CPD find what CP finds, but leave the carry.
ComparesAlike(f, a, v, more) ==
  LET same == {"S", "Z", "H", "N"}
  IN  CompareFlags(f, a, v, more) \cap same = SubFlags(a, v, 0) \cap same
=============================================================================
