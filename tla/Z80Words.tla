------------------------------ MODULE Z80Words ------------------------------
(***************************************************************************)
(* Words and memory.  W is the number of values of a byte (256 in the      *)
(* code); a word is a pair of bytes, and addresses memory.                 *)
(***************************************************************************)
EXTENDS Integers

CONSTANT W

ASSUME WidthAssumption == W \in Nat /\ W >= 2

Byte == 0 .. (W - 1)
Word == 0 .. (W * W - 1)

\* uint16_t arithmetic: a + n, n possibly negative.
Plus(a, n) == (a + n) % (W * W)

Lo(w) == w % W
Hi(w) == w \div W
WordOf(lo, hi) == hi * W + lo

\* int8_t(b).
Signed(b) == IF b < W \div 2 THEN b ELSE b - W

-----------------------------------------------------------------------------
(* Memory, a function from words to bytes.                                 *)

WordAt(m, a) == WordOf(m[a], m[Plus(a, 1)])

\* Fault: the low byte is pushed first.
PushLowFirst(m, sp, w) ==
  [m EXCEPT ![Plus(sp, -1)] = Lo(w), ![Plus(sp, -2)] = Hi(w)]

Push(m, sp, w) == [m EXCEPT ![Plus(sp, -1)] = Hi(w), ![Plus(sp, -2)] = Lo(w)]
=============================================================================
