----------------------------- MODULE MCZ80Block -----------------------------
(***************************************************************************)
(* Z80Block in a memory of 36 bytes: blocks of one to five bytes, with the *)
(* target behind, on, ahead of and away from the source, counts of zero,   *)
(* and sources that wrap around the end of memory.                         *)
(***************************************************************************)
EXTENDS Z80Block

Code  == <<4, 4>>
Stack == 6

\* The instruction is at 0, the handler at 2, data in the rest.
Data == [a \in Word |-> IF a \in 0 .. 1 THEN Code[a + 1] ELSE (a * a + a \div 4) % 4]

SetupOf(op, a, bc, de, hl) ==
  [op |-> op, code |-> Code, mem |-> Data, A |-> a, BC |-> bc, DE |-> de,
   HL |-> hl, PC |-> 0, SP |-> Stack]

MCSetups ==
  {SetupOf(op, 0, n, de, hl) :
     op \in Transfers, n \in {1, 2, 5}, de \in 12 .. 24, hl \in {1, 18, 34}}
  \cup {SetupOf(op, 0, 0, 12, 18) : op \in Transfers}
  \cup {SetupOf(op, a, n, 9, hl) :
           op \in Searches, a \in {0, 3, 5}, n \in {0, 1, 5}, hl \in {1, 18, 34}}
  \cup {SetupOf(op, 0, WordOf(3, n), 9, hl) :
           op \in Inputs \cup Outputs, n \in {0, 1, 3}, hl \in {18, 28}}

MCPortData == {1, 5}
=============================================================================
