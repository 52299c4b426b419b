----------------------------- MODULE MCZ80Arith -----------------------------
(***************************************************************************)
(* Z80Arith and Z80Bits over all pairs of words: the first word and the    *)
(* carry are chosen, the second word counts.                               *)
(***************************************************************************)
EXTENDS Z80Bits

VARIABLES first, second, carryIn

words == <<first, second, carryIn>>

WordsInit == first \in Word /\ second = 0 /\ carryIn \in {0, 1}
WordsNext ==
  /\ second < W * W - 1
  /\ second' = second + 1
  /\ UNCHANGED <<first, carryIn>>
WordsSpec == WordsInit /\ [][WordsNext]_words

\* Word arithmetic is the chain of two byte operations (handle_adc_hl_rr,
\* handle_sbc_hl_rr and handle_add_hl_rr against adc8_flags and sbc8_flags).
WordsAreTwoBytes == WordIsTwoBytes(first, second, carryIn)

\* The flags of INC, DEC and NEG are those of the operation they stand for
\* (the tables of flags.cpp, and handle_neg).
SpecialCasesAgree == SpecialCases(Lo(first))

\* The flags of ADC and SBC are the carries and overflows of what they compute
\* (adc8_flags and sbc8_flags).
SumsAreExact == Exact(Lo(first), Hi(first), carryIn)

\* CP orders its operands, unsigned by C and signed by S and P/V (SUB_FLAGS), and
\* CPI and CPD agree with it on all but the carry (block_compare).
ComparesOrder ==
  /\ Ordered(Lo(first), Hi(first))
  /\ ComparesAlike(If(carryIn = 1, "C"), Lo(first), Hi(first), second > 0)

\* SLA, SRA, SRL, RL and RR shift numbers of any width (ROT_OP).
ShiftsAreArithmetic == ShiftsArithmetic(first, carryIn)

\* RLD and RRD shift decimal numbers digit by digit (handle_rld, handle_rrd).
DigitsGoRound == DigitsRound(Lo(first), Hi(first))

\* The indexed copies of rotations do the same, and SET, RES and BIT mean the
\* same of the eight bits an opcode can name (handle_ddcb_fdcb_rot,
\* handle_cb_bit and the others).
CopiesAgree == BitCopies(Lo(first), carryIn)
=============================================================================
