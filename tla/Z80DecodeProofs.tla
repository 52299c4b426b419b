------------------------- MODULE Z80DecodeProofs -------------------------
(***************************************************************************)
(* Of every instruction, for all memories, tables of the code and          *)
(* exceptions: an indexed handler finds the register that its instruction  *)
(* asks for and does to it what the plain one does to HL; the handlers     *)
(* take the time, read the bytes and leave the Q that the entries state.   *)
(*                                                                         *)
(* What a handler has still to do is weighed against its entry, so that    *)
(* the invariant (DecodeInv) can say, before every bus cycle, how much of  *)
(* the entry is left; the rest is reading the tables, entry by entry.      *)
(***************************************************************************)
EXTENDS Z80Decode, TLAPS, SequenceTheorems, FiniteSetTheorems

-----------------------------------------------------------------------------
(* The index register.                                                     *)

\* From the first prefix to the indexed handler, which has its own table.
Indexing ==
  \/ stage \in {"index", "displacement", "index_opcode"}
  \/ stage = "handler" /\ table \in {"dd", "ddcb"}

\* IndexInForce from the prefix on: the register in force is one of those asked
\* for, and the only one if they agree.
IndexInv == Indexing => active_index \in asked

LEMMA IndexInit == Init => IndexInv
  BY DEF Init, IndexInv, Indexing

\* A step that goes to the handler of a plain table leaves no index in force.
LEMMA PlainTables ==
  ASSUME NEW t \in {"main", "cb", "ed"}, NEW op, Dispatch(t, op)
  PROVE  IndexInv'
  BY DEF Dispatch, IndexInv, Indexing

LEMMA IndexNext == ASSUME IndexInv, [Next]_vars PROVE IndexInv'
<1>1. CASE FetchFirst
  <2> DEFINE op == code[PC]
  <2>1. CASE op \in {DD, FD}
    \* The prefix sets both, whatever the last step has left.
    <3>1. asked' = {active_index'}
      BY <1>1, <2>1 DEF FetchFirst
    <3> QED BY <3>1 DEF IndexInv
  <2>2. CASE op \notin {DD, FD}
    <3>1. \/ stage' \in {"CB", "ED"}
          \/ Dispatch("main", op)
      BY <1>1, <2>2 DEF FetchFirst, Wait
    <3>2. CASE stage' \in {"CB", "ED"}
      BY <3>2 DEF IndexInv, Indexing
    <3> QED BY <3>1, <3>2, PlainTables
  <2> QED BY <2>1, <2>2
<1>2. CASE FetchSecond
  BY <1>2, PlainTables DEF FetchSecond
<1>3. CASE FetchIndexed
  <2>1. active_index \in asked /\ UNCHANGED active_index /\ asked \subseteq asked'
    BY <1>3 DEF FetchIndexed, IndexInv, Indexing
  <2> QED BY <2>1 DEF IndexInv
<1>4. CASE FetchIndexedBit
  <2>1. active_index \in asked /\ UNCHANGED <<active_index, asked>>
    BY <1>4 DEF FetchIndexedBit, IndexInv, Indexing, indexing
  <2> QED BY <2>1 DEF IndexInv
<1>5. CASE BusCycle
  BY <1>5 DEF BusCycle, IndexInv, Indexing, indexing
<1>6. CASE Finish
  BY <1>6 DEF Finish, IndexInv, Indexing
<1>7. CASE Raise
  <2>1. stage' = "idle"
    BY <1>7 DEF Raise, Unwind
  <2> QED BY <2>1 DEF IndexInv, Indexing
<1>8. CASE UNCHANGED vars
  BY <1>8 DEF vars, dispatched, indexing, IndexInv, Indexing
<1> QED BY <1>1, <1>2, <1>3, <1>4, <1>5, <1>6, <1>7, <1>8 DEF Next, Continue

\* An indexed handler works on the register that the prefixes of its own
\* instruction name, if they name one, whatever the memory holds, however many
\* prefixes there are and wherever callbacks have unwound earlier steps.
THEOREM IndexedRegister == Spec => []IndexInForce
<1>1. IndexInv => IndexInForce
  BY DEF IndexInv, Indexing, IndexInForce
<1> QED BY <1>1, IndexInit, IndexNext, PTL DEF Spec
-----------------------------------------------------------------------------
(* What the cycles of a handler come to.                                   *)

\* No handler has more than six cycles.
TimeAt(s, i) == IF i <= Len(s) THEN s[i].t ELSE 0
Time(s) ==
  TimeAt(s, 1) + TimeAt(s, 2) + TimeAt(s, 3) + TimeAt(s, 4) + TimeAt(s, 5) + TimeAt(s, 6)

OperandAt(s, i) == IF i <= Len(s) /\ s[i].on = "operand" THEN 1 ELSE 0
Operands(s) ==
  OperandAt(s, 1) + OperandAt(s, 2) + OperandAt(s, 3) + OperandAt(s, 4) + OperandAt(s, 5)
    + OperandAt(s, 6)

\* These cycles, or those of that handler, take n T-states and read b bytes.
Spends(s, n, b) == s \in Seq(Cycle) /\ Len(s) <= 6 /\ Time(s) = n /\ Operands(s) = b
Costs(exec, hl, tk, n, b) == Spends(CyclesOf(exec, hl, tk), n, b)

\* Every sequence of cycles that some handler makes.
LEMMA Spent ==
  /\ Spends(<<>>, 0, 0)
  /\ Spends(<<Idle(1)>>, 1, 0)
  /\ Spends(<<Idle(2)>>, 2, 0)
  /\ Spends(<<Idle(7)>>, 7, 0)
  /\ Spends(<<Opd>>, 3, 1)
  /\ Spends(<<PortIn>>, 4, 0)
  /\ Spends(<<PortOut>>, 4, 0)
  /\ Spends(<<Rd>>, 3, 0)
  /\ Spends(<<Wr>>, 3, 0)
  /\ Spends(<<Idle(1), Opd>>, 4, 1)
  /\ Spends(<<Idle(1), Rd>>, 4, 0)
  /\ Spends(<<Opd, Idle(5)>>, 8, 1)
  /\ Spends(<<Opd, Opd>>, 6, 2)
  /\ Spends(<<Opd, PortIn>>, 7, 1)
  /\ Spends(<<Opd, PortOut>>, 7, 1)
  /\ Spends(<<Opd, Wr>>, 6, 1)
  /\ Spends(<<Rd, Idle(2)>>, 5, 0)
  /\ Spends(<<Rd, Idle(5)>>, 8, 0)
  /\ Spends(<<Rd, Rd>>, 6, 0)
  /\ Spends(<<Idle(1), Opd, Idle(5)>>, 9, 1)
  /\ Spends(<<Idle(1), PortIn, Wr>>, 8, 0)
  /\ Spends(<<Idle(1), Rd, PortOut>>, 8, 0)
  /\ Spends(<<Idle(1), Rd, Rd>>, 7, 0)
  /\ Spends(<<Idle(1), Rd, Wr>>, 7, 0)
  /\ Spends(<<Idle(1), Wr, Wr>>, 7, 0)
  /\ Spends(<<Opd, Idle(5), Rd>>, 11, 1)
  /\ Spends(<<Opd, Idle(5), Wr>>, 11, 1)
  /\ Spends(<<Opd, Opd, Rd>>, 9, 2)
  /\ Spends(<<Opd, Opd, Wr>>, 9, 2)
  /\ Spends(<<Rd, Idle(1), Wr>>, 7, 0)
  /\ Spends(<<Rd, Idle(2), Wr>>, 8, 0)
  /\ Spends(<<Rd, Idle(4), Wr>>, 10, 0)
  /\ Spends(<<Rd, Idle(5), Idle(5)>>, 13, 0)
  /\ Spends(<<Rd, Wr, Idle(2)>>, 8, 0)
  /\ Spends(<<Idle(1), PortIn, Wr, Idle(5)>>, 13, 0)
  /\ Spends(<<Idle(1), Rd, PortOut, Idle(5)>>, 13, 0)
  /\ Spends(<<Opd, Opd, Idle(2), Wr>>, 11, 2)
  /\ Spends(<<Opd, Opd, Rd, Rd>>, 12, 2)
  /\ Spends(<<Opd, Opd, Wr, Wr>>, 12, 2)
  /\ Spends(<<Rd, Wr, Idle(2), Idle(5)>>, 13, 0)
  /\ Spends(<<Opd, Idle(5), Rd, Idle(1), Wr>>, 15, 1)
  /\ Spends(<<Opd, Opd, Idle(1), Wr, Wr>>, 13, 2)
  /\ Spends(<<Rd, Rd, Idle(1), Wr, Wr, Idle(2)>>, 15, 0)
<1>1. /\ Spends(<<>>, 0, 0)
      /\ Spends(<<Idle(1)>>, 1, 0)
      /\ Spends(<<Idle(2)>>, 2, 0)
      /\ Spends(<<Idle(7)>>, 7, 0)
      /\ Spends(<<Opd>>, 3, 1)
      /\ Spends(<<PortIn>>, 4, 0)
      /\ Spends(<<PortOut>>, 4, 0)
      /\ Spends(<<Rd>>, 3, 0)
      /\ Spends(<<Wr>>, 3, 0)
  BY DEF Spends, Time, TimeAt, Operands, OperandAt, Cycle, Opd, Rd, Wr, PortIn,
         PortOut, Idle
<1>2. /\ Spends(<<Idle(1), Opd>>, 4, 1)
      /\ Spends(<<Idle(1), Rd>>, 4, 0)
      /\ Spends(<<Opd, Idle(5)>>, 8, 1)
      /\ Spends(<<Opd, Opd>>, 6, 2)
      /\ Spends(<<Opd, PortIn>>, 7, 1)
      /\ Spends(<<Opd, PortOut>>, 7, 1)
      /\ Spends(<<Opd, Wr>>, 6, 1)
      /\ Spends(<<Rd, Idle(2)>>, 5, 0)
      /\ Spends(<<Rd, Idle(5)>>, 8, 0)
  BY DEF Spends, Time, TimeAt, Operands, OperandAt, Cycle, Opd, Rd, Wr, PortIn,
         PortOut, Idle
<1>3. /\ Spends(<<Rd, Rd>>, 6, 0)
      /\ Spends(<<Idle(1), Opd, Idle(5)>>, 9, 1)
      /\ Spends(<<Idle(1), PortIn, Wr>>, 8, 0)
      /\ Spends(<<Idle(1), Rd, PortOut>>, 8, 0)
      /\ Spends(<<Idle(1), Rd, Rd>>, 7, 0)
      /\ Spends(<<Idle(1), Rd, Wr>>, 7, 0)
      /\ Spends(<<Idle(1), Wr, Wr>>, 7, 0)
      /\ Spends(<<Opd, Idle(5), Rd>>, 11, 1)
      /\ Spends(<<Opd, Idle(5), Wr>>, 11, 1)
  BY DEF Spends, Time, TimeAt, Operands, OperandAt, Cycle, Opd, Rd, Wr, PortIn,
         PortOut, Idle
<1>4. /\ Spends(<<Opd, Opd, Rd>>, 9, 2)
      /\ Spends(<<Opd, Opd, Wr>>, 9, 2)
      /\ Spends(<<Rd, Idle(1), Wr>>, 7, 0)
      /\ Spends(<<Rd, Idle(2), Wr>>, 8, 0)
      /\ Spends(<<Rd, Idle(4), Wr>>, 10, 0)
      /\ Spends(<<Rd, Idle(5), Idle(5)>>, 13, 0)
      /\ Spends(<<Rd, Wr, Idle(2)>>, 8, 0)
      /\ Spends(<<Idle(1), PortIn, Wr, Idle(5)>>, 13, 0)
      /\ Spends(<<Idle(1), Rd, PortOut, Idle(5)>>, 13, 0)
  BY DEF Spends, Time, TimeAt, Operands, OperandAt, Cycle, Opd, Rd, Wr, PortIn,
         PortOut, Idle
<1>5. /\ Spends(<<Opd, Opd, Idle(2), Wr>>, 11, 2)
      /\ Spends(<<Opd, Opd, Rd, Rd>>, 12, 2)
      /\ Spends(<<Opd, Opd, Wr, Wr>>, 12, 2)
      /\ Spends(<<Rd, Wr, Idle(2), Idle(5)>>, 13, 0)
      /\ Spends(<<Opd, Idle(5), Rd, Idle(1), Wr>>, 15, 1)
      /\ Spends(<<Opd, Opd, Idle(1), Wr, Wr>>, 13, 2)
      /\ Spends(<<Rd, Rd, Idle(1), Wr, Wr, Idle(2)>>, 15, 0)
  BY DEF Spends, Time, TimeAt, Operands, OperandAt, Cycle, Opd, Rd, Wr, PortIn,
         PortOut, Idle
<1> QED BY <1>1, <1>2, <1>3, <1>4, <1>5

\* The handlers of the regular rows, by name.
LEMMA Rows ==
  /\ Names(Alu) = {"add_a", "adc_a", "sub", "sbc_a", "and", "xor", "or", "cp"}
  /\ Names(AluN) =
       {"add_a_n", "adc_a_n", "sub_n", "sbc_a_n", "and_n", "xor_n", "or_n", "cp_n"}
  /\ Names(Rot) = {"rlc", "rrc", "rl", "rr", "sla", "sra", "sll", "srl"}
  /\ Repeats = {"ldir", "cpir", "inir", "otir", "lddr", "cpdr", "indr", "otdr"}
  /\ Blocks = {"ldi", "cpi", "ini", "outi", "ldd", "cpd", "ind", "outd",
                "ldir", "cpir", "inir", "otir", "lddr", "cpdr", "indr", "otdr"}
  /\ Column(1) = {"ldi", "ldd", "ldir", "lddr"}
  /\ Column(2) = {"cpi", "cpd", "cpir", "cpdr"}
  /\ Column(3) = {"ini", "ind", "inir", "indr"}
  /\ Column(4) = {"outi", "outd", "otir", "otdr"}
<1>1. Names(Alu) = {"add_a", "adc_a", "sub", "sbc_a", "and", "xor", "or", "cp"}
  BY DEF Names, Alu, AluN, Rot
<1>2. Names(AluN) =
        {"add_a_n", "adc_a_n", "sub_n", "sbc_a_n", "and_n", "xor_n", "or_n", "cp_n"}
  BY DEF Names, Alu, AluN, Rot
<1>3. Names(Rot) = {"rlc", "rrc", "rl", "rr", "sla", "sra", "sll", "srl"}
  BY DEF Names, Alu, AluN, Rot
<1>4. Repeats = {"ldir", "cpir", "inir", "otir", "lddr", "cpdr", "indr", "otdr"}
  BY DEF Names, Block, Repeats, Blocks
<1>5. Blocks = {"ldi", "cpi", "ini", "outi", "ldd", "cpd", "ind", "outd",
                "ldir", "cpir", "inir", "otir", "lddr", "cpdr", "indr", "otdr"}
  BY DEF Names, Block, Repeats, Blocks
<1>6. Column(1) = {"ldi", "ldd", "ldir", "lddr"}
  BY DEF Column, Block
<1>7. Column(2) = {"cpi", "cpd", "cpir", "cpdr"}
  BY DEF Column, Block
<1>8. Column(3) = {"ini", "ind", "inir", "indr"}
  BY DEF Column, Block
<1>9. Column(4) = {"outi", "outd", "otir", "otdr"}
  BY DEF Column, Block
<1> QED BY <1>1, <1>2, <1>3, <1>4, <1>5, <1>6, <1>7, <1>8, <1>9

USE DEF CyclesOf, LoadCycles, StackCycles, AluCycles, PairCycles, JumpCycles,
        IoCycles, BlockCycles, IndexedBitCycles, IndexedLoadCycles,
        IndexedPairCycles, IndexedHalfCycles, IndexedAluCycles, When

\* The handlers of one group after another: what each takes beyond its opcodes.
LEMMA LoadCosts ==
  ASSUME NEW hl, NEW tk \in BOOLEAN
  PROVE  /\ Costs("ld_r_r", hl, tk, 0, 0) /\ Costs("ld_r_n", hl, tk, 3, 1)
         /\ Costs("ld_hl_n", hl, tk, 6, 1) /\ Costs("ld_r_hl", hl, tk, 3, 0)
         /\ Costs("ld_a_bc", hl, tk, 3, 0) /\ Costs("ld_a_de", hl, tk, 3, 0)
         /\ Costs("ld_hl_r", hl, tk, 3, 0) /\ Costs("ld_bc_a", hl, tk, 3, 0)
         /\ Costs("ld_de_a", hl, tk, 3, 0) /\ Costs("ld_a_nn", hl, tk, 9, 2)
         /\ Costs("ld_nn_a", hl, tk, 9, 2) /\ Costs("ld_rr_nn", hl, tk, 6, 2)
         /\ Costs("ld_hl_nn", hl, tk, 12, 2)
         /\ Costs("ld_rr_nn_ind", hl, tk, 12, 2)
         /\ Costs("ld_nn_hl", hl, tk, 12, 2)
         /\ Costs("ld_nn_rr_ind", hl, tk, 12, 2)
  BY Rows, Spent, SMTT(30) DEF Costs

LEMMA StackCosts ==
  ASSUME NEW hl, NEW tk \in BOOLEAN
  PROVE  /\ Costs("ld_sp_hl", hl, tk, 2, 0) /\ Costs("ex_de_hl", hl, tk, 0, 0)
         /\ Costs("ex_af_afp", hl, tk, 0, 0) /\ Costs("exx", hl, tk, 0, 0)
         /\ Costs("push_rr", hl, tk, 7, 0) /\ Costs("pop_rr", hl, tk, 6, 0)
         /\ Costs("ex_sp_hl", hl, tk, 15, 0)
  BY Rows, Spent, SMTT(30) DEF Costs

LEMMA AluCosts ==
  ASSUME NEW hl, NEW tk \in BOOLEAN
  PROVE  /\ Costs("inc_r", hl, tk, 0, 0) /\ Costs("dec_r", hl, tk, 0, 0)
         /\ Costs("inc_hl", hl, tk, 7, 0) /\ Costs("dec_hl", hl, tk, 7, 0)
         /\ Costs("daa", hl, tk, 0, 0) /\ Costs("cpl", hl, tk, 0, 0)
         /\ Costs("neg", hl, tk, 0, 0) /\ Costs("ccf", hl, tk, 0, 0)
         /\ Costs("scf", hl, tk, 0, 0) /\ Costs("nop", hl, tk, 0, 0)
         /\ Costs("halt", hl, tk, 0, 0) /\ Costs("rlca", hl, tk, 0, 0)
         /\ Costs("rrca", hl, tk, 0, 0) /\ Costs("rla", hl, tk, 0, 0)
         /\ Costs("rra", hl, tk, 0, 0) /\ Costs("ld_a_i", hl, tk, 1, 0)
         /\ Costs("ld_a_r", hl, tk, 1, 0) /\ Costs("ld_i_a", hl, tk, 1, 0)
         /\ Costs("ld_r_a", hl, tk, 1, 0) /\ Costs("rld", hl, tk, 10, 0)
         /\ Costs("rrd", hl, tk, 10, 0)
  BY Rows, Spent, SMTT(30) DEF Costs

LEMMA PairCosts ==
  ASSUME NEW hl, NEW tk \in BOOLEAN
  PROVE  /\ Costs("inc_rr", hl, tk, 2, 0) /\ Costs("dec_rr", hl, tk, 2, 0)
         /\ Costs("add_hl_rr", hl, tk, 7, 0) /\ Costs("adc_hl_rr", hl, tk, 7, 0)
         /\ Costs("sbc_hl_rr", hl, tk, 7, 0)
  BY Rows, Spent DEF Costs

LEMMA JumpCosts ==
  ASSUME NEW hl, NEW tk \in BOOLEAN
  PROVE  /\ Costs("jp_nn", hl, tk, 6, 2) /\ Costs("jp_cc_nn", hl, tk, 6, 2)
         /\ Costs("jp_hl", hl, tk, 0, 0) /\ Costs("jr_e", hl, tk, 8, 1)
         /\ Costs("call_nn", hl, tk, 13, 2) /\ Costs("rst", hl, tk, 7, 0)
         /\ Costs("ret", hl, tk, 6, 0) /\ Costs("retn", hl, tk, 6, 0)
         /\ Costs("reti", hl, tk, 6, 0) /\ Costs("di", hl, tk, 0, 0)
         /\ Costs("ei", hl, tk, 0, 0) /\ Costs("im", hl, tk, 0, 0)
  BY Rows, Spent DEF Costs

LEMMA IoCosts ==
  ASSUME NEW hl, NEW tk \in BOOLEAN
  PROVE  /\ Costs("in_a_n", hl, tk, 7, 1) /\ Costs("out_n_a", hl, tk, 7, 1)
         /\ Costs("in_r_c", hl, tk, 4, 0) /\ Costs("out_c_r", hl, tk, 4, 0)
  BY Rows, Spent DEF Costs

LEMMA IndexedBitCosts ==
  ASSUME NEW hl, NEW tk \in BOOLEAN
  PROVE  /\ Costs("ddcb_fdcb_rot", hl, tk, 8, 0)
         /\ Costs("ddcb_fdcb_bit", hl, tk, 5, 0)
         /\ Costs("ddcb_fdcb_res", hl, tk, 8, 0)
         /\ Costs("ddcb_fdcb_set", hl, tk, 8, 0)
  BY Rows, Spent DEF Costs

LEMMA IndexedLoadCosts ==
  ASSUME NEW hl, NEW tk \in BOOLEAN
  PROVE  /\ Costs("dd_fd_ld_r_ixd", hl, tk, 11, 1)
         /\ Costs("dd_fd_ld_ixd_r", hl, tk, 11, 1)
         /\ Costs("dd_fd_ld_ixd_n", hl, tk, 11, 2)
         /\ Costs("dd_fd_ld_ix_nn", hl, tk, 6, 2)
         /\ Costs("dd_fd_ld_nn_ix", hl, tk, 12, 2)
         /\ Costs("dd_fd_ld_ix_nn_ind", hl, tk, 12, 2)
  BY Rows, Spent DEF Costs

LEMMA IndexedPairCosts ==
  ASSUME NEW hl, NEW tk \in BOOLEAN
  PROVE  /\ Costs("dd_fd_inc_ix", hl, tk, 2, 0)
         /\ Costs("dd_fd_dec_ix", hl, tk, 2, 0)
         /\ Costs("dd_fd_inc_ixhl", hl, tk, 0, 0)
         /\ Costs("dd_fd_dec_ixhl", hl, tk, 0, 0)
         /\ Costs("dd_fd_add_ix_rr", hl, tk, 7, 0)
         /\ Costs("dd_fd_ld_sp_ix", hl, tk, 2, 0)
         /\ Costs("dd_fd_push_ix", hl, tk, 7, 0)
         /\ Costs("dd_fd_pop_ix", hl, tk, 6, 0)
         /\ Costs("dd_fd_ex_sp_ix", hl, tk, 15, 0)
         /\ Costs("dd_fd_jp_ix", hl, tk, 0, 0)
  BY Rows, Spent DEF Costs

LEMMA IndexedHalfCosts ==
  ASSUME NEW hl, NEW tk \in BOOLEAN
  PROVE  /\ Costs("dd_fd_ld_ixhl", hl, tk, 0, 0)
         /\ Costs("dd_fd_ld_ixhl_n", hl, tk, 3, 1)
         /\ Costs("dd_fd_alu_ixhl", hl, tk, 0, 0)
  BY Rows, Spent DEF Costs

LEMMA IndexedAluCosts ==
  ASSUME NEW hl, NEW tk \in BOOLEAN
  PROVE  /\ Costs("dd_fd_alu_ixd", hl, tk, 11, 1)
         /\ Costs("dd_fd_inc_ixd", hl, tk, 15, 1)
         /\ Costs("dd_fd_dec_ixd", hl, tk, 15, 1)
  BY Rows, Spent DEF Costs

\* Conditions and repetitions: the entry states the longer way of the former and
\* the shorter of the latter, and Correction what the other way changes.
LEMMA ConditionCosts ==
  ASSUME NEW hl, NEW tk \in BOOLEAN
  PROVE  /\ Costs("jr_cc_e", hl, tk, 8 + Correction("jr_cc_e", tk), 1)
         /\ Costs("djnz_e", hl, tk, 9 + Correction("djnz_e", tk), 1)
         /\ Costs("call_cc_nn", hl, tk, 13 + Correction("call_cc_nn", tk), 2)
         /\ Costs("ret_cc", hl, tk, 7 + Correction("ret_cc", tk), 0)
<1>1. CASE tk = TRUE
  BY <1>1, Rows, Spent DEF Costs, Correction, Saved
<1>2. CASE tk = FALSE
  BY <1>2, Rows, Spent DEF Costs, Correction, Saved
<1> QED BY <1>1, <1>2

LEMMA BlockCosts ==
  ASSUME NEW hl, NEW tk \in BOOLEAN
  PROVE  /\ Costs("ldi", hl, tk, 8, 0) /\ Costs("cpi", hl, tk, 8, 0)
         /\ Costs("ini", hl, tk, 8, 0) /\ Costs("outi", hl, tk, 8, 0)
         /\ Costs("ldd", hl, tk, 8, 0) /\ Costs("cpd", hl, tk, 8, 0)
         /\ Costs("ind", hl, tk, 8, 0) /\ Costs("outd", hl, tk, 8, 0)
  BY Rows, Spent DEF Costs

LEMMA RepeatCosts ==
  ASSUME NEW hl, NEW tk \in BOOLEAN
  PROVE  /\ Costs("ldir", hl, tk, 8 + Correction("ldir", tk), 0)
         /\ Costs("cpir", hl, tk, 8 + Correction("cpir", tk), 0)
         /\ Costs("inir", hl, tk, 8 + Correction("inir", tk), 0)
         /\ Costs("otir", hl, tk, 8 + Correction("otir", tk), 0)
         /\ Costs("lddr", hl, tk, 8 + Correction("lddr", tk), 0)
         /\ Costs("cpdr", hl, tk, 8 + Correction("cpdr", tk), 0)
         /\ Costs("indr", hl, tk, 8 + Correction("indr", tk), 0)
         /\ Costs("otdr", hl, tk, 8 + Correction("otdr", tk), 0)
<1>1. CASE tk = TRUE
  BY <1>1, Rows, Spent DEF Costs, Correction, Saved
<1>2. CASE tk = FALSE
  BY <1>2, Rows, Spent DEF Costs, Correction, Saved
<1> QED BY <1>1, <1>2

\* Arithmetic and bit operations take longer on memory.
LEMMA ArithmeticCosts ==
  ASSUME NEW hl, NEW tk \in BOOLEAN, ~hl
  PROVE  /\ Costs("add_a", hl, tk, 0, 0) /\ Costs("adc_a", hl, tk, 0, 0)
         /\ Costs("sub", hl, tk, 0, 0) /\ Costs("sbc_a", hl, tk, 0, 0)
         /\ Costs("and", hl, tk, 0, 0) /\ Costs("xor", hl, tk, 0, 0)
         /\ Costs("or", hl, tk, 0, 0) /\ Costs("cp", hl, tk, 0, 0)
  BY Rows, Spent DEF Costs

LEMMA ArithmeticMemoryCosts ==
  ASSUME NEW hl, NEW tk \in BOOLEAN, hl
  PROVE  /\ Costs("add_a", hl, tk, 3, 0) /\ Costs("adc_a", hl, tk, 3, 0)
         /\ Costs("sub", hl, tk, 3, 0) /\ Costs("sbc_a", hl, tk, 3, 0)
         /\ Costs("and", hl, tk, 3, 0) /\ Costs("xor", hl, tk, 3, 0)
         /\ Costs("or", hl, tk, 3, 0) /\ Costs("cp", hl, tk, 3, 0)
  BY Rows, Spent DEF Costs

LEMMA ImmediateCosts ==
  ASSUME NEW hl, NEW tk \in BOOLEAN
  PROVE  /\ Costs("add_a_n", hl, tk, 3, 1) /\ Costs("adc_a_n", hl, tk, 3, 1)
         /\ Costs("sub_n", hl, tk, 3, 1) /\ Costs("sbc_a_n", hl, tk, 3, 1)
         /\ Costs("and_n", hl, tk, 3, 1) /\ Costs("xor_n", hl, tk, 3, 1)
         /\ Costs("or_n", hl, tk, 3, 1) /\ Costs("cp_n", hl, tk, 3, 1)
  BY Rows, Spent, SMTT(30) DEF Costs

LEMMA BitCosts ==
  ASSUME NEW hl, NEW tk \in BOOLEAN, ~hl
  PROVE  /\ Costs("rlc", hl, tk, 0, 0) /\ Costs("rrc", hl, tk, 0, 0)
         /\ Costs("rl", hl, tk, 0, 0) /\ Costs("rr", hl, tk, 0, 0)
         /\ Costs("sla", hl, tk, 0, 0) /\ Costs("sra", hl, tk, 0, 0)
         /\ Costs("sll", hl, tk, 0, 0) /\ Costs("srl", hl, tk, 0, 0)
         /\ Costs("cb_bit", hl, tk, 0, 0) /\ Costs("cb_res", hl, tk, 0, 0)
         /\ Costs("cb_set", hl, tk, 0, 0)
  BY Rows, Spent, SMTT(30) DEF Costs

LEMMA BitMemoryCosts ==
  ASSUME NEW hl, NEW tk \in BOOLEAN, hl
  PROVE  /\ Costs("rlc", hl, tk, 7, 0) /\ Costs("rrc", hl, tk, 7, 0)
         /\ Costs("rl", hl, tk, 7, 0) /\ Costs("rr", hl, tk, 7, 0)
         /\ Costs("sla", hl, tk, 7, 0) /\ Costs("sra", hl, tk, 7, 0)
         /\ Costs("sll", hl, tk, 7, 0) /\ Costs("srl", hl, tk, 7, 0)
         /\ Costs("cb_res", hl, tk, 7, 0) /\ Costs("cb_set", hl, tk, 7, 0)
         /\ Costs("cb_bit", hl, tk, 4, 0)
  BY Rows, Spent DEF Costs

LEMMA NullCosts ==
  ASSUME NEW hl, NEW tk \in BOOLEAN
  PROVE  /\ Costs("null", hl, tk, 0, 0)
  BY Rows, Spent DEF Costs

HIDE DEF CyclesOf, LoadCycles, StackCycles, AluCycles, PairCycles, JumpCycles,
        IoCycles, BlockCycles, IndexedBitCycles, IndexedLoadCycles,
        IndexedPairCycles, IndexedHalfCycles, IndexedAluCycles, When

-----------------------------------------------------------------------------
(* The tables against the handlers.                                        *)

\* The entries of LD (IX+d),n and LD (IY+d),n leave out the operand.
Missing(exec) == IF exec = "dd_fd_ld_ixd_n" THEN 1 ELSE 0
\* An entry is what decoding has taken so far and the handler takes besides.
Accounted(e, hl, time, bytes) ==
  /\ e.cycles \in Int /\ e.length \in Int
  /\ \A tk \in BOOLEAN :
       Costs(e.exec, hl, tk, e.cycles - time + Correction(e.exec, tk),
             e.length - bytes + Missing(e.exec))
  /\ e.exec \notin KeepsQ => (e.exec \in QIsF <=> e.affects = TRUE)

USE DEF Accounted, Entry, Null, Correction, Saved, KeepsQ, QIsF, Missing

\* Each quarter of the main table, then the other tables.
LEMMA Main0Accounted ==
  ASSUME NEW op \in Opcode, NEW hl, Y(op) \in 0 .. 7, Z(op) \in 0 .. 7
  PROVE Accounted(Main0(op), hl, 4, 1)
<1>0. CASE Z(op) = 0
  BY <1>0, AluCosts, JumpCosts, StackCosts, ConditionCosts, Rows DEF Main0
<1>1. CASE Z(op) = 1
  BY <1>1, LoadCosts, PairCosts, Rows DEF Main0
<1>2. CASE Z(op) = 2
  BY <1>2, LoadCosts, Rows DEF Main0
<1>3. CASE Z(op) = 3
  BY <1>3, PairCosts, Rows DEF Main0
<1>4. CASE Z(op) = 4
  BY <1>4, AluCosts, Rows DEF Main0
<1>5. CASE Z(op) = 5
  BY <1>5, AluCosts, Rows DEF Main0
<1>6. CASE Z(op) = 6
  BY <1>6, LoadCosts, Rows DEF Main0
<1>7. CASE Z(op) = 7
  BY <1>7, AluCosts, Rows DEF Main0
<1> HIDE DEF Accounted, Entry
<1> QED BY <1>0, <1>1, <1>2, <1>3, <1>4, <1>5, <1>6, <1>7

LEMMA Main1Accounted ==
  ASSUME NEW op \in Opcode, NEW hl, Y(op) \in 0 .. 7, Z(op) \in 0 .. 7
  PROVE Accounted(Main1(op), hl, 4, 1)
  BY LoadCosts, AluCosts, Rows DEF Main1

LEMMA Main2Accounted ==
  ASSUME NEW op \in Opcode, NEW hl, Y(op) \in 0 .. 7, Z(op) \in 0 .. 7, hl <=> Z(op) = 6
  PROVE Accounted(Main2(op), hl, 4, 1)
  BY ArithmeticCosts, ArithmeticMemoryCosts, Rows DEF Main2, Alu

LEMMA Main3Accounted ==
  ASSUME NEW op \in Opcode, NEW hl, Y(op) \in 0 .. 7, Z(op) \in 0 .. 7
  PROVE Accounted(Main3(op), hl, 4, 1)
<1>0. CASE Z(op) = 0
  BY <1>0, ConditionCosts, Rows DEF Main3
<1>1. CASE Z(op) = 1
  <2>1. CASE Y(op) \in {0, 2, 4, 6}
    BY <1>1, <2>1, StackCosts, Rows DEF Main3, IsOdd
  <2>2. CASE Y(op) \in {1, 3, 5, 7}
    <3>1. CASE Y(op) = 1
      BY <1>1, <3>1, JumpCosts, Rows DEF Main3, IsOdd
    <3>2. CASE Y(op) = 3
      BY <1>1, <3>2, StackCosts, Rows DEF Main3, IsOdd
    <3>3. CASE Y(op) = 5
      BY <1>1, <3>3, JumpCosts, Rows DEF Main3, IsOdd
    <3>4. CASE Y(op) = 7
      BY <1>1, <3>4, StackCosts, Rows DEF Main3, IsOdd
    <3> HIDE DEF Accounted
    <3> QED BY <2>2, <3>1, <3>2, <3>3, <3>4
  <2> HIDE DEF Accounted
  <2> QED BY <2>1, <2>2
<1>2. CASE Z(op) = 2
  BY <1>2, JumpCosts, Rows DEF Main3
<1>3. CASE Z(op) = 3
  BY <1>3, JumpCosts, IoCosts, StackCosts, NullCosts, Rows DEF Main3
<1>4. CASE Z(op) = 4
  BY <1>4, ConditionCosts, Rows DEF Main3
<1>5. CASE Z(op) = 5
  BY <1>5, StackCosts, JumpCosts, NullCosts, Rows DEF Main3
<1>6. CASE Z(op) = 6
  BY <1>6, ImmediateCosts, Rows DEF Main3, AluN
<1>7. CASE Z(op) = 7
  BY <1>7, JumpCosts, Rows DEF Main3
<1> HIDE DEF Accounted, Entry
<1> QED BY <1>0, <1>1, <1>2, <1>3, <1>4, <1>5, <1>6, <1>7

LEMMA Ed1Accounted ==
  ASSUME NEW op \in Opcode, NEW hl, Y(op) \in 0 .. 7, Z(op) \in 0 .. 7
  PROVE Accounted(Ed1(op), hl, 8, 2)
<1>0. CASE Z(op) \in 0 .. 3
  BY <1>0, IoCosts, PairCosts, LoadCosts, Rows, SMTT(30) DEF Ed1, IsOdd
<1>1. CASE Z(op) = 4
  BY <1>1, AluCosts, Rows DEF Ed1
<1>3. CASE Z(op) = 5
  BY <1>3, JumpCosts, Rows DEF Ed1
<1>4. CASE Z(op) = 6
  BY <1>4, JumpCosts, Rows DEF Ed1
<1>2. CASE Z(op) = 7
  <2>1. CASE Y(op) \in 0 .. 3
    BY <1>2, <2>1, AluCosts, Rows, SMTT(30) DEF Ed1
  <2>2. CASE Y(op) \in 4 .. 7
    BY <1>2, <2>2, AluCosts, NullCosts, Rows DEF Ed1
  <2> HIDE DEF Accounted
  <2> QED BY <2>1, <2>2
<1> HIDE DEF Accounted, Entry
<1> QED BY <1>0, <1>1, <1>2, <1>3, <1>4, SMTT(30)

LEMMA EdAccounted ==
  ASSUME NEW op \in Opcode, NEW hl, Y(op) \in 0 .. 7, Z(op) \in 0 .. 7
  PROVE Accounted(ed_table[op], hl, 8, 2)
<1>0. CASE X(op) = 1
  <2>1. ed_table[op] = Ed1(op)
    BY <1>0 DEF ed_table
  <2> HIDE DEF Accounted
  <2> QED BY <2>1, Ed1Accounted
<1>1. CASE X(op) = 2 /\ Y(op) >= 4 /\ Z(op) < 4
  BY <1>1, BlockCosts, RepeatCosts, Rows DEF ed_table, Block
<1>2. CASE X(op) # 1 /\ ~(X(op) = 2 /\ Y(op) >= 4 /\ Z(op) < 4)
  BY <1>2, NullCosts, Rows DEF ed_table
<1> HIDE DEF Accounted, Entry
<1> QED BY <1>0, <1>1, <1>2

LEMMA CbAccounted ==
  ASSUME NEW op \in Opcode, NEW hl, Y(op) \in 0 .. 7, Z(op) \in 0 .. 7, hl <=> Z(op) = 6
  PROVE Accounted(cb_table[op], hl, 8, 2)
  BY BitCosts, BitMemoryCosts, Rows DEF cb_table, Rot

LEMMA DdcbAccounted ==
  ASSUME NEW op \in Opcode, NEW hl
  PROVE Accounted(ddcb_table[op], hl, 15, 4)
  BY IndexedBitCosts, Rows DEF ddcb_table

LEMMA Dd12Accounted ==
  ASSUME NEW op \in Opcode, NEW hl
  PROVE Dd12(op).exec = "null" \/ Accounted(Dd12(op), hl, 8, 2)
  BY IndexedLoadCosts, IndexedAluCosts, IndexedHalfCosts, Rows DEF Dd12

\* An entry of the indexed table, unless there is none.
LEMMA DdAccounted ==
  ASSUME NEW op \in Opcode, NEW hl
  PROVE dd_table[op].exec = "null" \/ Accounted(dd_table[op], hl, 8, 2)
<1>1. CASE op \in {33, 34, 42, 54}
  BY <1>1, IndexedLoadCosts, Rows, SMTT(30) DEF dd_table, X
<1>2. CASE op \in {35, 43, 36, 44, 37, 45}
  BY <1>2, IndexedPairCosts, Rows, SMTT(30) DEF dd_table, X
<1>3. CASE op \in {38, 46, 52, 53}
  BY <1>3, IndexedAluCosts, IndexedHalfCosts, Rows, SMTT(30) DEF dd_table, X
<1>4. CASE op \in {9, 25, 41, 57, 249, 229, 225, 227, 233}
  BY <1>4, IndexedPairCosts, Rows, SMTT(30) DEF dd_table, X
<1>5. CASE op \notin {33, 34, 42, 54, 35, 43, 36, 44, 37, 45, 38, 46, 52, 53,
                     9, 25, 41, 57, 249, 229, 225, 227, 233}
  <2>1. dd_table[op] = IF X(op) \in {1, 2} THEN Dd12(op) ELSE Null(0, 0)
    BY <1>5 DEF dd_table
  <2> HIDE DEF Accounted
  <2> QED BY <2>1, Dd12Accounted
<1> HIDE DEF Accounted, Entry
<1> QED BY <1>1, <1>2, <1>3, <1>4, <1>5

HIDE DEF Accounted, Entry, Null, Correction, Saved, KeepsQ, QIsF, Missing

\* The octal digits of an opcode.
LEMMA Digits ==
  ASSUME NEW op \in Opcode
  PROVE  /\ op = 64 * X(op) + 8 * Y(op) + Z(op)
         /\ X(op) \in 0 .. 3 /\ Y(op) \in 0 .. 7 /\ Z(op) \in 0 .. 7
         /\ IsOdd(op) <=> IsOdd(Z(op))
BY DEF Opcode, X, Y, Z, IsOdd

\* What reading the opcodes of a table has taken; a displacement counts as one.
Opcodes(t) == IF t = "main" THEN 4 ELSE IF t = "ddcb" THEN 15 ELSE 8
BytesOf(t) == IF t = "main" THEN 1 ELSE IF t = "ddcb" THEN 4 ELSE 2

LEMMA MainAccounted ==
  ASSUME NEW op \in Opcode, NEW hl, hl <=> Z(op) = 6
  PROVE  Accounted(main_table[op], hl, 4, 1)
<1>1. main_table[op] \in {Main0(op), Main1(op), Main2(op), Main3(op)}
  BY Digits DEF main_table
<1>2. QED BY <1>1, Digits, Main0Accounted, Main1Accounted, Main2Accounted, Main3Accounted

\* Of whichever table: the decoder looks nothing up that is not accounted for,
\* because it looks for indexed entries first.
LEMMA EntryAccounted ==
  ASSUME NEW t \in DOMAIN Tables, NEW op \in Opcode, NEW hl, hl <=> Z(op) = 6
  PROVE  \/ t = "dd" /\ Tables[t][op].exec = "null"
         \/ Accounted(Tables[t][op], hl, Opcodes(t), BytesOf(t))
<1>1. CASE t = "main"
  BY <1>1, MainAccounted DEF Tables, Opcodes, BytesOf
<1>2. CASE t = "cb"
  BY <1>2, Digits, CbAccounted DEF Tables, Opcodes, BytesOf
<1>3. CASE t = "ed"
  BY <1>3, Digits, EdAccounted DEF Tables, Opcodes, BytesOf
<1>4. CASE t = "dd"
  BY <1>4, DdAccounted DEF Tables, Opcodes, BytesOf
<1>5. CASE t = "ddcb"
  BY <1>5, DdcbAccounted DEF Tables, Opcodes, BytesOf
<1>6. QED BY <1>1, <1>2, <1>3, <1>4, <1>5 DEF Tables

-----------------------------------------------------------------------------
(* One cycle after another.                                                *)

\* A capped count is as good as the count.
LEMMA CappedSum ==
  ASSUME NEW x \in Int, NEW n \in Nat, NEW max \in Nat
  PROVE  Capped(Capped(x, max) + n, max) = Capped(x + n, max)
BY DEF Capped

\* Taking a cycle off moves the others up.
LEMMA TailCycles ==
  ASSUME NEW s \in Seq(Cycle), Len(s) <= 6, s # <<>>
  PROVE  /\ Tail(s) \in Seq(Cycle) /\ Len(Tail(s)) = Len(s) - 1 /\ Len(s) \in 1 .. 6
         /\ \A i \in 1 .. Len(Tail(s)) : Tail(s)[i] = s[i + 1]
         /\ \A i \in 1 .. Len(s) : s[i] \in Cycle
         /\ Head(s) = s[1]
<1>1. Tail(s) \in Seq(Cycle) /\ Len(Tail(s)) = Len(s) - 1
  BY HeadTailProperties
<1>2. \A i \in 1 .. Len(Tail(s)) : Tail(s)[i] = s[i + 1]
  BY HeadTailProperties
<1>3. \A i \in 1 .. Len(s) : s[i] \in Cycle
  BY ElementOfSeq
<1>4. Head(s) = s[1]
  OBVIOUS
<1>5. Len(s) \in 1 .. 6
  <2>1. Len(s) \in Nat \ {0}
    BY EmptySeq, Zenon
  <2>2. \A n \in Nat \ {0} : n <= 6 => n \in 1 .. 6
    OBVIOUS
  <2>3. QED BY <2>1, <2>2, Zenon
<1> QED BY <1>1, <1>2, <1>3, <1>4, <1>5

LEMMA TimeAtType ==
  ASSUME NEW s \in Seq(Cycle), NEW i \in Nat \ {0}
  PROVE  TimeAt(s, i) \in Int /\ OperandAt(s, i) \in {0, 1}
<1>1. i <= Len(s) => s[i] \in Cycle
  BY ElementOfSeq
<1>2. i <= Len(s) => s[i].t \in Int
  BY <1>1 DEF Cycle
<1> QED BY <1>2 DEF TimeAt, OperandAt

LEMMA ShiftTime ==
  ASSUME NEW s, NEW r,
         TimeAt(s, 1) \in Int,
         TimeAt(s, 2) \in Int,
         TimeAt(s, 3) \in Int,
         TimeAt(s, 4) \in Int,
         TimeAt(s, 5) \in Int,
         TimeAt(s, 6) \in Int,
         TimeAt(r, 1) = TimeAt(s, 2),
         TimeAt(r, 2) = TimeAt(s, 3),
         TimeAt(r, 3) = TimeAt(s, 4),
         TimeAt(r, 4) = TimeAt(s, 5),
         TimeAt(r, 5) = TimeAt(s, 6),
         TimeAt(r, 6) = 0
  PROVE  Time(s) \in Int /\ Time(r) = Time(s) - TimeAt(s, 1)
BY DEF Time

LEMMA ShiftOperands ==
  ASSUME NEW s, NEW r,
         OperandAt(s, 1) \in Int,
         OperandAt(s, 2) \in Int,
         OperandAt(s, 3) \in Int,
         OperandAt(s, 4) \in Int,
         OperandAt(s, 5) \in Int,
         OperandAt(s, 6) \in Int,
         OperandAt(r, 1) = OperandAt(s, 2),
         OperandAt(r, 2) = OperandAt(s, 3),
         OperandAt(r, 3) = OperandAt(s, 4),
         OperandAt(r, 4) = OperandAt(s, 5),
         OperandAt(r, 5) = OperandAt(s, 6),
         OperandAt(r, 6) = 0
  PROVE  Operands(s) \in Int /\ Operands(r) = Operands(s) - OperandAt(s, 1)
BY DEF Operands

\* A cycle that is done is no longer to come.
LEMMA SpendsTail ==
  ASSUME NEW s \in Seq(Cycle), Len(s) <= 6, s # <<>>
  PROVE  /\ Tail(s) \in Seq(Cycle) /\ Len(Tail(s)) <= 6
         /\ Head(s) \in Cycle
         /\ Time(s) \in Int /\ Operands(s) \in Int
         /\ Time(Tail(s)) = Time(s) - Head(s).t
         /\ Operands(Tail(s)) = Operands(s) - (IF Head(s).on = "operand" THEN 1 ELSE 0)
<1>1. \A i \in 1 .. 5 : /\ TimeAt(Tail(s), i) = TimeAt(s, i + 1)
                        /\ OperandAt(Tail(s), i) = OperandAt(s, i + 1)
  BY TailCycles DEF TimeAt, OperandAt
<1>2. TimeAt(Tail(s), 6) = 0 /\ OperandAt(Tail(s), 6) = 0
  BY TailCycles DEF TimeAt, OperandAt
<1>3. /\ TimeAt(s, 1) = Head(s).t
      /\ OperandAt(s, 1) = (IF Head(s).on = "operand" THEN 1 ELSE 0)
  BY TailCycles DEF TimeAt, OperandAt
<1>4. /\ TimeAt(Tail(s), 1) = TimeAt(s, 2) /\ OperandAt(Tail(s), 1) = OperandAt(s, 2)
      /\ TimeAt(Tail(s), 2) = TimeAt(s, 3) /\ OperandAt(Tail(s), 2) = OperandAt(s, 3)
      /\ TimeAt(Tail(s), 3) = TimeAt(s, 4) /\ OperandAt(Tail(s), 3) = OperandAt(s, 4)
      /\ TimeAt(Tail(s), 4) = TimeAt(s, 5) /\ OperandAt(Tail(s), 4) = OperandAt(s, 5)
      /\ TimeAt(Tail(s), 5) = TimeAt(s, 6) /\ OperandAt(Tail(s), 5) = OperandAt(s, 6)
  BY <1>1
<1>5. /\ TimeAt(s, 1) \in Int /\ TimeAt(s, 2) \in Int /\ TimeAt(s, 3) \in Int
      /\ TimeAt(s, 4) \in Int /\ TimeAt(s, 5) \in Int /\ TimeAt(s, 6) \in Int
  BY TimeAtType
<1>6. /\ OperandAt(s, 1) \in Int /\ OperandAt(s, 2) \in Int /\ OperandAt(s, 3) \in Int
      /\ OperandAt(s, 4) \in Int /\ OperandAt(s, 5) \in Int /\ OperandAt(s, 6) \in Int
  BY TimeAtType, SMTT(30)
<1>7. Time(s) \in Int /\ Time(Tail(s)) = Time(s) - TimeAt(s, 1)
  BY <1>2, <1>4, <1>5, ShiftTime
<1>8. Operands(s) \in Int /\ Operands(Tail(s)) = Operands(s) - OperandAt(s, 1)
  BY <1>2, <1>4, <1>6, ShiftOperands
<1> QED BY <1>3, <1>7, <1>8, TailCycles

LEMMA Nothing == Time(<<>>) = 0 /\ Operands(<<>>) = 0
BY Spent DEF Spends

LEMMA CorrectionType ==
  ASSUME NEW exec, NEW tk
  PROVE  Correction(exec, tk) \in Int
BY DEF Correction, Saved

-----------------------------------------------------------------------------
(* What the decoder has to have read, and the handler still has to do.     *)

\* What has been read when a table is looked up, besides the prefixes that
\* Uncounted stands for: the index byte of DD CB is not an opcode fetch, so an
\* indexed bit operation takes one T-state less than its entry says.
Short(t) == IF t = "ddcb" THEN 1 ELSE 0
Due == (4 * Uncounted + entry.cycles + Correction(entry.exec, taken)) - Short(table)
Bytes == Uncounted + entry.length + Missing(entry.exec)

Handling ==
  /\ Len(todo) <= 6
  /\ entry.cycles \in Int /\ entry.length \in Int
  /\ clock = Capped(Due - Time(todo), MaxClock)
  /\ fetched = Capped(Bytes - Operands(todo), MaxClock)
  /\ entry.exec \notin KeepsQ => (entry.exec \in QIsF <=> entry.affects = TRUE)

\* Besides the prefixes, t T-states and n bytes.
Counted(t, n) == /\ clock = Capped(4 * prefixes + t, MaxClock)
                 /\ fetched = Capped(prefixes + n, MaxClock)

Fetching ==
  /\ stage \in {"CB", "ED"} => prefixes = 0 /\ Counted(4, 1)
  /\ stage = "index" => Counted(0, 0)
  /\ stage = "displacement" => Counted(4, 1)
  /\ stage = "index_opcode" => Counted(7, 2)

DecodeInv ==
  /\ TypeOK /\ code \in Codes
  /\ Fetching
  /\ stage = "handler" => Handling

\* Memory is a ring.
LEMMA Ring ==
  ASSUME code \in Codes
  PROVE  /\ Cardinality(Address) \in Nat \ {0}
         /\ Address = 0 .. (Cardinality(Address) - 1)
         /\ code \in [Address -> Opcode]
<1>1. /\ IsFiniteSet(Address) /\ Address # {}
      /\ Address = 0 .. (Cardinality(Address) - 1)
      /\ code \in [Address -> Opcode]
  BY DecodeAssumption DEF Address
<1>2. Cardinality(Address) \in Nat
  BY <1>1, FS_CardinalityType
<1>3. Cardinality(Address) # 0
  BY <1>1, FS_EmptySet
<1> QED BY <1>1, <1>2, <1>3

LEMMA Moved ==
  ASSUME code \in Codes, PC \in Address, NEW n \in Int
  PROVE  Move(n) \in Address
<1> DEFINE N == Cardinality(Address)
<1>1. N \in Nat \ {0} /\ Address = 0 .. (N - 1)
  BY Ring
<1> HIDE DEF N
<1>2. (PC + n) % N \in Address
  BY <1>1
<1> QED BY <1>2 DEF Move, N

\* What a lookup leaves.
LEMMA Dispatched ==
  ASSUME NEW t \in DOMAIN Tables, NEW op \in Opcode, Dispatch(t, op)
  PROVE  /\ stage' = "handler" /\ table' = t /\ opcode' = op /\ taken' \in BOOLEAN
         /\ entry' = Tables[t][op]
         /\ todo' = CyclesOf(Tables[t][op].exec, Z(op) = 6, taken')
  BY DEF Dispatch, entry

LEMMA DispatchedCosts ==
  ASSUME NEW t \in DOMAIN Tables, NEW op \in Opcode, Dispatch(t, op),
         ~(t = "dd" /\ Tables[t][op].exec = "null")
  PROVE  Accounted(Tables[t][op], Z(op) = 6, Opcodes(t), BytesOf(t))
  BY EntryAccounted, Zenon

\* What a lookup needs to know of the step so far.
Ready(t) == /\ clock' = Capped((4 * Uncounted' + Opcodes(t)) - Short(t), MaxClock)
            /\ fetched' = Capped(Uncounted' + BytesOf(t), MaxClock)

\* The sum that makes DispatchHandles.
LEMMA Balance ==
  ASSUME NEW u \in Int, NEW c \in Int, NEW d \in Int, NEW o \in Int, NEW s \in Int
  PROVE  ((4 * u + c + d) - s) - ((c - o) + d) = (4 * u + o) - s
OBVIOUS

\* After a lookup, the entry is what has been counted and what is to come.
LEMMA DispatchHandles ==
  ASSUME NEW t \in DOMAIN Tables, NEW op \in Opcode, Dispatch(t, op),
         ~(t = "dd" /\ Tables[t][op].exec = "null"),
         Uncounted' \in Int, Ready(t)
  PROVE  todo' \in Seq(Cycle) /\ Handling'
<1> DEFINE e == Tables[t][op]
           corr == Correction(e.exec, taken')
<1>1. /\ table' = t /\ taken' \in BOOLEAN /\ entry' = e
      /\ todo' = CyclesOf(e.exec, Z(op) = 6, taken')
  BY Dispatched
<1>2. Accounted(e, Z(op) = 6, Opcodes(t), BytesOf(t))
  BY DispatchedCosts
<1>3. /\ e.cycles \in Int /\ e.length \in Int
      /\ e.exec \notin KeepsQ => (e.exec \in QIsF <=> e.affects = TRUE)
      /\ Costs(e.exec, Z(op) = 6, taken', e.cycles - Opcodes(t) + corr,
               e.length - BytesOf(t) + Missing(e.exec))
  BY <1>1, <1>2 DEF Accounted
<1>4. /\ todo' \in Seq(Cycle) /\ Len(todo') <= 6
      /\ Time(todo') = e.cycles - Opcodes(t) + corr
      /\ Operands(todo') = e.length - BytesOf(t) + Missing(e.exec)
  BY <1>1, <1>3 DEF Costs, Spends
<1>5. corr \in Int
  BY CorrectionType
<1>6. /\ Opcodes(t) \in Int /\ BytesOf(t) \in Int
      /\ Short(t) \in Int /\ Missing(e.exec) \in Int
  BY DEF Opcodes, BytesOf, Short, Missing
<1>7. Due' - Time(todo)' = (4 * Uncounted' + Opcodes(t)) - Short(t)
  <2>1. Due' = (4 * Uncounted' + e.cycles + corr) - Short(t)
    BY <1>1 DEF Due
  <2>2. Due' - Time(todo)' = ((4 * Uncounted' + e.cycles + corr) - Short(t))
                              - ((e.cycles - Opcodes(t)) + corr)
    BY <2>1, <1>4, Zenon
  <2> QED BY <2>2, <1>3, <1>5, <1>6, Balance
<1>8. Bytes' - Operands(todo)' = Uncounted' + BytesOf(t)
  <2>1. Bytes' = Uncounted' + e.length + Missing(e.exec)
    BY <1>1 DEF Bytes
  <2> QED BY <2>1, <1>3, <1>4, <1>5, <1>6, SMTT(30)
<1> QED BY <1>1, <1>3, <1>4, <1>7, <1>8 DEF Handling, Ready

\* What a fetch finds.
LEMMA Reading ==
  ASSUME TypeOK, code \in Codes
  PROVE  /\ \A n \in Int : Move(n) \in Address
         /\ code[PC] \in Opcode /\ Refreshed \in Opcode
<1>1. PC \in Address /\ R \in Opcode
  BY DEF TypeOK
<1>2. Refreshed \in Opcode
  BY <1>1 DEF Refreshed, Opcode
<1> QED BY <1>1, <1>2, Ring, Moved

LEMMA CappedType ==
  ASSUME NEW n \in Nat
  PROVE  Capped(n, MaxClock) \in 0 .. MaxClock /\ Capped(n, MaxClock) \in Nat
BY DecodeAssumption DEF Capped

\* Two steps of the count make one.
LEMMA Spend ==
  ASSUME NEW x \in Int, NEW n \in Nat, NEW y, y = x + n
  PROVE  Capped(Capped(x, MaxClock) + n, MaxClock) = Capped(y, MaxClock)
BY CappedSum, DecodeAssumption

LEMMA DecodeInit == Init => DecodeInv
<1> SUFFICES ASSUME Init PROVE DecodeInv
  OBVIOUS
<1>1. code \in Codes /\ stage = "idle"
  BY DEF Init
<1>2. 0 \in Address /\ code \in [Address -> Opcode]
  <2> DEFINE N == Cardinality(Address)
  <2>1. N \in Nat \ {0} /\ Address = 0 .. (N - 1)
    BY <1>1, Ring
  <2> HIDE DEF N
  <2> QED BY <1>1, <2>1, Ring
<1>3. TypeOK
  <2>1. table \in DOMAIN Tables /\ todo \in Seq(Cycle)
    BY DEF Init, Tables
  <2>2. R \in Opcode /\ opcode \in Opcode
    BY DecodeAssumption DEF Init, Opcode
  <2>3. clock \in 0 .. MaxClock /\ steps \in 0 .. MaxSteps /\ raises \in 0 .. MaxRaises
    BY DecodeAssumption DEF Init
  <2> QED BY <1>2, <2>1, <2>2, <2>3 DEF Init, TypeOK, Stages
<1>4. Fetching
  BY <1>1 DEF Fetching
<1> QED BY <1>1, <1>3, <1>4 DEF DecodeInv

\* Every action keeps the invariant.
LEMMA FirstDecodes ==
  ASSUME DecodeInv, FetchFirst
  PROVE  DecodeInv'
<1> DEFINE op == code[PC]
<1>1. /\ op \in Opcode /\ Refreshed \in Opcode /\ Move(1) \in Address
      /\ TypeOK /\ code \in Codes
  BY Reading DEF DecodeInv
<1>2. /\ R' = Refreshed /\ PC' = Move(1) /\ clock' = 4 /\ fetched' = 1
      /\ steps' = steps + 1 /\ steps < MaxSteps
      /\ UNCHANGED <<code, Q, raises>>
  BY DEF FetchFirst
<1>3. /\ active_index' \in {"IX", "IY"} /\ asked' \subseteq {"IX", "IY"}
      /\ prefixes' \in {0, 1}
  BY <1>1 DEF FetchFirst, Asks, TypeOK
<1>4. /\ stage' \in Stages /\ table' \in DOMAIN Tables /\ opcode' \in Opcode
      /\ taken' \in BOOLEAN /\ todo' \in Seq(Cycle)
      /\ Fetching' /\ (stage' = "handler" => Handling')
  <2>0. /\ Capped(4 * 1 + 0, MaxClock) = 4 /\ Capped(4 * 0 + 4, MaxClock) = 4
        /\ Capped((4 * 0 + 4) - 0, MaxClock) = 4
        /\ Capped(1 + 0, MaxClock) = 1 /\ Capped(0 + 1, MaxClock) = 1
    BY DecodeAssumption DEF Capped
  <2>1. CASE stage' = "index" /\ UNCHANGED dispatched /\ prefixes' = 1
    BY <1>1, <1>2, <2>0, <2>1 DEF TypeOK, Fetching, Counted, dispatched, Stages
  <2>2. CASE stage' \in {"CB", "ED"} /\ UNCHANGED dispatched /\ prefixes' = 0
    BY <1>1, <1>2, <2>0, <2>2 DEF TypeOK, Fetching, Counted, dispatched, Stages
  <2>3. CASE Dispatch("main", op) /\ prefixes' = 0
    <3>1. /\ "main" \in DOMAIN Tables
          /\ stage' = "handler" /\ table' = "main" /\ opcode' = op /\ taken' \in BOOLEAN
      BY <1>1, <2>3, Dispatched DEF Tables
    <3>2. Uncounted' = 0 /\ Uncounted' \in Int
      BY <2>3, <3>1 DEF Uncounted
    <3>3. Ready("main")
      BY <1>2, <2>0, <3>2 DEF Ready, Opcodes, BytesOf, Short
    <3>4. todo' \in Seq(Cycle) /\ Handling'
      BY <1>1, <2>3, <3>1, <3>2, <3>3, DispatchHandles
    <3>5. Fetching'
      BY <3>1 DEF Fetching
    <3> QED BY <1>1, <3>1, <3>4, <3>5 DEF Stages
  <2>4. \/ stage' = "index" /\ UNCHANGED dispatched /\ prefixes' = 1
        \/ stage' \in {"CB", "ED"} /\ UNCHANGED dispatched /\ prefixes' = 0
        \/ Dispatch("main", op) /\ prefixes' = 0
    BY DEF FetchFirst, Wait
  <2> QED BY <2>1, <2>2, <2>3, <2>4
<1>5. clock' \in 0 .. MaxClock /\ steps' \in 0 .. MaxSteps
  BY <1>1, <1>2, DecodeAssumption DEF TypeOK
<1>6. TypeOK'
  BY <1>1, <1>2, <1>3, <1>4, <1>5 DEF TypeOK, Address
<1> QED BY <1>1, <1>2, <1>4, <1>6 DEF DecodeInv

LEMMA SecondDecodes ==
  ASSUME DecodeInv, FetchSecond
  PROVE  DecodeInv'
<1> DEFINE op == code[PC]
<1>1. /\ op \in Opcode /\ Refreshed \in Opcode /\ Move(1) \in Address
      /\ TypeOK /\ code \in Codes
  BY Reading DEF DecodeInv
<1>2. /\ R' = Refreshed /\ PC' = Move(1)
      /\ clock' = Capped(clock + 4, MaxClock) /\ fetched' = Capped(fetched + 1, MaxClock)
      /\ UNCHANGED <<code, Q, active_index, asked, prefixes, steps, raises>>
  BY DEF FetchSecond, FetchOpcode, indexing
<1>3. /\ clock = Capped(4, MaxClock) /\ fetched = Capped(1, MaxClock) /\ prefixes = 0
  BY DEF DecodeInv, Fetching, Counted, FetchSecond
<1>4. clock' = Capped(8, MaxClock) /\ fetched' = Capped(2, MaxClock)
  BY <1>2, <1>3, Spend
<1>5. PICK t \in {"cb", "ed"} : Dispatch(t, op)
  BY DEF FetchSecond
<1>6. /\ t \in DOMAIN Tables /\ t # "dd"
      /\ stage' = "handler" /\ table' = t /\ opcode' = op /\ taken' \in BOOLEAN
  BY <1>1, <1>5, Dispatched DEF Tables
<1>7. Uncounted' = 0 /\ Uncounted' \in Int
  BY <1>2, <1>3, <1>5, <1>6 DEF Uncounted
<1>8. Ready(t)
  <2>1. Opcodes(t) = 8 /\ BytesOf(t) = 2 /\ Short(t) = 0
    BY <1>5 DEF Opcodes, BytesOf, Short
  <2>2. (4 * Uncounted' + Opcodes(t)) - Short(t) = 8 /\ Uncounted' + BytesOf(t) = 2
    BY <1>7, <2>1
  <2> QED BY <1>4, <2>2 DEF Ready
<1>9. todo' \in Seq(Cycle) /\ Handling'
  BY <1>1, <1>5, <1>6, <1>7, <1>8, DispatchHandles
<1>10. TypeOK'
  BY <1>1, <1>2, <1>4, <1>6, <1>9, CappedType DEF TypeOK, Address, Stages
<1>11. Fetching'
  BY <1>6 DEF Fetching
<1> QED BY <1>1, <1>2, <1>9, <1>10, <1>11 DEF DecodeInv

LEMMA IndexedDecodes ==
  ASSUME DecodeInv, FetchIndexed
  PROVE  DecodeInv'
<1> DEFINE op == code[PC]
<1>1. /\ op \in Opcode /\ Refreshed \in Opcode /\ Move(1) \in Address
      /\ TypeOK /\ code \in Codes /\ prefixes \in Nat
  BY Reading DEF DecodeInv, TypeOK
<1>2. /\ R' = Refreshed /\ PC' = Move(1)
      /\ clock' = Capped(clock + 4, MaxClock) /\ fetched' = Capped(fetched + 1, MaxClock)
      /\ UNCHANGED <<code, Q, active_index, steps, raises>>
      /\ asked \subseteq {"IX", "IY"} => asked' \subseteq {"IX", "IY"}
  BY DEF FetchIndexed, FetchOpcode, Asks
<1>3. /\ clock = Capped(4 * prefixes, MaxClock) /\ fetched = Capped(prefixes, MaxClock)
  <2>1. Counted(0, 0)
    BY DEF DecodeInv, Fetching, FetchIndexed
  <2>2. 4 * prefixes + 0 = 4 * prefixes /\ prefixes + 0 = prefixes
    BY <1>1
  <2> QED BY <2>1, <2>2 DEF Counted
<1>4. /\ clock' = Capped(4 * prefixes + 4, MaxClock)
      /\ fetched' = Capped(prefixes + 1, MaxClock)
  BY <1>1, <1>2, <1>3, Spend
<1>5. /\ stage' \in Stages /\ table' \in DOMAIN Tables /\ opcode' \in Opcode
      /\ taken' \in BOOLEAN /\ todo' \in Seq(Cycle) /\ prefixes' \in Nat
      /\ Fetching' /\ (stage' = "handler" => Handling')
  <2>1. CASE /\ stage' = "index" /\ UNCHANGED dispatched
             /\ prefixes' = Capped(prefixes + 1, MaxClock)
    \* Beyond the bound both counts stay at it.
    <3>1. /\ Capped(4 * prefixes' + 0, MaxClock) = Capped(4 * prefixes + 4, MaxClock)
          /\ Capped(prefixes' + 0, MaxClock) = Capped(prefixes + 1, MaxClock)
          /\ prefixes' \in Nat
      BY <1>1, <2>1, DecodeAssumption DEF Capped
    <3>2. Fetching'
      BY <1>4, <2>1, <3>1 DEF Fetching, Counted
    <3> QED BY <1>1, <2>1, <3>1, <3>2 DEF TypeOK, dispatched, Stages
  <2>2. CASE stage' = "displacement" /\ UNCHANGED dispatched /\ UNCHANGED prefixes
    <3>1. Fetching'
      BY <1>4, <2>2 DEF Fetching, Counted
    <3> QED BY <1>1, <2>2, <3>1 DEF TypeOK, dispatched, Stages
  <2>3. ASSUME NEW t \in {"dd", "main"}, Dispatch(t, op), UNCHANGED prefixes,
               t = "dd" => Tables[t][op].exec # "null"
        PROVE  /\ stage' \in Stages /\ table' \in DOMAIN Tables /\ opcode' \in Opcode
               /\ taken' \in BOOLEAN /\ todo' \in Seq(Cycle) /\ prefixes' \in Nat
               /\ Fetching' /\ (stage' = "handler" => Handling')
    <3>1. /\ t \in DOMAIN Tables
          /\ stage' = "handler" /\ table' = t /\ opcode' = op /\ taken' \in BOOLEAN
      BY <1>1, <2>3, Dispatched DEF Tables
    <3>2. /\ Uncounted' = (IF t = "dd" THEN prefixes - 1 ELSE prefixes)
          /\ Uncounted' \in Int
      BY <1>1, <2>3, <3>1 DEF Uncounted
    <3>3. Ready(t)
      <4>1. /\ Opcodes(t) = (IF t = "dd" THEN 8 ELSE 4)
            /\ BytesOf(t) = (IF t = "dd" THEN 2 ELSE 1) /\ Short(t) = 0
        BY <2>3 DEF Opcodes, BytesOf, Short
      <4>2. /\ (4 * Uncounted' + Opcodes(t)) - Short(t) = 4 * prefixes + 4
            /\ Uncounted' + BytesOf(t) = prefixes + 1
        BY <1>1, <3>2, <4>1
      <4> QED BY <1>4, <4>2 DEF Ready
    <3>4. todo' \in Seq(Cycle) /\ Handling'
      BY <1>1, <2>3, <3>1, <3>2, <3>3, DispatchHandles
    <3>5. Fetching'
      BY <3>1 DEF Fetching
    <3> QED BY <1>1, <2>3, <3>1, <3>4, <3>5 DEF Stages
  <2>4. \/ /\ stage' = "index" /\ UNCHANGED dispatched
           /\ prefixes' = Capped(prefixes + 1, MaxClock)
        \/ stage' = "displacement" /\ UNCHANGED dispatched /\ UNCHANGED prefixes
        \/ Dispatch("dd", op) /\ dd_table[op].exec # "null" /\ UNCHANGED prefixes
        \/ Dispatch("main", op) /\ UNCHANGED prefixes
    BY DEF FetchIndexed, Wait
  <2>5. Tables["dd"][op] = dd_table[op]
    BY DEF Tables
  <2> QED BY <2>1, <2>2, <2>3, <2>4, <2>5
<1>6. TypeOK'
  BY <1>1, <1>2, <1>4, <1>5, CappedType, SMTT(30) DEF TypeOK, Address
<1> QED BY <1>1, <1>2, <1>5, <1>6 DEF DecodeInv

LEMMA IndexedBitDecodes ==
  ASSUME DecodeInv, FetchIndexedBit
  PROVE  DecodeInv'
<1> DEFINE op == code[PC]
<1>1. /\ op \in Opcode /\ Move(1) \in Address
      /\ TypeOK /\ code \in Codes /\ prefixes \in Nat
  BY Reading DEF DecodeInv, TypeOK
<1>2. /\ UNCHANGED R /\ PC' = Move(1)
      /\ clock' = Capped(clock + 3, MaxClock) /\ fetched' = Capped(fetched + 1, MaxClock)
      /\ UNCHANGED <<code, Q, active_index, asked, prefixes, steps, raises>>
  BY DEF FetchIndexedBit, FetchByte, indexing
<1>3. CASE stage = "displacement" /\ Wait("index_opcode")
  <2>1. Counted(4, 1)
    BY <1>3 DEF DecodeInv, Fetching
  <2>2. /\ clock' = Capped(4 * prefixes + 7, MaxClock)
        /\ fetched' = Capped(prefixes + 2, MaxClock)
    BY <1>1, <1>2, <2>1, Spend DEF Counted
  <2>3. Fetching'
    BY <1>2, <1>3, <2>2 DEF Fetching, Counted, Wait
  <2>4. TypeOK'
    BY <1>1, <1>2, <1>3, <2>2, CappedType, SMTT(30)
    DEF TypeOK, Address, Wait, dispatched, Stages
  <2> QED BY <1>1, <1>2, <1>3, <2>3, <2>4 DEF DecodeInv, Wait
<1>4. CASE stage = "index_opcode" /\ Dispatch("ddcb", op)
  <2>1. Counted(7, 2)
    BY <1>4 DEF DecodeInv, Fetching
  <2>2. /\ clock' = Capped(4 * prefixes + 10, MaxClock)
        /\ fetched' = Capped(prefixes + 3, MaxClock)
    BY <1>1, <1>2, <2>1, Spend DEF Counted
  <2>3. /\ "ddcb" \in DOMAIN Tables
        /\ stage' = "handler" /\ table' = "ddcb" /\ opcode' = op /\ taken' \in BOOLEAN
    BY <1>1, <1>4, Dispatched DEF Tables
  <2>4. Uncounted' = prefixes - 1 /\ Uncounted' \in Int
    BY <1>1, <1>2, <2>3 DEF Uncounted
  <2>5. Ready("ddcb")
    <3>1. Opcodes("ddcb") = 15 /\ BytesOf("ddcb") = 4 /\ Short("ddcb") = 1
      BY DEF Opcodes, BytesOf, Short
    <3>2. /\ (4 * Uncounted' + Opcodes("ddcb")) - Short("ddcb") = 4 * prefixes + 10
          /\ Uncounted' + BytesOf("ddcb") = prefixes + 3
      BY <1>1, <2>4, <3>1
    <3> QED BY <2>2, <3>2 DEF Ready
  <2>6. todo' \in Seq(Cycle) /\ Handling'
    BY <1>1, <1>4, <2>3, <2>4, <2>5, DispatchHandles
  <2>7. TypeOK'
    <3>1. clock' \in 0 .. MaxClock /\ fetched' \in Nat
      BY <1>1, <2>2, CappedType
    <3>2. code' \in [Address' -> Opcode] /\ PC' \in Address'
      BY <1>1, <1>2 DEF TypeOK, Address
    <3> QED BY <1>1, <1>2, <2>3, <2>6, <3>1, <3>2 DEF TypeOK, Stages
  <2>8. Fetching'
    BY <2>3 DEF Fetching
  <2> QED BY <1>1, <1>2, <2>6, <2>7, <2>8 DEF DecodeInv
<1> QED BY <1>3, <1>4 DEF FetchIndexedBit

LEMMA CycleDecodes ==
  ASSUME DecodeInv, BusCycle
  PROVE  DecodeInv'
<1>1. /\ Move(1) \in Address /\ TypeOK /\ code \in Codes /\ Handling
      /\ PC \in Address /\ prefixes \in Nat
      /\ todo \in Seq(Cycle) /\ Len(todo) <= 6 /\ todo # <<>>
  BY Reading DEF DecodeInv, TypeOK, Handling, BusCycle
<1>2. /\ stage = "handler" /\ todo' = Tail(todo)
      /\ clock' = Capped(clock + Head(todo).t, MaxClock)
      /\ UNCHANGED <<code, R, Q, stage, table, opcode, taken, active_index, prefixes,
                     asked, steps, raises>>
  BY DEF BusCycle, indexing
<1> DEFINE operand == IF Head(todo).on = "operand" THEN 1 ELSE 0
<1>3. /\ Tail(todo) \in Seq(Cycle) /\ Len(Tail(todo)) <= 6 /\ Head(todo) \in Cycle
      /\ Time(todo) \in Int /\ Operands(todo) \in Int
      /\ Time(Tail(todo)) = Time(todo) - Head(todo).t
      /\ Operands(Tail(todo)) = Operands(todo) - operand
  BY <1>1, SpendsTail
<1>4. Head(todo).t \in Nat /\ operand \in Nat
  BY <1>3 DEF Cycle
<1>5. /\ clock \in 0 .. MaxClock /\ fetched \in Nat
      /\ fetched = Capped(Bytes - Operands(todo), MaxClock)
      /\ clock = Capped(Due - Time(todo), MaxClock)
      /\ entry.cycles \in Int /\ entry.length \in Int
  BY <1>1 DEF TypeOK, Handling
<1>6. /\ Due' = Due /\ Bytes' = Bytes /\ entry' = entry
  BY <1>2 DEF Due, Bytes, Uncounted, entry
<1>7. Due \in Int /\ Bytes \in Int
  <2>1. Uncounted \in Int /\ Short(table) \in Int /\ Missing(entry.exec) \in Int
    BY <1>1 DEF Uncounted, Short, Missing
  <2>2. Correction(entry.exec, taken) \in Int
    BY CorrectionType
  <2> QED BY <1>5, <2>1, <2>2 DEF Due, Bytes
<1>8. clock' = Capped(Due' - Time(todo'), MaxClock)
  <2>1. (Due - Time(todo)) + Head(todo).t = Due - Time(Tail(todo))
    BY <1>3, <1>4, <1>7
  <2>2. Due - Time(todo) \in Int
    BY <1>3, <1>7
  <2>3. Capped(Capped(Due - Time(todo), MaxClock) + Head(todo).t, MaxClock)
          = Capped(Due - Time(Tail(todo)), MaxClock)
    <3> DEFINE x == Due - Time(todo)
               y == Due - Time(Tail(todo))
               n == Head(todo).t
    <3>1. x \in Int /\ n \in Nat /\ y = x + n
      BY <1>4, <2>1, <2>2
    <3> HIDE DEF x, y, n
    <3>2. Capped(Capped(x, MaxClock) + n, MaxClock) = Capped(y, MaxClock)
      BY <3>1, Spend
    <3> QED BY <3>2 DEF x, y, n
  <2> QED BY <1>2, <1>5, <1>6, <2>3
<1>9. /\ fetched' = Capped(Bytes' - Operands(todo'), MaxClock)
      /\ fetched' \in Nat /\ PC' \in Address
  <2>1. CASE Head(todo).on = "operand"
    <3>1. fetched' = Capped(fetched + 1, MaxClock) /\ PC' = Move(1)
      BY <2>1 DEF BusCycle
    <3>2. (Bytes - Operands(todo)) + 1 = Bytes - Operands(Tail(todo))
      BY <1>3, <1>7, <2>1
    <3>3. Bytes - Operands(todo) \in Int
      BY <1>3, <1>7
    <3>4. Capped(Capped(Bytes - Operands(todo), MaxClock) + 1, MaxClock)
            = Capped(Bytes - Operands(Tail(todo)), MaxClock)
      BY <3>2, <3>3, Spend
    <3> QED BY <1>1, <1>2, <1>5, <1>6, <3>1, <3>4, CappedType
  <2>2. CASE Head(todo).on # "operand"
    <3>1. UNCHANGED <<PC, fetched>>
      BY <2>2 DEF BusCycle
    <3>2. Operands(Tail(todo)) = Operands(todo)
      BY <1>3, <2>2
    <3> QED BY <1>1, <1>2, <1>5, <1>6, <3>1, <3>2
  <2> QED BY <2>1, <2>2
<1>10. clock' \in 0 .. MaxClock
  <2>1. clock + Head(todo).t \in Nat
    BY <1>4, <1>5
  <2> QED BY <1>2, <2>1, CappedType
<1>11. TypeOK'
  BY <1>1, <1>2, <1>3, <1>9, <1>10 DEF TypeOK, Address
<1>12. Handling'
  <2>1. entry.exec \notin KeepsQ => (entry.exec \in QIsF <=> entry.affects = TRUE)
    BY <1>1 DEF Handling
  <2> QED BY <1>2, <1>3, <1>5, <1>6, <1>8, <1>9, <2>1 DEF Handling
<1>13. Fetching'
  BY <1>2 DEF Fetching
<1> QED BY <1>1, <1>2, <1>11, <1>12, <1>13 DEF DecodeInv

LEMMA FinishDecodes ==
  ASSUME DecodeInv, Finish
  PROVE  DecodeInv'
<1>1. TypeOK /\ code \in Codes /\ PC \in Address
  BY DEF DecodeInv, TypeOK
<1>2. Move(-2) \in Address /\ Move(-1) \in Address
  BY <1>1, Moved
<1>3. PC' \in Address
  BY <1>1, <1>2 DEF Finish
<1>4. Q' \in {"0", "F"} /\ active_index' \in {"IX", "IY"}
  BY <1>1 DEF Finish, TypeOK
<1>5. /\ stage' = "idle"
      /\ UNCHANGED <<code, R, dispatched, clock, fetched, prefixes, asked, steps, raises>>
  BY DEF Finish
<1>6. TypeOK'
  BY <1>1, <1>3, <1>4, <1>5 DEF TypeOK, Address, dispatched, Stages
<1> QED BY <1>1, <1>5, <1>6 DEF DecodeInv, Fetching

LEMMA RaiseDecodes ==
  ASSUME DecodeInv, Raise
  PROVE  DecodeInv'
<1>1. TypeOK /\ code \in Codes /\ PC \in Address /\ Refreshed \in Opcode /\ clock \in Nat
  BY Reading DEF DecodeInv, TypeOK
<1>2. PICK n \in {0, 1}, t \in {0, 4} : Unwind(n, t)
  BY DEF Raise
<1>3. PC' \in Address
  BY <1>1, <1>2, Moved DEF Unwind
<1>4. clock' \in 0 .. MaxClock
  <2>1. clock + t \in Nat
    BY <1>1, <1>2
  <2> QED BY <1>2, <2>1, CappedType DEF Unwind
<1>5. R' \in Opcode /\ steps' \in 0 .. MaxSteps
  <2>1. R' = R \/ R' = Refreshed
    BY DEF Raise
  <2>2. \/ steps' = steps
        \/ steps' = steps + 1 /\ steps < MaxSteps
    BY DEF Raise
  <2>3. steps \in 0 .. MaxSteps /\ R \in Opcode
    BY <1>1 DEF TypeOK
  <2> QED BY <1>1, <2>1, <2>2, <2>3, DecodeAssumption
<1>6. raises' \in 0 .. MaxRaises
  BY <1>1, <1>2, DecodeAssumption DEF Unwind, TypeOK
<1>7. stage' = "idle" /\ UNCHANGED <<code, Q, dispatched, fetched, indexing>>
  BY <1>2 DEF Unwind
<1>8. TypeOK'
  BY <1>1, <1>3, <1>4, <1>5, <1>6, <1>7 DEF TypeOK, Address, dispatched, indexing, Stages
<1> QED BY <1>1, <1>7, <1>8 DEF DecodeInv, Fetching

LEMMA DecodeNext == ASSUME DecodeInv, [Next]_vars PROVE DecodeInv'
<1>1. CASE FetchFirst
  BY <1>1, FirstDecodes
<1>2. CASE FetchSecond
  BY <1>2, SecondDecodes
<1>3. CASE FetchIndexed
  BY <1>3, IndexedDecodes
<1>4. CASE FetchIndexedBit
  BY <1>4, IndexedBitDecodes
<1>5. CASE BusCycle
  BY <1>5, CycleDecodes
<1>6. CASE Finish
  BY <1>6, FinishDecodes
<1>7. CASE Raise
  BY <1>7, RaiseDecodes
<1>8. CASE UNCHANGED vars
  <2>1. /\ UNCHANGED <<code, PC, R, Q, stage, table, opcode, taken, todo, clock, fetched,
                       active_index, prefixes, asked, steps, raises>>
    BY <1>8 DEF vars, dispatched, indexing
  <2>2. TypeOK' /\ code' \in Codes
    BY <2>1 DEF DecodeInv, TypeOK, Address
  <2>3. Fetching'
    BY <2>1 DEF DecodeInv, Fetching, Counted
  <2>4. stage' = "handler" => Handling'
    BY <2>1 DEF DecodeInv, Handling, Due, Bytes, Uncounted, entry
  <2> QED BY <2>2, <2>3, <2>4 DEF DecodeInv
<1> QED BY <1>1, <1>2, <1>3, <1>4, <1>5, <1>6, <1>7, <1>8 DEF Next, Continue

\* At every point of an instruction, the time and the bytes counted so far and those
\* to come are what the table entry states, however many prefixes there are, whatever
\* memory holds, wherever callbacks raise.
THEOREM DecodesAsTabled == Spec => []DecodeInv
<1> QED BY DecodeInit, DecodeNext, PTL DEF Spec

\* The decoder stays within its types: it neither leaves the tables nor memory.
THEOREM DecoderTypes == Spec => []TypeOK
<1>1. DecodeInv => TypeOK
  BY DEF DecodeInv
<1> QED BY <1>1, DecodesAsTabled, PTL

\* Every instruction but the indexed bit operations, from any memory and with one
\* index prefix at most, takes the T-states its table entry states, corrected for
\* the condition or the repetition.
THEOREM EntriesGiveTheTime == Spec => []TimeAsTabled
<1>1. DecodeInv => TimeAsTabled
  <2> SUFFICES ASSUME DecodeInv, Complete, table # "ddcb"
               PROVE  clock = Capped(4 * Uncounted + entry.cycles
                                       + Correction(entry.exec, taken), MaxClock)
    BY DEF TimeAsTabled
  <2>1. Handling /\ todo = <<>> /\ prefixes \in Nat
    BY DEF DecodeInv, Complete, TypeOK
  <2>2. Uncounted \in Int /\ Short(table) = 0
    BY <2>1 DEF Uncounted, Short
  <2>3. Correction(entry.exec, taken) \in Int
    BY CorrectionType
  <2>4. entry.cycles \in Int /\ clock = Capped(Due - Time(todo), MaxClock)
    BY <2>1 DEF Handling
  <2>5. Due - Time(todo) = 4 * Uncounted + entry.cycles + Correction(entry.exec, taken)
    BY <2>1, <2>2, <2>3, <2>4, Nothing DEF Due
  <2> QED BY <2>4, <2>5
<1> QED BY <1>1, DecodesAsTabled, PTL

\* Decoder and handler together read as many bytes as the table entry states, but for
\* LD (IX+d),n and LD (IY+d),n, so that the next step begins behind the last operand,
\* from any memory, with one index prefix at most and none before ED.
THEOREM EntriesGiveTheLength == Spec => []LengthAsTabled
<1>1. DecodeInv => LengthAsTabled
  <2> SUFFICES ASSUME DecodeInv, Complete, entry.exec # "dd_fd_ld_ixd_n"
               PROVE  fetched = Capped(Uncounted + entry.length, MaxClock)
    BY DEF LengthAsTabled
  <2>1. Handling /\ todo = <<>> /\ prefixes \in Nat
    BY DEF DecodeInv, Complete, TypeOK
  <2>2. Uncounted \in Int /\ Missing(entry.exec) = 0
    BY <2>1 DEF Uncounted, Missing
  <2>3. entry.length \in Int /\ fetched = Capped(Bytes - Operands(todo), MaxClock)
    BY <2>1 DEF Handling
  <2>4. Bytes - Operands(todo) = Uncounted + entry.length
    BY <2>1, <2>2, <2>3, Nothing DEF Bytes
  <2> QED BY <2>3, <2>4
<1> QED BY <1>1, DecodesAsTabled, PTL

\* A handler leaves F in Q exactly if the affects column of its entry says so.
THEOREM EntriesGiveQ == Spec => QAsTabled
<1>1. DecodeInv /\ [Next]_vars =>
        [Finish /\ entry.exec \notin KeepsQ => (Q' = "F" <=> entry.affects)]_vars
  <2> SUFFICES ASSUME DecodeInv, Finish, entry.exec \notin KeepsQ
               PROVE  Q' = "F" <=> entry.affects
    OBVIOUS
  <2>1. entry.exec \in QIsF <=> entry.affects = TRUE
    BY DEF DecodeInv, Handling, Finish
  <2>2. Q' = "F" <=> entry.exec \in QIsF
    BY DEF Finish
  <2> QED BY <2>1, <2>2
<1> QED BY <1>1, DecodesAsTabled, PTL DEF Spec, QAsTabled

-----------------------------------------------------------------------------
(* Operands: the names a prefix replaces.                                  *)

\* The substitution on lists of no, one and two operands.
LEMMA NoneReplaced == ASSUME NEW w PROVE Substituted(Does(w, <<>>)) = Does(w, <<>>)
BY DEF Substituted, Does

LEMMA OneReplaced ==
  ASSUME NEW w, NEW a
  PROVE  Substituted(Does(w, <<a>>)) = Does(w, <<IF a = "(HL)" THEN "(I+d)" ELSE Half(a)>>)
<1> DEFINE f == [i \in DOMAIN <<a>> |-> IF "(HL)" \in Names(<<a>>) THEN Pointer(<<a>>[i])
                                        ELSE Half(<<a>>[i])]
<1>0. "(HL)" \in Names(<<a>>) <=> a = "(HL)"
  BY DEF Names
<1>1. DOMAIN <<a>> = {1} /\ <<a>>[1] = a
  OBVIOUS
<1>2. f = <<IF a = "(HL)" THEN "(I+d)" ELSE Half(a)>>
  BY <1>0, <1>1 DEF Pointer
<1>3. Does(w, <<a>>).on = <<a>>
  BY DEF Does
<1>4. Substituted(Does(w, <<a>>)) = [Does(w, <<a>>) EXCEPT !.on = f]
  BY <1>3 DEF Substituted
<1> HIDE DEF f
<1>5. Substituted(Does(w, <<a>>)) = Does(w, f)
  BY <1>4 DEF Does
<1> QED BY <1>2, <1>5

LEMMA TwoReplaced ==
  ASSUME NEW w, NEW a, NEW b
  PROVE  Substituted(Does(w, <<a, b>>)) =
           Does(w, IF a = "(HL)" \/ b = "(HL)" THEN <<Pointer(a), Pointer(b)>>
                                              ELSE <<Half(a), Half(b)>>)
<1> DEFINE f == [i \in DOMAIN <<a, b>> |->
                   IF "(HL)" \in Names(<<a, b>>) THEN Pointer(<<a, b>>[i])
                                                 ELSE Half(<<a, b>>[i])]
<1>0. "(HL)" \in Names(<<a, b>>) <=> a = "(HL)" \/ b = "(HL)"
  BY DEF Names
<1>1. DOMAIN <<a, b>> = {1, 2} /\ <<a, b>>[1] = a /\ <<a, b>>[2] = b
  OBVIOUS
<1>2. f = IF a = "(HL)" \/ b = "(HL)" THEN <<Pointer(a), Pointer(b)>>
                                     ELSE <<Half(a), Half(b)>>
  BY <1>0, <1>1
<1>3. Does(w, <<a, b>>).on = <<a, b>>
  BY DEF Does
<1>4. Substituted(Does(w, <<a, b>>)) = [Does(w, <<a, b>>) EXCEPT !.on = f]
  BY <1>3 DEF Substituted
<1> HIDE DEF f
<1>5. Substituted(Does(w, <<a, b>>)) = Does(w, f)
  BY <1>4 DEF Does
<1> QED BY <1>2, <1>5

\* The registers of an opcode: the index halves follow the eight plain ones.
LEMMA RegNames ==
  ASSUME NEW i \in 0 .. 7
  PROVE  /\ Reg(i) = "(HL)" <=> i = 6
         /\ Pointer(Reg(i)) = (IF i = 6 THEN "(I+d)" ELSE Reg(i))
         /\ i # 6 => Half(Reg(i)) = Reg(Remap(i))
         /\ i \notin {4, 5} => Remap(i) = i
         /\ Reg(6) = "(HL)" /\ Reg(9) = "IL" /\ Reg(8) = "IH"
         /\ Remap(4) = 8 /\ Remap(5) = 9
BY DEF Reg, Remap, Pointer, Half

\* The plain handlers with an operand that a prefix may replace.
LEMMA Plains ==
  ASSUME NEW op
  PROVE  /\ Plain("ld_r_r", op) = Does("ld", <<Reg(Y(op)), Reg(Z(op))>>)
         /\ Plain("ld_r_hl", op) = Does("ld", <<Reg(Y(op)), Reg(Z(op))>>)
         /\ Plain("ld_hl_r", op) = Does("ld", <<Reg(Y(op)), Reg(Z(op))>>)
         /\ Plain("ld_r_n", op) = Does("ld", <<Reg(Y(op)), "n">>)
         /\ Plain("ld_hl_n", op) = Does("ld", <<"(HL)", "n">>)
         /\ Plain("inc_r", op) = Does("inc", <<Reg(Y(op))>>)
         /\ Plain("dec_r", op) = Does("dec", <<Reg(Y(op))>>)
         /\ Plain("inc_hl", op) = Does("inc", <<"(HL)">>)
         /\ Plain("dec_hl", op) = Does("dec", <<"(HL)">>)
         /\ Plain("ld_rr_nn", op) = Does("ld", <<Rp(op), "nn">>)
         /\ Plain("inc_rr", op) = Does("inc", <<Rp(op)>>)
         /\ Plain("dec_rr", op) = Does("dec", <<Rp(op)>>)
         /\ Plain("add_hl_rr", op) = Does("add", <<"HL", Rp(op)>>)
         /\ Plain("ld_nn_hl", op) = Does("ld", <<"(nn)", "HL">>)
         /\ Plain("ld_hl_nn", op) = Does("ld", <<"HL", "(nn)">>)
         /\ Plain("ld_sp_hl", op) = Does("ld", <<"SP", "HL">>)
         /\ Plain("push_rr", op) = Does("push", <<StackRp(op)>>)
         /\ Plain("pop_rr", op) = Does("pop", <<StackRp(op)>>)
         /\ Plain("ex_sp_hl", op) = Does("ex", <<"(SP)", "HL">>)
         /\ Plain("jp_hl", op) = Does("jp", <<"HL">>)
         /\ \A exec \in Names(Alu) : Plain(exec, op) = Does(exec, <<Reg(Z(op))>>)
BY Rows DEF Plain

\* The handlers that name none of the operands a prefix replaces.
Fixed(exec) ==
  exec \notin {"ld_r_r", "ld_r_hl", "ld_hl_r", "ld_r_n", "ld_hl_n", "inc_r", "dec_r",
               "inc_hl", "dec_hl", "ld_rr_nn", "inc_rr", "dec_rr", "add_hl_rr", "ld_nn_hl",
               "ld_hl_nn", "ld_sp_hl", "push_rr", "pop_rr", "ex_sp_hl", "jp_hl"}
              \cup Names(Alu)

\* The others have none.
LEMMA FixedPlain ==
  ASSUME NEW exec, NEW op, Fixed(exec)
  PROVE  Plain(exec, op) = Does(exec, <<>>)
BY DEF Plain, Fixed

\* Without (HL), H and L are replaced.
LEMMA HalvesReplaced ==
  ASSUME NEW w, NEW a, NEW b, a # "(HL)", b # "(HL)"
  PROVE  Substituted(Does(w, <<a, b>>)) = Does(w, <<Half(a), Half(b)>>)
BY TwoReplaced

\* The operands of the listed entries.
LEMMA ListedSubstituted ==
  ASSUME NEW w
  PROVE  /\ Substituted(Does(w, <<"HL">>)) = Does(w, <<"I">>)
         /\ Substituted(Does(w, <<"H">>)) = Does(w, <<"IH">>)
         /\ Substituted(Does(w, <<"L">>)) = Does(w, <<"IL">>)
         /\ Substituted(Does(w, <<"(HL)">>)) = Does(w, <<"(I+d)">>)
         /\ Substituted(Does(w, <<"H", "n">>)) = Does(w, <<"IH", "n">>)
         /\ Substituted(Does(w, <<"L", "n">>)) = Does(w, <<"IL", "n">>)
         /\ Substituted(Does(w, <<"(HL)", "n">>)) = Does(w, <<"(I+d)", "n">>)
         /\ Substituted(Does(w, <<"HL", "HL">>)) = Does(w, <<"I", "I">>)
         /\ \A o \in {"nn", "(nn)", "BC", "DE", "SP"} :
              Substituted(Does(w, <<"HL", o>>)) = Does(w, <<"I", o>>)
         /\ \A o \in {"(nn)", "SP", "(SP)"} :
              Substituted(Does(w, <<o, "HL">>)) = Does(w, <<o, "I">>)
<1>1. /\ Half("HL") = "I" /\ Half("H") = "IH" /\ Half("L") = "IL"
      /\ Half("n") = "n" /\ Pointer("(HL)") = "(I+d)" /\ Pointer("n") = "n"
      /\ \A o \in {"nn", "(nn)", "BC", "DE", "SP", "(SP)"} : Half(o) = o
  BY DEF Half, Pointer
<1>2. /\ Substituted(Does(w, <<"HL">>)) = Does(w, <<"I">>)
      /\ Substituted(Does(w, <<"H">>)) = Does(w, <<"IH">>)
      /\ Substituted(Does(w, <<"L">>)) = Does(w, <<"IL">>)
      /\ Substituted(Does(w, <<"(HL)">>)) = Does(w, <<"(I+d)">>)
  BY <1>1, OneReplaced
<1>3. /\ Substituted(Does(w, <<"H", "n">>)) = Does(w, <<"IH", "n">>)
      /\ Substituted(Does(w, <<"L", "n">>)) = Does(w, <<"IL", "n">>)
      /\ Substituted(Does(w, <<"HL", "HL">>)) = Does(w, <<"I", "I">>)
  BY <1>1, HalvesReplaced
<1>4. Substituted(Does(w, <<"(HL)", "n">>)) = Does(w, <<"(I+d)", "n">>)
  BY <1>1, TwoReplaced, ZenonT(30)
<1>5. ASSUME NEW o, o # "(HL)", Half(o) = o
      PROVE  /\ Substituted(Does(w, <<"HL", o>>)) = Does(w, <<"I", o>>)
             /\ Substituted(Does(w, <<o, "HL">>)) = Does(w, <<o, "I">>)
  BY <1>1, <1>5, HalvesReplaced
<1> QED BY <1>1, <1>2, <1>3, <1>4, <1>5

-----------------------------------------------------------------------------
(* The entries that dd_table lists one by one.                             *)

Agrees(op) == Indexed(dd_table[op].exec, op) = Substituted(Plain(main_table[op].exec, op))
Untouched(op) == LET does == Plain(main_table[op].exec, op) IN Substituted(does) = does

Listed == {33, 34, 42, 54, 35, 43, 36, 44, 37, 45, 38, 46, 52, 53,
           9, 25, 41, 57, 249, 229, 225, 227, 233}

\* All other entries are in the pattern of the two middle quarters, or are none.
LEMMA NullEntries ==
  ASSUME NEW op \in Opcode \ Listed
  PROVE  dd_table[op] = IF X(op) \in {1, 2} THEN Dd12(op) ELSE Null(0, 0)
BY DEF dd_table, Listed

\* The plain and the indexed handlers of the listed entries, and what they do.
LEMMA ListedPlain ==
  /\ main_table[33].exec = "ld_rr_nn" /\ main_table[34].exec = "ld_nn_hl"
  /\ main_table[42].exec = "ld_hl_nn" /\ main_table[54].exec = "ld_hl_n"
  /\ main_table[35].exec = "inc_rr" /\ main_table[43].exec = "dec_rr"
  /\ main_table[36].exec = "inc_r" /\ main_table[44].exec = "inc_r"
  /\ main_table[37].exec = "dec_r" /\ main_table[45].exec = "dec_r"
  /\ main_table[38].exec = "ld_r_n" /\ main_table[46].exec = "ld_r_n"
  /\ main_table[52].exec = "inc_hl" /\ main_table[53].exec = "dec_hl"
  /\ main_table[9].exec = "add_hl_rr" /\ main_table[25].exec = "add_hl_rr"
  /\ main_table[41].exec = "add_hl_rr" /\ main_table[57].exec = "add_hl_rr"
  /\ main_table[249].exec = "ld_sp_hl" /\ main_table[229].exec = "push_rr"
  /\ main_table[225].exec = "pop_rr" /\ main_table[227].exec = "ex_sp_hl"
  /\ main_table[233].exec = "jp_hl"
<1>1. /\ main_table[33].exec = "ld_rr_nn" /\ main_table[34].exec = "ld_nn_hl"
      /\ main_table[42].exec = "ld_hl_nn" /\ main_table[54].exec = "ld_hl_n"
      /\ main_table[35].exec = "inc_rr" /\ main_table[43].exec = "dec_rr"
  BY DEF main_table, Main0, Opcode, X, Y, Z, IsOdd, Entry
<1>2. /\ main_table[36].exec = "inc_r" /\ main_table[44].exec = "inc_r"
      /\ main_table[37].exec = "dec_r" /\ main_table[45].exec = "dec_r"
      /\ main_table[38].exec = "ld_r_n" /\ main_table[46].exec = "ld_r_n"
      /\ main_table[52].exec = "inc_hl" /\ main_table[53].exec = "dec_hl"
  BY DEF main_table, Main0, Opcode, X, Y, Z, IsOdd, Entry
<1>3. /\ main_table[9].exec = "add_hl_rr" /\ main_table[25].exec = "add_hl_rr"
      /\ main_table[41].exec = "add_hl_rr" /\ main_table[57].exec = "add_hl_rr"
  BY DEF main_table, Main0, Opcode, X, Y, Z, IsOdd, Entry
<1>4. /\ main_table[249].exec = "ld_sp_hl" /\ main_table[229].exec = "push_rr"
      /\ main_table[225].exec = "pop_rr" /\ main_table[227].exec = "ex_sp_hl"
      /\ main_table[233].exec = "jp_hl"
  BY DEF main_table, Main3, Opcode, X, Y, Z, IsOdd, Entry
<1> QED BY <1>1, <1>2, <1>3, <1>4

LEMMA ListedDoes ==
  /\ Plain("ld_rr_nn", 33) = Does("ld", <<"HL", "nn">>)
  /\ Plain("ld_nn_hl", 34) = Does("ld", <<"(nn)", "HL">>)
  /\ Plain("ld_hl_nn", 42) = Does("ld", <<"HL", "(nn)">>)
  /\ Plain("ld_hl_n", 54) = Does("ld", <<"(HL)", "n">>)
  /\ Plain("inc_rr", 35) = Does("inc", <<"HL">>)
  /\ Plain("dec_rr", 43) = Does("dec", <<"HL">>)
  /\ Plain("inc_r", 36) = Does("inc", <<"H">>)
  /\ Plain("inc_r", 44) = Does("inc", <<"L">>)
  /\ Plain("dec_r", 37) = Does("dec", <<"H">>)
  /\ Plain("dec_r", 45) = Does("dec", <<"L">>)
  /\ Plain("ld_r_n", 38) = Does("ld", <<"H", "n">>)
  /\ Plain("ld_r_n", 46) = Does("ld", <<"L", "n">>)
  /\ Plain("inc_hl", 52) = Does("inc", <<"(HL)">>)
  /\ Plain("dec_hl", 53) = Does("dec", <<"(HL)">>)
  /\ Plain("add_hl_rr", 9) = Does("add", <<"HL", "BC">>)
  /\ Plain("add_hl_rr", 25) = Does("add", <<"HL", "DE">>)
  /\ Plain("add_hl_rr", 41) = Does("add", <<"HL", "HL">>)
  /\ Plain("add_hl_rr", 57) = Does("add", <<"HL", "SP">>)
  /\ Plain("ld_sp_hl", 249) = Does("ld", <<"SP", "HL">>)
  /\ Plain("push_rr", 229) = Does("push", <<"HL">>)
  /\ Plain("pop_rr", 225) = Does("pop", <<"HL">>)
  /\ Plain("ex_sp_hl", 227) = Does("ex", <<"(SP)", "HL">>)
  /\ Plain("jp_hl", 233) = Does("jp", <<"HL">>)
<1>1. /\ Plain("ld_rr_nn", 33) = Does("ld", <<"HL", "nn">>)
      /\ Plain("ld_nn_hl", 34) = Does("ld", <<"(nn)", "HL">>)
      /\ Plain("ld_hl_nn", 42) = Does("ld", <<"HL", "(nn)">>)
      /\ Plain("ld_hl_n", 54) = Does("ld", <<"(HL)", "n">>)
      /\ Plain("inc_rr", 35) = Does("inc", <<"HL">>)
      /\ Plain("dec_rr", 43) = Does("dec", <<"HL">>)
      /\ Plain("inc_r", 36) = Does("inc", <<"H">>)
      /\ Plain("inc_r", 44) = Does("inc", <<"L">>)
      /\ Plain("dec_r", 37) = Does("dec", <<"H">>)
      /\ Plain("dec_r", 45) = Does("dec", <<"L">>)
      /\ Plain("ld_r_n", 38) = Does("ld", <<"H", "n">>)
      /\ Plain("ld_r_n", 46) = Does("ld", <<"L", "n">>)
  BY Rows DEF Plain, Rp, StackRp, Pair, Reg, Y
<1>2. /\ Plain("inc_hl", 52) = Does("inc", <<"(HL)">>)
      /\ Plain("dec_hl", 53) = Does("dec", <<"(HL)">>)
      /\ Plain("add_hl_rr", 9) = Does("add", <<"HL", "BC">>)
      /\ Plain("add_hl_rr", 25) = Does("add", <<"HL", "DE">>)
      /\ Plain("add_hl_rr", 41) = Does("add", <<"HL", "HL">>)
      /\ Plain("add_hl_rr", 57) = Does("add", <<"HL", "SP">>)
      /\ Plain("ld_sp_hl", 249) = Does("ld", <<"SP", "HL">>)
      /\ Plain("push_rr", 229) = Does("push", <<"HL">>)
      /\ Plain("pop_rr", 225) = Does("pop", <<"HL">>)
      /\ Plain("ex_sp_hl", 227) = Does("ex", <<"(SP)", "HL">>)
      /\ Plain("jp_hl", 233) = Does("jp", <<"HL">>)
  BY Rows DEF Plain, Rp, StackRp, Pair, Reg, Y
<1> QED BY <1>1, <1>2

LEMMA ListedIndexed ==
  /\ dd_table[33].exec = "dd_fd_ld_ix_nn"
  /\ dd_table[34].exec = "dd_fd_ld_nn_ix"
  /\ dd_table[42].exec = "dd_fd_ld_ix_nn_ind"
  /\ dd_table[54].exec = "dd_fd_ld_ixd_n"
  /\ dd_table[35].exec = "dd_fd_inc_ix"
  /\ dd_table[43].exec = "dd_fd_dec_ix"
  /\ dd_table[36].exec = "dd_fd_inc_ixhl"
  /\ dd_table[44].exec = "dd_fd_inc_ixhl"
  /\ dd_table[37].exec = "dd_fd_dec_ixhl"
  /\ dd_table[45].exec = "dd_fd_dec_ixhl"
  /\ dd_table[38].exec = "dd_fd_ld_ixhl_n"
  /\ dd_table[46].exec = "dd_fd_ld_ixhl_n"
  /\ dd_table[52].exec = "dd_fd_inc_ixd"
  /\ dd_table[53].exec = "dd_fd_dec_ixd"
  /\ dd_table[9].exec = "dd_fd_add_ix_rr"
  /\ dd_table[25].exec = "dd_fd_add_ix_rr"
  /\ dd_table[41].exec = "dd_fd_add_ix_rr"
  /\ dd_table[57].exec = "dd_fd_add_ix_rr"
  /\ dd_table[249].exec = "dd_fd_ld_sp_ix"
  /\ dd_table[229].exec = "dd_fd_push_ix"
  /\ dd_table[225].exec = "dd_fd_pop_ix"
  /\ dd_table[227].exec = "dd_fd_ex_sp_ix"
  /\ dd_table[233].exec = "dd_fd_jp_ix"
<1>1. /\ dd_table[33].exec = "dd_fd_ld_ix_nn"
      /\ dd_table[34].exec = "dd_fd_ld_nn_ix"
      /\ dd_table[42].exec = "dd_fd_ld_ix_nn_ind"
      /\ dd_table[54].exec = "dd_fd_ld_ixd_n"
  BY DEF dd_table, Opcode, Entry, X, Null
<1>2. /\ dd_table[35].exec = "dd_fd_inc_ix"
      /\ dd_table[43].exec = "dd_fd_dec_ix"
      /\ dd_table[36].exec = "dd_fd_inc_ixhl"
      /\ dd_table[44].exec = "dd_fd_inc_ixhl"
  BY DEF dd_table, Opcode, Entry, X, Null
<1>3. /\ dd_table[37].exec = "dd_fd_dec_ixhl"
      /\ dd_table[45].exec = "dd_fd_dec_ixhl"
      /\ dd_table[38].exec = "dd_fd_ld_ixhl_n"
      /\ dd_table[46].exec = "dd_fd_ld_ixhl_n"
  BY DEF dd_table, Opcode, Entry, X, Null
<1>4. /\ dd_table[52].exec = "dd_fd_inc_ixd"
      /\ dd_table[53].exec = "dd_fd_dec_ixd"
      /\ dd_table[9].exec = "dd_fd_add_ix_rr"
      /\ dd_table[25].exec = "dd_fd_add_ix_rr"
  BY DEF dd_table, Opcode, Entry, X, Null
<1>5. /\ dd_table[41].exec = "dd_fd_add_ix_rr"
      /\ dd_table[57].exec = "dd_fd_add_ix_rr"
      /\ dd_table[249].exec = "dd_fd_ld_sp_ix"
      /\ dd_table[229].exec = "dd_fd_push_ix"
  BY DEF dd_table, Opcode, Entry, X, Null
<1>6. /\ dd_table[225].exec = "dd_fd_pop_ix"
      /\ dd_table[227].exec = "dd_fd_ex_sp_ix"
      /\ dd_table[233].exec = "dd_fd_jp_ix"
  BY DEF dd_table, Opcode, Entry, X, Null
<1> QED BY <1>1, <1>2, <1>3, <1>4, <1>5, <1>6

LEMMA IndexedDoes ==
  /\ Indexed("dd_fd_ld_ix_nn", 33) = Does("ld", <<"I", "nn">>)
  /\ Indexed("dd_fd_ld_nn_ix", 34) = Does("ld", <<"(nn)", "I">>)
  /\ Indexed("dd_fd_ld_ix_nn_ind", 42) = Does("ld", <<"I", "(nn)">>)
  /\ Indexed("dd_fd_ld_ixd_n", 54) = Does("ld", <<"(I+d)", "n">>)
  /\ Indexed("dd_fd_inc_ix", 35) = Does("inc", <<"I">>)
  /\ Indexed("dd_fd_dec_ix", 43) = Does("dec", <<"I">>)
  /\ Indexed("dd_fd_inc_ixhl", 36) = Does("inc", <<"IH">>)
  /\ Indexed("dd_fd_inc_ixhl", 44) = Does("inc", <<"IL">>)
  /\ Indexed("dd_fd_dec_ixhl", 37) = Does("dec", <<"IH">>)
  /\ Indexed("dd_fd_dec_ixhl", 45) = Does("dec", <<"IL">>)
  /\ Indexed("dd_fd_ld_ixhl_n", 38) = Does("ld", <<"IH", "n">>)
  /\ Indexed("dd_fd_ld_ixhl_n", 46) = Does("ld", <<"IL", "n">>)
  /\ Indexed("dd_fd_inc_ixd", 52) = Does("inc", <<"(I+d)">>)
  /\ Indexed("dd_fd_dec_ixd", 53) = Does("dec", <<"(I+d)">>)
  /\ Indexed("dd_fd_add_ix_rr", 9) = Does("add", <<"I", "BC">>)
  /\ Indexed("dd_fd_add_ix_rr", 25) = Does("add", <<"I", "DE">>)
  /\ Indexed("dd_fd_add_ix_rr", 41) = Does("add", <<"I", "I">>)
  /\ Indexed("dd_fd_add_ix_rr", 57) = Does("add", <<"I", "SP">>)
  /\ Indexed("dd_fd_ld_sp_ix", 249) = Does("ld", <<"SP", "I">>)
  /\ Indexed("dd_fd_push_ix", 229) = Does("push", <<"I">>)
  /\ Indexed("dd_fd_pop_ix", 225) = Does("pop", <<"I">>)
  /\ Indexed("dd_fd_ex_sp_ix", 227) = Does("ex", <<"(SP)", "I">>)
  /\ Indexed("dd_fd_jp_ix", 233) = Does("jp", <<"I">>)
BY DEF Indexed, Reg, Pair, Y

LEMMA ListedAgree == ASSUME NEW op \in Listed PROVE Agrees(op)
<1> USE DEF Agrees
<1>1. CASE op \in {33, 34, 42, 54}
  BY <1>1, ListedPlain, ListedDoes, ListedIndexed, IndexedDoes, ListedSubstituted
<1>2. CASE op \in {35, 43, 36, 44, 37, 45}
  BY <1>2, ListedPlain, ListedDoes, ListedIndexed, IndexedDoes, ListedSubstituted
<1>3. CASE op \in {38, 46, 52, 53}
  BY <1>3, ListedPlain, ListedDoes, ListedIndexed, IndexedDoes, ListedSubstituted
<1>4. CASE op \in {9, 25, 41, 57}
  BY <1>4, ListedPlain, ListedDoes, ListedIndexed, IndexedDoes, ListedSubstituted
<1>5. CASE op \in {249, 229, 225, 227, 233}
  BY <1>5, ListedPlain, ListedDoes, ListedIndexed, IndexedDoes, ListedSubstituted
<1> QED BY <1>1, <1>2, <1>3, <1>4, <1>5 DEF Listed

-----------------------------------------------------------------------------
(* The patterns of dd_table, and ddcb_table.                               *)

LEMMA RegOfHl == Reg(6) = "(HL)"
BY DEF Reg

\* The middle quarters: loads between registers, and arithmetic.
LEMMA Dd12Agree ==
  ASSUME NEW op \in Opcode \ Listed, dd_table[op].exec # "null"
  PROVE  Agrees(op)
<1>0. /\ X(op) \in 0 .. 3 /\ Y(op) \in 0 .. 7 /\ Z(op) \in 0 .. 7
      /\ op = 64 * X(op) + 8 * Y(op) + Z(op)
      /\ IsOdd(op) <=> IsOdd(Z(op))
  BY Digits
<1>1. X(op) \in {1, 2} /\ dd_table[op] = Dd12(op)
  BY NullEntries DEF Null, Entry
<1>2. CASE X(op) = 1
  <2>0. op # 118
    BY <1>1, <1>2 DEF Dd12, Null, Entry
  <2>1. main_table[op] = Main1(op) /\ ~(Y(op) = 6 /\ Z(op) = 6)
    BY <1>0, <1>2, <2>0 DEF main_table
  <2>2. CASE Z(op) = 6
    <3>0. main_table[op].exec = "ld_r_hl"
      BY <2>1, <2>2 DEF Main1, Entry
    <3>1. Plain(main_table[op].exec, op) = Does("ld", <<Reg(Y(op)), "(HL)">>)
      BY <3>0, <2>2, Plains, RegOfHl, ZenonT(30)
    <3>2. Indexed(dd_table[op].exec, op) = Does("ld", <<Reg(Y(op)), "(I+d)">>)
      BY <1>0, <1>1, <1>2, <2>1, <2>2 DEF Dd12, Entry, Null, Indexed
    <3>3. Pointer(Reg(Y(op))) = Reg(Y(op)) /\ Pointer("(HL)") = "(I+d)"
      BY <1>0, <2>1, <2>2, RegNames DEF Pointer
    <3> QED BY <3>1, <3>2, <3>3, TwoReplaced, ZenonT(30) DEF Agrees
  <2>3. CASE Z(op) # 6 /\ Y(op) = 6
    <3>0. main_table[op].exec = "ld_hl_r"
      BY <2>1, <2>3 DEF Main1, Entry
    <3>1. Plain(main_table[op].exec, op) = Does("ld", <<"(HL)", Reg(Z(op))>>)
      BY <3>0, <2>3, Plains, RegOfHl
    <3>2. Indexed(dd_table[op].exec, op) = Does("ld", <<"(I+d)", Reg(Z(op))>>)
      BY <1>0, <1>1, <1>2, <2>1, <2>3 DEF Dd12, Entry, Null, Indexed
    <3>3. Pointer(Reg(Z(op))) = Reg(Z(op)) /\ Pointer("(HL)") = "(I+d)"
      BY <1>0, <2>1, <2>3, RegNames DEF Pointer
    <3> QED BY <3>1, <3>2, <3>3, TwoReplaced DEF Agrees
  <2>4. CASE Z(op) # 6 /\ Y(op) # 6
    <3>0. main_table[op].exec = "ld_r_r"
      BY <2>1, <2>4 DEF Main1, Entry
    <3>1. Plain(main_table[op].exec, op) = Does("ld", <<Reg(Y(op)), Reg(Z(op))>>)
      BY <3>0, <2>4, Plains, RegOfHl
    <3>2. Indexed(dd_table[op].exec, op) =
            Does("ld", <<Reg(Remap(Y(op))), Reg(Remap(Z(op)))>>)
      BY <1>0, <1>1, <1>2, <2>1, <2>4 DEF Dd12, Entry, Null, Indexed
    <3>3. /\ Half(Reg(Y(op))) = Reg(Remap(Y(op))) /\ Reg(Y(op)) # "(HL)"
          /\ Half(Reg(Z(op))) = Reg(Remap(Z(op))) /\ Reg(Z(op)) # "(HL)"
      BY <1>0, <2>4, RegNames
    <3>4. Substituted(Does("ld", <<Reg(Y(op)), Reg(Z(op))>>))
            = Does("ld", <<Reg(Remap(Y(op))), Reg(Remap(Z(op)))>>)
      BY <3>3, HalvesReplaced
    <3> QED BY <3>1, <3>2, <3>4 DEF Agrees
  <2> QED BY <2>2, <2>3, <2>4
<1>3. CASE X(op) = 2
  <2> DEFINE a == Alu[Y(op) + 1]
  <2>1. main_table[op].exec = a /\ a \in Names(Alu) /\ AluCase(op) = a
    BY <1>0, <1>3 DEF main_table, Main2, Entry, Names, Alu, AluCase
  <2>2. Plain(main_table[op].exec, op) = Does(a, <<Reg(Z(op))>>)
    BY <2>1, Plains
  <2>3. CASE Z(op) = 6
    <3>1. Indexed(dd_table[op].exec, op) = Does(a, <<"(I+d)">>)
      BY <1>0, <1>1, <1>3, <2>1, <2>3 DEF Dd12, Entry, Null, Indexed
    <3>2. Reg(Z(op)) = "(HL)"
      BY <2>3, RegNames
    <3> QED BY <2>2, <3>1, <3>2, OneReplaced DEF Agrees
  <2>4. CASE Z(op) \in {4, 5}
    <3>1. Indexed(dd_table[op].exec, op) = Does(a, <<Reg(Remap(Z(op)))>>)
      <4>1. dd_table[op].exec = "dd_fd_alu_ixhl"
        BY <1>1, <1>3, <2>4 DEF Dd12, Entry
      <4>2. (IF IsOdd(op) THEN 9 ELSE 8) = Remap(Z(op))
        BY <1>0, <2>4 DEF IsOdd, Remap
      <4>3. Indexed("dd_fd_alu_ixhl", op) =
              Does(AluCase(op), <<Reg(IF IsOdd(op) THEN 9 ELSE 8)>>)
        BY DEF Indexed
      <4> QED BY <2>1, <4>1, <4>2, <4>3
    <3>2. Half(Reg(Z(op))) = Reg(Remap(Z(op))) /\ Reg(Z(op)) # "(HL)"
      BY <1>0, <2>4, RegNames
    <3> QED BY <2>2, <3>1, <3>2, OneReplaced DEF Agrees
  <2> QED BY <1>0, <1>1, <1>3, <2>3, <2>4 DEF Dd12, Null, Entry
<1> QED BY <1>1, <1>2, <1>3

\* Every indexed handler is the plain one with the operands replaced.
LEMMA IndexedAgree ==
  ASSUME NEW op \in Opcode, dd_table[op].exec # "null"
  PROVE  Agrees(op)
BY Dd12Agree, ListedAgree

\* So is every indexed bit operation.
LEMMA BitsAgree ==
  ASSUME NEW op \in Opcode
  PROVE  IndexedBits(ddcb_table[op].exec, op) =
           SubstitutedBit(Bits(cb_table[op].exec, op), op)
<1>0. X(op) \in 0 .. 3 /\ Y(op) \in 0 .. 7 /\ Z(op) \in 0 .. 7
  BY Digits
<1>1. ASSUME NEW w, NEW b
      PROVE  SubstitutedBit(DoesBit(w, b, <<Reg(Z(op))>>), op) =
               DoesBit(w, b, IF w = "bit" \/ Z(op) = 6 THEN <<"(I+d)">>
                             ELSE <<"(I+d)", Reg(Z(op))>>)
  BY DEF SubstitutedBit, DoesBit
<1>2. ASSUME NEW w
      PROVE  SubstitutedBit(Does(w, <<Reg(Z(op))>>), op) =
               Does(w, IF w = "bit" \/ Z(op) = 6 THEN <<"(I+d)">>
                       ELSE <<"(I+d)", Reg(Z(op))>>)
  BY DEF SubstitutedBit, Does
<1>3. CASE X(op) = 0
  <2> DEFINE r == Rot[Y(op) + 1]
  <2>1. cb_table[op].exec = r /\ ddcb_table[op].exec = "ddcb_fdcb_rot" /\ RotCase(op) = r
    BY <1>0, <1>3 DEF cb_table, ddcb_table, Entry, Rot, RotCase
  <2>2. r \notin {"cb_bit", "cb_res", "cb_set", "bit"}
    BY <1>0 DEF Rot
  <2>3. Bits(r, op) = Does(r, <<Reg(Z(op))>>)
    BY <2>2 DEF Bits
  <2> HIDE DEF r
  <2> QED BY <1>2, <2>1, <2>2, <2>3 DEF IndexedBits
<1>4. CASE X(op) = 1
  BY <1>1, <1>4 DEF cb_table, ddcb_table, Entry, Bits, IndexedBits
<1>5. CASE X(op) = 2
  BY <1>1, <1>5 DEF cb_table, ddcb_table, Entry, Bits, IndexedBits
<1>6. CASE X(op) = 3
  BY <1>1, <1>6 DEF cb_table, ddcb_table, Entry, Bits, IndexedBits
<1> QED BY <1>0, <1>3, <1>4, <1>5, <1>6

-----------------------------------------------------------------------------
(* Where dd_table has nothing, there is nothing to replace.                *)

\* A handler without such an operand does the same with or without a prefix.
LEMMA SubFixed ==
  ASSUME NEW exec, NEW op, Fixed(exec)
  PROVE  LET does == Plain(exec, op) IN Substituted(does) = does
BY FixedPlain, NoneReplaced

\* No operand among these has a substitute.
Still(name) == name \notin {"HL", "H", "L", "(HL)"}

\* So does one whose operands are none of HL, H, L and (HL).
LEMMA StillSub ==
  ASSUME NEW w, NEW a, NEW b, Still(a), Still(b)
  PROVE  /\ Substituted(Does(w, <<a>>)) = Does(w, <<a>>)
         /\ Substituted(Does(w, <<a, b>>)) = Does(w, <<a, b>>)
<1>1. Half(a) = a /\ Half(b) = b /\ a # "(HL)" /\ b # "(HL)"
  BY DEF Half, Still
<1> QED BY <1>1, OneReplaced, HalvesReplaced

LEMMA StillRegs ==
  /\ \A i \in 0 .. 7 : i \notin {4, 5, 6} => Still(Reg(i))
  /\ Still("n") /\ Still("nn")
BY DEF Still, Reg

LEMMA StillPairs ==
  ASSUME NEW op, Y(op) \in 0 .. 7, Y(op) \notin {4, 5}
  PROVE  Still(Rp(op)) /\ Still(StackRp(op))
<1>1. Pair(op) \in {0, 1, 3}
  BY DEF Pair
<1> QED BY <1>1 DEF Still, Rp, StackRp

\* The main table, a quarter at a time.
LEMMA Untouched0 ==
  ASSUME NEW op \in Opcode \ Listed, X(op) = 0
  PROVE  Untouched(op)
<1>0. /\ Y(op) \in 0 .. 7 /\ Z(op) \in 0 .. 7
      /\ op = 8 * Y(op) + Z(op)
  BY Digits
<1>1. main_table[op] = Main0(op)
  BY DEF main_table
<1>2. CASE Z(op) = 0
  <2>1. main_table[op].exec \in {"nop", "ex_af_afp", "djnz_e", "jr_e", "jr_cc_e"}
    BY <1>0, <1>1, <1>2 DEF Main0, Entry
  <2>2. Fixed(main_table[op].exec)
    BY <2>1, Rows DEF Fixed
  <2> QED BY <2>2, SubFixed DEF Untouched
<1>3. CASE Z(op) = 1
  <2>1. Y(op) \in {0, 2, 6}
    BY <1>0, <1>3 DEF Listed
  <2>2. main_table[op].exec = "ld_rr_nn"
    BY <1>1, <1>3, <2>1 DEF Main0, Entry, IsOdd
  <2>3. Plain("ld_rr_nn", op) = Does("ld", <<Rp(op), "nn">>)
    BY Plains
  <2>4. Still(Rp(op)) /\ Still("nn")
    BY <1>0, <2>1, StillPairs, StillRegs
  <2> QED BY <2>2, <2>3, <2>4, StillSub DEF Untouched
<1>4. CASE Z(op) = 2
  <2>1. Y(op) \in {0, 1, 2, 3, 6, 7}
    BY <1>0, <1>4 DEF Listed
  <2>2. main_table[op].exec \in
          {"ld_bc_a", "ld_a_bc", "ld_de_a", "ld_a_de", "ld_nn_a", "ld_a_nn"}
    BY <1>1, <1>4, <2>1 DEF Main0, Entry
  <2>3. Fixed(main_table[op].exec)
    BY <2>2, Rows DEF Fixed
  <2> QED BY <2>3, SubFixed DEF Untouched
<1>5. CASE Z(op) = 3
  <2>1. Y(op) \in {0, 1, 2, 3, 6, 7}
    BY <1>0, <1>5 DEF Listed
  <2>2. main_table[op].exec \in {"dec_rr", "inc_rr"}
    BY <1>1, <1>5 DEF Main0, Entry
  <2>3. /\ Plain("dec_rr", op) = Does("dec", <<Rp(op)>>)
        /\ Plain("inc_rr", op) = Does("inc", <<Rp(op)>>)
    BY Plains
  <2>4. Still(Rp(op))
    BY <1>0, <2>1, StillPairs
  <2> QED BY <2>2, <2>3, <2>4, StillSub DEF Untouched
<1>6. CASE Z(op) \in {4, 5}
  <2>1. Y(op) \in {0, 1, 2, 3, 7}
    BY <1>0, <1>6 DEF Listed
  <2>2. main_table[op].exec \in {"dec_r", "inc_r"}
    BY <1>1, <1>6, <2>1 DEF Main0, Entry
  <2>3. /\ Plain("dec_r", op) = Does("dec", <<Reg(Y(op))>>)
        /\ Plain("inc_r", op) = Does("inc", <<Reg(Y(op))>>)
    BY Plains
  <2>4. Still(Reg(Y(op)))
    BY <2>1, StillRegs
  <2> QED BY <2>2, <2>3, <2>4, StillSub DEF Untouched
<1>7. CASE Z(op) = 6
  <2>1. Y(op) \in {0, 1, 2, 3, 7}
    BY <1>0, <1>7 DEF Listed
  <2>2. main_table[op].exec = "ld_r_n"
    BY <1>1, <1>7, <2>1 DEF Main0, Entry
  <2>3. Plain("ld_r_n", op) = Does("ld", <<Reg(Y(op)), "n">>)
    BY Plains
  <2>4. Still(Reg(Y(op))) /\ Still("n")
    BY <2>1, StillRegs
  <2> QED BY <2>2, <2>3, <2>4, StillSub DEF Untouched
<1>8. CASE Z(op) = 7
  <2>1. main_table[op].exec \in {"rlca", "rrca", "rla", "rra", "daa", "cpl", "scf", "ccf"}
    BY <1>0, <1>1, <1>8 DEF Main0, Entry
  <2>2. Fixed(main_table[op].exec)
    BY <2>1, Rows DEF Fixed
  <2> QED BY <2>2, SubFixed DEF Untouched
<1> QED BY <1>0, <1>2, <1>3, <1>4, <1>5, <1>6, <1>7, <1>8

LEMMA Untouched12 ==
  ASSUME NEW op \in Opcode \ Listed, X(op) \in {1, 2}, dd_table[op].exec = "null"
  PROVE  Untouched(op)
<1>0. X(op) \in 0 .. 3 /\ Y(op) \in 0 .. 7 /\ Z(op) \in 0 .. 7
  BY Digits
<1>1. Dd12(op).exec = "null"
  BY NullEntries
<1>2. CASE X(op) = 2
  <2>1. Z(op) \in 0 .. 7 /\ Z(op) \notin {4, 5, 6}
    BY <1>0, <1>1, <1>2 DEF Dd12, Entry
  <2> DEFINE a == Alu[Y(op) + 1]
  <2>2. main_table[op].exec = a /\ a \in Names(Alu)
    BY <1>0, <1>2 DEF main_table, Main2, Entry, Names, Alu
  <2> HIDE DEF a
  <2>3. Plain(a, op) = Does(a, <<Reg(Z(op))>>)
    BY <2>2, Plains
  <2>4. Still(Reg(Z(op)))
    BY <2>1, StillRegs
  <2> QED BY <2>2, <2>3, <2>4, StillSub DEF Untouched
<1>3. CASE X(op) = 1
  <2>1. main_table[op] = Main1(op)
    BY <1>3 DEF main_table
  <2>2. CASE op = 118
    <3>1. Y(op) = 6 /\ Z(op) = 6
      BY <2>2 DEF Y, Z
    <3>2. main_table[op].exec = "halt"
      BY <2>1, <3>1 DEF Main1, Entry
    <3>3. Fixed("halt")
      BY Rows DEF Fixed
    <3> QED BY <3>2, <3>3, SubFixed DEF Untouched
  <2>3. CASE op # 118
    <3>1. Y(op) \notin {4, 5, 6} /\ Z(op) \notin {4, 5, 6}
      BY <1>1, <1>3, <2>3 DEF Dd12, Entry
    <3>2. main_table[op].exec = "ld_r_r"
      BY <2>1, <3>1 DEF Main1, Entry
    <3>3. Plain("ld_r_r", op) = Does("ld", <<Reg(Y(op)), Reg(Z(op))>>)
      BY Plains
    <3>4. Still(Reg(Y(op))) /\ Still(Reg(Z(op)))
      BY <1>0, <3>1, StillRegs
    <3> QED BY <3>2, <3>3, <3>4, StillSub DEF Untouched
  <2> QED BY <2>2, <2>3
<1> QED BY <1>2, <1>3

LEMMA Untouched3 ==
  ASSUME NEW op \in Opcode \ Listed, X(op) = 3
  PROVE  Untouched(op)
<1>0. /\ Y(op) \in 0 .. 7 /\ Z(op) \in 0 .. 7
      /\ op = 192 + 8 * Y(op) + Z(op)
  BY Digits
<1>1. main_table[op] = Main3(op)
  BY DEF main_table
<1> DEFINE name == main_table[op].exec
<1>2. ASSUME Fixed(name) PROVE Untouched(op)
  BY <1>2, SubFixed DEF Untouched
<1>3. CASE Z(op) \in {0, 2, 4, 7}
  <2>1. name \in {"ret_cc", "jp_cc_nn", "call_cc_nn", "rst"}
    BY <1>1, <1>3 DEF Main3, Entry
  <2> QED BY <1>2, <2>1, Rows DEF Fixed
<1>4. CASE Z(op) = 6
  <2>1. name \in Names(AluN)
    BY <1>0, <1>1, <1>4, Rows DEF Main3, Entry, AluN
  <2> QED BY <1>2, <2>1, Rows DEF Fixed
<1>5. CASE Z(op) = 3
  <2>1. Y(op) \in {0, 1, 2, 3, 5, 6, 7}
    BY <1>0, <1>5 DEF Listed
  <2>2. name \in {"jp_nn", "null", "out_n_a", "in_a_n", "ex_de_hl", "di", "ei"}
    BY <1>1, <1>5, <2>1 DEF Main3, Entry, Null
  <2> QED BY <1>2, <2>2, Rows DEF Fixed
<1>6. CASE Z(op) = 1
  <2>1. Y(op) \in {0, 1, 2, 3, 6}
    BY <1>0, <1>6 DEF Listed
  <2>2. CASE Y(op) \in {1, 3}
    <3>1. name \in {"ret", "exx"}
      BY <1>1, <1>6, <2>2 DEF Main3, Entry, IsOdd
    <3> QED BY <1>2, <3>1, Rows DEF Fixed
  <2>3. CASE Y(op) \in {0, 2, 6}
    <3>1. name = "pop_rr"
      BY <1>1, <1>6, <2>3 DEF Main3, Entry, IsOdd
    <3>2. Plain("pop_rr", op) = Does("pop", <<StackRp(op)>>)
      BY Plains
    <3>3. Still(StackRp(op))
      BY <1>0, <2>3, StillPairs
    <3> QED BY <3>1, <3>2, <3>3, StillSub DEF Untouched
  <2> QED BY <2>1, <2>2, <2>3
<1>7. CASE Z(op) = 5
  <2>1. Y(op) \in {0, 1, 2, 3, 5, 6, 7}
    BY <1>0, <1>7 DEF Listed
  <2>2. CASE Y(op) \in {1, 3, 5, 7}
    <3>1. name \in {"call_nn", "null"}
      BY <1>1, <1>7, <2>2 DEF Main3, Entry, Null, IsOdd
    <3> QED BY <1>2, <3>1, Rows DEF Fixed
  <2>3. CASE Y(op) \in {0, 2, 6}
    <3>1. name = "push_rr"
      BY <1>1, <1>7, <2>3 DEF Main3, Entry, IsOdd
    <3>2. Plain("push_rr", op) = Does("push", <<StackRp(op)>>)
      BY Plains
    <3>3. Still(StackRp(op))
      BY <1>0, <2>3, StillPairs
    <3> QED BY <3>1, <3>2, <3>3, StillSub DEF Untouched
  <2> QED BY <2>1, <2>2, <2>3
<1> QED BY <1>0, <1>3, <1>4, <1>5, <1>6, <1>7

\* The decoder falls through only to handlers a prefix means nothing to.
LEMMA FallThrough ==
  ASSUME NEW op \in Opcode, dd_table[op].exec = "null"
  PROVE  Untouched(op)
<1>1. op \notin Listed
  BY ListedIndexed DEF Listed
<1>2. X(op) \in 0 .. 3
  BY Digits
<1> QED BY <1>1, <1>2, Untouched0, Untouched12, Untouched3

-----------------------------------------------------------------------------
(* From the prefix to the handler.                                         *)

\* What a prefix has led to: a table of its own, or the main one where the
\* indexed one has nothing.
OperandsInv ==
  stage = "handler" /\ prefixes > 0 =>
    /\ table \in {"main", "dd", "ddcb"}
    /\ table = "dd" => dd_table[opcode].exec # "null"
    /\ table = "main" => dd_table[opcode].exec = "null"

\* Only FetchIndexed and FetchIndexedBit dispatch after a prefix.
PrefixInv == stage \in {"CB", "ED"} => prefixes = 0

PrefixedInv == PrefixInv /\ OperandsInv

LEMMA PrefixedInit == Init => PrefixedInv
  BY DEF Init, PrefixedInv, PrefixInv, OperandsInv

LEMMA PrefixedNext == ASSUME PrefixedInv, [Next]_vars PROVE PrefixedInv'
<1> USE DEF PrefixedInv, PrefixInv, OperandsInv
<1>1. CASE FetchFirst
  <2>1. \/ stage' = "index"
        \/ stage' \in {"CB", "ED", "handler"} /\ prefixes' = 0
    BY <1>1 DEF FetchFirst, Wait, Dispatch
  <2> QED BY <2>1
<1>2. CASE FetchSecond
  <2>1. stage' = "handler" /\ prefixes' = 0
    BY <1>2 DEF FetchSecond, Dispatch, indexing
  <2> QED BY <2>1
<1>3. CASE FetchIndexed
  <2>1. \/ stage' \in {"index", "displacement"}
        \/ /\ stage' = "handler"
           /\ \/ table' = "dd" /\ dd_table[opcode'].exec # "null"
              \/ table' = "main" /\ dd_table[opcode'].exec = "null"
    BY <1>3 DEF FetchIndexed, Wait, Dispatch
  <2> QED BY <2>1
<1>4. CASE FetchIndexedBit
  <2>1. \/ stage' = "index_opcode"
        \/ stage' = "handler" /\ table' = "ddcb"
    BY <1>4 DEF FetchIndexedBit, Wait, Dispatch
  <2> QED BY <2>1
<1>5. CASE BusCycle
  BY <1>5 DEF BusCycle, indexing
<1>6. CASE Finish \/ Raise
  <2>1. stage' = "idle"
    BY <1>6 DEF Finish, Raise, Unwind
  <2> QED BY <2>1
<1>7. CASE UNCHANGED vars
  BY <1>7 DEF vars, dispatched, indexing
<1> QED BY <1>1, <1>2, <1>3, <1>4, <1>5, <1>6, <1>7 DEF Next, Continue

LEMMA OperandsAgree == ASSUME opcode \in Opcode, PrefixedInv PROVE OperandsIndexed
<1> SUFFICES ASSUME stage = "handler", prefixes > 0
             PROVE  OperandsIndexed
  BY DEF OperandsIndexed
<1>1. CASE table = "dd"
  <2>1. entry = dd_table[opcode] /\ Agrees(opcode)
    BY <1>1, IndexedAgree DEF entry, Tables, PrefixedInv, OperandsInv
  <2> QED BY <1>1, <2>1 DEF OperandsIndexed, Agrees
<1>2. CASE table = "ddcb"
  <2>1. entry = ddcb_table[opcode]
    BY <1>2 DEF entry, Tables
  <2> QED BY <1>2, <2>1, BitsAgree DEF OperandsIndexed
<1>3. CASE table = "main"
  <2>1. entry = main_table[opcode] /\ Untouched(opcode)
    BY <1>3, FallThrough DEF entry, Tables, PrefixedInv, OperandsInv
  <2> QED BY <1>3, <2>1 DEF OperandsIndexed, Untouched
<1> QED BY <1>1, <1>2, <1>3 DEF PrefixedInv, OperandsInv

\* After a prefix, the handler does to the index register, its halves or the memory
\* behind it what the plain handler does to HL, H, L and (HL), for every opcode.
THEOREM IndexedOperands == Spec => []OperandsIndexed
<1>1. TypeOK /\ PrefixedInv => OperandsIndexed
  BY OperandsAgree DEF TypeOK
<1> QED BY <1>1, PrefixedInit, PrefixedNext, DecoderTypes, PTL DEF Spec
=============================================================================
