----------------------------- MODULE Z80Tables -----------------------------
(***************************************************************************)
(* The dispatch tables of OpcodeTable::init and, for every handler they    *)
(* name, the bus cycles it makes and the operands it takes from its        *)
(* opcode.  An opcode is read as its octal digits X, Y and Z.              *)
(*                                                                         *)
(* The code keeps the two apart: no handler reads the times and lengths of *)
(* its table entry, and the indexed handlers are a second copy of the      *)
(* plain ones.  Values are left out.                                       *)
(***************************************************************************)
EXTENDS Integers, Sequences, TLC

Opcode == 0 .. 255

X(op) == op \div 64
Y(op) == (op \div 8) % 8
Z(op) == op % 8
Pair(op) == Y(op) \div 2   \* (op >> 4) & 3
IsOdd(n) == n % 2 = 1

-----------------------------------------------------------------------------
(* The tables.                                                             *)

Entry(exec, cycles, length, affects) ==
  [exec |-> exec, cycles |-> cycles, length |-> length, affects |-> affects]
Null(cycles, length) == Entry("null", cycles, length, FALSE)

Alu == <<"add_a", "adc_a", "sub", "sbc_a", "and", "xor", "or", "cp">>
AluN == <<"add_a_n", "adc_a_n", "sub_n", "sbc_a_n", "and_n", "xor_n", "or_n", "cp_n">>
Rot == <<"rlc", "rrc", "rl", "rr", "sla", "sra", "sll", "srl">>

\* Rows 0x00-0x3F, by the last octal digit.
Main0(op) ==
  LET y == Y(op) IN
  CASE Z(op) = 0 -> <<Entry("nop", 4, 1, FALSE), Entry("ex_af_afp", 4, 1, FALSE),
                      Entry("djnz_e", 13, 2, FALSE), Entry("jr_e", 12, 2, FALSE),
                      Entry("jr_cc_e", 12, 2, FALSE), Entry("jr_cc_e", 12, 2, FALSE),
                      Entry("jr_cc_e", 12, 2, FALSE), Entry("jr_cc_e", 12, 2, FALSE)>>[y + 1]
    [] Z(op) = 1 -> IF IsOdd(y) THEN Entry("add_hl_rr", 11, 1, TRUE)
                    ELSE Entry("ld_rr_nn", 10, 3, FALSE)
    [] Z(op) = 2 -> <<Entry("ld_bc_a", 7, 1, FALSE), Entry("ld_a_bc", 7, 1, FALSE),
                      Entry("ld_de_a", 7, 1, FALSE), Entry("ld_a_de", 7, 1, FALSE),
                      Entry("ld_nn_hl", 16, 3, FALSE), Entry("ld_hl_nn", 16, 3, FALSE),
                      Entry("ld_nn_a", 13, 3, FALSE), Entry("ld_a_nn", 13, 3, FALSE)>>[y + 1]
    [] Z(op) = 3 -> Entry(IF IsOdd(y) THEN "dec_rr" ELSE "inc_rr", 6, 1, FALSE)
    [] Z(op) = 4 -> IF y = 6 THEN Entry("inc_hl", 11, 1, TRUE) ELSE Entry("inc_r", 4, 1, TRUE)
    [] Z(op) = 5 -> IF y = 6 THEN Entry("dec_hl", 11, 1, TRUE) ELSE Entry("dec_r", 4, 1, TRUE)
    [] Z(op) = 6 -> IF y = 6 THEN Entry("ld_hl_n", 10, 2, FALSE) ELSE Entry("ld_r_n", 7, 2, FALSE)
    [] OTHER -> Entry(<<"rlca", "rrca", "rla", "rra", "daa", "cpl", "scf", "ccf">>[y + 1],
                      4, 1, TRUE)

Main1(op) ==
  IF Z(op) = 6
  THEN IF Y(op) = 6 THEN Entry("halt", 4, 1, FALSE) ELSE Entry("ld_r_hl", 7, 1, FALSE)
  ELSE IF Y(op) = 6 THEN Entry("ld_hl_r", 7, 1, FALSE) ELSE Entry("ld_r_r", 4, 1, FALSE)

Main2(op) == Entry(Alu[Y(op) + 1], IF Z(op) = 6 THEN 7 ELSE 4, 1, TRUE)

\* Rows 0xC0-0xFF; the prefixes keep the default entry.
Main3(op) ==
  LET y == Y(op) IN
  CASE Z(op) = 0 -> Entry("ret_cc", 11, 1, FALSE)
    [] Z(op) = 1 -> IF ~IsOdd(y) THEN Entry("pop_rr", 10, 1, FALSE)
                    ELSE <<Entry("ret", 10, 1, FALSE), Entry("exx", 4, 1, FALSE),
                           Entry("jp_hl", 4, 1, FALSE), Entry("ld_sp_hl", 6, 1, FALSE)>>[y \div 2 + 1]
    [] Z(op) = 2 -> Entry("jp_cc_nn", 10, 3, FALSE)
    [] Z(op) = 3 -> <<Entry("jp_nn", 10, 3, FALSE), Null(4, 1),
                      Entry("out_n_a", 11, 2, FALSE), Entry("in_a_n", 11, 2, FALSE),
                      Entry("ex_sp_hl", 19, 1, FALSE), Entry("ex_de_hl", 4, 1, FALSE),
                      Entry("di", 4, 1, FALSE), Entry("ei", 4, 1, FALSE)>>[y + 1]
    [] Z(op) = 4 -> Entry("call_cc_nn", 17, 3, FALSE)
    [] Z(op) = 5 -> IF ~IsOdd(y) THEN Entry("push_rr", 11, 1, FALSE)
                    ELSE IF y = 1 THEN Entry("call_nn", 17, 3, FALSE) ELSE Null(4, 1)
    [] Z(op) = 6 -> Entry(AluN[y + 1], 7, 2, TRUE)
    [] OTHER -> Entry("rst", 11, 1, FALSE)

main_table ==
  [op \in Opcode |-> CASE X(op) = 0 -> Main0(op) [] X(op) = 1 -> Main1(op)
                       [] X(op) = 2 -> Main2(op) [] OTHER -> Main3(op)]

cb_table ==
  [op \in Opcode |->
     LET cy == IF Z(op) # 6 THEN 8 ELSE IF X(op) = 1 THEN 12 ELSE 15 IN
     CASE X(op) = 0 -> Entry(Rot[Y(op) + 1], cy, 2, TRUE)
       [] X(op) = 1 -> Entry("cb_bit", cy, 2, TRUE)
       [] X(op) = 2 -> Entry("cb_res", cy, 2, FALSE)
       [] OTHER -> Entry("cb_set", cy, 2, FALSE)]

\* Rows 0x40-0x7F of ed_table.
Ed1(op) ==
  LET y == Y(op) IN
  CASE Z(op) = 0 -> Entry("in_r_c", 12, 2, TRUE)
    [] Z(op) = 1 -> Entry("out_c_r", 12, 2, FALSE)
    [] Z(op) = 2 -> Entry(IF IsOdd(y) THEN "adc_hl_rr" ELSE "sbc_hl_rr", 15, 2, TRUE)
    [] Z(op) = 3 -> Entry(IF IsOdd(y) THEN "ld_rr_nn_ind" ELSE "ld_nn_rr_ind", 20, 4, FALSE)
    [] Z(op) = 4 -> Entry("neg", 8, 2, TRUE)
    [] Z(op) = 5 -> Entry(IF IsOdd(y) THEN "reti" ELSE "retn", 14, 2, FALSE)
    [] Z(op) = 6 -> Entry("im", 8, 2, FALSE)
    [] OTHER -> <<Entry("ld_i_a", 9, 2, FALSE), Entry("ld_r_a", 9, 2, FALSE),
                  Entry("ld_a_i", 9, 2, TRUE), Entry("ld_a_r", 9, 2, TRUE),
                  Entry("rrd", 18, 2, TRUE), Entry("rld", 18, 2, TRUE),
                  Null(8, 2), Null(8, 2)>>[y + 1]

Block == <<<<"ldi", "cpi", "ini", "outi">>, <<"ldd", "cpd", "ind", "outd">>,
           <<"ldir", "cpir", "inir", "otir">>, <<"lddr", "cpdr", "indr", "otdr">>>>

ed_table ==
  [op \in Opcode |->
     IF X(op) = 1 THEN Ed1(op)
     ELSE IF X(op) = 2 /\ Y(op) >= 4 /\ Z(op) < 4
          THEN Entry(Block[Y(op) - 3][Z(op) + 1], 16, 2, TRUE)
          ELSE Null(8, 2)]

\* BOTH fills dd_table and fd_table alike; active_index tells them apart.
\* Fault: the entry of LD IXL,A is missing, and the decoder falls through to LD L,A.
Dd12Without6F(op) ==
  LET half(i) == i \in {4, 5} IN
  IF X(op) = 2
  THEN IF Z(op) = 6 THEN Entry("dd_fd_alu_ixd", 19, 3, TRUE)
       ELSE IF half(Z(op)) THEN Entry("dd_fd_alu_ixhl", 8, 2, TRUE) ELSE Null(0, 0)
  ELSE IF op \in {111, 118} THEN Null(0, 0)
  ELSE IF Z(op) = 6 THEN Entry("dd_fd_ld_r_ixd", 19, 3, FALSE)
  ELSE IF Y(op) = 6 THEN Entry("dd_fd_ld_ixd_r", 19, 3, FALSE)
  ELSE IF half(Z(op)) \/ half(Y(op)) THEN Entry("dd_fd_ld_ixhl", 8, 2, FALSE)
  ELSE Null(0, 0)

\* The rows of loads and arithmetic that name H, L or (HL), in 0x40-0xBF.
Dd12(op) ==
  LET half(i) == i \in {4, 5} IN
  IF X(op) = 2
  THEN IF Z(op) = 6 THEN Entry("dd_fd_alu_ixd", 19, 3, TRUE)
       ELSE IF half(Z(op)) THEN Entry("dd_fd_alu_ixhl", 8, 2, TRUE) ELSE Null(0, 0)
  ELSE IF op = 118 THEN Null(0, 0)
  ELSE IF Z(op) = 6 THEN Entry("dd_fd_ld_r_ixd", 19, 3, FALSE)
  ELSE IF Y(op) = 6 THEN Entry("dd_fd_ld_ixd_r", 19, 3, FALSE)
  ELSE IF half(Z(op)) \/ half(Y(op)) THEN Entry("dd_fd_ld_ixhl", 8, 2, FALSE)
  ELSE Null(0, 0)

dd_table ==
  [op \in Opcode |->
     CASE op = 33  -> Entry("dd_fd_ld_ix_nn", 14, 4, FALSE)
       [] op = 34  -> Entry("dd_fd_ld_nn_ix", 20, 4, FALSE)
       [] op = 42  -> Entry("dd_fd_ld_ix_nn_ind", 20, 4, FALSE)
       [] op = 35  -> Entry("dd_fd_inc_ix", 10, 2, FALSE)
       [] op = 43  -> Entry("dd_fd_dec_ix", 10, 2, FALSE)
       [] op \in {36, 44} -> Entry("dd_fd_inc_ixhl", 8, 2, TRUE)
       [] op \in {37, 45} -> Entry("dd_fd_dec_ixhl", 8, 2, TRUE)
       [] op \in {38, 46} -> Entry("dd_fd_ld_ixhl_n", 11, 3, FALSE)
       [] op \in {9, 25, 41, 57} -> Entry("dd_fd_add_ix_rr", 15, 2, TRUE)
       [] op = 249 -> Entry("dd_fd_ld_sp_ix", 10, 2, FALSE)
       [] op = 229 -> Entry("dd_fd_push_ix", 15, 2, FALSE)
       [] op = 225 -> Entry("dd_fd_pop_ix", 14, 2, FALSE)
       [] op = 227 -> Entry("dd_fd_ex_sp_ix", 23, 2, FALSE)
       [] op = 233 -> Entry("dd_fd_jp_ix", 8, 2, FALSE)
       [] op = 54  -> Entry("dd_fd_ld_ixd_n", 19, 3, FALSE)
       [] op = 52  -> Entry("dd_fd_inc_ixd", 23, 3, TRUE)
       [] op = 53  -> Entry("dd_fd_dec_ixd", 23, 3, TRUE)
       [] X(op) \in {1, 2} -> Dd12(op)
       [] OTHER -> Null(0, 0)]

ddcb_table ==
  [op \in Opcode |->
     CASE X(op) = 0 -> Entry("ddcb_fdcb_rot", 23, 4, TRUE)
       [] X(op) = 1 -> Entry("ddcb_fdcb_bit", 20, 4, TRUE)
       [] X(op) = 2 -> Entry("ddcb_fdcb_res", 23, 4, FALSE)
       [] OTHER -> Entry("ddcb_fdcb_set", 23, 4, FALSE)]
=============================================================================
