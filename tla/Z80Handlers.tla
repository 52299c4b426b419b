---------------------------- MODULE Z80Handlers ----------------------------
(***************************************************************************)
(* What the handlers named by the tables do to the bus, to Q, and to which *)
(* operands.  Values, and the registers other than Q, are left out.        *)
(***************************************************************************)
EXTENDS Z80Tables

\* A bus cycle, or idle time, with its T-states without wait states.
Cycle == [on : {"operand", "read", "write", "in", "out", "idle"}, t : 1 .. 7]
Opd == [on |-> "operand", t |-> 3]  \* read(PC++)
Rd  == [on |-> "read", t |-> 3]
Wr  == [on |-> "write", t |-> 3]
PortIn  == [on |-> "in", t |-> 4]
PortOut == [on |-> "out", t |-> 4]
Idle(t) == [on |-> "idle", t |-> t]

When(c, cycles) == IF c THEN cycles ELSE <<>>
Names(row) == {row[i] : i \in DOMAIN row}

-----------------------------------------------------------------------------
(* The bus cycles of each handler, in order.  hl: the operand is (HL);     *)
(* taken: a condition holds, or a repeating instruction goes on.           *)

LoadCycles ==
  [ld_r_r |-> <<>>, ld_r_n |-> <<Opd>>, ld_hl_n |-> <<Opd, Wr>>,
   ld_r_hl |-> <<Rd>>, ld_a_bc |-> <<Rd>>, ld_a_de |-> <<Rd>>,
   ld_hl_r |-> <<Wr>>, ld_bc_a |-> <<Wr>>, ld_de_a |-> <<Wr>>,
   ld_a_nn |-> <<Opd, Opd, Rd>>, ld_nn_a |-> <<Opd, Opd, Wr>>,
   ld_rr_nn |-> <<Opd, Opd>>,
   ld_hl_nn |-> <<Opd, Opd, Rd, Rd>>, ld_rr_nn_ind |-> <<Opd, Opd, Rd, Rd>>,
   ld_nn_hl |-> <<Opd, Opd, Wr, Wr>>, ld_nn_rr_ind |-> <<Opd, Opd, Wr, Wr>>]

StackCycles ==
  [ld_sp_hl |-> <<Idle(2)>>,
   ex_de_hl |-> <<>>, ex_af_afp |-> <<>>, exx |-> <<>>,
   push_rr |-> <<Idle(1), Wr, Wr>>, pop_rr |-> <<Rd, Rd>>,
   ex_sp_hl |-> <<Rd, Rd, Idle(1), Wr, Wr, Idle(2)>>]

\* Fault: DEC (HL) writes back without the idle state.
AluCyclesNoIdle ==
  [inc_r |-> <<>>, dec_r |-> <<>>,
   inc_hl |-> <<Rd, Idle(1), Wr>>, dec_hl |-> <<Rd, Wr>>,
   daa |-> <<>>, cpl |-> <<>>, neg |-> <<>>, ccf |-> <<>>, scf |-> <<>>,
   nop |-> <<>>, halt |-> <<>>,
   rlca |-> <<>>, rrca |-> <<>>, rla |-> <<>>, rra |-> <<>>,
   ld_a_i |-> <<Idle(1)>>, ld_a_r |-> <<Idle(1)>>,
   ld_i_a |-> <<Idle(1)>>, ld_r_a |-> <<Idle(1)>>,
   rld |-> <<Rd, Idle(4), Wr>>, rrd |-> <<Rd, Idle(4), Wr>>]

AluCycles ==
  [inc_r |-> <<>>, dec_r |-> <<>>,
   inc_hl |-> <<Rd, Idle(1), Wr>>, dec_hl |-> <<Rd, Idle(1), Wr>>,
   daa |-> <<>>, cpl |-> <<>>, neg |-> <<>>, ccf |-> <<>>, scf |-> <<>>,
   nop |-> <<>>, halt |-> <<>>,
   rlca |-> <<>>, rrca |-> <<>>, rla |-> <<>>, rra |-> <<>>,
   ld_a_i |-> <<Idle(1)>>, ld_a_r |-> <<Idle(1)>>,
   ld_i_a |-> <<Idle(1)>>, ld_r_a |-> <<Idle(1)>>,
   rld |-> <<Rd, Idle(4), Wr>>, rrd |-> <<Rd, Idle(4), Wr>>]

PairCycles ==
  [inc_rr |-> <<Idle(2)>>, dec_rr |-> <<Idle(2)>>,
   add_hl_rr |-> <<Idle(7)>>, adc_hl_rr |-> <<Idle(7)>>, sbc_hl_rr |-> <<Idle(7)>>]

IndexedLoadCycles ==
  [dd_fd_ld_r_ixd |-> <<Opd, Idle(5), Rd>>, dd_fd_ld_ixd_r |-> <<Opd, Idle(5), Wr>>,
   dd_fd_ld_ixd_n |-> <<Opd, Opd, Idle(2), Wr>>,
   dd_fd_ld_ix_nn |-> <<Opd, Opd>>, dd_fd_ld_nn_ix |-> <<Opd, Opd, Wr, Wr>>,
   dd_fd_ld_ix_nn_ind |-> <<Opd, Opd, Rd, Rd>>]

IndexedPairCycles ==
  [dd_fd_inc_ix |-> <<Idle(2)>>, dd_fd_dec_ix |-> <<Idle(2)>>,
   dd_fd_inc_ixhl |-> <<>>, dd_fd_dec_ixhl |-> <<>>,
   dd_fd_add_ix_rr |-> <<Idle(7)>>, dd_fd_ld_sp_ix |-> <<Idle(2)>>,
   dd_fd_push_ix |-> <<Idle(1), Wr, Wr>>, dd_fd_pop_ix |-> <<Rd, Rd>>,
   dd_fd_ex_sp_ix |-> <<Rd, Rd, Idle(1), Wr, Wr, Idle(2)>>, dd_fd_jp_ix |-> <<>>]

IndexedHalfCycles ==
  [dd_fd_ld_ixhl |-> <<>>, dd_fd_ld_ixhl_n |-> <<Opd>>, dd_fd_alu_ixhl |-> <<>>]

IndexedAluCycles ==
  [dd_fd_alu_ixd |-> <<Opd, Idle(5), Rd>>,
   dd_fd_inc_ixd |-> <<Opd, Idle(5), Rd, Idle(1), Wr>>,
   dd_fd_dec_ixd |-> <<Opd, Idle(5), Rd, Idle(1), Wr>>]

JumpCycles(taken) ==
  [jp_nn |-> <<Opd, Opd>>, jp_cc_nn |-> <<Opd, Opd>>, jp_hl |-> <<>>,
   jr_e |-> <<Opd, Idle(5)>>,
   jr_cc_e |-> IF taken THEN <<Opd, Idle(5)>> ELSE <<Opd>>,
   djnz_e |-> IF taken THEN <<Idle(1), Opd, Idle(5)>> ELSE <<Idle(1), Opd>>,
   call_nn |-> <<Opd, Opd, Idle(1), Wr, Wr>>,
   call_cc_nn |-> IF taken THEN <<Opd, Opd, Idle(1), Wr, Wr>> ELSE <<Opd, Opd>>,
   rst |-> <<Idle(1), Wr, Wr>>,
   ret |-> <<Rd, Rd>>, ret_cc |-> IF taken THEN <<Idle(1), Rd, Rd>> ELSE <<Idle(1)>>,
   retn |-> <<Rd, Rd>>, reti |-> <<Rd, Rd>>,
   di |-> <<>>, ei |-> <<>>, im |-> <<>>]

IoCycles ==
  [in_a_n |-> <<Opd, PortIn>>, out_n_a |-> <<Opd, PortOut>>,
   in_r_c |-> <<PortIn>>, out_c_r |-> <<PortOut>>]

\* The instructions with the same access, and those that go back to the opcode.
Column(z) == {Block[b][z] : b \in 1 .. 4}
Repeats == Names(Block[3]) \cup Names(Block[4])
Blocks == Names(Block[1]) \cup Names(Block[2]) \cup Repeats

\* One iteration, and the time to put PC back to the opcode.
BlockCycles(exec, taken) ==
  LET back == taken /\ exec \in Repeats IN
  CASE exec \in Column(1) ->
         IF back THEN <<Rd, Wr, Idle(2), Idle(5)>> ELSE <<Rd, Wr, Idle(2)>>
    [] exec \in Column(2) ->
         IF back THEN <<Rd, Idle(5), Idle(5)>> ELSE <<Rd, Idle(5)>>
    [] exec \in Column(3) ->
         IF back THEN <<Idle(1), PortIn, Wr, Idle(5)>> ELSE <<Idle(1), PortIn, Wr>>
    [] exec \in Column(4) ->
         IF back THEN <<Idle(1), Rd, PortOut, Idle(5)>> ELSE <<Idle(1), Rd, PortOut>>

IndexedBitCycles ==
  [ddcb_fdcb_rot |-> <<Rd, Idle(2), Wr>>, ddcb_fdcb_bit |-> <<Rd, Idle(2)>>,
   ddcb_fdcb_res |-> <<Rd, Idle(2), Wr>>, ddcb_fdcb_set |-> <<Rd, Idle(2), Wr>>]

CyclesOf(exec, hl, taken) ==
  CASE exec \in DOMAIN LoadCycles -> LoadCycles[exec]
    [] exec \in DOMAIN StackCycles -> StackCycles[exec]
    [] exec \in Names(Alu) -> When(hl, <<Rd>>)
    [] exec \in Names(AluN) -> <<Opd>>
    [] exec \in DOMAIN AluCycles -> AluCycles[exec]
    [] exec \in DOMAIN PairCycles -> PairCycles[exec]
    [] exec \in DOMAIN JumpCycles(taken) -> JumpCycles(taken)[exec]
    [] exec \in DOMAIN IoCycles -> IoCycles[exec]
    [] exec \in Blocks -> BlockCycles(exec, taken)
    [] exec \in Names(Rot) \cup {"cb_res", "cb_set"} -> When(hl, <<Idle(1), Rd, Wr>>)
    [] exec = "cb_bit" -> When(hl, <<Idle(1), Rd>>)
    [] exec \in DOMAIN IndexedBitCycles -> IndexedBitCycles[exec]
    [] exec \in DOMAIN IndexedLoadCycles -> IndexedLoadCycles[exec]
    [] exec \in DOMAIN IndexedPairCycles -> IndexedPairCycles[exec]
    [] exec \in DOMAIN IndexedHalfCycles -> IndexedHalfCycles[exec]
    [] exec \in DOMAIN IndexedAluCycles -> IndexedAluCycles[exec]
    [] exec = "null" -> <<>>

-----------------------------------------------------------------------------
(* Q: handlers end with Q = F or with Q = 0, but for that of HALT.         *)

\* Fault: INC IXH clears Q, as a load does.
QIsFWithoutIncHalf ==
  Names(Alu) \cup Names(AluN) \cup Names(Rot) \cup Blocks
  \cup {"inc_r", "dec_r", "inc_hl", "dec_hl", "add_hl_rr", "adc_hl_rr", "sbc_hl_rr",
        "daa", "cpl", "neg", "ccf", "scf", "rlca", "rrca", "rla", "rra",
        "ld_a_i", "ld_a_r", "rld", "rrd", "in_r_c", "cb_bit",
        "ddcb_fdcb_rot", "ddcb_fdcb_bit",
        "dd_fd_dec_ixhl", "dd_fd_add_ix_rr", "dd_fd_alu_ixhl",
        "dd_fd_alu_ixd", "dd_fd_inc_ixd", "dd_fd_dec_ixd"}

QIsF ==
  Names(Alu) \cup Names(AluN) \cup Names(Rot) \cup Blocks
  \cup {"inc_r", "dec_r", "inc_hl", "dec_hl", "add_hl_rr", "adc_hl_rr", "sbc_hl_rr",
        "daa", "cpl", "neg", "ccf", "scf", "rlca", "rrca", "rla", "rra",
        "ld_a_i", "ld_a_r", "rld", "rrd", "in_r_c", "cb_bit",
        "ddcb_fdcb_rot", "ddcb_fdcb_bit",
        "dd_fd_inc_ixhl", "dd_fd_dec_ixhl", "dd_fd_add_ix_rr", "dd_fd_alu_ixhl",
        "dd_fd_alu_ixd", "dd_fd_inc_ixd", "dd_fd_dec_ixd"}

KeepsQ == {"halt", "null"}

-----------------------------------------------------------------------------
(* Operands.  "I" is the index register in force.                          *)

\* read_reg8 and write_reg8; 8 and 9 are the halves of the index register.
Reg(i) == <<"B", "C", "D", "E", "H", "L", "(HL)", "A", "IH", "IL">>[i + 1]
Rp(op) == <<"BC", "DE", "HL", "SP">>[Pair(op) + 1]
StackRp(op) == <<"BC", "DE", "HL", "AF">>[Pair(op) + 1]

\* H and L in the operand fields are IXH and IXL.
Remap(i) == IF i = 4 THEN 8 ELSE IF i = 5 THEN 9 ELSE i

Does(what, on) == [what |-> what, bit |-> 0, on |-> on]
DoesBit(what, bit, on) == [what |-> what, bit |-> bit, on |-> on]

\* A handler of the main table.
Plain(exec, op) ==
  CASE exec \in {"ld_r_r", "ld_r_hl", "ld_hl_r"} -> Does("ld", <<Reg(Y(op)), Reg(Z(op))>>)
    [] exec = "ld_r_n"    -> Does("ld", <<Reg(Y(op)), "n">>)
    [] exec = "ld_hl_n"   -> Does("ld", <<"(HL)", "n">>)
    [] exec \in Names(Alu) -> Does(exec, <<Reg(Z(op))>>)
    [] exec = "inc_r"     -> Does("inc", <<Reg(Y(op))>>)
    [] exec = "dec_r"     -> Does("dec", <<Reg(Y(op))>>)
    [] exec = "inc_hl"    -> Does("inc", <<"(HL)">>)
    [] exec = "dec_hl"    -> Does("dec", <<"(HL)">>)
    [] exec = "ld_rr_nn"  -> Does("ld", <<Rp(op), "nn">>)
    [] exec = "inc_rr"    -> Does("inc", <<Rp(op)>>)
    [] exec = "dec_rr"    -> Does("dec", <<Rp(op)>>)
    [] exec = "add_hl_rr" -> Does("add", <<"HL", Rp(op)>>)
    [] exec = "ld_nn_hl"  -> Does("ld", <<"(nn)", "HL">>)
    [] exec = "ld_hl_nn"  -> Does("ld", <<"HL", "(nn)">>)
    [] exec = "ld_sp_hl"  -> Does("ld", <<"SP", "HL">>)
    [] exec = "push_rr"   -> Does("push", <<StackRp(op)>>)
    [] exec = "pop_rr"    -> Does("pop", <<StackRp(op)>>)
    [] exec = "ex_sp_hl"  -> Does("ex", <<"(SP)", "HL">>)
    [] exec = "jp_hl"     -> Does("jp", <<"HL">>)
    [] OTHER -> Does(exec, <<>>)

\* The cases of the switch on (op >> 3) & 7.
AluCase(op) == <<"add_a", "adc_a", "sub", "sbc_a", "and", "xor", "or", "cp">>[Y(op) + 1]

\* A handler of dd_table and fd_table.
Indexed(exec, op) ==
  CASE exec = "dd_fd_ld_r_ixd"  -> Does("ld", <<Reg(Y(op)), "(I+d)">>)
    [] exec = "dd_fd_ld_ixd_r"  -> Does("ld", <<"(I+d)", Reg(Z(op))>>)
    [] exec = "dd_fd_ld_ixd_n"  -> Does("ld", <<"(I+d)", "n">>)
    [] exec = "dd_fd_ld_ix_nn"  -> Does("ld", <<"I", "nn">>)
    [] exec = "dd_fd_ld_nn_ix"  -> Does("ld", <<"(nn)", "I">>)
    [] exec = "dd_fd_ld_ix_nn_ind" -> Does("ld", <<"I", "(nn)">>)
    [] exec = "dd_fd_ld_sp_ix"  -> Does("ld", <<"SP", "I">>)
    [] exec = "dd_fd_inc_ix"    -> Does("inc", <<"I">>)
    [] exec = "dd_fd_dec_ix"    -> Does("dec", <<"I">>)
    [] exec = "dd_fd_inc_ixhl"  -> Does("inc", <<Reg(IF op = 36 THEN 8 ELSE 9)>>)
    [] exec = "dd_fd_dec_ixhl"  -> Does("dec", <<Reg(IF op = 37 THEN 8 ELSE 9)>>)
    [] exec = "dd_fd_ld_ixhl_n" -> Does("ld", <<Reg(IF op = 38 THEN 8 ELSE 9), "n">>)
    [] exec = "dd_fd_ld_ixhl"   -> Does("ld", <<Reg(Remap(Y(op))), Reg(Remap(Z(op)))>>)
    [] exec = "dd_fd_add_ix_rr" -> Does("add", <<"I", <<"BC", "DE", "I", "SP">>[Pair(op) + 1]>>)
    [] exec = "dd_fd_push_ix"   -> Does("push", <<"I">>)
    [] exec = "dd_fd_pop_ix"    -> Does("pop", <<"I">>)
    [] exec = "dd_fd_ex_sp_ix"  -> Does("ex", <<"(SP)", "I">>)
    [] exec = "dd_fd_jp_ix"     -> Does("jp", <<"I">>)
    [] exec = "dd_fd_alu_ixhl"  -> Does(AluCase(op), <<Reg(IF IsOdd(op) THEN 9 ELSE 8)>>)
    [] exec = "dd_fd_alu_ixd"   -> Does(AluCase(op), <<"(I+d)">>)
    [] exec = "dd_fd_inc_ixd"   -> Does("inc", <<"(I+d)">>)
    [] exec = "dd_fd_dec_ixd"   -> Does("dec", <<"(I+d)">>)

\* A handler of cb_table.
Bits(exec, op) ==
  CASE exec = "cb_bit" -> DoesBit("bit", Y(op), <<Reg(Z(op))>>)
    [] exec = "cb_res" -> DoesBit("res", Y(op), <<Reg(Z(op))>>)
    [] exec = "cb_set" -> DoesBit("set", Y(op), <<Reg(Z(op))>>)
    [] OTHER -> Does(exec, <<Reg(Z(op))>>)

RotCase(op) == <<"rlc", "rrc", "rl", "rr", "sla", "sra", "sll", "srl">>[Y(op) + 1]

\* A handler of ddcb_table and fdcb_table: the result also goes to a register.
IndexedBits(exec, op) ==
  LET on == IF Z(op) = 6 THEN <<"(I+d)">> ELSE <<"(I+d)", Reg(Z(op))>> IN
  CASE exec = "ddcb_fdcb_rot" -> Does(RotCase(op), on)
    [] exec = "ddcb_fdcb_bit" -> DoesBit("bit", Y(op), <<"(I+d)">>)
    [] exec = "ddcb_fdcb_res" -> DoesBit("res", Y(op), on)
    [] exec = "ddcb_fdcb_set" -> DoesBit("set", Y(op), on)
=============================================================================
