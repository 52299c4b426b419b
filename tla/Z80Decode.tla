----------------------------- MODULE Z80Decode -----------------------------
(***************************************************************************)
(* execute_instruction: how bytes become one call of one handler.          *)
(*                                                                         *)
(* Every access to the bus is an action, because the host runs there, and  *)
(* may raise an exception, which unwinds the step as it is.  The tables    *)
(* and the handlers' accesses are those of Z80Handlers.  Memory is a ring  *)
(* of code; what a jump goes to is left open.                              *)
(***************************************************************************)
EXTENDS Z80Handlers, FiniteSets

CONSTANTS
  Codes,    \* the contents of memory, functions from 0 .. n - 1 to bytes
  Refresh,  \* what R may be at the start
  MaxSteps, \* how often the host calls step()
  MaxRaises,\* how often a callback raises
  MaxClock  \* T-states are counted up to this

ASSUME DecodeAssumption ==
  /\ \A m \in Codes : /\ IsFiniteSet(DOMAIN m) /\ DOMAIN m # {}
                       /\ DOMAIN m = 0 .. (Cardinality(DOMAIN m) - 1)
                       /\ m \in [DOMAIN m -> Opcode]
  /\ Refresh \subseteq Opcode
  /\ MaxSteps \in Nat /\ MaxRaises \in Nat
  /\ MaxClock \in Nat /\ MaxClock >= 4

VARIABLES
  code, PC, R, Q,
  active_index,
  stage,    \* where execute_instruction is; "idle" between two steps
  table, opcode, taken, todo, \* what it has dispatched to, bus cycles to come
  clock, fetched, \* T-states and bytes of this step
  prefixes, asked, \* index prefixes of this step, and the registers they ask for
  steps, raises

dispatched == <<table, opcode, taken, todo>>
indexing   == <<active_index, prefixes, asked>>
vars == <<code, PC, R, Q, stage, dispatched, clock, fetched, indexing, steps, raises>>

Stages == {"idle", "CB", "ED", "index", "displacement", "index_opcode", "handler"}
Tables == [main |-> main_table, cb |-> cb_table, ed |-> ed_table,
           dd |-> dd_table, ddcb |-> ddcb_table]

entry == Tables[table][opcode]

Address == DOMAIN code
\* Fault: an address beyond the last one.
MoveNoWrap(n) == PC + n
Move(n) == (PC + n) % Cardinality(Address)

TypeOK ==
  /\ code \in [Address -> Opcode] /\ PC \in Address /\ R \in Opcode /\ Q \in {"0", "F"}
  /\ stage \in Stages
  /\ table \in DOMAIN Tables /\ opcode \in Opcode /\ taken \in BOOLEAN
  /\ todo \in Seq(Cycle)
  /\ clock \in 0 .. MaxClock /\ fetched \in Nat /\ prefixes \in Nat
  /\ active_index \in {"IX", "IY"} /\ asked \subseteq {"IX", "IY"}
  /\ steps \in 0 .. MaxSteps /\ raises \in 0 .. MaxRaises

Init ==
  /\ code \in Codes /\ PC = 0 /\ R \in Refresh /\ Q = "0"
  /\ stage = "idle"
  /\ table = "main" /\ opcode = 0 /\ taken = TRUE /\ todo = <<>>
  /\ clock = 0 /\ fetched = 0 /\ prefixes = 0
  /\ active_index = "IX" /\ asked = {}
  /\ steps = 0 /\ raises = 0

-----------------------------------------------------------------------------
(* Fetching.                                                               *)

CB == 203
ED == 237
DD == 221
FD == 253

\* The seven low bits of R count, bit 7 stays.
Refreshed == (R \div 128) * 128 + ((R + 1) % 128)

Capped(n, max) == IF n < max THEN n ELSE max

\* The register a prefix asks for.
Asks(op) == IF op = DD THEN "IX" ELSE "IY"

\* fetch_opcode and fetch_byte, later ones than the first of a step.
FetchOpcode ==
  /\ R' = Refreshed /\ PC' = Move(1)
  /\ clock' = Capped(clock + 4, MaxClock) /\ fetched' = Capped(fetched + 1, MaxClock)

FetchByte ==
  /\ PC' = Move(1) /\ UNCHANGED R
  /\ clock' = Capped(clock + 3, MaxClock) /\ fetched' = Capped(fetched + 1, MaxClock)

\* Whether a handler goes two ways.
TwoWays(exec) ==
  exec = "jp_cc_nn" \/ CyclesOf(exec, FALSE, TRUE) # CyclesOf(exec, FALSE, FALSE)

Dispatch(t, op) ==
  LET exec == Tables[t][op].exec IN
  /\ stage' = "handler" /\ table' = t /\ opcode' = op
  /\ taken' \in IF TwoWays(exec) THEN BOOLEAN ELSE {TRUE}
  /\ todo' = CyclesOf(exec, Z(op) = 6, taken')

Wait(s) == stage' = s /\ UNCHANGED dispatched

\* Fault: DD relies on active_index being IX already.
FetchFirstKeepsIndex ==
  /\ stage = "idle" /\ steps < MaxSteps
  /\ steps' = steps + 1
  /\ R' = Refreshed /\ PC' = Move(1)
  /\ clock' = 4 /\ fetched' = 1
  /\ LET op == code[PC] IN
     \/ /\ op \in {DD, FD}
        /\ active_index' = IF op = FD THEN "IY" ELSE active_index
        /\ asked' = {Asks(op)} /\ prefixes' = 1
        /\ Wait("index")
     \/ /\ op \notin {DD, FD}
        /\ CASE op = CB -> Wait("CB") [] op = ED -> Wait("ED") [] OTHER -> Dispatch("main", op)
        /\ prefixes' = 0 /\ asked' = {} /\ UNCHANGED active_index
  /\ UNCHANGED <<code, Q, raises>>

FetchFirst ==
  /\ stage = "idle" /\ steps < MaxSteps
  /\ steps' = steps + 1
  /\ R' = Refreshed /\ PC' = Move(1)
  /\ clock' = 4 /\ fetched' = 1
  /\ LET op == code[PC] IN
     \/ /\ op \in {DD, FD}
        /\ active_index' = Asks(op)
        /\ asked' = {Asks(op)} /\ prefixes' = 1
        /\ Wait("index")
     \/ /\ op \notin {DD, FD}
        /\ CASE op = CB -> Wait("CB") [] op = ED -> Wait("ED") [] OTHER -> Dispatch("main", op)
        /\ prefixes' = 0 /\ asked' = {} /\ UNCHANGED active_index
  /\ UNCHANGED <<code, Q, raises>>

FetchSecond ==
  /\ \/ stage = "CB" /\ Dispatch("cb", code[PC])
     \/ stage = "ED" /\ Dispatch("ed", code[PC])
  /\ FetchOpcode
  /\ UNCHANGED <<code, Q, indexing, steps, raises>>

\* Fault: ED is taken for one more redundant prefix.
FetchIndexedSkipsEd ==
  /\ stage = "index"
  /\ LET op == code[PC] IN
     \/ /\ op \in {DD, FD, ED}
        /\ prefixes' = Capped(prefixes + 1, MaxClock) /\ asked' = asked \cup {Asks(op)}
        /\ Wait("index")
     \/ /\ op \notin {DD, FD, ED}
        /\ CASE op = CB -> Wait("displacement")
             [] dd_table[op].exec # "null" -> Dispatch("dd", op)
             [] OTHER -> Dispatch("main", op)
        /\ UNCHANGED <<prefixes, asked>>
  /\ FetchOpcode
  /\ UNCHANGED <<code, Q, active_index, steps, raises>>

\* The loop over further prefixes, and what follows it.  ED is an opcode here,
\* without an entry in either table.
FetchIndexed ==
  /\ stage = "index"
  /\ LET op == code[PC] IN
     \/ /\ op \in {DD, FD}
        /\ prefixes' = Capped(prefixes + 1, MaxClock) /\ asked' = asked \cup {Asks(op)}
        /\ Wait("index")
     \/ /\ op \notin {DD, FD}
        /\ CASE op = CB -> Wait("displacement")
             [] dd_table[op].exec # "null" -> Dispatch("dd", op)
             [] OTHER -> Dispatch("main", op)
        /\ UNCHANGED <<prefixes, asked>>
  /\ FetchOpcode
  /\ UNCHANGED <<code, Q, active_index, steps, raises>>

\* Fault: the displacement is taken for the opcode.
FetchIndexedBitShort ==
  /\ stage = "displacement" /\ Dispatch("ddcb", code[PC])
  /\ FetchByte
  /\ UNCHANGED <<code, Q, indexing, steps, raises>>

\* The displacement, then the opcode, neither fetched as an opcode.
FetchIndexedBit ==
  /\ \/ stage = "displacement" /\ Wait("index_opcode")
     \/ stage = "index_opcode" /\ Dispatch("ddcb", code[PC])
  /\ FetchByte
  /\ UNCHANGED <<code, Q, indexing, steps, raises>>

-----------------------------------------------------------------------------
(* The handler.                                                            *)

BusCycle ==
  /\ stage = "handler" /\ todo # <<>>
  /\ todo' = Tail(todo)
  /\ clock' = Capped(clock + Head(todo).t, MaxClock)
  /\ IF Head(todo).on = "operand"
     THEN PC' = Move(1) /\ fetched' = Capped(fetched + 1, MaxClock)
     ELSE UNCHANGED <<PC, fetched>>
  /\ UNCHANGED <<code, R, Q, stage, table, opcode, taken, indexing, steps, raises>>

Jumps == {"jp_nn", "jp_cc_nn", "jp_hl", "jr_e", "jr_cc_e", "djnz_e", "call_nn",
          "call_cc_nn", "ret", "ret_cc", "rst", "retn", "reti", "dd_fd_jp_ix"}

\* The handler's last assignments, and the end of execute_instruction.
Finish ==
  /\ stage = "handler" /\ todo = <<>>
  /\ stage' = "idle"
  /\ CASE taken /\ entry.exec \in Jumps -> PC' \in Address
       [] taken /\ entry.exec \in Repeats -> PC' = Move(-2)
       [] entry.exec = "halt" -> PC' = Move(-1)
       [] OTHER -> UNCHANGED PC
  /\ Q' = CASE entry.exec \in KeepsQ -> Q [] entry.exec \in QIsF -> "F" [] OTHER -> "0"
  /\ active_index' = IF prefixes > 0 THEN "IX" ELSE active_index
  /\ UNCHANGED <<code, R, dispatched, clock, fetched, prefixes, asked, steps, raises>>

-----------------------------------------------------------------------------
(* A callback raises, that of the access or extra_cycles() after it.  R has *)
(* been incremented by then; PC has when a byte has been read, or before it *)
(* if that is not an opcode; and only an input has perhaps been timed.      *)

Unwind(n, t) ==
  /\ raises < MaxRaises
  /\ raises' = raises + 1
  /\ stage' = "idle"
  /\ PC' = Move(n) /\ clock' = Capped(clock + t, MaxClock)
  /\ UNCHANGED <<code, Q, dispatched, fetched, indexing>>

Raise ==
  \/ /\ stage = "idle" /\ steps < MaxSteps /\ steps' = steps + 1
     /\ R' = Refreshed /\ \E n \in {0, 1} : Unwind(n, 0)
  \/ /\ stage \in {"CB", "ED", "index"}
     /\ R' = Refreshed /\ \E n \in {0, 1} : Unwind(n, 0)
     /\ UNCHANGED steps
  \/ /\ stage \in {"displacement", "index_opcode"} /\ Unwind(1, 0)
     /\ UNCHANGED <<R, steps>>
  \/ /\ stage = "handler" /\ todo # <<>> /\ Head(todo).on # "idle"
     /\ \E t \in {0} \cup (IF Head(todo).on = "in" THEN {4} ELSE {}) :
          Unwind(IF Head(todo).on = "operand" THEN 1 ELSE 0, t)
     /\ UNCHANGED <<R, steps>>

-----------------------------------------------------------------------------

Continue == FetchSecond \/ FetchIndexed \/ FetchIndexedBit \/ BusCycle \/ Finish
Next == FetchFirst \/ Continue \/ Raise

Spec == Init /\ [][Next]_vars

\* step() runs on to its end by itself.
FairSpec == Spec /\ WF_vars(Continue)

-----------------------------------------------------------------------------
(* Properties.                                                             *)

Complete == stage = "handler" /\ todo = <<>>

\* Prefixes the entry's cycles and length do not count: all but one for an
\* indexed entry, all for one of the main table.
Uncounted == IF table \in {"dd", "ddcb"} THEN prefixes - 1 ELSE prefixes

\* What becomes of a second prefix, and of ED behind a prefix, is not agreed on:
\* the decoder skips the one and drops the other, tests and the changelog say
\* otherwise (ChainsAsTested, and the README).
Undisputed == prefixes <= 1 /\ ~(prefixes = 1 /\ table = "main" /\ opcode = ED)

\* What the comments at the handlers say of the other way: T-states saved when
\* a condition fails, and spent on going back to the opcode.  (So say the tests
\* of OTIR and OTDR; CHANGELOG.md:156 has their two times the other way round.)
Saved == [jr_cc_e |-> 5, djnz_e |-> 5, call_cc_nn |-> 7, ret_cc |-> 6]
Correction(exec, taking) ==
  CASE exec \in Repeats -> IF taking THEN 5 ELSE 0
    [] exec \in DOMAIN Saved /\ ~taking -> -Saved[exec]
    [] OTHER -> 0

\* Every instruction takes the time its table entry states, the sum of the
\* fetches and of what the handler does by itself; but see IndexedBitTime.
TimeAsTabled ==
  Complete /\ Undisputed /\ table # "ddcb" =>
    clock = Capped(4 * Uncounted + entry.cycles + Correction(entry.exec, taken), MaxClock)

\* Decoder and handler together read exactly the bytes of the instruction: the
\* next step begins behind its last operand.  (The entries of LD (IX+d),n and
\* LD (IY+d),n do not count the operand.)
LengthAsTabled ==
  Complete /\ Undisputed /\ entry.exec # "dd_fd_ld_ixd_n" =>
    fetched = Capped(Uncounted + entry.length, MaxClock)

\* A handler leaves the flags in Q if the table says that it affects them, and
\* 0 otherwise.
QAsTabled ==
  [][Finish /\ entry.exec \notin KeepsQ => (Q' = "F" <=> entry.affects)]_vars

\* A prefix puts the index register in the place of HL, and its halves in that of
\* H and L; or (I+d) in that of (HL), and then leaves H and L alone.
Half(name) ==
  CASE name = "HL" -> "I" [] name = "H" -> "IH" [] name = "L" -> "IL" [] OTHER -> name
Pointer(name) == IF name = "(HL)" THEN "(I+d)" ELSE name
Substituted(does) ==
  [does EXCEPT !.on = [i \in DOMAIN @ |-> IF "(HL)" \in Names(does.on) THEN Pointer(@[i])
                                          ELSE Half(@[i])]]

\* A bit operation is one on (I+d), whose result is also put in the register.
SubstitutedBit(does, op) ==
  [does EXCEPT !.on = IF does.what = "bit" \/ Z(op) = 6 THEN <<"(I+d)">>
                      ELSE <<"(I+d)", does.on[1]>>]

\* The indexed handlers, copies of the plain ones, do to the index register what
\* those do to HL; and where the decoder falls through to a plain handler, there
\* is nothing to substitute.
OperandsIndexed ==
  stage = "handler" /\ prefixes > 0 =>
    CASE table = "dd" ->
           Indexed(entry.exec, opcode) = Substituted(Plain(main_table[opcode].exec, opcode))
      [] table = "ddcb" ->
           IndexedBits(entry.exec, opcode) =
             SubstitutedBit(Bits(cb_table[opcode].exec, opcode), opcode)
      [] OTHER ->
           LET does == Plain(entry.exec, opcode) IN Substituted(does) = does

\* An indexed handler finds in active_index the register the prefixes of its own
\* instruction ask for, whatever an unwound step has left there.  (Of prefixes
\* that ask for both, the first one wins here and the last one in a test.)
IndexInForce ==
  stage = "handler" /\ table \in {"dd", "ddcb"} =>
    \A reg \in {"IX", "IY"} : asked = {reg} => active_index = reg

\* A step ends, unless memory holds index prefixes only.
StepEnds ==
  (\E a \in Address : code[a] \notin {DD, FD}) => (stage # "idle" ~> stage = "idle")

-----------------------------------------------------------------------------
(* What the tables, a comment, a test and the changelog say, and the code  *)
(* does not do.                                                            *)

\* An indexed bit operation takes the 23 T-states (20 for BIT) of its entry.
IndexedBitTime ==
  Complete /\ table = "ddcb" =>
    clock = Capped(4 * Uncounted + entry.cycles, MaxClock)

\* A prefix behind a prefix is the opcode of its step: without an entry in any
\* table, it ends the step after 2 bytes and 8 T-states.
ChainsAsTested == Complete /\ prefixes > 1 => fetched = 2 /\ clock = 8
=============================================================================
