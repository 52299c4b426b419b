# A formal model of pyz80cpp

TLA+ modules of the Z80 emulator core in this repository, model-checking runs
for TLC, and theorems checked by TLAPS.  File names are relative to the
repository's root.  `PROJECT.json` maps every definition to its lines of code.

    tlc -workers 2 -config MCZ80Core.cfg MCZ80Core    # one run
    tlapm Z80CoreProofs.tla                           # the proofs of a module

Contents: 1 the system, 2 the modules, 3 how they correspond to the code,
4 the runs, 5 fairness, 6 the proofs, 7 where code and documents disagree,
8 what is not modelled, 9 the plan.

## 1. The system

pyz80cpp is a Z80 processor in C++ behind a Python binding.  It is one
sequential program: the host (usually Python) owns a `Bus`, calls `step()`,
`run()` or `run_instructions()`, raises interrupts with `trigger_interrupt()`
and `trigger_nmi()`, and is called back for every memory, I/O and
interrupt-acknowledge cycle the processor makes.  There are no threads and
nothing is persisted.  What is concurrent is the interrupted program, its
interrupt handlers and the devices: requests arrive between any two
instructions, and from inside a callback also in the middle of a step.  A
callback may raise an exception, which unwinds the step from where it is.

| component | state | operations | what makes it correct |
|---|---|---|---|
| step loop and interrupt acceptance (`src/z80.cpp`) | latches `interrupt_pending`, `nmi_pending`, `interrupt_data`; `IFF1`, `IFF2`, `IM`, `EI_JUST_RESOLVED`; `halted` | `step`, `reset`, the triggers | no request lost or served twice; masked when it should be; HALT left at the right place; handlers return where they interrupted |
| decoding (`src/z80.cpp`, `src/opcode_table.cpp`) | `PC`, `R`, `active_index`, `current_opcode` | prefixes, seven dispatch tables | one handler for the bytes, with the operands, the time and the length its table entry states |
| control flow (`src/handlers/jump.cpp`) | `PC`, `SP`, `B`, memory | jumps, calls, returns, RST, EI, DI, IM | stack discipline, wrap-around |
| arithmetic and flags (`src/handlers/alu.cpp`, `src/flags.cpp`) | `A`, `F`, `HL`, `Q` | 8- and 16-bit arithmetic, logic, rotations, DAA, RLD, RRD | results and flags mean what the program tests them for |
| CB and indexed bit operations (`src/handlers/io.cpp`) | registers, memory | shifts, rotations, bit tests | shifts chain through the carry; the two copies agree |
| block instructions (`src/handlers/block.cpp`, `io.cpp`) | `BC`, `DE`, `HL`, memory, ports | LDIR, CPIR, INIR, OTIR and their kin | an interrupted operation loses and repeats nothing |
| loads, exchanges, stack (`src/handlers/load.cpp`) | registers | data movement | the right operands, in the right time |
| run loops (`src/z80.cpp`) | `total_cycles`, `trap_address` | `run`, `run_instructions` | they return, on time |
| bus timing (`include/z80/bus.h`, binding) | five tables, five pointers, one size | set, clear | lookups inside owned storage |
| access paths (`include/z80/z80.h`) | `t_state`, `fast_memory_ptr`, fast I/O, the masks | opcode fetch, read, write, in, out, wait | the fast paths and the callbacks agree; the clock indexes the tables |
| binding (`src/bindings/z80_bindings.cpp`) | object ownership | properties, `set_state`, `set_bus` | lifetimes |

The components meet in a few places.  `step()` reads the latches once, at its
start, and then either runs an acceptance or calls one handler through the
dispatch tables.  Handlers change registers directly and memory through the
access paths, which add the delays of the bus timing tables to `total_cycles`
and `t_state`; `run()` measures itself by the first, and the second indexes the
tables.  From `interrupt_acknowledge()` the host can change what the current
step goes on to do: the latch has been cleared and the response is not over.
Repeating block instructions meet interrupts by putting `PC` back to their own
opcode, HALT by putting it back to itself.

What is hard to test: an interrupt between any two instructions, and
combinations of NMI, INT, EI and RETN that no test lists; requests raised
inside callbacks, and callbacks that raise; HALT; block operations cut at any
iteration, with overlaps, wrap-around and zero counts; flags at every boundary of
every width, and chains of operations through the carry; table entries that
repeat by hand what the handlers do; counters at their limit; table bookkeeping
split between two files, and two ways to the same memory.  `PROJECT.json` lists
each hazard at its line with the properties that would catch it.

## 2. The modules

| module | what it is |
|---|---|
| `Z80Words` | bytes and words of a width `W`, pushes and pops: operators only |
| `Z80Isa` | dispatch tables and vectors of control flow: operators only |
| `Z80Core` | interrupt acceptance, flip-flops, HALT and the control-flow handlers |
| `Z80Program` | abstract: what an uninterrupted program means |
| `Z80Frames` | `Z80Core` with history variables, and the refinement of `Z80Program` |
| `Z80Run` | `run()` and `run_instructions()` |
| `Z80Tables` | the seven dispatch tables, entry by entry: operators only |
| `Z80Handlers` | the bus cycles, operands and Q of every handler: operators only |
| `Z80Decode` | `execute_instruction()`, bus access by bus access |
| `BusTiming` | the contention tables |
| `BusMemory` | abstract: memory and ports with nothing in between |
| `BusAccess` | the accessors of `Z80` on `BusTiming`, with masks, clock and fast paths; implements `BusMemory` |
| `Z80Block` | the sixteen block instructions, iteration by iteration |
| `Z80Arith` | results and flags of byte and word arithmetic: operators only |
| `Z80Bits` | shifts, single bits, RLD and RRD, flags of block instructions: operators only |
| `Z80Alu` | the accumulator, `F` and `Q` under every sequence of instructions |
| `MCZ80Machine` | dispatch tables and an assembler for the instances |
| `MCZ80Core`, `MCZ80Frames`, `MCZ80Run`, `MCZ80Decode`, `MCBusTiming`, `MCBusAccess`, `MCZ80Block`, `MCZ80Arith`, `MCZ80Alu` | instances for TLC |
| `Z80WordsTheorems`, `Z80CoreProofs`, `Z80FramesProofs`, `Z80RunProofs`, `Z80DecodeProofs`, `BusProofs`, `Z80ArithTheorems`, `Z80BlockProofs` | lemmas, theorems, proofs |

    Z80Words --- Z80Isa --- Z80Core --- Z80Frames ..P!Spec..> Z80Program
        |                                  (Z80Program extends Z80Isa too)
        +------- Z80Arith --- Z80Bits --- Z80Alu
        +------- Z80Block
    Z80Tables --- Z80Handlers --- Z80Decode
    BusTiming --- BusAccess ..Memory!Spec..> BusMemory
    Z80Run                                 (no words, no dispatch)

`Z80Frames` conjoins every action of `Z80Core` with an update of two history
variables and says, by `P == INSTANCE Z80Program WITH ...`, that the processor
with interrupts implements the program without.  `BusAccess` composes the
accessors with `BusTiming`, whose variables it extends and whose steps are some
of its own, and implements `BusMemory`.  `Z80Run` abstracts `step()` to
what its loops see of it: the time it takes and where `PC` is after it.

An operator named as a variant of another and marked *Fault* in its comment is
not part of the model: it is the definition after it with a plausible mistake.
Put in its place, it makes TLC report the violation of a property, so it
documents what each property is sensitive to (`PROJECT.json`, "mutants").

## 3. Correspondence with the code

**Widths.** A byte has `W` values and a word `W * W`; the code's 256 is one
value of the constant.  All sums are taken modulo the width as `uint8_t` and
`uint16_t` take them.  The theorems hold for every `W` their assumptions admit
(`W >= 2`; an even `K` with `W = K * K` for arithmetic; the two about decimal
adjustment and `Q` have the code's bytes, `K = 16`).  TLC uses smaller
widths, except for `Z80Alu`, `Z80Decode` and `BusAccess`, which have real
bytes, opcodes and addresses.

**`Z80Core`.** The variables carry the names of the members of `Z80` and
`Registers`.  One call of `step()` is one action, except for INT: `BeginInt` is
the code up to the call of `interrupt_acknowledge()`, `FinishInt` the code after
it, and between the two (`acknowledging`) only the host's triggers can happen;
or the callback raises (`UnwindInt`), and what `BeginInt` did stays done.
`AcceptNmi`, `BeginInt` and the instructions are guarded as the code orders its
tests: NMI first, then INT, then an instruction, and the latter only when the
processor is not halted (a HALT tick changes nothing the module keeps: a
stuttering step).  Each handler is one action; which one executes follows from
the bytes at `PC` through `MainTable` and `EdTable`, as in
`execute_instruction()`, with the `ED` prefix as the only prefix.  `EI_PENDING`
is set and consumed in one call of `step()`, so only its effect,
`EI_JUST_RESOLVED`, is a variable.  Conditions of jumps are left open (the flags
are not modelled here), and `LD I,A` loads any of `AccValues`.  A trigger from
any other callback of a step is the same as one after it, since the latches are
read at the start of `step()` only.  `Reset` is `reset()` called between two
steps: the memory stays.

**`Z80Frames`.** `frames` records, at each acceptance, where the program
continues, its stack pointer and its interrupt switch; an instruction that
brings `SP` back there ends the frame, and so does an acknowledge callback that
raises (`AckRaises` says whether it may).  `armed` records an `EI` that no `DI` and
no INT acceptance has cancelled.  The mapping to `Z80Program` shows the program
its own registers when no interrupt is served, and otherwise what the outermost
frame recorded; the program's stack is read from memory.

**`Z80Run`.** `CallRun`, `RunStep` and `RunReturn` are the entry, the body and the
end of the loop of `run()`; likewise for `run_instructions()`, whose test for
`halted` comes before each step.  `total_cycles` is an int of which `IntMax` is
the largest value; additions wrap around, as compiled code does, although the
language leaves a signed overflow undefined.  `SetCycles` is the setter of the
counter, which takes any int.  With `Careful` the host uses it between calls only,
and makes no call for which the counter has no room.

**`Z80Tables`, `Z80Handlers`.** The tables map an opcode, read as its octal digits
`X`, `Y`, `Z`, to a handler's name and the cycles, length and `affects_flags` the
entry states; `dd_table` and `fd_table`, and `ddcb_table` and `fdcb_table`, are filled
by one macro and are one function each.  Of a handler, `CyclesOf` gives the bus
cycles and idle times in their order (`Cycle`), by groups of handlers and for either way
of those that go two (`BlockCycles`, `JumpCycles`), `QIsF` and `KeepsQ` what it does to `Q`, and
`Plain`, `Indexed`, `Bits` and `IndexedBits` what it does to which registers, from
the switches it has on its opcode: where a handler tells eight cases apart by
hand, so does the model.

**`Z80Decode`.** `stage` is the place in `execute_instruction()`.  `FetchFirst` is
the first opcode fetch; `FetchSecond` the byte after CB or ED; `FetchIndexed` one
round of the loop after DD or FD, which goes on at further prefixes, takes an
entry of the indexed table, or falls through to the main table (ED too);
`FetchIndexedBit` the displacement and the opcode of DDCB and FDCB.
`Dispatch` looks up the handler, whose bus cycles `BusCycle` then makes one by
one; `Finish` is what follows the handler, `Q` and `active_index` included.  In
every access the callback may raise (`Raise`): the step ends there, with `R`, `PC`
and the clock as far advanced as the code has them, and `active_index` as it is.
Memory is a ring of code, and what a jump goes to is any address of it.

**`BusTiming`.** `SetTables` and `ClearTables` are the members of `Bus`,
`PySetTables` and `PyClearTables` the lambdas of the binding.  A pointer is null,
at storage the bus owns, or at storage a later call freed.  With `Uniform` the
host passes tables of one size, among them a fetch table, and withdraws none but
by clearing: what `get_extra_cycles()` and the binding take for granted.

**`BusAccess`.** `FetchOpcode`, `Read`, `Write`, `Input`, `Output` and `Wait` are the
accessors, each with its T-states and the wait states of its table, mask and
`extra_cycles()` (data: any of `Delays`).  `Index` is the `%` of C++, negative for a
negative `t_state`.  The fast paths are taken as the code takes them: reads and
opcode fetches go through `fast_memory_ptr` if it is set, writes always to the
callback, inputs through the fast buffer if the low byte of the port is active, and
otherwise to `in_()` with both bytes of the port: `device` has an answer for each
page (upper byte) and port.  Processor and host take turns (`running`).  A step makes
up to `Accesses` accesses, `left` of them to come, and nothing in it looks at the
frame; the host acts between two steps, and in callbacks (`CallBack`, or after a
write) until it returns.  On its turn it sets tables, masks, pointers and `t_state`,
pages memory and changes devices, each byte on its own, and owes that byte to the
buffer (`dirty`, `stale`) until `CopyByte` or `CopyPort` pays; to a buffer newly set it
owes every byte.  Its duties are `KeepsFrame`, not to begin a step past the end of the
frame nor to set `t_state` there; and `KeepsBuffers`, to owe nothing to a buffer in use
when it gives up its turn, as the comment at `Z80::write` asks, and to activate a port
only if its device heeds the low byte alone (`LowByteOnly`), since the fast path knows
no more of it.

**`Z80Block`.** `Iterate` is one call of the handler, with its order of accesses
and updates and, for a repeating instruction that goes on, the step of `PC` back
to the opcode.  `Interrupt` and `Return` push and pop `PC`, which is all that an
acceptance and a handler that saves its registers do to the operation.  The
flags are reduced to Z and P/V (the others are in `Z80Bits`).  An operation that
overwrites its own two bytes is followed no further.

**`Z80Arith`, `Z80Bits`, `Z80Alu`.** `F` is the set of the flags that are 1.  The
operators test the same bits of the same sums as `flags.cpp`, `alu.cpp`, `io.cpp` and
`block.cpp`; what these tests are good for is left to the properties.  Where the
code has two copies (the rotations of `ROT_OP` and the switch of
`handle_ddcb_fdcb_rot`) there are two definitions.  In `Z80Alu` AND, OR and XOR work on
the sets of bits that are 1 (`BitsOf`, `ByteOf`), and every handler that writes `A`,
`F` or `Q` is an action on them; `due` is a history variable with the
decimal result the next DAA has to produce, and `computed` one that says whether the last
instruction, HALT aside, was one that computes flags.

## 4. The runs

| run | properties | bounds | distinct states |
|---|---|---|---|
| `MCZ80Core` | `TypeOK`, `HaltPointsAtHalt`, `RequestSurvives`, `HaltWakes`, `NmiAccepted` | `W = 18`, 51 programs, one NMI | 21 107 |
| `MCZ80Frames` | `Transparent`, `SwitchKept` | `W = 18`, 49 programs, two NMIs that do not nest | 396 329 |
| `MCZ80Nested` | `EnabledByEi`, `StackBounded`, `FramesOnStack`, `ReturnsWhereInterrupted` | the same, the NMIs nest, callbacks raise | 548 014 |
| `MCZ80Run` | `RunLength`, `CallsReturn` | int of 8 bits, three addresses | 391 536 |
| `MCZ80Decode` | `TypeOK`, `TimeAsTabled`, `LengthAsTabled`, `OperandsIndexed`, `IndexInForce`, `QAsTabled`, `StepEnds` | 2062 memories, two steps, one exception | 104 240 |
| `MCBusAccess` | `LookupsInRange`, `IndexInTable`, `MemorySpec` | two addresses, two ports on two pages, tables of two sizes, steps of two accesses | 300 976 |
| `MCZ80Block` | `TypeOK`, `Copied`, `Found`, `Exchanged`, `Ends` | 36 bytes of memory, two interrupts | 33 801 |
| `MCZ80Arith` | `WordsAreTwoBytes`, `SpecialCasesAgree`, `SumsAreExact`, `ComparesOrder`, `ShiftsAreArithmetic`, `DigitsGoRound`, `CopiesAgree` | bytes of 4 bits, all words and carries | 131 072 |
| `MCZ80Alu` | `QIsCurrent`, `DecimalResult` | bytes of 8 bits, seven operands | 65 961 |
| `MCPointersOwned`, `MCIndexedBitTime`, `MCChainsAsTested` | one each, refuted | as above; `MCBusTiming` with tables of 0 to 4 entries | |

**Core.** The host raises INT at any point, as often as it likes, the acknowledge
callback included; the callback may raise; the host raises NMI once and resets at
any time.  The property `RequestSurvives` says that a request raised inside the
callback is not wiped out by the rest of the acceptance; `HaltWakes` that `EI; HALT`
does not sleep through a request; `NmiAccepted` that an acceptance under way does
not mask an NMI; `HaltPointsAtHalt` that acceptance, which skips one byte, skips a
HALT.  18 byte values give every main-table handler a code of its own, and 324
addresses hold the vectors 0x38 and 0x66 where the code has them.  The programs
are all pairs of seven pieces, in a loop, and two more which with the subroutines
and handlers use every handler of the module; between them they run in all three
interrupt modes.  One NMI is enough here, since none of these properties relates
two of them; the next runs have two.

**Frames.** `Transparent` is the refinement: whatever the interrupts do, in modes
0 and 1, the program's flow, its counter, its stack of return addresses and its
interrupt switch are those of the abstract program, which no interrupt can
change.  It is checked for NMIs that do not nest, because a second NMI before
RETN loses the interrupt switch (see 7), and for acknowledge callbacks that
return, because one that raises leaves interrupts off: with `NestNmi` or
`AckRaises` the property is false.  Two NMIs can both be taken while the program
runs, or one inside an INT handler.  `SwitchKept` says why the refinement holds for the
interrupt switch: `IFF2` has the switch of what an NMI interrupted, an INT is never
taken inside an NMI handler, and an INT finds interrupts enabled.
`StackFloor = 290` separates code from stack; the programs do not get to it.  They
satisfy the disciplines that section 6 assumes of a program (`KeepsStack`,
`StackFits`, `CodeFits`, `Tidy`), so these are not empty.

**Nested.** The second run of the module allows a second NMI inside the first, and
acknowledge callbacks that raise.  Interrupts are then still on only after an EI;
each handler returns to the instruction it interrupted and restores the stack
pointer, and an acceptance that is cut short leaves the program where it was
(`ReturnsWhereInterrupted`), because the return address of every interrupt being
served stays on the stack where the acceptance put it, each below the one before
(`FramesOnStack`); and the frames do not pile up, except by one for each NMI that
takes the place of the return after EI.  The programs of this run return right after
EI (`ReturnsAfterEi`, section 6).

**Run loops.** Instructions take 4 or 23 T-states, responses 11 or 19; `run()` is
called with 0, 3 (less than a step) and 40 (several steps), `run_instructions()`
with 0 and 3.  The counter may start a call at any value, from the least int up to the
largest with room for the call, so both ends of the 8-bit int are met.  Programs
are abstract: an instruction may go to any address, stop in HALT, and meet the trap
address, which the host may move.

**Decode.** Every byte stands behind no prefix, CB, ED, DD, FD, FD DD, DD CB and
FD DD CB; four of them behind three more chains; and two memories hold nothing but
prefixes.  A second step follows the first, so that what an exception leaves behind
is there when the next instruction is decoded.  The properties compare what the
code keeps in three places: the bytes and T-states a table entry states with those
that decoder and handler spend (`TimeAsTabled`, `LengthAsTabled`), the flag it states with the `Q` the handler
leaves (`QAsTabled`), the indexed handlers with the plain ones they were copied from
(`OperandsIndexed`: IX for HL, (IX+d) for (HL), and nothing to replace where the
decoder falls through).  What a second prefix means, and ED behind a prefix, is
disputed (7): these cases are followed, but `TimeAsTabled` and `LengthAsTabled` leave
them out (`Undisputed`).  `IndexInForce` says that the index register is the one the
instruction's own prefixes ask for, if they do not ask for both; `StepEnds` that a
step returns unless memory holds index prefixes only.  The clock is counted up to 64: no
instruction with one prefix too many takes more.  `R` starts at 255, where its seven
bits wrap around.

**Bus access.** One protected address and one that can be contended; on two pages a
port whose device heeds the page (254) and one whose device does not (31).  A step has
two accesses.  A frame of two T-states is shorter than any of them, so that the second
begins past its end, and `IntMax`, 11, is just reached: with one T-state less there
would be an overflow, and the index negative.  `IndexInTable` says that a clock the host
looks at between steps only indexes the tables inside their storage; `LookupsInRange`
that the tables have that many elements; `MemorySpec` that the processor sees plain
memory and ports, whenever pointers are set and whatever is paged, protected, written
or copied in between, and in callbacks.  A host uses either tables or fast
paths (`Hosts`), which keeps the instance small; the theorems have both at once.

**Block.** `W = 6`, so that counts of zero (36 or 6 iterations) and addresses that
wrap around are reached.  Transfers have the target at every distance from the
source that overlaps, and some that do not; searches look for bytes that are there
and that are not; up to two interrupts fall between any two iterations.  The
properties describe the whole operation as documented, in terms of the state
it met, and so do not depend on how it is cut into iterations.  `Ends` says
that it comes to an end.

**Arithmetic.** All 256 words of two 4-bit bytes against all others, with and
without carry: as the theorems show, nothing depends on the width.  `CopiesAgree`
goes through all eight bit numbers an opcode can name.  The properties
are about what flags mean and what operations are chained for: sums and orders,
words from bytes, shifts of words from shifts of bytes, digits that go round.

**Alu.** Real bytes, since decimal adjustment is about nibbles of four bits.  The
seven operands include decimal numbers that carry out of neither, one or both
digits, non-decimal bytes and signed boundaries; from these every sequence of
instructions is followed, in which `A` takes all 256 values.  `DecimalResult`
relates an addition or subtraction to the DAA that follows, and through the carry
to the next digits; `QIsCurrent` says what CCF and SCF find in `Q`: the flags of the
instruction before them if it computed any, and nothing if it did not.  HALT, which
leaves `Q` as it is (7), is passed over.  Two bytes stand for
what memory and ports hold, and two bit numbers for all eight.

Unbounded behaviour is bounded by: `MaxNmi` (NMIs raised), `MaxInterrupts`
(interrupts taken during one block operation), `IntMax`, `Accesses`, and in `Z80Decode`
`MaxSteps`, `MaxRaises` and `MaxClock`.  INT requests are not bounded.  Deadlock is
checked except in the decode, block and arithmetic runs, where the host stops
calling, the instruction that is followed ends, or the enumeration does.

## 5. Fairness

* `Z80Core`: `WF_vars(Step)`.  The host goes on calling `step()`; an acceptance,
  an instruction or the end of an acknowledge cycle is then executed.  Nothing is
  assumed of the order in which the host mixes calls with triggers, and a
  HALT tick does not count as a step: if a halted processor has something to
  accept, the next call accepts it.
* `Z80Run`: `WF_vars(Loop)`.  A call that is being executed goes on.
  The host need not call anything.
* `Z80Decode`: `WF_vars(Continue)`.  A step that has begun goes on by itself;
  the host need not begin one, and no callback has to raise.
* `Z80Block`: `WF_vars(Iterate)` and `WF_vars(Return)`.  The next fetch happens and
  an interrupt handler returns.  A device that interrupts after every
  iteration may starve the operation; the code promises nothing for it, and
  the number of interrupts is bounded.

The other properties are safety properties and assume no fairness.

## 6. The proofs

Assumptions are the `ASSUME`s of the modules (types of the constants, `W >= 2`,
memory large enough for the vectors), which TLC evaluates in every run, and where
stated a discipline of the host.

| theorem | module | argument |
|---|---|---|
| `TypeCorrect` | `Z80CoreProofs` | `TypeOK` is inductive: one lemma each for the ways a handler moves (`GotoType`, `CallType`, `PopType`), for acceptances and for the host |
| `HaltedAtHalt` | `Z80CoreProofs` | see below |
| `RequestsSurvive` | `Z80CoreProofs` | no other action clears the latch |
| `EnabledOnlyByEi` | `Z80FramesProofs` | `EnabledByEi` speaks of both flip-flops, and is inductive for that reason: copies between them add nothing |
| `ReturnAddressesStay`, `InterruptsReturn` | `Z80FramesProofs` | see below |
| `SwitchIsKept`, `InterruptsAreTransparent` | `Z80FramesProofs` | see below |
| `StackStaysBounded` | `Z80FramesProofs` | see below |
| `RunIsOnTime` | `Z80RunProofs` | see below |
| `IndexedRegister`, `DecoderTypes`, `EntriesGiveTheTime`, `EntriesGiveTheLength`, `EntriesGiveQ`, `IndexedOperands` | `Z80DecodeProofs` | see below |
| `LookupsStayInRange`, `IndexStaysInTable`, `FastPathsAreMemory` | `BusProofs` | see below |
| `BlockTypeCorrect`, `SearchesFind`, `TransfersCopy`, `ExchangesPass` | `Z80BlockProofs` | see below |
| `SumsAreAlwaysExact`, `ComparesAlwaysOrder`, `SpecialCasesAlwaysAgree`, `WordsAlwaysChain`, `ShiftsAlwaysChain`, `DigitsAlwaysGoRound`, `CopiesAlwaysAgree` | `Z80ArithTheorems` | see below |
| `QAlwaysCurrent` | `Z80ArithTheorems` | inductive: every instruction that computes flags sets `Q` to them, every other clears it, and HALT leaves `Q`, the flags and `computed` alone |
| `DaaAlwaysDecimal` | `Z80ArithTheorems` | see below |

**`HaltedAtHalt`.** "Halted implies `PC` at a HALT" is not inductive, because the
end of an acceptance pushes into memory, where the HALT may be.  `HaltInv` adds
that the processor is not halted between the two halves of an acceptance, so that
neither its end nor an exception there leaves it halted elsewhere.  That
`handle_halt` steps back to the opcode needs that HALT has no prefix
(`HaltOpcode`) and that the step back undoes the step forward at both ends of
memory (`PlusBack`).

**Frames.** These theorems are about programs that treat their stack as a stack is
meant to be treated; each states which of the following it assumes (`Z80Frames`).
`StackFits`: `SP` stays at `StackFloor` (at least 2) or above.  `CodeFits`: an
uninterrupted instruction lies below `StackFloor`.  `KeepsStack`: handlers do not load
`SP`.  `Tidy`: nobody does; handlers leave `B` and `HL` alone; an NMI handler has neither
EI nor DI, and RETN or RETI at its end and nowhere else; an INT handler has enabled
interrupts when it returns.  `ReturnsAfterEi`: inside a handler, after EI comes the
return, or EI again.  These speak of instructions only; of acceptances, triggers, exceptions
and `reset()` nothing is assumed, and all of them hold of instances TLC checks (4).  What is
proved of `Z80Core` alone holds with the history variables too (`BehavesAsCore`).

*`ReturnAddressesStay`* and *`InterruptsReturn`* assume `StackFits` and `KeepsStack`.
`ReturnsWhereInterrupted` is about single steps and needs `FramesOnStack`: each frame has
its return address right below its stack pointer, `SP` is an even distance further
down, and frames lie in their order.  An acceptance adds a frame below the rest, and
whatever an instruction writes is below `SP`; a pop that reaches a return address reads
both of its bytes, because the distance is even.

*`SwitchIsKept`* assumes `StackFits`, `Tidy`, that no NMI is raised inside another and
that acknowledge callbacks return (`~NestNmi`, `~AckRaises`); without these two the code
loses the switch (7).  `SwitchKept` says which frames there can be and where each
flip-flop has the switch of what was interrupted, and is inductive.

*`InterruptsAreTransparent`* adds `CodeFits`: under the mapping every action of `Z80Core`
is a step of `Z80Program` or a stutter.  An instruction of the program does what the
abstract program's does, which reads only code and its own part of the stack;
`MemoryStep` shows that all a step ever writes is one push, so that code and
stack stay as they are under it.  An acceptance records in its frame what the mapping
then reads (`HaltedAtHalt` accounts for the halted program, whose `PC` it moves on); the
return that ends the outermost frame restores it, which is `FramesOnStack` and
`SwitchKept` again.  `StackAligned` says that the stack is made of whole words.

*`StackStaysBounded`* assumes `ReturnsAfterEi` only.  `StackBounded` is not inductive, since
it does not say when an INT can be taken on top of a handler.  `NestingInv` counts with
the frames the `Window`, one if interrupts are on inside a handler and the delay of EI
has been used up, and the `Credit`, two for a pending NMI, which brings a frame and may
use up the delay: their sum is at most `1 + 2 * nmis`.

**`RunIsOnTime`** assumes `Careful`.  `RunInv` says that, throughout a call, the
target is the sum it should be, the counter is at or past the start and has
passed the target by less than one step, and the target plus one step is still an
int: then no addition overflows and the test of the loop means what it says.

**`IndexedRegister`.** `IndexInv` extends `IndexInForce` from the indexed handler back
to the prefix: from there on `active_index` is among the registers asked for.  A
step begins without it, since an exception may have left anything, and the prefix
establishes it; a plain table needs nothing.

**The tables.** `DecoderTypes`, `EntriesGiveTheTime`, `EntriesGiveTheLength` and
`EntriesGiveQ` follow from one invariant, `DecodeInv`, which is inductive
(`DecodesAsTabled`).  Memory is any finite ring of bytes, `MaxClock` any number from 4
on: since each is proved for every bound, the bound hides nothing.  `TimeAsTabled` speaks
of the end of a handler only.  The invariant says in each stage before it what has been
spent on fetches (`Counted`), and in the handler that clock and bytes are those of the
entry less those of the cycles in `todo` (`Handling`): a fetch or a bus cycle moves
an amount from one side to the other.  When the decoder looks an entry up, this must
hold of all the handler's cycles.  That is a fact about the tables, `EntryAccounted`: for
every opcode of every table the entry is the sum of the opcodes read and of what the
handler does (`Accounted`), with the correction for the way it takes, and `affects` is
what it does to `Q`.  It is proved group by group: `LoadCosts` to `NullCosts` give what
each handler takes, whichever opcode it has; `Main0Accounted` to `DdAccounted`
compare them with the entries, column by column.  Sums run over at most six cycles
(`Time`, `Operands`) and are written out, since they cannot be recursive in a proof.

**`IndexedOperands`** is in two halves.  `PrefixedInv` says what a prefix leads to: its own
table where that has an entry, and the main table where it has none.  Then
`IndexedAgree`, `BitsAgree` and `FallThrough` go through the opcodes: the 23 entries that
`dd_table` lists one by one, by computation; the two regular quarters from the octal digits,
where `RegNames` says that the remapped register codes are the halves of the index
register; and all opcodes without an indexed handler, whose plain handlers name none of
HL, H, L and (HL), or name nothing at all (`Fixed`).  EX DE,HL is one of these: its
entry falls through, and the model, like the code, gives it no operand to replace.

**`LookupsStayInRange`** assumes `Uniform`.  `TimingInv` says that a table that is
pointed to has exactly the common size.  `LookupsInRange` alone, which allows a
longer vector, says nothing of tables that will be consulted only after the
next call.

**`IndexStaysInTable`** assumes `Uniform` and `KeepsFrame`.  `AccessImplementsTiming`
carries `TimingInv` over to the composition.  `ClockInv` says that `t_state` is not
negative and that there is room in an int for all the accesses the step may still make
(`t_state + left * Longest <= IntMax`): a step begins inside the frame, where
`ClockAssumption` has room for a whole one, and each access takes from both sides
alike.  So no access overflows, those behind the end of the frame neither, and the
remainder of a number that is not negative is an index.

**`FastPathsAreMemory`** assumes `KeepsBuffers`.  `BufferInv` says that a buffer differs
from the memory or the devices it stands for only where the host owes it a byte,
that the ports of the fast path have devices that answer alike on every page, and
that nothing in use is owed while the processor runs.  A read then finds the
host's byte on either path.  While the host acts, buffers and memory may disagree; it is
the return that needs the debts paid, not the write that makes them.

**Block instructions.** The proofs are for every width, setup and number of
interrupts, under the condition `Undisturbed` of the properties: neither operation
nor interrupts overwrite the instruction, and no interrupt pushes into its data.
`PlaceInv` says where the program goes on, now or after the handler (`Place`): at the
instruction or behind it, and never elsewhere, with the stack pointer to match.  For
each kind of operation an invariant then says that for some `n` up to `Size` exactly
`n` iterations are done: `HL`, `DE` and `BC` are `n` steps from their setup, the first
`n` bytes are compared, copied or passed, and the operation is at its end if and
only if nothing remains to be done (`Searched`, `Moved`, `Passed`).  Interrupts and
returns leave `n` alone (`Interlude`).  For transfers that overlap, `Overlap` shows that
the byte an iteration reads is either an original, or a copy that an
earlier iteration has written, which makes the pattern of `Copied`.  The arithmetic of
addresses that wrap around is in `Z80WordsTheorems` (`PlusInjective`, `CountDown`,
`PlusDistance`): fewer steps than there are addresses do not return to the first.

**Arithmetic.** `ArithType` keeps the operands bytes and words, so that each
property follows from a lemma about the operators.  The code tests bit 4 of
`a ^ b ^ r`.  `Digits` splits each operand at `K`; `Bit4` shows that the quotients of
`a`, `b` and `r` have an odd sum exactly when the lower halves carry, for which `K` must
be even.  `Overflow` compares signed values with signs of operands and result.  For
words, `Bytes` and `BytesUnique` make `(Hi, Lo)` unique, `ChainSum` and `ChainDiff` show
that the carry of the lower bytes is what the upper bytes are short of, and `WordParts`
that bit 15 and the lower 12 bits of a word are those of the upper byte.  Shifts of
words split in the same way: the bit one shift drops is the one the other takes
in.  `DigitsUnique` and `DigitShifted` say that two digits make a byte and that `* K`
drops the upper one.  The two copies of the rotations agree case by case of the code.
All of this holds for every even `K` with `W = K * K`; the code is the instance
`K = 16`.

**`DaaAlwaysDecimal`** is for real bytes (`K = 16`, which is where tens and sixteens meet),
every initial value and every set of operands.  `DecimalResult` is about a DAA and says
nothing of the states before it; `DueInv` does: if a decimal result is due, there are
two numbers, sums (differences) of the lower and of the upper digits with the carry,
that make in base ten what is due and in base sixteen what is in `A`, and H and C are their
carries.
`DaaAdds` and `DaaSubtracts` show that the correction the code picks from `A`, H, C and N
turns this into the decimal result and its carry.

Only model-checked: the liveness properties (`HaltWakes`, `NmiAccepted`,
`CallsReturn`, `StepEnds`, `Ends`), for which the proof system has no rules of
fairness.  Every safety property of a passing run is a theorem.

## 7. Where code and documents disagree

Three runs exhibit a disagreement; TLC prints the shortest behaviour that shows it.

* `MCPointersOwned`: the binding (`src/bindings/z80_bindings.cpp:112`) replaces the
  vector of a table that becomes empty and leaves its pointer at the storage freed,
  which `include/z80/bus.h:73` calls owned.
* `MCIndexedBitTime`: DDCB and FDCB instructions read their fourth byte in three
  T-states (`src/z80.cpp:218`) and so take 22, and 19 for BIT; the table entries
  (`src/opcode_table.cpp:476-488`), the comment at `src/handlers/io.cpp:314` and
  `tests/test_timing.py:197` say 23 and 20.
* `MCChainsAsTested`: the decoder reads on through further prefixes (`src/z80.cpp:214`,
  `:240`, and the comments above the loops say so), and `DD DD 00` and `DD FD 00` take 12
  T-states and 3 bytes; `tests/test_dd_fd_fallthrough.py:35-36`, `:42-43` and
  `tests/test_edge_cases.py:103` take the second prefix for the opcode and expect 8
  T-states and 2 bytes.  `TimeAsTabled` and `LengthAsTabled` leave such chains out.

Some more were met while modelling and have no run of their own.

Interrupts and loops:

* The comment at `src/z80.cpp:82` says that an NMI leaves `IFF2` alone; the next line
  assigns it.  A second NMI before RETN then leaves interrupts off in the program for
  good.
* The binding (`src/bindings/z80_bindings.cpp:313`, `:343`) documents the byte given
  to `trigger_interrupt()` as the vector; it is stored and never read.  The vector is
  what the bus returns from `interrupt_acknowledge()`.
* `src/handlers/jump.cpp:140` and `CHANGELOG.md:287` say that EI sets the
  flip-flops after the next instruction; `execute_instruction()` sets them at the end
  of EI and delays only the acceptance.
* `CHANGELOG.md:242` has a flag that keeps interrupts out of prefix sequences; the
  flag `step()` tests is never set.  Nothing depends on it, since a prefix and its
  opcode are one step.
* `total_cycles` (`include/z80/z80.h:246`, "cumulative") is an int that nothing but the
  host clears, and overflows after ten minutes of a 3.5 MHz machine.
* `include/z80/z80.h:51` says that `run()` executes at most `max_cycles`; it stops
  after the step that reaches them (`RunLength` is the bound that holds).
* `include/z80/z80.h:54` says that `run_instructions()` executes exactly `count`
  instructions; a step that accepts an interrupt counts, so that fewer may execute.
* An `interrupt_acknowledge()` that raises leaves the request dropped and interrupts
  off; no document says what a host may expect.

Decoding:

* `CHANGELOG.md:155` says that DD and FD are ignored before ED; the decoder drops the
  ED instead (`main_table` has no entry for it), and the next step runs the byte after
  it as an unprefixed opcode.  `TimeAsTabled` and `LengthAsTabled` leave this out too.
* `tests/test_dd_fd_fallthrough.py:39` says of `DD FD` "DD prefix ignored, FD makes next
  use IY"; the decoder keeps the register of the first prefix, so that `DD FD` and an
  indexed opcode uses IX.  `IndexInForce` speaks of chains that ask for one register.
* `CHANGELOG.md:156` and the comment at `tests/test_io_block.py:78` give OTIR and OTDR
  16 T-states per iteration and 21 for the last; the code takes 21 for an iteration
  that repeats and 16 for the last, as `tests/test_io_block.py:85` and
  `tests/test_timing.py:262` have it.  `TimeAsTabled` (`Correction`) is with the code.
* The entry of `LD (IX+d),n` (`src/opcode_table.cpp:399`) states a length of 3; the
  instruction has 4 bytes.  Nothing reads the length.
* `handle_add_a_hl` (`src/handlers/alu.cpp:194`), `handle_dd_fd_adc_ixd` and
  `handle_dd_fd_sbc_ixd` (from line 933) are in no table.

Flags and registers:

* `include/z80/registers.h:49` says that `Q` tracks the last instruction, and
  `CHANGELOG.md:70` that all handlers set it; that of HALT (`src/handlers/alu.cpp:439`)
  does not, so that CCF behind HALT finds the `Q` of the instruction before.
  `QIsCurrent` and `QAsTabled` except it openly.
* `CHANGELOG.md:37` says that `BIT b,(HL)` takes F5 and F3 from `MEMPTR`; the handler
  takes them from the byte it tests.  No handler reads `MEMPTR`.
* The docstring of `test_ldi_pv_set` in `tests/test_block_instructions.py` says that LDI
  sets P/V when BC becomes 0; it resets it.

Bus:

* Bit 3 of a contention mask stands for 0x3000-0x3FFF (`include/z80/z80.h:304`);
  `README.md:110` and `TECHNICAL.md:80` give 0x0008 for 0x4000-0x7FFF.
* The binding documents the I/O masks (`src/bindings/z80_bindings.cpp:153-156`) as
  masks of the low 8 bits of a port; the code tests the bit of its upper four.
* `handle_ld_rr_nn_ind` (`src/handlers/load.cpp:136`) and `handle_dd_fd_ld_ix_nn_ind`
  (`src/handlers/alu.cpp:625`) read two bytes in one expression, in an order the
  language leaves open.  The model's accesses do not tell the two apart.

## 8. What is not modelled

* The values of loads and exchanges: they copy registers, and nothing interleaves
  with them.  Their dispatch, operands, bus cycles and `Q` are in `Z80Decode`, and
  the few that control flow needs in `Z80Core`.
* `MEMPTR`, which every handler writes and none reads.
* Writes of registers, of `halted` and of the whole state (`set_state`) by the host
  between steps: `HaltPointsAtHalt` holds for a host that does not make them.
* Lifetimes of buses and Python objects (`set_bus`, the setter of `bus`): the
  ownership is pybind11's, whose rules are outside the repository.
* Exceptions in the pushes of an interrupt response (`Z80Core`) and between the bus
  cycles of one block iteration (`Z80Block`); `Z80Decode` has them for every
  access of an instruction, without values.  An exception inside
  `set_timing_tables`.
* `reset()` called from inside a callback.
* Tests, benchmarks and build files: they carry no logic of the processor.

## 9. The plan

Done: the core, its refinement with its proof, and the run loops; the decoder and its
tables; timing tables and access paths with their refinement; the block instructions,
arithmetic, bits and flags; all of them with proofs.  What is left, in this order:

1. The host between steps: writes of `PC`, `halted` and `set_state` by the binding
   against `HaltPointsAtHalt`, with the discipline under which it survives them.
2. Exceptions in the middle of an interrupt response and of a block iteration: what
   is on the stack and in the counters then.
