----------------------------- MODULE BusAccess -----------------------------
(***************************************************************************)
(* The accessors of Z80 through which handlers reach the bus, with the     *)
(* contention tables of BusTiming, the masks that say where they apply,    *)
(* the clock that indexes them, and the two fast paths that bypass the     *)
(* callbacks of the host.                                                  *)
(*                                                                         *)
(* Processor and host take turns.  The host calls step(), which makes a    *)
(* number of accesses; any of these may call the host back, and then the   *)
(* host acts until it returns.  Neither the accessors nor run() look at    *)
(* the clock between two accesses.                                         *)
(***************************************************************************)
EXTENDS BusTiming

CONSTANTS
  Addresses, ROM,  \* memory addresses, and those the host protects
  Pages, Ports,    \* the high and the low bytes of port numbers
  LowByteOnly,     \* ports whose devices heed the low byte only
  Bytes, Images,   \* what memory may hold at the start
  Masks, Masked,   \* contention masks the host sets, and for which kinds
  Delays,          \* what tables and extra_cycles() hold
  Idles,           \* arguments of wait()
  Accesses,        \* accesses and waits of the longest step
  Longest,         \* T-states of the longest of these
  Frame,           \* T-states of a frame
  IntMax,          \* the largest int
  Hosts,           \* which of "tables" and "fast" paths a host uses
  KeepsFrame,      \* the host starts steps inside a frame only
  KeepsBuffers     \* the host brings its buffers up to date before it returns

ASSUME AddressAssumption ==
  /\ Addresses \subseteq 0 .. 65535 /\ ROM \subseteq Addresses
  /\ Ports \subseteq 0 .. 255 /\ Pages \subseteq 0 .. 255
  /\ Masks \subseteq 0 .. 65535 /\ 0 \in Masks /\ Masked \subseteq Kinds

ASSUME HostAssumption ==
  /\ LowByteOnly \subseteq Ports /\ Images \subseteq [Addresses -> Bytes]
  /\ Hosts \subseteq SUBSET {"tables", "fast"}

\* There is room for one step from the end of a frame on, not for more.
ASSUME ClockAssumption ==
  /\ Delays \subseteq Nat /\ 0 \in Delays /\ Idles \subseteq Nat
  /\ Frame \in Nat /\ Frame > 0 /\ IntMax \in Nat
  /\ Accesses \in Nat /\ Longest \in Nat
  /\ (\A d \in Delays : 4 + d <= Longest) /\ (\A i \in Idles : i <= Longest)
  /\ Frame + Accesses * Longest <= IntMax + 1

VARIABLES
  uses,           \* what the host uses
  running, left,  \* whose turn it is, and how many accesses the step may still make
  mask,           \* the *_contention_mask members
  t_state,
  memory, device, \* what the callbacks of the host read
  fast_memory,    \* the buffer at fast_memory_ptr, or <<>> for a null pointer
  dirty,          \* addresses whose bytes the host has yet to write to the buffer
  fast_io, active,\* the buffer at fast_io_read_ptr likewise, and the ports it is for
  stale,          \* ports whose bytes the host has yet to write to the buffer
  got             \* where a byte was just read and which, or <<>>

tables  == <<vec, table, timing_table_size>>
turn    == <<running, left>>
ram     == <<memory, fast_memory, dirty>>
ports   == <<device, fast_io, active, stale>>
accessVars == <<tables, uses, turn, mask, t_state, ram, ports, got>>

None == <<>>

AccessInit ==
  /\ Init
  /\ uses \in Hosts /\ running = FALSE /\ left = 0
  /\ mask = [k \in Kinds |-> 0]
  /\ t_state = 0
  /\ memory \in Images
  /\ \E v \in Bytes : device = [x \in Pages |-> [p \in Ports |-> v]]
  /\ fast_memory = None /\ dirty = Addresses
  /\ fast_io = None /\ active = {} /\ stale = Ports
  /\ got = None

-----------------------------------------------------------------------------
(* get_extra_cycles and the clock.                                         *)

\* A signed overflow, which wraps around in the compiled code.
AddInt(a, n) == ((a + n + IntMax + 1) % (2 * (IntMax + 1))) - (IntMax + 1)

\* The % of C++, with the sign of its left operand.
Remainder(n, size) == IF n >= 0 THEN n % size ELSE -((-n) % size)

\* Fault: the delay is looked up at the end of the previous M1 cycle.
IndexBefore == Remainder(t_state - 4, timing_table_size)
Index == Remainder(t_state, timing_table_size)

Region(a) == a \div 4096

Contended(m, a) == (m \div 2^Region(a)) % 2 = 1

\* Table entries, and what the callback answers, are data.
Waits(k, a) == IF Consulted(k) /\ ~Contended(mask[k], a) THEN {0} ELSE Delays

\* An access of the step takes its time, wherever in the frame it falls.
Elapse(base, waits) ==
  /\ running /\ left > 0 /\ left' = left - 1
  /\ \E w \in waits : t_state' = AddInt(t_state, base + w)

-----------------------------------------------------------------------------
(* The accessors.                                                          *)

FastOr(buffer, cell) == IF buffer # None THEN buffer ELSE cell

\* fetch_opcode, and fetch_byte and read, which take their delay from another
\* table.
Load(k, base, a) ==
  /\ got' = <<a, FastOr(fast_memory, memory)[a]>>
  /\ Elapse(base, Waits(k, a))
  /\ UNCHANGED <<tables, uses, running, mask, ram, ports>>

FetchOpcode(a) == Load("fetch", 4, a)
Read(a) == Load("mem_read", 3, a)

\* The host changes a byte of memory, and from then on owes it to its buffer.
Store(a, v) == memory' = [memory EXCEPT ![a] = v] /\ dirty' = dirty \cup {a}

\* Fault: the value is also stored through the pointer, in ROM as well.
WriteThrough(a, v) ==
  /\ IF a \in ROM THEN UNCHANGED memory ELSE memory' = [memory EXCEPT ![a] = v]
  /\ fast_memory' = IF fast_memory # None
                    THEN [fast_memory EXCEPT ![a] = v] ELSE fast_memory
  /\ running' = FALSE
  /\ Elapse(3, Waits("mem_write", a))
  /\ UNCHANGED <<tables, uses, mask, dirty, ports>>

\* write: the callback knows what is protected; it is left to the host.
Write(a, v) ==
  /\ IF a \in ROM THEN UNCHANGED <<memory, dirty>> ELSE Store(a, v)
  /\ running' = FALSE
  /\ Elapse(3, Waits("mem_write", a))
  /\ UNCHANGED <<tables, uses, mask, fast_memory, ports>>

\* Fault: the buffer is taken for every port.
InputIgnoresActive(page, p) ==
  /\ got' = <<page, p, IF fast_io # None THEN fast_io[p] ELSE device[page][p]>>
  /\ Elapse(4, Waits("io_read", 256 * page + p))
  /\ UNCHANGED <<tables, uses, running, mask, ram, ports>>

\* in: the callback gets the whole port, the fast path its low byte.
Input(page, p) ==
  /\ got' = <<page, p, IF fast_io # None /\ p \in active THEN fast_io[p]
                       ELSE device[page][p]>>
  /\ Elapse(4, Waits("io_read", 256 * page + p))
  /\ UNCHANGED <<tables, uses, running, mask, ram, ports>>

Output(page, p) ==
  /\ Elapse(4, Waits("io_write", 256 * page + p))
  /\ UNCHANGED <<tables, uses, running, mask, ram, ports>>

\* wait: idle T-states, without delay.
Wait(n) == Elapse(n, {0}) /\ UNCHANGED <<tables, uses, running, mask, ram, ports>>

\* A callback of the next access, or extra_cycles().
CallBack ==
  /\ running /\ left > 0
  /\ running' = FALSE
  /\ UNCHANGED <<tables, uses, left, mask, t_state, ram, ports>>

EndStep ==
  /\ running
  /\ running' = FALSE /\ left' = 0
  /\ UNCHANGED <<tables, uses, mask, t_state, ram, ports>>

Reading ==
  \/ \E a \in Addresses : FetchOpcode(a) \/ Read(a)
  \/ \E page \in Pages, p \in Ports : Input(page, p)

NotReading ==
  \/ \E a \in Addresses, v \in Bytes : Write(a, v)
  \/ \E page \in Pages, p \in Ports : Output(page, p)
  \/ \E n \in Idles : Wait(n)
  \/ CallBack \/ EndStep

Processor == Reading \/ (NotReading /\ got' = None)

-----------------------------------------------------------------------------
(* The host, between steps and in its callbacks.                           *)

\* Nothing the processor may read through a pointer is out of date.
UpToDate ==
  /\ fast_memory # None => dirty = {}
  /\ fast_io # None => active \cap stale = {}

\* step(), or the next step of a run() that was called for the rest of a frame.
BeginStep ==
  /\ left = 0
  /\ KeepsFrame => t_state < Frame
  /\ left' = Accesses

Return == left > 0 /\ UNCHANGED left

HandOver ==
  /\ KeepsBuffers => UpToDate
  /\ BeginStep \/ Return
  /\ running' = TRUE
  /\ UNCHANGED <<tables, uses, mask, t_state, ram, ports>>

\* The setter of t_state, with which the host begins a new frame.
SetClock(n) ==
  /\ KeepsFrame => n \in 0 .. (Frame - 1)
  /\ t_state' = n
  /\ UNCHANGED <<tables, uses, turn, mask, ram, ports>>

SetMask(k, m) ==
  /\ mask' = [mask EXCEPT ![k] = m]
  /\ UNCHANGED <<tables, uses, turn, t_state, ram, ports>>

\* set_fast_memory_ptr and set_fast_io_read_ptr get buffers of the host with
\* anything in them; neither pointer can be taken back.
SetFastMemory ==
  /\ fast_memory' \in [Addresses -> Bytes] /\ dirty' = Addresses
  /\ UNCHANGED <<tables, uses, turn, mask, t_state, memory, ports>>

SetFastIo ==
  /\ fast_io' \in [Ports -> Bytes] /\ stale' = Ports
  /\ UNCHANGED <<tables, uses, turn, mask, t_state, ram, device, active>>

\* A careful host leaves the ports of which the upper byte matters to in_().
SetActive(p, on) ==
  /\ KeepsBuffers /\ on => p \in LowByteOnly
  /\ active' = IF on THEN active \cup {p} ELSE active \ {p}
  /\ UNCHANGED <<tables, uses, turn, mask, t_state, ram, device, fast_io, stale>>

\* The host writes one byte to a buffer.
CopyByte(a) ==
  /\ fast_memory # None /\ a \in dirty
  /\ fast_memory' = [fast_memory EXCEPT ![a] = memory[a]] /\ dirty' = dirty \ {a}
  /\ UNCHANGED <<tables, uses, turn, mask, t_state, memory, ports>>

CopyPort(page, p) ==
  /\ fast_io # None /\ p \in stale
  /\ fast_io' = [fast_io EXCEPT ![p] = device[page][p]] /\ stale' = stale \ {p}
  /\ UNCHANGED <<tables, uses, turn, mask, t_state, ram, device, active>>

\* The host pages other memory in, byte by byte, ROM too.  (Without the fast paths
\* it need not tell, and every byte comes from a callback.)
Page(a, v) ==
  /\ Store(a, v)
  /\ UNCHANGED <<tables, uses, turn, mask, t_state, fast_memory, ports>>

\* A device has something else to say, on one page or on all.
Change(page, p, v) ==
  /\ device' = [x \in Pages |-> IF x = page \/ p \in LowByteOnly
                              THEN [device[x] EXCEPT ![p] = v] ELSE device[x]]
  /\ stale' = stale \cup {p}
  /\ UNCHANGED <<tables, uses, turn, mask, t_state, ram, fast_io, active>>

Tables ==
  /\ "tables" \in uses
  /\ \/ Next /\ UNCHANGED <<uses, turn, mask, t_state, ram, ports>>
     \/ \E k \in Masked, m \in Masks : SetMask(k, m)

FastPaths ==
  /\ "fast" \in uses
  /\ \/ SetFastMemory \/ \E a \in Addresses : CopyByte(a)
     \/ SetFastIo \/ \E page \in Pages, p \in Ports : CopyPort(page, p)
     \/ \E p \in Ports, on \in BOOLEAN : SetActive(p, on)
     \/ \E a \in Addresses, v \in Bytes : Page(a, v)
     \/ \E page \in Pages, p \in Ports, v \in Bytes : Change(page, p, v)

Host ==
  /\ ~running /\ UNCHANGED got
  /\ \/ HandOver \/ Tables \/ FastPaths
     \/ \E n \in (-IntMax - 1) .. IntMax : SetClock(n)

AccessNext == Processor \/ Host

AccessSpec == AccessInit /\ [][AccessNext]_accessVars

-----------------------------------------------------------------------------
(* Properties.                                                             *)

\* Whatever access comes next, the element get_extra_cycles reads for it is one
\* of a vector the bus owns: a host that looks at t_state only before it starts
\* a step, and keeps its tables alike, is safe from an index that is negative
\* after an overflow or past the end, also while a step runs over its frame.
IndexInTable ==
  \A k \in Kinds :
    running /\ Consulted(k) => table[k] = "owned" /\ Index \in 0 .. (vec[k] - 1)

\* With the fast paths the processor still reads the memory and the ports of
\* the host, by their full number, whenever the pointers are set and whatever
\* is written, protected, paged in or changed in between, if the host makes up
\* for each of its changes before it gives up its turn.
Memory == INSTANCE BusMemory
MemorySpec == Memory!Spec
=============================================================================
