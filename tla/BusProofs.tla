----------------------------- MODULE BusProofs -----------------------------
(* Lookups stay in range, for tables of any size, and the fast paths show  *)
(* the memory and the ports of the host.                                   *)
EXTENDS BusAccess, TLAPS

\* What is inductive: under a disciplined host every table that is pointed to
\* is owned and has exactly the common size.
TimingInv ==
  /\ vec \in [Kinds -> Sizes]
  /\ table \in [Kinds -> {"null", "owned"}]
  /\ timing_table_size \in Sizes
  /\ \A k \in Kinds : table[k] = "owned" => vec[k] = timing_table_size

\* The largest of the sizes a disciplined host passes is any that is not 0.
LEMMA CommonSize ==
  ASSUME NEW sizes \in [Kinds -> Sizes], Disciplined(sizes),
         NEW k \in Kinds, sizes[k] > 0
  PROVE  Max({sizes[j] : j \in Kinds}) = sizes[k]
<1>0. \A j \in Kinds : sizes[j] \in Nat
  BY SizeAssumption
<1>1. \A j \in Kinds : sizes[j] = 0 \/ sizes[j] = sizes[k]
  BY <1>0 DEF Disciplined
<1>2. \A j \in Kinds : sizes[k] >= sizes[j]
  BY <1>0, <1>1
<1> DEFINE S == {sizes[j] : j \in Kinds}
<1>3. sizes[k] \in S /\ \A y \in S : sizes[k] >= y
  BY <1>2
<1>4. \A x \in S : (\A y \in S : x >= y) => x = sizes[k]
  <2>1. SUFFICES ASSUME NEW x \in S, \A y \in S : x >= y PROVE x = sizes[k]
    OBVIOUS
  <2>2. x >= sizes[k] /\ sizes[k] >= x
    BY <1>3, <2>1
  <2>3. S \subseteq Nat
    BY SizeAssumption
  <2>4. QED BY <1>3, <2>1, <2>2, <2>3
<1>5. QED BY <1>3, <1>4 DEF Max

\* Without any table, or with tables of one size, the largest is a size.
LEMMA LargestSize ==
  ASSUME NEW sizes \in [Kinds -> Sizes], Disciplined(sizes)
  PROVE  Max({sizes[j] : j \in Kinds}) \in Sizes
<1>1. CASE \E k \in Kinds : sizes[k] > 0
  BY <1>1, CommonSize
<1>2. CASE \A k \in Kinds : ~(sizes[k] > 0)
  <2>1. \A k \in Kinds : sizes[k] = 0
    <3>1. \A k \in Kinds : sizes[k] \in Nat
      BY SizeAssumption
    <3>2. QED BY <1>2, <3>1
  <2>2. {sizes[j] : j \in Kinds} = {0}
    BY <2>1 DEF Kinds
  <2>3. Max({0}) = 0
    BY DEF Max
  <2>4. QED BY <2>2, <2>3, SizeAssumption
<1>3. QED BY <1>1, <1>2

LEMMA TimingInvariant ==
  ASSUME Uniform
  PROVE  Spec => []TimingInv
<1>1. Init => TimingInv
  BY SizeAssumption DEF Init, TimingInv
<1>2. TimingInv /\ [Next]_vars => TimingInv'
  <2> SUFFICES ASSUME TimingInv, [Next]_vars PROVE TimingInv'
    OBVIOUS
  <2>1. ASSUME NEW sizes \in [Kinds -> Sizes], Disciplined(sizes),
               SetTables(sizes)
        PROVE  TimingInv'
    <3>1. \A k \in Kinds : sizes[k] > 0 => timing_table_size' = sizes[k]
      BY <2>1, CommonSize DEF SetTables
    <3>2. timing_table_size' \in Sizes
      BY <2>1, LargestSize DEF SetTables
    <3>3. table' \in [Kinds -> {"null", "owned"}]
      BY <2>1 DEF SetTables
    <3>4. \A k \in Kinds : table'[k] = "owned" => sizes[k] > 0
      BY <2>1 DEF SetTables
    <3>5. QED BY <2>1, <3>1, <3>2, <3>3, <3>4 DEF SetTables, TimingInv
  <2>2. ASSUME NEW sizes \in [Kinds -> Sizes], Disciplined(sizes),
               PySetTables(sizes)
        PROVE  TimingInv'
    <3>1. \A k \in Kinds : sizes[k] > 0 =>
            sizes["fetch"] > 0 /\ sizes[k] = sizes["fetch"]
      BY <2>2 DEF Disciplined, Kinds
    <3>2. \A k \in Kinds : sizes[k] > 0 => timing_table_size' = sizes[k]
      BY <2>2, <3>1 DEF PySetTables
    <3>3. \A k \in Kinds : ~(sizes[k] > 0) => table[k] = "null"
      BY <2>2 DEF Disciplined
    <3>4. table' \in [Kinds -> {"null", "owned"}]
      BY <2>2, <3>3 DEF PySetTables
    <3>5. \A k \in Kinds : table'[k] = "owned" => sizes[k] > 0
      BY <2>2, <3>3 DEF PySetTables
    <3>6. timing_table_size' \in Sizes
      BY <2>2 DEF PySetTables, TimingInv, Kinds
    <3>7. QED BY <2>2, <3>2, <3>4, <3>5, <3>6 DEF PySetTables, TimingInv
  <2>3. CASE ClearTables
    BY <2>3, SizeAssumption DEF ClearTables, TimingInv
  <2>4. CASE PyClearTables
    BY <2>4, SizeAssumption DEF PyClearTables, TimingInv
  <2>5. CASE UNCHANGED vars
    BY <2>5 DEF vars, TimingInv
  <2>6. QED BY <2>1, <2>2, <2>3, <2>4, <2>5 DEF Next
<1>3. QED BY <1>1, <1>2, PTL DEF Spec

\* If the host is disciplined, every access reads its delay from storage the
\* bus owns: through whichever interface tables are set, replaced and cleared.
THEOREM LookupsStayInRange ==
  ASSUME Uniform
  PROVE  Spec => []LookupsInRange
<1>1. TimingInv => LookupsInRange
  <2>1. TimingInv => \A k \in Kinds : vec[k] \in Nat
    BY SizeAssumption DEF TimingInv
  <2>2. QED BY <2>1 DEF TimingInv, LookupsInRange, Consulted
<1>2. QED BY <1>1, TimingInvariant, PTL

-----------------------------------------------------------------------------
(* The accessors.                                                          *)

\* What a read of memory or of a port leaves alone.
LEMMA ReadingChanges ==
  ASSUME Reading
  PROVE  UNCHANGED <<tables, ram, ports>>
BY DEF Reading, FetchOpcode, Read, Load, Input

\* What the rest of the processor leaves alone, but for Write.
LEMMA NotReadingChanges ==
  ASSUME NotReading
  PROVE  /\ UNCHANGED <<tables, fast_memory, ports>>
         /\ \/ UNCHANGED ram
            \/ \E a \in Addresses, v \in Bytes : Write(a, v)
BY DEF NotReading, Write, Store, Output, Wait, CallBack, EndStep, ram

\* An access leaves the tables alone, and all that the host does to them is an
\* operation of BusTiming.
LEMMA AccessImplementsTiming == AccessSpec => Spec
<1>1. AccessInit => Init
  BY DEF AccessInit
<1>2. [AccessNext]_accessVars => [Next]_vars
  <2> SUFFICES ASSUME [AccessNext]_accessVars, ~Next PROVE UNCHANGED vars
    OBVIOUS
  <2>1. CASE Processor
    BY <2>1, ReadingChanges, NotReadingChanges DEF Processor, tables, vars
  <2>2. CASE Host
    BY <2>2 DEF Host, HandOver, Tables, SetMask, SetClock, FastPaths, SetFastMemory,
       CopyByte, SetFastIo, CopyPort, SetActive, Page, Change, tables, vars
  <2>3. CASE UNCHANGED accessVars
    BY <2>3 DEF accessVars, tables, vars
  <2>4. QED BY <2>1, <2>2, <2>3 DEF AccessNext
<1>3. QED BY <1>1, <1>2, PTL DEF AccessSpec, Spec

\* The clock has room for all that the step may still do, also past the end of
\* the frame, where nothing looks at it.
ClockInv ==
  /\ left \in 0 .. Accesses
  /\ t_state \in Nat
  /\ t_state + left * Longest <= IntMax

\* An addition that stays in the range of an int is exact.
LEMMA AddIntExact ==
  ASSUME NEW a \in Nat, NEW n \in Nat, a + n <= IntMax
  PROVE  AddInt(a, n) = a + n
<1> DEFINE M == 2 * (IntMax + 1)
           s == a + n + IntMax + 1
<1>1. M \in Nat /\ M > 0 /\ IntMax \in Nat /\ s \in 0 .. (M - 1)
  BY ClockAssumption
<1>2. s % M = s
  BY <1>1
<1>3. AddInt(a, n) = (s % M) - (IntMax + 1)
  BY DEF AddInt
<1>4. QED BY <1>1, <1>2, <1>3

\* One access fewer takes Longest off the room, which never exceeds that of a
\* whole step.
LEMMA Room ==
  ASSUME NEW n \in 0 .. Accesses
  PROVE  /\ n * Longest \in 0 .. (Accesses * Longest)
         /\ n > 0 => (n - 1) * Longest = n * Longest - Longest
<1>1. Accesses \in Nat /\ Longest \in Nat
  BY ClockAssumption
<1>2. /\ n * Longest \in Nat /\ (Accesses - n) * Longest \in Nat
      /\ Accesses * Longest = n * Longest + (Accesses - n) * Longest
  <2>1. \A i, j, l \in Nat : (i + j) * l = i * l + j * l /\ i * l \in Nat
    OBVIOUS
  <2>2. n \in Nat /\ Accesses - n \in Nat /\ n + (Accesses - n) = Accesses
    BY <1>1
  <2>3. QED BY <1>1, <2>1, <2>2
<1>3. n > 0 => (n - 1) * Longest = n * Longest - Longest
  BY <1>1
<1>4. Accesses * Longest \in Nat
  BY <1>1
<1>5. QED BY <1>2, <1>3, <1>4

\* No access takes the clock out of the room of its step.
LEMMA ElapseInRange ==
  ASSUME ClockInv, NEW base \in Nat, NEW waits, Elapse(base, waits),
         \A w \in waits : w \in Nat /\ base + w <= Longest
  PROVE  ClockInv'
<1>1. PICK w \in waits : t_state' = AddInt(t_state, base + w)
  BY DEF Elapse
<1>2. left > 0 /\ left' = left - 1 /\ base + w \in Nat /\ base + w <= Longest
  BY <1>1 DEF Elapse
<1>3. left \in 0 .. Accesses /\ Accesses \in Nat /\ Longest \in Nat /\ IntMax \in Nat
  BY ClockAssumption DEF ClockInv
<1>4. left * Longest \in Nat /\ left' * Longest \in Nat
      /\ left' * Longest = left * Longest - Longest
  <2>1. left' \in 0 .. Accesses
    BY <1>2, <1>3
  <2>2. QED BY <1>2, <1>3, <2>1, Room
<1>5. t_state + (base + w) <= IntMax /\ t_state \in Nat
  BY <1>2, <1>3, <1>4 DEF ClockInv
<1>6. t_state' = t_state + (base + w)
  BY <1>1, <1>2, <1>5, AddIntExact
<1>7. QED BY <1>2, <1>3, <1>4, <1>6 DEF ClockInv

\* The delay of an access is one of Delays.
LEMMA WaitsFit ==
  ASSUME NEW k, NEW a, NEW base \in {3, 4}
  PROVE  \A w \in Waits(k, a) : w \in Nat /\ base + w <= Longest
<1>1. Waits(k, a) \subseteq Delays
  BY ClockAssumption DEF Waits
<1>2. \A d \in Delays : d \in Nat /\ 4 + d <= Longest /\ Longest \in Nat
  BY ClockAssumption
<1>3. QED BY <1>1, <1>2

LEMMA ClockStep ==
  ASSUME KeepsFrame, ClockInv, [AccessNext]_accessVars
  PROVE  ClockInv'
<1>1. ASSUME NEW k, NEW a, NEW base \in {3, 4}, Elapse(base, Waits(k, a)) PROVE ClockInv'
  BY <1>1, ElapseInRange, WaitsFit
<1>2. CASE Reading
  BY <1>2, <1>1 DEF Reading, FetchOpcode, Read, Load, Input
<1>3. ASSUME NEW a \in Addresses, NEW v \in Bytes, Write(a, v) PROVE ClockInv'
  BY <1>3, <1>1 DEF Write
<1>4. ASSUME NEW page \in Pages, NEW p \in Ports, Output(page, p) PROVE ClockInv'
  BY <1>4, <1>1 DEF Output
<1>5. ASSUME NEW n \in Idles, Wait(n) PROVE ClockInv'
  <2>1. n \in Nat /\ n + 0 <= Longest
    BY ClockAssumption
  <2>2. Elapse(n, {0})
    BY <1>5 DEF Wait
  <2>3. QED BY <2>1, <2>2, ElapseInRange
<1>6. CASE CallBack
  BY <1>6 DEF CallBack, ClockInv
<1>7. CASE EndStep
  <2>1. left' = 0 /\ UNCHANGED t_state
    BY <1>7 DEF EndStep
  <2>2. left * Longest \in Nat /\ 0 * Longest = 0 /\ 0 \in 0 .. Accesses /\ IntMax \in Nat
    BY Room, ClockAssumption DEF ClockInv
  <2>3. QED BY <2>1, <2>2 DEF ClockInv
<1>8. CASE HandOver
  <2>1. CASE Return
    BY <2>1, <1>8 DEF Return, HandOver, ClockInv
  <2>2. CASE BeginStep
    <3>1. t_state < Frame /\ left' = Accesses /\ UNCHANGED t_state
      BY <2>2, <1>8 DEF BeginStep, HandOver
    <3>2. Accesses * Longest \in Nat /\ Accesses \in 0 .. Accesses
          /\ Frame \in Nat /\ IntMax \in Nat /\ Frame + Accesses * Longest <= IntMax + 1
      BY ClockAssumption
    <3>3. QED BY <3>1, <3>2 DEF ClockInv
  <2>3. QED BY <1>8, <2>1, <2>2 DEF HandOver
<1>9. ASSUME NEW n \in (-IntMax - 1) .. IntMax, SetClock(n) PROVE ClockInv'
  <2>1. n \in 0 .. (Frame - 1) /\ t_state' = n /\ UNCHANGED left
    BY <1>9 DEF SetClock, turn
  <2>2. left * Longest \in 0 .. (Accesses * Longest) /\ Accesses * Longest \in Nat
        /\ Frame \in Nat /\ IntMax \in Nat /\ Frame + Accesses * Longest <= IntMax + 1
    BY Room, ClockAssumption DEF ClockInv
  <2>3. QED BY <2>1, <2>2 DEF ClockInv
<1>10. ASSUME UNCHANGED <<turn, t_state>> PROVE ClockInv'
  BY <1>10 DEF ClockInv, turn
<1>11. CASE Tables \/ FastPaths
  BY <1>11, <1>10 DEF Tables, SetMask, FastPaths, SetFastMemory, CopyByte, SetFastIo,
     CopyPort, SetActive, Page, Change
<1>12. CASE UNCHANGED accessVars
  BY <1>12, <1>10 DEF accessVars
<1>13. QED
  BY <1>2, <1>3, <1>4, <1>5, <1>6, <1>7, <1>8, <1>9, <1>11, <1>12
     DEF AccessNext, Processor, NotReading, Host

\* The remainder of a clock in range is an index of a table.
LEMMA IndexBelowSize ==
  ASSUME ClockInv, timing_table_size \in Nat, timing_table_size > 0
  PROVE  Index \in 0 .. (timing_table_size - 1)
<1>1. t_state \in Nat
  BY DEF ClockInv
<1>2. Index = t_state % timing_table_size
  BY <1>1 DEF Index, Remainder
<1>3. QED BY <1>1, <1>2

\* Every access reads its delay inside the table, those of a step that has run
\* over its frame too, if the host keeps its tables alike and starts a step in a
\* frame only: for all table sizes, delays, frames, numbers of accesses and
\* widths of int that leave room for one step from the end of a frame on.
THEOREM IndexStaysInTable ==
  ASSUME Uniform, KeepsFrame
  PROVE  AccessSpec => []IndexInTable
<1>1. AccessInit => ClockInv
  <2>1. 0 \in 0 .. Accesses /\ 0 * Longest = 0 /\ 0 <= IntMax
    BY ClockAssumption
  <2>2. QED BY <2>1 DEF AccessInit, ClockInv
<1>2. ClockInv /\ [AccessNext]_accessVars => ClockInv'
  BY ClockStep
<1>3. LookupsInRange /\ ClockInv /\ TimingInv => IndexInTable
  <2> SUFFICES ASSUME LookupsInRange, ClockInv, TimingInv, NEW k \in Kinds, Consulted(k)
               PROVE  table[k] = "owned" /\ Index \in 0 .. (vec[k] - 1)
    BY DEF IndexInTable
  <2>1. timing_table_size \in Nat /\ timing_table_size > 0 /\ vec[k] \in Nat
    BY SizeAssumption DEF TimingInv, Consulted
  <2>2. table[k] = "owned" /\ timing_table_size <= vec[k]
    BY DEF LookupsInRange
  <2>3. QED BY <2>1, <2>2, IndexBelowSize
<1>4. QED
  BY <1>1, <1>2, <1>3, AccessImplementsTiming, LookupsStayInRange, TimingInvariant, PTL
     DEF AccessSpec

-----------------------------------------------------------------------------
(* The fast paths.                                                         *)

\* Where the host owes nothing, a buffer holds what the callback would answer,
\* on every page; it owes nothing that the processor may read while it runs.
BufferInv ==
  /\ memory \in [Addresses -> Bytes] /\ device \in Memory!Devices
  /\ active \subseteq LowByteOnly
  /\ \A p \in LowByteOnly, x, y \in Pages : device[x][p] = device[y][p]
  /\ fast_memory # None =>
       /\ fast_memory \in [Addresses -> Bytes]
       /\ \A a \in Addresses \ dirty : fast_memory[a] = memory[a]
  /\ fast_io # None =>
       /\ fast_io \in [Ports -> Bytes]
       /\ \A p \in LowByteOnly \ stale, x \in Pages : fast_io[p] = device[x][p]
  /\ IF running THEN UpToDate ELSE got = None

bytes == <<memory, device, fast_memory, dirty, fast_io, active, stale>>

\* The turn may change without them.
LEMMA BufferStays ==
  ASSUME BufferInv, UNCHANGED bytes, IF running' THEN UpToDate ELSE got' = None
  PROVE  BufferInv'
BY DEF BufferInv, bytes, UpToDate

\* A byte read comes from the memory or the device, by whichever path.
LEMMA ReadStep ==
  ASSUME BufferInv, Reading
  PROVE  BufferInv' /\ Memory!Next
<1>1. UNCHANGED <<bytes, running>>
  BY DEF Reading, FetchOpcode, Read, Load, Input, bytes, ram, ports
<1>2. ASSUME NEW a \in Addresses, FetchOpcode(a) \/ Read(a) PROVE Memory!Read(a)
  <2>1. running /\ got' = <<a, FastOr(fast_memory, memory)[a]>>
    BY <1>2 DEF FetchOpcode, Read, Load, Elapse
  <2>2. FastOr(fast_memory, memory)[a] = memory[a]
    BY <2>1 DEF BufferInv, UpToDate, FastOr
  <2>3. QED BY <1>1, <2>1, <2>2 DEF Memory!Read, bytes
<1>3. ASSUME NEW page \in Pages, NEW p \in Ports, Input(page, p) PROVE Memory!Input(page, p)
  <2>1. running /\ got' = <<page, p, IF fast_io # None /\ p \in active THEN fast_io[p]
                                     ELSE device[page][p]>>
    BY <1>3 DEF Input, Elapse
  <2>2. fast_io # None /\ p \in active => fast_io[p] = device[page][p]
    BY <2>1 DEF BufferInv, UpToDate
  <2>3. got' = <<page, p, device[page][p]>>
    BY <2>1, <2>2
  <2>4. QED BY <1>1, <2>3 DEF Memory!Input, bytes
<1>4. running
  BY DEF Reading, FetchOpcode, Read, Load, Input, Elapse
<1>5. BufferInv'
  BY <1>1, <1>4, BufferStays DEF BufferInv
<1>6. QED BY <1>2, <1>3, <1>5 DEF Reading, Memory!Next

\* A write is the host's, and the buffer is not up to date until the host is.
LEMMA WriteStep ==
  ASSUME BufferInv, NEW a \in Addresses, NEW v \in Bytes, Write(a, v), got' = None
  PROVE  BufferInv' /\ Memory!Write(a, v)
<1>1. /\ ~running' /\ UNCHANGED <<device, fast_memory, fast_io, active, stale>>
      /\ memory' = IF a \in ROM THEN memory ELSE [memory EXCEPT ![a] = v]
      /\ dirty' = IF a \in ROM THEN dirty ELSE dirty \cup {a}
  BY DEF Write, Store, ports
<1>2. memory' \in [Addresses -> Bytes]
  BY <1>1 DEF BufferInv
<1>3. \A b \in Addresses \ dirty' : b \notin dirty /\ memory'[b] = memory[b]
  BY <1>1 DEF BufferInv
<1>4. BufferInv'
  BY <1>1, <1>2, <1>3 DEF BufferInv
<1>5. QED BY <1>1, <1>4 DEF Memory!Write, None

\* The host pays off a byte, takes on debts with new buffers and new bytes, and
\* gives up its turn without any.
LEMMA HostStep ==
  ASSUME KeepsBuffers, BufferInv, Host
  PROVE  BufferInv' /\ (Memory!Change \/ UNCHANGED <<memory, device, got>>)
<1>0. ~running /\ got = None /\ got' = None
  BY DEF Host, BufferInv
<1>1. CASE HandOver
  <2>1. UNCHANGED bytes /\ UpToDate
    BY <1>1 DEF HandOver, bytes, ram, ports
  <2>2. QED BY <1>0, <2>1, BufferStays DEF bytes
<1>2. CASE Tables
  <2>1. UNCHANGED bytes /\ UNCHANGED running
    BY <1>2 DEF Tables, SetMask, bytes, ram, ports, turn
  <2>2. QED BY <1>0, <2>1, BufferStays DEF bytes
<1>3. ASSUME NEW n, SetClock(n) PROVE BufferInv' /\ UNCHANGED <<memory, device, got>>
  <2>1. UNCHANGED bytes /\ UNCHANGED running
    BY <1>3 DEF SetClock, bytes, ram, ports, turn
  <2>2. QED BY <1>0, <2>1, BufferStays DEF bytes
<1>4. CASE SetFastMemory
  <2>1. fast_memory' \in [Addresses -> Bytes] /\ dirty' = Addresses /\ ~running'
        /\ UNCHANGED <<memory, device, fast_io, active, stale>>
    BY <1>0, <1>4 DEF SetFastMemory, turn, ports
  <2>2. BufferInv'
    BY <1>0, <2>1 DEF BufferInv
  <2>3. QED BY <1>0, <2>1, <2>2
<1>5. CASE SetFastIo
  <2>1. fast_io' \in [Ports -> Bytes] /\ stale' = Ports /\ ~running'
        /\ UNCHANGED <<memory, device, fast_memory, dirty, active>>
    BY <1>0, <1>5 DEF SetFastIo, turn, ram
  <2>2. LowByteOnly \ stale' = {}
    BY <2>1, HostAssumption
  <2>3. BufferInv'
    BY <1>0, <2>1, <2>2 DEF BufferInv
  <2>4. QED BY <1>0, <2>1, <2>3
<1>6. ASSUME NEW a \in Addresses, CopyByte(a) PROVE BufferInv' /\ UNCHANGED <<memory, device, got>>
  <2>1. fast_memory # None /\ fast_memory' = [fast_memory EXCEPT ![a] = memory[a]]
        /\ dirty' = dirty \ {a} /\ ~running'
        /\ UNCHANGED <<memory, device, fast_io, active, stale>>
    BY <1>0, <1>6 DEF CopyByte, turn, ports
  <2>2. fast_memory' \in [Addresses -> Bytes]
    BY <2>1 DEF BufferInv
  <2>3. \A b \in Addresses \ dirty' : fast_memory'[b] = memory[b]
    BY <2>1 DEF BufferInv
  <2>4. BufferInv'
    BY <1>0, <2>1, <2>2, <2>3 DEF BufferInv
  <2>5. QED BY <1>0, <2>1, <2>4
<1>7. ASSUME NEW page \in Pages, NEW p \in Ports, CopyPort(page, p)
      PROVE  BufferInv' /\ UNCHANGED <<memory, device, got>>
  <2>1. fast_io # None /\ fast_io' = [fast_io EXCEPT ![p] = device[page][p]]
        /\ stale' = stale \ {p} /\ ~running'
        /\ UNCHANGED <<memory, device, fast_memory, dirty, active>>
    BY <1>0, <1>7 DEF CopyPort, turn, ram
  <2>2. fast_io' \in [Ports -> Bytes] /\ fast_io'[p] = device[page][p]
        /\ \A q \in Ports \ {p} : fast_io'[q] = fast_io[q]
    BY <2>1 DEF BufferInv, Memory!Devices
  <2>3. \A q \in LowByteOnly \ stale', x \in Pages : fast_io'[q] = device[x][q]
    BY <2>1, <2>2, HostAssumption DEF BufferInv
  <2>4. BufferInv'
    BY <1>0, <2>1, <2>2, <2>3 DEF BufferInv
  <2>5. QED BY <1>0, <2>1, <2>4
<1>8. ASSUME NEW p \in Ports, NEW on \in BOOLEAN, SetActive(p, on)
      PROVE  BufferInv' /\ UNCHANGED <<memory, device, got>>
  <2>1. active' \subseteq LowByteOnly /\ ~running'
        /\ UNCHANGED <<memory, device, fast_memory, dirty, fast_io, stale>>
    BY <1>0, <1>8 DEF SetActive, turn, ram, BufferInv
  <2>2. BufferInv'
    BY <1>0, <2>1 DEF BufferInv
  <2>3. QED BY <1>0, <2>1, <2>2
<1>9. ASSUME NEW a \in Addresses, NEW v \in Bytes, Page(a, v)
      PROVE  BufferInv' /\ Memory!Change
  <2>1. memory' = [memory EXCEPT ![a] = v] /\ dirty' = dirty \cup {a} /\ ~running'
        /\ UNCHANGED <<device, fast_memory, fast_io, active, stale>>
    BY <1>0, <1>9 DEF Page, Store, turn, ports
  <2>2. memory' \in [Addresses -> Bytes]
        /\ \A b \in Addresses \ dirty' : b \notin dirty /\ memory'[b] = memory[b]
    BY <2>1 DEF BufferInv
  <2>3. BufferInv'
    BY <1>0, <2>1, <2>2 DEF BufferInv
  <2>4. QED BY <1>0, <2>1, <2>2, <2>3 DEF Memory!Change, BufferInv, None
<1>10. ASSUME NEW page \in Pages, NEW p \in Ports, NEW v \in Bytes, Change(page, p, v)
       PROVE  BufferInv' /\ Memory!Change
  <2>1. stale' = stale \cup {p} /\ ~running'
        /\ UNCHANGED <<memory, fast_memory, dirty, fast_io, active>>
    BY <1>0, <1>10 DEF Change, turn, ram
  <2>2. device' = [x \in Pages |-> IF x = page \/ p \in LowByteOnly
                                THEN [device[x] EXCEPT ![p] = v] ELSE device[x]]
    BY <1>10 DEF Change
  <2>3. device' \in Memory!Devices
    BY <2>2 DEF BufferInv, Memory!Devices
  <2>4. \A x \in Pages, r \in Ports :
          device'[x][r] = IF r = p /\ (x = page \/ p \in LowByteOnly) THEN v ELSE device[x][r]
    BY <2>2 DEF BufferInv, Memory!Devices
  <2>5. LowByteOnly \subseteq Ports
    BY HostAssumption
  <2>6. \A r \in LowByteOnly, x, y \in Pages : device'[x][r] = device'[y][r]
    BY <2>4, <2>5 DEF BufferInv
  <2>7. \A r \in LowByteOnly \ stale', x \in Pages : device'[x][r] = device[x][r]
    BY <2>1, <2>4, <2>5
  <2>8. BufferInv'
    BY <1>0, <2>1, <2>3, <2>6, <2>7 DEF BufferInv
  <2>9. QED BY <1>0, <2>1, <2>3, <2>8 DEF Memory!Change, BufferInv, None
<1>11. QED
  BY <1>0, <1>1, <1>2, <1>3, <1>4, <1>5, <1>6, <1>7, <1>8, <1>9, <1>10 DEF Host, FastPaths

LEMMA BufferStep ==
  ASSUME KeepsBuffers, BufferInv, [AccessNext]_accessVars
  PROVE  BufferInv' /\ [Memory!Next]_<<memory, device, got>>
<1>1. CASE Reading
  BY <1>1, ReadStep
<1>2. ASSUME NEW a \in Addresses, NEW v \in Bytes, Write(a, v), got' = None
      PROVE  BufferInv' /\ Memory!Next
  BY <1>2, WriteStep DEF Memory!Next
<1>3. CASE NotReading /\ got' = None /\ UNCHANGED ram
  <2>1. UNCHANGED bytes
    BY <1>3, NotReadingChanges DEF bytes, ram, ports
  <2>2. IF running' THEN UpToDate ELSE got' = None
    BY <1>3 DEF NotReading, Write, Output, Wait, CallBack, EndStep, Elapse, BufferInv
  <2>3. BufferInv'
    BY <2>1, <2>2, BufferStays
  <2>4. Memory!Change
    BY <1>3, <2>1 DEF Memory!Change, BufferInv, bytes, None
  <2>5. QED BY <2>3, <2>4 DEF Memory!Next
<1>4. CASE Host
  BY <1>4, HostStep DEF Memory!Next
<1>5. CASE UNCHANGED accessVars
  <2>1. UNCHANGED <<bytes, running, got>>
    BY <1>5 DEF accessVars, bytes, ram, ports, turn
  <2>2. QED BY <2>1, BufferStays DEF BufferInv, bytes
<1>6. QED
  BY <1>1, <1>2, <1>3, <1>4, <1>5, NotReadingChanges DEF AccessNext, Processor

\* The processor with fast paths implements the one that asks the host for every
\* byte by its full address or port: for all memories, protections and devices,
\* at whatever point of a step the host gives its buffers, pages or changes
\* bytes, as long as it has brought the buffers up to date when it returns, and
\* takes the fast path for ports of devices that heed the low byte only.
THEOREM FastPathsAreMemory ==
  ASSUME KeepsBuffers
  PROVE  AccessSpec => MemorySpec
<1>1. AccessInit => BufferInv /\ Memory!Init
  <2> SUFFICES ASSUME AccessInit PROVE BufferInv /\ Memory!Init
    OBVIOUS
  <2>1. memory \in [Addresses -> Bytes] /\ fast_memory = None /\ fast_io = None
        /\ active = {} /\ ~running /\ got = None
    BY HostAssumption DEF AccessInit
  <2>2. PICK v \in Bytes : device = [x \in Pages |-> [p \in Ports |-> v]]
    BY DEF AccessInit
  <2>3. device \in Memory!Devices
    BY <2>2 DEF Memory!Devices
  <2>4. \A p \in LowByteOnly, x, y \in Pages : device[x][p] = device[y][p]
    BY <2>2, HostAssumption
  <2>5. QED BY <2>1, <2>3, <2>4 DEF BufferInv, Memory!Init, None
<1>2. BufferInv /\ [AccessNext]_accessVars
        => BufferInv' /\ [Memory!Next]_<<memory, device, got>>
  BY BufferStep
<1>3. QED BY <1>1, <1>2, PTL DEF AccessSpec, MemorySpec, Memory!Spec
=============================================================================
