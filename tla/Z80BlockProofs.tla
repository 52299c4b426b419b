--------------------------- MODULE Z80BlockProofs ---------------------------
(***************************************************************************)
(* Theorems about the block instructions, for every byte width, block,     *)
(* count and number of interrupts.                                         *)
(***************************************************************************)
EXTENDS Z80Block, Z80WordsTheorems

-----------------------------------------------------------------------------
(* Type correctness.                                                       *)

\* A setup is one: its fields have their types.
LEMMA SetupType ==
  \A s \in Setups :
    /\ s \in Setup
    /\ s.op \in Ops /\ s.A \in Byte /\ s.mem \in [Word -> Byte]
    /\ s.BC \in Word /\ s.DE \in Word /\ s.HL \in Word
    /\ s.PC \in Word /\ s.SP \in Word
BY BlockAssumption DEF Setup

LEMMA WordInt == Word \subseteq Int /\ Byte \subseteq Int
BY DEF Word, Byte

LEMMA Stepped == \A a \in Word, n \in Int : Plus(a, n) \in Word
BY WordInt, PlusWord

LEMMA DirInt == Dir \in {-1, 1} /\ Dir \in Int
BY DEF Dir

\* Counting B down leaves a pair of bytes.
LEMMA DecBWord == BC \in Word => DecB \in Word
<1> SUFFICES ASSUME BC \in Word PROVE DecB \in Word
  OBVIOUS
<1>1. Lo(BC) \in Byte /\ Hi(BC) \in Byte
  BY SplitWord
<1>2. (Hi(BC) - 1) % W \in Byte
  <2>1. Hi(BC) - 1 \in Int /\ W \in Nat /\ W > 0
    BY <1>1, WidthAssumption DEF Byte
  <2>2. QED BY <2>1 DEF Byte
<1>3. QED BY <1>1, <1>2, WordOfWord DEF DecB

LEMMA OperationType ==
  ASSUME TypeOK, Transfer \/ Compare \/ Input \/ Output
  PROVE  /\ mem' \in [Word -> Byte] /\ BC' \in Word /\ DE' \in Word
         /\ HL' \in Word /\ zero' \in BOOLEAN /\ parity' \in BOOLEAN
         /\ io' \in Seq([port : Word, val : Byte])
<1>1. /\ BC \in Word /\ DE \in Word /\ HL \in Word
      /\ mem \in [Word -> Byte] /\ io \in Seq([port : Word, val : Byte])
      /\ zero \in BOOLEAN /\ parity \in BOOLEAN
  BY DEF TypeOK
<1>2. /\ Plus(HL, Dir) \in Word /\ Plus(DE, Dir) \in Word
      /\ Plus(BC, -1) \in Word /\ DecB \in Word /\ mem[HL] \in Byte
  BY <1>1, Stepped, DirInt, DecBWord
<1>3. CASE Transfer
  BY <1>1, <1>2, <1>3 DEF Transfer
<1>4. CASE Compare
  BY <1>1, <1>2, <1>4 DEF Compare
<1>5. CASE Input
  <2>1. PICK val \in PortData : /\ io' = Append(io, [port |-> BC, val |-> val])
                                /\ mem' = [mem EXCEPT ![HL] = val]
    BY <1>5 DEF Input
  <2>2. val \in Byte
    BY BlockAssumption
  <2>3. [port |-> BC, val |-> val] \in [port : Word, val : Byte]
    BY <1>1, <2>2
  <2>4. io' \in Seq([port : Word, val : Byte])
    BY <1>1, <2>1, <2>3
  <2>5. QED BY <1>1, <1>2, <1>5, <2>1, <2>2, <2>4 DEF Input
<1>6. CASE Output
  <2>1. BC' \in Word
    BY <1>2, <1>6 DEF Output
  <2>2. [port |-> BC', val |-> mem[HL]] \in [port : Word, val : Byte]
    BY <1>2, <2>1
  <2>3. io' \in Seq([port : Word, val : Byte])
    BY <1>1, <1>6, <2>2 DEF Output
  <2>4. QED BY <1>1, <1>2, <1>6, <2>1, <2>3 DEF Output
<1>7. QED BY <1>3, <1>4, <1>5, <1>6

LEMMA TypeInit == Init => TypeOK
<1> SUFFICES ASSUME Init PROVE TypeOK
  OBVIOUS
<1>1. start \in Setups /\ start \in Setup
  BY SetupType DEF Init
<1>2. io \in Seq([port : Word, val : Byte])
  BY DEF Init
<1>3. taken \in 0 .. MaxInterrupts
  BY BlockAssumption DEF Init
<1>4. QED BY <1>1, <1>2, <1>3, SetupType DEF Init, TypeOK

LEMMA TypeNext == TypeOK /\ [Next]_vars => TypeOK'
<1> SUFFICES ASSUME TypeOK, [Next]_vars PROVE TypeOK'
  OBVIOUS
<1>1. PC \in Word /\ SP \in Word /\ mem \in [Word -> Byte]
  BY DEF TypeOK
<1>2. CASE Iterate
  <2>1. PC' \in Word
    <3>1. Plus(PC, 2) \in Word
      BY <1>1, Stepped
    <3>2. Plus(Plus(PC, 2), -2) \in Word
      BY <3>1, Stepped
    <3>3. QED BY <1>2, <3>1, <3>2 DEF Iterate
  <2>2. Transfer \/ Compare \/ Input \/ Output
    BY <1>2 DEF Iterate
  <2>3. QED BY <1>2, <2>1, <2>2, OperationType DEF Iterate, TypeOK
<1>3. CASE Interrupt
  <2>1. mem' \in [Word -> Byte] /\ SP' \in Word /\ PC' \in Word
    <3>1. Push(mem, SP, PC) \in [Word -> Byte] /\ Plus(SP, -2) \in Word
      BY <1>1, PushType, Stepped
    <3>2. QED BY <1>3, <3>1, BlockAssumption DEF Interrupt
  <2>2. taken' \in 0 .. MaxInterrupts
    BY <1>3, BlockAssumption DEF Interrupt, TypeOK
  <2>3. QED BY <1>3, <2>1, <2>2 DEF Interrupt, TypeOK, pairs, flags
<1>4. CASE Return
  <2>1. PC' \in Word /\ SP' \in Word
    BY <1>1, <1>4, WordAtWord, Stepped DEF Return
  <2>2. QED BY <1>4, <2>1 DEF Return, TypeOK, pairs, flags
<1>5. CASE UNCHANGED vars
  BY <1>5 DEF vars, pairs, flags, TypeOK
<1>6. QED BY <1>2, <1>3, <1>4, <1>5 DEF Next

\* Registers, memory and ports keep their widths, a count of zero and a block
\* that wraps around memory included.
THEOREM BlockTypeCorrect == Spec => []TypeOK
<1>1. QED BY TypeInit, TypeNext, PTL DEF Spec

-----------------------------------------------------------------------------
(* Where the operation stands.                                             *)

\* The address at which the program goes on, now or after the handler.
Place == IF serving THEN WordAt(mem, SP) ELSE PC
Over  == Plus(start.PC, 2)

\* Whatever interrupts it, the program is at the instruction or behind it.
PlaceInv ==
  /\ Place \in {start.PC, Over}
  /\ SP = IF serving THEN Plus(start.SP, -2) ELSE start.SP

LEMMA OverElsewhere == start \in Setups => Over # start.PC
<1> SUFFICES ASSUME start \in Setups PROVE Over # start.PC
  OBVIOUS
<1>1. start.PC \in Word /\ start.PC \in Int
  BY SetupType, WordInt
<1>2. 2 - 0 \in 1 .. (W * W - 1)
  <2> DEFINE size == W * W
  <2>1. size \in Nat /\ size >= 4
    BY WordsNumber
  <2> HIDE DEF size
  <2>2. 2 - 0 \in 1 .. (size - 1)
    BY <2>1
  <2>3. QED BY <2>2 DEF size
<1>3. Plus(start.PC, 2) # Plus(start.PC, 0)
  BY <1>1, <1>2, PlusInjective
<1>4. QED BY <1>1, <1>3, PlusZero DEF Over

\* A push and the pop of the return leave the place alone.
LEMMA PlaceKept ==
  ASSUME TypeOK, Interrupt \/ Return
  PROVE  Place' = Place
<1>1. PC \in Word /\ SP \in Word /\ mem \in [Word -> Byte]
  BY DEF TypeOK
<1>2. CASE Interrupt
  <2>1. WordAt(mem', SP') = PC
    BY <1>1, <1>2, PushPop DEF Interrupt
  <2>2. QED BY <1>2, <2>1 DEF Interrupt, Place
<1>3. CASE Return
  BY <1>3 DEF Return, Place
<1>4. QED BY <1>2, <1>3

\* An iteration ends at the opcode again or behind the instruction.
LEMMA IterateMoves ==
  ASSUME TypeOK, Iterate
  PROVE  /\ Place = start.PC /\ start' = start /\ serving' = serving
         /\ Place' = IF Repeats THEN start.PC ELSE Over
<1>1. PC = start.PC /\ ~serving /\ start' = start /\ serving' = serving
  BY DEF Iterate, Fetched
<1>2. Plus(Plus(PC, 2), -2) = PC
  <2>1. PC \in Word /\ PC \in Int
    BY WordInt DEF TypeOK
  <2>2. Plus(Plus(PC, 2), -2) = Plus(PC, 0)
    BY <2>1, PlusSum
  <2>3. QED BY <2>1, <2>2, PlusZero
<1>3. PC' = IF Repeats THEN Plus(Plus(PC, 2), -2) ELSE Plus(PC, 2)
  BY DEF Iterate
<1>4. QED BY <1>1, <1>2, <1>3 DEF Place, Over

LEMMA PlaceInit == Init => PlaceInv
BY DEF Init, PlaceInv, Place

LEMMA PlaceNext == TypeOK /\ PlaceInv /\ [Next]_vars => PlaceInv'
<1> SUFFICES ASSUME TypeOK, PlaceInv, [Next]_vars PROVE PlaceInv'
  OBVIOUS
<1>1. CASE Iterate
  <2>1. SP' = SP
    BY <1>1 DEF Iterate
  <2>2. QED BY <1>1, <2>1, IterateMoves DEF PlaceInv, Over
<1>2. CASE Interrupt
  <2>1. Place' = Place /\ start' = start
    BY <1>2, PlaceKept DEF Interrupt
  <2>2. QED BY <1>2, <2>1 DEF Interrupt, PlaceInv, Over
<1>3. CASE Return
  <2>1. Place' = Place /\ start' = start
    BY <1>3, PlaceKept DEF Return
  <2>2. SP' = start.SP
    <3>1. SP = Plus(start.SP, -2) /\ SP' = Plus(SP, 2)
      BY <1>3 DEF Return, PlaceInv
    <3>2. start.SP \in Word /\ start.SP \in Int
      BY SetupType, WordInt DEF TypeOK
    <3>3. Plus(Plus(start.SP, -2), 2) = Plus(start.SP, 0)
      <4>1. \A m, n, k \in Int :
              m + n = k => Plus(Plus(start.SP, m), n) = Plus(start.SP, k)
        BY <3>2, PlusSum
      <4> DEFINE down == -2
      <4>2. down \in Int /\ down + 2 = 0
        OBVIOUS
      <4> HIDE DEF down
      <4>3. Plus(Plus(start.SP, down), 2) = Plus(start.SP, 0)
        BY <4>1, <4>2
      <4>4. QED BY <4>3 DEF down
    <3>4. QED BY <3>1, <3>2, <3>3, PlusZero
  <2>3. QED BY <1>3, <2>1, <2>2 DEF Return, PlaceInv, Over
<1>4. CASE UNCHANGED vars
  BY <1>4 DEF vars, PlaceInv, Place, Over
<1>5. QED BY <1>1, <1>2, <1>3, <1>4 DEF Next

-----------------------------------------------------------------------------
(* The addresses an operation goes through.                                *)

\* What is said of the setup alone stays true of it.
LEMMA Fixed ==
  ASSUME start' = start
  PROVE  /\ Dir' = Dir /\ Size' = Size /\ Lead' = Lead /\ Over' = Over
         /\ StackArea' = StackArea /\ Written' = Written /\ Intact' = Intact
         /\ \A i : Source(i)' = Source(i) /\ Target(i)' = Target(i)
<1>1. Dir' = Dir /\ Size' = Size /\ StackArea' = StackArea /\ Over' = Over
  BY DEF Dir, Size, StackArea, Over
<1>2. \A i : Source(i)' = Source(i) /\ Target(i)' = Target(i)
  BY <1>1 DEF Source, Target
<1>3. Lead' = Lead
  BY <1>1 DEF Lead
<1>4. Written' = Written
  BY <1>1, <1>2 DEF Written
<1>5. Intact' = Intact
  BY <1>1, <1>4 DEF Intact
<1>6. QED BY <1>1, <1>2, <1>3, <1>4, <1>5

LEMMA SizeRange ==
  ASSUME start \in Setups
  PROVE  /\ Size \in 1 .. (W * W)
         /\ start.op \in Inputs \cup Outputs => Size \in 1 .. W
<1>1. start.BC \in Word /\ Hi(start.BC) \in Byte
  BY SetupType, SplitWord
<1>2. W \in Nat /\ W >= 2 /\ W * W \in Nat /\ W * W >= 1 /\ W <= W * W
  <2>1. W \in Nat /\ W >= 2
    BY WidthAssumption
  <2>2. W * W >= 2 * W
    BY <2>1
  <2>3. QED BY <2>1, <2>2
<1>3. Wrapped(start.BC, W * W) \in 1 .. (W * W)
  <2> DEFINE size == W * W
  <2>1. size \in Nat /\ size >= 1 /\ start.BC \in 0 .. (size - 1)
    BY <1>1, <1>2 DEF Word
  <2> HIDE DEF size
  <2>2. Wrapped(start.BC, size) \in 1 .. size
    BY <2>1 DEF Wrapped
  <2>3. QED BY <2>2 DEF size
<1>4. Wrapped(Hi(start.BC), W) \in 1 .. W
  BY <1>1, <1>2 DEF Byte, Wrapped
<1>5. 1 \in 1 .. W /\ \A k \in 1 .. W : k \in 1 .. (W * W)
  <2> DEFINE size == W * W
  <2>1. size \in Nat /\ W <= size
    BY <1>2
  <2> HIDE DEF size
  <2>2. 1 \in 1 .. W /\ \A k \in 1 .. W : k \in 1 .. size
    BY <1>2, <2>1
  <2>3. QED BY <2>2 DEF size
<1>6. QED BY <1>3, <1>4, <1>5 DEF Size

LEMMA Addresses ==
  ASSUME start \in Setups
  PROVE  /\ start.HL \in Int /\ start.DE \in Int
         /\ \A i \in Int : Source(i) \in Word /\ Target(i) \in Word
         /\ Source(0) = start.HL /\ Target(0) = start.DE
         /\ \A i \in Int : /\ Plus(Source(i), Dir) = Source(i + 1)
                           /\ Plus(Target(i), Dir) = Target(i + 1)
<1>1. start.HL \in Word /\ start.DE \in Word /\ start.HL \in Int /\ start.DE \in Int
  BY SetupType, WordInt
<1>2. \A i \in Int : Dir * i \in Int /\ Dir * i + Dir = Dir * (i + 1)
  BY DirInt
<1>3. \A i \in Int : Source(i) \in Word /\ Target(i) \in Word
  BY <1>1, <1>2, Stepped DEF Source, Target
<1>4. Source(0) = start.HL /\ Target(0) = start.DE
  <2>1. Dir * 0 = 0
    BY DirInt
  <2>2. QED BY <1>1, <2>1, PlusZero DEF Source, Target
<1>5. ASSUME NEW i \in Int
      PROVE  /\ Plus(Source(i), Dir) = Source(i + 1)
             /\ Plus(Target(i), Dir) = Target(i + 1)
  <2>1. Dir * i \in Int /\ Dir \in Int /\ Dir * (i + 1) \in Int
        /\ Dir * i + Dir = Dir * (i + 1)
    BY <1>2, DirInt
  <2>2. \A a \in Int : Plus(Plus(a, Dir * i), Dir) = Plus(a, Dir * (i + 1))
    BY <2>1, PlusSum
  <2>3. QED BY <1>1, <2>2 DEF Source, Target
<1>6. QED BY <1>1, <1>3, <1>4, <1>5

\* No address comes twice in an operation.
LEMMA AddressesDiffer ==
  ASSUME start \in Setups, NEW i \in Int, NEW j \in Int,
         i - j \in 1 .. (W * W - 1) \/ j - i \in 1 .. (W * W - 1)
  PROVE  Source(i) # Source(j) /\ Target(i) # Target(j)
<1>1. start.HL \in Int /\ start.DE \in Int
  BY Addresses
<1>2. Dir * i \in Int /\ Dir * j \in Int
  BY DirInt
<1>3. \/ Dir * i - Dir * j \in 1 .. (W * W - 1)
      \/ Dir * j - Dir * i \in 1 .. (W * W - 1)
  <2>1. CASE Dir = 1
    BY <2>1
  <2>2. CASE Dir = -1
    <3>1. Dir * i - Dir * j = j - i /\ Dir * j - Dir * i = i - j
      BY <2>2
    <3>2. QED BY <3>1
  <2>3. QED BY <2>1, <2>2, DirInt
<1>4. QED BY <1>1, <1>2, <1>3, PlusInjective DEF Source, Target

\* The target runs Lead bytes ahead of the source.
LEMMA TargetIsSource ==
  ASSUME start \in Setups, NEW j \in Int
  PROVE  Lead \in 0 .. (W * W - 1) /\ Target(j) = Source(j + Lead)
<1> DEFINE x == Dir * (start.DE - start.HL)
<1>1. start.HL \in Int /\ start.DE \in Int /\ x \in Int
  BY Addresses, DirInt
<1>2. Lead = x % (W * W) /\ Lead \in 0 .. (W * W - 1)
  <2> HIDE DEF x
  <2> DEFINE size == W * W
  <2>1. size \in Nat /\ size > 0
    BY WordsNumber
  <2> HIDE DEF size
  <2>2. x % size \in 0 .. (size - 1)
    BY <1>1, <2>1
  <2>3. QED BY <2>2 DEF Lead, size, x
<1>3. Source(j + Lead) = Plus(Plus(start.HL, Dir * j), Dir * Lead)
  <2>1. Lead \in Int
    BY <1>2
  <2>2. Dir * (j + Lead) = Dir * j + Dir * Lead
        /\ Dir * j \in Int /\ Dir * Lead \in Int /\ Dir * (j + Lead) \in Int
    BY <2>1, DirInt
  <2>3. Plus(Plus(start.HL, Dir * j), Dir * Lead) = Plus(start.HL, Dir * (j + Lead))
    <3>1. \A m, n, k \in Int :
            m + n = k => Plus(Plus(start.HL, m), n) = Plus(start.HL, k)
      BY <1>1, PlusSum
    <3> DEFINE m == Dir * j
               n == Dir * Lead
               k == Dir * (j + Lead)
    <3>2. m \in Int /\ n \in Int /\ k \in Int /\ m + n = k
      BY <2>2
    <3> HIDE DEF m, n, k
    <3>3. Plus(Plus(start.HL, m), n) = Plus(start.HL, k)
      BY <3>1, <3>2
    <3>4. QED BY <3>3 DEF m, n, k
  <2>4. QED BY <2>3 DEF Source
<1> DEFINE a == Plus(start.HL, Dir * j)
<1>4. a \in Int
  BY Addresses, WordInt DEF Source
<1>5. Plus(a, Dir * Lead) = Plus(a, Dir * x)
  <2>1. CASE Dir = 1
    <3>1. Dir * Lead = x % (W * W) /\ Dir * x = x
      BY <1>1, <1>2, <2>1
    <3>2. QED BY <1>1, <1>4, <3>1, PlusDistance
  <2>2. CASE Dir = -1
    <3>1. Dir * Lead = -(x % (W * W)) /\ Dir * x = -x
      BY <1>1, <1>2, <2>2
    <3>2. QED BY <1>1, <1>4, <3>1, PlusDistance
  <2>3. QED BY <2>1, <2>2, DirInt
<1>6. Plus(a, Dir * x) = Target(j)
  <2>1. Dir * x = start.DE - start.HL
    BY <1>1, DirInt
  <2>2. Plus(a, Dir * x) = Plus(start.HL, Dir * j + (start.DE - start.HL))
    <3>1. Dir * j \in Int /\ start.DE - start.HL \in Int
      BY <1>1, DirInt
    <3> DEFINE y == start.DE - start.HL
    <3>2. Plus(Plus(start.HL, Dir * j), y) = Plus(start.HL, Dir * j + y)
      BY <1>1, <3>1, PlusPlus
    <3>3. QED BY <2>1, <3>2
  <2>3. start.HL + (Dir * j + (start.DE - start.HL)) = start.DE + Dir * j
    BY <1>1, DirInt
  <2>4. QED BY <2>2, <2>3 DEF Target, Plus
<1>7. QED BY <1>2, <1>3, <1>5, <1>6

-----------------------------------------------------------------------------
(* What interrupts and iterations have in common.                          *)

\* The count reaches zero after Size iterations and not before.
LEMMA CountEnds ==
  ASSUME start \in Setups, start.op \in Repeating,
         start.op \in Transfers \cup Searches,
         NEW n \in 0 .. Size, n > 0
  PROVE  Plus(start.BC, -n) = 0 <=> n = Size
<1>1. Size = Wrapped(start.BC, W * W)
  BY DEF Size, Repeating, Transfers, Searches, Inputs, Outputs
<1>2. start.BC \in Word /\ n \in 0 .. (W * W)
  <2>1. Size \in 1 .. (W * W) /\ W * W \in Nat
    BY SizeRange, WordsNumber
  <2>2. \A k, top \in Nat : k \in 1 .. top => \A j \in 0 .. k : j \in 0 .. top
    OBVIOUS
  <2>3. QED BY <2>1, <2>2, SetupType
<1>3. Plus(start.BC, -n) = IF n <= start.BC THEN start.BC - n
                           ELSE start.BC - n + W * W
  BY <1>2, CountDown
<1> DEFINE size == W * W
           b == start.BC
<1>4. size \in Nat /\ b \in 0 .. (size - 1) /\ n \in 0 .. size
  BY <1>2, WordsNumber DEF Word
<1>5. Wrapped(b, size) = IF b = 0 THEN size ELSE b
  BY DEF Wrapped
<1> HIDE DEF size, b
<1>6. (IF n <= b THEN b - n ELSE b - n + size) = 0 <=> n = IF b = 0 THEN size ELSE b
  BY <1>4
<1>7. QED BY <1>1, <1>3, <1>5, <1>6 DEF size, b

\* BC one iteration later.
LEMMA CountStep ==
  ASSUME start \in Setups, NEW n \in Nat
  PROVE  Plus(Plus(start.BC, -n), -1) = Plus(start.BC, -(n + 1))
<1>1. start.BC \in Int
  BY SetupType, WordInt
<1>2. \A i, j, k \in Int :
        i + j = k => Plus(Plus(start.BC, i), j) = Plus(start.BC, k)
  BY <1>1, PlusSum
<1> DEFINE i == -n
           j == -1
           k == -(n + 1)
<1>3. i \in Int /\ j \in Int /\ k \in Int /\ i + j = k
  OBVIOUS
<1> HIDE DEF i, j, k
<1>4. Plus(Plus(start.BC, i), j) = Plus(start.BC, k)
  BY <1>2, <1>3
<1>5. QED BY <1>4 DEF i, j, k

\* A push reaches the stack area and nothing else.
LEMMA PushReaches ==
  ASSUME TypeOK, PlaceInv, Interrupt, NEW a \in Word, a \notin StackArea
  PROVE  mem'[a] = mem[a]
<1>1. SP = start.SP /\ mem' = Push(mem, SP, PC) /\ mem \in [Word -> Byte]
  BY DEF Interrupt, PlaceInv, TypeOK
<1>2. a # Plus(SP, -1) /\ a # Plus(SP, -2)
  BY <1>1 DEF StackArea
<1>3. QED BY <1>1, <1>2 DEF Push

\* All that happens between two iterations.
LEMMA Interlude ==
  ASSUME TypeOK, PlaceInv, Interrupt \/ Return \/ UNCHANGED vars
  PROVE  /\ start' = start /\ pairs' = pairs /\ flags' = flags /\ io' = io
         /\ Place' = Place
         /\ taken' = 0 => taken = 0
         /\ \A a \in Word : taken' = 0 \/ a \notin StackArea => mem'[a] = mem[a]
<1>1. CASE Interrupt
  <2>1. taken' # 0
    BY <1>1 DEF Interrupt, TypeOK
  <2>2. QED BY <1>1, <2>1, PlaceKept, PushReaches DEF Interrupt
<1>2. CASE Return
  BY <1>2, PlaceKept DEF Return
<1>3. CASE UNCHANGED vars
  BY <1>3 DEF vars, Place
<1>4. QED BY <1>1, <1>2, <1>3

\* Every operation starts at its opcode, with at least one byte to go.
LEMMA Starts ==
  ASSUME Init
  PROVE  /\ start \in Setups /\ Size \in Nat /\ 0 < Size
         /\ Place = start.PC /\ Place # Over
         /\ BC = Plus(start.BC, -0) /\ HL = Source(0) /\ DE = Target(0)
<1>1. start \in Setups
  BY DEF Init
<1>2. Size \in Nat /\ 0 < Size
  <2> DEFINE size == W * W
  <2>1. size \in Nat /\ Size \in 1 .. size
    BY <1>1, SizeRange, WordsNumber
  <2> HIDE DEF size
  <2>2. QED BY <2>1
<1>3. BC = Plus(start.BC, -0)
  <2>1. start.BC \in Word
    BY <1>1, SetupType
  <2>2. start.BC + (-0) = start.BC + 0
    BY <2>1, WordInt
  <2>3. QED BY <2>1, <2>2, PlusZero DEF Init, Plus
<1>4. Place = start.PC /\ Place # Over
  BY <1>1, OverElsewhere DEF Init, Place
<1>5. HL = Source(0) /\ DE = Target(0)
  BY <1>1, Addresses DEF Init
<1>6. QED BY <1>1, <1>2, <1>3, <1>4, <1>5

-----------------------------------------------------------------------------
(* Searches.                                                               *)

NoMatch(n) == \A i \in 0 .. (n - 1) : start.mem[Source(i)] # start.A

\* n bytes have been compared.
Searched(n) ==
  /\ HL = Source(n) /\ BC = Plus(start.BC, -n)
  /\ \A a \in Word : taken = 0 \/ a \notin StackArea => mem[a] = start.mem[a]
  /\ Place = start.PC => n < Size /\ NoMatch(n)
  /\ Place = Over => /\ n >= 1 /\ NoMatch(n - 1)
                     /\ zero = (start.mem[Source(n - 1)] = start.A)
                     /\ zero \/ n = Size
                     /\ parity = (BC # 0)

SearchInv ==
  start.op \in Searches /\ Undisturbed => \E n \in 0 .. Size : Searched(n)

LEMMA SearchInit == Init => SearchInv
<1> SUFFICES ASSUME Init, start.op \in Searches
             PROVE  \E n \in 0 .. Size : Searched(n)
  BY DEF SearchInv
<1>1. NoMatch(0)
  BY DEF NoMatch
<1>2. Searched(0)
  BY <1>1, Starts DEF Searched, Init
<1>3. 0 \in 0 .. Size
  BY Starts
<1>4. QED BY <1>2, <1>3

LEMMA SearchIterate ==
  ASSUME TypeOK, PlaceInv, SearchInv, Iterate
  PROVE  SearchInv'
<1> SUFFICES ASSUME start.op \in Searches, Undisturbed
             PROVE  \E n \in 0 .. Size : Searched(n)'
  <2>1. start' = start /\ taken' = taken
    BY DEF Iterate
  <2>2. Size' = Size /\ Undisturbed' = Undisturbed
    BY <2>1, Fixed DEF Undisturbed
  <2>3. QED BY <2>1, <2>2 DEF SearchInv
<1>1. /\ start' = start /\ taken' = taken /\ start \in Setups
      /\ BC \in Word /\ mem \in [Word -> Byte]
  BY DEF Iterate, TypeOK
<1>2. Compare
  BY DEF Iterate, Transfer, Input, Output, Transfers, Searches, Inputs, Outputs
<1>3. Place = start.PC
  BY IterateMoves
<1>4. PICK n \in 0 .. Size : Searched(n)
  BY DEF SearchInv
<1>5. n < Size /\ NoMatch(n) /\ n \in Nat /\ Size \in Nat
  <2> DEFINE size == W * W
  <2>1. size \in Nat /\ Size \in 1 .. size
    BY <1>1, SizeRange, WordsNumber
  <2> HIDE DEF size
  <2>2. QED BY <1>3, <1>4, <2>1 DEF Searched
<1>6. HL' = Source(n + 1) /\ BC' = Plus(start.BC, -(n + 1)) /\ mem' = mem
  <2>1. HL = Source(n) /\ BC = Plus(start.BC, -n)
    BY <1>4 DEF Searched
  <2>2. HL' = Plus(HL, Dir) /\ BC' = Plus(BC, -1) /\ mem' = mem
    BY <1>2 DEF Compare
  <2>3. Plus(Source(n), Dir) = Source(n + 1)
    BY <1>1, <1>5, Addresses
  <2>4. QED BY <1>1, <1>5, <2>1, <2>2, <2>3, CountStep
<1>7. zero' = (start.mem[Source(n)] = start.A) /\ parity' = (BC' # 0)
  <2>1. mem[Source(n)] = start.mem[Source(n)]
    <3>1. Source(n) \in Word
      BY <1>1, <1>5, Addresses
    <3>2. taken = 0 \/ Source(n) \notin StackArea
      BY <1>5 DEF Undisturbed
    <3>3. QED BY <1>4, <3>1, <3>2 DEF Searched
  <2>2. QED BY <1>2, <1>4, <2>1 DEF Compare, Searched
<1>8. Place' = start.PC => n + 1 < Size /\ NoMatch(n + 1)
  <2> SUFFICES ASSUME Place' = start.PC
               PROVE  n + 1 < Size /\ NoMatch(n + 1)
    OBVIOUS
  <2>1. Repeats
    BY <1>1, IterateMoves, OverElsewhere
  <2>2. start.op \in {"cpir", "cpdr"} /\ ~zero' /\ BC' # 0
    BY <2>1 DEF Repeats, Searches, Repeating
  <2>3. n + 1 # Size
    <3>1. n + 1 \in 0 .. Size /\ n + 1 > 0 /\ start.op \in Repeating
      BY <1>5, <2>2 DEF Repeating
    <3>2. QED BY <1>1, <1>6, <2>2, <3>1, CountEnds
  <2>4. NoMatch(n + 1)
    <3>1. ~(start.mem[Source(n)] = start.A)
      BY <1>7, <2>2
    <3>2. \A i \in 0 .. ((n + 1) - 1) : i = n \/ i \in 0 .. (n - 1)
      BY <1>5
    <3>3. QED BY <1>5, <3>1, <3>2 DEF NoMatch
  <2>5. QED BY <1>5, <2>3, <2>4
<1>9. Place' = Over =>
        /\ n + 1 >= 1 /\ NoMatch(n)
        /\ zero' = (start.mem[Source(n)] = start.A)
        /\ zero' \/ n + 1 = Size
        /\ parity' = (BC' # 0)
  <2> SUFFICES ASSUME Place' = Over, ~zero' PROVE n + 1 = Size
    BY <1>5, <1>7
  <2>1. ~Repeats
    BY <1>1, IterateMoves, OverElsewhere
  <2>2. CASE start.op \in {"cpir", "cpdr"}
    <3>1. BC' = 0
      BY <2>1, <2>2 DEF Repeats
    <3>2. n + 1 \in 0 .. Size /\ n + 1 > 0 /\ start.op \in Repeating
      BY <1>5, <2>2 DEF Repeating
    <3>3. QED BY <1>1, <1>6, <3>1, <3>2, CountEnds
  <2>3. CASE start.op \notin {"cpir", "cpdr"}
    <3>1. start.op \notin Repeating
      BY <2>3 DEF Searches, Repeating
    <3>2. Size = 1
      BY <3>1 DEF Size
    <3>3. QED BY <1>5, <3>2
  <2>4. QED BY <2>2, <2>3
<1>10. Searched(n + 1)'
  <2>1. \A i : Source(i)' = Source(i)
    BY <1>1, Fixed
  <2>2. NoMatch(n + 1)' = NoMatch(n + 1) /\ NoMatch(n)' = NoMatch(n)
    BY <1>1, <2>1 DEF NoMatch
  <2>3. (n + 1) - 1 = n
    BY <1>5
  <2>4. /\ HL' = Source(n + 1)' /\ BC' = Plus(start'.BC, -(n + 1))
        /\ \A a \in Word : taken' = 0 \/ a \notin StackArea'
                             => mem'[a] = start'.mem[a]
    BY <1>1, <1>4, <1>6, <2>1, Fixed DEF Searched
  <2>5. Place' = start'.PC => n + 1 < Size' /\ NoMatch(n + 1)'
    BY <1>1, <1>8, <2>2, Fixed
  <2>6. Place' = Over' =>
          /\ n + 1 >= 1 /\ NoMatch((n + 1) - 1)'
          /\ zero' = (start'.mem[Source((n + 1) - 1)'] = start'.A)
          /\ zero' \/ n + 1 = Size'
          /\ parity' = (BC' # 0)
    BY <1>1, <1>9, <2>1, <2>2, <2>3, Fixed
  <2>7. QED BY <2>4, <2>5, <2>6 DEF Searched
<1>11. n + 1 \in 0 .. Size
  BY <1>5
<1>12. QED BY <1>10, <1>11

LEMMA SearchNext == TypeOK /\ PlaceInv /\ SearchInv /\ [Next]_vars => SearchInv'
<1> SUFFICES ASSUME TypeOK, PlaceInv, SearchInv, [Next]_vars PROVE SearchInv'
  OBVIOUS
<1>1. CASE Iterate
  BY <1>1, SearchIterate
<1>2. CASE Interrupt \/ Return \/ UNCHANGED vars
  <2>1. /\ start' = start /\ pairs' = pairs /\ flags' = flags
        /\ Place' = Place
        /\ taken' = 0 => taken = 0
        /\ \A a \in Word : taken' = 0 \/ a \notin StackArea => mem'[a] = mem[a]
    BY <1>2, Interlude
  <2>2. SUFFICES ASSUME start.op \in Searches, Undisturbed'
                 PROVE  \E n \in 0 .. Size : Searched(n)'
    BY <2>1, Fixed DEF SearchInv
  <2>3. Undisturbed
    BY <2>1, <2>2, Fixed DEF Undisturbed
  <2>4. PICK n \in 0 .. Size : Searched(n)
    BY <2>2, <2>3 DEF SearchInv
  <2>5. NoMatch(n)' = NoMatch(n) /\ NoMatch(n - 1)' = NoMatch(n - 1)
    BY <2>1, Fixed DEF NoMatch
  <2>6. \A a \in Word : taken' = 0 \/ a \notin StackArea => mem'[a] = start.mem[a]
    BY <2>1, <2>4 DEF Searched
  <2>7. Searched(n)'
    BY <2>1, <2>4, <2>5, <2>6, Fixed DEF Searched, pairs, flags
  <2>8. QED BY <2>4, <2>7
<1>3. QED BY <1>1, <1>2 DEF Next

\* CPI, CPIR and their kin find the first match, or go through the block, for
\* every count, block and number of interrupts that push beside it.
THEOREM SearchesFind == Spec => []Found
<1>1. TypeOK /\ PlaceInv /\ SearchInv => Found
  <2> SUFFICES ASSUME TypeOK, PlaceInv, SearchInv,
                      Done, Undisturbed, start.op \in Searches
               PROVE  Found
    BY DEF Found
  <2>1. Place = Over /\ Place = PC /\ start \in Setups
    BY DEF Done, Place, Over, TypeOK
  <2>2. PICK n \in 0 .. Size : Searched(n)
    BY DEF SearchInv
  <2>3. /\ HL = Source(n) /\ BC = Plus(start.BC, -n)
        /\ n >= 1 /\ NoMatch(n - 1)
        /\ zero = (start.mem[Source(n - 1)] = start.A)
        /\ zero \/ n = Size
        /\ parity = (BC # 0)
        /\ \A a \in Word : taken = 0 \/ a \notin StackArea => mem[a] = start.mem[a]
    BY <2>1, <2>2 DEF Searched
  <2>4. n \in Nat /\ Size \in Nat /\ n <= Size
    <3> DEFINE size == W * W
    <3>1. size \in Nat /\ Size \in 1 .. size
      BY <2>1, SizeRange, WordsNumber
    <3> HIDE DEF size
    <3>2. QED BY <2>2, <3>1
  <2>5. Outside({})
    BY <2>3 DEF Outside
  <2>6. CASE zero
    <3>1. n - 1 \in Matches
      <4>1. n - 1 \in 0 .. (Size - 1)
        BY <2>3, <2>4
      <4>2. QED BY <2>3, <2>6, <4>1 DEF Matches
    <3>2. \A j \in Matches : n - 1 <= j
      <4>1. \A j \in Matches : j \in Nat /\ j \notin 0 .. ((n - 1) - 1)
        BY <2>3, <2>4 DEF Matches, NoMatch
      <4>2. QED BY <2>3, <2>4, <4>1
    <3> DEFINE first == CHOOSE i \in Matches : \A j \in Matches : i <= j
    <3>3. first \in Matches /\ \A j \in Matches : first <= j
      BY <3>1, <3>2
    <3>4. first = n - 1
      <4> HIDE DEF first
      <4>1. first <= n - 1 /\ n - 1 <= first /\ first \in Int
        BY <3>1, <3>2, <3>3 DEF Matches
      <4>2. QED BY <2>4, <4>1
    <3>5. Matches # {} /\ 1 + first = n
      <4> HIDE DEF first
      <4>1. QED BY <2>4, <3>1, <3>4
    <3> DEFINE searched == IF Matches = {} THEN Size ELSE 1 + first
    <3>6. searched = n
      <4> HIDE DEF first
      <4>1. QED BY <3>5
    <3>7. /\ HL = Source(searched) /\ BC = Plus(start.BC, -searched)
          /\ zero = (Matches # {}) /\ parity = (BC # 0) /\ Outside({})
      <4> HIDE DEF searched
      <4>1. QED BY <2>3, <2>5, <2>6, <3>5, <3>6
    <3>8. QED BY <3>7 DEF Found
  <2>7. CASE ~zero
    <3>1. n = Size
      BY <2>3, <2>7
    <3>2. Matches = {}
      <4>1. \A i \in 0 .. (Size - 1) : i \in 0 .. ((n - 1) - 1) \/ i = n - 1
        BY <2>4, <3>1
      <4>2. QED BY <2>3, <2>7, <4>1 DEF Matches, NoMatch
    <3>3. QED BY <2>3, <2>5, <2>7, <3>1, <3>2 DEF Found
  <2>8. zero \in BOOLEAN
    BY DEF TypeOK
  <2>9. QED BY <2>6, <2>7, <2>8
<1>2. QED BY <1>1, TypeInit, TypeNext, PlaceInit, PlaceNext, SearchInit,
             SearchNext, PTL DEF Spec

-----------------------------------------------------------------------------
(* Transfers.                                                              *)

\* Which byte of the source arrives at the i-th byte of the target.
Origin(i) == IF Lead \in 1 .. (Size - 1) THEN i % Lead ELSE i

\* n bytes have been copied, and nothing else has been written.
Moved(n) ==
  /\ HL = Source(n) /\ DE = Target(n) /\ BC = Plus(start.BC, -n)
  /\ \A i \in 0 .. (n - 1) : mem[Target(i)] = start.mem[Source(Origin(i))]
  /\ \A a \in Word :
       (taken = 0 \/ a \notin StackArea) /\ (\A i \in 0 .. (n - 1) : a # Target(i))
         => mem[a] = start.mem[a]
  /\ Place = start.PC => n < Size
  /\ Place = Over => n = Size /\ parity = (BC # 0)

TransferInv ==
  start.op \in Transfers /\ Undisturbed => \E n \in 0 .. Size : Moved(n)

LEMMA WrittenTargets ==
  start.op \in Transfers => Written = {Target(i) : i \in 0 .. (Size - 1)}
<1>1. start.op \in Transfers => start.op \notin Inputs
  BY DEF Transfers, Inputs
<1>2. QED BY <1>1 DEF Written

\* A byte is read where it has always been, or where an earlier iteration has
\* put a copy of it.
LEMMA Overlap ==
  ASSUME start \in Setups, NEW n \in Nat, n < Size
  PROVE  \/ /\ Origin(n) = n
            /\ \A j \in 0 .. (n - 1) : Source(n) # Target(j)
         \/ \E j \in 0 .. (n - 1) : /\ Source(n) = Target(j)
                                    /\ Origin(n) = Origin(j)
<1> DEFINE top == W * W
<1>1. /\ top \in Nat /\ Size \in 1 .. top /\ Size \in Nat
      /\ Lead \in 0 .. (top - 1) /\ Lead \in Nat
  <2>1. top \in Nat /\ Size \in 1 .. top /\ Lead \in 0 .. (top - 1)
    BY SizeRange, WordsNumber, TargetIsSource
  <2> HIDE DEF top
  <2>2. QED BY <2>1
<1>2. CASE Lead \in 1 .. (Size - 1) /\ n >= Lead
  <2> DEFINE j == n - Lead
  <2>1. j \in 0 .. (n - 1) /\ j \in Int /\ j + Lead = n /\ j \in Nat
    BY <1>1, <1>2
  <2>2. Source(n) = Target(j)
    <3> HIDE DEF j
    <3>1. Target(j) = Source(j + Lead)
      BY <2>1, TargetIsSource
    <3>2. QED BY <2>1, <3>1
  <2>3. n % Lead = j % Lead
    <3> DEFINE one == 1
    <3>1. Lead \in Nat /\ Lead > 0 /\ j + Lead * one = n /\ one \in Int
      BY <1>2, <2>1
    <3> HIDE DEF j, one
    <3>2. (j + Lead * one) % Lead = j % Lead
      BY <2>1, <3>1, ModMultiple
    <3>3. QED BY <3>1, <3>2
  <2>4. Origin(n) = Origin(j)
    BY <1>2, <2>3 DEF Origin
  <2>5. QED BY <2>1, <2>2, <2>4
<1>3. CASE ~(Lead \in 1 .. (Size - 1) /\ n >= Lead)
  <2>1. Origin(n) = n
    <3>1. CASE Lead \in 1 .. (Size - 1)
      <4>1. n \in 0 .. (Lead - 1)
        BY <1>1, <1>3, <3>1
      <4>2. n % Lead = n
        BY <1>1, <3>1, <4>1
      <4>3. QED BY <3>1, <4>2 DEF Origin
    <3>2. CASE Lead \notin 1 .. (Size - 1)
      BY <3>2 DEF Origin
    <3>3. QED BY <3>1, <3>2
  <2>2. ASSUME NEW j \in 0 .. (n - 1) PROVE Source(n) # Target(j)
    <3> DEFINE k == j + Lead
    <3>1. k \in Int /\ n \in Int /\ Target(j) = Source(k)
      BY <1>1, TargetIsSource
    <3>2. n - k \in 1 .. (top - 1) \/ k - n \in 1 .. (top - 1)
      <4> HIDE DEF top
      <4>1. k # n /\ j <= n - 1 /\ j >= 0 /\ Lead <= top - 1 /\ n <= top - 1
        BY <1>1, <1>3
      <4>2. n - k <= top - 1 /\ k - n <= top - 1
        BY <1>1, <4>1
      <4>3. QED BY <1>1, <3>1, <4>1, <4>2
    <3>3. Source(n) # Source(k)
      <4> HIDE DEF k
      <4>1. QED BY <3>1, <3>2, AddressesDiffer
    <3>4. QED BY <3>1, <3>3
  <2>3. QED BY <2>1, <2>2
<1>4. QED BY <1>2, <1>3

LEMMA TransferInit == Init => TransferInv
<1> SUFFICES ASSUME Init PROVE \E n \in 0 .. Size : Moved(n)
  BY DEF TransferInv
<1>1. Moved(0)
  <2>1. 0 .. (0 - 1) = {}
    OBVIOUS
  <2>2. mem = start.mem
    BY DEF Init
  <2>3. QED BY Starts, <2>1, <2>2 DEF Moved
<1>2. 0 \in 0 .. Size
  BY Starts
<1>3. QED BY <1>1, <1>2

LEMMA TransferIterate ==
  ASSUME TypeOK, PlaceInv, TransferInv, Iterate
  PROVE  TransferInv'
<1> SUFFICES ASSUME start.op \in Transfers, Undisturbed
             PROVE  \E n \in 0 .. Size : Moved(n)'
  <2>1. start' = start /\ taken' = taken
    BY DEF Iterate
  <2>2. Size' = Size /\ Undisturbed' = Undisturbed
    BY <2>1, Fixed DEF Undisturbed
  <2>3. QED BY <2>1, <2>2 DEF TransferInv
<1>1. /\ start' = start /\ taken' = taken /\ start \in Setups
      /\ BC \in Word /\ mem \in [Word -> Byte]
  BY DEF Iterate, TypeOK
<1>2. Transfer
  BY DEF Iterate, Compare, Input, Output, Transfers, Searches, Inputs, Outputs
<1>3. Place = start.PC
  BY IterateMoves
<1>4. PICK n \in 0 .. Size : Moved(n)
  BY DEF TransferInv
<1>5. n < Size /\ n \in Nat /\ Size \in Nat /\ Size <= W * W
  <2> DEFINE size == W * W
  <2>1. size \in Nat /\ Size \in 1 .. size
    BY <1>1, SizeRange, WordsNumber
  <2> HIDE DEF size
  <2>2. n < Size /\ n \in Nat /\ Size \in Nat /\ Size <= size
    BY <1>3, <1>4, <2>1 DEF Moved
  <2>3. QED BY <2>2 DEF size
<1>6. /\ HL = Source(n) /\ DE = Target(n) /\ BC = Plus(start.BC, -n)
      /\ Source(n) \in Word /\ Target(n) \in Word
  BY <1>1, <1>4, <1>5, Addresses DEF Moved
<1>7. /\ HL' = Source(n + 1) /\ DE' = Target(n + 1)
      /\ BC' = Plus(start.BC, -(n + 1))
      /\ parity' = (BC' # 0)
  BY <1>1, <1>2, <1>5, <1>6, Addresses, CountStep DEF Transfer
<1>8. mem' = [mem EXCEPT ![Target(n)] = mem[Source(n)]]
  BY <1>2, <1>6 DEF Transfer
<1>9. mem[Source(n)] = start.mem[Source(Origin(n))]
  <2>1. CASE Origin(n) = n /\ \A j \in 0 .. (n - 1) : Source(n) # Target(j)
    <3>1. taken = 0 \/ Source(n) \notin StackArea
      BY <1>5 DEF Undisturbed
    <3>2. QED BY <1>4, <1>6, <2>1, <3>1 DEF Moved
  <2>2. ASSUME NEW j \in 0 .. (n - 1), Source(n) = Target(j), Origin(n) = Origin(j)
        PROVE  mem[Source(n)] = start.mem[Source(Origin(n))]
    BY <1>4, <2>2 DEF Moved
  <2>3. QED BY <1>1, <1>5, <2>1, <2>2, Overlap
<1>10. ASSUME NEW i \in 0 .. ((n + 1) - 1)
       PROVE  mem'[Target(i)] = start.mem[Source(Origin(i))]
  <2>1. CASE i = n
    BY <1>1, <1>6, <1>8, <1>9, <2>1
  <2>2. CASE i # n
    <3>1. i \in 0 .. (n - 1) /\ i \in Int /\ n \in Int
      BY <1>5, <2>2
    <3>2. n - i \in 1 .. (W * W - 1)
      <4> DEFINE size == W * W
      <4>1. size \in Nat /\ n < size
        <5>1. size \in Nat /\ Size <= size
          BY <1>5, WordsNumber
        <5> HIDE DEF size
        <5>2. QED BY <1>5, <5>1
      <4> HIDE DEF size
      <4>2. n - i \in 1 .. (size - 1)
        BY <1>5, <3>1, <4>1
      <4>3. QED BY <4>2 DEF size
    <3>3. Target(i) # Target(n) /\ Target(i) \in Word
      BY <1>1, <3>1, <3>2, AddressesDiffer, Addresses
    <3>4. mem[Target(i)] = start.mem[Source(Origin(i))]
      BY <1>4, <3>1 DEF Moved
    <3>5. QED BY <1>1, <1>6, <1>8, <3>3, <3>4
  <2>3. QED BY <2>1, <2>2
<1>11. ASSUME NEW a \in Word, taken = 0 \/ a \notin StackArea,
              \A i \in 0 .. ((n + 1) - 1) : a # Target(i)
       PROVE  mem'[a] = start.mem[a]
  <2>1. a # Target(n) /\ \A i \in 0 .. (n - 1) : a # Target(i)
    <3>1. n \in 0 .. ((n + 1) - 1) /\ \A i \in 0 .. (n - 1) : i \in 0 .. ((n + 1) - 1)
      BY <1>5
    <3>2. QED BY <1>11, <3>1
  <2>2. mem[a] = start.mem[a]
    BY <1>4, <1>11, <2>1 DEF Moved
  <2>3. QED BY <1>1, <1>6, <1>8, <2>1, <2>2
<1>12. Place' = start.PC => n + 1 < Size
  <2> SUFFICES ASSUME Place' = start.PC PROVE n + 1 # Size
    BY <1>5
  <2>1. Repeats
    BY <1>1, IterateMoves, OverElsewhere
  <2>2. start.op \in {"ldir", "lddr"} /\ BC' # 0
    BY <2>1 DEF Repeats, Transfers, Repeating
  <2>3. n + 1 \in 0 .. Size /\ n + 1 > 0 /\ start.op \in Repeating
    BY <1>5, <2>2 DEF Repeating
  <2>4. QED BY <1>1, <1>7, <2>2, <2>3, CountEnds
<1>13. Place' = Over => n + 1 = Size /\ parity' = (BC' # 0)
  <2> SUFFICES ASSUME Place' = Over PROVE n + 1 = Size
    BY <1>7
  <2>1. ~Repeats
    BY <1>1, IterateMoves, OverElsewhere
  <2>2. CASE start.op \in {"ldir", "lddr"}
    <3>1. BC' = 0
      BY <2>1, <2>2 DEF Repeats
    <3>2. n + 1 \in 0 .. Size /\ n + 1 > 0 /\ start.op \in Repeating
      BY <1>5, <2>2 DEF Repeating
    <3>3. QED BY <1>1, <1>7, <3>1, <3>2, CountEnds
  <2>3. CASE start.op \notin {"ldir", "lddr"}
    <3>1. start.op \notin Repeating
      BY <2>3 DEF Transfers, Repeating
    <3>2. Size = 1
      BY <3>1 DEF Size
    <3>3. QED BY <1>5, <3>2
  <2>4. QED BY <2>2, <2>3
<1>14. Moved(n + 1)'
  <2>1. /\ Size' = Size /\ Over' = Over /\ StackArea' = StackArea
        /\ \A i : Source(i)' = Source(i) /\ Target(i)' = Target(i)
    BY <1>1, Fixed
  <2>2. \A i : Origin(i)' = Origin(i)
    BY <1>1, <2>1, Fixed DEF Origin
  <2>3. QED BY <1>1, <1>7, <1>10, <1>11, <1>12, <1>13, <2>1, <2>2 DEF Moved
<1>15. n + 1 \in 0 .. Size
  BY <1>5
<1>16. QED BY <1>14, <1>15

LEMMA TransferNext ==
  TypeOK /\ PlaceInv /\ TransferInv /\ [Next]_vars => TransferInv'
<1> SUFFICES ASSUME TypeOK, PlaceInv, TransferInv, [Next]_vars
             PROVE  TransferInv'
  OBVIOUS
<1>1. CASE Iterate
  BY <1>1, TransferIterate
<1>2. CASE Interrupt \/ Return \/ UNCHANGED vars
  <2>1. /\ start' = start /\ pairs' = pairs /\ flags' = flags
        /\ Place' = Place
        /\ taken' = 0 => taken = 0
        /\ \A a \in Word : taken' = 0 \/ a \notin StackArea => mem'[a] = mem[a]
    BY <1>2, Interlude
  <2>2. SUFFICES ASSUME start.op \in Transfers, Undisturbed'
                 PROVE  \E n \in 0 .. Size : Moved(n)'
    BY <2>1, Fixed DEF TransferInv
  <2>3. Undisturbed /\ (taken' = 0 \/ StackArea \cap Written = {})
    BY <2>1, <2>2, Fixed DEF Undisturbed
  <2>4. PICK n \in 0 .. Size : Moved(n)
    BY <2>2, <2>3 DEF TransferInv
  <2>5. start \in Setups /\ Size \in Nat
    <3> DEFINE size == W * W
    <3>1. start \in Setups /\ size \in Nat /\ Size \in 1 .. size
      BY SizeRange, WordsNumber DEF TypeOK
    <3> HIDE DEF size
    <3>2. QED BY <3>1
  <2>6. ASSUME NEW i \in 0 .. (n - 1)
        PROVE  mem'[Target(i)] = start.mem[Source(Origin(i))]
    <3>1. i \in 0 .. (Size - 1) /\ i \in Int
      BY <2>5
    <3>2. Target(i) \in Word /\ Target(i) \in Written
      BY <2>2, <2>5, <3>1, Addresses, WrittenTargets
    <3>3. mem'[Target(i)] = mem[Target(i)]
      BY <2>1, <2>3, <3>2
    <3>4. QED BY <2>4, <3>3 DEF Moved
  <2>7. /\ Size' = Size /\ Over' = Over /\ StackArea' = StackArea
        /\ \A i : Source(i)' = Source(i) /\ Target(i)' = Target(i)
    BY <2>1, Fixed
  <2>8. \A i : Origin(i)' = Origin(i)
    BY <2>1, <2>7, Fixed DEF Origin
  <2>9. \A a \in Word :
          (taken' = 0 \/ a \notin StackArea) /\ (\A i \in 0 .. (n - 1) : a # Target(i))
            => mem'[a] = start.mem[a]
    BY <2>1, <2>4 DEF Moved
  <2>10. Moved(n)'
    BY <2>1, <2>4, <2>6, <2>7, <2>8, <2>9 DEF Moved, pairs, flags
  <2>11. QED BY <2>4, <2>10
<1>3. QED BY <1>1, <1>2 DEF Next

\* LDI, LDIR and their kin copy the block, or repeat its head through a target
\* that overlaps it from ahead, for every count, block and number of
\* interrupts that push beside it.
THEOREM TransfersCopy == Spec => []Copied
<1>1. TypeOK /\ PlaceInv /\ TransferInv => Copied
  <2> SUFFICES ASSUME TypeOK, PlaceInv, TransferInv,
                      Done, Undisturbed, start.op \in Transfers
               PROVE  Copied
    BY DEF Copied
  <2>1. Place = Over
    BY DEF Done, Place, Over
  <2>2. PICK n \in 0 .. Size : Moved(n)
    BY DEF TransferInv
  <2>3. Moved(Size) /\ parity = (BC # 0)
    BY <2>1, <2>2 DEF Moved
  <2>4. Outside(Written)
    <3>1. Written = {Target(i) : i \in 0 .. (Size - 1)}
      BY WrittenTargets
    <3>2. QED BY <2>3, <3>1 DEF Moved, Outside
  <2>5. QED BY <2>3, <2>4 DEF Moved, Copied, Origin
<1>2. QED BY <1>1, TypeInit, TypeNext, PlaceInit, PlaceNext, TransferInit,
             TransferNext, PTL DEF Spec

-----------------------------------------------------------------------------
(* Input and output.                                                       *)

Exchanges == Inputs \cup Outputs

\* B after n iterations.
Counted(n) == (Hi(start.BC) - n) % W

\* n bytes have gone through the port.
Passed(n) ==
  /\ HL = Source(n) /\ BC = WordOf(Lo(start.BC), Counted(n))
  /\ Len(io) = n
  /\ \A i \in 0 .. (n - 1) :
       /\ io[i + 1].port = WordOf(Lo(start.BC), PortB(i))
       /\ io[i + 1].val = mem[Source(i)]
  /\ Outside(Written)
  /\ Place = start.PC => n < Size
  /\ Place = Over => n = Size /\ zero = (Hi(BC) = 0)

ExchangeInv ==
  start.op \in Exchanges /\ Undisturbed => \E n \in 0 .. Size : Passed(n)

\* B counts down from its first value, a value of zero standing for W.
LEMMA CountedDown ==
  ASSUME start \in Setups, NEW n \in Nat
  PROVE  /\ Counted(n) \in Byte /\ Lo(start.BC) \in Byte
         /\ (Counted(n) - 1) % W = Counted(n + 1)
         /\ Counted(0) = Hi(start.BC)
         /\ n \in 1 .. W => (Counted(n) = 0 <=> n = Wrapped(Hi(start.BC), W))
<1> DEFINE b == Hi(start.BC)
<1>1. Lo(start.BC) \in Byte /\ b \in 0 .. (W - 1) /\ W \in Nat /\ W >= 2
  BY SetupType, SplitWord, WidthAssumption DEF Byte
<1> HIDE DEF b
<1>2. \A k \in Int : (b - k) % W \in 0 .. (W - 1)
  BY <1>1
<1>3. (((b - n) % W) + (-1)) % W = (b - (n + 1)) % W
  <2> DEFINE y == b - n
             down == -1
  <2>1. y \in Int /\ down \in Int /\ y + down = b - (n + 1)
    BY <1>1
  <2> HIDE DEF y, down
  <2>2. ((y % W) + down) % W = (y + down) % W
    <3>1. W \in Nat /\ W > 0
      BY <1>1
    <3>2. QED BY <2>1, <3>1, ModPlus
  <2>3. ((y % W) + down) % W = (b - (n + 1)) % W
    BY <2>1, <2>2
  <2>4. QED BY <2>3 DEF y, down
<1>4. ((b - n) % W) - 1 = ((b - n) % W) + (-1)
  BY <1>1, <1>2
<1>5. (b - 0) % W = b
  BY <1>1
<1>6. n \in 1 .. W => ((b - n) % W = 0 <=> n = IF b = 0 THEN W ELSE b)
  <2> SUFFICES ASSUME n \in 1 .. W
               PROVE  (b - n) % W = 0 <=> n = IF b = 0 THEN W ELSE b
    OBVIOUS
  <2>1. (b - n) % W = IF n <= b THEN b - n ELSE b - n + W
    BY <1>1
  <2>2. QED BY <1>1, <2>1
<1>7. QED BY <1>1, <1>2, <1>3, <1>4, <1>5, <1>6 DEF Counted, Wrapped, Byte, b

LEMMA ExchangeInit == Init => ExchangeInv
<1> SUFFICES ASSUME Init PROVE \E n \in 0 .. Size : Passed(n)
  BY DEF ExchangeInv
<1>1. BC = WordOf(Lo(start.BC), Counted(0))
  <2>1. start.BC \in Word /\ start \in Setups /\ 0 \in Nat
    BY SetupType DEF Init
  <2>2. Counted(0) = Hi(start.BC)
    BY <2>1, CountedDown
  <2>3. QED BY <2>1, <2>2, SplitWord DEF Init
<1>2. 0 .. (0 - 1) = {} /\ Len(<<>>) = 0
  OBVIOUS
<1>3. Outside(Written)
  BY DEF Init, Outside
<1>4. io = <<>>
  BY DEF Init
<1>5. Passed(0)
  BY <1>1, <1>2, <1>3, <1>4, Starts DEF Passed
<1>6. 0 \in 0 .. Size
  BY Starts
<1>7. QED BY <1>5, <1>6

\* One cycle of an input or output instruction.
LEMMA Cycle ==
  ASSUME TypeOK, Iterate, start.op \in Exchanges, NEW n \in Nat,
         BC = WordOf(Lo(start.BC), Counted(n))
  PROVE  /\ BC' = WordOf(Lo(start.BC), Counted(n + 1)) /\ Hi(BC') = Counted(n + 1)
         /\ HL' = Plus(HL, Dir)
         /\ zero' = (Hi(BC') = 0)
         /\ \E c \in [port : Word, val : Byte] :
              /\ io' = Append(io, c)
              /\ c.port = WordOf(Lo(start.BC), PortB(n))
              /\ c.val = mem'[HL]
         /\ \/ mem' = mem
            \/ start.op \in Inputs /\ \E v : mem' = [mem EXCEPT ![HL] = v]
<1>1. Input \/ Output
  BY DEF Iterate, Transfer, Compare, Exchanges, Transfers, Searches, Inputs, Outputs
<1>2. /\ start \in Setups /\ HL \in Word /\ BC \in Word
      /\ mem \in [Word -> Byte]
  BY DEF TypeOK
<1>3. /\ Counted(n) \in Byte /\ Counted(n + 1) \in Byte /\ Lo(start.BC) \in Byte
      /\ (Counted(n) - 1) % W = Counted(n + 1)
  <2>1. n + 1 \in Nat
    OBVIOUS
  <2>2. QED BY <1>2, <2>1, CountedDown
<1>4. Lo(BC) = Lo(start.BC) /\ Hi(BC) = Counted(n)
  BY <1>3, WordOfSplit
<1>5. DecB = WordOf(Lo(start.BC), Counted(n + 1))
  BY <1>3, <1>4 DEF DecB
<1>6. BC' = DecB /\ HL' = Plus(HL, Dir) /\ zero' = (Hi(BC') = 0)
  BY <1>1 DEF Input, Output
<1>7. Hi(BC') = Counted(n + 1)
  BY <1>3, <1>5, <1>6, WordOfSplit
<1>8. DecB \in Word
  BY <1>2, DecBWord
<1>9. CASE Input
  <2>1. start.op \in Inputs
    BY <1>9 DEF Input
  <2>2. PICK val \in PortData : /\ io' = Append(io, [port |-> BC, val |-> val])
                                /\ mem' = [mem EXCEPT ![HL] = val]
    BY <1>9 DEF Input
  <2>3. PortB(n) = Counted(n)
    BY <2>1 DEF PortB, Counted
  <2>4. val \in Byte /\ mem'[HL] = val
    BY <1>2, <2>2, BlockAssumption
  <2> DEFINE c == [port |-> BC, val |-> val]
  <2>5. c \in [port : Word, val : Byte] /\ c.port = BC /\ c.val = val
    BY <1>2, <2>4
  <2>6. \E d \in [port : Word, val : Byte] :
          /\ io' = Append(io, d)
          /\ d.port = WordOf(Lo(start.BC), PortB(n))
          /\ d.val = mem'[HL]
    BY <2>2, <2>3, <2>4, <2>5
  <2>7. QED BY <1>5, <1>6, <1>7, <2>1, <2>2, <2>6
<1>10. CASE Output
  <2>1. start.op \notin Inputs
    BY <1>10 DEF Output, Inputs, Outputs
  <2>2. io' = Append(io, [port |-> BC', val |-> mem[HL]]) /\ mem' = mem
    BY <1>10 DEF Output
  <2>3. PortB(n) = Counted(n + 1)
    BY <2>1 DEF PortB, Counted
  <2> DEFINE c == [port |-> BC', val |-> mem[HL]]
  <2>4. c \in [port : Word, val : Byte] /\ c.port = BC' /\ c.val = mem[HL]
    BY <1>2, <1>6, <1>8
  <2>5. \E d \in [port : Word, val : Byte] :
          /\ io' = Append(io, d)
          /\ d.port = WordOf(Lo(start.BC), PortB(n))
          /\ d.val = mem'[HL]
    BY <1>5, <1>6, <2>2, <2>3, <2>4
  <2>6. QED BY <1>5, <1>6, <1>7, <2>2, <2>5
<1>11. QED BY <1>1, <1>9, <1>10

LEMMA WrittenSources ==
  start.op \in Inputs => Written = {Source(i) : i \in 0 .. (Size - 1)}
<1>1. start.op \in Inputs => start.op \notin Transfers
  BY DEF Transfers, Inputs
<1>2. QED BY <1>1 DEF Written

LEMMA ExchangeIterate ==
  ASSUME TypeOK, PlaceInv, ExchangeInv, Iterate
  PROVE  ExchangeInv'
<1> SUFFICES ASSUME start.op \in Exchanges, Undisturbed
             PROVE  \E n \in 0 .. Size : Passed(n)'
  <2>1. start' = start /\ taken' = taken
    BY DEF Iterate
  <2>2. Size' = Size /\ Undisturbed' = Undisturbed
    BY <2>1, Fixed DEF Undisturbed
  <2>3. QED BY <2>1, <2>2 DEF ExchangeInv
<1>1. /\ start' = start /\ start \in Setups
      /\ mem \in [Word -> Byte] /\ io \in Seq([port : Word, val : Byte])
  BY DEF Iterate, TypeOK
<1>2. Place = start.PC
  BY IterateMoves
<1>3. PICK n \in 0 .. Size : Passed(n)
  BY DEF ExchangeInv
<1>4. n < Size /\ n \in Nat /\ Size \in 1 .. W /\ Size \in Nat /\ W \in Nat
  <2>1. Size \in 1 .. W /\ W \in Nat
    BY <1>1, SizeRange, WidthAssumption DEF Exchanges
  <2>2. QED BY <1>2, <1>3, <2>1 DEF Passed
<1>5. HL = Source(n) /\ Source(n) \in Word /\ BC = WordOf(Lo(start.BC), Counted(n))
  BY <1>1, <1>3, <1>4, Addresses DEF Passed
<1>6. /\ BC' = WordOf(Lo(start.BC), Counted(n + 1)) /\ Hi(BC') = Counted(n + 1)
      /\ HL' = Source(n + 1)
      /\ zero' = (Hi(BC') = 0)
  <2>1. /\ BC' = WordOf(Lo(start.BC), Counted(n + 1)) /\ Hi(BC') = Counted(n + 1)
        /\ HL' = Plus(HL, Dir)
        /\ zero' = (Hi(BC') = 0)
    BY <1>4, <1>5, Cycle
  <2>2. Plus(Source(n), Dir) = Source(n + 1)
    BY <1>1, <1>4, Addresses
  <2>3. QED BY <1>5, <2>1, <2>2
<1>7. PICK c \in [port : Word, val : Byte] :
        /\ io' = Append(io, c)
        /\ c.port = WordOf(Lo(start.BC), PortB(n))
        /\ c.val = mem'[Source(n)]
  BY <1>4, <1>5, Cycle
<1>8. \/ mem' = mem
      \/ start.op \in Inputs /\ \E v : mem' = [mem EXCEPT ![Source(n)] = v]
  BY <1>4, <1>5, Cycle
<1>9. /\ Len(io') = n + 1 /\ io'[n + 1] = c
      /\ \A i \in 0 .. (n - 1) : io'[i + 1] = io[i + 1]
  <2>1. Len(io) = n
    BY <1>3 DEF Passed
  <2>2. QED BY <1>1, <1>4, <1>7, <2>1
<1>10. ASSUME NEW i \in 0 .. ((n + 1) - 1)
       PROVE  /\ io'[i + 1].port = WordOf(Lo(start.BC), PortB(i))
              /\ io'[i + 1].val = mem'[Source(i)]
  <2>1. CASE i = n
    BY <1>7, <1>9, <2>1
  <2>2. CASE i # n
    <3>1. i \in 0 .. (n - 1) /\ i \in Int /\ n \in Int
      BY <1>4, <2>2
    <3>2. n - i \in 1 .. (W * W - 1)
      <4> DEFINE size == W * W
      <4>1. size \in Nat /\ n < size
        <5>1. size \in Nat /\ Size \in 1 .. size
          BY <1>1, SizeRange, WordsNumber
        <5> HIDE DEF size
        <5>2. QED BY <1>4, <5>1
      <4> HIDE DEF size
      <4>2. n - i \in 1 .. (size - 1)
        BY <1>4, <3>1, <4>1
      <4>3. QED BY <4>2 DEF size
    <3>3. Source(i) # Source(n) /\ Source(i) \in Word
      BY <1>1, <3>1, <3>2, AddressesDiffer, Addresses
    <3>4. mem'[Source(i)] = mem[Source(i)]
      BY <1>1, <1>8, <3>3
    <3>5. QED BY <1>3, <1>9, <3>1, <3>4 DEF Passed
  <2>3. QED BY <2>1, <2>2
<1>11. ASSUME NEW a \in Word \ (Written \cup StackArea)
       PROVE  mem'[a] = start.mem[a]
  <2>1. mem[a] = start.mem[a]
    BY <1>3 DEF Passed, Outside
  <2>2. start.op \in Inputs => a # Source(n)
    <3>1. n \in 0 .. (Size - 1)
      BY <1>4
    <3>2. QED BY <3>1, WrittenSources
  <2>3. QED BY <1>1, <1>8, <2>1, <2>2
<1>12. Counted(n + 1) = 0 <=> n + 1 = Wrapped(Hi(start.BC), W)
  <2>1. n + 1 \in Nat /\ n + 1 \in 1 .. W
    BY <1>4
  <2>2. QED BY <1>1, <2>1, CountedDown
<1>13. Repeats <=> n + 1 # Size
  <2>1. Repeats <=> start.op \in Repeating /\ Hi(BC') # 0
    BY DEF Repeats, Exchanges, Inputs, Outputs
  <2>2. Size = IF start.op \in Repeating THEN Wrapped(Hi(start.BC), W) ELSE 1
    BY DEF Size, Exchanges
  <2>3. QED BY <1>4, <1>6, <1>12, <2>1, <2>2
<1>14. /\ Place' = start.PC => n + 1 < Size
       /\ Place' = Over => n + 1 = Size
  <2>1. Place' = IF Repeats THEN start.PC ELSE Over
    BY IterateMoves
  <2>2. Over # start.PC
    BY <1>1, OverElsewhere
  <2>3. QED BY <1>4, <1>13, <2>1, <2>2
<1>15. Passed(n + 1)'
  <2>1. /\ Size' = Size /\ Over' = Over /\ StackArea' = StackArea
        /\ Written' = Written
        /\ \A i : Source(i)' = Source(i)
    BY <1>1, Fixed
  <2>2. Counted(n + 1)' = Counted(n + 1) /\ \A i : PortB(i)' = PortB(i)
    BY <1>1 DEF Counted, PortB
  <2>3. Outside(Written)'
    BY <1>1, <1>11, <2>1 DEF Outside
  <2>4. QED BY <1>1, <1>6, <1>9, <1>10, <1>14, <2>1, <2>2, <2>3 DEF Passed
<1>16. n + 1 \in 0 .. Size
  BY <1>4
<1>17. QED BY <1>15, <1>16

LEMMA ExchangeNext ==
  TypeOK /\ PlaceInv /\ ExchangeInv /\ [Next]_vars => ExchangeInv'
<1> SUFFICES ASSUME TypeOK, PlaceInv, ExchangeInv, [Next]_vars
             PROVE  ExchangeInv'
  OBVIOUS
<1>1. CASE Iterate
  BY <1>1, ExchangeIterate
<1>2. CASE Interrupt \/ Return \/ UNCHANGED vars
  <2>1. /\ start' = start /\ pairs' = pairs /\ flags' = flags /\ io' = io
        /\ Place' = Place
        /\ taken' = 0 => taken = 0
        /\ \A a \in Word : taken' = 0 \/ a \notin StackArea => mem'[a] = mem[a]
    BY <1>2, Interlude
  <2>2. SUFFICES ASSUME start.op \in Exchanges, Undisturbed'
                 PROVE  \E n \in 0 .. Size : Passed(n)'
    BY <2>1, Fixed DEF ExchangeInv
  <2>3. /\ Undisturbed
        /\ taken' = 0 \/ \A i \in 0 .. (Size - 1) : Source(i) \notin StackArea
    BY <2>1, <2>2, Fixed DEF Undisturbed
  <2>4. PICK n \in 0 .. Size : Passed(n)
    BY <2>2, <2>3 DEF ExchangeInv
  <2>5. start \in Setups /\ Size \in Nat
    <3> DEFINE size == W * W
    <3>1. start \in Setups /\ size \in Nat /\ Size \in 1 .. size
      BY SizeRange, WordsNumber DEF TypeOK
    <3> HIDE DEF size
    <3>2. QED BY <3>1
  <2>6. ASSUME NEW i \in 0 .. (n - 1) PROVE mem'[Source(i)] = mem[Source(i)]
    <3>1. i \in 0 .. (Size - 1) /\ i \in Int
      BY <2>5
    <3>2. Source(i) \in Word
      BY <2>5, <3>1, Addresses
    <3>3. QED BY <2>1, <2>3, <3>1, <3>2
  <2>7. /\ Size' = Size /\ Over' = Over /\ StackArea' = StackArea
        /\ Written' = Written
        /\ \A i : Source(i)' = Source(i)
    BY <2>1, Fixed
  <2>8. Counted(n)' = Counted(n) /\ \A i : PortB(i)' = PortB(i)
    BY <2>1 DEF Counted, PortB
  <2>9. Outside(Written)'
    BY <2>1, <2>4, <2>7 DEF Passed, Outside
  <2>10. Passed(n)'
    BY <2>1, <2>4, <2>6, <2>7, <2>8, <2>9 DEF Passed, pairs, flags
  <2>11. QED BY <2>4, <2>10
<1>3. QED BY <1>1, <1>2 DEF Next

\* INI, INIR, OUTI, OTIR and their kin make one I/O cycle per byte, with B
\* counting down on the bus, for every count, block and number of interrupts
\* that push beside it.
THEOREM ExchangesPass == Spec => []Exchanged
<1>1. TypeOK /\ PlaceInv /\ ExchangeInv => Exchanged
  <2> SUFFICES ASSUME TypeOK, PlaceInv, ExchangeInv,
                      Done, Undisturbed, start.op \in Exchanges
               PROVE  Exchanged
    BY DEF Exchanged, Exchanges
  <2>1. Place = Over
    BY DEF Done, Place, Over
  <2>2. PICK n \in 0 .. Size : Passed(n)
    BY DEF ExchangeInv
  <2>3. Passed(Size) /\ zero = (Hi(BC) = 0)
    BY <2>1, <2>2 DEF Passed
  <2>4. QED BY <2>3 DEF Passed, Exchanged
<1>2. QED BY <1>1, TypeInit, TypeNext, PlaceInit, PlaceNext, ExchangeInit,
             ExchangeNext, PTL DEF Spec
=============================================================================
