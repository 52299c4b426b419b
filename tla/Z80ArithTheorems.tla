-------------------------- MODULE Z80ArithTheorems --------------------------
(***************************************************************************)
(* What the flags of byte and word arithmetic mean, what the shifts        *)
(* compute and where the second copies agree, for bytes of every even      *)
(* width: the properties of MCZ80Arith.  Then those of Z80Alu, about any   *)
(* sequence of instructions: Q, and decimal adjustment of real bytes.      *)
(***************************************************************************)
EXTENDS MCZ80Arith, Z80Alu, Z80WordsTheorems

-----------------------------------------------------------------------------
(* Bytes.                                                                   *)

\* Half of the byte values are negative.
LEMMA Halves == W \in Nat /\ W \div 2 \in Nat /\ W = 2 * (W \div 2) /\ W > 0
<1> DEFINE j == K \div 2
<1>1. K \in Nat /\ j \in Nat /\ K = 2 * j /\ W = K * K /\ W \in Nat /\ W >= 2
  BY NibbleAssumption, WidthAssumption
<1> HIDE DEF j
<1>2. W = 2 * (j * K) /\ j * K \in Nat
  BY <1>1
<1>3. QED
  <2> DEFINE h == j * K
  <2>1. W = 2 * h /\ h \in Nat
    BY <1>2
  <2> HIDE DEF h
  <2>2. W \div 2 = h
    BY <2>1
  <2>3. QED BY <1>1, <2>1, <2>2

\* A sum or difference of bytes wraps around at most once.
LEMMA Wraps ==
  \A a, b \in Byte, c \in {0, 1} :
    /\ Sum(a, b, c) = IF a + b + c >= W THEN a + b + c - W ELSE a + b + c
    /\ Diff(a, b, c) = IF a - b - c < 0 THEN a - b - c + W ELSE a - b - c
<1> SUFFICES ASSUME NEW a \in Byte, NEW b \in Byte, NEW c \in {0, 1}
             PROVE  /\ Sum(a, b, c) =
                         IF a + b + c >= W THEN a + b + c - W ELSE a + b + c
                    /\ Diff(a, b, c) =
                         IF a - b - c < 0 THEN a - b - c + W ELSE a - b - c
  OBVIOUS
<1>1. W \in Nat /\ W > 0 /\ a \in 0 .. (W - 1) /\ b \in 0 .. (W - 1)
  BY Halves DEF Byte
<1>2. (a + b + c) % W = IF a + b + c >= W THEN a + b + c - W ELSE a + b + c
  BY <1>1
<1>3. (a - b - c) % W = IF a - b - c < 0 THEN a - b - c + W ELSE a - b - c
  BY <1>1
<1>4. QED BY <1>2, <1>3 DEF Sum, Diff

\* Signed overflow.
LEMMA Overflow ==
  \A a, b \in Byte, c \in {0, 1} :
    /\ "PV" \in AddFlags(a, b, c) <=> Signed(a) + Signed(b) + c \notin SignedByte
    /\ "PV" \in SubFlags(a, b, c) <=> Signed(a) - Signed(b) - c \notin SignedByte
<1> SUFFICES ASSUME NEW a \in Byte, NEW b \in Byte, NEW c \in {0, 1}
             PROVE  /\ "PV" \in AddFlags(a, b, c) <=>
                         Signed(a) + Signed(b) + c \notin SignedByte
                    /\ "PV" \in SubFlags(a, b, c) <=>
                         Signed(a) - Signed(b) - c \notin SignedByte
  OBVIOUS
<1> DEFINE h == W \div 2
           s == Sum(a, b, c)
           d == Diff(a, b, c)
<1>1. /\ h \in Nat /\ W = 2 * h /\ h > 0
      /\ a \in 0 .. (W - 1) /\ b \in 0 .. (W - 1)
  BY Halves DEF Byte
<1>2. /\ s = IF a + b + c >= W THEN a + b + c - W ELSE a + b + c
      /\ d = IF a - b - c < 0 THEN a - b - c + W ELSE a - b - c
  BY Wraps
<1>3. /\ "PV" \in AddFlags(a, b, c) <=> ((a >= h) = (b >= h) /\ (a >= h) # (s >= h))
      /\ "PV" \in SubFlags(a, b, c) <=> ((a >= h) # (b >= h) /\ (a >= h) # (d >= h))
  BY DEF AddFlags, SubFlags, SZ53, F53, If, Negative
<1>4. /\ Signed(a) = IF a < h THEN a ELSE a - W
      /\ Signed(b) = IF b < h THEN b ELSE b - W
      /\ SignedByte = (-h) .. (h - 1)
  BY DEF Signed, SignedByte
<1> HIDE DEF h, s, d
<1>5. QED BY <1>1, <1>2, <1>3, <1>4

\* Comparing bytes orders them, as unsigned and as signed numbers.
THEOREM CompareOrders == \A a, b \in Byte : Ordered(a, b)
<1> SUFFICES ASSUME NEW a \in Byte, NEW b \in Byte PROVE Ordered(a, b)
  OBVIOUS
<1> DEFINE h == W \div 2
           d == Diff(a, b, 0)
<1>1. /\ h \in Nat /\ W = 2 * h /\ h > 0
      /\ a \in 0 .. (W - 1) /\ b \in 0 .. (W - 1)
  BY Halves DEF Byte
<1>2. d = IF a - b < 0 THEN a - b + W ELSE a - b
  <2>1. d = IF a - b - 0 < 0 THEN a - b - 0 + W ELSE a - b - 0
    BY Wraps
  <2>2. QED BY <1>1, <2>1
<1>3. /\ "Z" \in SubFlags(a, b, 0) <=> d = 0
      /\ "C" \in SubFlags(a, b, 0) <=> a - b - 0 < 0
      /\ "S" \in SubFlags(a, b, 0) <=> d >= h
      /\ "PV" \in SubFlags(a, b, 0) <=> ((a >= h) # (b >= h) /\ (a >= h) # (d >= h))
  BY DEF SubFlags, SZ53, F53, If, Negative
<1>4. /\ Signed(a) = IF a < h THEN a ELSE a - W
      /\ Signed(b) = IF b < h THEN b ELSE b - W
  BY DEF Signed
<1> HIDE DEF h, d
<1>5. (d = 0 <=> a = b) /\ (a - b - 0 < 0 <=> a < b)
  BY <1>1, <1>2
<1>6. (d >= h) # ((a >= h) # (b >= h) /\ (a >= h) # (d >= h))
        <=> Signed(a) < Signed(b)
  BY <1>1, <1>2, <1>4
<1>7. QED BY <1>3, <1>5, <1>6 DEF Ordered

\* Bytes are two digits to the base K.
LEMMA Digits ==
  \A n \in Byte : /\ n \div K \in 0 .. (K - 1) /\ n % K \in 0 .. (K - 1)
                  /\ n = K * (n \div K) + (n % K)
<1> SUFFICES ASSUME NEW n \in Byte
             PROVE  /\ n \div K \in 0 .. (K - 1) /\ n % K \in 0 .. (K - 1)
                    /\ n = K * (n \div K) + (n % K)
  OBVIOUS
<1>1. K \in Nat /\ K > 0 /\ W = K * K /\ n \in Nat /\ n < K * K
  BY NibbleAssumption, WidthAssumption DEF Byte
<1> DEFINE q == n \div K
           l == n % K
<1>2. q \in Nat /\ l \in 0 .. (K - 1) /\ n = K * q + l
  BY <1>1
<1> HIDE DEF q, l
<1>3. q < K
  <2> SUFFICES ASSUME q >= K PROVE FALSE
    BY <1>1, <1>2
  <2>1. K * q >= K * K
    BY <1>1, <1>2
  <2>2. QED BY <1>1, <1>2, <2>1
<1>4. QED BY <1>1, <1>2, <1>3 DEF q, l

\* The digits are unique.
LEMMA Unique == \A q \in Int, l \in 0 .. (K - 1) : (K * q + l) \div K = q
BY NibbleAssumption

\* Bit 4 of the exclusive or of the operands and the result of an addition
\* (sign = 1) or subtraction (sign = -1) is the carry out of the lower half.
LEMMA Bit4 ==
  ASSUME NEW a \in Byte, NEW b \in Byte, NEW r \in Byte, NEW c \in {0, 1},
         NEW sign \in {-1, 1}, NEW half \in {0, 1}, NEW full \in {0, 1},
         r = a + sign * (b + c - W * full),
         half = 1 <=> (a % K) + sign * ((b % K) + c) \notin 0 .. (K - 1)
  PROVE Bit4Differs(a, b, r) <=> half = 1
<1> DEFINE ah == a \div K
           al == a % K
           bh == b \div K
           bl == b % K
           l == al + sign * (bl + c - K * half)
           q == ah + sign * (bh + half - K * full)
<1>1. /\ ah \in 0 .. (K - 1) /\ al \in 0 .. (K - 1) /\ a = K * ah + al
      /\ bh \in 0 .. (K - 1) /\ bl \in 0 .. (K - 1) /\ b = K * bh + bl
  BY Digits
<1>2. K \in Nat /\ K >= 2 /\ W = K * K
  BY NibbleAssumption
<1> HIDE DEF ah, al, bh, bl
<1>3. l \in 0 .. (K - 1) /\ q \in Int
  BY <1>1, <1>2 DEF al, bl
<1>4. r = K * q + l
  BY <1>1, <1>2
<1> HIDE DEF l
<1>5. r \div K = q
  BY <1>3, <1>4, Unique
<1>6. PICK j \in Nat : K = 2 * j
  BY NibbleAssumption
<1>7. (ah + bh + q) % 2 = half
  <2>1. \A p \in Int : (2 * p + half) % 2 = half
    OBVIOUS
  <2>2. CASE sign = 1
    <3>1. ah + bh + q = 2 * (ah + bh - j * full) + half
      BY <1>1, <1>6, <2>2
    <3>2. QED BY <1>1, <2>1, <3>1
  <2>3. CASE sign = -1
    <3>1. ah + bh + q = 2 * (ah + j * full - half) + half
      BY <1>1, <1>6, <2>3
    <3>2. QED BY <1>1, <2>1, <3>1
  <2>4. QED BY <2>2, <2>3
<1>8. QED BY <1>5, <1>7 DEF Bit4Differs, ah, bh

\* H and P/V of additions and subtractions (adc8_flags, sbc8_flags) are the
\* carry out of the lower half and the signed overflow.
THEOREM FlagsAreExact == \A a, b \in Byte, c \in {0, 1} : Exact(a, b, c)
<1> SUFFICES ASSUME NEW a \in Byte, NEW b \in Byte, NEW c \in {0, 1}
             PROVE  Exact(a, b, c)
  OBVIOUS
<1>1. /\ W \in Nat /\ W > 0 /\ K \in Nat
      /\ a \in 0 .. (W - 1) /\ b \in 0 .. (W - 1)
  BY Halves, NibbleAssumption DEF Byte
<1>2. /\ a % K \in 0 .. (K - 1) /\ b % K \in 0 .. (K - 1)
  BY Digits
<1>3. /\ "H" \in AddFlags(a, b, c) <=> Bit4Differs(a, b, Sum(a, b, c))
      /\ "H" \in SubFlags(a, b, c) <=> Bit4Differs(a, b, Diff(a, b, c))
  BY DEF AddFlags, SubFlags, SZ53, F53, If
<1>4. Bit4Differs(a, b, Sum(a, b, c)) <=> (a % K) + (b % K) + c >= K
  <2> DEFINE s == Sum(a, b, c)
             full == IF a + b + c >= W THEN 1 ELSE 0
             half == IF (a % K) + (b % K) + c >= K THEN 1 ELSE 0
  <2>1. s = IF a + b + c >= W THEN a + b + c - W ELSE a + b + c
    BY Wraps
  <2>2. s \in Byte /\ s = a + 1 * (b + c - W * full)
    BY <1>1, <2>1 DEF Byte
  <2>3. half = 1 <=> (a % K) + 1 * ((b % K) + c) \notin 0 .. (K - 1)
    BY <1>1, <1>2
  <2>4. half \in {0, 1} /\ full \in {0, 1}
    OBVIOUS
  <2> HIDE DEF s, full, half
  <2>5. Bit4Differs(a, b, s) <=> half = 1
    BY <2>2, <2>3, <2>4, Bit4
  <2>6. QED BY <2>5 DEF s, half
<1>5. Bit4Differs(a, b, Diff(a, b, c)) <=> (a % K) - (b % K) - c < 0
  <2> DEFINE d == Diff(a, b, c)
             full == IF a - b - c < 0 THEN 1 ELSE 0
             half == IF (a % K) - (b % K) - c < 0 THEN 1 ELSE 0
  <2>1. d = IF a - b - c < 0 THEN a - b - c + W ELSE a - b - c
    BY Wraps
  <2>2. d \in Byte /\ d = a + (-1) * (b + c - W * full)
    BY <1>1, <2>1 DEF Byte
  <2>3. half = 1 <=> (a % K) + (-1) * ((b % K) + c) \notin 0 .. (K - 1)
    BY <1>1, <1>2
  <2>4. half \in {0, 1} /\ full \in {0, 1}
    OBVIOUS
  <2> HIDE DEF d, full, half
  <2>5. Bit4Differs(a, b, d) <=> half = 1
    BY <2>2, <2>3, <2>4, Bit4
  <2>6. QED BY <2>5 DEF d, half
<1>6. QED BY <1>3, <1>4, <1>5, Overflow DEF Exact

\* The flags of INC, DEC (tables of FlagTables::init) and NEG (handle_neg) are
\* those of the addition or subtraction each stands for.
THEOREM SpecialCasesAreGeneral == \A v \in Byte : SpecialCases(v)
<1> SUFFICES ASSUME NEW v \in Byte PROVE SpecialCases(v)
  OBVIOUS
<1> DEFINE h == W \div 2
<1>1. /\ h \in Nat /\ h > 1 /\ W = 2 * h /\ K \in Nat /\ K >= 2
      /\ v \in 0 .. (W - 1) /\ v % K \in 0 .. (K - 1)
  <2>1. W > 2
    BY NibbleAssumption
  <2>2. QED BY <2>1, Halves, Digits, NibbleAssumption DEF Byte
<1>2. 0 \in Byte /\ 1 \in Byte /\ 0 % K = 0 /\ 1 % K = 1
  BY <1>1 DEF Byte
<1>3. /\ Signed(v) = IF v < h THEN v ELSE v - W
      /\ Signed(0) = 0 /\ Signed(1) = 1 /\ SignedByte = (-h) .. (h - 1)
  BY <1>1 DEF Signed, SignedByte
<1> HIDE DEF h
<1>4. IncFlags(v) = AddFlags(v, 1, 0) \ {"C"}
  <2>1. /\ "H" \in AddFlags(v, 1, 0) <=> (v % K) + (1 % K) + 0 >= K
        /\ "PV" \in AddFlags(v, 1, 0) <=> Signed(v) + Signed(1) + 0 \notin SignedByte
    BY <1>2, FlagsAreExact DEF Exact
  <2>2. /\ "H" \in AddFlags(v, 1, 0) <=> v % K = K - 1
        /\ "PV" \in AddFlags(v, 1, 0) <=> v = h - 1
    BY <1>1, <1>2, <1>3, <2>1
  <2>3. QED BY <2>2 DEF IncFlags, AddFlags, SZ53, F53, If, h
<1>5. DecFlags(v) = SubFlags(v, 1, 0) \ {"C"}
  <2>1. /\ "H" \in SubFlags(v, 1, 0) <=> (v % K) - (1 % K) - 0 < 0
        /\ "PV" \in SubFlags(v, 1, 0) <=> Signed(v) - Signed(1) - 0 \notin SignedByte
    BY <1>2, FlagsAreExact DEF Exact
  <2>2. /\ "H" \in SubFlags(v, 1, 0) <=> v % K = 0
        /\ "PV" \in SubFlags(v, 1, 0) <=> v = h
    BY <1>1, <1>2, <1>3, <2>1
  <2>3. QED BY <2>2 DEF DecFlags, SubFlags, SZ53, F53, If, h
<1>6. NegFlags(v) = SubFlags(0, v, 0)
  <2>1. /\ "H" \in SubFlags(0, v, 0) <=> (0 % K) - (v % K) - 0 < 0
        /\ "PV" \in SubFlags(0, v, 0) <=> Signed(0) - Signed(v) - 0 \notin SignedByte
    BY <1>2, FlagsAreExact DEF Exact
  <2>2. /\ "H" \in SubFlags(0, v, 0) <=> v % K # 0
        /\ "PV" \in SubFlags(0, v, 0) <=> v = h
        /\ 0 - v - 0 < 0 <=> v # 0
    BY <1>1, <1>2, <1>3, <2>1
  <2>3. QED BY <2>2 DEF NegFlags, SubFlags, SZ53, F53, If, h
<1>7. QED BY <1>4, <1>5, <1>6 DEF SpecialCases

-----------------------------------------------------------------------------
(* Words: their parts, and carries from one byte to the next.               *)

\* What n contributes in the upper byte of a word.
Upper(n) == W * n

LEMMA UpperOf ==
  /\ \A n \in Int : Upper(n) \in Int
  /\ Upper(0) = 0 /\ Upper(1) = W /\ Upper(W) = W * W /\ Upper(K) = K * W
BY WidthAssumption, NibbleAssumption DEF Upper

\* Words are compared by their upper bytes first.
LEMMA UpperFirst ==
  \A m, n \in Int, l \in 0 .. (W - 1) : Upper(m) + l >= Upper(n) <=> m >= n
<1> SUFFICES ASSUME NEW m \in Int, NEW n \in Int, NEW l \in 0 .. (W - 1)
             PROVE  Upper(m) + l >= Upper(n) <=> m >= n
  OBVIOUS
<1>1. W \in Nat /\ W > 0 /\ l < W /\ l \in Nat
  BY WidthAssumption
<1>2. CASE m >= n
  <2>1. W * m >= W * n
    BY <1>1, <1>2
  <2>2. QED BY <1>1, <1>2, <2>1 DEF Upper
<1>3. CASE m + 1 <= n
  <2>1. W * (m + 1) <= W * n
    BY <1>1, <1>3
  <2>2. QED BY <1>1, <1>3, <2>1 DEF Upper
<1>4. QED BY <1>2, <1>3

LEMMA Bytes ==
  \A x \in Word : /\ Hi(x) \in Byte /\ Lo(x) \in Byte
                  /\ x = Upper(Hi(x)) + Lo(x)
<1> SUFFICES ASSUME NEW x \in Word
             PROVE  Hi(x) \in Byte /\ Lo(x) \in Byte /\ x = Upper(Hi(x)) + Lo(x)
  OBVIOUS
<1>1. Lo(x) \in Byte /\ Hi(x) \in Byte /\ x = Hi(x) * W + Lo(x)
  BY SplitWord DEF WordOf
<1>2. QED BY <1>1, WidthAssumption DEF Byte, Upper

\* Two bytes make a word, and the word gives them back.
LEMMA BytesUnique ==
  \A h, l \in Byte : /\ Upper(h) + l \in Word /\ WordOf(l, h) = Upper(h) + l
                    /\ Hi(Upper(h) + l) = h
<1> SUFFICES ASSUME NEW h \in Byte, NEW l \in Byte
             PROVE  /\ Upper(h) + l \in Word /\ WordOf(l, h) = Upper(h) + l
                    /\ Hi(Upper(h) + l) = h
  OBVIOUS
<1>1. W \in Nat /\ W > 0 /\ h \in Nat /\ l \in 0 .. (W - 1)
  BY WidthAssumption DEF Byte
<1>2. WordOf(l, h) = Upper(h) + l
  BY <1>1 DEF WordOf, Upper
<1>3. Upper(h) + l \in Word
  BY <1>2, WordOfWord
<1>4. (W * h + l) \div W = h
  BY <1>1
<1>5. QED BY <1>2, <1>3, <1>4 DEF Hi, Upper

\* What a byte operation hands on to the next one.
CarryOut(i, j, c)  == IF i + j + c >= W THEN 1 ELSE 0
Borrow(i, j, c) == IF i - j - c < 0 THEN 1 ELSE 0

LEMMA ByteCarry ==
  \A i, j \in Byte, c \in {0, 1} :
    /\ Bit("C" \in AddFlags(i, j, c)) = CarryOut(i, j, c)
    /\ Bit("C" \in SubFlags(i, j, c)) = Borrow(i, j, c)
    /\ Sum(i, j, c) \in Byte /\ i + j + c = Upper(CarryOut(i, j, c)) + Sum(i, j, c)
    /\ Diff(i, j, c) \in Byte /\ i - j - c = Diff(i, j, c) - Upper(Borrow(i, j, c))
<1> SUFFICES ASSUME NEW i \in Byte, NEW j \in Byte, NEW c \in {0, 1}
             PROVE  /\ Bit("C" \in AddFlags(i, j, c)) = CarryOut(i, j, c)
                    /\ Bit("C" \in SubFlags(i, j, c)) = Borrow(i, j, c)
                    /\ Sum(i, j, c) \in Byte
                    /\ i + j + c = Upper(CarryOut(i, j, c)) + Sum(i, j, c)
                    /\ Diff(i, j, c) \in Byte
                    /\ i - j - c = Diff(i, j, c) - Upper(Borrow(i, j, c))
  OBVIOUS
<1>1. /\ Bit("C" \in AddFlags(i, j, c)) = CarryOut(i, j, c)
      /\ Bit("C" \in SubFlags(i, j, c)) = Borrow(i, j, c)
  BY DEF AddFlags, SubFlags, SZ53, F53, If, Bit, CarryOut, Borrow
<1>2. /\ Sum(i, j, c) = IF i + j + c >= W THEN i + j + c - W ELSE i + j + c
      /\ Diff(i, j, c) = IF i - j - c < 0 THEN i - j - c + W ELSE i - j - c
  BY Wraps
<1>3. W \in Nat /\ W > 0 /\ i \in 0 .. (W - 1) /\ j \in 0 .. (W - 1)
  BY WidthAssumption DEF Byte
<1>4. /\ Upper(CarryOut(i, j, c)) = IF i + j + c >= W THEN W ELSE 0
      /\ Upper(Borrow(i, j, c)) = IF i - j - c < 0 THEN W ELSE 0
  <2>1. Upper(0) = 0 /\ Upper(1) = W
    BY UpperOf
  <2>2. QED BY <2>1 DEF CarryOut, Borrow
<1>5. Sum(i, j, c) \in Byte /\ Diff(i, j, c) \in Byte
  BY <1>2, <1>3 DEF Byte
<1>6. /\ i + j + c = Upper(CarryOut(i, j, c)) + Sum(i, j, c)
      /\ i - j - c = Diff(i, j, c) - Upper(Borrow(i, j, c))
  BY <1>2, <1>3, <1>4
<1>7. QED BY <1>1, <1>5, <1>6

LEMMA CarryBit ==
  \A i, j \in Byte, c \in {0, 1} :
    CarryOut(i, j, c) \in {0, 1} /\ Borrow(i, j, c) \in {0, 1}
BY DEF CarryOut, Borrow

\* Adding and subtracting digit by digit, the lower digit to the base W.
AddsUp(m, n, i, j, c) ==
  (Upper(m) + i) + (Upper(n) + j) + c = Upper(m + n + CarryOut(i, j, c)) + Sum(i, j, c)

TakesOff(m, n, i, j, c) ==
  (Upper(m) + i) - (Upper(n) + j) - c = Upper(m - n - Borrow(i, j, c)) + Diff(i, j, c)

LEMMA ChainSum ==
  \A m, n \in Int, i, j \in Byte, c \in {0, 1} : AddsUp(m, n, i, j, c)
<1> SUFFICES ASSUME NEW m \in Int, NEW n \in Int, NEW i \in Byte, NEW j \in Byte,
                    NEW c \in {0, 1}
             PROVE  AddsUp(m, n, i, j, c)
  OBVIOUS
<1> DEFINE k == CarryOut(i, j, c)
           s == Sum(i, j, c)
<1>1. k \in {0, 1} /\ s \in Byte /\ i + j + c = Upper(k) + s
  BY CarryBit, ByteCarry
<1> HIDE DEF k, s
<1>2. W \in Nat /\ i \in Int /\ j \in Int /\ s \in Int
  BY <1>1, WidthAssumption DEF Byte
<1>3. Upper(m + n + k) = Upper(m) + Upper(n) + Upper(k)
  BY <1>1, <1>2 DEF Upper
<1>4. Upper(m) \in Int /\ Upper(n) \in Int /\ Upper(k) \in Int
  BY <1>1, <1>2 DEF Upper
<1>5. (Upper(m) + i) + (Upper(n) + j) + c = Upper(m + n + k) + s
  BY <1>1, <1>2, <1>3, <1>4
<1>6. QED BY <1>5 DEF AddsUp, k, s

LEMMA ChainDiff ==
  \A m, n \in Int, i, j \in Byte, c \in {0, 1} : TakesOff(m, n, i, j, c)
<1> SUFFICES ASSUME NEW m \in Int, NEW n \in Int, NEW i \in Byte, NEW j \in Byte,
                    NEW c \in {0, 1}
             PROVE  TakesOff(m, n, i, j, c)
  OBVIOUS
<1> DEFINE k == Borrow(i, j, c)
           d == Diff(i, j, c)
<1>1. k \in {0, 1} /\ d \in Byte /\ i - j - c = d - Upper(k)
  BY CarryBit, ByteCarry
<1> HIDE DEF k, d
<1>2. W \in Nat /\ i \in Int /\ j \in Int /\ d \in Int
  BY <1>1, WidthAssumption DEF Byte
<1>3. Upper(m - n - k) = Upper(m) - Upper(n) - Upper(k)
  BY <1>1, <1>2 DEF Upper
<1>4. Upper(m) \in Int /\ Upper(n) \in Int /\ Upper(k) \in Int
  BY <1>1, <1>2 DEF Upper
<1>5. (Upper(m) + i) - (Upper(n) + j) - c = Upper(m - n - k) + d
  BY <1>1, <1>2, <1>3, <1>4
<1>6. QED BY <1>5 DEF TakesOff, k, d

\* The lower twelve bits of a word and its sign, from its bytes.
LEMMA WordParts ==
  \A x \in Word : /\ Low12(x) = Upper(Hi(x) % K) + Lo(x)
                  /\ NegativeWord(x) <=> Negative(Hi(x))
<1> SUFFICES ASSUME NEW x \in Word
             PROVE  /\ Low12(x) = Upper(Hi(x) % K) + Lo(x)
                    /\ NegativeWord(x) <=> Negative(Hi(x))
  OBVIOUS
<1> DEFINE xh == Hi(x)
           xl == Lo(x)
<1>1. xh \in Byte /\ xl \in 0 .. (W - 1) /\ x = W * xh + xl
  BY Bytes DEF Byte, Upper
<1>2. Low12(x) = W * (xh % K) + xl
  <2> DEFINE q == xh \div K
             m == xh % K
             l == W * m + xl
  <2>1. q \in 0 .. (K - 1) /\ m \in 0 .. (K - 1) /\ xh = K * q + m
    BY <1>1, Digits
  <2>2. K \in Nat /\ W \in Nat /\ W > 0 /\ K > 0
    BY NibbleAssumption, WidthAssumption
  <2>3. W * (m + 1) <= W * K /\ W * m >= 0
    BY <2>1, <2>2
  <2> HIDE DEF q, m, xh, xl
  <2> DEFINE M == K * W
  <2>4. l \in 0 .. (M - 1)
    BY <1>1, <2>1, <2>2, <2>3
  <2>5. x = M * q + l
    BY <1>1, <2>1, <2>2
  <2>6. M \in Nat /\ M > 0
    BY <2>2
  <2> HIDE DEF M, l
  <2>7. \A j \in Int, r \in 0 .. (M - 1) : (M * j + r) % M = r
    BY <2>6
  <2>8. x % M = l
    <3>1. q \in Int
      BY <2>1
    <3>2. QED BY <2>4, <2>5, <2>7, <3>1
  <2>9. QED BY <2>8 DEF Low12, Upper, M, l, m, xh, xl
<1>3. NegativeWord(x) <=> Negative(xh)
  <2> DEFINE h == W \div 2
  <2>1. h \in Nat /\ W = 2 * h /\ W \in Nat
    BY Halves
  <2> HIDE DEF h
  <2>2. W * W = 2 * (W * h) /\ W * h \in Nat
    BY <2>1
  <2>3. (W * W) \div 2 = W * h
    BY <2>2
  <2>4. xh \in Int
    BY <1>1 DEF Byte
  <2>5. QED BY <1>1, <2>1, <2>3, <2>4, UpperFirst DEF NegativeWord, Negative, Upper, h
<1>4. QED BY <1>2, <1>3 DEF Upper

-----------------------------------------------------------------------------
(* Word arithmetic.                                                         *)

\* A sum or difference of words wraps around at most once.
LEMMA WordWraps ==
  \A x, y \in Word, c \in {0, 1} :
    /\ WordSum(x, y, c) = IF x + y + c >= W * W THEN x + y + c - W * W ELSE x + y + c
    /\ WordDiff(x, y, c) = IF x - y - c < 0 THEN x - y - c + W * W ELSE x - y - c
<1> SUFFICES ASSUME NEW x \in Word, NEW y \in Word, NEW c \in {0, 1}
             PROVE  /\ WordSum(x, y, c) =
                         IF x + y + c >= W * W THEN x + y + c - W * W ELSE x + y + c
                    /\ WordDiff(x, y, c) =
                         IF x - y - c < 0 THEN x - y - c + W * W ELSE x - y - c
  OBVIOUS
<1> DEFINE M == W * W
<1>1. M \in Nat /\ M > 0 /\ x \in 0 .. (M - 1) /\ y \in 0 .. (M - 1)
  BY WidthAssumption DEF Word
<1> HIDE DEF M
<1>2. (x + y + c) % M = IF x + y + c >= M THEN x + y + c - M ELSE x + y + c
  BY <1>1
<1>3. (x - y - c) % M = IF x - y - c < 0 THEN x - y - c + M ELSE x - y - c
  BY <1>1
<1>4. QED BY <1>2, <1>3 DEF WordSum, WordDiff, M

\* ADC HL is two byte additions, the upper one with the carry of the lower one.
LEMMA WordAddition ==
  ASSUME NEW x \in Word, NEW y \in Word, NEW c \in {0, 1}
  PROVE  LET carry == CarryOut(Lo(x), Lo(y), c)
         IN  /\ WordSum(x, y, c) =
                  WordOf(Sum(Lo(x), Lo(y), c), Sum(Hi(x), Hi(y), carry))
             /\ AdcHlFlags(x, y, c) \ {"Z"} = AddFlags(Hi(x), Hi(y), carry) \ {"Z"}
<1> DEFINE xh == Hi(x)
           xl == Lo(x)
           yh == Hi(y)
           yl == Lo(y)
           xm == xh % K
           ym == yh % K
           carry == CarryOut(xl, yl, c)
           r == WordSum(x, y, c)
           rh == Sum(xh, yh, carry)
           rl == Sum(xl, yl, c)
<1>1. /\ xh \in Byte /\ xl \in Byte /\ x = Upper(xh) + xl
      /\ yh \in Byte /\ yl \in Byte /\ y = Upper(yh) + yl
  BY Bytes
<1>2. /\ Low12(x) = Upper(xm) + xl /\ Low12(y) = Upper(ym) + yl
      /\ NegativeWord(x) <=> Negative(xh)
      /\ NegativeWord(y) <=> Negative(yh)
  BY WordParts
<1>3. rl \in Byte /\ carry \in {0, 1}
  BY <1>1, ByteCarry, CarryBit
<1>4. r = IF x + y + c >= W * W THEN x + y + c - W * W ELSE x + y + c
  BY WordWraps
<1>5. xm \in Int /\ ym \in Int /\ xh \in Int /\ yh \in Int
  BY <1>1, Digits, WidthAssumption DEF Byte
<1>6. "H" \in AddFlags(xh, yh, carry) <=> xm + ym + carry >= K
  BY <1>1, <1>3, FlagsAreExact DEF Exact
<1> HIDE DEF xh, xl, yh, yl, xm, ym, r
<1>7. /\ (Upper(xh) + xl) + (Upper(yh) + yl) + c = Upper(xh + yh + carry) + rl
      /\ (Upper(xm) + xl) + (Upper(ym) + yl) + c = Upper(xm + ym + carry) + rl
  <2>1. xl \in Byte /\ yl \in Byte /\ xh \in Int /\ yh \in Int /\ xm \in Int /\ ym \in Int
    BY <1>1, <1>5
  <2>2. AddsUp(xh, yh, xl, yl, c) /\ AddsUp(xm, ym, xl, yl, c)
    BY <2>1, ChainSum
  <2>3. QED BY <2>2 DEF AddsUp
<1> HIDE DEF rl, carry
<1>8. /\ x + y + c = Upper(xh + yh + carry) + rl
      /\ Low12(x) + Low12(y) + c = Upper(xm + ym + carry) + rl
  BY <1>1, <1>2, <1>7
<1>9. /\ x + y + c >= W * W <=> xh + yh + carry >= W
      /\ Low12(x) + Low12(y) + c >= K * W <=> xm + ym + carry >= K
  <2>1. /\ xh + yh + carry \in Int /\ xm + ym + carry \in Int
        /\ rl \in 0 .. (W - 1) /\ W \in Int /\ K \in Int
    BY <1>3, <1>5, WidthAssumption, NibbleAssumption DEF Byte
  <2>2. /\ Upper(xh + yh + carry) + rl >= Upper(W) <=> xh + yh + carry >= W
        /\ Upper(xm + ym + carry) + rl >= Upper(K) <=> xm + ym + carry >= K
    BY <2>1, UpperFirst
  <2>3. QED BY <1>8, <2>2, UpperOf
<1>10. /\ rh \in Byte
       /\ rh = IF xh + yh + carry >= W THEN xh + yh + carry - W ELSE xh + yh + carry
  <2>1. rh \in Byte
    BY <1>1, <1>3, ByteCarry
  <2>2. rh = IF xh + yh + carry >= W THEN xh + yh + carry - W ELSE xh + yh + carry
    BY <1>1, <1>3, Wraps
  <2>3. QED BY <2>1, <2>2
<1> HIDE DEF rh
<1>11. r = Upper(rh) + rl
  <2>1. CASE xh + yh + carry >= W
    <3>1. r = x + y + c - W * W /\ rh = xh + yh + carry - W
      BY <1>4, <1>9, <1>10, <2>1
    <3>2. Upper(xh + yh + carry - W) = Upper(xh + yh + carry) - W * W
      BY <1>3, <1>5, WidthAssumption DEF Upper
    <3>3. Upper(rh) = Upper(xh + yh + carry) - W * W
      BY <3>1, <3>2
    <3>4. /\ Upper(xh + yh + carry) \in Int /\ W * W \in Int /\ rl \in Int
          /\ x \in Int /\ y \in Int
      BY <1>1, <1>3, <1>5, WidthAssumption DEF Byte, Upper
    <3>5. QED BY <1>8, <3>1, <3>3, <3>4
  <2>2. CASE ~(xh + yh + carry >= W)
    <3>1. r = x + y + c /\ rh = xh + yh + carry
      BY <1>4, <1>9, <1>10, <2>2
    <3>2. QED BY <1>8, <3>1
  <2>3. QED BY <2>1, <2>2
<1>12. r \in Word /\ WordOf(rl, rh) = r /\ Hi(r) = rh
  BY <1>3, <1>10, <1>11, BytesUnique
<1>13. NegativeWord(r) <=> Negative(rh)
  BY <1>12, WordParts
<1>14. AdcHlFlags(x, y, c) \ {"Z"} = AddFlags(xh, yh, carry) \ {"Z"}
  <2>1. AdcHlFlags(x, y, c) =
          WordSZ53(r) \cup If(Low12(x) + Low12(y) + c >= K * W, "H")
            \cup If(x + y + c >= W * W, "C")
            \cup If(/\ NegativeWord(x) = NegativeWord(y)
                    /\ NegativeWord(x) # NegativeWord(r), "PV")
    BY DEF AdcHlFlags, r
  <2>2. AddFlags(xh, yh, carry) =
          SZ53(rh) \cup If(xh + yh + carry >= W, "C")
            \cup If(Bit4Differs(xh, yh, rh), "H")
            \cup If(Negative(xh) = Negative(yh) /\ Negative(xh) # Negative(rh), "PV")
    BY DEF AddFlags, rh
  <2>3. /\ "H" \in AddFlags(xh, yh, carry) <=> Bit4Differs(xh, yh, rh)
    BY <2>2 DEF SZ53, F53, If
  <2>4. WordSZ53(r) \ {"Z"} = SZ53(rh) \ {"Z"}
    BY <1>12 DEF SZ53, WordSZ53, If
  <2>5. /\ If(Low12(x) + Low12(y) + c >= K * W, "H") = If(Bit4Differs(xh, yh, rh), "H")
        /\ If(x + y + c >= W * W, "C") = If(xh + yh + carry >= W, "C")
        /\ If(/\ NegativeWord(x) = NegativeWord(y)
              /\ NegativeWord(x) # NegativeWord(r), "PV")
            = If(Negative(xh) = Negative(yh) /\ Negative(xh) # Negative(rh), "PV")
    <3>1. Low12(x) + Low12(y) + c >= K * W <=> Bit4Differs(xh, yh, rh)
      BY <1>6, <1>9, <2>3
    <3>2. (/\ NegativeWord(x) = NegativeWord(y)
           /\ NegativeWord(x) # NegativeWord(r))
            <=> (Negative(xh) = Negative(yh) /\ Negative(xh) # Negative(rh))
      BY <1>2, <1>13 DEF Negative, NegativeWord
    <3>3. QED BY <1>9, <3>1, <3>2 DEF If
  <2>6. QED BY <2>1, <2>2, <2>4, <2>5
<1>15. QED BY <1>12, <1>14 DEF xh, xl, yh, yl, r, rh, rl, carry

\* SBC HL is two byte subtractions.
LEMMA WordSubtraction ==
  ASSUME NEW x \in Word, NEW y \in Word, NEW c \in {0, 1}
  PROVE  LET borrow == Borrow(Lo(x), Lo(y), c)
         IN  /\ WordDiff(x, y, c) =
                  WordOf(Diff(Lo(x), Lo(y), c), Diff(Hi(x), Hi(y), borrow))
             /\ SbcHlFlags(x, y, c) \ {"Z"} = SubFlags(Hi(x), Hi(y), borrow) \ {"Z"}
<1> DEFINE xh == Hi(x)
           xl == Lo(x)
           yh == Hi(y)
           yl == Lo(y)
           xm == xh % K
           ym == yh % K
           borrow == Borrow(xl, yl, c)
           r == WordDiff(x, y, c)
           rh == Diff(xh, yh, borrow)
           rl == Diff(xl, yl, c)
<1>1. /\ xh \in Byte /\ xl \in Byte /\ x = Upper(xh) + xl
      /\ yh \in Byte /\ yl \in Byte /\ y = Upper(yh) + yl
  BY Bytes
<1>2. /\ Low12(x) = Upper(xm) + xl /\ Low12(y) = Upper(ym) + yl
      /\ NegativeWord(x) <=> Negative(xh)
      /\ NegativeWord(y) <=> Negative(yh)
  BY WordParts
<1>3. rl \in Byte /\ borrow \in {0, 1}
  BY <1>1, ByteCarry, CarryBit
<1>4. r = IF x - y - c < 0 THEN x - y - c + W * W ELSE x - y - c
  BY WordWraps
<1>5. xm \in Int /\ ym \in Int /\ xh \in Int /\ yh \in Int
  BY <1>1, Digits, WidthAssumption DEF Byte
<1>6. "H" \in SubFlags(xh, yh, borrow) <=> xm - ym - borrow < 0
  BY <1>1, <1>3, FlagsAreExact DEF Exact
<1> HIDE DEF xh, xl, yh, yl, xm, ym, r
<1>7. /\ (Upper(xh) + xl) - (Upper(yh) + yl) - c = Upper(xh - yh - borrow) + rl
      /\ (Upper(xm) + xl) - (Upper(ym) + yl) - c = Upper(xm - ym - borrow) + rl
  <2>1. xl \in Byte /\ yl \in Byte /\ xh \in Int /\ yh \in Int /\ xm \in Int /\ ym \in Int
    BY <1>1, <1>5
  <2>2. TakesOff(xh, yh, xl, yl, c) /\ TakesOff(xm, ym, xl, yl, c)
    BY <2>1, ChainDiff
  <2>3. QED BY <2>2 DEF TakesOff
<1> HIDE DEF rl, borrow
<1>8. /\ x - y - c = Upper(xh - yh - borrow) + rl
      /\ Low12(x) - Low12(y) - c = Upper(xm - ym - borrow) + rl
  BY <1>1, <1>2, <1>7
<1>9. /\ x - y - c < 0 <=> xh - yh - borrow < 0
      /\ Low12(x) < Low12(y) + c <=> xm - ym - borrow < 0
  <2>1. /\ xh - yh - borrow \in Int /\ xm - ym - borrow \in Int
        /\ rl \in 0 .. (W - 1) /\ W \in Int /\ K \in Int
    BY <1>3, <1>5, WidthAssumption, NibbleAssumption DEF Byte
  <2>2. /\ Upper(xh - yh - borrow) + rl >= Upper(0) <=> xh - yh - borrow >= 0
        /\ Upper(xm - ym - borrow) + rl >= Upper(0) <=> xm - ym - borrow >= 0
    BY <2>1, UpperFirst
  <2>3. /\ Low12(x) \in Int /\ Low12(y) \in Int /\ x \in Int /\ y \in Int
        /\ Upper(0) = 0
    <3>1. xl \in Int /\ yl \in Int
      BY <1>1, WidthAssumption DEF Byte
    <3>2. QED BY <1>1, <1>2, <1>5, <3>1, UpperOf
  <2>4. /\ x - y - c >= 0 <=> xh - yh - borrow >= 0
        /\ Low12(x) - Low12(y) - c >= 0 <=> xm - ym - borrow >= 0
    BY <1>8, <2>2, <2>3
  <2>5. QED BY <2>1, <2>3, <2>4
<1>10. /\ rh \in Byte
       /\ rh = IF xh - yh - borrow < 0 THEN xh - yh - borrow + W ELSE xh - yh - borrow
  <2>1. rh \in Byte
    BY <1>1, <1>3, ByteCarry
  <2>2. rh = IF xh - yh - borrow < 0 THEN xh - yh - borrow + W ELSE xh - yh - borrow
    BY <1>1, <1>3, Wraps
  <2>3. QED BY <2>1, <2>2
<1> HIDE DEF rh
<1>11. r = Upper(rh) + rl
  <2>1. CASE xh - yh - borrow < 0
    <3>1. r = x - y - c + W * W /\ rh = xh - yh - borrow + W
      BY <1>4, <1>9, <1>10, <2>1
    <3>2. Upper(xh - yh - borrow + W) = Upper(xh - yh - borrow) + W * W
      BY <1>3, <1>5, WidthAssumption DEF Upper
    <3>3. Upper(rh) = Upper(xh - yh - borrow) + W * W
      BY <3>1, <3>2
    <3>4. /\ Upper(xh - yh - borrow) \in Int /\ W * W \in Int /\ rl \in Int
          /\ x \in Int /\ y \in Int
      BY <1>1, <1>3, <1>5, WidthAssumption DEF Byte, Upper
    <3>5. QED BY <1>8, <3>1, <3>3, <3>4
  <2>2. CASE ~(xh - yh - borrow < 0)
    <3>1. r = x - y - c /\ rh = xh - yh - borrow
      BY <1>4, <1>9, <1>10, <2>2
    <3>2. QED BY <1>8, <3>1
  <2>3. QED BY <2>1, <2>2
<1>12. r \in Word /\ WordOf(rl, rh) = r /\ Hi(r) = rh
  BY <1>3, <1>10, <1>11, BytesUnique
<1>13. NegativeWord(r) <=> Negative(rh)
  BY <1>12, WordParts
<1>14. SbcHlFlags(x, y, c) \ {"Z"} = SubFlags(xh, yh, borrow) \ {"Z"}
  <2>1. SbcHlFlags(x, y, c) =
          {"N"} \cup WordSZ53(r) \cup If(Low12(x) < Low12(y) + c, "H")
            \cup If(x - y - c < 0, "C")
            \cup If(/\ NegativeWord(x) # NegativeWord(y)
                    /\ NegativeWord(x) # NegativeWord(r), "PV")
    BY DEF SbcHlFlags, r
  <2>2. SubFlags(xh, yh, borrow) =
          {"N"} \cup SZ53(rh) \cup If(xh - yh - borrow < 0, "C")
            \cup If(Bit4Differs(xh, yh, rh), "H")
            \cup If(Negative(xh) # Negative(yh) /\ Negative(xh) # Negative(rh), "PV")
    BY DEF SubFlags, rh
  <2>3. /\ "H" \in SubFlags(xh, yh, borrow) <=> Bit4Differs(xh, yh, rh)
    BY <2>2 DEF SZ53, F53, If
  <2>4. WordSZ53(r) \ {"Z"} = SZ53(rh) \ {"Z"}
    BY <1>12 DEF SZ53, WordSZ53, If
  <2>5. /\ If(Low12(x) < Low12(y) + c, "H") = If(Bit4Differs(xh, yh, rh), "H")
        /\ If(x - y - c < 0, "C") = If(xh - yh - borrow < 0, "C")
        /\ If(/\ NegativeWord(x) # NegativeWord(y)
              /\ NegativeWord(x) # NegativeWord(r), "PV")
            = If(Negative(xh) # Negative(yh) /\ Negative(xh) # Negative(rh), "PV")
    <3>1. Low12(x) < Low12(y) + c <=> Bit4Differs(xh, yh, rh)
      BY <1>6, <1>9, <2>3
    <3>2. (/\ NegativeWord(x) # NegativeWord(y)
           /\ NegativeWord(x) # NegativeWord(r))
            <=> (Negative(xh) # Negative(yh) /\ Negative(xh) # Negative(rh))
      BY <1>2, <1>13 DEF Negative, NegativeWord
    <3>3. QED BY <1>9, <3>1, <3>2 DEF If
  <2>6. QED BY <2>1, <2>2, <2>4, <2>5
<1>15. QED BY <1>12, <1>14 DEF xh, xl, yh, yl, r, rh, rl, borrow

\* ADD HL sets the flags it sets as ADC HL with a carry of 0 does.
LEMMA AddHl ==
  \A x, y \in Word : AddHlFlags(x, y) = AdcHlFlags(x, y, 0) \ {"S", "Z", "PV"}
<1> SUFFICES ASSUME NEW x \in Word, NEW y \in Word
             PROVE  AddHlFlags(x, y) = AdcHlFlags(x, y, 0) \ {"S", "Z", "PV"}
  OBVIOUS
<1> DEFINE r == WordSum(x, y, 0)
           carry == x + y >= W * W
           half  == Low12(x) + Low12(y) >= K * W
           over  == /\ NegativeWord(x) = NegativeWord(y)
                    /\ NegativeWord(x) # NegativeWord(r)
<1>1. x + y + 0 = x + y
  BY WidthAssumption DEF Word
<1>2. Low12(x) + Low12(y) + 0 = Low12(x) + Low12(y)
  <2>1. Low12(x) \in Int /\ Low12(y) \in Int
    <3>1. /\ Hi(x) % K \in Int /\ Lo(x) \in Int
          /\ Hi(y) % K \in Int /\ Lo(y) \in Int
      BY Bytes, Digits, WidthAssumption DEF Byte
    <3>2. QED BY <3>1, WordParts, UpperOf
  <2>2. QED BY <2>1
<1>3. AddHlFlags(x, y) = F53(Hi(r)) \cup If(half, "H") \cup If(carry, "C")
  BY DEF AddHlFlags
<1>4. AdcHlFlags(x, y, 0) = WordSZ53(r) \cup If(half, "H") \cup If(carry, "C")
                              \cup If(over, "PV")
  BY <1>1, <1>2 DEF AdcHlFlags
<1> HIDE DEF r, carry, half, over
<1>5. QED BY <1>3, <1>4 DEF WordSZ53, F53, If

\* ADC HL and SBC HL (handle_adc_hl_rr, handle_sbc_hl_rr) are what a program
\* gets from two byte operations of which the second takes the carry of the
\* first, so chains of either kind can be mixed; ADD HL agrees with ADC HL.
THEOREM WordsAreChains ==
  \A x, y \in Word, c \in {0, 1} : WordIsTwoBytes(x, y, c)
<1> SUFFICES ASSUME NEW x \in Word, NEW y \in Word, NEW c \in {0, 1}
             PROVE  WordIsTwoBytes(x, y, c)
  OBVIOUS
<1>1. /\ Bit("C" \in AddFlags(Lo(x), Lo(y), c)) = CarryOut(Lo(x), Lo(y), c)
      /\ Bit("C" \in SubFlags(Lo(x), Lo(y), c)) = Borrow(Lo(x), Lo(y), c)
  BY Bytes, ByteCarry
<1>2. c = 0 => AddHlFlags(x, y) = AdcHlFlags(x, y, 0) \ {"S", "Z", "PV"}
  BY AddHl
<1>3. QED BY <1>1, <1>2, WordAddition, WordSubtraction DEF WordIsTwoBytes
-----------------------------------------------------------------------------
(* Shifts.                                                                  *)

\* A shift to the left doubles, with the carry as the digit that leaves.
LEMMA LeftDoubles ==
  \A v \in Byte, in \in {0, 1} :
    LET r == Left(v, in)
    IN  /\ r.res \in Byte /\ r.carry \in {0, 1}
        /\ 2 * v + in = Upper(r.carry) + r.res
<1> SUFFICES ASSUME NEW v \in Byte, NEW in \in {0, 1}
             PROVE  LET r == Left(v, in)
                    IN  /\ r.res \in Byte /\ r.carry \in {0, 1}
                        /\ 2 * v + in = Upper(r.carry) + r.res
  OBVIOUS
<1> DEFINE h == W \div 2
           top == v \div h
           res == ((2 * v) % W) + in
<1>1. h \in Nat /\ W = 2 * h /\ h > 0 /\ v \in 0 .. (W - 1)
  BY Halves DEF Byte
<1> HIDE DEF h
<1>2. top = IF v >= h THEN 1 ELSE 0
  BY <1>1
<1>3. (2 * v) % W = IF v >= h THEN 2 * v - W ELSE 2 * v
  BY <1>1
<1>4. res \in 0 .. (W - 1) /\ top \in {0, 1}
  BY <1>1, <1>2, <1>3
<1>5. 2 * v + in = Upper(top) + res
  BY <1>1, <1>2, <1>3, UpperOf
<1>6. Left(v, in).res = res /\ Left(v, in).carry = top
  BY DEF Left, Top, h
<1>7. QED BY <1>4, <1>5, <1>6 DEF Byte

\* A shift to the right halves, with the carry as the remainder.
LEMMA RightHalves ==
  \A v \in Byte, in \in {0, 1} :
    LET r == Right(v, in)
    IN  /\ r.res \in Byte /\ r.carry \in {0, 1}
        /\ v + Upper(in) = 2 * r.res + r.carry
<1> SUFFICES ASSUME NEW v \in Byte, NEW in \in {0, 1}
             PROVE  LET r == Right(v, in)
                    IN  /\ r.res \in Byte /\ r.carry \in {0, 1}
                        /\ v + Upper(in) = 2 * r.res + r.carry
  OBVIOUS
<1> DEFINE h == W \div 2
           low == v % 2
           res == v \div 2 + in * h
<1>1. h \in Nat /\ W = 2 * h /\ h > 0 /\ v \in 0 .. (W - 1)
  BY Halves DEF Byte
<1> HIDE DEF h
<1>2. low \in {0, 1} /\ v = 2 * (v \div 2) + low /\ v \div 2 \in 0 .. (h - 1)
  BY <1>1
<1>3. in * h = IF in = 1 THEN h ELSE 0
  BY <1>1
<1>4. res \in 0 .. (W - 1)
  BY <1>1, <1>2, <1>3
<1>5. v + Upper(in) = 2 * res + low
  BY <1>1, <1>2, <1>3, UpperOf
<1>6. Right(v, in).res = res /\ Right(v, in).carry = low
  BY DEF Right, Low, h
<1>7. QED BY <1>2, <1>4, <1>5, <1>6 DEF Byte

\* The top bit of a byte is its sign.
LEMMA TopIsSign == \A v \in Byte : Top(v) = Bit(Negative(v))
<1> SUFFICES ASSUME NEW v \in Byte PROVE Top(v) = Bit(Negative(v))
  OBVIOUS
<1> DEFINE h == W \div 2
<1>1. h \in Nat /\ W = 2 * h /\ h > 0 /\ v \in 0 .. (W - 1)
  BY Halves DEF Byte
<1> HIDE DEF h
<1>2. v \div h = IF v >= h THEN 1 ELSE 0
  BY <1>1
<1>3. QED BY <1>2 DEF Top, Negative, Bit, h

\* SLA and RL, SRL and RR, and SRA and RR, chained through the carry
\* (the handlers of ROT_OP), double or halve a word, unsigned or signed, and
\* RR undoes RL.
THEOREM ShiftsChain == \A x \in Word, c \in {0, 1} : ShiftsArithmetic(x, c)
<1> SUFFICES ASSUME NEW x \in Word, NEW c \in {0, 1}
             PROVE  ShiftsArithmetic(x, c)
  OBVIOUS
<1> DEFINE M == W * W
           xh == Hi(x)
           xl == Lo(x)
<1>1. /\ xh \in Byte /\ xl \in Byte /\ x = Upper(xh) + xl
      /\ M \in Nat /\ M > 0 /\ W \in Nat /\ W > 0
      /\ \A b \in Byte : b \in Int
  BY Bytes, WidthAssumption DEF Byte
<1>2. \A h, l \in Byte : /\ Upper(h) + l \in 0 .. (M - 1)
                        /\ NumberOf([res |-> h], [res |-> l]) = Upper(h) + l
  BY BytesUnique DEF NumberOf, Word
<1>3. /\ \A n \in Int : Upper(n) \in Int
      /\ \A m, n \in Int : Upper(m + n) = Upper(m) + Upper(n)
      /\ Upper(0) = 0 /\ Upper(1) = W /\ Upper(W) = M
      /\ \A n \in Int : Upper(2 * n) = 2 * Upper(n)
  BY <1>1, UpperOf DEF Upper
<1>4. \A k \in {0, 1} : Upper(Upper(k)) = M * k /\ M * k = IF k = 1 THEN M ELSE 0
  <2>1. M * 0 = 0 /\ M * 1 = M
    BY <1>1
  <2>2. QED BY <1>3, <2>1
<1>5. ASSUME NEW p, NEW q
      PROVE  NumberOf(p, q) = NumberOf([res |-> p.res], [res |-> q.res])
  BY DEF NumberOf
<1> HIDE DEF M, xh, xl
<1>6. LET sla == Left(xl, 0)
          rl  == Left(xh, sla.carry)
      IN  NumberOf(rl, sla) = (2 * x) % M /\ rl.carry = (2 * x) \div M
  <2> DEFINE sla == Left(xl, 0)
             rl == Left(xh, sla.carry)
             l == sla.res
             c1 == sla.carry
             h == rl.res
             c2 == rl.carry
             n == Upper(h) + l
  <2>1. l \in Byte /\ c1 \in {0, 1} /\ 2 * xl + 0 = Upper(c1) + l
    BY <1>1, LeftDoubles
  <2>2. h \in Byte /\ c2 \in {0, 1} /\ 2 * xh + c1 = Upper(c2) + h
    BY <1>1, <2>1, LeftDoubles
  <2>3. NumberOf(rl, sla) = n /\ n \in 0 .. (M - 1)
    BY <1>2, <1>5, <2>1, <2>2
  <2> HIDE DEF sla, rl, l, h, c1, c2
  <2>4. /\ xh \in Int /\ xl \in Int /\ l \in Int /\ h \in Int /\ c1 \in Int
        /\ c2 \in Int
    BY <1>1, <2>1, <2>2
  <2>5. 2 * Upper(xh) + Upper(c1) = Upper(Upper(c2)) + Upper(h)
    <3>1. Upper(2 * xh + c1) = 2 * Upper(xh) + Upper(c1)
      BY <1>3, <2>4
    <3>2. Upper(Upper(c2) + h) = Upper(Upper(c2)) + Upper(h)
      BY <1>3, <2>4
    <3>3. QED BY <2>2, <3>1, <3>2
  <2>6. Upper(Upper(c2)) = M * c2
    BY <1>4, <2>2
  <2>7. 2 * x = M * c2 + n
    <3>1. Upper(xh) \in Int /\ Upper(c1) \in Int /\ Upper(h) \in Int
      BY <1>3, <2>4
    <3> DEFINE e == M * c2
    <3>2. e \in Int
      BY <1>1, <2>4
    <3>3. 2 * Upper(xh) + Upper(c1) = e + Upper(h)
      BY <2>5, <2>6
    <3> HIDE DEF e
    <3> DEFINE u == Upper(xh)
               v == Upper(c1)
               w == Upper(h)
    <3>4. x = u + xl /\ 2 * xl = v + l /\ 2 * u + v = e + w /\ n = w + l
      BY <1>1, <2>1, <2>4, <3>3
    <3>5. u \in Int /\ v \in Int /\ w \in Int /\ xl \in Int /\ l \in Int
      BY <2>4, <3>1
    <3> HIDE DEF u, v, w, n
    <3>6. 2 * x = e + n
      BY <3>2, <3>4, <3>5
    <3>7. QED BY <3>6 DEF e
  <2> HIDE DEF n
  <2>8. \A k \in {0, 1} : (M * k + n) % M = n /\ (M * k + n) \div M = k
    BY <1>1, <2>3
  <2>9. (2 * x) % M = n /\ (2 * x) \div M = c2
    BY <2>2, <2>7, <2>8
  <2>10. QED BY <2>3, <2>9 DEF sla, rl, c2
<1>7. ASSUME NEW t \in {0, 1}
      PROVE  LET s  == Right(xh, t)
                 rr == Right(xl, s.carry)
             IN  /\ NumberOf(s, rr) = ((x - M * t) \div 2) % M
                 /\ rr.carry = x % 2
                 /\ t = 0 => NumberOf(s, rr) = x \div 2
  <2> DEFINE s == Right(xh, t)
             rr == Right(xl, s.carry)
             h == s.res
             c1 == s.carry
             l == rr.res
             c2 == rr.carry
             n == Upper(h) + l
  <2>1. h \in Byte /\ c1 \in {0, 1} /\ xh + Upper(t) = 2 * h + c1
    BY <1>1, RightHalves
  <2>2. l \in Byte /\ c2 \in {0, 1} /\ xl + Upper(c1) = 2 * l + c2
    BY <1>1, <2>1, RightHalves
  <2>3. NumberOf(s, rr) = n /\ n \in 0 .. (M - 1)
    BY <1>2, <1>5, <2>1, <2>2
  <2> HIDE DEF s, rr, l, h, c1, c2
  <2>4. /\ xh \in Int /\ xl \in Int /\ l \in Int /\ h \in Int /\ c1 \in Int
        /\ c2 \in Int /\ t \in Int
    BY <1>1, <2>1, <2>2
  <2>5. Upper(xh) + Upper(Upper(t)) = 2 * Upper(h) + Upper(c1)
    <3>1. Upper(2 * h + c1) = 2 * Upper(h) + Upper(c1)
      BY <1>3, <2>4
    <3>2. Upper(xh + Upper(t)) = Upper(xh) + Upper(Upper(t))
      BY <1>3, <2>4
    <3>3. QED BY <2>1, <3>1, <3>2
  <2>6. Upper(Upper(t)) = M * t /\ (M * t = 0 \/ M * t = M) /\ (t = 0 => M * t = 0)
    BY <1>4
  <2>7. x + M * t = 2 * n + c2 /\ x \in Int
    <3>1. Upper(xh) \in Int /\ Upper(c1) \in Int /\ Upper(h) \in Int
      BY <1>3, <2>4
    <3>2. M * t \in Int
      BY <1>1, <2>4
    <3>3. QED BY <1>1, <2>2, <2>4, <2>5, <2>6, <3>1, <3>2
  <2> HIDE DEF n
  <2> DEFINE Mt == M * t
             half == W * (W \div 2)
  <2>8. M = 2 * half /\ half \in Int
    BY <1>1, Halves DEF M
  <2> HIDE DEF half
  <2>9. Mt \in Int /\ (Mt = 0 \/ Mt = M) /\ x + Mt = 2 * n + c2
    BY <1>1, <2>6, <2>7
  <2> HIDE DEF Mt
  <2>10. x % 2 = c2
    BY <2>2, <2>3, <2>7, <2>8, <2>9
  <2>11. (x - Mt) \div 2 = n - Mt
    BY <1>1, <2>2, <2>3, <2>7, <2>9
  <2>12. (n - Mt) % M = n
    BY <1>1, <2>3, <2>9
  <2>13. t = 0 => x \div 2 = n
    BY <1>1, <2>2, <2>3, <2>6, <2>7
  <2>14. QED BY <2>3, <2>10, <2>11, <2>12, <2>13 DEF Mt, s, rr, c2
<1>8. LET round == Left(xl, c)
      IN  Right(round.res, round.carry) = [res |-> xl, carry |-> c]
  <2> DEFINE l == Left(xl, c)
             r == Right(l.res, l.carry)
             lr == l.res
             lc == l.carry
             rr == r.res
             rc == r.carry
  <2>1. lr \in Byte /\ lc \in {0, 1} /\ 2 * xl + c = Upper(lc) + lr
    BY <1>1, LeftDoubles
  <2>2. rr \in Byte /\ rc \in {0, 1} /\ lr + Upper(lc) = 2 * rr + rc
    BY <2>1, RightHalves
  <2>3. r = [res |-> rr, carry |-> rc]
    BY DEF Right
  <2> HIDE DEF l, r, lr, lc, rr, rc
  <2>4. xl \in Int /\ lr \in Int /\ lc \in Int /\ rr \in Int /\ Upper(lc) \in Int
    BY <1>1, <1>3, <2>1, <2>2
  <2>5. 2 * xl + c = 2 * rr + rc
    BY <2>1, <2>2, <2>4
  <2>6. rr = xl /\ rc = c
    BY <2>2, <2>4, <2>5
  <2>7. QED BY <2>3, <2>6 DEF l, r
<1>9. /\ \A v, in : /\ Rotation("sla", v, in) = Left(v, 0)
                   /\ Rotation("rl", v, in) = Left(v, in)
                   /\ Rotation("srl", v, in) = Right(v, 0)
                   /\ Rotation("rr", v, in) = Right(v, in)
                   /\ Rotation("sra", v, in) = Right(v, Top(v))
  BY DEF Rotation
<1>10. /\ Top(xh) \in {0, 1}
      /\ x - M * Top(xh) = IF NegativeWord(x) THEN x - M ELSE x
  <2>1. Top(xh) = Bit(NegativeWord(x))
    <3>1. NegativeWord(x) <=> Negative(xh)
      BY WordParts DEF xh
    <3>2. Top(xh) = Bit(Negative(xh))
      BY <1>1, TopIsSign
    <3>3. QED BY <3>1, <3>2 DEF Bit
  <2>2. x \in Int /\ M * 0 = 0 /\ M * 1 = M
    BY <1>1, <1>3
  <2>3. QED BY <2>1, <2>2 DEF Bit
<1>11. QED BY <1>6, <1>7, <1>8, <1>9, <1>10 DEF ShiftsArithmetic, M, xh, xl

-----------------------------------------------------------------------------
(* Digits.                                                                 *)

\* Two digits are a byte, which has no others.
LEMMA DigitsUnique ==
  \A q, l \in 0 .. (K - 1) :
    K * q + l \in Byte /\ (K * q + l) \div K = q /\ (K * q + l) % K = l
<1> SUFFICES ASSUME NEW q \in 0 .. (K - 1), NEW l \in 0 .. (K - 1)
             PROVE  /\ K * q + l \in Byte
                    /\ (K * q + l) \div K = q /\ (K * q + l) % K = l
  OBVIOUS
<1>1. K \in Nat /\ K > 0 /\ W = K * K /\ q \in Nat /\ q <= K - 1
  BY NibbleAssumption
<1>2. K * q <= K * (K - 1) /\ K * (K - 1) = K * K - K /\ K * q >= 0 /\ K * q \in Int
  BY <1>1
<1>3. K * q + l \in Byte
  <2> DEFINE n == K * q
             size == K * K
  <2>1. n \in Int /\ size \in Int /\ 0 <= n /\ n <= size - K
    BY <1>1, <1>2
  <2> HIDE DEF n, size
  <2>2. n + l \in 0 .. (size - 1)
    BY <1>1, <2>1
  <2>3. QED BY <1>1, <2>2 DEF Byte, n, size
<1>4. (K * q + l) % K = l
  BY <1>1, Residue
<1>5. QED BY <1>3, <1>4, Unique

\* A byte shifted by a digit loses its upper one.
LEMMA DigitShifted ==
  \A n \in Byte : /\ K * n = W * (n \div K) + K * (n % K)
                  /\ K * (n % K) \in 0 .. (W - 1)
                  /\ (n * K) % W = K * (n % K)
<1> SUFFICES ASSUME NEW n \in Byte
             PROVE  /\ K * n = W * (n \div K) + K * (n % K)
                    /\ K * (n % K) \in 0 .. (W - 1)
                    /\ (n * K) % W = K * (n % K)
  OBVIOUS
<1> DEFINE q == n \div K
           l == n % K
<1>1. /\ K \in Nat /\ K > 0 /\ W = K * K /\ W \in Nat /\ W > 0
      /\ q \in 0 .. (K - 1) /\ l \in 0 .. (K - 1) /\ n = K * q + l
  BY Digits, NibbleAssumption, WidthAssumption
<1> HIDE DEF q, l
<1>2. \A z \in 0 .. (K - 1) : K * l + z \in Byte
  BY <1>1, DigitsUnique
<1>3. n * K = W * q + K * l /\ K * n = W * q + K * l
  BY <1>1
<1> DEFINE shifted == K * l
<1>4. shifted \in 0 .. (W - 1)
  <2>1. 0 \in 0 .. (K - 1) /\ shifted \in Int
    BY <1>1
  <2>2. shifted + 0 \in 0 .. (W - 1)
    BY <1>2, <2>1 DEF Byte
  <2>3. QED BY <2>1, <2>2
<1> HIDE DEF shifted
<1>5. (W * q + shifted) % W = shifted
  <2>1. W \in Nat /\ W > 0 /\ q \in Int
    BY <1>1
  <2>2. QED BY <1>4, <2>1, Residue
<1>6. QED BY <1>3, <1>4, <1>5 DEF shifted, q, l

\* RLD and RRD (handle_rld, handle_rrd) shift the number of three digits in the
\* lower half of A and in memory by one digit, round and back, and leave the
\* upper digit of A alone.
THEOREM DigitsShift == \A a, m \in Byte : DigitsRound(a, m)
<1> SUFFICES ASSUME NEW a \in Byte, NEW m \in Byte PROVE DigitsRound(a, m)
  OBVIOUS
<1> DEFINE ah == a \div K
           al == a % K
           mh == m \div K
           ml == m % K
           l == Rld(a, m)
           r == Rrd(a, m)
<1>1. /\ K \in Nat /\ K > 0 /\ W = K * K /\ W \in Nat /\ W > 0
      /\ ah \in 0 .. (K - 1) /\ al \in 0 .. (K - 1)
      /\ mh \in 0 .. (K - 1) /\ ml \in 0 .. (K - 1)
      /\ a = K * ah + al /\ m = K * mh + ml
  BY Digits, NibbleAssumption, WidthAssumption
<1>2. \A i, j \in 0 .. (K - 1) : i * K + j = K * i + j /\ j + K * i = K * i + j
  BY <1>1
<1>3. l.A = K * ah + mh /\ l.m = K * ml + al
  <2>1. l.A = ah * K + mh /\ l.m = K * ml + al
    BY DigitShifted DEF Rld
  <2>2. QED BY <1>1, <1>2, <2>1
<1>4. r.A = K * ah + ml /\ r.m = K * al + mh
  <2>1. r.A = ah * K + ml /\ r.m = mh + K * al
    BY DigitShifted DEF Rrd
  <2>2. QED BY <1>1, <1>2, <2>1
<1> HIDE DEF ah, al, mh, ml, l, r
<1>5. /\ l.A \in Byte /\ l.A \div K = ah /\ l.A % K = mh
      /\ l.m \in Byte /\ l.m \div K = ml /\ l.m % K = al
      /\ r.A \in Byte /\ r.A \div K = ah /\ r.A % K = ml
      /\ r.m \in Byte /\ r.m \div K = al /\ r.m % K = mh
  <2>1. \A b : \A i, j \in 0 .. (K - 1) :
          b = K * i + j => b \in Byte /\ b \div K = i /\ b % K = j
    BY DigitsUnique
  <2>2. QED BY <1>1, <1>3, <1>4, <2>1
<1>6. Rrd(l.A, l.m) = [A |-> a, m |-> m]
  <2>1. Rrd(l.A, l.m) = [A |-> ah * K + al, m |-> ml + K * mh]
    BY <1>5, DigitShifted DEF Rrd
  <2>2. QED BY <1>1, <1>2, <2>1
<1>7. Rld(r.A, r.m) = [A |-> a, m |-> m]
  <2>1. Rld(r.A, r.m) = [A |-> ah * K + al, m |-> K * mh + ml]
    BY <1>5, DigitShifted DEF Rld
  <2>2. QED BY <1>1, <1>2, <2>1
<1>8. mh * W + l.m = ((K * (al * W + m)) % (K * W)) + al
  <2> DEFINE top == K * W
  <2>1. top \in Nat /\ top > 0
    BY <1>1
  <2>2. K * m \in 0 .. (top - 1)
    <3>1. m \in Nat /\ m <= W - 1
      BY <1>1 DEF Byte
    <3>2. K * m <= K * (W - 1) /\ K * (W - 1) = K * W - K /\ K * m \in Nat
      BY <1>1, <3>1
    <3>3. QED BY <1>1, <2>1, <3>2
  <2>3. K * (al * W + m) = top * al + K * m
    <3>1. m \in Int
      BY <1>1 DEF Byte
    <3>2. QED BY <1>1, <3>1
  <2> DEFINE shifted == K * m
  <2> HIDE DEF top, shifted
  <2>4. (top * al + shifted) % top = shifted
    <3>1. shifted \in 0 .. (top - 1)
      BY <2>2 DEF shifted
    <3>2. QED BY <1>1, <2>1, <3>1, Residue
  <2>5. K * m = W * mh + K * ml
    BY DigitShifted DEF mh, ml
  <2>6. mh * W + (K * ml + al) = (W * mh + K * ml) + al
    BY <1>1
  <2>7. QED BY <1>3, <2>3, <2>4, <2>5, <2>6 DEF top, shifted
<1>9. QED BY <1>5, <1>6, <1>7, <1>8 DEF DigitsRound, l, r, ah, al, mh

-----------------------------------------------------------------------------
(* Bits, and the second copies.                                             *)

\* Setting and resetting a bit changes that bit only.
LEMMA BitsApart ==
  ASSUME NEW v \in Nat, NEW b \in 0 .. 7, NEW d \in 0 .. 7
  PROVE  /\ TestBit(SetBit(v, b), d) = IF b = d THEN 1 ELSE TestBit(v, d)
         /\ TestBit(ResetBit(v, b), d) = IF b = d THEN 0 ELSE TestBit(v, d)
<1> DEFINE Apart(i, j) ==
      /\ TestBit(SetBit(v, i), j) = IF i = j THEN 1 ELSE TestBit(v, j)
      /\ TestBit(ResetBit(v, i), j) = IF i = j THEN 0 ELSE TestBit(v, j)
<1>1. /\ Apart(0, 0) /\ Apart(0, 1) /\ Apart(0, 2) /\ Apart(0, 3)
      /\ Apart(0, 4) /\ Apart(0, 5) /\ Apart(0, 6) /\ Apart(0, 7)
  <2>1. Apart(0, 0)
    BY DEF TestBit, SetBit, ResetBit
  <2>2. Apart(0, 1)
    BY DEF TestBit, SetBit, ResetBit
  <2>3. Apart(0, 2)
    BY DEF TestBit, SetBit, ResetBit
  <2>4. Apart(0, 3)
    BY DEF TestBit, SetBit, ResetBit
  <2>5. Apart(0, 4)
    BY DEF TestBit, SetBit, ResetBit
  <2>6. Apart(0, 5)
    BY DEF TestBit, SetBit, ResetBit
  <2>7. Apart(0, 6)
    BY DEF TestBit, SetBit, ResetBit
  <2>8. Apart(0, 7)
    BY DEF TestBit, SetBit, ResetBit
  <2>9. QED BY <2>1, <2>2, <2>3, <2>4, <2>5, <2>6, <2>7, <2>8
<1>2. /\ Apart(1, 0) /\ Apart(1, 1) /\ Apart(1, 2) /\ Apart(1, 3)
      /\ Apart(1, 4) /\ Apart(1, 5) /\ Apart(1, 6) /\ Apart(1, 7)
  BY SMTT(30) DEF TestBit, SetBit, ResetBit
<1>3. /\ Apart(2, 0) /\ Apart(2, 1) /\ Apart(2, 2) /\ Apart(2, 3)
      /\ Apart(2, 4) /\ Apart(2, 5) /\ Apart(2, 6) /\ Apart(2, 7)
  <2>1. Apart(2, 0)
    BY DEF TestBit, SetBit, ResetBit
  <2>2. Apart(2, 1)
    BY DEF TestBit, SetBit, ResetBit
  <2>3. Apart(2, 2)
    BY DEF TestBit, SetBit, ResetBit
  <2>4. Apart(2, 3)
    BY DEF TestBit, SetBit, ResetBit
  <2>5. Apart(2, 4)
    BY DEF TestBit, SetBit, ResetBit
  <2>6. Apart(2, 5)
    BY DEF TestBit, SetBit, ResetBit
  <2>7. Apart(2, 6)
    BY DEF TestBit, SetBit, ResetBit
  <2>8. Apart(2, 7)
    BY DEF TestBit, SetBit, ResetBit
  <2>9. QED BY <2>1, <2>2, <2>3, <2>4, <2>5, <2>6, <2>7, <2>8
<1>4. /\ Apart(3, 0) /\ Apart(3, 1) /\ Apart(3, 2) /\ Apart(3, 3)
      /\ Apart(3, 4) /\ Apart(3, 5) /\ Apart(3, 6) /\ Apart(3, 7)
  BY SMTT(30) DEF TestBit, SetBit, ResetBit
<1>5. /\ Apart(4, 0) /\ Apart(4, 1) /\ Apart(4, 2) /\ Apart(4, 3)
      /\ Apart(4, 4) /\ Apart(4, 5) /\ Apart(4, 6) /\ Apart(4, 7)
  <2>1. Apart(4, 0)
    BY DEF TestBit, SetBit, ResetBit
  <2>2. Apart(4, 1)
    BY DEF TestBit, SetBit, ResetBit
  <2>3. Apart(4, 2)
    BY DEF TestBit, SetBit, ResetBit
  <2>4. Apart(4, 3)
    BY DEF TestBit, SetBit, ResetBit
  <2>5. Apart(4, 4)
    BY DEF TestBit, SetBit, ResetBit
  <2>6. Apart(4, 5)
    BY DEF TestBit, SetBit, ResetBit
  <2>7. Apart(4, 6)
    BY DEF TestBit, SetBit, ResetBit
  <2>8. Apart(4, 7)
    BY DEF TestBit, SetBit, ResetBit
  <2>9. QED BY <2>1, <2>2, <2>3, <2>4, <2>5, <2>6, <2>7, <2>8
<1>6. /\ Apart(5, 0) /\ Apart(5, 1) /\ Apart(5, 2) /\ Apart(5, 3)
      /\ Apart(5, 4) /\ Apart(5, 5) /\ Apart(5, 6) /\ Apart(5, 7)
  BY SMTT(30) DEF TestBit, SetBit, ResetBit
<1>7. /\ Apart(6, 0) /\ Apart(6, 1) /\ Apart(6, 2) /\ Apart(6, 3)
      /\ Apart(6, 4) /\ Apart(6, 5) /\ Apart(6, 6) /\ Apart(6, 7)
  BY SMTT(30) DEF TestBit, SetBit, ResetBit
<1>8. /\ Apart(7, 0) /\ Apart(7, 1) /\ Apart(7, 2) /\ Apart(7, 3)
      /\ Apart(7, 4) /\ Apart(7, 5) /\ Apart(7, 6) /\ Apart(7, 7)
  BY SMTT(30) DEF TestBit, SetBit, ResetBit
<1>9. QED BY <1>1, <1>2, <1>3, <1>4, <1>5, <1>6, <1>7, <1>8

\* The rotations of (IX+d) are those of a register, and the bit operations mean
\* the same bit of the eight, in bytes of every width.
THEOREM CopiesMatch ==
  \A v \in Byte, c \in {0, 1} : BitCopies(v, c)
<1> SUFFICES ASSUME NEW v \in Byte, NEW c \in {0, 1} PROVE BitCopies(v, c)
  OBVIOUS
<1>1. \A n \in 0 .. 7 : IndexedRotation(n, v, c) = Rotation(Rotations[n + 1], v, c)
  <2>1. IndexedRotation(0, v, c) = Rotation(Rotations[0 + 1], v, c)
    BY DEF IndexedRotation, Rotation, Rotations
  <2>2. IndexedRotation(1, v, c) = Rotation(Rotations[1 + 1], v, c)
    BY DEF IndexedRotation, Rotation, Rotations
  <2>3. IndexedRotation(2, v, c) = Rotation(Rotations[2 + 1], v, c)
    BY DEF IndexedRotation, Rotation, Rotations
  <2>4. IndexedRotation(3, v, c) = Rotation(Rotations[3 + 1], v, c)
    BY DEF IndexedRotation, Rotation, Rotations
  <2>5. IndexedRotation(4, v, c) = Rotation(Rotations[4 + 1], v, c)
    BY DEF IndexedRotation, Rotation, Rotations
  <2>6. IndexedRotation(5, v, c) = Rotation(Rotations[5 + 1], v, c)
    BY DEF IndexedRotation, Rotation, Rotations
  <2>7. IndexedRotation(6, v, c) = Rotation(Rotations[6 + 1], v, c)
    BY DEF IndexedRotation, Rotation, Rotations
  <2>8. IndexedRotation(7, v, c) = Rotation(Rotations[7 + 1], v, c)
    BY DEF IndexedRotation, Rotation, Rotations
  <2>9. QED BY <2>1, <2>2, <2>3, <2>4, <2>5, <2>6, <2>7, <2>8
<1>2. QED BY <1>1, BitsApart DEF BitCopies, Byte

\* CPI and CPD, whose half carry is coded as a comparison, agree with CP.
LEMMA ComparesAreAlike ==
  ASSUME NEW f, NEW a \in Byte, NEW v \in Byte, NEW more \in BOOLEAN
  PROVE  ComparesAlike(f, a, v, more)
<1>1. "H" \in SubFlags(a, v, 0) <=> a % K < v % K
  <2>1. /\ a % K \in Int /\ v % K \in Int
        /\ "H" \in SubFlags(a, v, 0) <=> (a % K) - (v % K) - 0 < 0
    BY FlagsAreExact, NibbleAssumption DEF Exact, Byte
  <2>2. QED BY <2>1
<1>2. QED BY <1>1 DEF ComparesAlike, CompareFlags, SubFlags, SZ53, If, Bit, F53, BlockF53

-----------------------------------------------------------------------------
(* The properties of MCZ80Arith, for bytes of every even width.              *)

ArithType == first \in Word /\ second \in Word /\ carryIn \in {0, 1}

\* The enumeration keeps to words.
LEMMA ArithTypeCorrect == WordsSpec => []ArithType
<1>1. WordsInit => ArithType
  BY WordsNumber DEF WordsInit, ArithType, Word
<1>2. ArithType /\ [WordsNext]_words => ArithType'
  BY WordsNumber DEF ArithType, WordsNext, words, Word
<1>3. QED BY <1>1, <1>2, PTL DEF WordsSpec

\* Words are made of bytes.
LEMMA ArithBytes ==
  ASSUME ArithType
  PROVE  Lo(first) \in Byte /\ Hi(first) \in Byte
BY Bytes DEF ArithType

\* ADC HL and SBC HL are chains of two byte operations and ADD HL agrees with
\* ADC HL (handle_adc_hl_rr, handle_sbc_hl_rr, handle_add_hl_rr).
THEOREM WordsAlwaysChain == WordsSpec => []WordsAreTwoBytes
<1>1. ArithType => WordsAreTwoBytes
  BY WordsAreChains DEF ArithType, WordsAreTwoBytes
<1>2. QED BY <1>1, ArithTypeCorrect, PTL

\* INC, DEC and NEG, whose flags are coded apart, agree with addition and
\* subtraction (flags.cpp, handle_neg).
THEOREM SpecialCasesAlwaysAgree == WordsSpec => []SpecialCasesAgree
<1>1. ArithType => SpecialCasesAgree
  BY ArithBytes, SpecialCasesAreGeneral DEF SpecialCasesAgree
<1>2. QED BY <1>1, ArithTypeCorrect, PTL

\* The flags of ADC and SBC are the carries and overflows of what they compute
\* (adc8_flags, sbc8_flags).
THEOREM SumsAreAlwaysExact == WordsSpec => []SumsAreExact
<1>1. ArithType => SumsAreExact
  BY ArithBytes, FlagsAreExact DEF ArithType, SumsAreExact
<1>2. QED BY <1>1, ArithTypeCorrect, PTL

\* CP orders its operands, signed and unsigned, and CPI and CPD with it
\* (SUB_FLAGS, block_compare).
THEOREM ComparesAlwaysOrder == WordsSpec => []ComparesOrder
<1>1. ArithType => ComparesOrder
  <2> SUFFICES ASSUME ArithType PROVE ComparesOrder
    OBVIOUS
  <2>1. Lo(first) \in Byte /\ Hi(first) \in Byte /\ (second > 0) \in BOOLEAN
    BY ArithBytes DEF ArithType
  <2>2. ComparesAlike(If(carryIn = 1, "C"), Lo(first), Hi(first), second > 0)
    BY <2>1, ComparesAreAlike
  <2>3. QED BY <2>1, <2>2, CompareOrders DEF ComparesOrder
<1>2. QED BY <1>1, ArithTypeCorrect, PTL

\* Shifts chained through the carry are those of words (ROT_OP).
THEOREM ShiftsAlwaysChain == WordsSpec => []ShiftsAreArithmetic
<1>1. ArithType => ShiftsAreArithmetic
  BY ShiftsChain DEF ArithType, ShiftsAreArithmetic
<1>2. QED BY <1>1, ArithTypeCorrect, PTL

\* RLD and RRD move the digits of decimal numbers on and back (handle_rld,
\* handle_rrd).
THEOREM DigitsAlwaysGoRound == WordsSpec => []DigitsGoRound
<1>1. ArithType => DigitsGoRound
  BY ArithBytes, DigitsShift DEF DigitsGoRound
<1>2. QED BY <1>1, ArithTypeCorrect, PTL

\* The indexed copies of the rotations are the rotations, and SET and RES change
\* the bit that BIT tests and no other, of all eight bits an opcode can name.
THEOREM CopiesAlwaysAgree == WordsSpec => []CopiesAgree
<1>1. ArithType => CopiesAgree
  BY ArithBytes, CopiesMatch DEF ArithType, CopiesAgree
<1>2. QED BY <1>1, ArithTypeCorrect, PTL

-----------------------------------------------------------------------------
(* The accumulator, F and Q under any sequence of instructions.            *)

\* Of an instruction that computes flags, Q keeps them; of any other but HALT it
\* keeps nothing; and HALT leaves Q and the flags to which it belongs.
THEOREM QAlwaysCurrent == Spec => []QIsCurrent
<1>1. Init => QIsCurrent
  BY DEF Init, QIsCurrent
<1>2. QIsCurrent /\ [Next]_vars => QIsCurrent'
  <2> SUFFICES ASSUME QIsCurrent, [Next]_vars PROVE QIsCurrent'
    OBVIOUS
  <2>1. CASE Computing
    <3>1. ASSUME NEW f, Sets(f) PROVE Q' = F'
      BY <3>1 DEF Sets
    <3>2. ASSUME NEW n, Binary(n) PROVE Q' = F'
      BY <3>1, <3>2 DEF Binary, Add, Subtract, Cp, AndN, OrN, XorN, Logic
    <3>3. ASSUME NEW n, Other(n) PROVE Q' = F'
      <4>1. CASE RldRrd(n) \/ InRC(n) \/ LdAI(n)
        BY <3>1, <4>1 DEF RldRrd, InRC, LdAI, Takes
      <4>2. ASSUME NEW m, BlockFlags(n, m) PROVE Q' = F'
        BY <3>1, <4>2 DEF BlockFlags
      <4>3. ASSUME NEW b, NEW m, IndexedBit(n, b, m) PROVE Q' = F'
        BY <3>1, <4>3 DEF IndexedBit
      <4>4. QED BY <3>3, <4>1, <4>2, <4>3 DEF Other
    <3>4. ASSUME Unary PROVE Q' = F'
      <4>1. CASE Neg \/ Inc \/ Dec \/ Daa \/ Cpl \/ Ccf \/ Scf
        BY <3>1, <4>1 DEF Neg, Inc, Dec, Daa, Cpl, Ccf, Scf
      <4>2. CASE Rlca \/ Rrca \/ Rla \/ Rra
        BY <3>1, <4>2 DEF Rlca, Rrca, Rla, Rra, Rotate
      <4>3. ASSUME NEW op, RotateR(op) PROVE Q' = F'
        BY <3>1, <4>3 DEF RotateR
      <4>4. ASSUME NEW b, CbBit(b) PROVE Q' = F'
        BY <3>1, <4>4 DEF CbBit
      <4>5. QED BY <3>4, <4>1, <4>2, <4>3, <4>4 DEF Unary
    <3>5. QED BY <2>1, <3>2, <3>3, <3>4 DEF Computing, QIsCurrent
  <2>2. CASE Moving
    <3>1. Q' = {} /\ ~computed'
      BY <2>2 DEF Moving, Load, PopAF, CbResSet
    <3>2. QED BY <3>1 DEF QIsCurrent
  <2>3. CASE UNCHANGED vars
    BY <2>3 DEF vars, QIsCurrent
  <2>4. QED BY <2>1, <2>2, <2>3 DEF Next, Halt
<1>3. QED BY <1>1, <1>2, PTL DEF Spec

-----------------------------------------------------------------------------
(* Decimal adjustment, which is about halves of four bits.                 *)

\* What an operation on decimal numbers leaves: x and y are the sums, or
\* differences, of their lower and of their upper digits.
Left10(x, y) ==
  /\ A = (16 * y + x) % 256
  /\ due.digits = (10 * y + x) % 100

Added(x, y) ==
  /\ "N" \notin F
  /\ "H" \in F <=> x >= 16
  /\ "C" \in F <=> 16 * y + x >= 256
  /\ due.carry = Bit(10 * y + x >= 100)

Subtracted(x, y) ==
  /\ "N" \in F
  /\ "H" \in F <=> x < 0
  /\ "C" \in F <=> 16 * y + x < 0
  /\ due.carry = Bit(10 * y + x < 0)

DueInv ==
  /\ A \in Byte
  /\ \/ due = None
     \/ \E x \in 0 .. 19, y \in 0 .. 18 : Left10(x, y) /\ Added(x, y)
     \/ \E x \in -10 .. 9, y \in -9 .. 9 : Left10(x, y) /\ Subtracted(x, y)

\* The halves of bytes are digits.
LEMMA RealBytes ==
  ASSUME K = 16
  PROVE  W = 256 /\ Byte = 0 .. 255
BY NibbleAssumption DEF Byte

\* Results are bytes: of sums and differences,
LEMMA ResultBytes ==
  ASSUME K = 16, NEW a \in Byte, NEW n \in Byte, NEW c \in {0, 1}
  PROVE  /\ Sum(a, n, c) = (a + n + c) % 256 /\ Sum(a, n, c) \in Byte
         /\ Diff(a, n, c) = (a - n - c) % 256 /\ Diff(a, n, c) \in Byte
<1>1. W = 256 /\ K = 16 /\ Byte = 0 .. 255 /\ a \in 0 .. 255 /\ n \in 0 .. 255
  BY RealBytes
<1>2. Sum(a, n, c) = (a + n + c) % 256 /\ Sum(a, n, c) \in Byte
  BY <1>1 DEF Sum
<1>3. Diff(a, n, c) = (a - n - c) % 256 /\ Diff(a, n, c) \in Byte
  BY <1>1 DEF Diff
<1>4. QED BY <1>2, <1>3

\* of shifts and complements,
LEMMA ShiftBytes ==
  ASSUME K = 16, NEW a \in Byte, NEW c \in {0, 1}
  PROVE  /\ W - 1 - a \in Byte
         /\ Top(a) \in {0, 1} /\ Low(a) \in {0, 1}
         /\ Left(a, c).res \in Byte /\ Right(a, c).res \in Byte
<1>1. W = 256 /\ Byte = 0 .. 255 /\ a \in 0 .. 255
  BY RealBytes
<1>2. Top(a) \in {0, 1} /\ Low(a) \in {0, 1} /\ W - 1 - a \in Byte
  BY <1>1 DEF Top, Low
<1>3. Left(a, c).res = ((2 * a) % 256) + c /\ Right(a, c).res = a \div 2 + c * 128
  BY <1>1 DEF Left, Right
<1>4. Left(a, c).res \in Byte /\ Right(a, c).res \in Byte
  BY <1>1, <1>3
<1>5. QED BY <1>2, <1>4

\* and of digits that go round.
LEMMA DigitBytes ==
  ASSUME K = 16, NEW a \in Byte, NEW n \in Byte
  PROVE  Rld(a, n).A \in Byte /\ Rrd(a, n).A \in Byte
<1>1. W = 256 /\ K = 16 /\ Byte = 0 .. 255 /\ a \in 0 .. 255 /\ n \in 0 .. 255
  BY RealBytes
<1>2. /\ Rld(a, n).A = (a \div 16) * 16 + n \div 16
      /\ Rrd(a, n).A = (a \div 16) * 16 + (n % 16)
  BY <1>1 DEF Rld, Rrd
<1>3. QED BY <1>1, <1>2

\* So are bytes put together bit by bit.
LEMMA LogicBytes == ASSUME K = 16, NEW bits PROVE ByteOf(bits) \in Byte
BY RealBytes DEF ByteOf

\* And those with one bit changed.
LEMMA BitBytes ==
  ASSUME K = 16, NEW a \in Byte, NEW b \in 0 .. 7
  PROVE  ResetBit(a, b) \in Byte /\ SetBit(a, b) \in Byte
<1>1. a \in 0 .. 255 /\ Byte = 0 .. 255
  BY RealBytes
<1>2. b = 0 \/ b = 1 \/ b = 2 \/ b = 3 \/ b = 4 \/ b = 5 \/ b = 6 \/ b = 7
  OBVIOUS
<1>3. CASE b = 0 BY <1>1, <1>3 DEF ResetBit, SetBit, TestBit
<1>4. CASE b = 1 BY <1>1, <1>4 DEF ResetBit, SetBit, TestBit
<1>5. CASE b = 2 BY <1>1, <1>5 DEF ResetBit, SetBit, TestBit
<1>6. CASE b = 3 BY <1>1, <1>6 DEF ResetBit, SetBit, TestBit
<1>7. CASE b = 4 BY <1>1, <1>7 DEF ResetBit, SetBit, TestBit
<1>8. CASE b = 5 BY <1>1, <1>8 DEF ResetBit, SetBit, TestBit
<1>9. CASE b = 6 BY <1>1, <1>9 DEF ResetBit, SetBit, TestBit
<1>10. CASE b = 7 BY <1>1, <1>10 DEF ResetBit, SetBit, TestBit
<1>11. QED BY <1>2, <1>3, <1>4, <1>5, <1>6, <1>7, <1>8, <1>9, <1>10

\* Adding decimal numbers.
LEMMA DueAdd ==
  ASSUME K = 16, A \in Byte, NEW n \in Byte, NEW c \in {0, 1}, Add(n, c)
  PROVE  DueInv'
<1>0. Sum(A, n, c) = (A + n + c) % 256 /\ Sum(A, n, c) \in Byte
  BY ResultBytes
<1>1. A \in 0 .. 255 /\ n \in 0 .. 255 /\ A' \in Byte /\ A' = (A + n + c) % 256
  BY <1>0, RealBytes DEF Add
<1>2. CASE Decimal(A) /\ Decimal(n)
  <2>1. PICK x \in 0 .. 19, y \in 0 .. 18 :
               /\ x = (A % 16) + (n % 16) + c
               /\ y = A \div 16 + n \div 16
    BY <1>1, <1>2, RealBytes DEF Decimal
  <2>2. A + n + c = 16 * y + x /\ ValueOf(A) + ValueOf(n) + c = 10 * y + x
    BY <1>1, <2>1, RealBytes DEF ValueOf
  <2>3. due' = [digits |-> (10 * y + x) % 100, carry |-> Bit(10 * y + x \notin 0 .. 99)]
    BY <1>2, <2>2 DEF Add, Owes
  <2>4. 10 * y + x \notin 0 .. 99 <=> 10 * y + x >= 100
    BY <2>1
  <2>5. due'.digits = (10 * y + x) % 100 /\ due'.carry = Bit(10 * y + x >= 100)
    BY <2>3, <2>4 DEF Bit
  <2>6. F' = AddFlags(A, n, c)
    BY DEF Add, Sets
  <2>7. "H" \in F' <=> x >= 16
    BY <1>1, <2>1, <2>6, FlagsAreExact DEF Exact
  <2>8. /\ "N" \notin F'
        /\ "C" \in F' <=> A + n + c >= 256
    BY <2>6, RealBytes DEF AddFlags, SZ53, F53, If
  <2>9. Left10(x, y)' /\ Added(x, y)'
    BY <1>1, <2>2, <2>5, <2>7, <2>8 DEF Left10, Added
  <2>10. QED BY <1>1, <2>1, <2>9 DEF DueInv
<1>3. CASE ~(Decimal(A) /\ Decimal(n))
  <2>1. due' = None
    BY <1>3 DEF Add, Owes
  <2>2. QED BY <1>1, <2>1 DEF DueInv
<1>4. QED BY <1>2, <1>3

\* And subtracting, or negating, them.
LEMMA DueSubtract ==
  ASSUME K = 16, NEW a \in Byte, NEW n \in Byte, NEW c \in {0, 1},
         A' = Diff(a, n, c), F' = SubFlags(a, n, c),
         Owes(a, n, ValueOf(a) - ValueOf(n) - c)
  PROVE  DueInv'
<1>0. Diff(a, n, c) = (a - n - c) % 256 /\ Diff(a, n, c) \in Byte
  BY ResultBytes
<1>1. a \in 0 .. 255 /\ n \in 0 .. 255 /\ A' \in Byte /\ A' = (a - n - c) % 256
  BY <1>0, RealBytes
<1>2. CASE Decimal(a) /\ Decimal(n)
  <2>1. PICK x \in -10 .. 9, y \in -9 .. 9 :
               /\ x = (a % 16) - (n % 16) - c
               /\ y = a \div 16 - n \div 16
    BY <1>1, <1>2, RealBytes DEF Decimal
  <2>2. a - n - c = 16 * y + x /\ ValueOf(a) - ValueOf(n) - c = 10 * y + x
    BY <1>1, <2>1, RealBytes DEF ValueOf
  <2>3. due' = [digits |-> (10 * y + x) % 100, carry |-> Bit(10 * y + x \notin 0 .. 99)]
    BY <1>2, <2>2 DEF Owes
  <2>4. 10 * y + x \notin 0 .. 99 <=> 10 * y + x < 0
    BY <2>1
  <2>5. due'.digits = (10 * y + x) % 100 /\ due'.carry = Bit(10 * y + x < 0)
    BY <2>3, <2>4 DEF Bit
  <2>6. "H" \in F' <=> x < 0
    BY <1>1, <2>1, FlagsAreExact DEF Exact
  <2>7. /\ "N" \in F'
        /\ "C" \in F' <=> a - n - c < 0
    BY RealBytes DEF SubFlags, SZ53, F53, If
  <2>8. Left10(x, y)' /\ Subtracted(x, y)'
    BY <1>1, <2>2, <2>5, <2>6, <2>7 DEF Left10, Subtracted
  <2>9. QED BY <1>1, <2>1, <2>8 DEF DueInv
<1>3. CASE ~(Decimal(a) /\ Decimal(n))
  <2>1. due' = None
    BY <1>3 DEF Owes
  <2>2. QED BY <1>1, <2>1 DEF DueInv
<1>4. QED BY <1>2, <1>3

\* What DAA does, in numbers.
LEMMA DaaCorrects ==
  ASSUME K = 16, A \in Byte, Daa
  PROVE  LET low  == "H" \in F \/ A % 16 > 9
             high == "C" \in F \/ A > 153
             corr == (IF low THEN 6 ELSE 0) + (IF high THEN 96 ELSE 0)
         IN  /\ A' = (IF "N" \in F THEN A - corr ELSE A + corr) % 256
             /\ A' \in Byte
             /\ "C" \in F' <=> high
<1>1. W = 256 /\ A \in 0 .. 255 /\ Byte = 0 .. 255
  BY RealBytes
<1> DEFINE low  == If("H" \in F \/ A % K > 9, "H")
           high == If("C" \in F \/ A > 9 * K + 9, "C")
           corr == (IF low # {} THEN 6 ELSE 0) + (IF high # {} THEN 6 * K ELSE 0)
           r == IF "N" \in F THEN Diff(A, corr, 0) ELSE Sum(A, corr, 0)
           half == IF "N" \in F THEN "H" \in F /\ A % K < 6 ELSE A % K > 9
<1>2. /\ A' = r
      /\ F' = SZ53(r) \cup If(half, "H") \cup Parity(r) \cup Kept({"N"}) \cup high
  BY DEF Daa, Sets
<1>3. low # {} <=> "H" \in F \/ A % 16 > 9
  BY DEF If
<1>4. high # {} <=> "C" \in F \/ A > 153
  BY <1>1 DEF If
<1>5. "C" \in F' <=> "C" \in high
  <2>1. "C" \notin SZ53(r)
    BY DEF SZ53, F53, If
  <2>2. "C" \notin Parity(r) /\ "C" \notin Kept({"N"}) /\ "C" \notin If(half, "H")
    BY DEF Parity, Kept, If
  <2> HIDE DEF r, half, high
  <2>3. QED BY <1>2, <2>1, <2>2
<1>6. "C" \in high <=> high # {}
  BY DEF If
<1>7. corr = (IF "H" \in F \/ A % 16 > 9 THEN 6 ELSE 0) + (IF "C" \in F \/ A > 153 THEN 96 ELSE 0)
  <2> HIDE DEF low, high
  <2>1. QED BY <1>3, <1>4
<1>8. corr \in 0 .. 102
  BY <1>7
<1>9. A' = (IF "N" \in F THEN A - corr ELSE A + corr) % 256
  <2> HIDE DEF corr
  <2>1. QED BY <1>1, <1>2, <1>8 DEF Sum, Diff
<1>10. A' \in Byte
  <2> HIDE DEF corr
  <2>1. QED BY <1>1, <1>8, <1>9
<1>11. QED
  <2> HIDE DEF corr, high, low, r, half
  <2>1. QED BY <1>4, <1>5, <1>6, <1>7, <1>9, <1>10

\* It makes a decimal number of a sum of decimal numbers.
LEMMA DaaAdds ==
  ASSUME K = 16, A \in Byte, Daa, NEW x \in 0 .. 19, NEW y \in 0 .. 18,
         Left10(x, y), Added(x, y)
  PROVE  /\ Decimal(A') /\ ValueOf(A') = due.digits
         /\ "C" \in F' <=> due.carry = 1
<1> DEFINE low  == "H" \in F \/ A % 16 > 9
           high == "C" \in F \/ A > 153
           corr == (IF low THEN 6 ELSE 0) + (IF high THEN 96 ELSE 0)
           d == IF x >= 10 THEN 1 ELSE 0   \* the carry between the digits
           t == y + d
           e == IF t >= 10 THEN 1 ELSE 0   \* and out of them
           u == t - 10 * e
           v == x - 10 * d
<1>1. /\ A' = (A + corr) % 256
      /\ "C" \in F' <=> high
  BY DaaCorrects DEF Added
<1>2. A \in 0 .. 255 /\ A = (16 * y + x) % 256
  BY RealBytes DEF Left10
<1>3. low <=> x >= 16 \/ A % 16 > 9
  BY DEF Added
<1>4. x >= 16 \/ A % 16 > 9 <=> d = 1
  <2>1. A % 16 = x % 16
    BY <1>2
  <2>2. QED BY <2>1
<1>5. high <=> 16 * y + x >= 256 \/ A > 153
  BY DEF Added
<1>6. 16 * y + x >= 256 \/ A > 153 <=> e = 1
  <2>1. CASE 16 * y + x >= 256
    <3>1. e = 1
      BY <2>1
    <3>2. QED BY <2>1, <3>1
  <2>2. CASE ~(16 * y + x >= 256)
    <3> DEFINE z == 16 * y + x
    <3>0. z \in 0 .. 255 /\ A = z % 256
      BY <1>2, <2>2
    <3>1. A = z
      <4> HIDE DEF z
      <4>1. QED BY <3>0
    <3>2. z > 153 <=> e = 1
      BY <2>2
    <3>3. QED BY <2>2, <3>1, <3>2
  <2>3. QED BY <2>1, <2>2
<1>7. e \in {0, 1} /\ t \in Int /\ d \in {0, 1} /\ u \in 0 .. 9 /\ v \in 0 .. 9
  OBVIOUS
<1>8. corr = 6 * d + 96 * e
  <2> HIDE DEF low, high, d, t, e, u, v
  <2>1. QED BY <1>3, <1>4, <1>5, <1>6, <1>7
<1>9. /\ 16 * y + x + corr = (16 * u + v) + 256 * e
      /\ 10 * y + x = (10 * u + v) + 100 * e
  <2> HIDE DEF corr
  <2>1. 16 * y + x + corr = (16 * u + v) + 256 * e
    BY <1>7, <1>8
  <2>2. 10 * y + x = (10 * u + v) + 100 * e
    BY <1>7
  <2>3. QED BY <2>1, <2>2
<1> HIDE DEF corr, d, t, e, u, v
<1>10. A' = (16 * u + v) % 256 /\ (10 * y + x) % 100 = 10 * u + v
  <2>1. \A m \in 0 .. 255, i \in {0, 1} : (m + 256 * i) % 256 = m
    OBVIOUS
  <2>2. \A m \in 0 .. 99, i \in {0, 1} : (m + 100 * i) % 100 = m
    OBVIOUS
  <2>3. 16 * u + v \in 0 .. 255 /\ 10 * u + v \in 0 .. 99
    BY <1>7
  <2>4. corr \in Int
    BY <1>7, <1>8
  <2>5. A' = (16 * y + x + corr) % 256
    BY <1>1, <1>2, <2>4
  <2>6. QED BY <1>7, <1>9, <2>1, <2>2, <2>3, <2>5
<1>11. A' \div 16 = u /\ A' % 16 = v
  BY <1>7, <1>10
<1>12. Decimal(A') /\ ValueOf(A') = (10 * y + x) % 100
  BY <1>7, <1>10, <1>11 DEF Decimal, ValueOf
<1>13. e = 1 <=> 10 * y + x >= 100
  BY <1>7, <1>9
<1>14. due.digits = (10 * y + x) % 100 /\ (due.carry = 1 <=> 10 * y + x >= 100)
  BY DEF Left10, Added, Bit
<1> HIDE DEF low, high
<1>15. QED BY <1>1, <1>5, <1>6, <1>12, <1>13, <1>14

\* And of a difference.
LEMMA DaaSubtracts ==
  ASSUME K = 16, A \in Byte, Daa, NEW x \in -10 .. 9, NEW y \in -9 .. 9,
         Left10(x, y), Subtracted(x, y)
  PROVE  /\ Decimal(A') /\ ValueOf(A') = due.digits
         /\ "C" \in F' <=> due.carry = 1
<1> DEFINE low  == "H" \in F \/ A % 16 > 9
           high == "C" \in F \/ A > 153
           corr == (IF low THEN 6 ELSE 0) + (IF high THEN 96 ELSE 0)
           d == IF x < 0 THEN 1 ELSE 0   \* the borrow between the digits
           t == y - d
           e == IF t < 0 THEN 1 ELSE 0   \* and out of them
           u == t + 10 * e
           v == x + 10 * d
<1>1. /\ A' = (A - corr) % 256
      /\ "C" \in F' <=> high
  BY DaaCorrects DEF Subtracted
<1>2. A \in 0 .. 255 /\ A = (16 * y + x) % 256
  BY RealBytes DEF Left10
<1>3. low <=> x < 0 \/ A % 16 > 9
  BY DEF Subtracted
<1>4. x < 0 \/ A % 16 > 9 <=> d = 1
  <2>1. A % 16 = x % 16
    BY <1>2
  <2>2. QED BY <2>1
<1>5. high <=> 16 * y + x < 0 \/ A > 153
  BY DEF Subtracted
<1>6. 16 * y + x < 0 \/ A > 153 <=> e = 1
  <2>1. CASE 16 * y + x < 0
    <3>1. e = 1
      BY <2>1
    <3>2. QED BY <2>1, <3>1
  <2>2. CASE ~(16 * y + x < 0)
    <3> DEFINE z == 16 * y + x
    <3>0. z \in 0 .. 255 /\ A = z % 256
      BY <1>2, <2>2
    <3>1. A = z
      <4> HIDE DEF z
      <4>1. QED BY <3>0
    <3>2. z > 153 <=> e = 1
      BY <2>2
    <3>3. QED BY <2>2, <3>1, <3>2
  <2>3. QED BY <2>1, <2>2
<1>7. e \in {0, 1} /\ t \in Int /\ d \in {0, 1} /\ u \in 0 .. 9 /\ v \in 0 .. 9
  OBVIOUS
<1>8. corr = 6 * d + 96 * e
  <2> HIDE DEF low, high, d, t, e, u, v
  <2>1. QED BY <1>3, <1>4, <1>5, <1>6, <1>7
<1>9. /\ 16 * y + x - corr = (16 * u + v) - 256 * e
      /\ 10 * y + x = (10 * u + v) - 100 * e
  <2> HIDE DEF corr
  <2>1. 16 * y + x - corr = (16 * u + v) - 256 * e
    BY <1>7, <1>8
  <2>2. 10 * y + x = (10 * u + v) - 100 * e
    BY <1>7
  <2>3. QED BY <2>1, <2>2
<1> HIDE DEF corr, d, t, e, u, v
<1>10. A' = (16 * u + v) % 256 /\ (10 * y + x) % 100 = 10 * u + v
  <2>1. \A m \in 0 .. 255, i \in {0, 1} : (m - 256 * i) % 256 = m
    OBVIOUS
  <2>2. \A m \in 0 .. 99, i \in {0, 1} : (m - 100 * i) % 100 = m
    OBVIOUS
  <2>3. 16 * u + v \in 0 .. 255 /\ 10 * u + v \in 0 .. 99
    BY <1>7
  <2>4. corr \in Int
    BY <1>7, <1>8
  <2>5. A' = (16 * y + x - corr) % 256
    BY <1>1, <1>2, <2>4
  <2>6. QED BY <1>7, <1>9, <2>1, <2>2, <2>3, <2>5
<1>11. A' \div 16 = u /\ A' % 16 = v
  BY <1>7, <1>10
<1>12. Decimal(A') /\ ValueOf(A') = (10 * y + x) % 100
  BY <1>7, <1>10, <1>11 DEF Decimal, ValueOf
<1>13. e = 1 <=> 10 * y + x < 0
  BY <1>7, <1>9
<1>14. due.digits = (10 * y + x) % 100 /\ (due.carry = 1 <=> 10 * y + x < 0)
  BY DEF Left10, Subtracted, Bit
<1> HIDE DEF low, high
<1>15. QED BY <1>1, <1>5, <1>6, <1>12, <1>13, <1>14

\* So of everything it owes.
LEMMA DaaDecimal ==
  ASSUME K = 16, DueInv, Daa, due # None
  PROVE  /\ Decimal(A') /\ ValueOf(A') = due.digits
         /\ "C" \in F' <=> due.carry = 1
BY DaaAdds, DaaSubtracts DEF DueInv

\* Nothing is owed to begin with.
LEMMA DueInit == K = 16 /\ Init => DueInv
BY RealBytes DEF Init, DueInv

\* All other instructions leave a byte, and nothing for DAA to do.
LEMMA DueNext == ASSUME K = 16, DueInv, [Next]_vars PROVE DueInv'
<1>1. A \in Byte /\ Carry \in {0, 1}
  BY DEF DueInv, Carry, Bit
<1>2. ASSUME A' \in Byte, due' = None PROVE DueInv'
  BY <1>2 DEF DueInv
<1>3. CASE UNCHANGED vars
  <2>1. UNCHANGED <<A, F, due>>
    BY <1>3 DEF vars
  <2>2. ASSUME NEW x, NEW y
        PROVE  /\ Left10(x, y) => Left10(x, y)'
               /\ Added(x, y) => Added(x, y)'
               /\ Subtracted(x, y) => Subtracted(x, y)'
    BY <2>1 DEF Left10, Added, Subtracted
  <2>3. QED BY <2>1, <2>2 DEF DueInv
<1>4. ASSUME NEW b, Logic(ByteOf(b), {"H"}) \/ Logic(ByteOf(b), {}) PROVE DueInv'
  BY <1>2, <1>4, LogicBytes DEF Logic
<1>5. ASSUME NEW i \in {0, 1}, \/ A' = Left(A, i).res \/ A' = Right(A, i).res,
             due' = None
      PROVE  DueInv'
  <2>1. Left(A, i).res \in Byte /\ Right(A, i).res \in Byte
    BY <1>1, ShiftBytes
  <2>2. QED BY <1>2, <1>5, <2>1
<1>6. CASE Unary
  <2>1. CASE Neg
    <3>1. 0 \in Byte /\ 0 \in {0, 1}
      BY RealBytes
    <3>2. F' = NegFlags(A) /\ NegFlags(A) = SubFlags(0, A, 0)
      BY <1>1, <2>1, SpecialCasesAreGeneral DEF Neg, Sets, SpecialCases
    <3>3. /\ A' = Diff(0, A, 0)
          /\ Owes(0, A, 0 - ValueOf(A))
      BY <2>1 DEF Neg
    <3>4. ValueOf(0) - ValueOf(A) - 0 = 0 - ValueOf(A)
      BY <1>1, RealBytes DEF ValueOf
    <3>5. Owes(0, A, ValueOf(0) - ValueOf(A) - 0)
      BY <3>3, <3>4
    <3>6. F' = SubFlags(0, A, 0)
      BY <3>2
    <3>7. QED BY <1>1, <3>1, <3>3, <3>5, <3>6, DueSubtract
  <2>2. CASE Inc \/ Dec
    <3>1. 1 \in Byte /\ 0 \in {0, 1}
      BY RealBytes
    <3>2. Sum(A, 1, 0) \in Byte /\ Diff(A, 1, 0) \in Byte
      BY <1>1, <3>1, ResultBytes
    <3>3. QED BY <1>2, <2>2, <3>2 DEF Inc, Dec
  <2>3. CASE Daa
    <3>1. A' \in Byte
      BY <1>1, <2>3, DaaCorrects
    <3>2. due' = None
      BY <2>3 DEF Daa
    <3>3. QED BY <1>2, <3>1, <3>2
  <2>4. CASE Cpl
    BY <1>1, <1>2, <2>4, ShiftBytes DEF Cpl
  <2>5. CASE Ccf \/ Scf
    BY <1>1, <1>2, <2>5 DEF Ccf, Scf
  <2>6. Top(A) \in {0, 1} /\ Low(A) \in {0, 1}
    BY <1>1, ShiftBytes
  <2>7. CASE Rlca \/ Rrca \/ Rla \/ Rra
    BY <1>1, <1>5, <2>6, <2>7 DEF Rlca, Rrca, Rla, Rra, Rotate
  <2>8. ASSUME NEW op \in {Rotations[i] : i \in 1 .. 8}, RotateR(op) PROVE DueInv'
    <3>1. op \in {"rlc", "rrc", "rl", "rr", "sla", "sra", "sll", "srl"}
      BY DEF Rotations
    <3>2. \E i \in {0, 1} : \/ Rotation(op, A, Carry) = Left(A, i)
                            \/ Rotation(op, A, Carry) = Right(A, i)
      BY <1>1, <2>6, <3>1 DEF Rotation
    <3>3. A' = Rotation(op, A, Carry).res /\ due' = None
      BY <2>8 DEF RotateR
    <3>4. QED BY <1>5, <3>2, <3>3
  <2>9. ASSUME NEW b, CbBit(b) PROVE DueInv'
    BY <1>1, <1>2, <2>9 DEF CbBit
  <2>10. QED BY <1>6, <2>1, <2>2, <2>3, <2>4, <2>5, <2>7, <2>8, <2>9 DEF Unary
<1>7. ASSUME NEW n \in Operands, Binary(n) PROVE DueInv'
  <2>1. n \in Byte /\ 0 \in {0, 1}
    BY OperandAssumption
  <2>2. ASSUME NEW c \in {0, 1}, Add(n, c) PROVE DueInv'
    BY <1>1, <2>1, <2>2, DueAdd
  <2>3. ASSUME NEW c \in {0, 1}, Subtract(n, c) PROVE DueInv'
    <3>1. /\ A' = Diff(A, n, c) /\ F' = SubFlags(A, n, c)
          /\ Owes(A, n, ValueOf(A) - ValueOf(n) - c)
      BY <2>3 DEF Subtract, Sets
    <3>2. QED BY <1>1, <2>1, <3>1, DueSubtract
  <2>4. CASE AndN(n) \/ OrN(n) \/ XorN(n)
    BY <1>4, <2>4 DEF AndN, OrN, XorN
  <2>5. CASE Cp(n)
    BY <1>1, <1>2, <2>5 DEF Cp
  <2>6. QED BY <1>1, <1>7, <2>2, <2>3, <2>4, <2>5 DEF Binary
<1>8. ASSUME NEW n \in Read, Other(n) PROVE DueInv'
  <2>1. n \in Byte
    BY OperandAssumption
  <2>2. ASSUME NEW m \in Read, RldRrd(m) PROVE DueInv'
    <3>1. m \in Byte /\ 0 \in {0, 1}
      BY OperandAssumption
    <3>2. Rld(A, m).A \in Byte /\ Rrd(A, m).A \in Byte
      BY <1>1, <3>1, DigitBytes
    <3>3. QED BY <1>2, <2>2, <3>2 DEF RldRrd, Takes
  <2>3. CASE InRC(n) \/ LdAI(n)
    BY <1>2, <2>1, <2>3 DEF InRC, LdAI, Takes
  <2>4. ASSUME NEW m, BlockFlags(n, m) PROVE DueInv'
    BY <1>1, <1>2, <2>4 DEF BlockFlags
  <2>5. ASSUME NEW m, NEW b, IndexedBit(n, b, m) PROVE DueInv'
    BY <1>1, <1>2, <2>5 DEF IndexedBit
  <2>6. QED BY <1>8, <2>2, <2>3, <2>4, <2>5 DEF Other
<1>9. CASE Moving
  <2>1. ASSUME NEW n \in Operands, Load(n) \/ \E lo \in Read : PopAF(n, lo)
        PROVE  DueInv'
    <3>1. n \in Byte
      BY OperandAssumption
    <3>2. QED BY <1>2, <2>1, <3>1 DEF Load, PopAF
  <2>2. ASSUME NEW b \in Tested, CbResSet(b) PROVE DueInv'
    <3>1. b \in 0 .. 7
      BY OperandAssumption
    <3>2. ResetBit(A, b) \in Byte /\ SetBit(A, b) \in Byte
      BY <1>1, <3>1, BitBytes
    <3>3. QED BY <1>2, <2>2, <3>2 DEF CbResSet
  <2>3. QED BY <1>9, <2>1, <2>2 DEF Moving
<1>10. QED BY <1>3, <1>6, <1>7, <1>8, <1>9 DEF Next, Computing, Halt

\* DAA makes decimal numbers of the results of ADD, ADC, SUB, SBC and NEG, with
\* the carry or borrow to the next two digits, whatever the operands.
THEOREM DaaAlwaysDecimal ==
  ASSUME K = 16
  PROVE  Spec => DecimalResult
<1>1. DueInv /\ [Next]_vars => DueInv'
  BY DueNext
<1>2. DueInv => [Daa /\ due # None =>
                   /\ Decimal(A') /\ ValueOf(A') = due.digits
                   /\ "C" \in F' <=> due.carry = 1]_vars
  BY DaaDecimal
<1>3. Init => DueInv
  BY DueInit
<1>4. QED BY <1>1, <1>2, <1>3, PTL DEF Spec, DecimalResult
=============================================================================
