-------------------------- MODULE Z80WordsTheorems --------------------------
(***************************************************************************)
(* What the operators on words and memory return, for every width W.       *)
(***************************************************************************)
EXTENDS Z80Words, TLAPS

\* An address computation never leaves the address space.
LEMMA PlusWord == \A a, n \in Int : Plus(a, n) \in Word
<1>1. W \in Nat /\ W > 0 /\ W * W \in Nat /\ W * W > 0
  BY WidthAssumption
<1>2. \A m \in Nat : \A k \in Int : m > 0 => k % m \in 0 .. (m - 1)
  OBVIOUS
<1>3. QED BY <1>1, <1>2 DEF Plus, Word

\* Stepping over a byte and back returns to it, at the end of memory too.
LEMMA PlusBack == \A a \in Word : Plus(Plus(a, 1), -1) = a
<1> SUFFICES ASSUME NEW a \in Word PROVE Plus(Plus(a, 1), -1) = a
  OBVIOUS
<1> DEFINE M == W * W
<1>1. M \in Nat /\ a \in 0 .. (M - 1)
  BY WidthAssumption DEF Word
<1> DEFINE next == (a + 1) % M
<1>2. next = IF a = M - 1 THEN 0 ELSE a + 1
  <2> HIDE DEF M
  <2>1. QED BY <1>1
<1>3. (next + (-1)) % M = a
  <2> HIDE DEF M, next
  <2>1. CASE a = M - 1
    <3>1. (0 + (-1)) % M = M - 1
      BY <1>1
    <3>2. QED BY <1>2, <2>1, <3>1
  <2>2. CASE a # M - 1
    BY <1>1, <1>2, <2>2
  <2>3. QED BY <2>1, <2>2
<1>4. QED BY <1>3 DEF Plus

\* A pair of bytes is a word.
LEMMA WordOfWord == \A lo, hi \in Byte : WordOf(lo, hi) \in Word
<1> SUFFICES ASSUME NEW lo \in Byte, NEW hi \in Byte
             PROVE  WordOf(lo, hi) \in Word
  OBVIOUS
<1>1. W \in Nat /\ lo \in Nat /\ hi \in Nat /\ lo < W /\ hi <= W - 1
  BY WidthAssumption DEF Byte
<1>2. hi * W <= (W - 1) * W
  BY <1>1
<1>3. (W - 1) * W = W * W - W
  BY <1>1
<1>4. hi * W \in Nat /\ W * W \in Nat
  BY <1>1
<1>5. QED BY <1>1, <1>2, <1>3, <1>4 DEF WordOf, Word

\* A word is split into two bytes and put together again.
LEMMA SplitWord ==
  \A w \in Word : Lo(w) \in Byte /\ Hi(w) \in Byte /\ WordOf(Lo(w), Hi(w)) = w
<1> SUFFICES ASSUME NEW w \in Word
             PROVE  Lo(w) \in Byte /\ Hi(w) \in Byte /\ WordOf(Lo(w), Hi(w)) = w
  OBVIOUS
<1>1. W \in Nat /\ W > 0 /\ w \in Nat /\ W * W \in Nat /\ w < W * W
  BY WidthAssumption DEF Word
<1>2. w % W \in 0 .. (W - 1)
  BY <1>1
<1>3. w \div W \in Nat /\ w = (W * (w \div W)) + (w % W)
  BY <1>1
<1>4. w \div W < W
  <2> SUFFICES ASSUME w \div W >= W PROVE FALSE
    BY <1>1, <1>3
  <2>1. W * (w \div W) >= W * W
    BY <1>1, <1>3
  <2>2. QED BY <2>1, <1>1, <1>2, <1>3
<1>5. QED BY <1>1, <1>2, <1>3, <1>4 DEF Lo, Hi, WordOf, Byte

\* The word read from two adjacent addresses.
LEMMA WordAtWord ==
  \A m \in [Word -> Byte], a \in Word : WordAt(m, a) \in Word
<1> SUFFICES ASSUME NEW m \in [Word -> Byte], NEW a \in Word
             PROVE  WordAt(m, a) \in Word
  OBVIOUS
<1>1. Plus(a, 1) \in Word
  <2>1. a \in Int
    BY DEF Word
  <2>2. QED BY <2>1, PlusWord
<1>2. QED BY <1>1, WordOfWord DEF WordAt

\* A push leaves a memory, writes the two bytes below the stack pointer and no
\* other, and what it wrote is what a pop reads back.
LEMMA PushType ==
  \A m \in [Word -> Byte], sp \in Word, w \in Word :
    Push(m, sp, w) \in [Word -> Byte]
<1> SUFFICES ASSUME NEW m \in [Word -> Byte], NEW sp \in Word, NEW w \in Word
             PROVE  Push(m, sp, w) \in [Word -> Byte]
  OBVIOUS
<1>1. Hi(w) \in Byte /\ Lo(w) \in Byte
  BY SplitWord
<1>2. QED BY <1>1 DEF Push

LEMMA PushPop ==
  \A m \in [Word -> Byte], sp \in Word, w \in Word :
    /\ WordAt(Push(m, sp, w), Plus(sp, -2)) = w
    /\ Plus(Plus(sp, -2), 2) = sp
<1> SUFFICES ASSUME NEW m \in [Word -> Byte], NEW sp \in Word, NEW w \in Word
             PROVE  /\ WordAt(Push(m, sp, w), Plus(sp, -2)) = w
                    /\ Plus(Plus(sp, -2), 2) = sp
  OBVIOUS
<1> DEFINE M == W * W
<1>1. M \in Nat /\ M >= 4
  <2>1. W \in Nat /\ W >= 2
    BY WidthAssumption
  <2>2. W * W >= 2 * W
    BY <2>1
  <2>3. QED BY <2>1, <2>2
<1>2. sp \in 0 .. (M - 1)
  BY DEF Word
<1> HIDE DEF M
<1> DEFINE p == (sp + (-1)) % M
           q == (sp + (-2)) % M
<1>3. /\ p = IF sp = 0 THEN M - 1 ELSE sp - 1
      /\ q = IF sp < 2 THEN sp + M - 2 ELSE sp - 2
  BY <1>1, <1>2
<1>4. /\ p \in 0 .. (M - 1) /\ q \in 0 .. (M - 1) /\ p # q
      /\ (q + 1) % M = p /\ (q + 2) % M = sp
  <2> HIDE DEF p, q
  <2>1. p \in 0 .. (M - 1) /\ q \in 0 .. (M - 1) /\ p # q
    BY <1>1, <1>2, <1>3
  <2>2. (q + 1) % M = IF q = M - 1 THEN 0 ELSE q + 1
    BY <1>1, <2>1
  <2>3. (q + 2) % M = IF q >= M - 2 THEN q + 2 - M ELSE q + 2
    BY <1>1, <2>1
  <2>4. QED BY <1>1, <1>2, <1>3, <2>1, <2>2, <2>3
<1>5. /\ p = Plus(sp, -1) /\ q = Plus(sp, -2)
      /\ p \in Word /\ q \in Word /\ p # q
      /\ Plus(q, 1) = p /\ Plus(q, 2) = sp
  BY <1>4 DEF Plus, Word, M
<1>6. WordAt(Push(m, sp, w), q) = WordOf(Lo(w), Hi(w))
  <2> HIDE DEF p, q
  <2>1. Push(m, sp, w) = [m EXCEPT ![p] = Hi(w), ![q] = Lo(w)]
    BY <1>5 DEF Push
  <2>2. Push(m, sp, w)[q] = Lo(w) /\ Push(m, sp, w)[p] = Hi(w)
    BY <1>5, <2>1
  <2>3. QED BY <1>5, <2>2 DEF WordAt
<1>7. QED BY <1>5, <1>6, SplitWord
-----------------------------------------------------------------------------
(* Arithmetic modulo the number of words.                                  *)

\* A remainder is unique.
LEMMA Residue ==
  ASSUME NEW m \in Nat, m > 0, NEW q \in Int, NEW r \in 0 .. (m - 1)
  PROVE  (m * q + r) % m = r
<1> DEFINE y == m * q + r
           d == q - (y \div m)
<1>1. y \in Int /\ m * q \in Int
  OBVIOUS
<1>2. y \div m \in Int /\ y % m \in 0 .. (m - 1) /\ y = m * (y \div m) + (y % m)
  <2> HIDE DEF y
  <2>1. QED BY <1>1
<1>3. d \in Int /\ m * d = (y % m) - r
  <2>1. m * d = m * q - m * (y \div m)
    <3> HIDE DEF y
    <3>1. QED BY <1>2
  <2>2. QED BY <1>1, <1>2, <2>1
<1>4. d = 0
  <2> HIDE DEF d, y
  <2>1. CASE d >= 1
    <3>1. m * d >= m
      BY <1>3, <2>1
    <3>2. QED BY <1>2, <1>3, <3>1
  <2>2. CASE d <= -1
    <3>1. m * d <= -m
      BY <1>3, <2>2
    <3>2. QED BY <1>2, <1>3, <3>1
  <2>3. QED BY <1>3, <2>1, <2>2
<1>5. QED
  <2>1. m * d = 0
    BY <1>4
  <2>2. y % m = r
    BY <1>2, <1>3, <2>1
  <2>3. QED BY <2>2

LEMMA ModPlus ==
  ASSUME NEW m \in Nat, m > 0, NEW x \in Int, NEW n \in Int
  PROVE  ((x % m) + n) % m = (x + n) % m
<1> DEFINE q1 == x \div m
           r1 == x % m
           q2 == (r1 + n) \div m
           r2 == (r1 + n) % m
<1>1. q1 \in Int /\ r1 \in 0 .. (m - 1) /\ x = m * q1 + r1
  OBVIOUS
<1>2. q2 \in Int /\ r2 \in 0 .. (m - 1) /\ r1 + n = m * q2 + r2
  <2> HIDE DEF r1
  <2>1. QED BY <1>1
<1>3. x + n = m * (q1 + q2) + r2
  <2> HIDE DEF q1, q2, r1, r2
  <2>1. m * (q1 + q2) = m * q1 + m * q2
    BY <1>1, <1>2
  <2>2. QED BY <1>1, <1>2, <2>1
<1>4. (m * (q1 + q2) + r2) % m = r2
  <2> HIDE DEF q1, q2, r1, r2
  <2>1. q1 + q2 \in Int
    BY <1>1, <1>2
  <2>2. QED BY <1>2, <2>1, Residue
<1>5. QED BY <1>3, <1>4

LEMMA ModMultiple ==
  ASSUME NEW m \in Nat, m > 0, NEW y \in Int, NEW q \in Int
  PROVE  (y + m * q) % m = y % m
<1> DEFINE q1 == y \div m
           r1 == y % m
<1>1. q1 \in Int /\ r1 \in 0 .. (m - 1) /\ y = m * q1 + r1
  OBVIOUS
<1>2. y + m * q = m * (q1 + q) + r1
  <2> HIDE DEF q1, r1
  <2>1. m * (q1 + q) = m * q1 + m * q
    BY <1>1
  <2>2. QED BY <1>1, <2>1
<1>3. (m * (q1 + q) + r1) % m = r1
  <2> HIDE DEF q1, r1
  <2>1. q1 + q \in Int
    BY <1>1
  <2>2. QED BY <1>1, <2>1, Residue
<1>4. QED BY <1>2, <1>3

LEMMA WordsNumber == W * W \in Nat /\ W * W >= 4
<1>1. W \in Nat /\ W >= 2
  BY WidthAssumption
<1>2. W * W >= 2 * W
  BY <1>1
<1>3. QED BY <1>1, <1>2

\* Two steps are one.
LEMMA PlusPlus == \A a, m, n \in Int : Plus(Plus(a, m), n) = Plus(a, m + n)
<1> SUFFICES ASSUME NEW a \in Int, NEW m \in Int, NEW n \in Int
             PROVE  Plus(Plus(a, m), n) = Plus(a, m + n)
  OBVIOUS
<1> DEFINE size == W * W
<1>1. size \in Nat /\ size > 0
  BY WordsNumber
<1> HIDE DEF size
<1>2. (((a + m) % size) + n) % size = ((a + m) + n) % size
  <2> DEFINE x == a + m
  <2>1. x \in Int
    OBVIOUS
  <2> HIDE DEF x
  <2>2. ((x % size) + n) % size = (x + n) % size
    BY <1>1, <2>1, ModPlus
  <2>3. QED BY <2>2 DEF x
<1>3. (a + m) + n = a + (m + n)
  OBVIOUS
<1>4. QED BY <1>2, <1>3 DEF Plus, size

LEMMA PlusSum ==
  \A a, m, n, k \in Int : m + n = k => Plus(Plus(a, m), n) = Plus(a, k)
<1> SUFFICES ASSUME NEW a \in Int, NEW m \in Int, NEW n \in Int, NEW k \in Int,
                    m + n = k
             PROVE  Plus(Plus(a, m), n) = Plus(a, k)
  OBVIOUS
<1>1. Plus(Plus(a, m), n) = Plus(a, m + n)
  BY PlusPlus
<1>2. QED BY <1>1

LEMMA PlusZero == \A a \in Word : Plus(a, 0) = a
<1> SUFFICES ASSUME NEW a \in Word PROVE Plus(a, 0) = a
  OBVIOUS
<1> DEFINE size == W * W
<1>1. size \in Nat /\ a \in 0 .. (size - 1)
  BY WordsNumber DEF Word
<1> HIDE DEF size
<1>2. (a + 0) % size = a
  BY <1>1
<1>3. QED BY <1>2 DEF Plus, size

\* Within one turn around memory no address comes twice.
LEMMA PlusInjective ==
  ASSUME NEW a \in Int, NEW m \in Int, NEW n \in Int,
         m - n \in 1 .. (W * W - 1)
  PROVE  Plus(a, m) # Plus(a, n)
<1> DEFINE size == W * W
<1>1. size \in Nat /\ size > 0 /\ m - n \in 1 .. (size - 1)
  BY WordsNumber
<1> HIDE DEF size
<1> DEFINE x == (a + n) % size
<1>2. x \in 0 .. (size - 1)
  BY <1>1
<1>3. (x + (m - n)) % size = (a + m) % size
  <2>1. (x + (m - n)) % size = ((a + n) + (m - n)) % size
    <3> DEFINE y == a + n
               d == m - n
    <3>1. y \in Int /\ d \in Int
      OBVIOUS
    <3> HIDE DEF y, d
    <3>2. ((y % size) + d) % size = (y + d) % size
      BY <1>1, <3>1, ModPlus
    <3>3. QED BY <3>2 DEF y, d
  <2>2. (a + n) + (m - n) = a + m
    OBVIOUS
  <2>3. QED BY <2>1, <2>2
<1>4. (x + (m - n)) % size # x
  <2> DEFINE d == m - n
  <2>1. d \in 1 .. (size - 1)
    BY <1>1
  <2> HIDE DEF x, d
  <2>2. (x + d) % size = IF x + d < size THEN x + d ELSE x + d - size
    BY <1>1, <1>2, <2>1
  <2>3. (x + d) % size # x
    BY <1>1, <1>2, <2>1, <2>2
  <2>4. QED BY <2>3 DEF d
<1>5. QED BY <1>3, <1>4 DEF Plus, size

\* Counting down from b, a count of zero standing for all words.
LEMMA CountDown ==
  ASSUME NEW b \in Word, NEW n \in 0 .. (W * W)
  PROVE  Plus(b, -n) = IF n <= b THEN b - n ELSE b - n + W * W
<1> DEFINE size == W * W
<1>1. size \in Nat /\ size > 0 /\ b \in 0 .. (size - 1) /\ n \in 0 .. size
  BY WordsNumber DEF Word
<1> HIDE DEF size
<1>2. (b + (-n)) % size = IF n <= b THEN b - n ELSE b - n + size
  BY <1>1
<1>3. QED BY <1>2 DEF Plus, size

\* A distance may be taken modulo the size of memory, in either direction.
LEMMA PlusDistance ==
  ASSUME NEW a \in Int, NEW x \in Int
  PROVE  /\ Plus(a, x % (W * W)) = Plus(a, x)
         /\ Plus(a, -(x % (W * W))) = Plus(a, -x)
<1> DEFINE size == W * W
           q == x \div size
           r == x % size
<1>1. size \in Nat /\ size > 0
  BY WordsNumber
<1> HIDE DEF size
<1>2. q \in Int /\ r \in Int /\ x = size * q + r
  BY <1>1
<1> HIDE DEF q, r
<1>3. (a + r) % size = (a + x) % size
  <2>1. ((a + r) + size * q) % size = (a + r) % size
    <3>1. a + r \in Int
      BY <1>2
    <3> DEFINE y == a + r
    <3>2. y \in Int
      BY <3>1
    <3> HIDE DEF y
    <3>3. (y + size * q) % size = y % size
      BY <1>1, <1>2, <3>2, ModMultiple
    <3>4. QED BY <3>3 DEF y
  <2>2. (a + r) + size * q = a + x
    BY <1>1, <1>2
  <2>3. QED BY <2>1, <2>2
<1>4. (a + (-r)) % size = (a + (-x)) % size
  <2>1. ((a + (-x)) + size * q) % size = (a + (-x)) % size
    <3> DEFINE y == a + (-x)
    <3>2. y \in Int
      OBVIOUS
    <3> HIDE DEF y
    <3>3. (y + size * q) % size = y % size
      BY <1>1, <1>2, <3>2, ModMultiple
    <3>4. QED BY <3>3 DEF y
  <2>2. (a + (-x)) + size * q = a + (-r)
    BY <1>1, <1>2
  <2>3. QED BY <2>1, <2>2
<1>5. QED BY <1>3, <1>4 DEF Plus, size, r

\* A pair of bytes comes apart as it was put together.
LEMMA WordOfSplit ==
  \A lo, hi \in Byte : Lo(WordOf(lo, hi)) = lo /\ Hi(WordOf(lo, hi)) = hi
<1> SUFFICES ASSUME NEW lo \in Byte, NEW hi \in Byte
             PROVE  Lo(WordOf(lo, hi)) = lo /\ Hi(WordOf(lo, hi)) = hi
  OBVIOUS
<1>1. W \in Nat /\ W > 0 /\ lo \in 0 .. (W - 1) /\ hi \in Int
  BY WidthAssumption DEF Byte
<1> DEFINE w == WordOf(lo, hi)
<1>2. w = W * hi + lo /\ w \in Int
  BY <1>1 DEF WordOf
<1>3. w % W = lo
  BY <1>1, <1>2, Residue
<1>4. w \div W = hi
  <2> DEFINE q == w \div W
  <2>1. q \in Int /\ w = W * q + (w % W)
    <3> HIDE DEF w
    <3>1. QED BY <1>1, <1>2
  <2>2. W * q = W * hi
    <3> HIDE DEF w
    <3>1. QED BY <1>1, <1>2, <1>3, <2>1
  <2>3. q = hi
    <3> HIDE DEF q, w
    <3>1. W * (q - hi) = 0
      BY <1>1, <2>1, <2>2
    <3>2. CASE q > hi
      <4>1. W * (q - hi) >= W
        BY <1>1, <2>1, <3>2
      <4>2. QED BY <1>1, <3>1, <4>1
    <3>3. CASE q < hi
      <4>1. W * (q - hi) <= -W
        BY <1>1, <2>1, <3>3
      <4>2. QED BY <1>1, <3>1, <4>1
    <3>4. QED BY <1>1, <2>1, <3>2, <3>3
  <2>4. QED BY <2>3
<1>5. QED BY <1>3, <1>4 DEF Lo, Hi
-----------------------------------------------------------------------------
(* A stack that does not reach the ends of memory.                         *)

\* A step that stays in memory does not wrap around.
LEMMA PlusFits == \A a, n \in Int : a + n \in Word => Plus(a, n) = a + n
<1> SUFFICES ASSUME NEW a \in Int, NEW n \in Int, a + n \in Word
             PROVE  Plus(a, n) = a + n
  OBVIOUS
<1> DEFINE size == W * W
           x == a + n
<1>1. size \in Nat /\ size > 0 /\ x \in 0 .. (size - 1)
  BY WordsNumber DEF Word
<1> HIDE DEF size, x
<1>2. x % size = x
  BY <1>1
<1>3. QED BY <1>2 DEF Plus, size, x

\* What is between zero and a word is a word.
LEMMA WordBelow == \A a \in Word, b \in Nat : b <= a => b \in Word
<1> SUFFICES ASSUME NEW a \in Word, NEW b \in Nat, b <= a PROVE b \in Word
  OBVIOUS
<1> DEFINE size == W * W
<1>1. size \in Nat /\ a \in 0 .. (size - 1)
  BY WordsNumber DEF Word
<1> HIDE DEF size
<1>2. b \in 0 .. (size - 1)
  BY <1>1
<1>3. QED BY <1>2 DEF Word, size

\* A push writes the word below the stack pointer and leaves all above alone.
LEMMA PushBelow ==
  ASSUME NEW m \in [Word -> Byte], NEW sp \in Word, sp >= 2, NEW w \in Word
  PROVE  /\ Plus(sp, -2) = sp - 2
         /\ WordAt(Push(m, sp, w), sp - 2) = w
         /\ \A a \in Word : a < sp - 2 \/ a >= sp => Push(m, sp, w)[a] = m[a]
         /\ \A a \in Word :
              a >= sp /\ a + 1 \in Word
                => WordAt(Push(m, sp, w), a) = WordAt(m, a)
<1>1. sp \in Int /\ sp - 1 \in Word /\ sp - 2 \in Word
  BY WordsNumber DEF Word
<1>2. Plus(sp, -1) = sp - 1 /\ Plus(sp, -2) = sp - 2
  BY <1>1, PlusFits
<1>3. ASSUME NEW a \in Word, a < sp - 2 \/ a >= sp
      PROVE  Push(m, sp, w)[a] = m[a]
  <2>1. a # sp - 1 /\ a # sp - 2
    BY <1>1, <1>3 DEF Word
  <2>2. QED BY <1>2, <2>1 DEF Push
<1>4. ASSUME NEW a \in Word, a >= sp, a + 1 \in Word
      PROVE  WordAt(Push(m, sp, w), a) = WordAt(m, a)
  <2>1. Plus(a, 1) = a + 1
    BY <1>4, PlusFits DEF Word
  <2>2. a + 1 >= sp
    BY <1>1, <1>4 DEF Word
  <2>3. QED BY <1>3, <1>4, <2>1, <2>2 DEF WordAt
<1>5. QED BY <1>2, <1>3, <1>4, PushPop
=============================================================================
