----------------------------- MODULE Field_proofs -----------------------------
(***************************************************************************)
(* The arithmetic of Shamir is that of a field: bytes with add and mult.   *)
(***************************************************************************)
EXTENDS Shamir, FiniteSetTheorems, TLAPS

-----------------------------------------------------------------------------
(* Two bytes are the same if adding them gives 0.                          *)

Digit(a, b, i) == ((Bit(a, i) + Bit(b, i)) % 2) * 2^i

IsLow(f, a, b) == f = [i \in 0..8 |-> IF i = 0 THEN 0 ELSE f[i-1] + Digit(a, b, i-1)]

\* The sum that add makes of its digits, step by step.
LEMMA LowExists ==
    ASSUME NEW a, NEW b
    PROVE  \E f : IsLow(f, a, b)
<1> DEFINE d(i) == Digit(a, b, i)
           s1 == 0 + d(0)
           s2 == s1 + d(1)
           s3 == s2 + d(2)
           s4 == s3 + d(3)
           s5 == s4 + d(4)
           s6 == s5 + d(5)
           s7 == s6 + d(6)
           s8 == s7 + d(7)
           f == [i \in 0..8 |-> <<0, s1, s2, s3, s4, s5, s6, s7, s8>>[i+1]]
<1> HIDE DEF d
<1>1. f = [i \in 0..8 |-> IF i = 0 THEN 0 ELSE f[i-1] + d(i-1)]
  OBVIOUS
<1> QED
  BY <1>1 DEF IsLow, d

LEMMA AddIsLow ==
    ASSUME NEW a \in Byte, NEW b \in Byte
    PROVE  \E f : IsLow(f, a, b) /\ add(a, b) = f[8]
<1> DEFINE g == CHOOSE f : IsLow(f, a, b)
<1>1. IsLow(g, a, b)
  BY LowExists
<1>2. add(a, b) = g[8]
  BY DEF add, Xor, IsLow, Digit
<1> QED
  BY <1>1, <1>2

LEMMA PowersOfTwo ==
    /\ 2^0 = 1 /\ 2^1 = 2 /\ 2^2 = 4 /\ 2^3 = 8
    /\ 2^4 = 16 /\ 2^5 = 32 /\ 2^6 = 64 /\ 2^7 = 128
OBVIOUS

LEMMA Indices == \A i \in 0..7 : i \in {0, 1, 2, 3, 4, 5, 6, 7}
OBVIOUS

LEMMA OddSum ==
    ASSUME NEW x \in {0, 1}, NEW y \in {0, 1}
    PROVE  IF x = y THEN (x + y) % 2 = 0 ELSE (x + y) % 2 = 1
OBVIOUS

LEMMA DigitIsZero ==
    ASSUME NEW a \in Byte, NEW b \in Byte, NEW i \in 0..7
    PROVE  /\ Digit(a, b, i) \in Nat
           /\ Digit(a, b, i) = 0 => Bit(a, i) = Bit(b, i)
<1> DEFINE p == 2^i
           x == Bit(a, i)
           y == Bit(b, i)
<1>1. p \in {1, 2, 4, 8, 16, 32, 64, 128}
  <2>1. i \in {0, 1, 2, 3, 4, 5, 6, 7}
    BY Indices
  <2>2. CASE i = 0
    BY <2>2, PowersOfTwo
  <2>3. CASE i = 1
    BY <2>3, PowersOfTwo
  <2>4. CASE i = 2
    BY <2>4, PowersOfTwo
  <2>5. CASE i = 3
    BY <2>5, PowersOfTwo
  <2>6. CASE i = 4
    BY <2>6, PowersOfTwo
  <2>7. CASE i = 5
    BY <2>7, PowersOfTwo
  <2>8. CASE i = 6
    BY <2>8, PowersOfTwo
  <2>9. CASE i = 7
    BY <2>9, PowersOfTwo
  <2> QED
    BY <2>1, <2>2, <2>3, <2>4, <2>5, <2>6, <2>7, <2>8, <2>9
<1>2. x = (a \div p) % 2 /\ y = (b \div p) % 2
  BY DEF Bit
<1>3. Digit(a, b, i) = ((x + y) % 2) * p
  BY DEF Digit
<1> HIDE DEF p, x, y
<1>4. a \in Nat /\ b \in Nat /\ p \in Nat /\ p > 0
  BY <1>1 DEF Byte
<1>5. a \div p \in Nat /\ b \div p \in Nat
  BY <1>1, <1>4
<1>6. x \in {0, 1} /\ y \in {0, 1}
  BY <1>2, <1>5
<1>7. CASE x = y
  <2>1. (x + y) % 2 = 0
    BY <1>6, <1>7, OddSum
  <2>2. 0 * p = 0
    BY <1>4
  <2> QED
    BY <1>3, <1>7, <2>1, <2>2 DEF x, y
<1>8. CASE x # y
  <2>1. (x + y) % 2 = 1
    BY <1>6, <1>8, OddSum
  <2>2. 1 * p = p
    BY <1>4
  <2> QED
    BY <1>3, <1>4, <2>1, <2>2
<1> QED
  BY <1>7, <1>8

\* A byte is its lowest bit and the rest.
LEMMA LowestBit ==
    ASSUME NEW a \in Nat, NEW b \in Nat, a % 2 = b % 2, a \div 2 = b \div 2
    PROVE  a = b
OBVIOUS

LEMMA HalfAgain ==
    ASSUME NEW a \in 0..255, NEW p \in {1, 2, 4, 8, 16, 32, 64}
    PROVE  (a \div p) \div 2 = a \div (2 * p)
<1>1. (a \div 1) \div 2 = a \div 2
  OBVIOUS
<1>2. (a \div 2) \div 2 = a \div 4
  OBVIOUS
<1>3. (a \div 4) \div 2 = a \div 8
  OBVIOUS
<1>4. (a \div 8) \div 2 = a \div 16
  OBVIOUS
<1>5. (a \div 16) \div 2 = a \div 32
  OBVIOUS
<1>6. (a \div 32) \div 2 = a \div 64
  OBVIOUS
<1>7. (a \div 64) \div 2 = a \div 128
  OBVIOUS
<1> QED
  BY <1>1, <1>2, <1>3, <1>4, <1>5, <1>6, <1>7

LEMMA SameBits ==
    ASSUME NEW a \in Byte, NEW b \in Byte, \A i \in 0..7 : Bit(a, i) = Bit(b, i)
    PROVE  a = b
<1> DEFINE Same(p) == a \div p = b \div p
<1>0. a \in 0..255 /\ b \in 0..255
  BY DEF Byte
<1>1. \A p \in {1, 2, 4, 8, 16, 32, 64, 128} : (a \div p) % 2 = (b \div p) % 2
  <2>1. \A i \in 0..7 : (a \div 2^i) % 2 = (b \div 2^i) % 2
    BY DEF Bit
  <2> QED
    BY <2>1, PowersOfTwo
<1>2. \A p \in {1, 2, 4, 8, 16, 32, 64, 128} : a \div p \in Nat /\ b \div p \in Nat
  BY <1>0
<1>3. \A p \in {1, 2, 4, 8, 16, 32, 64} :
         /\ (a \div p) \div 2 = a \div (2 * p)
         /\ (b \div p) \div 2 = b \div (2 * p)
  <2>1. \A p \in {1, 2, 4, 8, 16, 32, 64} : (a \div p) \div 2 = a \div (2 * p)
    BY <1>0, HalfAgain
  <2>2. \A p \in {1, 2, 4, 8, 16, 32, 64} : (b \div p) \div 2 = b \div (2 * p)
    BY <1>0, HalfAgain
  <2> QED
    BY <2>1, <2>2
<1>4. ASSUME NEW p \in {1, 2, 4, 8, 16, 32, 64}, Same(2 * p)
      PROVE  Same(p)
  <2>1. (a \div p) % 2 = (b \div p) % 2
    BY <1>1
  <2>2. (a \div p) \div 2 = (b \div p) \div 2
    BY <1>3, <1>4
  <2>3. a \div p \in Nat /\ b \div p \in Nat
    BY <1>2
  <2> QED
    BY <2>1, <2>2, <2>3, LowestBit
<1>5. Same(128)
  <2>1. a \div 128 \in {0, 1} /\ b \div 128 \in {0, 1}
    BY <1>0
  <2>2. (a \div 128) % 2 = (b \div 128) % 2
    BY <1>1
  <2> QED
    BY <2>1, <2>2
<1> HIDE DEF Same
<1>6. Same(2 * 64)
  BY <1>5
<1>7. Same(2 * 32)
  BY <1>4, <1>6
<1>8. Same(2 * 16)
  BY <1>4, <1>7
<1>9. Same(2 * 8)
  BY <1>4, <1>8
<1>10. Same(2 * 4)
  BY <1>4, <1>9
<1>11. Same(2 * 2)
  BY <1>4, <1>10
<1>12. Same(2 * 1)
  BY <1>4, <1>11
<1>13. Same(1)
  BY <1>4, <1>12
<1> QED
  BY <1>0, <1>13 DEF Same

\* What div divides by when parts are interpolated is 0 for equal x only
\* (shamir.go:72-98, 138).
LEMMA SumZero ==
    ASSUME NEW a \in Byte, NEW b \in Byte, add(a, b) = 0
    PROVE  a = b
<1> DEFINE d(i) == Digit(a, b, i)
<1>1. PICK f : IsLow(f, a, b) /\ f[8] = 0
  BY AddIsLow
<1>2. f[0] = 0 /\ \A i \in 1..8 : f[i] = f[i-1] + d(i-1)
  BY <1>1 DEF IsLow
<1>3. \A i \in 0..7 : d(i) \in Nat
  BY DigitIsZero
<1> HIDE DEF d
<1>4. /\ f[0] = 0 /\ \A i \in 0..7 : f[i+1] = f[i] + d(i)
  BY <1>2
<1>5. \A i \in 0..8 : f[i] \in Nat
  <2>1. f[0] \in Nat
    BY <1>4
  <2>2. f[1] \in Nat
    BY <1>3, <1>4, <2>1
  <2>3. f[2] \in Nat
    BY <1>3, <1>4, <2>2
  <2>4. f[3] \in Nat
    BY <1>3, <1>4, <2>3
  <2>5. f[4] \in Nat
    BY <1>3, <1>4, <2>4
  <2>6. f[5] \in Nat
    BY <1>3, <1>4, <2>5
  <2>7. f[6] \in Nat
    BY <1>3, <1>4, <2>6
  <2>8. f[7] \in Nat
    BY <1>3, <1>4, <2>7
  <2>9. f[8] \in Nat
    BY <1>3, <1>4, <2>8
  <2> QED
    BY <2>1, <2>2, <2>3, <2>4, <2>5, <2>6, <2>7, <2>8, <2>9
<1>6. ASSUME NEW i \in 0..7, f[i+1] = 0
      PROVE  d(i) = 0 /\ f[i] = 0
  <2>1. f[i] \in Nat /\ d(i) \in Nat /\ f[i+1] = f[i] + d(i)
    BY <1>3, <1>4, <1>5
  <2> QED
    BY <1>6, <2>1
<1>7. \A i \in 0..7 : d(i) = 0
  <2>1. d(7) = 0 /\ f[7] = 0
    BY <1>1, <1>6
  <2>2. d(6) = 0 /\ f[6] = 0
    BY <2>1, <1>6
  <2>3. d(5) = 0 /\ f[5] = 0
    BY <2>2, <1>6
  <2>4. d(4) = 0 /\ f[4] = 0
    BY <2>3, <1>6
  <2>5. d(3) = 0 /\ f[3] = 0
    BY <2>4, <1>6
  <2>6. d(2) = 0 /\ f[2] = 0
    BY <2>5, <1>6
  <2>7. d(1) = 0 /\ f[1] = 0
    BY <2>6, <1>6
  <2>8. d(0) = 0 /\ f[0] = 0
    BY <2>7, <1>6
  <2> QED
    BY <2>1, <2>2, <2>3, <2>4, <2>5, <2>6, <2>7, <2>8, Indices
<1> QED
  BY <1>7, DigitIsZero, SameBits DEF d

-----------------------------------------------------------------------------
(* add is addition bit by bit.                                             *)

LEMMA BitValues ==
    ASSUME NEW a \in Byte, NEW i \in 0..7
    PROVE  Bit(a, i) \in {0, 1}
<1>1. \A p \in {1, 2, 4, 8, 16, 32, 64, 128} : a \div p \in Nat
  BY DEF Byte
<1>2. 2^i \in {1, 2, 4, 8, 16, 32, 64, 128}
  <2>1. i \in {0, 1, 2, 3, 4, 5, 6, 7}
    BY Indices
  <2>2. /\ 2^0 \in {1, 2, 4, 8, 16, 32, 64, 128} /\ 2^1 \in {1, 2, 4, 8, 16, 32, 64, 128}
        /\ 2^2 \in {1, 2, 4, 8, 16, 32, 64, 128} /\ 2^3 \in {1, 2, 4, 8, 16, 32, 64, 128}
        /\ 2^4 \in {1, 2, 4, 8, 16, 32, 64, 128} /\ 2^5 \in {1, 2, 4, 8, 16, 32, 64, 128}
        /\ 2^6 \in {1, 2, 4, 8, 16, 32, 64, 128} /\ 2^7 \in {1, 2, 4, 8, 16, 32, 64, 128}
    BY PowersOfTwo
  <2> QED
    BY <2>1, <2>2, Zenon
<1>3. a \div 2^i \in Nat
  BY <1>1, <1>2
<1>4. (a \div 2^i) % 2 \in {0, 1}
  BY <1>3
<1> QED
  BY <1>4 DEF Bit

\* The eight bits of a byte, each by its own quotient.
LEMMA BitsOf ==
    ASSUME NEW a \in Byte
    PROVE  /\ Bit(a, 0) = a % 2
           /\ Bit(a, 1) = (a \div 2) % 2
           /\ Bit(a, 2) = (a \div 4) % 2
           /\ Bit(a, 3) = (a \div 8) % 2
           /\ Bit(a, 4) = (a \div 16) % 2
           /\ Bit(a, 5) = (a \div 32) % 2
           /\ Bit(a, 6) = (a \div 64) % 2
           /\ Bit(a, 7) = a \div 128
<1>1. a \div 1 = a /\ (a \div 128) % 2 = a \div 128
  BY DEF Byte
<1> QED
  BY <1>1, PowersOfTwo DEF Bit

\* Eight bits make a byte that has them.
LEMMA MakeByte ==
    ASSUME NEW x0 \in {0, 1}, NEW x1 \in {0, 1}, NEW x2 \in {0, 1}, NEW x3 \in {0, 1},
           NEW x4 \in {0, 1}, NEW x5 \in {0, 1}, NEW x6 \in {0, 1}, NEW x7 \in {0, 1},
           NEW s, s = x0 + 2*x1 + 4*x2 + 8*x3 + 16*x4 + 32*x5 + 64*x6 + 128*x7
    PROVE  /\ s \in Byte
           /\ Bit(s, 0) = x0 /\ Bit(s, 1) = x1 /\ Bit(s, 2) = x2 /\ Bit(s, 3) = x3
           /\ Bit(s, 4) = x4 /\ Bit(s, 5) = x5 /\ Bit(s, 6) = x6 /\ Bit(s, 7) = x7
<1>1. s \in Byte
  BY DEF Byte
<1>2. s % 2 = x0
  OBVIOUS
<1>3. (s \div 2) % 2 = x1
  <2>1. s \div 2 = x1 + 2*x2 + 4*x3 + 8*x4 + 16*x5 + 32*x6 + 64*x7
    OBVIOUS
  <2> QED
    BY <2>1
<1>4. (s \div 4) % 2 = x2
  <2>1. s \div 4 = x2 + 2*x3 + 4*x4 + 8*x5 + 16*x6 + 32*x7
    OBVIOUS
  <2> QED
    BY <2>1
<1>5. (s \div 8) % 2 = x3
  <2>1. s \div 8 = x3 + 2*x4 + 4*x5 + 8*x6 + 16*x7
    OBVIOUS
  <2> QED
    BY <2>1
<1>6. (s \div 16) % 2 = x4
  <2>1. s \div 16 = x4 + 2*x5 + 4*x6 + 8*x7
    OBVIOUS
  <2> QED
    BY <2>1
<1>7. (s \div 32) % 2 = x5
  <2>1. s \div 32 = x5 + 2*x6 + 4*x7
    OBVIOUS
  <2> QED
    BY <2>1
<1>8. (s \div 64) % 2 = x6
  <2>1. s \div 64 = x6 + 2*x7
    OBVIOUS
  <2> QED
    BY <2>1
<1>9. s \div 128 = x7
  OBVIOUS
<1> QED
  BY <1>1, <1>2, <1>3, <1>4, <1>5, <1>6, <1>7, <1>8, <1>9, BitsOf

LEMMA AddBits ==
    ASSUME NEW a \in Byte, NEW b \in Byte
    PROVE  /\ add(a, b) \in Byte
           /\ \A i \in 0..7 : Bit(add(a, b), i) = (Bit(a, i) + Bit(b, i)) % 2
<1> DEFINE x(i) == (Bit(a, i) + Bit(b, i)) % 2
           s == add(a, b)
<1>1. \A i \in 0..7 : x(i) \in {0, 1}
  <2>1. \A u, v \in {0, 1} : (u + v) % 2 \in {0, 1}
    OBVIOUS
  <2> QED
    BY <2>1, BitValues
<1>2. PICK f : IsLow(f, a, b) /\ s = f[8]
  BY AddIsLow
<1>3. f[0] = 0 /\ \A i \in 1..8 : f[i] = f[i-1] + x(i-1) * 2^(i-1)
  BY <1>2 DEF IsLow, Digit
<1>4. /\ x(0) \in {0, 1} /\ x(1) \in {0, 1} /\ x(2) \in {0, 1} /\ x(3) \in {0, 1}
      /\ x(4) \in {0, 1} /\ x(5) \in {0, 1} /\ x(6) \in {0, 1} /\ x(7) \in {0, 1}
  BY <1>1
<1> HIDE DEF x, s
<1>5. /\ f[1] = f[0] + x(0) * 2^0
      /\ f[2] = f[1] + x(1) * 2^1
      /\ f[3] = f[2] + x(2) * 2^2
      /\ f[4] = f[3] + x(3) * 2^3
      /\ f[5] = f[4] + x(4) * 2^4
      /\ f[6] = f[5] + x(5) * 2^5
      /\ f[7] = f[6] + x(6) * 2^6
      /\ f[8] = f[7] + x(7) * 2^7
  BY <1>3
<1>6. s = x(0) + 2*x(1) + 4*x(2) + 8*x(3) + 16*x(4) + 32*x(5) + 64*x(6) + 128*x(7)
  BY <1>2, <1>3, <1>4, <1>5, PowersOfTwo
<1>7. /\ s \in Byte
      /\ Bit(s, 0) = x(0) /\ Bit(s, 1) = x(1) /\ Bit(s, 2) = x(2) /\ Bit(s, 3) = x(3)
      /\ Bit(s, 4) = x(4) /\ Bit(s, 5) = x(5) /\ Bit(s, 6) = x(6) /\ Bit(s, 7) = x(7)
  BY <1>4, <1>6, MakeByte
<1>8. \A i \in 0..7 : Bit(s, i) = x(i)
  BY <1>7, Indices
<1> QED
  BY <1>7, <1>8 DEF s, x

LEMMA AddByte ==
    ASSUME NEW a \in Byte, NEW b \in Byte
    PROVE  add(a, b) \in Byte
BY AddBits

\* How to see what a sum is.
LEMMA AddIs ==
    ASSUME NEW a \in Byte, NEW b \in Byte, NEW c \in Byte,
           \A i \in 0..7 : Bit(c, i) = (Bit(a, i) + Bit(b, i)) % 2
    PROVE  add(a, b) = c
BY AddBits, SameBits

LEMMA ZeroBits ==
    0 \in Byte /\ \A i \in 0..7 : Bit(0, i) = 0
<1>1. 0 \in Byte
  BY DEF Byte
<1> QED
  BY <1>1, BitsOf, Indices

LEMMA AddZero ==
    ASSUME NEW a \in Byte
    PROVE  add(a, 0) = a /\ add(0, a) = a
<1>1. \A u \in {0, 1} : (u + 0) % 2 = u /\ (0 + u) % 2 = u
  OBVIOUS
<1> QED
  BY <1>1, ZeroBits, BitValues, AddIs

LEMMA AddSelf ==
    ASSUME NEW a \in Byte
    PROVE  add(a, a) = 0
<1>1. \A u \in {0, 1} : (u + u) % 2 = 0
  OBVIOUS
<1> QED
  BY <1>1, ZeroBits, BitValues, AddIs

LEMMA AddCommutes ==
    ASSUME NEW a \in Byte, NEW b \in Byte
    PROVE  add(a, b) = add(b, a)
<1>1. \A u, v \in {0, 1} : (u + v) % 2 = (v + u) % 2
  OBVIOUS
<1>2. \A i \in 0..7 : Bit(add(b, a), i) = (Bit(b, i) + Bit(a, i)) % 2
  BY AddBits
<1> QED
  BY <1>1, <1>2, BitValues, AddByte, AddIs

LEMMA AddAssociates ==
    ASSUME NEW a \in Byte, NEW b \in Byte, NEW c \in Byte
    PROVE  add(add(a, b), c) = add(a, add(b, c))
<1>1. \A u, v, w \in {0, 1} : (((u + v) % 2) + w) % 2 = (u + ((v + w) % 2)) % 2
  OBVIOUS
<1>2. add(a, b) \in Byte /\ add(b, c) \in Byte /\ add(a, add(b, c)) \in Byte
  BY AddByte
<1>3. ASSUME NEW i \in 0..7
      PROVE  Bit(add(a, add(b, c)), i) = (Bit(add(a, b), i) + Bit(c, i)) % 2
  <2>1. Bit(a, i) \in {0, 1} /\ Bit(b, i) \in {0, 1} /\ Bit(c, i) \in {0, 1}
    BY BitValues
  <2>2. Bit(add(a, b), i) = (Bit(a, i) + Bit(b, i)) % 2
    BY AddBits
  <2>3. Bit(add(b, c), i) = (Bit(b, i) + Bit(c, i)) % 2
    BY AddBits
  <2>4. Bit(add(a, add(b, c)), i) = (Bit(a, i) + Bit(add(b, c), i)) % 2
    BY <1>2, AddBits
  <2> QED
    BY <1>1, <2>1, <2>2, <2>3, <2>4
<1> QED
  BY <1>2, <1>3, AddIs

LEMMA AddPairs ==
    ASSUME NEW a \in Byte, NEW b \in Byte, NEW c \in Byte, NEW d \in Byte
    PROVE  add(add(a, b), add(c, d)) = add(add(a, c), add(b, d))
<1>1. add(c, d) \in Byte /\ add(b, d) \in Byte /\ add(b, c) \in Byte
  BY AddByte
<1>2. add(add(a, b), add(c, d)) = add(a, add(b, add(c, d)))
  BY <1>1, AddAssociates
<1>3. add(b, add(c, d)) = add(add(b, c), d)
  BY AddAssociates
<1>4. add(add(b, c), d) = add(add(c, b), d)
  BY AddCommutes
<1>5. add(add(c, b), d) = add(c, add(b, d))
  BY AddAssociates
<1>6. add(a, add(c, add(b, d))) = add(add(a, c), add(b, d))
  BY <1>1, AddAssociates
<1> QED
  BY <1>2, <1>3, <1>4, <1>5, <1>6

-----------------------------------------------------------------------------
(* Doubling, and the turns of mult's loop.                                 *)

\* Multiplication by 2: what a turn makes of r before it adds a.
Double(r) == add(IF r >= 128 THEN 27 ELSE 0, (r + r) % 256)

\* Where the bits of r go (shamir.go:109-111).
LEMMA DoubleBits ==
    ASSUME NEW r \in Byte
    PROVE  /\ Double(r) \in Byte
           /\ Bit(Double(r), 0) = Bit(r, 7)
           /\ Bit(Double(r), 1) = (Bit(r, 7) + Bit(r, 0)) % 2
           /\ Bit(Double(r), 2) = Bit(r, 1)
           /\ Bit(Double(r), 3) = (Bit(r, 7) + Bit(r, 2)) % 2
           /\ Bit(Double(r), 4) = (Bit(r, 7) + Bit(r, 3)) % 2
           /\ Bit(Double(r), 5) = Bit(r, 4)
           /\ Bit(Double(r), 6) = Bit(r, 5)
           /\ Bit(Double(r), 7) = Bit(r, 6)
<1> DEFINE c == IF r >= 128 THEN 27 ELSE 0
           d == (r + r) % 256
<1>1. c \in Byte /\ d \in Byte
  BY DEF Byte
<1>2. /\ Bit(d, 0) = 0
      /\ Bit(d, 1) = Bit(r, 0) /\ Bit(d, 2) = Bit(r, 1) /\ Bit(d, 3) = Bit(r, 2)
      /\ Bit(d, 4) = Bit(r, 3) /\ Bit(d, 5) = Bit(r, 4) /\ Bit(d, 6) = Bit(r, 5)
      /\ Bit(d, 7) = Bit(r, 6)
  <2>1. PICK q : q \in {0, 1} /\ r + r = 256 * q + d
    <3>1. CASE r < 128
      <4>1. r + r = 256 * 0 + d
        BY <3>1 DEF Byte
      <4> QED
        BY <4>1
    <3>2. CASE r >= 128
      <4>1. r + r = 256 * 1 + d
        BY <3>2 DEF Byte
      <4> QED
        BY <4>1
    <3>3. r < 128 \/ r >= 128
      BY DEF Byte
    <3> QED
      BY <3>1, <3>2, <3>3
  <2> HIDE DEF d
  <2>2. d % 2 = 0
    BY <1>1, <2>1 DEF Byte
  <2>3. (d \div 2) % 2 = r % 2
    BY <1>1, <2>1 DEF Byte
  <2>4. (d \div 4) % 2 = (r \div 2) % 2
    BY <1>1, <2>1 DEF Byte
  <2>5. (d \div 8) % 2 = (r \div 4) % 2
    BY <1>1, <2>1 DEF Byte
  <2>6. (d \div 16) % 2 = (r \div 8) % 2
    BY <1>1, <2>1 DEF Byte
  <2>7. (d \div 32) % 2 = (r \div 16) % 2
    BY <1>1, <2>1 DEF Byte
  <2>8. (d \div 64) % 2 = (r \div 32) % 2
    BY <1>1, <2>1 DEF Byte
  <2>9. d \div 128 = (r \div 64) % 2
    BY <1>1, <2>1 DEF Byte
  <2> QED
    BY <1>1, <2>2, <2>3, <2>4, <2>5, <2>6, <2>7, <2>8, <2>9, BitsOf
<1>3. /\ Bit(c, 0) = Bit(r, 7) /\ Bit(c, 1) = Bit(r, 7) /\ Bit(c, 2) = 0
      /\ Bit(c, 3) = Bit(r, 7) /\ Bit(c, 4) = Bit(r, 7) /\ Bit(c, 5) = 0
      /\ Bit(c, 6) = 0 /\ Bit(c, 7) = 0
  <2>1. CASE r >= 128
    <3>1. Bit(r, 7) = 1
      <4>1. r \div 128 = 1
        BY <2>1 DEF Byte
      <4> QED
        BY <4>1, BitsOf
    <3>2. c = 27
      BY <2>1
    <3> QED
      BY <1>1, <3>1, <3>2, BitsOf
  <2>2. CASE ~(r >= 128)
    <3>1. Bit(r, 7) = 0
      <4>1. r \div 128 = 0
        BY <2>2 DEF Byte
      <4> QED
        BY <4>1, BitsOf
    <3>2. c = 0
      BY <2>2
    <3> QED
      BY <3>1, <3>2, ZeroBits
  <2> QED
    BY <2>1, <2>2
<1>4. Double(r) = add(c, d)
  BY DEF Double
<1> HIDE DEF c, d
<1>5. Double(r) \in Byte /\ \A i \in 0..7 : Bit(Double(r), i) = (Bit(c, i) + Bit(d, i)) % 2
  BY <1>1, <1>4, AddBits
<1>6. \A u \in {0, 1} : (u + 0) % 2 = u /\ (0 + u) % 2 = u
  OBVIOUS
<1>7. \A i \in 0..7 : Bit(r, i) \in {0, 1}
  BY BitValues
<1> QED
  BY <1>2, <1>3, <1>5, <1>6, <1>7

LEMMA DoubleByte ==
    ASSUME NEW r \in Byte
    PROVE  Double(r) \in Byte
BY DoubleBits

LEMMA DoubleAdds ==
    ASSUME NEW r \in Byte, NEW s \in Byte
    PROVE  Double(add(r, s)) = add(Double(r), Double(s))
<1> DEFINE t == add(r, s)
<1>1. t \in Byte /\ Double(r) \in Byte /\ Double(s) \in Byte /\ Double(t) \in Byte
  BY AddByte, DoubleByte
<1>2. \A i \in 0..7 : Bit(t, i) = (Bit(r, i) + Bit(s, i)) % 2
  BY AddBits
<1>3. \A i \in 0..7 : Bit(r, i) \in {0, 1} /\ Bit(s, i) \in {0, 1}
  BY BitValues
<1> HIDE DEF t
<1>4. \A u, v, x, y \in {0, 1} :
          (((u + v) % 2) + ((x + y) % 2)) % 2 = (((u + x) % 2) + ((v + y) % 2)) % 2
  OBVIOUS
<1> DEFINE Adds(i) == Bit(Double(t), i) = (Bit(Double(r), i) + Bit(Double(s), i)) % 2
<1>5. Adds(0) /\ Adds(2) /\ Adds(5) /\ Adds(6) /\ Adds(7)
  BY <1>1, <1>2, DoubleBits
<1>6. Adds(1)
  BY <1>1, <1>2, <1>3, <1>4, DoubleBits
<1>7. Adds(3)
  BY <1>1, <1>2, <1>3, <1>4, DoubleBits
<1>8. Adds(4)
  BY <1>1, <1>2, <1>3, <1>4, DoubleBits
<1>9. \A i \in 0..7 : Adds(i)
  <2> HIDE DEF Adds
  <2> QED
    BY <1>5, <1>6, <1>7, <1>8, Indices
<1> QED
  BY <1>1, <1>9, AddIs DEF t

\* A bit times a byte.
LEMMA BitTimes ==
    ASSUME NEW a \in Byte, NEW bit \in {0, 1}
    PROVE  bit * a = IF bit = 1 THEN a ELSE 0
BY DEF Byte

LEMMA TurnIs ==
    ASSUME NEW a \in Byte, NEW bit \in {0, 1}, NEW r \in Byte
    PROVE  /\ Turn(a, bit, r) \in Byte
           /\ Turn(a, bit, r) = IF bit = 1 THEN add(a, Double(r)) ELSE Double(r)
<1> DEFINE c == IF r >= 128 THEN 27 ELSE 0
           d == (r + r) % 256
<1>1. c \in Byte /\ d \in Byte /\ bit * a \in Byte
  BY BitTimes, ZeroBits DEF Byte
<1>2. Turn(a, bit, r) = add(add(bit * a, c), d)
  BY DEF Turn
<1>3. Double(r) = add(c, d)
  BY DEF Double
<1> HIDE DEF c, d
<1>4. Turn(a, bit, r) = add(bit * a, Double(r))
  BY <1>1, <1>2, <1>3, AddAssociates
<1>5. Double(r) \in Byte
  BY DoubleByte
<1> QED
  BY <1>1, <1>4, <1>5, BitTimes, AddByte, AddZero

IsProduct(r, a, b) ==
    r = [i \in 0..8 |-> IF i = 0 THEN 0 ELSE Turn(a, Bit(b, 8 - i), r[i-1])]

LEMMA ProductExists ==
    ASSUME NEW a, NEW b
    PROVE  \E r : IsProduct(r, a, b)
<1> DEFINE t(i, s) == Turn(a, Bit(b, 8 - i), s)
           s1 == t(1, 0)
           s2 == t(2, s1)
           s3 == t(3, s2)
           s4 == t(4, s3)
           s5 == t(5, s4)
           s6 == t(6, s5)
           s7 == t(7, s6)
           s8 == t(8, s7)
           r == [i \in 0..8 |-> <<0, s1, s2, s3, s4, s5, s6, s7, s8>>[i+1]]
<1> HIDE DEF t
<1>1. r = [i \in 0..8 |-> IF i = 0 THEN 0 ELSE t(i, r[i-1])]
  OBVIOUS
<1> QED
  BY <1>1 DEF IsProduct, t

\* The turns of the loop, from the highest bit of b down (shamir.go:103-116).
LEMMA ProductTurns ==
    ASSUME NEW a \in Byte, NEW b \in Byte
    PROVE  \E r : /\ r[0] = 0
                  /\ \A i \in 1..8 : r[i] = Turn(a, Bit(b, 8 - i), r[i-1])
                  /\ \A i \in 0..8 : r[i] \in Byte
                  /\ mult(a, b) = r[8]
<1> DEFINE r == CHOOSE r : IsProduct(r, a, b)
<1>1. IsProduct(r, a, b)
  BY ProductExists
<1>2. mult(a, b) = r[8]
  BY DEF mult, Product, IsProduct
<1> HIDE DEF r
<1>3. r[0] = 0 /\ \A i \in 1..8 : r[i] = Turn(a, Bit(b, 8 - i), r[i-1])
  BY <1>1 DEF IsProduct
<1>4. ASSUME NEW i \in 0..7, r[i] \in Byte
      PROVE  r[i+1] \in Byte
  <2>1. i + 1 \in 1..8 /\ (i + 1) - 1 = i /\ 8 - (i + 1) \in 0..7
    OBVIOUS
  <2>2. r[i+1] = Turn(a, Bit(b, 8 - (i + 1)), r[i])
    BY <1>3, <2>1
  <2>3. Bit(b, 8 - (i + 1)) \in {0, 1}
    BY <2>1, BitValues
  <2> QED
    BY <1>4, <2>2, <2>3, TurnIs
<1>5. r[0] \in Byte /\ r[1] \in Byte /\ r[2] \in Byte /\ r[3] \in Byte /\ r[4] \in Byte
  BY <1>3, <1>4, ZeroBits
<1>6. r[5] \in Byte /\ r[6] \in Byte /\ r[7] \in Byte /\ r[8] \in Byte
  BY <1>4, <1>5
<1>7. \A i \in 0..8 : r[i] \in Byte
  BY <1>5, <1>6
<1> QED
  BY <1>2, <1>3, <1>7

LEMMA MultByte ==
    ASSUME NEW a \in Byte, NEW b \in Byte
    PROVE  mult(a, b) \in Byte
<1>1. 8 \in 0..8
  OBVIOUS
<1> QED
  BY <1>1, ProductTurns

-----------------------------------------------------------------------------
(* The laws of mult.                                                       *)

\* What holds of 0 and passes from each turn to the next holds after eight.
LEMMA EightTurns ==
    ASSUME NEW S, 0 \in S, \A i \in 0..7 : i \in S => i + 1 \in S
    PROVE  8 \in S
<1>1. 1 \in S
  OBVIOUS
<1>2. 2 \in S
  BY <1>1
<1>3. 3 \in S
  BY <1>2
<1>4. 4 \in S
  BY <1>3
<1>5. 5 \in S
  BY <1>4
<1>6. 6 \in S
  BY <1>5
<1>7. 7 \in S
  BY <1>6
<1> QED
  BY <1>7

Additive(L) ==
    /\ L \in [Byte -> Byte]
    /\ \A r, s \in Byte : L[add(r, s)] = add(L[r], L[s])

LEMMA AdditiveAtZero ==
    ASSUME NEW L, Additive(L)
    PROVE  L[0] = 0
<1>1. L[0] \in Byte /\ L[add(0, 0)] = add(L[0], L[0])
  BY ZeroBits DEF Additive
<1>2. add(0, 0) = 0
  BY ZeroBits, AddZero
<1> QED
  BY <1>1, <1>2, AddSelf

\* An additive map that doubling may follow or precede takes products of a to
\* the products of its value at a.
LEMMA MapTurns ==
    ASSUME NEW L, Additive(L), \A r \in Byte : L[Double(r)] = Double(L[r]),
           NEW a \in Byte, NEW b \in Byte
    PROVE  L[mult(a, b)] = mult(L[a], b)
<1>1. \A r \in Byte : L[r] \in Byte
  BY DEF Additive
<1>2. PICK r : /\ r[0] = 0
               /\ \A i \in 1..8 : r[i] = Turn(a, Bit(b, 8 - i), r[i-1])
               /\ \A i \in 0..8 : r[i] \in Byte
               /\ mult(a, b) = r[8]
  BY ProductTurns
<1>3. PICK s : /\ s[0] = 0
               /\ \A i \in 1..8 : s[i] = Turn(L[a], Bit(b, 8 - i), s[i-1])
               /\ \A i \in 0..8 : s[i] \in Byte
               /\ mult(L[a], b) = s[8]
  BY <1>1, ProductTurns
<1> DEFINE S == {i \in 0..8 : L[r[i]] = s[i]}
<1>4. 0 \in S
  BY <1>2, <1>3, AdditiveAtZero
<1>5. ASSUME NEW i \in 0..7, i \in S
      PROVE  i + 1 \in S
  <2> DEFINE bit == Bit(b, 8 - (i + 1))
  <2>1. i + 1 \in 1..8 /\ (i + 1) - 1 = i /\ 8 - (i + 1) \in 0..7 /\ i \in 0..8
    OBVIOUS
  <2>2. bit \in {0, 1}
    BY <2>1, BitValues
  <2>3. r[i+1] = Turn(a, bit, r[i]) /\ s[i+1] = Turn(L[a], bit, s[i])
    BY <1>2, <1>3, <2>1
  <2>4. r[i] \in Byte /\ s[i] \in Byte /\ s[i] = L[r[i]]
    BY <1>2, <1>3, <1>5, <2>1
  <2> HIDE DEF bit
  <2>5. r[i+1] = IF bit = 1 THEN add(a, Double(r[i])) ELSE Double(r[i])
    <3>1. \A x \in Byte :
             Turn(a, bit, x) = IF bit = 1 THEN add(a, Double(x)) ELSE Double(x)
      BY <2>2, TurnIs
    <3> QED
      BY <2>3, <2>4, <3>1
  <2>6. s[i+1] = IF bit = 1 THEN add(L[a], Double(s[i])) ELSE Double(s[i])
    <3>1. \A c, x \in Byte :
             Turn(c, bit, x) = IF bit = 1 THEN add(c, Double(x)) ELSE Double(x)
      BY <2>2, TurnIs
    <3> QED
      BY <1>1, <2>3, <2>4, <3>1
  <2>7. L[Double(r[i])] = Double(s[i]) /\ Double(r[i]) \in Byte
    BY <2>4, DoubleByte
  <2>8. L[add(a, Double(r[i]))] = add(L[a], Double(s[i]))
    BY <2>7 DEF Additive
  <2>9. L[r[i+1]] = s[i+1]
    BY <2>5, <2>6, <2>7, <2>8
  <2> QED
    BY <2>1, <2>9
<1>6. 8 \in S
  <2> HIDE DEF S
  <2> QED
    BY <1>4, <1>5, EightTurns
<1> QED
  BY <1>2, <1>3, <1>6

LEMMA DoubleMult ==
    ASSUME NEW a \in Byte, NEW b \in Byte
    PROVE  Double(mult(a, b)) = mult(Double(a), b)
<1> DEFINE L == [r \in Byte |-> Double(r)]
<1>1. \A r \in Byte : L[r] = Double(r) /\ Double(r) \in Byte
  BY DoubleByte
<1>2. L \in [Byte -> Byte]
  BY DoubleByte
<1>3. \A r, s \in Byte : add(r, s) \in Byte /\ Double(add(r, s)) = add(Double(r), Double(s))
  BY AddByte, DoubleAdds
<1>4. mult(a, b) \in Byte
  BY MultByte
<1> HIDE DEF L
<1>5. Additive(L)
  BY <1>1, <1>2, <1>3 DEF Additive
<1> QED
  BY <1>1, <1>4, <1>5, MapTurns

LEMMA MultAdds ==
    ASSUME NEW a \in Byte, NEW c \in Byte, NEW b \in Byte
    PROVE  mult(add(a, c), b) = add(mult(a, b), mult(c, b))
<1>1. PICK r : /\ r[0] = 0
               /\ \A i \in 1..8 : r[i] = Turn(a, Bit(b, 8 - i), r[i-1])
               /\ \A i \in 0..8 : r[i] \in Byte
               /\ mult(a, b) = r[8]
  BY ProductTurns
<1>2. PICK s : /\ s[0] = 0
               /\ \A i \in 1..8 : s[i] = Turn(c, Bit(b, 8 - i), s[i-1])
               /\ \A i \in 0..8 : s[i] \in Byte
               /\ mult(c, b) = s[8]
  BY ProductTurns
<1>3. add(a, c) \in Byte
  BY AddByte
<1>4. PICK t : /\ t[0] = 0
               /\ \A i \in 1..8 : t[i] = Turn(add(a, c), Bit(b, 8 - i), t[i-1])
               /\ \A i \in 0..8 : t[i] \in Byte
               /\ mult(add(a, c), b) = t[8]
  BY <1>3, ProductTurns
<1> DEFINE S == {i \in 0..8 : t[i] = add(r[i], s[i])}
<1>5. 0 \in S
  BY <1>1, <1>2, <1>4, ZeroBits, AddZero
<1>6. ASSUME NEW i \in 0..7, i \in S
      PROVE  i + 1 \in S
  <2> DEFINE bit == Bit(b, 8 - (i + 1))
  <2>1. i + 1 \in 1..8 /\ (i + 1) - 1 = i /\ 8 - (i + 1) \in 0..7 /\ i \in 0..8
    OBVIOUS
  <2>2. bit \in {0, 1}
    BY <2>1, BitValues
  <2>3. /\ r[i+1] = Turn(a, bit, r[i])
        /\ s[i+1] = Turn(c, bit, s[i])
        /\ t[i+1] = Turn(add(a, c), bit, t[i])
    BY <1>1, <1>2, <1>4, <2>1
  <2>4. r[i] \in Byte /\ s[i] \in Byte /\ t[i] \in Byte /\ t[i] = add(r[i], s[i])
    BY <1>1, <1>2, <1>4, <1>6, <2>1
  <2> HIDE DEF bit
  <2>5. r[i+1] = IF bit = 1 THEN add(a, Double(r[i])) ELSE Double(r[i])
    BY <2>2, <2>3, <2>4, TurnIs
  <2>6. s[i+1] = IF bit = 1 THEN add(c, Double(s[i])) ELSE Double(s[i])
    BY <2>2, <2>3, <2>4, TurnIs
  <2>7. t[i+1] = IF bit = 1 THEN add(add(a, c), Double(t[i])) ELSE Double(t[i])
    BY <1>3, <2>2, <2>3, <2>4, TurnIs
  <2>8. Double(r[i]) \in Byte /\ Double(s[i]) \in Byte
    BY <2>4, DoubleByte
  <2>9. Double(t[i]) = add(Double(r[i]), Double(s[i]))
    BY <2>4, DoubleAdds
  <2>10. add(add(a, c), Double(t[i])) = add(add(a, Double(r[i])), add(c, Double(s[i])))
    BY <2>8, <2>9, AddPairs
  <2>11. t[i+1] = add(r[i+1], s[i+1])
    BY <2>2, <2>5, <2>6, <2>7, <2>9, <2>10
  <2> QED
    BY <2>1, <2>11
<1>7. 8 \in S
  <2> HIDE DEF S
  <2> QED
    BY <1>5, <1>6, EightTurns
<1> QED
  BY <1>1, <1>2, <1>4, <1>7

LEMMA MultSwap ==
    ASSUME NEW x \in Byte, NEW a \in Byte, NEW b \in Byte
    PROVE  mult(mult(x, a), b) = mult(mult(x, b), a)
<1> DEFINE L == [y \in Byte |-> mult(y, b)]
<1>1. \A y \in Byte : L[y] = mult(y, b)
  OBVIOUS
<1>2. L \in [Byte -> Byte]
  BY MultByte
<1>3. mult(x, a) \in Byte
  BY MultByte
<1>4. \A r, s \in Byte : add(r, s) \in Byte /\ mult(add(r, s), b) = add(mult(r, b), mult(s, b))
  BY AddByte, MultAdds
<1>5. \A r \in Byte : Double(r) \in Byte /\ Double(mult(r, b)) = mult(Double(r), b)
  BY DoubleByte, DoubleMult
<1> HIDE DEF L
<1>6. Additive(L)
  BY <1>1, <1>2, <1>4 DEF Additive
<1>7. \A r \in Byte : L[Double(r)] = Double(L[r])
  BY <1>1, <1>5
<1>8. L[mult(x, a)] = mult(L[x], a)
  BY <1>6, <1>7, MapTurns
<1> QED
  BY <1>1, <1>3, <1>8

\* Adding 1 to an even byte sets its lowest bit.
LEMMA AddOne ==
    ASSUME NEW y \in Byte, y % 2 = 0
    PROVE  add(1, y) = y + 1
<1> DEFINE z == y + 1
<1>1. 1 \in Byte /\ z \in Byte
  BY DEF Byte
<1>2. z % 2 = 1
  BY DEF Byte
<1>3. /\ z \div 2 = y \div 2 /\ z \div 4 = y \div 4 /\ z \div 8 = y \div 8
      /\ z \div 16 = y \div 16 /\ z \div 32 = y \div 32 /\ z \div 64 = y \div 64
      /\ z \div 128 = y \div 128
  BY DEF Byte
<1> HIDE DEF z
<1>4. Bit(y, 0) = y % 2 /\ Bit(z, 0) = z % 2
  BY <1>1, BitsOf
<1>5. /\ Bit(y, 1) = (y \div 2) % 2 /\ Bit(y, 2) = (y \div 4) % 2
      /\ Bit(y, 3) = (y \div 8) % 2 /\ Bit(y, 4) = (y \div 16) % 2
      /\ Bit(y, 5) = (y \div 32) % 2 /\ Bit(y, 6) = (y \div 64) % 2
      /\ Bit(y, 7) = y \div 128
  BY BitsOf
<1>6. /\ Bit(z, 1) = (z \div 2) % 2 /\ Bit(z, 2) = (z \div 4) % 2
      /\ Bit(z, 3) = (z \div 8) % 2 /\ Bit(z, 4) = (z \div 16) % 2
      /\ Bit(z, 5) = (z \div 32) % 2 /\ Bit(z, 6) = (z \div 64) % 2
      /\ Bit(z, 7) = z \div 128
  BY <1>1, BitsOf
<1>7. /\ Bit(z, 1) = Bit(y, 1) /\ Bit(z, 2) = Bit(y, 2) /\ Bit(z, 3) = Bit(y, 3)
      /\ Bit(z, 4) = Bit(y, 4) /\ Bit(z, 5) = Bit(y, 5) /\ Bit(z, 6) = Bit(y, 6)
      /\ Bit(z, 7) = Bit(y, 7)
  BY <1>3, <1>5, <1>6
<1>8. Bit(1, 0) = 1 /\ \A i \in 1..7 : Bit(1, i) = 0
  BY <1>1, BitsOf, Indices
<1>9. (1 + 0) % 2 = 1 /\ \A u \in {0, 1} : (0 + u) % 2 = u
  OBVIOUS
<1>10. \A i \in 1..7 : i \in 0..7 /\ i \in {1, 2, 3, 4, 5, 6, 7}
  OBVIOUS
<1>11. ASSUME NEW i \in 1..7
       PROVE  Bit(z, i) = (Bit(1, i) + Bit(y, i)) % 2
  <2>1. Bit(z, i) = Bit(y, i)
    BY <1>7, <1>10
  <2>2. Bit(y, i) \in {0, 1} /\ Bit(1, i) = 0
    BY <1>8, <1>10, BitValues
  <2> QED
    BY <1>9, <2>1, <2>2
<1>12. \A i \in 0..7 : i = 0 \/ i \in 1..7
  OBVIOUS
<1>13. \A i \in 0..7 : Bit(z, i) = (Bit(1, i) + Bit(y, i)) % 2
  BY <1>2, <1>4, <1>8, <1>9, <1>11, <1>12
<1>14. add(1, y) = z
  BY <1>1, <1>13, AddIs
<1> QED
  BY <1>14 DEF z

\* After i turns r holds the i highest bits of b.
LEMMA OneTimes ==
    ASSUME NEW b \in Byte
    PROVE  mult(1, b) = b
<1>1. 1 \in Byte
  BY DEF Byte
<1>2. PICK r : /\ r[0] = 0
               /\ \A i \in 1..8 : r[i] = Turn(1, Bit(b, 8 - i), r[i-1])
               /\ \A i \in 0..8 : r[i] \in Byte
               /\ mult(1, b) = r[8]
  BY <1>1, ProductTurns
<1>3. ASSUME NEW x \in 0..127, NEW bit \in {0, 1}
      PROVE  Turn(1, bit, x) = 2 * x + bit
  <2> DEFINE y == 2 * x
             z == 2 * x + 1
  <2>1. x \in Byte /\ y \in Byte /\ z \in Byte /\ ~(x >= 128)
    BY DEF Byte
  <2>2. Double(x) = y
    <3>1. (x + x) % 256 = y
      OBVIOUS
    <3> QED
      BY <2>1, <3>1, AddZero DEF Double
  <2>3. add(1, y) = z
    <3>1. y % 2 = 0 /\ z = y + 1
      OBVIOUS
    <3> QED
      BY <2>1, <3>1, AddOne
  <2> QED
    BY <1>1, <2>1, <2>2, <2>3, TurnIs
<1>4. r[1] = Turn(1, Bit(b, 7), r[0]) /\ r[2] = Turn(1, Bit(b, 6), r[1])
  BY <1>2
<1>5. r[3] = Turn(1, Bit(b, 5), r[2]) /\ r[4] = Turn(1, Bit(b, 4), r[3])
  BY <1>2
<1>6. r[5] = Turn(1, Bit(b, 3), r[4]) /\ r[6] = Turn(1, Bit(b, 2), r[5])
  BY <1>2
<1>7. r[7] = Turn(1, Bit(b, 1), r[6]) /\ r[8] = Turn(1, Bit(b, 0), r[7])
  BY <1>2
<1>8. \A i \in 0..7 : Bit(b, i) \in {0, 1}
  BY BitValues
<1>9. ASSUME NEW x \in 0..127, NEW y \in 0..255, x = y \div 2
      PROVE  Turn(1, y % 2, x) = y
  <2> DEFINE bit == y % 2
  <2>1. bit \in {0, 1} /\ y = 2 * (y \div 2) + bit
    OBVIOUS
  <2> HIDE DEF bit
  <2>2. Turn(1, bit, x) = 2 * x + bit
    BY <1>3, <2>1
  <2> QED
    BY <1>9, <2>1, <2>2 DEF bit
<1>10. /\ b \in 0..255 /\ b \div 2 \in 0..127 /\ b \div 4 \in 0..127
       /\ b \div 8 \in 0..127 /\ b \div 16 \in 0..127 /\ b \div 32 \in 0..127
       /\ b \div 64 \in 0..127 /\ b \div 128 \in 0..127 /\ \A x \in 0..127 : x \in 0..255
  BY DEF Byte
<1>11. /\ b \div 4 = (b \div 2) \div 2 /\ b \div 8 = (b \div 4) \div 2
       /\ b \div 16 = (b \div 8) \div 2 /\ b \div 32 = (b \div 16) \div 2
       /\ b \div 64 = (b \div 32) \div 2 /\ b \div 128 = (b \div 64) \div 2
       /\ 0 = (b \div 128) \div 2 /\ (b \div 128) % 2 = b \div 128
  BY <1>10
<1>12. r[1] = b \div 128
  BY <1>2, <1>4, <1>9, <1>10, <1>11, BitsOf
<1>13. r[2] = b \div 64
  BY <1>4, <1>9, <1>10, <1>11, <1>12, BitsOf
<1>14. r[3] = b \div 32
  BY <1>5, <1>9, <1>10, <1>11, <1>13, BitsOf
<1>15. r[4] = b \div 16
  BY <1>5, <1>9, <1>10, <1>11, <1>14, BitsOf
<1>16. r[5] = b \div 8
  BY <1>6, <1>9, <1>10, <1>11, <1>15, BitsOf
<1>17. r[6] = b \div 4
  BY <1>6, <1>9, <1>10, <1>11, <1>16, BitsOf
<1>18. r[7] = b \div 2
  BY <1>7, <1>9, <1>10, <1>11, <1>17, BitsOf
<1>19. r[8] = b
  BY <1>7, <1>9, <1>10, <1>18, BitsOf
<1> QED
  BY <1>2, <1>19

LEMMA MultCommutes ==
    ASSUME NEW a \in Byte, NEW b \in Byte
    PROVE  mult(a, b) = mult(b, a)
<1>1. 1 \in Byte
  BY DEF Byte
<1>2. mult(mult(1, a), b) = mult(mult(1, b), a)
  BY <1>1, MultSwap
<1> QED
  BY <1>2, OneTimes

LEMMA MultAssociates ==
    ASSUME NEW a \in Byte, NEW b \in Byte, NEW c \in Byte
    PROVE  mult(mult(a, b), c) = mult(a, mult(b, c))
<1>1. mult(b, c) \in Byte
  BY MultByte
<1>2. mult(mult(b, a), c) = mult(mult(b, c), a)
  BY MultSwap
<1>3. mult(a, b) = mult(b, a) /\ mult(a, mult(b, c)) = mult(mult(b, c), a)
  BY <1>1, MultCommutes
<1> QED
  BY <1>2, <1>3

LEMMA MultDistributes ==
    ASSUME NEW a \in Byte, NEW b \in Byte, NEW c \in Byte
    PROVE  mult(a, add(b, c)) = add(mult(a, b), mult(a, c))
<1>1. add(b, c) \in Byte
  BY AddByte
<1>2. mult(a, add(b, c)) = mult(add(b, c), a)
  BY <1>1, MultCommutes
<1>3. mult(b, a) = mult(a, b) /\ mult(c, a) = mult(a, c)
  BY MultCommutes
<1>4. mult(add(b, c), a) = add(mult(b, a), mult(c, a))
  BY MultAdds
<1> QED
  BY <1>2, <1>3, <1>4

LEMMA MultZero ==
    ASSUME NEW a \in Byte
    PROVE  mult(0, a) = 0 /\ mult(a, 0) = 0
<1>1. 0 \in Byte /\ mult(0, a) \in Byte
  BY ZeroBits, MultByte
<1>2. mult(add(0, 0), a) = add(mult(0, a), mult(0, a))
  BY <1>1, MultAdds
<1>3. add(0, 0) = 0 /\ add(mult(0, a), mult(0, a)) = 0
  BY <1>1, AddZero, AddSelf
<1>4. mult(0, a) = 0
  BY <1>2, <1>3
<1> QED
  BY <1>1, <1>4, MultCommutes

LEMMA TimesOne ==
    ASSUME NEW a \in Byte
    PROVE  mult(a, 1) = a
<1>1. 1 \in Byte
  BY DEF Byte
<1> QED
  BY <1>1, OneTimes, MultCommutes

-----------------------------------------------------------------------------
(* Squares.                                                                *)

LEMMA SquareByte ==
    ASSUME NEW a \in Byte
    PROVE  sq(a) \in Byte
BY MultByte DEF sq

LEMMA SquareAdds ==
    ASSUME NEW a \in Byte, NEW b \in Byte
    PROVE  sq(add(a, b)) = add(sq(a), sq(b))
<1> DEFINE c == mult(a, b)
<1>1. add(a, b) \in Byte /\ sq(a) \in Byte /\ sq(b) \in Byte /\ c \in Byte
  BY AddByte, SquareByte, MultByte
<1>2. sq(add(a, b)) = add(mult(a, add(a, b)), mult(b, add(a, b)))
  BY <1>1, MultAdds DEF sq
<1>3. mult(a, add(a, b)) = add(sq(a), c)
  BY MultDistributes DEF sq
<1>4. mult(b, add(a, b)) = add(c, sq(b))
  <2>1. mult(b, add(a, b)) = add(mult(b, a), sq(b))
    BY MultDistributes DEF sq
  <2> QED
    BY <2>1, MultCommutes
<1> HIDE DEF c
<1>5. add(add(sq(a), c), add(c, sq(b))) = add(add(sq(a), c), add(sq(b), c))
  BY <1>1, AddCommutes
<1>6. add(add(sq(a), c), add(sq(b), c)) = add(add(sq(a), sq(b)), add(c, c))
  BY <1>1, AddPairs
<1>7. add(sq(a), sq(b)) \in Byte /\ add(c, c) = 0
  BY <1>1, AddByte, AddSelf
<1>8. add(add(sq(a), sq(b)), add(c, c)) = add(sq(a), sq(b))
  BY <1>7, AddZero
<1> QED
  BY <1>2, <1>3, <1>4, <1>5, <1>6, <1>8

LEMMA MultPairs ==
    ASSUME NEW a \in Byte, NEW b \in Byte, NEW c \in Byte, NEW d \in Byte
    PROVE  mult(mult(a, b), mult(c, d)) = mult(mult(a, c), mult(b, d))
<1>1. mult(c, d) \in Byte /\ mult(b, d) \in Byte /\ mult(b, c) \in Byte
  BY MultByte
<1>2. mult(mult(a, b), mult(c, d)) = mult(a, mult(b, mult(c, d)))
  BY <1>1, MultAssociates
<1>3. mult(b, mult(c, d)) = mult(mult(b, c), d)
  BY MultAssociates
<1>4. mult(mult(b, c), d) = mult(mult(c, b), d)
  BY MultCommutes
<1>5. mult(mult(c, b), d) = mult(c, mult(b, d))
  BY MultAssociates
<1>6. mult(a, mult(c, mult(b, d))) = mult(mult(a, c), mult(b, d))
  BY <1>1, MultAssociates
<1> QED
  BY <1>2, <1>3, <1>4, <1>5, <1>6

LEMMA SquareMult ==
    ASSUME NEW a \in Byte, NEW b \in Byte
    PROVE  sq(mult(a, b)) = mult(sq(a), sq(b))
BY MultPairs DEF sq

LEMMA TwoTimes ==
    ASSUME NEW a \in Byte
    PROVE  mult(2, a) = Double(a)
<1>1. 1 \in Byte /\ 2 \in Byte
  BY DEF Byte
<1>2. Double(1) = 2
  <2>1. (1 + 1) % 256 = 2 /\ ~(1 >= 128)
    OBVIOUS
  <2> QED
    BY <1>1, <2>1, AddZero DEF Double
<1>3. Double(mult(1, a)) = mult(Double(1), a)
  BY <1>1, DoubleMult
<1> QED
  BY <1>2, <1>3, OneTimes

LEMMA SquareOfDouble ==
    ASSUME NEW a \in Byte
    PROVE  sq(Double(a)) = Double(Double(sq(a)))
<1>1. Double(a) \in Byte /\ sq(a) \in Byte
  BY DoubleByte, SquareByte
<1>2. sq(Double(a)) = Double(mult(a, Double(a)))
  BY <1>1, DoubleMult DEF sq
<1>3. mult(a, Double(a)) = mult(Double(a), a)
  BY <1>1, MultCommutes
<1>4. mult(Double(a), a) = Double(sq(a))
  BY DoubleMult DEF sq
<1> QED
  BY <1>2, <1>3, <1>4

-----------------------------------------------------------------------------
(* Every byte is a sum of powers of 2, so what is additive is known by its  *)
(* values there.                                                           *)

Powers == {1, 2, 4, 8, 16, 32, 64, 128}

LEMMA PowerBits ==
    /\ Powers \subseteq Byte
    /\ \A j \in 0..7 : 2^j \in Powers
    /\ \A i, j \in 0..7 : Bit(2^j, i) = IF i = j THEN 1 ELSE 0
<1>1. Powers \subseteq Byte
  <2>1. ASSUME NEW p \in {1, 2, 4, 8, 16, 32, 64, 128}
        PROVE  p \in 0..255
    OBVIOUS
  <2> QED
    BY <2>1 DEF Powers, Byte
<1>2. \A j \in 0..7 : 2^j \in Powers
  <2>1. /\ 2^0 \in Powers /\ 2^1 \in Powers /\ 2^2 \in Powers /\ 2^3 \in Powers
        /\ 2^4 \in Powers /\ 2^5 \in Powers /\ 2^6 \in Powers /\ 2^7 \in Powers
    BY PowersOfTwo DEF Powers
  <2> QED
    BY <2>1, Indices, Zenon
<1> DEFINE Only(n, j) == \A i \in 0..7 : Bit(n, i) = IF i = j THEN 1 ELSE 0
<1>3. Only(1, 0)
  <2>1. 1 \in Byte
    BY DEF Byte
  <2> QED
    BY <2>1, BitsOf, Indices
<1>4. Only(2, 1)
  <2>1. 2 \in Byte
    BY DEF Byte
  <2> QED
    BY <2>1, BitsOf, Indices
<1>5. Only(4, 2)
  <2>1. 4 \in Byte
    BY DEF Byte
  <2> QED
    BY <2>1, BitsOf, Indices
<1>6. Only(8, 3)
  <2>1. 8 \in Byte
    BY DEF Byte
  <2> QED
    BY <2>1, BitsOf, Indices
<1>7. Only(16, 4)
  <2>1. 16 \in Byte
    BY DEF Byte
  <2> QED
    BY <2>1, BitsOf, Indices
<1>8. Only(32, 5)
  <2>1. 32 \in Byte
    BY DEF Byte
  <2> QED
    BY <2>1, BitsOf, Indices
<1>9. Only(64, 6)
  <2>1. 64 \in Byte
    BY DEF Byte
  <2> QED
    BY <2>1, BitsOf, Indices
<1>10. Only(128, 7)
  <2>1. 128 \in Byte
    BY DEF Byte
  <2> QED
    BY <2>1, BitsOf, Indices
<1>11. \A j \in 0..7 : Only(2^j, j)
  <2> HIDE DEF Only
  <2>1. Only(2^0, 0) /\ Only(2^1, 1) /\ Only(2^2, 2) /\ Only(2^3, 3)
    BY <1>3, <1>4, <1>5, <1>6, PowersOfTwo
  <2>2. Only(2^4, 4) /\ Only(2^5, 5) /\ Only(2^6, 6) /\ Only(2^7, 7)
    BY <1>7, <1>8, <1>9, <1>10, PowersOfTwo
  <2> QED
    BY <2>1, <2>2, Indices, Zenon
<1> QED
  BY <1>1, <1>2, <1>11

\* A sum of eight bytes, bit by bit.
LEMMA SumOfEight ==
    ASSUME NEW e \in [0..7 -> Byte], NEW i \in 0..7, NEW k \in 0..7,
           \A j \in 0..7 : j # k => Bit(e[j], i) = 0
    PROVE  Bit(add(add(add(e[0], e[1]), add(e[2], e[3])),
                   add(add(e[4], e[5]), add(e[6], e[7]))), i) = Bit(e[k], i)
<1> DEFINE x(j) == Bit(e[j], i)
<1>1. \A j \in 0..7 : e[j] \in Byte /\ x(j) \in {0, 1} /\ (j # k => x(j) = 0)
  BY BitValues
<1> DEFINE p(j) == add(e[j], e[j+1])
           u == add(p(0), p(2))
           v == add(p(4), p(6))
<1>2. \A y, z \in Byte : add(y, z) \in Byte /\ Bit(add(y, z), i) = (Bit(y, i) + Bit(z, i)) % 2
  BY AddBits
<1>3. /\ p(0) \in Byte /\ Bit(p(0), i) = (x(0) + x(1)) % 2
      /\ p(2) \in Byte /\ Bit(p(2), i) = (x(2) + x(3)) % 2
      /\ p(4) \in Byte /\ Bit(p(4), i) = (x(4) + x(5)) % 2
      /\ p(6) \in Byte /\ Bit(p(6), i) = (x(6) + x(7)) % 2
  BY <1>1, <1>2
<1> HIDE DEF x, p
<1>4. /\ u \in Byte /\ Bit(u, i) = (((x(0) + x(1)) % 2) + ((x(2) + x(3)) % 2)) % 2
      /\ v \in Byte /\ Bit(v, i) = (((x(4) + x(5)) % 2) + ((x(6) + x(7)) % 2)) % 2
  <2>1. u \in Byte /\ Bit(u, i) = (Bit(p(0), i) + Bit(p(2), i)) % 2
    BY <1>2, <1>3, Zenon
  <2>2. v \in Byte /\ Bit(v, i) = (Bit(p(4), i) + Bit(p(6), i)) % 2
    BY <1>2, <1>3, Zenon
  <2> HIDE DEF u, v
  <2> QED
    BY <1>1, <1>3, <2>1, <2>2
<1> HIDE DEF u, v
<1>5. k \in {0, 1, 2, 3, 4, 5, 6, 7}
  BY Indices
<1>6. x(0) + x(1) + x(2) + x(3) + x(4) + x(5) + x(6) + x(7) = x(k)
  BY <1>1, <1>5
<1>7. Bit(add(u, v), i) = (Bit(u, i) + Bit(v, i)) % 2
  BY <1>2, <1>4
<1>8. Bit(add(u, v), i) = x(k)
  BY <1>1, <1>4, <1>6, <1>7
<1> QED
  BY <1>8 DEF u, v, p, x

LEMMA PowersSpan ==
    ASSUME NEW S, 0 \in S, Powers \subseteq S,
           \A a, b \in Byte : a \in S /\ b \in S => add(a, b) \in S
    PROVE  Byte \subseteq S
<1> SUFFICES ASSUME NEW b \in Byte
             PROVE  b \in S
  OBVIOUS
<1> DEFINE e == [j \in 0..7 |-> IF Bit(b, j) = 1 THEN 2^j ELSE 0]
           s == add(add(add(e[0], e[1]), add(e[2], e[3])),
                    add(add(e[4], e[5]), add(e[6], e[7])))
<1>1. \A j \in 0..7 : e[j] \in Byte /\ e[j] \in S
  BY PowerBits, ZeroBits
<1>2. \A i, j \in 0..7 : Bit(e[j], i) = IF i = j THEN Bit(b, j) ELSE 0
  <2>1. ASSUME NEW i \in 0..7, NEW j \in 0..7
        PROVE  Bit(e[j], i) = IF i = j THEN Bit(b, j) ELSE 0
    <3>1. CASE Bit(b, j) = 1
      BY <3>1, PowerBits
    <3>2. CASE Bit(b, j) = 0
      BY <3>2, ZeroBits
    <3> QED
      BY <3>1, <3>2, BitValues
  <2> QED
    BY <2>1
<1>3. e \in [0..7 -> Byte]
  BY PowerBits, ZeroBits
<1> HIDE DEF e
<1>4. s \in Byte /\ s \in S
  <2> DEFINE T == S \cap Byte
  <2>1. \A x, y \in T : add(x, y) \in T
    BY AddByte
  <2>2. /\ e[0] \in T /\ e[1] \in T /\ e[2] \in T /\ e[3] \in T
        /\ e[4] \in T /\ e[5] \in T /\ e[6] \in T /\ e[7] \in T
    BY <1>1
  <2> HIDE DEF T
  <2>3. s \in T
    BY <2>1, <2>2
  <2> QED
    BY <2>3 DEF T
<1>5. ASSUME NEW i \in 0..7
      PROVE  Bit(s, i) = Bit(b, i)
  <2>1. \A j \in 0..7 : j # i => Bit(e[j], i) = 0
    BY <1>2
  <2>2. Bit(s, i) = Bit(e[i], i)
    BY <1>3, <2>1, SumOfEight
  <2> QED
    BY <1>2, <2>2
<1> HIDE DEF s
<1>6. s = b
  BY <1>4, <1>5, SameBits
<1> QED
  BY <1>4, <1>6

-----------------------------------------------------------------------------
(* The bits of a square, and the bytes that are their own square.          *)

LEMMA PowerDoubles ==
    /\ Double(1) = 2 /\ Double(2) = 4 /\ Double(4) = 8 /\ Double(8) = 16
    /\ Double(16) = 32 /\ Double(32) = 64 /\ Double(64) = 128
<1>1. ASSUME NEW x \in 1..64
      PROVE  Double(x) = 2 * x
  <2>1. 2 * x \in Byte /\ (x + x) % 256 = 2 * x /\ ~(x >= 128)
    BY DEF Byte
  <2> QED
    BY <2>1, AddZero DEF Double
<1> QED
  BY <1>1

\* Beyond x^7 the polynomial of the field takes over.
LEMMA HighDoubles ==
    /\ Double(128) = 27 /\ Double(27) = 54 /\ Double(54) = 108 /\ Double(108) = 216
    /\ Double(216) = 171 /\ Double(171) = 77 /\ Double(77) = 154
<1>1. ASSUME NEW x \in 1..127
      PROVE  Double(x) = 2 * x
  <2>1. 2 * x \in Byte /\ (x + x) % 256 = 2 * x /\ ~(x >= 128)
    BY DEF Byte
  <2> QED
    BY <2>1, AddZero DEF Double
<1>2. 27 \in Byte /\ 176 \in Byte /\ 86 \in Byte /\ 171 \in Byte /\ 77 \in Byte
  BY DEF Byte
<1>3. Double(128) = 27
  <2>1. (128 + 128) % 256 = 0 /\ 128 >= 128
    OBVIOUS
  <2> QED
    BY <1>2, <2>1, AddZero DEF Double
<1> DEFINE Sums(a, b, c) ==
        \A i \in 0..7 : Bit(c, i) = (Bit(a, i) + Bit(b, i)) % 2
<1>4. /\ Bit(27, 0) = 1 /\ Bit(27, 1) = 1 /\ Bit(27, 2) = 0 /\ Bit(27, 3) = 1
      /\ Bit(27, 4) = 1 /\ Bit(27, 5) = 0 /\ Bit(27, 6) = 0 /\ Bit(27, 7) = 0
  BY <1>2, BitsOf
<1>5. /\ Bit(176, 0) = 0 /\ Bit(176, 1) = 0 /\ Bit(176, 2) = 0 /\ Bit(176, 3) = 0
      /\ Bit(176, 4) = 1 /\ Bit(176, 5) = 1 /\ Bit(176, 6) = 0 /\ Bit(176, 7) = 1
  BY <1>2, BitsOf
<1>6. /\ Bit(171, 0) = 1 /\ Bit(171, 1) = 1 /\ Bit(171, 2) = 0 /\ Bit(171, 3) = 1
      /\ Bit(171, 4) = 0 /\ Bit(171, 5) = 1 /\ Bit(171, 6) = 0 /\ Bit(171, 7) = 1
  BY <1>2, BitsOf
<1>7. /\ Bit(86, 0) = 0 /\ Bit(86, 1) = 1 /\ Bit(86, 2) = 1 /\ Bit(86, 3) = 0
      /\ Bit(86, 4) = 1 /\ Bit(86, 5) = 0 /\ Bit(86, 6) = 1 /\ Bit(86, 7) = 0
  BY <1>2, BitsOf
<1>8. /\ Bit(77, 0) = 1 /\ Bit(77, 1) = 0 /\ Bit(77, 2) = 1 /\ Bit(77, 3) = 1
      /\ Bit(77, 4) = 0 /\ Bit(77, 5) = 0 /\ Bit(77, 6) = 1 /\ Bit(77, 7) = 0
  BY <1>2, BitsOf
<1>9. Sums(27, 176, 171)
  BY <1>4, <1>5, <1>6, Indices
<1>10. Sums(27, 86, 77)
  BY <1>4, <1>7, <1>8, Indices
<1>11. Double(216) = 171
  <2>1. (216 + 216) % 256 = 176 /\ 216 >= 128
    OBVIOUS
  <2>2. add(27, 176) = 171
    BY <1>2, <1>9, AddIs
  <2> QED
    BY <2>1, <2>2 DEF Double
<1>12. Double(171) = 77
  <2>1. (171 + 171) % 256 = 86 /\ 171 >= 128
    OBVIOUS
  <2>2. add(27, 86) = 77
    BY <1>2, <1>10, AddIs
  <2> QED
    BY <2>1, <2>2 DEF Double
<1> QED
  BY <1>1, <1>3, <1>11, <1>12

LEMMA SquarePowers ==
    /\ sq(1) = 1 /\ sq(2) = 4 /\ sq(4) = 16 /\ sq(8) = 64
    /\ sq(16) = 27 /\ sq(32) = 108 /\ sq(64) = 171 /\ sq(128) = 154
<1>1. 1 \in Byte /\ 2 \in Byte /\ 4 \in Byte /\ 8 \in Byte /\ 16 \in Byte /\ 32 \in Byte /\ 64 \in Byte
  BY DEF Byte
<1>2. sq(1) = 1
  BY <1>1, OneTimes DEF sq
<1>3. sq(2) = 4
  BY <1>1, <1>2, PowerDoubles, SquareOfDouble
<1>4. sq(4) = 16
  BY <1>1, <1>3, PowerDoubles, SquareOfDouble
<1>5. sq(8) = 64
  BY <1>1, <1>4, PowerDoubles, SquareOfDouble
<1>6. sq(16) = 27
  BY <1>1, <1>5, PowerDoubles, HighDoubles, SquareOfDouble
<1>7. sq(32) = 108
  BY <1>1, <1>6, PowerDoubles, HighDoubles, SquareOfDouble
<1>8. sq(64) = 171
  BY <1>1, <1>7, PowerDoubles, HighDoubles, SquareOfDouble
<1>9. sq(128) = 154
  BY <1>1, <1>8, PowerDoubles, HighDoubles, SquareOfDouble
<1> QED
  BY <1>2, <1>3, <1>4, <1>5, <1>6, <1>7, <1>8, <1>9

\* That the bits of s are those of the square of e.
SquareBitsOf(s, e) ==
    /\ Bit(s, 0) = (Bit(e, 0) + Bit(e, 4) + Bit(e, 6)) % 2
    /\ Bit(s, 1) = (Bit(e, 4) + Bit(e, 6) + Bit(e, 7)) % 2
    /\ Bit(s, 2) = (Bit(e, 1) + Bit(e, 5)) % 2
    /\ Bit(s, 3) = (Bit(e, 4) + Bit(e, 5) + Bit(e, 6) + Bit(e, 7)) % 2
    /\ Bit(s, 4) = (Bit(e, 2) + Bit(e, 4) + Bit(e, 7)) % 2
    /\ Bit(s, 5) = (Bit(e, 5) + Bit(e, 6)) % 2
    /\ Bit(s, 6) = (Bit(e, 3) + Bit(e, 5)) % 2
    /\ Bit(s, 7) = (Bit(e, 6) + Bit(e, 7)) % 2

LEMMA SquareBitsAdd ==
    ASSUME NEW s \in Byte, NEW e \in Byte, NEW t \in Byte, NEW f \in Byte,
           SquareBitsOf(s, e), SquareBitsOf(t, f)
    PROVE  SquareBitsOf(add(s, t), add(e, f))
<1>1. ASSUME NEW u \in {0, 1}, NEW v \in {0, 1}, NEW w \in {0, 1}, NEW x \in {0, 1},
             NEW uu \in {0, 1}, NEW vv \in {0, 1}, NEW ww \in {0, 1}, NEW xx \in {0, 1}
      PROVE  /\ (((u + v) % 2) + ((uu + vv) % 2)) % 2 = (((u + uu) % 2) + ((v + vv) % 2)) % 2
             /\ (((u + v + w) % 2) + ((uu + vv + ww) % 2)) % 2
                  = (((u + uu) % 2) + ((v + vv) % 2) + ((w + ww) % 2)) % 2
             /\ (((u + v + w + x) % 2) + ((uu + vv + ww + xx) % 2)) % 2
                  = (((u + uu) % 2) + ((v + vv) % 2) + ((w + ww) % 2) + ((x + xx) % 2)) % 2
  OBVIOUS
<1>2. \A i \in 0..7 : /\ Bit(add(s, t), i) = (Bit(s, i) + Bit(t, i)) % 2
                      /\ Bit(add(e, f), i) = (Bit(e, i) + Bit(f, i)) % 2
                      /\ Bit(e, i) \in {0, 1} /\ Bit(f, i) \in {0, 1}
  BY AddBits, BitValues
<1>3. Bit(add(s, t), 0) = (Bit(add(e, f), 0) + Bit(add(e, f), 4) + Bit(add(e, f), 6)) % 2
  BY <1>1, <1>2 DEF SquareBitsOf
<1>4. Bit(add(s, t), 1) = (Bit(add(e, f), 4) + Bit(add(e, f), 6) + Bit(add(e, f), 7)) % 2
  BY <1>1, <1>2 DEF SquareBitsOf
<1>5. Bit(add(s, t), 2) = (Bit(add(e, f), 1) + Bit(add(e, f), 5)) % 2
  BY <1>1, <1>2 DEF SquareBitsOf
<1>6. Bit(add(s, t), 3) = (Bit(add(e, f), 4) + Bit(add(e, f), 5) + Bit(add(e, f), 6)
                                             + Bit(add(e, f), 7)) % 2
  BY <1>1, <1>2 DEF SquareBitsOf
<1>7. Bit(add(s, t), 4) = (Bit(add(e, f), 2) + Bit(add(e, f), 4) + Bit(add(e, f), 7)) % 2
  BY <1>1, <1>2 DEF SquareBitsOf
<1>8. Bit(add(s, t), 5) = (Bit(add(e, f), 5) + Bit(add(e, f), 6)) % 2
  BY <1>1, <1>2 DEF SquareBitsOf
<1>9. Bit(add(s, t), 6) = (Bit(add(e, f), 3) + Bit(add(e, f), 5)) % 2
  BY <1>1, <1>2 DEF SquareBitsOf
<1>10. Bit(add(s, t), 7) = (Bit(add(e, f), 6) + Bit(add(e, f), 7)) % 2
  BY <1>1, <1>2 DEF SquareBitsOf
<1> QED
  BY <1>3, <1>4, <1>5, <1>6, <1>7, <1>8, <1>9, <1>10 DEF SquareBitsOf

LEMMA SquareBits ==
    ASSUME NEW e \in Byte
    PROVE  SquareBitsOf(sq(e), e)
<1> DEFINE S == {x \in Byte : SquareBitsOf(sq(x), x)}
<1>1. 0 \in S
  <2>1. sq(0) = 0
    BY ZeroBits, MultZero DEF sq
  <2>2. SquareBitsOf(0, 0)
    BY ZeroBits DEF SquareBitsOf
  <2> QED
    BY <2>1, <2>2, ZeroBits
<1>2. \A a, b \in Byte : a \in S /\ b \in S => add(a, b) \in S
  <2>1. ASSUME NEW a \in Byte, NEW b \in Byte, a \in S, b \in S
        PROVE  add(a, b) \in S
    <3>1. sq(a) \in Byte /\ sq(b) \in Byte /\ add(a, b) \in Byte
      BY SquareByte, AddByte
    <3>2. SquareBitsOf(add(sq(a), sq(b)), add(a, b))
      BY <2>1, <3>1, SquareBitsAdd
    <3> QED
      BY <3>1, <3>2, SquareAdds
  <2> QED
    BY <2>1
<1>3. 1 \in S /\ 2 \in S /\ 4 \in S /\ 8 \in S /\ 16 \in S /\ 32 \in S /\ 64 \in S /\ 128 \in S
  <2>1. /\ 1 \in Byte /\ 2 \in Byte /\ 4 \in Byte /\ 8 \in Byte
        /\ 16 \in Byte /\ 32 \in Byte /\ 64 \in Byte /\ 128 \in Byte
        /\ 27 \in Byte /\ 108 \in Byte /\ 171 \in Byte /\ 154 \in Byte
    BY DEF Byte
  <2>2. SquareBitsOf(1, 1)
    BY <2>1, BitsOf DEF SquareBitsOf
  <2>3. SquareBitsOf(4, 2)
    BY <2>1, BitsOf DEF SquareBitsOf
  <2>4. SquareBitsOf(16, 4)
    BY <2>1, BitsOf DEF SquareBitsOf
  <2>5. SquareBitsOf(64, 8)
    BY <2>1, BitsOf DEF SquareBitsOf
  <2>6. SquareBitsOf(27, 16)
    BY <2>1, BitsOf DEF SquareBitsOf
  <2>7. SquareBitsOf(108, 32)
    BY <2>1, BitsOf DEF SquareBitsOf
  <2>8. SquareBitsOf(171, 64)
    BY <2>1, BitsOf DEF SquareBitsOf
  <2>9. SquareBitsOf(154, 128)
    BY <2>1, BitsOf DEF SquareBitsOf
  <2> QED
    BY <2>1, <2>2, <2>3, <2>4, <2>5, <2>6, <2>7, <2>8, <2>9, SquarePowers
<1>4. Byte \subseteq S
  <2> HIDE DEF S
  <2>1. Powers \subseteq S
    BY <1>3 DEF Powers
  <2> QED
    BY <1>1, <1>2, <2>1, PowersSpan
<1> QED
  BY <1>4

LEMMA OwnSquare ==
    ASSUME NEW e \in Byte, sq(e) = e
    PROVE  e = 0 \/ e = 1
<1> DEFINE x(i) == Bit(e, i)
<1>1. SquareBitsOf(e, e)
  BY SquareBits
<1>2. \A i \in 0..7 : x(i) \in {0, 1}
  BY BitValues
<1>3. /\ x(0) = (x(0) + x(4) + x(6)) % 2
      /\ x(1) = (x(4) + x(6) + x(7)) % 2
      /\ x(2) = (x(1) + x(5)) % 2
      /\ x(3) = (x(4) + x(5) + x(6) + x(7)) % 2
      /\ x(4) = (x(2) + x(4) + x(7)) % 2
      /\ x(5) = (x(5) + x(6)) % 2
      /\ x(6) = (x(3) + x(5)) % 2
      /\ x(7) = (x(6) + x(7)) % 2
  BY <1>1 DEF SquareBitsOf
<1> HIDE DEF x
<1>4. x(6) = 0 /\ x(4) = 0
  BY <1>2, <1>3
<1>5. x(1) = x(7) /\ x(2) = x(7) /\ x(3) = x(5)
  BY <1>2, <1>3, <1>4
<1>6. x(5) = 0 /\ x(7) = 0
  BY <1>2, <1>3, <1>4, <1>5
<1>7. \A i \in 1..7 : x(i) = 0
  BY <1>4, <1>5, <1>6
<1>8. 1 \in Byte /\ Bit(1, 0) = 1 /\ \A i \in 1..7 : Bit(1, i) = 0
  <2>1. 1 \in Byte
    BY DEF Byte
  <2> QED
    BY <2>1, BitsOf
<1>9. \A i \in 0..7 : i = 0 \/ i \in 1..7
  OBVIOUS
<1>10. CASE x(0) = 0
  <2>1. \A i \in 0..7 : Bit(e, i) = Bit(0, i)
    BY <1>7, <1>9, <1>10, ZeroBits DEF x
  <2> QED
    BY <2>1, ZeroBits, SameBits
<1>11. CASE x(0) = 1
  <2>1. \A i \in 0..7 : Bit(e, i) = Bit(1, i)
    BY <1>7, <1>8, <1>9, <1>11 DEF x
  <2> QED
    BY <1>8, <2>1, SameBits
<1> QED
  BY <1>2, <1>10, <1>11

-----------------------------------------------------------------------------
(* Squaring eight times gives a byte back.                                 *)

LEMMA SquareIs ==
    ASSUME NEW e \in Byte, NEW s \in Byte, SquareBitsOf(s, e)
    PROVE  sq(e) = s
<1>1. SquareBitsOf(sq(e), e) /\ sq(e) \in Byte
  BY SquareBits, SquareByte
<1>2. /\ Bit(sq(e), 0) = Bit(s, 0) /\ Bit(sq(e), 1) = Bit(s, 1)
      /\ Bit(sq(e), 2) = Bit(s, 2) /\ Bit(sq(e), 3) = Bit(s, 3)
      /\ Bit(sq(e), 4) = Bit(s, 4) /\ Bit(sq(e), 5) = Bit(s, 5)
      /\ Bit(sq(e), 6) = Bit(s, 6) /\ Bit(sq(e), 7) = Bit(s, 7)
  BY <1>1, Zenon DEF SquareBitsOf
<1>3. \A i \in 0..7 : Bit(sq(e), i) = Bit(s, i)
  BY <1>2, Indices, Zenon
<1> QED
  BY <1>1, <1>3, SameBits

LEMMA SquaresOfTwo ==
    /\ sq(2) = 4 /\ sq(4) = 16 /\ sq(16) = 27 /\ sq(27) = 94
    /\ sq(94) = 228 /\ sq(228) = 77 /\ sq(77) = 250 /\ sq(250) = 2
<1>1. /\ 2 \in Byte /\ 27 \in Byte /\ 94 \in Byte /\ 228 \in Byte /\ 77 \in Byte /\ 250 \in Byte
  BY DEF Byte
<1>2. SquareBitsOf(94, 27)
  BY <1>1, BitsOf DEF SquareBitsOf
<1>3. SquareBitsOf(228, 94)
  BY <1>1, BitsOf DEF SquareBitsOf
<1>4. SquareBitsOf(77, 228)
  BY <1>1, BitsOf DEF SquareBitsOf
<1>5. SquareBitsOf(250, 77)
  BY <1>1, BitsOf DEF SquareBitsOf
<1>6. SquareBitsOf(2, 250)
  BY <1>1, BitsOf DEF SquareBitsOf
<1> QED
  BY <1>1, <1>2, <1>3, <1>4, <1>5, <1>6, SquarePowers, SquareIs

EighthSquare(a) == sq(sq(sq(sq(sq(sq(sq(sq(a))))))))

LEMMA EighthSquareMult ==
    ASSUME NEW a \in Byte, NEW b \in Byte
    PROVE  /\ EighthSquare(a) \in Byte
           /\ EighthSquare(mult(a, b)) = mult(EighthSquare(a), EighthSquare(b))
           /\ EighthSquare(add(a, b)) = add(EighthSquare(a), EighthSquare(b))
<1> DEFINE a2 == sq(sq(a))
           a4 == sq(sq(a2))
           a6 == sq(sq(a4))
           b2 == sq(sq(b))
           b4 == sq(sq(b2))
           b6 == sq(sq(b4))
<1>1. ASSUME NEW x \in Byte, NEW y \in Byte
      PROVE  /\ sq(sq(x)) \in Byte
             /\ sq(sq(mult(x, y))) = mult(sq(sq(x)), sq(sq(y)))
             /\ sq(sq(add(x, y))) = add(sq(sq(x)), sq(sq(y)))
  <2>1. sq(x) \in Byte /\ sq(y) \in Byte
    BY SquareByte
  <2>2. sq(mult(x, y)) = mult(sq(x), sq(y)) /\ sq(add(x, y)) = add(sq(x), sq(y))
    BY SquareMult, SquareAdds
  <2> QED
    BY <2>1, <2>2, SquareByte, SquareMult, SquareAdds
<1>2. /\ a2 \in Byte /\ b2 \in Byte
      /\ sq(sq(mult(a, b))) = mult(a2, b2) /\ sq(sq(add(a, b))) = add(a2, b2)
  BY <1>1
<1>3. EighthSquare(a) = sq(sq(a6)) /\ EighthSquare(b) = sq(sq(b6))
  BY DEF EighthSquare
<1> HIDE DEF a2, b2
<1>4. /\ a4 \in Byte /\ b4 \in Byte
      /\ sq(sq(mult(a2, b2))) = mult(a4, b4) /\ sq(sq(add(a2, b2))) = add(a4, b4)
  BY <1>1, <1>2
<1> HIDE DEF a4, b4
<1>5. /\ a6 \in Byte /\ b6 \in Byte
      /\ sq(sq(mult(a4, b4))) = mult(a6, b6) /\ sq(sq(add(a4, b4))) = add(a6, b6)
  BY <1>1, <1>4
<1> HIDE DEF a6, b6
<1>6. /\ sq(sq(a6)) \in Byte
      /\ sq(sq(mult(a6, b6))) = mult(sq(sq(a6)), sq(sq(b6)))
      /\ sq(sq(add(a6, b6))) = add(sq(sq(a6)), sq(sq(b6)))
  BY <1>1, <1>5
<1>7. EighthSquare(mult(a, b)) = sq(sq(mult(a6, b6)))
  BY <1>2, <1>4, <1>5 DEF EighthSquare
<1>8. EighthSquare(add(a, b)) = sq(sq(add(a6, b6)))
  BY <1>2, <1>4, <1>5 DEF EighthSquare
<1> QED
  BY <1>3, <1>6, <1>7, <1>8

\* It fixes 1 and 2, and what fixes them fixes all that turns make of them.
LEMMA EighthSquareFixes ==
    ASSUME NEW a \in Byte
    PROVE  EighthSquare(a) = a
<1> DEFINE L == [x \in Byte |-> EighthSquare(x)]
<1>1. 1 \in Byte /\ 2 \in Byte
  BY DEF Byte
<1>2. EighthSquare(1) = 1 /\ EighthSquare(2) = 2
  BY SquarePowers, SquaresOfTwo DEF EighthSquare
<1>3. \A x \in Byte : L[x] = EighthSquare(x) /\ EighthSquare(x) \in Byte
  BY EighthSquareMult
<1>4. L \in [Byte -> Byte]
  BY <1>3
<1> HIDE DEF L
<1>5. ASSUME NEW x \in Byte, NEW y \in Byte
      PROVE  L[add(x, y)] = add(L[x], L[y])
  <2>1. add(x, y) \in Byte
    BY AddByte
  <2>2. EighthSquare(add(x, y)) = add(EighthSquare(x), EighthSquare(y))
    BY EighthSquareMult
  <2> QED
    BY <1>3, <2>1, <2>2
<1>6. Additive(L)
  BY <1>4, <1>5 DEF Additive
<1>7. ASSUME NEW x \in Byte
      PROVE  L[Double(x)] = Double(L[x])
  <2>1. Double(x) = mult(2, x) /\ Double(x) \in Byte
    BY TwoTimes, DoubleByte
  <2>2. EighthSquare(mult(2, x)) = mult(2, EighthSquare(x))
    BY <1>1, <1>2, EighthSquareMult
  <2> QED
    BY <1>3, <2>1, <2>2, TwoTimes
<1>8. L[mult(1, a)] = mult(L[1], a)
  BY <1>1, <1>6, <1>7, MapTurns
<1> QED
  BY <1>1, <1>2, <1>3, <1>8, OneTimes

-----------------------------------------------------------------------------
(* inverse.                                                                *)

\* The product of the squares q1, ..., q7 of a is a^254; the chain of the code
\* computes it in another order (shamir.go:118-134).
LEMMA InverseIs ==
    ASSUME NEW a \in Byte,
           NEW q1, q1 = sq(a), NEW q2, q2 = sq(q1), NEW q3, q3 = sq(q2), NEW q4, q4 = sq(q3),
           NEW q5, q5 = sq(q4), NEW q6, q6 = sq(q5), NEW q7, q7 = sq(q6)
    PROVE  inverse(a) = mult(q1, mult(q2, mult(q3, mult(q4, mult(q5, mult(q6, q7))))))
<1> DEFINE c1 == mult(a, sq(a))
           b1 == sq(sq(c1))
           c2 == mult(b1, c1)
           b2 == mult(sq(sq(b1)), c2)
           b3 == mult(a, sq(b2))
<1>1. inverse(a) = sq(b3)
  BY DEF inverse, Inverses
<1>2. /\ q1 \in Byte /\ q2 \in Byte /\ q3 \in Byte /\ q4 \in Byte
      /\ q5 \in Byte /\ q6 \in Byte /\ q7 \in Byte
  <2>1. q1 \in Byte
    BY SquareByte
  <2>2. q2 \in Byte
    BY <2>1, SquareByte
  <2>3. q3 \in Byte
    BY <2>2, SquareByte
  <2>4. q4 \in Byte
    BY <2>3, SquareByte
  <2>5. q5 \in Byte
    BY <2>4, SquareByte
  <2>6. q6 \in Byte
    BY <2>5, SquareByte
  <2> QED
    BY <2>1, <2>2, <2>3, <2>4, <2>5, <2>6, SquareByte
<1>3. c1 = mult(a, q1) /\ c1 \in Byte
  BY <1>2, MultByte
<1> HIDE DEF c1
<1>4. sq(c1) = mult(q1, q2) /\ sq(c1) \in Byte
  BY <1>2, <1>3, SquareMult, MultByte
<1>5. b1 = mult(q2, q3) /\ b1 \in Byte
  BY <1>2, <1>4, SquareMult, MultByte
<1> HIDE DEF b1
<1>6. sq(b1) = mult(q3, q4) /\ sq(b1) \in Byte
  BY <1>2, <1>5, SquareMult, MultByte
<1>7. sq(sq(b1)) = mult(q4, q5) /\ sq(sq(b1)) \in Byte
  BY <1>2, <1>6, SquareMult, MultByte
<1>8. c2 \in Byte /\ sq(c2) = mult(mult(q3, q4), mult(q1, q2)) /\ sq(c2) \in Byte
  BY <1>3, <1>4, <1>5, <1>6, SquareMult, SquareByte, MultByte
<1>9. sq(sq(c2)) = mult(mult(q4, q5), mult(q2, q3))
  <2>1. mult(q3, q4) \in Byte /\ mult(q1, q2) \in Byte
    BY <1>2, MultByte
  <2>2. sq(mult(q3, q4)) = mult(q4, q5) /\ sq(mult(q1, q2)) = mult(q2, q3)
    BY <1>2, SquareMult
  <2> QED
    BY <1>8, <2>1, <2>2, SquareMult
<1> HIDE DEF c2
<1>10. b2 \in Byte /\ sq(b2) \in Byte
  BY <1>7, <1>8, MultByte, SquareByte
<1>11. sq(b2) = mult(mult(q5, q6), sq(c2))
  <2>1. sq(mult(q4, q5)) = mult(q5, q6)
    BY <1>2, SquareMult
  <2> QED
    BY <1>7, <1>8, <2>1, SquareMult
<1>12. sq(sq(b2)) = mult(mult(q6, q7), mult(mult(q4, q5), mult(q2, q3)))
  <2>1. sq(mult(q5, q6)) = mult(q6, q7) /\ mult(q5, q6) \in Byte
    BY <1>2, SquareMult, MultByte
  <2> QED
    BY <1>8, <1>9, <1>11, <2>1, SquareMult
<1> HIDE DEF b2
<1>13. sq(b3) = mult(q1, sq(sq(b2)))
  BY <1>10, SquareMult
<1> HIDE DEF b3
<1> DEFINE t6 == mult(q6, q7)
           t5 == mult(q5, t6)
           t4 == mult(q4, t5)
<1>14. t6 \in Byte /\ t5 \in Byte /\ t4 \in Byte /\ mult(q4, q5) \in Byte /\ mult(q2, q3) \in Byte
  BY <1>2, MultByte
<1>15. sq(sq(b2)) = mult(mult(mult(q4, q5), mult(q2, q3)), t6)
  <2>1. mult(mult(q4, q5), mult(q2, q3)) \in Byte
    BY <1>14, MultByte
  <2> QED
    BY <1>12, <1>14, <2>1, MultCommutes
<1>16. mult(mult(q4, q5), t6) = t4
  BY <1>2, <1>14, MultAssociates
<1> HIDE DEF t6, t5, t4
<1>17. mult(mult(mult(q4, q5), mult(q2, q3)), t6) = mult(t4, mult(q2, q3))
  BY <1>14, <1>16, MultSwap
<1>18. mult(t4, mult(q2, q3)) = mult(mult(q2, q3), t4)
  BY <1>14, MultCommutes
<1>19. mult(mult(q2, q3), t4) = mult(q2, mult(q3, t4))
  BY <1>2, <1>14, MultAssociates
<1> QED
  BY <1>1, <1>13, <1>15, <1>17, <1>18, <1>19 DEF t6, t5, t4

LEMMA InverseByte ==
    ASSUME NEW a \in Byte
    PROVE  inverse(a) \in Byte
<1> DEFINE c1 == mult(a, sq(a))
           b1 == sq(sq(c1))
           c2 == mult(b1, c1)
           b2 == mult(sq(sq(b1)), c2)
           b3 == mult(a, sq(b2))
<1>1. inverse(a) = sq(b3)
  BY DEF inverse, Inverses
<1>2. c1 \in Byte
  BY SquareByte, MultByte
<1> HIDE DEF c1
<1>3. b1 \in Byte
  BY <1>2, SquareByte
<1> HIDE DEF b1
<1>4. c2 \in Byte /\ sq(sq(b1)) \in Byte
  BY <1>2, <1>3, SquareByte, MultByte
<1> HIDE DEF c2
<1>5. b2 \in Byte
  BY <1>4, MultByte
<1> HIDE DEF b2
<1>6. b3 \in Byte
  BY <1>5, SquareByte, MultByte
<1> HIDE DEF b3
<1> QED
  BY <1>1, <1>6, SquareByte

\* The product of a byte that is not 0 and what inverse returns is its own square,
\* and not 0.
LEMMA InverseWorks ==
    ASSUME NEW a \in Byte, a # 0
    PROVE  mult(a, inverse(a)) = 1
<1>1. PICK q1 \in Byte : q1 = sq(a)
  BY SquareByte
<1>2. PICK q2 \in Byte : q2 = sq(q1)
  BY SquareByte
<1>3. PICK q3 \in Byte : q3 = sq(q2)
  BY SquareByte
<1>4. PICK q4 \in Byte : q4 = sq(q3)
  BY SquareByte
<1>5. PICK q5 \in Byte : q5 = sq(q4)
  BY SquareByte
<1>6. PICK q6 \in Byte : q6 = sq(q5)
  BY SquareByte
<1>7. PICK q7 \in Byte : q7 = sq(q6)
  BY SquareByte
<1>8. sq(q7) = a
  BY <1>1, <1>2, <1>3, <1>4, <1>5, <1>6, <1>7, EighthSquareFixes DEF EighthSquare
<1>9. PICK t6 \in Byte : t6 = mult(q6, q7)
  BY MultByte
<1>10. PICK t5 \in Byte : t5 = mult(q5, t6)
  BY MultByte
<1>11. PICK t4 \in Byte : t4 = mult(q4, t5)
  BY MultByte
<1>12. PICK t3 \in Byte : t3 = mult(q3, t4)
  BY MultByte
<1>13. PICK t2 \in Byte : t2 = mult(q2, t3)
  BY MultByte
<1>14. PICK t1 \in Byte : t1 = mult(q1, t2)
  BY MultByte
<1>15. PICK p \in Byte : p = mult(a, t1)
  BY MultByte
<1>16. inverse(a) = t1
  BY <1>1, <1>2, <1>3, <1>4, <1>5, <1>6, <1>7, <1>9, <1>10, <1>11, <1>12, <1>13, <1>14, InverseIs
<1>17. ASSUME NEW x \in Byte, NEW y \in Byte, NEW z \in Byte, NEW u \in Byte, NEW v \in Byte,
              sq(x) = y, sq(z) = mult(u, a), z = mult(y, u), v = mult(x, z)
       PROVE  sq(v) = mult(z, a)
  <2>1. sq(v) = mult(y, mult(u, a))
    BY <1>17, SquareMult
  <2>2. mult(y, mult(u, a)) = mult(mult(y, u), a)
    BY MultAssociates
  <2> QED
    BY <1>17, <2>1, <2>2
<1>18. sq(t6) = mult(q7, a)
  BY <1>7, <1>8, <1>9, SquareMult
<1>19. sq(t5) = mult(t6, a)
  BY <1>6, <1>9, <1>10, <1>17, <1>18
<1>20. sq(t4) = mult(t5, a)
  BY <1>5, <1>10, <1>11, <1>17, <1>19
<1>21. sq(t3) = mult(t4, a)
  BY <1>4, <1>11, <1>12, <1>17, <1>20
<1>22. sq(t2) = mult(t3, a)
  BY <1>3, <1>12, <1>13, <1>17, <1>21
<1>23. sq(t1) = mult(t2, a)
  BY <1>2, <1>13, <1>14, <1>17, <1>22
<1>24. sq(p) = mult(t1, a)
  BY <1>1, <1>14, <1>15, <1>17, <1>23
<1>25. sq(p) = p
  BY <1>15, <1>24, MultCommutes
<1>26. ASSUME NEW x \in Byte, NEW y \in Byte
       PROVE  mult(x, mult(x, y)) = mult(sq(x), y)
  BY MultAssociates DEF sq
<1>27. mult(a, p) = a
  <2>1. mult(a, p) = mult(q1, mult(q1, t2))
    BY <1>1, <1>14, <1>15, <1>26
  <2>2. mult(q1, mult(q1, t2)) = mult(q2, mult(q2, t3))
    BY <1>2, <1>13, <1>26
  <2>3. mult(q2, mult(q2, t3)) = mult(q3, mult(q3, t4))
    BY <1>3, <1>12, <1>26
  <2>4. mult(q3, mult(q3, t4)) = mult(q4, mult(q4, t5))
    BY <1>4, <1>11, <1>26
  <2>5. mult(q4, mult(q4, t5)) = mult(q5, mult(q5, t6))
    BY <1>5, <1>10, <1>26
  <2>6. mult(q5, mult(q5, t6)) = mult(q6, mult(q6, q7))
    BY <1>6, <1>9, <1>26
  <2>7. mult(q6, mult(q6, q7)) = mult(q7, q7)
    BY <1>7, <1>26
  <2>8. mult(q7, q7) = a
    BY <1>8 DEF sq
  <2> QED
    BY <2>1, <2>2, <2>3, <2>4, <2>5, <2>6, <2>7, <2>8
<1>28. p # 0
  BY <1>27, MultZero
<1> QED
  BY <1>15, <1>16, <1>25, <1>28, OwnSquare

\* Division undoes multiplication, by mult itself.
LEMMA DivideThenMultiply ==
    ASSUME NEW a \in Byte, NEW b \in Byte, b # 0
    PROVE  div(a, b) \in Byte /\ mult(div(a, b), b) = a
<1>1. CASE a = 0
  BY <1>1, MultZero, ZeroBits DEF div
<1>2. CASE a # 0
  <2>1. inverse(b) \in Byte
    BY InverseByte
  <2>2. div(a, b) = mult(a, inverse(b))
    BY <1>2 DEF div
  <2>3. mult(mult(a, inverse(b)), b) = mult(a, mult(inverse(b), b))
    BY <2>1, MultAssociates
  <2>4. mult(inverse(b), b) = 1
    BY <2>1, MultCommutes, InverseWorks
  <2> QED
    BY <2>1, <2>2, <2>3, <2>4, MultByte, TimesOne
<1> QED
  BY <1>1, <1>2

LEMMA NoZeroDivisors ==
    ASSUME NEW a \in Byte, NEW b \in Byte, mult(a, b) = 0
    PROVE  a = 0 \/ b = 0
<1> SUFFICES ASSUME a # 0
             PROVE  b = 0
  OBVIOUS
<1>1. inverse(a) \in Byte
  BY InverseByte
<1>2. mult(mult(inverse(a), a), b) = mult(inverse(a), mult(a, b))
  BY <1>1, MultAssociates
<1>3. mult(inverse(a), a) = 1
  BY <1>1, InverseWorks, MultCommutes
<1>4. mult(inverse(a), 0) = 0
  BY <1>1, MultZero
<1> QED
  BY <1>2, <1>3, <1>4, OneTimes

-----------------------------------------------------------------------------
(* The field by its definition: FieldProduct is mult.                      *)

\* Adding two bytes takes the exponents that one of them has and the other has not.
LEMMA ExponentsAdd ==
    ASSUME NEW a \in Byte, NEW b \in Byte
    PROVE  Exponents(add(a, b)) = SymDiff(Exponents(a), Exponents(b))
<1>1. \A i \in 0..7 : Bit(add(a, b), i) = (Bit(a, i) + Bit(b, i)) % 2
  BY AddBits
<1>2. \A i \in 0..7 : Bit(a, i) \in {0, 1} /\ Bit(b, i) \in {0, 1}
  BY BitValues
<1>3. \A u, v \in {0, 1} : (u + v) % 2 = 1 <=> ~(u = 1 <=> v = 1)
  OBVIOUS
<1>4. \A i \in 0..7 : Bit(add(a, b), i) = 1 <=> ~(Bit(a, i) = 1 <=> Bit(b, i) = 1)
  BY <1>1, <1>2, <1>3
<1> QED
  BY <1>4 DEF Exponents, SymDiff

LEMMA ExponentsZero == Exponents(0) = {}
BY ZeroBits DEF Exponents

LEMMA ExponentsPower ==
    ASSUME NEW i \in 0..7
    PROVE  Exponents(2^i) = {i}
<1>1. \A j \in 0..7 : Bit(2^i, j) = 1 <=> i = j
  <2>1. \A j \in 0..7 : Bit(2^i, j) = IF j = i THEN 1 ELSE 0
    BY PowerBits, Zenon
  <2> DEFINE b(j) == Bit(2^i, j)
  <2>2. \A j \in 0..7 : b(j) = IF j = i THEN 1 ELSE 0
    BY <2>1
  <2> HIDE DEF b
  <2>3. \A j \in 0..7 : b(j) = 1 <=> i = j
    BY <2>2
  <2> QED
    BY <2>3 DEF b
<1> DEFINE b(j) == Bit(2^i, j)
<1>2. \A j \in 0..7 : b(j) = 1 <=> i = j
  BY <1>1
<1>3. Exponents(2^i) = {j \in 0..7 : b(j) = 1}
  BY DEF Exponents
<1> HIDE DEF b
<1> QED
  BY <1>2, <1>3

Odd(S) == Cardinality(S) % 2 = 1

LEMMA OddSymDiff ==
    ASSUME NEW S, NEW T, IsFiniteSet(S), IsFiniteSet(T)
    PROVE  Odd(SymDiff(S, T)) <=> ~(Odd(S) <=> Odd(T))
<1> DEFINE A == S \ T
           B == T \ S
           C == S \cap T
           a == Cardinality(A)
           b == Cardinality(B)
           c == Cardinality(C)
<1>1. IsFiniteSet(A) /\ IsFiniteSet(B) /\ IsFiniteSet(C)
  <2>1. IsFiniteSet(A)
    BY FS_Difference
  <2>2. IsFiniteSet(B)
    BY FS_Difference
  <2>3. C \subseteq S
    OBVIOUS
  <2> QED
    BY <2>1, <2>2, <2>3, FS_Subset
<1>2. a \in Nat /\ b \in Nat /\ c \in Nat
  BY <1>1, FS_CardinalityType
<1>7. Cardinality({}) = 0
  BY FS_EmptySet
<1>3. Cardinality(S) = a + c
  <2>1. A \cup C = S /\ A \cap C = {}
    OBVIOUS
  <2> HIDE DEF A, C
  <2>2. Cardinality(A \cup C) = a + c - Cardinality({})
    BY <1>1, <2>1, FS_Union
  <2> HIDE DEF a, c
  <2>3. Cardinality(A \cup C) = a + c
    BY <1>2, <1>7, <2>2
  <2> QED
    BY <2>1, <2>3, Zenon
<1>4. Cardinality(T) = b + c
  <2>1. B \cup C = T /\ B \cap C = {}
    OBVIOUS
  <2> HIDE DEF B, C
  <2>2. Cardinality(B \cup C) = b + c - Cardinality({})
    BY <1>1, <2>1, FS_Union
  <2> HIDE DEF b, c
  <2>3. Cardinality(B \cup C) = b + c
    BY <1>2, <1>7, <2>2
  <2> QED
    BY <2>1, <2>3, Zenon
<1>5. Cardinality(SymDiff(S, T)) = a + b
  <2>1. SymDiff(S, T) = A \cup B /\ A \cap B = {}
    BY DEF SymDiff
  <2> HIDE DEF A, B
  <2>2. Cardinality(A \cup B) = a + b - Cardinality({})
    BY <1>1, <2>1, FS_Union
  <2> HIDE DEF a, b
  <2>3. Cardinality(A \cup B) = a + b
    BY <1>2, <1>7, <2>2
  <2> QED
    BY <2>1, <2>3, Zenon
<1> HIDE DEF a, b, c
<1>6. (a + b) % 2 = 1 <=> ~((a + c) % 2 = 1 <=> (b + c) % 2 = 1)
  BY <1>2
<1> QED
  BY <1>3, <1>4, <1>5, <1>6 DEF Odd

\* The terms of the product of two polynomials, before it is reduced.
Pairs(A, B, d) == {i \in A : d - i \in B}

Terms(A, B) == {d \in 0..14 : Odd(Pairs(A, B, d))}

LEMMA PairsAdd ==
    ASSUME NEW A, NEW B, NEW C, NEW d
    PROVE  /\ Pairs(SymDiff(A, B), C, d) = SymDiff(Pairs(A, C, d), Pairs(B, C, d))
           /\ Pairs(C, SymDiff(A, B), d) = SymDiff(Pairs(C, A, d), Pairs(C, B, d))
BY DEF Pairs, SymDiff

LEMMA TermsAdd ==
    ASSUME NEW A, NEW B, NEW C, IsFiniteSet(A), IsFiniteSet(B), IsFiniteSet(C)
    PROVE  /\ Terms(SymDiff(A, B), C) = SymDiff(Terms(A, C), Terms(B, C))
           /\ Terms(C, SymDiff(A, B)) = SymDiff(Terms(C, A), Terms(C, B))
<1>1. ASSUME NEW d \in 0..14
      PROVE  /\ IsFiniteSet(Pairs(A, C, d)) /\ IsFiniteSet(Pairs(B, C, d))
             /\ IsFiniteSet(Pairs(C, A, d)) /\ IsFiniteSet(Pairs(C, B, d))
  <2>1. Pairs(A, C, d) \subseteq A /\ Pairs(B, C, d) \subseteq B
    BY DEF Pairs
  <2>2. Pairs(C, A, d) \subseteq C /\ Pairs(C, B, d) \subseteq C
    BY DEF Pairs
  <2> QED
    BY <2>1, <2>2, FS_Subset
<1>2. ASSUME NEW d \in 0..14
      PROVE  /\ Odd(Pairs(SymDiff(A, B), C, d)) <=> ~(Odd(Pairs(A, C, d)) <=> Odd(Pairs(B, C, d)))
             /\ Odd(Pairs(C, SymDiff(A, B), d)) <=> ~(Odd(Pairs(C, A, d)) <=> Odd(Pairs(C, B, d)))
  BY <1>1, PairsAdd, OddSymDiff
<1>3. Terms(SymDiff(A, B), C) = SymDiff(Terms(A, C), Terms(B, C))
  BY <1>2, Zenon DEF Terms, SymDiff
<1>4. Terms(C, SymDiff(A, B)) = SymDiff(Terms(C, A), Terms(C, B))
  BY <1>2, Zenon DEF Terms, SymDiff
<1> QED
  BY <1>3, <1>4

LEMMA TermsPower ==
    ASSUME NEW i \in 0..7, NEW j \in 0..7
    PROVE  Terms({i}, {j}) = {i + j}
<1>1. i + j \in 0..14
  OBVIOUS
<1>2. ASSUME NEW d \in 0..14, d # i + j
      PROVE  Pairs({i}, {j}, d) = {}
  BY <1>2 DEF Pairs
<1>3. Pairs({i}, {j}, i + j) = {i}
  BY DEF Pairs
<1>4. ~Odd({}) /\ Odd({i})
  <2>1. Cardinality({}) = 0 /\ Cardinality({i}) = 1
    BY FS_EmptySet, FS_Singleton
  <2>2. 0 % 2 # 1 /\ 1 % 2 = 1
    OBVIOUS
  <2> QED
    BY <2>1, <2>2, Zenon DEF Odd
<1>5. \A d \in 0..14 : Odd(Pairs({i}, {j}, d)) <=> d = i + j
  BY <1>2, <1>3, <1>4
<1> QED
  BY <1>1, <1>5 DEF Terms

\* A polynomial, without the term of degree d + 1.
Reduced(d, S) ==
    IF d + 1 \in S THEN SymDiff(S, {d+1, d-3, d-4, d-6, d-7}) ELSE S

IsReduction(r, S) ==
    r = [d \in 7..14 |-> Reduced(d, IF d = 14 THEN S ELSE r[d+1])]

LEMMA ModuloIs ==
    ASSUME NEW S
    PROVE  Modulo(S) = Reduced(7, Reduced(8, Reduced(9, Reduced(10, Reduced(11,
                           Reduced(12, Reduced(13, Reduced(14, S))))))))
<1> DEFINE s14 == Reduced(14, S)
           s13 == Reduced(13, s14)
           s12 == Reduced(12, s13)
           s11 == Reduced(11, s12)
           s10 == Reduced(10, s11)
           s9 == Reduced(9, s10)
           s8 == Reduced(8, s9)
           s7 == Reduced(7, s8)
           f == [d \in 7..14 |-> <<s7, s8, s9, s10, s11, s12, s13, s14>>[d-6]]
           g == CHOOSE r : IsReduction(r, S)
<1>1. IsReduction(f, S)
  <2> SUFFICES ASSUME NEW d \in 7..14
               PROVE  f[d] = Reduced(d, IF d = 14 THEN S ELSE f[d+1])
    BY DEF IsReduction
  <2>1. d \in {7, 8, 9, 10, 11, 12, 13, 14}
    OBVIOUS
  <2>2. /\ f[7] = s7 /\ f[8] = s8 /\ f[9] = s9 /\ f[10] = s10
        /\ f[11] = s11 /\ f[12] = s12 /\ f[13] = s13 /\ f[14] = s14
    <3> HIDE DEF s7, s8, s9, s10, s11, s12, s13, s14
    <3> QED
      OBVIOUS
  <2> HIDE DEF f
  <2> QED
    BY <2>1, <2>2
<1>2. IsReduction(g, S)
  BY <1>1
<1>3. Modulo(S) = g[7]
  BY Zenon DEF Modulo, IsReduction, Reduced
<1> HIDE DEF g, f
<1>4. /\ g[14] = Reduced(14, S) /\ g[13] = Reduced(13, g[14]) /\ g[12] = Reduced(12, g[13])
      /\ g[11] = Reduced(11, g[12]) /\ g[10] = Reduced(10, g[11]) /\ g[9] = Reduced(9, g[10])
      /\ g[8] = Reduced(8, g[9]) /\ g[7] = Reduced(7, g[8])
  <2>1. \A d \in 7..14 : g[d] = Reduced(d, IF d = 14 THEN S ELSE g[d+1])
    BY <1>2 DEF IsReduction
  <2> QED
    BY <2>1
<1> QED
  BY <1>3, <1>4, Zenon

LEMMA ReducedAdds ==
    ASSUME NEW d, NEW S, NEW T
    PROVE  Reduced(d, SymDiff(S, T)) = SymDiff(Reduced(d, S), Reduced(d, T))
<1> DEFINE e == d + 1
           C == {d+1, d-3, d-4, d-6, d-7}
<1>1. \A X : Reduced(d, X) = IF e \in X THEN SymDiff(X, C) ELSE X
  BY DEF Reduced
<1> HIDE DEF e, C
<1>2. CASE e \in S /\ e \in T
  BY <1>1, <1>2 DEF SymDiff
<1>3. CASE e \in S /\ e \notin T
  BY <1>1, <1>3 DEF SymDiff
<1>4. CASE e \notin S /\ e \in T
  BY <1>1, <1>4 DEF SymDiff
<1>5. CASE e \notin S /\ e \notin T
  BY <1>1, <1>5 DEF SymDiff
<1> QED
  BY <1>2, <1>3, <1>4, <1>5

LEMMA ModuloAdds ==
    ASSUME NEW S, NEW T
    PROVE  Modulo(SymDiff(S, T)) = SymDiff(Modulo(S), Modulo(T))
<1> DEFINE r14(X) == Reduced(14, X)
           r13(X) == Reduced(13, r14(X))
           r12(X) == Reduced(12, r13(X))
           r11(X) == Reduced(11, r12(X))
           r10(X) == Reduced(10, r11(X))
           r9(X) == Reduced(9, r10(X))
           r8(X) == Reduced(8, r9(X))
           r7(X) == Reduced(7, r8(X))
           U == SymDiff(S, T)
<1>1. r14(U) = SymDiff(r14(S), r14(T))
  BY ReducedAdds
<1> HIDE DEF r14
<1>2. r13(U) = SymDiff(r13(S), r13(T))
  BY <1>1, ReducedAdds
<1> HIDE DEF r13
<1>3. r12(U) = SymDiff(r12(S), r12(T))
  BY <1>2, ReducedAdds
<1> HIDE DEF r12
<1>4. r11(U) = SymDiff(r11(S), r11(T))
  BY <1>3, ReducedAdds
<1> HIDE DEF r11
<1>5. r10(U) = SymDiff(r10(S), r10(T))
  BY <1>4, ReducedAdds
<1> HIDE DEF r10
<1>6. r9(U) = SymDiff(r9(S), r9(T))
  BY <1>5, ReducedAdds
<1> HIDE DEF r9
<1>7. r8(U) = SymDiff(r8(S), r8(T))
  BY <1>6, ReducedAdds
<1> HIDE DEF r8
<1>8. r7(U) = SymDiff(r7(S), r7(T))
  BY <1>7, ReducedAdds
<1> HIDE DEF r7
<1>9. \A X : Modulo(X) = r7(X)
  BY ModuloIs, Zenon DEF r7, r8, r9, r10, r11, r12, r13, r14
<1> QED
  BY <1>8, <1>9

LEMMA FieldProductIs ==
    ASSUME NEW a \in Byte, NEW b \in Byte
    PROVE  FieldProduct(a, b) = Modulo(Terms(Exponents(a), Exponents(b)))
BY DEF FieldProduct, Terms, Pairs, Odd

LEMMA FieldProductAdds ==
    ASSUME NEW a \in Byte, NEW b \in Byte, NEW c \in Byte
    PROVE  /\ FieldProduct(add(a, b), c) = SymDiff(FieldProduct(a, c), FieldProduct(b, c))
           /\ FieldProduct(c, add(a, b)) = SymDiff(FieldProduct(c, a), FieldProduct(c, b))
<1> DEFINE A == Exponents(a)
           B == Exponents(b)
           C == Exponents(c)
<1>1. add(a, b) \in Byte
  BY AddByte
<1>2. IsFiniteSet(A) /\ IsFiniteSet(B) /\ IsFiniteSet(C)
  <2>1. IsFiniteSet(0..7)
    <3>1. \A m, n \in Int : IsFiniteSet(m..n)
      BY FS_Interval
    <3>2. 0 \in Int /\ 7 \in Int
      OBVIOUS
    <3> QED
      BY <3>1, <3>2, Zenon
  <2>2. A \subseteq 0..7 /\ B \subseteq 0..7 /\ C \subseteq 0..7
    BY DEF Exponents
  <2> QED
    BY <2>1, <2>2, FS_Subset
<1>3. Exponents(add(a, b)) = SymDiff(A, B)
  BY ExponentsAdd
<1> HIDE DEF A, B, C
<1>4. /\ Terms(SymDiff(A, B), C) = SymDiff(Terms(A, C), Terms(B, C))
      /\ Terms(C, SymDiff(A, B)) = SymDiff(Terms(C, A), Terms(C, B))
  BY <1>2, TermsAdd
<1>5. /\ Modulo(Terms(SymDiff(A, B), C)) = SymDiff(Modulo(Terms(A, C)), Modulo(Terms(B, C)))
      /\ Modulo(Terms(C, SymDiff(A, B))) = SymDiff(Modulo(Terms(C, A)), Modulo(Terms(C, B)))
  BY <1>4, ModuloAdds
<1>6. /\ FieldProduct(add(a, b), c) = Modulo(Terms(SymDiff(A, B), C))
      /\ FieldProduct(c, add(a, b)) = Modulo(Terms(C, SymDiff(A, B)))
  BY <1>1, <1>3, FieldProductIs DEF C
<1>7. /\ FieldProduct(a, c) = Modulo(Terms(A, C)) /\ FieldProduct(b, c) = Modulo(Terms(B, C))
      /\ FieldProduct(c, a) = Modulo(Terms(C, A)) /\ FieldProduct(c, b) = Modulo(Terms(C, B))
  BY FieldProductIs DEF A, B, C
<1> QED
  BY <1>5, <1>6, <1>7

LEMMA FieldProductZero ==
    ASSUME NEW a \in Byte
    PROVE  FieldProduct(a, 0) = {} /\ FieldProduct(0, a) = {}
<1>1. 0 \in Byte /\ add(0, 0) = 0
  BY ZeroBits, AddSelf
<1>2. /\ FieldProduct(a, 0) = SymDiff(FieldProduct(a, 0), FieldProduct(a, 0))
      /\ FieldProduct(0, a) = SymDiff(FieldProduct(0, a), FieldProduct(0, a))
  <2>1. \A b, c \in Byte :
           /\ FieldProduct(add(b, c), a) = SymDiff(FieldProduct(b, a), FieldProduct(c, a))
           /\ FieldProduct(a, add(b, c)) = SymDiff(FieldProduct(a, b), FieldProduct(a, c))
    BY FieldProductAdds
  <2>2. /\ FieldProduct(add(0, 0), a) = SymDiff(FieldProduct(0, a), FieldProduct(0, a))
        /\ FieldProduct(a, add(0, 0)) = SymDiff(FieldProduct(a, 0), FieldProduct(a, 0))
    BY <1>1, <2>1, Zenon
  <2> QED
    BY <1>1, <2>2
<1>3. \A X : SymDiff(X, X) = {}
  BY DEF SymDiff
<1> QED
  BY <1>2, <1>3

\* What is left of x^d by each of the steps that change it.
LEMMA PowersReduced ==
    /\ Reduced(7, {8}) = {0, 1, 3, 4}
    /\ Reduced(8, {9}) = {1, 2, 4, 5}
    /\ Reduced(9, {10}) = {2, 3, 5, 6}
    /\ Reduced(10, {11}) = {3, 4, 6, 7}
    /\ Reduced(11, {12}) = {4, 5, 7, 8}
    /\ Reduced(7, {4, 5, 7, 8}) = {0, 1, 3, 5, 7}
    /\ Reduced(12, {13}) = {5, 6, 8, 9}
    /\ Reduced(8, {5, 6, 8, 9}) = {1, 2, 4, 6, 8}
    /\ Reduced(7, {1, 2, 4, 6, 8}) = {0, 2, 3, 6}
    /\ Reduced(13, {14}) = {6, 7, 9, 10}
    /\ Reduced(9, {6, 7, 9, 10}) = {2, 3, 5, 7, 9}
    /\ Reduced(8, {2, 3, 5, 7, 9}) = {1, 3, 4, 7}
BY SMTT(30) DEF Reduced, SymDiff

LEMMA ReducedStays ==
    ASSUME NEW d \in 7..14, NEW S, \A e \in S : e # d + 1
    PROVE  Reduced(d, S) = S
BY DEF Reduced

LEMMA LowStays ==
    ASSUME NEW S, \A e \in S : e \in 0..7
    PROVE  Modulo(S) = S
<1>1. \A d \in 7..14 : Reduced(d, S) = S
  <2> SUFFICES ASSUME NEW d \in 7..14
               PROVE  Reduced(d, S) = S
    OBVIOUS
  <2>1. \A e \in S : e # d + 1
    <3>1. \A e \in 0..7 : e # d + 1
      OBVIOUS
    <3> QED
      BY <3>1
  <2> QED
    BY <2>1, ReducedStays
<1>2. /\ Reduced(7, S) = S /\ Reduced(8, S) = S /\ Reduced(9, S) = S /\ Reduced(10, S) = S
      /\ Reduced(11, S) = S /\ Reduced(12, S) = S /\ Reduced(13, S) = S /\ Reduced(14, S) = S
  <2>1. /\ 7 \in 7..14 /\ 8 \in 7..14 /\ 9 \in 7..14 /\ 10 \in 7..14
        /\ 11 \in 7..14 /\ 12 \in 7..14 /\ 13 \in 7..14 /\ 14 \in 7..14
    OBVIOUS
  <2> QED
    BY <1>1, <2>1, Zenon
<1> QED
  BY <1>2, ModuloIs, Zenon

\* x^d for each degree a product can have.
LEMMA PowersModulo ==
    /\ Modulo({8}) = {0, 1, 3, 4}
    /\ Modulo({9}) = {1, 2, 4, 5}
    /\ Modulo({10}) = {2, 3, 5, 6}
    /\ Modulo({11}) = {3, 4, 6, 7}
    /\ Modulo({12}) = {0, 1, 3, 5, 7}
    /\ Modulo({13}) = {0, 2, 3, 6}
    /\ Modulo({14}) = {1, 3, 4, 7}
<1>1. Modulo({8}) = {0, 1, 3, 4}
  <2> DEFINE a == {8}
             b == {0, 1, 3, 4}
  <2>1. /\ Reduced(14, a) = a /\ Reduced(13, a) = a /\ Reduced(12, a) = a
        /\ Reduced(11, a) = a /\ Reduced(10, a) = a /\ Reduced(9, a) = a
        /\ Reduced(8, a) = a
    BY DEF Reduced
  <2>2. Reduced(7, a) = b
    BY PowersReduced
  <2> HIDE DEF a, b
  <2>3. Modulo(a) = b
    BY <2>1, <2>2, ModuloIs
  <2> QED
    BY <2>3 DEF a, b
<1>2. Modulo({9}) = {1, 2, 4, 5}
  <2> DEFINE a == {9}
             b == {1, 2, 4, 5}
  <2>1. /\ Reduced(14, a) = a /\ Reduced(13, a) = a /\ Reduced(12, a) = a
        /\ Reduced(11, a) = a /\ Reduced(10, a) = a /\ Reduced(9, a) = a
        /\ Reduced(7, b) = b
    BY DEF Reduced
  <2>2. Reduced(8, a) = b
    BY PowersReduced
  <2> HIDE DEF a, b
  <2>3. Modulo(a) = b
    BY <2>1, <2>2, ModuloIs
  <2> QED
    BY <2>3 DEF a, b
<1>3. Modulo({10}) = {2, 3, 5, 6}
  <2> DEFINE a == {10}
             b == {2, 3, 5, 6}
  <2>1. /\ Reduced(14, a) = a /\ Reduced(13, a) = a /\ Reduced(12, a) = a
        /\ Reduced(11, a) = a /\ Reduced(10, a) = a /\ Reduced(8, b) = b
        /\ Reduced(7, b) = b
    BY DEF Reduced
  <2>2. Reduced(9, a) = b
    BY PowersReduced
  <2> HIDE DEF a, b
  <2>3. Modulo(a) = b
    BY <2>1, <2>2, ModuloIs
  <2> QED
    BY <2>3 DEF a, b
<1>4. Modulo({11}) = {3, 4, 6, 7}
  <2> DEFINE a == {11}
             b == {3, 4, 6, 7}
  <2>1. /\ Reduced(14, a) = a /\ Reduced(13, a) = a /\ Reduced(12, a) = a
        /\ Reduced(11, a) = a /\ Reduced(9, b) = b /\ Reduced(8, b) = b
        /\ Reduced(7, b) = b
    BY DEF Reduced
  <2>2. Reduced(10, a) = b
    BY PowersReduced
  <2> HIDE DEF a, b
  <2>3. Modulo(a) = b
    BY <2>1, <2>2, ModuloIs
  <2> QED
    BY <2>3 DEF a, b
<1>5. Modulo({12}) = {0, 1, 3, 5, 7}
  <2> DEFINE a == {12}
             b == {4, 5, 7, 8}
             c == {0, 1, 3, 5, 7}
  <2>1. /\ Reduced(14, a) = a /\ Reduced(13, a) = a /\ Reduced(12, a) = a
        /\ Reduced(10, b) = b /\ Reduced(9, b) = b /\ Reduced(8, b) = b
    BY DEF Reduced
  <2>2. Reduced(11, a) = b /\ Reduced(7, b) = c
    BY PowersReduced
  <2> HIDE DEF a, b, c
  <2>3. Modulo(a) = c
    BY <2>1, <2>2, ModuloIs
  <2> QED
    BY <2>3 DEF a, c
<1>6. Modulo({13}) = {0, 2, 3, 6}
  <2> DEFINE a == {13}
             b == {5, 6, 8, 9}
             c == {1, 2, 4, 6, 8}
             d == {0, 2, 3, 6}
  <2>1. /\ Reduced(14, a) = a /\ Reduced(13, a) = a /\ Reduced(11, b) = b
        /\ Reduced(10, b) = b /\ Reduced(9, b) = b
    BY DEF Reduced
  <2>2. Reduced(12, a) = b /\ Reduced(8, b) = c /\ Reduced(7, c) = d
    BY PowersReduced
  <2> HIDE DEF a, b, c, d
  <2>3. Modulo(a) = d
    BY <2>1, <2>2, ModuloIs
  <2> QED
    BY <2>3 DEF a, d
<1>7. Modulo({14}) = {1, 3, 4, 7}
  <2> DEFINE a == {14}
             b == {6, 7, 9, 10}
             c == {2, 3, 5, 7, 9}
             d == {1, 3, 4, 7}
  <2>1. /\ Reduced(14, a) = a /\ Reduced(12, b) = b /\ Reduced(11, b) = b
        /\ Reduced(10, b) = b /\ Reduced(7, d) = d
    BY DEF Reduced
  <2>2. Reduced(13, a) = b /\ Reduced(9, b) = c /\ Reduced(8, c) = d
    BY PowersReduced
  <2> HIDE DEF a, b, c, d
  <2>3. Modulo(a) = d
    BY <2>1, <2>2, ModuloIs
  <2> QED
    BY <2>3 DEF a, d
<1> QED
  BY <1>1, <1>2, <1>3, <1>4, <1>5, <1>6, <1>7

LEMMA PowersExponents ==
    /\ Exponents(27) = {0, 1, 3, 4}
    /\ Exponents(54) = {1, 2, 4, 5}
    /\ Exponents(108) = {2, 3, 5, 6}
    /\ Exponents(216) = {3, 4, 6, 7}
    /\ Exponents(171) = {0, 1, 3, 5, 7}
    /\ Exponents(77) = {0, 2, 3, 6}
    /\ Exponents(154) = {1, 3, 4, 7}
<1>1. Exponents(27) = {0, 1, 3, 4}
  <2> DEFINE b(i) == Bit(27, i)
  <2>1. 27 \in Byte
    BY DEF Byte
  <2>2. /\ b(0) = 1 /\ b(1) = 1 /\ b(2) = 0 /\ b(3) = 1
        /\ b(4) = 1 /\ b(5) = 0 /\ b(6) = 0 /\ b(7) = 0
    BY <2>1, BitsOf
  <2>3. Exponents(27) = {i \in 0..7 : b(i) = 1}
    BY DEF Exponents
  <2> HIDE DEF b
  <2> QED
    BY <2>2, <2>3, Indices
<1>2. Exponents(54) = {1, 2, 4, 5}
  <2> DEFINE b(i) == Bit(54, i)
  <2>1. 54 \in Byte
    BY DEF Byte
  <2>2. /\ b(0) = 0 /\ b(1) = 1 /\ b(2) = 1 /\ b(3) = 0
        /\ b(4) = 1 /\ b(5) = 1 /\ b(6) = 0 /\ b(7) = 0
    BY <2>1, BitsOf
  <2>3. Exponents(54) = {i \in 0..7 : b(i) = 1}
    BY DEF Exponents
  <2> HIDE DEF b
  <2> QED
    BY <2>2, <2>3, Indices
<1>3. Exponents(108) = {2, 3, 5, 6}
  <2> DEFINE b(i) == Bit(108, i)
  <2>1. 108 \in Byte
    BY DEF Byte
  <2>2. /\ b(0) = 0 /\ b(1) = 0 /\ b(2) = 1 /\ b(3) = 1
        /\ b(4) = 0 /\ b(5) = 1 /\ b(6) = 1 /\ b(7) = 0
    BY <2>1, BitsOf
  <2>3. Exponents(108) = {i \in 0..7 : b(i) = 1}
    BY DEF Exponents
  <2> HIDE DEF b
  <2> QED
    BY <2>2, <2>3, Indices
<1>4. Exponents(216) = {3, 4, 6, 7}
  <2> DEFINE b(i) == Bit(216, i)
  <2>1. 216 \in Byte
    BY DEF Byte
  <2>2. /\ b(0) = 0 /\ b(1) = 0 /\ b(2) = 0 /\ b(3) = 1
        /\ b(4) = 1 /\ b(5) = 0 /\ b(6) = 1 /\ b(7) = 1
    BY <2>1, BitsOf
  <2>3. Exponents(216) = {i \in 0..7 : b(i) = 1}
    BY DEF Exponents
  <2> HIDE DEF b
  <2> QED
    BY <2>2, <2>3, Indices
<1>5. Exponents(171) = {0, 1, 3, 5, 7}
  <2> DEFINE b(i) == Bit(171, i)
  <2>1. 171 \in Byte
    BY DEF Byte
  <2>2. /\ b(0) = 1 /\ b(1) = 1 /\ b(2) = 0 /\ b(3) = 1
        /\ b(4) = 0 /\ b(5) = 1 /\ b(6) = 0 /\ b(7) = 1
    BY <2>1, BitsOf
  <2>3. Exponents(171) = {i \in 0..7 : b(i) = 1}
    BY DEF Exponents
  <2> HIDE DEF b
  <2> QED
    BY <2>2, <2>3, Indices
<1>6. Exponents(77) = {0, 2, 3, 6}
  <2> DEFINE b(i) == Bit(77, i)
  <2>1. 77 \in Byte
    BY DEF Byte
  <2>2. /\ b(0) = 1 /\ b(1) = 0 /\ b(2) = 1 /\ b(3) = 1
        /\ b(4) = 0 /\ b(5) = 0 /\ b(6) = 1 /\ b(7) = 0
    BY <2>1, BitsOf
  <2>3. Exponents(77) = {i \in 0..7 : b(i) = 1}
    BY DEF Exponents
  <2> HIDE DEF b
  <2> QED
    BY <2>2, <2>3, Indices
<1>7. Exponents(154) = {1, 3, 4, 7}
  <2> DEFINE b(i) == Bit(154, i)
  <2>1. 154 \in Byte
    BY DEF Byte
  <2>2. /\ b(0) = 0 /\ b(1) = 1 /\ b(2) = 0 /\ b(3) = 1
        /\ b(4) = 1 /\ b(5) = 0 /\ b(6) = 0 /\ b(7) = 1
    BY <2>1, BitsOf
  <2>3. Exponents(154) = {i \in 0..7 : b(i) = 1}
    BY DEF Exponents
  <2> HIDE DEF b
  <2> QED
    BY <2>2, <2>3, Indices
<1> QED
  BY <1>1, <1>2, <1>3, <1>4, <1>5, <1>6, <1>7

\* x^d as a byte.
PowerOfX == [d \in 0..14 |->
    <<1, 2, 4, 8, 16, 32, 64, 128, 27, 54, 108, 216, 171, 77, 154>>[d+1]]

LEMMA PowersOfX ==
    /\ \A d \in 0..14 : PowerOfX[d] \in Byte
    /\ \A d \in 0..13 : PowerOfX[d+1] = Double(PowerOfX[d])
    /\ \A i \in 0..7 : PowerOfX[i] = 2^i
    /\ \A d \in 0..14 : Exponents(PowerOfX[d]) = Modulo({d})
<1> DEFINE w == PowerOfX
<1>1. /\ w[0] = 1 /\ w[1] = 2 /\ w[2] = 4 /\ w[3] = 8 /\ w[4] = 16 /\ w[5] = 32 /\ w[6] = 64
      /\ w[7] = 128 /\ w[8] = 27 /\ w[9] = 54 /\ w[10] = 108 /\ w[11] = 216 /\ w[12] = 171
      /\ w[13] = 77 /\ w[14] = 154
  BY DEF PowerOfX
<1> HIDE DEF w
<1>2. \A d \in 0..14 : d \in 0..7 \/ d \in {8, 9, 10, 11, 12, 13, 14}
  OBVIOUS
<1>3. \A i \in 0..7 : w[i] = 2^i
  <2>1. /\ w[0] = 2^0 /\ w[1] = 2^1 /\ w[2] = 2^2 /\ w[3] = 2^3
        /\ w[4] = 2^4 /\ w[5] = 2^5 /\ w[6] = 2^6 /\ w[7] = 2^7
    BY <1>1, PowersOfTwo
  <2> QED
    BY <2>1, Indices, Zenon
<1>4. \A d \in 0..14 : w[d] \in Byte
  <2>1. \A i \in 0..7 : w[i] \in Byte
    BY <1>3, PowerBits
  <2>2. 27 \in Byte /\ 54 \in Byte /\ 108 \in Byte /\ 216 \in Byte /\ 171 \in Byte
        /\ 77 \in Byte /\ 154 \in Byte
    BY DEF Byte
  <2> QED
    BY <1>1, <1>2, <2>1, <2>2
<1>5. \A d \in 0..13 : w[d+1] = Double(w[d])
  <2>1. \A d \in 0..13 : d \in {0, 1, 2, 3, 4, 5, 6, 7, 8, 9, 10, 11, 12, 13}
    OBVIOUS
  <2>2. /\ w[0+1] = Double(w[0]) /\ w[1+1] = Double(w[1]) /\ w[2+1] = Double(w[2])
        /\ w[3+1] = Double(w[3]) /\ w[4+1] = Double(w[4]) /\ w[5+1] = Double(w[5])
        /\ w[6+1] = Double(w[6]) /\ w[7+1] = Double(w[7]) /\ w[8+1] = Double(w[8])
        /\ w[9+1] = Double(w[9]) /\ w[10+1] = Double(w[10]) /\ w[11+1] = Double(w[11])
        /\ w[12+1] = Double(w[12]) /\ w[13+1] = Double(w[13])
    BY <1>1, PowerDoubles, HighDoubles
  <2> QED
    BY <2>1, <2>2
<1>6. \A i \in 0..7 : Exponents(w[i]) = Modulo({i})
  <2> SUFFICES ASSUME NEW i \in 0..7
               PROVE  Exponents(w[i]) = Modulo({i})
    OBVIOUS
  <2>1. Exponents(2^i) = {i}
    BY ExponentsPower
  <2>2. Modulo({i}) = {i}
    BY LowStays
  <2> QED
    BY <1>3, <2>1, <2>2
<1>7. \A d \in {8, 9, 10, 11, 12, 13, 14} : Exponents(w[d]) = Modulo({d})
  <2>1. /\ Exponents(27) = Modulo({8}) /\ Exponents(54) = Modulo({9})
        /\ Exponents(108) = Modulo({10}) /\ Exponents(216) = Modulo({11})
        /\ Exponents(171) = Modulo({12}) /\ Exponents(77) = Modulo({13})
        /\ Exponents(154) = Modulo({14})
    BY PowersModulo, PowersExponents, Zenon
  <2>2. /\ Exponents(w[8]) = Modulo({8}) /\ Exponents(w[9]) = Modulo({9})
        /\ Exponents(w[10]) = Modulo({10}) /\ Exponents(w[11]) = Modulo({11})
        /\ Exponents(w[12]) = Modulo({12}) /\ Exponents(w[13]) = Modulo({13})
        /\ Exponents(w[14]) = Modulo({14})
    BY <1>1, <2>1, Zenon
  <2> QED
    BY <2>2, Zenon
<1>8. \A d \in 0..14 : Exponents(w[d]) = Modulo({d})
  BY <1>2, <1>6, <1>7
<1> QED
  BY <1>3, <1>4, <1>5, <1>8 DEF w

LEMMA PowersMultiply ==
    ASSUME NEW i \in 0..7, NEW j \in 0..7
    PROVE  mult(2^i, 2^j) = PowerOfX[i+j]
<1> DEFINE S(k) == mult(2^k, 2^j) = PowerOfX[k+j]
<1>1. 2^j \in Byte /\ PowerOfX[j] = 2^j
  BY PowerBits, PowersOfX
<1>2. S(0)
  <2>1. mult(1, 2^j) = 2^j
    BY <1>1, OneTimes
  <2> QED
    BY <1>1, <2>1, PowersOfTwo
<1>3. ASSUME NEW k \in 0..6, S(k), NEW l, l = k + 1
      PROVE  S(l)
  <2>1. k \in 0..7 /\ l \in 0..7 /\ k + j \in 0..13 /\ l + j = k + j + 1 /\ k + j \in 0..14
    BY <1>3
  <2>2. 2^k \in Byte /\ 2^l \in Byte
    BY <2>1, PowerBits
  <2>3. 2^l = Double(2^k)
    <3>1. PowerOfX[k] = 2^k /\ PowerOfX[l] = 2^l
      BY <2>1, PowersOfX
    <3>2. PowerOfX[k+1] = Double(PowerOfX[k])
      <4>1. k \in 0..13
        OBVIOUS
      <4> QED
        BY <4>1, PowersOfX
    <3> QED
      BY <1>3, <3>1, <3>2
  <2>4. mult(2^l, 2^j) = mult(mult(2, 2^k), 2^j)
    BY <2>2, <2>3, TwoTimes
  <2>5. mult(mult(2, 2^k), 2^j) = mult(2, mult(2^k, 2^j))
    <3>1. 2 \in Byte
      BY DEF Byte
    <3> QED
      BY <1>1, <2>2, <3>1, MultAssociates
  <2>6. mult(2, PowerOfX[k+j]) = PowerOfX[k+j+1]
    BY <2>1, PowersOfX, TwoTimes
  <2> QED
    BY <1>3, <2>1, <2>4, <2>5, <2>6
<1> HIDE DEF S
<1>4. S(1)
  BY <1>2, <1>3
<1>5. S(2)
  BY <1>3, <1>4
<1>6. S(3)
  BY <1>3, <1>5
<1>7. S(4)
  BY <1>3, <1>6
<1>8. S(5)
  BY <1>3, <1>7
<1>9. S(6)
  BY <1>3, <1>8
<1>10. S(7)
  BY <1>3, <1>9
<1>11. S(i)
  BY <1>2, <1>4, <1>5, <1>6, <1>7, <1>8, <1>9, <1>10, Indices
<1> QED
  BY <1>11 DEF S

\* mult is the product of the field, for powers of x and so for their sums.
LEMMA ProductOfPowers ==
    ASSUME NEW i \in 0..7, NEW j \in 0..7
    PROVE  FieldProduct(2^i, 2^j) = Exponents(mult(2^i, 2^j))
<1>1. 2^i \in Byte /\ 2^j \in Byte
  BY PowerBits
<1>2. Exponents(2^i) = {i} /\ Exponents(2^j) = {j}
  BY ExponentsPower
<1>3. FieldProduct(2^i, 2^j) = Modulo({i + j})
  <2>1. FieldProduct(2^i, 2^j) = Modulo(Terms(Exponents(2^i), Exponents(2^j)))
    BY <1>1, FieldProductIs
  <2>2. Terms({i}, {j}) = {i + j}
    BY TermsPower
  <2> QED
    BY <1>2, <2>1, <2>2, Zenon
<1>4. i + j \in 0..14
  OBVIOUS
<1>5. Exponents(PowerOfX[i+j]) = Modulo({i + j})
  BY <1>4, PowersOfX
<1> QED
  BY <1>3, <1>5, PowersMultiply

LEMMA EveryPower ==
    ASSUME NEW p \in Powers
    PROVE  \E i \in 0..7 : p = 2^i
<1>1. /\ 0 \in 0..7 /\ 1 \in 0..7 /\ 2 \in 0..7 /\ 3 \in 0..7
      /\ 4 \in 0..7 /\ 5 \in 0..7 /\ 6 \in 0..7 /\ 7 \in 0..7
  OBVIOUS
<1>2. \/ p = 2^0 \/ p = 2^1 \/ p = 2^2 \/ p = 2^3
      \/ p = 2^4 \/ p = 2^5 \/ p = 2^6 \/ p = 2^7
  BY PowersOfTwo DEF Powers
<1> QED
  BY <1>1, <1>2, Zenon

LEMMA FieldProductIsMult ==
    ASSUME NEW a \in Byte, NEW b \in Byte
    PROVE  FieldProduct(a, b) = Exponents(mult(a, b))
<1> DEFINE Agree(c, d) == FieldProduct(c, d) = Exponents(mult(c, d))
<1>1. 0 \in Byte /\ Powers \subseteq Byte
  BY ZeroBits, PowerBits
<1>2. \A c \in Byte : Agree(c, 0) /\ Agree(0, c)
  BY FieldProductZero, MultZero, ExponentsZero
<1>3. ASSUME NEW c \in Byte, NEW d \in Byte, NEW e \in Byte
      PROVE  /\ Agree(c, e) /\ Agree(d, e) => Agree(add(c, d), e)
             /\ Agree(e, c) /\ Agree(e, d) => Agree(e, add(c, d))
  <2>1. /\ mult(c, e) \in Byte /\ mult(d, e) \in Byte
        /\ mult(e, c) \in Byte /\ mult(e, d) \in Byte /\ add(c, d) \in Byte
    BY MultByte, AddByte
  <2>2. mult(e, add(c, d)) = add(mult(e, c), mult(e, d))
    BY MultDistributes
  <2>3. mult(add(c, d), e) = add(mult(c, e), mult(d, e))
    BY <2>1, <2>2, MultCommutes
  <2>4. /\ Exponents(mult(e, add(c, d))) = SymDiff(Exponents(mult(e, c)), Exponents(mult(e, d)))
        /\ Exponents(mult(add(c, d), e)) = SymDiff(Exponents(mult(c, e)), Exponents(mult(d, e)))
    BY <2>1, <2>2, <2>3, ExponentsAdd
  <2>5. /\ FieldProduct(add(c, d), e) = SymDiff(FieldProduct(c, e), FieldProduct(d, e))
        /\ FieldProduct(e, add(c, d)) = SymDiff(FieldProduct(e, c), FieldProduct(e, d))
    BY FieldProductAdds
  <2> QED
    BY <2>4, <2>5
<1>4. ASSUME NEW c \in Powers, NEW d \in Powers
      PROVE  Agree(c, d)
  BY EveryPower, ProductOfPowers
<1> HIDE DEF Agree
<1>5. ASSUME NEW c \in Powers
      PROVE  Agree(c, b)
  <2> DEFINE S == {d \in Byte : Agree(c, d)}
  <2>1. 0 \in S /\ Powers \subseteq S
    BY <1>1, <1>2, <1>4
  <2>2. \A d, e \in Byte : d \in S /\ e \in S => add(d, e) \in S
    BY <1>1, <1>3, AddByte
  <2>3. Byte \subseteq S
    <3> HIDE DEF S
    <3> QED
      BY <2>1, <2>2, PowersSpan
  <2> QED
    BY <2>3
<1>6. Agree(a, b)
  <2> DEFINE S == {c \in Byte : Agree(c, b)}
  <2>1. 0 \in S /\ Powers \subseteq S
    BY <1>1, <1>2, <1>5
  <2>2. \A d, e \in Byte : d \in S /\ e \in S => add(d, e) \in S
    BY <1>3, AddByte
  <2>3. Byte \subseteq S
    <3> HIDE DEF S
    <3> QED
      BY <2>1, <2>2, PowersSpan
  <2> QED
    BY <2>3
<1> QED
  BY <1>6 DEF Agree

\* The bytes are a field with add and mult, inverse inverts, and mult is the
\* product of polynomials modulo x^8 + x^4 + x^3 + x + 1 (shamir.go:93-140).
THEOREM BytesAreTheField ==
    /\ \A a, b \in Byte :
          /\ add(a, b) \in Byte /\ mult(a, b) \in Byte
          /\ add(a, b) = add(b, a) /\ mult(a, b) = mult(b, a)
          /\ Exponents(add(a, b)) = SymDiff(Exponents(a), Exponents(b))
          /\ Exponents(mult(a, b)) = FieldProduct(a, b)
    /\ \A a, b, c \in Byte :
          /\ add(add(a, b), c) = add(a, add(b, c))
          /\ mult(mult(a, b), c) = mult(a, mult(b, c))
          /\ mult(a, add(b, c)) = add(mult(a, b), mult(a, c))
    /\ \A a \in Byte : add(a, 0) = a /\ add(a, a) = 0 /\ mult(a, 1) = a
    /\ \A a \in Byte \ {0} : inverse(a) \in Byte /\ mult(a, inverse(a)) = 1
    /\ \A a, b \in Byte : Exponents(a) = Exponents(b) => a = b
<1>1. ASSUME NEW a \in Byte, NEW b \in Byte
      PROVE  /\ add(a, b) \in Byte /\ mult(a, b) \in Byte
             /\ add(a, b) = add(b, a) /\ mult(a, b) = mult(b, a)
             /\ Exponents(add(a, b)) = SymDiff(Exponents(a), Exponents(b))
             /\ Exponents(mult(a, b)) = FieldProduct(a, b)
  BY AddByte, MultByte, AddCommutes, MultCommutes, ExponentsAdd, FieldProductIsMult
<1>2. ASSUME NEW a \in Byte, NEW b \in Byte, NEW c \in Byte
      PROVE  /\ add(add(a, b), c) = add(a, add(b, c))
             /\ mult(mult(a, b), c) = mult(a, mult(b, c))
             /\ mult(a, add(b, c)) = add(mult(a, b), mult(a, c))
  BY AddAssociates, MultAssociates, MultDistributes
<1>3. ASSUME NEW a \in Byte
      PROVE  add(a, 0) = a /\ add(a, a) = 0 /\ mult(a, 1) = a
  BY AddZero, AddSelf, TimesOne
<1>4. ASSUME NEW a \in Byte \ {0}
      PROVE  inverse(a) \in Byte /\ mult(a, inverse(a)) = 1
  BY InverseByte, InverseWorks
<1>5. ASSUME NEW a \in Byte, NEW b \in Byte, Exponents(a) = Exponents(b)
      PROVE  a = b
  <2>1. ASSUME NEW i \in 0..7
        PROVE  Bit(a, i) = Bit(b, i)
    <3>1. Bit(a, i) \in {0, 1} /\ Bit(b, i) \in {0, 1}
      BY BitValues
    <3>2. i \in Exponents(a) <=> i \in Exponents(b)
      BY <1>5
    <3>3. Bit(a, i) = 1 <=> Bit(b, i) = 1
      BY <3>2 DEF Exponents
    <3> QED
      BY <3>1, <3>3
  <2> QED
    BY <2>1, SameBits
<1> QED
  BY <1>1, <1>2, <1>3, <1>4, <1>5
=============================================================================
