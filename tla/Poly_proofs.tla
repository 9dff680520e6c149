------------------------------ MODULE Poly_proofs ------------------------------
(***************************************************************************)
(* The loops of Shamir, turn by turn, and the polynomials they evaluate    *)
(* and interpolate.                                                        *)
(***************************************************************************)
EXTENDS Field_proofs, WellFoundedInduction

-----------------------------------------------------------------------------
(* Loops.                                                                  *)

LEMMA SmallestNumber ==
    ASSUME NEW T, T \subseteq Nat, T # {}
    PROVE  \E n \in T : \A m \in T : n <= m
<1> DEFINE R == OpToRel(<, Nat)
<1>1. IsWellFoundedOn(R, Nat)
  BY NatLessThanWellFounded
<1> HIDE DEF R
<1>2. PICK x \in T : \A y \in T : ~(<<y, x>> \in R)
  BY <1>1, WFMin
<1>3. ASSUME NEW y \in T
      PROVE  x <= y
  <2>1. x \in Nat /\ y \in Nat
    OBVIOUS
  <2>2. y < x => <<y, x>> \in R
    BY <2>1 DEF R, OpToRel
  <2> QED
    BY <1>2, <2>1, <2>2
<1> QED
  BY <1>3

\* Induction, for a set in the place of a formula.
LEMMA InductionInSet ==
    ASSUME NEW S, 0 \in S, \A n \in Nat : n \in S => n + 1 \in S
    PROVE  Nat \subseteq S
<1> DEFINE T == Nat \ S
<1> SUFFICES ASSUME T # {} PROVE FALSE
  OBVIOUS
<1>1. PICK n \in T : \A m \in T : n <= m
  BY SmallestNumber
<1>2. n # 0 /\ n - 1 \in Nat
  BY <1>1
<1>3. n - 1 \in S
  BY <1>1, <1>2
<1> QED
  BY <1>1, <1>2, <1>3

\* F[i] is what i turns of a loop make of start.
IsTurns(F, n, start, step) ==
    F = [i \in 0..n |-> IF i = 0 THEN start ELSE step[i][F[i-1]]]

LEMMA TurnsAre ==
    ASSUME NEW n \in Nat, NEW start, NEW step, NEW F, IsTurns(F, n, start, step)
    PROVE  F[0] = start /\ \A i \in 1..n : F[i] = step[i][F[i-1]]
BY DEF IsTurns

LEMMA TurnsExist ==
    ASSUME NEW n \in Nat, NEW start, NEW step
    PROVE  \E F : IsTurns(F, n, start, step)
<1> DEFINE S == {k \in Nat : \E F : IsTurns(F, k, start, step)}
<1>1. 0 \in S
  <2>1. IsTurns([i \in 0..0 |-> start], 0, start, step)
    BY DEF IsTurns
  <2> QED
    BY <2>1
<1>2. ASSUME NEW k \in Nat, k \in S
      PROVE  k + 1 \in S
  <2>1. PICK F : IsTurns(F, k, start, step)
    BY <1>2
  <2> DEFINE G == [i \in 0..(k+1) |-> IF i = k + 1 THEN step[k+1][F[k]] ELSE F[i]]
  <2>2. \A i \in 0..k : G[i] = F[i]
    OBVIOUS
  <2>3. \A i \in 0..k : F[i] = IF i = 0 THEN start ELSE step[i][F[i-1]]
    BY <2>1 DEF IsTurns
  <2>4. ASSUME NEW i \in 0..(k+1)
        PROVE  G[i] = IF i = 0 THEN start ELSE step[i][G[i-1]]
    <3>1. CASE i = k + 1
      <4>1. i - 1 \in 0..k /\ i - 1 = k /\ i # 0
        BY <3>1
      <4> QED
        BY <2>2, <3>1, <4>1
    <3>2. CASE i # k + 1
      <4>1. i \in 0..k /\ (i # 0 => i - 1 \in 0..k)
        BY <3>2
      <4> HIDE DEF G
      <4> QED
        BY <2>2, <2>3, <4>1
    <3> QED
      BY <3>1, <3>2
  <2>5. G = [i \in 0..(k+1) |-> IF i = 0 THEN start ELSE step[i][G[i-1]]]
    <3>1. G = [i \in 0..(k+1) |-> G[i]]
      OBVIOUS
    <3> HIDE DEF G
    <3> QED
      BY <2>4, <3>1
  <2>6. IsTurns(G, k + 1, start, step)
    BY <2>5 DEF IsTurns
  <2> QED
    BY <2>6
<1>3. Nat \subseteq S
  <2> HIDE DEF S
  <2> QED
    BY <1>1, <1>2, InductionInSet
<1> QED
  BY <1>3

IsWithin(r, step, from, to, byte) ==
    r = [i \in from..to |-> IF i = from THEN byte ELSE step[i][r[i-1]]]

Within(step, from, to) ==
    [byte \in Byte |-> (CHOOSE r : IsWithin(r, step, from, to, byte))[to]]

IsBlocks(g, n, start, step) ==
    g = [b \in 0..(n \div 16) |->
            IF b = 0 THEN start ELSE Within(step, 16 * (b - 1), 16 * b)[g[b-1]]]

LEMMA LoopUnfolds ==
    ASSUME NEW n, NEW start, NEW step
    PROVE  Loop(n, start, step) =
              Within(step, 16 * (n \div 16), n)
                  [(CHOOSE g : IsBlocks(g, n, start, step))[n \div 16]]
BY DEF Loop, IsWithin, Within, IsBlocks

\* Some turns from the middle of a loop.
LEMMA WithinIs ==
    ASSUME NEW n \in Nat, NEW start, NEW step, NEW F, IsTurns(F, n, start, step),
           NEW from \in 0..n, NEW to \in 0..n, from <= to, F[from] \in Byte
    PROVE  Within(step, from, to)[F[from]] = F[to]
<1>0. \A i \in 1..n : F[i] = step[i][F[i-1]]
  BY DEF IsTurns
<1> DEFINE r == CHOOSE r : IsWithin(r, step, from, to, F[from])
<1>1. IsWithin(r, step, from, to, F[from])
  <2> DEFINE q == [i \in from..to |-> F[i]]
  <2>1. ASSUME NEW i \in from..to
        PROVE  q[i] = IF i = from THEN F[from] ELSE step[i][q[i-1]]
    <3>1. i # from => i \in 1..n /\ i - 1 \in from..to
      OBVIOUS
    <3> QED
      BY <1>0, <3>1
  <2>2. IsWithin(q, step, from, to, F[from])
    <3>1. q = [i \in from..to |-> q[i]]
      OBVIOUS
    <3> HIDE DEF q
    <3> QED
      BY <2>1, <3>1 DEF IsWithin
  <2> QED
    BY <2>2
<1>2. Within(step, from, to)[F[from]] = r[to]
  BY DEF Within
<1> HIDE DEF r
<1>3. \A i \in from..to : r[i] = IF i = from THEN F[from] ELSE step[i][r[i-1]]
  BY <1>1 DEF IsWithin
<1> DEFINE S == {k \in Nat : from + k <= to => r[from+k] = F[from+k]}
<1>4. 0 \in S
  BY <1>3
<1>5. ASSUME NEW k \in Nat, k \in S
      PROVE  k + 1 \in S
  <2> SUFFICES ASSUME from + (k + 1) <= to
               PROVE  r[from + (k + 1)] = F[from + (k + 1)]
    OBVIOUS
  <2> DEFINE j == from + (k + 1)
  <2>1. j \in from..to /\ j \in 1..n /\ j # from /\ j - 1 = from + k /\ from + k <= to
    OBVIOUS
  <2>2. r[from+k] = F[from+k]
    BY <1>5, <2>1
  <2> HIDE DEF j
  <2>3. r[j] = step[j][r[from+k]] /\ F[j] = step[j][F[from+k]]
    BY <1>0, <1>3, <2>1
  <2> QED
    BY <2>2, <2>3 DEF j
<1>6. Nat \subseteq S
  <2> HIDE DEF S
  <2> QED
    BY <1>4, <1>5, InductionInSet
<1>7. to - from \in S /\ from + (to - from) = to
  BY <1>6
<1> QED
  BY <1>2, <1>7

\* F is the bytes a loop goes through.
IsLoop(F, n, start, step) ==
    /\ F[0] = start
    /\ \A i \in 1..n : F[i] = step[i][F[i-1]]
    /\ \A i \in 0..n : F[i] \in Byte
    /\ Loop(n, start, step) = F[n]

\* The blocks make no difference: a loop is its turns, one after the other.
LEMMA LoopIs ==
    ASSUME NEW n \in Nat, NEW start \in Byte, NEW step \in [1..n -> [Byte -> Byte]]
    PROVE  \E F : IsLoop(F, n, start, step)
<1>1. PICK F : IsTurns(F, n, start, step)
  BY TurnsExist
<1>2. F[0] = start /\ \A i \in 1..n : F[i] = step[i][F[i-1]]
  BY <1>1 DEF IsTurns
<1>3. \A i \in 0..n : F[i] \in Byte
  <2> DEFINE S == {k \in Nat : k <= n => F[k] \in Byte}
  <2>1. 0 \in S
    BY <1>2
  <2>2. ASSUME NEW k \in Nat, k \in S
        PROVE  k + 1 \in S
    <3> SUFFICES ASSUME k + 1 <= n
                 PROVE  F[k+1] \in Byte
      OBVIOUS
    <3>1. k + 1 \in 1..n /\ (k + 1) - 1 = k /\ F[k] \in Byte
      BY <2>2
    <3>2. step[k+1] \in [Byte -> Byte]
      BY <3>1
    <3> QED
      BY <1>2, <3>1, <3>2
  <2>3. Nat \subseteq S
    <3> HIDE DEF S
    <3> QED
      BY <2>1, <2>2, InductionInSet
  <2> QED
    BY <2>3
<1> DEFINE m == n \div 16
<1>4. m \in Nat /\ 16 * m <= n
  OBVIOUS
<1> HIDE DEF m
<1> DEFINE IsB(g) == g = [b \in 0..m |->
              IF b = 0 THEN start ELSE Within(step, 16 * (b - 1), 16 * b)[g[b-1]]]
<1>5. ASSUME NEW b \in 1..m
      PROVE  Within(step, 16 * (b - 1), 16 * b)[F[16 * (b - 1)]] = F[16 * b]
  <2> DEFINE from == 16 * (b - 1)
             to == 16 * b
  <2>1. from \in 0..n /\ to \in 0..n /\ from <= to
    BY <1>4
  <2> HIDE DEF from, to
  <2>2. F[from] \in Byte
    BY <1>3, <2>1
  <2>3. Within(step, from, to)[F[from]] = F[to]
    BY <1>1, <2>1, <2>2, WithinIs
  <2> QED
    BY <2>3 DEF from, to
<1> DEFINE g == CHOOSE g : IsB(g)
<1>6. IsB(g)
  <2> DEFINE h == [b \in 0..m |-> F[16 * b]]
  <2>1. ASSUME NEW b \in 0..m
        PROVE  h[b] = IF b = 0 THEN start ELSE Within(step, 16 * (b - 1), 16 * b)[h[b-1]]
    <3>1. CASE b = 0
      BY <1>2, <3>1
    <3>2. CASE b # 0
      <4>1. b \in 1..m /\ b - 1 \in 0..m
        BY <1>4, <3>2
      <4> QED
        BY <1>5, <3>2, <4>1
    <3> QED
      BY <3>1, <3>2
  <2>2. h = [b \in 0..m |-> h[b]]
    OBVIOUS
  <2> HIDE DEF h
  <2>3. IsB(h)
    BY <2>1, <2>2
  <2> QED
    BY <2>3
<1>7. Loop(n, start, step) = Within(step, 16 * m, n)[g[m]]
  BY LoopUnfolds DEF IsBlocks, m
<1>8. \A b \in 0..m : g[b] = IF b = 0 THEN start ELSE Within(step, 16 * (b - 1), 16 * b)[g[b-1]]
  BY <1>6
<1> HIDE DEF g, IsB
<1>9. g[m] = F[16 * m]
  <2> DEFINE S == {k \in Nat : k <= m => g[k] = F[16 * k]}
  <2>1. 0 \in S
    BY <1>2, <1>4, <1>8
  <2>2. ASSUME NEW k \in Nat, k \in S
        PROVE  k + 1 \in S
    <3> SUFFICES ASSUME k + 1 <= m
                 PROVE  g[k+1] = F[16 * (k + 1)]
      OBVIOUS
    <3> DEFINE b == k + 1
    <3>1. b \in 1..m /\ b \in 0..m /\ b # 0 /\ b - 1 = k /\ g[k] = F[16 * k]
      BY <1>4, <2>2
    <3> HIDE DEF b
    <3>2. g[b] = Within(step, 16 * (b - 1), 16 * b)[g[b-1]]
      BY <1>8, <3>1
    <3>3. g[b] = F[16 * b]
      BY <1>5, <3>1, <3>2
    <3> QED
      BY <3>3 DEF b
  <2>3. Nat \subseteq S
    <3> HIDE DEF S
    <3> QED
      BY <2>1, <2>2, InductionInSet
  <2> QED
    BY <1>4, <2>3
<1>10. Within(step, 16 * m, n)[F[16 * m]] = F[n]
  <2> DEFINE from == 16 * m
  <2>1. from \in 0..n /\ n \in 0..n /\ from <= n
    BY <1>4
  <2> HIDE DEF from
  <2>2. F[from] \in Byte
    BY <1>3, <2>1
  <2>3. Within(step, from, n)[F[from]] = F[n]
    BY <1>1, <2>1, <2>2, WithinIs
  <2> QED
    BY <2>3 DEF from
<1>11. Loop(n, start, step) = F[n]
  BY <1>7, <1>9, <1>10
<1> QED
  BY <1>2, <1>3, <1>11 DEF IsLoop

-----------------------------------------------------------------------------
(* evaluate.                                                               *)

\* Horner's rule, at any x: what the code returns for 0 without a loop is what
\* the loop would return (shamir.go:51-69).
LEMMA EvaluateIs ==
    ASSUME NEW n \in Nat \ {0}, NEW p \in [1..n -> Byte], NEW x \in Byte
    PROVE  \E F : /\ F[0] = p[n]
                  /\ \A i \in 1..(n-1) : F[i] = add(mult(F[i-1], x), p[n-i])
                  /\ \A i \in 0..(n-1) : F[i] \in Byte
                  /\ evaluate(p, x) = F[n-1]
<1> DEFINE m == n - 1
           step == [i \in 1..m |-> [out \in Byte |-> add(mult(out, x), p[n - i])]]
<1>1. m \in Nat /\ p[n] \in Byte /\ Len(p) = n
  OBVIOUS
<1>2. \A i \in 1..m : p[n - i] \in Byte
  OBVIOUS
<1>3. step \in [1..m -> [Byte -> Byte]]
  <2>1. \A i \in 1..m : \A out \in Byte : add(mult(out, x), p[n - i]) \in Byte
    <3>1. ASSUME NEW i \in 1..m, NEW out \in Byte
          PROVE  add(mult(out, x), p[n - i]) \in Byte
      <4>1. mult(out, x) \in Byte /\ p[n - i] \in Byte
        BY <1>2, MultByte
      <4> QED
        BY <4>1, AddByte
    <3> QED
      BY <3>1
  <2> HIDE DEF m
  <2> QED
    BY <2>1
<1>4. \A i \in 1..m : \A out \in Byte : step[i][out] = add(mult(out, x), p[n - i])
  OBVIOUS
<1>5. x # 0 => evaluate(p, x) = Loop(m, p[n], step)
  BY <1>1 DEF evaluate
<1> HIDE DEF m, step
<1>6. PICK F : /\ F[0] = p[n]
               /\ \A i \in 1..m : F[i] = step[i][F[i-1]]
               /\ \A i \in 0..m : F[i] \in Byte
               /\ Loop(m, p[n], step) = F[m]
  <2>1. \E F : IsLoop(F, m, p[n], step)
    BY <1>1, <1>3, LoopIs
  <2> QED
    BY <2>1 DEF IsLoop
<1>7. ASSUME NEW i \in 1..m
      PROVE  F[i] = add(mult(F[i-1], x), p[n - i])
  <2>1. i - 1 \in 0..m
    BY <1>1
  <2>2. F[i-1] \in Byte
    BY <1>6, <2>1
  <2> QED
    BY <1>4, <1>6, <2>2
<1>8. ASSUME x = 0
      PROVE  F[m] = p[1]
  <2>1. CASE m = 0
    BY <1>6, <2>1 DEF m
  <2>2. CASE m # 0
    <3>1. m \in 1..m /\ n - m = 1 /\ m - 1 \in 0..m
      BY <1>1, <2>2 DEF m
    <3>2. F[m] = add(mult(F[m-1], 0), p[1])
      BY <1>7, <1>8, <3>1
    <3>3. F[m-1] \in Byte /\ p[1] \in Byte
      BY <1>6, <3>1
    <3> QED
      BY <3>2, <3>3, MultZero, AddZero
  <2> QED
    BY <2>1, <2>2
<1>9. x = 0 => evaluate(p, x) = p[1]
  BY DEF evaluate
<1>10. evaluate(p, x) = F[m]
  BY <1>5, <1>6, <1>8, <1>9
<1> QED
  BY <1>6, <1>7, <1>10 DEF m

LEMMA EvaluateByte ==
    ASSUME NEW n \in Nat \ {0}, NEW p \in [1..n -> Byte], NEW x \in Byte
    PROVE  evaluate(p, x) \in Byte
<1>1. PICK F : (\A j \in 0..(n-1) : F[j] \in Byte) /\ evaluate(p, x) = F[n-1]
  BY EvaluateIs
<1>2. n - 1 \in 0..(n-1)
  OBVIOUS
<1> QED
  BY <1>1, <1>2

LEMMA EvaluateTwo ==
    ASSUME NEW v \in Byte, NEW c \in Byte, NEW x \in Byte
    PROVE  evaluate(makePolynomial(v, 1, <<c>>, 0), x) = add(mult(c, x), v)
<1> DEFINE p == makePolynomial(v, 1, <<c>>, 0)
<1>1. p \in [1..2 -> Byte] /\ p[1] = v /\ p[2] = c
  <2>1. Coefficients(1) = 2
    BY DEF Coefficients
  <2>2. Len(<<c>>) = 1 /\ ((0 + 2 - 2) % 1) + 1 = 1
    OBVIOUS
  <2>3. \A i \in 1..2 : i = 1 \/ i = 2
    OBVIOUS
  <2> QED
    BY <2>1, <2>2, <2>3 DEF makePolynomial
<1> HIDE DEF p
<1>2. PICK n \in Nat \ {0} : n = 2
  OBVIOUS
<1>3. PICK F : /\ F[0] = p[n]
               /\ \A i \in 1..(n-1) : F[i] = add(mult(F[i-1], x), p[n-i])
               /\ \A i \in 0..(n-1) : F[i] \in Byte
               /\ evaluate(p, x) = F[n-1]
  <2>1. p \in [1..n -> Byte]
    BY <1>1, <1>2
  <2> QED
    BY <2>1, EvaluateIs
<1>4. 1 \in 1..(n-1) /\ n - 1 = 1
  BY <1>2
<1>5. F[1] = add(mult(F[1-1], x), p[n-1])
  BY <1>3, <1>4
<1> QED
  BY <1>1, <1>2, <1>3, <1>4, <1>5 DEF p

\* Whatever the byte of the secret, some second coefficient gives the same y.
LEMMA AnyByteFits ==
    ASSUME NEW v \in Byte, NEW x \in Byte, x # 0, NEW y \in Byte
    PROVE  \E c \in Byte : evaluate(makePolynomial(v, 1, <<c>>, 0), x) = y
<1> DEFINE d == add(y, v)
           c == div(d, x)
<1>1. d \in Byte
  BY AddByte
<1>2. c \in Byte /\ mult(c, x) = d
  BY <1>1, DivideThenMultiply
<1> HIDE DEF c
<1>3. add(d, v) = add(y, add(v, v))
  BY AddAssociates
<1>4. add(d, v) = y
  BY <1>3, AddSelf, AddZero
<1>5. evaluate(makePolynomial(v, 1, <<c>>, 0), x) = y
  BY <1>2, <1>4, EvaluateTwo
<1> QED
  BY <1>2, <1>5

-----------------------------------------------------------------------------
(* Polynomials as functions of x: P[d] holds those with d coefficients.    *)

Zero == [x \in Byte |-> 0]

Plus(f, g) == [x \in Byte |-> add(f[x], g[x])]

Times(c, f) == [x \in Byte |-> mult(c, f[x])]

\* c + x * g(x).
Above(c, g) == [x \in Byte |-> add(c, mult(x, g[x]))]

\* (x + a) * g(x).
WithRoot(a, g) == [x \in Byte |-> mult(add(x, a), g[x])]

Raised(S) == {Above(c, g) : c \in Byte, g \in S}

IsSpaces(P, n) ==
    /\ n \in Nat
    /\ P[0] = {Zero}
    /\ \A d \in 1..n : P[d] = Raised(P[d-1])

LEMMA SpacesExist ==
    ASSUME NEW n \in Nat
    PROVE  \E P : IsSpaces(P, n)
<1> DEFINE All == SUBSET [Byte -> Byte]
           step == [i \in 1..n |-> [S \in All |-> Raised(S)]]
<1>1. \A d \in 1..n : \A S \in All : step[d][S] = Raised(S)
  OBVIOUS
<1> HIDE DEF step
<1>2. PICK P : IsTurns(P, n, {Zero}, step)
  BY TurnsExist
<1>3. \A S \in All : Raised(S) \in All
  <2>1. ASSUME NEW S \in All, NEW c \in Byte, NEW g \in S
        PROVE  Above(c, g) \in [Byte -> Byte]
    <3>1. g \in [Byte -> Byte]
      OBVIOUS
    <3>2. ASSUME NEW x \in Byte
          PROVE  add(c, mult(x, g[x])) \in Byte
      <4>1. mult(x, g[x]) \in Byte
        BY <3>1, MultByte
      <4> QED
        BY <4>1, AddByte
    <3> QED
      BY <3>2 DEF Above
  <2> QED
    BY <2>1 DEF Raised
<1>4. P[0] = {Zero} /\ \A d \in 1..n : P[d] = step[d][P[d-1]]
  <2> DEFINE start == {Zero}
  <2>1. IsTurns(P, n, start, step)
    BY <1>2
  <2> HIDE DEF start
  <2>2. P[0] = start /\ \A d \in 1..n : P[d] = step[d][P[d-1]]
    BY <2>1, TurnsAre
  <2> QED
    BY <2>2 DEF start
<1> DEFINE S == {d \in Nat : d <= n => P[d] \in All}
<1>5. 0 \in S
  BY <1>4, ZeroBits DEF Zero
<1>6. ASSUME NEW d \in Nat, d \in S
      PROVE  d + 1 \in S
  <2> SUFFICES ASSUME d + 1 <= n
               PROVE  P[d+1] \in All
    OBVIOUS
  <2>1. d + 1 \in 1..n /\ (d + 1) - 1 = d /\ P[d] \in All
    BY <1>6
  <2> QED
    BY <1>1, <1>3, <1>4, <2>1
<1>7. Nat \subseteq S
  <2> HIDE DEF S
  <2> QED
    BY <1>5, <1>6, InductionInSet
<1>8. ASSUME NEW d \in 1..n
      PROVE  P[d] = Raised(P[d-1])
  <2>1. d - 1 \in Nat /\ d - 1 <= n
    OBVIOUS
  <2>2. P[d-1] \in All
    BY <1>7, <2>1
  <2> HIDE DEF All
  <2> QED
    BY <1>1, <1>4, <2>2
<1> QED
  BY <1>4, <1>8 DEF IsSpaces

\* Induction over the number of coefficients.
LEMMA SpaceInduction ==
    ASSUME NEW n \in Nat, NEW S, 0 \in S, \A d \in 0..(n-1) : d \in S => d + 1 \in S
    PROVE  0..n \subseteq S
<1> DEFINE T == {d \in Nat : d <= n => d \in S}
<1>1. 0 \in T
  OBVIOUS
<1>2. \A d \in Nat : d \in T => d + 1 \in T
  OBVIOUS
<1>3. Nat \subseteq T
  <2> HIDE DEF T
  <2> QED
    BY <1>1, <1>2, InductionInSet
<1> QED
  BY <1>3

LEMMA SpaceStep ==
    ASSUME NEW P, NEW n, IsSpaces(P, n), NEW d \in 0..(n-1)
    PROVE  d + 1 \in 0..n /\ P[d+1] = Raised(P[d])
<1>1. n \in Nat /\ d + 1 \in 1..n /\ (d + 1) - 1 = d
  BY DEF IsSpaces
<1> QED
  BY <1>1 DEF IsSpaces

LEMMA AboveMap ==
    ASSUME NEW c \in Byte, NEW g \in [Byte -> Byte]
    PROVE  /\ Above(c, g) \in [Byte -> Byte]
           /\ \A x \in Byte : Above(c, g)[x] = add(c, mult(x, g[x]))
<1>1. ASSUME NEW x \in Byte
      PROVE  add(c, mult(x, g[x])) \in Byte
  <2>1. mult(x, g[x]) \in Byte
    BY MultByte
  <2> QED
    BY <2>1, AddByte
<1> QED
  BY <1>1 DEF Above

LEMMA SpaceMaps ==
    ASSUME NEW P, NEW n, IsSpaces(P, n)
    PROVE  \A d \in 0..n : P[d] \subseteq [Byte -> Byte] /\ Zero \in P[d]
<1> DEFINE S == {d \in 0..n : P[d] \subseteq [Byte -> Byte] /\ Zero \in P[d]}
<1>1. n \in Nat /\ P[0] = {Zero}
  BY DEF IsSpaces
<1>2. 0 \in S
  BY <1>1, ZeroBits DEF Zero
<1>3. ASSUME NEW d \in 0..(n-1), d \in S
      PROVE  d + 1 \in S
  <2>1. d + 1 \in 0..n /\ P[d+1] = Raised(P[d])
    BY SpaceStep
  <2>2. P[d] \subseteq [Byte -> Byte] /\ Zero \in P[d]
    BY <1>3
  <2>3. P[d+1] \subseteq [Byte -> Byte]
    BY <2>1, <2>2, AboveMap DEF Raised
  <2>4. Above(0, Zero) = Zero
    <3>1. ASSUME NEW x \in Byte
          PROVE  add(0, mult(x, Zero[x])) = 0
      BY ZeroBits, MultZero, AddZero DEF Zero
    <3> QED
      BY <3>1 DEF Above, Zero
  <2>5. Zero \in P[d+1]
    BY <2>1, <2>2, <2>4, ZeroBits DEF Raised
  <2> QED
    BY <2>1, <2>3, <2>5
<1>4. 0..n \subseteq S
  <2> HIDE DEF S
  <2> QED
    BY <1>1, <1>2, <1>3, SpaceInduction
<1> QED
  BY <1>4

LEMMA SpaceGrows ==
    ASSUME NEW P, NEW n, IsSpaces(P, n)
    PROVE  \A d \in 0..(n-1) : P[d] \subseteq P[d+1]
<1> DEFINE S == {d \in 0..n : d < n => P[d] \subseteq P[d+1]}
<1>1. n \in Nat /\ P[0] = {Zero}
  BY DEF IsSpaces
<1>2. 0 \in S
  <2>1. 0 < n => 0 + 1 \in 0..n
    BY <1>1
  <2> QED
    BY <1>1, <2>1, SpaceMaps
<1>3. ASSUME NEW d \in 0..(n-1), d \in S
      PROVE  d + 1 \in S
  <2>1. d + 1 \in 0..n /\ P[d+1] = Raised(P[d]) /\ P[d] \subseteq P[d+1]
    BY <1>1, <1>3, SpaceStep
  <2>2. ASSUME d + 1 < n
        PROVE  P[d+1] \subseteq P[(d+1)+1]
    <3>1. d + 1 \in 0..(n-1)
      BY <1>1, <2>2
    <3>2. P[(d+1)+1] = Raised(P[d+1])
      BY <3>1, SpaceStep
    <3> QED
      BY <2>1, <3>2 DEF Raised
  <2> QED
    BY <2>1, <2>2
<1>4. 0..n \subseteq S
  <2> HIDE DEF S
  <2> QED
    BY <1>1, <1>2, <1>3, SpaceInduction
<1> QED
  BY <1>1, <1>4

LEMMA PlusMap ==
    ASSUME NEW f \in [Byte -> Byte], NEW g \in [Byte -> Byte]
    PROVE  /\ Plus(f, g) \in [Byte -> Byte]
           /\ \A x \in Byte : Plus(f, g)[x] = add(f[x], g[x])
<1>1. \A x \in Byte : add(f[x], g[x]) \in Byte
  BY AddByte
<1> QED
  BY <1>1 DEF Plus

LEMMA TimesMap ==
    ASSUME NEW c \in Byte, NEW f \in [Byte -> Byte]
    PROVE  /\ Times(c, f) \in [Byte -> Byte]
           /\ \A x \in Byte : Times(c, f)[x] = mult(c, f[x])
<1>1. \A x \in Byte : mult(c, f[x]) \in Byte
  BY MultByte
<1> QED
  BY <1>1 DEF Times

LEMMA WithRootMap ==
    ASSUME NEW a \in Byte, NEW g \in [Byte -> Byte]
    PROVE  /\ WithRoot(a, g) \in [Byte -> Byte]
           /\ \A x \in Byte : WithRoot(a, g)[x] = mult(add(x, a), g[x])
<1>1. ASSUME NEW x \in Byte
      PROVE  mult(add(x, a), g[x]) \in Byte
  <2>1. add(x, a) \in Byte
    BY AddByte
  <2> QED
    BY <2>1, MultByte
<1> QED
  BY <1>1 DEF WithRoot

LEMMA SameMaps ==
    ASSUME NEW f \in [Byte -> Byte], NEW g \in [Byte -> Byte], \A x \in Byte : f[x] = g[x]
    PROVE  f = g
OBVIOUS

LEMMA AbovePlus ==
    ASSUME NEW c \in Byte, NEW d \in Byte, NEW f \in [Byte -> Byte], NEW g \in [Byte -> Byte]
    PROVE  Plus(Above(c, f), Above(d, g)) = Above(add(c, d), Plus(f, g))
<1> DEFINE u == Above(c, f)
           v == Above(d, g)
           w == Plus(f, g)
           e == add(c, d)
<1>1. /\ u \in [Byte -> Byte] /\ \A x \in Byte : u[x] = add(c, mult(x, f[x]))
      /\ v \in [Byte -> Byte] /\ \A x \in Byte : v[x] = add(d, mult(x, g[x]))
  BY AboveMap
<1>2. w \in [Byte -> Byte] /\ \A x \in Byte : w[x] = add(f[x], g[x])
  BY PlusMap
<1>3. e \in Byte
  BY AddByte
<1> HIDE DEF u, v, w
<1>4. Plus(u, v) \in [Byte -> Byte] /\ \A x \in Byte : Plus(u, v)[x] = add(u[x], v[x])
  BY <1>1, PlusMap
<1>5. Above(e, w) \in [Byte -> Byte] /\ \A x \in Byte : Above(e, w)[x] = add(e, mult(x, w[x]))
  BY <1>2, <1>3, AboveMap
<1>6. ASSUME NEW x \in Byte
      PROVE  Plus(u, v)[x] = Above(e, w)[x]
  <2>1. f[x] \in Byte /\ g[x] \in Byte
    OBVIOUS
  <2>2. mult(x, f[x]) \in Byte /\ mult(x, g[x]) \in Byte
    BY <2>1, MultByte
  <2>3. add(add(c, mult(x, f[x])), add(d, mult(x, g[x])))
          = add(e, add(mult(x, f[x]), mult(x, g[x])))
    BY <2>2, AddPairs
  <2>4. add(mult(x, f[x]), mult(x, g[x])) = mult(x, add(f[x], g[x]))
    BY <2>1, MultDistributes
  <2> HIDE DEF e
  <2> QED
    BY <1>1, <1>2, <1>4, <1>5, <2>3, <2>4
<1>7. Plus(u, v) = Above(e, w)
  BY <1>4, <1>5, <1>6, SameMaps
<1> QED
  BY <1>7 DEF u, v, w

LEMMA SpacePlus ==
    ASSUME NEW P, NEW n, IsSpaces(P, n)
    PROVE  \A d \in 0..n : \A f, g \in P[d] : Plus(f, g) \in P[d]
<1> DEFINE S == {d \in 0..n : \A f, g \in P[d] : Plus(f, g) \in P[d]}
<1>1. n \in Nat /\ P[0] = {Zero}
  BY DEF IsSpaces
<1>2. 0 \in S
  <2>1. \A x \in Byte : add(Zero[x], Zero[x]) = 0
    BY ZeroBits, AddZero DEF Zero
  <2>2. Plus(Zero, Zero) = Zero
    BY <2>1 DEF Plus, Zero
  <2> QED
    BY <1>1, <2>2
<1>3. ASSUME NEW d \in 0..(n-1), d \in S
      PROVE  d + 1 \in S
  <2>1. d + 1 \in 0..n /\ P[d+1] = Raised(P[d]) /\ d \in 0..n
    BY <1>1, SpaceStep
  <2>2. P[d] \subseteq [Byte -> Byte]
    BY <2>1, SpaceMaps
  <2>3. ASSUME NEW f \in P[d+1], NEW g \in P[d+1]
        PROVE  Plus(f, g) \in P[d+1]
    <3>1. PICK c \in Byte, u \in P[d] : f = Above(c, u)
      BY <2>1 DEF Raised
    <3>2. PICK e \in Byte, v \in P[d] : g = Above(e, v)
      BY <2>1 DEF Raised
    <3>3. Plus(u, v) \in P[d] /\ add(c, e) \in Byte
      BY <1>3, AddByte
    <3>4. u \in [Byte -> Byte] /\ v \in [Byte -> Byte]
      BY <2>2
    <3>5. Plus(f, g) = Above(add(c, e), Plus(u, v))
      BY <3>1, <3>2, <3>4, AbovePlus
    <3> QED
      BY <2>1, <3>3, <3>5 DEF Raised
  <2> QED
    BY <2>1, <2>3
<1>4. 0..n \subseteq S
  <2> HIDE DEF S
  <2> QED
    BY <1>1, <1>2, <1>3, SpaceInduction
<1> QED
  BY <1>4

LEMMA SpaceTimes ==
    ASSUME NEW P, NEW n, IsSpaces(P, n), NEW a \in Byte
    PROVE  \A d \in 0..n : \A f \in P[d] : Times(a, f) \in P[d]
<1> DEFINE S == {d \in 0..n : \A f \in P[d] : Times(a, f) \in P[d]}
<1>1. n \in Nat /\ P[0] = {Zero}
  BY DEF IsSpaces
<1>2. 0 \in S
  <2>1. \A x \in Byte : mult(a, Zero[x]) = 0
    BY MultZero DEF Zero
  <2>2. Times(a, Zero) = Zero
    BY <2>1 DEF Times, Zero
  <2> QED
    BY <1>1, <2>2
<1>3. ASSUME NEW d \in 0..(n-1), d \in S
      PROVE  d + 1 \in S
  <2>1. d + 1 \in 0..n /\ P[d+1] = Raised(P[d]) /\ d \in 0..n
    BY <1>1, SpaceStep
  <2>2. P[d] \subseteq [Byte -> Byte]
    BY <2>1, SpaceMaps
  <2>3. ASSUME NEW f \in P[d+1]
        PROVE  Times(a, f) \in P[d+1]
    <3>1. PICK c \in Byte, u \in P[d] : f = Above(c, u)
      BY <2>1 DEF Raised
    <3>2. Times(a, u) \in P[d] /\ mult(a, c) \in Byte
      BY <1>3, MultByte
    <3>3. u \in [Byte -> Byte]
      BY <2>2
    <3>4. f \in [Byte -> Byte] /\ \A x \in Byte : f[x] = add(c, mult(x, u[x]))
      BY <3>1, <3>3, AboveMap
    <3>5. ASSUME NEW x \in Byte
          PROVE  mult(a, f[x]) = add(mult(a, c), mult(x, Times(a, u)[x]))
      <4>1. u[x] \in Byte /\ mult(x, u[x]) \in Byte
        BY <3>3, MultByte
      <4>2. mult(a, add(c, mult(x, u[x]))) = add(mult(a, c), mult(a, mult(x, u[x])))
        BY <4>1, MultDistributes
      <4>3. mult(a, mult(x, u[x])) = mult(x, mult(a, u[x]))
        <5>1. mult(a, mult(x, u[x])) = mult(mult(a, x), u[x])
          BY <4>1, MultAssociates
        <5>2. mult(mult(x, a), u[x]) = mult(x, mult(a, u[x]))
          BY <4>1, MultAssociates
        <5> QED
          BY <5>1, <5>2, MultCommutes
      <4>4. Times(a, u)[x] = mult(a, u[x])
        BY <3>3, TimesMap
      <4> QED
        BY <3>4, <4>2, <4>3, <4>4
    <3>6. Times(a, f) = Above(mult(a, c), Times(a, u))
      BY <3>5 DEF Times, Above
    <3> QED
      BY <2>1, <3>2, <3>6 DEF Raised
  <2> QED
    BY <2>1, <2>3
<1>4. 0..n \subseteq S
  <2> HIDE DEF S
  <2> QED
    BY <1>1, <1>2, <1>3, SpaceInduction
<1> QED
  BY <1>4

LEMMA SpaceWithRoot ==
    ASSUME NEW P, NEW n, IsSpaces(P, n), NEW d \in 0..(n-1), NEW f \in P[d], NEW a \in Byte
    PROVE  WithRoot(a, f) \in P[d+1]
<1>1. n \in Nat /\ d \in 0..n
  BY DEF IsSpaces
<1>2. d + 1 \in 0..n /\ P[d+1] = Raised(P[d])
  BY SpaceStep
<1>3. f \in [Byte -> Byte]
  BY <1>1, SpaceMaps
<1>4. Above(0, f) \in P[d+1]
  BY <1>2, ZeroBits DEF Raised
<1>5. Times(a, f) \in P[d+1]
  BY <1>1, SpaceTimes, SpaceGrows
<1>6. Plus(Above(0, f), Times(a, f)) \in P[d+1]
  BY <1>2, <1>4, <1>5, SpacePlus
<1>7. ASSUME NEW x \in Byte
      PROVE  mult(add(x, a), f[x]) = add(Above(0, f)[x], Times(a, f)[x])
  <2>1. f[x] \in Byte /\ mult(x, f[x]) \in Byte
    BY <1>3, MultByte
  <2>2. mult(add(x, a), f[x]) = add(mult(x, f[x]), mult(a, f[x]))
    BY <2>1, MultAdds
  <2>3. Above(0, f)[x] = add(0, mult(x, f[x])) /\ Times(a, f)[x] = mult(a, f[x])
    BY <1>3, ZeroBits, AboveMap, TimesMap
  <2> QED
    BY <2>1, <2>2, <2>3, AddZero
<1>8. WithRoot(a, f) = Plus(Above(0, f), Times(a, f))
  BY <1>7 DEF WithRoot, Plus
<1> QED
  BY <1>6, <1>8

-----------------------------------------------------------------------------
(* A polynomial with d coefficients that is 0 in d places is 0 everywhere. *)

\* f(x) + f(a) has the root a.
LEMMA RootFactor ==
    ASSUME NEW P, NEW n, IsSpaces(P, n), NEW a \in Byte
    PROVE  \A d \in 0..(n-1) : \A f \in P[d+1] :
              \E g \in P[d] : \A x \in Byte : f[x] = add(f[a], mult(add(x, a), g[x]))
<1> DEFINE Factors(d) == \A f \in P[d+1] :
              \E g \in P[d] : \A x \in Byte : f[x] = add(f[a], mult(add(x, a), g[x]))
           S == {d \in 0..n : d < n => Factors(d)}
<1>1. n \in Nat /\ P[0] = {Zero}
  BY DEF IsSpaces
<1>2. 0 \in S
  <2>1. ASSUME 0 < n, NEW f \in P[0+1]
        PROVE  \A x \in Byte : f[x] = add(f[a], mult(add(x, a), Zero[x]))
    <3>1. 0 \in 0..(n-1)
      BY <1>1, <2>1
    <3>2. P[0+1] = Raised(P[0])
      BY <3>1, SpaceStep
    <3>3. PICK c \in Byte : f = Above(c, Zero)
      BY <1>1, <3>2 DEF Raised
    <3>4. Zero \in [Byte -> Byte] /\ \A x \in Byte : Zero[x] = 0
      BY ZeroBits DEF Zero
    <3>5. ASSUME NEW x \in Byte
          PROVE  f[x] = c
      <4>1. f[x] = add(c, mult(x, Zero[x]))
        BY <3>3, <3>4, AboveMap
      <4> QED
        BY <3>4, <4>1, MultZero, AddZero
    <3>6. ASSUME NEW x \in Byte
          PROVE  add(f[a], mult(add(x, a), Zero[x])) = c
      <4>1. add(x, a) \in Byte
        BY AddByte
      <4> QED
        BY <3>4, <3>5, <4>1, MultZero, AddZero
    <3> QED
      BY <3>5, <3>6
  <2>2. 0 < n => Factors(0)
    <3>1. Zero \in P[0]
      BY <1>1
    <3> QED
      BY <2>1, <3>1
  <2> HIDE DEF Factors
  <2> QED
    BY <1>1, <2>2
<1>3. ASSUME NEW d \in 0..(n-1), d \in S
      PROVE  d + 1 \in S
  <2>1. d + 1 \in 0..n /\ P[d+1] = Raised(P[d]) /\ d \in 0..n /\ Factors(d)
    BY <1>1, <1>3, SpaceStep
  <2>2. ASSUME d + 1 < n, NEW f \in P[(d+1)+1]
        PROVE  \E g \in P[d+1] : \A x \in Byte : f[x] = add(f[a], mult(add(x, a), g[x]))
    <3>1. d + 1 \in 0..(n-1)
      BY <1>1, <2>2
    <3>2. P[(d+1)+1] = Raised(P[d+1])
      BY <3>1, SpaceStep
    <3>3. PICK c \in Byte, h \in P[d+1] : f = Above(c, h)
      BY <3>2 DEF Raised
    <3>4. PICK g \in P[d] : \A x \in Byte : h[x] = add(h[a], mult(add(x, a), g[x]))
      BY <2>1
    <3>5. h \in [Byte -> Byte] /\ g \in [Byte -> Byte]
      BY <2>1, SpaceMaps
    <3> DEFINE G == Above(h[a], g)
    <3>6. G \in P[d+1]
      BY <2>1, <3>5 DEF Raised
    <3>7. ASSUME NEW x \in Byte
          PROVE  f[x] = add(f[a], mult(add(x, a), G[x]))
      <4> DEFINE e == add(x, a)
      <4>1. /\ f[x] = add(c, mult(x, h[x])) /\ f[a] = add(c, mult(a, h[a]))
            /\ G[x] = add(h[a], mult(x, g[x]))
        BY <3>3, <3>5, AboveMap
      <4>2. e \in Byte /\ g[x] \in Byte /\ h[a] \in Byte /\ h[x] = add(h[a], mult(e, g[x]))
        BY <3>4, <3>5, AddByte
      <4> HIDE DEF G
      <4>3. mult(e, g[x]) \in Byte /\ mult(x, g[x]) \in Byte /\ mult(x, h[a]) \in Byte
            /\ mult(a, h[a]) \in Byte /\ mult(e, h[a]) \in Byte
        BY <4>2, MultByte
      <4>4. mult(x, h[x]) = add(mult(x, h[a]), mult(x, mult(e, g[x])))
        BY <4>2, <4>3, MultDistributes
      <4>5. mult(x, mult(e, g[x])) = mult(e, mult(x, g[x]))
        <5>1. mult(x, mult(e, g[x])) = mult(mult(x, e), g[x])
          BY <4>2, MultAssociates
        <5>2. mult(mult(e, x), g[x]) = mult(e, mult(x, g[x]))
          BY <4>2, MultAssociates
        <5> QED
          BY <4>2, <5>1, <5>2, MultCommutes
      <4>6. mult(x, h[a]) = add(mult(a, h[a]), mult(e, h[a]))
        <5>1. x = add(a, e)
          <6>1. add(a, add(x, a)) = add(add(x, a), a)
            BY <4>2, AddCommutes
          <6>2. add(add(x, a), a) = add(x, add(a, a))
            BY AddAssociates
          <6> QED
            BY <6>1, <6>2, AddSelf, AddZero
        <5> HIDE DEF e
        <5>2. mult(add(a, e), h[a]) = add(mult(a, h[a]), mult(e, h[a]))
          BY <4>2, MultAdds
        <5> QED
          BY <5>1, <5>2
      <4> HIDE DEF e
      <4>7. mult(e, G[x]) = add(mult(e, h[a]), mult(e, mult(x, g[x])))
        BY <4>1, <4>2, <4>3, MultDistributes
      <4> DEFINE u == mult(a, h[a])
                 v == mult(e, h[a])
                 w == mult(e, mult(x, g[x]))
      <4>8. u \in Byte /\ v \in Byte /\ w \in Byte
        BY <4>2, <4>3, MultByte
      <4>9. f[x] = add(c, add(add(u, v), w)) /\ f[a] = add(c, u) /\ mult(e, G[x]) = add(v, w)
        BY <4>1, <4>4, <4>5, <4>6, <4>7
      <4> HIDE DEF u, v, w
      <4>10. add(c, add(add(u, v), w)) = add(add(c, u), add(v, w))
        <5>1. add(v, w) \in Byte /\ add(add(u, v), w) = add(u, add(v, w))
          BY <4>8, AddByte, AddAssociates
        <5> QED
          BY <4>8, <5>1, AddAssociates
      <4> QED
        BY <4>9, <4>10 DEF e
    <3> QED
      BY <3>6, <3>7
  <2>3. d + 1 < n => Factors(d + 1)
    BY <2>2
  <2> HIDE DEF Factors
  <2> QED
    BY <2>1, <2>3
<1>4. 0..n \subseteq S
  <2> HIDE DEF S
  <2> QED
    BY <1>1, <1>2, <1>3, SpaceInduction
<1>5. \A d \in 0..(n-1) : d \in 0..n /\ d < n
  BY <1>1
<1>6. \A d \in 0..(n-1) : Factors(d)
  <2> HIDE DEF Factors
  <2> QED
    BY <1>4, <1>5
<1> QED
  BY <1>6

LEMMA SumIsZero ==
    ASSUME NEW a \in Byte, NEW b \in Byte
    PROVE  add(a, b) = 0 <=> a = b
BY SumZero, AddSelf

LEMMA RootsMakeZero ==
    ASSUME NEW P, NEW n, IsSpaces(P, n), NEW xs \in [1..n -> Byte],
           \A i, j \in 1..n : xs[i] = xs[j] => i = j
    PROVE  \A d \in 0..n : \A f \in P[d] : (\A i \in 1..d : f[xs[i]] = 0) => f = Zero
<1> DEFINE Roots(d) == \A f \in P[d] : (\A i \in 1..d : f[xs[i]] = 0) => f = Zero
           S == {d \in 0..n : Roots(d)}
<1>1. n \in Nat /\ P[0] = {Zero}
  BY DEF IsSpaces
<1>2. 0 \in S
  BY <1>1
<1>3. ASSUME NEW d \in 0..(n-1), d \in S
      PROVE  d + 1 \in S
  <2>1. d + 1 \in 0..n /\ d + 1 \in 1..n /\ d \in 0..n /\ Roots(d)
    BY <1>1, <1>3
  <2>2. ASSUME NEW f \in P[d+1], \A i \in 1..(d+1) : f[xs[i]] = 0
        PROVE  f = Zero
    <3> DEFINE a == xs[d+1]
    <3>1. a \in Byte /\ f[a] = 0
      BY <2>1, <2>2
    <3> HIDE DEF a
    <3>2. PICK g \in P[d] : \A x \in Byte : f[x] = add(f[a], mult(add(x, a), g[x]))
      BY <3>1, RootFactor
    <3>3. f \in [Byte -> Byte] /\ g \in [Byte -> Byte]
      BY <2>1, SpaceMaps
    <3>4. ASSUME NEW x \in Byte
          PROVE  f[x] = mult(add(x, a), g[x])
      <4>1. add(x, a) \in Byte /\ g[x] \in Byte
        BY <3>1, <3>3, AddByte
      <4>2. mult(add(x, a), g[x]) \in Byte
        BY <4>1, MultByte
      <4> QED
        BY <3>1, <3>2, <4>2, AddZero
    <3>5. ASSUME NEW i \in 1..d
          PROVE  g[xs[i]] = 0
      <4> DEFINE x == xs[i]
      <4>1. i \in 1..n /\ i \in 1..(d+1) /\ i # d + 1
        BY <1>1
      <4>2. x \in Byte /\ x # a /\ f[x] = 0
        BY <2>1, <2>2, <4>1 DEF a
      <4> HIDE DEF x
      <4>3. add(x, a) \in Byte /\ add(x, a) # 0 /\ g[x] \in Byte
        BY <3>1, <3>3, <4>2, AddByte, SumIsZero
      <4>4. mult(add(x, a), g[x]) = 0
        BY <3>4, <4>2
      <4>5. g[x] = 0
        BY <4>3, <4>4, NoZeroDivisors
      <4> QED
        BY <4>5 DEF x
    <3>6. g = Zero
      BY <2>1, <3>5
    <3>7. ASSUME NEW x \in Byte
          PROVE  f[x] = 0
      <4>1. add(x, a) \in Byte /\ g[x] = 0
        BY <3>1, <3>6, AddByte DEF Zero
      <4> QED
        BY <3>4, <4>1, MultZero
    <3> QED
      BY <3>3, <3>7 DEF Zero
  <2>3. Roots(d + 1)
    BY <2>2
  <2> HIDE DEF Roots
  <2> QED
    BY <2>1, <2>3
<1>4. 0..n \subseteq S
  <2> HIDE DEF S
  <2> QED
    BY <1>1, <1>2, <1>3, SpaceInduction
<1> QED
  BY <1>4

-----------------------------------------------------------------------------
(* evaluate and interpolatePolynomial return values of polynomials.        *)

IsHorner(F, n, p, x) ==
    /\ F[0] = p[n]
    /\ \A i \in 1..(n-1) : F[i] = add(mult(F[i-1], x), p[n-i])
    /\ \A i \in 0..(n-1) : F[i] \in Byte
    /\ evaluate(p, x) = F[n-1]

AsMap(p) == [x \in Byte |-> evaluate(p, x)]

LEMMA EvaluateInSpace ==
    ASSUME NEW P, NEW n, IsSpaces(P, n), NEW k \in 1..n, NEW p \in [1..k -> Byte]
    PROVE  AsMap(p) \in P[k]
<1>1. n \in Nat /\ P[0] = {Zero} /\ k \in Nat \ {0}
  BY DEF IsSpaces
<1> DEFINE G(x) == CHOOSE F : IsHorner(F, k, p, x)
           T(i) == [x \in Byte |-> G(x)[i]]
<1>2. ASSUME NEW x \in Byte
      PROVE  IsHorner(G(x), k, p, x)
  <2>1. \E F : IsHorner(F, k, p, x)
    BY <1>1, EvaluateIs DEF IsHorner
  <2> QED
    BY <2>1
<1> HIDE DEF G
<1> DEFINE S == {i \in Nat : i <= k - 1 => T(i) \in P[i+1]}
<1>3. 0 \in S
  <2>1. P[0+1] = Raised(P[0])
    <3>1. 0 \in 0..(n-1)
      BY <1>1
    <3> QED
      BY <3>1, SpaceStep
  <2>2. p[k] \in Byte
    BY <1>1
  <2>3. ASSUME NEW x \in Byte
        PROVE  G(x)[0] = add(p[k], mult(x, Zero[x]))
    <3>1. G(x)[0] = p[k]
      BY <1>2 DEF IsHorner
    <3>2. Zero[x] = 0
      BY DEF Zero
    <3> QED
      BY <2>2, <3>1, <3>2, MultZero, AddZero
  <2>4. T(0) = Above(p[k], Zero)
    BY <2>3 DEF Above
  <2>5. T(0) \in P[0+1]
    BY <1>1, <2>1, <2>2, <2>4 DEF Raised
  <2> QED
    BY <2>5
<1>4. ASSUME NEW i \in Nat, i \in S
      PROVE  i + 1 \in S
  <2> SUFFICES ASSUME i + 1 <= k - 1
               PROVE  T(i+1) \in P[(i+1)+1]
    OBVIOUS
  <2>1. /\ i + 1 \in 1..(k-1) /\ (i + 1) - 1 = i /\ i + 1 \in 0..(n-1) /\ k - (i + 1) \in 1..k
        /\ i \in 0..(k-1)
    BY <1>1
  <2>2. T(i) \in P[i+1] /\ P[(i+1)+1] = Raised(P[i+1])
    BY <1>4, <2>1, SpaceStep
  <2> DEFINE c == p[k - (i + 1)]
  <2>3. c \in Byte
    BY <2>1
  <2>4. ASSUME NEW x \in Byte
        PROVE  G(x)[i+1] = add(c, mult(x, T(i)[x]))
    <3> DEFINE g == G(x)[i]
    <3>1. G(x)[i+1] = add(mult(g, x), c) /\ g \in Byte
      BY <1>2, <2>1 DEF IsHorner
    <3>2. T(i)[x] = g
      OBVIOUS
    <3> HIDE DEF g, c
    <3>3. mult(g, x) = mult(x, g) /\ mult(x, g) \in Byte
      BY <3>1, MultCommutes, MultByte
    <3> QED
      BY <2>3, <3>1, <3>2, <3>3, AddCommutes
  <2> HIDE DEF c
  <2>5. T(i+1) = Above(c, T(i))
    BY <2>4 DEF Above
  <2> HIDE DEF T
  <2> QED
    BY <2>2, <2>3, <2>5 DEF Raised
<1>5. Nat \subseteq S
  <2> HIDE DEF S
  <2> QED
    BY <1>3, <1>4, InductionInSet
<1>6. k - 1 \in Nat /\ (k - 1) + 1 = k
  BY <1>1
<1>7. T(k-1) \in P[k]
  BY <1>5, <1>6
<1>8. \A x \in Byte : G(x)[k-1] = evaluate(p, x)
  BY <1>2 DEF IsHorner
<1> QED
  BY <1>7, <1>8 DEF AsMap

LEMMA DivIs ==
    ASSUME NEW a \in Byte, NEW b \in Byte
    PROVE  div(a, b) \in Byte /\ div(a, b) = mult(a, inverse(b))
<1>1. inverse(b) \in Byte
  BY InverseByte
<1> QED
  BY <1>1, MultByte, MultZero, ZeroBits DEF div

IsBasis(F, x, xs, m, i) ==
    /\ F[0] = 1
    /\ \A j \in 1..m :
          F[j] = IF i = j THEN F[j-1]
                 ELSE mult(F[j-1], div(add(x, xs[j]), add(xs[i], xs[j])))
    /\ \A j \in 0..m : F[j] \in Byte
    /\ basisAt(x, xs, i) = F[m]

LEMMA BasisIs ==
    ASSUME NEW m \in Nat, NEW xs \in [1..m -> Byte], NEW x \in Byte, NEW i \in 1..m
    PROVE  \E F : IsBasis(F, x, xs, m, i)
<1> DEFINE t(j) == div(add(x, xs[j]), add(xs[i], xs[j]))
           step == [j \in 1..m |-> [b \in Byte |-> IF i = j THEN b ELSE mult(b, t(j))]]
<1>1. Len(xs) = m /\ 1 \in Byte
  BY DEF Byte
<1>2. ASSUME NEW j \in 1..m
      PROVE  t(j) \in Byte
  <2>1. add(x, xs[j]) \in Byte /\ add(xs[i], xs[j]) \in Byte
    BY AddByte
  <2> QED
    BY <2>1, DivIs
<1>3. basisAt(x, xs, i) = Loop(m, 1, step)
  BY <1>1 DEF basisAt
<1> HIDE DEF t
<1>4. \A j \in 1..m : \A b \in Byte : mult(b, t(j)) \in Byte
  BY <1>2, MultByte
<1>5. step \in [1..m -> [Byte -> Byte]]
  BY <1>4
<1>6. \A j \in 1..m : \A b \in Byte : step[j][b] = IF i = j THEN b ELSE mult(b, t(j))
  OBVIOUS
<1> HIDE DEF step
<1>7. PICK F : /\ F[0] = 1
               /\ \A j \in 1..m : F[j] = step[j][F[j-1]]
               /\ \A j \in 0..m : F[j] \in Byte
               /\ Loop(m, 1, step) = F[m]
  <2>1. \E F : IsLoop(F, m, 1, step)
    BY <1>1, <1>5, LoopIs
  <2> QED
    BY <2>1 DEF IsLoop
<1>8. ASSUME NEW j \in 1..m
      PROVE  F[j] = IF i = j THEN F[j-1] ELSE mult(F[j-1], t(j))
  <2>1. j - 1 \in 0..m
    OBVIOUS
  <2>2. F[j-1] \in Byte
    BY <1>7, <2>1
  <2> QED
    BY <1>6, <1>7, <2>2
<1> QED
  BY <1>3, <1>7, <1>8 DEF IsBasis, t

IsSum(F, x, xs, ys, m) ==
    /\ F[0] = 0
    /\ \A i \in 1..m : F[i] = add(F[i-1], mult(ys[i], basisAt(x, xs, i)))
    /\ \A i \in 0..m : F[i] \in Byte
    /\ interpolateAt(x, xs, ys) = F[m]

LEMMA SumIs ==
    ASSUME NEW m \in Nat, NEW xs \in [1..m -> Byte], NEW ys \in [1..m -> Byte], NEW x \in Byte
    PROVE  /\ \E F : IsSum(F, x, xs, ys, m)
           /\ \A i \in 1..m : basisAt(x, xs, i) \in Byte
<1> DEFINE t(i) == mult(ys[i], basisAt(x, xs, i))
           step == [i \in 1..m |-> [b \in Byte |-> add(b, t(i))]]
<1>1. Len(xs) = m
  OBVIOUS
<1>2. ASSUME NEW i \in 1..m
      PROVE  basisAt(x, xs, i) \in Byte
  <2>1. PICK F : IsBasis(F, x, xs, m, i)
    BY BasisIs
  <2>2. m \in 0..m
    OBVIOUS
  <2> QED
    BY <2>1, <2>2 DEF IsBasis
<1>3. \A i \in 1..m : t(i) \in Byte
  BY <1>2, MultByte
<1>4. interpolateAt(x, xs, ys) = Loop(m, 0, step)
  BY <1>1 DEF interpolateAt
<1> HIDE DEF t
<1>5. \A i \in 1..m : \A b \in Byte : add(b, t(i)) \in Byte
  BY <1>3, AddByte
<1>6. step \in [1..m -> [Byte -> Byte]]
  BY <1>5
<1>7. \A i \in 1..m : \A b \in Byte : step[i][b] = add(b, t(i))
  OBVIOUS
<1> HIDE DEF step
<1>8. PICK F : /\ F[0] = 0
               /\ \A i \in 1..m : F[i] = step[i][F[i-1]]
               /\ \A i \in 0..m : F[i] \in Byte
               /\ Loop(m, 0, step) = F[m]
  <2>1. \E F : IsLoop(F, m, 0, step)
    BY <1>6, ZeroBits, LoopIs
  <2> QED
    BY <2>1 DEF IsLoop
<1>9. ASSUME NEW i \in 1..m
      PROVE  F[i] = add(F[i-1], t(i))
  <2>1. i - 1 \in 0..m
    OBVIOUS
  <2>2. F[i-1] \in Byte
    BY <1>8, <2>1
  <2> QED
    BY <1>7, <1>8, <2>2
<1>10. IsSum(F, x, xs, ys, m)
  BY <1>4, <1>8, <1>9 DEF IsSum, t
<1> QED
  BY <1>2, <1>10

\* As a function of x a basis is a product of m - 1 factors with a root each.
LEMMA BasisInSpace ==
    ASSUME NEW P, NEW m, IsSpaces(P, m), NEW xs \in [1..m -> Byte], NEW i \in 1..m
    PROVE  [x \in Byte |-> basisAt(x, xs, i)] \in P[m]
<1>1. m \in Nat /\ P[0] = {Zero}
  BY DEF IsSpaces
<1> DEFINE G(x) == CHOOSE F : IsBasis(F, x, xs, m, i)
           T(j) == [x \in Byte |-> G(x)[j]]
<1>2. ASSUME NEW x \in Byte
      PROVE  IsBasis(G(x), x, xs, m, i)
  <2>1. \E F : IsBasis(F, x, xs, m, i)
    BY <1>1, BasisIs
  <2> QED
    BY <2>1
<1> HIDE DEF G
<1> DEFINE S == {j \in Nat : j <= m => IF j < i THEN T(j) \in P[j+1] ELSE T(j) \in P[j]}
<1>3. 0 \in S
  <2>1. 0 \in 0..(m-1) /\ 0 < i
    BY <1>1
  <2>2. P[0+1] = Raised(P[0])
    BY <2>1, SpaceStep
  <2>3. 1 \in Byte
    BY DEF Byte
  <2>4. ASSUME NEW x \in Byte
        PROVE  G(x)[0] = add(1, mult(x, Zero[x]))
    <3>1. G(x)[0] = 1
      BY <1>2 DEF IsBasis
    <3>2. Zero[x] = 0
      BY DEF Zero
    <3> QED
      BY <2>3, <3>1, <3>2, MultZero, AddZero
  <2>5. T(0) = Above(1, Zero)
    BY <2>4 DEF Above
  <2>6. T(0) \in P[0+1]
    BY <1>1, <2>2, <2>3, <2>5 DEF Raised
  <2> QED
    BY <2>1, <2>6
<1>4. ASSUME NEW j \in Nat, j \in S
      PROVE  j + 1 \in S
  <2> SUFFICES ASSUME j + 1 <= m
               PROVE  IF j + 1 < i THEN T(j+1) \in P[(j+1)+1] ELSE T(j+1) \in P[j+1]
    OBVIOUS
  <2> DEFINE l == j + 1
  <2>1. l \in 1..m /\ l - 1 = j /\ j \in 0..m /\ j \in 0..(m-1)
    BY <1>1
  <2>2. IF j < i THEN T(j) \in P[j+1] ELSE T(j) \in P[j]
    BY <1>4, <2>1
  <2>3. CASE i = l
    <3>1. ASSUME NEW x \in Byte
          PROVE  G(x)[l] = G(x)[j]
      BY <1>2, <2>1, <2>3 DEF IsBasis
    <3>2. T(l) = T(j)
      <4> HIDE DEF l
      <4> QED
        BY <3>1
    <3> HIDE DEF T
    <3>3. j < i /\ ~(j + 1 < i)
      BY <2>3
    <3> QED
      BY <2>2, <3>2, <3>3
  <2>4. CASE i # l
    <3> DEFINE a == xs[l]
               c == inverse(add(xs[i], xs[l]))
               f == T(j)
    <3>1. a \in Byte /\ add(xs[i], xs[l]) \in Byte
      BY <2>1, AddByte
    <3>2. c \in Byte
      BY <3>1, InverseByte
    <3>3. f \in [Byte -> Byte]
      <4>1. \A x \in Byte : G(x)[j] \in Byte
        BY <1>2, <2>1 DEF IsBasis
      <4> QED
        BY <4>1
    <3>4. ASSUME NEW x \in Byte
          PROVE  G(x)[l] = mult(c, mult(add(x, a), f[x]))
      <4> DEFINE g == G(x)[j]
                 e == add(x, a)
      <4>1. G(x)[l] = mult(g, div(add(x, xs[l]), add(xs[i], xs[l])))
        BY <1>2, <2>1, <2>4 DEF IsBasis
      <4>2. e \in Byte
        BY <3>1, AddByte
      <4>3. div(add(x, xs[l]), add(xs[i], xs[l])) = mult(e, c)
        BY <3>1, <4>2, DivIs
      <4>4. f[x] = g /\ g \in Byte
        BY <3>3
      <4> HIDE DEF g, e, c, f, a
      <4>5. mult(g, mult(e, c)) = mult(mult(g, e), c)
        BY <3>2, <4>2, <4>4, MultAssociates
      <4>6. mult(g, e) = mult(e, g) /\ mult(e, g) \in Byte
        BY <4>2, <4>4, MultCommutes, MultByte
      <4>7. mult(mult(e, g), c) = mult(c, mult(e, g))
        BY <3>2, <4>6, MultCommutes
      <4>8. G(x)[l] = mult(c, mult(e, f[x]))
        BY <4>1, <4>3, <4>4, <4>5, <4>6, <4>7
      <4> QED
        BY <4>8 DEF e
    <3> HIDE DEF a, c, f, l
    <3>5. WithRoot(a, f) \in [Byte -> Byte]
          /\ \A x \in Byte : WithRoot(a, f)[x] = mult(add(x, a), f[x])
      BY <3>1, <3>3, WithRootMap
    <3>6. T(l) = Times(c, WithRoot(a, f))
      BY <3>4, <3>5 DEF Times
    <3>7. CASE j < i
      <4>1. j + 1 < i /\ j + 1 \in 0..(m-1) /\ (j + 1) + 1 \in 0..m /\ f \in P[j+1]
        BY <1>1, <2>2, <2>4, <3>7 DEF l, f
      <4>2. WithRoot(a, f) \in P[(j+1)+1]
        BY <3>1, <4>1, SpaceWithRoot
      <4>3. T(l) \in P[(j+1)+1]
        BY <3>2, <3>6, <4>1, <4>2, SpaceTimes
      <4> QED
        BY <4>1, <4>3 DEF l
    <3>8. CASE ~(j < i)
      <4>1. ~(j + 1 < i) /\ j + 1 \in 0..m /\ f \in P[j]
        BY <2>1, <2>2, <3>8 DEF f
      <4>2. WithRoot(a, f) \in P[j+1]
        BY <2>1, <3>1, <4>1, SpaceWithRoot
      <4>3. T(l) \in P[j+1]
        BY <3>2, <3>6, <4>1, <4>2, SpaceTimes
      <4> QED
        BY <4>1, <4>3 DEF l
    <3> QED
      BY <3>7, <3>8
  <2> QED
    BY <2>3, <2>4
<1>5. Nat \subseteq S
  <2> HIDE DEF S
  <2> QED
    BY <1>3, <1>4, InductionInSet
<1>6. T(m) \in P[m]
  <2>1. m \in S /\ ~(m < i)
    BY <1>1, <1>5
  <2> HIDE DEF T
  <2> QED
    BY <1>1, <2>1
<1>7. \A x \in Byte : G(x)[m] = basisAt(x, xs, i)
  BY <1>2 DEF IsBasis
<1> QED
  BY <1>6, <1>7

LEMMA SumInSpace ==
    ASSUME NEW P, NEW m, IsSpaces(P, m), NEW xs \in [1..m -> Byte], NEW ys \in [1..m -> Byte]
    PROVE  [x \in Byte |-> interpolateAt(x, xs, ys)] \in P[m]
<1>1. m \in Nat
  BY DEF IsSpaces
<1> DEFINE G(x) == CHOOSE F : IsSum(F, x, xs, ys, m)
           T(i) == [x \in Byte |-> G(x)[i]]
<1>2. ASSUME NEW x \in Byte
      PROVE  IsSum(G(x), x, xs, ys, m)
  <2>1. \E F : IsSum(F, x, xs, ys, m)
    BY <1>1, SumIs
  <2> QED
    BY <2>1
<1> HIDE DEF G
<1> DEFINE S == {i \in Nat : i <= m => T(i) \in P[m]}
<1>3. 0 \in S
  <2>1. T(0) = Zero
    BY <1>2 DEF IsSum, Zero
  <2>2. Zero \in P[m]
    BY <1>1, SpaceMaps
  <2> HIDE DEF T
  <2> QED
    BY <2>1, <2>2
<1>4. ASSUME NEW j \in Nat, j \in S
      PROVE  j + 1 \in S
  <2> SUFFICES ASSUME j + 1 <= m
               PROVE  T(j+1) \in P[m]
    OBVIOUS
  <2> DEFINE l == j + 1
             B == [x \in Byte |-> basisAt(x, xs, l)]
             Y == Times(ys[l], B)
             f == T(j)
  <2>1. l \in 1..m /\ l - 1 = j /\ j <= m /\ ys[l] \in Byte /\ m \in 0..m
    BY <1>1
  <2>2. f \in P[m]
    BY <1>4, <2>1
  <2>3. B \in P[m]
    <3> HIDE DEF l
    <3> QED
      BY <2>1, BasisInSpace
  <2>4. B \in [Byte -> Byte]
    <3> HIDE DEF B
    <3> QED
      BY <2>1, <2>3, SpaceMaps
  <2>5. Y \in P[m]
    <3> HIDE DEF B, l
    <3> QED
      BY <2>1, <2>3, SpaceTimes
  <2>6. \A x \in Byte : Y[x] = mult(ys[l], B[x])
    <3> HIDE DEF B, l
    <3> QED
      BY <2>1, <2>4, TimesMap
  <2>7. \A x \in Byte : B[x] = basisAt(x, xs, l) /\ f[x] = G(x)[j]
    OBVIOUS
  <2> HIDE DEF B, Y, f, l
  <2>8. ASSUME NEW x \in Byte
        PROVE  G(x)[l] = add(f[x], Y[x])
    <3>1. G(x)[l] = add(G(x)[l-1], mult(ys[l], basisAt(x, xs, l)))
      BY <1>2, <2>1 DEF IsSum
    <3> QED
      BY <2>1, <2>6, <2>7, <3>1
  <2>9. T(l) = Plus(f, Y)
    BY <2>8 DEF Plus
  <2>10. Plus(f, Y) \in P[m]
    BY <2>1, <2>2, <2>5, SpacePlus
  <2> HIDE DEF T
  <2> QED
    BY <2>9, <2>10 DEF l
<1>5. Nat \subseteq S
  <2> HIDE DEF S
  <2> QED
    BY <1>3, <1>4, InductionInSet
<1>6. T(m) \in P[m]
  BY <1>1, <1>5
<1>7. \A x \in Byte : G(x)[m] = interpolateAt(x, xs, ys)
  BY <1>2 DEF IsSum
<1> QED
  BY <1>6, <1>7

-----------------------------------------------------------------------------
(* The value at 0.                                                         *)

AllDiffer(xs, m) == \A i, j \in 1..m : xs[i] = xs[j] => i = j

LEMMA QuotientOne ==
    ASSUME NEW d \in Byte, d # 0
    PROVE  div(d, d) = 1
<1>1. inverse(d) \in Byte
  BY InverseByte
<1> QED
  BY InverseWorks DEF div

\* A basis is 1 at its own x and 0 at the others.
LEMMA BasisAtPoints ==
    ASSUME NEW m \in Nat, NEW xs \in [1..m -> Byte], AllDiffer(xs, m),
           NEW i \in 1..m, NEW l \in 1..m
    PROVE  basisAt(xs[l], xs, i) = IF l = i THEN 1 ELSE 0
<1> DEFINE x == xs[l]
           t(j) == div(add(x, xs[j]), add(xs[i], xs[j]))
<1>1. x \in Byte
  OBVIOUS
<1>2. PICK F : IsBasis(F, x, xs, m, i)
  BY <1>1, BasisIs
<1>3. /\ F[0] = 1
      /\ \A j \in 1..m : F[j] = IF i = j THEN F[j-1] ELSE mult(F[j-1], t(j))
      /\ \A j \in 0..m : F[j] \in Byte
      /\ basisAt(x, xs, i) = F[m]
  BY <1>2 DEF IsBasis
<1>4. \A j \in 1..m : xs[j] \in Byte /\ t(j) \in Byte
  <2>1. ASSUME NEW j \in 1..m
        PROVE  t(j) \in Byte
    <3>1. add(x, xs[j]) \in Byte /\ add(xs[i], xs[j]) \in Byte
      BY <1>1, AddByte
    <3> QED
      BY <3>1, DivIs
  <2> QED
    BY <2>1
<1>5. CASE l = i
  <2>1. ASSUME NEW j \in 1..m, i # j
        PROVE  t(j) = 1
    <3>1. add(xs[i], xs[j]) \in Byte
      BY AddByte
    <3>2. xs[i] # xs[j]
      BY <2>1 DEF AllDiffer
    <3>3. add(xs[i], xs[j]) # 0
      BY <3>2, SumZero
    <3> QED
      BY <1>5, <3>1, <3>3, QuotientOne
  <2> HIDE DEF t
  <2> DEFINE S == {j \in Nat : j <= m => F[j] = 1}
  <2>2. 0 \in S
    BY <1>3
  <2>3. ASSUME NEW j \in Nat, j \in S
        PROVE  j + 1 \in S
    <3> SUFFICES ASSUME j + 1 <= m
                 PROVE  F[j+1] = 1
      OBVIOUS
    <3>1. j + 1 \in 1..m /\ (j + 1) - 1 = j /\ F[j] = 1
      BY <2>3
    <3>2. 1 \in Byte /\ mult(1, 1) = 1
      <4>1. 1 \in Byte
        BY DEF Byte
      <4> QED
        BY <4>1, OneTimes
    <3> QED
      BY <1>3, <2>1, <3>1, <3>2
  <2>4. Nat \subseteq S
    <3> HIDE DEF S
    <3> QED
      BY <2>2, <2>3, InductionInSet
  <2> QED
    BY <1>3, <1>5, <2>4
<1>6. CASE l # i
  <2>1. t(l) = 0
    <3>1. add(x, x) = 0
      BY <1>1, AddSelf
    <3> QED
      BY <3>1 DEF div
  <2> HIDE DEF t
  <2> DEFINE S == {j \in Nat : l <= j /\ j <= m => F[j] = 0}
  <2>2. 0 \in S
    OBVIOUS
  <2>3. ASSUME NEW j \in Nat, j \in S
        PROVE  j + 1 \in S
    <3> SUFFICES ASSUME l <= j + 1, j + 1 <= m
                 PROVE  F[j+1] = 0
      OBVIOUS
    <3>1. j + 1 \in 1..m /\ (j + 1) - 1 = j /\ F[j] \in Byte
      BY <1>3
    <3>2. F[j+1] = IF i = j + 1 THEN F[j] ELSE mult(F[j], t(j+1))
      BY <1>3, <3>1
    <3>3. CASE l = j + 1
      BY <1>6, <2>1, <3>1, <3>2, <3>3, MultZero
    <3>4. CASE l # j + 1
      <4>1. F[j] = 0
        BY <2>3, <3>4
      <4> QED
        BY <1>4, <3>1, <3>2, <4>1, MultZero
    <3> QED
      BY <3>3, <3>4
  <2>4. Nat \subseteq S
    <3> HIDE DEF S
    <3> QED
      BY <2>2, <2>3, InductionInSet
  <2> QED
    BY <1>3, <1>6, <2>4
<1> QED
  BY <1>5, <1>6

LEMMA SumAtPoints ==
    ASSUME NEW m \in Nat, NEW xs \in [1..m -> Byte], NEW ys \in [1..m -> Byte],
           AllDiffer(xs, m), NEW l \in 1..m
    PROVE  interpolateAt(xs[l], xs, ys) = ys[l]
<1> DEFINE x == xs[l]
<1>1. x \in Byte /\ ys[l] \in Byte
  OBVIOUS
<1>2. PICK F : IsSum(F, x, xs, ys, m)
  BY <1>1, SumIs
<1>3. \A i \in 1..m : F[i] = add(F[i-1], mult(ys[i], IF l = i THEN 1 ELSE 0))
  BY <1>2, BasisAtPoints DEF IsSum
<1>4. ASSUME NEW i \in 1..m
      PROVE  F[i] = IF l = i THEN add(F[i-1], ys[i]) ELSE F[i-1]
  <2>1. ys[i] \in Byte /\ F[i-1] \in Byte
    BY <1>2 DEF IsSum
  <2> QED
    BY <1>3, <2>1, TimesOne, MultZero, AddZero
<1> DEFINE S == {i \in Nat : i <= m => F[i] = IF i < l THEN 0 ELSE ys[l]}
<1>5. 0 \in S
  BY <1>2 DEF IsSum
<1>6. ASSUME NEW i \in Nat, i \in S
      PROVE  i + 1 \in S
  <2> SUFFICES ASSUME i + 1 <= m
               PROVE  F[i+1] = IF i + 1 < l THEN 0 ELSE ys[l]
    OBVIOUS
  <2>1. i + 1 \in 1..m /\ (i + 1) - 1 = i /\ F[i] = IF i < l THEN 0 ELSE ys[l]
    BY <1>6
  <2>2. F[i+1] = IF l = i + 1 THEN add(F[i], ys[i+1]) ELSE F[i]
    BY <1>4, <2>1
  <2>3. CASE l = i + 1
    <3>1. F[i] = 0 /\ ~(i + 1 < l)
      BY <2>1, <2>3
    <3> QED
      BY <1>1, <2>2, <2>3, <3>1, AddZero
  <2>4. CASE l # i + 1
    BY <2>1, <2>2, <2>4
  <2> QED
    BY <2>3, <2>4
<1>7. Nat \subseteq S
  <2> HIDE DEF S
  <2> QED
    BY <1>5, <1>6, InductionInSet
<1>8. F[m] = ys[l]
  BY <1>7
<1> QED
  BY <1>2, <1>8 DEF IsSum

LEMMA SpacesNest ==
    ASSUME NEW P, NEW n, IsSpaces(P, n), NEW k \in 0..n, NEW m \in 0..n, k <= m
    PROVE  P[k] \subseteq P[m]
<1>1. n \in Nat
  BY DEF IsSpaces
<1> DEFINE S == {d \in 0..n : k <= d => P[k] \subseteq P[d]}
<1>2. 0 \in S
  BY <1>1
<1>3. ASSUME NEW d \in 0..(n-1), d \in S
      PROVE  d + 1 \in S
  <2>1. d + 1 \in 0..n
    BY <1>1
  <2> SUFFICES ASSUME k <= d + 1
               PROVE  P[k] \subseteq P[d+1]
    BY <2>1
  <2>2. CASE k = d + 1
    BY <2>2
  <2>3. CASE k # d + 1
    <3>1. k <= d
      BY <2>3
    <3>2. P[d] \subseteq P[d+1]
      BY SpaceGrows
    <3>3. P[k] \subseteq P[d]
      BY <1>3, <3>1
    <3> QED
      BY <3>2, <3>3
  <2> QED
    BY <2>2, <2>3
<1>4. 0..n \subseteq S
  <2> HIDE DEF S
  <2> QED
    BY <1>1, <1>2, <1>3, SpaceInduction
<1> QED
  BY <1>4

\* Two polynomials that agree at as many points as they have coefficients agree
\* everywhere.
LEMMA AgreeEverywhere ==
    ASSUME NEW P, NEW m, IsSpaces(P, m), NEW xs \in [1..m -> Byte], AllDiffer(xs, m)
    PROVE  \A f, g \in P[m] : (\A i \in 1..m : f[xs[i]] = g[xs[i]]) => \A x \in Byte : f[x] = g[x]
<1>1. m \in Nat /\ m \in 0..m
  BY DEF IsSpaces
<1>8. \A e \in P[m] : (\A i \in 1..m : e[xs[i]] = 0) => e = Zero
  <2>1. \A i, j \in 1..m : xs[i] = xs[j] => i = j
    BY DEF AllDiffer
  <2>2. \A d \in 0..m : \A e \in P[d] : (\A i \in 1..d : e[xs[i]] = 0) => e = Zero
    BY <1>1, <2>1, RootsMakeZero
  <2> QED
    BY <1>1, <2>2
<1> SUFFICES ASSUME NEW f \in P[m], NEW g \in P[m], \A i \in 1..m : f[xs[i]] = g[xs[i]]
             PROVE  \A x \in Byte : f[x] = g[x]
  OBVIOUS
<1>2. f \in [Byte -> Byte] /\ g \in [Byte -> Byte]
  BY <1>1, SpaceMaps
<1> DEFINE h == Plus(f, g)
<1>3. h \in P[m]
  BY <1>1, SpacePlus
<1>4. \A x \in Byte : h[x] = add(f[x], g[x])
  BY <1>2, PlusMap
<1> HIDE DEF h
<1>5. ASSUME NEW i \in 1..m
      PROVE  h[xs[i]] = 0
  <2>1. xs[i] \in Byte /\ f[xs[i]] \in Byte
    BY <1>2
  <2> QED
    BY <1>4, <2>1, AddSelf
<1>6. h = Zero
  BY <1>3, <1>5, <1>8
<1>7. ASSUME NEW x \in Byte
      PROVE  f[x] = g[x]
  <2>1. add(f[x], g[x]) = 0 /\ f[x] \in Byte /\ g[x] \in Byte
    BY <1>2, <1>4, <1>6 DEF Zero
  <2> QED
    BY <2>1, SumZero
<1> QED
  BY <1>7

\* Enough points of a polynomial, at different xs, give its value at 0, its first
\* coefficient: two polynomials with no more coefficients than there are points
\* where they agree are the same (shamir.go:72-93).
THEOREM InterpolationRecovers ==
    ASSUME NEW m \in Nat, NEW k \in 1..m, NEW p \in [1..k -> Byte],
           NEW xs \in [1..m -> Byte], AllDiffer(xs, m),
           NEW ys, ys = [i \in 1..m |-> evaluate(p, xs[i])]
    PROVE  interpolatePolynomial(xs, ys) = p[1]
<1>1. PICK P : IsSpaces(P, m)
  BY SpacesExist
<1> DEFINE f == AsMap(p)
           g == [x \in Byte |-> interpolateAt(x, xs, ys)]
<1>2. f \in P[k]
  BY <1>1, EvaluateInSpace
<1>3. f \in P[m]
  <2>1. k \in 0..m /\ m \in 0..m /\ k <= m
    OBVIOUS
  <2>2. P[k] \subseteq P[m]
    BY <1>1, <2>1, SpacesNest
  <2> HIDE DEF f
  <2> QED
    BY <1>2, <2>2
<1>4. P[m] \subseteq [Byte -> Byte] /\ m \in 0..m
  BY <1>1, SpaceMaps
<1>5. f \in [Byte -> Byte]
  <2> HIDE DEF f
  <2> QED
    BY <1>3, <1>4
<1>6. ys \in [1..m -> Byte]
  <2>1. \A i \in 1..m : xs[i] \in Byte /\ f[xs[i]] = evaluate(p, xs[i])
    BY DEF AsMap
  <2> HIDE DEF f
  <2>2. \A i \in 1..m : evaluate(p, xs[i]) \in Byte
    BY <1>5, <2>1
  <2> QED
    BY <2>2
<1>7. g \in P[m]
  BY <1>1, <1>6, SumInSpace
<1>8. ASSUME NEW i \in 1..m
      PROVE  g[xs[i]] = f[xs[i]]
  <2>1. interpolateAt(xs[i], xs, ys) = ys[i]
    BY <1>6, SumAtPoints
  <2> QED
    BY <2>1 DEF AsMap
<1>9. f[0] = p[1] /\ g[0] = interpolatePolynomial(xs, ys)
  BY ZeroBits DEF evaluate, interpolatePolynomial, AsMap
<1> HIDE DEF f, g
<1>10. \A x \in Byte : f[x] = g[x]
  BY <1>1, <1>3, <1>7, <1>8, AgreeEverywhere
<1> QED
  BY <1>9, <1>10, ZeroBits

-----------------------------------------------------------------------------
(* A polynomial through given points.                                      *)

\* A coefficient below d others.
OneMore(c, q, d) == [i \in 1..(d+1) |-> IF i = 1 THEN c ELSE q[i-1]]

LEMMA EvaluateAbove ==
    ASSUME NEW d \in Nat \ {0}, NEW q \in [1..d -> Byte], NEW c \in Byte, NEW x \in Byte
    PROVE  /\ OneMore(c, q, d) \in [1..(d+1) -> Byte]
           /\ evaluate(OneMore(c, q, d), x) = add(c, mult(x, evaluate(q, x)))
<1> DEFINE p == OneMore(c, q, d)
<1>0. p = [i \in 1..(d+1) |-> IF i = 1 THEN c ELSE q[i-1]]
  BY DEF OneMore
<1> HIDE DEF p
<1>1. p \in [1..(d+1) -> Byte]
  <2>1. \A i \in 1..(d+1) : i # 1 => i - 1 \in 1..d
    OBVIOUS
  <2>2. \A i \in 1..(d+1) : p[i] \in Byte
    BY <1>0, <2>1
  <2> QED
    BY <1>0, <2>2
<1>2. p[1] = c /\ \A i \in 2..(d+1) : p[i] = q[i-1]
  <2>1. 1 \in 1..(d+1) /\ \A i \in 2..(d+1) : i \in 1..(d+1) /\ i # 1
    OBVIOUS
  <2> QED
    BY <1>0, <2>1
<1> DEFINE n == d + 1
<1>3. n \in Nat \ {0} /\ n - 1 = d /\ p \in [1..n -> Byte]
  BY <1>1
<1>4. PICK F : /\ F[0] = p[n]
               /\ \A i \in 1..(n-1) : F[i] = add(mult(F[i-1], x), p[n-i])
               /\ \A i \in 0..(n-1) : F[i] \in Byte
               /\ evaluate(p, x) = F[n-1]
  <2> HIDE DEF n
  <2> QED
    BY <1>3, EvaluateIs
<1>5. PICK G : /\ G[0] = q[d]
               /\ \A i \in 1..(d-1) : G[i] = add(mult(G[i-1], x), q[d-i])
               /\ \A i \in 0..(d-1) : G[i] \in Byte
               /\ evaluate(q, x) = G[d-1]
  BY EvaluateIs
<1> DEFINE S == {i \in Nat : i <= d - 1 => F[i] = G[i]}
<1>6. 0 \in S
  <2>1. n \in 2..(d+1) /\ n - 1 = d
    OBVIOUS
  <2>2. p[n] = q[d]
    BY <1>2, <2>1
  <2> QED
    BY <1>4, <1>5, <2>2
<1>7. ASSUME NEW i \in Nat, i \in S
      PROVE  i + 1 \in S
  <2> SUFFICES ASSUME i + 1 <= d - 1
               PROVE  F[i+1] = G[i+1]
    OBVIOUS
  <2>1. /\ i + 1 \in 1..(n-1) /\ i + 1 \in 1..(d-1) /\ (i + 1) - 1 = i
        /\ n - (i + 1) \in 2..(d+1) /\ n - (i + 1) - 1 = d - (i + 1)
    OBVIOUS
  <2>2. F[i] = G[i]
    BY <1>7
  <2>3. p[n - (i + 1)] = q[d - (i + 1)]
    BY <1>2, <2>1
  <2> HIDE DEF n
  <2>4. F[i+1] = add(mult(F[i], x), p[n - (i + 1)])
    BY <1>4, <2>1
  <2>5. G[i+1] = add(mult(G[i], x), q[d - (i + 1)])
    BY <1>5, <2>1
  <2> QED
    BY <2>2, <2>3, <2>4, <2>5
<1>8. F[d-1] = G[d-1]
  <2>1. Nat \subseteq S
    <3> HIDE DEF S
    <3> QED
      BY <1>6, <1>7, InductionInSet
  <2>2. d - 1 \in Nat /\ d - 1 <= d - 1
    OBVIOUS
  <2> QED
    BY <2>1, <2>2
<1>9. F[d] = add(mult(F[d-1], x), p[1])
  <2>1. d \in 1..(n-1) /\ n - d = 1
    OBVIOUS
  <2> HIDE DEF n
  <2> QED
    BY <1>4, <2>1
<1>10. G[d-1] \in Byte /\ evaluate(p, x) = F[d] /\ evaluate(q, x) = G[d-1]
  <2>1. d - 1 \in 0..(d-1) /\ n - 1 = d
    OBVIOUS
  <2> HIDE DEF n
  <2> QED
    BY <1>4, <1>5, <2>1
<1>11. mult(G[d-1], x) = mult(x, G[d-1]) /\ mult(x, G[d-1]) \in Byte
  BY <1>10, MultCommutes, MultByte
<1>12. evaluate(p, x) = add(mult(x, G[d-1]), c)
  BY <1>2, <1>8, <1>9, <1>10, <1>11
<1>13. add(mult(x, G[d-1]), c) = add(c, mult(x, G[d-1]))
  BY <1>11, AddCommutes
<1> QED
  BY <1>1, <1>10, <1>12, <1>13 DEF p

LEMMA EvaluateOne ==
    ASSUME NEW c \in Byte, NEW x \in Byte, NEW p, p = [i \in 1..1 |-> c]
    PROVE  p \in [1..1 -> Byte] /\ evaluate(p, x) = c
<1> DEFINE n == 1
<1>1. n \in Nat \ {0} /\ p \in [1..n -> Byte] /\ p[n] = c /\ n - 1 = 0
  OBVIOUS
<1> HIDE DEF n
<1>2. PICK F : /\ F[0] = p[n]
               /\ \A i \in 1..(n-1) : F[i] = add(mult(F[i-1], x), p[n-i])
               /\ \A i \in 0..(n-1) : F[i] \in Byte
               /\ evaluate(p, x) = F[n-1]
  BY <1>1, EvaluateIs
<1> QED
  BY <1>1, <1>2 DEF n

\* What a space holds has coefficients.
LEMMA SpaceHasCoefficients ==
    ASSUME NEW P, NEW n, IsSpaces(P, n)
    PROVE  \A k \in 1..n : \A f \in P[k] :
              \E p \in [1..k -> Byte] : \A x \in Byte : f[x] = evaluate(p, x)
<1> DEFINE Known(k) == \A f \in P[k] :
                          \E p \in [1..k -> Byte] : \A x \in Byte : f[x] = evaluate(p, x)
           S == {d \in 0..n : d = 0 \/ Known(d)}
<1>1. n \in Nat /\ P[0] = {Zero}
  BY DEF IsSpaces
<1>2. 0 \in S
  BY <1>1
<1>3. ASSUME NEW d \in 0..(n-1), d \in S
      PROVE  d + 1 \in S
  <2>1. d + 1 \in 0..n /\ P[d+1] = Raised(P[d])
    BY SpaceStep
  <2>2. ASSUME NEW c \in Byte, NEW g \in P[d]
        PROVE  \E p \in [1..(d+1) -> Byte] : \A x \in Byte : Above(c, g)[x] = evaluate(p, x)
    <3>1. \A x \in Byte : Above(c, g)[x] = add(c, mult(x, g[x]))
      BY DEF Above
    <3>2. CASE d = 0
      <4> DEFINE p == [i \in 1..1 |-> c]
      <4>1. p \in [1..1 -> Byte] /\ \A x \in Byte : evaluate(p, x) = c
        <5>1. p = [i \in 1..1 |-> c] /\ 0 \in Byte
          BY ZeroBits
        <5> HIDE DEF p
        <5> QED
          BY <5>1, EvaluateOne
      <4>2. \A x \in Byte : g[x] = 0
        BY <1>1, <3>2 DEF Zero
      <4>3. \A x \in Byte : Above(c, g)[x] = c
        BY <3>1, <4>2, MultZero, AddZero
      <4>4. d + 1 = 1
        BY <3>2
      <4> HIDE DEF p
      <4> QED
        BY <4>1, <4>3, <4>4
    <3>3. CASE d # 0
      <4>1. d \in Nat \ {0}
        BY <3>3
      <4>2. PICK q \in [1..d -> Byte] : \A x \in Byte : g[x] = evaluate(q, x)
        BY <1>3, <3>3
      <4> DEFINE p == OneMore(c, q, d)
      <4>3. \A x \in Byte : /\ p \in [1..(d+1) -> Byte]
                            /\ evaluate(p, x) = add(c, mult(x, evaluate(q, x)))
        BY <4>1, EvaluateAbove
      <4> HIDE DEF p
      <4>4. \A x \in Byte : Above(c, g)[x] = evaluate(p, x)
        BY <3>1, <4>2, <4>3
      <4> QED
        BY <4>3, <4>4, ZeroBits
    <3> QED
      BY <3>2, <3>3
  <2>3. Known(d + 1)
    BY <2>1, <2>2 DEF Raised
  <2> HIDE DEF Known
  <2> QED
    BY <2>1, <2>3
<1>4. 0..n \subseteq S
  <2> HIDE DEF S
  <2> QED
    BY <1>1, <1>2, <1>3, SpaceInduction
<1>5. ASSUME NEW k \in 1..n
      PROVE  Known(k)
  <2>1. k \in 0..n /\ k # 0
    OBVIOUS
  <2> HIDE DEF Known
  <2> QED
    BY <1>4, <2>1
<1> QED
  BY <1>5

\* Some points, no more than there are coefficients, have a polynomial through them.
LEMMA ThroughPoints ==
    ASSUME NEW k \in Nat, NEW m \in 1..k, NEW xs \in [1..m -> Byte], AllDiffer(xs, m),
           NEW ys \in [1..m -> Byte]
    PROVE  \E p \in [1..k -> Byte] : \A i \in 1..m : evaluate(p, xs[i]) = ys[i]
<1>1. PICK P : IsSpaces(P, k)
  BY SpacesExist
<1>2. /\ m \in Nat /\ m \in 0..k /\ k \in 0..k /\ k \in 1..k /\ m <= k
      /\ \A d \in 1..m : d \in 1..k
  OBVIOUS
<1>3. IsSpaces(P, m)
  BY <1>1, <1>2 DEF IsSpaces
<1> DEFINE g == [x \in Byte |-> interpolateAt(x, xs, ys)]
<1>4. g \in P[m]
  BY <1>3, SumInSpace
<1>5. P[m] \subseteq P[k]
  BY <1>1, <1>2, SpacesNest
<1>6. \A x \in Byte : g[x] = interpolateAt(x, xs, ys)
  OBVIOUS
<1> HIDE DEF g
<1>7. PICK p \in [1..k -> Byte] : \A x \in Byte : g[x] = evaluate(p, x)
  BY <1>1, <1>2, <1>4, <1>5, SpaceHasCoefficients
<1>8. ASSUME NEW i \in 1..m
      PROVE  evaluate(p, xs[i]) = ys[i]
  <2>1. interpolateAt(xs[i], xs, ys) = ys[i]
    BY <1>2, SumAtPoints
  <2>2. xs[i] \in Byte
    OBVIOUS
  <2> QED
    BY <1>6, <1>7, <2>1, <2>2
<1> QED
  BY <1>8

\* All of a polynomial but its lowest coefficient.
Rest(p, d) == [i \in 1..d |-> p[i+1]]

LEMMA IsOneMore ==
    ASSUME NEW d \in Nat, NEW p \in [1..(d+1) -> Byte]
    PROVE  /\ Rest(p, d) \in [1..d -> Byte] /\ p[1] \in Byte
           /\ p = OneMore(p[1], Rest(p, d), d)
<1>1. 1 \in 1..(d+1) /\ \A i \in 1..d : i + 1 \in 1..(d+1)
  OBVIOUS
<1>2. Rest(p, d) \in [1..d -> Byte] /\ p[1] \in Byte
  BY <1>1 DEF Rest
<1>3. ASSUME NEW i \in 1..(d+1)
      PROVE  p[i] = OneMore(p[1], Rest(p, d), d)[i]
  <2>1. CASE i = 1
    BY <2>1 DEF OneMore
  <2>2. CASE i # 1
    <3>1. i - 1 \in 1..d /\ (i - 1) + 1 = i
      BY <2>2
    <3>2. Rest(p, d)[i-1] = p[i]
      BY <3>1 DEF Rest
    <3> QED
      BY <2>2, <3>2 DEF OneMore
  <2> QED
    BY <2>1, <2>2
<1>4. p = [i \in 1..(d+1) |-> p[i]]
  OBVIOUS
<1>5. OneMore(p[1], Rest(p, d), d) = [i \in 1..(d+1) |-> OneMore(p[1], Rest(p, d), d)[i]]
  BY DEF OneMore
<1> QED
  BY <1>2, <1>3, <1>4, <1>5

\* Dividing by what is not 0.
LEMMA Cancel ==
    ASSUME NEW c \in Byte, NEW x \in Byte, x # 0, NEW u \in Byte, NEW v \in Byte,
           add(c, mult(x, u)) = add(c, mult(x, v))
    PROVE  u = v
<1>1. mult(x, u) \in Byte /\ mult(x, v) \in Byte /\ add(u, v) \in Byte
  BY MultByte, AddByte
<1> DEFINE a == mult(x, u)
           b == mult(x, v)
<1>2. \A z \in Byte : add(add(c, c), z) = add(c, add(c, z)) /\ add(add(c, c), z) = z
  BY AddAssociates, AddSelf, AddZero
<1>3. mult(x, u) = mult(x, v)
  <2>1. add(c, add(c, a)) = a /\ add(c, add(c, b)) = b
    BY <1>1, <1>2
  <2> QED
    BY <2>1
<1>4. mult(x, add(u, v)) = add(mult(x, u), mult(x, v))
  BY MultDistributes
<1>5. mult(x, add(u, v)) = 0
  BY <1>1, <1>3, <1>4, AddSelf
<1>6. add(u, v) = 0
  BY <1>1, <1>5, NoZeroDivisors
<1> QED
  BY <1>6, SumZero

\* Up to 256 coefficients are known from the values: there are 255 points that are
\* not 0 to tell all but the lowest apart.
LEMMA ValuesTellCoefficients ==
    \A k \in 1..256 : \A p, q \in [1..k -> Byte] :
        (\A x \in Byte : evaluate(p, x) = evaluate(q, x)) => p = q
<1> DEFINE Tell(k) == \A p, q \in [1..k -> Byte] :
                         (\A x \in Byte : evaluate(p, x) = evaluate(q, x)) => p = q
           n == 256
           S == {d \in 0..n : d = 0 \/ Tell(d)}
<1>1. 0 \in S /\ n \in Nat
  OBVIOUS
<1>2. ASSUME NEW d \in 0..255, d \in S
      PROVE  d + 1 \in S
  <2> SUFFICES ASSUME NEW p \in [1..(d+1) -> Byte], NEW q \in [1..(d+1) -> Byte],
                      \A x \in Byte : evaluate(p, x) = evaluate(q, x)
               PROVE  p = q
    <3>1. d + 1 \in 0..n
      OBVIOUS
    <3> QED
      BY <3>1
  <2>1. p[1] = q[1]
    <3>1. evaluate(p, 0) = p[1] /\ evaluate(q, 0) = q[1]
      BY DEF evaluate
    <3> QED
      BY <3>1, ZeroBits
  <2> DEFINE r == Rest(p, d)
             s == Rest(q, d)
             c == p[1]
  <2>2. /\ r \in [1..d -> Byte] /\ s \in [1..d -> Byte] /\ c \in Byte
        /\ p = OneMore(c, r, d) /\ q = OneMore(c, s, d)
    <3>1. d \in Nat
      OBVIOUS
    <3>2. r \in [1..d -> Byte] /\ c \in Byte /\ p = OneMore(c, r, d)
      BY <3>1, IsOneMore
    <3>3. s \in [1..d -> Byte] /\ q = OneMore(q[1], s, d)
      BY <3>1, IsOneMore
    <3> QED
      BY <2>1, <3>2, <3>3, Zenon
  <2> HIDE DEF r, s, c
  <2>3. CASE d = 0
    <3>1. r = s
      BY <2>2, <2>3
    <3> QED
      BY <2>2, <3>1, Zenon
  <2>4. CASE d # 0
    <3>1. d \in 1..255 /\ d \in Nat \ {0} /\ d \in Nat /\ d \in 1..d
      BY <2>4
    <3>2. PICK P : IsSpaces(P, d)
      BY <3>1, SpacesExist
    <3> DEFINE f == AsMap(r)
               g == AsMap(s)
               xs == [i \in 1..d |-> i]
    <3>3. f \in P[d] /\ g \in P[d]
      BY <2>2, <3>1, <3>2, EvaluateInSpace
    <3>4. xs \in [1..d -> Byte] /\ AllDiffer(xs, d) /\ \A i \in 1..d : xs[i] \in Byte /\ xs[i] # 0
      <4>1. \A i \in 1..d : i \in Byte /\ i # 0
        <5>1. \A i \in 1..d : i \in 0..255 /\ i # 0
          BY <2>4
        <5> QED
          BY <5>1 DEF Byte
      <4>2. \A i \in 1..d : xs[i] = i
        OBVIOUS
      <4>3. xs \in [1..d -> Byte]
        BY <4>1
      <4> HIDE DEF xs
      <4> QED
        BY <4>1, <4>2, <4>3 DEF AllDiffer
    <3>5. \A x \in Byte : f[x] = evaluate(r, x) /\ g[x] = evaluate(s, x)
      BY DEF AsMap
    <3>6. f \in [Byte -> Byte] /\ g \in [Byte -> Byte]
      <4> HIDE DEF f, g
      <4>1. d \in 0..d
        BY <3>1
      <4> QED
        BY <3>2, <3>3, <4>1, SpaceMaps
    <3> HIDE DEF f, g, xs
    <3>7. ASSUME NEW x \in Byte, x # 0
          PROVE  f[x] = g[x]
      <4>1. \A e \in [1..d -> Byte] :
               evaluate(OneMore(c, e, d), x) = add(c, mult(x, evaluate(e, x)))
        BY <2>2, <3>1, EvaluateAbove, ZenonT(30)
      <4>2. /\ evaluate(p, x) = add(c, mult(x, evaluate(r, x)))
            /\ evaluate(q, x) = add(c, mult(x, evaluate(s, x)))
        BY <2>2, <4>1, Zenon
      <4>3. add(c, mult(x, f[x])) = add(c, mult(x, g[x]))
        BY <3>5, <4>2
      <4>4. f[x] \in Byte /\ g[x] \in Byte
        BY <3>6
      <4> QED
        BY <2>2, <3>7, <4>3, <4>4, Cancel
    <3>8. \A i \in 1..d : f[xs[i]] = g[xs[i]]
      BY <3>4, <3>7
    <3>9. \A x \in Byte : f[x] = g[x]
      <4>1. \A a, b \in P[d] : (\A i \in 1..d : a[xs[i]] = b[xs[i]]) => \A x \in Byte : a[x] = b[x]
        BY <3>1, <3>2, <3>4, AgreeEverywhere
      <4> QED
        BY <3>3, <3>8, <4>1
    <3>10. \A x \in Byte : evaluate(r, x) = evaluate(s, x)
      BY <3>5, <3>9
    <3>11. Tell(d)
      BY <1>2, <2>4
    <3>12. r = s
      BY <2>2, <3>10, <3>11
    <3> QED
      BY <2>2, <3>12, Zenon
  <2> QED
    BY <2>3, <2>4
<1>3. 0..n \subseteq S
  <2>1. \A d \in 0..(n-1) : d \in 0..255
    OBVIOUS
  <2> HIDE DEF S, n
  <2> QED
    BY <1>1, <1>2, <2>1, SpaceInduction
<1>4. ASSUME NEW k \in 1..256
      PROVE  Tell(k)
  <2>1. k \in 0..n /\ k # 0
    OBVIOUS
  <2> HIDE DEF Tell
  <2> QED
    BY <1>3, <2>1
<1> QED
  BY <1>4

\* As many points as coefficients have only one polynomial through them.
LEMMA OnlyOneThrough ==
    ASSUME NEW k \in 1..256, NEW xs \in [1..k -> Byte], AllDiffer(xs, k)
    PROVE  \A p, q \in [1..k -> Byte] :
              (\A i \in 1..k : evaluate(p, xs[i]) = evaluate(q, xs[i])) => p = q
<1>1. k \in Nat /\ k \in 1..k
  OBVIOUS
<1>2. PICK P : IsSpaces(P, k)
  BY <1>1, SpacesExist
<1>3. \A f, g \in P[k] : (\A i \in 1..k : f[xs[i]] = g[xs[i]]) => \A x \in Byte : f[x] = g[x]
  BY <1>1, <1>2, AgreeEverywhere
<1>4. ASSUME NEW p \in [1..k -> Byte], NEW q \in [1..k -> Byte],
             \A i \in 1..k : evaluate(p, xs[i]) = evaluate(q, xs[i])
      PROVE  p = q
  <2> DEFINE f == AsMap(p)
             g == AsMap(q)
  <2>1. f \in P[k] /\ g \in P[k]
    BY <1>1, <1>2, EvaluateInSpace
  <2>2. \A x \in Byte : f[x] = evaluate(p, x) /\ g[x] = evaluate(q, x)
    BY DEF AsMap
  <2> HIDE DEF f, g
  <2>3. \A i \in 1..k : f[xs[i]] = g[xs[i]]
    <3>1. \A i \in 1..k : xs[i] \in Byte
      OBVIOUS
    <3> QED
      BY <1>4, <2>2, <3>1
  <2>4. \A x \in Byte : f[x] = g[x]
    BY <1>3, <2>1, <2>3
  <2>5. \A x \in Byte : evaluate(p, x) = evaluate(q, x)
    BY <2>2, <2>4
  <2> QED
    BY <2>5, ValuesTellCoefficients
<1> QED
  BY <1>4
=============================================================================
