---------------------------- MODULE Shamir_proofs ----------------------------
(***************************************************************************)
(* Proofs about Shamir, for every secret, size, permutation and filling of *)
(* random bytes, and every choice of parts: which parts are accepted, that *)
(* enough of them give the secret back, that one of them tells nothing,    *)
(* and that nothing panics.                                                *)
(***************************************************************************)
EXTENDS Poly_proofs

-----------------------------------------------------------------------------
(* The parts of a split.                                                   *)

\* Every part has its own x, which is not 0, and all are of one length.
GoodParts(ps) ==
    \E n \in 2..255, l \in Nat \ {0, 1} :
        /\ DOMAIN ps = 1..n /\ Len(ps) = n
        /\ \A i \in 1..n : Len(ps[i]) = l /\ Last(ps[i]) \in 1..255
        /\ \A i, j \in 1..n : Last(ps[i]) = Last(ps[j]) => i = j

\* The numbers up to m in some order, as the values of 1..n.
IsPerm(f, m, n) ==
    /\ m \in Nat /\ n \in Nat /\ n = m + 1
    /\ f \in [1..n -> 0..m]
    /\ \A x \in 0..m : \E i \in 1..n : f[i] = x

\* Drawing each of n numbers in n turns draws none of them twice.
LEMMA DrawnOnce ==
    ASSUME NEW f, NEW m, NEW n, IsPerm(f, m, n)
    PROVE  \A i, j \in 1..n : f[i] = f[j] => i = j
<1>1. m \in Nat /\ n \in Nat /\ n = m + 1 /\ f \in Surjection(1..n, 0..m)
  BY DEF IsPerm, Surjection
<1>2. IsFiniteSet(1..n) /\ Cardinality(1..n) = n
  BY <1>1, FS_Interval
<1>3. Cardinality(0..m) = n
  BY <1>1, FS_Interval
<1>4. f \in Injection(1..n, 0..m)
  BY <1>1, <1>2, <1>3, FS_SurjSameCardinalityImpliesInj
<1> QED
  BY <1>4 DEF Injection, IsInjective

\* mathrand.Perm(255) draws no number twice, and adding 1 to a byte below 255
\* keeps them apart (shamir.go:165-176).
LEMMA XsDiffer ==
    ASSUME NEW perm \in Perms
    PROVE  /\ \A i \in 1..255 : xOf(perm, i) \in 1..255
           /\ \A i, j \in 1..255 : xOf(perm, i) = xOf(perm, j) => i = j
<1>1. perm \in [1..255 -> 0..254]
  BY ShamirAssumption
<1>2. \A x \in 0..254 : \E i \in 1..255 : perm[i] = x
  BY ShamirAssumption, Zenon
<1>3. \A i \in 1..255 : perm[i] \in 0..254
  BY <1>1
<1>4. \A i, j \in 1..255 : perm[i] = perm[j] => i = j
  <2>1. PICK m, n : m = 254 /\ n = 255
    OBVIOUS
  <2>2. m \in Nat /\ n \in Nat /\ n = m + 1
    BY <2>1
  <2>3. perm \in [1..n -> 0..m]
    BY <1>1, <2>1
  <2>4. \A x \in 0..m : \E i \in 1..n : perm[i] = x
    BY <1>2, <2>1
  <2>5. IsPerm(perm, m, n)
    BY <2>2, <2>3, <2>4, Zenon DEF IsPerm
  <2> QED
    BY <2>1, <2>5, DrawnOnce
<1>5. \A i \in 1..255 : xOf(perm, i) = perm[i] + 1
  <2>1. \A x \in 0..254 : (x + 1) % 256 = x + 1
    OBVIOUS
  <2> QED
    BY <1>3, <2>1 DEF xOf
<1>6. \A i \in 1..255 : xOf(perm, i) \in 1..255
  <2>1. \A x \in 0..254 : x + 1 \in 1..255
    OBVIOUS
  <2>2. ASSUME NEW i \in 1..255
        PROVE  xOf(perm, i) \in 1..255
    <3>1. perm[i] \in 0..254 /\ xOf(perm, i) = perm[i] + 1
      BY <1>3, <1>5
    <3> QED
      BY <2>1, <3>1
  <2> QED
    BY <2>2
<1>7. ASSUME NEW i \in 1..255, NEW j \in 1..255, xOf(perm, i) = xOf(perm, j)
      PROVE  i = j
  <2>1. perm[i] + 1 = perm[j] + 1
    BY <1>5, <1>7
  <2>2. \A x, y \in 0..254 : x + 1 = y + 1 => x = y
    OBVIOUS
  <2>3. perm[i] = perm[j]
    BY <1>3, <2>1, <2>2, Zenon
  <2> QED
    BY <1>4, <2>3
<1> QED
  BY <1>6, <1>7

LEMMA SplitMakesGoodParts ==
    ASSUME NEW s \in Secrets, NEW n \in Int, NEW k \in Int,
           NEW perm \in Perms, NEW random \in Randoms, ~SplitRefuses(s, n, k)
    PROVE  GoodParts(Split(s, n, k, perm, random))
<1> DEFINE l == Len(s) + 1
           ps == Split(s, n, k, perm, random)
<1>1. n \in 2..255 /\ s # <<>>
  BY DEF SplitRefuses
<1>2. Len(s) \in Nat \ {0}
  <2>1. s \in Seq(Byte)
    BY ShamirAssumption
  <2> QED
    BY <1>1, <2>1
<1>3. l \in Nat \ {0, 1}
  BY <1>2
<1>4. DOMAIN ps = 1..n /\ Len(ps) = n
  <2>1. n \in Nat
    BY <1>1
  <2>2. DOMAIN ps = 1..n
    BY DEF Split
  <2> QED
    BY <2>1, <2>2 DEF Split
<1>5. ASSUME NEW i \in 1..n
      PROVE  Len(ps[i]) = l /\ Last(ps[i]) = xOf(perm, i)
  <2> DEFINE poly == [b \in 1..Len(s) |->
                         makePolynomial(s[b], (k - 1) % 256, random, (b - 1) * ((k - 1) % 256))]
             part == [b \in 1..l |->
                         IF b > Len(s) THEN xOf(perm, i) ELSE evaluate(poly[b], xOf(perm, i))]
  <2>1. ps[i] = part
    BY DEF Split
  <2> HIDE DEF poly
  <2>2. Len(part) = l
    BY <1>3
  <2>3. part[l] = xOf(perm, i)
    <3>1. l \in 1..l /\ l > Len(s)
      BY <1>2
    <3> QED
      BY <3>1
  <2> HIDE DEF part, ps, l
  <2> QED
    BY <2>1, <2>2, <2>3 DEF Last
<1> HIDE DEF ps, l
<1>6. \A i \in 1..n : i \in 1..255
  BY <1>1
<1>7. \A i \in 1..n : Last(ps[i]) \in 1..255
  <2>1. \A i \in 1..255 : xOf(perm, i) \in 1..255
    BY XsDiffer
  <2> QED
    BY <1>5, <1>6, <2>1, ZenonT(30)
<1>8. \A i, j \in 1..n : Last(ps[i]) = Last(ps[j]) => i = j
  <2>1. \A i, j \in 1..255 : xOf(perm, i) = xOf(perm, j) => i = j
    BY XsDiffer
  <2> QED
    BY <1>5, <1>6, <2>1, ZenonT(30)
<1>9. GoodParts(ps)
  BY <1>1, <1>3, <1>4, <1>5, <1>7, <1>8, ZenonT(30) DEF GoodParts
<1> QED
  BY <1>9 DEF ps

\* What Combine makes of some parts of a split, in any number and order, the same
\* one perhaps more than once (shamir.go:204-239).
LEMMA CombineAccepts ==
    ASSUME NEW ps, GoodParts(ps), NEW m \in Nat, NEW pick \in [1..m -> DOMAIN ps],
           NEW given, given = [i \in DOMAIN pick |-> ps[pick[i]]]
    PROVE  /\ ~CombineRefuses(given) <=>
                 m >= 2 /\ \A i, j \in 1..m : i # j => pick[i] # pick[j]
           /\ ~CombineRefuses(given) =>
                 ~InterpolationPanics([i \in DOMAIN given |-> Last(given[i])])
<1>1. PICK n \in 2..255, l \in Nat \ {0, 1} :
         /\ DOMAIN ps = 1..n
         /\ \A i \in 1..n : Len(ps[i]) = l /\ Last(ps[i]) \in 1..255
         /\ \A i, j \in 1..n : Last(ps[i]) = Last(ps[j]) => i = j
  BY ZenonT(30) DEF GoodParts
<1> DEFINE x(i) == Last(given[i])
<1>2. DOMAIN given = 1..m /\ Len(given) = m
  OBVIOUS
<1>3. \A i \in 1..m : pick[i] \in 1..n /\ given[i] = ps[pick[i]]
  BY <1>1
<1>4. \A i \in 1..m : Len(given[i]) = l /\ x(i) \in Byte
  <2>1. \A y \in 1..255 : y \in Byte
    BY DEF Byte
  <2> QED
    BY <1>1, <1>3, <2>1, ZenonT(30)
<1>5. \A i, j \in 1..m : x(i) = x(j) => pick[i] = pick[j]
  BY <1>1, <1>3
<1>6. \A i, j \in 1..m : pick[i] = pick[j] => x(i) = x(j)
  BY <1>3
<1> HIDE DEF x
<1>7. CombineRefuses(given) <=> m < 2 \/ \E i, j \in 1..m : i < j /\ x(i) = x(j)
  <2>1. m >= 2 => 1 \in 1..m
    OBVIOUS
  <2>2. m >= 2 => Len(given[1]) = l /\ ~(l < 2)
    BY <1>1, <1>4, <2>1
  <2>3. m >= 2 => \A i \in 1..m : Len(given[i]) = Len(given[1])
    BY <1>4, <2>2
  <2> QED
    BY <1>2, <2>2, <2>3 DEF CombineRefuses, x
<1>8. (\E i, j \in 1..m : i < j /\ x(i) = x(j)) <=> \E i, j \in 1..m : i # j /\ x(i) = x(j)
  <2>1. \A i, j \in 1..m : i # j => i < j \/ j < i
    OBVIOUS
  <2>2. \A i, j \in 1..m : i < j => i # j
    OBVIOUS
  <2> QED
    BY <2>1, <2>2
<1>9. ~CombineRefuses(given) <=> m >= 2 /\ \A i, j \in 1..m : i # j => x(i) # x(j)
  <2>1. m < 2 <=> ~(m >= 2)
    OBVIOUS
  <2> QED
    BY <1>7, <1>8, <2>1
<1>10. ASSUME \A i, j \in 1..m : i # j => x(i) # x(j)
       PROVE  ~InterpolationPanics([i \in DOMAIN given |-> Last(given[i])])
  <2> DEFINE xs == [i \in DOMAIN given |-> Last(given[i])]
  <2>1. DOMAIN xs = 1..m /\ \A i \in 1..m : xs[i] = x(i)
    BY <1>2 DEF x
  <2> HIDE DEF xs
  <2>2. \A i, j \in 1..m : add(xs[i], xs[j]) = 0 => xs[i] = xs[j]
    BY <1>4, <2>1, SumZero
  <2>3. ~InterpolationPanics(xs)
    BY <1>10, <2>1, <2>2 DEF InterpolationPanics
  <2> QED
    BY <2>3 DEF xs
<1> QED
  BY <1>5, <1>6, <1>9, <1>10

\* The y of each byte is the value at x of a polynomial with as many coefficients
\* as the threshold, of which the first is the byte of the secret.
OfPolynomials(ps, s, k) ==
    /\ s \in Seq(Byte) /\ k \in 2..255
    /\ \A i \in DOMAIN ps : Len(ps[i]) = Len(s) + 1
    /\ \E poly \in [1..Len(s) -> [1..k -> Byte]] : \A b \in 1..Len(s) :
          /\ poly[b][1] = s[b]
          /\ \A i \in DOMAIN ps : ps[i][b] = evaluate(poly[b], Last(ps[i]))

LEMMA PolynomialIs ==
    ASSUME NEW v \in Byte, NEW k \in 2..255, NEW random \in Randoms, NEW skip \in Nat
    PROVE  /\ makePolynomial(v, k - 1, random, skip) \in [1..k -> Byte]
           /\ makePolynomial(v, k - 1, random, skip)[1] = v
<1>1. Coefficients(k - 1) = k
  <2>1. (k - 1 + 1) % 256 = k
    OBVIOUS
  <2> QED
    BY <2>1 DEF Coefficients
<1>2. random \in Seq(Byte) /\ Len(random) \in Nat \ {0}
  <2>1. random \in Seq(Byte) /\ random # <<>>
    BY ShamirAssumption, ZenonT(30)
  <2> QED
    BY <2>1
<1>3. ASSUME NEW i \in 2..k
      PROVE  random[((skip + i - 2) % Len(random)) + 1] \in Byte
  <2> DEFINE l == Len(random)
             j == (skip + i - 2) % l
  <2>1. skip + i - 2 \in Nat /\ l \in Nat \ {0}
    BY <1>2
  <2> HIDE DEF l
  <2>2. j \in 0..(l-1)
    BY <2>1
  <2> HIDE DEF j
  <2>3. j + 1 \in 1..l
    BY <2>1, <2>2
  <2>4. random[j + 1] \in Byte
    BY <1>2, <2>3 DEF l
  <2> QED
    BY <2>4 DEF j, l
<1>4. \A i \in 1..k : i = 1 \/ i \in 2..k
  OBVIOUS
<1> DEFINE p == makePolynomial(v, k - 1, random, skip)
           r == [i \in 1..k |-> random[((skip + i - 2) % Len(random)) + 1]]
<1>5. p = [i \in 1..k |-> IF i = 1 THEN v ELSE r[i]]
  BY <1>1 DEF makePolynomial
<1>6. \A i \in 2..k : r[i] \in Byte
  BY <1>3
<1> HIDE DEF p, r
<1>7. 1 \in 1..k /\ \A i \in 1..k : p[i] = IF i = 1 THEN v ELSE r[i]
  BY <1>5
<1>8. \A i \in 1..k : p[i] \in Byte
  BY <1>4, <1>6, <1>7
<1>9. p \in [1..k -> Byte] /\ p[1] = v
  BY <1>5, <1>7, <1>8
<1> QED
  BY <1>9 DEF p

LEMMA SplitUsesPolynomials ==
    ASSUME NEW s \in Secrets, NEW n \in Int, NEW k \in Int,
           NEW perm \in Perms, NEW random \in Randoms, ~SplitRefuses(s, n, k)
    PROVE  OfPolynomials(Split(s, n, k, perm, random), s, k)
<1> DEFINE degree == (k - 1) % 256
           poly == [b \in 1..Len(s) |->
                       makePolynomial(s[b], degree, random, (b - 1) * degree)]
           ps == Split(s, n, k, perm, random)
<1>1. n \in 2..255 /\ k \in 2..255
  <2>1. ~(n < k) /\ ~(n > 255) /\ ~(k < 2) /\ ~(k > 255)
    BY DEF SplitRefuses
  <2> QED
    BY <2>1
<1>2. s \in Seq(Byte) /\ Len(s) \in Nat
  <2>1. s \in Seq(Byte)
    BY ShamirAssumption
  <2> QED
    BY <2>1
<1>3. degree = k - 1
  BY <1>1
<1>4. ps = [i \in 1..n |-> [b \in 1..(Len(s) + 1) |->
              IF b > Len(s) THEN xOf(perm, i) ELSE evaluate(poly[b], xOf(perm, i))]]
  BY DEF Split
<1>5. ASSUME NEW b \in 1..Len(s)
      PROVE  poly[b] \in [1..k -> Byte] /\ poly[b][1] = s[b]
  <2>1. \A x, y \in Nat : x * y \in Nat
    OBVIOUS
  <2>2. b - 1 \in Nat /\ k - 1 \in Nat /\ s[b] \in Byte
    BY <1>1, <1>2
  <2>3. (b - 1) * (k - 1) \in Nat
    BY <2>1, <2>2
  <2>4. poly[b] = makePolynomial(s[b], k - 1, random, (b - 1) * (k - 1))
    BY <1>3
  <2> HIDE DEF poly
  <2> QED
    <3>1. \A v \in Byte : \A skip \in Nat :
             /\ makePolynomial(v, k - 1, random, skip) \in [1..k -> Byte]
             /\ makePolynomial(v, k - 1, random, skip)[1] = v
      BY <1>1, PolynomialIs
    <3> QED
      BY <2>2, <2>3, <2>4, <3>1, ZenonT(30)
<1> HIDE DEF poly, ps, degree
<1>6. DOMAIN ps = 1..n
  BY <1>4
<1>7. ASSUME NEW i \in 1..n
      PROVE  /\ Len(ps[i]) = Len(s) + 1 /\ Last(ps[i]) = xOf(perm, i)
             /\ \A b \in 1..Len(s) : ps[i][b] = evaluate(poly[b], Last(ps[i]))
  <2> DEFINE l == Len(s) + 1
             part == [b \in 1..l |->
                         IF b > Len(s) THEN xOf(perm, i) ELSE evaluate(poly[b], xOf(perm, i))]
  <2>1. ps[i] = part
    BY <1>4
  <2>2. Len(part) = l /\ part[l] = xOf(perm, i)
    <3>1. l \in Nat /\ l \in 1..l /\ l > Len(s)
      BY <1>2
    <3> HIDE DEF l
    <3> QED
      BY <3>1
  <2>3. \A b \in 1..Len(s) : part[b] = evaluate(poly[b], xOf(perm, i))
    <3>1. \A b \in 1..Len(s) : b \in 1..l /\ ~(b > Len(s))
      BY <1>2
    <3> QED
      BY <3>1
  <2> HIDE DEF part
  <2>4. Last(ps[i]) = xOf(perm, i)
    BY <2>1, <2>2 DEF Last
  <2> QED
    BY <2>1, <2>2, <2>3, <2>4
<1>8. poly \in [1..Len(s) -> [1..k -> Byte]]
  <2>1. poly = [b \in 1..Len(s) |-> poly[b]]
    BY DEF poly
  <2> QED
    BY <1>5, <2>1
<1>9. k \in 2..255
  BY <1>1
<1>10. OfPolynomials(ps, s, k)
  BY <1>2, <1>5, <1>6, <1>7, <1>8, <1>9 DEF OfPolynomials
<1> QED
  BY <1>10 DEF ps

\* What Combine makes of enough parts, in any order, no two from the same position
\* (shamir.go:241-253).
LEMMA CombineRecovers ==
    ASSUME NEW ps, NEW s, NEW k, GoodParts(ps), OfPolynomials(ps, s, k),
           NEW m \in Nat, m >= k, NEW pick \in [1..m -> DOMAIN ps],
           \A i, j \in 1..m : i # j => pick[i] # pick[j],
           NEW given, given = [i \in DOMAIN pick |-> ps[pick[i]]]
    PROVE  Combine(given) = s
<1>1. PICK n \in 2..255 :
         /\ DOMAIN ps = 1..n
         /\ \A i \in 1..n : Last(ps[i]) \in 1..255
         /\ \A i, j \in 1..n : Last(ps[i]) = Last(ps[j]) => i = j
  BY ZenonT(30) DEF GoodParts
<1>2. /\ s \in Seq(Byte) /\ k \in Nat \ {0, 1}
      /\ \A i \in 1..n : Len(ps[i]) = Len(s) + 1
  <2>1. \A d \in 2..255 : d \in Nat \ {0, 1}
    OBVIOUS
  <2> QED
    BY <1>1, <2>1 DEF OfPolynomials
<1>3. PICK poly \in [1..Len(s) -> [1..k -> Byte]] : \A b \in 1..Len(s) :
         /\ poly[b][1] = s[b]
         /\ \A i \in DOMAIN ps : ps[i][b] = evaluate(poly[b], Last(ps[i]))
  BY Zenon DEF OfPolynomials
<1>4. DOMAIN given = 1..m /\ \A i \in 1..m : pick[i] \in 1..n /\ given[i] = ps[pick[i]]
  BY <1>1
<1> DEFINE xs == [i \in DOMAIN given |-> Last(given[i])]
<1>5. \A i \in 1..m : xs[i] = Last(ps[pick[i]])
  BY <1>4
<1>6. xs \in [1..m -> Byte]
  <2>1. \A x \in 1..255 : x \in Byte
    BY DEF Byte
  <2>2. \A i \in 1..m : Last(given[i]) \in Byte
    BY <1>1, <1>4, <2>1
  <2> QED
    BY <1>4, <2>2
<1> HIDE DEF xs
<1>7. AllDiffer(xs, m)
  <2>1. ASSUME NEW i \in 1..m, NEW j \in 1..m, xs[i] = xs[j]
        PROVE  i = j
    <3>1. pick[i] = pick[j]
      BY <1>1, <1>4, <1>5, <2>1
    <3> QED
      BY <3>1
  <2> QED
    BY <2>1 DEF AllDiffer
<1>8. k \in 1..m /\ 1 \in 1..m
  BY <1>2
<1>9. Len(given[1]) - 1 = Len(s)
  <2>1. Len(given[1]) = Len(s) + 1 /\ Len(s) \in Nat
    BY <1>2, <1>4, <1>8
  <2> QED
    BY <2>1
<1>10. ASSUME NEW b \in 1..Len(s)
       PROVE  interpolatePolynomial(xs, [i \in DOMAIN given |-> given[i][b]]) = s[b]
  <2> DEFINE ys == [i \in DOMAIN given |-> given[i][b]]
             p == poly[b]
  <2>1. p \in [1..k -> Byte] /\ p[1] = s[b]
    BY <1>3
  <2>2. \A i \in 1..m : given[i][b] = evaluate(p, xs[i])
    BY <1>1, <1>3, <1>4, <1>5
  <2> HIDE DEF p
  <2>3. ys = [i \in 1..m |-> evaluate(p, xs[i])]
    BY <1>4, <2>2
  <2> HIDE DEF ys
  <2>4. interpolatePolynomial(xs, ys) = p[1]
    <3>1. \A e \in [1..k -> Byte] : \A z :
             z = [i \in 1..m |-> evaluate(e, xs[i])] => interpolatePolynomial(xs, z) = e[1]
      BY <1>6, <1>7, <1>8, InterpolationRecovers
    <3> QED
      BY <2>1, <2>3, <3>1
  <2> QED
    BY <2>1, <2>4 DEF ys
<1>11. Combine(given) = [b \in 1..Len(s) |-> s[b]]
  BY <1>9, <1>10 DEF Combine, xs
<1>12. s = [b \in 1..Len(s) |-> s[b]]
  BY <1>2
<1> QED
  BY <1>11, <1>12

-----------------------------------------------------------------------------
(* The calls.                                                              *)

\* What Split has returned is fit for Combine.
SplitGives ==
    called = "Split" /\ answer = "ok" =>
        GoodParts(parts) /\ OfPolynomials(parts, secret, args[2])

ShamirInv ==
    /\ SplitGives
    /\ NeverPanics
    /\ DistinctPartsAreAccepted
    /\ AnyThresholdPartsRecover
    /\ DivisionUndoesMultiplication

LEMMA ShamirInit == Init => ShamirInv
BY DEF Init, ShamirInv, SplitGives, NeverPanics, DistinctPartsAreAccepted, AnyThresholdPartsRecover,
       DivisionUndoesMultiplication

\* The quotient, times the divisor, is the dividend in the field (shamir.go:93-134).
LEMMA InvDivides ==
    ASSUME ShamirInv, NEW a \in Dividends, NEW b \in Byte, CallDiv(a, b)
    PROVE  ShamirInv'
<1>1. called' = "div" /\ args' = <<a, b>>
  BY DEF CallDiv
<1>2. ASSUME answer' = "ok"
      PROVE  FieldProduct(value'[1], args'[2]) = Exponents(args'[1])
  <2>1. b # 0 /\ value' = <<div(a, b)>>
    BY <1>2 DEF CallDiv
  <2>2. a \in Byte
    BY ShamirAssumption
  <2> DEFINE q == div(a, b)
  <2>3. q \in Byte /\ mult(q, b) = a
    BY <2>1, <2>2, DivideThenMultiply
  <2>4. value'[1] = q /\ args'[2] = b /\ args'[1] = a
    BY <1>1, <2>1
  <2> HIDE DEF q
  <2>5. FieldProduct(q, b) = Exponents(mult(q, b))
    BY <2>3, FieldProductIsMult
  <2> QED
    BY <2>3, <2>4, <2>5
<1>3. DivisionUndoesMultiplication'
  BY <1>2 DEF DivisionUndoesMultiplication
<1> QED
  BY <1>1, <1>3 DEF ShamirInv, SplitGives, NeverPanics, DistinctPartsAreAccepted,
                    AnyThresholdPartsRecover

\* Sizes that are not refused do not panic: a polynomial has as many coefficients
\* as the threshold says (shamir.go:148-163, 39).
LEMMA NoPanicAtSize ==
    ASSUME NEW s, NEW n \in Int, NEW k \in Int, ~SplitRefuses(s, n, k)
    PROVE  ~SplitPanics(n, k)
<1>1. n <= 255 /\ k \in 2..255
  BY DEF SplitRefuses
<1>2. (k - 1) % 256 = k - 1
  BY <1>1
<1>3. (k - 1 + 1) % 256 = k
  BY <1>1
<1> QED
  BY <1>1, <1>2, <1>3 DEF SplitPanics, Coefficients

LEMMA InvSplits ==
    ASSUME ShamirInv, NEW s \in Secrets, NEW n \in Int, NEW k \in Int,
           NEW perm \in Perms, NEW random \in Randoms, CallSplit(s, n, k, perm, random)
    PROVE  ShamirInv'
<1>1. ~SplitRefuses(s, n, k) /\ called' = "Split"
  BY DEF CallSplit
<1>2. ~SplitPanics(n, k)
  BY <1>1, NoPanicAtSize
<1>3. answer' = "ok" /\ parts' = Split(s, n, k, perm, random)
  BY <1>2 DEF CallSplit
<1>4. GoodParts(parts')
  BY <1>1, <1>3, SplitMakesGoodParts
<1>5. secret' = s /\ args'[2] = k
  BY DEF CallSplit
<1>6. OfPolynomials(parts', secret', args'[2])
  BY <1>1, <1>3, <1>5, SplitUsesPolynomials
<1> QED
  BY <1>1, <1>3, <1>4, <1>6
     DEF ShamirInv, SplitGives, NeverPanics, DistinctPartsAreAccepted, AnyThresholdPartsRecover,
         DivisionUndoesMultiplication

LEMMA InvCombines ==
    ASSUME ShamirInv, NEW pick \in Picks, CallCombine(pick)
    PROVE  ShamirInv'
<1> DEFINE given == [i \in DOMAIN pick |-> parts[pick[i]]]
           xs == [i \in DOMAIN given |-> Last(given[i])]
<1>1. /\ GoodParts(parts) /\ OfPolynomials(parts, secret, args[2])
      /\ called' = "Combine" /\ picked' = pick
      /\ secret' = secret /\ args' = args
      /\ CombineRefuses(given) => answer' = "error"
      /\ ~CombineRefuses(given) /\ ~InterpolationPanics(xs) =>
            answer' = "ok" /\ value' = Combine(given)
  BY DEF ShamirInv, SplitGives, CallCombine
<1>2. PICK m \in Nat : pick \in [1..m -> DOMAIN parts]
  <2>1. PICK n \in 2..255 : DOMAIN parts = 1..n
    BY <1>1 DEF GoodParts
  <2>2. CASE Len(parts) > MaxPicks
    <3>1. pick = [i \in DOMAIN parts |-> i]
      BY <2>2 DEF Picks
    <3>2. n \in Nat /\ pick \in [1..n -> DOMAIN parts]
      BY <2>1, <3>1
    <3> QED
      BY <3>2
  <2>3. CASE ~(Len(parts) > MaxPicks)
    <3>1. PICK m \in 0..MaxPicks : pick \in [1..m -> DOMAIN parts]
      BY <2>3 DEF Picks
    <3>2. MaxPicks \in Nat
      BY ShamirAssumption
    <3>3. m \in Nat
      BY <3>1, <3>2
    <3> QED
      BY <3>1, <3>3
  <2> QED
    BY <2>2, <2>3
<1>3. /\ ~CombineRefuses(given) <=>
             m >= 2 /\ \A i, j \in 1..m : i # j => pick[i] # pick[j]
      /\ ~CombineRefuses(given) => ~InterpolationPanics(xs)
  BY <1>1, <1>2, CombineAccepts
<1>8. ASSUME m >= args[2], \A i, j \in 1..m : i # j => pick[i] # pick[j]
      PROVE  value' = secret
  <2>1. m >= 2
    <3> DEFINE k == args[2]
    <3>1. k \in 2..255 /\ m >= k
      BY <1>1, <1>8 DEF OfPolynomials
    <3> HIDE DEF k
    <3> QED
      BY <1>2, <3>1
  <2>2. value' = Combine(given)
    BY <1>1, <1>3, <1>8, <2>1
  <2> DEFINE k == args[2]
  <2>3. OfPolynomials(parts, secret, k) /\ m >= k
    BY <1>1, <1>8
  <2> HIDE DEF k
  <2>4. \A g : g = [i \in DOMAIN pick |-> parts[pick[i]]] => Combine(g) = secret
    BY <1>1, <1>2, <1>8, <2>3, CombineRecovers
  <2> QED
    BY <2>2, <2>4
<1> HIDE DEF given, xs
<1>4. answer' \in {"ok", "error"} /\ (answer' = "ok" <=> ~CombineRefuses(given))
  BY <1>1, <1>3
<1>5. DOMAIN pick = 1..m /\ Len(pick) = m
  BY <1>2
<1>6. NeverPanics' /\ SplitGives'
  BY <1>1, <1>4 DEF NeverPanics, SplitGives
<1>7. DistinctPartsAreAccepted'
  BY <1>1, <1>3, <1>4, <1>5 DEF DistinctPartsAreAccepted, DistinctPicks
<1>9. AnyThresholdPartsRecover'
  BY <1>1, <1>5, <1>8 DEF AnyThresholdPartsRecover, DistinctPicks
<1>10. DivisionUndoesMultiplication'
  BY <1>1 DEF DivisionUndoesMultiplication
<1> QED
  BY <1>6, <1>7, <1>9, <1>10 DEF ShamirInv

LEMMA ShamirStep == ShamirInv /\ [Next]_vars => ShamirInv'
<1> SUFFICES ASSUME ShamirInv, [Next]_vars
             PROVE  ShamirInv'
  OBVIOUS
<1>1. CASE UNCHANGED vars
  BY <1>1 DEF vars, ShamirInv, SplitGives, NeverPanics, DistinctPartsAreAccepted, DistinctPicks,
              AnyThresholdPartsRecover, DivisionUndoesMultiplication
<1>2. CASE \E a \in Dividends, b \in Byte : CallDiv(a, b)
  BY <1>2, InvDivides
<1>3. ASSUME NEW s \in Secrets, NEW z \in Sizes,
             \/ SplitReturnsError(s, z[1], z[2])
             \/ \E perm \in Perms, random \in Randoms : CallSplit(s, z[1], z[2], perm, random)
      PROVE  ShamirInv'
  <2>1. z[1] \in Int /\ z[2] \in Int
    BY ShamirAssumption
  <2>2. CASE SplitReturnsError(s, z[1], z[2])
    BY <2>2 DEF SplitReturnsError, ShamirInv, SplitGives, NeverPanics, DistinctPartsAreAccepted,
                AnyThresholdPartsRecover, DivisionUndoesMultiplication
  <2>3. CASE \E perm \in Perms, random \in Randoms : CallSplit(s, z[1], z[2], perm, random)
    BY <2>1, <2>3, InvSplits
  <2> QED
    BY <1>3, <2>2, <2>3
<1>4. CASE \E pick \in Picks : CallCombine(pick)
  BY <1>4, InvCombines
<1> QED
  BY <1>1, <1>2, <1>3, <1>4 DEF Next

LEMMA ShamirInvariance == Spec => []ShamirInv
BY ShamirInit, ShamirStep, PTL DEF Spec

\* Split and Combine never panic, for every secret, size and choice of parts
\* (shamir.go:39, 97, 175, 231-239).
THEOREM NothingPanics == Spec => []NeverPanics
<1>1. ShamirInv => NeverPanics
  BY DEF ShamirInv
<1> QED
  BY <1>1, ShamirInvariance, PTL

\* Parts of one split are accepted, in any number of two or more and in any
\* order, exactly if none is there twice (shamir.go:156-176, 204-239).
THEOREM DifferentPartsAccepted == Spec => []DistinctPartsAreAccepted
<1>1. ShamirInv => DistinctPartsAreAccepted
  BY DEF ShamirInv
<1> QED
  BY <1>1, ShamirInvariance, PTL

\* div undoes mult, with mult that of GF(2^8) by its definition, for all bytes
\* (shamir.go:93-134).
THEOREM DivisionIsOfTheField == Spec => []DivisionUndoesMultiplication
<1>1. ShamirInv => DivisionUndoesMultiplication
  BY DEF ShamirInv
<1> QED
  BY <1>1, ShamirInvariance, PTL

\* As many different parts as the threshold, or more, in any order, give the
\* secret back, whatever polynomials were drawn (shamir.go:147-254).
THEOREM ThresholdPartsRecover == Spec => []AnyThresholdPartsRecover
<1>1. ShamirInv => AnyThresholdPartsRecover
  BY DEF ShamirInv
<1> QED
  BY <1>1, ShamirInvariance, PTL

\* With a threshold of 2, one part fits every secret: a second coefficient can be
\* found for any byte, by dividing by the part's x (shamir.go:169-195).
THEOREM OnePartFitsEverySecret == Spec => []OnePartTellsNothing
<1>1. ShamirInv => OnePartTellsNothing
  <2> SUFFICES ASSUME ShamirInv, called = "Split", answer = "ok",
                      NEW i \in DOMAIN parts, NEW b \in DOMAIN secret, NEW v \in Byte
               PROVE  \E c \in Byte :
                         evaluate(makePolynomial(v, 1, <<c>>, 0), Last(parts[i])) = parts[i][b]
    BY DEF OnePartTellsNothing
  <2> DEFINE k == args[2]
             x == Last(parts[i])
  <2>1. GoodParts(parts) /\ OfPolynomials(parts, secret, k)
    BY DEF ShamirInv, SplitGives
  <2> HIDE DEF k
  <2>2. x \in 1..255
    BY <2>1 DEF GoodParts
  <2>3. x \in Byte /\ x # 0
    BY <2>2 DEF Byte
  <2>4. secret \in Seq(Byte) /\ b \in 1..Len(secret) /\ k \in Nat \ {0}
    <3>1. secret \in Seq(Byte) /\ k \in 2..255
      BY <2>1 DEF OfPolynomials
    <3> QED
      BY <3>1
  <2>5. PICK poly \in [1..Len(secret) -> [1..k -> Byte]] :
           \A d \in 1..Len(secret) : \A j \in DOMAIN parts :
               parts[j][d] = evaluate(poly[d], Last(parts[j]))
    BY <2>1 DEF OfPolynomials
  <2>6. parts[i][b] = evaluate(poly[b], x) /\ poly[b] \in [1..k -> Byte]
    BY <2>4, <2>5
  <2> HIDE DEF x
  <2>7. evaluate(poly[b], x) \in Byte
    <3> DEFINE p == poly[b]
    <3>1. p \in [1..k -> Byte]
      BY <2>6
    <3> HIDE DEF p
    <3> QED
      BY <2>3, <2>4, <3>1, EvaluateByte DEF p
  <2>8. \E c \in Byte : evaluate(makePolynomial(v, 1, <<c>>, 0), x) = parts[i][b]
    BY <2>3, <2>6, <2>7, AnyByteFits
  <2> QED
    BY <2>8 DEF x
<1> QED
  BY <1>1, ShamirInvariance, PTL

-----------------------------------------------------------------------------
(* Fewer parts than the threshold.                                         *)

\* What Split makes of v with the random bytes r is, in byte b, what the picked parts
\* have.
Makes(r, v, k, b, m, pick) ==
    \A i \in 1..m :
        evaluate(makePolynomial(v, k - 1, r, 0), Last(parts[pick[i]])) = parts[pick[i]][b]

\* Fewer parts than the threshold fit every secret: whatever a byte had been, there
\* are random bytes with which Split would have made the same parts; and if one part
\* is missing, exactly one filling of them, so every secret is as likely as before
\* (shamir.go:36-51, 169-195).
FewerPartsTellNothing ==
    called = "Split" /\ answer = "ok" =>
        \A m \in 0..(args[2] - 1) : \A pick \in [1..m -> DOMAIN parts] :
            (\A i, j \in 1..m : i # j => pick[i] # pick[j]) =>
                \A b \in DOMAIN secret : \A v \in Byte :
                    /\ \E r \in [1..(args[2] - 1) -> Byte] : Makes(r, v, args[2], b, m, pick)
                    /\ m = args[2] - 1 =>
                         \A r, s \in [1..(args[2] - 1) -> Byte] :
                             Makes(r, v, args[2], b, m, pick) /\ Makes(s, v, args[2], b, m, pick)
                                => r = s

\* makePolynomial takes its coefficients from the random bytes one by one.
LEMMA FillingIs ==
    ASSUME NEW k \in 2..255, NEW v \in Byte, NEW r \in [1..(k-1) -> Byte]
    PROVE  /\ makePolynomial(v, k - 1, r, 0) \in [1..k -> Byte]
           /\ makePolynomial(v, k - 1, r, 0)[1] = v
           /\ \A i \in 1..(k-1) : makePolynomial(v, k - 1, r, 0)[i+1] = r[i]
<1> DEFINE p == makePolynomial(v, k - 1, r, 0)
           l == k - 1
<1>1. Coefficients(k - 1) = k
  <2>1. (k - 1 + 1) % 256 = k
    OBVIOUS
  <2> QED
    BY <2>1 DEF Coefficients
<1>2. Len(r) = l
  <2>1. l \in Nat /\ DOMAIN r = 1..l
    OBVIOUS
  <2> HIDE DEF l
  <2> QED
    BY <2>1
<1>3. p = [i \in 1..k |-> IF i = 1 THEN v ELSE r[((0 + i - 2) % l) + 1]]
  BY <1>1, <1>2 DEF makePolynomial
<1>4. ASSUME NEW i \in 2..k
      PROVE  ((0 + i - 2) % l) + 1 = i - 1 /\ i - 1 \in 1..l
  <2>1. 0 + i - 2 \in Nat /\ 0 + i - 2 < l /\ l \in Nat \ {0}
    OBVIOUS
  <2> DEFINE j == 0 + i - 2
  <2>2. j % l = j
    <3> HIDE DEF j, l
    <3>1. j \in Nat /\ j < l /\ l \in Nat \ {0}
      BY <2>1 DEF j
    <3> QED
      BY <3>1
  <2> QED
    BY <2>2
<1> HIDE DEF p
<1>5. p[1] = v
  BY <1>3
<1>6. \A i \in 2..k : p[i] = r[i-1]
  <2> SUFFICES ASSUME NEW i \in 2..k
               PROVE  p[i] = r[i-1]
    OBVIOUS
  <2>1. i \in 1..k /\ i # 1
    OBVIOUS
  <2>2. p[i] = r[((0 + i - 2) % l) + 1]
    BY <1>3, <2>1
  <2> HIDE DEF l
  <2> QED
    BY <1>4, <2>2
<1>7. \A i \in 1..k : i = 1 \/ i \in 2..k
  OBVIOUS
<1>8. \A i \in 1..k : p[i] \in Byte
  <2>1. \A i \in 2..k : p[i] \in Byte
    BY <1>4, <1>6
  <2> QED
    BY <1>5, <1>7, <2>1
<1>9. p \in [1..k -> Byte]
  <2>1. p = [i \in 1..k |-> p[i]]
    BY <1>3
  <2> QED
    BY <1>8, <2>1
<1>10. \A i \in 1..(k-1) : p[i+1] = r[i]
  <2>1. \A i \in 1..(k-1) : i + 1 \in 2..k /\ (i + 1) - 1 = i
    OBVIOUS
  <2> QED
    BY <1>6, <2>1
<1> QED
  BY <1>5, <1>9, <1>10 DEF p

LEMMA EnoughFillings ==
    ASSUME NEW k \in 2..255, NEW v \in Byte, NEW p \in [1..k -> Byte], p[1] = v
    PROVE  \E r \in [1..(k-1) -> Byte] : makePolynomial(v, k - 1, r, 0) = p
<1> DEFINE r == [i \in 1..(k-1) |-> p[i+1]]
           q == makePolynomial(v, k - 1, r, 0)
<1>1. \A i \in 1..(k-1) : i + 1 \in 1..k
  OBVIOUS
<1>2. r \in [1..(k-1) -> Byte] /\ \A i \in 1..(k-1) : r[i] = p[i+1]
  BY <1>1
<1> HIDE DEF r
<1>3. q \in [1..k -> Byte] /\ q[1] = v /\ \A i \in 1..(k-1) : q[i+1] = r[i]
  BY <1>2, FillingIs, ZenonT(30)
<1> HIDE DEF q
<1>4. \A i \in 1..k : i = 1 \/ (i - 1 \in 1..(k-1) /\ (i - 1) + 1 = i)
  OBVIOUS
<1>5. \A i \in 1..k : q[i] = p[i]
  BY <1>2, <1>3, <1>4, ZenonT(30)
<1>6. q = p
  BY <1>3, <1>5
<1> QED
  BY <1>2, <1>6 DEF q

LEMMA FillingsDiffer ==
    ASSUME NEW k \in 2..255, NEW v \in Byte, NEW r \in [1..(k-1) -> Byte],
           NEW s \in [1..(k-1) -> Byte],
           makePolynomial(v, k - 1, r, 0) = makePolynomial(v, k - 1, s, 0)
    PROVE  r = s
<1> DEFINE p == makePolynomial(v, k - 1, r, 0)
           q == makePolynomial(v, k - 1, s, 0)
<1>1. \A i \in 1..(k-1) : p[i+1] = r[i]
  BY FillingIs, ZenonT(30)
<1>2. \A i \in 1..(k-1) : q[i+1] = s[i]
  BY FillingIs, ZenonT(30)
<1>3. p = q
  OBVIOUS
<1> HIDE DEF p, q
<1>4. \A i \in 1..(k-1) : r[i] = s[i]
  BY <1>1, <1>2, <1>3
<1> QED
  BY <1>4

\* The polynomial of v and the random bytes r has these values.
Fits(r, v, k, m, xs, ys) ==
    \A i \in 1..m : evaluate(makePolynomial(v, k - 1, r, 0), xs[i]) = ys[i]

\* The points a byte's polynomial has: v at 0, and the picked parts (shamir.go:178-195).
LEMMA PartsFitOnce ==
    ASSUME NEW k \in 2..255, NEW v \in Byte, NEW m \in 0..(k-1),
           NEW xs \in [1..m -> 1..255], \A i, j \in 1..m : i # j => xs[i] # xs[j],
           NEW ys \in [1..m -> Byte]
    PROVE  /\ \E r \in [1..(k-1) -> Byte] : Fits(r, v, k, m, xs, ys)
           /\ m = k - 1 => \A r, s \in [1..(k-1) -> Byte] :
                  Fits(r, v, k, m, xs, ys) /\ Fits(s, v, k, m, xs, ys) => r = s
<1> DEFINE n == m + 1
           us == [i \in 1..n |-> IF i = n THEN 0 ELSE xs[i]]
           vs == [i \in 1..n |-> IF i = n THEN v ELSE ys[i]]
<1>1. /\ k \in Nat /\ k \in 1..256 /\ n \in 1..k /\ n \in 1..n
      /\ \A i \in 1..m : i \in 1..n /\ i # n
      /\ \A i \in 1..n : i = n \/ i \in 1..m
  OBVIOUS
<1>2. \A i \in 1..m : xs[i] \in Byte /\ xs[i] # 0
  <2>1. \A x \in 1..255 : x \in 0..255 /\ x # 0
    OBVIOUS
  <2> QED
    BY <2>1, ZenonT(30) DEF Byte
<1>3. us \in [1..n -> Byte] /\ vs \in [1..n -> Byte]
  <2>1. 0 \in Byte
    BY ZeroBits
  <2> HIDE DEF n
  <2>2. \A i \in 1..n : (IF i = n THEN 0 ELSE xs[i]) \in Byte
    BY <1>1, <1>2, <2>1
  <2>3. \A i \in 1..n : (IF i = n THEN v ELSE ys[i]) \in Byte
    BY <1>1
  <2> QED
    BY <2>2, <2>3
<1>4. us[n] = 0 /\ vs[n] = v /\ \A i \in 1..m : us[i] = xs[i] /\ vs[i] = ys[i]
  <2> HIDE DEF n
  <2> QED
    BY <1>1
<1> HIDE DEF n, us, vs
<1>5. AllDiffer(us, n)
  <2> SUFFICES ASSUME NEW i \in 1..n, NEW j \in 1..n, us[i] = us[j]
               PROVE  i = j
    BY DEF AllDiffer
  <2> QED
    BY <1>1, <1>2, <1>4
<1>6. ASSUME NEW r \in [1..(k-1) -> Byte]
      PROVE  /\ makePolynomial(v, k - 1, r, 0) \in [1..k -> Byte]
             /\ evaluate(makePolynomial(v, k - 1, r, 0), 0) = v
  <2>1. /\ makePolynomial(v, k - 1, r, 0) \in [1..k -> Byte]
        /\ makePolynomial(v, k - 1, r, 0)[1] = v
    BY FillingIs, ZenonT(30)
  <2> QED
    BY <2>1 DEF evaluate
<1>7. \E r \in [1..(k-1) -> Byte] : Fits(r, v, k, m, xs, ys)
  <2>1. PICK p \in [1..k -> Byte] : \A i \in 1..n : evaluate(p, us[i]) = vs[i]
    <3>1. /\ k \in Nat /\ n \in 1..k /\ AllDiffer(us, n)
          /\ us \in [1..n -> Byte] /\ vs \in [1..n -> Byte]
      BY <1>1, <1>3, <1>5
    <3>2. \A ws \in [1..n -> Byte] :
             \E p \in [1..k -> Byte] : \A i \in 1..n : evaluate(p, us[i]) = ws[i]
      BY <3>1, ThroughPoints
    <3> QED
      BY <3>1, <3>2
  <2>2. p[1] = v
    <3>1. evaluate(p, 0) = v
      BY <1>1, <1>4, <2>1
    <3> QED
      BY <3>1 DEF evaluate
  <2>3. PICK r \in [1..(k-1) -> Byte] : makePolynomial(v, k - 1, r, 0) = p
    BY <2>2, EnoughFillings
  <2>4. \A i \in 1..m : evaluate(p, xs[i]) = ys[i]
    BY <1>1, <1>4, <2>1
  <2> QED
    BY <2>3, <2>4 DEF Fits
<1>8. ASSUME m = k - 1, NEW r \in [1..(k-1) -> Byte], NEW s \in [1..(k-1) -> Byte],
             Fits(r, v, k, m, xs, ys), Fits(s, v, k, m, xs, ys)
      PROVE  r = s
  <2> DEFINE p == makePolynomial(v, k - 1, r, 0)
             q == makePolynomial(v, k - 1, s, 0)
  <2>1. /\ p \in [1..k -> Byte] /\ evaluate(p, 0) = v
        /\ q \in [1..k -> Byte] /\ evaluate(q, 0) = v
    BY <1>6
  <2>2. \A i \in 1..m : evaluate(p, xs[i]) = evaluate(q, xs[i])
    BY <1>8 DEF Fits
  <2> HIDE DEF p, q
  <2>3. n = k
    BY <1>8 DEF n
  <2>4. \A i \in 1..k : evaluate(p, us[i]) = evaluate(q, us[i])
    <3> SUFFICES ASSUME NEW i \in 1..k
                 PROVE  evaluate(p, us[i]) = evaluate(q, us[i])
      OBVIOUS
    <3>1. CASE i \in 1..m
      <4>1. us[i] = xs[i]
        BY <1>4, <3>1
      <4>2. evaluate(p, xs[i]) = evaluate(q, xs[i])
        BY <2>2, <3>1
      <4> QED
        BY <4>1, <4>2
    <3>2. CASE i = n
      BY <1>4, <2>1, <3>2
    <3> QED
      BY <1>1, <2>3, <3>1, <3>2
  <2>5. us \in [1..k -> Byte] /\ AllDiffer(us, k)
    BY <1>3, <1>5, <2>3
  <2>6. p = q
    <3>1. \A e, f \in [1..k -> Byte] :
             (\A i \in 1..k : evaluate(e, us[i]) = evaluate(f, us[i])) => e = f
      BY <1>1, <2>5, OnlyOneThrough
    <3> QED
      BY <2>1, <2>4, <3>1
  <2> QED
    BY <2>6, FillingsDiffer DEF p, q
<1> QED
  BY <1>7, <1>8

\* A split tells those who hold fewer parts than its threshold nothing of the secret,
\* for every threshold and all secrets (shamir.go:36-51, 169-195).
THEOREM FewerPartsAreNoHelp == Spec => []FewerPartsTellNothing
<1>1. ShamirInv => FewerPartsTellNothing
  <2> SUFFICES ASSUME ShamirInv, called = "Split", answer = "ok",
                      NEW m \in 0..(args[2] - 1), NEW pick \in [1..m -> DOMAIN parts],
                      \A i, j \in 1..m : i # j => pick[i] # pick[j],
                      NEW b \in DOMAIN secret, NEW v \in Byte
               PROVE  /\ \E r \in [1..(args[2] - 1) -> Byte] : Makes(r, v, args[2], b, m, pick)
                      /\ m = args[2] - 1 =>
                           \A r, s \in [1..(args[2] - 1) -> Byte] :
                               Makes(r, v, args[2], b, m, pick) /\ Makes(s, v, args[2], b, m, pick)
                                  => r = s
    BY DEF FewerPartsTellNothing
  <2> DEFINE k == args[2]
             xs == [i \in 1..m |-> Last(parts[pick[i]])]
             ys == [i \in 1..m |-> parts[pick[i]][b]]
  <2>1. GoodParts(parts) /\ OfPolynomials(parts, secret, k)
    BY DEF ShamirInv, SplitGives
  <2>2. m \in 0..(k-1)
    OBVIOUS
  <2> HIDE DEF k
  <2>3. PICK n \in 2..255 :
           /\ DOMAIN parts = 1..n
           /\ \A i \in 1..n : Last(parts[i]) \in 1..255
           /\ \A i, j \in 1..n : Last(parts[i]) = Last(parts[j]) => i = j
    BY <2>1, ZenonT(30) DEF GoodParts
  <2>4. secret \in Seq(Byte) /\ b \in 1..Len(secret) /\ k \in 2..255 /\ k \in Nat \ {0}
    <3>1. secret \in Seq(Byte) /\ k \in 2..255
      BY <2>1 DEF OfPolynomials
    <3> QED
      BY <3>1
  <2>5. PICK poly \in [1..Len(secret) -> [1..k -> Byte]] :
           \A d \in 1..Len(secret) : \A j \in DOMAIN parts :
               parts[j][d] = evaluate(poly[d], Last(parts[j]))
    BY <2>1 DEF OfPolynomials
  <2>6. \A i \in 1..m : pick[i] \in 1..n
    BY <2>3
  <2>7. \A i \in 1..m : xs[i] = Last(parts[pick[i]]) /\ ys[i] = parts[pick[i]][b]
    OBVIOUS
  <2>8. xs \in [1..m -> 1..255]
    BY <2>3, <2>6
  <2>9. ys \in [1..m -> Byte]
    <3> SUFFICES ASSUME NEW i \in 1..m
                 PROVE  parts[pick[i]][b] \in Byte
      OBVIOUS
    <3> DEFINE p == poly[b]
               x == Last(parts[pick[i]])
    <3>1. p \in [1..k -> Byte] /\ parts[pick[i]][b] = evaluate(p, x)
      BY <2>3, <2>4, <2>5, <2>6
    <3>2. x \in 1..255
      BY <2>3, <2>6
    <3> HIDE DEF p, x
    <3>3. x \in Byte
      BY <3>2 DEF Byte
    <3> QED
      BY <2>4, <3>1, <3>3, EvaluateByte
  <2> HIDE DEF xs, ys
  <2>10. \A i, j \in 1..m : i # j => xs[i] # xs[j]
    <3> SUFFICES ASSUME NEW i \in 1..m, NEW j \in 1..m, i # j
                 PROVE  xs[i] # xs[j]
      OBVIOUS
    <3>1. xs[i] = Last(parts[pick[i]]) /\ xs[j] = Last(parts[pick[j]])
      BY <2>7
    <3> QED
      BY <2>3, <2>6, <3>1
  <2>11. \A r : Makes(r, v, k, b, m, pick) <=> Fits(r, v, k, m, xs, ys)
    BY <2>7 DEF Makes, Fits
  <2>12. /\ \E r \in [1..(k-1) -> Byte] : Fits(r, v, k, m, xs, ys)
         /\ m = k - 1 => \A r, s \in [1..(k-1) -> Byte] :
               Fits(r, v, k, m, xs, ys) /\ Fits(s, v, k, m, xs, ys) => r = s
    BY <2>2, <2>4, <2>8, <2>9, <2>10, PartsFitOnce
  <2>13. \E r \in [1..(k-1) -> Byte] : Makes(r, v, k, b, m, pick)
    BY <2>11, <2>12
  <2>14. ASSUME m = k - 1, NEW r \in [1..(k-1) -> Byte], NEW s \in [1..(k-1) -> Byte],
                Makes(r, v, k, b, m, pick), Makes(s, v, k, b, m, pick)
         PROVE  r = s
    BY <2>11, <2>12, <2>14
  <2> QED
    BY <2>13, <2>14 DEF k
<1> QED
  BY <1>1, ShamirInvariance, PTL
=============================================================================
