------------------------------- MODULE Shamir -------------------------------
(***************************************************************************)
(* pkg/shamir: arithmetic in GF(2^8), Split and Combine, with every byte   *)
(* of the code a number in 0..255.  Loops over an index are functions of   *)
(* that index.                                                             *)
(*                                                                         *)
(* One run of the module is one call of div, or one call of Split and a    *)
(* call of Combine with some of the parts it returned.                     *)
(***************************************************************************)
EXTENDS Integers, Sequences, FiniteSets

CONSTANTS
    Dividends, \* first arguments of div; its second is any byte
    Secrets,   \* byte sequences to split
    Sizes,     \* pairs <<parts, threshold>>
    Perms,     \* what mathrand.Perm(255) may return: permutations of 0..254
    Randoms,   \* what rand.Read may fill in: byte sequences, read cyclically
    MaxPicks   \* Combine gets up to this many parts, or all of them

Byte == 0..255

ASSUME ShamirAssumption ==
    /\ Dividends \subseteq Byte
    /\ Secrets \subseteq Seq(Byte)
    /\ Sizes \subseteq Int \X Int
    /\ Perms \subseteq [1..255 -> 0..254]
    /\ \A p \in Perms : \A x \in 0..254 : \E i \in 1..255 : p[i] = x
    /\ Randoms \subseteq Seq(Byte) \ {<<>>}
    /\ MaxPicks \in Nat

-----------------------------------------------------------------------------
(* The field.                                                              *)

Bit(a, i) == (a \div 2^i) % 2

Xor == [a \in Byte |-> [b \in Byte |->
    LET low[i \in 0..8] ==
            IF i = 0 THEN 0
            ELSE low[i-1] + ((Bit(a, i-1) + Bit(b, i-1)) % 2) * 2^(i-1)
    IN  low[8]]]

add(a, b) == Xor[a][b]

\* One turn of mult's loop: r is doubled, reduced if it overflowed, and a is
\* added if the bit of b is set.
\* Mutant: reduced without the bit that overflowed.
TurnUnreduced(a, bit, r) == add(bit * a, (r + r) % 256)

Turn(a, bit, r) ==
    add(add(bit * a, IF r >= 128 THEN 27 ELSE 0), (r + r) % 256)

Product == [a \in Byte |-> [b \in Byte |->
    LET r[i \in 0..8] == IF i = 0 THEN 0 ELSE Turn(a, Bit(b, 8 - i), r[i-1])
    IN  r[8]]]

mult(a, b) == Product[a][b]

sq(a) == mult(a, a)

\* a^254, by the chain of the code.
Inverses == [a \in Byte |->
    LET c1 == mult(a, sq(a))
        b1 == sq(sq(c1))
        c2 == mult(b1, c1)
        b2 == mult(sq(sq(b1)), c2)
        b3 == mult(a, sq(b2))
    IN  sq(b3)]

inverse(a) == Inverses[a]

\* For b # 0; with b = 0 the code panics, which is InterpolationPanics.
div(a, b) == IF a = 0 THEN 0 ELSE mult(a, inverse(b))

-----------------------------------------------------------------------------
(* Polynomials.                                                            *)

\* uint8: a degree of 255 would make a slice of length 0.
Coefficients(degree) == (degree + 1) % 256

\* skip is how much of random the polynomials before have read.
makePolynomial(intercept, degree, random, skip) ==
    [i \in 1..Coefficients(degree) |->
        IF i = 1 THEN intercept ELSE random[((skip + i - 2) % Len(random)) + 1]]

\* What so many turns of a loop make of the byte it starts with; step[i][byte] is
\* what turn i makes of a byte.  They are taken in blocks of 16: TLC's stack is too
\* small for a recursion 255 deep.
Loop(turns, start, step) ==
    LET within(from, to) == [byte \in Byte |->
            LET r[i \in from..to] == IF i = from THEN byte ELSE step[i][r[i-1]]
            IN  r[to]]
        blocks[b \in 0..(turns \div 16)] ==
            IF b = 0 THEN start ELSE within(16 * (b - 1), 16 * b)[blocks[b-1]]
    IN  within(16 * (turns \div 16), turns)[blocks[turns \div 16]]

\* Horner's rule, from the highest coefficient down.
evaluate(p, x) ==
    IF x = 0 THEN p[1]
    ELSE LET top == Len(p)
         IN  Loop(top - 1, p[top],
                  [i \in 1..(top - 1) |-> [out \in Byte |-> add(mult(out, x), p[top - i])]])

\* The value at x of the polynomial that is 1 at xs[i] and 0 at the other xs.
basisAt(x, xs, i) ==
    Loop(Len(xs), 1, [j \in 1..Len(xs) |-> [b \in Byte |->
        IF i = j THEN b ELSE mult(b, div(add(x, xs[j]), add(xs[i], xs[j])))]])

interpolateAt(x, xs, ys) ==
    Loop(Len(xs), 0, [i \in 1..Len(xs) |-> [result \in Byte |->
        add(result, mult(ys[i], basisAt(x, xs, i)))]])

\* Mutant: the value at 1.
interpolatePolynomialAt1(xs, ys) == interpolateAt(1, xs, ys)

\* The value at 0, the only x it is called with.
interpolatePolynomial(xs, ys) == interpolateAt(0, xs, ys)

InterpolationPanics(xs) ==
    \E i, j \in DOMAIN xs : i # j /\ add(xs[i], xs[j]) = 0

-----------------------------------------------------------------------------
(* Split and Combine.  A part is the y of each byte, followed by x.        *)

\* Mutant: threshold and parts are not bounded from above.
SplitRefusesSmall(secret, parts, threshold) ==
    parts < threshold \/ threshold < 2 \/ secret = <<>>

SplitRefuses(secret, parts, threshold) ==
    parts < threshold \/ parts > 255 \/ threshold < 2 \/ threshold > 255 \/ secret = <<>>

\* The index of xCoordinates or of a polynomial without coefficients.
SplitPanics(parts, threshold) ==
    parts > 255 \/ Coefficients((threshold - 1) % 256) = 0

\* Mutant: x may be 0.
xOfZeroBased(perm, i) == perm[i]

xOf(perm, i) == (perm[i] + 1) % 256

Split(secret, parts, threshold, perm, random) ==
    LET degree  == (threshold - 1) % 256
        poly    == [b \in 1..Len(secret) |->
                        makePolynomial(secret[b], degree, random, (b - 1) * degree)]
    IN  [i \in 1..parts |->
            [b \in 1..(Len(secret) + 1) |->
                IF b > Len(secret) THEN xOf(perm, i) ELSE evaluate(poly[b], xOf(perm, i))]]

Last(part) == part[Len(part)]

\* Mutant: equal x coordinates are let through.
CombineRefusesUnequal(parts) ==
    \/ Len(parts) < 2
    \/ Len(parts[1]) < 2
    \/ \E i \in DOMAIN parts : Len(parts[i]) # Len(parts[1])

\* Mutant: each part is compared with itself too.
CombineRefusesItself(parts) ==
    \/ Len(parts) < 2
    \/ Len(parts[1]) < 2
    \/ \E i \in DOMAIN parts : Len(parts[i]) # Len(parts[1])
    \/ \E i, j \in DOMAIN parts : i <= j /\ Last(parts[i]) = Last(parts[j])

CombineRefuses(parts) ==
    \/ Len(parts) < 2
    \/ Len(parts[1]) < 2
    \/ \E i \in DOMAIN parts : Len(parts[i]) # Len(parts[1])
    \/ \E i, j \in DOMAIN parts : i < j /\ Last(parts[i]) = Last(parts[j])

Combine(parts) ==
    [b \in 1..(Len(parts[1]) - 1) |->
        interpolatePolynomial([i \in DOMAIN parts |-> Last(parts[i])],
                              [i \in DOMAIN parts |-> parts[i][b]])]

-----------------------------------------------------------------------------
VARIABLES
    called,    \* "none", "div", "Split" or "Combine": the last call
    args,      \* of div: a and b; of Split: parts and threshold
    secret,    \* what was split
    parts,     \* what Split returned
    picked,    \* the positions in parts of what Combine was given
    answer,    \* "ok", "error" or "panic"
    value      \* the bytes the last call returned

vars == <<called, args, secret, parts, picked, answer, value>>

Init ==
    /\ called = "none"
    /\ args = <<0, 0>>
    /\ secret = <<>> /\ parts = <<>> /\ picked = <<>>
    /\ answer = "ok" /\ value = <<>>

CallDiv(a, b) ==
    /\ called = "none"
    /\ called' = "div"
    /\ args' = <<a, b>>
    /\ answer' = IF b = 0 THEN "panic" ELSE "ok"
    /\ value' = IF b = 0 THEN <<>> ELSE <<div(a, b)>>
    /\ UNCHANGED <<secret, parts, picked>>

SplitReturnsError(s, n, k) ==
    /\ called = "none"
    /\ SplitRefuses(s, n, k)
    /\ called' = "Split"
    /\ args' = <<n, k>>
    /\ secret' = s
    /\ answer' = "error"
    /\ UNCHANGED <<parts, picked, value>>

CallSplit(s, n, k, perm, random) ==
    /\ called = "none"
    /\ ~SplitRefuses(s, n, k)
    /\ called' = "Split"
    /\ args' = <<n, k>>
    /\ secret' = s
    /\ answer' = IF SplitPanics(n, k) THEN "panic" ELSE "ok"
    /\ parts' = IF SplitPanics(n, k) THEN <<>> ELSE Split(s, n, k, perm, random)
    /\ UNCHANGED <<picked, value>>

Picks == IF Len(parts) > MaxPicks
           THEN {[i \in DOMAIN parts |-> i]}
           ELSE UNION {[1..m -> DOMAIN parts] : m \in 0..MaxPicks}

CallCombine(pick) ==
    /\ called = "Split" /\ answer = "ok"
    /\ called' = "Combine"
    /\ picked' = pick
    /\ LET given == [i \in DOMAIN pick |-> parts[pick[i]]]
       IN  IF CombineRefuses(given)
             THEN answer' = "error" /\ value' = <<>>
           ELSE IF InterpolationPanics([i \in DOMAIN given |-> Last(given[i])])
             THEN answer' = "panic" /\ value' = <<>>
           ELSE answer' = "ok" /\ value' = Combine(given)
    /\ UNCHANGED <<args, secret, parts>>

Next ==
    \/ \E a \in Dividends, b \in Byte : CallDiv(a, b)
    \/ \E s \in Secrets, z \in Sizes :
          \/ SplitReturnsError(s, z[1], z[2])
          \/ \E perm \in Perms, random \in Randoms : CallSplit(s, z[1], z[2], perm, random)
    \/ \E pick \in Picks : CallCombine(pick)

Spec == Init /\ [][Next]_vars

-----------------------------------------------------------------------------
(* Properties.                                                             *)

\* The field by its definition: bytes are polynomials over GF(2), written as
\* their sets of exponents, multiplied modulo x^8 + x^4 + x^3 + x + 1.
Exponents(a) == {i \in 0..7 : Bit(a, i) = 1}

SymDiff(S, T) == (S \ T) \cup (T \ S)

Modulo(S) ==
    LET r[d \in 7..14] ==    \* reduced to degrees up to d
            LET above == IF d = 14 THEN S ELSE r[d+1]
            IN  IF d + 1 \in above THEN SymDiff(above, {d+1, d-3, d-4, d-6, d-7}) ELSE above
    IN  r[7]

FieldProduct(a, b) ==
    Modulo({d \in 0..14 : Cardinality({i \in Exponents(a) : d - i \in Exponents(b)}) % 2 = 1})

\* What div returns, times the divisor, is the dividend: div, inverse and mult
\* are those of the field (shamir.go:93-134).
DivisionUndoesMultiplication ==
    called = "div" /\ answer = "ok" =>
        FieldProduct(value[1], args[2]) = Exponents(args[1])

DistinctPicks == \A i, j \in DOMAIN picked : i # j => picked[i] # picked[j]

\* Two or more parts of one split are accepted, in any number and order, unless
\* one of them is there twice: no two have the same x (shamir.go:156-163, 228-239).
DistinctPartsAreAccepted ==
    called = "Combine" /\ Len(picked) >= 2 => (answer = "ok" <=> DistinctPicks)

\* As many different parts of a split as the threshold, or more, in any order,
\* give the secret back (shamir.go:147-254).
AnyThresholdPartsRecover ==
    called = "Combine" /\ Len(picked) >= args[2] /\ DistinctPicks => value = secret

\* A split for a threshold of 2: whatever a byte of the secret had been, there
\* is a coefficient with which Split would have made the same part, so a single
\* part says nothing of the secret (shamir.go:169-195).
OnePartTellsNothing ==
    called = "Split" /\ answer = "ok" /\ args[2] = 2 =>
        \A i \in DOMAIN parts : \A b \in DOMAIN secret : \A v \in Byte :
            \E c \in Byte :
                evaluate(makePolynomial(v, 1, <<c>>, 0), Last(parts[i])) = parts[i][b]

\* Neither Split nor Combine panics, at any size and with any parts: not by
\* an index, not by a polynomial without coefficients, not by a division by 0
\* (shamir.go:39, 97, 175, 231-239).
NeverPanics == called \in {"Split", "Combine"} => answer # "panic"
=============================================================================
