------------------------------- MODULE Shamir -------------------------------
(***************************************************************************)
(* Shamir's scheme over GF(256), one byte of the secret (client,           *)
(* vault.service.ts): the tables of buildGFTables, the arithmetic that     *)
(* reads them, sssplit and sscombine.                                      *)
(***************************************************************************)
EXTENDS Integers, SequencesExt

Byte == 0 .. 255

\* The operator ^, as a table.
Xor == [a \in Byte |-> [b \in Byte |->
          LET bit(n) == IF (a \div 2^n) % 2 = (b \div 2^n) % 2 THEN 0 ELSE 2^n
          IN  bit(0) + bit(1) + bit(2) + bit(3) + bit(4) + bit(5) + bit(6) + bit(7)]]

----------------------------------------------------------------------------
(* buildGFTables *)

UpTo(first, last) == [n \in 1 .. last - first + 1 |-> first + n - 1]

\* x ^ (x << 1) ^ 0x1b, in eight bits.
Tripled(x) == Xor[Xor[x][(2 * x) % 256]][IF x >= 128 THEN 27 ELSE 0]

\* The first loop fills both tables, an entry of each at a time.
firstLoop ==
    FoldLeft(LAMBDA t, i : [EXP |-> [t.EXP EXCEPT ![i] = t.x],
                            LOG |-> [t.LOG EXCEPT ![t.x] = i],
                            x |-> Tripled(t.x)],
             [EXP |-> [i \in 0 .. 511 |-> 0], LOG |-> [b \in Byte |-> 0], x |-> 1],
             UpTo(0, 254))

LOG == firstLoop.LOG

\* The second one repeats the powers.
EXP == FoldLeft(LAMBDA t, i : [t EXCEPT ![i] = t[i - 255]], firstLoop.EXP, UpTo(255, 511))

----------------------------------------------------------------------------
(* Arithmetic, splitting and combining *)

\* Fault: the logarithms are added as bytes.
gfMulWraps(a, b) == IF a = 0 \/ b = 0 THEN 0 ELSE EXP[(LOG[a] + LOG[b]) % 256]

gfMul(a, b) == IF a = 0 \/ b = 0 THEN 0 ELSE EXP[(LOG[a] + LOG[b]) % 255]

\* Of a # 0; it throws otherwise.
gfInv(a) == EXP[(255 - LOG[a]) % 255]

\* coeffs[1] is the secret.
evalPoly(coeffs, x) == FoldRight(LAMBDA c, r : Xor[gfMul(r, x)][c], coeffs, 0)

\* Fault: the first index is 0.
sssplitFromZero(coeffs, n) == [i \in 1 .. n |-> evalPoly(coeffs, i - 1)]

\* The shares of the indices from 1 to n.
sssplit(coeffs, n) == [i \in 1 .. n |-> evalPoly(coeffs, i)]

Product(factors) == FoldLeft(gfMul, 1, factors)

\* given: shares [index, share] in the order of the payload; indices differ.
sscombine(given) ==
    LET others(i) == RemoveAt(given, i)
        num(i) == Product([j \in DOMAIN others(i) |-> others(i)[j].index])
        den(i) == Product([j \in DOMAIN others(i) |-> Xor[given[i].index][others(i)[j].index]])
        term(i) == gfMul(given[i].share, gfMul(num(i), gfInv(den(i))))
    IN  FoldLeft(LAMBDA val, i : Xor[val][term(i)], 0, UpTo(1, Len(given)))

----------------------------------------------------------------------------
(* What the tables are meant to compute *)

Doubled == [a \in Byte |-> Xor[(2 * a) % 256][IF a >= 128 THEN 27 ELSE 0]]

\* Multiplication of polynomials over bits modulo x^8 + x^4 + x^3 + x + 1:
\* the sum of b's bits times a, doubled again and again.
Times(a, b) ==
    LET bits == [n \in 1 .. 8 |-> (b \div 2^(8 - n)) % 2]
    IN  FoldLeft(LAMBDA p, bit : IF bit = 1 THEN Xor[Doubled[p]][a] ELSE Doubled[p], 0, bits)

=============================================================================
