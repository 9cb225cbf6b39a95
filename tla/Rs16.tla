-------------------------------- MODULE Rs16 --------------------------------
(***************************************************************************)
(* The Reed-Solomon decoder of the CTDB repair (src/repair/rs16.c) and its *)
(* field (src/repair/gf16.c), over GF(2^Bits).                             *)
(*                                                                         *)
(* A field element is the set of the powers of x it has, so that adding is *)
(* the symmetric difference.  A polynomial is the sequence of its          *)
(* coefficients, the constant term first; trailing zeros do no harm.       *)
(***************************************************************************)
EXTENDS Integers, Sequences, FiniteSets, SequencesExt, FiniteSetsExt

CONSTANTS
  Bits,  \* the field has 2^Bits elements; the code has 16
  Poly   \* the low terms of its modulus; the code has {0, 1, 3, 12}

Symbols == SUBSET (0 .. Bits - 1)
Zero == {}
ORDER == 2 ^ Bits - 1

------------------------------------------------------------------------------
(* The field.                                                              *)

\* adsc_gf16_init: times alpha, the bit that falls off folded back in, and the two
\* tables of its powers.
TimesAlpha == [a \in Symbols |->
  SymDiff({b + 1 : b \in a \ {Bits - 1}}, IF Bits - 1 \in a THEN Poly ELSE {})]
ExpTab[i \in 0 .. ORDER - 1] == IF i = 0 THEN {0} ELSE TimesAlpha[ExpTab[i - 1]]
LogTab == [a \in Symbols \ {Zero} |-> CHOOSE i \in 0 .. ORDER - 1 : ExpTab[i] = a]

Pow(e) == ExpTab[e % ORDER]
Mul(a, b) == IF Zero \in {a, b} THEN Zero ELSE Pow(LogTab[a] + LogTab[b])
Div(a, b) == IF Zero \in {a, b} THEN Zero ELSE Pow(LogTab[a] + ORDER - LogTab[b])
MulPow(a, e) == IF a = Zero THEN Zero ELSE Pow(LogTab[a] + e)

\* What the constants must satisfy; an instance assumes it: the modulus is primitive,
\* so that the powers of alpha are the symbols other than 0, each once, and the one
\* after them is 1 again.
FieldAssumption ==
  /\ Bits \in Nat \ {0} /\ Poly \subseteq 0 .. Bits - 1
  /\ \A a \in Symbols \ {Zero} : \E i \in 0 .. ORDER - 1 : ExpTab[i] = a
  /\ \A i, j \in 0 .. ORDER - 1 : ExpTab[i] = ExpTab[j] => i = j
  /\ TimesAlpha[ExpTab[ORDER - 1]] = {0}

\* The sum of F(i) over i in S.
Sum(S, F(_)) == {b \in 0 .. Bits - 1 : Cardinality({i \in S : b \in F(i)}) % 2 = 1}

------------------------------------------------------------------------------
(* Polynomials.                                                            *)

\* The sequence of n coefficients whose i-th, from 0, is F(i); SubSeq has TLC
\* evaluate each once.
Coefficients(n, F(_)) == SubSeq([i \in 1 .. n |-> F(i - 1)], 1, n)

Degree(p) == Len(p) - 1
Coef(p, i) == IF i \in 0 .. Degree(p) THEN p[i + 1] ELSE Zero
One == <<{0}>>

\* poly_mul: terms in x^limit and above are dropped.
PolyMul(a, b, limit) ==
  Coefficients(limit, LAMBDA k : Sum(0 .. k, LAMBDA i : Mul(Coef(a, i), Coef(b, k - i))))

\* poly_eval and poly_deriv_eval, at alpha^e.
PolyEval(p, e) == Sum(0 .. Degree(p), LAMBDA d : MulPow(Coef(p, d), d * e))
PolyDerivEval(p, e) ==
  Sum({d \in 1 .. Degree(p) : d % 2 = 1}, LAMBDA d : MulPow(Coef(p, d), (d - 1) * e))

------------------------------------------------------------------------------
(* berlekamp_massey: the shortest recurrence that generates the syndromes. *)

\* The connection polynomial and its predecessor are shifted by m at each update.
Annulled(acc, q, n) ==
  Coefficients(n + 1, LAMBDA i : SymDiff(Coef(acc.c, i), Mul(q, Coef(acc.prev, i - acc.m))))

Longer(L, r) == 2 * L <= r

Recur(syn, acc, r) ==
  LET d == Sum(0 .. acc.L, LAMBDA i : Mul(Coef(acc.c, i), Coef(syn, r - i)))
      c == Annulled(acc, Div(d, acc.b), Len(syn))
  IN  IF d = Zero THEN [acc EXCEPT !.m = @ + 1]
      ELSE IF Longer(acc.L, r)
           THEN [acc EXCEPT !.c = c, !.prev = acc.c, !.b = d, !.m = 1, !.L = r + 1 - @]
           ELSE [acc EXCEPT !.c = c, !.m = @ + 1]

\* Its length and its connection polynomial.
BerlekampMassey(syn) ==
  LET end == FoldLeft(LAMBDA acc, r : Recur(syn, acc, r),
                      [c |-> One, prev |-> One, b |-> {0}, L |-> 0, m |-> 1],
                      Coefficients(Len(syn), LAMBDA r : r))
  IN  [length |-> end.L, locator |-> Coefficients(end.L + 1, LAMBDA i : Coef(end.c, i))]

------------------------------------------------------------------------------
(* adsc_rs16_decode.                                                       *)

\* adsc_rs16_syndromes, of the n symbols V(0), V(1), ...
Syndromes(n, npar, V(_)) ==
  Coefficients(npar, LAMBDA r : Sum(0 .. n - 1, LAMBDA j : MulPow(V(j), r * (n - 1 - j))))

Clean(E) == \A i \in DOMAIN E : E[i] = Zero

\* Gamma, the product of (1 + X_i x) over the erasures, which are a set here: the
\* caller's list has no duplicate.
ErasureLocator(n, erasures) ==
  FoldSet(LAMBDA j, g : PolyMul(g, <<{0}, Pow(n - 1 - j)>>, Len(g) + 1), One, erasures)

\* The Chien search: the locators in the column.
Roots(lambda, n) == {k \in 0 .. n - 1 : PolyEval(lambda, ORDER - k) = Zero}

\* Forney, with the factor X that the first root alpha^0 brings.
Magnitude(lambda, omega, k) ==
  MulPow(Div(PolyEval(omega, ORDER - k), PolyDerivEval(lambda, ORDER - k)), k)

\* The answer is the corrected rows with their masks, or a refusal.
NotFound == [ok |-> FALSE, errata |-> << >>]

FitsCapacity(length, e, npar) == 2 * length + e <= npar

\* The last three gates and the output: as many roots as the degree, no repeated
\* one, and the errata reproduce the syndromes.
Errata(npar, E, n, lambda) ==
  LET omega == PolyMul(lambda, E, npar)
      roots == Roots(lambda, n)
      mags  == [k \in roots |-> Magnitude(lambda, omega, k)]
  IN  IF \/ Cardinality(roots) # Degree(lambda)
         \/ \E k \in roots : PolyDerivEval(lambda, ORDER - k) = Zero
         \/ \E r \in 0 .. npar - 1 : Sum(roots, LAMBDA k : MulPow(mags[k], r * k)) # Coef(E, r)
      THEN NotFound
      ELSE [ok |-> TRUE,
            errata |-> [p \in {n - 1 - k : k \in {k \in roots : mags[k] # Zero}} |-> mags[n - 1 - p]]]

Decode(npar, E, n, erasures) ==
  LET e        == Cardinality(erasures)
      gamma    == ErasureLocator(n, erasures)
      bm       == BerlekampMassey(SubSeq(PolyMul(gamma, E, npar), e + 1, npar))
      lambda   == PolyMul(bm.locator, gamma, bm.length + e + 1)
  IN  IF e > npar THEN NotFound
      ELSE IF ~FitsCapacity(bm.length, e, npar) THEN NotFound
      ELSE IF bm.length + e = 0 \/ Coef(lambda, bm.length + e) = Zero THEN NotFound
      ELSE Errata(npar, E, n, lambda)
=============================================================================
