---------------------------- MODULE MCDisc_proofs ----------------------------
(***************************************************************************)
(* Proofs about MCDisc.  Of Repair, that what a repair writes agrees with  *)
(* all of the parity, whatever the field, the image, the damage and the    *)
(* request: the decoder's last gate (the errata reproduce the syndromes)   *)
(* is enough, because Horner's sweep is the sum the syndromes are, and     *)
(* that sum is linear in the words.  Of ReadRange, whose own proofs are   *)
(* of any discs, that they hold of the instance here.                      *)
(***************************************************************************)
EXTENDS MCDisc, FiniteSetTheorems, WellFoundedInduction, TLAPS

------------------------------------------------------------------------------
(* Recursion and least elements.                                               *)

\* The order the library's well-founded induction is about.
LEMMA LessThan == \A k, m \in Nat : k < m => <<k, m>> \in OpToRel(<, Nat)
  BY DEF OpToRel

\* A set of natural numbers has a least.
LEMMA LeastNatural ==
  ASSUME NEW I \in SUBSET Nat, I # {}
  PROVE  \E m \in I : \A k \in I : m <= k
<1>1. PICK m \in I : \A k \in I : ~ (<<k, m>> \in OpToRel(<, Nat))
  BY NatLessThanWellFounded, WFMin
<1>2. \A k \in I : ~ (k < m)
  BY <1>1, LessThan
<1>  QED
  BY <1>2

\* What a recursion over 0 .. n yields, one step t at a time.
Recursion(g, z, t, n) == g = [j \in 0 .. n |-> IF j = 0 THEN z ELSE t[<<j, g[j - 1]>>]]

\* A recursion over 0 .. n has a solution, for every n.
LEMMA RecursionExists ==
  ASSUME NEW z, NEW t, NEW n \in Nat
  PROVE  \E g : Recursion(g, z, t, n)
<1>  DEFINE D == {k \in Nat : ~ \E g : Recursion(g, z, t, k)}
<1>1. SUFFICES ASSUME D # {} PROVE FALSE
  OBVIOUS
<1>2. PICK m \in D : \A k \in D : m <= k
  BY <1>1, LeastNatural
<1>3. m # 0
  <2>1. Recursion([k \in 0 .. 0 |-> z], z, t, 0)
    BY DEF Recursion
  <2>  QED
    BY <1>2, <2>1
<1>4. PICK g : Recursion(g, z, t, m - 1)
  BY <1>2, <1>3
<1>  DEFINE h == [k \in 0 .. m |-> IF k = m THEN t[<<m, g[m - 1]>>] ELSE g[k]]
<1>5. Recursion(h, z, t, m)
  <2>  DEFINE e(k) == IF k = 0 THEN z ELSE t[<<k, h[k - 1]>>]
  <2>1. ASSUME NEW k \in 0 .. m PROVE h[k] = e(k)
    <3>1. CASE k = m
      BY <1>3, <3>1
    <3>2. CASE k # m
      <4>1. k \in 0 .. m - 1 /\ h[k] = g[k]
        BY <3>2
      <4>2. g[k] = IF k = 0 THEN z ELSE t[<<k, g[k - 1]>>]
        BY <1>4, <4>1 DEF Recursion
      <4>3. k # 0 => h[k - 1] = g[k - 1]
        BY <4>1
      <4>  QED
        BY <4>1, <4>2, <4>3
    <3>  QED
      BY <3>1, <3>2
  <2>2. h = [k \in 0 .. m |-> e(k)]
    BY <2>1
  <2>  QED
    BY <2>2 DEF Recursion
<1>  QED
  BY <1>2, <1>5

\* Its values are in V, if each step from V stays there.
LEMMA RecursionIn ==
  ASSUME NEW V, NEW n \in Nat, NEW f, f[0] \in V,
         \A j \in 0 .. n : j # 0 /\ f[j - 1] \in V => f[j] \in V
  PROVE  \A j \in 0 .. n : f[j] \in V
<1>  DEFINE D == {k \in 0 .. n : f[k] \notin V}
<1>1. SUFFICES ASSUME D # {} PROVE FALSE
  OBVIOUS
<1>2. PICK m \in D : \A k \in D : m <= k
  <2>1. D \in SUBSET Nat
    OBVIOUS
  <2>  HIDE DEF D
  <2>  QED
    BY <1>1, <2>1, LeastNatural
<1>3. m # 0
  BY <1>2
<1>4. m - 1 \in 0 .. n /\ f[m - 1] \in V
  BY <1>2, <1>3
<1>  QED
  BY <1>2, <1>3, <1>4

\* A function that is defined by such a recursion, by steps within V.
Recursive(g, V, z, t, n) ==
  /\ g \in [0 .. n -> V] /\ g[0] = z
  /\ \A j \in 0 .. n : j # 0 => g[j] = t[<<j, g[j - 1]>>]

\* There is one, for steps within V.
LEMMA RecursionDefines ==
  ASSUME NEW V, NEW z \in V, NEW n \in Nat, NEW t \in [Nat \X V -> V]
  PROVE  \E g : Recursive(g, V, z, t, n)
<1>1. PICK g : Recursion(g, z, t, n)
  BY RecursionExists
<1>2. g[0] = z /\ \A j \in 0 .. n : j # 0 => g[j] = t[<<j, g[j - 1]>>]
  <2>1. \A j \in 0 .. n : g[j] = IF j = 0 THEN z ELSE t[<<j, g[j - 1]>>]
    BY <1>1, Zenon DEF Recursion
  <2>2. 0 \in 0 .. n
    OBVIOUS
  <2>3. g[0] = z
    BY <2>1, <2>2, Zenon
  <2>4. \A j \in 0 .. n : j # 0 => g[j] = t[<<j, g[j - 1]>>]
    BY <2>1, Zenon
  <2>  QED
    BY <2>3, <2>4
<1>3. \A j \in 0 .. n : g[j] \in V
  <2>1. ASSUME NEW j \in 0 .. n, j # 0, g[j - 1] \in V PROVE g[j] \in V
    <3>1. <<j, g[j - 1]>> \in Nat \X V
      BY <2>1
    <3>2. t[<<j, g[j - 1]>>] \in V
      BY <3>1, Zenon
    <3>  QED
      BY <1>2, <2>1, <3>2, Zenon
  <2>  QED
    BY <1>2, <2>1, RecursionIn
<1>4. DOMAIN g = 0 .. n /\ g = [j \in 0 .. n |-> g[j]]
  BY <1>1 DEF Recursion
<1>5. g \in [0 .. n -> V]
  BY <1>3, <1>4
<1>  QED
  BY <1>2, <1>5 DEF Recursive

------------------------------------------------------------------------------
(* Sums of sets of bits.                                                   *)

\* Symbols form a group under the symmetric difference, and each is its own inverse.
LEMMA XorSymbols ==
  ASSUME NEW a \in Symbols, NEW b \in Symbols
  PROVE  /\ SymDiff(a, b) \in Symbols /\ SymDiff(a, b) = SymDiff(b, a)
         /\ SymDiff(a, Zero) = a /\ SymDiff(Zero, a) = a /\ SymDiff(a, a) = Zero
         /\ SymDiff(a, SymDiff(a, b)) = b
         /\ \A c \in Symbols : SymDiff(SymDiff(a, b), c) = SymDiff(a, SymDiff(b, c))
  BY DEF SymDiff, Symbols, Zero

\* Times alpha is linear.
LEMMA TimesAlphaLinear ==
  ASSUME FieldAssumption, NEW a \in Symbols, NEW b \in Symbols
  PROVE  /\ TimesAlpha[a] \in Symbols /\ TimesAlpha[Zero] = Zero
         /\ TimesAlpha[SymDiff(a, b)] = SymDiff(TimesAlpha[a], TimesAlpha[b])
<1>1. Bits \in Nat \ {0} /\ Poly \subseteq 0 .. Bits - 1
  BY DEF FieldAssumption
<1>  DEFINE shift(x) == {k + 1 : k \in x \ {Bits - 1}}
            fold(x) == IF Bits - 1 \in x THEN Poly ELSE {}
<1>2. \A x \in Symbols : TimesAlpha[x] = SymDiff(shift(x), fold(x))
  BY DEF TimesAlpha
<1>3. \A x \in Symbols : shift(x) \in Symbols /\ fold(x) \in Symbols
  BY <1>1 DEF Symbols
<1>4. SymDiff(a, b) \in Symbols /\ Zero \in Symbols
  BY XorSymbols DEF Symbols, Zero
<1>5. shift(SymDiff(a, b)) = SymDiff(shift(a), shift(b))
  <2>1. \A x \in Symbols : \A k : k \in shift(x) <=> k \in Int /\ k # Bits /\ k - 1 \in x
    BY <1>1 DEF Symbols
  <2>2. \A k : k \in shift(SymDiff(a, b)) <=> k \in SymDiff(shift(a), shift(b))
    <3>  HIDE DEF shift
    <3>  QED
      BY <1>4, <2>1, Zenon DEF SymDiff
  <2>  QED
    BY <2>2
<1>6. fold(SymDiff(a, b)) = SymDiff(fold(a), fold(b))
  BY DEF SymDiff
<1>7. shift(Zero) = {} /\ fold(Zero) = {}
  BY DEF Zero
<1>  HIDE DEF shift, fold
<1>8. TimesAlpha[a] \in Symbols /\ TimesAlpha[Zero] = Zero
  <2>1. TimesAlpha[a] = SymDiff(shift(a), fold(a)) /\ shift(a) \in Symbols /\ fold(a) \in Symbols
    BY <1>2, <1>3
  <2>2. TimesAlpha[a] \in Symbols
    BY <2>1, XorSymbols
  <2>3. TimesAlpha[Zero] = SymDiff({}, {})
    BY <1>2, <1>4, <1>7
  <2>  QED
    BY <2>2, <2>3 DEF SymDiff, Zero
<1>9. TimesAlpha[SymDiff(a, b)] = SymDiff(SymDiff(shift(a), shift(b)), SymDiff(fold(a), fold(b)))
  BY <1>2, <1>4, <1>5, <1>6
<1>11. TimesAlpha[a] = SymDiff(shift(a), fold(a)) /\ TimesAlpha[b] = SymDiff(shift(b), fold(b))
  BY <1>2
<1>10. \A p, q, r, s : SymDiff(SymDiff(p, q), SymDiff(r, s)) = SymDiff(SymDiff(p, r), SymDiff(q, s))
  BY DEF SymDiff
<1>  QED
  <2>1. SymDiff(TimesAlpha[a], TimesAlpha[b]) = SymDiff(SymDiff(shift(a), fold(a)), SymDiff(shift(b), fold(b)))
    BY <1>11
  <2>2. SymDiff(SymDiff(shift(a), shift(b)), SymDiff(fold(a), fold(b)))
        = SymDiff(SymDiff(shift(a), fold(a)), SymDiff(shift(b), fold(b)))
    BY <1>10
  <2>  QED
    BY <1>8, <1>9, <2>1, <2>2, Zenon

\* The table of powers starts at 1 and goes on by times alpha, round and round.
LEMMA ExpTabSteps ==
  ASSUME FieldAssumption, ORDER \in Nat \ {0}
  PROVE  /\ ExpTab \in [0 .. ORDER - 1 -> Symbols] /\ ExpTab[0] = {0}
         /\ \A i \in 0 .. ORDER - 1 : i # 0 => ExpTab[i] = TimesAlpha[ExpTab[i - 1]]
<1>  DEFINE n == ORDER - 1
            t == [x \in Nat \X Symbols |-> TimesAlpha[x[2]]]
<1>1. {0} \in Symbols /\ \A a \in Symbols : TimesAlpha[a] \in Symbols
  <2>1. {0} \in Symbols
    BY DEF Symbols, FieldAssumption
  <2>  QED
    BY <2>1, TimesAlphaLinear
<1>2. t \in [Nat \X Symbols -> Symbols]
  BY <1>1
<1>3. n \in Nat
  OBVIOUS
<1>4. PICK g : Recursive(g, Symbols, {0}, t, n)
  <2>  HIDE DEF t, n
  <2>  QED
    BY <1>1, <1>2, <1>3, RecursionDefines
<1>10. /\ g \in [0 .. n -> Symbols] /\ g[0] = {0}
       /\ \A j \in 0 .. n : j # 0 => g[j] = t[<<j, g[j - 1]>>]
  <2>  HIDE DEF t, n
  <2>  QED
    BY <1>4, Zenon DEF Recursive
<1>5. g = [i \in 0 .. ORDER - 1 |-> IF i = 0 THEN {0} ELSE TimesAlpha[g[i - 1]]]
  <2>1. ASSUME NEW i \in 0 .. n PROVE g[i] = IF i = 0 THEN {0} ELSE TimesAlpha[g[i - 1]]
    <3>1. CASE i = 0
      BY <1>10, <3>1
    <3>2. CASE i # 0
      <4>1. i \in Nat /\ i - 1 \in 0 .. n
        BY <3>2
      <4>2. g[i - 1] \in Symbols /\ g[i] = t[<<i, g[i - 1]>>]
        BY <1>10, <3>2, <4>1
      <4>  QED
        BY <3>2, <4>1, <4>2
    <3>  QED
      BY <3>1, <3>2
  <2>2. g = [i \in 0 .. n |-> g[i]]
    BY <1>10
  <2>  QED
    BY <2>1, <2>2
<1>6. ExpTab = [i \in 0 .. ORDER - 1 |-> IF i = 0 THEN {0} ELSE TimesAlpha[ExpTab[i - 1]]]
  BY <1>5, Zenon DEF ExpTab
<1>7. \A i \in 0 .. n : ExpTab[i] = IF i = 0 THEN {0} ELSE TimesAlpha[ExpTab[i - 1]]
  BY <1>6, Zenon
<1>8. ExpTab[0] = {0} /\ \A i \in 0 .. n : i # 0 => ExpTab[i] = TimesAlpha[ExpTab[i - 1]]
  BY <1>3, <1>7
<1>9. \A i \in 0 .. n : ExpTab[i] \in Symbols
  <2>1. \A i \in 0 .. n : i # 0 /\ ExpTab[i - 1] \in Symbols => ExpTab[i] \in Symbols
    BY <1>1, <1>8
  <2>  HIDE DEF n
  <2>  QED
    BY <1>1, <1>3, <1>8, <2>1, RecursionIn, ZenonT(40)
<1>  QED
  BY <1>6, <1>8, <1>9

\* ... and the powers are as many as the symbols other than 0.
LEMMA OrderIsPositive ==
  ASSUME FieldAssumption
  PROVE  ORDER \in Nat \ {0}
<1>1. Bits \in Nat \ {0}
  BY DEF FieldAssumption
<1>  DEFINE B == 0 .. Bits - 1
<1>2. IsFiniteSet(B) /\ Cardinality(B) = Bits
  BY <1>1, FS_Interval
<1>3. IsFiniteSet(SUBSET B) /\ Cardinality(SUBSET B) = 2 ^ Bits
  BY <1>2, FS_SUBSET
<1>4. Cardinality(SUBSET B) \in Nat
  BY <1>3, FS_CardinalityType
<1>5. Cardinality(SUBSET B) # 0 /\ Cardinality(SUBSET B) # 1
  <2>1. {} \in SUBSET B /\ {0} \in SUBSET B /\ {} # {0}
    BY <1>1
  <2>2. Cardinality(SUBSET B) # 0
    BY <1>3, <2>1, FS_EmptySet
  <2>3. Cardinality(SUBSET B) # 1
    <3>1. SUFFICES ASSUME Cardinality(SUBSET B) = 1 PROVE FALSE
      OBVIOUS
    <3>  DEFINE P == SUBSET B
    <3>2. PICK x : P = {x}
      <4>  HIDE DEF P
      <4>1. IsFiniteSet(P) /\ Cardinality(P) = 1
        BY <1>3, <3>1 DEF P
      <4>  QED
        BY <4>1, FS_Singleton
    <3>3. {} = x /\ {0} = x
      <4>1. {} \in P /\ {0} \in P
        BY <2>1
      <4>  HIDE DEF P
      <4>  QED
        BY <3>2, <4>1
    <3>  QED
      BY <3>3
  <2>  QED
    BY <2>2, <2>3
<1>  DEFINE k == Cardinality(SUBSET B)
<1>6. ORDER = k - 1
  BY <1>3 DEF ORDER
<1>7. k \in Nat /\ k # 0 /\ k # 1
  BY <1>4, <1>5
<1>  HIDE DEF k
<1>  QED
  BY <1>6, <1>7

\* A power is a symbol other than 0, and a symbol other than 0 is the power of its log.
LEMMA PowLog ==
  ASSUME FieldAssumption
  PROVE  /\ \A e \in Nat : Pow(e) \in Symbols \ {Zero} /\ LogTab[Pow(e)] = e % ORDER
         /\ \A a \in Symbols \ {Zero} : LogTab[a] \in 0 .. ORDER - 1 /\ Pow(LogTab[a]) = a
<1>1. ORDER \in Nat \ {0}
  BY OrderIsPositive
<1>2. /\ \A a \in Symbols \ {Zero} : \E i \in 0 .. ORDER - 1 : ExpTab[i] = a
      /\ \A i, j \in 0 .. ORDER - 1 : ExpTab[i] = ExpTab[j] => i = j
  BY DEF FieldAssumption
<1>3. \A a \in Symbols \ {Zero} : LogTab[a] \in 0 .. ORDER - 1 /\ ExpTab[LogTab[a]] = a
  <2>1. ASSUME NEW a \in Symbols \ {Zero} PROVE LogTab[a] \in 0 .. ORDER - 1 /\ ExpTab[LogTab[a]] = a
    <3>1. LogTab[a] = CHOOSE i \in 0 .. ORDER - 1 : ExpTab[i] = a
      BY <2>1 DEF LogTab
    <3>  QED
      BY <1>2, <2>1, <3>1
  <2>  QED
    BY <2>1
<1>4. \A e \in Nat : e % ORDER \in 0 .. ORDER - 1
  BY <1>1
<1>5. \A e \in 0 .. ORDER - 1 : e % ORDER = e
  BY <1>1
<1>6. \A i \in 0 .. ORDER - 1 : ExpTab[i] \in Symbols
  BY <1>1, ExpTabSteps
<1>7. \A i \in 0 .. ORDER - 1 : ExpTab[i] # Zero
  <2>1. SUFFICES ASSUME NEW m \in 0 .. ORDER - 1, ExpTab[m] = Zero PROVE FALSE
    OBVIOUS
  <2>  DEFINE D == {k \in m .. ORDER - 1 : ExpTab[k] # Zero}
  <2>2. ExpTab[ORDER - 1] # Zero
    <3>1. {0} # Zero /\ TimesAlpha[Zero] = Zero
      <4>1. Zero \in Symbols
        BY DEF Zero, Symbols
      <4>  QED
        BY <4>1, TimesAlphaLinear DEF Zero
    <3>  QED
      BY <3>1 DEF FieldAssumption
  <2>3. ORDER - 1 \in D /\ D \in SUBSET Nat
    BY <1>1, <2>1, <2>2
  <2>4. PICK k \in D : \A j \in D : k <= j
    <3>  HIDE DEF D
    <3>  QED
      BY <2>3, LeastNatural
  <2>5. k # m /\ k - 1 \in m .. ORDER - 1 /\ k \in 0 .. ORDER - 1 /\ k # 0
    BY <1>1, <2>1, <2>4
  <2>6. ExpTab[k - 1] = Zero
    BY <2>4, <2>5
  <2>7. ExpTab[k] = TimesAlpha[Zero]
    BY <1>1, <2>5, <2>6, ExpTabSteps
  <2>8. TimesAlpha[Zero] = Zero
    <3>1. Zero \in Symbols
      BY DEF Zero, Symbols
    <3>  QED
      BY <3>1, TimesAlphaLinear
  <2>  QED
    BY <2>4, <2>7, <2>8
<1>8. \A e \in Nat : Pow(e) \in Symbols \ {Zero}
  BY <1>4, <1>6, <1>7 DEF Pow
<1>9. \A e \in Nat : LogTab[Pow(e)] = e % ORDER
  <2>1. ASSUME NEW e \in Nat PROVE LogTab[Pow(e)] = e % ORDER
    <3>1. LogTab[Pow(e)] \in 0 .. ORDER - 1 /\ ExpTab[LogTab[Pow(e)]] = Pow(e)
      BY <1>3, <1>8
    <3>2. e % ORDER \in 0 .. ORDER - 1 /\ ExpTab[e % ORDER] = Pow(e)
      BY <1>4 DEF Pow
    <3>  QED
      BY <1>2, <3>1, <3>2
  <2>  QED
    BY <2>1
<1>10. \A a \in Symbols \ {Zero} : Pow(LogTab[a]) = a
  BY <1>3, <1>5 DEF Pow
<1>  QED
  BY <1>3, <1>8, <1>9, <1>10

\* The remainder goes round.
LEMMA ModStep ==
  ASSUME NEW n \in Nat, NEW m \in Nat \ {0}
  PROVE  (n + 1) % m = IF n % m = m - 1 THEN 0 ELSE (n % m) + 1
<1>  DEFINE q == n \div m
            r == n % m
            u == (n + 1) \div m
            s == (n + 1) % m
<1>1. q \in Int /\ r \in 0 .. m - 1 /\ n = m * q + r
  OBVIOUS
<1>2. u \in Int /\ s \in 0 .. m - 1 /\ n + 1 = m * u + s
  OBVIOUS
<1>  HIDE DEF q, r, u, s
<1>3. m * (u - q) = r + 1 - s
  BY <1>1, <1>2
<1>4. \A d \in Int, a \in Int, k \in Nat \ {0} : k * d = a /\ a < 2 * k /\ a > -k => (d = 0 /\ a = 0) \/ (d = 1 /\ a = k)
  <2> TAKE d \in Int, a \in Int, k \in Nat \ {0}
  <2> HAVE k * d = a /\ a < 2 * k /\ a > -k
  <2>1. CASE d >= 2
   BY <2>1
  <2>2. CASE d <= -1
   BY <2>2
  <2>3. CASE d = 0
   BY <2>3
  <2>4. CASE d = 1
   BY <2>4
  <2> QED BY <2>1, <2>2, <2>3, <2>4
<1>5. CASE u - q = 0 /\ r + 1 - s = 0
  BY <1>1, <1>2, <1>5 DEF r, s
<1>6. CASE u - q = 1 /\ r + 1 - s = m
  BY <1>1, <1>2, <1>6 DEF r, s
<1> QED BY <1>1, <1>2, <1>3, <1>4, <1>5, <1>6

\* To multiply by a power is to multiply by alpha that many times.
LEMMA MulPowSteps ==
  ASSUME FieldAssumption, NEW a \in Symbols
  PROVE  /\ MulPow(a, 0) = a
         /\ \A e \in Nat : /\ MulPow(a, e) \in Symbols
                           /\ MulPow(a, e + 1) = TimesAlpha[MulPow(a, e)]
<1>1. ORDER \in Nat \ {0}
  BY OrderIsPositive
<1>2. CASE a = Zero
  <2>1. \A e \in Nat : MulPow(a, e) = Zero
    BY <1>2 DEF MulPow
  <2>  QED
    BY <1>2, <2>1, TimesAlphaLinear
<1>3. CASE a # Zero
  <2>  DEFINE l == LogTab[a]
  <2>1. l \in 0 .. ORDER - 1 /\ Pow(l) = a
    BY <1>3, PowLog
  <2>2. \A e \in Nat : MulPow(a, e) = Pow(l + e) /\ l + e \in Nat
    BY <1>1, <1>3, <2>1 DEF MulPow
  <2>3. \A n \in Nat : Pow(n + 1) = TimesAlpha[Pow(n)]
    <3>1. ASSUME NEW n \in Nat PROVE Pow(n + 1) = TimesAlpha[Pow(n)]
      <4>  DEFINE i == n % ORDER
      <4>1. i \in 0 .. ORDER - 1
        BY <1>1
      <4>2. CASE i = ORDER - 1
        <5>1. (n + 1) % ORDER = 0
          BY <1>1, <4>2, ModStep
        <5>2. Pow(n + 1) = {0}
          BY <1>1, <5>1, ExpTabSteps DEF Pow
        <5>3. Pow(n) = ExpTab[ORDER - 1]
          BY <4>2 DEF Pow
        <5>  QED
          BY <5>2, <5>3 DEF FieldAssumption
      <4>3. CASE i # ORDER - 1
        <5>1. (n + 1) % ORDER = i + 1
          BY <1>1, <4>3, ModStep
        <5>2. Pow(n + 1) = ExpTab[i + 1] /\ Pow(n) = ExpTab[i]
          BY <5>1 DEF Pow
        <5>3. i + 1 \in 0 .. ORDER - 1 /\ i + 1 # 0 /\ (i + 1) - 1 = i
          BY <1>1, <4>1, <4>3
        <5>  HIDE DEF i
        <5>4. ExpTab[i + 1] = TimesAlpha[ExpTab[(i + 1) - 1]]
          BY <1>1, <5>3, ExpTabSteps
        <5>  QED
          BY <5>2, <5>3, <5>4
      <4>  QED
        BY <4>2, <4>3
    <3>  QED
      BY <3>1
  <2>  HIDE DEF l
  <2>4. \A e \in Nat : MulPow(a, e + 1) = Pow((l + e) + 1)
    <3>1. ASSUME NEW e \in Nat PROVE MulPow(a, e + 1) = Pow((l + e) + 1)
      <4>1. e + 1 \in Nat /\ l + (e + 1) = (l + e) + 1
        BY <1>1, <2>1
      <4>  QED
        BY <2>2, <4>1
    <3>  QED
      BY <3>1
  <2>5. \A e \in Nat : MulPow(a, e) \in Symbols /\ MulPow(a, e + 1) = TimesAlpha[MulPow(a, e)]
    BY <2>2, <2>3, <2>4, PowLog
  <2>6. MulPow(a, 0) = Pow(l + 0) /\ l + 0 = l
    BY <1>1, <2>1, <2>2
  <2>  QED
    BY <2>1, <2>5, <2>6
<1>  QED
  BY <1>2, <1>3

\* To multiply by a power is linear, and powers add.
LEMMA MulPowLinear ==
  ASSUME FieldAssumption, NEW a \in Symbols, NEW b \in Symbols, NEW n \in Nat
  PROVE  MulPow(SymDiff(a, b), n) = SymDiff(MulPow(a, n), MulPow(b, n))
<1>  DEFINE c == SymDiff(a, b)
            V == {e \in Nat : MulPow(c, e) = SymDiff(MulPow(a, e), MulPow(b, e))}
            D == Nat \ V
<1>1. c \in Symbols
  BY XorSymbols
<1>  HIDE DEF c
<1>2. SUFFICES ASSUME D # {} PROVE FALSE
  BY DEF c
<1>3. PICK m \in D : \A k \in D : m <= k
  BY <1>2, LeastNatural
<1>4. m # 0
  BY <1>1, <1>3, MulPowSteps DEF c
<1>5. m - 1 \in Nat /\ (m - 1) + 1 = m /\ m - 1 \in V
  BY <1>3, <1>4
<1>  DEFINE e == m - 1
<1>6. /\ e \in Nat /\ MulPow(c, e) = SymDiff(MulPow(a, e), MulPow(b, e))
      /\ MulPow(c, m) = TimesAlpha[MulPow(c, e)]
      /\ MulPow(a, m) = TimesAlpha[MulPow(a, e)] /\ MulPow(a, e) \in Symbols
      /\ MulPow(b, m) = TimesAlpha[MulPow(b, e)] /\ MulPow(b, e) \in Symbols
  <2>1. e \in Nat /\ e + 1 = m /\ e \in V
    BY <1>5
  <2>  HIDE DEF e
  <2>  QED
    BY <1>1, <2>1, MulPowSteps
<1>  HIDE DEF e
<1>7. MulPow(c, m) = SymDiff(MulPow(a, m), MulPow(b, m))
  BY <1>6, TimesAlphaLinear
<1>  QED
  BY <1>3, <1>7

\* A power of a power.
LEMMA MulPowAdds ==
  ASSUME FieldAssumption, NEW a \in Symbols, NEW x \in Nat, NEW n \in Nat
  PROVE  MulPow(MulPow(a, x), n) = MulPow(a, x + n)
<1>  DEFINE c == MulPow(a, x)
            V == {e \in Nat : MulPow(c, e) = MulPow(a, x + e)}
            D == Nat \ V
<1>1. c \in Symbols
  BY MulPowSteps
<1>2. SUFFICES ASSUME D # {} PROVE FALSE
  OBVIOUS
<1>  HIDE DEF c
<1>3. PICK m \in D : \A k \in D : m <= k
  BY <1>2, LeastNatural
<1>4. m # 0
  <2>1. MulPow(c, 0) = MulPow(a, x + 0)
    <3>1. x + 0 = x
      OBVIOUS
    <3>  QED
      BY <1>1, <3>1, MulPowSteps DEF c
  <2>  QED
    BY <1>3, <2>1
<1>5. m - 1 \in Nat /\ (m - 1) + 1 = m /\ m - 1 \in V
  BY <1>3, <1>4
<1>  DEFINE e == m - 1
<1>6. MulPow(c, m) = MulPow(a, x + m)
  <2>1. e \in Nat /\ e + 1 = m /\ e \in V /\ x + e \in Nat /\ (x + e) + 1 = x + m
    BY <1>5
  <2>  HIDE DEF e
  <2>2. MulPow(c, e + 1) = TimesAlpha[MulPow(c, e)]
    BY <1>1, <2>1, MulPowSteps
  <2>3. MulPow(a, (x + e) + 1) = TimesAlpha[MulPow(a, x + e)]
    BY <2>1, MulPowSteps
  <2>4. MulPow(c, e) = MulPow(a, x + e)
    BY <2>1
  <2>  QED
    BY <2>1, <2>2, <2>3, <2>4
<1>  QED
  BY <1>3, <1>6

\* The sum of f[i] over i in R.
XorOf(R, f) == {b \in 0 .. Bits - 1 : Cardinality({i \in R : b \in f[i]}) % 2 = 1}

\* The parity of a symmetric difference.
LEMMA ParityOfDifference ==
  ASSUME NEW A, NEW B, IsFiniteSet(A), IsFiniteSet(B)
  PROVE  Cardinality(SymDiff(A, B)) % 2 = 1 <=> (Cardinality(A) % 2 = 1) # (Cardinality(B) % 2 = 1)
<1>  DEFINE X == A \ B
            Y == B \ A
            Z == A \cap B
            a == Cardinality(A)
            b == Cardinality(B)
            x == Cardinality(X)
            y == Cardinality(Y)
            z == Cardinality(Z)
            u == Cardinality(SymDiff(A, B))
<1>1. IsFiniteSet(X) /\ x = a - z
  BY FS_Difference
<1>2. IsFiniteSet(Y) /\ y = b - z
  <2>1. IsFiniteSet(Y) /\ y = b - Cardinality(B \cap A)
    BY FS_Difference
  <2>2. B \cap A = Z
    OBVIOUS
  <2>  QED
    BY <2>1, <2>2
<1>3. IsFiniteSet(Z)
  BY FS_Intersection
<1>4. u = x + y
  <2>1. Cardinality(X \cup Y) = x + y - Cardinality(X \cap Y)
    <3>  HIDE DEF X, Y
    <3>  QED
      BY <1>1, <1>2, FS_Union
  <2>2. X \cap Y = {} /\ SymDiff(A, B) = X \cup Y
    BY DEF SymDiff
  <2>3. Cardinality(X \cap Y) = 0
    BY <2>2, FS_EmptySet
  <2>4. x \in Nat /\ y \in Nat
    BY <1>1, <1>2, FS_CardinalityType
  <2>5. u = Cardinality(X \cup Y)
    BY <2>2
  <2>  HIDE DEF X, Y, x, y, u
  <2>  QED
    BY <2>1, <2>3, <2>4, <2>5
<1>5. a \in Nat /\ b \in Nat /\ z \in Nat
  BY <1>3, FS_CardinalityType
<1>  HIDE DEF X, Y, Z, a, b, x, y, z, u
<1>6. u = a + b - 2 * z /\ a + b - 2 * z >= 0
  <2>1. x >= 0 /\ y >= 0
    BY <1>1, <1>2, FS_CardinalityType DEF x, y
  <2>  QED
    BY <1>1, <1>2, <1>4, <1>5, <2>1
<1>7. u % 2 = 1 <=> (a % 2 = 1) # (b % 2 = 1)
  BY <1>5, <1>6
<1>  QED
  BY <1>7 DEF a, b, u

\* A sum of nothing, one more term, and the sum of two sums.
LEMMA XorOfNone == \A f : XorOf({}, f) = Zero
<1>  TAKE f
<1>1. \A b : {i \in {} : b \in f[i]} = {}
  OBVIOUS
<1>  QED
  BY <1>1, FS_EmptySet DEF XorOf, Zero

\* A sum is a symbol.
LEMMA XorOfIn == \A R, f : XorOf(R, f) \in Symbols
  BY DEF XorOf, Symbols

\* One more term.
LEMMA XorOfMore ==
  ASSUME NEW R, IsFiniteSet(R), NEW x, x \notin R, NEW f, f[x] \in Symbols
  PROVE  XorOf(R \cup {x}, f) = SymDiff(XorOf(R, f), f[x])
<1>  DEFINE set(b) == {i \in R : b \in f[i]}
            more(b) == {i \in R \cup {x} : b \in f[i]}
<1>1. \A b : IsFiniteSet(set(b)) /\ Cardinality(set(b)) \in Nat
  <2>1. \A b : set(b) \in SUBSET R
    OBVIOUS
  <2>  HIDE DEF set
  <2>  QED
    BY <2>1, FS_Subset, FS_CardinalityType
<1>2. \A b : b \in f[x] => Cardinality(more(b)) = Cardinality(set(b)) + 1
  <2>1. \A b : b \in f[x] => more(b) = set(b) \cup {x} /\ x \notin set(b)
    OBVIOUS
  <2>  HIDE DEF set, more
  <2>  QED
    BY <1>1, <2>1, FS_AddElement
<1>3. \A b : b \notin f[x] => more(b) = set(b)
  OBVIOUS
<1>  HIDE DEF set, more
<1>4. \A b : Cardinality(more(b)) % 2 = 1 <=> (Cardinality(set(b)) % 2 = 1) # (b \in f[x])
  <2>1. \A b : b \in f[x] => (Cardinality(more(b)) % 2 = 1 <=> ~ (Cardinality(set(b)) % 2 = 1))
    BY <1>1, <1>2
  <2>  QED
    BY <1>3, <2>1
<1>5. f[x] \subseteq 0 .. Bits - 1
  BY DEF Symbols
<1>6. \A b : b \in XorOf(R \cup {x}, f) <=> b \in 0 .. Bits - 1 /\ Cardinality(more(b)) % 2 = 1
  BY DEF XorOf, more
<1>7. \A b : b \in XorOf(R, f) <=> b \in 0 .. Bits - 1 /\ Cardinality(set(b)) % 2 = 1
  BY DEF XorOf, set
<1>8. \A b : b \in XorOf(R \cup {x}, f) <=> b \in SymDiff(XorOf(R, f), f[x])
  <2>  TAKE b
  <2>1. CASE b \in f[x]
    <3>1. b \in SymDiff(XorOf(R, f), f[x]) <=> b \notin XorOf(R, f)
      BY <2>1 DEF SymDiff
    <3>2. b \in 0 .. Bits - 1
      BY <1>5, <2>1
    <3>  QED
      BY <1>4, <1>6, <1>7, <2>1, <3>1, <3>2
  <2>2. CASE b \notin f[x]
    <3>1. b \in SymDiff(XorOf(R, f), f[x]) <=> b \in XorOf(R, f)
      BY <2>2 DEF SymDiff
    <3>2. more(b) = set(b)
      BY <1>3, <2>2
    <3>  QED
      BY <1>6, <1>7, <3>1, <3>2, Zenon
  <2>  QED
    BY <2>1, <2>2
<1>  QED
  BY <1>8

\* The sum of two sums, term by term.
LEMMA XorOfSum ==
  ASSUME NEW R, IsFiniteSet(R), NEW f, NEW g, NEW h,
         \A i \in R : h[i] = SymDiff(f[i], g[i])
  PROVE  XorOf(R, h) = SymDiff(XorOf(R, f), XorOf(R, g))
<1>  DEFINE A(b) == {i \in R : b \in f[i]}
            B(b) == {i \in R : b \in g[i]}
            C(b) == {i \in R : b \in h[i]}
<1>1. \A b : C(b) = SymDiff(A(b), B(b))
  BY DEF SymDiff
<1>2. \A b : IsFiniteSet(A(b)) /\ IsFiniteSet(B(b))
  <2>1. \A b : A(b) \in SUBSET R /\ B(b) \in SUBSET R
    OBVIOUS
  <2>  HIDE DEF A, B
  <2>  QED
    BY <2>1, FS_Subset
<1>3. \A b : b \in XorOf(R, f) <=> b \in 0 .. Bits - 1 /\ Cardinality(A(b)) % 2 = 1
  BY DEF XorOf
<1>4. \A b : b \in XorOf(R, g) <=> b \in 0 .. Bits - 1 /\ Cardinality(B(b)) % 2 = 1
  BY DEF XorOf
<1>5. \A b : b \in XorOf(R, h) <=> b \in 0 .. Bits - 1 /\ Cardinality(C(b)) % 2 = 1
  BY DEF XorOf
<1>  HIDE DEF A, B, C
<1>6. \A b : Cardinality(C(b)) % 2 = 1 <=> (Cardinality(A(b)) % 2 = 1) # (Cardinality(B(b)) % 2 = 1)
  BY <1>1, <1>2, ParityOfDifference
<1>7. \A b : b \in XorOf(R, h) <=> b \in SymDiff(XorOf(R, f), XorOf(R, g))
  <2>  TAKE b
  <2>1. b \in SymDiff(XorOf(R, f), XorOf(R, g)) <=> (b \in XorOf(R, f)) # (b \in XorOf(R, g))
    BY DEF SymDiff
  <2>  QED
    BY <1>3, <1>4, <1>5, <1>6, <2>1
<1>  QED
  BY <1>7

\* The terms of a sum may be numbered otherwise, and those that are 0 left out.
LEMMA XorOfRenumbered ==
  ASSUME NEW R, IsFiniteSet(R), NEW Q, NEW f, NEW g, NEW h \in [R -> Q],
         \A i, j \in R : h[i] = h[j] => i = j,
         \A i \in R : f[i] = g[h[i]],
         \A k \in Q : g[k] # Zero => \E i \in R : h[i] = k
  PROVE  XorOf(R, f) = XorOf(Q, g)
<1>  DEFINE A(b) == {i \in R : b \in f[i]}
            B(b) == {k \in Q : b \in g[k]}
<1>1. \A b : IsFiniteSet(A(b))
  <2>1. \A b : A(b) \in SUBSET R
    OBVIOUS
  <2>  HIDE DEF A
  <2>  QED
    BY <2>1, FS_Subset
<1>2. \A b : ExistsBijection(A(b), B(b))
  <2>  TAKE b
  <2>  DEFINE t == [i \in A(b) |-> h[i]]
  <2>1. t \in [A(b) -> B(b)]
    OBVIOUS
  <2>2. \A i, j \in A(b) : t[i] = t[j] => i = j
    OBVIOUS
  <2>3. \A k \in B(b) : \E i \in A(b) : t[i] = k
    <3>1. ASSUME NEW k \in B(b) PROVE \E i \in A(b) : t[i] = k
      <4>1. k \in Q /\ b \in g[k] /\ g[k] # Zero
        BY <3>1 DEF Zero
      <4>2. PICK i \in R : h[i] = k
        BY <4>1
      <4>3. i \in A(b)
        BY <4>1, <4>2
      <4>  QED
        BY <4>2, <4>3
    <3>  QED
      BY <3>1
  <2>  HIDE DEF A, B, t
  <2>4. t \in Bijection(A(b), B(b))
    BY <2>1, <2>2, <2>3 DEF Bijection, Injection, Surjection, IsInjective
  <2>  QED
    BY <2>4 DEF ExistsBijection
<1>3. \A b : b \in XorOf(R, f) <=> b \in 0 .. Bits - 1 /\ Cardinality(A(b)) % 2 = 1
  BY DEF XorOf
<1>4. \A b : b \in XorOf(Q, g) <=> b \in 0 .. Bits - 1 /\ Cardinality(B(b)) % 2 = 1
  BY DEF XorOf
<1>  HIDE DEF A, B
<1>5. \A b : Cardinality(A(b)) = Cardinality(B(b))
  BY <1>1, <1>2, FS_Bijection
<1>6. \A b : b \in XorOf(R, f) <=> b \in XorOf(Q, g)
  BY <1>3, <1>4, <1>5
<1>  QED
  BY <1>6

\* One more number.
LEMMA FirstMore ==
  \A k \in Nat : /\ 0 .. (k + 1) - 1 = (0 .. k - 1) \cup {k} /\ k \notin 0 .. k - 1
               /\ IsFiniteSet(0 .. k - 1)
<1>1. \A k \in Nat : IsFiniteSet(0 .. k - 1)
  BY FS_Interval
<1>2. \A k \in Nat : 0 .. (k + 1) - 1 = (0 .. k - 1) \cup {k} /\ k \notin 0 .. k - 1
  OBVIOUS
<1>  QED
  BY <1>1, <1>2

\* To multiply a sum by a power is to multiply its terms.
LEMMA MulPowOfXor ==
  ASSUME FieldAssumption, NEW e \in Nat, NEW n \in Nat, NEW f, NEW g,
         \A i \in 0 .. n - 1 : f[i] \in Symbols /\ g[i] = MulPow(f[i], e)
  PROVE  MulPow(XorOf(0 .. n - 1, f), e) = XorOf(0 .. n - 1, g)
<1>  DEFINE V == {k \in 0 .. n : MulPow(XorOf(0 .. k - 1, f), e) = XorOf(0 .. k - 1, g)}
            D == (0 .. n) \ V
<1>1. SUFFICES ASSUME D # {} PROVE FALSE
  OBVIOUS
<1>2. PICK m \in D : \A k \in D : m <= k
  <2>1. D \in SUBSET Nat
    OBVIOUS
  <2>  HIDE DEF D
  <2>  QED
    BY <1>1, <2>1, LeastNatural
<1>3. m # 0
  <2>1. MulPow(XorOf({}, f), e) = XorOf({}, g)
    BY XorOfNone DEF MulPow
  <2>2. 0 .. 0 - 1 = {}
    OBVIOUS
  <2>  QED
    BY <1>2, <2>1, <2>2
<1>  DEFINE k == m - 1
<1>4. k \in 0 .. n - 1 /\ k \in V /\ m \in 0 .. n /\ m = k + 1
  BY <1>2, <1>3
<1>5. MulPow(XorOf(0 .. k - 1, f), e) = XorOf(0 .. k - 1, g)
  BY <1>4
<1>  HIDE DEF k, V, D
<1>6. f[k] \in Symbols /\ g[k] = MulPow(f[k], e)
  BY <1>4
<1>7. g[k] \in Symbols
  BY <1>6, MulPowSteps
<1>8. 0 .. m - 1 = (0 .. k - 1) \cup {k} /\ k \notin 0 .. k - 1 /\ IsFiniteSet(0 .. k - 1)
  BY <1>4, FirstMore
<1>9. /\ XorOf(0 .. m - 1, f) = SymDiff(XorOf(0 .. k - 1, f), f[k])
      /\ XorOf(0 .. m - 1, g) = SymDiff(XorOf(0 .. k - 1, g), g[k])
  BY <1>6, <1>7, <1>8, XorOfMore
<1>10. MulPow(XorOf(0 .. m - 1, f), e) = XorOf(0 .. m - 1, g)
  BY <1>5, <1>6, <1>9, XorOfIn, MulPowLinear
<1>  QED
  BY <1>2, <1>10 DEF D, V

(* The grid of a request, and what the code's r-th syndrome makes of a column v.   *)
Stride(q) == 2 * q.stride
Depth(q) == ((q.frames * FrameWords) \div Stride(q)) - 2
Place(q, c, j) == q.first * FrameWords + q.delta + (j + 1) * Stride(q) + c
Column(q, p, c) == [j \in 0 .. Depth(q) - 1 |-> At(p, Place(q, c, j))]
TrueColumn(q, c) ==
  [j \in 0 .. Depth(q) - 1 |->
     IF Place(q, c, j) \in 0 .. Len(Truth) - 1 THEN At(Truth, Place(q, c, j)) ELSE Zero]
Terms(n, v, r) == [j \in 0 .. n - 1 |-> MulPow(v[j], r * (n - 1 - j))]
Total(n, v, r) == XorOf(0 .. n - 1, Terms(n, v, r))

\* What the provers need to hear of products.
LEMMA Products ==
  /\ \A x, y \in Nat : x * y \in Nat
  /\ \A x, y \in Int : x * y \in Int
  /\ \A x, y, z \in Int : x * (y + z) = x * y + x * z /\ (y + z) * x = y * x + z * x
  OBVIOUS

\* The grid of Repair is this one.
LEMMA Grid ==
  ASSUME RepairAssumption, req \in Requests
  PROVE  /\ S = Stride(req) /\ S \in Nat \ {0} /\ Rows = Depth(req) /\ Rows \in Int /\ W \in Nat
         /\ Base \in Nat /\ First \in Int /\ req.npar \in Nat
         /\ \A c, j \in Int : /\ Word(c, j) = Place(req, c, j) /\ Symbol(c, j) = Place(req, c, j)
                              /\ Place(req, c, j) \in Int
                              /\ Place(req, c, j) = First + c + j * S
<1>1. /\ FrameWords \in Nat /\ req.npar \in Nat /\ req.first \in Nat /\ req.frames \in Nat
      /\ req.stride \in Nat \ {0} /\ req.delta \in Int
  BY DEF RepairAssumption, IsRequest
<1>2. S \in Nat \ {0} /\ W \in Nat /\ Base \in Nat /\ S = Stride(req)
  BY <1>1, Products DEF S, W, Base, Stride
<1>3. First = Base + S + req.delta /\ First \in Int
  BY <1>1, <1>2 DEF First
<1>4. Rows = Depth(req) /\ Rows \in Int
  BY <1>2 DEF Rows, Depth, W
<1>5. ASSUME NEW c \in Int, NEW j \in Int
      PROVE  /\ Word(c, j) = Place(req, c, j) /\ Symbol(c, j) = Place(req, c, j)
             /\ Place(req, c, j) \in Int
             /\ Place(req, c, j) = First + c + j * S
  <2>1. (j + 1) * S = j * S + S /\ j * S \in Int
    BY <1>2, Products
  <2>2. Word(c, j) = First + c + j * S /\ Symbol(c, j) = Base + req.delta + (j + 1) * S + c
    BY DEF Word, Symbol
  <2>3. Place(req, c, j) = Base + req.delta + (j + 1) * S + c
    BY <1>2 DEF Place, Base
  <2>  HIDE DEF Word, Symbol, Place, First, Base, S
  <2>  QED
    BY <1>1, <1>2, <1>3, <2>1, <2>2, <2>3
<1>  QED
  BY <1>1, <1>2, <1>3, <1>4, <1>5

\* No two places of the grid are the same, and all are words of an accepted image.
LEMMA PlacesApart ==
  ASSUME RepairAssumption, req \in Requests,
         NEW c \in 0 .. S - 1, NEW d \in 0 .. S - 1, NEW i \in Int, NEW j \in Int,
         Place(req, c, i) = Place(req, d, j)
  PROVE  c = d /\ i = j
<1>1. c + i * S = d + j * S /\ S \in Nat \ {0}
  <2>  DEFINE x == i * S
              y == j * S
  <2>1. c \in Int /\ d \in Int
    BY Grid
  <2>2. First + c + x = First + d + y
    BY <2>1, Grid
  <2>5. First \in Int /\ S \in Nat \ {0}
    BY Grid
  <2>3. x \in Int /\ y \in Int
    <3>  HIDE DEF S
    <3>  QED
      BY <2>5, Products
  <2>  HIDE DEF x, y
  <2>4. c + x = d + y
    BY <2>1, <2>2, <2>3, <2>5
  <2>  QED
    BY <2>4, <2>5 DEF x, y
<1>2. \A s \in Nat \ {0} : \A a, b \in 0 .. s - 1, k, l \in Int : a + k * s = b + l * s => k = l
  <2>1. SUFFICES ASSUME NEW s \in Nat \ {0}, NEW a \in 0 .. s - 1, NEW b \in 0 .. s - 1,
                        NEW k \in Int, NEW l \in Int, a + k * s = b + l * s
                 PROVE  k = l
    OBVIOUS
  <2>2. (k - l) * s = b - a
    BY <2>1
  <2>3. \A e \in Int : e >= 1 => e * s >= s
    OBVIOUS
  <2>4. \A e \in Int : e <= -1 => e * s <= -s
    OBVIOUS
  <2>  QED
    BY <2>2, <2>3, <2>4
<1>3. i = j
  BY <1>1, <1>2
<1>  QED
  BY <1>1, <1>3, Products

\* An accepted request has rows, and all their places are in the image.
LEMMA PlacesIn ==
  ASSUME RepairAssumption, req \in Requests, Accepted, Len(pcm) \in Nat
  PROVE  /\ Rows \in Nat \ {0}
         /\ \A c \in 0 .. S - 1, j \in 0 .. Rows - 1 : Place(req, c, j) \in 0 .. Len(pcm) - 1
<1>1. Rows \in Nat \ {0}
  <2>1. W \div S >= 3 /\ W \in Nat /\ S \in Nat \ {0}
    BY Grid DEF Accepted
  <2>2. W \div S \in Int
    BY <2>1
  <2>  HIDE DEF W, S
  <2>  QED
    BY <2>1, <2>2 DEF Rows
<1>2. ASSUME NEW c \in 0 .. S - 1, NEW j \in 0 .. Rows - 1
      PROVE  Place(req, c, j) \in 0 .. Len(pcm) - 1
  <2>1. /\ S \in Nat \ {0} /\ First \in Int /\ First >= 0
        /\ First + Rows * S - 1 < Len(pcm)
    BY Grid DEF Accepted, LastWord
  <2>2. Place(req, c, j) = First + c + j * S
    BY <1>1, <2>1, Grid
  <2>3. j * S \in Nat /\ (Rows - 1) * S = Rows * S - S /\ j * S <= (Rows - 1) * S /\ Rows * S \in Nat
    <3>1. \A a, b, s \in Nat : a <= b => a * s <= b * s /\ a * s \in Nat
      OBVIOUS
    <3>2. \A a, s \in Nat : (a - 1) * s = a * s - s /\ a * s \in Nat
      OBVIOUS
    <3>  QED
      BY <1>1, <2>1, <3>1, <3>2
  <2>  DEFINE x == j * S
              y == Rows * S
              z == (Rows - 1) * S
  <2>4. x \in Nat /\ z = y - S /\ x <= z /\ y \in Nat /\ First + y - 1 < Len(pcm)
    BY <2>1, <2>3
  <2>5. Place(req, c, j) = First + c + x
    BY <2>2
  <2>6. c \in Nat /\ c <= S - 1
    BY <2>1
  <2>  HIDE DEF x, y, z, S, First
  <2>  QED
    BY <2>1, <2>4, <2>5, <2>6
<1>  QED
  BY <1>1, <1>2

\* Horner's rule over the rows of a column is the sum of the terms.
LEMMA HornerIsTotal ==
  ASSUME FieldAssumption, Rows \in Nat, NEW p, NEW c, NEW v, NEW r \in Nat,
         v = [j \in 0 .. Rows - 1 |-> At(p, Word(c, j))],
         \A j \in 0 .. Rows - 1 : v[j] \in Symbols
  PROVE  Horner(p, c, r) = Total(Rows, v, r)
<1>  DEFINE t == [x \in Nat \X Symbols |-> SymDiff(v[x[1] - 1], MulPow(x[2], r))]
            rec(g) == g = [j \in 0 .. Rows |->
                             IF j = 0 THEN Zero ELSE SymDiff(At(p, Word(c, j - 1)), MulPow(g[j - 1], r))]
            n == Rows
            tt == [x \in Nat \X Symbols |-> IF x[1] \in 1 .. n THEN t[x] ELSE Zero]
<1>1. Zero \in Symbols
  BY DEF Zero, Symbols
<1>2. tt \in [Nat \X Symbols -> Symbols]
  <2>1. ASSUME NEW x \in Nat \X Symbols, x[1] \in 1 .. n PROVE t[x] \in Symbols
    <3>1. x[2] \in Symbols /\ x[1] - 1 \in 0 .. Rows - 1
      BY <2>1
    <3>2. MulPow(x[2], r) \in Symbols /\ v[x[1] - 1] \in Symbols
      BY <3>1, MulPowSteps
    <3>3. SymDiff(v[x[1] - 1], MulPow(x[2], r)) \in Symbols
      BY <3>2, XorSymbols
    <3>  QED
      BY <3>3
  <2>  HIDE DEF t
  <2>  QED
    BY <1>1, <2>1
<1>3. PICK g : Recursive(g, Symbols, Zero, tt, n)
  <2>  HIDE DEF tt
  <2>  QED
    BY <1>1, <1>2, RecursionDefines
<1>4. /\ g \in [0 .. n -> Symbols] /\ g[0] = Zero
      /\ \A j \in 0 .. n : j # 0 => g[j] = tt[<<j, g[j - 1]>>]
  <2>  HIDE DEF tt
  <2>  QED
    BY <1>3, Zenon DEF Recursive
<1>5. \A j \in 1 .. n : g[j - 1] \in Symbols /\ g[j] = SymDiff(At(p, Word(c, j - 1)), MulPow(g[j - 1], r))
  <2>1. ASSUME NEW j \in 1 .. n
        PROVE  g[j - 1] \in Symbols /\ g[j] = SymDiff(At(p, Word(c, j - 1)), MulPow(g[j - 1], r))
    <3>1. g[j - 1] \in Symbols /\ g[j] = tt[<<j, g[j - 1]>>] /\ j \in 0 .. n
      <4>1. n \in Nat
        OBVIOUS
      <4>  HIDE DEF n, tt, rec
      <4>2. j - 1 \in 0 .. n /\ j \in 0 .. n /\ j # 0
        BY <2>1, <4>1
      <4>  QED
        BY <1>4, <4>2
    <3>2. <<j, g[j - 1]>> \in Nat \X Symbols
      BY <2>1, <3>1
    <3>3. tt[<<j, g[j - 1]>>] = SymDiff(v[j - 1], MulPow(g[j - 1], r))
      BY <2>1, <3>2
    <3>4. j - 1 \in 0 .. Rows - 1
      BY <2>1
    <3>5. v[j - 1] = At(p, Word(c, j - 1))
      BY <3>4
    <3>  QED
      BY <3>1, <3>3, <3>5
  <2>  QED
    BY <2>1
<1>  HIDE DEF tt
<1>6. rec(g)
  <2>  DEFINE e(j) == IF j = 0 THEN Zero ELSE SymDiff(At(p, Word(c, j - 1)), MulPow(g[j - 1], r))
  <2>1. ASSUME NEW j \in 0 .. n PROVE g[j] = e(j)
    <3>1. CASE j = 0
      BY <1>4, <3>1
    <3>2. CASE j # 0
      <4>1. j \in 1 .. n
        BY <3>2
      <4>  QED
        BY <1>5, <3>2, <4>1, Zenon
    <3>  QED
      BY <3>1, <3>2
  <2>  HIDE DEF e
  <2>2. g = [j \in 0 .. n |-> e(j)]
    BY <1>4, <2>1
  <2>  QED
    BY <2>2 DEF e
\* It is the only such function.
<1>7. \A h : rec(h) => h = g
  <2>1. SUFFICES ASSUME NEW h, rec(h) PROVE h = g
    OBVIOUS
  <2>2. h[0] = Zero /\ \A j \in 1 .. n : h[j] = SymDiff(At(p, Word(c, j - 1)), MulPow(h[j - 1], r))
    <3>1. \A j \in 0 .. n : h[j] = IF j = 0 THEN Zero ELSE SymDiff(At(p, Word(c, j - 1)), MulPow(h[j - 1], r))
      BY <2>1, Zenon
    <3>2. 0 \in 0 .. n /\ \A j \in 1 .. n : j \in 0 .. n /\ j # 0
      OBVIOUS
    <3>  QED
      BY <3>1, <3>2, Zenon
  <2>  DEFINE D == {j \in 0 .. n : h[j] # g[j]}
  <2>3. D = {}
    <3>1. SUFFICES ASSUME D # {} PROVE FALSE
      OBVIOUS
    <3>2. PICK m \in D : \A k \in D : m <= k
      <4>1. D \in SUBSET Nat
        OBVIOUS
      <4>  HIDE DEF D
      <4>  QED
        BY <3>1, <4>1, LeastNatural
    <3>3. m # 0
      BY <1>4, <2>2, <3>2
    <3>4. m \in 1 .. n /\ h[m - 1] = g[m - 1]
      BY <3>2, <3>3
    <3>5. h[m] = g[m]
      BY <1>5, <2>2, <3>4
    <3>  QED
      BY <3>2, <3>5
  <2>4. DOMAIN h = 0 .. n /\ h = [j \in 0 .. n |-> h[j]]
    BY <2>1
  <2>5. DOMAIN g = 0 .. n /\ g = [j \in 0 .. n |-> g[j]]
    BY <1>4
  <2>  HIDE DEF rec
  <2>  QED
    BY <2>3, <2>4, <2>5
<1>8. Horner(p, c, r) = g[n]
  <2>1. Horner(p, c, r) = (CHOOSE h : rec(h))[n]
    BY Zenon DEF Horner
  <2>  HIDE DEF rec
  <2>  QED
    BY <1>6, <1>7, <2>1
\* The part of the sum that has been worked out after k rows.
<1>  DEFINE part(k) == [j \in 0 .. k - 1 |-> MulPow(v[j], r * (k - 1 - j))]
            V == {k \in 0 .. n : g[k] = XorOf(0 .. k - 1, part(k))}
            D == (0 .. n) \ V
<1>9. D = {}
  <2>1. SUFFICES ASSUME D # {} PROVE FALSE
    OBVIOUS
  <2>2. PICK m \in D : \A k \in D : m <= k
    <3>1. D \in SUBSET Nat
      OBVIOUS
    <3>  HIDE DEF D
    <3>  QED
      BY <2>1, <3>1, LeastNatural
  <2>3. m # 0
    <3>1. 0 .. 0 - 1 = {} /\ 0 \in 0 .. n
      OBVIOUS
    <3>2. g[0] = XorOf(0 .. 0 - 1, part(0))
      BY <1>4, <3>1, XorOfNone
    <3>  QED
      BY <2>2, <3>1, <3>2
  <2>  DEFINE k == m - 1
  <2>4. k \in 0 .. n - 1 /\ k \in V /\ m \in 1 .. n /\ m = k + 1 /\ k \in Nat
    <3>1. n \in Nat /\ m \in 0 .. n /\ \A i \in D : m <= i
      BY <2>2
    <3>  HIDE DEF n, part, rec
    <3>2. k \in 0 .. n - 1 /\ k \in 0 .. n /\ m \in 1 .. n /\ m = k + 1 /\ k \in Nat /\ ~ (m <= k)
      BY <2>3, <3>1
    <3>3. k \in V
      <4>  HIDE DEF k, V
      <4>  QED
        BY <3>1, <3>2
    <3>  QED
      BY <3>2, <3>3
  <2>5. g[k] = XorOf(0 .. k - 1, part(k))
    BY <2>4
  <2>6. g[m] = SymDiff(v[k], MulPow(g[k], r))
    BY <1>5, <2>4
  <2>  HIDE DEF k, V, D, n, rec
  <2>7. \A j \in 0 .. k - 1 : part(k)[j] \in Symbols /\ part(m)[j] = MulPow(part(k)[j], r)
    <3>1. ASSUME NEW j \in 0 .. k - 1
          PROVE  part(k)[j] \in Symbols /\ part(m)[j] = MulPow(part(k)[j], r)
      <4>1. k - 1 - j \in Nat /\ m - 1 - j = (k - 1 - j) + 1 /\ j \in 0 .. m - 1 /\ j \in 0 .. Rows - 1
        BY <2>4, <3>1 DEF n
      <4>  DEFINE x == r * (k - 1 - j)
      <4>2. x \in Nat /\ r * (m - 1 - j) = x + r
        <5>1. \A y \in Nat : r * y \in Nat /\ r * (y + 1) = r * y + r
          OBVIOUS
        <5>  QED
          BY <4>1, <5>1
      <4>3. part(k)[j] = MulPow(v[j], x) /\ part(m)[j] = MulPow(v[j], x + r)
        BY <4>1, <4>2
      <4>  HIDE DEF x, part
      <4>4. v[j] \in Symbols
        BY <4>1
      <4>  QED
        BY <4>2, <4>3, <4>4, MulPowSteps, MulPowAdds
    <3>  QED
      BY <3>1
  <2>8. part(m)[k] = v[k] /\ v[k] \in Symbols
    <3>1. v[k] \in Symbols
      BY <2>4 DEF n
    <3>2. k \in 0 .. m - 1 /\ m - 1 - k = 0 /\ r * 0 = 0
      BY <2>4
    <3>3. part(m)[k] = MulPow(v[k], 0)
      BY <3>2
    <3>  QED
      BY <3>1, <3>3, MulPowSteps
  <2>  HIDE DEF part
  <2>9. MulPow(XorOf(0 .. k - 1, part(k)), r) = XorOf(0 .. k - 1, part(m))
    BY <2>4, <2>7, MulPowOfXor
  <2>10. XorOf(0 .. m - 1, part(m)) = SymDiff(XorOf(0 .. k - 1, part(m)), part(m)[k])
    <3>1. 0 .. m - 1 = (0 .. k - 1) \cup {k} /\ k \notin 0 .. k - 1 /\ IsFiniteSet(0 .. k - 1)
      BY <2>4, FirstMore
    <3>  QED
      BY <2>8, <3>1, XorOfMore, ZenonT(40)
  <2>11. g[m] = XorOf(0 .. m - 1, part(m))
    BY <2>5, <2>6, <2>8, <2>9, <2>10, XorOfIn, XorSymbols
  <2>  QED
    BY <2>2, <2>11 DEF D, V
<1>10. n \in V
  <2>1. n \in 0 .. n
    OBVIOUS
  <2>  HIDE DEF V, n
  <2>  QED
    BY <1>9, <2>1
<1>11. g[n] = XorOf(0 .. n - 1, part(n)) /\ part(n) = Terms(Rows, v, r)
  BY <1>10 DEF Terms
<1>  QED
  BY <1>8, <1>11 DEF Total

\* A sequence is the whole of itself.
LEMMA WholeSeq ==
  ASSUME NEW n \in Nat, NEW s, DOMAIN s = 1 .. n, s = [i \in 1 .. n |-> s[i]]
  PROVE  SubSeq(s, 1, n) = s /\ Len(s) = n
<1>1. s \in Seq({s[i] : i \in 1 .. n})
  OBVIOUS
<1>2. Len(s) = n
  BY <1>1
<1>  QED
  BY <1>1, <1>2

\* The sums and quotients of the decoder are symbols.
LEMMA SumsAreSymbols ==
  /\ \A p, e : PolyEval(p, e) \in Symbols
  /\ \A p, e : PolyDerivEval(p, e) \in Symbols
  BY DEF PolyEval, PolyDerivEval, Sum, Symbols

\* A quotient is a symbol: the logs of its operands are at most ORDER - 1 apart.
LEMMA DivIsSymbol ==
  ASSUME FieldAssumption, NEW a \in Symbols, NEW b \in Symbols
  PROVE  Div(a, b) \in Symbols
<1>1. CASE a = Zero \/ b = Zero
  BY <1>1 DEF Div, Zero, Symbols
<1>2. CASE a # Zero /\ b # Zero
  <2>  DEFINE e == LogTab[a] + ORDER - LogTab[b]
  <2>1. Div(a, b) = Pow(e)
    BY <1>2 DEF Div
  <2>2. e \in Nat
    <3>1. ORDER \in Nat \ {0} /\ LogTab[a] \in 0 .. ORDER - 1 /\ LogTab[b] \in 0 .. ORDER - 1
      BY <1>2, PowLog, OrderIsPositive
    <3>  QED
      BY <3>1
  <2>  HIDE DEF e
  <2>  QED
    BY <2>1, <2>2, PowLog
<1>  QED
  BY <1>1, <1>2

\* What an answer of the decoder does to a column of n: a mask for each of its rows,
\* the sum of which is the difference.
Masks(f, n) == [j \in 0 .. n - 1 |-> IF j \in DOMAIN f THEN f[j] ELSE Zero]
Reproduces(f, n, npar, E) ==
  /\ DOMAIN f \subseteq 0 .. n - 1
  /\ \A j \in DOMAIN f : f[j] \in Symbols
  /\ \A r \in 0 .. npar - 1 : Total(n, Masks(f, n), r) = Coef(E, r)

\* The last gate: what is not refused reproduces the syndromes, row p for root n - 1 - p.
LEMMA ErrataReproduce ==
  ASSUME FieldAssumption, NEW n \in Nat, NEW npar \in Nat, NEW E, NEW lambda,
         Errata(npar, E, n, lambda).ok
  PROVE  Reproduces(Errata(npar, E, n, lambda).errata, n, npar, E)
<1>  DEFINE omega == PolyMul(lambda, E, npar)
            roots == Roots(lambda, n)
            mags  == [k \in roots |-> Magnitude(lambda, omega, k)]
            found == [p \in {n - 1 - k : k \in {k \in roots : mags[k] # Zero}} |-> mags[n - 1 - p]]
<1>1. /\ Errata(npar, E, n, lambda).errata = found
      /\ \A r \in 0 .. npar - 1 : Sum(roots, LAMBDA k : MulPow(mags[k], r * k)) = Coef(E, r)
  <2>  DEFINE bad == \/ Cardinality(roots) # Degree(lambda)
                     \/ \E k \in roots : PolyDerivEval(lambda, ORDER - k) = Zero
                     \/ \E r \in 0 .. npar - 1 : Sum(roots, LAMBDA k : MulPow(mags[k], r * k)) # Coef(E, r)
  <2>1. Errata(npar, E, n, lambda) = IF bad THEN NotFound ELSE [ok |-> TRUE, errata |-> found]
    BY Zenon DEF Errata
  <2>2. ~ bad
    <3>  HIDE DEF bad, found
    <3>  QED
      BY <2>1 DEF NotFound
  <2>3. Errata(npar, E, n, lambda).errata = found
    <3>  HIDE DEF bad, found
    <3>  QED
      BY <2>1, <2>2
  <2>  QED
    BY <2>2, <2>3, Zenon
<1>2. roots \subseteq 0 .. n - 1
  BY DEF Roots
<1>3. \A k \in roots : mags[k] \in Symbols
  <2>1. ASSUME NEW k \in roots PROVE Magnitude(lambda, omega, k) \in Symbols
    <3>  DEFINE a == PolyEval(omega, ORDER - k)
                b == PolyDerivEval(lambda, ORDER - k)
    <3>1. a \in Symbols /\ b \in Symbols
      BY SumsAreSymbols
    <3>2. Magnitude(lambda, omega, k) = MulPow(Div(a, b), k)
      BY DEF Magnitude
    <3>3. k \in Nat
      BY <1>2
    <3>  HIDE DEF a, b
    <3>  QED
      BY <3>1, <3>2, <3>3, DivIsSymbol, MulPowSteps
  <2>  QED
    BY <2>1
<1>  HIDE DEF omega, roots, mags
<1>4. DOMAIN found \subseteq 0 .. n - 1
  BY <1>2
<1>5. \A j \in DOMAIN found : found[j] = mags[n - 1 - j] /\ n - 1 - j \in roots
  BY <1>2
<1>6. ASSUME NEW k \in roots, n - 1 - k \notin DOMAIN found PROVE mags[k] = Zero
  BY <1>6
<1>  HIDE DEF found
<1>7. ASSUME NEW r \in 0 .. npar - 1 PROVE Total(n, Masks(found, n), r) = Coef(E, r)
  <2>  DEFINE f == [k \in roots |-> MulPow(mags[k], r * k)]
              g == Terms(n, Masks(found, n), r)
              h == [k \in roots |-> n - 1 - k]
  <2>1. Sum(roots, LAMBDA k : MulPow(mags[k], r * k)) = XorOf(roots, f)
    <3>1. \A b : {k \in roots : b \in MulPow(mags[k], r * k)} = {k \in roots : b \in f[k]}
      OBVIOUS
    <3>  HIDE DEF f
    <3>  QED
      BY <3>1, Zenon DEF Sum, XorOf
  <2>2. IsFiniteSet(roots)
    <3>1. 0 \in Int /\ n - 1 \in Int
      OBVIOUS
    <3>2. IsFiniteSet(0 .. n - 1)
      BY <3>1, FS_Interval
    <3>  QED
      BY <1>2, <3>2, FS_Subset
  <2>3. h \in [roots -> 0 .. n - 1] /\ \A i, j \in roots : h[i] = h[j] => i = j
    BY <1>2
  <2>4. \A k \in roots : f[k] = g[h[k]]
    <3>1. ASSUME NEW k \in roots PROVE f[k] = g[h[k]]
      <4>1. k \in 0 .. n - 1 /\ h[k] = n - 1 - k /\ h[k] \in 0 .. n - 1 /\ n - 1 - h[k] = k
        BY <1>2, <3>1
      <4>2. g[h[k]] = MulPow(Masks(found, n)[h[k]], r * k)
        BY <4>1 DEF Terms
      <4>3. Masks(found, n)[h[k]] = mags[k]
        <5>  HIDE DEF h
        <5>1. CASE h[k] \in DOMAIN found
          BY <1>5, <4>1, <5>1 DEF Masks
        <5>2. CASE h[k] \notin DOMAIN found
          <6>1. Masks(found, n)[h[k]] = Zero
            BY <4>1, <5>2 DEF Masks
          <6>  QED
            BY <1>6, <4>1, <5>2, <6>1
        <5>  QED
          BY <5>1, <5>2
      <4>  QED
        BY <4>2, <4>3
    <3>  QED
      BY <3>1
  <2>5. ASSUME NEW j \in 0 .. n - 1, g[j] # Zero PROVE \E k \in roots : h[k] = j
    <3>1. g[j] = MulPow(Masks(found, n)[j], r * (n - 1 - j))
      BY DEF Terms
    <3>2. Masks(found, n)[j] # Zero
      BY <2>5, <3>1 DEF MulPow
    <3>3. j \in DOMAIN found
      BY <3>2 DEF Masks
    <3>4. n - 1 - j \in roots
      BY <1>5, <3>3
    <3>5. h[n - 1 - j] = j
      BY <3>4
    <3>  QED
      BY <3>4, <3>5
  <2>  HIDE DEF f, g, h
  <2>6. XorOf(roots, f) = XorOf(0 .. n - 1, g)
    BY <2>2, <2>3, <2>4, <2>5, XorOfRenumbered
  <2>  QED
    BY <1>1, <2>1, <2>6 DEF Total, g
<1>8. \A j \in DOMAIN found : found[j] \in Symbols
  BY <1>3, <1>5
<1>  QED
  BY <1>1, <1>4, <1>7, <1>8 DEF Reproduces

\* An answer of the decoder has passed that gate, whatever came before it.
LEMMA DecodeReproduces ==
  ASSUME FieldAssumption, NEW n \in Nat, NEW npar \in Nat, NEW E, NEW eras,
         Decode(npar, E, n, eras).ok
  PROVE  Reproduces(Decode(npar, E, n, eras).errata, n, npar, E)
<1>1. PICK lambda : Decode(npar, E, n, eras) \in {NotFound, Errata(npar, E, n, lambda)}
  BY Zenon DEF Decode
<1>2. Decode(npar, E, n, eras) = Errata(npar, E, n, lambda)
  BY <1>1 DEF NotFound
<1>  QED
  BY <1>2, ErrataReproduce

\* A column whose masks are added has its syndromes moved by the difference.
LEMMA CorrectedColumn ==
  ASSUME FieldAssumption, NEW n \in Nat, NEW npar \in Nat, NEW E, NEW f,
         Reproduces(f, n, npar, E), NEW r \in 0 .. npar - 1,
         NEW u, NEW v, \A j \in 0 .. n - 1 : v[j] \in Symbols,
         \A j \in 0 .. n - 1 : u[j] = SymDiff(v[j], Masks(f, n)[j])
  PROVE  Total(n, u, r) = SymDiff(Total(n, v, r), Coef(E, r))
<1>  DEFINE m == Masks(f, n)
<1>1. \A j \in 0 .. n - 1 : m[j] \in Symbols
  BY DEF Masks, Reproduces, Zero, Symbols
<1>2. Total(n, m, r) = Coef(E, r)
  BY DEF Reproduces
<1>  HIDE DEF m
<1>3. \A j \in 0 .. n - 1 : Terms(n, u, r)[j] = SymDiff(Terms(n, v, r)[j], Terms(n, m, r)[j])
  <2>1. ASSUME NEW j \in 0 .. n - 1
        PROVE  Terms(n, u, r)[j] = SymDiff(Terms(n, v, r)[j], Terms(n, m, r)[j])
    <3>  DEFINE e == r * (n - 1 - j)
    <3>1. e \in Nat
      <4>1. r \in Nat /\ n - 1 - j \in Nat
        OBVIOUS
      <4>  QED
        BY <4>1, Products
    <3>2. /\ Terms(n, u, r)[j] = MulPow(u[j], e) /\ Terms(n, v, r)[j] = MulPow(v[j], e)
          /\ Terms(n, m, r)[j] = MulPow(m[j], e)
      BY DEF Terms
    <3>3. u[j] = SymDiff(v[j], m[j]) /\ v[j] \in Symbols /\ m[j] \in Symbols
      BY <1>1 DEF m
    <3>  HIDE DEF e
    <3>  QED
      BY <3>1, <3>2, <3>3, MulPowLinear
  <2>  QED
    BY <2>1
<1>4. IsFiniteSet(0 .. n - 1)
  BY FirstMore
<1>5. XorOf(0 .. n - 1, Terms(n, u, r))
      = SymDiff(XorOf(0 .. n - 1, Terms(n, v, r)), XorOf(0 .. n - 1, Terms(n, m, r)))
  BY <1>3, <1>4, XorOfSum
<1>  QED
  BY <1>2, <1>5 DEF Total

\* The syndromes of a column of the request's grid.
Syn(q, v) == [i \in 1 .. q.npar |-> Total(Depth(q), v, i - 1)]

\* A coefficient of a sequence is its element.
LEMMA CoefOfSyn ==
  ASSUME NEW n \in Nat, NEW s, DOMAIN s = 1 .. n, s = [i \in 1 .. n |-> s[i]], NEW r \in 0 .. n - 1
  PROVE  Coef(s, r) = s[r + 1]
<1>1. Len(s) = n
  BY WholeSeq
<1>2. r \in 0 .. Len(s) - 1
  BY <1>1
<1>  HIDE DEF Symbols
<1>  QED
  BY <1>2 DEF Coef, Degree

\* Pass 1 yields the syndromes of every column.
LEMMA SweepIsSyn ==
  ASSUME FieldAssumption, RepairAssumption, req \in Requests, Rows \in Nat, NEW p,
         \A c \in 0 .. S - 1, j \in 0 .. Rows - 1 : At(p, Place(req, c, j)) \in Symbols
  PROVE  Sweep(p) = [c \in 0 .. S - 1 |-> Syn(req, Column(req, p, c))]
<1>1. req.npar \in Nat /\ Rows = Depth(req) /\ S \in Nat \ {0}
  BY Grid
<1>2. ASSUME NEW c \in 0 .. S - 1
      PROVE  Coefficients(req.npar, LAMBDA r : Horner(p, c, r)) = Syn(req, Column(req, p, c))
  <2>  DEFINE n == req.npar
              v == Column(req, p, c)
              s == [i \in 1 .. n |-> Horner(p, c, i - 1)]
  <2>1. v = [j \in 0 .. Rows - 1 |-> At(p, Word(c, j))] /\ \A j \in 0 .. Rows - 1 : v[j] \in Symbols
    <3>1. c \in Int /\ \A j \in 0 .. Rows - 1 : j \in Int
      BY <1>1
    <3>2. \A j \in 0 .. Rows - 1 : Word(c, j) = Place(req, c, j)
      BY <3>1, Grid
    <3>3. \A j \in 0 .. Rows - 1 : v[j] = At(p, Word(c, j))
      BY <1>1, <3>2 DEF Column
    <3>4. v = [j \in 0 .. Rows - 1 |-> v[j]]
      BY <1>1 DEF Column
    <3>  HIDE DEF v
    <3>5. v = [j \in 0 .. Rows - 1 |-> At(p, Word(c, j))]
      BY <3>3, <3>4
    <3>6. \A j \in 0 .. Rows - 1 : v[j] \in Symbols
      BY <3>2, <3>3
    <3>  QED
      BY <3>5, <3>6
  <2>2. \A i \in 1 .. n : Horner(p, c, i - 1) = Total(Rows, v, i - 1)
    <3>1. ASSUME NEW i \in 1 .. n PROVE Horner(p, c, i - 1) = Total(Rows, v, i - 1)
      <4>1. i - 1 \in Nat
        BY <1>1
      <4>  HIDE DEF v
      <4>  QED
        BY <2>1, <4>1, HornerIsTotal
    <3>  QED
      BY <3>1
  <2>3. s = Syn(req, v)
    <3>  HIDE DEF v
    <3>  QED
      BY <1>1, <2>2 DEF Syn
  <2>4. SubSeq(s, 1, n) = s
    <3>1. DOMAIN s = 1 .. n /\ s = [i \in 1 .. n |-> s[i]]
      OBVIOUS
    <3>  HIDE DEF s
    <3>  QED
      BY <1>1, <3>1, WholeSeq
  <2>  QED
    BY <2>3, <2>4 DEF Coefficients
<1>  QED
  BY <1>2, Zenon DEF Sweep

\* The parity is the syndromes of the columns of the truth.
LEMMA PublishedIsSyn ==
  ASSUME RepairAssumption, req \in Requests
  PROVE  Published = [c \in 0 .. S - 1 |-> Syn(req, TrueColumn(req, c))]
<1>1. req.npar \in Nat /\ Rows = Depth(req) /\ S \in Nat \ {0} /\ Rows \in Int
  BY Grid
<1>  DEFINE value(c, j) == IF Symbol(c, j) \in 0 .. Len(Truth) - 1 THEN At(Truth, Symbol(c, j)) ELSE Zero
<1>2. ASSUME NEW c \in 0 .. S - 1
      PROVE  Syndromes(Rows, req.npar, LAMBDA j : value(c, j)) = Syn(req, TrueColumn(req, c))
  <2>  DEFINE n == req.npar
              v == TrueColumn(req, c)
              sum(r) == Sum(0 .. Rows - 1, LAMBDA j : MulPow(value(c, j), r * (Rows - 1 - j)))
              s == [i \in 1 .. n |-> sum(i - 1)]
  <2>1. \A j \in 0 .. Rows - 1 : value(c, j) = v[j]
    <3>1. c \in Int /\ \A j \in 0 .. Rows - 1 : j \in Int
      BY <1>1
    <3>2. \A j \in 0 .. Rows - 1 : Symbol(c, j) = Place(req, c, j)
      BY <3>1, Grid
    <3>  QED
      BY <1>1, <3>2 DEF TrueColumn
  <2>  HIDE DEF v, value
  <2>2. \A r : sum(r) = Total(Rows, v, r)
    <3>  TAKE r
    <3>1. \A j \in 0 .. Rows - 1 : MulPow(value(c, j), r * (Rows - 1 - j)) = Terms(Rows, v, r)[j]
      BY <2>1 DEF Terms
    <3>2. \A b : {j \in 0 .. Rows - 1 : b \in MulPow(value(c, j), r * (Rows - 1 - j))}
                 = {j \in 0 .. Rows - 1 : b \in Terms(Rows, v, r)[j]}
      BY <3>1
    <3>  QED
      BY <3>2, Zenon DEF Sum, XorOf, Total
  <2>  HIDE DEF sum
  <2>3. s = Syn(req, v)
    BY <1>1, <2>2 DEF Syn
  <2>4. SubSeq(s, 1, n) = s
    <3>1. DOMAIN s = 1 .. n /\ s = [i \in 1 .. n |-> s[i]]
      OBVIOUS
    <3>  HIDE DEF s
    <3>  QED
      BY <1>1, <3>1, WholeSeq
  <2>5. Syndromes(Rows, req.npar, LAMBDA j : value(c, j)) = SubSeq(s, 1, n)
    BY Zenon DEF Syndromes, Coefficients, sum
  <2>  QED
    BY <2>3, <2>4, <2>5 DEF v
<1>  QED
  BY <1>2, Zenon DEF Published

\* The words p with the corrections f in them.
Applied(p, f) == [i \in DOMAIN p |-> IF i - 1 \in DOMAIN f THEN f[i - 1] ELSE p[i]]

\* A corrected image has as many words, and each is its correction or the word that was read.
LEMMA AppliedAt ==
  ASSUME NEW p \in Seq(Symbols), NEW f, \A w \in DOMAIN f : f[w] \in Symbols
  PROVE  /\ Applied(p, f) \in Seq(Symbols) /\ Len(Applied(p, f)) = Len(p)
         /\ \A w \in 0 .. Len(p) - 1 : /\ At(p, w) \in Symbols
                                       /\ At(Applied(p, f), w) = IF w \in DOMAIN f THEN f[w] ELSE At(p, w)
<1>  DEFINE n == Len(p)
            s == Applied(p, f)
<1>1. n \in Nat /\ DOMAIN p = 1 .. n /\ \A i \in 1 .. n : p[i] \in Symbols
  OBVIOUS
<1>  HIDE DEF n
<1>2. /\ DOMAIN s = 1 .. n /\ s = [i \in 1 .. n |-> s[i]]
      /\ \A i \in 1 .. n : s[i] = IF i - 1 \in DOMAIN f THEN f[i - 1] ELSE p[i]
  BY <1>1, Zenon DEF Applied
<1>  HIDE DEF s
<1>3. \A i \in 1 .. n : s[i] \in Symbols
  BY <1>1, <1>2
<1>4. s \in Seq(Symbols) /\ Len(s) = n
  <2>1. s \in [1 .. n -> Symbols]
    <3>  HIDE DEF Symbols
    <3>  QED
      BY <1>2, <1>3
  <2>2. s \in Seq(Symbols)
    <3>  HIDE DEF Symbols
    <3>  QED
      BY <1>1, <2>1
  <2>3. Len(s) = n
    BY <1>1, <1>2, WholeSeq
  <2>  QED
    BY <2>2, <2>3
<1>5. ASSUME NEW w \in 0 .. n - 1
      PROVE  At(p, w) \in Symbols /\ At(s, w) = IF w \in DOMAIN f THEN f[w] ELSE At(p, w)
  <2>1. w + 1 \in 1 .. n /\ (w + 1) - 1 = w
    BY <1>1
  <2>2. At(p, w) = p[w + 1] /\ At(s, w) = s[w + 1]
    BY DEF At
  <2>3. s[w + 1] = IF (w + 1) - 1 \in DOMAIN f THEN f[(w + 1) - 1] ELSE p[w + 1]
    BY <1>2, <2>1
  <2>4. s[w + 1] = IF w \in DOMAIN f THEN f[w] ELSE p[w + 1]
    BY <2>1, <2>3
  <2>  QED
    BY <1>1, <2>1, <2>2, <2>4
<1>  QED
  BY <1>4, <1>5 DEF n, s

------------------------------------------------------------------------------
(* The invariant.                                                              *)

InGrid(q, len) ==
  /\ Depth(q) \in Nat \ {0}
  /\ \A c \in 0 .. Stride(q) - 1, j \in 0 .. Depth(q) - 1 : Place(q, c, j) \in 0 .. len - 1
\* The syndromes of every column: of a buffer, of the truth, and whether they agree.
Swept(q, p) == [c \in 0 .. Stride(q) - 1 |-> Syn(q, Column(q, p, c))]
PublishedOf(q) == [c \in 0 .. Stride(q) - 1 |-> Syn(q, TrueColumn(q, c))]
Agrees(q, p, c) == Syn(q, Column(q, p, c)) = Syn(q, TrueColumn(q, c))

\* Before anything is decided.
Untouched == out = pcm /\ rc = "none"
Unstarted == col = 0 /\ fixes = << >> /\ refused = 0
\* Corrections so far lie in the columns done,
FixesInPlace ==
  \A w \in DOMAIN fixes :
    fixes[w] \in Symbols /\ \E c \in 0 .. col - 1, j \in 0 .. Depth(req) - 1 : w = Place(req, c, j)
\* and would make each of those agree with its parity, unless one was refused.
Decoding ==
  /\ acc = Swept(req, pcm) /\ col \in 0 .. Stride(req) /\ refused \in Nat /\ FixesInPlace
  /\ refused = 0 => \A c \in 0 .. col - 1 : Agrees(req, Applied(pcm, fixes), c)
\* A repair that was carried out.
Whole ==
  /\ rc \in {"ok", "unverified"} /\ InGrid(req, Len(pcm)) /\ out \in Seq(Symbols) /\ Len(out) = Len(pcm)
  /\ \A c \in 0 .. Stride(req) - 1 : Agrees(req, out, c)
  /\ \A w \in 0 .. Len(out) - 1 : At(out, w) # At(pcm, w) =>
       \E c \in 0 .. Stride(req) - 1, j \in 0 .. Depth(req) - 1 : w = Place(req, c, j)

\* The invariant, by the step the repair is at.
RInv ==
  /\ req \in Requests /\ pcm \in Seq(Symbols)
  /\ pc \in {"check", "sweep", "decode", "done"}
  /\ pc \in {"check", "sweep"} => Unstarted
  /\ pc # "done" => Untouched
  /\ pc \in {"sweep", "decode"} => InGrid(req, Len(pcm)) /\ parity = PublishedOf(req)
  /\ pc = "decode" => Decoding
  /\ pc = "done" => (rc \in {"inval", "notfound"} /\ out = pcm) \/ Whole

\* The invariant holds when the call is made.
LEMMA InitInv == ASSUME FieldAssumption, RepairAssumption, Init PROVE RInv
<1>1. Truth \in Seq(Symbols) /\ \A w \in DOMAIN req.damage : req.damage[w] \in Symbols
  BY DEF RepairAssumption, IsRequest, Init
<1>2. pcm = Applied(Truth, req.damage)
  BY Zenon DEF Init, Applied
<1>3. pcm \in Seq(Symbols)
  BY <1>1, <1>2, AppliedAt
<1>  QED
  BY <1>3, Zenon DEF Init, RInv, Untouched, Unstarted

\* Once accepted, the grid is in the image and the parity is the truth's.
LEMMA CheckInv == ASSUME FieldAssumption, RepairAssumption, RInv, Check PROVE RInv'
<1>1. req \in Requests /\ pcm \in Seq(Symbols) /\ Unstarted /\ Untouched /\ Len(pcm) \in Nat
  BY DEF RInv, Check
<1>2. CASE Accepted
  <2>1. InGrid(req, Len(pcm))
    <3>1. Rows = Depth(req) /\ S = Stride(req)
      BY <1>1, Grid
    <3>  QED
      BY <1>1, <1>2, <3>1, PlacesIn DEF InGrid
  <2>2. Published = PublishedOf(req)
    BY <1>1, Grid, PublishedIsSyn DEF PublishedOf
  <2>  QED
    BY <1>1, <1>2, <2>1, <2>2 DEF RInv, Check, Unstarted, Untouched
<1>3. CASE ~ Accepted
  BY <1>1, <1>3 DEF RInv, Check, Unstarted, Untouched
<1>  QED
  BY <1>2, <1>3

\* A column's words are symbols.
LEMMA ColumnIn ==
  ASSUME NEW q, NEW p \in Seq(Symbols), InGrid(q, Len(p))
  PROVE  \A c \in 0 .. Stride(q) - 1, j \in 0 .. Depth(q) - 1 :
           /\ At(p, Place(q, c, j)) \in Symbols
           /\ Column(q, p, c)[j] = At(p, Place(q, c, j))
<1>1. \A w \in 0 .. Len(p) - 1 : At(p, w) \in Symbols
  BY DEF At
<1>  QED
  BY <1>1 DEF InGrid, Column

\* Pass 1 keeps the invariant.
LEMMA SweepInv == ASSUME FieldAssumption, RepairAssumption, RInv, SweepImage PROVE RInv'
<1>1. /\ req \in Requests /\ pcm \in Seq(Symbols) /\ Unstarted /\ Untouched
      /\ InGrid(req, Len(pcm)) /\ parity = PublishedOf(req)
  BY DEF RInv, SweepImage
<1>2. Rows = Depth(req) /\ S = Stride(req) /\ S \in Nat \ {0} /\ Rows \in Nat
  BY <1>1, Grid DEF InGrid
<1>3. acc' = Swept(req, pcm)
  BY <1>1, <1>2, ColumnIn, SweepIsSyn DEF SweepImage, Swept
<1>4. Decoding'
  BY <1>1, <1>2, <1>3 DEF SweepImage, Decoding, Unstarted, FixesInPlace
<1>  QED
  BY <1>1, <1>4 DEF RInv, SweepImage, Untouched

\* With the hints or without them, an answer reproduces the difference.
LEMMA DecodedReproduces ==
  ASSUME FieldAssumption, Rows \in Nat, req.npar \in Nat, NEW E, NEW eras, Decoded(E, eras).ok
  PROVE  Reproduces(Decoded(E, eras).errata, Rows, req.npar, E)
<1>1. PICK e : Decoded(E, eras) = Decode(req.npar, E, Rows, e)
  BY Zenon DEF Decoded
<1>  QED
  BY <1>1, DecodeReproduces

\* The difference of a column is that of the syndromes of what was read and of the truth.
LEMMA DifferenceIs ==
  ASSUME RInv, RepairAssumption, pc = "decode", col < S, NEW r \in 0 .. req.npar - 1
  PROVE  /\ Coef(Difference(col), r)
            = SymDiff(Total(Rows, Column(req, pcm, col), r), Total(Rows, TrueColumn(req, col), r))
         /\ r + 1 \in DOMAIN Difference(col) /\ Coef(Difference(col), r) = Difference(col)[r + 1]
<1>1. /\ req \in Requests /\ acc = Swept(req, pcm) /\ parity = PublishedOf(req)
      /\ col \in 0 .. Stride(req)
  BY DEF RInv, Decoding
<1>2. Rows = Depth(req) /\ S = Stride(req) /\ S \in Nat \ {0} /\ req.npar \in Nat
  BY <1>1, Grid
<1>3. col \in 0 .. Stride(req) - 1
  BY <1>1, <1>2
<1>  DEFINE n == req.npar
            a == Syn(req, Column(req, pcm, col))
            b == Syn(req, TrueColumn(req, col))
            d(i) == SymDiff(Coef(acc[col], i), Coef(parity[col], i))
            s == [i \in 1 .. n |-> d(i - 1)]
<1>4. acc[col] = a /\ parity[col] = b
  BY <1>1, <1>3 DEF Swept, PublishedOf
<1>5. Coef(a, r) = a[r + 1] /\ Coef(b, r) = b[r + 1]
  <2>1. DOMAIN a = 1 .. n /\ a = [i \in 1 .. n |-> a[i]] /\ DOMAIN b = 1 .. n /\ b = [i \in 1 .. n |-> b[i]]
    BY DEF Syn
  <2>  HIDE DEF a, b
  <2>  QED
    BY <1>2, <2>1, CoefOfSyn
<1>6. r + 1 \in 1 .. n /\ (r + 1) - 1 = r
  BY <1>2
<1>7. a[r + 1] = Total(Rows, Column(req, pcm, col), r) /\ b[r + 1] = Total(Rows, TrueColumn(req, col), r)
  BY <1>2, <1>6 DEF Syn
<1>8. Difference(col) = SubSeq(s, 1, n)
  BY Zenon DEF Difference, Coefficients
<1>  HIDE DEF d
<1>9. DOMAIN s = 1 .. n /\ s = [i \in 1 .. n |-> s[i]] /\ s[r + 1] = d(r)
  BY <1>6
<1>  HIDE DEF s, a, b
<1>10. SubSeq(s, 1, n) = s /\ Coef(s, r) = s[r + 1]
  BY <1>2, <1>9, WholeSeq, CoefOfSyn, SMTT(30)
<1>  QED
  BY <1>4, <1>5, <1>6, <1>7, <1>8, <1>9, <1>10 DEF d

\* Columns with the same totals have the same syndromes.
LEMMA SynAgree ==
  ASSUME NEW q, q.npar \in Nat, NEW p, NEW c,
         \A r \in 0 .. q.npar - 1 : Total(Depth(q), Column(q, p, c), r) = Total(Depth(q), TrueColumn(q, c), r)
  PROVE  Agrees(q, p, c)
<1>1. \A i \in 1 .. q.npar : i - 1 \in 0 .. q.npar - 1
  OBVIOUS
<1>2. \A i \in 1 .. q.npar : Total(Depth(q), Column(q, p, c), i - 1) = Total(Depth(q), TrueColumn(q, c), i - 1)
  BY <1>1
<1>  QED
  BY <1>2 DEF Agrees, Syn

\* Columns that are the same at every place agree alike.
LEMMA SameColumn ==
  ASSUME NEW q, NEW p, NEW s, NEW c,
         \A j \in 0 .. Depth(q) - 1 : At(p, Place(q, c, j)) = At(s, Place(q, c, j))
  PROVE  Agrees(q, p, c) <=> Agrees(q, s, c)
<1>1. Column(q, p, c) = Column(q, s, c)
  BY DEF Column
<1>  QED
  BY <1>1 DEF Agrees

\* Pass 2 keeps the invariant: a clean column agrees as it is, a decoded one once its
\* corrections are applied, and neither disturbs the columns done before.
LEMMA DecodeInv == ASSUME FieldAssumption, RepairAssumption, RInv, DecodeColumn PROVE RInv'
<1>1. /\ req \in Requests /\ pcm \in Seq(Symbols) /\ Untouched
      /\ InGrid(req, Len(pcm)) /\ parity = PublishedOf(req) /\ pc = "decode" /\ Decoding
  BY DEF RInv, DecodeColumn
<1>2. /\ Rows = Depth(req) /\ S = Stride(req) /\ S \in Nat \ {0} /\ Rows \in Nat \ {0} /\ req.npar \in Nat
      /\ Len(pcm) \in Nat
  BY <1>1, Grid DEF InGrid
<1>3. col \in 0 .. S - 1 /\ col' = col + 1 /\ col' \in 0 .. S /\ col < S /\ 0 .. col' - 1 = (0 .. col - 1) \cup {col}
  BY <1>1, <1>2 DEF DecodeColumn, Decoding
<1>4. UNCHANGED <<req, pcm, parity, pc, acc, out, rc>>
  BY DEF DecodeColumn
<1>5. /\ \A w \in DOMAIN fixes : fixes[w] \in Symbols
      /\ \A w \in DOMAIN fixes : \E c \in 0 .. col - 1, j \in 0 .. Rows - 1 : w = Place(req, c, j)
      /\ refused \in Nat
      /\ refused = 0 => \A c \in 0 .. col - 1 : Agrees(req, Applied(pcm, fixes), c)
  BY <1>1, <1>2 DEF Decoding, FixesInPlace
<1>6. \A c \in 0 .. S - 1, j \in 0 .. Rows - 1 :
        Place(req, c, j) \in 0 .. Len(pcm) - 1 /\ At(pcm, Place(req, c, j)) \in Symbols
  BY <1>1, <1>2, ColumnIn DEF InGrid
\* Nothing of this column has been corrected yet.
<1>7. \A j \in 0 .. Rows - 1 : Place(req, col, j) \notin DOMAIN fixes
  <2>1. SUFFICES ASSUME NEW j \in 0 .. Rows - 1, Place(req, col, j) \in DOMAIN fixes PROVE FALSE
    OBVIOUS
  <2>2. PICK c \in 0 .. col - 1, i \in 0 .. Rows - 1 : Place(req, col, j) = Place(req, c, i)
    BY <1>5, <2>1
  <2>3. c \in 0 .. S - 1 /\ c # col /\ i \in Int /\ j \in Int
    BY <1>3, <1>2
  <2>  QED
    BY <1>1, <1>3, <2>2, <2>3, PlacesApart
<1>  DEFINE E == Difference(col)
            found == Decoded(E, Erasures(col))
            own == {Word(col, p) : p \in DOMAIN found.errata}
            new == [w \in own |-> SymDiff(At(pcm, w), found.errata[(w - Word(col, 0)) \div S])]
            both == [w \in own \cup DOMAIN fixes |->
                       IF w \in own THEN SymDiff(At(pcm, w), found.errata[(w - Word(col, 0)) \div S])
                       ELSE fixes[w]]
<1>8. IF Clean(E) THEN UNCHANGED <<fixes, refused>>
      ELSE IF found.ok THEN fixes' = both /\ refused' = refused
           ELSE refused' = refused + 1 /\ fixes' = fixes
  BY Zenon DEF DecodeColumn
<1>9. \A r \in 0 .. req.npar - 1 :
        Coef(E, r) = SymDiff(Total(Rows, Column(req, pcm, col), r), Total(Rows, TrueColumn(req, col), r))
  BY <1>1, <1>3, DifferenceIs
<1>10. SUFFICES /\ FixesInPlace' /\ refused' \in Nat
                /\ refused' = 0 => \A c \in 0 .. col' - 1 : Agrees(req, Applied(pcm, fixes'), c)
  BY <1>1, <1>2, <1>3, <1>4 DEF RInv, Decoding, Untouched
<1>11. CASE Clean(E)
  <2>1. fixes' = fixes /\ refused' = refused
    BY <1>8, <1>11
  <2>2. \A r \in 0 .. req.npar - 1 : Coef(E, r) = Zero
    <3>1. \A r \in 0 .. req.npar - 1 : r + 1 \in DOMAIN E /\ Coef(E, r) = E[r + 1]
      BY <1>1, <1>3, DifferenceIs
    <3>  HIDE DEF E
    <3>  QED
      BY <1>11, <3>1 DEF Clean
  <2>3. Agrees(req, pcm, col)
    <3>1. \A r \in 0 .. req.npar - 1 :
            Total(Rows, Column(req, pcm, col), r) = Total(Rows, TrueColumn(req, col), r)
      BY <1>9, <2>2 DEF SymDiff, Zero
    <3>  QED
      BY <1>2, <3>1, SynAgree
  <2>4. Agrees(req, Applied(pcm, fixes), col)
    <3>1. \A j \in 0 .. Rows - 1 : At(pcm, Place(req, col, j)) = At(Applied(pcm, fixes), Place(req, col, j))
      BY <1>1, <1>3, <1>5, <1>6, <1>7, AppliedAt
    <3>  QED
      BY <1>2, <2>3, <3>1, SameColumn
  <2>5. refused = 0 => \A c \in 0 .. col' - 1 : Agrees(req, Applied(pcm, fixes), c)
    BY <1>3, <1>5, <2>4
  <2>6. FixesInPlace'
    BY <1>2, <1>3, <1>4, <1>5, <2>1 DEF FixesInPlace
  <2>  QED
    BY <1>5, <2>1, <2>5, <2>6
<1>12. CASE ~ Clean(E) /\ ~ found.ok
  <2>1. fixes' = fixes /\ refused' = refused + 1
    BY <1>8, <1>12
  <2>2. FixesInPlace'
    BY <1>2, <1>3, <1>4, <1>5, <2>1 DEF FixesInPlace
  <2>  QED
    BY <1>5, <2>1, <2>2
<1>13. CASE ~ Clean(E) /\ found.ok
  <2>1. fixes' = both /\ refused' = refused
    BY <1>8, <1>13
  <2>  DEFINE f == found.errata
  <2>2. Reproduces(f, Rows, req.npar, E)
    BY <1>2, <1>13, DecodedReproduces
  <2>3. DOMAIN f \subseteq 0 .. Rows - 1 /\ \A j \in DOMAIN f : f[j] \in Symbols
    BY <2>2 DEF Reproduces
  <2>  DEFINE place(j) == Place(req, col, j)
  <2>4. \A j \in 0 .. Rows - 1 : Word(col, j) = place(j) /\ (place(j) - Word(col, 0)) \div S = j
    <3>1. ASSUME NEW j \in 0 .. Rows - 1 PROVE Word(col, j) = place(j) /\ (place(j) - Word(col, 0)) \div S = j
      <4>1. col \in Int /\ j \in Int /\ 0 \in Int
        BY <1>2, <1>3
      <4>2. Word(col, j) = place(j) /\ place(j) = First + col + j * S /\ Word(col, 0) = First + col + 0 * S
            /\ First \in Int
        BY <1>1, <4>1, Grid
      <4>3. place(j) - Word(col, 0) = j * S
        <5>  DEFINE x == j * S
        <5>1. x \in Int /\ 0 * S = 0
          BY <1>2, <4>1, Products
        <5>2. Word(col, 0) = First + col + 0 /\ place(j) = First + col + x
          BY <4>2, <5>1
        <5>  HIDE DEF x, place
        <5>3. place(j) - Word(col, 0) = x
          BY <4>1, <4>2, <5>1, <5>2
        <5>  QED
          BY <5>3 DEF x
      <4>4. \A k \in Int, s \in Nat \ {0} : (k * s) \div s = k
        OBVIOUS
      <4>  QED
        BY <1>2, <4>1, <4>2, <4>3, <4>4
    <3>  QED
      BY <3>1
  <2>5. /\ DOMAIN new = {place(j) : j \in DOMAIN f}
        /\ \A j \in DOMAIN f : new[place(j)] = SymDiff(At(pcm, place(j)), f[j])
    <3>  HIDE DEF found, place, both
    <3>1. \A j \in DOMAIN f : Word(col, j) = place(j) /\ (place(j) - Word(col, 0)) \div S = j
      BY <2>3, <2>4
    <3>2. DOMAIN new = {Word(col, p) : p \in DOMAIN f}
      OBVIOUS
    <3>3. {Word(col, p) : p \in DOMAIN f} = {place(j) : j \in DOMAIN f}
      BY <3>1
    <3>4. ASSUME NEW j \in DOMAIN f PROVE new[place(j)] = SymDiff(At(pcm, place(j)), f[j])
      <4>1. place(j) \in DOMAIN new
        BY <3>2, <3>3
      <4>2. new[place(j)] = SymDiff(At(pcm, place(j)), f[(place(j) - Word(col, 0)) \div S])
        BY <4>1
      <4>  QED
        BY <3>1, <4>2
    <3>  QED
      BY <3>2, <3>3, <3>4
  <2>6. /\ DOMAIN fixes' = DOMAIN new \cup DOMAIN fixes
        /\ \A w \in DOMAIN new : fixes'[w] = new[w]
        /\ \A w \in DOMAIN fixes \ DOMAIN new : fixes'[w] = fixes[w]
    <3>  HIDE DEF own, found
    <3>  QED
      BY <2>1
  <2>  HIDE DEF new, f, found, E, own, both
  <2>7. \A w \in DOMAIN fixes : w \notin DOMAIN new
    BY <1>7, <2>3, <2>5
  <2>8. \A w \in DOMAIN fixes' : fixes'[w] \in Symbols
    <3>1. \A w \in DOMAIN new : new[w] \in Symbols
      <4>1. ASSUME NEW j \in DOMAIN f PROVE new[place(j)] \in Symbols
        <5>1. At(pcm, place(j)) \in Symbols /\ f[j] \in Symbols
          BY <1>3, <1>6, <2>3
        <5>  QED
          BY <2>5, <5>1, XorSymbols
      <4>  QED
        BY <2>5, <4>1
    <3>  HIDE DEF Symbols
    <3>  QED
      BY <1>5, <2>6, <3>1
  <2>9. FixesInPlace'
    <3>1. ASSUME NEW w \in DOMAIN fixes'
          PROVE  \E c \in 0 .. col' - 1, j \in 0 .. Rows - 1 : w = Place(req, c, j)
      <4>1. CASE w \in DOMAIN fixes
        BY <1>3, <1>5, <4>1
      <4>2. CASE w \in DOMAIN new
        BY <1>3, <2>3, <2>5, <4>2
      <4>  QED
        BY <2>6, <4>1, <4>2
    <3>  QED
      BY <1>2, <1>4, <2>8, <3>1 DEF FixesInPlace
  <2>10. ASSUME NEW c \in 0 .. col - 1, refused = 0 PROVE Agrees(req, Applied(pcm, fixes'), c)
    <3>1. ASSUME NEW j \in 0 .. Rows - 1
          PROVE  At(Applied(pcm, fixes), Place(req, c, j)) = At(Applied(pcm, fixes'), Place(req, c, j))
      <4>  DEFINE w == Place(req, c, j)
      <4>1. w \in 0 .. Len(pcm) - 1
        <5>1. c \in 0 .. S - 1
          BY <1>3, <1>2
        <5>  QED
          BY <1>6, <5>1
      <4>2. w \notin DOMAIN new
        <5>1. SUFFICES ASSUME NEW i \in DOMAIN f, w = place(i) PROVE FALSE
          BY <2>5
        <5>2. c \in 0 .. S - 1 /\ c # col /\ i \in Int /\ j \in Int
          BY <1>2, <1>3, <2>3
        <5>  QED
          BY <1>1, <1>3, <5>1, <5>2, PlacesApart
      <4>  HIDE DEF w
      <4>3. /\ At(Applied(pcm, fixes), w) = IF w \in DOMAIN fixes THEN fixes[w] ELSE At(pcm, w)
            /\ At(Applied(pcm, fixes'), w) = IF w \in DOMAIN fixes' THEN fixes'[w] ELSE At(pcm, w)
        BY <1>1, <1>5, <2>8, <4>1, AppliedAt
      <4>4. (w \in DOMAIN fixes <=> w \in DOMAIN fixes') /\ (w \in DOMAIN fixes => fixes'[w] = fixes[w])
        BY <2>6, <4>2
      <4>5. At(Applied(pcm, fixes), w) = At(Applied(pcm, fixes'), w)
        BY <4>3, <4>4
      <4>  QED
        BY <4>5 DEF w
    <3>2. Agrees(req, Applied(pcm, fixes), c)
      BY <1>5, <2>10
    <3>  QED
      BY <1>2, <3>1, <3>2, SameColumn
  <2>11. Agrees(req, Applied(pcm, fixes'), col)
    <3>  DEFINE u == Column(req, Applied(pcm, fixes'), col)
                v == Column(req, pcm, col)
    <3>1. ASSUME NEW j \in 0 .. Rows - 1 PROVE u[j] = SymDiff(v[j], Masks(f, Rows)[j]) /\ v[j] \in Symbols
      <4>1. place(j) \in 0 .. Len(pcm) - 1 /\ v[j] = At(pcm, place(j)) /\ v[j] \in Symbols
        BY <1>2, <1>3, <1>6 DEF Column
      <4>2. u[j] = At(Applied(pcm, fixes'), place(j))
        BY <1>2 DEF Column
      <4>  HIDE DEF u, v
      <4>3. CASE j \in DOMAIN f
        <5>1. place(j) \in DOMAIN new /\ Masks(f, Rows)[j] = f[j]
          BY <2>5, <4>3 DEF Masks
        <5>2. place(j) \in DOMAIN fixes' /\ fixes'[place(j)] = SymDiff(v[j], f[j])
          BY <2>5, <2>6, <4>1, <4>3, <5>1
        <5>3. At(Applied(pcm, fixes'), place(j)) = fixes'[place(j)]
          BY <1>1, <2>8, <4>1, <5>2, AppliedAt
        <5>  QED
          BY <4>1, <4>2, <5>1, <5>2, <5>3
      <4>4. CASE j \notin DOMAIN f
        <5>1. place(j) \notin DOMAIN new
          <6>1. SUFFICES ASSUME NEW i \in DOMAIN f, place(j) = place(i) PROVE FALSE
            BY <2>5
          <6>2. i \in Int /\ j \in Int /\ i # j
            BY <1>2, <2>3, <4>4
          <6>  QED
            BY <1>1, <1>3, <6>1, <6>2, PlacesApart
        <5>2. place(j) \notin DOMAIN fixes'
          BY <1>7, <2>6, <5>1
        <5>3. At(Applied(pcm, fixes'), place(j)) = At(pcm, place(j))
          BY <1>1, <2>8, <4>1, <5>2, AppliedAt
        <5>4. Masks(f, Rows)[j] = Zero /\ SymDiff(v[j], Zero) = v[j]
          BY <4>1, <4>4, XorSymbols DEF Masks
        <5>  QED
          BY <4>1, <4>2, <5>3, <5>4
      <4>  QED
        BY <4>3, <4>4
    <3>  HIDE DEF u, v
    <3>2. ASSUME NEW r \in 0 .. req.npar - 1
          PROVE  Total(Rows, u, r) = Total(Rows, TrueColumn(req, col), r)
      <4>1. Total(Rows, u, r) = SymDiff(Total(Rows, v, r), Coef(E, r))
        BY <1>2, <2>2, <3>1, CorrectedColumn, SMTT(30)
      <4>2. Coef(E, r) = SymDiff(Total(Rows, v, r), Total(Rows, TrueColumn(req, col), r))
        BY <1>9 DEF v
      <4>  QED
        BY <4>1, <4>2, XorOfIn, XorSymbols DEF Total
    <3>  QED
      BY <1>2, <3>2, SynAgree DEF u
  <2>12. refused = 0 => \A c \in 0 .. col' - 1 : Agrees(req, Applied(pcm, fixes'), c)
    BY <1>3, <2>10, <2>11
  <2>  QED
    BY <1>5, <2>1, <2>9, <2>12
<1>  QED
  BY <1>11, <1>12, <1>13

\* What is written agrees everywhere, or nothing is written.
LEMMA ApplyInv == ASSUME FieldAssumption, RepairAssumption, RInv, Apply PROVE RInv'
<1>1. /\ req \in Requests /\ pcm \in Seq(Symbols) /\ Untouched /\ InGrid(req, Len(pcm))
      /\ Decoding /\ pc = "decode"
  BY DEF RInv, Apply
<1>2. /\ Rows = Depth(req) /\ S = Stride(req) /\ S \in Nat \ {0} /\ Rows \in Nat \ {0}
      /\ Len(pcm) \in Nat
  BY <1>1, Grid DEF InGrid
<1>3. UNCHANGED <<req, pcm, parity, acc, col, fixes, refused>> /\ pc' = "done" /\ col = S
  BY DEF Apply
<1>4. CASE refused > 0
  BY <1>1, <1>3, <1>4 DEF RInv, Apply, Unwritten, Untouched
<1>5. CASE ~ (refused > 0)
  <2>  DEFINE s == Applied(pcm, fixes)
  <2>1. out' = s /\ rc' \in {"ok", "unverified"}
    BY <1>5 DEF Apply, Unwritten, Patched, Applied
  <2>2. refused = 0 /\ \A w \in DOMAIN fixes : fixes[w] \in Symbols
    BY <1>1, <1>5 DEF Decoding, FixesInPlace
  <2>3. s \in Seq(Symbols) /\ Len(s) = Len(pcm)
    BY <1>1, <2>2, AppliedAt
  <2>4. \A w \in 0 .. Len(pcm) - 1 : At(s, w) # At(pcm, w) => w \in DOMAIN fixes
    BY <1>1, <2>2, AppliedAt
  <2>5. \A w \in DOMAIN fixes : \E c \in 0 .. S - 1, j \in 0 .. Rows - 1 : w = Place(req, c, j)
    BY <1>1, <1>2, <1>3 DEF Decoding, FixesInPlace
  <2>6. \A c \in 0 .. S - 1 : Agrees(req, s, c)
    BY <1>1, <1>3, <2>2 DEF Decoding
  <2>7. Whole'
    <3>  HIDE DEF s
    <3>1. \A c \in 0 .. Stride(req') - 1 : Agrees(req', out', c)
      BY <1>2, <1>3, <2>1, <2>6
    <3>2. InGrid(req', Len(pcm')) /\ out' \in Seq(Symbols) /\ Len(out') = Len(pcm')
      BY <1>1, <1>3, <2>1, <2>3
    <3>3. \A w \in 0 .. Len(out') - 1 : At(out', w) # At(pcm', w) =>
            \E c \in 0 .. Stride(req') - 1, j \in 0 .. Depth(req') - 1 : w = Place(req', c, j)
      BY <1>2, <1>3, <2>1, <2>3, <2>4, <2>5
    <3>  QED
      BY <2>1, <3>1, <3>2, <3>3 DEF Whole
  <2>  QED
    BY <1>1, <1>3, <2>7 DEF RInv
<1>  QED
  BY <1>4, <1>5

\* Rest keeps the invariant.
LEMMA DoneInv == ASSUME RInv, UNCHANGED vars PROVE RInv'
<1>1. UNCHANGED <<req, pcm, parity, pc, acc, col, fixes, refused, out, rc>>
  BY DEF vars
<1>2. /\ Unstarted' <=> Unstarted
      /\ Untouched' <=> Untouched
      /\ Whole' <=> Whole
      /\ Decoding' <=> Decoding
  BY <1>1 DEF Unstarted, Untouched, Whole, Decoding, FixesInPlace
<1>  QED
  BY <1>1, <1>2 DEF RInv

\* Every step keeps the invariant.
LEMMA NextInv == ASSUME FieldAssumption, RepairAssumption, RInv, Next PROVE RInv'
  BY CheckInv, SweepInv, DecodeInv, ApplyInv, DoneInv DEF Next, Done

\* The invariant is as strong as what accudisc.h says.
LEMMA WholeIsAllOrNothing ==
  ASSUME FieldAssumption, RepairAssumption, RInv
  PROVE  AllOrNothing
<1>1. CASE rc \notin {"ok", "unverified"}
  BY <1>1 DEF RInv, Whole, Untouched, AllOrNothing
<1>2. CASE rc \in {"ok", "unverified"}
  <2>1. Whole /\ req \in Requests
    BY <1>2 DEF RInv, Untouched
  <2>2. /\ Rows = Depth(req) /\ S = Stride(req) /\ S \in Nat \ {0} /\ Rows \in Nat
        /\ out \in Seq(Symbols) /\ InGrid(req, Len(out))
    BY <2>1, Grid DEF Whole, InGrid
  <2>3. Sweep(out) = [c \in 0 .. S - 1 |-> Syn(req, Column(req, out, c))]
    <3>1. \A c \in 0 .. S - 1, j \in 0 .. Rows - 1 : At(out, Place(req, c, j)) \in Symbols
      BY <2>2, ColumnIn
    <3>  QED
      BY <2>1, <2>2, <3>1, SweepIsSyn
  <2>4. Published = [c \in 0 .. S - 1 |-> Syn(req, TrueColumn(req, c))]
    BY <2>1, PublishedIsSyn
  <2>5. Sweep(out) = Published
    BY <2>1, <2>2, <2>3, <2>4 DEF Whole, Agrees
  <2>6. \A w \in 0 .. Len(out) - 1 : At(out, w) # At(pcm, w) =>
          \E c \in 0 .. S - 1, j \in 0 .. Rows - 1 : w = Symbol(c, j)
    <3>1. \A c \in 0 .. S - 1, j \in 0 .. Rows - 1 : Symbol(c, j) = Place(req, c, j)
      <4>1. \A c \in 0 .. S - 1, j \in 0 .. Rows - 1 : c \in Int /\ j \in Int
        BY <2>2
      <4>  QED
        BY <2>1, <4>1, Grid
    <3>  QED
      BY <2>1, <2>2, <3>1 DEF Whole
  <2>  QED
    BY <1>2, <2>5, <2>6 DEF AllOrNothing
<1>  QED
  BY <1>1, <1>2

------------------------------------------------------------------------------
(* The whole module's specification: Repair's variables move in its turn only. *)

DInv == subject = "repair" => RInv

\* At the start.
LEMMA DInvInit == MCInit => DInv
<1>1. SUFFICES ASSUME MCInit, subject = "repair" PROVE RInv
  BY DEF DInv
<1>2. Init
  BY <1>1 DEF MCInit
<1>  QED
  BY <1>2, InitInv, DiscAssumption DEF DiscAssumption

\* Every step of every component.
LEMMA DInvNext == DInv /\ [MCNext]_<<subject, vars, regs>> => DInv'
<1>1. SUFFICES ASSUME DInv, [MCNext]_<<subject, vars, regs>>, subject' = "repair" PROVE RInv'
  BY DEF DInv
<1>2. FieldAssumption /\ RepairAssumption
  BY DiscAssumption DEF DiscAssumption
<1>3. CASE subject = "repair" /\ Next
  BY <1>1, <1>2, <1>3, NextInv DEF DInv
<1>4. CASE subject' = subject /\ UNCHANGED vars
  BY <1>1, <1>4, DoneInv DEF DInv
<1>5. \/ subject = "repair" /\ Next
      \/ subject' = subject /\ UNCHANGED vars
  BY <1>1, Zenon DEF MCNext, Turn
<1>  QED
  BY <1>3, <1>4, <1>5

\* A repair that fails leaves the buffer as it was; one that does not fail leaves words
\* that agree with every syndrome of the parity, and has changed none outside the code
\* (accudisc.h: "a failed call cannot leave a half-repaired buffer").
THEOREM SpecRepairIsWhole == MCSpec => []RepairIsWhole
<1>1. MCInit => DInv
  BY DInvInit
<1>2. DInv /\ [MCNext]_<<subject, vars, regs>> => DInv'
  BY DInvNext
<1>3. DInv => RepairIsWhole
  BY WholeIsAllOrNothing, DiscAssumption DEF DInv, RepairIsWhole, DiscAssumption
<1>  QED
  BY <1>1, <1>2, <1>3, PTL DEF MCSpec

------------------------------------------------------------------------------
(* ReadRange with its proofs; the two instances say the same, operator by      *)
(* operator, whatever the arguments.                                           *)

RngP == INSTANCE ReadRange_proofs WITH
  Top <- RangeTop, Discs <- RangeDiscs, Specs <- RangeSpecs,
  disc <- r1, map <- r2, spec <- r3, plan <- r4

\* Least.
LEMMA SameLowest == \A set : Rng!Lowest(set) = RngP!Lowest(set)
  BY Zenon DEF Rng!Lowest, RngP!Lowest

\* Greatest.
LEMMA SameHighest == \A set : Rng!Highest(set) = RngP!Highest(set)
  BY Zenon DEF Rng!Highest, RngP!Highest

\* What a lead-in says.
LEMMA SameTakeEntries == \A entries : Rng!TakeEntries(entries) = RngP!TakeEntries(entries)
  BY ZenonT(60) DEF Rng!A0, RngP!A0, Rng!A1, RngP!A1, Rng!A2, RngP!A2, Rng!FirstTrack,
               RngP!FirstTrack, Rng!Flag, RngP!Flag, Rng!IsTrack, RngP!IsTrack,
               Rng!NoEntries, RngP!NoEntries, Rng!NoteSession, RngP!NoteSession,
               Rng!TakeEntries, RngP!TakeEntries, Rng!TakeEntry, RngP!TakeEntry,
               Rng!TakeLeadout, RngP!TakeLeadout, Rng!TakeRange, RngP!TakeRange,
               Rng!TakeTrack, RngP!TakeTrack, Rng!With, RngP!With

\* A session's end.
LEMMA SameSessionLeadout == \A m, s : Rng!SessionLeadout(m, s) = RngP!SessionLeadout(m, s)
  BY Zenon DEF Rng!SessionLeadout, RngP!SessionLeadout

\* A track's extent.
LEMMA SameSectors == \A m, n : Rng!Sectors(m, n) = RngP!Sectors(m, n)
  BY Zenon DEF Rng!Lowest, RngP!Lowest, Rng!NextStarts, RngP!NextStarts, Rng!Sectors,
               RngP!Sectors, Rng!SessionLeadout, RngP!SessionLeadout, Rng!Sized, RngP!Sized

\* The pregap.
LEMMA SameHasPregap == \A tracks, n : Rng!HasPregap(tracks, n) = RngP!HasPregap(tracks, n)
  BY Zenon DEF Rng!HasPregap, RngP!HasPregap

\* What is odd about the extents.
LEMMA SameGeometryAnomalies == \A m : Rng!GeometryAnomalies(m) = RngP!GeometryAnomalies(m)
  BY Zenon DEF Rng!Ends, RngP!Ends, Rng!GeometryAnomalies, RngP!GeometryAnomalies,
               Rng!Groups, RngP!Groups, Rng!Overlap, RngP!Overlap, Rng!SessionLeadout,
               RngP!SessionLeadout, Rng!Starts, RngP!Starts

\* The sessions.
LEMMA SameSessionTable ==
  \A tracks, ends, numbers : Rng!SessionTable(tracks, ends, numbers) = RngP!SessionTable(tracks, ends, numbers)
  BY Zenon DEF Rng!CountTracks, RngP!CountTracks, Rng!SessionTable, RngP!SessionTable,
               Rng!Cardinality, RngP!Cardinality

\* The two accounts of the tracks.
LEMMA SameRangeMismatch == \A taken : Rng!RangeMismatch(taken) = RngP!RangeMismatch(taken)
  BY Zenon DEF Rng!Highest, RngP!Highest, Rng!Lowest, RngP!Lowest, Rng!RangeMismatch,
               RngP!RangeMismatch, Rng!Cardinality, RngP!Cardinality

\* One session made up.
LEMMA SameSynthesised ==
  \A m, count : Rng!Synthesised(m, count) = RngP!Synthesised(m, count)
  BY Zenon DEF Rng!CountTracks, RngP!CountTracks, Rng!SessionTable, RngP!SessionTable,
               Rng!Synthesised, RngP!Synthesised, Rng!Cardinality, RngP!Cardinality

\* The guard's walk.
LEMMA SameWalk == \A m, end : Rng!Walk(m, end) = RngP!Walk(m, end)
  BY Zenon DEF Rng!Ends, RngP!Ends, Rng!Lowest, RngP!Lowest, Rng!Owners, RngP!Owners,
               Rng!Starts, RngP!Starts, Rng!Stride, RngP!Stride, Rng!Walk, RngP!Walk

\* Whose a sector is.
LEMMA SameOwners == \A m, p : Rng!Owners(m, p) = RngP!Owners(m, p)
  BY Zenon DEF Rng!Ends, RngP!Ends, Rng!Owners, RngP!Owners, Rng!Starts, RngP!Starts

\* Whose a sector is on the disc.
LEMMA SameTracksAt == \A d, p : Rng!TracksAt(d, p) = RngP!TracksAt(d, p)
  BY Zenon DEF Rng!Lowest, RngP!Lowest, Rng!TracksAt, RngP!TracksAt, Rng!TracksOf,
               RngP!TracksOf

\* A track that is only a pregap.
LEMMA SameOnlyAPregap == \A m : Rng!OnlyAPregap(m) = RngP!OnlyAPregap(m)
  BY Zenon DEF Rng!OnlyAPregap, RngP!OnlyAPregap

\* The session there is to hear.
LEMMA SameDefaultAudioSession ==
  \A m : Rng!DefaultAudioSession(m) = RngP!DefaultAudioSession(m)
  BY ZenonT(40) DEF Rng!DefaultAudioSession, RngP!DefaultAudioSession, Rng!Lowest, RngP!Lowest,
               Rng!Cardinality, RngP!Cardinality

\* A session's audio.
LEMMA SameSessionAudioRange ==
  \A m, s : Rng!SessionAudioRange(m, s) = RngP!SessionAudioRange(m, s)
  BY ZenonT(40) DEF Rng!Ends, RngP!Ends, Rng!Extent, RngP!Extent, Rng!Highest, RngP!Highest,
               Rng!InSession, RngP!InSession, Rng!Lowest, RngP!Lowest, Rng!NoRange,
               RngP!NoRange, Rng!SessionAudioRange, RngP!SessionAudioRange, Rng!Starts,
               RngP!Starts

\* A range of tracks.
LEMMA SameTrackRange ==
  \A m, first, last : Rng!TrackRange(m, first, last) = RngP!TrackRange(m, first, last)
  BY Zenon DEF Rng!Ends, RngP!Ends, Rng!Extent, RngP!Extent, Rng!NoRange, RngP!NoRange,
               Rng!Starts, RngP!Starts, Rng!TrackRange, RngP!TrackRange

\* What is assumed of the discs.
LEMMA SameDiscsAssumption == Rng!DiscsAssumption = RngP!DiscsAssumption
  BY Zenon DEF Rng!A0, RngP!A0, Rng!A1, RngP!A1, Rng!A2, RngP!A2, Rng!Accounts,
               RngP!Accounts, Rng!DiscsAssumption, RngP!DiscsAssumption, Rng!Entry,
               RngP!Entry, Rng!Highest, RngP!Highest, Rng!IsHonest, RngP!IsHonest,
               Rng!IsLeadIn, RngP!IsLeadIn, Rng!IsLying, RngP!IsLying, Rng!IsTrack,
               RngP!IsTrack, Rng!Lowest, RngP!Lowest, Rng!TrackEntry, RngP!TrackEntry,
               Rng!TracksOf, RngP!TracksOf

\* The extents.
LEMMA SameFillExtents == \A m : Rng!FillExtents(m) = RngP!FillExtents(m)
<1>1. SUFFICES ASSUME NEW m PROVE Rng!FillExtents(m) = RngP!FillExtents(m)
  OBVIOUS
<1>  DEFINE a == [m EXCEPT !.tracks =
                   [n \in DOMAIN m.tracks |->
                      [m.tracks[n] EXCEPT !.sectors = Rng!Sectors(m, n),
                                          !.pregap = IF Rng!HasPregap(m.tracks, n)
                                                     THEN @ + m.tracks[n].lba ELSE @]]]
            b == [m EXCEPT !.tracks =
                   [n \in DOMAIN m.tracks |->
                      [m.tracks[n] EXCEPT !.sectors = RngP!Sectors(m, n),
                                          !.pregap = IF RngP!HasPregap(m.tracks, n)
                                                     THEN @ + m.tracks[n].lba ELSE @]]]
<1>2. a = b
  BY Zenon DEF Rng!HasPregap, RngP!HasPregap, Rng!Lowest, RngP!Lowest, Rng!NextStarts,
               RngP!NextStarts, Rng!Sectors, RngP!Sectors, Rng!SessionLeadout,
               RngP!SessionLeadout, Rng!Sized, RngP!Sized
<1>3. Rng!FillExtents(m) = [a EXCEPT !.anomalies = @ \cup Rng!GeometryAnomalies(a)]
  BY Zenon DEF Rng!FillExtents
<1>4. RngP!FillExtents(m) = [b EXCEPT !.anomalies = @ \cup RngP!GeometryAnomalies(b)]
  BY Zenon DEF RngP!FillExtents
<1>  HIDE DEF a, b
<1>5. Rng!GeometryAnomalies(a) = RngP!GeometryAnomalies(b)
  BY <1>2, SameGeometryAnomalies
<1>  QED
  BY <1>2, <1>3, <1>4, <1>5

\* The lead-in's map.
LEMMA SameFromLeadIn == \A entries : Rng!FromLeadIn(entries) = RngP!FromLeadIn(entries)
<1>1. SUFFICES ASSUME NEW entries PROVE Rng!FromLeadIn(entries) = RngP!FromLeadIn(entries)
  OBVIOUS
<1>  DEFINE
       taken == Rng!TakeEntries(entries)
       tracks == [n \in DOMAIN taken.slot |->
                    [session |-> taken.slot[n].session, audio |-> taken.slot[n].audio,
                     lba |-> taken.slot[n].lba, sectors |-> 0, pregap |-> 0]]
       known == {s \in taken.seen : s \in DOMAIN taken.ends /\ taken.ends[s] # 0}
       made(table, low, high, odd) ==
         [ok |-> TRUE, tracks |-> tracks, leadout |-> taken.leadout, sessions |-> table,
          first |-> IF taken.first_track # 0 THEN taken.first_track ELSE low,
          last |-> IF taken.last_track # 0 THEN taken.last_track ELSE high,
          total |-> taken.last_session,
          anomalies |-> taken.anomalies \cup IF odd THEN {"range_mismatch"} ELSE {}]
       none == taken.leadout < 0 \/ DOMAIN tracks = {}
       a == made(Rng!SessionTable(tracks, taken.ends, known), Rng!Lowest(DOMAIN tracks),
                 Rng!Highest(DOMAIN tracks), Rng!RangeMismatch(taken))
       b == made(RngP!SessionTable(tracks, taken.ends, known), RngP!Lowest(DOMAIN tracks),
                 RngP!Highest(DOMAIN tracks), RngP!RangeMismatch(taken))
<1>2. taken = RngP!TakeEntries(entries)
  BY SameTakeEntries
<1>3. a = b
  <2>1. Rng!SessionTable(tracks, taken.ends, known) = RngP!SessionTable(tracks, taken.ends, known)
    BY SameSessionTable
  <2>2. Rng!Lowest(DOMAIN tracks) = RngP!Lowest(DOMAIN tracks)
    BY SameLowest
  <2>3. Rng!Highest(DOMAIN tracks) = RngP!Highest(DOMAIN tracks)
    BY SameHighest
  <2>4. Rng!RangeMismatch(taken) = RngP!RangeMismatch(taken)
    BY SameRangeMismatch
  <2>  HIDE DEF taken, tracks, known
  <2>  QED
    BY <2>1, <2>2, <2>3, <2>4, Zenon
<1>4. Rng!FromLeadIn(entries) = IF none THEN [ok |-> FALSE] ELSE Rng!FillExtents(a)
  BY Zenon DEF Rng!FromLeadIn, Rng!NoMap, Rng!Bare
<1>5. RngP!FromLeadIn(entries) = IF none THEN [ok |-> FALSE] ELSE RngP!FillExtents(b)
  <2>  HIDE DEF taken
  <2>  QED
    BY <1>2, ZenonT(60) DEF RngP!FromLeadIn, RngP!NoMap, RngP!Bare
<1>6. Rng!FillExtents(a) = RngP!FillExtents(b)
  <2>  HIDE DEF a, b
  <2>  QED
    BY <1>3, SameFillExtents
<1>  HIDE DEF none, a, b
<1>  QED
  BY <1>4, <1>5, <1>6

\* The flat list's map.
LEMMA SameFromList ==
  \A list, leadout : Rng!FromList(list, leadout) = RngP!FromList(list, leadout)
  BY SameFillExtents, SameLowest, SameHighest DEF Rng!FromList, RngP!FromList, Rng!Bare,
      RngP!Bare

\* The map.
LEMMA SameReadTocSrc ==
  \A full, list, leadout, count : Rng!ReadTocSrc(full, list, leadout, count) = RngP!ReadTocSrc(full, list, leadout, count)
  BY SameFromLeadIn, SameFromList, SameSynthesised DEF Rng!ReadTocSrc, RngP!ReadTocSrc

\* The guard.
LEMMA SameCheckAudioRange ==
  \A m, lba, count : Rng!CheckAudioRange(m, lba, count) = RngP!CheckAudioRange(m, lba, count)
  BY SameWalk, Zenon DEF Rng!CheckAudioRange, RngP!CheckAudioRange, Rng!Untrusted,
                         RngP!Untrusted

\* The end of the plan.
LEMMA SameVetted == \A m, sp, w : Rng!Vetted(m, sp, w) = RngP!Vetted(m, sp, w)
  BY SameCheckAudioRange DEF Rng!Vetted, RngP!Vetted, Rng!Refused, RngP!Refused

\* A plan of tracks.
LEMMA SamePlanTracks == \A m, sp : Rng!PlanTracks(m, sp) = RngP!PlanTracks(m, sp)
<1>1. SUFFICES ASSUME NEW m, NEW sp PROVE Rng!PlanTracks(m, sp) = RngP!PlanTracks(m, sp)
  OBVIOUS
<1>  DEFINE r == Rng!TrackRange(m, sp.first, sp.last)
            w == Rng!Within(sp, r)
            v == Rng!Vetted(m, sp, w)
            x == RngP!TrackRange(m, sp.first, sp.last)
            y == RngP!Within(sp, x)
            z == RngP!Vetted(m, sp, y)
<1>2. r = x
  BY SameTrackRange
<1>3. w = y
  BY <1>2, Zenon DEF Rng!Within, RngP!Within
<1>4. v = z
  BY <1>3, SameVetted
<1>5. Rng!PlanTracks(m, sp) =
        CASE r.err = "notfound"    -> Rng!Refused("tracks_not_found")
          [] r.err = "unsupported" -> Rng!Refused("tracks_cross_session")
          [] r.err \in {"short", "inval"} -> Rng!Refused("tracks_no_extent")
          [] r.err = "ok"          -> v
  BY Zenon DEF Rng!PlanTracks
<1>6. RngP!PlanTracks(m, sp) =
        CASE x.err = "notfound"    -> RngP!Refused("tracks_not_found")
          [] x.err = "unsupported" -> RngP!Refused("tracks_cross_session")
          [] x.err \in {"short", "inval"} -> RngP!Refused("tracks_no_extent")
          [] x.err = "ok"          -> z
  BY Zenon DEF RngP!PlanTracks
<1>7. \A why : Rng!Refused(why) = RngP!Refused(why)
  BY Zenon DEF Rng!Refused, RngP!Refused
<1>  HIDE DEF r, v, x, z
<1>  QED
  BY <1>2, <1>4, <1>5, <1>6, <1>7

\* A plan of a session.
LEMMA SamePlanSession ==
  \A m, sp, s : Rng!PlanSession(m, sp, s) = RngP!PlanSession(m, sp, s)
<1>1. SUFFICES ASSUME NEW m, NEW sp, NEW s PROVE Rng!PlanSession(m, sp, s) = RngP!PlanSession(m, sp, s)
  OBVIOUS
<1>  DEFINE r == Rng!SessionAudioRange(m, s)
            w == Rng!Within(sp, r)
            v == Rng!Vetted(m, sp, w)
            x == RngP!SessionAudioRange(m, s)
            y == RngP!Within(sp, x)
            z == RngP!Vetted(m, sp, y)
<1>2. r = x
  BY SameSessionAudioRange
<1>3. w = y
  BY <1>2, Zenon DEF Rng!Within, RngP!Within
<1>4. v = z
  BY <1>3, SameVetted
<1>5. Rng!PlanSession(m, sp, s) =
        CASE r.err = "unsupported" -> Rng!Refused("session_split_by_data")
          [] r.err \in {"notfound", "short"} -> Rng!Refused("session_not_found")
          [] r.err = "ok"          -> v
  BY Zenon DEF Rng!PlanSession
<1>6. RngP!PlanSession(m, sp, s) =
        CASE x.err = "unsupported" -> RngP!Refused("session_split_by_data")
          [] x.err \in {"notfound", "short"} -> RngP!Refused("session_not_found")
          [] x.err = "ok"          -> z
  BY Zenon DEF RngP!PlanSession
<1>7. \A why : Rng!Refused(why) = RngP!Refused(why)
  BY Zenon DEF Rng!Refused, RngP!Refused
<1>  HIDE DEF r, v, x, z
<1>  QED
  BY <1>2, <1>4, <1>5, <1>6, <1>7

\* A plan of sectors.
LEMMA SamePlanSectors == \A m, sp : Rng!PlanSectors(m, sp) = RngP!PlanSectors(m, sp)
  BY SameVetted DEF Rng!PlanSectors, RngP!PlanSectors, Rng!Refused, RngP!Refused

\* What follows from what a spec names, and the plan.
LEMMA SamePlanNamed == \A m, sp : Rng!PlanNamed(m, sp) = RngP!PlanNamed(m, sp)
  BY SamePlanSession, SamePlanTracks, SamePlanSectors, SameDefaultAudioSession, ZenonT(60)
  DEF Rng!PlanNamed, RngP!PlanNamed, Rng!Refused, RngP!Refused
LEMMA SamePlanReadRange == \A m, sp : Rng!PlanReadRange(m, sp) = RngP!PlanReadRange(m, sp)
  BY SamePlanNamed, Zenon
  DEF Rng!PlanReadRange, RngP!PlanReadRange, Rng!BadSpec, RngP!BadSpec, Rng!Refused, RngP!Refused

\* What holds of the one instance of ReadRange holds of the other.
LEMMA SameRange ==
  /\ Rng!Init <=> RngP!Init
  /\ Rng!Next <=> RngP!Next
  /\ Rng!MapIsTheDisc <=> RngP!MapIsTheDisc
  /\ Rng!RangeIsAudio <=> RngP!RangeIsAudio
  /\ Rng!NoHiddenDataTrack <=> RngP!NoHiddenDataTrack
  /\ Rng!DefaultIsTheAudio <=> RngP!DefaultIsTheAudio
<1>1. Rng!Init <=> RngP!Init
  BY DEF Rng!Init, RngP!Init, Rng!NoMap, RngP!NoMap, Rng!NoSpec, RngP!NoSpec, Rng!NoPlan,
         RngP!NoPlan
<1>2. Rng!Next <=> RngP!Next
  BY SameReadTocSrc, SamePlanReadRange DEF Rng!Next, RngP!Next, Rng!ReadToc, RngP!ReadToc,
      Rng!PlanRead, RngP!PlanRead
<1>3. Rng!MapIsTheDisc <=> RngP!MapIsTheDisc
  BY SameOwners, SameTracksAt DEF Rng!MapIsTheDisc, RngP!MapIsTheDisc
<1>4. Rng!RangeIsAudio <=> RngP!RangeIsAudio
  BY SameTracksAt DEF Rng!RangeIsAudio, RngP!RangeIsAudio, Rng!SeamsUnknown,
                      RngP!SeamsUnknown
<1>5. Rng!NoHiddenDataTrack <=> RngP!NoHiddenDataTrack
  BY SameCheckAudioRange, SameOnlyAPregap DEF Rng!NoHiddenDataTrack, RngP!NoHiddenDataTrack,
      Rng!NothingHidden, RngP!NothingHidden
<1>6. Rng!DefaultIsTheAudio <=> RngP!DefaultIsTheAudio
  BY Zenon DEF Rng!DefaultIsTheAudio, RngP!DefaultIsTheAudio, Rng!Lowest, RngP!Lowest,
               Rng!NoSpec, RngP!NoSpec, Rng!TracksAt, RngP!TracksAt, Rng!TracksOf,
               RngP!TracksOf
<1>  QED
  BY <1>1, <1>2, <1>3, <1>4, <1>5, <1>6, Zenon

------------------------------------------------------------------------------
(* ReadRange, in the whole module's specification.                             *)

\* Its invariant, in its turn.
DRange == subject = "range" => RngP!IInv

\* At the start.
LEMMA DRangeInit == MCInit => DRange
<1>1. SUFFICES ASSUME MCInit, subject = "range" PROVE RngP!IInv
  BY DEF DRange
<1>2. Rng!Init
  BY <1>1 DEF MCInit
<1>  QED
  BY <1>2, SameRange, RngP!InitInv

\* Every step of every component.
LEMMA DRangeNext == DRange /\ [MCNext]_<<subject, vars, regs>> => DRange'
<1>1. SUFFICES ASSUME DRange, [MCNext]_<<subject, vars, regs>>, subject' = "range" PROVE RngP!IInv'
  BY DEF DRange
<1>2. \/ subject = "range" /\ Rng!Next
      \/ subject' = subject /\ UNCHANGED regs
  BY <1>1, Zenon DEF MCNext, Turn
<1>3. RngP!IInv
  BY <1>1, <1>2 DEF DRange, MCNext, Turn
<1>4. CASE Rng!Next
  BY <1>3, <1>4, SameRange, RngP!NextInv
<1>5. CASE UNCHANGED regs
  <2>1. UNCHANGED RngP!vars
    BY <1>5 DEF regs, RngP!vars
  <2>  QED
    BY <1>3, <2>1, RngP!NextInv
<1>  QED
  BY <1>2, <1>4, <1>5

\* Whatever the disc, and in whatever order its lead-in names the tracks, the map has
\* every sector in its own track and session, nothing in a gap, and no anomaly (toc.c:
\* "the lead-in may list points in any order").
THEOREM SpecMapIsTheDisc == MCSpec => []MapIsTheDisc
<1>1. RngP!DiscsAssumption
  BY DiscAssumption, SameDiscsAssumption DEF DiscAssumption
<1>2. DRange => MapIsTheDisc
  BY <1>1, SameRange, RngP!InvIsTheDisc DEF DRange, MapIsTheDisc
<1>  QED
  BY <1>2, DRangeInit, DRangeNext, PTL DEF MCSpec

\* Whatever the disc and whatever a caller names, what is planned and not forced is audio
\* of one session; a caller that names nothing gets all there is to hear; and no lead-in
\* that lies hides a data track behind an audio one, but as AnomaliesAreHarmless says.
THEOREM SpecRangeIsAudio == MCSpec => []RangeIsAudio
<1>1. RngP!DiscsAssumption
  BY DiscAssumption, SameDiscsAssumption DEF DiscAssumption
<1>2. RngP!IInv => RngP!RangeIsAudio
  BY <1>1, RngP!InvIsAudio
<1>3. RngP!IInv => RngP!NoHiddenDataTrack
  BY <1>1, RngP!InvHidesNothing
<1>4. RngP!IInv => RngP!DefaultIsTheAudio
  BY <1>1, RngP!InvIsTheAudio
<1>5. DRange => RangeIsAudio
  BY <1>2, <1>3, <1>4, SameRange DEF DRange, RangeIsAudio
<1>  QED
  BY <1>5, DRangeInit, DRangeNext, PTL DEF MCSpec
==============================================================================
