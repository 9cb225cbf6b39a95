------------------------ MODULE SweepKernel_proofs ------------------------
(***************************************************************************)
(* Proofs about SweepKernel: for every stride, number of planes, window    *)
(* and field, both kernels hold, after every row, the syndromes of the     *)
(* columns so far, and the CRC fused into the sweep is that of the window. *)
(***************************************************************************)
EXTENDS SweepKernel, FiniteSetTheorems, WellFoundedInduction, TLAPS

------------------------------------------------------------------------------
(* Recursion and least elements.                                           *)

\* The order the library's well-founded induction is about.
LEMMA LessThan == \A k, m \in Nat : k < m => <<k, m>> \in OpToRel(<, Nat)
  BY DEF OpToRel

\* A set of natural numbers has a least.
LEMMA LeastNatural ==
  ASSUME NEW I \in SUBSET Nat, I # {}
  PROVE  \E m \in I : \A k \in I : m <= k
<1>1. PICK m \in I : \A k \in I : ~ (<<k, m>> \in OpToRel(<, Nat))
  BY NatLessThanWellFounded, WFMin
<1>2. \A k \in I : ~ (k < m)
  BY <1>1, LessThan
<1>  QED
  BY <1>2

\* What a recursion over 0 .. n yields, one step t at a time.
Recursion(g, z, t, n) == g = [j \in 0 .. n |-> IF j = 0 THEN z ELSE t[<<j, g[j - 1]>>]]

\* A recursion over 0 .. n has a solution, for every n.
LEMMA RecursionExists ==
  ASSUME NEW z, NEW t, NEW n \in Nat
  PROVE  \E g : Recursion(g, z, t, n)
<1>  DEFINE D == {k \in Nat : ~ \E g : Recursion(g, z, t, k)}
<1>1. SUFFICES ASSUME D # {} PROVE FALSE
  OBVIOUS
<1>2. PICK m \in D : \A k \in D : m <= k
  BY <1>1, LeastNatural
<1>3. m # 0
  <2>1. Recursion([k \in 0 .. 0 |-> z], z, t, 0)
    BY DEF Recursion
  <2>  QED
    BY <1>2, <2>1
<1>4. PICK g : Recursion(g, z, t, m - 1)
  BY <1>2, <1>3
<1>  DEFINE h == [k \in 0 .. m |-> IF k = m THEN t[<<m, g[m - 1]>>] ELSE g[k]]
<1>5. Recursion(h, z, t, m)
  <2>  DEFINE e(k) == IF k = 0 THEN z ELSE t[<<k, h[k - 1]>>]
  <2>1. ASSUME NEW k \in 0 .. m PROVE h[k] = e(k)
    <3>1. CASE k = m
      BY <1>3, <3>1
    <3>2. CASE k # m
      <4>1. k \in 0 .. m - 1 /\ h[k] = g[k]
        BY <3>2
      <4>2. g[k] = IF k = 0 THEN z ELSE t[<<k, g[k - 1]>>]
        BY <1>4, <4>1 DEF Recursion
      <4>3. k # 0 => h[k - 1] = g[k - 1]
        BY <4>1
      <4>  QED
        BY <4>1, <4>2, <4>3
    <3>  QED
      BY <3>1, <3>2
  <2>2. h = [k \in 0 .. m |-> e(k)]
    BY <2>1
  <2>  QED
    BY <2>2 DEF Recursion
<1>  QED
  BY <1>2, <1>5

\* Its values are in V, if each step from V stays there.
LEMMA RecursionIn ==
  ASSUME NEW V, NEW n \in Nat, NEW f, f[0] \in V,
         \A j \in 0 .. n : j # 0 /\ f[j - 1] \in V => f[j] \in V
  PROVE  \A j \in 0 .. n : f[j] \in V
<1>  DEFINE D == {k \in 0 .. n : f[k] \notin V}
<1>1. SUFFICES ASSUME D # {} PROVE FALSE
  OBVIOUS
<1>2. PICK m \in D : \A k \in D : m <= k
  <2>1. D \in SUBSET Nat
    OBVIOUS
  <2>  HIDE DEF D
  <2>  QED
    BY <1>1, <2>1, LeastNatural
<1>3. m # 0
  BY <1>2
<1>4. m - 1 \in 0 .. n /\ f[m - 1] \in V
  BY <1>2, <1>3
<1>  QED
  BY <1>2, <1>3, <1>4

\* A function that is defined by such a recursion, by steps within V.
Recursive(g, V, z, t, n) ==
  /\ g \in [0 .. n -> V] /\ g[0] = z
  /\ \A j \in 0 .. n : j # 0 => g[j] = t[<<j, g[j - 1]>>]

\* There is one, for steps within V.
LEMMA RecursionDefines ==
  ASSUME NEW V, NEW z \in V, NEW n \in Nat, NEW t \in [Nat \X V -> V]
  PROVE  \E g : Recursive(g, V, z, t, n)
<1>1. PICK g : Recursion(g, z, t, n)
  BY RecursionExists
<1>2. g[0] = z /\ \A j \in 0 .. n : j # 0 => g[j] = t[<<j, g[j - 1]>>]
  <2>1. \A j \in 0 .. n : g[j] = IF j = 0 THEN z ELSE t[<<j, g[j - 1]>>]
    BY <1>1, Zenon DEF Recursion
  <2>2. 0 \in 0 .. n
    OBVIOUS
  <2>3. g[0] = z
    BY <2>1, <2>2, Zenon
  <2>4. \A j \in 0 .. n : j # 0 => g[j] = t[<<j, g[j - 1]>>]
    BY <2>1, Zenon
  <2>  QED
    BY <2>3, <2>4
<1>3. \A j \in 0 .. n : g[j] \in V
  <2>1. ASSUME NEW j \in 0 .. n, j # 0, g[j - 1] \in V PROVE g[j] \in V
    <3>1. <<j, g[j - 1]>> \in Nat \X V
      BY <2>1
    <3>2. t[<<j, g[j - 1]>>] \in V
      BY <3>1, Zenon
    <3>  QED
      BY <1>2, <2>1, <3>2, Zenon
  <2>  QED
    BY <1>2, <2>1, RecursionIn
<1>4. DOMAIN g = 0 .. n /\ g = [j \in 0 .. n |-> g[j]]
  BY <1>1 DEF Recursion
<1>5. g \in [0 .. n -> V]
  BY <1>3, <1>4
<1>  QED
  BY <1>2, <1>5 DEF Recursive

------------------------------------------------------------------------------
(* Sums of sets of bits, of any width.                                     *)

\* Sets form a group under the symmetric difference, and each is its own inverse.
LEMMA XorSets ==
  \A a, b : /\ SymDiff(a, b) = SymDiff(b, a)
            /\ SymDiff(a, {}) = a /\ SymDiff({}, a) = a /\ SymDiff(a, a) = {}
            /\ SymDiff(a, SymDiff(a, b)) = b
            /\ \A c : SymDiff(SymDiff(a, b), c) = SymDiff(a, SymDiff(b, c))
            /\ \A W : a \subseteq W /\ b \subseteq W => SymDiff(a, b) \subseteq W
  BY DEF SymDiff

\* The sum of f[i] over i in R.
XorOf(R, f) == {b \in Int : Cardinality({i \in R : b \in f[i]}) % 2 = 1}

\* The parity of a symmetric difference.
LEMMA ParityOfDifference ==
  ASSUME NEW A, NEW B, IsFiniteSet(A), IsFiniteSet(B)
  PROVE  Cardinality(SymDiff(A, B)) % 2 = 1 <=> (Cardinality(A) % 2 = 1) # (Cardinality(B) % 2 = 1)
<1>  DEFINE X == A \ B
            Y == B \ A
            Z == A \cap B
            a == Cardinality(A)
            b == Cardinality(B)
            x == Cardinality(X)
            y == Cardinality(Y)
            z == Cardinality(Z)
            u == Cardinality(SymDiff(A, B))
<1>1. IsFiniteSet(X) /\ x = a - z
  BY FS_Difference
<1>2. IsFiniteSet(Y) /\ y = b - z
  <2>1. IsFiniteSet(Y) /\ y = b - Cardinality(B \cap A)
    BY FS_Difference
  <2>2. B \cap A = Z
    OBVIOUS
  <2>  QED
    BY <2>1, <2>2
<1>3. IsFiniteSet(Z)
  BY FS_Intersection
<1>4. u = x + y
  <2>1. Cardinality(X \cup Y) = x + y - Cardinality(X \cap Y)
    <3>  HIDE DEF X, Y
    <3>  QED
      BY <1>1, <1>2, FS_Union
  <2>2. X \cap Y = {} /\ SymDiff(A, B) = X \cup Y
    BY DEF SymDiff
  <2>3. Cardinality(X \cap Y) = 0
    BY <2>2, FS_EmptySet
  <2>4. x \in Nat /\ y \in Nat
    BY <1>1, <1>2, FS_CardinalityType
  <2>5. u = Cardinality(X \cup Y)
    BY <2>2
  <2>  HIDE DEF X, Y, x, y, u
  <2>  QED
    BY <2>1, <2>3, <2>4, <2>5
<1>5. a \in Nat /\ b \in Nat /\ z \in Nat
  BY <1>3, FS_CardinalityType
<1>  HIDE DEF X, Y, Z, a, b, x, y, z, u
<1>6. u = a + b - 2 * z /\ a + b - 2 * z >= 0
  <2>1. x >= 0 /\ y >= 0
    BY <1>1, <1>2, FS_CardinalityType DEF x, y
  <2>  QED
    BY <1>1, <1>2, <1>4, <1>5, <2>1
<1>7. u % 2 = 1 <=> (a % 2 = 1) # (b % 2 = 1)
  BY <1>5, <1>6
<1>  QED
  BY <1>7 DEF a, b, u

\* A sum of nothing.
LEMMA XorOfNone == \A f : XorOf({}, f) = {}
<1>  TAKE f
<1>1. \A b : {i \in {} : b \in f[i]} = {}
  OBVIOUS
<1>  QED
  BY <1>1, FS_EmptySet DEF XorOf

\* One more term.
LEMMA XorOfMore ==
  ASSUME NEW R, IsFiniteSet(R), NEW x, x \notin R, NEW f, f[x] \subseteq Int
  PROVE  XorOf(R \cup {x}, f) = SymDiff(XorOf(R, f), f[x])
<1>  DEFINE set(b) == {i \in R : b \in f[i]}
            more(b) == {i \in R \cup {x} : b \in f[i]}
<1>1. \A b : IsFiniteSet(set(b)) /\ Cardinality(set(b)) \in Nat
  <2>1. \A b : set(b) \in SUBSET R
    OBVIOUS
  <2>  HIDE DEF set
  <2>  QED
    BY <2>1, FS_Subset, FS_CardinalityType
<1>2. \A b : b \in f[x] => Cardinality(more(b)) = Cardinality(set(b)) + 1
  <2>1. \A b : b \in f[x] => more(b) = set(b) \cup {x} /\ x \notin set(b)
    OBVIOUS
  <2>  HIDE DEF set, more
  <2>  QED
    BY <1>1, <2>1, FS_AddElement
<1>3. \A b : b \notin f[x] => more(b) = set(b)
  OBVIOUS
<1>  HIDE DEF set, more
<1>4. \A b : Cardinality(more(b)) % 2 = 1 <=> (Cardinality(set(b)) % 2 = 1) # (b \in f[x])
  <2>1. \A b : b \in f[x] => (Cardinality(more(b)) % 2 = 1 <=> ~ (Cardinality(set(b)) % 2 = 1))
    BY <1>1, <1>2
  <2>  QED
    BY <1>3, <2>1
<1>5. f[x] \subseteq Int
  OBVIOUS
<1>6. \A b : b \in XorOf(R \cup {x}, f) <=> b \in Int /\ Cardinality(more(b)) % 2 = 1
  BY DEF XorOf, more
<1>7. \A b : b \in XorOf(R, f) <=> b \in Int /\ Cardinality(set(b)) % 2 = 1
  BY DEF XorOf, set
<1>8. \A b : b \in XorOf(R \cup {x}, f) <=> b \in SymDiff(XorOf(R, f), f[x])
  <2>  TAKE b
  <2>1. CASE b \in f[x]
    <3>1. b \in SymDiff(XorOf(R, f), f[x]) <=> b \notin XorOf(R, f)
      BY <2>1 DEF SymDiff
    <3>2. b \in Int
      BY <1>5, <2>1
    <3>  QED
      BY <1>4, <1>6, <1>7, <2>1, <3>1, <3>2
  <2>2. CASE b \notin f[x]
    <3>1. b \in SymDiff(XorOf(R, f), f[x]) <=> b \in XorOf(R, f)
      BY <2>2 DEF SymDiff
    <3>2. more(b) = set(b)
      BY <1>3, <2>2
    <3>  QED
      BY <1>6, <1>7, <3>1, <3>2, Zenon
  <2>  QED
    BY <2>1, <2>2
<1>  QED
  BY <1>8

\* The sum of two sums, term by term.
LEMMA XorOfSum ==
  ASSUME NEW R, IsFiniteSet(R), NEW f, NEW g, NEW h,
         \A i \in R : h[i] = SymDiff(f[i], g[i])
  PROVE  XorOf(R, h) = SymDiff(XorOf(R, f), XorOf(R, g))
<1>  DEFINE A(b) == {i \in R : b \in f[i]}
            B(b) == {i \in R : b \in g[i]}
            C(b) == {i \in R : b \in h[i]}
<1>1. \A b : C(b) = SymDiff(A(b), B(b))
  BY DEF SymDiff
<1>2. \A b : IsFiniteSet(A(b)) /\ IsFiniteSet(B(b))
  <2>1. \A b : A(b) \in SUBSET R /\ B(b) \in SUBSET R
    OBVIOUS
  <2>  HIDE DEF A, B
  <2>  QED
    BY <2>1, FS_Subset
<1>3. \A b : b \in XorOf(R, f) <=> b \in Int /\ Cardinality(A(b)) % 2 = 1
  BY DEF XorOf
<1>4. \A b : b \in XorOf(R, g) <=> b \in Int /\ Cardinality(B(b)) % 2 = 1
  BY DEF XorOf
<1>5. \A b : b \in XorOf(R, h) <=> b \in Int /\ Cardinality(C(b)) % 2 = 1
  BY DEF XorOf
<1>  HIDE DEF A, B, C
<1>6. \A b : Cardinality(C(b)) % 2 = 1 <=> (Cardinality(A(b)) % 2 = 1) # (Cardinality(B(b)) % 2 = 1)
  BY <1>1, <1>2, ParityOfDifference
<1>7. \A b : b \in XorOf(R, h) <=> b \in SymDiff(XorOf(R, f), XorOf(R, g))
  <2>  TAKE b
  <2>1. b \in SymDiff(XorOf(R, f), XorOf(R, g)) <=> (b \in XorOf(R, f)) # (b \in XorOf(R, g))
    BY DEF SymDiff
  <2>  QED
    BY <1>3, <1>4, <1>5, <1>6, <2>1
<1>  QED
  BY <1>7

\* One more number.
LEMMA FirstMore ==
  \A k \in Nat : /\ 0 .. (k + 1) - 1 = (0 .. k - 1) \cup {k} /\ k \notin 0 .. k - 1
               /\ IsFiniteSet(0 .. k - 1)
<1>1. \A k \in Nat : IsFiniteSet(0 .. k - 1)
  BY FS_Interval
<1>2. \A k \in Nat : 0 .. (k + 1) - 1 = (0 .. k - 1) \cup {k} /\ k \notin 0 .. k - 1
  OBVIOUS
<1>  QED
  BY <1>1, <1>2

\* What FoldSet adds up, in whatever order it takes the elements.
SetFold(g, R, f) ==
  g = [s \in SUBSET R |-> IF s = {} THEN {}
                          ELSE SymDiff(g[s \ {CHOOSE x \in s : TRUE}], f[CHOOSE x \in s : TRUE])]

\* A sum without one of its terms, and that term, make the sum.
LEMMA XorOfLess ==
  ASSUME NEW R, IsFiniteSet(R), NEW x \in R, NEW f, f[x] \subseteq Int
  PROVE  XorOf(R, f) = SymDiff(XorOf(R \ {x}, f), f[x])
<1>  DEFINE Q == R \ {x}
<1>1. IsFiniteSet(Q) /\ x \notin Q /\ Q \cup {x} = R
  BY FS_Difference
<1>  HIDE DEF Q
<1>2. XorOf(Q \cup {x}, f) = SymDiff(XorOf(Q, f), f[x])
  BY <1>1, XorOfMore
<1>  QED
  BY <1>1, <1>2 DEF Q

\* The library's fold over a finite set has a value for each of its subsets,
LEMMA SetFoldExists ==
  ASSUME NEW R, IsFiniteSet(R), NEW f, \A i \in R : f[i] \subseteq Int
  PROVE  \E g : SetFold(g, R, f)
<1>  DEFINE g == [s \in SUBSET R |-> XorOf(s, f)]
            e(s) == IF s = {} THEN {}
                    ELSE SymDiff(g[s \ {CHOOSE x \in s : TRUE}], f[CHOOSE x \in s : TRUE])
<1>1. ASSUME NEW s \in SUBSET R PROVE g[s] = e(s)
  <2>1. CASE s = {}
    BY <2>1, XorOfNone
  <2>2. CASE s # {}
    <3>  DEFINE x == CHOOSE x \in s : TRUE
    <3>1. x \in s /\ x \in R
      BY <2>2
    <3>  HIDE DEF x
    <3>2. IsFiniteSet(s) /\ f[x] \subseteq Int
      BY <3>1, FS_Subset
    <3>3. XorOf(s, f) = SymDiff(XorOf(s \ {x}, f), f[x])
      BY <3>1, <3>2, XorOfLess
    <3>4. g[s] = XorOf(s, f) /\ g[s \ {x}] = XorOf(s \ {x}, f)
      OBVIOUS
    <3>5. e(s) = SymDiff(g[s \ {x}], f[x])
      <4>  HIDE DEF g
      <4>  QED
        BY <2>2 DEF x
    <3>  HIDE DEF e, g
    <3>  QED
      BY <3>3, <3>4, <3>5
  <2>  QED
    BY <2>1, <2>2
<1>2. g = [s \in SUBSET R |-> e(s)]
  BY <1>1
<1>  QED
  BY <1>2 DEF SetFold

\* and its value is the sum.
LEMMA SetFoldIs ==
  ASSUME NEW R, IsFiniteSet(R), NEW f, \A i \in R : f[i] \subseteq Int, NEW g, SetFold(g, R, f)
  PROVE  g[R] = XorOf(R, f)
<1>  DEFINE Bad == {s \in SUBSET R : g[s] # XorOf(s, f)}
            I == {Cardinality(s) : s \in Bad}
<1>1. \A s \in SUBSET R : IsFiniteSet(s) /\ Cardinality(s) \in Nat
  BY FS_Subset, FS_CardinalityType
<1>2. \A s \in SUBSET R : g[s] = IF s = {} THEN {}
                                 ELSE SymDiff(g[s \ {CHOOSE x \in s : TRUE}], f[CHOOSE x \in s : TRUE])
  BY Zenon DEF SetFold
<1>3. ASSUME Bad # {} PROVE FALSE
  <2>1. I \in SUBSET Nat /\ I # {}
    BY <1>1, <1>3
  <2>2. PICK n \in I : \A k \in I : n <= k
    <3>  HIDE DEF I
    <3>  QED
      BY <2>1, LeastNatural
  <2>3. PICK s \in Bad : n = Cardinality(s)
    BY <2>2
  <2>4. s # {}
    <3>1. g[{}] = {} /\ XorOf({}, f) = {}
      BY <1>2, XorOfNone
    <3>  QED
      BY <2>3, <3>1
  <2>  DEFINE x == CHOOSE x \in s : TRUE
              Q == s \ {x}
  <2>5. x \in s /\ x \in R
    BY <2>3, <2>4
  <2>6. g[s] = SymDiff(g[Q], f[x])
    BY <1>2, <2>3, <2>4
  <2>  HIDE DEF x
  <2>7. Q \in SUBSET R /\ Cardinality(Q) = n - 1 /\ n \in Nat
    BY <1>1, <2>3, <2>5, FS_RemoveElement
  <2>8. ~ (Cardinality(Q) \in I)
    <3>  HIDE DEF Q, I
    <3>  QED
      BY <2>2, <2>7
  <2>9. g[Q] = XorOf(Q, f)
    BY <2>7, <2>8
  <2>10. XorOf(s, f) = SymDiff(XorOf(Q, f), f[x])
    BY <1>1, <2>3, <2>5, XorOfLess
  <2>  QED
    BY <2>3, <2>6, <2>9, <2>10
<1>4. R \in SUBSET R
  OBVIOUS
<1>  QED
  BY <1>3, <1>4

\* What XorAll adds up.
LEMMA XorAllOver ==
  ASSUME NEW R, NEW f, R = DOMAIN f, IsFiniteSet(R), \A i \in R : f[i] \subseteq Int
  PROVE  XorAll(f) = XorOf(R, f)
<1>1. \E g : SetFold(g, R, f)
  BY SetFoldExists
<1>2. PICK g : SetFold(g, R, f) /\ FoldSet(LAMBDA k, sum : SymDiff(sum, f[k]), {}, R) = g[R]
  BY <1>1, Zenon DEF SetFold, FoldSet, MapThenFoldSet
<1>3. g[R] = XorOf(R, f)
  BY <1>2, SetFoldIs
<1>4. XorAll(f) = FoldSet(LAMBDA k, sum : SymDiff(sum, f[k]), {}, R)
  BY Zenon DEF XorAll
<1>  QED
  BY <1>2, <1>3, <1>4, Zenon

\* So XorAll is the sum over its domain.
LEMMA XorAllIs ==
  ASSUME NEW f, IsFiniteSet(DOMAIN f), \A i \in DOMAIN f : f[i] \subseteq Int
  PROVE  XorAll(f) = XorOf(DOMAIN f, f)
<1>  QED
  BY XorAllOver, Zenon

------------------------------------------------------------------------------
(* What FoldLeft comes to, one element at a time.                          *)

\* Its recursion takes the greatest place first.
SeqFold(g, z, t, n) ==
  g = [s \in SUBSET (1 .. n) |-> IF s = {} THEN z ELSE t[<<g[s \ {Max(s)}], Max(s)>>]]

\* A set of places has a greatest.
LEMMA Greatest ==
  ASSUME NEW n \in Nat, NEW s \in SUBSET (1 .. n), s # {}
  PROVE  Max(s) \in s /\ Max(s) \in 1 .. n /\ \A y \in s : y <= Max(s)
<1>  DEFINE D == {n - y : y \in s}
<1>0. \A y \in s : y \in Nat /\ y <= n /\ n - y \in Nat
  <2>1. \A y \in 1 .. n : y \in Nat /\ y <= n /\ n - y \in Nat
    OBVIOUS
  <2>  QED
    BY <2>1
<1>1. D \in SUBSET Nat /\ D # {}
  BY <1>0
<1>2. PICK d \in D : \A e \in D : d <= e
  <2>  HIDE DEF D
  <2>  QED
    BY <1>1, LeastNatural
<1>3. PICK x \in s : d = n - x
  BY <1>2
<1>4. \A y \in s : x >= y
  <2>1. ASSUME NEW y \in s PROVE x >= y
    <3>1. n - y \in D
      OBVIOUS
    <3>2. n - x <= n - y
      BY <1>2, <1>3, <3>1
    <3>  QED
      BY <1>0, <3>2
  <2>  QED
    BY <2>1
<1>5. Max(s) \in s /\ \A y \in s : Max(s) >= y
  BY <1>3, <1>4, Zenon DEF Max
<1>  QED
  BY <1>5

\* Of the first m, m.
LEMMA MaxOfFirst == \A m \in Nat \ {0} : Max(1 .. m) = m
<1>  TAKE m \in Nat \ {0}
<1>1. m \in 1 .. m /\ 1 .. m # {} /\ 1 .. m \in SUBSET (1 .. m)
  OBVIOUS
<1>2. Max(1 .. m) \in 1 .. m /\ m <= Max(1 .. m)
  BY <1>1, Greatest
<1>  QED
  BY <1>2

\* The recursion has a solution, whose values are where the steps are.
LEMMA SeqFoldExists ==
  ASSUME NEW V, NEW z \in V, NEW n \in Nat, NEW t \in [V \X (1 .. n) -> V]
  PROVE  \E g \in [SUBSET (1 .. n) -> V] : SeqFold(g, z, t, n)
<1>  DEFINE P == SUBSET (1 .. n)
            F == [P -> V]
            step(h, i) == [s \in P |-> IF i \in s THEN t[<<h[s], i>>] ELSE h[s]]
            u == [x \in Nat \X F |-> step(x[2], x[1])]
            base == [s \in P |-> z]
<1>1. \A h \in F, i \in Nat : step(h, i) \in F
  <2>1. ASSUME NEW h \in F, NEW i \in Nat, NEW s \in P
        PROVE  (IF i \in s THEN t[<<h[s], i>>] ELSE h[s]) \in V
    <3>1. h[s] \in V
      OBVIOUS
    <3>2. i \in s => i \in 1 .. n
      OBVIOUS
    <3>  QED
      BY <3>1, <3>2
  <2>  QED
    BY <2>1
<1>2. u \in [Nat \X F -> F]
  <2>  HIDE DEF F, step
  <2>  QED
    BY <1>1
<1>3. base \in F
  OBVIOUS
<1>4. PICK H : Recursive(H, F, base, u, n)
  <2>  HIDE DEF F, u, base
  <2>  QED
    BY <1>2, <1>3, RecursionDefines
<1>5. /\ H \in [0 .. n -> F] /\ H[0] = base
      /\ \A i \in 0 .. n : i # 0 => H[i] = step(H[i - 1], i)
  <2>1. H \in [0 .. n -> F] /\ H[0] = base /\ \A i \in 0 .. n : i # 0 => H[i] = u[<<i, H[i - 1]>>]
    <3>  HIDE DEF F, u, base
    <3>  QED
      BY <1>4 DEF Recursive
  <2>2. ASSUME NEW i \in 0 .. n, i # 0 PROVE H[i] = step(H[i - 1], i)
    <3>1. i - 1 \in 0 .. n /\ i \in Nat
      BY <2>2
    <3>2. H[i - 1] \in F
      <4>  HIDE DEF F
      <4>  QED
        BY <2>1, <3>1
    <3>3. u[<<i, H[i - 1]>>] = step(H[i - 1], i)
      <4>  HIDE DEF F, step
      <4>  QED
        BY <3>1, <3>2
    <3>  QED
      BY <2>1, <2>2, <3>3
  <2>  QED
    BY <2>1, <2>2
<1>  HIDE DEF u
<1>6. \A i \in 0 .. n, s \in P : /\ H[i][s] \in V /\ H[0][s] = z
                                 /\ i # 0 => H[i][s] = IF i \in s THEN t[<<H[i - 1][s], i>>] ELSE H[i - 1][s]
  <2>1. \A i \in 0 .. n : H[i] \in F
    <3>  HIDE DEF F
    <3>  QED
      BY <1>5
  <2>2. \A i \in 0 .. n, s \in P : H[i][s] \in V
    BY <2>1
  <2>3. \A s \in P : H[0][s] = z
    BY <1>5
  <2>4. \A i \in 0 .. n, s \in P : i # 0 => H[i][s] = IF i \in s THEN t[<<H[i - 1][s], i>>] ELSE H[i - 1][s]
    <3>1. \A h : \A i : \A s \in P : step(h, i)[s] = IF i \in s THEN t[<<h[s], i>>] ELSE h[s]
      OBVIOUS
    <3>  HIDE DEF step
    <3>2. ASSUME NEW i \in 0 .. n, i # 0, NEW s \in P
          PROVE  H[i][s] = IF i \in s THEN t[<<H[i - 1][s], i>>] ELSE H[i - 1][s]
      <4>1. H[i] = step(H[i - 1], i)
        BY <1>5, <3>2
      <4>  HIDE DEF P
      <4>  QED
        BY <3>1, <4>1
    <3>  QED
      BY <3>2
  <2>  QED
    BY <2>2, <2>3, <2>4
<1>  HIDE DEF step, base, F
\* Past the greatest nothing changes, and before it the rest are the same.
<1>7. ASSUME NEW s \in P, NEW m \in 0 .. n, \A y \in s : y <= m PROVE H[n][s] = H[m][s]
  <2>  DEFINE D == {i \in m .. n : H[i][s] # H[m][s]}
  <2>1. ASSUME D # {} PROVE FALSE
    <3>1. D \in SUBSET Nat
      OBVIOUS
    <3>2. PICK i \in D : \A k \in D : i <= k
      <4>  HIDE DEF D
      <4>  QED
        BY <2>1, <3>1, LeastNatural
    <3>3. i # m /\ i - 1 \in m .. n /\ i \in 0 .. n /\ i # 0 /\ i \notin s
      BY <1>7, <3>2
    <3>4. H[i - 1][s] = H[m][s]
      BY <3>2, <3>3
    <3>5. H[i][s] = H[i - 1][s]
      <4>1. H[i][s] = IF i \in s THEN t[<<H[i - 1][s], i>>] ELSE H[i - 1][s]
        <5>1. i \in 0 .. n /\ i # 0
          BY <3>3
        <5>2. s \in P
          OBVIOUS
        <5>  HIDE DEF P
        <5>  QED
          BY <1>6, <5>1, <5>2
      <4>  QED
        BY <3>3, <4>1
    <3>  QED
      BY <3>2, <3>4, <3>5
  <2>2. n \in m .. n
    OBVIOUS
  <2>  QED
    BY <2>1, <2>2
<1>8. ASSUME NEW s \in P, NEW q \in P, NEW m \in 0 .. n, \A y \in 1 .. m : y \in s <=> y \in q
      PROVE  H[m][s] = H[m][q]
  <2>  DEFINE D == {i \in 0 .. m : H[i][s] # H[i][q]}
  <2>1. ASSUME D # {} PROVE FALSE
    <3>1. D \in SUBSET Nat
      OBVIOUS
    <3>2. PICK i \in D : \A k \in D : i <= k
      <4>  HIDE DEF D
      <4>  QED
        BY <2>1, <3>1, LeastNatural
    <3>3. i # 0
      BY <1>6, <3>2
    <3>4. i - 1 \in 0 .. m /\ i \in 0 .. n /\ i \in 1 .. m
      BY <1>8, <3>2, <3>3
    <3>5. H[i - 1][s] = H[i - 1][q]
      BY <3>2, <3>4
    <3>6. i \in s <=> i \in q
      BY <1>8, <3>4
    <3>7. H[i][s] = IF i \in s THEN t[<<H[i - 1][s], i>>] ELSE H[i - 1][s]
      BY <1>6, <3>3, <3>4
    <3>8. H[i][q] = IF i \in q THEN t[<<H[i - 1][q], i>>] ELSE H[i - 1][q]
      BY <1>6, <3>3, <3>4
    <3>  QED
      BY <3>2, <3>5, <3>6, <3>7, <3>8
  <2>2. m \in 0 .. m
    OBVIOUS
  <2>  QED
    BY <2>1, <2>2
<1>  DEFINE g == [s \in P |-> H[n][s]]
            e(s) == IF s = {} THEN z ELSE t[<<g[s \ {Max(s)}], Max(s)>>]
<1>9. n \in 0 .. n /\ 0 \in 0 .. n
  OBVIOUS
<1>10. ASSUME NEW s \in P PROVE g[s] = e(s)
  <2>1. CASE s = {}
    <3>1. H[n][s] = H[0][s]
      BY <1>7, <1>9, <2>1
    <3>  QED
      BY <1>6, <1>9, <2>1, <3>1
  <2>2. CASE s # {}
    <3>  DEFINE m == Max(s)
                q == s \ {m}
    <3>1. m \in s /\ m \in 1 .. n /\ \A y \in s : y <= m
      BY <2>2, Greatest
    <3>  HIDE DEF m
    <3>2. q \in P /\ m \in 0 .. n /\ m # 0 /\ m - 1 \in 0 .. n
      BY <3>1
    <3>3. \A y \in q : y <= m - 1
      BY <3>1
    <3>4. \A y \in 1 .. m - 1 : y \in s <=> y \in q
      BY <3>1
    <3>5. g[q] = H[n][q] /\ g[s] = H[n][s]
      BY <3>2
    <3>6. e(s) = t[<<g[q], m>>]
      <4>  HIDE DEF g
      <4>  QED
        BY <2>2 DEF m
    <3>  HIDE DEF q, g, e
    <3>7. H[n][q] = H[m - 1][q]
      BY <1>7, <3>2, <3>3
    <3>8. H[m - 1][s] = H[m - 1][q]
      BY <1>8, <3>2, <3>4
    <3>9. H[n][s] = H[m][s]
      BY <1>7, <3>1, <3>2
    <3>10. H[m][s] = t[<<H[m - 1][s], m>>]
      BY <1>6, <3>1, <3>2
    <3>  QED
      BY <3>5, <3>6, <3>7, <3>8, <3>9, <3>10
  <2>  QED
    BY <2>1, <2>2
<1>11. g \in [P -> V]
  BY <1>6, <1>9
<1>12. g = [s \in P |-> e(s)]
  BY <1>10
<1>13. SeqFold(g, z, t, n)
  BY <1>12 DEF SeqFold
<1>  QED
  BY <1>11, <1>13

\* Its values at the first places are those of the loop.
LEMMA SeqFoldSteps ==
  ASSUME NEW V, NEW z \in V, NEW n \in Nat, NEW t \in [V \X (1 .. n) -> V], NEW g, SeqFold(g, z, t, n)
  PROVE  /\ g[1 .. 0] = z
         /\ \A m \in 1 .. n : g[1 .. m] = t[<<g[1 .. m - 1], m>>]
         /\ \A m \in 0 .. n : g[1 .. m] \in V
<1>1. \A s \in SUBSET (1 .. n) : g[s] = IF s = {} THEN z ELSE t[<<g[s \ {Max(s)}], Max(s)>>]
  BY Zenon DEF SeqFold
<1>2. g[1 .. 0] = z
  <2>1. 1 .. 0 = {} /\ 1 .. 0 \in SUBSET (1 .. n)
    OBVIOUS
  <2>  QED
    BY <1>1, <2>1
<1>3. ASSUME NEW m \in 1 .. n PROVE g[1 .. m] = t[<<g[1 .. m - 1], m>>]
  <2>1. 1 .. m # {} /\ 1 .. m \in SUBSET (1 .. n) /\ (1 .. m) \ {m} = 1 .. m - 1
    OBVIOUS
  <2>2. Max(1 .. m) = m
    BY MaxOfFirst
  <2>3. g[1 .. m] = t[<<g[(1 .. m) \ {Max(1 .. m)}], Max(1 .. m)>>]
    BY <1>1, <2>1, Zenon
  <2>  QED
    BY <2>1, <2>2, <2>3, Zenon
<1>  DEFINE f == [m \in 0 .. n |-> g[1 .. m]]
<1>4. \A m \in 0 .. n : f[m] \in V
  <2>1. f[0] \in V
    BY <1>2
  <2>2. ASSUME NEW m \in 0 .. n, m # 0, f[m - 1] \in V PROVE f[m] \in V
    <3>1. m \in 1 .. n /\ m - 1 \in 0 .. n
      BY <2>2
    <3>2. f[m - 1] = g[1 .. m - 1] /\ f[m] = g[1 .. m]
      BY <3>1
    <3>  HIDE DEF f
    <3>3. <<g[1 .. m - 1], m>> \in V \X (1 .. n)
      BY <2>2, <3>1, <3>2
    <3>  QED
      BY <1>3, <3>1, <3>2, <3>3
  <2>  HIDE DEF f
  <2>  QED
    BY <2>1, <2>2, RecursionIn
<1>  QED
  BY <1>2, <1>3, <1>4

------------------------------------------------------------------------------
(* Words and their parts.                                                  *)

Halves == SUBSET (0 .. Half - 1)

\* The sizes of the parts.
LEMMA Sizes ==
  ASSUME SizesAssumption
  PROVE  /\ Half \in Nat \ {0} /\ Nibble \in Nat \ {0} /\ Bits = 2 * Half /\ Half = 2 * Nibble
         /\ Bits \in Nat
<1>1. Bits \in Nat \ {0} /\ Bits % 4 = 0
  BY DEF SizesAssumption
<1>2. Half = Bits \div 2 /\ Nibble = Bits \div 4
  BY DEF Half, Nibble
<1>  QED
  BY <1>1, <1>2

\* A part of a word, of a sum, and of a word shifted.
LEMMA Parts ==
  /\ \A w : \A n \in Nat : \A k : Part(w, n, k) \in SUBSET (0 .. n - 1)
  /\ \A a, b, n, k : Part(SymDiff(a, b), n, k) = SymDiff(Part(a, n, k), Part(b, n, k))
  /\ \A w, n, k : \A b : b \in Part(w, n, k) <=> b \in 0 .. n - 1 /\ b + n * k \in w
  BY DEF Part, SymDiff

\* What is shifted.
LEMMA Shifts ==
  ASSUME NEW w \in SUBSET Int, NEW n \in Int
  PROVE  Shifted(w, n) \in SUBSET Int /\ \A b : b \in Shifted(w, n) <=> b \in Int /\ b - n \in w
<1>1. \A b : b \in Shifted(w, n) => b \in Int /\ b - n \in w
  <2>1. ASSUME NEW b, b \in Shifted(w, n) PROVE b \in Int /\ b - n \in w
    <3>1. PICK a \in w : b = a + n
      BY <2>1 DEF Shifted
    <3>2. a \in Int
      OBVIOUS
    <3>  QED
      BY <3>1, <3>2
  <2>  QED
    BY <2>1
<1>2. \A b : b \in Int /\ b - n \in w => b \in Shifted(w, n)
  <2>1. ASSUME NEW b \in Int, b - n \in w PROVE b \in Shifted(w, n)
    <3>1. b = (b - n) + n
      OBVIOUS
    <3>  QED
      BY <2>1, <3>1 DEF Shifted
  <2>  QED
    BY <2>1
<1>  QED
  BY <1>1, <1>2

\* A word is the pair of its halves, and a pair's halves are what it was made of.
LEMMA Pairs ==
  ASSUME SizesAssumption
  PROVE  /\ \A w \in Elements : Lo(w) \in Halves /\ Hi(w) \in Halves /\ Pair(Lo(w), Hi(w)) = w
         /\ \A lo, hi \in Halves : /\ Pair(lo, hi) \in Elements
                                   /\ Lo(Pair(lo, hi)) = lo /\ Hi(Pair(lo, hi)) = hi
         /\ \A lo, hi \in Halves : \A b : b \in Pair(lo, hi) <=> b \in lo \/ (b \in Int /\ b - Half \in hi)
<1>1. Half \in Nat \ {0} /\ Bits = 2 * Half
  BY Sizes
<1>2. \A w : /\ \A b : b \in Lo(w) <=> b \in 0 .. Half - 1 /\ b + Half * 0 \in w
             /\ \A b : b \in Hi(w) <=> b \in 0 .. Half - 1 /\ b + Half * 1 \in w
  BY Parts DEF Lo, Hi
<1>3. \A w : Lo(w) \in Halves /\ Hi(w) \in Halves
  BY <1>1, Parts DEF Lo, Hi, Halves
<1>4. ASSUME NEW lo \in Halves, NEW hi \in Halves
      PROVE  \A b : b \in Pair(lo, hi) <=> b \in lo \/ (b \in Int /\ b - Half \in hi)
  <2>1. hi \in SUBSET Int /\ Half \in Int
    BY <1>1 DEF Halves
  <2>  QED
    BY <2>1, Shifts DEF Pair
<1>5. ASSUME NEW w \in Elements PROVE Pair(Lo(w), Hi(w)) = w
  <2>1. \A b \in w : b \in Int /\ 0 <= b /\ b < 2 * Half
    BY <1>1 DEF Elements
  <2>2. \A b : b \in Pair(Lo(w), Hi(w)) <=> b \in Lo(w) \/ (b \in Int /\ b - Half \in Hi(w))
    BY <1>3, <1>4
  <2>3. ASSUME NEW b PROVE b \in Pair(Lo(w), Hi(w)) <=> b \in w
    <3>1. CASE b \in Int
      <4>1. b \in Lo(w) <=> b \in 0 .. Half - 1 /\ b \in w
        <5>1. b + Half * 0 = b
          BY <1>1, <3>1
        <5>  QED
          BY <1>2, <5>1
      <4>2. b - Half \in Hi(w) <=> b - Half \in 0 .. Half - 1 /\ b \in w
        <5>1. (b - Half) + Half * 1 = b
          BY <1>1, <3>1
        <5>  QED
          BY <1>2, <5>1
      <4>3. b \in w => b \in 0 .. Half - 1 \/ b - Half \in 0 .. Half - 1
        BY <1>1, <2>1, <3>1
      <4>  QED
        BY <2>2, <3>1, <4>1, <4>2, <4>3
    <3>2. CASE b \notin Int
      <4>1. b \notin w
        BY <2>1, <3>2
      <4>2. b \notin Lo(w)
        BY <1>1, <1>3, <3>2 DEF Halves
      <4>  QED
        BY <2>2, <3>2, <4>1, <4>2
    <3>  QED
      BY <3>1, <3>2
  <2>  QED
    BY <2>3
<1>6. ASSUME NEW lo \in Halves, NEW hi \in Halves
      PROVE  /\ Pair(lo, hi) \in Elements
             /\ Lo(Pair(lo, hi)) = lo /\ Hi(Pair(lo, hi)) = hi
  <2>1. \A b : b \in Pair(lo, hi) <=> b \in lo \/ (b \in Int /\ b - Half \in hi)
    BY <1>4
  <2>2. \A b : b \in lo \/ b \in hi => b \in 0 .. Half - 1
    BY DEF Halves
  <2>3. Pair(lo, hi) \in Elements
    <3>1. ASSUME NEW b, b \in Pair(lo, hi) PROVE b \in 0 .. Bits - 1
      <4>1. b \in 0 .. Half - 1 \/ (b \in Int /\ b - Half \in 0 .. Half - 1)
        BY <2>1, <2>2, <3>1
      <4>  QED
        BY <1>1, <4>1
    <3>  QED
      BY <3>1 DEF Elements
  <2>4. \A b : b \in Lo(Pair(lo, hi)) <=> b \in lo
    <3>1. ASSUME NEW b \in 0 .. Half - 1 PROVE b \in Pair(lo, hi) <=> b \in lo
      <4>1. b \in Int /\ b - Half \notin 0 .. Half - 1
        BY <1>1
      <4>  QED
        BY <2>1, <2>2, <4>1
    <3>2. \A b \in 0 .. Half - 1 : b + Half * 0 = b
      BY <1>1
    <3>  QED
      BY <1>2, <2>2, <3>1, <3>2
  <2>5. \A b : b \in Hi(Pair(lo, hi)) <=> b \in hi
    <3>1. ASSUME NEW b \in 0 .. Half - 1 PROVE b + Half * 1 \in Pair(lo, hi) <=> b \in hi
      <4>1. b + Half * 1 \in Int /\ (b + Half * 1) - Half = b /\ b + Half * 1 \notin 0 .. Half - 1
        BY <1>1
      <4>  QED
        BY <2>1, <2>2, <4>1
    <3>  QED
      BY <1>2, <2>2, <3>1
  <2>6. Lo(Pair(lo, hi)) = lo
    BY <2>4
  <2>7. Hi(Pair(lo, hi)) = hi
    BY <2>5
  <2>  QED
    BY <2>3, <2>6, <2>7
<1>  QED
  BY <1>3, <1>4, <1>5, <1>6

\* The sum of words is that of their halves.
LEMMA PairOfSums ==
  ASSUME SizesAssumption, NEW a \in Elements, NEW b \in Elements
  PROVE  /\ SymDiff(a, b) \in Elements
         /\ Lo(SymDiff(a, b)) = SymDiff(Lo(a), Lo(b)) /\ Hi(SymDiff(a, b)) = SymDiff(Hi(a), Hi(b))
<1>1. SymDiff(a, b) \in Elements
  BY DEF SymDiff, Elements
<1>  QED
  BY <1>1, Parts DEF Lo, Hi

------------------------------------------------------------------------------
(* The multiplication by nibble tables.                                    *)

Exponents == 0 .. Npar * Rows

\* What is assumed of the field.
LEMMA Field ==
  ASSUME FieldAssumption
  PROVE  /\ \A a \in Elements, e \in Exponents : MulPow(a, e) \in Elements
         /\ \A a \in Elements : MulPow(a, 0) = a
         /\ \A a, b \in Elements, e \in Exponents :
              MulPow(SymDiff(a, b), e) = SymDiff(MulPow(a, e), MulPow(b, e))
         /\ \A a \in Elements, e, f \in Exponents : MulPow(MulPow(a, e), f) = MulPow(a, e + f)
         /\ \A a \in Elements, e \in Exponents : Mul(a, Pow(e)) = MulPow(a, e)
  BY Zenon DEF FieldAssumption, Exponents

\* A pair of halves is the sum of its nibbles, each in its place.
LEMMA Nibbles ==
  ASSUME SizesAssumption, NEW lo \in Halves, NEW hi \in Halves
  PROVE  LET n == <<Part(lo, Nibble, 0), Part(lo, Nibble, 1), Part(hi, Nibble, 0), Part(hi, Nibble, 1)>>
             w(i) == Shifted(n[i + 1], Nibble * i)
         IN  /\ \A i \in 0 .. 3 : w(i) \in Elements /\ n[i + 1] \in SUBSET (0 .. Nibble - 1)
             /\ Pair(lo, hi) = SymDiff(SymDiff(SymDiff(w(0), w(1)), w(2)), w(3))
<1>  DEFINE n == <<Part(lo, Nibble, 0), Part(lo, Nibble, 1), Part(hi, Nibble, 0), Part(hi, Nibble, 1)>>
            w(i) == Shifted(n[i + 1], Nibble * i)
            N == Nibble
<1>1. Nibble \in Nat \ {0} /\ Half = 2 * N /\ Bits = 4 * N /\ Bits = 2 * Half
  BY Sizes
<1>2. /\ n[1] = Part(lo, N, 0) /\ n[2] = Part(lo, N, 1)
      /\ n[3] = Part(hi, N, 0) /\ n[4] = Part(hi, N, 1)
  OBVIOUS
<1>3. \A i \in 1 .. 4 : n[i] \in SUBSET (0 .. N - 1)
  <2>1. \A k : Part(lo, N, k) \in SUBSET (0 .. N - 1) /\ Part(hi, N, k) \in SUBSET (0 .. N - 1)
    BY <1>1, Parts
  <2>2. \A i \in 1 .. 4 : i = 1 \/ i = 2 \/ i = 3 \/ i = 4
    OBVIOUS
  <2>  HIDE DEF n, N
  <2>  QED
    BY <1>2, <2>1, <2>2
<1>4. /\ \A b : b \in n[1] <=> b \in 0 .. N - 1 /\ b + N * 0 \in lo
      /\ \A b : b \in n[2] <=> b \in 0 .. N - 1 /\ b + N * 1 \in lo
      /\ \A b : b \in n[3] <=> b \in 0 .. N - 1 /\ b + N * 0 \in hi
      /\ \A b : b \in n[4] <=> b \in 0 .. N - 1 /\ b + N * 1 \in hi
  <2>  HIDE DEF n, N
  <2>  QED
    BY <1>2, Parts
<1>5. /\ w(0) = Shifted(n[1], N * 0) /\ w(1) = Shifted(n[2], N * 1)
      /\ w(2) = Shifted(n[3], N * 2) /\ w(3) = Shifted(n[4], N * 3)
  OBVIOUS
<1>  HIDE DEF n
<1>6. \A i \in 0 .. 3 : i + 1 \in 1 .. 4 /\ N * i \in Int /\ n[i + 1] \in SUBSET Int
  <2>1. \A i \in 0 .. 3 : i + 1 \in 1 .. 4 /\ N * i \in Int
    BY <1>1
  <2>2. 0 .. N - 1 \subseteq Int
    BY <1>1
  <2>  QED
    BY <1>3, <2>1, <2>2
<1>7. \A i \in 0 .. 3 : \A b : b \in w(i) <=> b \in Int /\ b - N * i \in n[i + 1]
  BY <1>6, Shifts
<1>8. \A i \in 0 .. 3 : w(i) \in Elements
  <2>1. ASSUME NEW i \in 0 .. 3, NEW b \in w(i) PROVE b \in 0 .. Bits - 1
    <3>1. b \in Int /\ b - N * i \in 0 .. N - 1
      BY <1>3, <1>6, <1>7
    <3>2. i = 0 \/ i = 1 \/ i = 2 \/ i = 3
      OBVIOUS
    <3>  QED
      BY <1>1, <3>1, <3>2
  <2>  QED
    BY <2>1 DEF Elements
<1>9. \A b : b \in Pair(lo, hi) <=> b \in lo \/ (b \in Int /\ b - Half \in hi)
  BY Pairs
<1>10. (\A b \in lo : b \in 0 .. Half - 1) /\ (\A b \in hi : b \in 0 .. Half - 1)
  BY DEF Halves
<1>11. /\ \A b : b \in w(0) <=> b \in 0 .. N - 1 /\ b \in lo
       /\ \A b : b \in w(1) <=> b \in N .. 2 * N - 1 /\ b \in lo
       /\ \A b : b \in w(2) <=> b \in 2 * N .. 3 * N - 1 /\ b - Half \in hi
       /\ \A b : b \in w(3) <=> b \in 3 * N .. 4 * N - 1 /\ b - Half \in hi
  <2>1. \A b : b \in w(0) <=> b \in 0 .. N - 1 /\ b \in lo
    <3>1. \A b : b \in w(0) <=> b \in Int /\ b - N * 0 \in n[1]
      BY <1>7
    <3>2. \A b \in Int : b - N * 0 = b /\ b + N * 0 = b
      BY <1>1
    <3>3. 0 .. N - 1 \subseteq Int
      BY <1>1
    <3>  HIDE DEF w, N
    <3>  QED
      BY <1>4, <3>1, <3>2, <3>3
  <2>2. \A b : b \in w(1) <=> b \in N .. 2 * N - 1 /\ b \in lo
    <3>1. \A b : b \in w(1) <=> b \in Int /\ b - N * 1 \in n[2]
      BY <1>7
    <3>2. \A b \in Int : /\ b - N * 1 \in 0 .. N - 1 <=> b \in N .. 2 * N - 1
                         /\ (b - N * 1) + N * 1 = b
      BY <1>1
    <3>3. N .. 2 * N - 1 \subseteq Int
      BY <1>1
    <3>  HIDE DEF w, N
    <3>  QED
      BY <1>4, <3>1, <3>2, <3>3
  <2>3. \A b : b \in w(2) <=> b \in 2 * N .. 3 * N - 1 /\ b - Half \in hi
    <3>1. \A b : b \in w(2) <=> b \in Int /\ b - N * 2 \in n[3]
      BY <1>7
    <3>2. \A b \in Int : /\ b - N * 2 \in 0 .. N - 1 <=> b \in 2 * N .. 3 * N - 1
                         /\ (b - N * 2) + N * 0 = b - Half
      BY <1>1
    <3>3. 2 * N .. 3 * N - 1 \subseteq Int
      BY <1>1
    <3>  HIDE DEF w, N
    <3>  QED
      BY <1>4, <3>1, <3>2, <3>3
  <2>4. \A b : b \in w(3) <=> b \in 3 * N .. 4 * N - 1 /\ b - Half \in hi
    <3>1. \A b : b \in w(3) <=> b \in Int /\ b - N * 3 \in n[4]
      BY <1>7
    <3>2. \A b \in Int : /\ b - N * 3 \in 0 .. N - 1 <=> b \in 3 * N .. 4 * N - 1
                         /\ (b - N * 3) + N * 1 = b - Half
      BY <1>1
    <3>3. 3 * N .. 4 * N - 1 \subseteq Int
      BY <1>1
    <3>  HIDE DEF w, N
    <3>  QED
      BY <1>4, <3>1, <3>2, <3>3
  <2>  QED
    BY <2>1, <2>2, <2>3, <2>4
<1>  DEFINE sum == SymDiff(SymDiff(SymDiff(w(0), w(1)), w(2)), w(3))
<1>12. \A b : b \in sum <=> ((b \in w(0) <=> ~ (b \in w(1))) <=> (b \in w(2) <=> b \in w(3)))
  <2>  HIDE DEF w
  <2>  QED
    BY DEF SymDiff
<1>  HIDE DEF w, sum
<1>13. \A b : b \in Pair(lo, hi) <=> b \in sum
  <2>1. ASSUME NEW b \in Int PROVE b \in Pair(lo, hi) <=> b \in sum
    <3>1. CASE b \in 0 .. Half - 1
      <4>1. b - Half \notin 0 .. Half - 1 /\ b \notin 2 * N .. 3 * N - 1 /\ b \notin 3 * N .. 4 * N - 1
        BY <1>1, <3>1
      <4>2. b \in 0 .. N - 1 <=> b \notin N .. 2 * N - 1
        BY <1>1, <3>1
      <4>  HIDE DEF N
      <4>  QED
        BY <1>9, <1>10, <1>11, <1>12, <4>1, <4>2
    <3>2. CASE b \in Half .. Bits - 1
      <4>1. b \notin 0 .. Half - 1 /\ b \notin 0 .. N - 1 /\ b \notin N .. 2 * N - 1
        BY <1>1, <3>2
      <4>2. b \in 2 * N .. 3 * N - 1 <=> b \notin 3 * N .. 4 * N - 1
        BY <1>1, <3>2
      <4>  HIDE DEF N
      <4>  QED
        BY <1>9, <1>10, <1>11, <1>12, <4>1, <4>2
    <3>3. CASE b \notin 0 .. Half - 1 /\ b \notin Half .. Bits - 1
      <4>1. /\ b \notin 0 .. N - 1 /\ b \notin N .. 2 * N - 1 /\ b - Half \notin 0 .. Half - 1
            /\ b \notin 2 * N .. 3 * N - 1 /\ b \notin 3 * N .. 4 * N - 1
        BY <1>1, <3>3
      <4>  HIDE DEF N
      <4>  QED
        BY <1>9, <1>10, <1>11, <1>12, <3>3, <4>1
    <3>  QED
      BY <3>1, <3>2, <3>3
  <2>2. ASSUME NEW b, b \notin Int PROVE b \in Pair(lo, hi) <=> b \in sum
    <3>1. b \notin lo
      BY <1>1, <1>10, <2>2
    <3>2. \A i \in 0 .. 3 : b \notin w(i)
      BY <1>7, <2>2 DEF w
    <3>3. b \notin sum
      BY <1>12, <3>2
    <3>  QED
      BY <1>9, <2>2, <3>1, <3>3
  <2>  QED
    BY <2>1, <2>2
<1>14. Pair(lo, hi) = sum
  BY <1>13
<1>15. \A i \in 0 .. 3 : n[i + 1] \in SUBSET (0 .. Nibble - 1)
  BY <1>3
<1>  QED
  BY <1>8, <1>14, <1>15, Zenon DEF n, w, sum

\* What a nibble table holds.
LEMMA NibTabIs ==
  ASSUME SizesAssumption, FieldAssumption, NEW e \in Exponents
  PROVE  \A i \in 0 .. 3, n \in SUBSET (0 .. Nibble - 1) :
           Shifted(n, Nibble * i) \in Elements => NibTab(e)[i][n] = MulPow(Shifted(n, Nibble * i), e)
<1>1. \A i \in 0 .. 3, n \in SUBSET (0 .. Nibble - 1) : NibTab(e)[i][n] = Mul(Shifted(n, Nibble * i), Pow(e))
  BY DEF NibTab
<1>  QED
  BY <1>1, Field

\* The sums of four halves are the halves of the sum.
LEMMA HalvesOfFour ==
  ASSUME SizesAssumption, NEW a \in Elements, NEW b \in Elements, NEW c \in Elements, NEW d \in Elements
  PROVE  LET sum == SymDiff(SymDiff(SymDiff(a, b), c), d)
         IN  /\ sum \in Elements
             /\ SymDiff(SymDiff(Lo(a), Lo(b)), SymDiff(Lo(c), Lo(d))) = Lo(sum)
             /\ SymDiff(SymDiff(Hi(a), Hi(b)), SymDiff(Hi(c), Hi(d))) = Hi(sum)
<1>  DEFINE x == SymDiff(a, b)
            y == SymDiff(x, c)
<1>1. x \in Elements /\ Lo(x) = SymDiff(Lo(a), Lo(b)) /\ Hi(x) = SymDiff(Hi(a), Hi(b))
  BY PairOfSums
<1>  HIDE DEF x
<1>2. y \in Elements /\ Lo(y) = SymDiff(Lo(x), Lo(c)) /\ Hi(y) = SymDiff(Hi(x), Hi(c))
  BY <1>1, PairOfSums
<1>  HIDE DEF y
<1>3. /\ SymDiff(y, d) \in Elements
      /\ Lo(SymDiff(y, d)) = SymDiff(Lo(y), Lo(d)) /\ Hi(SymDiff(y, d)) = SymDiff(Hi(y), Hi(d))
  BY <1>2, PairOfSums
<1>4. \A u, v, w, z : SymDiff(SymDiff(u, v), SymDiff(w, z)) = SymDiff(SymDiff(SymDiff(u, v), w), z)
  <2>1. ASSUME NEW u, NEW v, NEW w, NEW z
        PROVE  SymDiff(SymDiff(u, v), SymDiff(w, z)) = SymDiff(SymDiff(SymDiff(u, v), w), z)
    BY XorSets
  <2>  QED
    BY <2>1
<1>5. /\ SymDiff(SymDiff(Lo(a), Lo(b)), SymDiff(Lo(c), Lo(d))) = SymDiff(SymDiff(SymDiff(Lo(a), Lo(b)), Lo(c)), Lo(d))
      /\ SymDiff(SymDiff(Hi(a), Hi(b)), SymDiff(Hi(c), Hi(d))) = SymDiff(SymDiff(SymDiff(Hi(a), Hi(b)), Hi(c)), Hi(d))
  BY <1>4
<1>6. SymDiff(y, d) = SymDiff(SymDiff(SymDiff(a, b), c), d)
  BY DEF x, y
<1>  QED
  BY <1>1, <1>2, <1>3, <1>5, <1>6

\* A product of a sum of four.
LEMMA ProductOfFour ==
  ASSUME SizesAssumption, FieldAssumption, NEW e \in Exponents,
         NEW a \in Elements, NEW b \in Elements, NEW c \in Elements, NEW d \in Elements
  PROVE  MulPow(SymDiff(SymDiff(SymDiff(a, b), c), d), e)
           = SymDiff(SymDiff(SymDiff(MulPow(a, e), MulPow(b, e)), MulPow(c, e)), MulPow(d, e))
<1>  DEFINE x == SymDiff(a, b)
            y == SymDiff(x, c)
<1>1. x \in Elements /\ MulPow(x, e) = SymDiff(MulPow(a, e), MulPow(b, e))
  BY Field, PairOfSums
<1>  HIDE DEF x
<1>2. y \in Elements /\ MulPow(y, e) = SymDiff(MulPow(x, e), MulPow(c, e))
  BY <1>1, Field, PairOfSums
<1>  HIDE DEF y
<1>3. MulPow(SymDiff(y, d), e) = SymDiff(MulPow(y, e), MulPow(d, e))
  BY <1>2, Field
<1>  QED
  BY <1>1, <1>2, <1>3, Zenon DEF x, y

\* mul_const32 multiplies.
LEMMA MulConstIs ==
  ASSUME SizesAssumption, FieldAssumption, NEW e \in Exponents, NEW lo \in Halves, NEW hi \in Halves
  PROVE  MulConst(NibTab(e), lo, hi) = MulPow(Pair(lo, hi), e)
<1>  DEFINE n == <<Part(lo, Nibble, 0), Part(lo, Nibble, 1), Part(hi, Nibble, 0), Part(hi, Nibble, 1)>>
            w(i) == Shifted(n[i + 1], Nibble * i)
            t(i) == NibTab(e)[i][n[i + 1]]
<1>1. /\ \A i \in 0 .. 3 : w(i) \in Elements /\ n[i + 1] \in SUBSET (0 .. Nibble - 1)
      /\ Pair(lo, hi) = SymDiff(SymDiff(SymDiff(w(0), w(1)), w(2)), w(3))
  BY Nibbles
<1>2. \A i \in 0 .. 3 : t(i) = MulPow(w(i), e) /\ t(i) \in Elements
  <2>  HIDE DEF n
  <2>  QED
    BY <1>1, NibTabIs, Field
<1>3. /\ t(0) = NibTab(e)[0][Part(lo, Nibble, 0)] /\ t(1) = NibTab(e)[1][Part(lo, Nibble, 1)]
      /\ t(2) = NibTab(e)[2][Part(hi, Nibble, 0)] /\ t(3) = NibTab(e)[3][Part(hi, Nibble, 1)]
  <2>1. /\ n[0 + 1] = Part(lo, Nibble, 0) /\ n[1 + 1] = Part(lo, Nibble, 1)
        /\ n[2 + 1] = Part(hi, Nibble, 0) /\ n[3 + 1] = Part(hi, Nibble, 1)
    OBVIOUS
  <2>  HIDE DEF n
  <2>  QED
    BY <2>1
<1>  HIDE DEF n, t, w
<1>  DEFINE v == <<t(0), t(1), t(2), t(3)>>
<1>4. v[1] = t(0) /\ v[2] = t(1) /\ v[3] = t(2) /\ v[4] = t(3)
  OBVIOUS
<1>5. MulConst(NibTab(e), lo, hi)
        = Pair(SymDiff(SymDiff(Lo(v[1]), Lo(v[2])), SymDiff(Lo(v[3]), Lo(v[4]))),
               SymDiff(SymDiff(Hi(v[1]), Hi(v[2])), SymDiff(Hi(v[3]), Hi(v[4]))))
  BY <1>3, Zenon DEF MulConst
<1>  HIDE DEF v
<1>  DEFINE sum == SymDiff(SymDiff(SymDiff(t(0), t(1)), t(2)), t(3))
<1>6. /\ t(0) \in Elements /\ t(1) \in Elements /\ t(2) \in Elements /\ t(3) \in Elements
      /\ w(0) \in Elements /\ w(1) \in Elements /\ w(2) \in Elements /\ w(3) \in Elements
      /\ t(0) = MulPow(w(0), e) /\ t(1) = MulPow(w(1), e) /\ t(2) = MulPow(w(2), e)
      /\ t(3) = MulPow(w(3), e)
  BY <1>1, <1>2
<1>7. /\ sum \in Elements
      /\ SymDiff(SymDiff(Lo(t(0)), Lo(t(1))), SymDiff(Lo(t(2)), Lo(t(3)))) = Lo(sum)
      /\ SymDiff(SymDiff(Hi(t(0)), Hi(t(1))), SymDiff(Hi(t(2)), Hi(t(3)))) = Hi(sum)
  BY <1>6, HalvesOfFour
<1>8. MulPow(Pair(lo, hi), e) = sum
  BY <1>1, <1>6, ProductOfFour
<1>  HIDE DEF sum
<1>9. Pair(Lo(sum), Hi(sum)) = sum
  BY <1>7, Pairs
<1>  QED
  BY <1>4, <1>5, <1>7, <1>8, <1>9, Zenon
------------------------------------------------------------------------------
(* The split of a row.                                                     *)

\* Quotient and remainder.
LEMMA DivMod ==
  /\ \A n \in Nat, m \in Nat \ {0} : n = m * (n \div m) + (n % m) /\ n % m \in 0 .. m - 1 /\ n \div m \in Nat
  /\ \A m \in Nat \ {0}, q \in Nat : \A t \in 0 .. m - 1 : (m * q + t) \div m = q /\ (m * q + t) % m = t
  /\ \A n \in Nat, m \in Nat \ {0}, q \in Nat : n < m * q => n \div m < q
<1>1. \A n \in Nat, m \in Nat \ {0} : n = m * (n \div m) + (n % m) /\ n % m \in 0 .. m - 1 /\ n \div m \in Nat
  BY SMTT(30)
<1>2. \A m \in Nat \ {0}, q \in Nat : \A t \in 0 .. m - 1 : (m * q + t) \div m = q /\ (m * q + t) % m = t
  BY SMTT(30)
<1>3. \A n \in Nat, m \in Nat \ {0}, q \in Nat : n < m * q => n \div m < q
  BY SMTT(30)
<1>  QED
  BY <1>1, <1>2, <1>3

\* split32 keeps every low byte, and every high byte, in the order of the elements.
LEMMA SplitIs ==
  ASSUME SizesAssumption, NEW v, NEW from \in Nat
  PROVE  \A i \in 0 .. VecLen - 1 : /\ Split(v, from).lo[i + 1] = Lo(v[from + i])
                                    /\ Split(v, from).hi[i + 1] = Hi(v[from + i])
<1>0. Quad \in Nat \ {0} /\ VecLen = 4 * Quad
  BY DEF SizesAssumption, VecLen
<1>  DEFINE qlo(f, k) == [n \in 1 .. Quad |-> Lo(v[f + k * Quad + n - 1])]
            qhi(f, k) == [n \in 1 .. Quad |-> Hi(v[f + k * Quad + n - 1])]
            g == from + 2 * Quad
            lo == <<qlo(from, 0), qlo(from, 1), qlo(g, 0), qlo(g, 1)>>
            hi == <<qhi(from, 0), qhi(from, 1), qhi(g, 0), qhi(g, 1)>>
<1>1. Shuffled(v, from) = <<qlo(from, 0), qhi(from, 0), qlo(from, 1), qhi(from, 1)>>
  BY Zenon DEF Shuffled
<1>2. Shuffled(v, g) = <<qlo(g, 0), qhi(g, 0), qlo(g, 1), qhi(g, 1)>>
  BY Zenon DEF Shuffled
<1>  HIDE DEF qlo, qhi
<1>3. Permuted(UnpackLo(Shuffled(v, from), Shuffled(v, g))) = lo
  BY <1>1, <1>2 DEF Permuted, UnpackLo
<1>4. Permuted(UnpackHi(Shuffled(v, from), Shuffled(v, g))) = hi
  BY <1>1, <1>2 DEF Permuted, UnpackHi
<1>5. Split(v, from).lo = Run(lo) /\ Split(v, from).hi = Run(hi)
  <2>1. Split(v, from) = [lo |-> Run(Permuted(UnpackLo(Shuffled(v, from), Shuffled(v, g)))),
                          hi |-> Run(Permuted(UnpackHi(Shuffled(v, from), Shuffled(v, g))))]
    BY Zenon DEF Split
  <2>2. Split(v, from) = [lo |-> Run(lo), hi |-> Run(hi)]
    BY <1>3, <1>4, <2>1
  <2>  HIDE DEF lo, hi
  <2>  QED
    BY <2>2
<1>6. /\ lo[1] = qlo(from, 0) /\ lo[2] = qlo(from, 1) /\ lo[3] = qlo(g, 0) /\ lo[4] = qlo(g, 1)
      /\ hi[1] = qhi(from, 0) /\ hi[2] = qhi(from, 1) /\ hi[3] = qhi(g, 0) /\ hi[4] = qhi(g, 1)
  OBVIOUS
<1>7. \A n \in 1 .. Quad : /\ from + 0 * Quad + n - 1 = from + (n - 1) /\ n - 1 \in 0 .. VecLen - 1
                           /\ from + 1 * Quad + n - 1 = from + (Quad + n - 1) /\ Quad + n - 1 \in 0 .. VecLen - 1
                           /\ g + 0 * Quad + n - 1 = from + (2 * Quad + n - 1) /\ 2 * Quad + n - 1 \in 0 .. VecLen - 1
                           /\ g + 1 * Quad + n - 1 = from + (3 * Quad + n - 1) /\ 3 * Quad + n - 1 \in 0 .. VecLen - 1
  BY <1>0
<1>  HIDE DEF lo, hi, g
<1>8. /\ \A f, k : qlo(f, k) = [n \in 1 .. Quad |-> Lo(v[f + k * Quad + n - 1])]
      /\ \A f, k : qhi(f, k) = [n \in 1 .. Quad |-> Hi(v[f + k * Quad + n - 1])]
  BY Zenon DEF qlo, qhi
<1>9. \A n \in 1 .. Quad : /\ qlo(from, 0)[n] = Lo(v[from + (n - 1)]) /\ qlo(from, 1)[n] = Lo(v[from + (Quad + n - 1)])
                            /\ qlo(g, 0)[n] = Lo(v[from + (2 * Quad + n - 1)]) /\ qlo(g, 1)[n] = Lo(v[from + (3 * Quad + n - 1)])
                            /\ qhi(from, 0)[n] = Hi(v[from + (n - 1)]) /\ qhi(from, 1)[n] = Hi(v[from + (Quad + n - 1)])
                            /\ qhi(g, 0)[n] = Hi(v[from + (2 * Quad + n - 1)]) /\ qhi(g, 1)[n] = Hi(v[from + (3 * Quad + n - 1)])
  <2>  TAKE n \in 1 .. Quad
  <2>1. \A f, k : qlo(f, k)[n] = Lo(v[f + k * Quad + n - 1]) /\ qhi(f, k)[n] = Hi(v[f + k * Quad + n - 1])
    BY <1>8
  <2>2. /\ qlo(from, 0)[n] = Lo(v[from + 0 * Quad + n - 1]) /\ qlo(from, 1)[n] = Lo(v[from + 1 * Quad + n - 1])
        /\ qlo(g, 0)[n] = Lo(v[g + 0 * Quad + n - 1]) /\ qlo(g, 1)[n] = Lo(v[g + 1 * Quad + n - 1])
        /\ qhi(from, 0)[n] = Hi(v[from + 0 * Quad + n - 1]) /\ qhi(from, 1)[n] = Hi(v[from + 1 * Quad + n - 1])
        /\ qhi(g, 0)[n] = Hi(v[g + 0 * Quad + n - 1]) /\ qhi(g, 1)[n] = Hi(v[g + 1 * Quad + n - 1])
    BY <2>1, Zenon
  <2>  QED
    BY <1>7, <2>2
<1>10. ASSUME NEW i \in 0 .. VecLen - 1 PROVE Run(lo)[i + 1] = Lo(v[from + i]) /\ Run(hi)[i + 1] = Hi(v[from + i])
  <2>  DEFINE k == i \div Quad
              n == (i % Quad) + 1
  <2>1. i \in Nat /\ i < Quad * 4 /\ i + 1 \in 1 .. VecLen /\ (i + 1) - 1 = i
    BY <1>0
  <2>2. i = Quad * k + (n - 1) /\ n \in 1 .. Quad /\ k \in 0 .. 3
    BY <1>0, <2>1, DivMod
  <2>3. \A q : Run(q)[i + 1] = q[k + 1][n]
    <3>1. \A q : Run(q)[i + 1] = q[((i + 1) - 1) \div Quad + 1][(((i + 1) - 1) % Quad) + 1]
      BY <2>1 DEF Run
    <3>  QED
      BY <2>1, <3>1
  <2>  HIDE DEF k, n
  <2>4. CASE k = 0
    <3>1. n - 1 = i /\ k + 1 = 1
      BY <1>0, <2>2, <2>4
    <3>2. Run(lo)[i + 1] = lo[1][n] /\ Run(hi)[i + 1] = hi[1][n]
      BY <2>3, <3>1
    <3>3. Run(lo)[i + 1] = qlo(from, 0)[n] /\ Run(hi)[i + 1] = qhi(from, 0)[n]
      BY <1>6, <3>2
    <3>  QED
      BY <1>9, <2>2, <3>1, <3>3
  <2>5. CASE k = 1
    <3>1. Quad + n - 1 = i /\ k + 1 = 2
      BY <1>0, <2>2, <2>5
    <3>2. Run(lo)[i + 1] = lo[2][n] /\ Run(hi)[i + 1] = hi[2][n]
      BY <2>3, <3>1
    <3>3. Run(lo)[i + 1] = qlo(from, 1)[n] /\ Run(hi)[i + 1] = qhi(from, 1)[n]
      BY <1>6, <3>2
    <3>  QED
      BY <1>9, <2>2, <3>1, <3>3
  <2>6. CASE k = 2
    <3>1. 2 * Quad + n - 1 = i /\ k + 1 = 3
      BY <1>0, <2>2, <2>6
    <3>2. Run(lo)[i + 1] = lo[3][n] /\ Run(hi)[i + 1] = hi[3][n]
      BY <2>3, <3>1
    <3>3. Run(lo)[i + 1] = qlo(g, 0)[n] /\ Run(hi)[i + 1] = qhi(g, 0)[n]
      BY <1>6, <3>2
    <3>  QED
      BY <1>9, <2>2, <3>1, <3>3
  <2>7. CASE k = 3
    <3>1. 3 * Quad + n - 1 = i /\ k + 1 = 4
      BY <1>0, <2>2, <2>7
    <3>2. Run(lo)[i + 1] = lo[4][n] /\ Run(hi)[i + 1] = hi[4][n]
      BY <2>3, <3>1
    <3>3. Run(lo)[i + 1] = qlo(g, 1)[n] /\ Run(hi)[i + 1] = qhi(g, 1)[n]
      BY <1>6, <3>2
    <3>  QED
      BY <1>9, <2>2, <3>1, <3>3
  <2>  QED
    BY <2>2, <2>4, <2>5, <2>6, <2>7
<1>  QED
  BY <1>5, <1>10

\* The vectors cover the first Vec columns.
LEMMA Vectors ==
  ASSUME SizesAssumption
  PROVE  /\ VecLen \in Nat \ {0} /\ Vec = VecLen * (S \div VecLen) /\ S \div VecLen \in Nat
         /\ Vec \div VecLen = S \div VecLen
         /\ \A c \in 0 .. Vec - 1 : /\ c \div VecLen \in 0 .. Vec \div VecLen - 1
                                    /\ c % VecLen \in 0 .. VecLen - 1
                                    /\ (c \div VecLen) * VecLen \in Nat
                                    /\ (c \div VecLen) * VecLen + (c % VecLen) = c
<1>1. S \in Nat /\ VecLen \in Nat \ {0}
  BY DEF SizesAssumption, VecLen
<1>  DEFINE d == S \div VecLen
<1>2. S = VecLen * d + (S % VecLen) /\ d \in Nat /\ S % VecLen \in 0 .. VecLen - 1
  BY <1>1, DivMod
<1>  HIDE DEF d
<1>3. VecLen * d \in Nat
  BY <1>1, <1>2
<1>4. Vec = VecLen * d
  BY <1>1, <1>2, <1>3 DEF Vec
<1>5. (VecLen * d + 0) \div VecLen = d
  <2>1. 0 \in 0 .. VecLen - 1
    BY <1>1
  <2>  QED
    BY <1>1, <1>2, <2>1, DivMod
<1>6. Vec \div VecLen = d
  <2>1. VecLen * d + 0 = VecLen * d
    BY <1>3
  <2>  QED
    BY <1>4, <1>5, <2>1
<1>7. ASSUME NEW c \in 0 .. Vec - 1
      PROVE  /\ c \div VecLen \in 0 .. d - 1 /\ c % VecLen \in 0 .. VecLen - 1
             /\ (c \div VecLen) * VecLen \in Nat
             /\ (c \div VecLen) * VecLen + (c % VecLen) = c
  <2>1. c \in Nat /\ c < VecLen * d
    BY <1>3, <1>4
  <2>2. c = VecLen * (c \div VecLen) + (c % VecLen) /\ c % VecLen \in 0 .. VecLen - 1 /\ c \div VecLen \in Nat
    BY <1>1, <2>1, DivMod
  <2>3. c \div VecLen < d
    BY <1>1, <1>2, <2>1, DivMod
  <2>4. \A q, m \in Nat : q * m = m * q /\ q * m \in Nat
    OBVIOUS
  <2>5. (c \div VecLen) * VecLen = VecLen * (c \div VecLen) /\ (c \div VecLen) * VecLen \in Nat
    BY <1>1, <2>2, <2>4
  <2>6. c \div VecLen \in 0 .. d - 1
    BY <1>2, <2>2, <2>3
  <2>  QED
    BY <2>2, <2>5, <2>6
<1>  QED
  BY <1>1, <1>2, <1>4, <1>6, <1>7 DEF d

\* The scratch holds the row.
LEMMA ScratchIs ==
  ASSUME SizesAssumption, NEW v, \A c \in Columns : v[c] \in Elements
  PROVE  \A c \in Columns : Scratch(v)[c] = v[c]
<1>  DEFINE vectors == [k \in 0 .. Vec \div VecLen - 1 |-> Split(v, k * VecLen)]
<1>1. \A c \in Columns : Scratch(v)[c] = IF c < Vec
        THEN Pair(vectors[c \div VecLen].lo[(c % VecLen) + 1], vectors[c \div VecLen].hi[(c % VecLen) + 1])
        ELSE v[c]
  BY DEF Scratch, Columns
<1>2. ASSUME NEW c \in Columns, c < Vec PROVE Scratch(v)[c] = v[c]
  <2>  DEFINE k == c \div VecLen
              i == c % VecLen
              from == k * VecLen
  <2>1. c \in 0 .. Vec - 1
    <3>1. S \in Nat /\ Vec \in Nat
      BY Vectors DEF SizesAssumption
    <3>  QED
      BY <1>2, <3>1 DEF Columns
  <2>2. k \in 0 .. Vec \div VecLen - 1 /\ i \in 0 .. VecLen - 1 /\ from \in Nat /\ from + i = c
    BY <2>1, Vectors
  <2>3. vectors[k] = Split(v, from)
    BY <2>2
  <2>4. Scratch(v)[c] = Pair(vectors[k].lo[i + 1], vectors[k].hi[i + 1])
    BY <1>1, <1>2
  <2>  HIDE DEF k, i, from, vectors
  <2>5. Split(v, from).lo[i + 1] = Lo(v[from + i]) /\ Split(v, from).hi[i + 1] = Hi(v[from + i])
    BY <2>2, SplitIs
  <2>6. Pair(Lo(v[c]), Hi(v[c])) = v[c]
    BY Pairs
  <2>  QED
    BY <2>2, <2>3, <2>4, <2>5, <2>6
<1>  QED
  BY <1>1, <1>2

------------------------------------------------------------------------------
(* Syndromes.                                                              *)

\* The word of a row in a column.
WordOf(i, j, c) == i.words[(i.first + j * S + c) + 1]

\* The syndrome of a column: Horner's sum, written out.
SumOf(i, r, c, n) == XorOf(0 .. n - 1, [j \in 0 .. n - 1 |-> MulPow(WordOf(i, j, c), r * (n - 1 - j))])

\* The sums of equal terms are equal.
LEMMA XorOfSame ==
  ASSUME NEW R, NEW f, NEW g, \A i \in R : f[i] = g[i]
  PROVE  XorOf(R, f) = XorOf(R, g)
<1>1. \A b : {i \in R : b \in f[i]} = {i \in R : b \in g[i]}
  OBVIOUS
<1>  QED
  BY <1>1 DEF XorOf

\* An element's bits are integers.
LEMMA ElementsAreBits ==
  ASSUME SizesAssumption
  PROVE  /\ \A a \in Elements : a \subseteq Int
         /\ {} \in Elements /\ \A a, b \in Elements : SymDiff(a, b) \in Elements
<1>1. Bits \in Nat
  BY Sizes
<1>2. 0 .. Bits - 1 \subseteq Int
  BY <1>1
<1>  QED
  BY <1>2 DEF Elements, SymDiff

\* The sum of elements is an element, and its product the sum of their products.
LEMMA ProductOfSum ==
  ASSUME SizesAssumption, FieldAssumption, NEW e \in Exponents, NEW n \in Nat, NEW f, NEW h,
         \A j \in 0 .. n - 1 : f[j] \in Elements /\ h[j] = MulPow(f[j], e)
  PROVE  /\ XorOf(0 .. n - 1, f) \in Elements
         /\ XorOf(0 .. n - 1, h) = MulPow(XorOf(0 .. n - 1, f), e)
<1>  DEFINE A(m) == XorOf(0 .. m - 1, f)
            B(m) == XorOf(0 .. m - 1, h)
            Good(m) == A(m) \in Elements /\ B(m) = MulPow(A(m), e)
            D == {m \in 0 .. n : ~ Good(m)}
<1>1. {} \in Elements /\ MulPow({}, e) = {}
  <2>1. {} \in Elements /\ SymDiff({}, {}) = {}
    BY ElementsAreBits, XorSets
  <2>2. MulPow(SymDiff({}, {}), e) = SymDiff(MulPow({}, e), MulPow({}, e))
    BY <2>1, Field
  <2>  QED
    BY <2>1, <2>2, XorSets
<1>2. Good(0)
  <2>1. 0 .. 0 - 1 = {}
    OBVIOUS
  <2>  QED
    BY <1>1, <2>1, XorOfNone
<1>3. ASSUME NEW m \in 0 .. n - 1 PROVE A(m + 1) = SymDiff(A(m), f[m]) /\ B(m + 1) = SymDiff(B(m), h[m])
  <2>1. m \in Nat
    OBVIOUS
  <2>2. /\ 0 .. (m + 1) - 1 = (0 .. m - 1) \cup {m} /\ m \notin 0 .. m - 1
        /\ IsFiniteSet(0 .. m - 1)
    BY <2>1, FirstMore
  <2>3. f[m] \subseteq Int /\ h[m] \subseteq Int
    <3>1. f[m] \in Elements /\ h[m] \in Elements
      BY Field
    <3>  QED
      BY <3>1, ElementsAreBits
  <2>4. XorOf((0 .. m - 1) \cup {m}, f) = SymDiff(XorOf(0 .. m - 1, f), f[m])
    BY <2>2, <2>3, XorOfMore
  <2>5. XorOf((0 .. m - 1) \cup {m}, h) = SymDiff(XorOf(0 .. m - 1, h), h[m])
    BY <2>2, <2>3, XorOfMore
  <2>  QED
    BY <2>2, <2>4, <2>5
<1>  HIDE DEF A, B
<1>4. ASSUME NEW m \in 0 .. n - 1, Good(m) PROVE Good(m + 1)
  <2>1. f[m] \in Elements /\ h[m] = MulPow(f[m], e)
    OBVIOUS
  <2>2. MulPow(SymDiff(A(m), f[m]), e) = SymDiff(MulPow(A(m), e), MulPow(f[m], e))
    BY <1>4, <2>1, Field
  <2>3. SymDiff(A(m), f[m]) \in Elements
    BY <1>4, <2>1, ElementsAreBits
  <2>  QED
    BY <1>3, <1>4, <2>1, <2>2, <2>3
<1>5. D = {}
  <2>1. SUFFICES ASSUME D # {} PROVE FALSE
    OBVIOUS
  <2>2. D \in SUBSET Nat
    OBVIOUS
  <2>3. PICK m \in D : \A k \in D : m <= k
    <3>  HIDE DEF D
    <3>  QED
      BY <2>1, <2>2, LeastNatural
  <2>4. m # 0
    BY <1>2, <2>3
  <2>5. m - 1 \in 0 .. n - 1 /\ m - 1 \in 0 .. n /\ (m - 1) + 1 = m
    BY <2>3, <2>4
  <2>6. Good(m - 1)
    <3>1. m - 1 \notin D
      <4>  HIDE DEF D
      <4>  QED
        BY <2>3, <2>5
    <3>  HIDE DEF Good
    <3>  QED
      BY <2>5, <3>1
  <2>7. Good(m)
    <3>  HIDE DEF Good
    <3>  QED
      BY <1>4, <2>5, <2>6
  <2>  QED
    BY <2>3, <2>7
<1>6. n \in 0 .. n
  OBVIOUS
<1>7. Good(n)
  <2>  HIDE DEF Good
  <2>  QED
    BY <1>5, <1>6
<1>  QED
  BY <1>7 DEF A, B

\* The exponents a sweep comes to are covered.
LEMMA ExponentsOf ==
  ASSUME SizesAssumption, NEW r \in Planes
  PROVE  /\ \A k \in 0 .. Rows : r * k \in Exponents
         /\ Rows # 0 => r \in Exponents
         /\ r \in Nat
<1>1. Npar \in Nat \ {0} /\ Rows \in Nat /\ r \in Nat /\ r < Npar
  BY DEF SizesAssumption, Planes
<1>2. \A k \in Nat : k <= Rows => r * k \in Nat /\ r * k <= Npar * Rows
  <2>1. ASSUME NEW k \in Nat, k <= Rows PROVE r * k \in Nat /\ r * k <= Npar * Rows
    <3>1. r * k \in Nat /\ Npar * k \in Nat /\ Npar * Rows \in Nat
      BY <1>1
    <3>2. r * k <= Npar * k
      BY <1>1, SMTT(30)
    <3>3. Npar * k <= Npar * Rows
      BY <1>1, <2>1, SMTT(30)
    <3>  QED
      BY <3>1, <3>2, <3>3
  <2>  QED
    BY <2>1
<1>3. Npar * Rows \in Nat
  BY <1>1
<1>4. \A k \in 0 .. Rows : r * k \in Exponents
  <2>1. ASSUME NEW k \in 0 .. Rows PROVE r * k \in 0 .. Npar * Rows
    <3>1. k \in Nat /\ k <= Rows
      BY <1>1
    <3>2. r * k \in Nat /\ r * k <= Npar * Rows
      BY <1>2, <3>1
    <3>  HIDE DEF Exponents
    <3>  QED
      BY <1>3, <3>2
  <2>  QED
    BY <2>1 DEF Exponents
<1>5. Rows # 0 => r \in Exponents
  <2>1. Rows # 0 => 1 \in 0 .. Rows /\ r * 1 = r
    BY <1>1
  <2>  QED
    BY <1>4, <2>1
<1>  QED
  BY <1>1, <1>4, <1>5

\* The words of the window are elements.
LEMMA WordsAre ==
  ASSUME SizesAssumption, ImagesAssumption, NEW i \in Images
  PROVE  \A j \in 0 .. Rows - 1, c \in Columns : WordOf(i, j, c) \in Elements
<1>1. S \in Nat \ {0} /\ Rows \in Nat
  BY DEF SizesAssumption
<1>2. i.first \in Nat /\ \A w \in i.first + 1 .. i.first + Rows * S : i.words[w] \in Elements
  BY DEF ImagesAssumption
<1>3. ASSUME NEW j \in 0 .. Rows - 1, NEW c \in Columns PROVE WordOf(i, j, c) \in Elements
  <2>1. j \in Nat /\ c \in Nat /\ c < S /\ j + 1 <= Rows
    BY <1>1 DEF Columns
  <2>2. (j + 1) * S <= Rows * S /\ (j + 1) * S = j * S + S /\ j * S \in Nat /\ Rows * S \in Nat
    <3>1. \A a, b, m \in Nat : a <= b => a * m <= b * m
      OBVIOUS
    <3>2. j + 1 \in Nat /\ S \in Nat
      BY <1>1, <2>1
    <3>3. (j + 1) * S <= Rows * S
      BY <1>1, <2>1, <3>1, <3>2
    <3>4. (j + 1) * S = j * S + S /\ j * S \in Nat /\ Rows * S \in Nat
      BY <1>1, <2>1
    <3>  QED
      BY <3>3, <3>4
  <2>  DEFINE p == j * S
              q == Rows * S
              f == i.first
              u == (f + p + c) + 1
  <2>3. p \in Nat /\ q \in Nat /\ p + S <= q /\ f \in Nat
    BY <1>2, <2>2
  <2>  HIDE DEF p, q, f
  <2>4. u \in f + 1 .. f + q
    BY <1>1, <2>1, <2>3
  <2>5. WordOf(i, j, c) = i.words[u]
    BY DEF WordOf, p, f
  <2>  HIDE DEF u
  <2>  QED
    BY <1>2, <2>4, <2>5 DEF f, q
<1>  QED
  BY <1>3

\* A row more is Horner's step.
LEMMA SumStep ==
  ASSUME SizesAssumption, FieldAssumption, ImagesAssumption, NEW i \in Images,
         NEW r \in Planes, NEW c \in Columns, NEW n \in 0 .. Rows - 1
  PROVE  /\ SumOf(i, r, c, n) \in Elements
         /\ SumOf(i, r, c, n + 1) = SymDiff(MulPow(SumOf(i, r, c, n), r), WordOf(i, n, c))
<1>  DEFINE f == [j \in 0 .. n - 1 |-> MulPow(WordOf(i, j, c), r * (n - 1 - j))]
            g == [j \in 0 .. (n + 1) - 1 |-> MulPow(WordOf(i, j, c), r * ((n + 1) - 1 - j))]
            h == [j \in 0 .. n - 1 |-> MulPow(f[j], r)]
<1>1. n \in Nat /\ r \in Nat /\ Rows \in Nat /\ n < Rows /\ r \in Exponents
  BY ExponentsOf DEF SizesAssumption
<1>2. \A j \in 0 .. n : WordOf(i, j, c) \in Elements
  <2>1. \A j \in 0 .. n : j \in 0 .. Rows - 1
    BY <1>1
  <2>  QED
    BY <2>1, WordsAre
<1>3. ASSUME NEW j \in 0 .. n - 1
      PROVE  f[j] \in Elements /\ h[j] = MulPow(f[j], r) /\ g[j] = h[j]
  <2>1. j \in Nat /\ n - 1 - j \in 0 .. Rows /\ j \in 0 .. n /\ j \in 0 .. (n + 1) - 1
    BY <1>1
  <2>2. r * (n - 1 - j) \in Exponents
    BY <2>1, ExponentsOf
  <2>3. f[j] = MulPow(WordOf(i, j, c), r * (n - 1 - j)) /\ h[j] = MulPow(f[j], r)
    OBVIOUS
  <2>4. g[j] = MulPow(WordOf(i, j, c), r * ((n + 1) - 1 - j))
    BY <2>1
  <2>5. r * (n - 1 - j) + r = r * ((n + 1) - 1 - j)
    <3>1. \A k \in Nat : r * k + r = r * (k + 1)
      BY <1>1
    <3>2. n - 1 - j \in Nat /\ (n - 1 - j) + 1 = (n + 1) - 1 - j
      BY <1>1, <2>1
    <3>  QED
      BY <3>1, <3>2
  <2>  HIDE DEF f, g, h
  <2>6. MulPow(MulPow(WordOf(i, j, c), r * (n - 1 - j)), r) = MulPow(WordOf(i, j, c), r * (n - 1 - j) + r)
    BY <1>1, <1>2, <2>1, <2>2, Field
  <2>7. MulPow(WordOf(i, j, c), r * (n - 1 - j)) \in Elements
    BY <1>2, <2>1, <2>2, Field
  <2>  QED
    BY <2>3, <2>4, <2>5, <2>6, <2>7
<1>4. g[n] = WordOf(i, n, c)
  <2>1. n \in 0 .. (n + 1) - 1 /\ n \in 0 .. n /\ r * ((n + 1) - 1 - n) = 0
    BY <1>1
  <2>2. g[n] = MulPow(WordOf(i, n, c), r * ((n + 1) - 1 - n))
    BY <2>1
  <2>  HIDE DEF g
  <2>  QED
    BY <1>2, <2>1, <2>2, Field
<1>5. SumOf(i, r, c, n) = XorOf(0 .. n - 1, f) /\ SumOf(i, r, c, n + 1) = XorOf(0 .. (n + 1) - 1, g)
  BY Zenon DEF SumOf
<1>  HIDE DEF f, g, h
<1>6. XorOf(0 .. n - 1, f) \in Elements /\ XorOf(0 .. n - 1, h) = MulPow(XorOf(0 .. n - 1, f), r)
  BY <1>1, <1>3, ProductOfSum
<1>7. XorOf(0 .. (n + 1) - 1, g) = SymDiff(XorOf(0 .. n - 1, g), g[n])
  <2>1. 0 .. (n + 1) - 1 = (0 .. n - 1) \cup {n} /\ n \notin 0 .. n - 1 /\ IsFiniteSet(0 .. n - 1)
    BY <1>1, FirstMore
  <2>2. g[n] \subseteq Int
    <3>1. n \in 0 .. n
      BY <1>1
    <3>  QED
      BY <1>2, <1>4, <3>1, ElementsAreBits
  <2>3. XorOf((0 .. n - 1) \cup {n}, g) = SymDiff(XorOf(0 .. n - 1, g), g[n])
    BY <2>1, <2>2, XorOfMore
  <2>  QED
    BY <2>1, <2>3
<1>8. XorOf(0 .. n - 1, g) = XorOf(0 .. n - 1, h)
  BY <1>3, XorOfSame
<1>  QED
  BY <1>4, <1>5, <1>6, <1>7, <1>8

\* Of no rows it is nothing.
LEMMA SumOfNone == \A i, r, c : SumOf(i, r, c, 0) = {}
<1>1. 0 .. 0 - 1 = {}
  OBVIOUS
<1>  QED
  BY <1>1, XorOfNone DEF SumOf

\* And of all of them it is an element.
LEMMA SumIs ==
  ASSUME SizesAssumption, FieldAssumption, ImagesAssumption, NEW i \in Images,
         NEW r \in Planes, NEW c \in Columns, NEW n \in 0 .. Rows
  PROVE  SumOf(i, r, c, n) \in Elements
<1>1. CASE n = 0
  BY <1>1, SumOfNone, ElementsAreBits
<1>2. CASE n # 0
  <2>1. n - 1 \in 0 .. Rows - 1 /\ (n - 1) + 1 = n /\ Rows # 0
    BY <1>2 DEF SizesAssumption
  <2>2. /\ SumOf(i, r, c, n - 1) \in Elements
        /\ SumOf(i, r, c, (n - 1) + 1) = SymDiff(MulPow(SumOf(i, r, c, n - 1), r), WordOf(i, n - 1, c))
    BY <2>1, SumStep
  <2>3. MulPow(SumOf(i, r, c, n - 1), r) \in Elements
    BY <2>1, <2>2, ExponentsOf, Field
  <2>4. WordOf(i, n - 1, c) \in Elements
    BY <2>1, WordsAre
  <2>5. SumOf(i, r, c, n) \in Elements
    BY <2>1, <2>2, <2>3, <2>4, ElementsAreBits
  <2>  QED
    BY <2>5
<1>  QED
  BY <1>1, <1>2

\* And it is what KernelsAgree states, whatever order the sum is taken in.
LEMMA SyndromeIs ==
  ASSUME SizesAssumption, FieldAssumption, ImagesAssumption, image \in Images,
         NEW r \in Planes, NEW c \in Columns, NEW n \in 0 .. Rows
  PROVE  Syndrome(r, c, n) = SumOf(image, r, c, n)
<1>  DEFINE f == [j \in 0 .. n - 1 |-> MulPow(WordOf(image, j, c), r * (n - 1 - j))]
<1>1. n \in Nat /\ Rows \in Nat /\ n <= Rows /\ IsFiniteSet(0 .. n - 1)
  <2>1. n \in Nat /\ Rows \in Nat /\ n <= Rows
    BY DEF SizesAssumption
  <2>  QED
    BY <2>1, FirstMore
<1>2. \A j \in 0 .. n - 1 : f[j] \subseteq Int /\ f[j] = MulPow(Row(j)[c], r * (n - 1 - j))
  <2>1. ASSUME NEW j \in 0 .. n - 1
        PROVE  f[j] \subseteq Int /\ f[j] = MulPow(Row(j)[c], r * (n - 1 - j))
    <3>1. n - 1 - j \in 0 .. Rows /\ j \in 0 .. Rows - 1
      BY <1>1
    <3>2. f[j] = MulPow(WordOf(image, j, c), r * (n - 1 - j))
      OBVIOUS
    <3>  HIDE DEF f
    <3>3. f[j] \in Elements
      <4>1. Rows # 0
        BY <1>1
      <4>2. WordOf(image, j, c) \in Elements
        BY <3>1, WordsAre
      <4>3. r * (n - 1 - j) \in Exponents
        BY <3>1, ExponentsOf
      <4>  QED
        BY <3>2, <4>2, <4>3, Field
    <3>4. Row(j)[c] = WordOf(image, j, c)
      BY DEF Row, At, WordOf, Columns
    <3>  QED
      BY <3>2, <3>3, <3>4, ElementsAreBits
  <2>  QED
    BY <2>1
<1>3. SumOf(image, r, c, n) = XorOf(0 .. n - 1, f)
  BY Zenon DEF SumOf
<1>4. Syndrome(r, c, n) = XorAll(f)
  <2>  DEFINE g == [j \in 0 .. n - 1 |-> MulPow(Row(j)[c], r * (n - 1 - j))]
  <2>1. f = g
    BY <1>2
  <2>2. Syndrome(r, c, n) = XorAll(g)
    BY Zenon DEF Syndrome
  <2>  HIDE DEF f, g
  <2>  QED
    BY <2>1, <2>2
<1>5. DOMAIN f = 0 .. n - 1
  OBVIOUS
<1>  HIDE DEF f
<1>6. XorAll(f) = XorOf(0 .. n - 1, f)
  BY <1>1, <1>2, <1>5, XorAllIs
<1>  QED
  BY <1>3, <1>4, <1>6

------------------------------------------------------------------------------
(* Where the bytes are.                                                    *)

Places == 0 .. 2 * S * Npar - 1

\* A plane is 2 S bytes, two to a word.
LEMMA PlanesOf ==
  ASSUME SizesAssumption
  PROVE  /\ S \in Nat \ {0} /\ Npar \in Nat \ {0} /\ 2 * S \in Nat \ {0} /\ 2 * S * Npar \in Nat
         /\ \A b \in Places : b \div (2 * S) \in Planes /\ b % 2 \in 0 .. 1 /\ (b \div 2) % S \in Columns
                              /\ b % S \in Columns /\ (b \div S) % 2 \in 0 .. 1
         /\ \A r \in Planes, t \in 0 .. 2 * S - 1 : 2 * S * r + t \in Places /\ (2 * S * r + t) \div (2 * S) = r
<1>1. S \in Nat \ {0} /\ Npar \in Nat \ {0}
  BY DEF SizesAssumption
<1>  DEFINE m == 2 * S
<1>2. m \in Nat \ {0} /\ m * Npar \in Nat
  BY <1>1
<1>  HIDE DEF m
<1>3. ASSUME NEW b \in 0 .. m * Npar - 1
      PROVE  /\ b \div m \in Planes /\ b % 2 \in 0 .. 1 /\ (b \div 2) % S \in Columns
             /\ b % S \in Columns /\ (b \div S) % 2 \in 0 .. 1
  <2>1. b \in Nat /\ b < m * Npar
    BY <1>2
  <2>2. b \div m \in Nat /\ b \div m < Npar
    BY <1>1, <1>2, <2>1, DivMod
  <2>3. b \div 2 \in Nat /\ b % 2 \in 0 .. 1
    BY <2>1
  <2>4. (b \div 2) % S \in 0 .. S - 1 /\ b % S \in 0 .. S - 1 /\ b \div S \in Nat
    BY <1>1, <2>1, <2>3, DivMod
  <2>5. (b \div S) % 2 \in 0 .. 1
    BY <2>4
  <2>  QED
    BY <1>1, <2>2, <2>3, <2>4, <2>5 DEF Planes, Columns
<1>4. ASSUME NEW r \in Planes, NEW t \in 0 .. m - 1
      PROVE  m * r + t \in 0 .. m * Npar - 1 /\ (m * r + t) \div m = r
  <2>1. r \in Nat /\ r + 1 <= Npar
    BY <1>1 DEF Planes
  <2>2. (m * r + t) \div m = r
    BY <1>2, <2>1, DivMod
  <2>3. m * (r + 1) <= m * Npar /\ m * (r + 1) = m * r + m /\ m * r \in Nat
    <3>1. \A a, b, k \in Nat : a <= b => k * a <= k * b
      OBVIOUS
    <3>2. r + 1 \in Nat
      BY <2>1
    <3>3. m * (r + 1) <= m * Npar
      BY <1>1, <1>2, <2>1, <3>1, <3>2
    <3>  QED
      BY <1>2, <2>1, <3>3
  <2>  DEFINE p == m * r
              q == m * Npar
  <2>4. p \in Nat /\ q \in Nat /\ p + m <= q
    BY <1>2, <2>3
  <2>  HIDE DEF p, q
  <2>5. p + t \in 0 .. q - 1
    BY <1>2, <2>4
  <2>  QED
    BY <2>2, <2>5 DEF p, q
<1>  QED
  BY <1>1, <1>2, <1>3, <1>4 DEF m, Places

\* The place of each byte of a column, and what it is the place of.
LEMMA PlacesOf ==
  ASSUME SizesAssumption, NEW r \in Planes, NEW c \in Columns
  PROVE  /\ LoAt(r, c) \in Places /\ LoAt(r, c) \div (2 * S) = r
         /\ LoAt(r, c) % S = c /\ (LoAt(r, c) \div S) % 2 = 0
         /\ HiAt(r, c) \in Places /\ HiAt(r, c) \div (2 * S) = r
         /\ HiAt(r, c) % S = c /\ (HiAt(r, c) \div S) % 2 = 1
         /\ WordAt(r, c) \in Places /\ WordAt(r, c) \div (2 * S) = r
         /\ (WordAt(r, c) \div 2) % S = c /\ WordAt(r, c) % 2 = 0
         /\ WordAt(r, c) + 1 \in Places /\ (WordAt(r, c) + 1) \div (2 * S) = r
         /\ ((WordAt(r, c) + 1) \div 2) % S = c /\ (WordAt(r, c) + 1) % 2 = 1
<1>1. S \in Nat \ {0} /\ r \in Nat /\ c \in Nat /\ c < S
  BY DEF SizesAssumption, Planes, Columns
<1>  DEFINE p == S * r
<1>2. p \in Nat /\ 2 * S * r = 2 * p /\ S * (2 * r) = 2 * p /\ S * (2 * r + 1) = 2 * p + S
  BY <1>1
<1>3. /\ LoAt(r, c) = 2 * S * r + c /\ HiAt(r, c) = 2 * S * r + (S + c)
      /\ WordAt(r, c) = 2 * S * r + 2 * c /\ WordAt(r, c) + 1 = 2 * S * r + (2 * c + 1)
  BY <1>1, <1>2 DEF LoAt, HiAt, WordAt
<1>4. c \in 0 .. 2 * S - 1 /\ S + c \in 0 .. 2 * S - 1 /\ 2 * c \in 0 .. 2 * S - 1 /\ 2 * c + 1 \in 0 .. 2 * S - 1
  BY <1>1
<1>5. \A t \in 0 .. 2 * S - 1 : 2 * S * r + t \in Places /\ (2 * S * r + t) \div (2 * S) = r
  BY PlanesOf
<1>6. /\ LoAt(r, c) = S * (2 * r) + c /\ HiAt(r, c) = S * (2 * r + 1) + c
      /\ WordAt(r, c) = 2 * (S * r + c) /\ WordAt(r, c) + 1 = 2 * (S * r + c) + 1
  <2>1. HiAt(r, c) = 2 * p + S + c /\ LoAt(r, c) = 2 * p + c
    BY <1>1, <1>2 DEF LoAt, HiAt
  <2>  QED
    BY <1>1, <1>2, <2>1 DEF WordAt
<1>7. LoAt(r, c) % S = c /\ LoAt(r, c) \div S = 2 * r /\ HiAt(r, c) % S = c /\ HiAt(r, c) \div S = 2 * r + 1
  <2>1. 2 * r \in Nat /\ 2 * r + 1 \in Nat /\ c \in 0 .. S - 1
    BY <1>1
  <2>2. \A q \in Nat : (S * q + c) \div S = q /\ (S * q + c) % S = c
    BY <1>1, <2>1, DivMod
  <2>  QED
    BY <1>6, <2>1, <2>2, Zenon
<1>8. WordAt(r, c) \div 2 = S * r + c /\ (WordAt(r, c) + 1) \div 2 = S * r + c
  BY <1>1, <1>2, <1>6
<1>9. WordAt(r, c) % 2 = 0 /\ (WordAt(r, c) + 1) % 2 = 1
  BY <1>1, <1>2, <1>6
<1>10. (S * r + c) % S = c
  <2>1. c \in 0 .. S - 1
    BY <1>1
  <2>  QED
    BY <1>1, <2>1, DivMod
<1>11. (2 * r) % 2 = 0 /\ (2 * r + 1) % 2 = 1
  BY <1>1
<1>12. LoAt(r, c) \in Places /\ LoAt(r, c) \div (2 * S) = r
  BY <1>3, <1>4, <1>5, Zenon
<1>13. HiAt(r, c) \in Places /\ HiAt(r, c) \div (2 * S) = r
  BY <1>3, <1>4, <1>5, Zenon
<1>14. WordAt(r, c) \in Places /\ WordAt(r, c) \div (2 * S) = r
  BY <1>3, <1>4, <1>5, Zenon
<1>15. WordAt(r, c) + 1 \in Places /\ (WordAt(r, c) + 1) \div (2 * S) = r
  BY <1>3, <1>4, <1>5, Zenon
<1>  QED
  BY <1>7, <1>8, <1>9, <1>10, <1>11, <1>12, <1>13, <1>14, <1>15

------------------------------------------------------------------------------
(* The inductive invariant: what each plane holds, in the form it is in.   *)

\* The state outside the register of the CRC.
KType ==
  /\ image \in Images /\ kernel \in {"avx2", "scalar"} /\ row \in 0 .. Rows
  /\ mem \in [Places -> Halves]
  /\ joined \subseteq Planes /\ (joined # {} => kernel = "avx2" /\ row = Rows)

\* A plane of the AVX2 kernel not yet joined.
IsSplit(r) == kernel = "avx2" /\ r \notin joined

\* Each plane holds its sums.
KPlanes ==
  \A r \in Planes, c \in Columns :
    (IF IsSplit(r) THEN SplitWord(r, c) ELSE Word(r, c)) = SumOf(image, r, c, row)

\* Both.
KInv == KType /\ KPlanes

\* The words of a state of the right type.
LEMMA WordsOf ==
  ASSUME SizesAssumption, KType, NEW r \in Planes, NEW c \in Columns
  PROVE  /\ mem[LoAt(r, c)] \in Halves /\ mem[HiAt(r, c)] \in Halves
         /\ SplitWord(r, c) \in Elements
<1>1. mem[LoAt(r, c)] \in Halves /\ mem[HiAt(r, c)] \in Halves
  BY PlacesOf DEF KType
<1>2. SplitWord(r, c) \in Elements
  BY <1>1, Pairs DEF SplitWord
<1>  QED
  BY <1>1, <1>2

\* It holds at first.
LEMMA KInvInit ==
  ASSUME SizesAssumption, ImagesAssumption, Init
  PROVE  KInv
<1>1. image \in Images /\ kernel \in {"avx2", "scalar"} /\ row = 0 /\ joined = {}
      /\ mem = [b \in Places |-> {}]
  BY DEF Init, Places
<1>2. {} \in Halves
  BY DEF Halves
<1>3. KType
  BY <1>1, <1>2 DEF KType, SizesAssumption
<1>4. Pair({}, {}) = {}
  BY DEF Pair, Shifted
<1>5. ASSUME NEW r \in Planes, NEW c \in Columns
      PROVE  SplitWord(r, c) = {} /\ Word(r, c) = {}
  <2>1. \A b \in Places : mem[b] = {}
    BY <1>1
  <2>2. LoAt(r, c) \in Places /\ HiAt(r, c) \in Places /\ WordAt(r, c) \in Places /\ WordAt(r, c) + 1 \in Places
    BY PlacesOf
  <2>  QED
    BY <1>4, <2>1, <2>2 DEF SplitWord, Word
<1>6. KPlanes
  BY <1>1, <1>5, SumOfNone DEF KPlanes
<1>  QED
  BY <1>3, <1>6 DEF KInv

\* A row of the portable kernel keeps it.
LEMMA ScalarRowKeeps ==
  ASSUME SizesAssumption, FieldAssumption, ImagesAssumption, KInv, ScalarRow
  PROVE  KInv'
<1>  DEFINE acc == [r \in Planes |-> [c \in Columns |-> SymDiff(MulPow(Word(r, c), r), Row(row)[c])]]
<1>1. /\ kernel = "scalar" /\ row < Rows /\ row' = row + 1
      /\ image' = image /\ kernel' = kernel /\ joined' = joined
      /\ mem' = [b \in DOMAIN mem |-> Part(acc[b \div (2 * S)][(b \div 2) % S], Half, b % 2)]
  BY Zenon DEF ScalarRow
<1>2. /\ image \in Images /\ row \in 0 .. Rows - 1 /\ row \in 0 .. Rows /\ row + 1 \in 0 .. Rows
      /\ mem \in [Places -> Halves] /\ joined = {}
  BY <1>1 DEF KInv, KType, SizesAssumption
<1>3. ASSUME NEW r \in Planes, NEW c \in Columns
      PROVE  acc[r][c] = SumOf(image, r, c, row + 1) /\ acc[r][c] \in Elements
  <2>1. acc[r][c] = SymDiff(MulPow(Word(r, c), r), Row(row)[c])
    OBVIOUS
  <2>  HIDE DEF acc
  <2>2. Row(row)[c] = WordOf(image, row, c)
    BY DEF Row, At, WordOf, Columns
  <2>3. Word(r, c) = SumOf(image, r, c, row)
    BY <1>1 DEF KInv, KPlanes, IsSplit
  <2>4. SumOf(image, r, c, row + 1) = SymDiff(MulPow(SumOf(image, r, c, row), r), WordOf(image, row, c))
    BY <1>2, SumStep
  <2>5. SumOf(image, r, c, row + 1) \in Elements
    BY <1>2, SumIs
  <2>  QED
    BY <2>1, <2>2, <2>3, <2>4, <2>5
<1>  HIDE DEF acc
<1>4. \A b \in Places : mem'[b] = Part(acc[b \div (2 * S)][(b \div 2) % S], Half, b % 2)
  <2>1. DOMAIN mem = Places
    BY <1>2
  <2>  QED
    BY <1>1, <2>1
<1>5. mem' \in [Places -> Halves]
  <2>1. DOMAIN mem = Places
    BY <1>2
  <2>2. \A w, k : Part(w, Half, k) \in Halves
    BY Parts, Sizes DEF Halves
  <2>  QED
    BY <1>1, <2>1, <2>2
<1>6. KType'
  BY <1>1, <1>2, <1>5 DEF KInv, KType
<1>7. ASSUME NEW r \in Planes, NEW c \in Columns
      PROVE  Word(r, c)' = SumOf(image, r, c, row + 1)
  <2>1. /\ mem'[WordAt(r, c)] = Part(acc[r][c], Half, 0)
        /\ mem'[WordAt(r, c) + 1] = Part(acc[r][c], Half, 1)
    <3>1. /\ WordAt(r, c) \in Places /\ WordAt(r, c) \div (2 * S) = r
          /\ (WordAt(r, c) \div 2) % S = c /\ WordAt(r, c) % 2 = 0
          /\ WordAt(r, c) + 1 \in Places /\ (WordAt(r, c) + 1) \div (2 * S) = r
          /\ ((WordAt(r, c) + 1) \div 2) % S = c /\ (WordAt(r, c) + 1) % 2 = 1
      BY PlacesOf
    <3>  QED
      BY <1>4, <3>1, Zenon
  <2>2. Pair(Lo(acc[r][c]), Hi(acc[r][c])) = acc[r][c]
    BY <1>3, Pairs
  <2>3. Word(r, c)' = Pair(mem'[WordAt(r, c)], mem'[WordAt(r, c) + 1])
    BY DEF Word
  <2>4. Word(r, c)' = acc[r][c]
    BY <2>1, <2>2, <2>3 DEF Lo, Hi
  <2>  QED
    BY <1>3, <2>4
<1>8. KPlanes'
  <2>1. \A r : ~ IsSplit(r)'
    BY <1>1 DEF IsSplit
  <2>  QED
    BY <1>1, <1>7, <2>1 DEF KPlanes
<1>  QED
  BY <1>6, <1>8 DEF KInv

\* So does a row of the other.
LEMMA VectorRowKeeps ==
  ASSUME SizesAssumption, FieldAssumption, ImagesAssumption, KInv, VectorRow
  PROVE  KInv'
<1>  DEFINE tab == [r \in 1 .. Npar - 1 |-> NibTab(r)]
            Times(r, c) ==
              IF c >= Vec THEN MulPow(SplitWord(r, c), r)
              ELSE IF r = 0 THEN SplitWord(r, c)
              ELSE MulConst(tab[r], mem[LoAt(r, c)], mem[HiAt(r, c)])
            acc == [r \in Planes |-> [c \in Columns |-> SymDiff(Times(r, c), Scratch(Row(row))[c])]]
<1>1. /\ kernel = "avx2" /\ row < Rows /\ row' = row + 1
      /\ image' = image /\ kernel' = kernel /\ joined' = joined
      /\ mem' = [b \in DOMAIN mem |-> Part(acc[b \div (2 * S)][b % S], Half, (b \div S) % 2)]
  BY Zenon DEF VectorRow
<1>2. /\ image \in Images /\ row \in 0 .. Rows - 1 /\ row \in 0 .. Rows /\ row + 1 \in 0 .. Rows
      /\ mem \in [Places -> Halves] /\ joined = {} /\ Rows # 0
  BY <1>1 DEF KInv, KType, SizesAssumption
<1>3. ASSUME NEW r \in Planes, NEW c \in Columns PROVE Times(r, c) = MulPow(SplitWord(r, c), r)
  <2>1. r \in Exponents /\ r \in Nat /\ SplitWord(r, c) \in Elements
    BY <1>2, ExponentsOf, WordsOf DEF KInv
  <2>2. CASE c >= Vec
    BY <2>2
  <2>3. CASE ~ (c >= Vec) /\ r = 0
    <3>1. MulPow(SplitWord(r, c), 0) = SplitWord(r, c)
      BY <2>1, Field
    <3>  QED
      BY <2>3, <3>1
  <2>4. CASE ~ (c >= Vec) /\ r # 0
    <3>1. tab[r] = NibTab(r)
      <4>1. r \in 1 .. Npar - 1
        BY <2>1, <2>4 DEF Planes, SizesAssumption
      <4>  QED
        BY <4>1
    <3>2. MulConst(NibTab(r), mem[LoAt(r, c)], mem[HiAt(r, c)]) = MulPow(Pair(mem[LoAt(r, c)], mem[HiAt(r, c)]), r)
      BY <2>1, WordsOf, MulConstIs DEF KInv
    <3>3. Times(r, c) = MulConst(NibTab(r), mem[LoAt(r, c)], mem[HiAt(r, c)])
      <4>  HIDE DEF tab
      <4>  QED
        BY <2>4, <3>1
    <3>  HIDE DEF Times
    <3>  QED
      BY <3>2, <3>3 DEF SplitWord
  <2>  QED
    BY <2>2, <2>3, <2>4
<1>  HIDE DEF Times
<1>4. ASSUME NEW r \in Planes, NEW c \in Columns
      PROVE  acc[r][c] = SumOf(image, r, c, row + 1) /\ acc[r][c] \in Elements
  <2>1. acc[r][c] = SymDiff(Times(r, c), Scratch(Row(row))[c])
    OBVIOUS
  <2>  HIDE DEF acc
  <2>2. Scratch(Row(row))[c] = WordOf(image, row, c)
    <3>1. \A k \in Columns : Row(row)[k] = WordOf(image, row, k)
      BY DEF Row, At, WordOf, Columns
    <3>2. \A k \in Columns : Row(row)[k] \in Elements
      BY <1>2, <3>1, WordsAre
    <3>3. Scratch(Row(row))[c] = Row(row)[c]
      BY <3>2, ScratchIs
    <3>  QED
      BY <3>1, <3>3
  <2>3. SplitWord(r, c) = SumOf(image, r, c, row)
    BY <1>1, <1>2 DEF KInv, KPlanes, IsSplit
  <2>4. SumOf(image, r, c, row + 1) = SymDiff(MulPow(SumOf(image, r, c, row), r), WordOf(image, row, c))
    BY <1>2, SumStep
  <2>5. SumOf(image, r, c, row + 1) \in Elements
    BY <1>2, SumIs
  <2>  QED
    BY <1>3, <2>1, <2>2, <2>3, <2>4, <2>5
<1>  HIDE DEF acc
<1>5. \A b \in Places : mem'[b] = Part(acc[b \div (2 * S)][b % S], Half, (b \div S) % 2)
  <2>1. DOMAIN mem = Places
    BY <1>2
  <2>  QED
    BY <1>1, <2>1
<1>6. mem' \in [Places -> Halves]
  <2>1. DOMAIN mem = Places
    BY <1>2
  <2>2. \A w, k : Part(w, Half, k) \in Halves
    BY Parts, Sizes DEF Halves
  <2>  QED
    BY <1>1, <2>1, <2>2
<1>7. KType'
  BY <1>1, <1>2, <1>6 DEF KInv, KType
<1>8. ASSUME NEW r \in Planes, NEW c \in Columns
      PROVE  SplitWord(r, c)' = SumOf(image, r, c, row + 1)
  <2>1. mem'[LoAt(r, c)] = Part(acc[r][c], Half, 0) /\ mem'[HiAt(r, c)] = Part(acc[r][c], Half, 1)
    <3>1. /\ LoAt(r, c) \in Places /\ LoAt(r, c) \div (2 * S) = r
          /\ LoAt(r, c) % S = c /\ (LoAt(r, c) \div S) % 2 = 0
          /\ HiAt(r, c) \in Places /\ HiAt(r, c) \div (2 * S) = r
          /\ HiAt(r, c) % S = c /\ (HiAt(r, c) \div S) % 2 = 1
      BY PlacesOf
    <3>  QED
      BY <1>5, <3>1, Zenon
  <2>2. Pair(Lo(acc[r][c]), Hi(acc[r][c])) = acc[r][c]
    BY <1>4, Pairs
  <2>3. SplitWord(r, c)' = Pair(mem'[LoAt(r, c)], mem'[HiAt(r, c)])
    BY DEF SplitWord
  <2>4. SplitWord(r, c)' = acc[r][c]
    BY <2>1, <2>2, <2>3 DEF Lo, Hi
  <2>  QED
    BY <1>4, <2>4
<1>9. KPlanes'
  <2>1. \A r : IsSplit(r)'
    BY <1>1, <1>2 DEF IsSplit
  <2>  QED
    BY <1>1, <1>8, <2>1 DEF KPlanes
<1>  QED
  BY <1>7, <1>9 DEF KInv

\* And so does putting a plane back into words.
LEMMA JoinKeeps ==
  ASSUME SizesAssumption, KInv, Join
  PROVE  KInv'
<1>1. /\ kernel = "avx2" /\ row = Rows /\ row' = row
      /\ image' = image /\ kernel' = kernel
  BY DEF Join
<1>2. PICK p \in Planes :
        /\ joined = 0 .. p - 1 /\ joined' = joined \cup {p}
        /\ mem' = [b \in DOMAIN mem |->
             IF b \div (2 * S) = p THEN mem[2 * S * p + S * (b % 2) + ((b \div 2) % S)] ELSE mem[b]]
  BY Zenon DEF Join
<1>3. KType /\ DOMAIN mem = Places /\ p \notin joined /\ row \in 0 .. Rows
  <2>1. p \in Nat
    BY DEF Planes, SizesAssumption
  <2>2. KType
    BY DEF KInv
  <2>3. p \notin 0 .. p - 1
    BY <2>1
  <2>4. DOMAIN mem = Places /\ row \in 0 .. Rows
    BY <2>2 DEF KType
  <2>  QED
    BY <1>2, <2>2, <2>3, <2>4
<1>4. /\ \A b \in Places : b \div (2 * S) = p => mem'[b] = mem[2 * S * p + S * (b % 2) + ((b \div 2) % S)]
      /\ \A b \in Places : b \div (2 * S) # p => mem'[b] = mem[b]
  BY <1>2, <1>3
<1>5. ASSUME NEW b \in Places PROVE mem'[b] \in Halves
  <2>1. CASE b \div (2 * S) # p
    BY <1>3, <1>4, <2>1 DEF KType
  <2>2. CASE b \div (2 * S) = p
    <3>  DEFINE t == S * (b % 2) + ((b \div 2) % S)
    <3>1. S \in Nat \ {0} /\ b % 2 \in 0 .. 1 /\ (b \div 2) % S \in 0 .. S - 1
      BY PlanesOf DEF Columns
    <3>2. t \in 0 .. 2 * S - 1
      <4>1. b % 2 = 0 \/ b % 2 = 1
        BY <3>1
      <4>2. S * 0 = 0 /\ S * 1 = S
        BY <3>1
      <4>3. S * (b % 2) = 0 \/ S * (b % 2) = S
        BY <4>1, <4>2
      <4>  DEFINE x == S * (b % 2)
                  y == (b \div 2) % S
      <4>4. x = 0 \/ x = S
        BY <4>3
      <4>5. y \in 0 .. S - 1
        BY <3>1
      <4>  HIDE DEF x, y
      <4>6. x + y \in 0 .. 2 * S - 1
        BY <3>1, <4>4, <4>5
      <4>  QED
        BY <4>6 DEF x, y
    <3>3. 2 * S * p + S * (b % 2) + ((b \div 2) % S) = 2 * S * p + t
      <4>1. 2 * S * p \in Int /\ S * (b % 2) \in Int /\ (b \div 2) % S \in Int
        <5>1. p \in Int /\ b % 2 \in Int
          BY <3>1 DEF Planes
        <5>  QED
          BY <3>1, <5>1
      <4>2. \A x, y, z \in Int : (x + y) + z = x + (y + z)
        OBVIOUS
      <4>  QED
        BY <4>1, <4>2
    <3>  HIDE DEF t
    <3>4. 2 * S * p + t \in Places
      BY <3>2, PlanesOf
    <3>  QED
      BY <1>3, <1>4, <2>2, <3>3, <3>4 DEF KType
  <2>  QED
    BY <2>1, <2>2
<1>6. KType'
  <2>1. mem' \in [Places -> Halves]
    <3>1. mem' = [b \in Places |-> mem'[b]]
      BY <1>2, <1>3
    <3>  QED
      BY <1>5, <3>1
  <2>  QED
    BY <1>1, <1>2, <1>3, <2>1 DEF KType
<1>7. ASSUME NEW r \in Planes, NEW c \in Columns
      PROVE  (IF IsSplit(r) THEN SplitWord(r, c) ELSE Word(r, c))' = SumOf(image, r, c, row)
  <2>0. /\ LoAt(r, c) \in Places /\ LoAt(r, c) \div (2 * S) = r
        /\ HiAt(r, c) \in Places /\ HiAt(r, c) \div (2 * S) = r
        /\ WordAt(r, c) \in Places /\ WordAt(r, c) \div (2 * S) = r
        /\ (WordAt(r, c) \div 2) % S = c /\ WordAt(r, c) % 2 = 0
        /\ WordAt(r, c) + 1 \in Places /\ (WordAt(r, c) + 1) \div (2 * S) = r
        /\ ((WordAt(r, c) + 1) \div 2) % S = c /\ (WordAt(r, c) + 1) % 2 = 1
    BY PlacesOf
  <2>1. /\ SplitWord(r, c)' = Pair(mem'[LoAt(r, c)], mem'[HiAt(r, c)])
        /\ Word(r, c)' = Pair(mem'[WordAt(r, c)], mem'[WordAt(r, c) + 1])
    BY DEF SplitWord, Word
  <2>2. (IF IsSplit(r) THEN SplitWord(r, c) ELSE Word(r, c)) = SumOf(image, r, c, row)
    BY DEF KInv, KPlanes
  <2>3. CASE r = p
    <3>1. ~ IsSplit(r)' /\ IsSplit(r)
      BY <1>1, <1>2, <1>3, <2>3 DEF IsSplit
    <3>2. /\ mem'[WordAt(r, c)] = mem[2 * S * r + S * 0 + c]
          /\ mem'[WordAt(r, c) + 1] = mem[2 * S * r + S * 1 + c]
      BY <1>4, <2>0, <2>3, Zenon
    <3>3. 2 * S * r + S * 0 + c = LoAt(r, c) /\ 2 * S * r + S * 1 + c = HiAt(r, c)
      <4>1. S \in Nat /\ r \in Nat /\ c \in Nat
        BY DEF SizesAssumption, Planes, Columns
      <4>2. S * 0 = 0 /\ S * 1 = S /\ 2 * S * r \in Nat
        BY <4>1
      <4>3. 2 * S * r + 0 + c = 2 * S * r + c
        BY <4>1, <4>2
      <4>  QED
        BY <4>2, <4>3 DEF LoAt, HiAt
    <3>4. Word(r, c)' = SplitWord(r, c)
      BY <2>1, <3>2, <3>3 DEF SplitWord
    <3>  QED
      BY <2>2, <3>1, <3>4
  <2>4. CASE r # p
    <3>1. IsSplit(r)' <=> IsSplit(r)
      BY <1>1, <1>2, <2>4 DEF IsSplit
    <3>2. /\ mem'[LoAt(r, c)] = mem[LoAt(r, c)] /\ mem'[HiAt(r, c)] = mem[HiAt(r, c)]
          /\ mem'[WordAt(r, c)] = mem[WordAt(r, c)] /\ mem'[WordAt(r, c) + 1] = mem[WordAt(r, c) + 1]
      BY <1>4, <2>0, <2>4, Zenon
    <3>3. SplitWord(r, c)' = SplitWord(r, c) /\ Word(r, c)' = Word(r, c)
      BY <2>1, <3>2 DEF SplitWord, Word
    <3>  QED
      BY <2>2, <3>1, <3>3
  <2>  QED
    BY <2>3, <2>4
<1>8. KPlanes'
  BY <1>1, <1>7 DEF KPlanes
<1>  QED
  BY <1>6, <1>8 DEF KInv

\* A step that changes nothing keeps it.
LEMMA KInvStutter == KInv /\ UNCHANGED vars => KInv'
<1>  SUFFICES ASSUME KInv, UNCHANGED vars PROVE KInv'
  OBVIOUS
<1>1. image' = image /\ kernel' = kernel /\ row' = row /\ mem' = mem /\ joined' = joined
  BY DEF vars
<1>2. KType'
  BY <1>1 DEF KInv, KType
<1>3. ASSUME NEW r \in Planes, NEW c \in Columns
      PROVE  (IF IsSplit(r) THEN SplitWord(r, c) ELSE Word(r, c))' = SumOf(image, r, c, row)
  BY <1>1 DEF KInv, KPlanes, IsSplit, SplitWord, Word
<1>4. KPlanes'
  BY <1>1, <1>3 DEF KPlanes
<1>  QED
  BY <1>2, <1>4 DEF KInv

\* It implies the property.
LEMMA KInvAgrees ==
  ASSUME SizesAssumption, FieldAssumption, ImagesAssumption, KInv
  PROVE  KernelsAgree
<1>1. image \in Images /\ row \in 0 .. Rows
  BY DEF KInv, KType
<1>2. ASSUME NEW r \in Planes, NEW c \in Columns
      PROVE  (IF kernel = "avx2" /\ r \notin joined THEN SplitWord(r, c) ELSE Word(r, c)) = Syndrome(r, c, row)
  <2>1. Syndrome(r, c, row) = SumOf(image, r, c, row)
    BY <1>1, SyndromeIs
  <2>  QED
    BY <2>1 DEF KInv, KPlanes, IsSplit
<1>  QED
  BY <1>2 DEF KernelsAgree

------------------------------------------------------------------------------
(* The register of the CRC, a bit at a time.                               *)

Regs == SUBSET (0 .. CrcBits - 1)

\* Induction up to n.
LEMMA UpTo ==
  ASSUME NEW n \in Nat, NEW D \in SUBSET (0 .. n), 0 \in D, \A j \in 0 .. n - 1 : j \in D => j + 1 \in D
  PROVE  \A j \in 0 .. n : j \in D
<1>  DEFINE E == (0 .. n) \ D
<1>1. SUFFICES ASSUME E # {} PROVE FALSE
  OBVIOUS
<1>2. E \in SUBSET Nat
  OBVIOUS
<1>3. PICK m \in E : \A k \in E : m <= k
  <2>  HIDE DEF E
  <2>  QED
    BY <1>1, <1>2, LeastNatural
<1>4. m # 0 /\ m - 1 \in 0 .. n - 1 /\ (m - 1) + 1 = m
  BY <1>3
<1>5. m - 1 \in D
  BY <1>3, <1>4
<1>  QED
  BY <1>3, <1>4, <1>5

\* The sizes of the register.
LEMMA CrcSizes ==
  ASSUME SizesAssumption
  PROVE  /\ CrcBits \in Nat \ {0} /\ CrcBits \div Half \in Nat \ {0}
         /\ CrcBits = Half * (CrcBits \div Half)
         /\ SliceLen = 2 * (CrcBits \div Half) /\ SliceLen \in Nat \ {0} /\ SliceLen \div 2 = CrcBits \div Half
         /\ Half <= CrcBits /\ CrcPoly \in Regs /\ Halves \subseteq Regs
<1>1. CrcBits \in Nat \ {0} /\ CrcBits % Bits = 0 /\ CrcPoly \in Regs
  BY DEF SizesAssumption, Regs
<1>2. Half \in Nat \ {0} /\ Bits = 2 * Half /\ Bits \in Nat \ {0}
  BY Sizes
<1>  DEFINE q == CrcBits \div Bits
            m == 2 * q
<1>3. CrcBits = Bits * q /\ q \in Nat
  <2>1. CrcBits = Bits * q + (CrcBits % Bits) /\ q \in Nat
    BY <1>1, <1>2, DivMod
  <2>2. Bits * q \in Nat
    BY <1>2, <2>1
  <2>  QED
    BY <1>1, <2>1, <2>2
<1>  HIDE DEF q
<1>4. q # 0
  BY <1>1, <1>2, <1>3
<1>5. m \in Nat \ {0} /\ CrcBits = Half * m /\ CrcBits = Half * m + 0
  <2>1. \A a, b \in Nat : (2 * a) * b = a * (2 * b) /\ (2 * a) * b = a * (2 * b) + 0
    OBVIOUS
  <2>  QED
    BY <1>2, <1>3, <1>4, <2>1
<1>6. CrcBits \div Half = m
  <2>1. 0 \in 0 .. Half - 1
    BY <1>2
  <2>  HIDE DEF m
  <2>  QED
    BY <1>2, <1>5, <2>1, DivMod
<1>7. SliceLen = 2 * m /\ SliceLen \in Nat \ {0} /\ SliceLen \div 2 = m
  BY <1>5, <1>6 DEF SliceLen
<1>8. Half <= CrcBits
  <2>1. \A a, b \in Nat \ {0} : a <= a * b
    OBVIOUS
  <2>  HIDE DEF m
  <2>  QED
    BY <1>2, <1>5, <2>1
<1>9. Halves \subseteq Regs
  <2>1. 0 .. Half - 1 \subseteq 0 .. CrcBits - 1
    BY <1>1, <1>2, <1>8
  <2>  QED
    BY <2>1 DEF Halves, Regs
<1>  HIDE DEF m
<1>  QED
  BY <1>1, <1>5, <1>6, <1>7, <1>8, <1>9

\* Registers form a group.
LEMMA RegSums ==
  ASSUME SizesAssumption
  PROVE  /\ {} \in Regs /\ (\A a, b \in Regs : SymDiff(a, b) \in Regs) /\ \A a \in Regs : a \in SUBSET Int
<1>1. 0 .. CrcBits - 1 \subseteq Int
  BY CrcSizes
<1>  QED
  BY <1>1 DEF Regs, SymDiff

\* What a step makes of a register.
LEMMA StepIs ==
  ASSUME SizesAssumption, NEW c \in Regs
  PROVE  /\ CrcStep(c) \in Regs
         /\ \A b : b \in CrcStep(c) <=> b \in Int /\ ((b + 1 \in c /\ b + 1 # 0) # (0 \in c /\ b \in CrcPoly))
<1>0. CrcBits \in Nat /\ c \subseteq Int /\ CrcPoly \in Regs /\ CrcPoly \subseteq Int
  BY CrcSizes, RegSums
<1>  DEFINE d == {b - 1 : b \in c \ {0}}
            e == IF 0 \in c THEN CrcPoly ELSE {}
<1>1. \A b : b \in d <=> b \in Int /\ b + 1 \in c /\ b + 1 # 0
  <2>1. ASSUME NEW b, b \in d PROVE b \in Int /\ b + 1 \in c /\ b + 1 # 0
    <3>1. PICK a \in c \ {0} : b = a - 1
      BY <2>1
    <3>2. a \in Int
      BY <1>0
    <3>3. b \in Int /\ b + 1 = a
      BY <3>1, <3>2
    <3>  QED
      BY <3>1, <3>3
  <2>2. ASSUME NEW b \in Int, b + 1 \in c, b + 1 # 0 PROVE b \in d
    <3>1. b = (b + 1) - 1
      OBVIOUS
    <3>  QED
      BY <2>2, <3>1
  <2>  QED
    BY <2>1, <2>2
<1>2. CrcStep(c) = SymDiff(d, e)
  BY Zenon DEF CrcStep
<1>3. d \in Regs
  <2>1. ASSUME NEW b \in d PROVE b \in 0 .. CrcBits - 1
    <3>1. b \in Int /\ b + 1 \in 0 .. CrcBits - 1 /\ b + 1 # 0
      BY <1>1 DEF Regs
    <3>  QED
      BY <1>0, <3>1
  <2>  HIDE DEF d
  <2>  QED
    BY <2>1 DEF Regs
<1>4. e \in Regs /\ e \subseteq Int /\ \A b : b \in e <=> 0 \in c /\ b \in CrcPoly
  BY <1>0, RegSums
<1>  HIDE DEF d, e
<1>5. CrcStep(c) \in Regs
  BY <1>2, <1>3, <1>4, RegSums
<1>6. \A b : b \in SymDiff(d, e) <=> (b \in d) # (b \in e)
  BY DEF SymDiff
<1>7. \A b : b \in CrcStep(c) <=> b \in Int /\ ((b + 1 \in c /\ b + 1 # 0) # (0 \in c /\ b \in CrcPoly))
  <2>1. ASSUME NEW b, b \in Int
        PROVE  b \in CrcStep(c) <=> ((b + 1 \in c /\ b + 1 # 0) # (0 \in c /\ b \in CrcPoly))
    BY <1>1, <1>2, <1>4, <1>6, <2>1
  <2>2. ASSUME NEW b, b \notin Int PROVE b \notin CrcStep(c)
    BY <1>5, <2>2, RegSums
  <2>  QED
    BY <2>1, <2>2
<1>  QED
  BY <1>5, <1>7

\* A step of a sum is the sum of the steps.
LEMMA StepOfSum ==
  ASSUME SizesAssumption, NEW a \in Regs, NEW c \in Regs
  PROVE  CrcStep(SymDiff(a, c)) = SymDiff(CrcStep(a), CrcStep(c))
<1>1. SymDiff(a, c) \in Regs
  BY RegSums
<1>2. \A b : b \in CrcStep(SymDiff(a, c)) <=>
        b \in Int /\ ((b + 1 \in SymDiff(a, c) /\ b + 1 # 0) # (0 \in SymDiff(a, c) /\ b \in CrcPoly))
  BY <1>1, StepIs
<1>3. \A x : \A u, v : x \in SymDiff(u, v) <=> (x \in u) # (x \in v)
  BY DEF SymDiff
<1>4. ASSUME NEW b PROVE b \in CrcStep(SymDiff(a, c)) <=> b \in SymDiff(CrcStep(a), CrcStep(c))
  <2>1. b \in CrcStep(a) <=> b \in Int /\ ((b + 1 \in a /\ b + 1 # 0) # (0 \in a /\ b \in CrcPoly))
    BY StepIs
  <2>2. b \in CrcStep(c) <=> b \in Int /\ ((b + 1 \in c /\ b + 1 # 0) # (0 \in c /\ b \in CrcPoly))
    BY StepIs
  <2>3. b \in SymDiff(CrcStep(a), CrcStep(c)) <=> (b \in CrcStep(a)) # (b \in CrcStep(c))
    BY <1>3
  <2>4. /\ b + 1 \in SymDiff(a, c) <=> (b + 1 \in a) # (b + 1 \in c)
        /\ 0 \in SymDiff(a, c) <=> (0 \in a) # (0 \in c)
    BY <1>3
  <2>  QED
    BY <1>2, <2>1, <2>2, <2>3, <2>4
<1>  QED
  BY <1>4

\* The first m of n places.
LEMMA FirstPlaces ==
  ASSUME NEW n \in Nat, NEW m \in 1 .. n
  PROVE  /\ 1 .. m # {} /\ 1 .. m \in SUBSET (1 .. n) /\ (1 .. m) \ {m} = 1 .. m - 1
         /\ m \in 0 .. n /\ m - 1 \in 0 .. n
<1>1. 1 .. m # {} /\ 1 .. m \in SUBSET (1 .. n)
  OBVIOUS
<1>2. (1 .. m) \ {m} = 1 .. m - 1
  OBVIOUS
<1>3. m \in 0 .. n /\ m - 1 \in 0 .. n
  OBVIOUS
<1>  QED
  BY <1>1, <1>2, <1>3

\* Any number of steps is a loop.
LEMMA StepsLoop ==
  ASSUME SizesAssumption, NEW c \in Regs, NEW n \in Nat
  PROVE  \E h \in [0 .. n -> Regs] :
           /\ h[0] = c /\ \A m \in 1 .. n : h[m] = CrcStep(h[m - 1])
           /\ CrcSteps(c, n) = h[n]
<1>  DEFINE R == 1 .. n
            t == [x \in Regs \X R |-> CrcStep(x[1])]
<1>1. t \in [Regs \X R -> Regs]
  <2>1. \A x \in Regs \X R : CrcStep(x[1]) \in Regs
    BY StepIs
  <2>  QED
    BY <2>1
<1>2. PICK g \in [SUBSET R -> Regs] : SeqFold(g, c, t, n)
  <2>  HIDE DEF t
  <2>  QED
    BY <1>1, SeqFoldExists
<1>3. \A x \in Regs, m \in R : t[<<x, m>>] = CrcStep(x)
  OBVIOUS
<1>4. \A u \in [SUBSET R -> Regs] :
        u = [s \in SUBSET R |-> IF s = {} THEN c ELSE t[<<u[s \ {Max(s)}], Max(s)>>]]
        <=> u = [s \in SUBSET R |-> IF s = {} THEN c ELSE CrcStep(u[s \ {Max(s)}])]
  <2>1. ASSUME NEW u \in [SUBSET R -> Regs], NEW s \in SUBSET R
        PROVE  (IF s = {} THEN c ELSE t[<<u[s \ {Max(s)}], Max(s)>>])
                 = IF s = {} THEN c ELSE CrcStep(u[s \ {Max(s)}])
    <3>1. CASE s # {}
      <4>1. Max(s) \in R /\ u[s \ {Max(s)}] \in Regs
        BY <3>1, Greatest
      <4>  QED
        BY <1>3, <3>1, <4>1
    <3>2. CASE s = {}
      BY <3>2
    <3>  QED
      BY <3>1, <3>2
  <2>  QED
    BY <2>1
<1>  HIDE DEF t
<1>5. \E u : u = [s \in SUBSET R |-> IF s = {} THEN c ELSE CrcStep(u[s \ {Max(s)}])]
  BY <1>2, <1>4 DEF SeqFold
<1>6. DOMAIN [k \in 1 .. n |-> k] = R
  OBVIOUS
<1>  HIDE DEF R
<1>7. PICK u : /\ u = [s \in SUBSET R |-> IF s = {} THEN c ELSE CrcStep(u[s \ {Max(s)}])]
               /\ CrcSteps(c, n) = u[R]
  BY <1>5, <1>6, Zenon DEF CrcSteps, FoldLeft, MapThenFoldSet
<1>8. /\ \A s \in SUBSET R : u[s] = IF s = {} THEN c ELSE CrcStep(u[s \ {Max(s)}])
  BY <1>7, Zenon
<1>  USE DEF R
<1>  DEFINE h == [m \in 0 .. n |-> u[1 .. m]]
<1>9. h[0] = c
  <2>1. 1 .. 0 = {} /\ 1 .. 0 \in SUBSET R /\ 0 \in 0 .. n
    OBVIOUS
  <2>  QED
    BY <1>8, <2>1
<1>10. ASSUME NEW m \in 1 .. n PROVE h[m] = CrcStep(h[m - 1])
  <2>1. /\ 1 .. m # {} /\ 1 .. m \in SUBSET R /\ (1 .. m) \ {m} = 1 .. m - 1
        /\ m \in 0 .. n /\ m - 1 \in 0 .. n
    BY FirstPlaces, Zenon
  <2>2. Max(1 .. m) = m
    BY MaxOfFirst
  <2>3. u[1 .. m] = CrcStep(u[(1 .. m) \ {Max(1 .. m)}])
    BY <1>8, <2>1, Zenon
  <2>4. h[m] = u[1 .. m] /\ h[m - 1] = u[1 .. m - 1]
    BY <2>1
  <2>  HIDE DEF h
  <2>  QED
    BY <2>1, <2>2, <2>3, <2>4, Zenon
<1>11. \A m \in 0 .. n : h[m] \in Regs
  <2>  DEFINE D == {m \in 0 .. n : h[m] \in Regs}
  <2>1. 0 \in D
    BY <1>9
  <2>2. ASSUME NEW m \in 0 .. n - 1, m \in D PROVE m + 1 \in D
    <3>1. m + 1 \in 1 .. n /\ m + 1 \in 0 .. n /\ (m + 1) - 1 = m /\ h[m] \in Regs
      BY <2>2
    <3>2. h[m + 1] = CrcStep(h[(m + 1) - 1])
      BY <1>10, <3>1, Zenon
    <3>  HIDE DEF h
    <3>  QED
      BY <3>1, <3>2, StepIs
  <2>3. D \in SUBSET (0 .. n)
    OBVIOUS
  <2>4. \A m \in 0 .. n : m \in D
    <3>  HIDE DEF D
    <3>  QED
      BY <2>1, <2>2, <2>3, UpTo
  <2>  QED
    BY <2>4
<1>12. h \in [0 .. n -> Regs] /\ h[n] = u[R]
  BY <1>11
<1>  QED
  BY <1>7, <1>9, <1>10, <1>12

\* No step, and one more.
LEMMA StepsMore ==
  ASSUME SizesAssumption, NEW c \in Regs
  PROVE  /\ CrcSteps(c, 0) = c
         /\ \A n \in Nat : CrcSteps(c, n) \in Regs /\ CrcSteps(c, n + 1) = CrcStep(CrcSteps(c, n))
<1>1. CrcSteps(c, 0) = c
  <2>1. 0 \in Nat
    OBVIOUS
  <2>2. PICK h \in [0 .. 0 -> Regs] : h[0] = c /\ CrcSteps(c, 0) = h[0]
    BY <2>1, StepsLoop
  <2>  QED
    BY <2>2
<1>2. ASSUME NEW n \in Nat PROVE CrcSteps(c, n) \in Regs /\ CrcSteps(c, n + 1) = CrcStep(CrcSteps(c, n))
  <2>1. PICK h \in [0 .. n -> Regs] :
          /\ h[0] = c /\ \A m \in 1 .. n : h[m] = CrcStep(h[m - 1])
          /\ CrcSteps(c, n) = h[n]
    BY StepsLoop
  <2>2. n + 1 \in Nat
    OBVIOUS
  <2>3. PICK g \in [0 .. n + 1 -> Regs] :
          /\ g[0] = c /\ \A m \in 1 .. n + 1 : g[m] = CrcStep(g[m - 1])
          /\ CrcSteps(c, n + 1) = g[n + 1]
    BY <2>2, StepsLoop
  <2>4. \A m \in 1 .. n : g[m] = CrcStep(g[m - 1]) /\ h[m] = CrcStep(h[m - 1])
    BY <2>1, <2>3
  <2>5. g[n] = h[n]
    <3>  DEFINE D == {m \in 0 .. n : g[m] = h[m]}
    <3>1. D \in SUBSET (0 .. n) /\ 0 \in D /\ n \in 0 .. n
      BY <2>1, <2>3
    <3>2. ASSUME NEW m \in 0 .. n - 1, m \in D PROVE m + 1 \in D
      <4>1. m + 1 \in 1 .. n /\ m + 1 \in 0 .. n /\ (m + 1) - 1 = m
        OBVIOUS
      <4>  QED
        BY <2>4, <3>2, <4>1
    <3>3. n \in D
      <4>  HIDE DEF D
      <4>  QED
        BY <3>1, <3>2, UpTo
    <3>  QED
      BY <3>3
  <2>6. g[n + 1] = CrcStep(g[n])
    <3>1. n + 1 \in 1 .. n + 1 /\ (n + 1) - 1 = n
      OBVIOUS
    <3>  QED
      BY <2>3, <3>1
  <2>  QED
    BY <2>1, <2>3, <2>5, <2>6
<1>  QED
  BY <1>1, <1>2

\* The steps of a sum are the sum of the steps.
LEMMA StepsOfSum ==
  ASSUME SizesAssumption, NEW a \in Regs, NEW c \in Regs, NEW n \in Nat
  PROVE  CrcSteps(SymDiff(a, c), n) = SymDiff(CrcSteps(a, n), CrcSteps(c, n))
<1>  DEFINE s == SymDiff(a, c)
            D == {m \in 0 .. n : CrcSteps(s, m) = SymDiff(CrcSteps(a, m), CrcSteps(c, m))}
<1>1. s \in Regs
  BY RegSums
<1>  HIDE DEF s
<1>2. 0 \in D
  <2>1. CrcSteps(s, 0) = s /\ CrcSteps(a, 0) = a /\ CrcSteps(c, 0) = c
    BY <1>1, StepsMore
  <2>  QED
    BY <2>1 DEF s
<1>3. ASSUME NEW m \in 0 .. n - 1, m \in D PROVE m + 1 \in D
  <2>1. m \in Nat /\ m + 1 \in 0 .. n
    OBVIOUS
  <2>2. /\ CrcSteps(s, m + 1) = CrcStep(CrcSteps(s, m))
        /\ CrcSteps(a, m + 1) = CrcStep(CrcSteps(a, m)) /\ CrcSteps(a, m) \in Regs
        /\ CrcSteps(c, m + 1) = CrcStep(CrcSteps(c, m)) /\ CrcSteps(c, m) \in Regs
    BY <1>1, <2>1, StepsMore
  <2>3. CrcSteps(s, m) = SymDiff(CrcSteps(a, m), CrcSteps(c, m))
    BY <1>3
  <2>4. CrcStep(SymDiff(CrcSteps(a, m), CrcSteps(c, m))) = SymDiff(CrcStep(CrcSteps(a, m)), CrcStep(CrcSteps(c, m)))
    BY <2>2, StepOfSum
  <2>  QED
    BY <2>1, <2>2, <2>3, <2>4
<1>4. D \in SUBSET (0 .. n) /\ n \in 0 .. n
  OBVIOUS
<1>5. n \in D
  <2>  HIDE DEF D
  <2>  QED
    BY <1>2, <1>3, <1>4, UpTo
<1>  QED
  BY <1>5 DEF s

\* Steps after steps.
LEMMA StepsAfter ==
  ASSUME SizesAssumption, NEW c \in Regs, NEW k \in Nat, NEW n \in Nat
  PROVE  CrcSteps(CrcSteps(c, k), n) = CrcSteps(c, k + n)
<1>  DEFINE s == CrcSteps(c, k)
            D == {m \in 0 .. n : CrcSteps(s, m) = CrcSteps(c, k + m)}
<1>1. s \in Regs
  BY StepsMore
<1>  HIDE DEF s
<1>2. 0 \in D
  <2>1. CrcSteps(s, 0) = s /\ k + 0 = k
    BY <1>1, StepsMore
  <2>  QED
    BY <2>1 DEF s
<1>3. ASSUME NEW m \in 0 .. n - 1, m \in D PROVE m + 1 \in D
  <2>1. m \in Nat /\ m + 1 \in 0 .. n /\ k + m \in Nat /\ (k + m) + 1 = k + (m + 1)
    OBVIOUS
  <2>2. /\ CrcSteps(s, m + 1) = CrcStep(CrcSteps(s, m))
        /\ CrcSteps(c, (k + m) + 1) = CrcStep(CrcSteps(c, k + m))
    BY <1>1, <2>1, StepsMore
  <2>3. CrcSteps(s, m) = CrcSteps(c, k + m)
    BY <1>3
  <2>  QED
    BY <2>1, <2>2, <2>3
<1>4. D \in SUBSET (0 .. n) /\ n \in 0 .. n
  OBVIOUS
<1>5. n \in D
  <2>  HIDE DEF D
  <2>  QED
    BY <1>2, <1>3, <1>4, UpTo
<1>  QED
  BY <1>5 DEF s

\* Steps that only shift.
LEMMA StepsShift ==
  ASSUME SizesAssumption, NEW c \in Regs, NEW n \in Nat, \A b \in c : b >= n
  PROVE  \A b : b \in CrcSteps(c, n) <=> b \in Int /\ b + n \in c
<1>  DEFINE D == {m \in 0 .. n : \A b : b \in CrcSteps(c, m) <=> b \in Int /\ b + m \in c}
<1>1. 0 \in D
  <2>1. CrcSteps(c, 0) = c /\ c \subseteq Int
    BY StepsMore, RegSums
  <2>2. \A b \in Int : b + 0 = b
    OBVIOUS
  <2>3. \A b : b \in CrcSteps(c, 0) <=> b \in Int /\ b + 0 \in c
    <3>1. \A b : b \in CrcSteps(c, 0) <=> b \in c
      BY <2>1
    <3>2. \A b \in Int : b + 0 \in c <=> b \in c
      BY <2>2
    <3>3. \A b \in c : b \in Int
      BY <2>1
    <3>  QED
      BY <3>1, <3>2, <3>3, Zenon
  <2>4. 0 \in 0 .. n
    OBVIOUS
  <2>  QED
    BY <2>3, <2>4, Zenon
<1>2. ASSUME NEW m \in 0 .. n - 1, m \in D PROVE m + 1 \in D
  <2>1. m \in Nat /\ m + 1 \in 0 .. n /\ m < n
    OBVIOUS
  <2>  DEFINE s == CrcSteps(c, m)
  <2>2. s \in Regs /\ CrcSteps(c, m + 1) = CrcStep(s)
    BY <2>1, StepsMore
  <2>3. \A b : b \in s <=> b \in Int /\ b + m \in c
    BY <1>2
  <2>  HIDE DEF s
  <2>4. 0 \notin s
    <3>1. 0 + m \notin c
      BY <2>1
    <3>  QED
      BY <2>3, <3>1
  <2>5. \A b : b \in CrcStep(s) <=> b \in Int /\ b + 1 \in s /\ b + 1 # 0
    BY <2>2, <2>4, StepIs
  <2>6. \A b \in Int : b + 1 \in s /\ b + 1 # 0 <=> b + (m + 1) \in c
    <3>  TAKE b \in Int
    <3>1. b + 1 \in Int /\ (b + 1) + m = b + (m + 1)
      BY <2>1
    <3>2. b + 1 \in s <=> b + (m + 1) \in c
      BY <2>3, <3>1
    <3>  QED
      BY <2>4, <3>2
  <2>  QED
    BY <2>1, <2>2, <2>5, <2>6
<1>3. D \in SUBSET (0 .. n) /\ n \in 0 .. n
  OBVIOUS
<1>4. n \in D
  <2>  HIDE DEF D
  <2>  QED
    BY <1>1, <1>2, <1>3, UpTo
<1>  QED
  BY <1>4

\* What the tables hold.
LEMMA CrcTabIs ==
  \A m \in 0 .. SliceLen - 1, x \in Halves : CrcTab[m][x] = CrcSteps(x, (m + 1) * Half)
  BY DEF CrcTab, Halves, SliceLen

\* A byte of the CRC is so many of its bits.
LEMMA ByteIs ==
  ASSUME SizesAssumption, NEW c \in Regs, NEW byte \in Halves
  PROVE  OneByte(c, byte) = CrcSteps(SymDiff(c, byte), Half) /\ OneByte(c, byte) \in Regs
<1>0. Half \in Nat \ {0} /\ Half <= CrcBits /\ CrcBits \in Nat /\ c \subseteq Int
  BY Sizes, CrcSizes, RegSums
<1>  DEFINE low == SymDiff(Part(c, Half, 0), byte)
            top == c \ (0 .. Half - 1)
            rest == {b - Half : b \in top}
<1>1. low \in Halves /\ low \in Regs /\ top \in Regs /\ byte \in Regs
  <2>1. Part(c, Half, 0) \in Halves
    BY <1>0, Parts DEF Halves
  <2>2. low \in Halves
    BY <2>1 DEF Halves, SymDiff
  <2>3. top \in Regs
    BY DEF Regs
  <2>  QED
    BY <2>2, <2>3, CrcSizes
<1>2. SymDiff(c, byte) = SymDiff(low, top)
  <2>1. \A b : b \in Part(c, Half, 0) <=> b \in 0 .. Half - 1 /\ b \in c
    <3>1. \A b \in 0 .. Half - 1 : b + Half * 0 = b
      BY <1>0
    <3>2. \A b : b \in Part(c, Half, 0) <=> b \in 0 .. Half - 1 /\ b + Half * 0 \in c
      BY Parts
    <3>  QED
      BY <3>1, <3>2
  <2>2. byte \subseteq 0 .. Half - 1
    BY DEF Halves
  <2>  QED
    BY <2>1, <2>2 DEF SymDiff
<1>3. CrcTab[0][low] = CrcSteps(low, Half)
  <2>1. 0 \in 0 .. SliceLen - 1 /\ (0 + 1) * Half = Half
    BY <1>0, CrcSizes
  <2>  HIDE DEF low
  <2>  QED
    BY <1>1, <2>1, CrcTabIs
<1>4. rest = CrcSteps(top, Half)
  <2>1. \A b \in top : b >= Half
    <3>1. ASSUME NEW b \in top PROVE b >= Half
      <4>1. b \in 0 .. CrcBits - 1 /\ b \notin 0 .. Half - 1
        BY <1>1 DEF Regs
      <4>  QED
        BY <1>0, <4>1
    <3>  QED
      BY <3>1
  <2>2. \A b : b \in CrcSteps(top, Half) <=> b \in Int /\ b + Half \in top
    <3>  HIDE DEF top
    <3>  QED
      BY <1>0, <1>1, <2>1, StepsShift
  <2>3. \A b : b \in rest <=> b \in Int /\ b + Half \in top
    <3>1. ASSUME NEW b \in rest PROVE b \in Int /\ b + Half \in top
      <4>1. PICK a \in top : b = a - Half
        OBVIOUS
      <4>2. a \in Int
        BY <1>0
      <4>3. b \in Int /\ b + Half = a
        BY <1>0, <4>1, <4>2
      <4>  QED
        BY <4>3
    <3>2. ASSUME NEW b \in Int, b + Half \in top PROVE b \in rest
      <4>1. b = (b + Half) - Half
        BY <1>0
      <4>  HIDE DEF top
      <4>  QED
        BY <3>2, <4>1
    <3>  HIDE DEF rest
    <3>  QED
      BY <3>1, <3>2
  <2>  HIDE DEF rest, top
  <2>  QED
    BY <2>2, <2>3
<1>5. OneByte(c, byte) = SymDiff(CrcTab[0][low], rest)
  BY Zenon DEF OneByte
<1>  HIDE DEF low, top, rest
<1>6. CrcSteps(SymDiff(low, top), Half) = SymDiff(CrcSteps(low, Half), CrcSteps(top, Half))
  BY <1>0, <1>1, StepsOfSum
<1>7. CrcSteps(SymDiff(c, byte), Half) \in Regs
  BY <1>0, <1>1, RegSums, StepsMore
<1>  QED
  BY <1>2, <1>3, <1>4, <1>5, <1>6, <1>7

------------------------------------------------------------------------------
(* The CRC of a run of bytes.                                              *)

\* The register after every byte of q, from c.
Registers(h, c, n, q) ==
  /\ h \in [0 .. n -> Regs] /\ h[0] = c /\ \A m \in 1 .. n : h[m] = OneByte(h[m - 1], q[m])
  /\ Bytewise(c, q) = h[n]

\* A byte at a time is a loop.
LEMMA BytesLoop ==
  ASSUME SizesAssumption, NEW c \in Regs, NEW n \in Nat, NEW q \in [1 .. n -> Halves]
  PROVE  \E h : Registers(h, c, n, q)
<1>  DEFINE R == 1 .. n
            t == [x \in Regs \X R |-> OneByte(x[1], q[x[2]])]
<1>1. t \in [Regs \X R -> Regs]
  <2>1. \A x \in Regs \X R : OneByte(x[1], q[x[2]]) \in Regs
    <3>1. ASSUME NEW x \in Regs \X R PROVE OneByte(x[1], q[x[2]]) \in Regs
      <4>1. x[1] \in Regs /\ q[x[2]] \in Halves
        OBVIOUS
      <4>  QED
        BY <4>1, ByteIs
    <3>  QED
      BY <3>1
  <2>  QED
    BY <2>1
<1>2. PICK g \in [SUBSET R -> Regs] : SeqFold(g, c, t, n)
  <2>  HIDE DEF t
  <2>  QED
    BY <1>1, SeqFoldExists
<1>3. \A x \in Regs, m \in R : t[<<x, m>>] = OneByte(x, q[m])
  OBVIOUS
<1>4. \A u \in [SUBSET R -> Regs] :
        u = [s \in SUBSET R |-> IF s = {} THEN c ELSE t[<<u[s \ {Max(s)}], Max(s)>>]]
        <=> u = [s \in SUBSET R |-> IF s = {} THEN c ELSE OneByte(u[s \ {Max(s)}], q[Max(s)])]
  <2>1. ASSUME NEW u \in [SUBSET R -> Regs], NEW s \in SUBSET R
        PROVE  (IF s = {} THEN c ELSE t[<<u[s \ {Max(s)}], Max(s)>>])
                 = IF s = {} THEN c ELSE OneByte(u[s \ {Max(s)}], q[Max(s)])
    <3>1. CASE s # {}
      <4>1. Max(s) \in R /\ u[s \ {Max(s)}] \in Regs
        BY <3>1, Greatest
      <4>  QED
        BY <1>3, <3>1, <4>1
    <3>2. CASE s = {}
      BY <3>2
    <3>  QED
      BY <3>1, <3>2
  <2>  QED
    BY <2>1
<1>  HIDE DEF t
<1>5. \E u : u = [s \in SUBSET R |-> IF s = {} THEN c ELSE OneByte(u[s \ {Max(s)}], q[Max(s)])]
  BY <1>2, <1>4 DEF SeqFold
<1>6. DOMAIN q = R
  OBVIOUS
<1>  HIDE DEF R
<1>7. PICK u : /\ u = [s \in SUBSET R |-> IF s = {} THEN c ELSE OneByte(u[s \ {Max(s)}], q[Max(s)])]
               /\ Bytewise(c, q) = u[R]
  BY <1>5, <1>6, Zenon DEF Bytewise, FoldLeft, MapThenFoldSet
<1>8. /\ \A s \in SUBSET R : u[s] = IF s = {} THEN c ELSE OneByte(u[s \ {Max(s)}], q[Max(s)])
  BY <1>7, Zenon
<1>  USE DEF R
<1>  DEFINE h == [m \in 0 .. n |-> u[1 .. m]]
<1>9. h[0] = c
  <2>1. 1 .. 0 = {} /\ 1 .. 0 \in SUBSET R /\ 0 \in 0 .. n
    OBVIOUS
  <2>  QED
    BY <1>8, <2>1
<1>10. ASSUME NEW m \in 1 .. n PROVE h[m] = OneByte(h[m - 1], q[m])
  <2>1. /\ 1 .. m # {} /\ 1 .. m \in SUBSET R /\ (1 .. m) \ {m} = 1 .. m - 1
        /\ m \in 0 .. n /\ m - 1 \in 0 .. n
    BY FirstPlaces, Zenon
  <2>2. Max(1 .. m) = m
    BY MaxOfFirst
  <2>3. u[1 .. m] = OneByte(u[(1 .. m) \ {Max(1 .. m)}], q[Max(1 .. m)])
    BY <1>8, <2>1, Zenon
  <2>4. h[m] = u[1 .. m] /\ h[m - 1] = u[1 .. m - 1]
    BY <2>1
  <2>  HIDE DEF h
  <2>  QED
    BY <2>1, <2>2, <2>3, <2>4, Zenon
<1>11. \A m \in 0 .. n : h[m] \in Regs
  <2>  DEFINE D == {m \in 0 .. n : h[m] \in Regs}
  <2>1. 0 \in D
    BY <1>9
  <2>2. ASSUME NEW m \in 0 .. n - 1, m \in D PROVE m + 1 \in D
    <3>1. m + 1 \in 1 .. n /\ m + 1 \in 0 .. n /\ (m + 1) - 1 = m /\ h[m] \in Regs
      BY <2>2
    <3>2. h[m + 1] = OneByte(h[(m + 1) - 1], q[m + 1])
      BY <1>10, <3>1, Zenon
    <3>3. q[m + 1] \in Halves
      BY <3>1
    <3>  HIDE DEF h
    <3>  QED
      BY <3>1, <3>2, <3>3, ByteIs
  <2>3. D \in SUBSET (0 .. n)
    OBVIOUS
  <2>4. \A m \in 0 .. n : m \in D
    <3>  HIDE DEF D
    <3>  QED
      BY <2>1, <2>2, <2>3, UpTo
  <2>  QED
    BY <2>4
<1>12. h \in [0 .. n -> Regs] /\ h[n] = u[R]
  BY <1>11
<1>13. Registers(h, c, n, q)
  BY <1>7, <1>9, <1>10, <1>12 DEF Registers
<1>  QED
  BY <1>13

\* No bytes.
LEMMA BytesNone ==
  ASSUME SizesAssumption, NEW c \in Regs, NEW q \in [1 .. 0 -> Halves]
  PROVE  Bytewise(c, q) = c
<1>  DEFINE n == 0
<1>1. n \in Nat /\ q \in [1 .. n -> Halves] /\ n = 0
  OBVIOUS
<1>  HIDE DEF n
<1>2. \E h : Registers(h, c, n, q)
  BY <1>1, BytesLoop
<1>  QED
  BY <1>1, <1>2 DEF Registers

\* q is n bytes, p, and then k, s.
Appends(q, all, p, n, s, k) ==
  /\ n \in Nat /\ k \in Nat /\ all \in Nat /\ all = n + k
  /\ q \in [1 .. all -> Halves] /\ p \in [1 .. n -> Halves] /\ s \in [1 .. k -> Halves]
  /\ \A i \in 1 .. n : p[i] = q[i]
  /\ \A i \in 1 .. k : s[i] = q[n + i]

\* Some bytes, and then the others.
LEMMA BytesAfter ==
  ASSUME SizesAssumption, NEW c \in Regs, NEW q, NEW all, NEW p, NEW n, NEW s, NEW k,
         Appends(q, all, p, n, s, k)
  PROVE  /\ Bytewise(c, p) \in Regs
         /\ Bytewise(c, q) = Bytewise(Bytewise(c, p), s)
<1>  USE DEF Appends
<1>1. PICK g : Registers(g, c, n, p)
  BY BytesLoop
<1>2. Bytewise(c, p) \in Regs
  BY <1>1 DEF Registers
<1>  DEFINE d == Bytewise(c, p)
<1>3. PICK h : Registers(h, c, all, q)
  BY BytesLoop
<1>4. PICK f : Registers(f, d, k, s)
  <2>1. d \in Regs
    BY <1>2
  <2>  HIDE DEF d
  <2>  QED
    BY <2>1, BytesLoop
<1>10. /\ g[0] = c /\ (\A m \in 1 .. n : g[m] = OneByte(g[m - 1], p[m])) /\ d = g[n]
  BY <1>1 DEF Registers
<1>30. /\ h[0] = c /\ (\A m \in 1 .. all : h[m] = OneByte(h[m - 1], q[m])) /\ Bytewise(c, q) = h[n + k]
  BY <1>3 DEF Registers
<1>40. /\ f[0] = d /\ (\A m \in 1 .. k : f[m] = OneByte(f[m - 1], s[m])) /\ Bytewise(d, s) = f[k]
  BY <1>4 DEF Registers
<1>  HIDE DEF d
<1>5. g[n] = h[n]
  <2>  DEFINE D == {m \in 0 .. n : g[m] = h[m]}
  <2>1. D \in SUBSET (0 .. n) /\ 0 \in D /\ n \in 0 .. n
    BY <1>10, <1>30
  <2>2. ASSUME NEW m \in 0 .. n - 1, m \in D PROVE m + 1 \in D
    <3>1. m + 1 \in 1 .. n /\ m + 1 \in 1 .. all /\ m + 1 \in 0 .. n /\ (m + 1) - 1 = m
      OBVIOUS
    <3>2. g[m + 1] = OneByte(g[m], p[m + 1]) /\ h[m + 1] = OneByte(h[m], q[m + 1]) /\ p[m + 1] = q[m + 1]
      BY <1>10, <1>30, <3>1
    <3>  QED
      BY <2>2, <3>1, <3>2
  <2>3. n \in D
    <3>  HIDE DEF D
    <3>  QED
      BY <2>1, <2>2, UpTo
  <2>  QED
    BY <2>3
<1>6. f[k] = h[n + k]
  <2>  DEFINE D == {m \in 0 .. k : f[m] = h[n + m]}
  <2>1. D \in SUBSET (0 .. k) /\ k \in 0 .. k
    OBVIOUS
  <2>2. 0 \in D
    <3>1. n + 0 = n
      OBVIOUS
    <3>  QED
      BY <1>10, <1>40, <1>5, <3>1
  <2>3. ASSUME NEW m \in 0 .. k - 1, m \in D PROVE m + 1 \in D
    <3>1. /\ m + 1 \in 1 .. k /\ n + (m + 1) \in 1 .. all /\ m + 1 \in 0 .. k /\ (m + 1) - 1 = m
          /\ (n + (m + 1)) - 1 = n + m
      OBVIOUS
    <3>2. /\ f[m + 1] = OneByte(f[m], s[m + 1]) /\ s[m + 1] = q[n + (m + 1)]
          /\ h[n + (m + 1)] = OneByte(h[n + m], q[n + (m + 1)])
      BY <1>30, <1>40, <3>1
    <3>  QED
      BY <2>3, <3>1, <3>2
  <2>4. k \in D
    <3>  HIDE DEF D
    <3>  QED
      BY <2>1, <2>2, <2>3, UpTo
  <2>  QED
    BY <2>4
<1>  QED
  BY <1>2, <1>30, <1>40, <1>6 DEF d
------------------------------------------------------------------------------
(* Slices: so many bytes at once, each through a table of its own.         *)

\* The bits of c from its m-th byte on.
From(c, m) == {b \in c : b >= m * Half}

\* A byte of the register, and what is after it.
LEMMA FromIs ==
  ASSUME SizesAssumption, NEW c \in Regs, NEW m \in Nat
  PROVE  /\ From(c, m) \in Regs /\ From(c, m + 1) \in Regs /\ Part(c, Half, m) \in Halves
         /\ \A n \in Nat : CrcSteps(From(c, m), m * Half + n)
              = SymDiff(CrcSteps(From(c, m + 1), m * Half + n), CrcSteps(Part(c, Half, m), n))
<1>  DEFINE w == From(c, m) \ From(c, m + 1)
            e == m * Half
<1>0. Half \in Nat \ {0} /\ c \subseteq Int /\ e \in Nat /\ (m + 1) * Half = e + Half
  BY Sizes, RegSums
<1>  HIDE DEF e
<1>1. \A b : (b \in From(c, m) <=> b \in c /\ b >= e) /\ (b \in From(c, m + 1) <=> b \in c /\ b >= e + Half)
  BY <1>0 DEF From, e
<1>2. From(c, m) \in Regs /\ From(c, m + 1) \in Regs /\ w \in Regs
  BY DEF From, Regs
<1>3. From(c, m) = SymDiff(From(c, m + 1), w)
  <2>1. \A b \in c : b >= e + Half => b >= e
    BY <1>0
  <2>2. From(c, m + 1) \subseteq From(c, m)
    BY <1>1, <2>1
  <2>  QED
    BY <2>2 DEF SymDiff
<1>4. \A b : b \in w <=> b \in c /\ b >= e /\ b < e + Half
  <2>1. \A b \in c : ~ (b >= e + Half) <=> b < e + Half
    BY <1>0
  <2>  QED
    BY <1>1, <2>1
<1>5. CrcSteps(w, e) = Part(c, Half, m)
  <2>1. \A b : b \in CrcSteps(w, e) <=> b \in Int /\ b + e \in w
    <3>1. \A b \in w : b >= e
      BY <1>4
    <3>  HIDE DEF w
    <3>  QED
      BY <1>0, <1>2, <3>1, StepsShift
  <2>2. \A b : b \in Part(c, Half, m) <=> b \in 0 .. Half - 1 /\ b + e \in c
    <3>1. Half * m = e
      BY <1>0 DEF e
    <3>  QED
      BY <3>1, Parts
  <2>3. \A b \in Int : (b + e >= e /\ b + e < e + Half) <=> b \in 0 .. Half - 1
    BY <1>0
  <2>4. 0 .. Half - 1 \subseteq Int
    BY <1>0
  <2>  HIDE DEF w
  <2>  QED
    BY <1>4, <2>1, <2>2, <2>3, <2>4
<1>6. Part(c, Half, m) \in Halves
  BY <1>0, Parts DEF Halves
<1>7. ASSUME NEW n \in Nat
      PROVE  CrcSteps(From(c, m), e + n) = SymDiff(CrcSteps(From(c, m + 1), e + n), CrcSteps(Part(c, Half, m), n))
  <2>1. e + n \in Nat
    BY <1>0
  <2>2. CrcSteps(SymDiff(From(c, m + 1), w), e + n) = SymDiff(CrcSteps(From(c, m + 1), e + n), CrcSteps(w, e + n))
    <3>  HIDE DEF w
    <3>  QED
      BY <1>2, <2>1, StepsOfSum
  <2>3. CrcSteps(w, e + n) = CrcSteps(CrcSteps(w, e), n)
    <3>  HIDE DEF w
    <3>  QED
      BY <1>0, <1>2, StepsAfter
  <2>  HIDE DEF w
  <2>  QED
    BY <1>3, <1>5, <2>2, <2>3
<1>  QED
  BY <1>2, <1>6, <1>7 DEF e

\* All of the register, and nothing of it.
LEMMA FromEnds ==
  ASSUME SizesAssumption, NEW c \in Regs
  PROVE  /\ From(c, 0) = c /\ From(c, SliceLen) = {}
         /\ \A k \in Nat : k >= SliceLen \div 2 => Part(c, Half, k) = {}
         /\ \A n \in Nat : CrcSteps({}, n) = {}
<1>0. /\ Half \in Nat \ {0} /\ c \subseteq 0 .. CrcBits - 1 /\ CrcBits \in Nat
      /\ CrcBits = Half * (SliceLen \div 2) /\ SliceLen \div 2 \in Nat /\ SliceLen = 2 * (SliceLen \div 2)
  BY Sizes, CrcSizes DEF Regs
<1>1. From(c, 0) = c
  <2>1. 0 * Half = 0 /\ \A b \in c : b >= 0
    BY <1>0
  <2>  QED
    BY <2>1 DEF From
<1>  DEFINE h == SliceLen \div 2
<1>2. \A k \in Nat : k >= h => k * Half \in Nat /\ k * Half >= CrcBits
  <2>  HIDE DEF h
  <2>1. \A k, a, b \in Nat : k >= a => k * b \in Nat /\ k * b >= b * a
    OBVIOUS
  <2>  QED
    BY <1>0, <2>1 DEF h
<1>3. From(c, SliceLen) = {}
  <2>1. SliceLen \in Nat /\ SliceLen >= h
    <3>  HIDE DEF h
    <3>1. \A x, y \in Nat : x = 2 * y => x \in Nat /\ x >= y
      OBVIOUS
    <3>2. h \in Nat /\ SliceLen = 2 * h
      BY <1>0 DEF h
    <3>  QED
      BY <3>2
  <2>2. SliceLen * Half \in Nat /\ SliceLen * Half >= CrcBits
    BY <1>2, <2>1
  <2>  DEFINE e == SliceLen * Half
  <2>3. e \in Nat /\ e >= CrcBits
    BY <2>2
  <2>  HIDE DEF e
  <2>4. \A b \in c : ~ (b >= e)
    BY <1>0, <2>3
  <2>  QED
    BY <2>4 DEF From, e
<1>4. ASSUME NEW k \in Nat, k >= h PROVE Part(c, Half, k) = {}
  <2>  DEFINE e == Half * k
  <2>1. e \in Nat /\ e >= CrcBits
    <3>1. k * Half \in Nat /\ k * Half >= CrcBits
      BY <1>2, <1>4
    <3>2. Half * k = k * Half
      BY <1>0
    <3>  QED
      BY <3>1, <3>2
  <2>  HIDE DEF e
  <2>2. \A b \in 0 .. Half - 1 : b + e \notin 0 .. CrcBits - 1
    BY <1>0, <2>1
  <2>3. \A b : b \in Part(c, Half, k) <=> b \in 0 .. Half - 1 /\ b + e \in c
    BY Parts DEF e
  <2>  QED
    BY <1>0, <2>2, <2>3
<1>5. ASSUME NEW n \in Nat PROVE CrcSteps({}, n) = {}
  <2>1. {} \in Regs /\ SymDiff({}, {}) = {}
    BY RegSums, XorSets
  <2>2. CrcSteps(SymDiff({}, {}), n) = SymDiff(CrcSteps({}, n), CrcSteps({}, n))
    BY <2>1, StepsOfSum
  <2>  QED
    BY <2>1, <2>2, XorSets
<1>  QED
  BY <1>1, <1>3, <1>4, <1>5
\* What a byte of a slice adds to the register.
Slice(c, q) ==
  [k \in 0 .. SliceLen - 1 |-> CrcTab[SliceLen - 1 - k][
     IF k < SliceLen \div 2 THEN SymDiff(q[k + 1], Part(c, Half, k)) ELSE q[k + 1]]]

\* It is what the byte and its part of the register come to at the end of the slice.
LEMMA SliceIs ==
  ASSUME SizesAssumption, NEW c \in Regs, NEW q \in [1 .. SliceLen -> Halves], NEW k \in 0 .. SliceLen - 1
  PROVE  /\ q[k + 1] \in Halves /\ q[k + 1] \in Regs /\ Part(c, Half, k) \in Halves /\ Part(c, Half, k) \in Regs
         /\ (SliceLen - k) * Half \in Nat
         /\ Slice(c, q)[k] = SymDiff(CrcSteps(q[k + 1], (SliceLen - k) * Half),
                                     CrcSteps(Part(c, Half, k), (SliceLen - k) * Half))
         /\ Slice(c, q)[k] \in Regs
<1>0. Half \in Nat \ {0} /\ SliceLen \in Nat \ {0} /\ SliceLen \div 2 \in Nat /\ Halves \subseteq Regs /\ k \in Nat
  BY Sizes, CrcSizes
<1>1. k + 1 \in 1 .. SliceLen /\ SliceLen - 1 - k \in 0 .. SliceLen - 1 /\ (SliceLen - 1 - k) + 1 = SliceLen - k
  BY <1>0
<1>2. (SliceLen - k) * Half \in Nat
  <2>1. SliceLen - k \in Nat
    BY <1>0
  <2>  QED
    BY <1>0, <2>1
<1>  DEFINE b == q[k + 1]
            p == Part(c, Half, k)
            x == IF k < SliceLen \div 2 THEN SymDiff(b, p) ELSE b
<1>3. b \in Halves /\ p \in Halves
  BY <1>0, <1>1, Parts DEF Halves
<1>4. x = SymDiff(b, p)
  <2>1. CASE k < SliceLen \div 2
    BY <2>1
  <2>2. CASE ~ (k < SliceLen \div 2)
    <3>1. k >= SliceLen \div 2
      BY <1>0, <2>2
    <3>2. p = {}
      BY <1>0, <3>1, FromEnds
    <3>  QED
      BY <2>2, <3>2, XorSets
  <2>  QED
    BY <2>1, <2>2
<1>5. Slice(c, q)[k] = CrcTab[SliceLen - 1 - k][x]
  BY DEF Slice
<1>  HIDE DEF b, p, x
<1>6. SymDiff(b, p) \in Halves
  BY <1>3 DEF Halves, SymDiff
<1>7. CrcTab[SliceLen - 1 - k][x] = CrcSteps(SymDiff(b, p), (SliceLen - k) * Half)
  BY <1>1, <1>4, <1>6, CrcTabIs
<1>8. b \in Regs /\ p \in Regs
  BY <1>0, <1>3
<1>9. CrcSteps(SymDiff(b, p), (SliceLen - k) * Half)
        = SymDiff(CrcSteps(b, (SliceLen - k) * Half), CrcSteps(p, (SliceLen - k) * Half))
  BY <1>2, <1>8, StepsOfSum
<1>10. CrcSteps(SymDiff(b, p), (SliceLen - k) * Half) \in Regs
  <2>1. SymDiff(b, p) \in Regs
    BY <1>8, RegSums
  <2>  QED
    BY <1>2, <2>1, StepsMore
<1>  QED
  BY <1>2, <1>3, <1>5, <1>7, <1>8, <1>9, <1>10 DEF b, p

\* The sum of the first so many.
SumOfSlice(c, q, m) == XorOf(0 .. m - 1, Slice(c, q))

\* One byte more.
LEMMA SliceMore ==
  ASSUME SizesAssumption, NEW c \in Regs, NEW q \in [1 .. SliceLen -> Halves]
  PROVE  /\ SumOfSlice(c, q, 0) = {} /\ OneSlice(c, q) = SumOfSlice(c, q, SliceLen)
         /\ \A m \in 0 .. SliceLen - 1 : SumOfSlice(c, q, m + 1) = SymDiff(SumOfSlice(c, q, m), Slice(c, q)[m])
<1>0. SliceLen \in Nat \ {0}
  BY CrcSizes
<1>1. \A k \in 0 .. SliceLen - 1 : Slice(c, q)[k] \subseteq Int
  BY SliceIs, RegSums
<1>2. SumOfSlice(c, q, 0) = {}
  <2>1. 0 .. 0 - 1 = {}
    OBVIOUS
  <2>  QED
    BY <2>1, XorOfNone DEF SumOfSlice
<1>3. ASSUME NEW m \in 0 .. SliceLen - 1
      PROVE  SumOfSlice(c, q, m + 1) = SymDiff(SumOfSlice(c, q, m), Slice(c, q)[m])
  <2>1. /\ 0 .. (m + 1) - 1 = (0 .. m - 1) \cup {m} /\ m \notin 0 .. m - 1
        /\ IsFiniteSet(0 .. m - 1)
    BY FirstMore
  <2>2. Slice(c, q)[m] \subseteq Int
    BY <1>1
  <2>3. XorOf((0 .. m - 1) \cup {m}, Slice(c, q)) = SymDiff(XorOf(0 .. m - 1, Slice(c, q)), Slice(c, q)[m])
    BY <2>1, <2>2, XorOfMore
  <2>  QED
    BY <2>1, <2>3 DEF SumOfSlice
<1>4. OneSlice(c, q) = SumOfSlice(c, q, SliceLen)
  <2>1. DOMAIN Slice(c, q) = 0 .. SliceLen - 1
    BY DEF Slice
  <2>2. IsFiniteSet(0 .. SliceLen - 1)
    BY <1>0, FirstMore
  <2>3. XorAll(Slice(c, q)) = XorOf(0 .. SliceLen - 1, Slice(c, q))
    <3>  DEFINE f == Slice(c, q)
    <3>1. IsFiniteSet(DOMAIN f) /\ \A i \in DOMAIN f : f[i] \subseteq Int
      BY <1>1, <2>1, <2>2
    <3>2. DOMAIN f = 0 .. SliceLen - 1
      BY <2>1
    <3>  HIDE DEF f
    <3>3. XorAll(f) = XorOf(DOMAIN f, f)
      BY <3>1, XorAllIs
    <3>  QED
      BY <3>2, <3>3 DEF f
  <2>4. OneSlice(c, q) = XorAll(Slice(c, q))
    BY Zenon DEF OneSlice, Slice
  <2>  QED
    BY <2>3, <2>4 DEF SumOfSlice
<1>  QED
  BY <1>2, <1>3, <1>4

\* A slice is its bytes one at a time.
LEMMA OneSliceIs ==
  ASSUME SizesAssumption, NEW c \in Regs, NEW q \in [1 .. SliceLen -> Halves]
  PROVE  OneSlice(c, q) = Bytewise(c, q)
<1>0. Half \in Nat \ {0} /\ SliceLen \in Nat \ {0}
  BY Sizes, CrcSizes
<1>1. PICK h :
        /\ h \in [0 .. SliceLen -> Regs] /\ h[0] = c
        /\ \A m \in 1 .. SliceLen : h[m] = OneByte(h[m - 1], q[m])
        /\ Bytewise(c, q) = h[SliceLen]
  <2>1. \E h : Registers(h, c, SliceLen, q)
    BY <1>0, BytesLoop
  <2>  QED
    BY <2>1 DEF Registers
<1>  DEFINE N == SliceLen
            G(m) == SumOfSlice(c, q, m)
            full == N * Half
            F(m) == CrcSteps(From(c, m), full)
            D == {m \in 0 .. N : CrcSteps(h[m], (N - m) * Half) = SymDiff(G(m), F(m))}
<1>2. full \in Nat
  BY <1>0
<1>3. 0 \in D
  <2>1. (N - 0) * Half = full /\ 0 \in 0 .. N
    BY <1>0
  <2>2. G(0) = {} /\ From(c, 0) = c
    BY SliceMore, FromEnds
  <2>3. CrcSteps(h[0], (N - 0) * Half) = SymDiff(G(0), F(0))
    <3>1. F(0) = CrcSteps(c, full) /\ CrcSteps(h[0], (N - 0) * Half) = CrcSteps(c, full)
      <4>  HIDE DEF N, full
      <4>  QED
        BY <1>1, <2>1, <2>2
    <3>2. SymDiff({}, F(0)) = F(0)
      BY XorSets
    <3>  HIDE DEF N, G, F, full
    <3>  QED
      BY <2>2, <3>1, <3>2
  <2>  HIDE DEF N, G, F
  <2>  QED
    BY <2>1, <2>3
<1>4. ASSUME NEW m \in 0 .. N - 1, m \in D PROVE m + 1 \in D
  <2>  DEFINE b == q[m + 1]
              p == Part(c, Half, m)
              t == (N - m) * Half
              e == (N - (m + 1)) * Half
              d == m * Half
  <2>1. /\ m \in Nat /\ m + 1 \in 1 .. N /\ m + 1 \in 0 .. N /\ (m + 1) - 1 = m /\ m \in 0 .. N
        /\ t \in Nat /\ e \in Nat /\ d \in Nat /\ t = Half + e /\ full = d + t
    <3>1. m \in Nat /\ m + 1 \in 1 .. N /\ m + 1 \in 0 .. N /\ (m + 1) - 1 = m /\ m \in 0 .. N
      BY <1>0
    <3>  DEFINE k == N - (m + 1)
    <3>2. k \in Nat /\ N - m = k + 1 /\ N = m + (k + 1)
      BY <1>0, <3>1
    <3>  HIDE DEF N, k
    <3>3. /\ k * Half \in Nat /\ (k + 1) * Half \in Nat /\ m * Half \in Nat
          /\ (k + 1) * Half = Half + k * Half /\ (m + (k + 1)) * Half = m * Half + (k + 1) * Half
      BY <1>0, <3>1, <3>2
    <3>  QED
      BY <3>1, <3>2, <3>3 DEF k
  <2>2. /\ b \in Halves /\ b \in Regs /\ p \in Regs
        /\ Slice(c, q)[m] = SymDiff(CrcSteps(b, t), CrcSteps(p, t))
    BY SliceIs
  <2>3. G(m + 1) = SymDiff(G(m), Slice(c, q)[m])
    BY SliceMore
  <2>4. F(m) = SymDiff(F(m + 1), CrcSteps(p, t))
    BY <2>1, FromIs
  <2>5. CrcSteps(h[m], t) = SymDiff(G(m), F(m))
    BY <1>4
  <2>6. h[m] \in Regs /\ h[m + 1] = OneByte(h[m], b)
    BY <1>1, <2>1
  <2>  HIDE DEF N, G, F, b, p, t, e, d, full, D
  <2>7. CrcSteps(h[m + 1], e) = CrcSteps(SymDiff(h[m], b), t)
    <3>1. OneByte(h[m], b) = CrcSteps(SymDiff(h[m], b), Half)
      BY <2>2, <2>6, ByteIs
    <3>2. SymDiff(h[m], b) \in Regs
      BY <2>2, <2>6, RegSums
    <3>3. CrcSteps(CrcSteps(SymDiff(h[m], b), Half), e) = CrcSteps(SymDiff(h[m], b), Half + e)
      BY <1>0, <2>1, <3>2, StepsAfter
    <3>  QED
      BY <2>1, <2>6, <3>1, <3>3
  <2>8. CrcSteps(SymDiff(h[m], b), t) = SymDiff(CrcSteps(h[m], t), CrcSteps(b, t))
    BY <2>1, <2>2, <2>6, StepsOfSum
  <2>9. \A g, f, x, y : SymDiff(SymDiff(g, SymDiff(f, y)), x) = SymDiff(SymDiff(g, SymDiff(x, y)), f)
    BY DEF SymDiff
  <2>10. CrcSteps(h[m + 1], e) = SymDiff(G(m + 1), F(m + 1))
    <3>1. CrcSteps(h[m + 1], e) = SymDiff(SymDiff(G(m), SymDiff(F(m + 1), CrcSteps(p, t))), CrcSteps(b, t))
      BY <2>4, <2>5, <2>7, <2>8
    <3>2. G(m + 1) = SymDiff(G(m), SymDiff(CrcSteps(b, t), CrcSteps(p, t)))
      BY <2>2, <2>3
    <3>  QED
      BY <2>9, <3>1, <3>2
  <2>  QED
    BY <2>1, <2>10 DEF D, e
<1>5. N \in D
  <2>1. D \in SUBSET (0 .. N) /\ N \in 0 .. N /\ N \in Nat
    BY <1>0
  <2>  HIDE DEF D, N
  <2>  QED
    BY <1>3, <1>4, <2>1, UpTo
<1>6. CrcSteps(h[N], (N - N) * Half) = h[N] /\ F(N) = {} /\ G(N) = OneSlice(c, q)
  <2>1. (N - N) * Half = 0 /\ N \in 0 .. N
    BY <1>0
  <2>2. h[N] \in Regs
    BY <1>1, <2>1
  <2>3. CrcSteps(h[N], 0) = h[N]
    BY <2>2, StepsMore
  <2>4. F(N) = {}
    <3>1. From(c, SliceLen) = {}
      BY FromEnds
    <3>  HIDE DEF full
    <3>  QED
      BY <1>2, <3>1, FromEnds
  <2>5. G(N) = OneSlice(c, q)
    BY SliceMore
  <2>  HIDE DEF N, F, G
  <2>  QED
    BY <2>1, <2>3, <2>4, <2>5
<1>7. h[N] = OneSlice(c, q)
  <2>1. CrcSteps(h[N], (N - N) * Half) = SymDiff(G(N), F(N))
    BY <1>5
  <2>  HIDE DEF N, F, G
  <2>  QED
    BY <1>6, <2>1, XorSets
<1>  QED
  BY <1>1, <1>7
------------------------------------------------------------------------------
(* A run of bytes in slices, with what is left over.                       *)

\* A stretch of a sequence.
LEMMA StretchIs ==
  ASSUME NEW V, NEW n \in Nat, NEW q \in [1 .. n -> V], NEW a \in 0 .. n, NEW b \in a .. n
  PROVE  /\ Len(q) = n
         /\ SubSeq(q, a + 1, b) \in [1 .. b - a -> V]
         /\ \A i \in 1 .. b - a : SubSeq(q, a + 1, b)[i] = q[a + i]
<1>1. q \in Seq(V) /\ Len(q) = n
  OBVIOUS
<1>2. a \in Nat /\ b \in Nat /\ a <= b /\ b <= n /\ b - a \in Nat
  OBVIOUS
<1>3. SubSeq(q, a + 1, b) = [i \in 1 .. b - a |-> q[a + i]]
  <2>1. SubSeq(q, a + 1, b) = [i \in 1 .. (b - (a + 1)) + 1 |-> q[(i + (a + 1)) - 1]]
    BY <1>1, <1>2
  <2>2. (b - (a + 1)) + 1 = b - a /\ \A i \in 1 .. b - a : (i + (a + 1)) - 1 = a + i
    BY <1>2
  <2>  QED
    BY <2>1, <2>2
<1>4. \A i \in 1 .. b - a : a + i \in 1 .. n
  BY <1>2
<1>  QED
  BY <1>1, <1>3, <1>4

\* The bytes of a slice.
Cut(q, m) == SubSeq(q, (m - 1) * SliceLen + 1, ((m - 1) + 1) * SliceLen)

\* They lie in the run.
LEMMA CutIs ==
  ASSUME SizesAssumption, NEW n \in Nat, NEW q \in [1 .. n -> Halves], NEW m \in 1 .. n \div SliceLen
  PROVE  /\ Cut(q, m) \in [1 .. SliceLen -> Halves]
         /\ (m - 1) * SliceLen \in Nat /\ m * SliceLen = (m - 1) * SliceLen + SliceLen /\ m * SliceLen \in 0 .. n
         /\ \A i \in 1 .. SliceLen : Cut(q, m)[i] = q[(m - 1) * SliceLen + i]
<1>0. SliceLen \in Nat \ {0}
  BY CrcSizes
<1>  DEFINE L == SliceLen
            k == n \div L
            a == (m - 1) * L
            b == ((m - 1) + 1) * L
<1>1. /\ L \in Nat \ {0} /\ k \in Nat /\ L * k <= n /\ m \in 1 .. k
  <2>1. n = L * k + (n % L) /\ n % L \in 0 .. L - 1 /\ k \in Nat
    BY <1>0, DivMod
  <2>  DEFINE x == L * k
              y == n % L
  <2>2. x \in Nat /\ y \in Nat /\ n = x + y
    BY <1>0, <2>1
  <2>3. x <= n
    <3>  HIDE DEF x, y
    <3>  QED
      BY <2>2
  <2>  QED
    BY <1>0, <2>1, <2>3
<1>  HIDE DEF L, k
<1>2. a \in Nat /\ b = m * L /\ b = a + L /\ b \in Nat /\ b <= L * k
  <2>1. m \in Nat /\ m - 1 \in Nat /\ (m - 1) + 1 = m /\ m <= k
    BY <1>1
  <2>2. \A x, y \in Nat : x * y \in Nat /\ (x + 1) * y = x * y + y /\ (x + 1) * y \in Nat
    OBVIOUS
  <2>3. \A x, y, z \in Nat : x <= y => x * z <= z * y
    OBVIOUS
  <2>4. a \in Nat /\ b = a + L /\ b \in Nat
    BY <1>1, <2>1, <2>2
  <2>5. m * L <= L * k
    BY <1>1, <2>1, <2>3
  <2>  QED
    BY <2>1, <2>4, <2>5
<1>  HIDE DEF a, b
<1>3. a \in 0 .. n /\ b \in a .. n /\ b - a = L /\ b \in 0 .. n
  <2>  DEFINE x == L * k
  <2>1. x \in Int
    BY <1>1
  <2>  HIDE DEF x
  <2>2. b <= x /\ x <= n
    BY <1>1, <1>2 DEF x
  <2>  QED
    BY <1>1, <1>2, <2>1, <2>2
<1>4. /\ SubSeq(q, a + 1, b) \in [1 .. b - a -> Halves]
      /\ \A i \in 1 .. b - a : SubSeq(q, a + 1, b)[i] = q[a + i]
  BY <1>3, StretchIs
<1>5. Cut(q, m) = SubSeq(q, a + 1, b)
  BY DEF Cut, a, b, L
<1>  QED
  BY <1>2, <1>3, <1>4, <1>5 DEF a, L

\* The register after every slice of q, from c.
SliceRegisters(h, c, n, q) ==
  /\ h \in [0 .. n \div SliceLen -> Regs] /\ h[0] = c
  /\ \A m \in 1 .. n \div SliceLen : h[m] = OneSlice(h[m - 1], Cut(q, m))
  /\ CrcUpdate(c, q) = Bytewise(h[n \div SliceLen], SubSeq(q, (n \div SliceLen) * SliceLen + 1, n))

\* The slices are a loop.
LEMMA SlicesLoop ==
  ASSUME SizesAssumption, NEW c \in Regs, NEW n \in Nat, NEW q \in [1 .. n -> Halves]
  PROVE  \E h : SliceRegisters(h, c, n, q)
<1>  DEFINE k == n \div SliceLen
            R == 1 .. k
            t == [x \in Regs \X R |-> OneSlice(x[1], Cut(q, x[2]))]
            places == [s \in 1 .. k |-> s - 1]
<1>0. k \in Nat /\ Len(q) = n /\ SliceLen \in Nat \ {0}
  <2>1. 0 \in 0 .. n /\ n \in 0 .. n
    OBVIOUS
  <2>2. Len(q) = n
    BY <2>1, StretchIs
  <2>  QED
    BY <2>2, CrcSizes, DivMod
<1>00. \A x \in Regs, m \in R : OneSlice(x, Cut(q, m)) \in Regs
  <2>1. ASSUME NEW x \in Regs, NEW m \in R PROVE OneSlice(x, Cut(q, m)) \in Regs
    <3>1. Cut(q, m) \in [1 .. SliceLen -> Halves]
      BY CutIs
    <3>2. OneSlice(x, Cut(q, m)) = Bytewise(x, Cut(q, m))
      BY <3>1, OneSliceIs
    <3>3. PICK h : Registers(h, x, SliceLen, Cut(q, m))
      BY <1>0, <3>1, BytesLoop
    <3>4. h[SliceLen] \in Regs /\ Bytewise(x, Cut(q, m)) = h[SliceLen]
      BY <1>0, <3>3 DEF Registers
    <3>  QED
      BY <3>2, <3>3, <3>4
  <2>  QED
    BY <2>1
<1>  HIDE DEF k
<1>1. t \in [Regs \X R -> Regs]
  BY <1>00
<1>2. PICK g \in [SUBSET R -> Regs] : SeqFold(g, c, t, k)
  <2>  HIDE DEF t
  <2>  QED
    BY <1>0, <1>1, SeqFoldExists
<1>3. \A x \in Regs, m \in R : t[<<x, m>>] = OneSlice(x, Cut(q, m))
  OBVIOUS
<1>  DEFINE e(u, s) == OneSlice(u[s \ {Max(s)}],
                                SubSeq(q, places[Max(s)] * SliceLen + 1, (places[Max(s)] + 1) * SliceLen))
<1>4. \A u \in [SUBSET R -> Regs] :
        u = [s \in SUBSET R |-> IF s = {} THEN c ELSE t[<<u[s \ {Max(s)}], Max(s)>>]]
        <=> u = [s \in SUBSET R |-> IF s = {} THEN c ELSE e(u, s)]
  <2>1. ASSUME NEW u \in [SUBSET R -> Regs], NEW s \in SUBSET R
        PROVE  (IF s = {} THEN c ELSE t[<<u[s \ {Max(s)}], Max(s)>>]) = IF s = {} THEN c ELSE e(u, s)
    <3>1. CASE s # {}
      <4>1. Max(s) \in R /\ u[s \ {Max(s)}] \in Regs
        BY <1>0, <3>1, Greatest
      <4>2. places[Max(s)] = Max(s) - 1
        BY <4>1
      <4>3. e(u, s) = OneSlice(u[s \ {Max(s)}], Cut(q, Max(s)))
        <5>  HIDE DEF places
        <5>  QED
          BY <4>2, Zenon DEF Cut
      <4>4. t[<<u[s \ {Max(s)}], Max(s)>>] = OneSlice(u[s \ {Max(s)}], Cut(q, Max(s)))
        <5>  HIDE DEF t
        <5>  QED
          BY <1>3, <4>1, Zenon
      <4>  HIDE DEF e, t
      <4>  QED
        BY <3>1, <4>3, <4>4
    <3>2. CASE s = {}
      BY <3>2
    <3>  QED
      BY <3>1, <3>2
  <2>  HIDE DEF e, t
  <2>  QED
    BY <2>1
<1>5. \E u : u = [s \in SUBSET R |-> IF s = {} THEN c ELSE e(u, s)]
  <2>  HIDE DEF e, t
  <2>  QED
    BY <1>2, <1>4 DEF SeqFold
<1>6. DOMAIN places = R
  OBVIOUS
<1>  HIDE DEF R, places
<1>7. PICK u : /\ u = [s \in SUBSET R |-> IF s = {} THEN c ELSE e(u, s)]
               /\ FoldLeft(LAMBDA reg, s : OneSlice(reg, SubSeq(q, s * SliceLen + 1, (s + 1) * SliceLen)), c, places)
                    = u[R]
  BY <1>5, <1>6, Zenon DEF FoldLeft, MapThenFoldSet
<1>70. CrcUpdate(c, q) = Bytewise(u[R], SubSeq(q, k * SliceLen + 1, n))
  BY <1>0, <1>7, Zenon DEF CrcUpdate, k, places
<1>8. \A s \in SUBSET R : u[s] = IF s = {} THEN c ELSE e(u, s)
  BY <1>7, Zenon
<1>  USE DEF R
<1>  DEFINE h == [m \in 0 .. k |-> u[1 .. m]]
<1>9. h[0] = c
  <2>1. 1 .. 0 = {} /\ 1 .. 0 \in SUBSET R /\ 0 \in 0 .. k
    BY <1>0
  <2>  HIDE DEF e
  <2>  QED
    BY <1>8, <2>1
<1>10. ASSUME NEW m \in 1 .. k PROVE h[m] = OneSlice(h[m - 1], Cut(q, m))
  <2>1. /\ 1 .. m # {} /\ 1 .. m \in SUBSET R /\ (1 .. m) \ {m} = 1 .. m - 1
        /\ m \in 0 .. k /\ m - 1 \in 0 .. k /\ m \in Nat \ {0}
    <3>1. m \in Nat \ {0}
      BY <1>0
    <3>  QED
      BY <1>0, <3>1, FirstPlaces, Zenon
  <2>2. Max(1 .. m) = m
    BY <2>1, MaxOfFirst
  <2>3. u[1 .. m] = e(u, 1 .. m)
    <3>  HIDE DEF e
    <3>  QED
      BY <1>8, <2>1, Zenon
  <2>4. h[m] = u[1 .. m] /\ h[m - 1] = u[1 .. m - 1]
    BY <2>1
  <2>5. places[m] = m - 1
    BY <2>1 DEF places
  <2>6. e(u, 1 .. m) = OneSlice(u[1 .. m - 1], Cut(q, m))
    BY <2>1, <2>2, <2>5, Zenon DEF Cut
  <2>  HIDE DEF h, e
  <2>  QED
    BY <2>3, <2>4, <2>6, Zenon
<1>11. \A m \in 0 .. k : h[m] \in Regs
  <2>  DEFINE D == {m \in 0 .. k : h[m] \in Regs}
  <2>1. 0 \in D
    BY <1>0, <1>9
  <2>2. ASSUME NEW m \in 0 .. k - 1, m \in D PROVE m + 1 \in D
    <3>1. m + 1 \in 1 .. k /\ m + 1 \in 0 .. k /\ (m + 1) - 1 = m /\ h[m] \in Regs
      BY <1>0, <2>2
    <3>2. h[m + 1] = OneSlice(h[(m + 1) - 1], Cut(q, m + 1))
      BY <1>10, <3>1, Zenon
    <3>  HIDE DEF h
    <3>  QED
      BY <1>00, <3>1, <3>2
  <2>3. D \in SUBSET (0 .. k)
    OBVIOUS
  <2>4. \A m \in 0 .. k : m \in D
    <3>  HIDE DEF D
    <3>  QED
      BY <1>0, <2>1, <2>2, <2>3, UpTo
  <2>  QED
    BY <2>4
<1>12. h \in [0 .. k -> Regs] /\ h[k] = u[R]
  BY <1>0, <1>11
<1>13. SliceRegisters(h, c, n, q)
  BY <1>9, <1>10, <1>12, <1>70 DEF SliceRegisters, k
<1>  QED
  BY <1>13
\* Slices and all, it is the CRC of the bytes one at a time.
LEMMA CrcUpdateIs ==
  ASSUME SizesAssumption, NEW c \in Regs, NEW n \in Nat, NEW q \in [1 .. n -> Halves]
  PROVE  CrcUpdate(c, q) = Bytewise(c, q)
<1>  DEFINE k == n \div SliceLen
            first(j) == [i \in 1 .. j |-> q[i]]
            tail == SubSeq(q, k * SliceLen + 1, n)
<1>0. SliceLen \in Nat \ {0} /\ k \in Nat /\ k * SliceLen \in 0 .. n
  <2>1. SliceLen \in Nat \ {0} /\ k \in Nat
    BY CrcSizes, DivMod
  <2>2. CASE k = 0
    <3>1. 0 * SliceLen = 0
      BY <2>1
    <3>  QED
      BY <2>1, <2>2, <3>1
  <2>3. CASE k # 0
    <3>1. k \in 1 .. k
      BY <2>1, <2>3
    <3>2. k * SliceLen \in 0 .. n
      <4>  QED
        BY <3>1, CutIs
    <3>  QED
      BY <2>1, <3>2
  <2>  QED
    BY <2>2, <2>3
<1>1. PICK h :
        /\ h \in [0 .. k -> Regs] /\ h[0] = c /\ \A m \in 1 .. k : h[m] = OneSlice(h[m - 1], Cut(q, m))
        /\ CrcUpdate(c, q) = Bytewise(h[k], tail)
  BY SlicesLoop DEF SliceRegisters
<1>2. \A j \in 0 .. n : first(j) \in [1 .. j -> Halves] /\ \A i \in 1 .. j : first(j)[i] = q[i]
  OBVIOUS
<1>  DEFINE D == {m \in 0 .. k : h[m] = Bytewise(c, first(m * SliceLen))}
<1>3. 0 \in D
  <2>1. 0 * SliceLen = 0 /\ 0 \in 0 .. k /\ 0 \in 0 .. n /\ 0 \in Nat
    BY <1>0
  <2>2. first(0) \in [1 .. 0 -> Halves]
    BY <1>2, <2>1
  <2>  DEFINE none == first(0)
  <2>  HIDE DEF first, none
  <2>3. Bytewise(c, none) = c
    <3>1. none \in [1 .. 0 -> Halves]
      BY <2>2 DEF none
    <3>  QED
      BY <3>1, BytesNone
  <2>  HIDE DEF k
  <2>  QED
    BY <1>1, <2>1, <2>3 DEF none
<1>4. ASSUME NEW m \in 0 .. k - 1, m \in D PROVE m + 1 \in D
  <2>  DEFINE a == m * SliceLen
              b == (m + 1) * SliceLen
  <2>1. m + 1 \in 1 .. k /\ m + 1 \in 0 .. k /\ (m + 1) - 1 = m /\ m \in 0 .. k
    BY <1>0
  <2>2. /\ Cut(q, m + 1) \in [1 .. SliceLen -> Halves]
        /\ ((m + 1) - 1) * SliceLen \in Nat
        /\ (m + 1) * SliceLen = ((m + 1) - 1) * SliceLen + SliceLen /\ (m + 1) * SliceLen \in 0 .. n
        /\ \A i \in 1 .. SliceLen : Cut(q, m + 1)[i] = q[((m + 1) - 1) * SliceLen + i]
    BY <2>1, CutIs
  <2>3. a \in Nat /\ b = a + SliceLen /\ b \in 0 .. n /\ \A i \in 1 .. SliceLen : Cut(q, m + 1)[i] = q[a + i]
    BY <2>1, <2>2
  <2>4. h[m] \in Regs /\ h[m + 1] = OneSlice(h[m], Cut(q, m + 1)) /\ h[m] = Bytewise(c, first(a))
    <3>1. h[m] \in Regs /\ h[m + 1] = OneSlice(h[(m + 1) - 1], Cut(q, m + 1))
      BY <1>1, <2>1
    <3>2. h[m] = Bytewise(c, first(a))
      BY <1>4
    <3>  QED
      BY <2>1, <3>1, <3>2
  <2>  HIDE DEF a, b, k, D
  <2>5. h[m + 1] = Bytewise(Bytewise(c, first(a)), Cut(q, m + 1))
    BY <2>2, <2>4, OneSliceIs
  <2>6. /\ first(a) \in [1 .. a -> Halves] /\ first(b) \in [1 .. b -> Halves]
        /\ \A i \in 1 .. a : first(a)[i] = first(b)[i]
        /\ \A i \in 1 .. SliceLen : Cut(q, m + 1)[i] = first(b)[a + i]
    <3>1. a \in 0 .. n /\ 1 .. a \subseteq 1 .. b /\ \A i \in 1 .. SliceLen : a + i \in 1 .. b
      BY <1>0, <2>3
    <3>2. first(a) \in [1 .. a -> Halves] /\ first(b) \in [1 .. b -> Halves]
      BY <1>2, <2>3, <3>1
    <3>3. (\A i \in 1 .. a : first(a)[i] = q[i]) /\ (\A i \in 1 .. b : first(b)[i] = q[i])
      BY <1>2, <2>3, <3>1
    <3>  HIDE DEF first
    <3>  QED
      BY <2>3, <3>1, <3>2, <3>3
  <2>7. Bytewise(c, first(b)) = Bytewise(Bytewise(c, first(a)), Cut(q, m + 1))
    <3>  DEFINE u == first(a)
                v == first(b)
                w == Cut(q, m + 1)
    <3>  HIDE DEF first
    <3>1. /\ a \in Nat /\ SliceLen \in Nat /\ b \in Nat /\ b = a + SliceLen
          /\ u \in [1 .. a -> Halves] /\ v \in [1 .. b -> Halves] /\ w \in [1 .. SliceLen -> Halves]
          /\ (\A i \in 1 .. a : u[i] = v[i]) /\ \A i \in 1 .. SliceLen : w[i] = v[a + i]
      BY <1>0, <2>2, <2>3, <2>6
    <3>  HIDE DEF u, v, w
    <3>2. Appends(v, b, u, a, w, SliceLen)
      BY <3>1 DEF Appends
    <3>3. Bytewise(c, v) = Bytewise(Bytewise(c, u), w)
      BY <3>2, BytesAfter
    <3>  QED
      BY <3>3 DEF u, v, w
  <2>  HIDE DEF first
  <2>8. h[m + 1] = Bytewise(c, first(b))
    BY <2>5, <2>7
  <2>  QED
    BY <2>1, <2>8 DEF D, b
<1>5. k \in D
  <2>1. D \in SUBSET (0 .. k) /\ k \in 0 .. k
    BY <1>0
  <2>  HIDE DEF D, k
  <2>  QED
    BY <1>0, <1>3, <1>4, <2>1, UpTo
<1>6. h[k] = Bytewise(c, first(k * SliceLen))
  BY <1>5
<1>7. Bytewise(c, q) = Bytewise(Bytewise(c, first(k * SliceLen)), tail)
  <2>  DEFINE a == k * SliceLen
              r == n - a
  <2>1. a \in Nat /\ a \in 0 .. n /\ r \in Nat /\ a + r = n /\ n \in a .. n
    <3>1. a \in 0 .. n
      BY <1>0
    <3>  HIDE DEF a
    <3>  QED
      BY <3>1
  <2>  HIDE DEF a
  <2>2. tail = SubSeq(q, a + 1, n)
    BY DEF a
  <2>  HIDE DEF tail
  <2>3. tail \in [1 .. r -> Halves] /\ \A i \in 1 .. r : tail[i] = q[a + i]
    BY <2>1, <2>2, StretchIs
  <2>4. first(a) \in [1 .. a -> Halves] /\ \A i \in 1 .. a : first(a)[i] = q[i]
    BY <1>2, <2>1
  <2>  HIDE DEF first, r
  <2>5. n \in Nat /\ n = a + r
    BY <2>1
  <2>6. Bytewise(c, q) = Bytewise(Bytewise(c, first(a)), tail)
    <3>  DEFINE u == first(a)
    <3>1. u \in [1 .. a -> Halves] /\ \A i \in 1 .. a : u[i] = q[i]
      BY <2>4
    <3>  HIDE DEF u
    <3>2. Appends(q, n, u, a, tail, r)
      BY <2>1, <2>3, <2>5, <3>1 DEF Appends
    <3>3. Bytewise(c, q) = Bytewise(Bytewise(c, u), tail)
      BY <3>2, BytesAfter
    <3>  QED
      BY <3>3 DEF u
  <2>  QED
    BY <2>6 DEF a
<1>  QED
  BY <1>1, <1>6, <1>7
------------------------------------------------------------------------------
(* The register after each row.                                            *)

\* A run of bytes takes a register to a register.
LEMMA BytesIn ==
  ASSUME SizesAssumption, NEW c \in Regs, NEW n \in Nat, NEW q \in [1 .. n -> Halves]
  PROVE  Bytewise(c, q) \in Regs
<1>1. PICK h : Registers(h, c, n, q)
  BY BytesLoop
<1>  QED
  BY <1>1 DEF Registers

\* The bytes of n words.
LEMMA BytesOfWords ==
  ASSUME SizesAssumption, NEW v, NEW n \in Nat
  PROVE  /\ 2 * n \in Nat /\ Bytes(v, n) \in [1 .. 2 * n -> Halves]
         /\ \A k \in 1 .. 2 * n : Bytes(v, n)[k] = Part(v[(k - 1) \div 2], Half, (k - 1) % 2)
<1>1. \A w, k : Part(w, Half, k) \in Halves
  BY Sizes, Parts DEF Halves
<1>  QED
  BY <1>1 DEF Bytes

\* The words of the first n rows.
WindowOf(i, n) == [w \in 0 .. n * S |-> IF w < n * S THEN i.words[(i.first + w) + 1] ELSE {}]

\* Another row appends its bytes.
LEMMA WindowMore ==
  ASSUME SizesAssumption, NEW i, i.first \in Nat, NEW n \in Nat, NEW v,
         \A c \in 0 .. S - 1 : v[c] = i.words[((i.first + n * S) + c) + 1]
  PROVE  Appends(Bytes(WindowOf(i, n + 1), (n + 1) * S), 2 * ((n + 1) * S),
                 Bytes(WindowOf(i, n), n * S), 2 * (n * S), Bytes(v, S), 2 * S)
<1>  DEFINE e == n * S
            f == (n + 1) * S
            old == WindowOf(i, n)
            new == WindowOf(i, n + 1)
<1>0. S \in Nat \ {0} /\ e \in Nat /\ f \in Nat /\ f = e + S
  BY DEF SizesAssumption
<1>1. /\ \A w \in 0 .. e : w < e => old[w] = i.words[(i.first + w) + 1]
      /\ \A w \in 0 .. f : w < f => new[w] = i.words[(i.first + w) + 1]
  BY DEF WindowOf
<1>  HIDE DEF e, f, old, new
<1>2. /\ Bytes(new, f) \in [1 .. 2 * f -> Halves] /\ Bytes(old, e) \in [1 .. 2 * e -> Halves]
      /\ Bytes(v, S) \in [1 .. 2 * S -> Halves]
      /\ 2 * f \in Nat /\ 2 * e \in Nat /\ 2 * S \in Nat /\ 2 * f = 2 * e + 2 * S
      /\ \A k \in 1 .. 2 * f : Bytes(new, f)[k] = Part(new[(k - 1) \div 2], Half, (k - 1) % 2)
      /\ \A k \in 1 .. 2 * e : Bytes(old, e)[k] = Part(old[(k - 1) \div 2], Half, (k - 1) % 2)
      /\ \A k \in 1 .. 2 * S : Bytes(v, S)[k] = Part(v[(k - 1) \div 2], Half, (k - 1) % 2)
  BY <1>0, BytesOfWords
<1>3. ASSUME NEW k \in 1 .. 2 * e PROVE Bytes(old, e)[k] = Bytes(new, f)[k]
  <2>  DEFINE w == (k - 1) \div 2
  <2>1. k \in 1 .. 2 * f /\ w \in 0 .. e /\ w < e /\ w \in 0 .. f /\ w < f
    BY <1>0
  <2>  HIDE DEF w
  <2>2. old[w] = new[w]
    BY <1>1, <2>1
  <2>  QED
    BY <1>2, <2>1, <2>2 DEF w
<1>4. ASSUME NEW k \in 1 .. 2 * S PROVE Bytes(v, S)[k] = Bytes(new, f)[2 * e + k]
  <2>  DEFINE c == (k - 1) \div 2
              w == ((2 * e + k) - 1) \div 2
  <2>1. /\ 2 * e + k \in 1 .. 2 * f /\ c \in 0 .. S - 1 /\ w = e + c
        /\ ((2 * e + k) - 1) % 2 = (k - 1) % 2
    BY <1>0
  <2>  HIDE DEF c, w
  <2>2. w \in 0 .. f /\ w < f
    BY <1>0, <2>1
  <2>3. v[c] = i.words[((i.first + e) + c) + 1]
    BY <2>1 DEF e
  <2>4. new[w] = i.words[(i.first + w) + 1]
    BY <1>1, <2>2
  <2>5. (i.first + w) + 1 = ((i.first + e) + c) + 1
    BY <1>0, <2>1
  <2>6. v[c] = new[w]
    BY <2>3, <2>4, <2>5
  <2>7. /\ Bytes(v, S)[k] = Part(v[c], Half, (k - 1) % 2)
        /\ Bytes(new, f)[2 * e + k] = Part(new[w], Half, ((2 * e + k) - 1) % 2)
    BY <1>2, <2>1 DEF c, w
  <2>  QED
    BY <2>1, <2>6, <2>7
<1>5. Appends(Bytes(new, f), 2 * f, Bytes(old, e), 2 * e, Bytes(v, S), 2 * S)
  BY <1>2, <1>3, <1>4 DEF Appends
<1>  QED
  BY <1>5 DEF e, f, old, new

\* The register, and what it is of.
CInv ==
  /\ crc \in Regs
  /\ image.crc => crc = Bytewise(0 .. CrcBits - 1, Bytes(WindowOf(image, row), row * S))

\* It holds at first.
LEMMA CInvInit ==
  ASSUME SizesAssumption, Init
  PROVE  CInv
<1>1. row = 0 /\ crc = 0 .. CrcBits - 1
  BY DEF Init
<1>2. crc \in Regs /\ 0 .. CrcBits - 1 \in Regs
  BY <1>1 DEF Regs
<1>3. 0 * S = 0 /\ 0 \in Nat /\ 2 * 0 = 0
  BY DEF SizesAssumption
<1>4. Bytes(WindowOf(image, 0), 0) \in [1 .. 0 -> Halves]
  <2>  DEFINE v == WindowOf(image, 0)
  <2>1. Bytes(v, 0) \in [1 .. 2 * 0 -> Halves]
    <3>  HIDE DEF v
    <3>  QED
      BY <1>3, BytesOfWords
  <2>  QED
    BY <1>3, <2>1
<1>5. Bytewise(0 .. CrcBits - 1, Bytes(WindowOf(image, 0), 0)) = 0 .. CrcBits - 1
  BY <1>2, <1>4, BytesNone
<1>  QED
  BY <1>1, <1>2, <1>3, <1>5 DEF CInv

\* A row keeps it.
LEMMA CInvRow ==
  ASSUME SizesAssumption, ImagesAssumption, KInv, CInv, FuseCrc, image' = image, row' = row + 1
  PROVE  CInv'
<1>0. image \in Images /\ row \in Nat /\ S \in Nat /\ image.first \in Nat
  BY DEF KInv, KType, SizesAssumption, ImagesAssumption
<1>1. crc \in Regs
  BY DEF CInv
<1>  DEFINE start == 0 .. CrcBits - 1
            more == Bytes(Row(row), S)
            old == Bytes(WindowOf(image, row), row * S)
            new == Bytes(WindowOf(image, row + 1), (row + 1) * S)
<1>2. more \in [1 .. 2 * S -> Halves] /\ 2 * S \in Nat
  <2>  DEFINE v == Row(row)
  <2>  HIDE DEF v
  <2>1. Bytes(v, S) \in [1 .. 2 * S -> Halves] /\ 2 * S \in Nat
    BY <1>0, BytesOfWords
  <2>  QED
    BY <2>1 DEF v
<1>3. Appends(new, 2 * ((row + 1) * S), old, 2 * (row * S), more, 2 * S)
  <2>  DEFINE v == Row(row)
  <2>1. \A c \in 0 .. S - 1 : v[c] = image.words[((image.first + row * S) + c) + 1]
    BY DEF Row, At
  <2>  HIDE DEF v
  <2>2. Appends(Bytes(WindowOf(image, row + 1), (row + 1) * S), 2 * ((row + 1) * S),
                Bytes(WindowOf(image, row), row * S), 2 * (row * S), Bytes(v, S), 2 * S)
    BY <1>0, <2>1, WindowMore
  <2>  QED
    BY <2>2 DEF v
<1>4. start \in Regs
  BY DEF Regs
<1>5. crc' = IF image.crc THEN CrcUpdate(crc, more) ELSE crc
  BY DEF FuseCrc
<1>6. image.crc => crc = Bytewise(start, old)
  BY DEF CInv
<1>7. CInv' <=> crc' \in Regs /\ (image.crc => crc' = Bytewise(start, new))
  BY DEF CInv, Bytes, WindowOf, Regs
<1>  HIDE DEF start, more, old, new
<1>8. CASE image.crc
  <2>1. crc' = Bytewise(crc, more)
    BY <1>1, <1>2, <1>5, <1>8, CrcUpdateIs
  <2>2. Bytewise(start, new) = Bytewise(Bytewise(start, old), more)
    BY <1>3, <1>4, BytesAfter
  <2>3. crc' \in Regs
    BY <1>1, <1>2, <2>1, BytesIn
  <2>  QED
    BY <1>6, <1>7, <1>8, <2>1, <2>2, <2>3
<1>9. CASE ~ image.crc
  BY <1>1, <1>5, <1>7, <1>9
<1>  QED
  BY <1>8, <1>9

\* A step that leaves it and the rows alone keeps it.
LEMMA CInvSame ==
  ASSUME CInv, image' = image, row' = row, crc' = crc
  PROVE  CInv'
  BY DEF CInv, Bytes, WindowOf, Regs

------------------------------------------------------------------------------
(* The theorems, for every field and every size.                           *)

\* The whole inductive invariant.
Inv == KInv /\ CInv

\* A step keeps it.
LEMMA InvNext ==
  ASSUME SizesAssumption, FieldAssumption, ImagesAssumption, Inv, [Next]_vars
  PROVE  Inv'
<1>1. KInv /\ CInv
  BY DEF Inv
<1>2. CASE ScalarRow
  <2>1. FuseCrc /\ image' = image /\ row' = row + 1
    BY <1>2 DEF ScalarRow
  <2>  QED
    BY <1>1, <1>2, <2>1, ScalarRowKeeps, CInvRow DEF Inv
<1>3. CASE VectorRow
  <2>1. FuseCrc /\ image' = image /\ row' = row + 1
    BY <1>3 DEF VectorRow
  <2>  QED
    BY <1>1, <1>3, <2>1, VectorRowKeeps, CInvRow DEF Inv
<1>4. CASE Join
  <2>1. image' = image /\ row' = row /\ crc' = crc
    BY <1>4 DEF Join
  <2>  QED
    BY <1>1, <1>4, <2>1, JoinKeeps, CInvSame DEF Inv
<1>5. CASE UNCHANGED vars
  <2>1. image' = image /\ row' = row /\ crc' = crc
    BY <1>5 DEF vars
  <2>  QED
    BY <1>1, <1>5, <2>1, KInvStutter, CInvSame DEF Inv
<1>  QED
  BY <1>2, <1>3, <1>4, <1>5 DEF Next

\* It implies the properties.
LEMMA InvImplies ==
  ASSUME SizesAssumption, FieldAssumption, ImagesAssumption, Inv
  PROVE  TypeOK /\ KernelsAgree /\ CrcIsTheWindow
<1>1. KInv /\ CInv
  BY DEF Inv
<1>2. TypeOK
  BY <1>1 DEF KInv, KType, CInv, Regs, TypeOK
<1>3. KernelsAgree
  BY <1>1, KInvAgrees
<1>4. CrcIsTheWindow
  <2>1. WindowOf(image, row) = [w \in 0 .. row * S |-> IF w < row * S THEN At(image.first + w) ELSE {}]
    BY DEF WindowOf, At
  <2>  QED
    BY <1>1, <2>1, Zenon DEF CInv, CrcIsTheWindow
<1>  QED
  BY <1>2, <1>3, <1>4

\* sweep.c: the two kernels give the same syndromes, and the CRC fused into the sweep is
\* the CRC of the window, for every field, stride, number of planes and image.
THEOREM SweepExact ==
  ASSUME SizesAssumption, FieldAssumption, ImagesAssumption
  PROVE  Spec => [](TypeOK /\ KernelsAgree /\ CrcIsTheWindow)
<1>1. Init => Inv
  BY KInvInit, CInvInit DEF Inv
<1>2. Inv /\ [Next]_vars => Inv'
  BY InvNext
<1>3. Inv => TypeOK /\ KernelsAgree /\ CrcIsTheWindow
  BY InvImplies
<1>  QED
  BY <1>1, <1>2, <1>3, PTL DEF Spec
==============================================================================
