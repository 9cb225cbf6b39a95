----------------------------- MODULE SweepKernel -----------------------------
(***************************************************************************)
(* The syndrome sweep of a CTDB repair and the CRC fused into it           *)
(* (src/repair/sweep.c): the portable kernel, and the AVX2 one, which keeps *)
(* the accumulator split into low and high bytes, multiplies by nibble     *)
(* tables and takes the columns past the last whole vector one at a time.  *)
(*                                                                         *)
(* A word is the set of its bits, a byte half of a word, a nibble half of  *)
(* that.  A vector is four quads of bytes, two to a 128-bit lane.          *)
(***************************************************************************)
EXTENDS Integers, Sequences, SequencesExt, FiniteSetsExt

CONSTANTS
  Bits, Mul(_, _), Pow(_), MulPow(_, _),  \* the field of gf16.c: bits of an element, a * b, alpha^e, a * alpha^e
  S, Npar, Rows,  \* stride in words, planes, rows of the window
  Quad,           \* elements in a quad, 8
  CrcBits, CrcPoly,  \* the CRC: 32, and 0xEDB88320
  Images          \* what is swept: [words, first, crc: whether a CRC is asked for]

VARIABLES
  image, kernel,
  row,      \* rows swept
  mem,      \* the bytes of acc
  joined,   \* planes back in words
  crc       \* crc, before its final exclusive or

vars == <<image, kernel, row, mem, joined, crc>>

\* What the constants must satisfy; an instance assumes it.
SizesAssumption ==
  /\ Bits \in Nat \ {0} /\ Bits % 4 = 0
  /\ S \in Nat \ {0} /\ Npar \in Nat \ {0} /\ Quad \in Nat \ {0} /\ Rows \in Nat
  /\ CrcBits \in Nat \ {0} /\ CrcBits % Bits = 0 /\ CrcPoly \subseteq 0 .. CrcBits - 1

Elements == SUBSET (0 .. Bits - 1)
\* What a sweep asks of gf16.c's arithmetic, for the exponents it comes to.
FieldAssumption ==
  LET exponents == 0 .. Npar * Rows
  IN  /\ \A a \in Elements, e \in exponents : MulPow(a, e) \in Elements
      /\ \A a \in Elements : MulPow(a, 0) = a
      /\ \A a, b \in Elements, e \in exponents :
           MulPow(SymDiff(a, b), e) = SymDiff(MulPow(a, e), MulPow(b, e))
      /\ \A a \in Elements, e, f \in exponents : MulPow(MulPow(a, e), f) = MulPow(a, e + f)
      /\ \A a \in Elements, e \in exponents : Mul(a, Pow(e)) = MulPow(a, e)

\* The window lies in the image.
ImagesAssumption ==
  \A i \in Images : /\ i.first \in Nat /\ i.crc \in BOOLEAN
                    /\ \A w \in i.first + 1 .. i.first + Rows * S : i.words[w] \in Elements

Half == Bits \div 2
Nibble == Bits \div 4
VecLen == 4 * Quad
Vec == S - (S % VecLen)

Part(w, n, k) == {b \in 0 .. n - 1 : b + n * k \in w}   \* the k-th n bits of w
Shifted(w, n) == {b + n : b \in w}
Lo(w) == Part(w, Half, 0)
Hi(w) == Part(w, Half, 1)
Pair(lo, hi) == lo \cup Shifted(hi, Half)
XorAll(f) == FoldSet(LAMBDA k, sum : SymDiff(sum, f[k]), {}, DOMAIN f)

At(w) == image.words[w + 1]
Row(j) == [c \in 0 .. S - 1 |-> At(image.first + j * S + c)]

------------------------------------------------------------------------------
(* The CRC.                                                                *)

\* crc_init: table s is table 0 applied s + 1 times, a byte at a time.
CrcStep(c) == SymDiff({b - 1 : b \in c \ {0}}, IF 0 \in c THEN CrcPoly ELSE {})
CrcSteps(c, n) == FoldLeft(LAMBDA reg, k : CrcStep(reg), c, [k \in 1 .. n |-> k])
CrcTab == [s \in 0 .. 2 * (CrcBits \div Half) - 1 |->
             [i \in SUBSET (0 .. Half - 1) |-> CrcSteps(i, (s + 1) * Half)]]

\* crc_update, a byte at a time, and in slices of twice the register's length.
OneByte(c, byte) ==
  SymDiff(CrcTab[0][SymDiff(Part(c, Half, 0), byte)], {b - Half : b \in c \ (0 .. Half - 1)})

Bytewise(c, bytes) == FoldLeft(OneByte, c, bytes)

SliceLen == 2 * (CrcBits \div Half)
OneSlice(c, bytes) ==
  XorAll([k \in 0 .. SliceLen - 1 |-> CrcTab[SliceLen - 1 - k][
    IF k < SliceLen \div 2 THEN SymDiff(bytes[k + 1], Part(c, Half, k)) ELSE bytes[k + 1]]])

CrcUpdate(c, bytes) ==
  LET slices == Len(bytes) \div SliceLen
      sliced == FoldLeft(LAMBDA reg, s : OneSlice(reg, SubSeq(bytes, s * SliceLen + 1, (s + 1) * SliceLen)),
                         c, [s \in 1 .. slices |-> s - 1])
  IN  Bytewise(sliced, SubSeq(bytes, slices * SliceLen + 1, Len(bytes)))

Bytes(v, n) == [k \in 1 .. 2 * n |-> Part(v[(k - 1) \div 2], Half, (k - 1) % 2)]

------------------------------------------------------------------------------
(* The AVX2 kernel's pieces.                                               *)

\* build_nib_tab: what each nibble of a word contributes to its product.
NibTab(e) ==
  [i \in 0 .. 3 |-> [n \in SUBSET (0 .. Nibble - 1) |-> Mul(Shifted(n, Nibble * i), Pow(e))]]

\* mul_const32, of one element.
MulConst(tab, lo, hi) ==
  LET t == <<tab[0][Part(lo, Nibble, 0)], tab[1][Part(lo, Nibble, 1)],
             tab[2][Part(hi, Nibble, 0)], tab[3][Part(hi, Nibble, 1)]>>
      Xor(Byte(_)) == SymDiff(SymDiff(Byte(t[1]), Byte(t[2])), SymDiff(Byte(t[3]), Byte(t[4])))
  IN  Pair(Xor(Lo), Xor(Hi))

\* split32: each half of the run is shuffled into low and high quads lane by lane,
\* the unpacks take one quad of each half per lane, and the permute puts them in order.
Shuffled(v, from) ==
  LET Q(k, Byte(_)) == [n \in 1 .. Quad |-> Byte(v[from + k * Quad + n - 1])]
  IN  <<Q(0, Lo), Q(0, Hi), Q(1, Lo), Q(1, Hi)>>
UnpackLo(a, b) == <<a[1], b[1], a[3], b[3]>>
UnpackHi(a, b) == <<a[2], b[2], a[4], b[4]>>
Permuted_Bug(q) == q
Permuted(q) == <<q[1], q[3], q[2], q[4]>>

Run(q) == [i \in 1 .. VecLen |-> q[(i - 1) \div Quad + 1][((i - 1) % Quad) + 1]]   \* the bytes of a vector

Split(v, from) ==
  LET a == Shuffled(v, from)
      b == Shuffled(v, from + 2 * Quad)
  IN  [lo |-> Run(Permuted(UnpackLo(a, b))), hi |-> Run(Permuted(UnpackHi(a, b)))]

\* The row, split once for all planes.
Scratch(v) ==
  LET vectors == [k \in 0 .. Vec \div VecLen - 1 |-> Split(v, k * VecLen)]
  IN  [c \in 0 .. S - 1 |->
         IF c < Vec
         THEN Pair(vectors[c \div VecLen].lo[(c % VecLen) + 1], vectors[c \div VecLen].hi[(c % VecLen) + 1])
         ELSE v[c]]

\* Where the bytes of a plane's column are, split and as a word.
LoAt(r, c) == 2 * S * r + c
HiAt(r, c) == 2 * S * r + S + c
WordAt(r, c) == 2 * (S * r + c)

SplitWord(r, c) == Pair(mem[LoAt(r, c)], mem[HiAt(r, c)])
Word(r, c) == Pair(mem[WordAt(r, c)], mem[WordAt(r, c) + 1])

------------------------------------------------------------------------------

\* adsc_ctdb_sweep: the scalar kernel where there is no AVX2, where it is forced
\* and where the row's scratch cannot be had.
Init ==
  /\ image \in Images /\ kernel \in {"avx2", "scalar"}
  /\ row = 0 /\ joined = {} /\ crc = 0 .. CrcBits - 1
  /\ mem = [b \in 0 .. 2 * S * Npar - 1 |-> {}]

FuseCrc == crc' = IF image.crc THEN CrcUpdate(crc, Bytes(Row(row), S)) ELSE crc

Planes == 0 .. Npar - 1
Columns == 0 .. S - 1

\* One row of sweep_scalar: plane_step on every plane.
ScalarRow ==
  /\ kernel = "scalar" /\ row < Rows
  /\ LET v   == Row(row)
         acc == [r \in Planes |-> [c \in Columns |-> SymDiff(MulPow(Word(r, c), r), v[c])]]
     IN  mem' = [b \in DOMAIN mem |-> Part(acc[b \div (2 * S)][(b \div 2) % S], Half, b % 2)]
  /\ FuseCrc /\ row' = row + 1
  /\ UNCHANGED <<image, kernel, joined>>

\* One row of sweep_avx2.
VectorRow ==
  /\ kernel = "avx2" /\ row < Rows
  /\ LET v       == Scratch(Row(row))
         tab     == [r \in 1 .. Npar - 1 |-> NibTab(r)]
         Times(r, c) ==
           IF c >= Vec THEN MulPow(SplitWord(r, c), r)
           ELSE IF r = 0 THEN SplitWord(r, c)
           ELSE MulConst(tab[r], mem[LoAt(r, c)], mem[HiAt(r, c)])
         acc == [r \in Planes |-> [c \in Columns |-> SymDiff(Times(r, c), v[c])]]
     IN  mem' = [b \in DOMAIN mem |-> Part(acc[b \div (2 * S)][b % S], Half, (b \div S) % 2)]
  /\ FuseCrc /\ row' = row + 1
  /\ UNCHANGED <<image, kernel, joined>>

\* Split form back to words, plane by plane, in place through the scratch.
Join ==
  /\ kernel = "avx2" /\ row = Rows
  /\ \E r \in Planes :
       /\ joined = 0 .. r - 1
       /\ mem' = [b \in DOMAIN mem |->
            IF b \div (2 * S) = r THEN mem[2 * S * r + S * (b % 2) + ((b \div 2) % S)] ELSE mem[b]]
       /\ joined' = joined \cup {r}
  /\ UNCHANGED <<image, kernel, row, crc>>

Next == ScalarRow \/ VectorRow \/ Join
Spec == Init /\ [][Next]_vars

------------------------------------------------------------------------------
(* Properties.                                                             *)

TypeOK == row \in 0 .. Rows /\ joined \subseteq Planes /\ crc \subseteq 0 .. CrcBits - 1

\* The syndrome of a column, of its first n rows.
Syndrome(r, c, n) ==
  XorAll([j \in 0 .. n - 1 |-> MulPow(Row(j)[c], r * (n - 1 - j))])

\* sweep.c: "bit-identical to the straightforward loop it replaces".  After every
\* row, in either form, each plane holds the syndrome of its columns so far.
KernelsAgree ==
  \A r \in Planes, c \in Columns :
    (IF kernel = "avx2" /\ r \notin joined THEN SplitWord(r, c) ELSE Word(r, c)) = Syndrome(r, c, row)

\* ctdb_internal.h: "Fusing the CRC is exact".  Row by row, in slices with what is
\* left over, it is the CRC of the words from the first to the last, byte by byte.
CrcIsTheWindow ==
  image.crc =>
    crc = Bytewise(0 .. CrcBits - 1,
                   Bytes([w \in 0 .. row * S |-> IF w < row * S THEN At(image.first + w) ELSE {}], row * S))
==============================================================================
