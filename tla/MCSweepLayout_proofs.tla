-------------------------- MODULE MCSweepLayout_proofs --------------------------
(***************************************************************************)
(* Proofs about two of the components MCDisc composes, whose results are   *)
(* folds over a sequence: the sweep, whose lanes give what the bytes give  *)
(* one at a time, and the layout of a burn, whose cue sheet is where the   *)
(* bytes its FILE and START lines name are heard, for any .toc file,       *)
(* lead-in address and room for entries.                                   *)
(***************************************************************************)
EXTENDS MCDisc, FiniteSetTheorems, WellFoundedInduction, TLAPS
------------------------------------------------------------------------------
(* SweepKernel with its proofs.                                                *)

SwpP == INSTANCE SweepKernel_proofs WITH
  Bits <- 4, Mul <- SwpMul, Pow <- SwpPowOf, MulPow <- SwpMulPow, S <- 6, Npar <- 4, Rows <- 3, Quad <- 1,
  CrcBits <- 8, CrcPoly <- {7, 5, 4},
  Images <- {[words |-> [i \in 1 .. 22 |-> SwpWord(a, b, i)], first |-> f, crc |-> k] :
               a \in {0, 1, 5}, b \in {1, 3, 6}, f \in {0, 3}, k \in BOOLEAN},
  image <- r1, kernel <- r2, row <- r3, mem <- r4, joined <- r5, crc <- r6

\* The symmetric difference.
LEMMA SameSymDiff == \A a, b : Swp!SymDiff(a, b) = SwpP!SymDiff(a, b)
  BY Zenon DEF Swp!SymDiff, SwpP!SymDiff

\* Pairs.
LEMMA SamePair == \A lo, hi : Swp!Pair(lo, hi) = SwpP!Pair(lo, hi)
  BY Zenon DEF Swp!Pair, SwpP!Pair, Swp!Shifted, SwpP!Shifted, Swp!Half, SwpP!Half

\* Rows.
LEMMA SameRow == \A j : Swp!Row(j) = SwpP!Row(j)
  BY Zenon DEF Swp!Row, SwpP!Row, Swp!At, SwpP!At

\* The CRC of bytes.
LEMMA SameBytewise == \A c, q : Swp!Bytewise(c, q) = SwpP!Bytewise(c, q)
  BY Zenon DEF Swp!Bytewise, SwpP!Bytewise, Swp!OneByte, SwpP!OneByte, Swp!Part, SwpP!Part, Swp!CrcTab,
      SwpP!CrcTab, Swp!Half, SwpP!Half, Swp!CrcSteps, SwpP!CrcSteps, Swp!CrcStep,
      SwpP!CrcStep, Swp!SymDiff, SwpP!SymDiff, Swp!FoldLeft, SwpP!FoldLeft,
      Swp!MapThenFoldSet, SwpP!MapThenFoldSet, Swp!Max, SwpP!Max

\* In slices.
LEMMA SameCrcUpdate == \A c, q : Swp!CrcUpdate(c, q) = SwpP!CrcUpdate(c, q)
  BY Zenon DEF Swp!CrcUpdate, SwpP!CrcUpdate, Swp!OneSlice, SwpP!OneSlice, Swp!SliceLen, SwpP!SliceLen,
      Swp!XorAll, SwpP!XorAll, Swp!FoldSet, SwpP!FoldSet, Swp!Bytewise, SwpP!Bytewise,
      Swp!OneByte, SwpP!OneByte, Swp!Part, SwpP!Part, Swp!CrcTab, SwpP!CrcTab, Swp!Half,
      SwpP!Half, Swp!CrcSteps, SwpP!CrcSteps, Swp!CrcStep, SwpP!CrcStep, Swp!SymDiff,
      SwpP!SymDiff, Swp!FoldLeft, SwpP!FoldLeft, Swp!MapThenFoldSet,
      SwpP!MapThenFoldSet, Swp!Max, SwpP!Max

\* The bytes of words.
LEMMA SameBytes == \A v, n : Swp!Bytes(v, n) = SwpP!Bytes(v, n)
  BY Zenon DEF Swp!Bytes, SwpP!Bytes, Swp!Half, SwpP!Half, Swp!Part, SwpP!Part

\* The fused CRC.
LEMMA SameFuseCrc == Swp!FuseCrc <=> SwpP!FuseCrc
  BY SameCrcUpdate, SameBytes, SameRow, Zenon DEF Swp!FuseCrc, SwpP!FuseCrc

\* Syndromes.
LEMMA SameSyndrome == \A r, c, n : Swp!Syndrome(r, c, n) = SwpP!Syndrome(r, c, n)
  BY Zenon DEF Swp!Syndrome, SwpP!Syndrome, Swp!XorAll, SwpP!XorAll, Swp!Row, SwpP!Row, Swp!At,
      SwpP!At, Swp!FoldSet, SwpP!FoldSet, Swp!MapThenFoldSet, SwpP!MapThenFoldSet,
      Swp!SymDiff, SwpP!SymDiff

\* A row of the portable kernel.
LEMMA SameScalarRow == Swp!ScalarRow <=> SwpP!ScalarRow
  BY SameFuseCrc, Zenon
  DEF Swp!ScalarRow, SwpP!ScalarRow, Swp!Planes, SwpP!Planes, Swp!Columns, SwpP!Columns,
      Swp!Half, SwpP!Half, Swp!Word, SwpP!Word, Swp!WordAt, SwpP!WordAt, Swp!Row,
      SwpP!Row, Swp!At, SwpP!At, Swp!Part, SwpP!Part, Swp!Pair, SwpP!Pair, Swp!Shifted,
      SwpP!Shifted, Swp!SymDiff, SwpP!SymDiff

\* A row of the other.
LEMMA SameVectorRow == Swp!VectorRow <=> SwpP!VectorRow
  BY SameFuseCrc, Zenon
  DEF Swp!VectorRow, SwpP!VectorRow, Swp!Planes, SwpP!Planes, Swp!Columns, SwpP!Columns,
      Swp!Half, SwpP!Half, Swp!Vec, SwpP!Vec, Swp!VecLen, SwpP!VecLen, Swp!SplitWord,
      SwpP!SplitWord, Swp!LoAt, SwpP!LoAt, Swp!HiAt, SwpP!HiAt, Swp!Row, SwpP!Row,
      Swp!At, SwpP!At, Swp!Part, SwpP!Part, Swp!Pair, SwpP!Pair, Swp!Shifted,
      SwpP!Shifted, Swp!SymDiff, SwpP!SymDiff, Swp!MulConst, SwpP!MulConst, Swp!NibTab,
      SwpP!NibTab, Swp!Nibble, SwpP!Nibble, Swp!Lo, SwpP!Lo, Swp!Hi, SwpP!Hi,
      Swp!Scratch, SwpP!Scratch, Swp!Split, SwpP!Split, Swp!Shuffled, SwpP!Shuffled,
      Swp!UnpackLo, SwpP!UnpackLo, Swp!UnpackHi, SwpP!UnpackHi, Swp!Permuted,
      SwpP!Permuted, Swp!Run, SwpP!Run

\* A plane put back into words.
LEMMA SameJoin == Swp!Join <=> SwpP!Join
  BY Zenon DEF Swp!Join, SwpP!Join, Swp!Planes, SwpP!Planes

\* The components, their steps and their properties.
LEMMA SameSweep ==
  /\ Swp!SizesAssumption <=> SwpP!SizesAssumption
  /\ Swp!FieldAssumption <=> SwpP!FieldAssumption
  /\ Swp!ImagesAssumption <=> SwpP!ImagesAssumption
  /\ Swp!Init <=> SwpP!Init
  /\ Swp!Next <=> SwpP!Next
  /\ Swp!TypeOK <=> SwpP!TypeOK
  /\ Swp!KernelsAgree <=> SwpP!KernelsAgree
  /\ Swp!CrcIsTheWindow <=> SwpP!CrcIsTheWindow
<1>1. Swp!SizesAssumption <=> SwpP!SizesAssumption
  BY Zenon DEF Swp!SizesAssumption, SwpP!SizesAssumption
<1>2. Swp!FieldAssumption <=> SwpP!FieldAssumption
  BY SameSymDiff, SMT DEF Swp!FieldAssumption, SwpP!FieldAssumption, Swp!Elements, SwpP!Elements
<1>3. Swp!ImagesAssumption <=> SwpP!ImagesAssumption
  BY DEF Swp!ImagesAssumption, SwpP!ImagesAssumption, Swp!Elements, SwpP!Elements
<1>4. Swp!Init <=> SwpP!Init
  BY DEF Swp!Init, SwpP!Init
<1>5. Swp!Next <=> SwpP!Next
  BY SameScalarRow, SameVectorRow, SameJoin, Zenon DEF Swp!Next, SwpP!Next
<1>6. Swp!TypeOK <=> SwpP!TypeOK
  BY Zenon DEF Swp!TypeOK, SwpP!TypeOK, Swp!Planes, SwpP!Planes
<1>7. Swp!KernelsAgree <=> SwpP!KernelsAgree
  BY SameSyndrome, SamePair, SMT
  DEF Swp!KernelsAgree, SwpP!KernelsAgree, Swp!Planes, SwpP!Planes, Swp!Columns, SwpP!Columns,
      Swp!Word, SwpP!Word, Swp!WordAt, SwpP!WordAt, Swp!SplitWord, SwpP!SplitWord,
      Swp!LoAt, SwpP!LoAt, Swp!HiAt, SwpP!HiAt
<1>8. Swp!CrcIsTheWindow <=> SwpP!CrcIsTheWindow
  BY SameBytewise, SameBytes, Zenon DEF Swp!CrcIsTheWindow, SwpP!CrcIsTheWindow, Swp!At, SwpP!At
<1>  QED
  BY <1>1, <1>2, <1>3, <1>4, <1>5, <1>6, <1>7, <1>8, Zenon

------------------------------------------------------------------------------
(* SweepKernel, in the whole module's specification.                           *)

\* Its invariant, in its turn.
DSweep == subject = "sweep" => SwpP!Inv

\* The constants of the instance satisfy what its theorems assume.
LEMMA SweepAssumed == SwpP!SizesAssumption /\ SwpP!FieldAssumption /\ SwpP!ImagesAssumption
  BY DiscAssumption, SameSweep, Zenon DEF DiscAssumption

\* At the start.
LEMMA DSweepInit == MCInit => DSweep
<1>1. SUFFICES ASSUME MCInit, subject = "sweep" PROVE SwpP!Inv
  BY DEF DSweep
<1>2. SwpP!Init
  BY <1>1, SameSweep, Zenon DEF MCInit
<1>  QED
  BY <1>2, SweepAssumed, SwpP!KInvInit, SwpP!CInvInit DEF SwpP!Inv

\* Every step of every component.
LEMMA DSweepNext == DSweep /\ [MCNext]_<<subject, vars, regs>> => DSweep'
<1>1. SUFFICES ASSUME DSweep, [MCNext]_<<subject, vars, regs>>, subject' = "sweep" PROVE SwpP!Inv'
  BY DEF DSweep
<1>2. \/ subject = "sweep" /\ Swp!Next
      \/ subject' = subject /\ UNCHANGED regs
  BY <1>1, Zenon DEF MCNext, Turn
<1>3. SwpP!Inv
  BY <1>1, <1>2 DEF DSweep, MCNext, Turn
<1>4. [SwpP!Next]_SwpP!vars
  <2>1. CASE Swp!Next
    BY <2>1, SameSweep, Zenon
  <2>2. CASE UNCHANGED regs
    BY <2>2 DEF regs, SwpP!vars
  <2>  QED
    BY <1>2, <2>1, <2>2
<1>  QED
  BY <1>3, <1>4, SweepAssumed, SwpP!InvNext

\* Whichever kernel runs, after every row each plane holds the syndromes of its columns,
\* and the CRC fused into the sweep is the CRC of the words swept (sweep.c: "bit-identical
\* to the straightforward loop it replaces").
THEOREM SpecSweepIsExact == MCSpec => []SweepIsExact
<1>1. DSweep => SweepIsExact
  BY SweepAssumed, SameSweep, SwpP!InvImplies DEF DSweep, SweepIsExact
<1>  QED
  BY <1>1, DSweepInit, DSweepNext, PTL DEF MCSpec

------------------------------------------------------------------------------
(* The layout of a burn: what the parser's loop has after each line.           *)

DaoTrack ==
  [audio : BOOLEAN, pre : BOOLEAN, copy : BOOLEAN, isrc : BOOLEAN, file : BOOLEAN,
   offset : Int, sectors : Nat, pregap : Nat, index1 : Int]
DaoModel == [ok : BOOLEAN, mcn : BOOLEAN, tracks : Seq(DaoTrack), leadout : Nat]
DaoFile == {"FILE", "AUDIOFILE"}

\* A line of a track leaves a track.
LEMMA DaoTrackLine ==
  ASSUME Dao!SizesAssumption, NEW f \in Seq(Dao!Line), NEW i \in 1 .. Len(f), NEW t \in DaoTrack,
         f[i].kw \in DaoFile => f[i].start >= 0 /\ f[i].len >= 0
  PROVE  LET u == Dao!TrackLine(f, i, t) IN
         /\ u \in DaoTrack
         /\ f[i].kw \in DaoFile => u.offset = Dao!FileStart(f[i]) /\ u.sectors = f[i].len
         /\ f[i].kw \notin DaoFile => u.offset = t.offset /\ u.sectors = t.sectors
         /\ f[i].kw = "START" => u.pregap = IF f[i].len > 0 THEN f[i].len ELSE 0
         /\ f[i].kw # "START" => u.pregap = t.pregap
<1>  DEFINE u == Dao!TrackLine(f, i, t)
            x == f[i]
<1>1. x \in Dao!Line
  OBVIOUS
<1>2. LayoutSector \in Nat
  BY DEF Dao!SizesAssumption
<1>3. x.kw \in STRING /\ x.start \in Int /\ x.len \in Int
  BY <1>1 DEF Dao!Line
<1>4. /\ t = [audio |-> t.audio, pre |-> t.pre, copy |-> t.copy, isrc |-> t.isrc, file |-> t.file,
              offset |-> t.offset, sectors |-> t.sectors, pregap |-> t.pregap, index1 |-> t.index1]
      /\ t.audio \in BOOLEAN /\ t.pre \in BOOLEAN /\ t.copy \in BOOLEAN /\ t.isrc \in BOOLEAN
      /\ t.file \in BOOLEAN /\ t.offset \in Int /\ t.sectors \in Nat /\ t.pregap \in Nat /\ t.index1 \in Int
  BY DEF DaoTrack
<1>5. CASE x.kw = "ISRC"
  <2>1. u = [t EXCEPT !.isrc = @ \/ x.len = 12]
    BY <1>5 DEF Dao!TrackLine
  <2>  QED
    BY <1>4, <1>5, <2>1 DEF DaoFile, DaoTrack
<1>6. CASE x.kw = "NO"
  <2>1. u = Dao!NoFlag(f, i, t)
    BY <1>6 DEF Dao!TrackLine
  <2>2. u \in {[t EXCEPT !.pre = FALSE], [t EXCEPT !.copy = FALSE], t}
    BY <2>1 DEF Dao!NoFlag
  <2>  QED
    BY <1>4, <1>6, <2>2 DEF DaoFile, DaoTrack
<1>7. CASE x.kw = "PRE_EMPHASIS"
  <2>1. u = [t EXCEPT !.pre = TRUE]
    BY <1>7 DEF Dao!TrackLine
  <2>  QED
    BY <1>4, <1>7, <2>1 DEF DaoFile, DaoTrack
<1>8. CASE x.kw = "COPY"
  <2>1. u = [t EXCEPT !.copy = TRUE]
    BY <1>8 DEF Dao!TrackLine
  <2>  QED
    BY <1>4, <1>8, <2>1 DEF DaoFile, DaoTrack
<1>9. CASE x.kw \in DaoFile
  <2>1. u = [t EXCEPT !.offset = Dao!FileStart(x), !.sectors = x.len, !.file = TRUE]
    BY <1>9 DEF Dao!TrackLine, DaoFile
  <2>2. Dao!FileStart(x) \in Int
    BY <1>2, <1>3 DEF Dao!FileStart
  <2>3. x.len \in Nat
    BY <1>3, <1>9
  <2>4. x.kw # "START"
    BY <1>9 DEF DaoFile
  <2>  QED
    BY <1>4, <1>9, <2>1, <2>2, <2>3, <2>4 DEF DaoTrack
<1>10. CASE x.kw = "START"
  <2>1. u = [t EXCEPT !.pregap = IF x.len > 0 THEN x.len ELSE 0]
    BY <1>10 DEF Dao!TrackLine
  <2>2. (IF x.len > 0 THEN x.len ELSE 0) \in Nat
    BY <1>3
  <2>  QED
    BY <1>4, <1>10, <2>1, <2>2 DEF DaoFile, DaoTrack
<1>11. CASE x.kw \notin {"ISRC", "NO", "PRE_EMPHASIS", "COPY", "START", "FILE", "AUDIOFILE"}
  <2>1. u = t
    BY <1>11 DEF Dao!TrackLine
  <2>  QED
    BY <1>11, <2>1 DEF DaoFile
<1>  QED
  BY <1>5, <1>6, <1>7, <1>8, <1>9, <1>10, <1>11 DEF DaoFile

\* The instance counts as the library does.
LEMMA DaoLibrary == \A I : Dao!Cardinality(I) = Cardinality(I) /\ Dao!Max(I) = Max(I)
  BY Zenon DEF Dao!Cardinality, Cardinality, Dao!Max, Max

\* The track a line belongs to.
DaoTrackOf(f, j) == Dao!Cardinality({h \in {l \in DOMAIN f : f[l].kw = "TRACK"} : h <= j})

\* It goes up at a TRACK line.
LEMMA DaoTrackOfIs ==
  ASSUME NEW f \in Seq(Dao!Line)
  PROVE  /\ DaoTrackOf(f, 0) = 0
         /\ \A i \in 1 .. Len(f) :
              DaoTrackOf(f, i) = DaoTrackOf(f, i - 1) + IF f[i].kw = "TRACK" THEN 1 ELSE 0
         /\ \A i \in 0 .. Len(f) : DaoTrackOf(f, i) \in Nat
         /\ \A i \in 0 .. Len(f), j \in 0 .. Len(f) : j <= i => DaoTrackOf(f, j) <= DaoTrackOf(f, i)
<1>  DEFINE A == {l \in DOMAIN f : f[l].kw = "TRACK"}
            H(j) == {h \in A : h <= j}
<1>0. Len(f) \in Nat /\ DOMAIN f = 1 .. Len(f)
  OBVIOUS
<1>1. \A i \in 0 .. Len(f) : IsFiniteSet(H(i))
  <2>1. IsFiniteSet(1 .. Len(f))
    BY <1>0, FS_Interval
  <2>2. \A i : H(i) \subseteq 1 .. Len(f)
    BY <1>0
  <2>  QED
    BY <2>1, <2>2, FS_Subset
<1>2. \A j : DaoTrackOf(f, j) = Cardinality(H(j))
  BY DaoLibrary DEF DaoTrackOf
<1>3. H(0) = {}
  BY <1>0
<1>4. DaoTrackOf(f, 0) = 0
  BY <1>2, <1>3, FS_EmptySet
<1>5. ASSUME NEW i \in 1 .. Len(f)
      PROVE  DaoTrackOf(f, i) = DaoTrackOf(f, i - 1) + IF f[i].kw = "TRACK" THEN 1 ELSE 0
  <2>1. i - 1 \in 0 .. Len(f) /\ i \in DOMAIN f
    BY <1>0
  <2>2. CASE f[i].kw = "TRACK"
    <3>1. H(i) = H(i - 1) \cup {i} /\ i \notin H(i - 1)
      BY <1>0, <2>1, <2>2
    <3>  HIDE DEF H
    <3>2. Cardinality(H(i)) = Cardinality(H(i - 1)) + 1
      BY <1>1, <2>1, <3>1, FS_AddElement
    <3>  QED
      BY <1>2, <2>2, <3>2
  <2>3. CASE f[i].kw # "TRACK"
    <3>1. H(i) = H(i - 1)
      BY <1>0, <2>1, <2>3
    <3>2. Cardinality(H(i - 1)) \in Nat
      BY <1>1, <2>1, FS_CardinalityType
    <3>  HIDE DEF H
    <3>  QED
      BY <1>2, <2>3, <3>1, <3>2
  <2>  QED
    BY <2>2, <2>3
<1>6. \A i \in 0 .. Len(f) : DaoTrackOf(f, i) \in Nat
  BY <1>1, <1>2, FS_CardinalityType
<1>7. ASSUME NEW i \in 0 .. Len(f), NEW j \in 0 .. Len(f), j <= i PROVE DaoTrackOf(f, j) <= DaoTrackOf(f, i)
  <2>1. H(j) \subseteq H(i)
    BY <1>0, <1>7
  <2>  HIDE DEF H
  <2>  QED
    BY <1>1, <1>2, <2>1, FS_Subset
<1>  QED
  BY <1>4, <1>5, <1>6, <1>7

\* Line j is, of the first i, the last of its track with one of these keywords.
DaoLast(f, i, j, kws) ==
  /\ j \in 1 .. i /\ f[j].kw \in kws
  /\ \A l \in 1 .. i : l > j /\ f[l].kw \in kws => DaoTrackOf(f, l) # DaoTrackOf(f, j)

\* What the lines have said so far of the tracks.
DaoSaid(f, s, i) ==
  /\ Len(s) = DaoTrackOf(f, i) /\ Len(s) <= LayoutTracks
  /\ \A j \in 1 .. i : DaoLast(f, i, j, DaoFile) /\ DaoTrackOf(f, j) >= 1 =>
       /\ s[DaoTrackOf(f, j)].offset = Dao!FileStart(f[j])
       /\ s[DaoTrackOf(f, j)].sectors = f[j].len
  /\ \A j \in 1 .. i : DaoLast(f, i, j, {"START"}) /\ DaoTrackOf(f, j) >= 1 =>
       s[DaoTrackOf(f, j)].pregap = IF f[j].len > 0 THEN f[j].len ELSE 0
  /\ \A k \in 1 .. Len(s) :
       (\A j \in 1 .. i : f[j].kw = "START" => DaoTrackOf(f, j) # k) => s[k].pregap = 0
DaoParsed(f, m, i) == m \in DaoModel /\ (m.ok => DaoSaid(f, m.tracks, i))

\* A track begun.
LEMMA DaoTrackBegun ==
  ASSUME NEW f \in Seq(Dao!Line), NEW i \in 1 .. Len(f), f[i].kw = "TRACK",
         NEW s \in Seq(DaoTrack), DaoSaid(f, s, i - 1), Len(s) < LayoutTracks, LayoutTracks \in Nat,
         NEW t \in DaoTrack, t.pregap = 0
  PROVE  DaoSaid(f, Append(s, t), i)
<1>  DEFINE n == Len(s)
            q == Append(s, t)
            Of(j) == DaoTrackOf(f, j)
<1>1. /\ n \in Nat /\ Len(q) = n + 1 /\ q[n + 1] = t /\ \A k \in 1 .. n : q[k] = s[k]
  OBVIOUS
<1>2. Of(i) = n + 1 /\ Of(i - 1) = n /\ (\A j \in 0 .. Len(f) : Of(j) \in Nat)
  BY DaoTrackOfIs DEF DaoSaid
<1>3. \A j \in 1 .. i - 1 : Of(j) <= n /\ j \in 1 .. Len(f)
  BY <1>2, DaoTrackOfIs
<1>4. \A j \in 1 .. i : j = i \/ j \in 1 .. i - 1
  OBVIOUS
<1>5. \A kws \in {DaoFile, {"START"}}, j \in 1 .. i :
        DaoLast(f, i, j, kws) => j \in 1 .. i - 1 /\ DaoLast(f, i - 1, j, kws)
  <2>1. f[i].kw \notin DaoFile /\ f[i].kw \notin {"START"}
    BY DEF DaoFile
  <2>  QED
    BY <1>4, <2>1 DEF DaoLast
<1>  HIDE DEF q, Of
<1>6. Len(q) = Of(i) /\ Len(q) <= LayoutTracks
  BY <1>1, <1>2
<1>7. \A j \in 1 .. i : DaoLast(f, i, j, DaoFile) /\ Of(j) >= 1 =>
        q[Of(j)].offset = Dao!FileStart(f[j]) /\ q[Of(j)].sectors = f[j].len
  <2>1. ASSUME NEW j \in 1 .. i, DaoLast(f, i, j, DaoFile), Of(j) >= 1
        PROVE q[Of(j)].offset = Dao!FileStart(f[j]) /\ q[Of(j)].sectors = f[j].len
    <3>1. j \in 1 .. i - 1 /\ DaoLast(f, i - 1, j, DaoFile)
      BY <1>5, <2>1
    <3>2. Of(j) \in 1 .. n
      BY <1>2, <1>3, <2>1, <3>1
    <3>3. s[Of(j)].offset = Dao!FileStart(f[j]) /\ s[Of(j)].sectors = f[j].len
      BY <2>1, <3>1 DEF DaoSaid, Of
    <3>  QED
      BY <1>1, <3>2, <3>3
  <2>  QED
    BY <2>1
<1>8. \A j \in 1 .. i : DaoLast(f, i, j, {"START"}) /\ Of(j) >= 1 =>
        q[Of(j)].pregap = IF f[j].len > 0 THEN f[j].len ELSE 0
  <2>1. ASSUME NEW j \in 1 .. i, DaoLast(f, i, j, {"START"}), Of(j) >= 1
        PROVE q[Of(j)].pregap = IF f[j].len > 0 THEN f[j].len ELSE 0
    <3>1. j \in 1 .. i - 1 /\ DaoLast(f, i - 1, j, {"START"})
      BY <1>5, <2>1
    <3>2. Of(j) \in 1 .. n
      BY <1>2, <1>3, <2>1, <3>1
    <3>3. s[Of(j)].pregap = IF f[j].len > 0 THEN f[j].len ELSE 0
      BY <2>1, <3>1 DEF DaoSaid, Of
    <3>  QED
      BY <1>1, <3>2, <3>3
  <2>  QED
    BY <2>1
<1>9. ASSUME NEW k \in 1 .. Len(q), \A j \in 1 .. i : f[j].kw = "START" => Of(j) # k PROVE q[k].pregap = 0
  <2>1. CASE k = n + 1
    BY <1>1, <2>1
  <2>2. CASE k \in 1 .. n
    <3>1. \A j \in 1 .. i - 1 : f[j].kw = "START" => Of(j) # k
      BY <1>9
    <3>  QED
      BY <1>1, <2>2, <3>1 DEF DaoSaid, Of
  <2>  QED
    BY <1>1, <2>1, <2>2
<1>10. DaoSaid(f, q, i)
  BY <1>6, <1>7, <1>8, <1>9 DEF DaoSaid, Of
<1>  QED
  BY <1>10 DEF q

\* A line that belongs to no track, or says nothing of one.
LEMMA DaoNothingSaid ==
  ASSUME NEW f \in Seq(Dao!Line), NEW i \in 1 .. Len(f), NEW s \in Seq(DaoTrack), DaoSaid(f, s, i - 1),
         f[i].kw # "TRACK", f[i].kw \notin DaoFile \cup {"START"} \/ Len(s) = 0
  PROVE  DaoSaid(f, s, i)
<1>  DEFINE Of(j) == DaoTrackOf(f, j)
<1>1. Of(i) = Of(i - 1) /\ Len(s) = Of(i - 1)
  BY DaoTrackOfIs DEF DaoSaid
<1>2. \A j \in 1 .. i : j = i \/ j \in 1 .. i - 1
  OBVIOUS
<1>3. Len(s) = 0 => Of(i) = 0
  BY <1>1
<1>4. \A kws \in {DaoFile, {"START"}}, j \in 1 .. i :
        DaoLast(f, i, j, kws) /\ Of(j) >= 1 => j \in 1 .. i - 1 /\ DaoLast(f, i - 1, j, kws)
  BY <1>2, <1>3 DEF DaoLast
<1>5. \A j \in 1 .. i - 1 : j \in 1 .. i
  OBVIOUS
<1>  HIDE DEF Of
<1>6. \A j \in 1 .. i : DaoLast(f, i, j, DaoFile) /\ Of(j) >= 1 =>
        s[Of(j)].offset = Dao!FileStart(f[j]) /\ s[Of(j)].sectors = f[j].len
  BY <1>4 DEF DaoSaid, Of
<1>7. \A j \in 1 .. i : DaoLast(f, i, j, {"START"}) /\ Of(j) >= 1 =>
        s[Of(j)].pregap = IF f[j].len > 0 THEN f[j].len ELSE 0
  BY <1>4 DEF DaoSaid, Of
<1>8. \A k \in 1 .. Len(s) :
        (\A j \in 1 .. i : f[j].kw = "START" => Of(j) # k) => s[k].pregap = 0
  BY <1>5 DEF DaoSaid, Of
<1>  QED
  BY <1>1, <1>6, <1>7, <1>8 DEF DaoSaid, Of

\* A line of the last track.
LEMMA DaoTrackTold ==
  ASSUME Dao!SizesAssumption, NEW f \in Seq(Dao!Line), NEW i \in 1 .. Len(f), f[i].kw # "TRACK",
         NEW s \in Seq(DaoTrack), DaoSaid(f, s, i - 1), NEW n, n = Len(s), n > 0,
         f[i].kw \in DaoFile => f[i].start >= 0 /\ f[i].len >= 0
  PROVE  DaoSaid(f, [s EXCEPT ![n] = Dao!TrackLine(f, i, s[n])], i)
<1>  DEFINE u == Dao!TrackLine(f, i, s[n])
            q == [s EXCEPT ![n] = u]
            Of(j) == DaoTrackOf(f, j)
<1>0. n \in Nat /\ s[n] \in DaoTrack /\ DOMAIN s = 1 .. n
  OBVIOUS
<1>1. Len(q) = n /\ q[n] = u /\ \A k \in 1 .. n : k # n => q[k] = s[k]
  BY <1>0
<1>2. Of(i) = n /\ Of(i - 1) = n /\ (\A j \in 0 .. Len(f) : Of(j) \in Nat)
  BY DaoTrackOfIs DEF DaoSaid
<1>3. \A j \in 1 .. i : Of(j) <= n /\ Of(j) \in Nat /\ j \in 1 .. Len(f)
  BY <1>2, DaoTrackOfIs
<1>4. \A j \in 1 .. i : j = i \/ j \in 1 .. i - 1
  OBVIOUS
<1>5. /\ u \in DaoTrack
      /\ f[i].kw \in DaoFile => u.offset = Dao!FileStart(f[i]) /\ u.sectors = f[i].len
      /\ f[i].kw \notin DaoFile => u.offset = s[n].offset /\ u.sectors = s[n].sectors
      /\ f[i].kw = "START" => u.pregap = IF f[i].len > 0 THEN f[i].len ELSE 0
      /\ f[i].kw # "START" => u.pregap = s[n].pregap
  BY <1>0, DaoTrackLine
<1>6. \A kws \in {DaoFile, {"START"}}, j \in 1 .. i - 1 :
        DaoLast(f, i, j, kws) => DaoLast(f, i - 1, j, kws) /\ (f[i].kw \in kws => Of(j) # n)
  <2>1. \A kws, j : DaoLast(f, i, j, kws) /\ f[i].kw \in kws /\ j \in 1 .. i - 1 => Of(j) # Of(i)
    BY DEF DaoLast
  <2>2. \A kws, j : DaoLast(f, i, j, kws) /\ j \in 1 .. i - 1 => DaoLast(f, i - 1, j, kws)
    BY DEF DaoLast
  <2>  QED
    BY <1>2, <2>1, <2>2
<1>  HIDE DEF u, q, Of
<1>7. ASSUME NEW j \in 1 .. i, DaoLast(f, i, j, DaoFile), Of(j) >= 1
      PROVE  q[Of(j)].offset = Dao!FileStart(f[j]) /\ q[Of(j)].sectors = f[j].len
  <2>1. CASE j = i
    <3>1. f[i].kw \in DaoFile
      BY <1>7, <2>1 DEF DaoLast
    <3>  QED
      BY <1>1, <1>2, <1>5, <2>1, <3>1
  <2>2. CASE j \in 1 .. i - 1
    <3>1. DaoLast(f, i - 1, j, DaoFile) /\ (f[i].kw \in DaoFile => Of(j) # n)
      BY <1>6, <1>7, <2>2
    <3>2. s[Of(j)].offset = Dao!FileStart(f[j]) /\ s[Of(j)].sectors = f[j].len
      BY <1>7, <2>2, <3>1 DEF DaoSaid, Of
    <3>3. Of(j) \in 1 .. n
      BY <1>3, <1>7
    <3>  QED
      BY <1>1, <1>5, <3>1, <3>2, <3>3
  <2>  QED
    BY <1>4, <2>1, <2>2
<1>8. ASSUME NEW j \in 1 .. i, DaoLast(f, i, j, {"START"}), Of(j) >= 1
      PROVE  q[Of(j)].pregap = IF f[j].len > 0 THEN f[j].len ELSE 0
  <2>1. CASE j = i
    <3>1. f[i].kw = "START"
      BY <1>8, <2>1 DEF DaoLast
    <3>  QED
      BY <1>1, <1>2, <1>5, <2>1, <3>1
  <2>2. CASE j \in 1 .. i - 1
    <3>1. DaoLast(f, i - 1, j, {"START"}) /\ (f[i].kw = "START" => Of(j) # n)
      BY <1>6, <1>8, <2>2
    <3>2. s[Of(j)].pregap = IF f[j].len > 0 THEN f[j].len ELSE 0
      BY <1>8, <2>2, <3>1 DEF DaoSaid, Of
    <3>3. Of(j) \in 1 .. n
      BY <1>3, <1>8
    <3>  QED
      BY <1>1, <1>5, <3>1, <3>2, <3>3
  <2>  QED
    BY <1>4, <2>1, <2>2
<1>9. ASSUME NEW k \in 1 .. n, \A j \in 1 .. i : f[j].kw = "START" => Of(j) # k PROVE q[k].pregap = 0
  <2>1. \A j \in 1 .. i - 1 : f[j].kw = "START" => Of(j) # k
    BY <1>9
  <2>2. s[k].pregap = 0
    BY <2>1 DEF DaoSaid, Of
  <2>3. k = n => f[i].kw # "START"
    BY <1>2, <1>9
  <2>  QED
    BY <1>1, <1>5, <2>2, <2>3
<1>10. Len(q) = Of(i) /\ Len(q) <= LayoutTracks
  BY <1>1, <1>2 DEF DaoSaid
<1>11. DaoSaid(f, q, i)
  BY <1>1, <1>7, <1>8, <1>9, <1>10 DEF DaoSaid, Of
<1>  QED
  BY <1>11 DEF q, u

------------------------------------------------------------------------------
(* Folds over a sequence, a step at a time.                                    *)

\* Induction up to n.
LEMMA DaoUpTo ==
  ASSUME NEW n \in Nat, NEW D, 0 \in D, \A j \in 0 .. n - 1 : j \in D => j + 1 \in D
  PROVE  \A j \in 0 .. n : j \in D
<1>  DEFINE E == (0 .. n) \ D
<1>1. SUFFICES ASSUME E # {} PROVE FALSE
  OBVIOUS
<1>2. E \in SUBSET Nat
  OBVIOUS
<1>3. PICK m \in E : \A k \in E : m <= k
  BY <1>1, <1>2, SwpP!LeastNatural
<1>4. m # 0 /\ m - 1 \in 0 .. n - 1 /\ m - 1 \notin E
  BY <1>3
<1>5. m - 1 \in D
  BY <1>4
<1>6. (m - 1) + 1 \in D
  BY <1>4, <1>5
<1>  QED
  BY <1>3, <1>6

\* Of the first m, m is the greatest.
LEMMA DaoMaxOfFirst == \A m \in Nat \ {0} : Dao!Max(1 .. m) = m
<1>  TAKE m \in Nat \ {0}
<1>1. Dao!Max(1 .. m) = CHOOSE x \in 1 .. m : \A y \in 1 .. m : x >= y
  BY DEF Dao!Max
<1>2. m \in 1 .. m /\ \A y \in 1 .. m : m >= y
  OBVIOUS
<1>3. Dao!Max(1 .. m) \in 1 .. m /\ \A y \in 1 .. m : Dao!Max(1 .. m) >= y
  BY <1>1, <1>2
<1>  QED
  BY <1>2, <1>3

\* The fold that takes t's steps.
DaoFold(g, z, t, n) ==
  g = [s \in SUBSET (1 .. n) |-> IF s = {} THEN z ELSE t[<<g[s \ {Dao!Max(s)}], Dao!Max(s)>>]]

\* It exists.
LEMMA DaoFoldExists ==
  ASSUME NEW V, NEW z \in V, NEW n \in Nat, NEW t \in [V \X (1 .. n) -> V]
  PROVE  \E g \in [SUBSET (1 .. n) -> V] : DaoFold(g, z, t, n)
<1>1. \E g \in [SUBSET (1 .. n) -> V] : SwpP!SeqFold(g, z, t, n)
  BY SwpP!SeqFoldExists
<1>2. \A s : SwpP!Max(s) = Dao!Max(s)
  BY Zenon DEF SwpP!Max, Dao!Max
<1>3. \A g : SwpP!SeqFold(g, z, t, n) <=> DaoFold(g, z, t, n)
  BY <1>2, Zenon DEF SwpP!SeqFold, DaoFold
<1>  QED
  BY <1>1, <1>3

\* The greatest of a set of places is one of them.
LEMMA DaoGreatest ==
  ASSUME NEW n \in Nat, NEW s \in SUBSET (1 .. n), s # {}
  PROVE  Dao!Max(s) \in s /\ Dao!Max(s) \in 1 .. n /\ \A y \in s : y <= Dao!Max(s)
<1>1. SwpP!Max(s) = Dao!Max(s)
  BY Zenon DEF SwpP!Max, Dao!Max
<1>  QED
  BY <1>1, SwpP!Greatest

\* The sum of the tracks' sectors.
DaoSum(s) == Dao!FoldLeft(LAMBDA sum, t : sum + t.sectors, 0, s)

\* h[m] is the sum of the first m.
DaoSums(h, s) ==
  h \in [0 .. Len(s) -> Nat] /\ h[0] = 0 /\ \A m \in 1 .. Len(s) : h[m] = h[m - 1] + s[m].sectors

LEMMA DaoSumIs ==
  ASSUME NEW q, NEW n \in Nat, n = Len(q), DOMAIN q = 1 .. n, \A k \in 1 .. n : q[k].sectors \in Nat
  PROVE  \E h : DaoSums(h, q) /\ DaoSum(q) = h[n]
<1>  DEFINE R == 1 .. n
            t == [x \in Nat \X R |-> x[1] + q[x[2]].sectors]
<1>1. t \in [Nat \X R -> Nat]
  OBVIOUS
<1>2. PICK g \in [SUBSET R -> Nat] : DaoFold(g, 0, t, n)
  <2>  HIDE DEF t
  <2>  QED
    BY <1>1, DaoFoldExists
<1>3. \A x \in Nat, m \in R : t[<<x, m>>] = x + q[m].sectors
  OBVIOUS
<1>4. g = [s \in SUBSET R |-> IF s = {} THEN 0 ELSE g[s \ {Dao!Max(s)}] + q[Dao!Max(s)].sectors]
  <2>1. ASSUME NEW s \in SUBSET R
        PROVE  (IF s = {} THEN 0 ELSE t[<<g[s \ {Dao!Max(s)}], Dao!Max(s)>>])
                 = IF s = {} THEN 0 ELSE g[s \ {Dao!Max(s)}] + q[Dao!Max(s)].sectors
    <3>1. CASE s # {}
      <4>1. Dao!Max(s) \in R /\ g[s \ {Dao!Max(s)}] \in Nat
        BY <3>1, DaoGreatest
      <4>  HIDE DEF t
      <4>  QED
        BY <1>3, <3>1, <4>1
    <3>2. CASE s = {}
      BY <3>2
    <3>  QED
      BY <3>1, <3>2
  <2>2. \A s \in SUBSET R : g[s] = IF s = {} THEN 0 ELSE t[<<g[s \ {Dao!Max(s)}], Dao!Max(s)>>]
    <3>  HIDE DEF t, R
    <3>  QED
      BY <1>2, Zenon DEF DaoFold, R
  <2>3. \A s \in SUBSET R : g[s] = IF s = {} THEN 0 ELSE g[s \ {Dao!Max(s)}] + q[Dao!Max(s)].sectors
    <3>  HIDE DEF t, R
    <3>  QED
      BY <2>1, <2>2, Zenon
  <2>  HIDE DEF t, R
  <2>  QED
    BY <2>3
<1>  HIDE DEF t
<1>6. DOMAIN q = R
  OBVIOUS
<1>  HIDE DEF R
<1>7. PICK u : /\ u = [s \in SUBSET R |-> IF s = {} THEN 0 ELSE u[s \ {Dao!Max(s)}] + q[Dao!Max(s)].sectors]
               /\ DaoSum(q) = u[R]
  BY <1>4, <1>6, Zenon DEF DaoSum, Dao!FoldLeft, Dao!MapThenFoldSet
<1>8. \A s \in SUBSET R : u[s] = IF s = {} THEN 0 ELSE u[s \ {Dao!Max(s)}] + q[Dao!Max(s)].sectors
  BY <1>7, Zenon
<1>  USE DEF R
<1>  DEFINE h == [m \in 0 .. n |-> u[1 .. m]]
<1>9. h[0] = 0
  <2>1. 1 .. 0 = {} /\ 1 .. 0 \in SUBSET R /\ 0 \in 0 .. n
    OBVIOUS
  <2>  QED
    BY <1>8, <2>1
<1>10. ASSUME NEW m \in 1 .. n PROVE h[m] = h[m - 1] + q[m].sectors
  <2>1. /\ 1 .. m # {} /\ 1 .. m \in SUBSET R /\ (1 .. m) \ {m} = 1 .. m - 1
        /\ m \in 0 .. n /\ m - 1 \in 0 .. n
    <3>1. (1 .. m) \ {m} = 1 .. m - 1
      OBVIOUS
    <3>  QED
      BY <3>1
  <2>2. Dao!Max(1 .. m) = m
    BY DaoMaxOfFirst
  <2>3. u[1 .. m] = u[(1 .. m) \ {Dao!Max(1 .. m)}] + q[Dao!Max(1 .. m)].sectors
    BY <1>8, <2>1, Zenon
  <2>4. h[m] = u[1 .. m] /\ h[m - 1] = u[1 .. m - 1]
    BY <2>1
  <2>  HIDE DEF h
  <2>  QED
    BY <2>1, <2>2, <2>3, <2>4, Zenon
<1>11. \A m \in 0 .. n : h[m] \in Nat
  <2>  DEFINE D == {m \in 0 .. n : h[m] \in Nat}
  <2>1. 0 \in D
    BY <1>9
  <2>2. ASSUME NEW m \in 0 .. n - 1, m \in D PROVE m + 1 \in D
    <3>1. m + 1 \in 1 .. n /\ m + 1 \in 0 .. n /\ (m + 1) - 1 = m /\ h[m] \in Nat
      BY <2>2
    <3>2. h[m + 1] = h[(m + 1) - 1] + q[m + 1].sectors
      BY <1>10, <3>1, Zenon
    <3>3. q[m + 1].sectors \in Nat
      BY <3>1
    <3>  HIDE DEF h
    <3>  QED
      BY <3>1, <3>2, <3>3
  <2>4. \A m \in 0 .. n : m \in D
    <3>  HIDE DEF D
    <3>  QED
      BY <2>1, <2>2, DaoUpTo
  <2>  QED
    BY <2>4
<1>12. h \in [0 .. n -> Nat] /\ h[n] = u[R]
  BY <1>11
<1>13. DaoSums(h, q)
  <2>  HIDE DEF h
  <2>  QED
    BY <1>9, <1>10, <1>12 DEF DaoSums
<1>  QED
  BY <1>7, <1>12, <1>13

------------------------------------------------------------------------------
(* The parser's loop.                                                          *)

\* A new track.
LEMMA DaoNewTrack ==
  \A x : x \in BOOLEAN => /\ [Dao!NewTrack EXCEPT !.audio = x] \in DaoTrack
                          /\ [Dao!NewTrack EXCEPT !.audio = x].pregap = 0
<1>1. SUFFICES ASSUME NEW x \in BOOLEAN
               PROVE  /\ [Dao!NewTrack EXCEPT !.audio = x] \in DaoTrack
                      /\ [Dao!NewTrack EXCEPT !.audio = x].pregap = 0
  OBVIOUS
<1>  DEFINE t == Dao!NewTrack
<1>2. t = [audio |-> FALSE, pre |-> FALSE, copy |-> FALSE, isrc |-> FALSE, file |-> FALSE,
           offset |-> 0, sectors |-> 0, pregap |-> 0, index1 |-> 0]
  BY DEF Dao!NewTrack
<1>3. t \in DaoTrack
  BY <1>2 DEF DaoTrack
<1>4. t.pregap = 0
  BY <1>2
<1>5. t = [audio |-> t.audio, pre |-> t.pre, copy |-> t.copy, isrc |-> t.isrc, file |-> t.file,
           offset |-> t.offset, sectors |-> t.sectors, pregap |-> t.pregap, index1 |-> t.index1]
  BY <1>3 DEF DaoTrack
<1>  HIDE DEF t
<1>6. [t EXCEPT !.audio = x] \in DaoTrack /\ [t EXCEPT !.audio = x].pregap = 0
  BY <1>3, <1>4, <1>5 DEF DaoTrack
<1>  QED
  BY <1>6 DEF t

\* One turn of it.
LEMMA DaoParseStep ==
  ASSUME Dao!SizesAssumption, NEW f \in Seq(Dao!Line), NEW i \in 1 .. Len(f), NEW m \in DaoModel
  PROVE  /\ Dao!ParseLine(f, m, i) \in DaoModel
         /\ DaoParsed(f, m, i - 1) => DaoParsed(f, Dao!ParseLine(f, m, i), i)
<1>  DEFINE w == Dao!ParseLine(f, m, i)
            x == f[i]
            n == Len(m.tracks)
<1>0. /\ m = [ok |-> m.ok, mcn |-> m.mcn, tracks |-> m.tracks, leadout |-> m.leadout]
      /\ m.ok \in BOOLEAN /\ m.mcn \in BOOLEAN /\ m.tracks \in Seq(DaoTrack) /\ m.leadout \in Nat
  BY DEF DaoModel
<1>1. n \in Nat /\ LayoutTracks \in Nat
  <2>1. n \in Nat
    BY <1>0
  <2>2. LayoutTracks \in 1 .. 99
    BY DEF Dao!SizesAssumption
  <2>  QED
    BY <2>1, <2>2
<1>2. x \in Dao!Line /\ x.start \in Int /\ x.len \in Int
  <2>1. x \in Dao!Line
    OBVIOUS
  <2>  QED
    BY <2>1 DEF Dao!Line
<1>3. CASE ~m.ok
  <2>1. w = m
    BY <1>3 DEF Dao!ParseLine
  <2>  QED
    BY <1>3, <2>1 DEF DaoParsed
<1>4. CASE m.ok /\ Dao!Bad(m, x)
  <2>1. w = [m EXCEPT !.ok = FALSE]
    BY <1>4 DEF Dao!ParseLine, Dao!Rejected
  <2>2. w \in DaoModel /\ ~w.ok
    BY <1>0, <2>1 DEF DaoModel
  <2>  QED
    BY <2>2 DEF DaoParsed
<1>5. CASE m.ok /\ ~Dao!Bad(m, x) /\ x.kw = "CATALOG"
  <2>1. w = [m EXCEPT !.mcn = x.len = 13]
    BY <1>5 DEF Dao!ParseLine
  <2>2. w \in DaoModel /\ w.ok /\ w.tracks = m.tracks
    BY <1>0, <1>5, <2>1 DEF DaoModel
  <2>3. x.kw # "TRACK" /\ x.kw \notin DaoFile \cup {"START"}
    BY <1>5 DEF DaoFile
  <2>  QED
    BY <1>0, <1>5, <2>2, <2>3, DaoNothingSaid DEF DaoParsed
<1>6. CASE m.ok /\ ~Dao!Bad(m, x) /\ x.kw = "TRACK"
  <2>  DEFINE t == [Dao!NewTrack EXCEPT !.audio = Dao!Mentions(f, i, "AUDIO")]
  <2>1. w = [m EXCEPT !.tracks = Append(@, t)]
    BY <1>6 DEF Dao!ParseLine
  <2>2. t \in DaoTrack /\ t.pregap = 0
    BY DaoNewTrack DEF Dao!Mentions
  <2>  HIDE DEF t
  <2>3. Append(m.tracks, t) \in Seq(DaoTrack)
    BY <1>0, <2>2
  <2>4. w \in DaoModel /\ w.ok /\ w.tracks = Append(m.tracks, t)
    BY <1>0, <1>6, <2>1, <2>3 DEF DaoModel
  <2>5. n < LayoutTracks
    BY <1>1, <1>6 DEF Dao!Bad
  <2>  QED
    BY <1>0, <1>1, <1>6, <2>2, <2>4, <2>5, DaoTrackBegun DEF DaoParsed
<1>7. CASE m.ok /\ ~Dao!Bad(m, x) /\ x.kw \notin {"CATALOG", "TRACK"} /\ n > 0
  <2>  DEFINE u == Dao!TrackLine(f, i, m.tracks[n])
  <2>1. w = [m EXCEPT !.tracks[n] = u]
    BY <1>7 DEF Dao!ParseLine
  <2>2. x.kw \in DaoFile => x.start >= 0 /\ x.len >= 0
    BY <1>0, <1>1, <1>2, <1>7 DEF Dao!Bad, DaoFile
  <2>3. m.tracks[n] \in DaoTrack
    BY <1>0, <1>1, <1>7
  <2>4. u \in DaoTrack
    BY <2>2, <2>3, DaoTrackLine
  <2>  HIDE DEF u
  <2>5. [m.tracks EXCEPT ![n] = u] \in Seq(DaoTrack)
    BY <1>0, <1>1, <1>7, <2>4
  <2>6. w \in DaoModel /\ w.ok /\ w.tracks = [m.tracks EXCEPT ![n] = u]
    BY <1>0, <1>7, <2>1, <2>5 DEF DaoModel
  <2>7. DaoSaid(f, m.tracks, i - 1) => DaoSaid(f, w.tracks, i)
    BY <1>0, <1>7, <2>2, <2>6, DaoTrackTold DEF u
  <2>  QED
    BY <1>7, <2>6, <2>7 DEF DaoParsed
<1>8. CASE m.ok /\ ~Dao!Bad(m, x) /\ x.kw \notin {"CATALOG", "TRACK"} /\ ~(n > 0)
  <2>1. w = m
    BY <1>8 DEF Dao!ParseLine
  <2>  QED
    BY <1>0, <1>1, <1>8, <2>1, DaoNothingSaid DEF DaoParsed
<1>  QED
  BY <1>0, <1>3, <1>4, <1>5, <1>6, <1>7, <1>8

\* All of it.
DaoLoop(f) == Dao!FoldLeft(LAMBDA sofar, i : Dao!ParseLine(f, sofar, i), Dao!NoLayout, [i \in 1 .. Len(f) |-> i])

LEMMA DaoParses ==
  ASSUME Dao!SizesAssumption, NEW f \in Seq(Dao!Line)
  PROVE  DaoParsed(f, DaoLoop(f), Len(f))
<1>  DEFINE n == Len(f)
            R == 1 .. n
            q == [i \in R |-> i]
            z == Dao!NoLayout
            t == [x \in DaoModel \X R |-> Dao!ParseLine(f, x[1], x[2])]
<1>0. n \in Nat
  OBVIOUS
<1>1. t \in [DaoModel \X R -> DaoModel]
  <2>1. ASSUME NEW x \in DaoModel \X R PROVE Dao!ParseLine(f, x[1], x[2]) \in DaoModel
    <3>1. x[1] \in DaoModel /\ x[2] \in R
      OBVIOUS
    <3>  QED
      BY <3>1, DaoParseStep
  <2>  QED
    BY <2>1
<1>2. z \in DaoModel /\ DaoParsed(f, z, 0)
  <2>1. z \in DaoModel /\ z.tracks = << >>
    BY DEF Dao!NoLayout, DaoModel
  <2>2. Len(<< >>) = 0 /\ DaoTrackOf(f, 0) = 0 /\ LayoutTracks \in Nat
    BY DaoTrackOfIs DEF Dao!SizesAssumption
  <2>3. DaoSaid(f, << >>, 0)
    BY <2>2 DEF DaoSaid
  <2>  QED
    BY <2>1, <2>3 DEF DaoParsed
<1>3. PICK g \in [SUBSET R -> DaoModel] : DaoFold(g, z, t, n)
  <2>  HIDE DEF t, z
  <2>  QED
    BY <1>0, <1>1, <1>2, DaoFoldExists
<1>4. \A x \in DaoModel, m \in R : t[<<x, m>>] = Dao!ParseLine(f, x, m)
  OBVIOUS
<1>5. \A m \in R : q[m] = m
  OBVIOUS
<1>6. DOMAIN q = R
  OBVIOUS
<1>  HIDE DEF t, z, q
<1>7. g = [s \in SUBSET R |-> IF s = {} THEN z ELSE Dao!ParseLine(f, g[s \ {Dao!Max(s)}], q[Dao!Max(s)])]
  <2>1. ASSUME NEW s \in SUBSET R
        PROVE  (IF s = {} THEN z ELSE t[<<g[s \ {Dao!Max(s)}], Dao!Max(s)>>])
                 = IF s = {} THEN z ELSE Dao!ParseLine(f, g[s \ {Dao!Max(s)}], q[Dao!Max(s)])
    <3>1. CASE s # {}
      <4>1. Dao!Max(s) \in R /\ g[s \ {Dao!Max(s)}] \in DaoModel
        BY <1>0, <3>1, DaoGreatest
      <4>  QED
        BY <1>4, <1>5, <3>1, <4>1
    <3>2. CASE s = {}
      BY <3>2
    <3>  QED
      BY <3>1, <3>2
  <2>2. \A s \in SUBSET R : g[s] = IF s = {} THEN z ELSE t[<<g[s \ {Dao!Max(s)}], Dao!Max(s)>>]
    <3>  HIDE DEF R
    <3>  QED
      BY <1>3, Zenon DEF DaoFold, R
  <2>3. \A s \in SUBSET R : g[s] = IF s = {} THEN z ELSE Dao!ParseLine(f, g[s \ {Dao!Max(s)}], q[Dao!Max(s)])
    <3>  HIDE DEF R
    <3>  QED
      BY <2>1, <2>2, Zenon
  <2>  HIDE DEF R
  <2>  QED
    BY <2>3
<1>  HIDE DEF R
<1>8. PICK u : /\ u = [s \in SUBSET R |-> IF s = {} THEN z ELSE Dao!ParseLine(f, u[s \ {Dao!Max(s)}], q[Dao!Max(s)])]
               /\ DaoLoop(f) = u[R]
  <2>1. DaoLoop(f) = Dao!FoldLeft(LAMBDA sofar, i : Dao!ParseLine(f, sofar, i), z, q)
    BY Zenon DEF DaoLoop, z, q, R
  <2>  QED
    BY <1>6, <1>7, <2>1, Zenon DEF Dao!FoldLeft, Dao!MapThenFoldSet
<1>9. \A s \in SUBSET R : u[s] = IF s = {} THEN z ELSE Dao!ParseLine(f, u[s \ {Dao!Max(s)}], q[Dao!Max(s)])
  BY <1>8, Zenon
<1>  USE DEF R
<1>10. u[1 .. 0] = z
  <2>1. 1 .. 0 = {} /\ 1 .. 0 \in SUBSET R
    OBVIOUS
  <2>  QED
    BY <1>9, <2>1, Zenon
<1>11. ASSUME NEW m \in 1 .. n PROVE u[1 .. m] = Dao!ParseLine(f, u[1 .. m - 1], m)
  <2>1. 1 .. m # {} /\ 1 .. m \in SUBSET R /\ (1 .. m) \ {m} = 1 .. m - 1
    <3>1. (1 .. m) \ {m} = 1 .. m - 1
      BY <1>0
    <3>2. 1 .. m # {} /\ 1 .. m \subseteq 1 .. n
      BY <1>0
    <3>  QED
      BY <3>1, <3>2
  <2>2. Dao!Max(1 .. m) = m
    BY DaoMaxOfFirst
  <2>3. u[1 .. m] = Dao!ParseLine(f, u[(1 .. m) \ {Dao!Max(1 .. m)}], q[Dao!Max(1 .. m)])
    BY <1>9, <2>1, Zenon
  <2>  QED
    BY <1>5, <2>1, <2>2, <2>3
<1>12. \A m \in 0 .. n : DaoParsed(f, u[1 .. m], m)
  <2>  DEFINE D == {m \in 0 .. n : DaoParsed(f, u[1 .. m], m)}
  <2>1. 0 \in D
    BY <1>0, <1>2, <1>10
  <2>2. ASSUME NEW m \in 0 .. n - 1, m \in D PROVE m + 1 \in D
    <3>1. m + 1 \in 1 .. n /\ m + 1 \in 0 .. n /\ (m + 1) - 1 = m /\ DaoParsed(f, u[1 .. m], m)
      BY <2>2
    <3>2. u[1 .. m + 1] = Dao!ParseLine(f, u[1 .. m], m + 1)
      BY <1>11, <3>1
    <3>3. u[1 .. m] \in DaoModel
      BY <3>1 DEF DaoParsed
    <3>4. DaoParsed(f, Dao!ParseLine(f, u[1 .. m], m + 1), m + 1)
      BY <3>1, <3>3, DaoParseStep
    <3>  QED
      BY <3>1, <3>2, <3>4
  <2>4. \A m \in 0 .. n : m \in D
    <3>  HIDE DEF D
    <3>  QED
      BY <1>0, <2>1, <2>2, DaoUpTo
  <2>  QED
    BY <2>4
<1>13. DaoParsed(f, u[1 .. n], n)
  BY <1>0, <1>12
<1>  QED
  BY <1>8, <1>13

------------------------------------------------------------------------------
(* The tracks tile the disc.                                                   *)

\* Sums of the same sectors are the same.
LEMMA DaoSumsAgree ==
  ASSUME NEW p, NEW q, NEW n \in Nat, n = Len(p), Len(q) \in Nat, n <= Len(q),
         \A k \in 1 .. n : p[k].sectors = q[k].sectors,
         NEW g, NEW h, DaoSums(g, p), DaoSums(h, q)
  PROVE  \A j \in 0 .. n : g[j] = h[j]
<1>  DEFINE D == {j \in 0 .. n : g[j] = h[j]}
<1>1. 0 \in D
  BY DEF DaoSums
<1>2. ASSUME NEW j \in 0 .. n - 1, j \in D PROVE j + 1 \in D
  <2>1. j + 1 \in 1 .. n /\ j + 1 \in 0 .. n /\ j + 1 \in 1 .. Len(q) /\ (j + 1) - 1 = j /\ g[j] = h[j]
    BY <1>2
  <2>2. g[j + 1] = g[(j + 1) - 1] + p[j + 1].sectors
    BY <2>1 DEF DaoSums
  <2>3. h[j + 1] = h[(j + 1) - 1] + q[j + 1].sectors
    BY <2>1 DEF DaoSums
  <2>4. p[j + 1].sectors = q[j + 1].sectors
    BY <2>1
  <2>  QED
    BY <2>1, <2>2, <2>3, <2>4
<1>3. \A j \in 0 .. n : j \in D
  <2>  HIDE DEF D
  <2>  QED
    BY <1>1, <1>2, DaoUpTo
<1>  QED
  BY <1>3

\* A sum grows.
LEMMA DaoSumsGrow ==
  ASSUME NEW q, NEW n \in Nat, n = Len(q), \A k \in 1 .. n : q[k].sectors \in Nat, NEW h, DaoSums(h, q)
  PROVE  \A i \in 0 .. n : \A j \in 0 .. n : i <= j => h[i] <= h[j]
<1>  TAKE i \in 0 .. n
<1>  DEFINE D == {j \in 0 .. n : i <= j => h[i] <= h[j]}
<1>0. \A j \in 0 .. n : h[j] \in Nat
  BY DEF DaoSums
<1>1. 0 \in D
  BY <1>0
<1>2. ASSUME NEW j \in 0 .. n - 1, j \in D PROVE j + 1 \in D
  <2>1. j + 1 \in 1 .. n /\ j + 1 \in 0 .. n /\ j \in 0 .. n /\ (j + 1) - 1 = j /\ (i <= j => h[i] <= h[j])
    BY <1>2
  <2>2. h[j + 1] = h[(j + 1) - 1] + q[j + 1].sectors
    BY <2>1 DEF DaoSums
  <2>3. q[j + 1].sectors \in Nat /\ h[j] \in Nat /\ h[j + 1] \in Nat /\ h[i] \in Nat
    BY <1>0, <2>1
  <2>4. i <= j + 1 => i <= j \/ i = j + 1
    OBVIOUS
  <2>5. i <= j + 1 => h[i] <= h[j + 1]
    BY <2>1, <2>2, <2>3, <2>4
  <2>  QED
    BY <2>1, <2>5
<1>3. \A j \in 0 .. n : j \in D
  <2>  HIDE DEF D
  <2>  QED
    BY <1>1, <1>2, DaoUpTo
<1>  QED
  BY <1>3

\* What is before a track is a sum, and so is the whole.
LEMMA DaoBeforeIs ==
  ASSUME NEW q \in Seq(DaoTrack)
  PROVE  \E h : /\ DaoSums(h, q) /\ DaoSum(q) = h[Len(q)]
                /\ \A i \in 1 .. Len(q) : Dao!Before(q, i) = h[i - 1]
<1>  DEFINE n == Len(q)
<1>1. n \in Nat /\ DOMAIN q = 1 .. n /\ \A k \in 1 .. n : q[k].sectors \in Nat
  <2>1. n \in Nat /\ DOMAIN q = 1 .. n /\ \A k \in 1 .. n : q[k] \in DaoTrack
    OBVIOUS
  <2>  QED
    BY <2>1 DEF DaoTrack
<1>2. PICK h : DaoSums(h, q) /\ DaoSum(q) = h[n]
  BY <1>1, DaoSumIs
<1>3. ASSUME NEW i \in 1 .. n PROVE Dao!Before(q, i) = h[i - 1]
  <2>  DEFINE p == SubSeq(q, 1, i - 1)
              k == i - 1
  <2>1. /\ k \in Nat /\ k = Len(p) /\ DOMAIN p = 1 .. k /\ k <= n
        /\ \A l \in 1 .. k : p[l] = q[l] /\ l \in 1 .. n
    BY <1>1
  <2>2. Dao!Before(q, i) = DaoSum(p)
    BY Zenon DEF Dao!Before, DaoSum
  <2>  HIDE DEF p, k
  <2>3. \A l \in 1 .. k : p[l].sectors \in Nat /\ p[l].sectors = q[l].sectors
    BY <1>1, <2>1
  <2>4. PICK g : DaoSums(g, p) /\ DaoSum(p) = g[k]
    BY <2>1, <2>3, DaoSumIs
  <2>5. \A j \in 0 .. k : g[j] = h[j]
    BY <1>1, <1>2, <2>1, <2>3, <2>4, DaoSumsAgree
  <2>6. g[k] = h[k]
    BY <2>1, <2>5
  <2>  QED
    BY <2>2, <2>4, <2>6 DEF k
<1>  QED
  BY <1>2, <1>3

\* What the parser makes of a file.
DaoTiled(m, h) ==
  /\ DaoSums(h, m.tracks) /\ m.leadout = h[Len(m.tracks)]
  /\ \A i \in 1 .. Len(m.tracks) :
       /\ Dao!Before(m.tracks, i) = h[i - 1] /\ m.tracks[i].pregap <= m.tracks[i].sectors
       /\ m.tracks[i].index1 = h[i - 1] + m.tracks[i].pregap
DaoLaid(f, m) ==
  /\ m \in DaoModel
  /\ m.ok => m.tracks # << >> /\ DaoSaid(f, m.tracks, Len(f)) /\ \E h : DaoTiled(m, h)

\* What the lines say of the tracks is not where on the disc they are.
LEMMA DaoSaidSame ==
  ASSUME NEW f, NEW i, NEW p, NEW q, DaoSaid(f, p, i), Len(p) \in Nat, Len(q) = Len(p),
         \A j \in 1 .. i : DaoTrackOf(f, j) \in Nat /\ DaoTrackOf(f, j) <= Len(p),
         \A k \in 1 .. Len(p) :
           q[k].offset = p[k].offset /\ q[k].sectors = p[k].sectors /\ q[k].pregap = p[k].pregap
  PROVE  DaoSaid(f, q, i)
<1>  DEFINE Of(j) == DaoTrackOf(f, j)
<1>0. \A j \in 1 .. i : Of(j) >= 1 => Of(j) \in 1 .. Len(p)
  OBVIOUS
<1>  HIDE DEF Of
<1>1. \A j \in 1 .. i : DaoLast(f, i, j, DaoFile) /\ Of(j) >= 1 =>
        q[Of(j)].offset = Dao!FileStart(f[j]) /\ q[Of(j)].sectors = f[j].len
  BY <1>0 DEF DaoSaid, Of
<1>2. \A j \in 1 .. i : DaoLast(f, i, j, {"START"}) /\ Of(j) >= 1 =>
        q[Of(j)].pregap = IF f[j].len > 0 THEN f[j].len ELSE 0
  BY <1>0 DEF DaoSaid, Of
<1>3. \A k \in 1 .. Len(q) : (\A j \in 1 .. i : f[j].kw = "START" => Of(j) # k) => q[k].pregap = 0
  BY DEF DaoSaid, Of
<1>  QED
  BY <1>1, <1>2, <1>3 DEF DaoSaid, Of

\* The second pass.
LEMMA DaoLays ==
  ASSUME Dao!SizesAssumption, NEW f \in Seq(Dao!Line)
  PROVE  DaoLaid(f, Dao!ParseCue(f))
<1>  DEFINE m == DaoLoop(f)
            n == Len(m.tracks)
            s == m.tracks
            w == Dao!ParseCue(f)
            Fails == ~m.ok \/ s = << >> \/ \E i \in DOMAIN s : ~Dao!Writable(s[i])
            q == [i \in DOMAIN s |-> [s[i] EXCEPT !.index1 = Dao!Before(s, i) + s[i].pregap]]
<1>1. w = IF Fails THEN [m EXCEPT !.ok = FALSE] ELSE [m EXCEPT !.tracks = q, !.leadout = DaoSum(s)]
  BY Zenon DEF Dao!ParseCue, DaoLoop, Dao!Rejected, DaoSum
<1>2. m \in DaoModel /\ (m.ok => DaoSaid(f, s, Len(f)))
  BY DaoParses DEF DaoParsed
<1>  HIDE DEF m, w
<1>3. /\ m = [ok |-> m.ok, mcn |-> m.mcn, tracks |-> m.tracks, leadout |-> m.leadout]
      /\ m.ok \in BOOLEAN /\ m.mcn \in BOOLEAN /\ s \in Seq(DaoTrack) /\ m.leadout \in Nat
  BY <1>2 DEF DaoModel
<1>4. CASE Fails
  <2>1. w = [m EXCEPT !.ok = FALSE]
    BY <1>1, <1>4
  <2>2. w \in DaoModel /\ ~w.ok
    BY <1>3, <2>1 DEF DaoModel
  <2>  QED
    BY <2>2 DEF DaoLaid, w
<1>5. CASE ~Fails
  <2>0. w = [m EXCEPT !.tracks = q, !.leadout = DaoSum(s)]
    BY <1>1, <1>5
  <2>1. n \in Nat /\ DOMAIN s = 1 .. n /\ \A i \in 1 .. n : s[i] \in DaoTrack
    BY <1>3
  <2>2. PICK h : /\ DaoSums(h, s) /\ DaoSum(s) = h[n]
                 /\ \A i \in 1 .. n : Dao!Before(s, i) = h[i - 1]
    BY <1>3, DaoBeforeIs
  <2>3. \A i \in 0 .. n : h[i] \in Nat
    BY <2>2 DEF DaoSums
  <2>4. ASSUME NEW i \in 1 .. n
        PROVE  /\ q[i] \in DaoTrack /\ q[i].index1 = h[i - 1] + s[i].pregap
               /\ q[i].offset = s[i].offset /\ q[i].sectors = s[i].sectors /\ q[i].pregap = s[i].pregap
    <3>  DEFINE t == s[i]
    <3>1. q[i] = [t EXCEPT !.index1 = h[i - 1] + t.pregap]
      BY <2>1, <2>2
    <3>2. h[i - 1] \in Nat
      BY <2>1, <2>3
    <3>3. /\ t = [audio |-> t.audio, pre |-> t.pre, copy |-> t.copy, isrc |-> t.isrc, file |-> t.file,
                  offset |-> t.offset, sectors |-> t.sectors, pregap |-> t.pregap, index1 |-> t.index1]
          /\ t.audio \in BOOLEAN /\ t.pre \in BOOLEAN /\ t.copy \in BOOLEAN /\ t.isrc \in BOOLEAN
          /\ t.file \in BOOLEAN /\ t.offset \in Int /\ t.sectors \in Nat /\ t.pregap \in Nat
      BY <2>1 DEF DaoTrack
    <3>4. h[i - 1] + t.pregap \in Int
      BY <3>2, <3>3
    <3>  HIDE DEF t, q
    <3>5. /\ q[i] \in DaoTrack /\ q[i].index1 = h[i - 1] + t.pregap
          /\ q[i].offset = t.offset /\ q[i].sectors = t.sectors /\ q[i].pregap = t.pregap
      BY <3>1, <3>3, <3>4 DEF DaoTrack
    <3>  QED
      BY <3>5 DEF t
  <2>5. q \in Seq(DaoTrack) /\ Len(q) = n
    <3>1. q = [i \in 1 .. n |-> q[i]]
      BY <2>1
    <3>2. \A i \in 1 .. n : q[i] \in DaoTrack
      BY <2>4
    <3>  HIDE DEF q, n, s
    <3>3. n \in Nat
      BY <2>1
    <3>  QED
      BY <3>1, <3>2, <3>3
  <2>6. DaoSum(s) \in Nat
    <3>  HIDE DEF s, n
    <3>  QED
      BY <2>1, <2>2, <2>3
  <2>  HIDE DEF q
  <2>7. w \in DaoModel /\ w.tracks = q /\ w.leadout = DaoSum(s)
    BY <1>3, <2>0, <2>5, <2>6 DEF DaoModel
  <2>8. PICK g : /\ DaoSums(g, q) /\ DaoSum(q) = g[n]
                 /\ \A i \in 1 .. n : Dao!Before(q, i) = g[i - 1]
    BY <2>5, DaoBeforeIs
  <2>9. \A j \in 0 .. n : g[j] = h[j]
    <3>  DEFINE k == Len(q)
    <3>1. \A l \in 1 .. k : q[l].sectors = s[l].sectors
      BY <2>4, <2>5
    <3>2. k \in Nat /\ k = Len(q) /\ Len(s) \in Nat /\ k <= Len(s) /\ n = k
      BY <2>1, <2>5
    <3>3. DaoSums(g, q) /\ DaoSums(h, s)
      BY <2>2, <2>8
    <3>  HIDE DEF n, s, k
    <3>4. \A j \in 0 .. k : g[j] = h[j]
      BY <3>1, <3>2, <3>3, DaoSumsAgree
    <3>  QED
      BY <3>2, <3>4
  <2>10. ASSUME NEW i \in 1 .. n
         PROVE  /\ Dao!Before(q, i) = g[i - 1] /\ q[i].pregap <= q[i].sectors
                /\ q[i].index1 = g[i - 1] + q[i].pregap
    <3>1. Dao!Writable(s[i])
      BY <1>5, <2>1
    <3>2. i - 1 \in 0 .. n
      BY <2>1
    <3>  QED
      BY <2>4, <2>8, <2>9, <3>1, <3>2 DEF Dao!Writable
  <2>11. w.leadout = g[n]
    BY <2>1, <2>2, <2>7, <2>9
  <2>12. DaoTiled(w, g)
    BY <2>5, <2>7, <2>8, <2>10, <2>11 DEF DaoTiled
  <2>13. DaoSaid(f, q, Len(f))
    <3>1. DaoSaid(f, s, Len(f))
      BY <1>2, <1>5
    <3>2. n = DaoTrackOf(f, Len(f)) /\ Len(f) \in Nat
      BY <3>1 DEF DaoSaid
    <3>3. \A j \in 1 .. Len(f) : DaoTrackOf(f, j) \in Nat /\ DaoTrackOf(f, j) <= n
      BY <3>2, DaoTrackOfIs
    <3>  QED
      BY <2>1, <2>4, <2>5, <3>1, <3>3, DaoSaidSame
  <2>14. q # << >>
    BY <1>5, <2>1, <2>5
  <2>  QED
    BY <2>7, <2>12, <2>13, <2>14 DEF DaoLaid, w
<1>  QED
  BY <1>4, <1>5

------------------------------------------------------------------------------
(* The entries of a cue sheet.                                                 *)

DaoEntry == [adr : Int, tno : Int, index : Int, form : Int, msf : Int]

\* An entry, which has its time below 100 minutes.
DaoEntryOf(e, adr, tno, index, x) ==
  /\ e \in DaoEntry /\ e.adr = adr /\ e.tno = tno /\ e.index = index
  /\ 0 <= x /\ x < 450000 => e.msf = x

\* Below 100 minutes the three bytes hold it.
LEMMA DaoEntryIs ==
  ASSUME NEW adr \in Int, NEW tno \in Int, NEW index \in Int, NEW form \in Int, NEW x \in Int
  PROVE  DaoEntryOf(Dao!Entry(adr, tno, index, form, x), adr, tno, index, x)
<1>1. 256 * Dao!Minute = 1152000 /\ 100 * Dao!Minute = 450000
  BY DEF Dao!Minute, Dao!Second
<1>2. Dao!Msf(x) = IF x < 0 THEN 0 ELSE x % 1152000
  BY <1>1 DEF Dao!Msf
<1>3. Dao!Msf(x) \in Int
  BY <1>2
<1>4. 0 <= x /\ x < 450000 => Dao!Msf(x) = x
  BY <1>2
<1>5. Dao!Entry(adr, tno, index, form, x) =
        [adr |-> adr, tno |-> tno, index |-> index, form |-> form, msf |-> Dao!Msf(x)]
  BY DEF Dao!Entry
<1>  QED
  BY <1>3, <1>4, <1>5 DEF DaoEntry, DaoEntryOf

DaoTimed(e) == e.adr = 1 /\ e.tno # 0

\* Entries in order from lo to hi, which place INDEX 1 of a track where the track begins.
DaoSheet(m, s, lo, hi) ==
  /\ s \in Seq(DaoEntry)
  /\ \A k \in 1 .. Len(s) : DaoTimed(s[k]) => lo <= s[k].msf /\ s[k].msf <= hi
  /\ \A j \in 1 .. Len(s), k \in 1 .. Len(s) :
       DaoTimed(s[j]) /\ DaoTimed(s[k]) /\ j < k => s[j].msf <= s[k].msf
  /\ \A k \in 1 .. Len(s) : s[k].adr = 1 /\ s[k].index = 1 /\ s[k].tno \in 1 .. Len(m.tracks) =>
       s[k].msf = m.tracks[s[k].tno].index1 + Dao!Pregap

LEMMA DaoSheetNone == ASSUME NEW m, NEW lo, NEW hi PROVE DaoSheet(m, << >>, lo, hi)
  BY DEF DaoSheet

LEMMA DaoSheetOne ==
  ASSUME NEW m, NEW lo \in Int, NEW hi \in Int, NEW e \in DaoEntry,
         DaoTimed(e) => lo <= e.msf /\ e.msf <= hi,
         e.adr = 1 /\ e.index = 1 /\ e.tno \in 1 .. Len(m.tracks) =>
           e.msf = m.tracks[e.tno].index1 + Dao!Pregap
  PROVE  DaoSheet(m, <<e>>, lo, hi)
<1>  DEFINE s == <<e>>
<1>1. s \in Seq(DaoEntry) /\ Len(s) = 1 /\ s[1] = e /\ 1 .. Len(s) = {1}
  OBVIOUS
<1>  HIDE DEF s
<1>2. \A k \in 1 .. Len(s) : k = 1
  BY <1>1
<1>3. DaoSheet(m, s, lo, hi)
  BY <1>1, <1>2 DEF DaoSheet
<1>  QED
  BY <1>3 DEF s

\* End to end.
LEMMA DaoSheetJoin ==
  ASSUME NEW m, NEW lo \in Int, NEW mid \in Int, NEW hi \in Int, lo <= mid, mid <= hi,
         NEW s, NEW t, DaoSheet(m, s, lo, mid), DaoSheet(m, t, mid, hi)
  PROVE  DaoSheet(m, s \o t, lo, hi)
<1>  DEFINE u == s \o t
            a == Len(s)
            b == Len(t)
<1>0. s \in Seq(DaoEntry) /\ t \in Seq(DaoEntry)
  BY DEF DaoSheet
<1>1. /\ u \in Seq(DaoEntry) /\ a \in Nat /\ b \in Nat /\ Len(u) = a + b
      /\ \A k \in 1 .. a : u[k] = s[k]
      /\ \A k \in 1 .. a + b : k > a => u[k] = t[k - a]
  BY <1>0
<1>2. \A k \in 1 .. a : s[k] \in DaoEntry
  BY <1>0
<1>3. \A k \in 1 .. b : t[k] \in DaoEntry
  BY <1>0
<1>4. \A k \in 1 .. a : s[k].msf \in Int
  BY <1>2 DEF DaoEntry
<1>5. \A k \in 1 .. b : t[k].msf \in Int
  BY <1>3 DEF DaoEntry
<1>  HIDE DEF u, a, b
<1>6. \A k \in 1 .. Len(u) : (k \in 1 .. a /\ u[k] = s[k]) \/ (k > a /\ k - a \in 1 .. b /\ u[k] = t[k - a])
  BY <1>1
<1>7. \A k \in 1 .. a : DaoTimed(s[k]) => lo <= s[k].msf /\ s[k].msf <= mid
  BY DEF DaoSheet, a
<1>8. \A k \in 1 .. b : DaoTimed(t[k]) => mid <= t[k].msf /\ t[k].msf <= hi
  BY DEF DaoSheet, b
<1>9. ASSUME NEW k \in 1 .. Len(u), DaoTimed(u[k]) PROVE lo <= u[k].msf /\ u[k].msf <= hi
  <2>1. CASE k \in 1 .. a /\ u[k] = s[k]
    BY <1>4, <1>7, <1>9, <2>1
  <2>2. CASE k - a \in 1 .. b /\ u[k] = t[k - a]
    BY <1>5, <1>8, <1>9, <2>2
  <2>  QED
    BY <1>6, <2>1, <2>2
<1>10. ASSUME NEW j \in 1 .. Len(u), NEW k \in 1 .. Len(u), DaoTimed(u[j]), DaoTimed(u[k]), j < k
       PROVE  u[j].msf <= u[k].msf
  <2>1. CASE k \in 1 .. a /\ u[k] = s[k]
    <3>1. j \in 1 .. a /\ u[j] = s[j]
      BY <1>1, <1>10, <2>1
    <3>  QED
      BY <1>10, <2>1, <3>1 DEF DaoSheet, a
  <2>2. CASE k > a /\ k - a \in 1 .. b /\ u[k] = t[k - a]
    <3>1. CASE j \in 1 .. a /\ u[j] = s[j]
      <4>1. u[j].msf <= mid /\ mid <= u[k].msf /\ u[j].msf \in Int /\ u[k].msf \in Int
        BY <1>4, <1>5, <1>7, <1>8, <1>10, <2>2, <3>1
      <4>  QED
        BY <4>1
    <3>2. CASE j > a /\ j - a \in 1 .. b /\ u[j] = t[j - a]
      <4>1. j - a < k - a
        BY <1>1, <1>10
      <4>  QED
        BY <1>10, <2>2, <3>2, <4>1 DEF DaoSheet, b
    <3>  QED
      BY <1>6, <3>1, <3>2
  <2>  QED
    BY <1>6, <2>1, <2>2
<1>11. ASSUME NEW k \in 1 .. Len(u), u[k].adr = 1, u[k].index = 1, u[k].tno \in 1 .. Len(m.tracks)
       PROVE  u[k].msf = m.tracks[u[k].tno].index1 + Dao!Pregap
  <2>1. CASE k \in 1 .. a /\ u[k] = s[k]
    BY <1>11, <2>1 DEF DaoSheet, a
  <2>2. CASE k - a \in 1 .. b /\ u[k] = t[k - a]
    BY <1>11, <2>2 DEF DaoSheet, b
  <2>  QED
    BY <1>6, <2>1, <2>2
<1>12. DaoSheet(m, u, lo, hi)
  BY <1>1, <1>9, <1>10, <1>11 DEF DaoSheet
<1>  QED
  BY <1>12 DEF u

\* A sequence of sequences end to end.
DaoFlat(h, q, n) ==
  /\ h[1] = q[1] /\ \A i \in 2 .. n : h[i] = h[i - 1] \o q[i]

LEMMA DaoFlatten ==
  ASSUME NEW E, NEW n \in Nat, n > 0, NEW q \in [1 .. n -> Seq(E)]
  PROVE  \E h : DaoFlat(h, q, n) /\ Dao!FlattenSeq(q) = h[n]
<1>  DEFINE V == Seq(E)
            t == [x \in Nat \X V |-> IF x[1] \in 1 .. n - 1 THEN x[2] \o q[x[1] + 1] ELSE x[2]]
            F(u) == u = [i \in 1 .. n |-> IF i = 1 THEN q[i] ELSE u[i - 1] \o q[i]]
<1>1. t \in [Nat \X V -> V]
  <2>1. ASSUME NEW x \in Nat, NEW y \in V PROVE (IF x \in 1 .. n - 1 THEN y \o q[x + 1] ELSE y) \in V
    <3>1. CASE x \in 1 .. n - 1
      <4>1. q[x + 1] \in Seq(E)
        BY <3>1
      <4>  QED
        BY <3>1, <4>1
    <3>  QED
      BY <3>1
  <2>  QED
    BY <2>1
<1>2. q[1] \in V /\ n - 1 \in Nat
  OBVIOUS
<1>3. PICK g : SwpP!Recursive(g, V, q[1], t, n - 1)
  <2>  HIDE DEF t, V
  <2>  QED
    BY <1>1, <1>2, SwpP!RecursionDefines
<1>4. g \in [0 .. n - 1 -> V] /\ g[0] = q[1] /\ \A j \in 0 .. n - 1 : j # 0 => g[j] = g[j - 1] \o q[j + 1]
  <2>1. g \in [0 .. n - 1 -> V] /\ g[0] = q[1] /\ \A j \in 0 .. n - 1 : j # 0 => g[j] = t[<<j, g[j - 1]>>]
    <3>  HIDE DEF t, V
    <3>  QED
      BY <1>3 DEF SwpP!Recursive
  <2>2. ASSUME NEW j \in 0 .. n - 1, j # 0 PROVE g[j] = g[j - 1] \o q[j + 1]
    <3>1. j \in 1 .. n - 1 /\ j \in Nat /\ g[j - 1] \in V
      BY <2>1, <2>2
    <3>2. t[<<j, g[j - 1]>>] = g[j - 1] \o q[j + 1]
      <4>  HIDE DEF V
      <4>  QED
        BY <3>1
    <3>  QED
      BY <2>1, <2>2, <3>2
  <2>  QED
    BY <2>1, <2>2
<1>5. F([i \in 1 .. n |-> g[i - 1]])
  <2>  DEFINE u == [i \in 1 .. n |-> g[i - 1]]
  <2>1. ASSUME NEW i \in 1 .. n PROVE g[i - 1] = IF i = 1 THEN q[i] ELSE u[i - 1] \o q[i]
    <3>1. CASE i = 1
      BY <1>4, <3>1
    <3>2. CASE i # 1
      <4>1. i - 1 \in 1 .. n /\ i - 1 \in 0 .. n - 1 /\ i - 1 # 0 /\ (i - 1) + 1 = i
        BY <3>2
      <4>2. u[i - 1] = g[(i - 1) - 1]
        BY <4>1
      <4>  HIDE DEF u
      <4>3. g[i - 1] = g[(i - 1) - 1] \o q[(i - 1) + 1]
        BY <1>4, <4>1
      <4>  QED
        BY <3>2, <4>1, <4>2, <4>3
    <3>  QED
      BY <3>1, <3>2
  <2>  QED
    BY <2>1, Zenon
<1>6. Len(q) = n
  OBVIOUS
<1>7. PICK u : F(u) /\ Dao!FlattenSeq(q) = u[n]
  <2>1. n # 0
    OBVIOUS
  <2>  QED
    BY <1>5, <1>6, <2>1, Zenon DEF Dao!FlattenSeq
<1>8. \A i \in 1 .. n : u[i] = IF i = 1 THEN q[i] ELSE u[i - 1] \o q[i]
  BY <1>7, Zenon
<1>9. 1 \in 1 .. n /\ \A i \in 2 .. n : i \in 1 .. n /\ i # 1
  OBVIOUS
<1>10. DaoFlat(u, q, n)
  BY <1>8, <1>9, Zenon DEF DaoFlat
<1>  QED
  BY <1>7, <1>10

\* An entry twice that has no time.
LEMMA DaoSheetTwo ==
  ASSUME NEW m, NEW lo, NEW hi, NEW e \in DaoEntry, e.adr # 1
  PROVE  DaoSheet(m, <<e, e>>, lo, hi)
<1>  DEFINE s == <<e, e>>
<1>1. s \in Seq(DaoEntry) /\ Len(s) = 2 /\ s[1] = e /\ s[2] = e
  OBVIOUS
<1>  HIDE DEF s
<1>2. \A k \in 1 .. Len(s) : s[k] = e
  BY <1>1
<1>3. DaoSheet(m, s, lo, hi)
  BY <1>1, <1>2 DEF DaoSheet, DaoTimed
<1>  QED
  BY <1>3 DEF s

\* Where a track's entries begin.
DaoFrom(h, i) == IF i = 1 THEN 0 ELSE h[i - 1] + Dao!Pregap

\* The sums are below the lead-out, and those of a track are its own.
LEMMA DaoBounds ==
  ASSUME NEW m \in DaoModel, NEW h, DaoTiled(m, h), NEW i \in 1 .. Len(m.tracks)
  PROVE  LET t == m.tracks[i] IN
         /\ t \in DaoTrack /\ t.sectors \in Nat /\ t.pregap \in Nat /\ t.pregap <= t.sectors
         /\ h[i - 1] \in Nat /\ h[i] \in Nat /\ h[i] = h[i - 1] + t.sectors
         /\ t.index1 = h[i - 1] + t.pregap /\ h[i] <= m.leadout /\ m.leadout \in Nat
<1>  DEFINE n == Len(m.tracks)
<1>1. m.tracks \in Seq(DaoTrack) /\ m.leadout \in Nat
  BY DEF DaoModel
<1>2. n \in Nat /\ \A k \in 1 .. n : m.tracks[k] \in DaoTrack
  BY <1>1
<1>3. \A k \in 1 .. n : m.tracks[k].sectors \in Nat /\ m.tracks[k].pregap \in Nat
  BY <1>2 DEF DaoTrack
<1>4. DaoSums(h, m.tracks)
  BY DEF DaoTiled
<1>5. i \in 0 .. n /\ i - 1 \in 0 .. n /\ n \in 0 .. n /\ i <= n
  BY <1>2
<1>6. h[i] <= h[n]
  BY <1>2, <1>3, <1>4, <1>5, DaoSumsGrow
<1>7. h[i - 1] \in Nat /\ h[i] \in Nat /\ h[i] = h[i - 1] + m.tracks[i].sectors
  BY <1>4, <1>5 DEF DaoSums
<1>  QED
  BY <1>1, <1>2, <1>3, <1>6, <1>7 DEF DaoTiled

\* A track's entries.
LEMMA DaoTrackSheet ==
  ASSUME NEW m \in DaoModel, NEW h, DaoTiled(m, h), NEW i \in 1 .. Len(m.tracks),
         m.leadout + Dao!Pregap < 100 * Dao!Minute
  PROVE  DaoSheet(m, Dao!TrackEntries(m, i), DaoFrom(h, i), h[i] + Dao!Pregap)
<1>  DEFINE t == m.tracks[i]
            lo == DaoFrom(h, i)
            e3 == Dao!Entry(3, i, 0, 0, 0)
            e0 == Dao!Entry(1, i, 0, 0, IF i = 1 THEN 0 ELSE t.index1 - t.pregap + Dao!Pregap)
            e1 == Dao!Entry(1, i, 1, 0, t.index1 + Dao!Pregap)
            A == IF t.isrc THEN <<e3, e3>> ELSE << >>
            B == IF i = 1 \/ t.pregap > 0 THEN <<e0>> ELSE << >>
            C == <<e1>>
            mid == t.index1 + Dao!Pregap
            hi == h[i] + Dao!Pregap
<1>0. Dao!TrackEntries(m, i) = (A \o B) \o C
  BY Zenon DEF Dao!TrackEntries
<1>  HIDE DEF e3, e0, e1, A, B, C
<1>1. /\ t.pregap \in Nat /\ t.pregap <= t.sectors /\ t.sectors \in Nat
      /\ h[i - 1] \in Nat /\ h[i] \in Nat /\ h[i] = h[i - 1] + t.sectors
      /\ t.index1 = h[i - 1] + t.pregap /\ h[i] <= m.leadout /\ m.leadout \in Nat
  BY DaoBounds
<1>2. Dao!Pregap = 150 /\ i \in Int /\ 100 * Dao!Minute = 450000
  BY DEF Dao!Pregap, Dao!Minute, Dao!Second
<1>3. /\ lo \in Int /\ mid \in Int /\ hi \in Int /\ 0 <= lo /\ lo <= mid /\ mid <= hi /\ hi < 450000
      /\ lo = IF i = 1 THEN 0 ELSE t.index1 - t.pregap + Dao!Pregap
  <2>1. i = 1 => lo = 0
    BY Zenon DEF DaoFrom
  <2>2. i # 1 => lo = h[i - 1] + Dao!Pregap
    BY Zenon DEF DaoFrom
  <2>3. mid = t.index1 + Dao!Pregap /\ hi = h[i] + Dao!Pregap
    OBVIOUS
  <2>  DEFINE a == h[i - 1]
              b == h[i]
              l == m.leadout
              p == t.pregap
              x == t.index1
              y == t.sectors
  <2>  HIDE DEF t, lo, mid, hi
  <2>4. p \in Nat /\ p <= y /\ y \in Nat /\ a \in Nat /\ b \in Nat /\ b = a + y /\ x = a + p /\ b <= l /\ l \in Nat
    BY <1>1
  <2>5. l + Dao!Pregap < 100 * Dao!Minute
    OBVIOUS
  <2>6. mid = x + Dao!Pregap /\ hi = b + Dao!Pregap
    BY <2>3
  <2>  HIDE DEF a, b, l, p, x, y
  <2>7. l + 150 < 450000 /\ mid = x + 150 /\ hi = b + 150
    BY <1>2, <2>5, <2>6
  <2>8. /\ mid \in Int /\ hi \in Int /\ mid <= hi /\ hi < 450000
         /\ a + 150 \in Int /\ a + 150 <= mid /\ a + 150 = (x - p) + 150 /\ 0 <= mid /\ 0 <= a + 150
    BY <2>4, <2>7
  <2>9. /\ mid \in Int /\ hi \in Int /\ mid <= hi /\ hi < 450000
        /\ h[i - 1] + Dao!Pregap \in Int /\ h[i - 1] + Dao!Pregap <= mid
        /\ h[i - 1] + Dao!Pregap = t.index1 - t.pregap + Dao!Pregap /\ 0 <= mid /\ 0 <= h[i - 1] + Dao!Pregap
    BY <1>2, <2>8 DEF a, x, p
  <2>10. CASE i = 1
    BY <2>1, <2>9, <2>10
  <2>11. CASE i # 1
    BY <2>2, <2>9, <2>11
  <2>  QED
    BY <2>10, <2>11
<1>4. e3 \in DaoEntry /\ e3.adr = 3
  <2>1. DaoEntryOf(e3, 3, i, 0, 0)
    BY <1>2, DaoEntryIs DEF e3
  <2>  QED
    BY <2>1 DEF DaoEntryOf
<1>5. e0 \in DaoEntry /\ e0.adr = 1 /\ e0.index = 0 /\ e0.msf = lo
  <2>  DEFINE x == IF i = 1 THEN 0 ELSE t.index1 - t.pregap + Dao!Pregap
  <2>1. x \in Int /\ 0 <= x /\ x < 450000 /\ lo = x
    BY <1>2, <1>3
  <2>2. e0 = Dao!Entry(1, i, 0, 0, x)
    BY DEF e0
  <2>  HIDE DEF x, lo
  <2>3. DaoEntryOf(e0, 1, i, 0, x)
    BY <1>2, <2>1, <2>2, DaoEntryIs
  <2>  QED
    BY <2>1, <2>3 DEF DaoEntryOf
<1>6. e1 \in DaoEntry /\ e1.adr = 1 /\ e1.tno = i /\ e1.index = 1 /\ e1.msf = mid
  <2>1. mid \in Int /\ 0 <= mid /\ mid < 450000
    BY <1>2, <1>3
  <2>2. e1 = Dao!Entry(1, i, 1, 0, mid)
    BY DEF e1
  <2>  HIDE DEF mid
  <2>3. DaoEntryOf(e1, 1, i, 1, mid)
    BY <1>2, <2>1, <2>2, DaoEntryIs
  <2>  QED
    BY <2>1, <2>3 DEF DaoEntryOf
<1>  HIDE DEF lo, hi, mid
<1>7. DaoSheet(m, A, lo, lo)
  <2>1. DaoSheet(m, <<e3, e3>>, lo, lo)
    BY <1>4, DaoSheetTwo
  <2>2. DaoSheet(m, << >>, lo, lo)
    BY DaoSheetNone
  <2>3. A = <<e3, e3>> \/ A = << >>
    BY DEF A
  <2>  QED
    BY <2>1, <2>2, <2>3
<1>8. DaoSheet(m, B, lo, mid)
  <2>1. DaoSheet(m, <<e0>>, lo, mid)
    BY <1>3, <1>5, DaoSheetOne
  <2>2. DaoSheet(m, << >>, lo, mid)
    BY DaoSheetNone
  <2>3. B = <<e0>> \/ B = << >>
    BY DEF B
  <2>  QED
    BY <2>1, <2>2, <2>3
<1>9. DaoSheet(m, C, mid, hi)
  <2>1. e1.adr = 1 /\ e1.index = 1 /\ e1.tno \in 1 .. Len(m.tracks) => e1.msf = m.tracks[e1.tno].index1 + Dao!Pregap
    BY <1>6 DEF mid
  <2>  QED
    BY <1>3, <1>6, <2>1, DaoSheetOne DEF C
<1>  HIDE DEF t
<1>10. DaoSheet(m, A \o B, lo, mid)
  BY <1>3, <1>7, <1>8, DaoSheetJoin
<1>11. DaoSheet(m, (A \o B) \o C, lo, hi)
  BY <1>3, <1>9, <1>10, DaoSheetJoin
<1>  QED
  BY <1>0, <1>11 DEF lo, hi

\* The whole cue sheet, which ends with the lead-out.
DaoCue(m, s) ==
  /\ DaoSheet(m, s, 0, m.leadout + Dao!Pregap) /\ Len(s) > 0
  /\ s[Len(s)].adr = 1 /\ s[Len(s)].tno = Dao!LeadOutTrack /\ s[Len(s)].msf = m.leadout + Dao!Pregap

LEMMA DaoEntriesAre ==
  ASSUME NEW m \in DaoModel, NEW h, DaoTiled(m, h), m.tracks # << >>, Len(m.tracks) <= 99,
         m.leadout + Dao!Pregap < 100 * Dao!Minute, NEW text, NEW start \in Int
  PROVE  DaoCue(m, Dao!Entries(m, text, start))
<1>  DEFINE n == Len(m.tracks)
            e2 == Dao!Entry(2, 0, 0, 0, 0)
            el == Dao!LeadInEntry(text, start)
            eo == Dao!Entry(1, Dao!LeadOutTrack, 1, Dao!Generated, m.leadout + Dao!Pregap)
            A == IF m.mcn THEN <<e2, e2>> ELSE << >>
            q == [i \in DOMAIN m.tracks |-> Dao!TrackEntries(m, i)]
            last == m.leadout + Dao!Pregap
<1>0. Dao!Entries(m, text, start) = ((A \o <<el>>) \o Dao!FlattenSeq(q)) \o <<eo>>
  BY Zenon DEF Dao!Entries
<1>  HIDE DEF e2, el, eo, A, q
<1>1. m.tracks \in Seq(DaoTrack) /\ n \in Nat /\ n > 0 /\ DOMAIN m.tracks = 1 .. n /\ m.leadout \in Nat
  BY DEF DaoModel
<1>2. Dao!Pregap = 150 /\ 100 * Dao!Minute = 450000 /\ Dao!LeadOutTrack = 170 /\ Dao!Generated = 1 /\ Dao!WithPW = 65
  BY DEF Dao!Pregap, Dao!Minute, Dao!Second, Dao!LeadOutTrack, Dao!Generated, Dao!WithPW
<1>3. \A i \in 1 .. n : h[i] \in Nat /\ h[i] <= m.leadout
  BY DaoBounds
<1>4. e2 \in DaoEntry /\ e2.adr = 2
  <2>1. DaoEntryOf(e2, 2, 0, 0, 0)
    BY DaoEntryIs DEF e2
  <2>  QED
    BY <2>1 DEF DaoEntryOf
<1>5. el \in DaoEntry /\ el.tno = 0
  <2>1. el = Dao!Entry(1, 0, 0, Dao!WithPW, start) \/ el = Dao!Entry(1, 0, 0, Dao!Generated, 0)
    BY DEF el, Dao!LeadInEntry
  <2>2. DaoEntryOf(el, 1, 0, 0, start) \/ DaoEntryOf(el, 1, 0, 0, 0)
    BY <1>2, <2>1, DaoEntryIs
  <2>  QED
    BY <2>2 DEF DaoEntryOf
<1>6. eo \in DaoEntry /\ eo.adr = 1 /\ eo.tno = 170 /\ eo.msf = last
  <2>1. last \in Int /\ 0 <= last /\ last < 450000
    BY <1>1, <1>2
  <2>2. eo = Dao!Entry(1, 170, 1, 1, last)
    BY <1>2 DEF eo
  <2>  HIDE DEF last
  <2>3. DaoEntryOf(Dao!Entry(1, 170, 1, 1, last), 1, 170, 1, last)
    BY <2>1, DaoEntryIs
  <2>  QED
    BY <2>1, <2>2, <2>3 DEF DaoEntryOf
<1>7. last \in Int /\ 0 <= last
  BY <1>1, <1>2
<1>8. \A i \in 1 .. n : q[i] = Dao!TrackEntries(m, i) /\ DaoSheet(m, q[i], DaoFrom(h, i), h[i] + Dao!Pregap)
  <2>1. \A i \in 1 .. n : q[i] = Dao!TrackEntries(m, i)
    BY <1>1 DEF q
  <2>  QED
    BY <2>1, DaoTrackSheet
<1>9. q \in [1 .. n -> Seq(DaoEntry)]
  <2>1. \A i \in 1 .. n : q[i] \in Seq(DaoEntry)
    BY <1>8 DEF DaoSheet
  <2>2. q = [i \in 1 .. n |-> q[i]]
    BY <1>1 DEF q
  <2>  QED
    BY <2>1, <2>2
<1>  HIDE DEF last, n
<1>10. PICK g : DaoFlat(g, q, n) /\ Dao!FlattenSeq(q) = g[n]
  BY <1>1, <1>9, DaoFlatten
<1>11. \A j \in 0 .. n - 1 : DaoSheet(m, g[j + 1], 0, h[j + 1] + Dao!Pregap)
  <2>  DEFINE D == {j \in 0 .. n - 1 : DaoSheet(m, g[j + 1], 0, h[j + 1] + Dao!Pregap)}
  <2>1. 0 \in D
    <3>1. 1 \in 1 .. n /\ DaoFrom(h, 1) = 0 /\ g[1] = q[1] /\ 0 \in 0 .. n - 1 /\ 0 + 1 = 1
      BY <1>1, <1>10 DEF DaoFrom, DaoFlat
    <3>2. DaoSheet(m, g[1], 0, h[1] + Dao!Pregap)
      BY <1>8, <3>1
    <3>  QED
      BY <3>1, <3>2
  <2>2. ASSUME NEW j \in 0 .. (n - 1) - 1, j \in D PROVE j + 1 \in D
    <3>  DEFINE i == (j + 1) + 1
    <3>1. i \in 2 .. n /\ i \in 1 .. n /\ i # 1 /\ i - 1 = j + 1 /\ j + 1 \in 1 .. n /\ j + 1 \in 0 .. n - 1
      BY <1>1, <2>2
    <3>2. DaoSheet(m, g[j + 1], 0, h[j + 1] + Dao!Pregap)
      BY <2>2
    <3>  HIDE DEF i
    <3>3. g[i] = g[j + 1] \o q[i]
      BY <1>10, <3>1 DEF DaoFlat
    <3>4. DaoSheet(m, q[i], h[j + 1] + Dao!Pregap, h[i] + Dao!Pregap)
      BY <1>8, <3>1 DEF DaoFrom
    <3>5. h[j + 1] \in Nat /\ h[i] \in Nat /\ h[j + 1] <= h[i]
      <4>1. h[i] = h[i - 1] + m.tracks[i].sectors /\ m.tracks[i].sectors \in Nat
        BY <3>1, DaoBounds DEF n
      <4>  QED
        BY <1>3, <3>1, <4>1
    <3>6. DaoSheet(m, g[i], 0, h[i] + Dao!Pregap)
      <4>1. 0 \in Int /\ h[j + 1] + Dao!Pregap \in Int /\ h[i] + Dao!Pregap \in Int
            /\ 0 <= h[j + 1] + Dao!Pregap /\ h[j + 1] + Dao!Pregap <= h[i] + Dao!Pregap
        BY <1>2, <3>5
      <4>2. DaoSheet(m, g[j + 1] \o q[i], 0, h[i] + Dao!Pregap)
        BY <3>2, <3>4, <4>1, DaoSheetJoin
      <4>  QED
        BY <3>3, <4>2
    <3>  QED
      BY <3>1, <3>6 DEF i
  <2>3. \A j \in 0 .. n - 1 : j \in D
    <3>1. n - 1 \in Nat
      BY <1>1
    <3>  HIDE DEF D
    <3>  QED
      BY <2>1, <2>2, <3>1, DaoUpTo
  <2>  QED
    BY <2>3
<1>12. DaoSheet(m, g[n], 0, last)
  <2>1. n - 1 \in 0 .. n - 1 /\ (n - 1) + 1 = n /\ n \in 1 .. n
    BY <1>1
  <2>2. DaoSheet(m, g[n], 0, h[n] + Dao!Pregap)
    BY <1>11, <2>1
  <2>3. h[n] = m.leadout
    BY DEF DaoTiled, n
  <2>  QED
    BY <2>2, <2>3 DEF last
<1>13. DaoSheet(m, A \o <<el>>, 0, 0)
  <2>1. DaoSheet(m, A, 0, 0)
    <3>1. DaoSheet(m, <<e2, e2>>, 0, 0)
      BY <1>4, DaoSheetTwo
    <3>2. DaoSheet(m, << >>, 0, 0)
      BY DaoSheetNone
    <3>3. A = <<e2, e2>> \/ A = << >>
      BY DEF A
    <3>  QED
      BY <3>1, <3>2, <3>3
  <2>2. DaoSheet(m, <<el>>, 0, 0)
    <3>1. ~ DaoTimed(el) /\ el.tno \notin 1 .. Len(m.tracks)
      BY <1>5 DEF DaoTimed
    <3>  QED
      BY <1>5, <3>1, DaoSheetOne
  <2>  QED
    BY <2>1, <2>2, DaoSheetJoin
<1>14. DaoSheet(m, <<eo>>, last, last)
  <2>1. eo.tno \notin 1 .. Len(m.tracks)
    BY <1>1, <1>6
  <2>2. last <= eo.msf /\ eo.msf <= last
    BY <1>6, <1>7
  <2>  QED
    BY <1>6, <1>7, <2>1, <2>2, DaoSheetOne
<1>15. DaoSheet(m, (A \o <<el>>) \o g[n], 0, last)
  BY <1>7, <1>12, <1>13, DaoSheetJoin
<1>  DEFINE b == (A \o <<el>>) \o g[n]
            s == b \o <<eo>>
<1>  HIDE DEF b
<1>16. DaoSheet(m, b, 0, last)
  BY <1>15 DEF b
<1>17. DaoSheet(m, s, 0, last)
  BY <1>7, <1>14, <1>16, DaoSheetJoin
<1>18. Len(s) > 0 /\ s[Len(s)] = eo
  <2>1. b \in Seq(DaoEntry)
    BY <1>16 DEF DaoSheet
  <2>  QED
    BY <1>6, <2>1
<1>19. s = Dao!Entries(m, text, start)
  BY <1>0, <1>10 DEF b
<1>  HIDE DEF s
<1>20. DaoCue(m, s)
  BY <1>2, <1>6, <1>17, <1>18 DEF DaoCue, last
<1>  QED
  BY <1>19, <1>20

------------------------------------------------------------------------------
(* What is heard.                                                              *)

\* A frame of a track.
DaoIn(m, h, i, frame) ==
  i \in 1 .. Len(m.tracks) /\ h[i - 1] + Dao!Pregap <= frame /\ frame < h[i] + Dao!Pregap

\* What is heard at a frame is the tracks it is of.
LEMMA DaoHeardIs ==
  ASSUME NEW h, r2 \in DaoModel, DaoTiled(r2, h), NEW frame \in Int
  PROVE  Dao!Heard(frame) =
           {<<i, r2.tracks[i].offset + (frame - Dao!Pregap - h[i - 1]) * LayoutSector>> :
              i \in {i \in 1 .. Len(r2.tracks) : DaoIn(r2, h, i, frame)}}
<1>1. r2.tracks \in Seq(DaoTrack)
  BY DEF DaoModel
<1>2. DOMAIN r2.tracks = 1 .. Len(r2.tracks)
  BY <1>1
<1>3. \A i \in 1 .. Len(r2.tracks) :
        /\ Dao!Before(r2.tracks, i) = h[i - 1] /\ h[i] = h[i - 1] + r2.tracks[i].sectors
        /\ h[i - 1] \in Int /\ r2.tracks[i].sectors \in Int
  <2>1. \A i \in 1 .. Len(r2.tracks) : Dao!Before(r2.tracks, i) = h[i - 1]
    BY DEF DaoTiled
  <2>  QED
    BY <2>1, DaoBounds
<1>4. \A i \in 1 .. Len(r2.tracks) :
        DaoIn(r2, h, i, frame) <=>
          /\ Dao!Before(r2.tracks, i) + Dao!Pregap <= frame
          /\ frame < Dao!Before(r2.tracks, i) + Dao!Pregap + r2.tracks[i].sectors
  BY <1>3 DEF DaoIn, Dao!Pregap
<1>5. {i \in DOMAIN r2.tracks :
         /\ Dao!Before(r2.tracks, i) + Dao!Pregap <= frame
         /\ frame < Dao!Before(r2.tracks, i) + Dao!Pregap + r2.tracks[i].sectors} =
      {i \in 1 .. Len(r2.tracks) : DaoIn(r2, h, i, frame)}
  BY <1>2, <1>4, Zenon
<1>  DEFINE I == {i \in 1 .. Len(r2.tracks) : DaoIn(r2, h, i, frame)}
<1>6. Dao!Heard(frame) =
        {<<i, r2.tracks[i].offset + (frame - Dao!Pregap - Dao!Before(r2.tracks, i)) * LayoutSector>> : i \in I}
  BY <1>5, Zenon DEF Dao!Heard
<1>7. \A i \in I : Dao!Before(r2.tracks, i) = h[i - 1]
  BY <1>3
<1>  HIDE DEF I
<1>8. Dao!Heard(frame) =
        {<<i, r2.tracks[i].offset + (frame - Dao!Pregap - h[i - 1]) * LayoutSector>> : i \in I}
  BY <1>6, <1>7
<1>  QED
  BY <1>8 DEF I

\* No frame is of two tracks.
LEMMA DaoApart ==
  ASSUME NEW m \in DaoModel, NEW h, DaoTiled(m, h), NEW frame \in Int, NEW i, NEW j,
         DaoIn(m, h, i, frame), DaoIn(m, h, j, frame)
  PROVE  i = j
<1>  DEFINE n == Len(m.tracks)
<1>1. m.tracks \in Seq(DaoTrack) /\ n \in Nat
  BY DEF DaoModel
<1>2. \A k \in 1 .. n : m.tracks[k].sectors \in Nat /\ h[k] \in Nat /\ h[k - 1] \in Nat
  BY DaoBounds
<1>3. i \in 1 .. n /\ j \in 1 .. n
  BY DEF DaoIn
<1>4. \A k \in 0 .. n : \A l \in 0 .. n : k <= l => h[k] <= h[l]
  BY <1>1, <1>2, DaoSumsGrow DEF DaoTiled
<1>5. ASSUME NEW k \in 1 .. n, NEW l \in 1 .. n, k < l, DaoIn(m, h, k, frame), DaoIn(m, h, l, frame) PROVE FALSE
  <2>1. k \in 0 .. n /\ l - 1 \in 0 .. n /\ k <= l - 1
    BY <1>1, <1>5
  <2>2. h[k] <= h[l - 1]
    BY <1>4, <2>1
  <2>3. frame < h[k] + Dao!Pregap /\ h[l - 1] + Dao!Pregap <= frame
    BY <1>5 DEF DaoIn
  <2>4. h[k] \in Nat /\ h[l - 1] \in Nat /\ Dao!Pregap = 150
    BY <1>2 DEF Dao!Pregap
  <2>  QED
    BY <2>2, <2>3, <2>4
<1>6. i < j \/ j < i \/ i = j
  BY <1>1, <1>3
<1>  QED
  BY <1>3, <1>5, <1>6

\* Some track is before the lead-out, if any is longer than nothing; none is at it.
LEMMA DaoFilled ==
  ASSUME NEW m \in DaoModel, NEW h, DaoTiled(m, h)
  PROVE  /\ \A i : ~ DaoIn(m, h, i, m.leadout + Dao!Pregap)
         /\ m.leadout > 0 => \E i : DaoIn(m, h, i, m.leadout + Dao!Pregap - 1)
<1>  DEFINE n == Len(m.tracks)
            top == m.leadout
<1>1. m.tracks \in Seq(DaoTrack) /\ n \in Nat /\ top \in Nat /\ Dao!Pregap = 150
  BY DEF DaoModel, Dao!Pregap
<1>2. \A i \in 1 .. n : h[i] \in Nat /\ h[i] <= top /\ h[i - 1] \in Nat
  BY DaoBounds
<1>3. \A i : ~ DaoIn(m, h, i, top + Dao!Pregap)
  BY <1>1, <1>2 DEF DaoIn
<1>4. ASSUME top > 0 PROVE \E i : DaoIn(m, h, i, top + Dao!Pregap - 1)
  <2>  DEFINE I == {i \in 0 .. n : h[i] >= top}
  <2>1. h[0] = 0 /\ h[n] = top
    BY DEF DaoTiled, DaoSums
  <2>2. n \in I /\ I \in SUBSET Nat
    BY <1>1, <2>1
  <2>3. PICK i \in I : \A k \in I : i <= k
    <3>  HIDE DEF I
    <3>  QED
      BY <2>2, SwpP!LeastNatural
  <2>4. i \in 1 .. n /\ i - 1 \in 0 .. n
    BY <1>1, <1>4, <2>1, <2>3
  <2>5. i - 1 \notin I
    BY <2>3, <2>4
  <2>6. h[i] >= top /\ ~(h[i - 1] >= top)
    BY <2>3, <2>4, <2>5
  <2>7. h[i - 1] + Dao!Pregap <= top + Dao!Pregap - 1 /\ top + Dao!Pregap - 1 < h[i] + Dao!Pregap
    BY <1>1, <1>2, <2>4, <2>6
  <2>  QED
    BY <2>4, <2>7 DEF DaoIn
<1>  QED
  BY <1>3, <1>4

\* The last of the lines of a track with a keyword.
LEMMA DaoSaidIs ==
  ASSUME r1 \in Seq(Dao!Line), NEW i, NEW kws
  PROVE  \/ Dao!Said(i, kws) = {} /\ \A j \in 1 .. Len(r1) : r1[j].kw \in kws => DaoTrackOf(r1, j) # i
         \/ \E j \in 1 .. Len(r1) :
              DaoTrackOf(r1, j) = i /\ DaoLast(r1, Len(r1), j, kws) /\ Dao!Said(i, kws) = {r1[j]}
<1>  DEFINE those == {j \in Dao!LinesOf(i) : r1[j].kw \in kws}
<1>1. Len(r1) \in Nat /\ DOMAIN r1 = 1 .. Len(r1)
  OBVIOUS
<1>2. Dao!LinesOf(i) = {j \in DOMAIN r1 : DaoTrackOf(r1, j) = i}
  BY Zenon DEF Dao!LinesOf, DaoTrackOf
<1>3. \A j : j \in those <=> j \in 1 .. Len(r1) /\ DaoTrackOf(r1, j) = i /\ r1[j].kw \in kws
  BY <1>1, <1>2
<1>4. Dao!Said(i, kws) = IF those = {} THEN {} ELSE {r1[Dao!Max(those)]}
  BY Zenon DEF Dao!Said
<1>  HIDE DEF those
<1>5. CASE those = {}
  BY <1>3, <1>4, <1>5
<1>6. CASE those # {}
  <2>  DEFINE j == Dao!Max(those)
  <2>1. those \in SUBSET (1 .. Len(r1))
    BY <1>3
  <2>2. j \in those /\ j \in 1 .. Len(r1) /\ \A y \in those : y <= j
    BY <1>1, <1>6, <2>1, DaoGreatest
  <2>3. Dao!Said(i, kws) = {r1[j]}
    BY <1>4, <1>6
  <2>  HIDE DEF j
  <2>4. DaoTrackOf(r1, j) = i /\ r1[j].kw \in kws
    BY <1>3, <2>2
  <2>5. ASSUME NEW l \in 1 .. Len(r1), l > j, r1[l].kw \in kws PROVE DaoTrackOf(r1, l) # DaoTrackOf(r1, j)
    <3>1. l \notin those
      BY <1>1, <2>2, <2>5
    <3>  QED
      BY <1>3, <2>4, <2>5, <3>1
  <2>6. DaoLast(r1, Len(r1), j, kws)
    BY <2>2, <2>4, <2>5 DEF DaoLast
  <2>  QED
    BY <2>2, <2>3, <2>4, <2>6
<1>  QED
  BY <1>5, <1>6

------------------------------------------------------------------------------
(* The invariant of DaoLayout.                                                 *)

DaoInv ==
  /\ r1 \in Seq(Dao!Line) /\ r3 \in Int /\ DaoLaid(r1, r2)
  /\ r5.ok => r2.ok /\ r5.entries = Dao!Entries(r2, r4, r3)

\* The longer of a length and nothing.
LEMMA DaoLonger == \A x \in Int : Dao!Max({x, 0}) = IF x > 0 THEN x ELSE 0
<1>1. SUFFICES ASSUME NEW x \in Int PROVE Dao!Max({x, 0}) = IF x > 0 THEN x ELSE 0
  OBVIOUS
<1>  DEFINE y == IF x > 0 THEN x ELSE 0
<1>2. y \in {x, 0} /\ \A z \in {x, 0} : y >= z
  OBVIOUS
<1>3. Dao!Max({x, 0}) = CHOOSE k \in {x, 0} : \A z \in {x, 0} : k >= z
  BY Zenon DEF Dao!Max
<1>4. Dao!Max({x, 0}) \in {x, 0} /\ \A z \in {x, 0} : Dao!Max({x, 0}) >= z
  BY <1>2, <1>3
<1>5. Dao!Max({x, 0}) >= x /\ Dao!Max({x, 0}) >= 0 /\ (Dao!Max({x, 0}) = x \/ Dao!Max({x, 0}) = 0)
  BY <1>4
<1>  QED
  BY <1>5

\* INDEX 1 is in its track, if the pregap is not all of it.
LEMMA DaoFrameOf ==
  \A a, y, p \in Nat : p < y =>
    /\ (a + p) + Dao!Pregap \in Int /\ ((a + p) + Dao!Pregap) - Dao!Pregap - a = p
    /\ a + Dao!Pregap <= (a + p) + Dao!Pregap /\ (a + p) + Dao!Pregap < (a + y) + Dao!Pregap
  BY DEF Dao!Pregap

\* A frame of a track is heard.
LEMMA DaoHeardOf ==
  ASSUME NEW h, r2 \in DaoModel, DaoTiled(r2, h), NEW frame \in Int, NEW i, DaoIn(r2, h, i, frame)
  PROVE  Dao!Heard(frame) # {}
<1>  DEFINE I == {k \in 1 .. Len(r2.tracks) : DaoIn(r2, h, k, frame)}
            F(k) == <<k, r2.tracks[k].offset + (frame - Dao!Pregap - h[k - 1]) * LayoutSector>>
<1>1. Dao!Heard(frame) = {F(k) : k \in I}
  BY DaoHeardIs, Zenon
<1>2. i \in I
  BY DEF DaoIn
<1>  HIDE DEF F, I
<1>  QED
  BY <1>1, <1>2

\* Where the cue sheet has INDEX 1 of a track, its first byte is heard.
LEMMA DaoFirstByte ==
  ASSUME Dao!SizesAssumption, r1 \in Seq(Dao!Line), DaoLaid(r1, r2), r2.ok, NEW i \in 1 .. Len(r2.tracks),
         NEW f \in Dao!Said(i, {"FILE", "AUDIOFILE"}), NEW g, g = {l.len : l \in Dao!Said(i, {"START"})},
         NEW pregap, pregap = IF g = {} THEN 0 ELSE Dao!Max(g \cup {0}), f.len > pregap,
         NEW start, start = IF f.unit = "bytes" THEN f.start ELSE f.start * LayoutSector
  PROVE  Dao!Heard(r2.tracks[i].index1 + Dao!Pregap) = {<<i, start + pregap * LayoutSector>>}
<1>  DEFINE t == r2.tracks[i]
            n == Len(r1)
            frame == t.index1 + Dao!Pregap
<1>0. /\ r2 \in DaoModel /\ DaoSaid(r1, r2.tracks, n) /\ n \in Nat
      /\ \A j \in 1 .. n : r1[j] \in Dao!Line
  BY DEF DaoLaid
<1>1. PICK h : DaoTiled(r2, h)
  BY DEF DaoLaid
<1>2. /\ t \in DaoTrack /\ t.sectors \in Nat /\ t.pregap \in Nat /\ t.pregap <= t.sectors
      /\ h[i - 1] \in Nat /\ h[i] \in Nat /\ h[i] = h[i - 1] + t.sectors /\ t.index1 = h[i - 1] + t.pregap
  BY <1>0, <1>1, DaoBounds
<1>3. i \in Nat /\ i >= 1 /\ LayoutSector \in Nat /\ Dao!Pregap = 150
  <2>1. LayoutSector \in Nat
    BY DEF Dao!SizesAssumption
  <2>  QED
    BY <2>1 DEF Dao!Pregap
<1>4. t.offset = start /\ t.sectors = f.len
  <2>1. PICK j \in 1 .. n : DaoTrackOf(r1, j) = i /\ DaoLast(r1, n, j, DaoFile) /\ f = r1[j]
    BY DaoSaidIs DEF DaoFile
  <2>2. t.offset = Dao!FileStart(r1[j]) /\ t.sectors = r1[j].len
    BY <1>0, <1>3, <2>1 DEF DaoSaid
  <2>3. Dao!FileStart(r1[j]) = start
    BY <2>1, Zenon DEF Dao!FileStart
  <2>  QED
    BY <2>1, <2>2, <2>3
<1>5. t.pregap = pregap
  <2>1. CASE Dao!Said(i, {"START"}) = {} /\ \A j \in 1 .. n : r1[j].kw \in {"START"} => DaoTrackOf(r1, j) # i
    <3>1. t.pregap = 0
      BY <1>0, <2>1 DEF DaoSaid
    <3>2. g = {}
      BY <2>1
    <3>  QED
      BY <3>1, <3>2
  <2>2. ASSUME NEW j \in 1 .. n, DaoTrackOf(r1, j) = i, DaoLast(r1, n, j, {"START"}),
               Dao!Said(i, {"START"}) = {r1[j]}
        PROVE  t.pregap = pregap
    <3>  DEFINE x == r1[j].len
    <3>1. t.pregap = IF x > 0 THEN x ELSE 0
      BY <1>0, <1>3, <2>2 DEF DaoSaid
    <3>2. g = {x}
      BY <2>2
    <3>3. x \in Int
      <4>1. r1[j] \in Dao!Line
        BY <1>0
      <4>  QED
        BY <4>1 DEF Dao!Line
    <3>4. pregap = Dao!Max({x, 0})
      BY <3>2
    <3>  HIDE DEF x
    <3>5. Dao!Max({x, 0}) = IF x > 0 THEN x ELSE 0
      BY <3>3, DaoLonger
    <3>  QED
      BY <3>1, <3>4, <3>5, Zenon
  <2>  QED
    BY <2>1, <2>2, DaoSaidIs
<1>  HIDE DEF t
<1>6. frame \in Int /\ frame - Dao!Pregap - h[i - 1] = pregap /\ DaoIn(r2, h, i, frame)
  <2>1. t.pregap < t.sectors
    BY <1>4, <1>5, Zenon
  <2>2. /\ frame \in Int /\ frame - Dao!Pregap - h[i - 1] = t.pregap
        /\ h[i - 1] + Dao!Pregap <= frame /\ frame < h[i] + Dao!Pregap
    <3>  DEFINE a == h[i - 1]
                b == h[i]
                y == t.sectors
                q == t.pregap
                x == t.index1
    <3>1. a \in Nat /\ y \in Nat /\ q \in Nat /\ b = a + y /\ x = a + q /\ q < y
      BY <1>2, <2>1, Zenon
    <3>  HIDE DEF a, b, y, q, x
    <3>2. /\ (a + q) + Dao!Pregap \in Int /\ ((a + q) + Dao!Pregap) - Dao!Pregap - a = q
          /\ a + Dao!Pregap <= (a + q) + Dao!Pregap /\ (a + q) + Dao!Pregap < (a + y) + Dao!Pregap
      BY <3>1, DaoFrameOf, Zenon
    <3>3. /\ x + Dao!Pregap \in Int /\ (x + Dao!Pregap) - Dao!Pregap - a = q
          /\ a + Dao!Pregap <= x + Dao!Pregap /\ x + Dao!Pregap < b + Dao!Pregap
      BY <3>1, <3>2, Zenon
    <3>  QED
      BY <3>3 DEF a, b, x, q
  <2>  HIDE DEF frame
  <2>  QED
    BY <1>5, <2>2, Zenon DEF DaoIn
<1>  HIDE DEF frame
<1>7. {k \in 1 .. Len(r2.tracks) : DaoIn(r2, h, k, frame)} = {i}
  BY <1>0, <1>1, <1>6, DaoApart
<1>8. Dao!Heard(frame) =
        {<<k, r2.tracks[k].offset + (frame - Dao!Pregap - h[k - 1]) * LayoutSector>> : k \in {i}}
  BY <1>0, <1>1, <1>6, <1>7, DaoHeardIs
<1>9. Dao!Heard(frame) = {<<i, r2.tracks[i].offset + (frame - Dao!Pregap - h[i - 1]) * LayoutSector>>}
  BY <1>8
<1>  QED
  BY <1>4, <1>6, <1>9 DEF t, frame

\* The cue sheet's last time is the lead-out's.
LEMMA DaoLastTimed ==
  ASSUME NEW m, NEW s, DaoCue(m, s)
  PROVE  LET timed == {k \in DOMAIN s : s[k].adr = 1 /\ s[k].tno # 0} IN
         /\ \A k : k \in timed <=> k \in 1 .. Len(s) /\ DaoTimed(s[k])
         /\ Dao!Max(timed) = Len(s)
<1>  DEFINE timed == {k \in DOMAIN s : s[k].adr = 1 /\ s[k].tno # 0}
            n == Len(s)
<1>1. s \in Seq(DaoEntry)
  BY DEF DaoCue, DaoSheet
<1>2. n \in Nat /\ DOMAIN s = 1 .. n /\ n > 0
  BY <1>1 DEF DaoCue
<1>3. \A k : k \in timed <=> k \in 1 .. n /\ DaoTimed(s[k])
  BY <1>2 DEF DaoTimed
<1>4. n \in timed
  BY <1>2, <1>3 DEF DaoCue, DaoTimed, Dao!LeadOutTrack
<1>5. timed \in SUBSET (1 .. n) /\ timed # {}
  BY <1>3, <1>4
<1>  HIDE DEF timed
<1>6. Dao!Max(timed) \in 1 .. n /\ \A y \in timed : y <= Dao!Max(timed)
  BY <1>2, <1>5, DaoGreatest
<1>7. Dao!Max(timed) = n
  BY <1>2, <1>4, <1>6
<1>  QED
  BY <1>3, <1>7 DEF timed

\* The invariant says that the cue sheet is what is written.
LEMMA DaoInvIsWritten == ASSUME Dao!SizesAssumption, DaoInv PROVE Dao!CueIsWhatIsWritten
<1>  DEFINE s == r5.entries
            timed == {k \in DOMAIN s : s[k].adr = 1 /\ s[k].tno # 0}
            last == s[Dao!Max(timed)]
<1>1. SUFFICES ASSUME r5.ok, r2.leadout + Dao!Pregap < 100 * Dao!Minute
      PROVE  /\ \A e \in Dao!Range(s) : e.adr = 1 /\ e.index = 1 /\ e.tno \in DOMAIN r2.tracks =>
                  \A f \in Dao!Said(e.tno, {"FILE", "AUDIOFILE"}) :
                    LET g == {l.len : l \in Dao!Said(e.tno, {"START"})}
                        pregap == IF g = {} THEN 0 ELSE Dao!Max(g \cup {0})
                        start == IF f.unit = "bytes" THEN f.start ELSE f.start * LayoutSector
                    IN  f.len > pregap => Dao!Heard(e.msf) = {<<e.tno, start + pregap * LayoutSector>>}
             /\ \A j, k \in timed : j < k => s[j].msf <= s[k].msf
             /\ Dao!Heard(last.msf) = {}
             /\ r2.leadout > 0 => Dao!Heard(last.msf - 1) # {}
  BY Zenon DEF Dao!CueIsWhatIsWritten
<1>2. /\ r2.ok /\ s = Dao!Entries(r2, r4, r3) /\ r2 \in DaoModel /\ r2.tracks # << >>
      /\ r1 \in Seq(Dao!Line) /\ DaoLaid(r1, r2) /\ r3 \in Int /\ DaoSaid(r1, r2.tracks, Len(r1))
  BY <1>1 DEF DaoInv, DaoLaid
<1>3. PICK h : DaoTiled(r2, h)
  BY <1>2 DEF DaoLaid
<1>4. Len(r2.tracks) <= 99 /\ DOMAIN r2.tracks = 1 .. Len(r2.tracks) /\ r2.leadout \in Nat
  <2>1. LayoutTracks \in 1 .. 99
    BY DEF Dao!SizesAssumption
  <2>2. r2.tracks \in Seq(DaoTrack) /\ r2.leadout \in Nat
    BY <1>2 DEF DaoModel
  <2>3. Len(r2.tracks) <= LayoutTracks /\ Len(r2.tracks) \in Nat
    BY <1>2, <2>2 DEF DaoSaid
  <2>  QED
    BY <2>1, <2>2, <2>3
<1>5. DaoCue(r2, s)
  BY <1>1, <1>2, <1>3, <1>4, DaoEntriesAre
<1>6. DaoSheet(r2, s, 0, r2.leadout + Dao!Pregap) /\ s \in Seq(DaoEntry)
  BY <1>5 DEF DaoCue, DaoSheet
<1>  HIDE DEF s
<1>7. \A e \in Dao!Range(s) : \E k \in 1 .. Len(s) : e = s[k]
  <2>1. DOMAIN s = 1 .. Len(s)
    BY <1>6
  <2>2. Dao!Range(s) = {s[x] : x \in DOMAIN s}
    BY Zenon DEF Dao!Range
  <2>  QED
    BY <2>1, <2>2
<1>8. ASSUME NEW e \in Dao!Range(s), e.adr = 1, e.index = 1, e.tno \in DOMAIN r2.tracks,
             NEW f \in Dao!Said(e.tno, {"FILE", "AUDIOFILE"}), NEW g, g = {l.len : l \in Dao!Said(e.tno, {"START"})},
             NEW pregap, pregap = IF g = {} THEN 0 ELSE Dao!Max(g \cup {0}),
             NEW start, start = IF f.unit = "bytes" THEN f.start ELSE f.start * LayoutSector,
             f.len > pregap
      PROVE  Dao!Heard(e.msf) = {<<e.tno, start + pregap * LayoutSector>>}
  <2>1. PICK k \in 1 .. Len(s) : e = s[k]
    BY <1>7
  <2>2. e.tno \in 1 .. Len(r2.tracks)
    BY <1>4, <1>8
  <2>3. e.msf = r2.tracks[e.tno].index1 + Dao!Pregap
    BY <1>6, <1>8, <2>1, <2>2 DEF DaoSheet
  <2>4. Dao!Heard(r2.tracks[e.tno].index1 + Dao!Pregap) = {<<e.tno, start + pregap * LayoutSector>>}
    BY <1>2, <1>8, <2>2, DaoFirstByte
  <2>  QED
    BY <2>3, <2>4
<1>9. \A e \in Dao!Range(s) : e.adr = 1 /\ e.index = 1 /\ e.tno \in DOMAIN r2.tracks =>
        \A f \in Dao!Said(e.tno, {"FILE", "AUDIOFILE"}) :
          LET g == {l.len : l \in Dao!Said(e.tno, {"START"})}
              pregap == IF g = {} THEN 0 ELSE Dao!Max(g \cup {0})
              start == IF f.unit = "bytes" THEN f.start ELSE f.start * LayoutSector
          IN  f.len > pregap => Dao!Heard(e.msf) = {<<e.tno, start + pregap * LayoutSector>>}
  BY <1>8, Zenon
<1>10. (\A k : k \in timed <=> k \in 1 .. Len(s) /\ DaoTimed(s[k])) /\ Dao!Max(timed) = Len(s)
  BY <1>5, DaoLastTimed
<1>  HIDE DEF timed
<1>11. \A j, k \in timed : j < k => s[j].msf <= s[k].msf
  BY <1>6, <1>10 DEF DaoSheet
<1>12. last.msf = r2.leadout + Dao!Pregap
  BY <1>5, <1>10 DEF DaoCue
<1>  HIDE DEF last
<1>13. last.msf \in Int /\ last.msf - 1 \in Int /\ last.msf - 1 = r2.leadout + Dao!Pregap - 1
  BY <1>4, <1>12 DEF Dao!Pregap
<1>14. Dao!Heard(last.msf) = {}
  <2>1. {i \in 1 .. Len(r2.tracks) : DaoIn(r2, h, i, last.msf)} = {}
    BY <1>2, <1>3, <1>12, DaoFilled
  <2>  QED
    BY <1>2, <1>3, <1>13, <2>1, DaoHeardIs
<1>15. ASSUME r2.leadout > 0 PROVE Dao!Heard(last.msf - 1) # {}
  <2>1. PICK i : DaoIn(r2, h, i, last.msf - 1)
    BY <1>2, <1>3, <1>13, <1>15, DaoFilled
  <2>  QED
    BY <1>2, <1>3, <1>13, <2>1, DaoHeardOf
<1>  QED
  BY <1>9, <1>11, <1>14, <1>15

\* At the start.
LEMMA DaoInvInit == ASSUME Dao!SizesAssumption, Dao!Init PROVE DaoInv
<1>1. r1 \in LayoutFiles /\ r3 \in LayoutLeadIns /\ r2 = [Dao!NoLayout EXCEPT !.ok = FALSE] /\ r5 = Dao!NoCue
  BY Zenon DEF Dao!Init
<1>2. r1 \in Seq(Dao!Line) /\ r3 \in Int
  <2>1. LayoutFiles \subseteq Seq(Dao!Line) /\ LayoutLeadIns \subseteq Nat
    BY Zenon DEF Dao!SizesAssumption
  <2>  QED
    BY <1>1, <2>1
<1>3. r2 \in DaoModel /\ ~ r2.ok
  <2>1. r2 = [ok |-> FALSE, mcn |-> FALSE, tracks |-> << >>, leadout |-> 0]
    BY <1>1 DEF Dao!NoLayout
  <2>  QED
    BY <2>1 DEF DaoModel
<1>4. ~ r5.ok
  BY <1>1 DEF Dao!NoCue
<1>  QED
  BY <1>2, <1>3, <1>4 DEF DaoInv, DaoLaid

\* A file is parsed, or a cue sheet built.
LEMMA DaoInvNext == ASSUME Dao!SizesAssumption, DaoInv, [Dao!Next]_Dao!vars PROVE DaoInv'
<1>1. CASE Dao!LoadModel
  <2>1. r2.tracks = << >> /\ r2' = Dao!ParseCue(r1) /\ r1' = r1 /\ r3' = r3 /\ r4' = r4 /\ r5' = r5
    BY <1>1, Zenon DEF Dao!LoadModel
  <2>2. ~ r5.ok
    BY <2>1 DEF DaoInv, DaoLaid
  <2>3. DaoLaid(r1, Dao!ParseCue(r1))
    BY DaoLays DEF DaoInv
  <2>4. DaoLaid(r1', r2')
    BY <2>1, <2>3
  <2>5. DaoLaid(r1, r2)'
    BY <2>4
  <2>  QED
    BY <2>1, <2>2, <2>5 DEF DaoInv
<1>2. CASE Dao!BuildCueSheet
  <2>1. /\ r2.ok /\ r1' = r1 /\ r2' = r2 /\ r3' = r3 /\ r4' = r4
        /\ r5' = [ok |-> Len(Dao!Entries(r2, r4, r3)) <= LayoutCap, entries |-> Dao!Entries(r2, r4, r3),
                  leadin_len |-> Dao!LeadInLen(r3)]
    BY <1>2, Zenon DEF Dao!BuildCueSheet
  <2>2. r5'.entries = Dao!Entries(r2, r4, r3)
    BY <2>1
  <2>3. r5'.entries = Dao!Entries(r2', r4', r3')
    BY <2>1, <2>2, Zenon
  <2>4. DaoLaid(r1', r2')
    BY <2>1 DEF DaoInv
  <2>5. DaoLaid(r1, r2)' /\ Dao!Entries(r2, r4, r3)' = Dao!Entries(r2', r4', r3')
    BY <2>4
  <2>  QED
    BY <2>1, <2>3, <2>5 DEF DaoInv
<1>3. CASE UNCHANGED Dao!vars
  <2>1. r1' = r1 /\ r2' = r2 /\ r3' = r3 /\ r4' = r4 /\ r5' = r5
    BY <1>3 DEF Dao!vars
  <2>2. DaoInv' <=> DaoInv
    BY <2>1, Zenon DEF DaoInv
  <2>  QED
    BY <2>2
<1>  QED
  BY <1>1, <1>2, <1>3 DEF Dao!Next

\* The layout's invariant.
DLayout == subject = "layout" => DaoInv

\* At the start.
LEMMA DLayoutInit == MCInit => DLayout
<1>1. SUFFICES ASSUME MCInit, subject = "layout" PROVE DaoInv
  BY DEF DLayout
<1>2. Dao!Init
  BY <1>1, Zenon DEF MCInit
<1>  QED
  BY <1>2, DiscAssumption, DaoInvInit DEF DiscAssumption

\* Every step of every component.
LEMMA DLayoutNext == DLayout /\ [MCNext]_<<subject, vars, regs>> => DLayout'
<1>1. SUFFICES ASSUME DLayout, [MCNext]_<<subject, vars, regs>>, subject' = "layout" PROVE DaoInv'
  BY DEF DLayout
<1>2. \/ subject = "layout" /\ Dao!Next
      \/ subject' = subject /\ UNCHANGED regs
  BY <1>1, Zenon DEF MCNext, Turn
<1>3. DaoInv
  BY <1>1, <1>2 DEF DLayout, MCNext, Turn
<1>4. [Dao!Next]_Dao!vars
  <2>1. CASE UNCHANGED regs
    BY <2>1 DEF regs, Dao!vars
  <2>  QED
    BY <1>2, <2>1
<1>  QED
  BY <1>3, <1>4, DiscAssumption, DaoInvNext DEF DiscAssumption

\* Whatever the file says, the lead-in and the CD-Text: where the cue sheet has INDEX 1 of
\* a track, the drive hears the byte its FILE and START lines name; the times ascend, and
\* the frame before the lead-out is the last that is written (tocparse.c: "a bare count
\* read as frames is off by 2352x - on the burn path, silently").
THEOREM SpecCueIsWhatIsWritten == MCSpec => []CueIsWhatIsWritten
<1>1. DLayout => CueIsWhatIsWritten
  BY DiscAssumption, DaoInvIsWritten, Zenon DEF DLayout, CueIsWhatIsWritten, DiscAssumption
<1>  QED
  BY <1>1, DLayoutInit, DLayoutNext, PTL DEF MCSpec
==============================================================================
