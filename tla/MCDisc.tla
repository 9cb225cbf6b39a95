------------------------------- MODULE MCDisc -------------------------------
(* What the library works out about a disc and a burn, one component at a time:
   subject names the one that runs.  Repair has its own variables; the others share
   r1 .. r11.  The bounds of each are beside its inputs below. *)
EXTENDS Repair, SequencesExt

CONSTANTS
  LayoutFiles, LayoutLeadIns, LayoutSector, LayoutTracks, LayoutCap,  \* the constants of DaoLayout
  RangeTop, RangeDiscs, RangeSpecs                                    \* and of ReadRange

VARIABLES subject, r1, r2, r3, r4, r5, r6, r7, r8, r9, r10, r11
regs == <<r1, r2, r3, r4, r5, r6, r7, r8, r9, r10, r11>>

------------------------------------------------------------------------------
(* Repair: 14 words of 3 bits, a sector of 4 words.  Damage of up to three words   *)
(* where the rows are aligned, of two where the image is displaced by more and     *)
(* less than a row, with hints that name the damage, part of it, or what is sound. *)

MCTruth == [i \in 1 .. 14 |-> IF i % 3 = 0 THEN {0, 2} ELSE IF i % 3 = 1 THEN {1} ELSE {}]
Damages(n) ==
  UNION {[D -> {{0, 1, 2}}] : D \in {D \in SUBSET {2, 3, 4, 6, 8, 9, 10} : Cardinality(D) <= n}}
Asked(npars, deltas, damages) ==
  {[npar |-> n, stride |-> 1, first |-> 0, frames |-> 3, delta |-> delta,
    damage |-> d, hints |-> h, hinted |-> TRUE, fits |-> TRUE] :
     n \in npars, delta \in deltas, d \in damages,
     h \in {{}, {2, 4}, {3, 6, 8}, {2, 4, 6, 8, 10}, {4, 9}}}
MCRequests == Asked({2, 3}, {0}, Damages(3)) \cup Asked({2, 4}, {-3, -2, 3, 4, 5}, Damages(2))

------------------------------------------------------------------------------
(* DaoLayout: two tracks, one of each mode, from files of every kind, with a line  *)
(* more in each.                                                                   *)

L(kw, what, unit, start, len) == [kw |-> kw, what |-> what, unit |-> unit, start |-> start, len |-> len]
Plain(kw) == L(kw, kw, "none", 0, 0)
Heads == {L("TRACK", "AUDIO", "none", 0, 0), L("TRACK", "MODE1", "none", 0, 0)}
Sources ==
  {L("FILE", "FILE", "bytes", 4704, 300), L("FILE", "FILE", "msf", 2, 0),
   L("FILE", "FILE", "msf", 300, 150), L("AUDIOFILE", "AUDIO", "msf", 300, 1199000),
   L("FILE", "FILE", "bytes", 0, -1), Plain("CD_DA")}
Extras ==
  {L("START", "START", "none", 0, 150), L("START", "START", "none", 0, -1),
   L("ISRC", "ISRC", "none", 0, 12), L("CATALOG", "CATALOG", "none", 0, 12),
   L("NO", "COPY", "none", 0, 0), L("NO", "PRE_EMPHASIS", "none", 0, 0),
   Plain("COPY"), Plain("PRE_EMPHASIS")}
MCLayoutFiles ==
  {<<L("CATALOG", "CATALOG", "none", 0, 13), h1, f1, y, h2, z, f2>> :
     h1 \in Heads, h2 \in Heads, f1 \in Sources \ {L("FILE", "FILE", "msf", 2, 0)},
     f2 \in Sources, y \in Extras, z \in {L("START", "START", "none", 0, 150), Plain("COPY")}}

Dao == INSTANCE DaoLayout WITH
  Files <- LayoutFiles, LeadIns <- LayoutLeadIns, SectorBytes <- LayoutSector,
  MaxTracks <- LayoutTracks, Cap <- LayoutCap,
  file <- r1, model <- r2, leadin <- r3, cdtext <- r4, cue <- r5

------------------------------------------------------------------------------
(* ReadRange.  Honest discs: a shape is a sequence of sessions, each a sequence of *)
(* its tracks, TRUE for audio.  A track has two sectors, a seam two, and the first *)
(* track may begin at sector 1.                                                    *)

Rng == INSTANCE ReadRange WITH
  Top <- RangeTop, Discs <- RangeDiscs, Specs <- RangeSpecs,
  disc <- r1, map <- r2, spec <- r3, plan <- r4

Lead == INSTANCE Toc

Shapes ==
  {<< <<TRUE>> >>, << <<TRUE, TRUE>> >>, << <<FALSE, TRUE>> >>, << <<TRUE, FALSE>> >>,
   << <<FALSE>> >>, << <<TRUE>>, <<TRUE>> >>, << <<TRUE, TRUE>>, <<FALSE>> >>,
   << <<FALSE>>, <<TRUE>> >>, << <<TRUE, FALSE, TRUE>> >>}
Through(shape, s) == Len(FlattenSeq(SubSeq(shape, 1, s)))  \* tracks up to session s
Numbers(shape) == 1 .. Through(shape, Len(shape))
SessionOf(shape, n) ==
  CHOOSE s \in DOMAIN shape : n > Through(shape, s - 1) /\ n <= Through(shape, s)
StartOf(shape, gap, n) == gap + 2 * (n - 1) + 2 * (SessionOf(shape, n) - 1)
EndOf(shape, gap, s) == gap + 2 * Through(shape, s) + 2 * (s - 1)
Bare(shape, gap) ==
  [tracks |-> [n \in Numbers(shape) |->
                 [session |-> SessionOf(shape, n), audio |-> FlattenSeq(shape)[n],
                  lba |-> StartOf(shape, gap, n)]],
   ends |-> [s \in DOMAIN shape |-> EndOf(shape, gap, s)]]
Rotated(e, k) == SubSeq(e, k + 1, Len(e)) \o SubSeq(e, 1, k)
Orders(e) == {Rotated(e, k) : k \in DOMAIN e} \cup {Reverse(Rotated(e, k)) : k \in DOMAIN e}
\* Every account in many orders, all of them twice, and none of A0 and A1.
LeadIns(d) ==
  LET tracks(n) == Lead!TracksOf(d, n)
      e == FlattenSeq([n \in DOMAIN d.ends |->
             <<Lead!Entry(n, 160, TRUE, Lead!Lowest(tracks(n))),
               Lead!Entry(n, 161, TRUE, Lead!Highest(tracks(n))), Lead!Entry(n, 162, TRUE, d.ends[n])>>])
           \o [n \in DOMAIN d.tracks |-> Lead!TrackEntry(d, n)]
  IN  Orders(e) \cup {e \o Reverse(e), SelectSeq(e, LAMBDA x : x.point \notin {160, 161})}
Honest ==
  {[tracks |-> d.tracks, ends |-> d.ends, full |-> {<< >>} \cup LeadIns(d),
    counts |-> {0, Len(d.ends)}, leadout |-> d.ends[Len(d.ends)], honest |-> TRUE] :
     d \in {Bare(shape, gap) : shape \in Shapes, gap \in {0, 1}}}

(* Lead-ins that lie: three tracks at any addresses, of any kind, in either        *)
(* session, and any lead-outs, the first session's left out or not.                *)
Lying ==
  {[tracks |-> T, ends |-> << >>,
    full |-> {first \o [n \in 1 .. 3 |-> Lead!TrackEntry([tracks |-> T], n)]
                    \o <<Lead!Entry(2, 162, TRUE, e2)>>},
    counts |-> {0}, leadout |-> 0, honest |-> FALSE] :
   T \in {[n \in 1 .. 3 |-> [session |-> s[n], audio |-> k[n], lba |-> t[n]]] :
            t \in {t \in [1 .. 3 -> 0 .. 3] : IsInjective(t)},
            s \in {1} \X (1 .. 2) \X (1 .. 2), k \in {TRUE} \X BOOLEAN \X BOOLEAN},
   first \in {<< >>, <<Lead!Entry(1, 162, TRUE, 2)>>, <<Lead!Entry(1, 162, TRUE, 4)>>},
   e2 \in {2, 4}}
MCRangeDiscs == Honest \cup Lying

Ask(start, count, session, first_track, last_track, force) ==
  [start |-> start, count |-> count, session |-> session, first |-> first_track,
   last |-> last_track, force |-> force]
MCRangeSpecs ==
  {Ask(s, c, -1, 0, 0, FALSE) : s \in -1 .. 9, c \in {-1, 0, 1, 3, 5}}
  \cup {Ask(s, -1, -1, f, l, o) : s \in {-1, 3}, f \in 1 .. 3, l \in 1 .. 3, o \in BOOLEAN}
  \cup {Ask(s, c, n, 0, 0, FALSE) : s \in {-1, 3}, c \in {-1, 2}, n \in {1, 2, 256, 258}}
  \cup {Ask(-2, 3, -1, 0, 0, FALSE), Ask(0, -2, -1, 0, 0, FALSE), Ask(-1, -1, -1, 2, 100, TRUE)}

------------------------------------------------------------------------------
(* Rw: packs of seven symbols over GF(8), four of them P's parity, interleaved     *)
(* over three, two to a sector.  Three packs, read clean, with every burst of up   *)
(* to four symbols, with any two symbols wrong, and with three of one pack's.      *)

RwSyndrome(v, n, r) == Sum(0 .. n - 1, LAMBDA j : Mul(v[j], Pow(r * (n - 1 - j))))
\* The pack whose first symbol is 1: Q's parity is the next two, P's the rest.
RwQ == CHOOSE v \in {(0 :> {0}) @@ t : t \in [1 .. 2 -> Symbols]} :
  \A r \in 0 .. 1 : RwSyndrome(v, 3, r) = {}
RwWord == CHOOSE v \in {RwQ @@ t : t \in [3 .. 6 -> Symbols]} :
  \A r \in 0 .. 3 : RwSyndrome(v, 7, r) = {}
RwTimes(a) == [i \in 0 .. 6 |-> Mul(a, RwWord[i])]
RwPerm == [i \in 0 .. 6 |-> CASE i = 1 -> 5 [] i = 5 -> 1 [] i = 2 -> 3 [] i = 3 -> 2 [] OTHER -> i]

\* Cells of the six channel packs, and the errors in them.
RwCells == (1 .. 6) \X (0 .. 6)
RwBursts == {{<<c, i>> : i \in f .. f + n - 1} : c \in {3, 4}, f \in 0 .. 3, n \in 1 .. 4}
RwPairs == {{<<c, i>>, <<d, j>>} : c \in {3}, i \in {0, 4}, d \in {3, 4, 5}, j \in 1 .. 6}
RwTriples == {{<<3, 0>>, <<4, 1>>, <<5, j>>} : j \in {2, 5}}
RwNoise(cells) ==
  [c \in 1 .. 6 |-> [i \in 0 .. 6 |-> IF <<c, i>> \in cells THEN {c % 3, i % 2} ELSE {}]]

Cdg == INSTANCE Rw WITH
  PackSymbols <- 7, QSymbols <- 3, Branches <- 3, PerSector <- 2, Perm <- RwPerm,
  Discs <- {[packs |-> <<RwWord, RwTimes({1}), RwTimes({0, 2}), RwTimes({2})>>, noise |-> RwNoise(cells)] :
    cells \in {{}} \cup RwBursts \cup RwPairs \cup RwTriples},
  disc <- r1, fed <- r2, hist <- r3, head <- r4, seen <- r5, out <- r6, rc <- r7

------------------------------------------------------------------------------
(* CdText: titles of an album and three tracks, left out, repeated, cut off and     *)
(* longer than a pack, one performer's name, and any pack damaged or zeroed.        *)

T(t0, t1, t2, t3) == (0 :> t0) @@ (1 :> t1) @@ (2 :> t2) @@ (3 :> t3)
Skipped == <<"omitted">>
Titles ==
  {T(t0, t1, t2, t3) :
     t0 \in {<<"a", "b">>, Skipped}, t1 \in {<<"c">>, Skipped},
     t2 \in {<<"d", "e", "f", "g", "h">>, <<"tab">>, <<"i">>},
     t3 \in {<<"j", "k", "l">>, <<"m">>, <<"tab">>}}
Performers == T(<<"p", "q">>, Skipped, <<"r">>, Skipped)
Checks ==
  {<< >>} \cup {(p :> c) : p \in 1 .. 5, c \in {"bad", "zero"}}
    \cup {(p :> "bad") @@ (q :> "bad") : p \in 1 .. 3, q \in 2 .. 4} \cup {[p \in 1 .. 9 |-> "zero"]}
Foreign == <<[type |-> "title", track |-> 1, v0 |-> FALSE, bytes |-> <<"x", "nul", "nul">>]>>

Cdt == INSTANCE CdText WITH
  Types <- {"title", "performer"}, LastTrack <- 3, PayloadLen <- 3, TextMax <- 5,
  BlockPacks <- 4, CdtChunk <- 3, Leadins <- {0, 7},
  Discs <- {[texts |-> <<[type |-> "title", of |-> t], [type |-> "performer", of |-> Performers]>>,
             crc |-> c, foreign |-> Foreign, shape |-> s, last |-> 3] :
              t \in Titles, c \in Checks, s \in {"whole", "ragged"}},
  disc <- r1, blob <- r2, pc <- r3, i <- r4, asm <- r5, used <- r6, rc <- r7, info <- r8,
  scp <- r9, left <- r10, leadin <- r11

------------------------------------------------------------------------------
(* SweepKernel: three rows of six words of four bits, a vector of four and two      *)
(* left over, in images of every first word and of four kinds.                     *)

SwpWord(a, b, i) == {k \in 0 .. 3 : ((a * i * i + b * i + a) \div (2 ^ k)) % 2 = 1}
SwpAlpha(a) == SymDiff({k + 1 : k \in a \ {3}}, IF 3 \in a THEN {0, 1} ELSE {})
SwpExp[e \in 0 .. 14] == IF e = 0 THEN {0} ELSE SwpAlpha(SwpExp[e - 1])
SwpPow == [e \in 0 .. 14 |-> SwpExp[e]]
SwpLog == [a \in SUBSET (0 .. 3) \ {{}} |-> CHOOSE e \in 0 .. 14 : SwpPow[e] = a]
SwpMulPow(a, e) == IF a = {} THEN {} ELSE SwpPow[(SwpLog[a] + e) % 15]
SwpMul(a, b) == IF b = {} THEN {} ELSE SwpMulPow(a, SwpLog[b])

SwpPowOf(e) == SwpPow[e % 15]

Swp == INSTANCE SweepKernel WITH
  Bits <- 4, Mul <- SwpMul, Pow <- SwpPowOf, MulPow <- SwpMulPow, S <- 6, Npar <- 4, Rows <- 3, Quad <- 1,
  CrcBits <- 8, CrcPoly <- {7, 5, 4},
  Images <- {[words |-> [i \in 1 .. 22 |-> SwpWord(a, b, i)], first |-> f, crc |-> k] :
               a \in {0, 1, 5}, b \in {1, 3, 6}, f \in {0, 3}, k \in BOOLEAN},
  image <- r1, kernel <- r2, row <- r3, mem <- r4, joined <- r5, crc <- r6

------------------------------------------------------------------------------

ASSUME DiscAssumption ==
  /\ FieldAssumption /\ RepairAssumption
  /\ Dao!SizesAssumption /\ Rng!DiscsAssumption /\ Swp!SizesAssumption
  /\ Swp!FieldAssumption /\ Swp!ImagesAssumption

\* What a component does not use rests.
Rest8  == r8 = 0 /\ r9 = 0 /\ r10 = 0 /\ r11 = 0
Rest7  == r7 = 0 /\ Rest8
Rest6  == r6 = 0 /\ Rest7
Rest5  == r5 = 0 /\ Rest6

MCInit ==
  \/ /\ subject = "repair" /\ Init
     /\ r1 = 0 /\ r2 = 0 /\ r3 = 0 /\ r4 = 0 /\ Rest5
  \/ /\ req = 0 /\ pcm = 0 /\ parity = 0 /\ pc = 0 /\ acc = 0 /\ col = 0 /\ fixes = 0
     /\ refused = 0 /\ unverified = 0 /\ out = 0 /\ rc = 0
     /\ \/ subject = "layout" /\ Dao!Init /\ Rest6
        \/ subject = "range" /\ Rng!Init /\ Rest5
        \/ subject = "rw" /\ Cdg!Init /\ Rest8
        \/ subject = "cdtext" /\ Cdt!Init
        \/ subject = "sweep" /\ Swp!Init /\ Rest7

Turn(name, A) == subject = name /\ A /\ UNCHANGED <<subject, vars>>

MCNext ==
  \/ subject = "repair" /\ Next /\ UNCHANGED <<subject, regs>>
  \/ Turn("layout", Dao!Next) /\ UNCHANGED <<r6, r7, r8, r9, r10, r11>>
  \/ Turn("range", Rng!Next) /\ UNCHANGED <<r5, r6, r7, r8, r9, r10, r11>>
  \/ Turn("rw", Cdg!Next) /\ UNCHANGED <<r8, r9, r10, r11>>
  \/ Turn("cdtext", Cdt!Next)
  \/ Turn("sweep", Swp!Next) /\ UNCHANGED <<r7, r8, r9, r10, r11>>

MCSpec == MCInit /\ [][MCNext]_<<subject, vars, regs>>

------------------------------------------------------------------------------

\* The type invariants of Repair, DaoLayout, ReadRange, Rw, CdText and SweepKernel.
TypesOK ==
  /\ subject = "repair" => TypeOK
  /\ subject = "layout" => Dao!TypeOK
  /\ subject = "range" => Rng!TypeOK
  /\ subject = "rw" => Cdg!TypeOK
  /\ subject = "cdtext" => Cdt!TypeOK
  /\ subject = "sweep" => Swp!TypeOK

\* Repair (ctdb.c, rs16.c): damage the parity can carry is undone, word for word.
DamageIsUndone == subject = "repair" => CapacityIsUsed
\* Repair: a repair that fails leaves the buffer alone, and one that does not agrees
\* with all of the parity.
RepairIsWhole == subject = "repair" => AllOrNothing
\* DaoLayout (tocparse.c, cuesheet.c, burn.c): where the cue sheet says a track
\* begins, the drive hears the byte its file begins with.
CueIsWhatIsWritten == subject = "layout" => Dao!CueIsWhatIsWritten
\* ReadRange (toc.c): the map of an honest disc is the disc, in any order of entries.
MapIsTheDisc == subject = "range" => Rng!MapIsTheDisc
\* ReadRange (session.c, plan.c): what is planned is audio of one session, no data
\* track is hidden behind an audio one, and a caller that names nothing gets it all.
RangeIsAudio ==
  subject = "range" => Rng!RangeIsAudio /\ Rng!NoHiddenDataTrack /\ Rng!DefaultIsTheAudio

\* Rw (rw.c): whatever was fed before it and however, a pack with no more wrong
\* symbols than P can carry comes out as written, and one that no code had to give up
\* on or touch is a word of both codes (that of a pack damaged beyond what they carry
\* it is the right one, no code can promise).
PackIsWhatWasWritten == subject = "rw" => Cdg!PackIsWhatWasWritten /\ Cdg!NothingPassedOff
\* CdText (cdtext.c, cdtext_encode.c, burn.c): a string lost or left out moves no
\* other to another track, as long as a pack header tells the two apart (one that is
\* left out inside a pack is told only by the next pack); and the lead-in repeats the
\* packs in their order.
TextIsTheirs == subject = "cdtext" => Cdt!StringsAreTheirs /\ Cdt!LeadinIsTheRing

\* SweepKernel (sweep.c): whichever kernel runs, the planes hold the syndromes, and the
\* CRC is that of the window.
SweepIsExact == subject = "sweep" => Swp!KernelsAgree /\ Swp!CrcIsTheWindow

------------------------------------------------------------------------------
(* What the source says and the code does not do: see the README.           *)

\* accudisc.h: "reported and otherwise harmless - the map still describes the disc".
AnomaliesAreHarmless == subject = "range" => Rng!AnomaliesAreHarmless
\* cdtext.c: "corrupt pack: skip, never guess".
NeverGuessed == subject = "cdtext" => Cdt!NeverGuessed
==============================================================================
