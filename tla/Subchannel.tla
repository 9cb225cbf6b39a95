---------------------------- MODULE Subchannel ----------------------------
(***************************************************************************)
(* What the library learns from the Q subchannel: the pregap before each   *)
(* track (src/cdda/pregap_scan.c, src/cdda/index_map.c) and a disc's or a  *)
(* track's code (src/cdda/scan.c), out of frames a CRC may condemn         *)
(* (src/cdda/subq.c).                                                      *)
(***************************************************************************)
EXTENDS Integers, Sequences, FiniteSets, FiniteSetsExt

CONSTANTS
  Discs,       \* [starts, gaps, codes, bad], see below
  Options,     \* what callers ask: [window, tail, speed], speed 0 for "leave it"
  Speeds,      \* what the drive may run at: in speed units, 0 for an odd one
  ScanFrames,  \* PREGAP_SCAN_FRAMES, 400
  CleanFrames, \* CLEAN_WINDOW_FRAMES, 150
  Chunk,       \* SCAN_CHUNK, 16
  Budget       \* SCAN_BUDGET, 200

(***************************************************************************)
(* A disc: starts[i] is the sector of track i's INDEX 01, gaps[i] the      *)
(* frames of its pregap; codes are the sectors whose Q carries a code (MCN *)
(* or ISRC) instead of the position, and bad those whose Q is damaged.     *)
(***************************************************************************)

\* What the constants must satisfy; an instance assumes it: a pregap lies on the
\* disc, behind the sectors of the track before it.
IsDisc(d) ==
  /\ d.starts \in Seq(Nat) /\ d.gaps \in [DOMAIN d.starts -> Nat] /\ d.codes \subseteq Nat
  /\ \A i \in DOMAIN d.starts : d.gaps[i] <= d.starts[i]
  /\ \A i, j \in DOMAIN d.starts : i < j => d.starts[i] < d.starts[j] - d.gaps[j]

ScanAssumption ==
  /\ CleanFrames \in 1 .. ScanFrames /\ ScanFrames \in Nat /\ Chunk \in Nat \ {0} /\ Budget \in Nat
  /\ \A d \in Discs : IsDisc(d)
  /\ \A o \in Options : o.window \in Nat /\ o.tail \in Nat

VARIABLES
  disc, opts,
  speed,   \* the drive's speed
  prior,   \* what it is to be restored to, -1 when that is not known
  track,   \* the boundary being read
  maps,    \* accudisc_index_map, one for each boundary read
  pc,
  code     \* what a code scan found

vars == <<disc, opts, speed, prior, track, maps, pc, code>>

------------------------------------------------------------------------------
(* The disc's Q, and accudisc_q_parse: of a condemned frame nothing is     *)
(* decoded.                                                                *)

Owner(lba) == Max({0} \cup {i \in DOMAIN disc.starts : disc.starts[i] - disc.gaps[i] <= lba})

Position(lba) ==
  LET i == Owner(lba) IN
  IF i > 0 /\ lba < disc.starts[i]
  THEN [tno |-> i, index |-> 0, rel |-> disc.starts[i] - lba]
  ELSE [tno |-> i, index |-> 1, rel |-> lba - (IF i = 0 THEN 0 ELSE disc.starts[i])]

Q(lba) ==
  IF lba \in disc.bad THEN [crc_ok |-> FALSE, adr |-> "none", at |-> Position(0)]
  ELSE [crc_ok |-> TRUE, adr |-> IF lba \in disc.codes THEN "code" ELSE "position",
        at |-> Position(lba)]

------------------------------------------------------------------------------
(* accudisc_index_map_decode, for one track, of the sectors [base, end).   *)

NoMap(i) == [track |-> i, state |-> "no_data", frames |-> 0, q_index1 |-> -1, crc_bad |-> 0]

\* Position frames of the track itself.
Seen(i, lo, hi) ==
  {p \in lo .. hi : Q(p).crc_ok /\ Q(p).adr = "position" /\ Q(p).at.tno = i}

\* No INDEX 00 seen: only damage at the boundary itself can hide one, so the first
\* frame below it that is not a code decides.
Verdict_Bug(lo, L) ==
  LET told == {p \in lo .. L - 1 : Q(p).crc_ok /\ Q(p).adr = "position"}
  IN  IF told = {} THEN "unknown" ELSE "none"
Verdict(lo, L) ==
  LET told == {p \in lo .. L - 1 : ~(Q(p).crc_ok /\ Q(p).adr = "code")}
  IN  IF told = {} THEN "unknown" ELSE IF Q(Max(told)).crc_ok THEN "none" ELSE "unknown"

Decode(i, base, end) ==
  LET L     == disc.starts[i]
      lo    == Max({base, L - ScanFrames})
      seen  == Seen(i, lo, Min({L, end - 1}))
      index0 == {p \in seen : p < L /\ Q(p).at.index = 0}
      index1 == {p \in seen : Q(p).at.index = 1}
      rel   == Max({0} \cup {Q(p).at.rel : p \in index0})
      found == [NoMap(i) EXCEPT
                  !.q_index1 = IF index1 = {} THEN -1 ELSE Min(index1),
                  !.crc_bad = Cardinality({p \in Max({lo, L - CleanFrames}) .. L - 1 : ~Q(p).crc_ok})]
  IN  IF base > L - 1 \/ end <= L - 1 THEN NoMap(i)
      ELSE IF rel > 0 THEN [found EXCEPT !.state = "present", !.frames = rel]
      ELSE [found EXCEPT !.state = Verdict(lo, L)]

------------------------------------------------------------------------------
(* accudisc_scan_pregaps: a read for every boundary.                       *)

Init ==
  /\ disc \in Discs /\ opts \in Options /\ speed \in Speeds
  /\ prior = -1 /\ track = 0 /\ maps = << >> /\ pc = "called" /\ code = "none"

\* speed_prior_x: a speed that is no whole multiple cannot be asked for again.  The
\* drive may refuse the one asked for.
Begin ==
  /\ pc = "called"
  /\ prior' = IF opts.speed = 0 \/ speed = 0 THEN -1 ELSE speed
  /\ speed' \in {speed, IF opts.speed = 0 THEN speed ELSE opts.speed}
  /\ track' = 1 /\ pc' = "scan"
  /\ UNCHANGED <<disc, opts, maps, code>>

ReadBoundary ==
  /\ pc = "scan" /\ track <= Len(disc.starts)
  /\ LET L    == disc.starts[track]
         base == IF L > opts.window THEN L - opts.window ELSE 0
     IN  maps' = Append(maps, Decode(track, base, L + opts.tail))
  /\ track' = track + 1
  /\ UNCHANGED <<disc, opts, speed, prior, pc, code>>

\* The first read that fails ends the scan, and so does a cancel.
Leave ==
  /\ pc = "scan"
  /\ \/ track > Len(disc.starts) /\ pc' = "ok"
     \/ track <= Len(disc.starts) /\ pc' = "failed"
  /\ speed' = IF prior > 0 THEN prior ELSE speed
  /\ UNCHANGED <<disc, opts, prior, track, maps, code>>

\* scan_adr, from a track's first sector: chunks of the budget until a code is found
\* or a read fails.
Reach == ((Budget + Chunk - 1) \div Chunk) * Chunk

ScanCode ==
  /\ pc = "called"
  /\ \E i \in DOMAIN disc.starts :
       LET from == disc.starts[i]
           hits == {p \in from .. from + Reach - 1 : Q(p).crc_ok /\ Q(p).adr = "code"}
       IN  code' \in {IF hits = {} THEN "notfound" ELSE "found", "read_failed"}
  /\ pc' = "scanned"
  /\ UNCHANGED <<disc, opts, speed, prior, track, maps>>

Next == Begin \/ ReadBoundary \/ Leave \/ ScanCode
Spec == Init /\ [][Next]_vars

------------------------------------------------------------------------------
(* Properties.                                                             *)

TypeOK ==
  /\ Len(maps) <= Len(disc.starts) /\ track \in 0 .. Len(disc.starts) + 1
  /\ \A i \in DOMAIN maps : maps[i].state \in {"no_data", "none", "present", "unknown"}

\* How many codes stand right before a boundary: what a pregap can hide behind.
Codes(L) == Min({k \in 0 .. L : L - 1 - k \notin disc.codes \ disc.bad})

\* index_map.c: "At a boundary whose approach is damaged it reports UNKNOWN rather
\* than guessing a pregap into or out of existence".  NONE is said only of a track
\* without a pregap, save one so short that codes stand for all of it; PRESENT only
\* of a track with one, of a length that is a lower bound, and the length itself
\* where the first frame of it was read.
NothingGuessed ==
  \A k \in DOMAIN maps :
    LET m == maps[k]
        L == disc.starts[k]
        g == disc.gaps[k]
    IN  /\ m.state = "none" => g <= Codes(L)
        /\ m.state = "present" =>
             /\ m.frames \in 1 .. g
             /\ L - g \notin disc.bad \cup disc.codes /\ g <= opts.window /\ g <= ScanFrames => m.frames = g
        /\ m.q_index1 \in {-1, L}
=============================================================================
