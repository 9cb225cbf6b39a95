------------------------------- MODULE C2Lag -------------------------------
(***************************************************************************)
(* accudisc_probe_c2_lag (src/drive/c2lag.c): by how much a drive's C2     *)
(* bitmap is shifted against the audio of its sector, found from nothing   *)
(* but rereads: bytes the decoder failed on come back different, so the    *)
(* flags agree with the differences at the true shift.                     *)
(*                                                                         *)
(* A sector is SectorPairs sample pairs, a pair being the unit of the      *)
(* shift; a read of it is the pairs that came back wrong in that read and  *)
(* the pairs whose bits are set.                                           *)
(***************************************************************************)
EXTENDS Integers, Sequences, FiniteSets

CONSTANTS
  SectorPairs,   \* pairs in a sector
  MaxShift,      \* ADSC_C2LAG_MAX_SHIFT
  Chunk,         \* sectors of a scanning read
  RunUp,         \* C2LAG_RUNUP
  MaxWindows,    \* C2LAG_MAX_WINDOWS
  WindowReads,   \* C2LAG_WINDOW_READS
  MinFlags, MinTp, MinDiffs, MinPeak, MinContrast,  \* the floors of c2lag.h
  Drives         \* [lag, span, damage, steady], see below

(***************************************************************************)
(* A drive: its true lag; the length of the span probed; damage, which     *)
(* pairs of which sectors fail; and steady, those that fail alike each     *)
(* time, which no reread shows.                                            *)
(***************************************************************************)

\* What the constants must satisfy; an instance assumes it: a peak of at least
\* MinPeak is not what rounding leaves of one MinContrast times as low.
IsDrive(d) ==
  /\ d.lag \in -MaxShift .. MaxShift /\ d.span \in Nat
  /\ \A s \in DOMAIN d.damage : d.damage[s] \subseteq 0 .. SectorPairs - 1

LagAssumption ==
  /\ {SectorPairs, MaxShift, RunUp, MaxWindows, WindowReads} \subseteq Nat /\ Chunk \in Nat \ {0}
  /\ {MinFlags, MinTp, MinDiffs} \subseteq Nat /\ MinContrast \in Nat \ 0 .. 2 /\ MinPeak \in Nat \ 0 .. 3
  /\ \A d \in Drives : IsDrive(d)

VARIABLES drive, phase, pos, windows, reads, acc, verdict
c2lag == <<drive, phase, pos, windows, reads, acc, verdict>>

Shifts == -MaxShift .. MaxShift
Pairs == 0 .. SectorPairs - 1
Failing(s) == IF s \in DOMAIN drive.damage THEN drive.damage[s] ELSE {}

\* The bits a read of a sector sets, when failed is what failed in it.
Bitmap(failed) == {p + drive.lag : p \in failed} \cap Pairs

------------------------------------------------------------------------------
(* adsc_c2lag_add and adsc_c2lag_result.                                   *)

\* Flag f describes, at lag s, the pair f - s.
Target_Bug(f, s) == f + s
Target(f, s) == f - s

\* Two reads of a sector, scored at every shift; a and b are [failed, flags, steady].
Score(ac, flags, diff) ==
  [ac EXCEPT
    !.flags = [s \in Shifts |-> @[s] + Cardinality({f \in flags : Target(f, s) \in Pairs})],
    !.tp    = [s \in Shifts |-> @[s] + Cardinality({f \in flags : Target(f, s) \in diff})]]

Add(ac, a, b) ==
  LET diff == (a.failed \ b.failed) \cup (b.failed \ a.failed) \cup ((a.failed \cap b.failed) \ a.steady)
      both == Score(Score(ac, a.flags, diff), b.flags, diff)
  IN  [both EXCEPT !.diffs = @ + Cardinality(diff)]

NoEvidence == [flags |-> [s \in Shifts |-> 0], tp |-> [s \in Shifts |-> 0], diffs |-> 0]

Precision(ac, s) == IF ac.flags[s] = 0 THEN 0 ELSE (ac.tp[s] * 1000) \div ac.flags[s]

\* The first of the best shifts, and how far the next is behind.
Peak(ac) ==
  CHOOSE s \in Shifts :
    \A t \in Shifts : \/ Precision(ac, t) < Precision(ac, s)
                      \/ Precision(ac, t) = Precision(ac, s) /\ s <= t

\* The best of the others, if any is precise at all.
RunnerUp(ac) ==
  LET others == {Precision(ac, s) : s \in Shifts \ {Peak(ac)}} \cup {0}
  IN  CHOOSE m \in others : \A p \in others : p <= m

Conclusive(ac) ==
  LET best == Peak(ac) IN
  /\ ac.flags[best] >= MinFlags /\ ac.tp[best] >= MinTp /\ ac.diffs >= MinDiffs
  /\ Precision(ac, best) >= MinPeak
  /\ Precision(ac, best) >= MinContrast * RunnerUp(ac)

------------------------------------------------------------------------------
(* The probe.                                                              *)

Init ==
  /\ drive \in Drives /\ phase = "scan" /\ pos = 0 /\ windows = << >> /\ reads = << >>
  /\ acc = NoEvidence /\ verdict = [rc |-> "none", lag |-> 0]

Length(p) == IF Chunk <= drive.span - p THEN Chunk ELSE drive.span - p
MoreToScan == pos < drive.span /\ Len(windows) < MaxWindows

\* Pass 1: a chunk, which may not read, and whether C2 fired in it.
Scan ==
  /\ phase = "scan" /\ MoreToScan
  /\ \E fires \in BOOLEAN :
       /\ fires => \E s \in pos .. pos + Length(pos) - 1 : Bitmap(Failing(s)) # {}
       /\ windows' = IF fires THEN Append(windows, [lba |-> pos, n |-> Length(pos)]) ELSE windows
  /\ pos' = pos + Chunk
  /\ UNCHANGED <<drive, phase, reads, acc, verdict>>

EndScan ==
  /\ phase = "scan" /\ ~MoreToScan
  /\ IF windows = << >> THEN phase' = "done" /\ verdict' = [rc |-> "notfound", lag |-> 0]
                        ELSE phase' = "reread" /\ UNCHANGED verdict
  /\ pos' = 1
  /\ UNCHANGED <<drive, windows, reads, acc>>

\* A window is the chunk with its run-up, as far as the span's start.
From(w) == IF w.lba >= RunUp THEN w.lba - RunUp ELSE 0
Sectors(w) == From(w) .. w.lba + w.n - 1

\* Pass 2: the window reread WindowReads times; a read that fails is not kept.  What
\* is steady fails every time, the rest of the damage in some reads only.
Reread ==
  /\ phase = "reread" /\ pos <= Len(windows) /\ Len(reads) < WindowReads
  /\ \E ok \in BOOLEAN, all \in BOOLEAN :
       reads' = Append(reads,
         IF ~ok THEN << >>
         ELSE [s \in Sectors(windows[pos]) |->
                 LET failed == IF all THEN Failing(s) ELSE Failing(s) \cap drive.steady
                 IN  [failed |-> failed, flags |-> Bitmap(failed), steady |-> drive.steady]])
  /\ UNCHANGED <<drive, phase, pos, windows, acc, verdict>>

\* Every pair of the reads, sector by sector.
ScoreWindow ==
  /\ phase = "reread" /\ pos <= Len(windows) /\ Len(reads) = WindowReads
  /\ LET kept  == {k \in DOMAIN reads : reads[k] # << >>}
         pairs == {t \in kept \X kept \X Sectors(windows[pos]) : t[1] < t[2]}
         scored[S \in SUBSET pairs] ==
           IF S = {} THEN acc
           ELSE LET t == CHOOSE t \in S : TRUE
                IN  Add(scored[S \ {t}], reads[t[1]][t[3]], reads[t[2]][t[3]])
     IN  acc' = scored[pairs]
  /\ pos' = pos + 1 /\ reads' = << >>
  /\ UNCHANGED <<drive, phase, windows, verdict>>

Conclude ==
  /\ phase = "reread" /\ pos > Len(windows)
  /\ verdict' = [rc |-> IF Conclusive(acc) THEN "ok" ELSE "notfound", lag |-> Peak(acc)]
  /\ phase' = "done"
  /\ UNCHANGED <<drive, pos, windows, reads, acc>>

Concluded == phase = "done" /\ UNCHANGED c2lag

Next == Scan \/ EndScan \/ Reread \/ ScoreWindow \/ Conclude \/ Concluded
Spec == Init /\ [][Next]_c2lag

------------------------------------------------------------------------------
(* Properties.                                                             *)

\* A window fits the buffer and the transfer it was sized for.
TypeOK ==
  /\ phase \in {"scan", "reread", "done"} /\ verdict.rc \in {"none", "ok", "notfound"}
  /\ Len(windows) <= MaxWindows
  /\ \A i \in DOMAIN windows : Sectors(windows[i]) \subseteq 0 .. drive.span - 1
                               /\ Cardinality(Sectors(windows[i])) <= Chunk + RunUp

\* accudisc.h: "an OK result is already an unambiguous alignment".  Whatever failed,
\* however often and however alike, a lag that is reported is the drive's - for
\* damage out of reach of the sector's edges, where shifted flags fall off.
LagIsTrue ==
  /\ verdict.rc = "ok"
  /\ \A s \in DOMAIN drive.damage :
       drive.damage[s] \subseteq 2 * MaxShift .. SectorPairs - 1 - 2 * MaxShift
  => verdict.lag = drive.lag
=============================================================================
