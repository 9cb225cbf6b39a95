---------------------------- MODULE WriteOffset ----------------------------
(***************************************************************************)
(* Measuring a drive's write offset (src/write/write_offset.c): two bursts *)
(* of noise are burnt, read back, and found again by their loudness.       *)
(*                                                                         *)
(* A recording is the set of its loud samples.  The drive lays every       *)
(* sample `truth' later than it should, and reads `early' ones early.      *)
(***************************************************************************)
EXTENDS Integers, FiniteSets, FiniteSetsExt

CONSTANTS
  PulseA, PulseB, PulseLen, Total,  \* the signal: ACCUDISC_WOFF_*
  Reach,                            \* ACCUDISC_WOFF_SEARCH
  RunLen, RunMin,                   \* what makes a loud sample a burst
  Early                             \* read offsets of drives

\* What the constants must satisfy; an instance assumes it.  The header has 44100,
\* 2646000, 588, 3307500 and 8820, the source 16 and 8: the bursts are far from the
\* head and from each other, and one click is no run nor one quiet sample the end of one.
SignalAssumption ==
  /\ {PulseA, PulseB, PulseLen, Total, Reach, RunLen, RunMin} \subseteq Nat /\ Early \subseteq Int
  /\ Reach <= PulseA /\ \A e \in Early : Reach <= PulseA + e
  /\ PulseA + PulseLen + 2 * Reach <= PulseB /\ PulseB + PulseLen <= Total
  /\ 2 <= RunMin /\ RunMin < RunLen /\ RunLen <= PulseLen /\ RunLen <= 2 * Reach

VARIABLES
  truth, early,
  quiet,    \* samples of the noise, the same in both bursts, that are not loud
  clicks,   \* loud samples that are not the signal's
  given,    \* the read offset the caller names
  signal,   \* loud samples of what is burnt
  pcm,      \* loud samples of what is read back
  length,   \* its length
  answer    \* [rc, offset]

vars == <<truth, early, quiet, clicks, given, signal, pcm, length, answer>>

Pulses == {PulseA, PulseB}

\* accudisc_write_offset_signal: one waveform, at two places; its first sample is
\* forced to full scale, or a quiet one would bias both bursts alike.
Burst_Bug(q) == (0 .. PulseLen - 1) \ q
Burst(q) == ((0 .. PulseLen - 1) \ q) \cup {0}

Signal(q) == {p + k : p \in Pulses, k \in Burst(q)}

\* woff_find: the first corrected sample of a range that starts a run.
Loud(raw) == raw \in pcm

StartsRun(raw) ==
  /\ raw \in 0 .. length - 1 /\ Loud(raw)
  /\ Cardinality({j \in raw .. Min({raw + RunLen, length}) - 1 : Loud(j)}) >= RunMin

Found(pulse) ==
  LET hits == {i \in Max({0, pulse - Reach}) .. pulse + Reach - 1 : StartsRun(i + given)}
  IN  IF hits = {} THEN -1 ELSE Min(hits)

\* accudisc_write_offset_locate: two measurements of one quantity have to agree.
Agree_Bug(a, b) == TRUE
Agree(a, b) == a = b

Locate ==
  LET a == Found(PulseA)
      b == Found(PulseB)
  IN  IF length < Total THEN [rc |-> "inval", offset |-> 0]
      ELSE IF a < 0 \/ b < 0 THEN [rc |-> "notfound", offset |-> 0]
      ELSE IF ~Agree(a - PulseA, b - PulseB) THEN [rc |-> "ambiguous", offset |-> 0]
      ELSE [rc |-> "ok", offset |-> a - PulseA]

------------------------------------------------------------------------------
NoAnswer == [rc |-> "none", offset |-> 0]

Init ==
  /\ truth \in -Reach .. Reach /\ early \in Early /\ given \in Early
  /\ quiet \in {{}} \cup {{q} : q \in 0 .. PulseLen - 1}
  /\ clicks \in {{}} \cup {{c} : c \in 0 .. Total - 1}
  /\ signal = {} /\ pcm = {} /\ length = 0 /\ answer = NoAnswer

MakeSignal ==
  /\ signal = {} /\ signal' = Signal(quiet)
  /\ UNCHANGED <<truth, early, quiet, clicks, given, pcm, length, answer>>

\* Burnt and read back by the drive; the read may come back short.
BurnAndRead ==
  /\ signal # {} /\ length = 0
  /\ length' \in {Total - 1, Total}
  /\ pcm' = {j \in 0 .. length' - 1 : j - early - truth \in signal \/ j \in clicks}
  /\ UNCHANGED <<truth, early, quiet, clicks, given, signal, answer>>

Measure ==
  /\ length > 0 /\ answer = NoAnswer
  /\ answer' = Locate
  /\ UNCHANGED <<truth, early, quiet, clicks, given, signal, pcm, length>>

Next == MakeSignal \/ BurnAndRead \/ Measure
Spec == Init /\ [][Next]_vars

------------------------------------------------------------------------------
(* Properties.                                                             *)

TypeOK ==
  /\ signal \cup pcm \subseteq 0 .. Total - 1 /\ length \in {0, Total - 1, Total}
  /\ answer.rc \in {"none", "ok", "inval", "notfound", "ambiguous"}

\* write_offset.c: "a lone spike, which is the failure that would otherwise silently
\* move the answer", and "a quiet leading pair would bias A and B identically".  An
\* offset that is reported is the drive's, whatever one click and one quiet sample do,
\* and off by no more than the caller's own read offset is wrong.  (A displacement
\* beyond the search window, of which the window catches the tail of both bursts, is
\* reported as the window's edge.)
OffsetIsTrue ==
  answer.rc = "ok" /\ truth + early - given >= -Reach => answer.offset = truth + early - given

\* With nothing in the way an offset within reach is found.
CleanIsFound ==
  /\ answer.rc \notin {"none", "inval"}
  /\ clicks = {} /\ early = given /\ truth < Reach
  /\ \A i \in signal : i + truth + early \in 0 .. Total - 1
  => answer.rc = "ok"
=============================================================================
