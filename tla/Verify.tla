------------------------------- MODULE Verify -------------------------------
(***************************************************************************)
(* accudisc_verify (src/write/verify.c): which tier can be delivered, where *)
(* the audio sits on the disc, the comparison at that displacement, and the *)
(* census that answers the last tier.                                      *)
(*                                                                         *)
(* A sample is a value of a small set.  The disc holds the source displaced *)
(* by a true shift, with some samples burnt wrong, and zeros where the      *)
(* source does not reach; a sector the drive cannot read is delivered as    *)
(* zeros (src/read/engine.c), and only counted.                             *)
(***************************************************************************)
EXTENDS Integers, FiniteSets

CONSTANTS
  Values,       \* sample values, 0 among them
  Spb,          \* SAMPLES_PER_SECTOR
  Count,        \* sectors of the span, which starts at sector 0
  Extra,        \* samples of the source beyond the span
  Anchor,       \* VERIFY_ANCHOR_SECTORS
  ShiftMax,     \* ACCUDISC_VERIFY_SHIFT_MAX
  MinDistinct,  \* ANCHOR_MIN_DISTINCT
  BadUnit, BadKeep,  \* ANCHOR_MAX_BAD_PCT: BadKeep of every BadUnit samples
  SepDiv        \* ANCHOR_SEP_DIV

\* What the constants must satisfy; an instance assumes it.
VerifyAssumption ==
  /\ 0 \in Values /\ Values \subseteq Nat
  /\ {Spb, Count, Anchor, ShiftMax, BadUnit, SepDiv} \subseteq Nat \ {0}
  /\ {Extra, MinDistinct, BadKeep} \subseteq Nat

VARIABLES
  source, truth, wrong, unreadable,  \* the burn and the disc
  want, require,                     \* the caller's tiers: 0 COMPARE, 1 C2, 2 COUNTERS
  at, tier, c2, anchor, next,        \* the call: where it is, what it has settled
  res, rc                            \* accudisc_verify_result; what is returned

disc == <<source, truth, wrong, unreadable, want, require>>
vars == <<disc, at, tier, c2, anchor, next, res, rc>>

N == Count * Spb + Extra
SourceSamples == 0 .. Count * Spb - 1

\* What the drive delivers at sample i of the span.
Delivered(i) ==
  IF i \div Spb \in unreadable \/ i + truth \notin 0 .. N - 1 THEN 0
  ELSE IF i \in wrong THEN 1 - source[i + truth] ELSE source[i + truth]

NoResult == [tier |-> 0, degraded |-> FALSE, aligned |-> FALSE, shift |-> 0,
             compared |-> 0, differing |-> 0, first |-> -1, hard |-> 0, census |-> FALSE]

\* A burn and what is asked of it.  A caller that requires more than it wants is
\* refused before anything is read.
IsBurn(b) ==
  /\ b.source \in [0 .. N - 1 -> Values] /\ b.truth \in -ShiftMax .. ShiftMax
  /\ b.wrong \in SUBSET SourceSamples /\ b.unreadable \in SUBSET (0 .. Count - 1)
  /\ b.want \in 0 .. 2 /\ b.require \in 0 .. b.want
DiscInit ==
  IsBurn([source |-> source, truth |-> truth, wrong |-> wrong, unreadable |-> unreadable,
          want |-> want, require |-> require])

CallInit ==
  /\ at = "counters" /\ tier = want /\ c2 = FALSE /\ anchor = 1 /\ next = 0
  /\ res = NoResult /\ rc = "ok"

Init == DiscInit /\ CallInit

Lower(a, b) == IF a < b THEN a ELSE b

------------------------------------------------------------------------------
(* Alignment.                                                              *)

AnchorSectors == Lower(Count, Anchor)
AnchorSamples == AnchorSectors * Spb

\* The middle first, then a third in, then the head.
Positions ==
  << IF Count > 2 * Anchor THEN Count \div 2 - Anchor \div 2 ELSE 0,
     IF Count > 3 * Anchor THEN Count \div 3 ELSE 0,
     0 >>

Base(p) == Positions[p] * Spb
Window(p) == Base(p) .. Base(p) + AnchorSamples - 1

\* Silence, and anything else too uniform to tell one shift from another.
Flat(p) == Cardinality({Delivered(i) : i \in Window(p)}) < MinDistinct

\* The part of the source the search looks at must leave it a choice.
WindowLow(p)  == IF Base(p) > ShiftMax THEN Base(p) - ShiftMax ELSE 0
WindowHigh(p) == Lower(N, Base(p) + AnchorSamples + ShiftMax)
Searchable(p) == WindowHigh(p) > WindowLow(p) + AnchorSamples

Evaluable(p, s) == Base(p) + s >= 0 /\ Base(p) + s + AnchorSamples <= N
Mismatches(p, s) == Cardinality({i \in Window(p) : Delivered(i) # source[i + s]})

Unset == AnchorSamples + 1

\* One turn of score_shifts' loop: a shift is given up once it has as many
\* mismatches as the second best.
Score(p, acc, s) ==
  IF ~Evaluable(p, s) THEN acc
  ELSE LET bad == Lower(Mismatches(p, s), acc.second) IN
       CASE bad < acc.best   -> [best |-> bad, second |-> acc.best, shift |-> s]
         [] bad >= acc.best /\ bad < acc.second -> [acc EXCEPT !.second = bad]
         [] OTHER            -> acc

\* score_shifts: the shifts in order, from the first to the last.
Scores(p) ==
  LET acc[k \in 0 .. 2 * ShiftMax + 1] ==
        IF k = 0 THEN [best |-> Unset, second |-> Unset, shift |-> 0]
        ELSE Score(p, acc[k - 1], k - 1 - ShiftMax)
  IN  acc[2 * ShiftMax + 1]

Accepted_Bug(sc) == sc.best # Unset /\ sc.best <= (AnchorSamples \div BadUnit) * BadKeep
Accepted(sc) ==
  /\ sc.best # Unset
  /\ sc.best <= (AnchorSamples \div BadUnit) * BadKeep
  /\ sc.second = Unset \/ sc.second >= sc.best + AnchorSamples \div SepDiv

------------------------------------------------------------------------------
(* The call.                                                               *)

Return(code) == at' = "done" /\ rc' = code

\* Arming the counters is no evidence that they can be read: both must work.
ResolveCounters ==
  /\ at = "counters"
  /\ at' = "c2"
  /\ IF tier < 2 THEN UNCHANGED tier ELSE tier' \in {1, 2}
  /\ UNCHANGED <<disc, c2, anchor, next, res, rc>>

\* The probe of the features says whether C2 is really there.  What is left is
\* held against what the caller requires.
ResolveC2 ==
  /\ at = "c2"
  /\ \/ tier = 0 /\ UNCHANGED <<tier, c2>>
     \/ tier > 0 /\ tier' = 0 /\ UNCHANGED c2
     \/ tier > 0 /\ UNCHANGED tier /\ c2' = TRUE
  /\ IF tier' < require
     THEN Return("unsupported") /\ UNCHANGED res
     ELSE /\ at' = "align" /\ UNCHANGED rc
          /\ res' = [res EXCEPT !.tier = tier', !.degraded = tier' < want]
  /\ UNCHANGED <<disc, anchor, next>>

\* The next of the three anchors, or none left.
NextAnchor ==
  /\ IF anchor = 3 THEN Return("ok") ELSE at' = at /\ rc' = rc
  /\ anchor' = IF anchor = 3 THEN 3 ELSE anchor + 1
  /\ UNCHANGED res

\* align_span.  A window that reads badly, says nothing or settles nothing is
\* passed over; unaligned, there is no comparison.
TryAnchor ==
  /\ at = "align"
  /\ \/ NextAnchor                                   \* the read failed
     \/ IF Positions[anchor] + AnchorSectors > Count \/ Flat(anchor) \/ ~Searchable(anchor)
        THEN NextAnchor
        ELSE LET sc == Scores(anchor) IN
             IF Accepted(sc)
             THEN /\ res' = [res EXCEPT !.aligned = TRUE, !.shift = sc.shift]
                  /\ at' = "compare"
                  /\ UNCHANGED <<anchor, rc>>
             ELSE NextAnchor
     \/ Return("io") /\ UNCHANGED <<anchor, res>>    \* the source file, or no memory
  /\ UNCHANGED <<disc, tier, c2, next>>

\* cmp_sink on sector k: the part of it the source reaches at this displacement.
Clip_Bug(j) == [skip |-> IF j < 0 THEN -j ELSE 0,
                n    |-> IF j + Spb > N THEN N - j ELSE Spb]
Clip(j) == [skip |-> IF j < 0 THEN -j ELSE 0,
            n    |-> (IF j + Spb > N THEN N - j ELSE Spb) - (IF j < 0 THEN -j ELSE 0)]

CompareSector(k) ==
  LET c    == Clip(k * Spb + res.shift)
      seen == IF c.n > 0 THEN k * Spb + c.skip .. k * Spb + c.skip + c.n - 1 ELSE {}
      diff == {i \in seen : LET j == i + res.shift IN
                 IF i \in SourceSamples /\ j \in 0 .. N - 1 THEN Delivered(i) # source[j] ELSE TRUE}
  IN  [res EXCEPT !.compared = @ + Cardinality(seen),
                  !.differing = @ + Cardinality(diff),
                  !.first = IF @ < 0 /\ diff # {} THEN k ELSE @]

\* The compare read delivers the sectors in order, the unreadable ones too.
Compare ==
  /\ at = "compare" /\ next < Count
  /\ \/ /\ res' = CompareSector(next)
        /\ next' = next + 1
        /\ UNCHANGED <<at, rc>>
     \/ Return("canceled") /\ UNCHANGED <<next, res>>   \* or the source will not read
  /\ UNCHANGED <<disc, tier, c2, anchor>>

Compared ==
  /\ at = "compare" /\ next = Count
  /\ IF tier = 2 THEN at' = "census" /\ UNCHANGED rc ELSE Return("ok")
  /\ res' = IF tier > 0 THEN [res EXCEPT !.hard = Cardinality(unreadable)] ELSE res
  /\ UNCHANGED <<disc, tier, c2, anchor, next>>

\* A census that fails, or is cancelled, takes its tier with it and nothing else.
AfterFailedCensus_Bug(r) == r
AfterFailedCensus(r) == [r EXCEPT !.tier = 1, !.degraded = TRUE]

Census ==
  /\ at = "census"
  /\ \/ res' = [res EXCEPT !.census = TRUE]
     \/ res' = AfterFailedCensus(res)
  /\ Return("ok")
  /\ UNCHANGED <<disc, tier, c2, anchor, next>>

Step == ResolveCounters \/ ResolveC2 \/ TryAnchor \/ Compare \/ Compared \/ Census
Next == Step

Spec == Init /\ [][Next]_vars

------------------------------------------------------------------------------
(* Properties.                                                             *)

TypeOK ==
  /\ at \in {"counters", "c2", "align", "compare", "census", "done"}
  /\ tier \in 0 .. want /\ c2 \in BOOLEAN /\ anchor \in 1 .. 3 /\ next \in 0 .. Count
  /\ rc \in {"ok", "unsupported", "io", "canceled"}
  /\ res.tier \in 0 .. want /\ res.shift \in -ShiftMax .. ShiftMax

\* verify.c: "Digital silence matches at EVERY shift".  Where fewer samples of the
\* anchor are wrong than a runner-up must be worse by, the displacement found is
\* the true one, or none is.
AlignedIsTrue ==
  LET spoilt == {i \in Window(anchor) : i \in wrong \/ i \div Spb \in unreadable}
  IN  res.aligned /\ Evaluable(anchor, truth)
        /\ Cardinality(spoilt) < AnchorSamples \div SepDiv => res.shift = truth

\* verify.c: "a sample we never looked at must never appear in the denominator".
\* At the displacement found, every sample the source reaches is compared once,
\* whichever sectors the displacement cuts, and no other is.
ComparedExactly ==
  at = "done" /\ rc = "ok" /\ res.aligned =>
    LET reached == {i \in SourceSamples : i + res.shift \in 0 .. N - 1}
        diff    == {i \in reached : Delivered(i) # source[i + res.shift]}
    IN  /\ res.compared = Cardinality(reached)
        /\ res.differing = Cardinality(diff)
        /\ IF diff = {} THEN res.first = -1
           ELSE \E i \in diff : res.first = i \div Spb /\ \A j \in diff : i <= j \/ j \div Spb = i \div Spb

\* The tier a result names is the question it answers: counters only from a census
\* that worked, C2 only from a read that asked for it, and "degraded" exactly when
\* it is less than was wanted.
TierIsAnswered ==
  at = "done" /\ rc = "ok" =>
    /\ res.aligned /\ res.tier = 2 => res.census
    /\ res.tier > 0 => c2
    /\ res.degraded <=> res.tier < want

\* accudisc.h, on require_tier: "refuse with ACCUDISC_ERR_UNSUPPORTED below this".
RequiredTierHeld == at = "done" /\ rc = "ok" => res.tier >= require

\* accudisc.h, on tier 0: "does the disc read back as the bytes I sent?".  A result
\* without a difference is about sectors that were read.
NoDifferenceMeansRead ==
  at = "done" /\ rc = "ok" /\ res.aligned /\ res.differing = 0 /\ res.hard = 0 =>
    unreadable = {}
=============================================================================
