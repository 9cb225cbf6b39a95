---------------------------- MODULE SpeedLadder ----------------------------
(***************************************************************************)
(* accudisc_probe_speed_ladder (src/drive/speeds.c): which of a drive's    *)
(* speed settings are real.  Each candidate is timed in windows of its own *)
(* - one, or one in each of three bands of the disc - and judged.  Rates   *)
(* are what the clock said; lengths and rates are small numbers.           *)
(***************************************************************************)
EXTENDS Integers, Sequences, FiniteSets

CONSTANTS
  Probes,      \* what callers ask: [count, candidates, points]
  Chunk,       \* SPEEDS_CHUNK
  MinSectors,  \* SPEEDS_MIN_SECTORS
  MaxSectors,  \* SPEEDS_MAX_SECTORS
  PerSecond,   \* the 75 sectors of a second at 1x
  K,           \* SPEEDS_ADMIT_K
  Noise,       \* SPEEDS_ADMIT_NOISE_CX
  Rates        \* what a window may measure; 0 is a window that did not read

\* What the constants must satisfy; an instance assumes it.
LadderAssumption ==
  /\ \A p \in Probes : p.count \in Nat /\ p.candidates \in Seq(Nat) /\ p.points \in Nat
  /\ {Chunk, MinSectors, MaxSectors, PerSecond, K, Noise} \subseteq Nat /\ Rates \subseteq Nat

VARIABLES probe, step, rung, bands, read, rungs, result
ladder == <<probe, step, rung, bands, read, rungs, result>>

Best(S) == CHOOSE x \in S : \A y \in S : x <= y
Worst(S) == CHOOSE x \in S : \A y \in S : y <= x

------------------------------------------------------------------------------
(* adsc_speeds_layout: bands of slots, one slot for each candidate.        *)

N == Len(probe.candidates)
Slot == probe.count \div (probe.points * N)
Band == Slot * N
Fits == N > 0 /\ probe.points \in {1, 3} /\ Slot >= MinSectors + Chunk

\* What is timed, past the warm-up: a second's worth, between the bounds, and never
\* more than is left of the slot.
Room_Bug == Slot
Room == Slot - Chunk

Want(i) ==
  LET second == probe.candidates[i] * PerSecond
  IN  Best({Room, MaxSectors, Worst({second, MinSectors})})

Window(i, b) == LET from == b * Band + (i - 1) * Slot IN from .. from + Chunk + Want(i) - 1

------------------------------------------------------------------------------
(* adsc_speeds_admit.  A rung is [requested, reported, measured, min, max,  *)
(* verdict, equiv].                                                         *)

\* radius_step_cx: what one window's distance accounts for.
RadiusStep(r) == IF r.max <= r.min THEN 0 ELSE (r.max - r.min) \div ((probe.points - 1) * N)

Margin(r, best) == Worst({K * Worst({RadiusStep(r), RadiusStep(best)}), Noise})

Judged(r, best) ==
  CASE r.measured = 0                              -> [r EXCEPT !.verdict = "unknown"]
    [] r.measured # 0 /\ r.reported # 0 /\ r.reported < r.requested
                                                   -> [r EXCEPT !.verdict = "quantized", !.equiv = r.reported]
    [] OTHER -> IF best.verdict # "admitted" \/ r.measured - best.measured > Margin(r, best)
                THEN [r EXCEPT !.verdict = "admitted"]
                ELSE [r EXCEPT !.verdict = "duplicate", !.equiv = best.requested]

NoRung == [requested |-> 0, reported |-> 0, measured |-> 0, min |-> 0, max |-> 0,
           verdict |-> "unknown", equiv |-> 0]

\* The walk, slowest setting first, the caller's order breaking ties.
Slowest(rs, left) ==
  CHOOSE i \in left : \A j \in left :
    rs[i].requested < rs[j].requested \/ (rs[i].requested = rs[j].requested /\ i <= j)

Judge(acc, i) ==
  LET r == Judged(acc.rungs[i], acc.best)
  IN  [rungs |-> [acc.rungs EXCEPT ![i] = r],
       best  |-> IF r.verdict = "admitted" THEN r ELSE acc.best,
       left  |-> acc.left \ {i}]

Admit(rs) ==
  LET walk[k \in 0 .. Len(rs)] ==
        IF k = 0 THEN [rungs |-> rs, best |-> NoRung, left |-> DOMAIN rs]
        ELSE Judge(walk[k - 1], Slowest(rs, walk[k - 1].left))
  IN  IF probe.points < 2 THEN rs ELSE walk[Len(rs)].rungs

------------------------------------------------------------------------------
(* The probe.                                                              *)

Init ==
  /\ probe \in Probes /\ step = "start" /\ rung = 1 /\ bands = << >>
  /\ read = << >> /\ rungs = << >> /\ result = "none"

Layout ==
  /\ step = "start"
  /\ IF Fits THEN step' = "time" /\ UNCHANGED result ELSE step' = "done" /\ result' = "inval"
  /\ UNCHANGED <<probe, rung, bands, read, rungs>>

\* The warm-up and the timed stretch of one band, one window of the span.
TimeBand ==
  /\ step = "time" /\ rung <= N /\ Len(bands) < probe.points
  /\ \E rate \in Rates : bands' = Append(bands, rate)
  /\ read' = Append(read, Window(rung, Len(bands)))
  /\ UNCHANGED <<probe, step, rung, rungs, result>>

\* The middle band stands for the rung; one failed band withdraws the gradient.
EndRung ==
  /\ step = "time" /\ rung <= N /\ Len(bands) = probe.points
  /\ LET rates == {bands[b] : b \in DOMAIN bands}
         whole == probe.points > 1 /\ 0 \notin rates
     IN  \E said \in {0, 1, probe.candidates[rung]} :
           rungs' = Append(rungs,
             [NoRung EXCEPT !.requested = probe.candidates[rung], !.reported = said,
                            !.measured = bands[(probe.points \div 2) + 1],
                            !.min = IF whole THEN Best(rates) ELSE 0,
                            !.max = IF whole THEN Worst(rates) ELSE 0])
  /\ rung' = rung + 1 /\ bands' = << >>
  /\ result' = IF \E b \in DOMAIN bands : bands[b] # 0 THEN "ok" ELSE result
  /\ UNCHANGED <<probe, step, read>>

\* Not one window anywhere: the drive's error, and no verdicts.
Finish ==
  /\ step = "time" /\ rung > N
  /\ IF result = "ok" THEN rungs' = Admit(rungs) /\ UNCHANGED result
                      ELSE result' = "error" /\ UNCHANGED rungs
  /\ step' = "done"
  /\ UNCHANGED <<probe, rung, bands, read>>

Probed == step = "done" /\ UNCHANGED ladder

Next == Layout \/ TimeBand \/ EndRung \/ Finish \/ Probed
Spec == Init /\ [][Next]_ladder

------------------------------------------------------------------------------
(* Properties.                                                             *)

TypeOK ==
  /\ step \in {"start", "time", "done"} /\ result \in {"none", "inval", "ok", "error"}
  /\ rung \in 1 .. N + 1 /\ Len(bands) <= probe.points
  /\ \A i \in DOMAIN rungs : rungs[i].verdict \in {"unknown", "admitted", "duplicate", "quantized"}

\* internal.h, on the layout: "all points*ncand of them are disjoint - which is the
\* whole cache-freshness guarantee"; and none leaves the caller's span.
WindowsAreFresh ==
  /\ \A i, j \in DOMAIN read : i # j => read[i] \cap read[j] = {}
  /\ \A i \in DOMAIN read : read[i] \subseteq 0 .. probe.count - 1

Admitted == {i \in DOMAIN rungs : rungs[i].verdict = "admitted"}

\* accudisc.h: "the LOWEST setting achieving a given rate is the one kept", whatever
\* order the caller named them in: a faster admitted setting is faster, and one that
\* is left out as a duplicate is no faster than the slower one it is sent to.
LadderIsDistinct ==
  step = "done" =>
    /\ \A i, j \in Admitted : rungs[i].requested < rungs[j].requested =>
         rungs[j].measured > rungs[i].measured + Noise
    /\ \A d \in DOMAIN rungs : rungs[d].verdict = "duplicate" =>
         \E a \in Admitted : /\ rungs[a].requested = rungs[d].equiv
                             /\ rungs[a].requested <= rungs[d].requested
                             /\ rungs[d].measured <= rungs[a].measured + Margin(rungs[d], rungs[a])

\* accudisc.h, of min_cx and max_cx: "no verdict is possible without them".
NoVerdictWithoutInterval ==
  \A i \in DOMAIN rungs : rungs[i].verdict \in {"admitted", "duplicate"} => rungs[i].max > 0
=============================================================================
