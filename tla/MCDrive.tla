------------------------------ MODULE MCDrive ------------------------------
(* The calls that ask things of the drive, one component at a time: subject names
   the one that runs.  Handle has its own variables; the others share r1 .. r16.

   Handle: shared objects that load and match, one of them without a settings
   report, that load and do not match, and that match and do not load; two samples,
   commands and polls of each loop.
   ReadCd: reads of one sector, where nothing can be known of an order, and of
   four, the fewest whose framing is judged, with and without C2 and subchannel,
   through one handle.  SpeedLadder: spans that hold no window, just the windows and
   more, candidates out of order and twice the same.  C2Lag: lags of every value in
   the search, clustered, symmetric and edge damage, and flags that never move.
   ReadSpeed: three chunks, so that one is held back and one is last; ladders of
   none to three rungs, one of them the pass speed, against four attempts.
   WriteParams, Verify, Subchannel and WriteOffset make one call of a drive and
   return; their inputs are beside their instances below. *)
EXTENDS Handle, Sequences, TLC

CONSTANTS
  C2s, Subs, Lengths,                                              \* ReadCd's
  Probes, SlotChunk, MinSectors, MaxSectors, PerSecond,
  K, Noise, Rates,                                                 \* SpeedLadder's
  LagDrives, SectorPairs, MaxShift, LagChunk, RunUp, MaxWindows, WindowReads,
  MinFlags, MinTp, MinDiffs, MinPeak, MinContrast,                 \* C2Lag's
  Requests, Chunks, Attempts,                                      \* ReadSpeed's
  Pages, Claims,                                                   \* WriteParams'
  Burns, Values, Spb, Count, Extra, AnchorLen, ShiftMax, MinDistinct,
  BadUnit, BadKeep, SepDiv,                                        \* Verify's
  QDiscs, QOptions, Speeds, ScanFrames, CleanFrames,
  ScanChunk, ScanBudget,                                           \* Subchannel's
  PulseA, PulseB, PulseLen, Total, SearchReach, RunLen, RunMin, Early    \* WriteOffset's

MCRequests == [speed : {0, 8}, ladder : {<< >>, <<4>>, <<4, 8>>, <<16, 4, 4>>}]

VARIABLES subject, r1, r2, r3, r4, r5, r6, r7, r8, r9, r10, r11, r12, r13, r14, r15, r16
regs == <<r1, r2, r3, r4, r5, r6, r7, r8, r9, r10, r11, r12, r13, r14,
          r15, r16>>

Rcd == INSTANCE ReadCd WITH
  order <- r1, pads <- r2, refuses <- r3, xfer_exact <- r4, layout <- r5, cap <- r6,
  step <- r7, c2 <- r8, sub <- r9, nsec <- r10, xfer <- r11, rc <- r12,
  transients <- r13, timed_out <- r14, fault <- r15, got <- r16

MCProbes ==
  {[count |-> n, candidates |-> c, points |-> p] :
    n \in {9, 18, 30, 63}, c \in {<<4, 2>>, <<2, 2>>, <<8>>}, p \in {1, 3}}

Spd == INSTANCE SpeedLadder WITH
  Chunk <- SlotChunk,
  probe <- r1, step <- r2, rung <- r3, bands <- r4, read <- r5, rungs <- r6, result <- r7

MCLagDrives ==
  {[lag |-> l, span |-> n, damage |-> (s :> d), steady |-> k] :
    l \in -2 .. 2, n \in {3, 5}, s \in {0, 2},
    d \in {{5}, {4, 6}, {5, 6, 7}, {4, 5, 6, 7}, {0, 1, 5}}, k \in {{}, {6}, {5, 6}}}

Lag == INSTANCE C2Lag WITH
  Drives <- LagDrives, Chunk <- LagChunk,
  drive <- r1, phase <- r2, pos <- r3, windows <- r4, reads <- r5, acc <- r6, verdict <- r7

Pace == INSTANCE ReadSpeed WITH
  req <- r1, at <- r2, left <- r3, attempt <- r4, may_anchor <- r5, cur_speed <- r6,
  speed_dirty <- r7, drive <- r8, asked <- r9, noop <- r10, last <- r11, rc <- r12

------------------------------------------------------------------------------
(* WriteParams: drives that hold each burn field, or not; pages cut short of       *)
(* their fields, and longer than the capture.                                      *)

Page(type, test, bufe, multi) ==
  [type |-> type, test |-> test, bufe |-> bufe, multi |-> multi, block |-> 0,
   format |-> multi, rest |-> 0]

MCPages == {Page(0, FALSE, FALSE, 0), Page(2, TRUE, TRUE, 0), Page(0, TRUE, FALSE, 1)}

Wpr == INSTANCE WriteParams WITH
  held <- r1, claim <- r2, use <- r3, want <- r4, pc <- r5, rt <- r6, first <- r7,
  answers <- r8, bad <- r9, history <- r10

------------------------------------------------------------------------------
(* Verify: every source of ten samples at three displacements, read well; and three *)
(* sources with a wrong sample or an unreadable sector anywhere, under every tier. *)

Vfy == INSTANCE Verify WITH
  Anchor <- AnchorLen,
  source <- r1, truth <- r2, wrong <- r3, unreadable <- r4, want <- r5, require <- r6,
  at <- r7, tier <- r8, c2 <- r9, anchor <- r10, next <- r11, res <- r12, rc <- r13

Mixed == {<<0,1,1,0,1,0,0,0,0,1>>, <<1,0,0,1,1,0,1,0,0,0>>, <<0,0,0,0,1,1,0,1,0,1>>}
Burn(source, truth, wrong, unreadable, want, require) ==
  [source |-> source, truth |-> truth, wrong |-> wrong, unreadable |-> unreadable,
   want |-> want, require |-> require]
MCBurns ==
  {Burn(w, t, {}, {}, 0, 0) : w \in [0 .. 9 -> {0, 1}], t \in {-2, 0, 1}}
  \cup {Burn([i \in 0 .. 9 |-> w[i + 1]], t, x, u, q[1], q[2]) :
          w \in Mixed, t \in {-2, 0, 1}, x \in {{}} \cup {{i} : i \in 0 .. 9},
          u \in {{}} \cup {{s} : s \in 0 .. 4}, q \in {q \in (0 .. 2) \X (0 .. 2) : q[2] <= q[1]}}

VerifyInit ==
  /\ \E b \in Burns :
       /\ r1 = b.source /\ r2 = b.truth /\ r3 = b.wrong
       /\ r4 = b.unreadable /\ r5 = b.want /\ r6 = b.require
  /\ Vfy!CallInit

------------------------------------------------------------------------------
(* Subchannel: a pregap of none to five frames before the second of two tracks,    *)
(* with codes and damage before the boundary, windows shorter and longer than it.  *)

MCQDiscs ==
  {[starts |-> <<0, 7>>, gaps |-> <<0, g>>, codes |-> c, bad |-> b] :
     g \in 0 .. 5, c \in {{}, {6}, {3}, {5, 6}, {1, 4}}, b \in SUBSET (3 .. 6)}
MCQOptions ==
  {[window |-> 3, tail |-> 1, speed |-> 0], [window |-> 8, tail |-> 2, speed |-> 0],
   [window |-> 5, tail |-> 1, speed |-> 8]}

Sub == INSTANCE Subchannel WITH
  Discs <- QDiscs, Options <- QOptions, Chunk <- ScanChunk, Budget <- ScanBudget,
  disc <- r1, opts <- r2, speed <- r3, prior <- r4, track <- r5, maps <- r6, pc <- r7, code <- r8

------------------------------------------------------------------------------
(* WriteOffset: bursts of four samples at 6 and 16 of 23, every displacement up to *)
(* three, one click anywhere and one quiet sample.                                 *)

MCEarly == {-1, 0, 2}

Wof == INSTANCE WriteOffset WITH
  Reach <- SearchReach,
  truth <- r1, early <- r2, quiet <- r3, clicks <- r4, given <- r5, signal <- r6, pcm <- r7,
  length <- r8, answer <- r9

------------------------------------------------------------------------------

ASSUME DriveAssumption ==
  /\ Rcd!ReadCdAssumption /\ Spd!LadderAssumption /\ Lag!LagAssumption /\ Pace!SpeedAssumption
  /\ Wpr!PagesAssumption /\ Vfy!VerifyAssumption /\ \A b \in Burns : Vfy!IsBurn(b)
  /\ Sub!ScanAssumption /\ Wof!SignalAssumption

HandleStep(A) == subject = "handle" /\ A /\ UNCHANGED <<subject, regs>>
Turn(name, A) == subject = name /\ A /\ UNCHANGED <<subject, vars>>

\* What a component does not use rests.
Rest ==
  /\ r8 = 0 /\ r9 = 0 /\ r10 = 0 /\ r11 = 0 /\ r12 = 0
  /\ r13 = 0 /\ r14 = 0 /\ r15 = 0 /\ r16 = 0

MCInit ==
  \/ /\ subject = "handle" /\ Init
     /\ r1 = 0 /\ r2 = 0 /\ r3 = 0 /\ r4 = 0 /\ r5 = 0 /\ r6 = 0 /\ r7 = 0 /\ Rest
  \/ /\ Init /\ spd
     /\ \/ subject = "read_cd" /\ Rcd!Init
        \/ subject = "speeds" /\ Spd!Init /\ Rest
        \/ subject = "c2lag" /\ Lag!Init /\ Rest
        \/ subject = "read_speed" /\ Pace!Init /\ r13 = 0 /\ r14 = 0 /\ r15 = 0 /\ r16 = 0
        \/ /\ r14 = 0 /\ r15 = 0 /\ r16 = 0
           /\ \/ subject = "verify" /\ VerifyInit
              \/ subject = "params" /\ Wpr!Init /\ r11 = 0 /\ r12 = 0 /\ r13 = 0
              \/ subject = "subchannel" /\ Sub!Init
                 /\ r9 = 0 /\ r10 = 0 /\ r11 = 0 /\ r12 = 0 /\ r13 = 0
              \/ subject = "offset" /\ Wof!Init /\ r10 = 0 /\ r11 = 0 /\ r12 = 0 /\ r13 = 0

\* Calls that return, and are not made again.
Over == subject \in {"verify", "params", "subchannel", "offset"} /\ UNCHANGED <<subject, vars, regs>>

MCNext ==
  \/ HandleStep(Next)
  \/ Turn("read_cd", Rcd!Next)
  \/ Turn("speeds", Spd!Next) /\ UNCHANGED <<r8, r9, r10, r11, r12, r13, r14, r15, r16>>
  \/ Turn("c2lag", Lag!Next) /\ UNCHANGED <<r8, r9, r10, r11, r12, r13, r14, r15, r16>>
  \/ Turn("read_speed", Pace!Next) /\ UNCHANGED <<r13, r14, r15, r16>>
  \/ Turn("verify", Vfy!Next) /\ UNCHANGED <<r14, r15, r16>>
  \/ Turn("params", Wpr!Next) /\ UNCHANGED <<r11, r12, r13, r14, r15, r16>>
  \/ Turn("subchannel", Sub!Next) /\ UNCHANGED <<r9, r10, r11, r12, r13, r14, r15, r16>>
  \/ Turn("offset", Wof!Next) /\ UNCHANGED <<r10, r11, r12, r13, r14, r15, r16>>
  \/ Over

MCSpec == MCInit /\ [][MCNext]_<<subject, vars, regs>>

\* The type invariants of all nine.
TypesOK ==
  /\ TypeOK
  /\ subject = "read_cd" => Rcd!TypeOK
  /\ subject = "speeds" => Spd!TypeOK
  /\ subject = "c2lag" => Lag!TypeOK
  /\ subject = "read_speed" => Pace!TypeOK
  /\ subject = "verify" => Vfy!TypeOK
  /\ subject = "params" => Wpr!TypeOK
  /\ subject = "subchannel" => Sub!TypeOK
  /\ subject = "offset" => Wof!TypeOK

\* ReadCd (mmc.c): what a handle has learnt of its drive is so: the order of its
\* records; that rounded lengths work; and that they do not, as far as errors that
\* pass are time-outs or the disc's.
LearntIsTrue ==
  subject = "read_cd" => Rcd!LatchIsTrue /\ Rcd!ProvenIsTrue /\ Rcd!TimeoutIsForgotten
\* ReadCd (mmc.c, layout.c): records come in MMC order and in place, as far as the
\* buffer shows; and one sector that nothing is wrong with is always read.
RecordsInPlace == subject = "read_cd" => Rcd!RecordsInPlace /\ Rcd!OneSectorReadWorks
\* SpeedLadder (speeds.c): no timing window meets another or leaves the span, and
\* the settings admitted are of distinct speeds, the lowest of each.
WindowsAreFresh == subject = "speeds" => Spd!WindowsAreFresh /\ Spd!LadderIsDistinct
\* C2Lag (c2lag.c): a lag that is reported is the drive's.
LagIsTrue == subject = "c2lag" => Lag!LagIsTrue
\* ReadSpeed (engine.c): what streams is asked for at the pass speed and what is reread
\* at its rung, and a read that was not cut short leaves the pass speed.
PassSpeedKept == subject = "read_speed" => Pace!PassSpeedKept
\* WriteParams (wparams.c, wparamsprobe.c): a page that is said to be held is the
\* page the drive applied, the probe puts back what it found, and a burn that passes
\* the check fires the laser exactly when it should.
PageIsWhatWasAsked ==
  subject = "params" => Wpr!HeldMeansApplied /\ Wpr!RestoreIsPop /\ Wpr!CheckedIsTheBurn
\* Verify (verify.c): the displacement found is the true one, every sample the source
\* reaches there is compared once, and the tier named is the question answered.
VerdictIsTrue ==
  subject = "verify" => Vfy!AlignedIsTrue /\ Vfy!ComparedExactly /\ Vfy!TierIsAnswered
\* Subchannel (index_map.c, pregap_scan.c): no pregap is guessed into or out of
\* existence at a damaged boundary.
NothingGuessed == subject = "subchannel" => Sub!NothingGuessed
\* WriteOffset (write_offset.c): an offset that is reported is the drive's, and with
\* nothing in the way one is.
OffsetIsTrue == subject = "offset" => Wof!OffsetIsTrue /\ Wof!CleanIsFound

------------------------------------------------------------------------------
(* What the source says and the code does not do: see the README.           *)

\* mmc.c: "1 = the transport refused rounding on this handle".
ExactOnlyIfRefused == subject = "read_cd" => Rcd!ExactOnlyIfRefused
\* accudisc.h: "refuse with ACCUDISC_ERR_UNSUPPORTED below this".
RequiredTierHeld == subject = "verify" => Vfy!RequiredTierHeld
\* accudisc.h: "ACCUDISC_BURNPROOF_OFF 1 /* never".
OffMeansOff == subject = "params" => Wpr!OffMeansOff
\* ReadSpeed: accudisc.h on speed_x, of every exit.
EveryExitAtPassSpeed == subject = "read_speed" => Pace!EveryExitAtPassSpeed
==============================================================================
