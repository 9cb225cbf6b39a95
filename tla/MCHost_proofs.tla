----------------------------- MODULE MCHost_proofs -----------------------------
(***************************************************************************)
(* Proofs about the library's threads and calls as MCHost composes them,   *)
(* for any quotas, any ring and FIFO, any range read, any source and any   *)
(* disc.  First accudisc_write and adsc_write_run, whatever the drive      *)
(* does: when the laser fires, what the drive holds at which address, what *)
(* a call leaves behind, and what its success and the budget mean.  Then   *)
(* readiness and the AccuBuffer, over MCHost's instances of them; the      *)
(* write FIFO has a module of its own, whose theorems are used.            *)
(***************************************************************************)
EXTENDS MCHost, TLAPS, NaturalsInduction, WellFoundedInduction

------------------------------------------------------------------------------
(* The layout of the source.  TrackEnd is recursive: its value at each track is    *)
(* what Ends says, and what holds of all tracks holds by a least counterexample.   *)

LEMMA LessThan == \A k, m \in Nat : k < m => <<k, m>> \in OpToRel(<, Nat)
  BY DEF OpToRel

\* A set of natural numbers that is not empty has a least.
LEMMA LeastNatural ==
  ASSUME NEW I \in SUBSET Nat, I # {}
  PROVE  \E m \in I : \A k \in I : m <= k
<1>1. PICK m \in I : \A k \in I : ~ (<<k, m>> \in OpToRel(<, Nat))
  BY NatLessThanWellFounded, WFMin
<1>2. \A k \in I : ~ (k < m)
  BY <1>1, LessThan
<1>  QED
  BY <1>2

\* The ends of the first n tracks, one after the other.
Ends(g, n) == g = [k \in 0 .. n |-> IF k = 0 THEN 0 ELSE g[k - 1] + Tracks[k]]

\* There are such ends, for any number of tracks.
LEMMA EndsExist == ASSUME NEW n \in Nat PROVE \E g : Ends(g, n)
<1>  DEFINE D == {k \in Nat : ~ \E g : Ends(g, k)}
<1>1. SUFFICES ASSUME D # {} PROVE FALSE
  OBVIOUS
<1>2. PICK m \in D : \A k \in D : m <= k
  BY <1>1, LeastNatural
<1>3. m # 0
  <2>1. Ends([k \in 0 .. 0 |-> 0], 0)
    BY DEF Ends
  <2>  QED
    BY <1>2, <2>1
<1>4. PICK g : Ends(g, m - 1)
  BY <1>2, <1>3
<1>  DEFINE h == [k \in 0 .. m |-> IF k = m THEN g[m - 1] + Tracks[m] ELSE g[k]]
<1>5. Ends(h, m)
  <2>  DEFINE e(k) == IF k = 0 THEN 0 ELSE h[k - 1] + Tracks[k]
  <2>1. ASSUME NEW k \in 0 .. m PROVE h[k] = e(k)
    <3>1. CASE k = m
      BY <1>3, <3>1
    <3>2. CASE k # m
      BY <1>4, <3>2 DEF Ends
    <3>  QED
      BY <3>1, <3>2
  <2>2. h = [k \in 0 .. m |-> e(k)]
    BY <2>1
  <2>  QED
    BY <2>2 DEF Ends
<1>  QED
  BY <1>2, <1>5

\* TrackEnd is the ends of all the tracks.
LEMMA TrackEndIs == ASSUME BurnAssumption PROVE Ends(TrackEnd, Len(Tracks))
<1>1. \E g : Ends(g, Len(Tracks))
  BY EndsExist DEF BurnAssumption
<1>  QED
  BY <1>1, Zenon DEF TrackEnd, Ends

\* TrackEnd adds up: no track ends before the one in front of it.
LEMMA TrackEndAdds ==
  ASSUME BurnAssumption
  PROVE  /\ Len(Tracks) \in Nat /\ TrackEnd[0] = 0
         /\ \A k \in 1 .. Len(Tracks) :
              TrackEnd[k - 1] \in Nat /\ TrackEnd[k] \in Nat /\ TrackEnd[k - 1] <= TrackEnd[k]
<1>1. Len(Tracks) \in Nat /\ \A k \in 1 .. Len(Tracks) : Tracks[k] \in Nat
  BY DEF BurnAssumption
<1>2. /\ TrackEnd[0] = 0
      /\ \A k \in 1 .. Len(Tracks) : TrackEnd[k] = TrackEnd[k - 1] + Tracks[k]
  BY <1>1, TrackEndIs DEF Ends
<1>  DEFINE D == {k \in 0 .. Len(Tracks) : TrackEnd[k] \notin Nat}
<1>3. D = {}
  <2>1. SUFFICES ASSUME D # {} PROVE FALSE
    OBVIOUS
  <2>2. PICK m \in D : \A k \in D : m <= k
    <3>1. D \in SUBSET Nat
      BY <1>1
    <3>  HIDE DEF D
    <3>  QED
      BY <2>1, <3>1, LeastNatural
  <2>3. m # 0
    BY <1>2, <2>2
  <2>4. TrackEnd[m - 1] \in Nat
    BY <1>1, <2>2, <2>3
  <2>  QED
    BY <1>1, <1>2, <2>2, <2>3, <2>4
<1>4. \A k \in 0 .. Len(Tracks) : TrackEnd[k] \in Nat
  BY <1>3
<1>  QED
  BY <1>1, <1>2, <1>4

\* What the track ends come to: some of a track, and no more than is left, is ahead of
\* every sector of the source.
Layout ==
  /\ Total \in Nat
  /\ \A s \in 0 .. Total - 1 : TrackLeft(s) \in 1 .. Total - s

\* What the module assumes of the tracks makes a layout.
LEMMA LayoutHolds ==
  ASSUME BurnAssumption
  PROVE  Layout
<1>  DEFINE n == Len(Tracks)
            In(k, s) == TrackEnd[k - 1] <= s /\ s < TrackEnd[k]
<1>1. n \in Nat /\ \A k \in 0 .. n : TrackEnd[k] \in Nat
  BY TrackEndAdds
<1>2. Total \in Nat
  BY <1>1 DEF Total
\* Whatever track holds s ends no later than the last.
<1>3. ASSUME NEW j \in 0 .. n PROVE TrackEnd[j] <= TrackEnd[n]
  <2>  DEFINE D == {k \in 0 .. n - j : ~ (TrackEnd[j] <= TrackEnd[j + k])}
  <2>1. SUFFICES ASSUME D # {} PROVE FALSE
    <3>1. n - j \in 0 .. n - j /\ j + (n - j) = n
      BY <1>1
    <3>2. TrackEnd[j] <= TrackEnd[j + (n - j)]
      BY <3>1
    <3>  QED
      BY <3>1, <3>2
  <2>2. PICK m \in D : \A k \in D : m <= k
    <3>1. D \in SUBSET Nat
      BY <1>1
    <3>  HIDE DEF D
    <3>  QED
      BY <2>1, <3>1, LeastNatural
  <2>3. m # 0
    BY <1>1, <2>2
  <2>4. TrackEnd[j] <= TrackEnd[j + m - 1]
    <3>1. m - 1 \in 0 .. n - j /\ m - 1 \notin D
      BY <1>1, <2>2, <2>3
    <3>  QED
      BY <1>1, <3>1
  <2>5. j + m \in 1 .. n /\ TrackEnd[j + m - 1] <= TrackEnd[j + m]
    BY <1>1, <2>2, <2>3, TrackEndAdds
  <2>  QED
    BY <1>1, <2>2, <2>4, <2>5
<1>4. ASSUME NEW s \in 0 .. Total - 1 PROVE TrackLeft(s) \in 1 .. Total - s
  <2>1. \E k \in 1 .. n : In(k, s)
    <3>  DEFINE D == {k \in 0 .. n : s < TrackEnd[k]}
    <3>1. n \in D
      BY <1>1, <1>2 DEF Total
    <3>2. PICK m \in D : \A k \in D : m <= k
      <4>1. D \in SUBSET Nat
        BY <1>1
      <4>  HIDE DEF D
      <4>  QED
        BY <3>1, <4>1, LeastNatural
    <3>3. m # 0
      BY <3>2, TrackEndAdds
    <3>4. m - 1 \notin D /\ m - 1 \in 0 .. n
      BY <1>1, <3>2, <3>3
    <3>5. In(m, s)
      BY <1>1, <1>2, <3>2, <3>4
    <3>  QED
      BY <1>1, <3>2, <3>3, <3>5
  <2>  DEFINE k == CHOOSE k \in 1 .. n : In(k, s)
  <2>2. k \in 1 .. n /\ In(k, s)
    BY <2>1
  <2>3. TrackLeft(s) = TrackEnd[k] - s
    BY DEF TrackLeft
  <2>  HIDE DEF k
  <2>4. TrackEnd[k] <= Total /\ TrackEnd[k] \in Nat
    BY <1>1, <1>3, <2>2 DEF Total
  <2>  QED
    BY <1>2, <2>2, <2>3, <2>4
<1>  QED
  BY <1>2, <1>4 DEF Layout

------------------------------------------------------------------------------
(* The invariant.                                                          *)

Leaving == {"done", "abort", "stop", "health"}
Running == Phase \ (Leaving \cup {"idle"})

\* Once the blank check is passed the page has been seen held, and only the next look
\* at it lets the burn go on.
PageKept == at \in {"blank", "opc", "cue"} \cup InSession => page = Wanted

\* What has been found out and done so far in the call.
Progress ==
  /\ at \in {"opc", "check_opc", "cue"} \cup InSession => seen_blank
  /\ at \in {"model", "params", "speed", "check_set", "blank"} => ~calibrated /\ ~burned
  /\ at \in {"opc", "check_opc", "cue"} => ~burned

\* A verdict is given when the call is over, and says what it may.
Verdicts ==
  /\ at \in Running => ret = "ok"
  /\ ret = "write_budget" => at = "idle" /\ ~commanded
  /\ ret = "not_blank" => ~calibrated /\ ~burned
  /\ ret = "write_params" => ~burned

\* A session the host knows of is open only until the abort.
Known == drv_session /\ ~lost => session_open /\ at \in InSession \cup {"done", "abort"}

\* Where the drive stands and where the host believes it to.
Addresses ==
  /\ at \in InSession => drv_next = lba
  /\ at = "leadin" => lba <= -Gap
  /\ at = "alloc" => lba = -Gap
  /\ at = "gap" => lba <= 0
  /\ at \in Running \ {"payload", "close"} => done_sec = 0
  /\ at = "payload" => lba = done_sec

\* The burn that is over but not yet charged.
Pending ==
  IF at \in Leaving /\ ret = "ok" /\ burn_started /\ ~opts.simulate THEN 1 ELSE 0
Charged ==
  /\ at \in InSession => burn_started
  /\ completed <= wr_live + Pending
  /\ wr_budget # 0 => wr_live <= wr_budget
  /\ wr_budget # 0 /\ at # "idle" /\ ~opts.simulate => wr_live < wr_budget

\* A success is a closed disc.
Whole ==
  /\ at = "gap" /\ lba > -Gap /\ ~opts.simulate => burned
  /\ at \in {"payload", "close"} /\ ~opts.simulate => burned
  /\ at = "close" => drv_next = Total
  /\ at \in Leaving \cup {"idle"} /\ ret \in {"ok", "caveats"} =>
       drv_next = Total /\ ~drv_session /\ (~opts.simulate => burned)

\* The type invariant, apart in what is Boolean and what is not.
Flags ==
  /\ caveat \in BOOLEAN /\ session_open \in BOOLEAN /\ burn_started \in BOOLEAN
  /\ fifo_live \in BOOLEAN /\ ready_wait_off \in BOOLEAN /\ drv_session \in BOOLEAN
  /\ seen_blank \in BOOLEAN /\ commanded \in BOOLEAN /\ calibrated \in BOOLEAN
  /\ burned \in BOOLEAN /\ lost \in BOOLEAN
Sorts ==
  /\ at \in Phase /\ opts \in Options /\ ret \in Verdict /\ page \in Page
  /\ lba \in Int /\ drv_next \in Int
  /\ done_sec \in 0 .. Total /\ waited \in 0 .. StallCap
  /\ wr_budget \in Nat /\ wr_live \in Nat /\ completed \in Nat /\ passes \in Nat
  /\ calls \in 0 .. Calls

IInv ==
  /\ Flags /\ Sorts /\ PageKept /\ Progress /\ SimulateIsFree /\ OnlyBlankDiscs
  /\ WaitOffOnlyInSession /\ Verdicts /\ Known /\ Addresses /\ Charged

USE DEF Leaving, Running, Phase, InSession

\* The type invariant is its two halves.
LEMMA TypeParts == TypeOK <=> Flags /\ Sorts
  BY DEF TypeOK, Flags, Sorts

\* A handle just opened satisfies the invariant.
LEMMA InitInv == ASSUME BurnAssumption, Layout, Init PROVE IInv /\ Whole
<1>0. Flags
  BY DEF Init, Flags
<1>1. Sorts
  BY DEF Init, Sorts, Options, Verdict, Page, BurnAssumption, Layout
<1>2. PageKept /\ Progress /\ SimulateIsFree /\ OnlyBlankDiscs /\ WaitOffOnlyInSession
  BY DEF Init, PageKept, Progress, SimulateIsFree, OnlyBlankDiscs, WaitOffOnlyInSession
<1>3. Verdicts /\ Known /\ Addresses /\ Charged /\ Whole
  BY DEF Init, Verdicts, Known, Addresses, Charged, Pending, Whole
<1>  QED
  BY <1>0, <1>1, <1>2, <1>3 DEF IInv

USE DEF options, session, position, health, drive, record, tally

------------------------------------------------------------------------------

\* The chunk that is sent next is some of what its phase has left.
LEMMA ChunkFits ==
  ASSUME BurnAssumption, Layout, Sorts, Unsent
  PROVE  /\ ChunkSize \in Nat \ {0}
         /\ at = "leadin" => lba + ChunkSize <= -Gap
         /\ at = "gap" => lba + ChunkSize <= 0
         /\ at = "payload" => done_sec + ChunkSize <= Total
<1>  USE DEF BurnAssumption, Sorts, Unsent
<1>1. CASE at = "leadin"
  <2>1. ChunkSize = Least(CdtChunk, -Gap - lba)
    BY <1>1 DEF ChunkSize
  <2>  QED
    BY <1>1, <2>1 DEF Least
<1>2. CASE at = "gap"
  <2>1. ChunkSize = Least(Chunk, 0 - lba)
    BY <1>2 DEF ChunkSize
  <2>  QED
    BY <1>2, <2>1 DEF Least
<1>3. CASE at = "payload"
  <2>1. TrackLeft(done_sec) \in 1 .. Total - done_sec /\ Total \in Nat
    BY <1>3 DEF Layout
  <2>2. ChunkSize = Least(Chunk, TrackLeft(done_sec))
    BY <1>3 DEF ChunkSize
  <2>  QED
    BY <1>3, <2>1, <2>2 DEF Least
<1>  QED
  BY <1>1, <1>2, <1>3

\* No step of a call leaves a Boolean anything else.
LEMMA FlagsStep ==
  ASSUME Flags, Sorts, Step
  PROVE  Flags'
<1>0. opts.cdtext \in BOOLEAN /\ opts.fifo \in BOOLEAN
  BY DEF Sorts, Options
<1>1. CASE LoadModel
  BY <1>0, <1>1, ZenonT(40) DEF LoadModel, Flags
<1>2. CASE LoadModelFails
  BY <1>0, <1>2 DEF LoadModelFails, Flags
<1>3. CASE SetParams
  BY <1>0, <1>3 DEF SetParams, Fail, Flags
<1>4. CASE SetSpeed
  BY <1>0, <1>4 DEF SetSpeed, Flags
<1>5. CASE CheckParams
  BY <1>0, <1>5 DEF CheckParams, Fail, Held, AfterCheck, Flags
<1>6. CASE BlankCheck
  BY <1>0, <1>6, ZenonT(40) DEF BlankCheck, Fail, Flags
<1>7. CASE SkipOpc
  BY <1>0, <1>7 DEF SkipOpc, NeedsOpc, Flags
<1>8. CASE SendOpc
  BY <1>0, <1>8 DEF SendOpc, Fail, NeedsOpc, Flags
<1>9. CASE SendCue
  BY <1>0, <1>9 DEF SendCue, FirstLba, Flags
<1>10. CASE SendCueFails
  BY <1>0, <1>10 DEF SendCueFails, Fail, Flags
<1>11. CASE WriteChunk
  BY <1>0, <1>11 DEF WriteChunk, Records, Unsent, Flags
<1>12. CASE Stall
  BY <1>0, <1>12 DEF Stall, Unsent, StallLeft, Tick, Flags
<1>13. CASE WriteChunkFails
  BY <1>0, <1>13, ZenonT(40) DEF WriteChunkFails, Fail, Records, Unsent, Flags
<1>14. CASE LeadinFails
  BY <1>0, <1>14 DEF LeadinFails, Fail, Flags
<1>15. CASE LeadinDone
  BY <1>0, <1>15 DEF LeadinDone, Unsent, Flags
<1>16. CASE Alloc
  BY <1>0, <1>16 DEF Alloc, Fail, Flags
<1>17. CASE StartFeed
  BY <1>0, <1>17 DEF StartFeed, Unsent, Flags
<1>18. CASE StartFeedFails
  BY <1>0, <1>18 DEF StartFeedFails, Fail, Flags
<1>19. CASE FeedFails
  BY <1>0, <1>19 DEF FeedFails, Fail, Flags
<1>20. CASE PayloadDone
  BY <1>0, <1>20 DEF PayloadDone, Unsent, Flags
<1>21. CASE Close
  BY <1>0, <1>21 DEF Close, CloseVerdict, Flush, Flags
<1>22. CASE Done
  BY <1>0, <1>22 DEF Done, NeedsAbort, Flags
<1>23. CASE Abort
  BY <1>0, <1>23 DEF Abort, Flush, Flags
<1>24. CASE StopFifo
  BY <1>0, <1>24 DEF StopFifo, Flags
<1>25. CASE Return
  BY <1>0, <1>25 DEF Return, Flags
<1>  QED
  BY <1>1, <1>2, <1>3, <1>4, <1>5, <1>6, <1>7, <1>8, <1>9, <1>10, <1>11, <1>12, <1>13,
    <1>14, <1>15, <1>16, <1>17, <1>18, <1>19, <1>20, <1>21, <1>22, <1>23, <1>24, <1>25
    DEF Step

\* No step of a call takes a number, a phase or a verdict out of its range: the payload
\* counter stops at the end of the source because the chunks fit.
LEMMA SortsStep ==
  ASSUME BurnAssumption, Layout, Sorts, Step
  PROVE  Sorts'
<1>  USE DEF Sorts, Verdict, Page, BurnAssumption
<1>1. CASE LoadModel
  BY <1>1 DEF LoadModel
<1>2. CASE LoadModelFails
  BY <1>2 DEF LoadModelFails
<1>3. CASE SetParams
  BY <1>3 DEF SetParams, Fail
<1>4. CASE SetSpeed
  BY <1>4 DEF SetSpeed
<1>5. CASE CheckParams
  BY <1>5 DEF CheckParams, Fail, Held, AfterCheck
<1>6. CASE BlankCheck
  BY <1>6 DEF BlankCheck, Fail
<1>7. CASE SkipOpc
  BY <1>7 DEF SkipOpc, NeedsOpc
<1>8. CASE SendOpc
  BY <1>8 DEF SendOpc, Fail, NeedsOpc
<1>9. CASE SendCue
  BY <1>9 DEF SendCue, FirstLba
<1>10. CASE SendCueFails
  BY <1>10 DEF SendCueFails, Fail
<1>11. CASE WriteChunk
  <2>1. ChunkSize \in Nat \ {0} /\ (at = "payload" => done_sec + ChunkSize <= Total)
    BY <1>11, ChunkFits DEF WriteChunk
  <2>  QED
    BY <1>11, <2>1 DEF Layout, WriteChunk, Records, Unsent
<1>12. CASE Stall
  BY <1>12 DEF Stall, Unsent, StallLeft, Tick
<1>13. CASE WriteChunkFails
  <2>1. ChunkSize \in Nat \ {0} /\ (at = "payload" => done_sec + ChunkSize <= Total)
    BY <1>13, ChunkFits DEF WriteChunkFails
  <2>  QED
    BY <1>13, <2>1 DEF Layout, WriteChunkFails, Fail, Records, Unsent
<1>14. CASE LeadinFails
  BY <1>14 DEF LeadinFails, Fail
<1>15. CASE LeadinDone
  BY <1>15 DEF LeadinDone, Unsent
<1>16. CASE Alloc
  BY <1>16 DEF Alloc, Fail
<1>17. CASE StartFeed
  BY <1>17 DEF StartFeed, Unsent
<1>18. CASE StartFeedFails
  BY <1>18 DEF StartFeedFails, Fail
<1>19. CASE FeedFails
  BY <1>19 DEF FeedFails, Fail
<1>20. CASE PayloadDone
  BY <1>20 DEF PayloadDone, Unsent
<1>21. CASE Close
  BY <1>21 DEF Close, CloseVerdict, Flush
<1>22. CASE Done
  BY <1>22 DEF Done, NeedsAbort
<1>23. CASE Abort
  BY <1>23 DEF Abort, Flush
<1>24. CASE StopFifo
  BY <1>24 DEF StopFifo
<1>25. CASE Return
  BY <1>25 DEF Return
<1>  QED
  BY <1>1, <1>2, <1>3, <1>4, <1>5, <1>6, <1>7, <1>8, <1>9, <1>10, <1>11, <1>12, <1>13,
    <1>14, <1>15, <1>16, <1>17, <1>18, <1>19, <1>20, <1>21, <1>22, <1>23, <1>24, <1>25
    DEF Step

\* A recorded chunk was recorded at the power the options ask for.
LEMMA RecordsAsAsked ==
  ASSUME Flags, PageKept, Progress, at \in InSession, Records(ChunkSize)
  PROVE  /\ opts.simulate => burned' = burned
         /\ ~opts.simulate => burned' = TRUE
         /\ seen_blank
<1>1. page = IF opts.simulate THEN "test" ELSE "live"
  BY DEF PageKept, Wanted
<1>2. burned' = (burned \/ page # "test") /\ burned \in BOOLEAN
  BY DEF Records, Flags
<1>  QED
  BY <1>1, <1>2 DEF Progress

\* Every step keeps what licenses the laser: the page seen held, the disc seen blank,
\* a simulation recording nothing.
LEMMA SafeStep ==
  ASSUME BurnAssumption, Layout, IInv, Step
  PROVE  (PageKept /\ Progress /\ SimulateIsFree /\ OnlyBlankDiscs)'
<1>  USE DEF IInv, PageKept, Progress, SimulateIsFree, OnlyBlankDiscs, Wanted
<1>1. CASE LoadModel
  BY <1>1 DEF LoadModel
<1>2. CASE LoadModelFails
  BY <1>2 DEF LoadModelFails
<1>3. CASE SetParams
  BY <1>3 DEF SetParams, Fail
<1>4. CASE SetSpeed
  BY <1>4 DEF SetSpeed
<1>5. CASE CheckParams
  BY <1>5 DEF CheckParams, Fail, Held, AfterCheck
<1>6. CASE BlankCheck
  BY <1>6 DEF BlankCheck, Fail
<1>7. CASE SkipOpc
  BY <1>7 DEF SkipOpc, NeedsOpc
<1>8. CASE SendOpc
  BY <1>8 DEF SendOpc, Fail, NeedsOpc
<1>9. CASE SendCue
  BY <1>9 DEF SendCue, FirstLba
<1>10. CASE SendCueFails
  BY <1>10 DEF SendCueFails, Fail
<1>11. CASE WriteChunk
  <2>1. at \in InSession /\ Records(ChunkSize)
    BY <1>11 DEF WriteChunk, Unsent
  <2>2. UNCHANGED <<at, opts, page, seen_blank, calibrated>>
    BY <1>11 DEF WriteChunk
  <2>3. (opts.simulate => burned' = burned) /\ seen_blank
    BY <2>1, RecordsAsAsked
  <2>  QED
    BY <2>1, <2>2, <2>3
<1>12. CASE Stall
  BY <1>12 DEF Stall, Unsent, StallLeft, Tick
<1>13. CASE WriteChunkFails
  <2>1. at \in InSession /\ (burned' = burned \/ Records(ChunkSize))
    BY <1>13 DEF WriteChunkFails, Unsent
  <2>2. at' = "done" /\ UNCHANGED <<opts, page, seen_blank, calibrated>>
    BY <1>13 DEF WriteChunkFails, Fail
  <2>3. (opts.simulate => burned' = burned) /\ seen_blank
    BY <2>1, RecordsAsAsked
  <2>  QED
    BY <2>1, <2>2, <2>3
<1>14. CASE LeadinFails
  BY <1>14 DEF LeadinFails, Fail
<1>15. CASE LeadinDone
  BY <1>15 DEF LeadinDone, Unsent
<1>16. CASE Alloc
  BY <1>16 DEF Alloc, Fail
<1>17. CASE StartFeed
  BY <1>17 DEF StartFeed, Unsent
<1>18. CASE StartFeedFails
  BY <1>18 DEF StartFeedFails, Fail
<1>19. CASE FeedFails
  BY <1>19 DEF FeedFails, Fail
<1>20. CASE PayloadDone
  BY <1>20 DEF PayloadDone, Unsent
<1>21. CASE Close
  BY <1>21 DEF Close, CloseVerdict, Flush
<1>22. CASE Done
  BY <1>22 DEF Done, NeedsAbort
<1>23. CASE Abort
  BY <1>23 DEF Abort, Flush
<1>24. CASE StopFifo
  BY <1>24 DEF StopFifo
<1>25. CASE Return
  BY <1>25 DEF Return
<1>  QED
  BY <1>1, <1>2, <1>3, <1>4, <1>5, <1>6, <1>7, <1>8, <1>9, <1>10, <1>11, <1>12, <1>13,
    <1>14, <1>15, <1>16, <1>17, <1>18, <1>19, <1>20, <1>21, <1>22, <1>23, <1>24, <1>25
    DEF Step

\* Every step keeps readiness waiting, the verdict and the drive's session accounted
\* for.
LEMMA VerdictStep ==
  ASSUME IInv, Step
  PROVE  (WaitOffOnlyInSession /\ Verdicts /\ Known)'
<1>  USE DEF IInv, Progress, WaitOffOnlyInSession, Verdicts, Known
<1>1. CASE LoadModel
  BY <1>1 DEF LoadModel
<1>2. CASE LoadModelFails
  BY <1>2 DEF LoadModelFails
<1>3. CASE SetParams
  BY <1>3 DEF SetParams, Fail
<1>4. CASE SetSpeed
  BY <1>4 DEF SetSpeed
<1>5. CASE CheckParams
  BY <1>5 DEF CheckParams, Fail, Held, AfterCheck
<1>6. CASE BlankCheck
  BY <1>6 DEF BlankCheck, Fail
<1>7. CASE SkipOpc
  BY <1>7 DEF SkipOpc, NeedsOpc
<1>8. CASE SendOpc
  BY <1>8 DEF SendOpc, Fail, NeedsOpc
<1>9. CASE SendCue
  BY <1>9 DEF SendCue, FirstLba
<1>10. CASE SendCueFails
  BY <1>10 DEF SendCueFails, Fail
<1>11. CASE WriteChunk
  BY <1>11 DEF WriteChunk, Records, Unsent
<1>12. CASE Stall
  BY <1>12 DEF Stall, Unsent, StallLeft, Tick
<1>13. CASE WriteChunkFails
  BY <1>13 DEF WriteChunkFails, Fail, Records, Unsent
<1>14. CASE LeadinFails
  BY <1>14 DEF LeadinFails, Fail
<1>15. CASE LeadinDone
  BY <1>15 DEF LeadinDone, Unsent
<1>16. CASE Alloc
  BY <1>16 DEF Alloc, Fail
<1>17. CASE StartFeed
  BY <1>17 DEF StartFeed, Unsent
<1>18. CASE StartFeedFails
  BY <1>18 DEF StartFeedFails, Fail
<1>19. CASE FeedFails
  BY <1>19 DEF FeedFails, Fail
<1>20. CASE PayloadDone
  BY <1>20 DEF PayloadDone, Unsent
<1>21. CASE Close
  BY <1>21 DEF Close, CloseVerdict, Flush
<1>22. CASE Done
  BY <1>22 DEF Done, NeedsAbort
<1>23. CASE Abort
  BY <1>23 DEF Abort, Flush
<1>24. CASE StopFifo
  BY <1>24 DEF StopFifo
<1>25. CASE Return
  BY <1>25 DEF Return
<1>  QED
  BY <1>1, <1>2, <1>3, <1>4, <1>5, <1>6, <1>7, <1>8, <1>9, <1>10, <1>11, <1>12, <1>13,
    <1>14, <1>15, <1>16, <1>17, <1>18, <1>19, <1>20, <1>21, <1>22, <1>23, <1>24, <1>25
    DEF Step

\* Every step keeps the drive recording where the host believes it to.
LEMMA AddressStep ==
  ASSUME BurnAssumption, Layout, IInv, Step
  PROVE  Addresses'
<1>0. lba \in Int /\ drv_next \in Int /\ done_sec \in Int /\ Gap \in Nat
  BY DEF IInv, Sorts, BurnAssumption, Layout
<1>  USE DEF IInv, Addresses
<1>1. CASE LoadModel
  BY <1>1 DEF LoadModel
<1>2. CASE LoadModelFails
  BY <1>2 DEF LoadModelFails
<1>3. CASE SetParams
  BY <1>3 DEF SetParams, Fail
<1>4. CASE SetSpeed
  BY <1>4 DEF SetSpeed
<1>5. CASE CheckParams
  BY <1>5 DEF CheckParams, Fail, Held, AfterCheck
<1>6. CASE BlankCheck
  BY <1>6 DEF BlankCheck, Fail
<1>7. CASE SkipOpc
  BY <1>7 DEF SkipOpc, NeedsOpc
<1>8. CASE SendOpc
  BY <1>8 DEF SendOpc, Fail, NeedsOpc
<1>9. CASE SendCue
  <2>1. at = "cue" /\ lba' = FirstLba /\ drv_next' = FirstLba /\ UNCHANGED done_sec
    BY <1>9 DEF SendCue
  <2>2. at' = IF opts.cdtext THEN "leadin" ELSE "alloc"
    BY <1>9 DEF SendCue
  <2>3. FirstLba <= -Gap /\ (~opts.cdtext => FirstLba = -Gap)
    BY <1>0 DEF FirstLba, BurnAssumption
  <2>  QED
    BY <1>0, <2>1, <2>2, <2>3
<1>10. CASE SendCueFails
  BY <1>10 DEF SendCueFails, Fail
<1>11. CASE WriteChunk
  <2>1. PICK n \in Nat \ {0} :
          /\ n = ChunkSize
          /\ at = "leadin" => lba + n <= -Gap
          /\ at = "gap" => lba + n <= 0
    BY <1>11, ChunkFits DEF WriteChunk
  <2>2. /\ lba' = lba + n /\ drv_next' = drv_next + n /\ at' = at
        /\ done_sec' = IF at = "payload" THEN done_sec + n ELSE done_sec
    BY <1>11, <2>1 DEF WriteChunk, Records
  <2>3. at \in {"leadin", "gap", "payload"}
    BY <1>11 DEF WriteChunk, Unsent
  <2>  QED
    BY <1>0, <2>1, <2>2, <2>3
<1>12. CASE Stall
  BY <1>12 DEF Stall, Unsent, StallLeft, Tick
<1>13. CASE WriteChunkFails
  BY <1>13 DEF WriteChunkFails, Fail, Records, Unsent
<1>14. CASE LeadinFails
  BY <1>14 DEF LeadinFails, Fail
<1>15. CASE LeadinDone
  <2>1. /\ at = "leadin" /\ ~(lba < -Gap) /\ at' = "alloc"
        /\ UNCHANGED <<lba, drv_next, done_sec>>
    BY <1>15 DEF LeadinDone, Unsent
  <2>2. lba = -Gap
    BY <1>0, <2>1
  <2>  QED
    BY <2>1, <2>2
<1>16. CASE Alloc
  <2>1. at = "alloc" /\ lba = -Gap /\ drv_next = lba /\ UNCHANGED <<drv_next, done_sec>>
    BY <1>16 DEF Alloc
  <2>2. (at' = "gap" /\ lba' = -Gap) \/ (at' = "done" /\ lba' = lba)
    BY <1>16 DEF Alloc, Fail
  <2>  QED
    BY <1>0, <2>1, <2>2
<1>17. CASE StartFeed
  <2>1. /\ at = "gap" /\ ~(lba < 0) /\ at' = "payload"
        /\ UNCHANGED <<lba, drv_next, done_sec>>
    BY <1>17 DEF StartFeed, Unsent
  <2>2. lba = 0 /\ done_sec = 0
    BY <1>0, <2>1
  <2>  QED
    BY <2>1, <2>2
<1>18. CASE StartFeedFails
  BY <1>18 DEF StartFeedFails, Fail
<1>19. CASE FeedFails
  BY <1>19 DEF FeedFails, Fail
<1>20. CASE PayloadDone
  BY <1>20 DEF PayloadDone, Unsent
<1>21. CASE Close
  BY <1>21 DEF Close, CloseVerdict, Flush
<1>22. CASE Done
  BY <1>22 DEF Done, NeedsAbort
<1>23. CASE Abort
  BY <1>23 DEF Abort, Flush
<1>24. CASE StopFifo
  BY <1>24 DEF StopFifo
<1>25. CASE Return
  BY <1>25 DEF Return
<1>  QED
  BY <1>1, <1>2, <1>3, <1>4, <1>5, <1>6, <1>7, <1>8, <1>9, <1>10, <1>11, <1>12, <1>13,
    <1>14, <1>15, <1>16, <1>17, <1>18, <1>19, <1>20, <1>21, <1>22, <1>23, <1>24, <1>25
    DEF Step

\* Every step keeps the finished live burns within what has been, or is about to be,
\* charged to the budget.
LEMMA ChargeStep ==
  ASSUME IInv, Step
  PROVE  Charged'
<1>0. completed \in Nat /\ wr_live \in Nat /\ wr_budget \in Nat
  BY DEF IInv, Sorts
<1>1. CASE Close
  <2>1. PICK r \in {"ok", "error"} :
          /\ ret' = r
          /\ completed' = IF r = "ok" /\ burned THEN completed + 1 ELSE completed
    BY <1>1 DEF Close, CloseVerdict
  <2>2. /\ at = "close" /\ at' = "done" /\ burn_started
        /\ UNCHANGED <<wr_live, wr_budget, opts, burn_started>>
    BY <1>1 DEF Close, IInv, Charged
  <2>3. Pending = 0 /\ completed <= wr_live
    BY <1>0, <2>2 DEF Pending, IInv, Charged
  <2>4. CASE r = "ok" /\ burned
    <3>1. ~opts.simulate
      BY <2>4 DEF IInv, SimulateIsFree
    <3>2. Pending' = 1 /\ completed' = completed + 1
      BY <2>1, <2>2, <2>4, <3>1 DEF Pending
    <3>  QED
      <4>1. completed' <= wr_live' + Pending'
        BY <1>0, <2>2, <2>3, <3>2
      <4>2. wr_budget' # 0 => wr_live' <= wr_budget'
        BY <2>2 DEF IInv, Charged
      <4>3. wr_budget' # 0 /\ ~opts'.simulate => wr_live' < wr_budget'
        BY <2>2 DEF IInv, Charged
      <4>  QED
        BY <2>2, <4>1, <4>2, <4>3 DEF Charged
  <2>5. CASE ~(r = "ok" /\ burned)
    <3>1. completed' = completed /\ (Pending' = 0 \/ Pending' = 1)
      BY <2>1, <2>5 DEF Pending
    <3>  QED
      <4>1. completed' <= wr_live' + Pending'
        <5>1. CASE Pending' = 0
          BY <1>0, <2>2, <2>3, <3>1, <5>1
        <5>2. CASE Pending' = 1
          BY <1>0, <2>2, <2>3, <3>1, <5>2
        <5>  QED
          BY <3>1, <5>1, <5>2
      <4>2. wr_budget' # 0 => wr_live' <= wr_budget'
        BY <2>2 DEF IInv, Charged
      <4>3. wr_budget' # 0 /\ ~opts'.simulate => wr_live' < wr_budget'
        BY <2>2 DEF IInv, Charged
      <4>  QED
        BY <2>2, <4>1, <4>2, <4>3 DEF Charged
  <2>  QED
    BY <2>4, <2>5
<1>2. CASE Return
  <2>1. /\ at = "health" /\ at' = "idle"
        /\ UNCHANGED <<completed, wr_budget, opts, burn_started>>
        /\ wr_live' = IF burn_started /\ ~opts.simulate /\ ret = "ok" THEN wr_live + 1
                      ELSE wr_live
    BY <1>2 DEF Return
  <2>2. Pending' = 0
    BY <2>1 DEF Pending
  <2>3. wr_live' = wr_live + Pending
    BY <1>0, <2>1 DEF Pending
  <2>4. wr_budget # 0 => wr_live' <= wr_budget
    BY <1>0, <2>1 DEF IInv, Charged
  <2>  QED
    BY <1>0, <2>1, <2>2, <2>3, <2>4 DEF IInv, Charged
<1>3. CASE LoadModel
  BY <1>0, <1>3 DEF LoadModel, IInv, Charged, Pending
<1>4. CASE LoadModelFails
  BY <1>0, <1>4 DEF LoadModelFails, IInv, Charged, Pending
<1>5. CASE SetParams
  BY <1>0, <1>5 DEF SetParams, Fail, IInv, Charged, Pending
<1>6. CASE SetSpeed
  BY <1>0, <1>6 DEF SetSpeed, IInv, Charged, Pending
<1>7. CASE CheckParams
  BY <1>0, <1>7 DEF CheckParams, Fail, Held, AfterCheck, IInv, Charged, Pending
<1>8. CASE BlankCheck
  BY <1>0, <1>8 DEF BlankCheck, Fail, IInv, Charged, Pending
<1>9. CASE SkipOpc
  BY <1>0, <1>9 DEF SkipOpc, NeedsOpc, IInv, Charged, Pending
<1>10. CASE SendOpc
  BY <1>0, <1>10 DEF SendOpc, Fail, NeedsOpc, IInv, Charged, Pending
<1>11. CASE SendCue
  BY <1>0, <1>11 DEF SendCue, FirstLba, IInv, Charged, Pending
<1>12. CASE SendCueFails
  BY <1>0, <1>12 DEF SendCueFails, Fail, IInv, Charged, Pending
<1>13. CASE WriteChunk
  BY <1>0, <1>13 DEF WriteChunk, Records, Unsent, IInv, Charged, Pending
<1>14. CASE Stall
  BY <1>0, <1>14 DEF Stall, Unsent, StallLeft, Tick, IInv, Charged, Pending
<1>15. CASE WriteChunkFails
  BY <1>0, <1>15 DEF WriteChunkFails, Fail, Records, Unsent, IInv, Charged, Pending
<1>16. CASE LeadinFails
  BY <1>0, <1>16 DEF LeadinFails, Fail, IInv, Charged, Pending
<1>17. CASE LeadinDone
  BY <1>0, <1>17 DEF LeadinDone, Unsent, IInv, Charged, Pending
<1>18. CASE Alloc
  BY <1>0, <1>18 DEF Alloc, Fail, IInv, Charged, Pending
<1>19. CASE StartFeed
  BY <1>0, <1>19 DEF StartFeed, Unsent, IInv, Charged, Pending
<1>20. CASE StartFeedFails
  BY <1>0, <1>20 DEF StartFeedFails, Fail, IInv, Charged, Pending
<1>21. CASE FeedFails
  BY <1>0, <1>21 DEF FeedFails, Fail, IInv, Charged, Pending
<1>22. CASE PayloadDone
  BY <1>0, <1>22 DEF PayloadDone, Unsent, IInv, Charged, Pending
<1>23. CASE Done
  BY <1>0, <1>23 DEF Done, NeedsAbort, IInv, Charged, Pending
<1>24. CASE Abort
  BY <1>0, <1>24 DEF Abort, Flush, IInv, Charged, Pending
<1>25. CASE StopFifo
  BY <1>0, <1>25 DEF StopFifo, IInv, Charged, Pending
<1>  QED
  BY <1>1, <1>2, <1>3, <1>4, <1>5, <1>6, <1>7, <1>8, <1>9, <1>10, <1>11, <1>12, <1>13,
    <1>14, <1>15, <1>16, <1>17, <1>18, <1>19, <1>20, <1>21, <1>22, <1>23, <1>24, <1>25
    DEF Step

\* Every step keeps the way to success through a whole, closed disc.
LEMMA WholeStep ==
  ASSUME BurnAssumption, Layout, IInv, Whole, Step
  PROVE  Whole'
<1>0. /\ lba \in Int /\ drv_next \in Int /\ done_sec \in 0 .. Total
      /\ Gap \in Nat \ {0} /\ Total \in Nat
  BY DEF IInv, Sorts, BurnAssumption, Layout
<1>  USE DEF Whole
<1>1. CASE LoadModel
  BY <1>1 DEF LoadModel
<1>2. CASE LoadModelFails
  BY <1>2 DEF LoadModelFails
<1>3. CASE SetParams
  BY <1>3 DEF SetParams, Fail
<1>4. CASE SetSpeed
  BY <1>4 DEF SetSpeed
<1>5. CASE CheckParams
  BY <1>5 DEF CheckParams, Fail, Held, AfterCheck
<1>6. CASE BlankCheck
  BY <1>6 DEF BlankCheck, Fail
<1>7. CASE SkipOpc
  BY <1>7 DEF SkipOpc, NeedsOpc
<1>8. CASE SendOpc
  BY <1>8 DEF SendOpc, Fail, NeedsOpc
<1>9. CASE SendCue
  BY <1>9 DEF SendCue, FirstLba
<1>10. CASE SendCueFails
  BY <1>10 DEF SendCueFails, Fail
<1>11. CASE WriteChunk
  <2>1. at \in {"leadin", "gap", "payload"} /\ Records(ChunkSize)
    BY <1>11 DEF WriteChunk, Unsent
  <2>2. UNCHANGED <<at, opts>>
    BY <1>11 DEF WriteChunk
  <2>3. ~opts.simulate => burned' = TRUE
    BY <2>1, RecordsAsAsked DEF IInv
  <2>  QED
    BY <2>1, <2>2, <2>3
<1>12. CASE Stall
  BY <1>12 DEF Stall, Unsent, StallLeft, Tick
<1>13. CASE WriteChunkFails
  BY <1>13 DEF WriteChunkFails, Fail
<1>14. CASE LeadinFails
  BY <1>14 DEF LeadinFails, Fail
<1>15. CASE LeadinDone
  BY <1>15 DEF LeadinDone, Unsent
<1>16. CASE Alloc
  <2>1. \/ at' = "done" /\ ret' = "error"
        \/ at' = "gap" /\ lba' = -Gap
    BY <1>16 DEF Alloc, Fail
  <2>  QED
    BY <1>0, <2>1
<1>17. CASE StartFeed
  <2>1. at = "gap" /\ ~(lba < 0) /\ at' = "payload" /\ UNCHANGED <<opts, burned>>
    BY <1>17 DEF StartFeed, Unsent
  <2>2. lba > -Gap
    BY <1>0, <2>1
  <2>  QED
    BY <2>1, <2>2
<1>18. CASE StartFeedFails
  BY <1>18 DEF StartFeedFails, Fail
<1>19. CASE FeedFails
  BY <1>19 DEF FeedFails, Fail
<1>20. CASE PayloadDone
  <2>1. /\ at = "payload" /\ ~(done_sec < Total) /\ at' = "close"
        /\ UNCHANGED <<opts, burned, drv_next>>
    BY <1>20 DEF PayloadDone, Unsent
  <2>2. drv_next = Total
    BY <1>0, <2>1 DEF IInv, Addresses
  <2>  QED
    BY <2>1, <2>2
<1>21. CASE Close
  BY <1>21 DEF Close, CloseVerdict, Flush
<1>22. CASE Done
  BY <1>22 DEF Done, NeedsAbort
<1>23. CASE Abort
  <2>1. at = "abort" /\ at' = "stop" /\ UNCHANGED <<ret, drv_next, burned, opts>>
    BY <1>23 DEF Abort
  <2>2. ~drv_session => ~drv_session'
    BY <1>23 DEF Abort, Flush
  <2>3. ret \in {"ok", "caveats"} =>
          drv_next = Total /\ ~drv_session /\ (~opts.simulate => burned)
    BY <2>1
  <2>  QED
    BY <2>1, <2>2, <2>3
<1>24. CASE StopFifo
  BY <1>24 DEF StopFifo
<1>25. CASE Return
  BY <1>25 DEF Return
<1>  QED
  BY <1>1, <1>2, <1>3, <1>4, <1>5, <1>6, <1>7, <1>8, <1>9, <1>10, <1>11, <1>12, <1>13,
    <1>14, <1>15, <1>16, <1>17, <1>18, <1>19, <1>20, <1>21, <1>22, <1>23, <1>24, <1>25
    DEF Step

------------------------------------------------------------------------------
\* The two things a caller does between calls, and the next call.

\* A new budget starts a new run of calls; it disturbs nothing else.
LEMMA SetBudgetInv ==
  ASSUME BurnAssumption, IInv, Whole, NEW b \in Budgets, SetBudget(b)
  PROVE  IInv' /\ Whole'
<1>0. b \in Nat
  BY DEF BurnAssumption
<1>1. /\ at = "idle" /\ at' = "idle"
      /\ wr_budget' = b /\ wr_live' = 0 /\ completed' = 0 /\ passes' = 0
  BY DEF SetBudget
<1>2. Flags'
  BY DEF SetBudget, IInv, Flags
<1>3. Sorts'
  BY <1>0, <1>1 DEF SetBudget, IInv, Sorts
<1>4. (PageKept /\ Progress /\ SimulateIsFree /\ OnlyBlankDiscs)'
  BY <1>1 DEF SetBudget, IInv, PageKept, Progress, SimulateIsFree, OnlyBlankDiscs
<1>5. (WaitOffOnlyInSession /\ Verdicts /\ Known /\ Addresses)'
  BY <1>1 DEF SetBudget, IInv, WaitOffOnlyInSession, Verdicts, Known, Addresses
<1>6. Charged'
  BY <1>0, <1>1 DEF Charged, Pending
<1>7. Whole'
  BY <1>1 DEF SetBudget, Whole
<1>  QED
  BY <1>2, <1>3, <1>4, <1>5, <1>6, <1>7 DEF IInv

\* A call starts afresh, or is refused at once for want of budget.
LEMMA WriteInv ==
  ASSUME BurnAssumption, Layout, IInv, Whole, NEW o \in Options, Write(o)
  PROVE  IInv' /\ Whole'
<1>1. /\ at = "idle" /\ opts' = o
      /\ seen_blank' = FALSE /\ commanded' = FALSE
      /\ calibrated' = FALSE /\ burned' = FALSE
      /\ UNCHANGED <<ready_wait_off, wr_budget, wr_live, completed, drv_session, lost>>
  BY DEF Write
<1>2. \/ /\ ~o.simulate /\ BudgetSpent
         /\ at' = "idle" /\ ret' = "write_budget"
      \/ /\ ~(~o.simulate /\ BudgetSpent)
         /\ at' = "model" /\ ret' = "ok"
  BY DEF Write
<1>3. Flags'
  BY DEF Write, IInv, Flags
<1>4. Sorts'
  BY <1>2 DEF Write, IInv, Sorts, Verdict, BurnAssumption, Layout
<1>5. (PageKept /\ Progress /\ SimulateIsFree /\ OnlyBlankDiscs)'
  BY <1>1, <1>2 DEF PageKept, Progress, SimulateIsFree, OnlyBlankDiscs
<1>6. (WaitOffOnlyInSession /\ Verdicts /\ Known)'
  BY <1>1, <1>2 DEF IInv, WaitOffOnlyInSession, Verdicts, Known
<1>7. Addresses'
  BY <1>2 DEF Write, Addresses
<1>8. Charged'
  <2>1. completed \in Nat /\ wr_live \in Nat /\ wr_budget \in Nat
    BY DEF IInv, Sorts
  <2>2. completed <= wr_live /\ (wr_budget # 0 => wr_live <= wr_budget)
    BY <1>1, <2>1 DEF IInv, Charged, Pending
  <2>3. Pending' = 0
    BY <1>2 DEF Pending
  <2>  QED
    BY <1>1, <1>2, <2>1, <2>2, <2>3 DEF Charged, BudgetSpent
<1>9. Whole'
  BY <1>2 DEF Whole
<1>  QED
  BY <1>3, <1>4, <1>5, <1>6, <1>7, <1>8, <1>9 DEF IInv

\* The invariant is inductive.
LEMMA NextInv ==
  ASSUME BurnAssumption, Layout, IInv, Whole, [Next]_vars
  PROVE  IInv' /\ Whole'
<1>1. CASE Step
  <2>1. Flags' /\ Sorts'
    BY <1>1, FlagsStep, SortsStep DEF IInv
  <2>2. (PageKept /\ Progress /\ SimulateIsFree /\ OnlyBlankDiscs)'
    BY <1>1, SafeStep
  <2>3. (WaitOffOnlyInSession /\ Verdicts /\ Known)' /\ Addresses' /\ Charged' /\ Whole'
    BY <1>1, VerdictStep, AddressStep, ChargeStep, WholeStep
  <2>  QED
    BY <2>1, <2>2, <2>3 DEF IInv
<1>2. ASSUME NEW b \in Budgets, SetBudget(b) PROVE IInv' /\ Whole'
  BY <1>2, SetBudgetInv
<1>3. ASSUME NEW o \in Options, Write(o) PROVE IInv' /\ Whole'
  BY <1>3, WriteInv
<1>4. CASE UNCHANGED vars
  <2>1. Flags' /\ Sorts'
    BY <1>4 DEF vars, IInv, Flags, Sorts
  <2>2. (PageKept /\ Progress /\ SimulateIsFree /\ OnlyBlankDiscs)'
    BY <1>4 DEF vars, IInv, PageKept, Wanted, Progress, SimulateIsFree, OnlyBlankDiscs
  <2>3. (WaitOffOnlyInSession /\ Verdicts /\ Known /\ Addresses)'
    BY <1>4 DEF vars, IInv, WaitOffOnlyInSession, Verdicts, Known, Addresses
  <2>4. Charged' /\ Whole'
    BY <1>4 DEF vars, IInv, Charged, Pending, Whole
  <2>  QED
    BY <2>1, <2>2, <2>3, <2>4 DEF IInv
<1>  QED
  BY <1>1, <1>2, <1>3, <1>4 DEF Next

\* The invariant holds throughout.
LEMMA SpecInv == ASSUME BurnAssumption PROVE Spec => [](IInv /\ Whole)
<1>1. Init => IInv /\ Whole
  BY InitInv, LayoutHolds
<1>2. (IInv /\ Whole) /\ [Next]_vars => (IInv /\ Whole)'
  BY NextInv, LayoutHolds
<1>  QED
  BY <1>1, <1>2, PTL DEF Spec

------------------------------------------------------------------------------

\* Every variable keeps its type: the payload counter within the source, the stall
\* clock of write_chunk under its cap.
THEOREM SpecTypeOK == ASSUME BurnAssumption PROVE Spec => []TypeOK
<1>1. IInv => TypeOK
  BY TypeParts DEF IInv
<1>  QED
  BY <1>1, SpecInv, PTL

\* adsc_write_run fires the laser only on a disc this call has seen blank, never in a
\* simulation, and sends the data only under the page that was asked for.
THEOREM SpecLaserIsAllowed ==
  ASSUME BurnAssumption PROVE Spec => []LaserIsAllowed
<1>1. IInv => LaserIsAllowed
  BY DEF IInv, PageKept, LaserIsAllowed, CommittedPageHeld
<1>  QED
  BY <1>1, SpecInv, PTL

\* Through retries, short chunks and the three loops, the host's address is where the
\* drive will record next, and payload sector s is at LBA s.
THEOREM SpecRecordedInOrder ==
  ASSUME BurnAssumption PROVE Spec => []RecordedInOrder
<1>1. IInv => RecordedInOrder
  BY DEF IInv, Addresses, RecordedInOrder
<1>  QED
  BY <1>1, SpecInv, PTL

\* Every exit puts readiness waiting back, and releases the drive's session if the host
\* knows of one; a refusal has touched nothing it should not have.
THEOREM SpecLeftAsFound ==
  ASSUME BurnAssumption PROVE Spec => []LeftAsFound
<1>1. IInv => LeftAsFound
  BY DEF IInv, Verdicts, Known, LeftAsFound, RefusedUntouched, Released
<1>  QED
  BY <1>1, SpecInv, PTL

\* A burn reported done has recorded the whole source, is closed, and is live if it was
\* to be.
THEOREM SpecSuccessMeansWhole ==
  ASSUME BurnAssumption PROVE Spec => []SuccessMeansWhole
<1>1. Whole => SuccessMeansWhole
  BY DEF Whole, SuccessMeansWhole
<1>  QED
  BY <1>1, SpecInv, PTL

\* However calls and budgets are set, no more live burns finish than the budget allows.
THEOREM SpecCompletedWithinBudget ==
  ASSUME BurnAssumption PROVE Spec => []CompletedWithinBudget
<1>1. IInv => CompletedWithinBudget
  <2>  SUFFICES ASSUME IInv, wr_budget # 0 PROVE completed <= wr_budget
    BY DEF CompletedWithinBudget
  <2>1. completed \in Nat /\ wr_live \in Nat /\ wr_budget \in Nat
    BY DEF IInv, Sorts
  <2>  QED
    BY <2>1 DEF IInv, Charged, Pending
<1>  QED
  BY <1>1, SpecInv, PTL

------------------------------------------------------------------------------
(* The readiness layer (Ready).                                            *)

\* Every command issued but the first of a call has used up a unit of a quota, and
\* one about to be issued has had its unit taken already.
ReadyPaidFor == issued <= ua + r_waited + (IF r_at = "issue" THEN 0 ELSE 1)

\* A command goes out only if the drive has not done it, and a write only once.
ReadyUnexecuted ==
  /\ executed <= 1
  /\ r_at = "issue" => executed = 0
  /\ r_at = "decide" /\ Rdy!NotExecuted(rc) => executed = 0
ReadyWriteOnce == cmd = "write" => issued <= IF r_at = "issue" THEN 0 ELSE 1

ReadyIInv == Rdy!TypeOK /\ ReadyPaidFor /\ ReadyUnexecuted /\ ReadyWriteOnce

------------------------------------------------------------------------------

\* The initial state has nothing issued and nothing spent.
LEMMA ReadyInitInv == Rdy!QuotaAssumption /\ Rdy!Init => ReadyIInv
<1>  SUFFICES ASSUME Rdy!QuotaAssumption, Rdy!Init PROVE ReadyIInv
  OBVIOUS
<1>1. Rdy!TypeOK
  <2>1. r_wait_off \in BOOLEAN
    BY DEF Rdy!Init
  <2>2. ua \in 0 .. UARetries /\ r_waited \in 0 .. TimeoutPolls
        /\ polls \in 0 .. TimeoutPolls
    BY DEF Rdy!Init, Rdy!QuotaAssumption
  <2>  QED
    BY <2>1, <2>2 DEF Rdy!Init, Rdy!TypeOK, Rdy!Command, Rdy!Answer
<1>2. ReadyPaidFor
  BY DEF Rdy!Init, ReadyPaidFor
<1>3. ReadyUnexecuted /\ ReadyWriteOnce
  BY DEF Rdy!Init, ReadyUnexecuted, ReadyWriteOnce
<1>  QED
  BY <1>1, <1>2, <1>3 DEF ReadyIInv

\* A fresh dev_exec starts with nothing issued, nothing done and both quotas whole.
LEMMA ReadyEnterInv ==
  ASSUME Rdy!QuotaAssumption, ReadyIInv, NEW c \in Rdy!Command, Rdy!Enter(c),
         caller' \in {"library", "load"}, rc' \in Rdy!Answer, r_wait_off' \in BOOLEAN,
         polls' \in 0 .. TimeoutPolls, result' \in {"none", "ok", "io"}
  PROVE  ReadyIInv'
  BY DEF Rdy!QuotaAssumption, ReadyIInv, Rdy!TypeOK, ReadyPaidFor, ReadyUnexecuted,
         ReadyWriteOnce, Rdy!Enter, Rdy!NotExecuted

\* A call that goes back to idle, or to wait_ready, has issued nothing more.
LEMMA ReadyLeaveInv ==
  ASSUME ReadyIInv, r_at # "issue", r_at' \in {"idle", "judge"},
         caller' \in {"library", "load"}, result' \in {"none", "ok", "io"},
         UNCHANGED <<cmd, rc, ua, r_waited, r_wait_off, polls, issued, executed>>
  PROVE  ReadyIInv'
  BY DEF ReadyIInv, Rdy!TypeOK, ReadyPaidFor, ReadyUnexecuted, ReadyWriteOnce,
         Rdy!NotExecuted

\* Whatever load returns is a result.
LEMMA ReadyLoadResultType == ASSUME NEW r \in {"ok", "nomedium", "sense", "io"}
                        PROVE  Rdy!LoadResult(r) \in {"ok", "io"}
  BY DEF Rdy!LoadResult, Rdy!IsSense

\* Every step keeps the invariant.
LEMMA ReadyNextInv == Rdy!QuotaAssumption /\ ReadyIInv /\ [Rdy!Next]_(Rdy!vars)
=> ReadyIInv'
<1>  SUFFICES ASSUME Rdy!QuotaAssumption, ReadyIInv, [Rdy!Next]_(Rdy!vars) PROVE ReadyIInv'
  OBVIOUS
<1>  USE DEF Rdy!QuotaAssumption
<1>0. Rdy!TypeOK
  BY DEF ReadyIInv
<1>1. ASSUME NEW c \in Rdy!Command, Rdy!Exec(c) PROVE ReadyIInv'
  BY <1>0, <1>1, ReadyEnterInv DEF Rdy!Exec, Rdy!TypeOK
<1>2. CASE Rdy!SetWaitOff
  BY <1>2 DEF Rdy!SetWaitOff, ReadyIInv, Rdy!TypeOK, ReadyPaidFor, ReadyUnexecuted,
              ReadyWriteOnce, Rdy!NotExecuted
<1>3. CASE Rdy!Load
  <2>1. "tur" \in Rdy!Command /\ Rdy!Enter("tur")
    BY <1>3 DEF Rdy!Load, Rdy!Command
  <2>2. caller' = "load" /\ polls' = 0 /\ result' = "none" /\ UNCHANGED <<rc, r_wait_off>>
    BY <1>3 DEF Rdy!Load
  <2>  QED
    BY <1>0, <2>1, <2>2, ReadyEnterInv DEF Rdy!TypeOK
<1>4. CASE Rdy!LoadFails
  BY <1>0, <1>4, ReadyLeaveInv DEF Rdy!LoadFails, Rdy!TypeOK
<1>5. CASE Rdy!Issue
  <2>1. PICK a \in Rdy!Answer :
          /\ rc' = a
          /\ executed' = IF Rdy!NotExecuted(a) THEN executed ELSE executed + 1
    BY <1>5 DEF Rdy!Issue
  <2>2. executed = 0 /\ executed' \in {0, 1} /\ (Rdy!NotExecuted(a) => executed' = 0)
    BY <1>5, <2>1 DEF Rdy!Issue, ReadyIInv, Rdy!TypeOK, ReadyUnexecuted
  <2>  QED
    BY <1>5, <2>1, <2>2
    DEF Rdy!Issue, Rdy!call, ReadyIInv, Rdy!TypeOK, ReadyPaidFor, ReadyUnexecuted,
        ReadyWriteOnce, Rdy!NotExecuted
<1>6. CASE Rdy!Reissue
  BY <1>6 DEF Rdy!Reissue, Rdy!RetryNow, Rdy!Repeatable, Rdy!UAQuotaLeft, Rdy!Spend,
              Rdy!call, ReadyIInv, Rdy!TypeOK, ReadyPaidFor,
              ReadyUnexecuted, ReadyWriteOnce, Rdy!NotExecuted
<1>7. CASE Rdy!WaitAndReissue
  BY <1>7 DEF Rdy!WaitAndReissue, Rdy!Repeatable, Rdy!Spend, Rdy!call, ReadyIInv,
              Rdy!TypeOK, ReadyPaidFor, ReadyUnexecuted,
              ReadyWriteOnce, Rdy!NotExecuted
<1>8. CASE Rdy!ExecReturns
  BY <1>0, <1>8, ReadyLeaveInv DEF Rdy!ExecReturns, Rdy!call, Rdy!TypeOK
<1>9. CASE Rdy!Settled
  BY <1>0, <1>9, ReadyLeaveInv, ReadyLoadResultType DEF Rdy!Settled, Rdy!LoadReturns,
                                                        Rdy!TypeOK
<1>10. CASE Rdy!AskAgain
  <2>1. "tur" \in Rdy!Command /\ Rdy!Enter("tur")
        /\ UNCHANGED <<caller, rc, r_wait_off, polls, result>>
    BY <1>10 DEF Rdy!AskAgain, Rdy!Command
  <2>  QED
    BY <1>0, <2>1, ReadyEnterInv DEF Rdy!TypeOK
<1>11. CASE Rdy!SleepAndAsk
  <2>1. "tur" \in Rdy!Command /\ Rdy!Enter("tur")
        /\ UNCHANGED <<caller, rc, r_wait_off, result>>
    BY <1>11 DEF Rdy!SleepAndAsk, Rdy!Command
  <2>2. polls' \in 0 .. TimeoutPolls
    BY <1>0, <1>11 DEF Rdy!SleepAndAsk, Rdy!PollsLeft, Rdy!Spend, Rdy!TypeOK
  <2>  QED
    BY <1>0, <2>1, <2>2, ReadyEnterInv DEF Rdy!TypeOK
<1>12. CASE Rdy!TimedOut
  BY <1>0, <1>12, ReadyLeaveInv, ReadyLoadResultType DEF Rdy!TimedOut, Rdy!LoadReturns,
                                                         Rdy!TypeOK
<1>13. CASE UNCHANGED Rdy!vars
  BY <1>13 DEF Rdy!vars, ReadyIInv, Rdy!TypeOK, ReadyPaidFor, ReadyUnexecuted,
               ReadyWriteOnce, Rdy!NotExecuted
<1>  QED
  BY <1>1, <1>2, <1>3, <1>4, <1>5, <1>6, <1>7, <1>8, <1>9, <1>10, <1>11, <1>12, <1>13
  DEF Rdy!Next, Rdy!Step

\* It holds throughout.
LEMMA ReadySpecInv == ASSUME Rdy!QuotaAssumption PROVE Rdy!Spec => []ReadyIInv
  BY ReadyInitInv, ReadyNextInv, PTL DEF Rdy!Spec

------------------------------------------------------------------------------

\* The counters of adsc_dev_exec and adsc_dev_wait_ready stay within their quotas.
THEOREM ReadySpecTypeOK == ASSUME Rdy!QuotaAssumption PROVE Rdy!Spec => []Rdy!TypeOK
<1>1. ReadyIInv => Rdy!TypeOK
  BY DEF ReadyIInv
<1>  QED
  BY <1>1, ReadySpecInv, PTL

\* adsc_dev_exec, in whatever order the drive mixes its answers: nothing is done twice,
\* a write is sent once, and the two quotas together bound what is sent.
THEOREM ReadySpecRetriedSafely == ASSUME Rdy!QuotaAssumption PROVE Rdy!Spec
=> []Rdy!RetriedSafely
<1>1. ReadyIInv => Rdy!RetriedSafely
  BY DEF Rdy!QuotaAssumption, ReadyIInv, Rdy!TypeOK, ReadyPaidFor, ReadyUnexecuted,
         ReadyWriteOnce, Rdy!RetriedSafely,
         Rdy!NeverDoneTwice, Rdy!IssuesBounded
<1>  QED
  BY <1>1, ReadySpecInv, PTL

\* accudisc_load never reports success for a drive that was still becoming ready, that
\* was announcing a change, or that did not answer.
THEOREM ReadySpecLoadMeansSettled == Rdy!Spec => Rdy!LoadMeansSettled
<1>  DEFINE Means == result' # result /\ result' = "ok" => rc \in {"ok", "nomedium",
"sense"}
<1>1. ASSUME [Rdy!Next]_(Rdy!vars) PROVE [Means]_(Rdy!vars)
  <2>1. CASE Rdy!Settled
    BY <2>1 DEF Rdy!Settled, Rdy!LoadReturns, Rdy!LoadResult, Rdy!IsSense
  <2>2. CASE Rdy!TimedOut
    BY <2>2 DEF Rdy!TimedOut, Rdy!LoadReturns, Rdy!LoadResult, Rdy!IsSense
  <2>3. CASE Rdy!Load \/ Rdy!LoadFails
    BY <2>3 DEF Rdy!Load, Rdy!LoadFails
  <2>4. ASSUME NEW c \in Rdy!Command, Rdy!Exec(c) PROVE result' = result
    BY <2>4 DEF Rdy!Exec
  <2>5. CASE \/ Rdy!SetWaitOff \/ Rdy!Issue \/ Rdy!Reissue \/ Rdy!WaitAndReissue
             \/ Rdy!ExecReturns \/ Rdy!AskAgain \/ Rdy!SleepAndAsk
    BY <2>5 DEF Rdy!SetWaitOff, Rdy!Issue, Rdy!Reissue, Rdy!WaitAndReissue,
                Rdy!ExecReturns, Rdy!AskAgain, Rdy!SleepAndAsk, Rdy!call
  <2>  QED
    BY <1>1, <2>1, <2>2, <2>3, <2>4, <2>5 DEF Rdy!Next, Rdy!Step, Rdy!vars
<1>  QED
  BY <1>1, PTL DEF Rdy!Spec, Rdy!LoadMeansSettled
------------------------------------------------------------------------------
(* The AccuBuffer (AccuBuf): what the sink and the caller of the read are  *)
(* owed.  What follows a discard is not part of it: there the count may    *)
(* wrap.                                                                   *)


------------------------------------------------------------------------------
(* The ring's arithmetic.                                                  *)

\* Whatever size is asked for, the ring has a slot, and a count that does not wrap.
LEMMA BufRingHasRoom ==
  ASSUME Buf!BufAssumption PROVE Buf!nslots \in Nat \ {0} /\ Buf!nslots < CountMod
  BY DEF Buf!BufAssumption, Buf!nslots

\* Advancing is one step round the ring (accubuf.c, drain and push).
LEMMA BufAdvanceIs ==
  ASSUME Buf!BufAssumption, NEW s \in Buf!Slot
  PROVE  Buf!Advance(s) = IF s + 1 = Buf!nslots THEN 0 ELSE s + 1
<1>1. CASE s + 1 = Buf!nslots
  BY <1>1, BufRingHasRoom DEF Buf!Advance, Buf!Slot
<1>2. CASE s + 1 # Buf!nslots
  BY <1>2, BufRingHasRoom DEF Buf!Advance, Buf!Slot
<1>  QED
  BY <1>1, <1>2

\* head and tail never leave the ring.
LEMMA BufAdvanceInSlot ==
  ASSUME Buf!BufAssumption, NEW s \in Buf!Slot PROVE Buf!Advance(s) \in Buf!Slot
  BY BufAdvanceIs, BufRingHasRoom DEF Buf!Slot

\* The slot i steps ahead of t.
BufWrap(t, i) == IF t + i < Buf!nslots THEN t + i ELSE t + i - Buf!nslots

\* Wrap stays on the ring, tells slots apart and steps as Advance does.
LEMMA BufWrapFacts ==
  ASSUME Buf!BufAssumption, NEW t \in Buf!Slot
  PROVE  /\ \A i \in 0 .. Buf!nslots : BufWrap(t, i) \in Buf!Slot
         /\ BufWrap(t, 0) = t
         /\ \A i, j \in 0 .. Buf!nslots - 1 : i # j => BufWrap(t, i) # BufWrap(t, j)
         /\ \A i \in 0 .. Buf!nslots - 1 : Buf!Advance(BufWrap(t, i)) = BufWrap(t, i + 1)
         /\ \A i \in 0 .. Buf!nslots - 1 : BufWrap(Buf!Advance(t), i) = BufWrap(t, i + 1)
<1>1. \A i \in 0 .. Buf!nslots : BufWrap(t, i) \in Buf!Slot
  BY BufRingHasRoom DEF BufWrap, Buf!Slot
<1>2. BufWrap(t, 0) = t
  BY BufRingHasRoom DEF BufWrap, Buf!Slot
<1>3. \A i, j \in 0 .. Buf!nslots - 1 : i # j => BufWrap(t, i) # BufWrap(t, j)
  BY BufRingHasRoom DEF BufWrap, Buf!Slot
<1>4. ASSUME NEW i \in 0 .. Buf!nslots - 1 PROVE Buf!Advance(BufWrap(t, i)) = BufWrap(t, i + 1)
  <2>1. BufWrap(t, i) \in Buf!Slot
    BY <1>1, BufRingHasRoom
  <2>2. Buf!Advance(BufWrap(t, i)) =
          IF BufWrap(t, i) + 1 = Buf!nslots THEN 0 ELSE BufWrap(t, i) + 1
    BY <2>1, BufAdvanceIs
  <2>  QED
    BY <2>2, BufRingHasRoom DEF BufWrap, Buf!Slot
<1>5. \A i \in 0 .. Buf!nslots - 1 : BufWrap(Buf!Advance(t), i) = BufWrap(t, i + 1)
  <2>1. Buf!Advance(t) = IF t + 1 = Buf!nslots THEN 0 ELSE t + 1
    BY BufAdvanceIs
  <2>  QED
    BY <2>1, BufRingHasRoom DEF BufWrap, Buf!Slot
<1>  QED
  BY <1>1, <1>2, <1>3, <1>4, <1>5

------------------------------------------------------------------------------
(* The inductive invariant, one part at a time.                            *)

\* The type invariant, apart in what is Boolean and what is not.
BufFlags == a_done \in BOOLEAN /\ a_live \in BOOLEAN /\ discarded \in BOOLEAN
BufSorts ==
  /\ a_head \in Buf!Slot /\ a_tail \in Buf!Slot /\ a_count \in 0 .. CountMod - 1
  /\ slot \in [Buf!Slot -> 0 .. NChunks]
  /\ sink_rc \in {0, 1}
  /\ dp \in {"none", "top", "not_empty", "sink", "exit"}
  /\ meta \in 0 .. NChunks /\ sunk \in Seq(0 .. NChunks)
  /\ ep \in {"start", "reading", "push", "not_full", "stop", "join", "ended"}
  /\ pushed \in 0 .. NChunks /\ a_rc \in {"ok", "nomem", "cancelled"}

\* Where the two threads are, and what their verdicts say of it.
BufRunning == {"reading", "push", "not_full"}
BufPhases ==
  /\ ep = "start" => dp = "none" /\ a_rc = "ok"
  /\ dp = "none" => ep = "start" \/ (ep = "ended" /\ a_rc = "nomem")
  /\ a_rc = "nomem" => dp = "none"
  /\ ep \in BufRunning => a_rc = "ok"
  /\ ep \in {"push", "not_full"} => pushed < NChunks
  /\ ep \in {"stop", "join"} /\ a_rc = "ok" => pushed = NChunks
  /\ a_done => ep \in {"join", "ended"}
  /\ discarded => a_done /\ a_rc # "ok"
  /\ ep = "ended" => dp \in {"none", "exit"}
  /\ sink_rc # 0 => dp = "exit"
  /\ dp = "exit" => sink_rc # 0 \/ a_done
  /\ ep = "ended" /\ sink_rc # 0 => a_rc = "cancelled"

\* The chunks the sink has been given and has returned from, and the ones still in the
\* ring behind them: until a discard, chunk after chunk of what was pushed.
BufHanded == IF dp = "sink" THEN Len(sunk) - 1 ELSE Len(sunk)
BufLive ==
  /\ a_count \in 0 .. Buf!nslots /\ BufHanded + a_count = pushed
     /\ a_head = BufWrap(a_tail, a_count)
  /\ \A i \in 0 .. Buf!nslots - 1 : i < a_count
     => slot[BufWrap(a_tail, i)] = BufHanded + i + 1
  /\ dp = "sink" => a_count > 0 /\ meta = Len(sunk)
  /\ dp = "exit" /\ sink_rc = 0 => a_count = 0
BufRing ==
  /\ ~discarded => BufLive /\ \A i \in 1 .. Len(sunk) : sunk[i] = i
  /\ ep = "ended" /\ a_rc = "ok" => Len(sunk) = NChunks

BufIInv == BufFlags /\ BufSorts /\ BufPhases /\ BufRing

USE DEF BufRunning, Buf!ring, Buf!flags, Buf!drainer, Buf!engine

\* A read that has not begun satisfies the invariant.
LEMMA BufInitInv == ASSUME Buf!BufAssumption, Buf!Init PROVE BufIInv
<1>0. Buf!nslots \in Nat \ {0} /\ Buf!nslots < CountMod /\ NChunks \in Nat
      /\ CountMod \in Nat
  BY BufRingHasRoom DEF Buf!BufAssumption
<1>1. BufFlags /\ BufPhases
  BY DEF Buf!Init, BufFlags, BufPhases
<1>2. BufSorts
  BY <1>0 DEF Buf!Init, BufSorts, Buf!Slot, Buf!Unused
<1>3. BufLive /\ Len(sunk) = 0
  BY <1>0 DEF Buf!Init, BufLive, BufHanded, BufWrap
<1>4. BufRing
  BY <1>3 DEF Buf!Init, BufRing
<1>  QED
  BY <1>1, <1>2, <1>4 DEF BufIInv

\* No step makes a Boolean anything else.
LEMMA BufFlagsStep ==
  ASSUME BufFlags, [Buf!Next]_(Buf!vars)
  PROVE  BufFlags'
<1>1. CASE Buf!DrainWait
  BY <1>1 DEF Buf!DrainWait, BufFlags
<1>2. CASE Buf!DrainExit
  BY <1>2 DEF Buf!DrainExit, Buf!Drained, BufFlags
<1>3. CASE Buf!DrainTake
  BY <1>3 DEF Buf!DrainTake, BufFlags
<1>4. CASE Buf!DrainReturn
  BY <1>4 DEF Buf!DrainReturn, Buf!Decrement, Buf!AfterSink, Buf!SignalNotFull, BufFlags
<1>5. CASE Buf!Start
  BY <1>5 DEF Buf!Start, BufFlags
<1>6. CASE Buf!StartFails
  BY <1>6 DEF Buf!StartFails, BufFlags
<1>7. CASE Buf!ReadChunk
  BY <1>7 DEF Buf!ReadChunk, BufFlags
<1>8. CASE Buf!Cancel
  BY <1>8 DEF Buf!Cancel, BufFlags
<1>9. CASE Buf!AllRead
  BY <1>9 DEF Buf!AllRead, BufFlags
<1>10. CASE Buf!PushWait
  BY <1>10 DEF Buf!PushWait, Buf!Full, BufFlags
<1>11. CASE Buf!PushRefused
  BY <1>11 DEF Buf!PushRefused, BufFlags
<1>12. CASE Buf!PushCopy
  BY <1>12 DEF Buf!PushCopy, Buf!Full, Buf!SignalNotEmpty, BufFlags
<1>13. CASE Buf!Stop
  BY <1>13 DEF Buf!Stop, Buf!SignalNotEmpty, BufFlags
<1>14. CASE Buf!Join
  BY <1>14 DEF Buf!Join, Buf!ConsumerGone, Buf!Fold, BufFlags
<1>15. CASE Buf!SpuriousWakeup
  BY <1>15 DEF Buf!SpuriousWakeup, BufFlags
<1>16. CASE Buf!Terminated
  BY <1>16 DEF Buf!Terminated, Buf!vars, BufFlags
<1>17. CASE UNCHANGED Buf!vars
  BY <1>17 DEF Buf!vars, BufFlags
<1>  QED
  BY <1>1, <1>2, <1>3, <1>4, <1>5, <1>6, <1>7, <1>8, <1>9, <1>10, <1>11, <1>12, <1>13,
     <1>14, <1>15, <1>16, <1>17 DEF Buf!Next, Buf!Drain, Buf!Engine

\* No step takes anything else out of its range; the wrapping count stays a uint32_t.
LEMMA BufSortsStep ==
  ASSUME Buf!BufAssumption, BufSorts, BufPhases, [Buf!Next]_(Buf!vars)
  PROVE  BufSorts'
<1>0. Buf!nslots \in Nat \ {0} /\ NChunks \in Nat \ {0} /\ CountMod \in Nat \ {0}
  BY BufRingHasRoom DEF Buf!BufAssumption
<1>1. CASE Buf!DrainWait
  BY <1>0, <1>1 DEF Buf!DrainWait, BufSorts
<1>2. CASE Buf!DrainExit
  BY <1>0, <1>2 DEF Buf!DrainExit, Buf!Drained, BufSorts
<1>3. CASE Buf!DrainTake
  <2>1. slot[a_tail] \in 0 .. NChunks
    BY DEF BufSorts
  <2>  QED
    BY <1>3, <2>1 DEF Buf!DrainTake, BufSorts
<1>4. CASE Buf!DrainReturn
  <2>1. a_tail' \in Buf!Slot
    BY <1>4, BufAdvanceInSlot DEF Buf!DrainReturn, BufSorts
  <2>2. a_count' \in 0 .. CountMod - 1
    BY <1>0, <1>4 DEF Buf!DrainReturn, Buf!Decrement, BufSorts
  <2>  QED
    BY <1>4, <2>1, <2>2 DEF Buf!DrainReturn, Buf!AfterSink, Buf!SignalNotFull, BufSorts
<1>5. CASE Buf!Start
  BY <1>0, <1>5 DEF Buf!Start, BufSorts
<1>6. CASE Buf!StartFails
  BY <1>0, <1>6 DEF Buf!StartFails, BufSorts
<1>7. CASE Buf!ReadChunk
  BY <1>0, <1>7 DEF Buf!ReadChunk, BufSorts
<1>8. CASE Buf!Cancel
  BY <1>0, <1>8 DEF Buf!Cancel, BufSorts
<1>9. CASE Buf!AllRead
  BY <1>0, <1>9 DEF Buf!AllRead, BufSorts
<1>10. CASE Buf!PushWait
  BY <1>0, <1>10 DEF Buf!PushWait, Buf!Full, BufSorts
<1>11. CASE Buf!PushRefused
  BY <1>0, <1>11 DEF Buf!PushRefused, BufSorts
<1>12. CASE Buf!PushCopy
  <2>1. a_head' \in Buf!Slot
    BY <1>12, BufAdvanceInSlot DEF Buf!PushCopy, BufSorts
  <2>2. a_count' \in 0 .. CountMod - 1
    BY <1>0, <1>12 DEF Buf!PushCopy, BufSorts
  <2>3. pushed' \in 0 .. NChunks /\ slot' \in [Buf!Slot -> 0 .. NChunks]
    BY <1>0, <1>12 DEF Buf!PushCopy, BufSorts, BufPhases
  <2>  QED
    BY <1>12, <2>1, <2>2, <2>3 DEF Buf!PushCopy, Buf!SignalNotEmpty, BufSorts
<1>13. CASE Buf!Stop
  BY <1>0, <1>13 DEF Buf!Stop, Buf!SignalNotEmpty, BufSorts
<1>14. CASE Buf!Join
  BY <1>0, <1>14 DEF Buf!Join, Buf!ConsumerGone, Buf!Fold, BufSorts
<1>15. CASE Buf!SpuriousWakeup
  BY <1>0, <1>15 DEF Buf!SpuriousWakeup, BufSorts
<1>16. CASE Buf!Terminated
  BY <1>0, <1>16 DEF Buf!Terminated, Buf!vars, BufSorts
<1>17. CASE UNCHANGED Buf!vars
  BY <1>0, <1>17 DEF Buf!vars, BufSorts
<1>  QED
  BY <1>1, <1>2, <1>3, <1>4, <1>5, <1>6, <1>7, <1>8, <1>9, <1>10, <1>11, <1>12, <1>13,
     <1>14, <1>15, <1>16, <1>17 DEF Buf!Next, Buf!Drain, Buf!Engine

\* Every step keeps the two threads where the verdicts say they are.
LEMMA BufPhasesStep ==
  ASSUME Buf!BufAssumption, BufFlags, BufSorts, BufPhases, [Buf!Next]_(Buf!vars)
  PROVE  BufPhases'
<1>1. CASE Buf!DrainWait
  BY <1>1 DEF Buf!DrainWait, BufPhases, BufSorts
<1>2. CASE Buf!DrainExit
  BY <1>2 DEF Buf!DrainExit, Buf!Drained, BufPhases, BufSorts
<1>3. CASE Buf!DrainTake
  BY <1>3 DEF Buf!DrainTake, BufPhases, BufSorts
<1>4. CASE Buf!DrainReturn
  BY <1>4 DEF Buf!DrainReturn, Buf!Decrement, Buf!AfterSink, Buf!SignalNotFull, BufPhases,
              BufSorts
<1>5. CASE Buf!Start
  BY <1>5 DEF Buf!Start, BufPhases, BufSorts
<1>6. CASE Buf!StartFails
  BY <1>6 DEF Buf!StartFails, BufPhases, BufSorts
<1>7. CASE Buf!ReadChunk
  BY <1>7 DEF Buf!ReadChunk, BufPhases, BufSorts
<1>8. CASE Buf!Cancel
  BY <1>8 DEF Buf!Cancel, BufPhases, BufSorts
<1>9. CASE Buf!AllRead
  BY <1>9 DEF Buf!AllRead, BufPhases, BufSorts
<1>10. CASE Buf!PushWait
  BY <1>10 DEF Buf!PushWait, Buf!Full, BufPhases, BufSorts
<1>11. CASE Buf!PushRefused
  BY <1>11 DEF Buf!PushRefused, BufPhases, BufSorts
<1>12. CASE Buf!PushCopy
  BY <1>12 DEF Buf!PushCopy, Buf!Full, Buf!SignalNotEmpty, BufPhases, BufSorts
<1>13. CASE Buf!Stop
  BY <1>13 DEF Buf!Stop, Buf!SignalNotEmpty, BufPhases, BufSorts
<1>14. CASE Buf!Join
  BY <1>14 DEF Buf!Join, Buf!ConsumerGone, Buf!Fold, BufPhases, BufSorts
<1>15. CASE Buf!SpuriousWakeup
  BY <1>15 DEF Buf!SpuriousWakeup, BufPhases, BufSorts
<1>16. CASE Buf!Terminated
  BY <1>16 DEF Buf!Terminated, Buf!vars, BufPhases, BufSorts
<1>17. CASE UNCHANGED Buf!vars
  BY <1>17 DEF Buf!vars, BufPhases, BufSorts
<1>  QED
  BY <1>1, <1>2, <1>3, <1>4, <1>5, <1>6, <1>7, <1>8, <1>9, <1>10, <1>11, <1>12, <1>13,
     <1>14, <1>15, <1>16, <1>17 DEF Buf!Next, Buf!Drain, Buf!Engine

\* Every step keeps the live chunks in the ring, and those given to the sink in order.
LEMMA BufRingStep ==
  ASSUME Buf!BufAssumption, BufFlags, BufSorts, BufPhases, BufRing, [Buf!Next]_(Buf!vars)
  PROVE  BufRing'
<1>0. /\ Buf!nslots \in Nat \ {0} /\ Buf!nslots < CountMod /\ CountMod \in Nat
      /\ a_head \in Buf!Slot /\ a_tail \in Buf!Slot /\ pushed \in Nat /\ Len(sunk) \in Nat
      /\ sunk \in Seq(0 .. NChunks) /\ slot \in [Buf!Slot -> 0 .. NChunks]
  BY BufRingHasRoom DEF Buf!BufAssumption, BufSorts
<1>1. CASE Buf!DrainWait
  BY <1>0, <1>1 DEF Buf!DrainWait, BufRing, BufHanded, BufLive
<1>2. CASE Buf!DrainExit
  BY <1>0, <1>2 DEF Buf!DrainExit, Buf!Drained, BufRing, BufHanded, BufLive
<1>3. CASE Buf!DrainTake
  <2>1. /\ dp = "top" /\ a_count # 0 /\ meta' = slot[a_tail]
        /\ sunk' = Append(sunk, slot[a_tail])
        /\ dp' = "sink"
        /\ UNCHANGED <<a_head, a_tail, a_count, slot, sink_rc, ep, pushed, a_rc, discarded>>
    BY <1>3 DEF Buf!DrainTake
  <2>2. ep # "ended"
    BY <2>1 DEF BufPhases
  <2>3. ASSUME ~discarded' PROVE BufLive' /\ \A i \in 1 .. Len(sunk') : sunk'[i] = i
    <3>1. /\ BufLive /\ BufHanded = Len(sunk) /\ a_count \in 1 .. Buf!nslots
          /\ \A i \in 1 .. Len(sunk) : sunk[i] = i
      BY <1>0, <2>1, <2>3 DEF BufRing, BufLive, BufHanded
    <3>2. slot[a_tail] = Len(sunk) + 1
      <4>1. slot[BufWrap(a_tail, 0)] = BufHanded + 0 + 1
        BY <1>0, <3>1 DEF BufLive
      <4>  QED
        BY <1>0, <3>1, <4>1, BufWrapFacts
    <3>3. Len(sunk') = Len(sunk) + 1 /\ \A i \in 1 .. Len(sunk') : sunk'[i] = i
      BY <1>0, <2>1, <3>1, <3>2
    <3>4. BufHanded' = BufHanded
      BY <1>0, <2>1, <3>1, <3>3 DEF BufHanded
    <3>5. BufLive'
      BY <1>0, <2>1, <3>1, <3>2, <3>3, <3>4 DEF BufLive, BufWrap
    <3>  QED
      BY <3>3, <3>5
  <2>  QED
    BY <2>1, <2>2, <2>3 DEF BufRing
<1>4. CASE Buf!DrainReturn
  <2>1. /\ dp = "sink" /\ a_tail' = Buf!Advance(a_tail)
        /\ a_count' = (a_count - 1) % CountMod
        /\ dp' \in {"top", "exit"} /\ (dp' = "exit" => sink_rc' # 0)
        /\ UNCHANGED <<a_head, slot, meta, sunk, pushed, a_rc, discarded>>
    BY <1>4 DEF Buf!DrainReturn, Buf!Decrement, Buf!AfterSink, BufSorts
  <2>2. ep' # "ended"
    BY <1>4, <2>1 DEF Buf!DrainReturn, Buf!SignalNotFull, BufPhases
  <2>3. ASSUME ~discarded' PROVE BufLive' /\ \A i \in 1 .. Len(sunk') : sunk'[i] = i
    <3>1. /\ BufLive /\ BufHanded = Len(sunk) - 1 /\ a_count \in 1 .. Buf!nslots
          /\ \A i \in 1 .. Len(sunk) : sunk[i] = i
      BY <1>0, <2>1, <2>3 DEF BufRing, BufLive, BufHanded
    <3>2. a_count' = a_count - 1
      BY <1>0, <2>1, <3>1
    <3>3. BufHanded' = BufHanded + 1
      BY <1>0, <2>1, <3>1 DEF BufHanded
    <3>4. BufWrap(a_tail', a_count') = a_head'
      <4>1. a_count - 1 \in 0 .. Buf!nslots - 1 /\ (a_count - 1) + 1 = a_count
        BY <1>0, <3>1
      <4>2. BufWrap(Buf!Advance(a_tail), a_count - 1) = BufWrap(a_tail, (a_count - 1) + 1)
        BY <1>0, <4>1, BufWrapFacts
      <4>  QED
        BY <2>1, <3>1, <3>2, <4>1, <4>2 DEF BufLive
    <3>5. ASSUME NEW i \in 0 .. Buf!nslots - 1, i < a_count'
          PROVE  slot'[BufWrap(a_tail', i)] = BufHanded' + i + 1
      <4>1. i + 1 \in 0 .. Buf!nslots - 1 /\ i + 1 < a_count
        BY <1>0, <3>1, <3>2, <3>5
      <4>2. slot[BufWrap(a_tail, i + 1)] = BufHanded + (i + 1) + 1
        BY <3>1, <4>1 DEF BufLive
      <4>3. BufWrap(a_tail', i) = BufWrap(a_tail, i + 1)
        BY <1>0, <2>1, <3>5, BufWrapFacts
      <4>  QED
        BY <1>0, <2>1, <3>1, <3>3, <4>2, <4>3
    <3>6. a_count' \in 0 .. Buf!nslots /\ BufHanded' + a_count' = pushed'
      BY <1>0, <2>1, <3>1, <3>2, <3>3 DEF BufLive
    <3>7. BufLive'
      BY <1>0, <2>1, <3>4, <3>5, <3>6 DEF BufLive, BufWrap
    <3>  QED
      BY <2>1, <3>1, <3>7
  <2>  QED
    BY <2>1, <2>2, <2>3 DEF BufRing
<1>5. CASE Buf!Start
  <2>1. /\ dp' = "top" /\ ep' = "reading" /\ dp = "none"
        /\ UNCHANGED <<Buf!ring, meta, sunk, pushed, sink_rc, discarded>>
    BY <1>5 DEF Buf!Start, BufPhases
  <2>2. BufHanded' = BufHanded
    BY <2>1 DEF BufHanded
  <2>3. BufLive => BufLive'
    BY <2>1, <2>2 DEF BufLive, BufWrap
  <2>  QED
    BY <2>1, <2>3 DEF BufRing
<1>6. CASE Buf!StartFails
  BY <1>0, <1>6 DEF Buf!StartFails, BufRing, BufHanded, BufLive
<1>7. CASE Buf!ReadChunk
  BY <1>0, <1>7 DEF Buf!ReadChunk, BufRing, BufHanded, BufLive
<1>8. CASE Buf!Cancel
  BY <1>0, <1>8 DEF Buf!Cancel, BufRing, BufHanded, BufLive
<1>9. CASE Buf!AllRead
  BY <1>0, <1>9 DEF Buf!AllRead, BufRing, BufHanded, BufLive
<1>10. CASE Buf!PushWait
  BY <1>0, <1>10 DEF Buf!PushWait, Buf!Full, BufRing, BufHanded, BufLive
<1>11. CASE Buf!PushRefused
  BY <1>0, <1>11 DEF Buf!PushRefused, BufRing, BufHanded, BufLive
<1>12. CASE Buf!PushCopy
  <2>1. /\ ep = "push" /\ ep' = "reading" /\ a_count # Buf!nslots /\ sink_rc = 0
        /\ slot' = [slot EXCEPT ![a_head] = pushed + 1]
        /\ a_head' = Buf!Advance(a_head) /\ a_count' = (a_count + 1) % CountMod
           /\ pushed' = pushed + 1
        /\ UNCHANGED <<a_tail, sink_rc, a_done, meta, sunk, a_rc, discarded>>
        /\ (dp = "sink") <=> (dp' = "sink")
        /\ (dp' = "exit") => (dp = "exit")
    BY <1>12 DEF Buf!PushCopy, Buf!Full, Buf!SignalNotEmpty
  <2>2. ~discarded /\ dp # "exit"
    BY <2>1 DEF BufPhases
  <2>3. /\ BufLive /\ a_count \in 0 .. Buf!nslots - 1
        /\ \A i \in 1 .. Len(sunk) : sunk[i] = i
    BY <1>0, <2>1, <2>2 DEF BufRing, BufLive
  <2>4. a_count' = a_count + 1 /\ BufHanded' = BufHanded /\ BufHanded \in Int
    BY <1>0, <2>1, <2>3, SMTT(40) DEF BufHanded
  <2>5. a_head = BufWrap(a_tail, a_count) /\ a_head' = BufWrap(a_tail, a_count + 1)
    BY <1>0, <2>1, <2>3, BufWrapFacts DEF BufLive
  <2>6. ASSUME NEW i \in 0 .. Buf!nslots - 1, i < a_count'
        PROVE  slot'[BufWrap(a_tail, i)] = BufHanded + i + 1
    <3>1. BufWrap(a_tail, i) \in Buf!Slot
      BY <1>0, BufWrapFacts
    <3>2. CASE i = a_count
      BY <1>0, <2>1, <2>3, <2>5, <3>2 DEF BufLive
    <3>3. CASE i # a_count
      <4>1. i < a_count /\ BufWrap(a_tail, i) # a_head
        BY <1>0, <2>3, <2>4, <2>5, <2>6, <3>3, BufWrapFacts
      <4>2. slot'[BufWrap(a_tail, i)] = slot[BufWrap(a_tail, i)]
        BY <1>0, <2>1, <3>1, <4>1
      <4>  QED
        BY <2>3, <4>1, <4>2 DEF BufLive
    <3>  QED
      BY <3>2, <3>3
  <2>7. BufHanded + a_count = pushed /\ (dp = "sink" => a_count > 0 /\ meta = Len(sunk))
    BY <2>3 DEF BufLive
  <2>8. a_count' \in 0 .. Buf!nslots /\ BufHanded' + a_count' = pushed' /\ a_count' > 0
    BY <1>0, <2>1, <2>3, <2>4, <2>7
  <2>9. BufLive'
    BY <2>1, <2>2, <2>4, <2>5, <2>6, <2>7, <2>8 DEF BufLive, BufWrap
  <2>  QED
    BY <2>1, <2>3, <2>9 DEF BufRing
<1>13. CASE Buf!Stop
  <2>1. /\ ep = "stop" /\ ep' = "join"
        /\ UNCHANGED <<a_head, slot, sink_rc, meta, sunk, pushed, a_rc>>
        /\ (dp = "sink") <=> (dp' = "sink")
        /\ (dp' = "exit") => (dp = "exit")
    BY <1>13 DEF Buf!Stop, Buf!SignalNotEmpty
  <2>2. CASE a_rc # "ok"
    BY <1>13, <2>1, <2>2 DEF Buf!Stop, BufRing
  <2>3. CASE a_rc = "ok"
    <3>1. UNCHANGED <<a_count, a_tail, discarded>>
      BY <1>13, <2>3 DEF Buf!Stop
    <3>2. BufHanded' = BufHanded
      BY <2>1 DEF BufHanded
    <3>3. BufLive => BufLive'
      BY <2>1, <3>1, <3>2 DEF BufLive, BufWrap
    <3>  QED
      BY <2>1, <3>1, <3>3 DEF BufRing
  <2>  QED
    BY <2>2, <2>3
<1>14. CASE Buf!Join
  <2>1. /\ ep = "join" /\ ep' = "ended" /\ dp = "exit" /\ a_rc' = Buf!Fold
        /\ UNCHANGED <<Buf!ring, dp, meta, sunk, pushed, sink_rc, discarded>>
    BY <1>14 DEF Buf!Join, Buf!ConsumerGone
  <2>2. ~discarded' => BufLive' /\ \A i \in 1 .. Len(sunk') : sunk'[i] = i
    BY <2>1 DEF BufRing, BufLive, BufHanded, BufWrap
  <2>3. ASSUME a_rc' = "ok" PROVE Len(sunk') = NChunks
    <3>1. a_rc = "ok" /\ sink_rc = 0 /\ pushed = NChunks /\ ~discarded
      BY <2>1, <2>3 DEF Buf!Fold, BufPhases
    <3>2. a_count = 0 /\ BufHanded = Len(sunk) /\ BufHanded + a_count = pushed
      BY <2>1, <3>1 DEF BufRing, BufLive, BufHanded
    <3>  QED
      BY <1>0, <2>1, <3>1, <3>2
  <2>  QED
    BY <2>2, <2>3 DEF BufRing
<1>15. CASE Buf!SpuriousWakeup
  BY <1>0, <1>15 DEF Buf!SpuriousWakeup, BufRing, BufHanded, BufLive
<1>16. CASE Buf!Terminated
  BY <1>0, <1>16 DEF Buf!Terminated, Buf!vars, BufRing, BufHanded, BufLive
<1>17. CASE UNCHANGED Buf!vars
  BY <1>0, <1>17 DEF Buf!vars, BufRing, BufHanded, BufLive
<1>  QED
  BY <1>1, <1>2, <1>3, <1>4, <1>5, <1>6, <1>7, <1>8, <1>9, <1>10, <1>11, <1>12, <1>13,
     <1>14, <1>15, <1>16, <1>17 DEF Buf!Next, Buf!Drain, Buf!Engine

------------------------------------------------------------------------------

\* The invariant is inductive.
LEMMA BufNextInv == ASSUME Buf!BufAssumption, BufIInv, [Buf!Next]_(Buf!vars) PROVE BufIInv'
  BY BufFlagsStep, BufSortsStep, BufPhasesStep, BufRingStep DEF BufIInv

\* The invariant holds throughout.
LEMMA BufSpecInv == ASSUME Buf!BufAssumption PROVE Buf!Spec => []BufIInv
<1>1. Buf!Init => BufIInv
  BY BufInitInv
<1>2. BufIInv /\ [Buf!Next]_(Buf!vars) => BufIInv'
  BY BufNextInv
<1>  QED
  BY <1>1, <1>2, PTL DEF Buf!Spec

------------------------------------------------------------------------------

\* Every variable keeps its type: head and tail stay on the ring, and no more is pushed
\* than is read.
THEOREM BufSpecTypeOK == ASSUME Buf!BufAssumption PROVE Buf!Spec => []Buf!TypeOK
<1>1. BufIInv => Buf!TypeOK
  BY DEF BufIInv, BufFlags, BufSorts, Buf!TypeOK
<1>  QED
  BY <1>1, BufSpecInv, PTL

\* The sink gets the chunks in order, each payload stable while it looks at it; a read
\* that reports success has delivered all of them, one that was refused says so and asks
\* no more, and the ring outlives its consumer (accubuf.c, engine.c).
THEOREM BufSpecSinkContract == ASSUME Buf!BufAssumption PROVE Buf!Spec => []Buf!SinkContract
<1>1. BufIInv => Buf!SinkContract
  <2>  SUFFICES ASSUME BufIInv PROVE Buf!SinkContract
    OBVIOUS
  <2>0. Buf!nslots \in Nat \ {0} /\ a_tail \in Buf!Slot /\ pushed \in Nat
        /\ Len(sunk) \in Nat
    BY BufRingHasRoom DEF Buf!BufAssumption, BufIInv, BufSorts
  <2>1. Buf!DeliveredInOrder
    BY <2>0 DEF BufIInv, BufRing, BufLive, BufHanded, Buf!DeliveredInOrder
  <2>2. Buf!SinkPayloadStable
    <3>  SUFFICES ASSUME dp = "sink", ~discarded PROVE slot[a_tail] = meta
      BY DEF Buf!SinkPayloadStable
    <3>1. BufLive /\ a_count > 0 /\ BufHanded = Len(sunk) - 1 /\ meta = Len(sunk)
      BY DEF BufIInv, BufRing, BufLive, BufHanded
    <3>2. slot[BufWrap(a_tail, 0)] = BufHanded + 0 + 1
      BY <2>0, <3>1 DEF BufLive
    <3>  QED
      BY <2>0, <3>1, <3>2, BufWrapFacts
  <2>3. Buf!CompleteOnSuccess
    BY DEF BufIInv, BufRing, Buf!CompleteOnSuccess
  <2>4. Buf!RefusalReported /\ Buf!NoCallAfterRefusal /\ Buf!NoUseAfterFree
    BY DEF BufIInv, BufPhases, Buf!RefusalReported, Buf!NoCallAfterRefusal,
           Buf!NoUseAfterFree
  <2>  QED
    BY <2>1, <2>2, <2>3, <2>4 DEF Buf!SinkContract
<1>  QED
  BY <1>1, BufSpecInv, PTL
------------------------------------------------------------------------------
(* The composition: whichever component runs, each one behaves as it does  *)
(* by itself.                                                              *)

\* The write FIFO with its proofs; the two instances say the same.
FifoP == INSTANCE WriteFifo_proofs WITH
  WantSlots <- FifoWant, MinSlots <- FifoMin, MaxSlots <- FifoMax,
  ret <- f_ret, lba <- f_lba

\* What holds of the one instance of the FIFO holds of the other.
LEMMA SameFifo ==
  /\ Fifo!Init <=> FifoP!Init
  /\ Fifo!Next <=> FifoP!Next
  /\ Fifo!TypeOK <=> FifoP!TypeOK
<1>1. Fifo!Init <=> FifoP!Init
  BY DEF FifoP!SegLen, Fifo!SegLen, FifoP!Total, Fifo!Total, FifoP!nslots, Fifo!nslots,
         FifoP!Slot, Fifo!Slot, FifoP!Torn, Fifo!Torn, FifoP!ring, Fifo!ring,
         FifoP!flags, Fifo!flags, FifoP!reports, Fifo!reports, FifoP!place, Fifo!place,
         FifoP!burn, Fifo!burn, FifoP!vars, Fifo!vars, FifoP!Advance, Fifo!Advance,
         FifoP!SignalNotFull, Fifo!SignalNotFull, FifoP!SignalNotEmpty, Fifo!SignalNotEmpty,
         FifoP!Init, Fifo!Init, FifoP!Full, Fifo!Full, FifoP!FillWait, Fifo!FillWait,
         FifoP!FillCancelled, Fifo!FillCancelled, FifoP!FillClaim, Fifo!FillClaim,
         FifoP!FillNextSegment, Fifo!FillNextSegment,
         FifoP!FillEndOfStream, Fifo!FillEndOfStream,
         FifoP!FillReadBegin, Fifo!FillReadBegin, FifoP!FillSize, Fifo!FillSize,
         FifoP!FillReadOk, Fifo!FillReadOk, FifoP!KeepError, Fifo!KeepError,
         FifoP!FillReadError, Fifo!FillReadError, FifoP!FillPublish, Fifo!FillPublish,
         FifoP!Fill, Fifo!Fill, FifoP!Start, Fifo!Start, FifoP!StartFails, Fifo!StartFails,
         FifoP!PrefillBlocked, Fifo!PrefillBlocked, FifoP!PrefillWait, Fifo!PrefillWait,
         FifoP!PrefillReady, Fifo!PrefillReady, FifoP!PrefillReturn, Fifo!PrefillReturn,
         FifoP!PopBlocked, Fifo!PopBlocked, FifoP!PopEnter, Fifo!PopEnter,
         FifoP!PopWait, Fifo!PopWait, FifoP!Drained, Fifo!Drained,
         FifoP!PopDrained, Fifo!PopDrained, FifoP!PopTake, Fifo!PopTake,
         FifoP!Starved, Fifo!Starved, FifoP!WriteChunk, Fifo!WriteChunk,
         FifoP!WriteFails, Fifo!WriteFails, FifoP!Release, Fifo!Release,
         FifoP!Close, Fifo!Close, FifoP!StopCancels, Fifo!StopCancels,
         FifoP!Stop, Fifo!Stop, FifoP!ProducerGone, Fifo!ProducerGone,
         FifoP!Join, Fifo!Join, FifoP!Burn, Fifo!Burn,
         FifoP!SpuriousWakeup, Fifo!SpuriousWakeup, FifoP!Terminated, Fifo!Terminated,
         FifoP!Next, Fifo!Next
<1>2. Fifo!Next <=> FifoP!Next
  BY DEF FifoP!SegLen, Fifo!SegLen, FifoP!Total, Fifo!Total, FifoP!nslots, Fifo!nslots,
         FifoP!Slot, Fifo!Slot, FifoP!Torn, Fifo!Torn, FifoP!ring, Fifo!ring,
         FifoP!flags, Fifo!flags, FifoP!reports, Fifo!reports, FifoP!place, Fifo!place,
         FifoP!burn, Fifo!burn, FifoP!vars, Fifo!vars, FifoP!Advance, Fifo!Advance,
         FifoP!SignalNotFull, Fifo!SignalNotFull, FifoP!SignalNotEmpty, Fifo!SignalNotEmpty,
         FifoP!Init, Fifo!Init, FifoP!Full, Fifo!Full, FifoP!FillWait, Fifo!FillWait,
         FifoP!FillCancelled, Fifo!FillCancelled, FifoP!FillClaim, Fifo!FillClaim,
         FifoP!FillNextSegment, Fifo!FillNextSegment,
         FifoP!FillEndOfStream, Fifo!FillEndOfStream,
         FifoP!FillReadBegin, Fifo!FillReadBegin, FifoP!FillSize, Fifo!FillSize,
         FifoP!FillReadOk, Fifo!FillReadOk, FifoP!KeepError, Fifo!KeepError,
         FifoP!FillReadError, Fifo!FillReadError, FifoP!FillPublish, Fifo!FillPublish,
         FifoP!Fill, Fifo!Fill, FifoP!Start, Fifo!Start, FifoP!StartFails, Fifo!StartFails,
         FifoP!PrefillBlocked, Fifo!PrefillBlocked, FifoP!PrefillWait, Fifo!PrefillWait,
         FifoP!PrefillReady, Fifo!PrefillReady, FifoP!PrefillReturn, Fifo!PrefillReturn,
         FifoP!PopBlocked, Fifo!PopBlocked, FifoP!PopEnter, Fifo!PopEnter,
         FifoP!PopWait, Fifo!PopWait, FifoP!Drained, Fifo!Drained,
         FifoP!PopDrained, Fifo!PopDrained, FifoP!PopTake, Fifo!PopTake,
         FifoP!Starved, Fifo!Starved, FifoP!WriteChunk, Fifo!WriteChunk,
         FifoP!WriteFails, Fifo!WriteFails, FifoP!Release, Fifo!Release,
         FifoP!Close, Fifo!Close, FifoP!StopCancels, Fifo!StopCancels,
         FifoP!Stop, Fifo!Stop, FifoP!ProducerGone, Fifo!ProducerGone,
         FifoP!Join, Fifo!Join, FifoP!Burn, Fifo!Burn,
         FifoP!SpuriousWakeup, Fifo!SpuriousWakeup, FifoP!Terminated, Fifo!Terminated,
         FifoP!Next, Fifo!Next
<1>3. Fifo!TypeOK <=> FifoP!TypeOK
  BY DEF FifoP!TypeOK, Fifo!TypeOK, FifoP!Slot, Fifo!Slot, FifoP!nslots, Fifo!nslots,
         FifoP!Torn, Fifo!Torn, FifoP!Total, Fifo!Total, FifoP!ProducerAt, Fifo!ProducerAt,
         FifoP!BurnAt, Fifo!BurnAt, FifoP!Verdict, Fifo!Verdict
<1>  QED
  BY <1>1, <1>2, <1>3

\* A step of the composition is a step of each component, or leaves it as it is.
LEMMA StepOfEach ==
  ASSUME [MCNext]_all
  PROVE  /\ [Next]_vars /\ [Rdy!Next]_(Rdy!vars)
         /\ [Buf!Next]_(Buf!vars) /\ [FifoP!Next]_(FifoP!vars)
<1>1. CASE ReadyStep(Rdy!Next)
  BY <1>1 DEF ReadyStep, bufvars, fifovars, Buf!vars, Buf!ring, Buf!flags, Buf!drainer,
              Buf!engine,
              FifoP!vars, FifoP!ring, FifoP!flags, FifoP!reports, FifoP!place, FifoP!burn
<1>2. CASE BufStep(Buf!Next)
  BY <1>2 DEF BufStep, readyvars, fifovars, Rdy!vars,
              FifoP!vars, FifoP!ring, FifoP!flags, FifoP!reports, FifoP!place, FifoP!burn
<1>3. CASE FifoStep(Fifo!Next)
  BY <1>3, SameFifo DEF FifoStep, readyvars, bufvars, Rdy!vars, Buf!vars, Buf!ring, Buf!flags,
                        Buf!drainer, Buf!engine
<1>4. CASE BurnStep(Next)
  BY <1>4 DEF BurnStep, readyvars, bufvars, fifovars, Rdy!vars, Buf!vars, Buf!ring, Buf!flags,
              Buf!drainer, Buf!engine,
              FifoP!vars, FifoP!ring, FifoP!flags, FifoP!reports, FifoP!place, FifoP!burn
<1>5. CASE UNCHANGED all
  BY <1>5 DEF all, readyvars, bufvars, fifovars, Rdy!vars, Buf!vars, Buf!ring, Buf!flags,
              Buf!drainer, Buf!engine,
              FifoP!vars, FifoP!ring, FifoP!flags, FifoP!reports, FifoP!place, FifoP!burn
<1>  QED
  BY <1>1, <1>2, <1>3, <1>4, <1>5 DEF MCNext

\* Hence the composition implements every component.
LEMMA EachComponent == MCSpec => Spec /\ Rdy!Spec /\ Buf!Spec /\ FifoP!Spec
<1>1. MCInit => Init /\ Rdy!Init /\ Buf!Init /\ FifoP!Init
  BY SameFifo DEF MCInit
<1>2. [MCNext]_all => [Next]_vars
  BY StepOfEach
<1>3. [MCNext]_all => [Rdy!Next]_(Rdy!vars)
  BY StepOfEach
<1>4. [MCNext]_all => [Buf!Next]_(Buf!vars)
  BY StepOfEach
<1>5. [MCNext]_all => [FifoP!Next]_(FifoP!vars)
  BY StepOfEach
<1>  QED
  BY <1>1, <1>2, <1>3, <1>4, <1>5, PTL DEF MCSpec, Spec, Rdy!Spec, Buf!Spec, FifoP!Spec

\* The type invariants of burn engine, readiness layer, AccuBuffer and write FIFO.
THEOREM SpecTypesOK == MCSpec => []TypesOK
<1>1. Spec => []TypeOK
  BY SpecTypeOK, HostAssumption
<1>2. Rdy!Spec => []Rdy!TypeOK
  BY ReadySpecTypeOK, HostAssumption
<1>3. Buf!Spec => []Buf!TypeOK
  BY BufSpecTypeOK, HostAssumption
<1>4. FifoP!Spec => []FifoP!TypeOK
  BY FifoP!SpecTypeOK, HostAssumption
<1>5. TypeOK /\ Rdy!TypeOK /\ Buf!TypeOK /\ FifoP!TypeOK => TypesOK
  BY SameFifo DEF TypesOK
<1>  QED
  BY <1>1, <1>2, <1>3, <1>4, <1>5, EachComponent, PTL

\* adsc_dev_exec: nothing is done twice, a write is sent once, and the two quotas
\* together bound what is sent.
THEOREM SpecRetriedSafely == MCSpec => []RetriedSafely
<1>1. Rdy!Spec => []Rdy!RetriedSafely
  BY ReadySpecRetriedSafely, HostAssumption
<1>  QED
  BY <1>1, EachComponent, PTL DEF RetriedSafely

\* accudisc_load: no success for a drive that was still becoming ready.
THEOREM SpecLoadMeansSettled == MCSpec => LoadMeansSettled
  BY ReadySpecLoadMeansSettled, EachComponent, PTL DEF LoadMeansSettled

\* AccuBuf: the sink gets the chunks in order and stable, a success is whole and a
\* refusal is a cancelled read and the sink's last call.
THEOREM SpecSinkContract == MCSpec => []SinkContract
<1>1. Buf!Spec => []Buf!SinkContract
  BY BufSpecSinkContract, HostAssumption
<1>  QED
  BY <1>1, EachComponent, PTL DEF SinkContract
==============================================================================
