--------------------------------- MODULE Burn ---------------------------------
(***************************************************************************)
(* A burn, from the public entry point accudisc_write (write_api.c) through *)
(* adsc_write_run (burn.c), repeated on one device handle, with the write   *)
(* budget of device.c deciding which calls may reach the drive.             *)
(*                                                                         *)
(* The drive is external.  It may refuse any command, may fail to hold the  *)
(* write-parameters page it accepted, may lose it again when its speed is   *)
(* set or its power calibrated, and may obey a command whose answer never   *)
(* arrives.  The feed is what AudioStream promises and WriteFifo provides:  *)
(* the next chunk of the source, or a failure.  Logs, traces, timings and   *)
(* the buffer-fill polls are left out: they decide nothing.                 *)
(***************************************************************************)
EXTENDS Integers, Sequences

CONSTANTS
  Calls,      \* bound: calls of accudisc_write on the handle
  Budgets,    \* what a caller may set as its write budget; 0 is unlimited
  Tracks,     \* sectors of each track of the disc to be written
  Gap,        \* LEADIN_GAP, 150 zero sectors before LBA 0
  Leadin,     \* the medium's lead-in, in sectors: where CD-Text goes
  Chunk,      \* most sectors of one WRITE(10): CHUNK
  CdtChunk,   \* the same in the CD-Text lead-in: CDT_CHUNK
  StallCap    \* STALL_CAP_MS / STALL_POLL_MS

\* What the constants must satisfy; an instance assumes it.
BurnAssumption ==
  /\ Calls \in Nat /\ Budgets \subseteq Nat /\ StallCap \in Nat
  /\ Tracks \in Seq(Nat) /\ Gap \in Nat \ {0} /\ Leadin \in Nat \ {0}
  /\ Chunk \in Nat \ {0} /\ CdtChunk \in Nat \ {0}

TrackEnd[k \in 0 .. Len(Tracks)] ==
  IF k = 0 THEN 0 ELSE TrackEnd[k - 1] + Tracks[k]
Total == TrackEnd[Len(Tracks)]

\* What page 05 of the drive says: this burn live, this burn as a test write,
\* or something with a field the burn depends on wrong.
Page == {"live", "test", "other"}

Options == [simulate : BOOLEAN, cdtext : BOOLEAN, fifo : BOOLEAN]

VARIABLES
  at,                       \* where the call is; "idle" between calls
  opts, ret, caveat,        \* its options, its verdict, the CD-Text caveat
  session_open, burn_started, fifo_live,
  lba, done_sec, waited,    \* the next address, the payload sent, the stall clock
  ready_wait_off, wr_budget, wr_live,   \* kept by the handle between calls
  page, drv_session, drv_next,          \* the drive: its page, an open session, where it is
  seen_blank, commanded, calibrated, burned, \* what this call did, for the record
  lost,                     \* the drive's session state and the host's idea of it parted
  calls, completed, passes  \* calls made; live burns finished, and begun, under the budget

options == <<opts, caveat>>
session == <<session_open, burn_started, ready_wait_off>>
position == <<lba, done_sec, waited>>
health == <<wr_budget, wr_live>>
drive == <<page, drv_session, drv_next>>
record == <<seen_blank, commanded, calibrated, burned>>
tally == <<calls, completed, passes>>
vars == <<at, options, ret, session, fifo_live, position, health, drive,
          record, lost, tally>>

Init ==
  /\ at = "idle" /\ ret = "none" /\ caveat = FALSE
  /\ opts = [simulate |-> TRUE, cdtext |-> FALSE, fifo |-> FALSE]
  /\ session_open = FALSE /\ burn_started = FALSE /\ fifo_live = FALSE
  /\ lba = 0 /\ done_sec = 0 /\ waited = 0
  /\ ready_wait_off = FALSE /\ wr_budget = 0 /\ wr_live = 0
  /\ page = "other" /\ drv_session = FALSE /\ drv_next = 0
  /\ seen_blank = FALSE /\ commanded = FALSE /\ calibrated = FALSE /\ burned = FALSE
  /\ lost = FALSE /\ calls = 0 /\ completed = 0 /\ passes = 0

\* (Definitions whose names end in _Bug restate the one that follows them with a
\* plausible mistake; nothing uses them but the checks that the properties bite.)

\* `goto done` with a verdict.
Fail_Bug(r) == ret' = r /\ at' = "idle"
Fail(r) == ret' = r /\ at' = "done"

------------------------------------------------------------------------------
(* The handle, and accudisc_write before the engine.                       *)

\* accudisc_set_write_budget: a new bounded run starts at zero.
SetBudget(b) ==
  /\ at = "idle"
  /\ wr_budget' = b
  /\ wr_live' = 0 /\ completed' = 0 /\ passes' = 0
  /\ UNCHANGED <<at, options, ret, session, fifo_live, position, drive, record,
                 lost, calls>>

BudgetSpent_Bug == wr_budget # 0 /\ wr_live > wr_budget
BudgetSpent == wr_budget # 0 /\ wr_live >= wr_budget

Write(o) ==
  /\ at = "idle"
  /\ calls < Calls
  /\ calls' = calls + 1
  /\ opts' = o
  /\ caveat' = FALSE
  /\ seen_blank' = FALSE /\ commanded' = FALSE /\ calibrated' = FALSE /\ burned' = FALSE
  /\ session_open' = FALSE /\ burn_started' = FALSE /\ fifo_live' = FALSE
  /\ lba' = 0 /\ done_sec' = 0 /\ waited' = 0
  /\ IF ~o.simulate /\ BudgetSpent
       THEN ret' = "write_budget" /\ at' = "idle"
       ELSE ret' = "ok" /\ at' = "model"
  /\ UNCHANGED <<ready_wait_off, health, drive, lost, completed, passes>>

\* The .toc, the CD-Text blob and the .bin: parsed, validated, opened.
LoadModel ==
  /\ at = "model"
  /\ at' = "params"
  /\ caveat' \in {FALSE, opts.cdtext}
  /\ UNCHANGED <<opts, ret, session, fifo_live, position, health, drive, record,
                 lost, tally>>

LoadModelFails ==
  /\ at = "model"
  /\ ret' = "error"
  /\ at' = "idle"
  /\ UNCHANGED <<options, session, fifo_live, position, health, drive, record,
                 lost, tally>>

------------------------------------------------------------------------------
(* adsc_write_run: everything before the drive holds a session.            *)

Wanted == IF opts.simulate THEN "test" ELSE "live"

\* Page 05 programmed.  GOOD is the drive taking the command, no more.
SetParams ==
  /\ at = "params"
  /\ commanded' = TRUE
  /\ page' \in Page
  /\ \/ at' = "speed" /\ UNCHANGED ret
     \/ Fail("error")
  /\ UNCHANGED <<options, session, fifo_live, position, health, drv_session,
                 drv_next, seen_blank, calibrated, burned, lost, tally>>

\* A speed the drive refuses is not fatal.
SetSpeed ==
  /\ at = "speed"
  /\ page' \in Page
  /\ at' = "check_set"
  /\ UNCHANGED <<options, ret, session, fifo_live, position, health, drv_session,
                 drv_next, record, lost, tally>>

Held_Bug == TRUE
Held == page = Wanted

AfterCheck_Bug == IF at = "check_set" THEN "opc" ELSE "blank"
AfterCheck == IF at = "check_set" THEN "blank" ELSE "cue"

\* check_write_params, after the speed and again after the calibration.
CheckParams ==
  /\ at \in {"check_set", "check_opc"}
  /\ \/ Held /\ at' = AfterCheck /\ UNCHANGED ret
     \/ ~Held /\ Fail("write_params")
     \/ Fail("error")
  /\ UNCHANGED <<options, session, fifo_live, position, health, drive, record,
                 lost, tally>>

\* The disc may have been changed or erased since the last call.  A drive still
\* in a session refuses READ DISC INFORMATION.
BlankCheck ==
  /\ at = "blank"
  /\ \/ ~drv_session /\ seen_blank' = TRUE /\ at' = "opc" /\ UNCHANGED ret
     \/ ~drv_session /\ Fail("not_blank") /\ UNCHANGED seen_blank
     \/ Fail("error") /\ UNCHANGED seen_blank
  /\ UNCHANGED <<options, session, fifo_live, position, health, drive, commanded,
                 calibrated, burned, lost, tally>>

NeedsOpc_Bug == TRUE
NeedsOpc == ~opts.simulate

SkipOpc ==
  /\ at = "opc"
  /\ ~NeedsOpc
  /\ at' = "cue"
  /\ UNCHANGED <<options, ret, session, fifo_live, position, health, drive, record,
                 lost, tally>>

\* Done, not implemented (5/20), or failed.
SendOpc ==
  /\ at = "opc"
  /\ NeedsOpc
  /\ page' \in {page, "other"}
  /\ \/ calibrated' \in BOOLEAN /\ at' = "check_opc" /\ UNCHANGED ret
     \/ calibrated' \in BOOLEAN /\ Fail("error")
  /\ UNCHANGED <<options, session, fifo_live, position, health, drv_session,
                 drv_next, seen_blank, commanded, burned, lost, tally>>

\* Where recording begins once a cue sheet is accepted.
FirstLba == IF opts.cdtext THEN -Gap - Leadin ELSE -Gap

SendCue ==
  /\ at = "cue"
  /\ drv_session' = TRUE /\ drv_next' = FirstLba
  /\ session_open' = TRUE /\ burn_started' = TRUE /\ ready_wait_off' = TRUE
  /\ lba' = FirstLba
  /\ at' = IF opts.cdtext THEN "leadin" ELSE "alloc"
  /\ UNCHANGED <<options, ret, fifo_live, done_sec, waited, health, page, record,
                 lost, tally>>

\* Not built, refused, or accepted by the drive and its answer lost.
SendCueFails ==
  /\ at = "cue"
  /\ Fail("error")
  /\ drv_session' \in {drv_session, TRUE}
  /\ lost' = (lost \/ drv_session')
  /\ UNCHANGED <<options, session, fifo_live, position, health, page, drv_next,
                 record, tally>>

------------------------------------------------------------------------------
(* The open session: lead-in, gap, payload.                                *)

\* The chunk of source at s never crosses the end of its track.
TrackLeft(s) ==
  LET k == CHOOSE k \in 1 .. Len(Tracks) : TrackEnd[k - 1] <= s /\ s < TrackEnd[k]
  IN  TrackEnd[k] - s

Least(a, b) == IF a < b THEN a ELSE b

\* How much the next WRITE(10) of each phase carries.
ChunkSize_Bug ==
  CASE at = "leadin"  -> CdtChunk
    [] at = "gap"     -> Chunk
    [] at = "payload" -> Chunk
ChunkSize ==
  CASE at = "leadin"  -> Least(CdtChunk, -Gap - lba)
    [] at = "gap"     -> Least(Chunk, 0 - lba)
    [] at = "payload" -> Least(Chunk, TrackLeft(done_sec))

Unsent ==
  \/ at = "leadin" /\ lba < -Gap
  \/ at = "gap" /\ lba < 0
  \/ at = "payload" /\ done_sec < Total

\* The drive records n sectors where it stands, at the power its page says.
Records(n) ==
  /\ drv_next' = drv_next + n
  /\ burned' = (burned \/ page # "test")
  /\ passes' = IF page # "test" /\ ~burned THEN passes + 1 ELSE passes

\* write_chunk: the drive takes the chunk.
WriteChunk ==
  /\ Unsent
  /\ Records(ChunkSize)
  /\ lba' = lba + ChunkSize
  /\ done_sec' = IF at = "payload" THEN done_sec + ChunkSize ELSE done_sec
  /\ waited' = 0
  /\ UNCHANGED <<at, options, ret, session, fifo_live, health, page, drv_session,
                 seen_blank, commanded, calibrated, lost, calls, completed>>

\* How long to be held off by one WRITE(10).
StallLeft_Bug == waited <= StallCap
StallLeft == waited < StallCap

Tick_Bug == (waited + 1) % StallCap
Tick == waited + 1

\* 2/04/08, its buffer is full: wait, and retry the same address.
Stall ==
  /\ Unsent
  /\ StallLeft
  /\ waited' = Tick
  /\ UNCHANGED <<at, options, ret, session, fifo_live, lba, done_sec, health, drive,
                 record, lost, tally>>

\* Held off too long, or any other failure, perhaps after recording the chunk.
WriteChunkFails ==
  /\ Unsent
  /\ Fail("error")
  /\ \/ UNCHANGED <<drv_next, burned, passes>>
     \/ Records(ChunkSize)
  /\ UNCHANGED <<options, session, fifo_live, position, health, page, drv_session,
                 seen_blank, commanded, calibrated, lost, calls, completed>>

\* The CD-Text does not encode, or there is no memory for it.
LeadinFails ==
  /\ at = "leadin"
  /\ lba = FirstLba /\ waited = 0
  /\ Fail("error")
  /\ UNCHANGED <<options, session, fifo_live, position, health, drive, record,
                 lost, tally>>

LeadinDone ==
  /\ at = "leadin"
  /\ ~Unsent
  /\ at' = "alloc"
  /\ UNCHANGED <<options, ret, session, fifo_live, position, health, drive, record,
                 lost, tally>>

\* The two chunk buffers; then the gap.
Alloc ==
  /\ at = "alloc"
  /\ \/ at' = "gap" /\ lba' = -Gap /\ UNCHANGED ret
     \/ Fail("error") /\ UNCHANGED lba
  /\ UNCHANGED <<options, session, fifo_live, done_sec, waited, health, drive,
                 record, lost, tally>>

\* The gap is written; start and fill the FIFO if the caller wants one.
StartFeed ==
  /\ at = "gap"
  /\ ~Unsent
  /\ fifo_live' = opts.fifo
  /\ at' = "payload"
  /\ UNCHANGED <<options, ret, session, position, health, drive, record, lost, tally>>

\* The FIFO does not start, or its prefill meets a read error.
StartFeedFails ==
  /\ at = "gap"
  /\ ~Unsent
  /\ opts.fifo
  /\ fifo_live' \in BOOLEAN
  /\ Fail("error")
  /\ UNCHANGED <<options, session, position, health, drive, record, lost, tally>>

\* A read error, or a starved ring with no BURN-Proof behind it.
FeedFails ==
  /\ at = "payload"
  /\ done_sec < Total /\ waited = 0
  /\ Fail("error")
  /\ UNCHANGED <<options, session, fifo_live, position, health, drive, record,
                 lost, tally>>

PayloadDone ==
  /\ at = "payload"
  /\ ~Unsent
  /\ at' = "close"
  /\ UNCHANGED <<options, ret, session, fifo_live, position, health, drive, record,
                 lost, tally>>

\* What a SYNCHRONIZE CACHE answered r leaves of the drive's session.
Flush(r) == drv_session' \in (IF r = "ok" THEN {FALSE} ELSE {FALSE, drv_session})

CloseVerdict_Bug(r) == "ok"
CloseVerdict(r) == r

Close ==
  /\ at = "close"
  /\ \E r \in {"ok", "error"} :
       /\ Flush(r)
       /\ ret' = CloseVerdict(r)
       /\ session_open' = (r # "ok")
       /\ completed' = IF r = "ok" /\ burned THEN completed + 1 ELSE completed
  /\ at' = "done"
  /\ UNCHANGED <<options, burn_started, ready_wait_off, fifo_live, position, health,
                 page, drv_next, record, lost, calls, passes>>

------------------------------------------------------------------------------
(* done: the one way out.                                                  *)

NeedsAbort_Bug == FALSE
NeedsAbort == session_open

Done ==
  /\ at = "done"
  /\ ready_wait_off' = FALSE
  /\ at' = IF NeedsAbort THEN "abort" ELSE "stop"
  /\ UNCHANGED <<options, ret, session_open, burn_started, fifo_live, position,
                 health, drive, record, lost, tally>>

\* The flush that releases the drive; its own result is ignored.
Abort ==
  /\ at = "abort"
  /\ \E r \in {"ok", "error"} : Flush(r)
  /\ lost' = (lost \/ drv_session')
  /\ at' = "stop"
  /\ UNCHANGED <<options, ret, session, fifo_live, position, health, page, drv_next,
                 record, tally>>

\* adsc_wfifo_stop.  WriteFifo shows it reports nothing new when ret is OK.
StopFifo ==
  /\ at = "stop"
  /\ fifo_live' = FALSE
  /\ at' = "health"
  /\ UNCHANGED <<options, ret, session, position, health, drive, record, lost, tally>>

\* adsc_write_health_record, then back through accudisc_write.
Return ==
  /\ at = "health"
  /\ wr_live' = IF burn_started /\ ~opts.simulate /\ ret = "ok" THEN wr_live + 1
                ELSE wr_live
  /\ ret' = IF ret = "ok" /\ caveat THEN "caveats" ELSE ret
  /\ at' = "idle"
  /\ UNCHANGED <<options, session, fifo_live, position, wr_budget, drive, record,
                 lost, tally>>

------------------------------------------------------------------------------
Step ==
  \/ LoadModel \/ LoadModelFails \/ SetParams \/ SetSpeed \/ CheckParams
  \/ BlankCheck \/ SkipOpc \/ SendOpc \/ SendCue \/ SendCueFails
  \/ WriteChunk \/ Stall \/ WriteChunkFails \/ LeadinFails \/ LeadinDone
  \/ Alloc \/ StartFeed \/ StartFeedFails \/ FeedFails \/ PayloadDone
  \/ Close \/ Done \/ Abort \/ StopFifo \/ Return

Next ==
  \/ \E b \in Budgets : SetBudget(b)
  \/ \E o \in Options : Write(o)
  \/ Step

Spec == Init /\ [][Next]_vars
\* One thread runs the call, and every command comes back.
FairSpec == Spec /\ WF_vars(Step)

------------------------------------------------------------------------------
(* Properties.                                                             *)

InSession == {"leadin", "alloc", "gap", "payload", "close"}
Phase == {"idle", "model", "params", "speed", "check_set", "blank", "opc",
          "check_opc", "cue", "done", "abort", "stop", "health"} \cup InSession
Verdict == {"none", "ok", "caveats", "error", "write_budget", "write_params",
            "not_blank"}

\* Every variable has its type; the stall clock stays under its cap.
TypeOK ==
  /\ at \in Phase /\ opts \in Options /\ ret \in Verdict /\ caveat \in BOOLEAN
  /\ session_open \in BOOLEAN /\ burn_started \in BOOLEAN /\ fifo_live \in BOOLEAN
  /\ lba \in Int /\ done_sec \in 0 .. Total /\ waited \in 0 .. StallCap
  /\ ready_wait_off \in BOOLEAN /\ wr_budget \in Nat /\ wr_live \in Nat
  /\ page \in Page /\ drv_session \in BOOLEAN /\ drv_next \in Int
  /\ seen_blank \in BOOLEAN /\ commanded \in BOOLEAN
  /\ calibrated \in BOOLEAN /\ burned \in BOOLEAN /\ lost \in BOOLEAN
  /\ calls \in 0 .. Calls /\ completed \in Nat /\ passes \in Nat

\* "`done:` is the ONLY exit from here on" (burn.c, the INVARIANT): readiness
\* waiting is off throughout the session and never once the call is over.
WaitOffOnlyInSession ==
  /\ at \in InSession => ready_wait_off
  /\ at \notin InSession \cup {"done"} => ~ready_wait_off

\* The data goes out under the page that was asked for, however often the drive
\* dropped it on the way: step 3b's reason to "ASK AGAIN" (burn.c).
CommittedPageHeld == at \in InSession => page = Wanted

\* "SIMULATE IS FREE": a test write neither calibrates nor records (accudisc.h).
SimulateIsFree == opts.simulate => ~burned /\ ~calibrated

\* No refusal costs more than it says: the budget commands nothing, a disc not
\* blank is untouched, a page not held costs a calibration slot at most.
RefusedUntouched ==
  at = "idle" =>
    /\ ret = "write_budget" => ~commanded
    /\ ret = "not_blank" => ~calibrated /\ ~burned
    /\ ret = "write_params" => ~burned

\* The laser fires on a disc this very call has seen blank.
OnlyBlankDiscs == calibrated \/ burned => seen_blank

\* These three together: when the laser fires, and at what.
LaserIsAllowed == OnlyBlankDiscs /\ SimulateIsFree /\ CommittedPageHeld

\* Host and drive agree on every address: retries and phase changes leave no
\* hole and no overlap, and payload sector s is at LBA s.
RecordedInOrder ==
  /\ at \in {"leadin", "gap", "payload"} => lba = drv_next
  /\ at = "payload" => lba = done_sec

\* After a call the drive is not left in a session, unless a flush was sent and
\* did not take or the drive opened one unbeknown to the host.
Released == at = "idle" /\ drv_session => lost

\* What a call that refuses, fails or ends leaves of the handle, the disc and the drive.
LeftAsFound == WaitOffOnlyInSession /\ RefusedUntouched /\ Released

\* A burn reported done has recorded the whole source, closed and as asked.
SuccessMeansWhole ==
  at = "idle" /\ ret \in {"ok", "caveats"} =>
    /\ drv_next = Total /\ ~drv_session
    /\ ~opts.simulate => burned

\* Under a budget no more live burns finish than it allows.
CompletedWithinBudget == wr_budget # 0 => completed <= wr_budget

\* Every accudisc_write returns: nothing the drive answers makes it spin.
CallEnds == at # "idle" ~> at = "idle"

\* accudisc.h on the budget: "bounding the pass count is the one guard that
\* binds", of "LIVE write operations" a handle has performed.
PassesWithinBudget == wr_budget # 0 => passes <= wr_budget
==============================================================================
