# AccuDisc, formally

TLA+ models of AccuDisc's own logic (a CD-DA reader and writer: a C library over
MMC commands), the TLC runs that check them, and TLAPS proofs about the parts
where threads, retries and failures meet. File names are relative to the
repository.

`PROJECT.json` has, for every definition, the lines it stands for; every run with
its properties; the hazards of the code with the properties aimed at them; and
the theorems. This file says how the pieces fit and what they show.

Contents: 1 the system, 2 modules and code, 3 the runs, 4 disagreements between
code and text, 5 proofs, 6 what is not modelled, 7 plan.

## 1. The system

| part | source | state | what makes it hard | module |
|---|---|---|---|---|
| write FIFO | `write/fifo.c` | ring, flags, one mutex and two conditions, a producer thread | the burn thread writes from a slot without the lock; errors overtake data; the join relies on flags of either side | `WriteFifo`, `AudioStream` |
| burn engine, `accudisc_write` | `write/burn.c`, `write_api.c`, `device.c` | progress of one burn; on the handle the readiness flag and the budget | some thirty exits to one label; a drive that refuses, stalls, forgets, or obeys without answering | `Burn` |
| readiness layer | `device.c`, `drive/ready.c` | two quotas per command, one flag between calls | every command passes through it: nothing may take effect twice | `Ready` |
| AccuBuffer | `read/accubuf.c` | the FIFO's mirror, with a consumer thread and the caller's sink | the sink runs unlocked; a refusal must stop both sides | `AccuBuf` |
| read engine | `read/engine.c` | two chunk slots, the seam sample, the carried C2 trigger, the speed asked for | a drive wrong the same way twice; five checks replace and mark the same sectors; a fault condemns a chunk already read and one not read yet | `ReadEngine`, `ReadSpeed` |
| handle, plug-in, uncap, counters, tray | `device.c`, `drive/driver.c`, `uncap.c`, `census.c`, `transport/sgio.c`, `drivers/plextor/plextor.c` | the attached driver, the pushed setting, what the handle set | settings outlive the handle; every step can fail, with its effect done or not | `Handle` |
| READ CD | `mmc/mmc.c`, `cdda/layout.c` | on the handle: the record order learnt, the refusal of rounding learnt | a latch set by one bad read misplaces all later ones | `ReadCd` |
| speed and C2-lag probes | `drive/speeds.c`, `c2lag.c` | windows timed so far; accumulated flags and differences | windows that meet time the cache; edges count for some shifts only | `SpeedLadder`, `C2Lag` |
| TOC, sessions, plan | `toc/*.c` | none | entries in any order; sessions interleave with the points that close them | `Toc`, `ReadRange` |
| subchannel, pregaps | `cdda/subq.c`, `index_map.c`, `pregap_scan.c`, `scan.c` | a bisection, the drive's speed | the frame that is damaged is the one that says where the boundary is | `Subchannel` |
| R-W packs (CD+G) | `cdda/rw.c` | a ring of channel packs | a pack lost shifts the interleave for good | `Rw` |
| CD-Text | `meta/cdtext*.c` | the string being assembled | strings run over packs; packs are lost; tracks have none | `CdText` |
| .toc file and cue sheet | `write/tocparse.c`, `cuesheet.c` | the track being parsed | three places work out the same addresses | `DaoLayout` |
| write parameters | `write/wparams.c` | the page sent and read back | a drive that accepts and does not apply | `WriteParams` |
| verification | `write/verify.c` | the tier, the displacement, the comparison | alignment in repetitive audio; a tier that falls away | `Verify` |
| write offset | `write/write_offset.c` | none | clicks, quiet samples | `WriteOffset` |
| parity and repair | `repair/*.c` | syndromes, corrections to be written | partial success; wrong hints; a vector kernel in place over its input | `Rs16`, `Repair`, `SweepKernel` |

`accudisc_write` runs the burn engine, which owns a FIFO and its producer thread;
`accudisc_read_cdda` runs the read engine, which owns an AccuBuffer and its
consumer thread, and takes its range from the plan; verification and the write
offset read through that engine. All send their commands through
`adsc_dev_exec`, whose waiting a burn suspends through `dev->ready_wait_off`. The
budget is looked at on entry to `accudisc_write` and charged at the end of the
engine. A handle is for one thread; the threads there are belong to one call.

## 2. Modules and code

### AudioStream, WriteFifo
`AudioStream` is the promise, with no ring and no threads: sectors go out in
source order, `Complete` only when all have. In `WriteFifo` a step is a critical
section of `f->mtx` or a stretch of code one thread runs outside it; `pp` and `bc`
are the two threads' program counters, and a thread blocked on a condition
leaves it by a signal or spuriously and re-tests. `FillReadBegin` makes the slot
at `head` `Torn` for the length of the unlocked `pread`. Contents are the number
of a slot's first sector, so lost, repeated and misplaced chunks all show on
`disc`. Left out: the byte swap, `mlock`, the sizing in seconds.

### Burn
`at` is the place in the call, `done` the label every failure goes to. The
drive's side is `page` (what page 05 says), `drv_session` and `drv_next` (where
it records next). Every command may fail; the page may change whenever the
parameters, the speed or the calibration are sent; a WRITE(10) or a cue sheet may
be obeyed and its answer lost; between calls the disc may be changed. The feed
is what `AudioStream` promises, one chunk at a time; that `adsc_wfifo_stop`
returns nothing new after a clean close is `WriteFifo`'s, so `StopFifo` leaves
the verdict alone. `completed` and `passes` are history.

### Ready
An answer is what `adsc_ready_classify` can tell apart; time is counted in polls.
`Exec` is any command from anywhere in the library, `Load` is `accudisc_load`,
the one caller of `adsc_dev_wait_ready`, whose TEST UNIT READY goes through
`adsc_dev_exec` too, so the loops nest as in the code. `executed` counts how often
the drive has done the command.

### AccuBuf
Threads and conditions as in `WriteFifo`. `count` is a `uint32_t` and wraps at
`CountMod`. The engine is reduced to its use of the ring: read a chunk, look at
the cancel flag, push, and stop with `discard` when the verdict is not OK.

### ReadEngine, ReadSpeed
One iteration of the chunk loop is a path through `at`: `loop`, `qpos`, `seam`,
`c2`, `verify`, `widen`, `deliver`. The slots are functions on sector numbers.
`todo` and `job` are the loop over sectors and the settlement in hand: `Settle`
and `Reread` are `consensus`, `Anchor` is one context read of `anchor_position`.
The drive returns *copies*: their audio (`true`, `late`: a pure shift, `away`:
another place, `bad`: damage), C2 bits, and where Q says the drive was. The
retries inside a span only decide whether a sector is read, and are inside
`Transfers`. `badseams`, `latched`, `fired`, `heard`, `misplaced` are history.
`ReadSpeed` is the same loop seen by `set_speed_once` and the ladder: which speed
was asked for before each transfer, whoever settles what.

### Handle
A call is a series of commands and any may be refused, or fail with its effect
done or not. Attach is the code's sequence (load, match, selftest, keep), with
the shared objects of the driver directory a set of names with properties
(`Loadable`, `Matching`, `Reporting`). `memo` is what the handle believes of the
uncap; the drive's own setting, its counters and its tray are the drive's
variables and survive `close`.

### ReadCd, SpeedLadder, C2Lag
`ReadCd`: a transfer is which of its records hold a verifying Q and where; the
rounded length, the fallback when a bridge refuses it, the vote on the order and
the latches on the handle follow `mmc.c`. What is wrong with a command (`fault`)
may be gone at the next attempt; `transients` says whether that goes for errors a
refusal of the length looks like too (the host's or the adapter's, an illegal
request), which the code does not tell from one. `SpeedLadder`: each candidate's windows,
the sectors they take, the rates and the admission. `C2Lag`: the scan, the
rereads of each window, and the verdict from hits per shift.

### Toc, ReadRange
`Toc` has operators from entries to a track map (`adsc_toc_from_fulltoc`, the flat
format 0, the extents, the anomalies); `ReadRange` is the machine that reads a
disc's answers, takes what the caller named and plans. Discs are given with
their truth, so the map and the range are compared with the disc: `IsHonest` says
what a disc is (tracks and sessions on end, none empty) and what its lead-in may
be (all it has to say, in any order and more than once, A0 and A1 left out or
not), `IsLying` what a lead-in that lies is still held to (it lists the tracks, no
two at one address). `DiscsAssumption` is that every disc is one or the other; the
instance of `MCDisc` is checked against it, and the proofs need no more.

### Verify, WriteOffset, Subchannel, Rw, CdText
Each has the disc, or the recording, as a variable of its own and the code's
steps over what can be read of it. `Verify`: tier, anchor search, comparison,
census. `WriteOffset`: the two searches and their agreement. `Subchannel`: run-in,
bisection, run-out over frames that verify or do not, with the speed set and put
back. `Rw`: push, prime, de-interleave, Q and P. `CdText`: the assembler, the blob
checks, the encoder and the ring of packs in the lead-in.

### DaoLayout, WriteParams
`DaoLayout`: lines cut into keyword and numbers become tracks, tracks a layout,
the layout a cue sheet whose addresses wrap where a byte does. `WriteParams`: the
page is programmed, sent, read back and compared, by the probe and by a burn, on
a drive that refuses, applies, applies in part or ignores.

### Rs16, Repair, SweepKernel
`Rs16`: the field as sets of powers of x and the decoder step by step (syndromes,
erasures, Berlekamp-Massey, Chien, Forney, re-check), its width a constant.
`Repair`: columns, hints, rows partly outside the buffer, fixes and the all or
nothing write. `SweepKernel`: the portable loop and the AVX2 kernel with byte
planes, nibble tables, lane order, remainder columns and the join in place, over
words of `Bits` bits, each against the definition of a syndrome.

### MCHost, MCDrive, MCDisc
These run several components in one specification, one at a time: `subject`
names the one that runs, and the others rest in their initial states. In
`MCHost` every component keeps its variables (some renamed); in `MCDrive` and
`MCDisc` one keeps its own and the others share registers `r1 ..`, by
substitution in `INSTANCE ... WITH`. Nothing of a component is changed by this:
its `Init`, `Next` and properties are used as they stand. The constants of the
components of `MCHost` and `MCDrive` are constants there too, given values in the
cfg and assumptions by `HostAssumption` and `DriveAssumption` (and so are those of
`Repair`, `DaoLayout` and `ReadRange` in `MCDisc`, by `DiscAssumption`), so that what is proved
of the composition is proved for all of them.

### Definitions ending in `_Bug`
Each restates the definition after it with a plausible mistake (a dropped guard,
a missing signal, an off-by-one). Nothing uses them; putting one in place of its
original makes the property `PROJECT.json` names beside it fail, which shows that
the property depends on that code.

## 3. The runs

| run | question | states, time |
|---|---|---|
| `MCWriteFifo` | what pop hands out is intact; success is whole; slots are stable; the FIFO implements `AudioStream` | 896, 1 s |
| `MCReadEngine` | what a label is worth, what a fault condemns, what the sink is given, what confirms a slip | 1.39 million, 45 s |
| `MCHost` | `Ready`, `AccuBuf`, `WriteFifo` and `Burn`: safety, and that threads stop and calls return | 89 thousand, 25 s |
| `MCDrive` | `Handle`, `ReadCd`, `SpeedLadder`, `C2Lag`, `ReadSpeed`, `WriteParams`, `Verify`, `Subchannel`, `WriteOffset`: what is concluded from a drive's answers and what is left in it | 714 thousand, 30 s |
| `MCDisc` | `Repair`, `DaoLayout`, `ReadRange`, `Rw`, `CdText`, `SweepKernel`: each result against the disc | 56 thousand, 40 s |
| `MCAccuBufDiscard` | *violated*: nothing is delivered after a discard | |
| `MCReadyStuck` | *violated*: load returns whatever the drive answers | |
| `MCBurnBudget` | *violated*: the budget bounds live write passes | |
| `MCReadEngineLaundered` | *violated*: a position fault is replaced only by a copy whose Q agrees | |
| `MCDriveTier` | *violated*: success never comes below the tier required | |
| `MCDiscHidden` | *violated*: anomalies the guard does not refuse hide no data track | |
| `MCDiscCdText` | *violated*: no string is made out of a corrupt pack's neighbours | |

### Bounds
The beginnings of the MC modules give each component's bounds and the case they
are there for. In short:

- `WriteFifo`: tracks of 5, 0 and 6 sectors in chunks of 2, so a short chunk at a
  track end, an empty track, and six chunks through two or three slots: the ring
  fills, wraps and drains in every phase. The proofs remove the bounds.
- `AccuBuf`: five chunks, three slots; `count` wraps at 8, well above the ring.
- `Ready`: two retries and three polls, exhausted in every order.
- `Burn`: two calls, the second meeting all the first can leave; tracks 3, 0, 1; a
  gap of 3 in chunks of 2 has a remainder, as 150 in chunks of 26 has.
- `ReadEngine`: three chunks, the last short, give one with a neighbour on both
  sides. `Faults` = 3 departures from the true sectors (a run of sectors wrong
  alike counts once): a transfer that lands late, a witness that disagrees, a
  reread that reproduces either. Two rereads instead of four leave out only
  longer waits for an agreement.
- `ReadCd`: one sector (too few to judge an order) and four (the fewest that are
  judged); with and without errors that pass (`transients`). `SpeedLadder`: spans that hold no window, just the windows, and more.
  `C2Lag`: every lag in the search with clustered, symmetric and edge damage.
  `ReadSpeed`: ladders of no to three rungs against four attempts.
- `Toc`, `ReadRange`: nine shapes of one or two sessions, all rotations of their
  entries both ways, all entries twice, A0 and A1 left out, the lead-in unreadable,
  and lead-ins that lie: three tracks at any addresses, in either session, with any
  lead-outs. The proofs remove the bounds.
- `Verify`: every source of ten samples at three displacements, and wrong samples
  and unreadable sectors anywhere. `WriteOffset`: any displacement in reach, one
  click anywhere, one quiet sample, bursts at 6 and 16 of a signal of 23. `Subchannel`: gaps around the length of a scan
  step with every set of damaged frames before the boundary.
- `Rw`, `Rs16`, `Repair`, `SweepKernel`: fields of 8 or 16 elements and codes of 7
  symbols with the same number of parity symbols per correction; errors up to and
  beyond what they carry. The algebra is the same for each primitive
  polynomial; the bounds do not reach what only 16-bit words could show, such as
  a wrong entry in a table. The proofs of the sweep and of the repair remove them.
- `ReadEngine`'s request begins at the first sector of the disc (`Before` = 0), where
  a context read would begin before it; the proofs are for any.
- `DaoLayout`: two tracks, each of five or six sources, with START lines and the
  others; a lead-in frame for which the minute byte wraps.

### Deadlock
The final states of the threads and of the read engine are allowed to stutter
(`Terminated`); `Ready`, `Burn`, `Handle` and `ReadCd` return to idle. `MCDisc`
says `CHECK_DEADLOCK FALSE`: its components are computations that end. The
components of `MCDrive` that end stutter there.

### Fairness
In `MCHost`, for the component that runs: `Drain` and `Engine` of `AccuBuf`, `Fill`
and `Burn` of `WriteFifo` are weakly fair, because POSIX threads that can run are
scheduled, and `pread`, the sink and a command to the drive return (the transport
sets a timeout on each). A blocked thread is given no fairness for its wake-up:
it runs only if somebody signals. Spurious wake-ups have none either, so nothing
relies on them. In `Ready` and `Burn` a call once begun goes on; nothing makes a
caller begin one. `LoadEnds` is for a drive that stops giving attentions.

## 4. Disagreements between code and text

Shown by a run that expects a violation:

1. `accubuf.c:165` Discarding the queue sets `count` to 0 while the sink may hold
   a slot; the consumer's decrement then wraps it and abandoned slots are
   delivered until the sink refuses. The comment says they never are.
   (`MCAccuBufDiscard`; `SinkContract` excludes exactly this case by `discarded`.)
2. `ready.c:163` `wait_ready` re-asks at once on a unit attention, uncounted and
   without its clock advancing; `internal.h` calls that a hang. (`MCReadyStuck`)
3. `burn.c:1127` Only completed live burns are charged to the budget; one that
   fails after recording is not, though the header argues from the number of
   passes. `CompletedWithinBudget` is what does hold. (`MCBurnBudget`)
4. `engine.c:626` A sector the Q check rescued is compared again by later
   witness passes; a second transfer and one reread that reproduce the
   displacement put the displaced copy back, RECOVERED. (`MCReadEngineLaundered`)
5. `verify.c:529` The tier required is looked at before the comparison only; a
   census that fails after it returns success below that tier. (`MCDriveTier`)
6. `toc.c:166` The lowest track of the first session is given all sectors before it
   as its pregap even when it begins past the lead-out and has no sector. Overlap is
   looked for between tracks with sectors only, and a session without a lead-out of
   its own is not compared with one: the anomalies are `past_leadout` and
   `empty_track`, which the header calls harmless, and the guard accepts the whole
   disc as that track's audio, whatever is there. (`MCDiscHidden`; the proof of
   `NoHiddenDataTrack` needs `OnlyAPregap` to exclude exactly this.)
7. `cdtext.c:116` The start of a string whose next pack is corrupt stays in the
   assembler and is put in front of the string after it. (`MCDiscCdText`)

Stated in the modules beside the properties that hold, with the sentence they
come from, and not run (each fails on its module's instance, except
`NeverNoOp`, which needs the ladder named there):

- `WriteFifo!LowWaterOnlyWithData`, `fifo.c:228`: pops in the turn between the last
  chunk and `producer_done` still lower the mark.
- `ReadEngine!FlagCondemnsNeighbours`, `engine.c:1095`: the C2 trigger is latched
  after the rescues, so a flag on a replaced copy triggers no witness.
- `ReadSpeed!EveryExitAtPassSpeed`, `engine.c:1176`: a read that is cut short leaves
  without `ladder_restore`. `ReadSpeed!NeverNoOp`, `engine.c:206` and `868`, fails
  only when the ladder's first rung is the speed of the pass.
- `DaoLayout!AudioOnly`, `tocparse.c:235`: the mode of a TRACK line is looked for past
  the line's end (`:175`), so a data track with an AUDIOFILE line below passes.
- `WriteParams!OffMeansOff`, `wparams.c:57`: the page's BUFE bit is kept as found and
  only ever set, so BURN-Proof "never" leaves a drive that has it on as it is.
- `ReadRange!TrustedExtentsEnd` and `FlatListIsSafe`, `session.c:264`: about maps
  whose anomalies are called harmless, and flat lists of more than one session.
- `ReadCd!ExactOnlyIfRefused`, `mmc.c:261`: `xfer_exact` = 1 is said to mean that the
  transport refused rounding, and the comment above the latch that nothing else may
  put the rest of a rip back on exact transfers. Only a time-out is told from a
  refusal: a failure of the host or the adapter (`sgio.c:63`, `:93`) or an illegal
  request that has passed when the exact length is tried latches it with a drive
  that refuses nothing. Nothing is read wrong; the speed of DMA is lost. What does
  hold is in `LearntIsTrue`: see `transients` below.
- `Verify!NoDifferenceMeansRead`, `Repair!OkIsTheTruth` (`rs16.c:268`: damage beyond
  the code's capacity can be corrected to another codeword),
  `ReadCd!DisplacedIsRefused` (`mmc.c:235`), `SpeedLadder!NoVerdictWithoutInterval`,
  `Handle!ProbeIsTrue` (`ProbeTrueUntilSetFails` is what holds).

## 5. Proofs

All for every value of the constants, under the named assumptions, with every
leaf checked.

`WriteFifo_proofs` (`SegAssumption`, `SizeAssumption`): the inductive invariant and
from it the type invariant, `HandedOutIntact`, `CompleteOnSuccess`, `SlotsStable`,
that the FIFO implements `AudioStream`, and four smaller properties no run lists
(a read error is reported last; no starvation at sector zero; a stop that does
not cancel joins only a producer that is through; no use after the stop). What
the properties say of one slot follows only if all live slots are right, so the
invariant describes the whole ring: `InvRing` ties the indices together, `InvSlots`
says the live slots are consecutive stretches of the source from what the drive
is owed to what the producer has published, `InvPlace` says it of the chunk in
the producer's hands, `InvFlags` relates flags to places, `InvDisc` is the disc.

`MCHost_proofs` (`HostAssumption`, `BurnAssumption`): a step of the composition is a step of one
component or leaves it alone (`StepOfEach`), so each component's specification holds
of it (`EachComponent`) and what is proved of a component holds in `MCHost`:
`TypesOK`, `RetriedSafely`, `LoadMeansSettled`, `SinkContract`.
For the AccuBuffer the ring is described as a window of the sequence of chunks:
until a discard the live slots hold the chunks sunk so far onwards, and the
consumer's copy is the first of them; after a discard in mid-call `count` may have
wrapped, and the invariant (`BufIInv`) gives up the window and keeps only what still
holds. For the readiness layer a command about to be issued has not been executed,
and each one but the first has used up a unit of a quota (`ReadyIInv`).

Of the burn engine: `LaserIsAllowed`, `RecordedInOrder`, `LeftAsFound`,
`SuccessMeansWhole`, `CompletedWithinBudget`, for any disc, budget and number of
calls. The strengthening says what each place in the call has established: the
page is held from the check to the close, the address is the gap plus what was
sent, and `completed` is `wr_live` once a burn is charged. What the recursive
`TrackEnd` comes to for any list of tracks (`LayoutHolds`: some of a track, and no more
than is left, is ahead of every sector) is proved by least counterexamples: the
library's induction theorems cannot be used, a well-founded order can.

`MCDrive_proofs`, of the handle (`HandleAssumption`): `NothingLeftBehind`,
`ProbeTrueUntilSetFails`, `SettingsRestored`. The invariant (`HandleInv`) follows a call through its steps: what is loaded
and not yet attached, what a push remembers, and whether an answer was lost.

Of the calls composed with it (`DriveAssumption`): `LearntIsTrue`, `RecordsInPlace`, `PassSpeedKept`,
`WindowsAreFresh`, `LagIsTrue`, `PageIsWhatWasAsked`, `NothingGuessed`, `OffsetIsTrue`,
`VerdictIsTrue`.
For READ CD the invariant (`CdIInv`) says of every transfer in hand which of its
records hold what (`CdHolds`), that a latch comes from a vote a lone collision
cannot win, and why the exact length was asked for: where the drive does not refuse
rounding, after a time-out, or an illegal request the exact length meets again; or,
with `transients`, after an error that passed, of which nothing is concluded. That
rounding works is learnt from such a drive only, whatever passes. For the speeds of a read
(`PaceIInv`): while the drive may be at a rung's speed the debt to restore is
recorded, and it is paid before anything streams.
For the speed probe (`SpIInv`) each window read so far lies in the slot of its rung and
band, and slots are equal, disjoint and within the span (`SpSlotsApart`,
`SpWindowInSlot`). That the ladder is distinct is an invariant of the admission's walk
(`SpJudgedSoFar`): what is settled asks for no more than what is left, and the best is
admitted and no slower than any other admitted; `SpAdmitDistinct` takes it along the
recursion of `Admit` by a least counterexample.
For the C2 lag (`ClIInv`), a lag the search can find being assumed: when damage stays clear of the sector's edges, every flag has
its target inside the sector at every shift, so the evidence has the same number of
flags at each, all of them hits at the true lag unless steady damage hides them; and at
another shift there are at most twice the hits of the true one (each pair of reads
counts its differences once, against the flags of both). So no precision exceeds
twice the true lag's by more than rounding, and a peak at least `MinContrast` (3 or more)
times its runner-up and at least `MinPeak` (4 per mille or more) is the true lag's. The
evidence is a fold over a set of pairs of reads (`ClFolded`: by least cardinality).

And what is concluded from answers that may be false, each for every value of its
component's constants:

- `PageIsWhatWasAsked`. `WpIInv` follows the pages through each round trip: what
  was held before, what was sent, what is held after, and that the last of them is
  what the drive holds now.
- `NothingGuessed`. Of each boundary, from the frames that verify alone (`Honest`): the
  last word before INDEX 01 that is not a code decides, and a frame of the pregap
  that verifies puts its own length on record.
- `OffsetIsTrue`. A run found in a search window begins in the burst: a click is
  shorter than the shortest run, a quiet sample splits a burst at most once, and the
  two windows lie apart (`SignalAssumption`), so both bursts move alike or the two
  answers differ and nothing is reported.
- `VerdictIsTrue`. The comparison is a tally over the sectors done so far
  (`VfTallied`). The search is a fold over all shifts: `VfWalkExists` gives the fold a
  value at each step and `VfWalkScored` says what it holds there (the best score so far
  is some shift's own and no shift seen is better, and so for the runner-up), by a
  least counterexample (`LeastNatural`) in place of an induction theorem. That an
  accepted best shift is the true one then needs only that the true shift has no
  mismatch but the spoilt samples, fewer than the margin.

`ReadEngine_proofs` (the module's assumptions): `EachOnceInOrder` and
`SlipNeedsContext`, for any request, any sizes and a drive that returns any copies
any number of times. The chunk held back is exactly the interval from what was
delivered to `lba`, the chunk in hand the one from `lba` on (`Places`); a held copy
comes from a context read already spent (`JobOK`).

Of the same module, `OKMeansNoDisagreement` and `CondemnedIsWitnessed`: `Heard` says that all transfers heard of a sector that is
neither marked nor waiting to be settled agree, and that of a chunk whose seam is
not yet checked only the extension has spoken besides; `Witnessing` that `witnessed`
is true of a chunk only when a second transfer confirmed or marked its every sector;
`Triggers` ties the flags to the history; `Met` says that what condemns a chunk (its
own seam or flag, or the flag of the chunk before) has been answered by a second
transfer before the chunk is held back.

`MCDisc_proofs` (from `FieldAssumption`: the modulus is primitive; and
`RepairAssumption`: the request's numbers are what their types allow):
`RepairIsWhole`, for any field, image, damage, hints and offset. Nothing has to be
proved about Berlekamp-Massey, Chien or Forney: the last gate, that the errata
reproduce the syndromes, is enough (`DecodeReproduces`), so a wrong answer there costs
a repair and never a buffer. What it takes is that the syndromes mean what they
should: a product by a power of alpha is linear (`MulPowLinear`) and powers add
(`MulPowAdds`), so Horner's sweep is the sum of the terms (`HornerIsTotal`), and the
sum moves by the errata's own when they are added to a column (`CorrectedColumn`).
The invariant (`RInv`) then says that corrections lie at places of columns already
done, no two columns share a place (`PlacesApart`), and while nothing has been refused
every column done agrees with its parity once they are applied.

`ReadRange_proofs` (`DiscsAssumption`), and through it `MCDisc_proofs`: `MapIsTheDisc` and
`RangeIsAudio` (with `NoHiddenDataTrack` and `DefaultIsTheAudio`), for any disc of up to
99 tracks and sessions, any order of its lead-in and anything a caller names. The
machine's own invariant (`IInv`) only says that the map is what some answer of the
drive makes of the disc and the plan the map's; the rest is about three recursions.

- The fold over the entries. `Slotted` says that after `i` entries the slots are the
  tracks named so far; `Told`, for an honest disc, what each accumulator holds of what
  has been said: the first track once session 1's A0 has come, the last once the
  last session's A1 has, the lead-out of each session whose A2 has. Hence the map is
  `Faithful`, or `Sessionless` when only the flat list was to be had (`HonestMap`).
- The extents. `FaithfulGeometry`: a track ends where the next of its session begins or
  at the session's lead-out, although they are computed by address and the disc is
  numbered; `OwnersAreTracksAt`, `HonestIsRegular`.
- The guard's walk, a recursion on addresses that ends because each stride is
  forward. `GuardIsSound`: a walk that ends in "ok" has every sector of the range owned
  by an audio track, those it strode over included; `GuardKeepsToASession`.

`NothingIsHidden`, about lead-ins that lie, needs none of the disc's order: where no
two extents overlap and no two tracks share an address, the track whose start lies
nearest behind a sector is the only one that can own it. `DefaultIsHeard`: the tracks
with audio are a run of numbers from the first to the last of their session, so the
range from one's start to the other's end has all of their sectors and no others.
`MCDisc_proofs` carries this over: its own instance of `ReadRange` and that of the
module with the proofs say the same (`SameRange`, operator by operator).

`SweepKernel_proofs` (`SizesAssumption`, `FieldAssumption`, `ImagesAssumption`), and through it
`MCSweepLayout_proofs`: `SweepIsExact`, for any stride, number of planes, window and vector length,
any word that splits into nibbles, any register that words fill and any polynomial.
`FieldAssumption` is what the sweep asks of `gf16.c`: products by a power of alpha are
linear and powers add; `DiscAssumption` has TLC evaluate it for the instance, and
`MulPowLinear` and `MulPowAdds` prove it of `Rs16`'s field. The invariant (`Inv`) has
two parts.

- `KInv`: each plane holds the sums of its columns (`SumOf`), as words, or as low and
  high bytes until it is joined. The row's split puts each byte where its column is
  (`Scratch`'s quads, unpacked and permuted, are the bytes in order), and the four
  nibbles' contributions add up to the product because it is linear. Joining overwrites
  the plane it reads, from the scratch copy, and leaves the others alone.
- `CInv`: the register is that of the bytes so far, one at a time. A table's entry is
  its byte stepped through; a step is linear, so the register and the bytes of a slice
  may be stepped apart and their sum taken, which is what a slice of twice the
  register's length does; a row's bytes follow the previous row's.

`MCSweepLayout_proofs` also has `CueIsWhatIsWritten` (`SizesAssumption` of `DaoLayout`: files of lines, sector and track
counts in range), in four steps. The parser's fold over the lines keeps in each
track what its lines have said so far, the last of a kind (`DaoParses`), so an accepted
file has the offset, length and pregap `Said` names (`DaoLays`). The tracks' running sums
tile the disc (`DaoTiled`). The cue sheet is joined from short ascending pieces whose
ends meet (`DaoSheetJoin`, `DaoEntriesAre`), each entry at a place of the layout. And the
payload loop's account: a frame lies in one track at most (`DaoApart`), so what is
heard at an INDEX 1 is the one byte that track has there (`DaoFirstByte`), and the last
frame before the lead-out is some track's (`DaoFilled`).

Every theorem listed in `PROJECT.json` with a property states the definition a
run lists, of the same composition. Only model-checked: all liveness (fairness and
ENABLED are out of the provers' reach), and of `MCDisc` its `TypesOK`, `DamageIsUndone`,
`PackIsWhatWasWritten` and `TextIsTheirs`: what they promise says what a recursive
computation over a field, a ring of packs or text yields for every input, an
induction over data.

## 6. Not modelled

- The write-health comparison (`device.c`): measured times against a baseline.
- The Plextor driver's speed governor and settings dump, and its other modes: one
  vendor command each, with nothing held between them.
- `cache_defeat`: what it does to a drive's cache is not visible to the library.
- Statistics, Q health map, severity nibbles: counters nothing decides on.
- Feature, offset and media tables; the ABI copies; trace; sense bytes and the
  ioctl (their outcomes are `Ready`'s and `Handle`'s answers); character sets, CRCs
  and byte layouts, where what is valid is an input of the model.
- The command line, the bindings and the tools other than the write-parameters
  probe: clients of the library.

## 7. Plan

1. `Delivery`, one abstract promise of a read, implemented by `ReadEngine` and by
   `AccuBuf`, as `AudioStream` is by `WriteFifo`.
2. `Ready` and `Burn` composed over one handle, so that the readiness flag, the
   retries and the session meet in one state space.
3. Proofs about the ring of packs of `CdText` and the decoder's own correctness.
