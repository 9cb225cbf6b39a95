------------------------------ MODULE WriteFifo ------------------------------
(***************************************************************************)
(* The write FIFO (src/write/fifo.c): a ring of slots between the source   *)
(* file and the drive.  One producer thread (fill) and one consumer, the   *)
(* burn thread of adsc_write_run (src/write/burn.c).  A step is a critical *)
(* section of f->mtx, or a stretch of code one thread runs outside it.     *)
(* A thread blocked on a condition variable leaves it only by a signal or, *)
(* as POSIX allows, spuriously; either way it re-tests its condition.      *)
(*                                                                         *)
(* Sectors are numbered by their place in the stream, so track k of the    *)
(* source is SegStart[k] .. SegStart[k+1]-1, and a slot's contents are the *)
(* number of its first sector.                                             *)
(***************************************************************************)
EXTENDS Integers

CONSTANTS
  NSeg,              \* tracks in the source
  SegStart,          \* stream position of each track, and of the end
  sectors_per_slot,  \* CHUNK of burn.c
  WantSlots,         \* whole slots in the bytes the caller asked for
  MinSlots,          \* ADSC_WFIFO_MIN_SLOTS
  MaxSlots,          \* ADSC_WFIFO_MAX_SLOTS
  burnproof_on       \* the drive links and resumes after an underrun

ASSUME SegAssumption ==
  /\ NSeg \in Nat \ {0}
  /\ SegStart \in [1 .. NSeg + 1 -> Nat]
  /\ SegStart[1] = 0
  /\ \A j, k \in 1 .. NSeg + 1 : j <= k => SegStart[j] <= SegStart[k]
ASSUME SizeAssumption ==
  /\ sectors_per_slot \in Nat \ {0}
  /\ WantSlots \in Nat
  /\ MinSlots \in Nat \ {0}
  /\ MaxSlots \in Nat
  /\ MinSlots <= MaxSlots
  /\ burnproof_on \in BOOLEAN

SegLen(k) == SegStart[k + 1] - SegStart[k]
Total == SegStart[NSeg + 1]

\* The size adsc_wfifo_start settles on.
nslots ==
  IF WantSlots < MinSlots THEN MinSlots
  ELSE IF WantSlots > MaxSlots THEN MaxSlots
  ELSE WantSlots

Slot == 0 .. nslots - 1

\* The contents of a slot whose bytes are being read in.
Torn == -1

VARIABLES
  head, tail, count,     \* the ring, under f->mtx
  arena, slot_nsec,      \* the first sector each slot holds, and how many
  producer_done, producer_rc, cancelled, thread_live,
  min_count, starved,    \* the reports: low-water mark, waits of the consumer
  pp,                    \* where the producer thread is
  si, done_in_seg,       \* its place in the source
  filled,                \* its n: sectors of the chunk it is carrying
  bc,                    \* where the burn thread is
  was_empty,             \* what the last pop told it
  ret,                   \* its verdict: "ok", or what went wrong
  lba, disc              \* sectors written, and which one is where

ring == <<head, tail, count, arena, slot_nsec>>
flags == <<producer_done, producer_rc, cancelled, thread_live>>
reports == <<min_count, starved>>
place == <<si, done_in_seg, filled>>
burn == <<was_empty, ret, lba, disc>>
vars == <<ring, flags, reports, pp, place, bc, burn>>

\* (Definitions whose names end in _Bug restate the one that follows them with a
\* plausible mistake; nothing uses them but the checks that the properties bite.)
Advance_Bug(i) == (i + 1) % (nslots - 1)
Advance(i) == (i + 1) % nslots

\* pthread_cond_signal / broadcast: whoever is blocked there re-tests.
SignalNotFull_Bug == pp' = pp
SignalNotFull == pp' = IF pp = "not_full" THEN "top" ELSE pp
SignalNotEmpty ==
  bc' = CASE bc = "prefill_wait" -> "prefill"
          [] bc = "pop_wait"     -> "pop_test"
          [] OTHER               -> bc

Init ==
  /\ head = 0 /\ tail = 0 /\ count = 0
  /\ arena = [s \in Slot |-> Torn] /\ slot_nsec = [s \in Slot |-> 0]
  /\ producer_done = FALSE /\ producer_rc = "ok"
  /\ cancelled = FALSE /\ thread_live = FALSE
  /\ min_count = nslots /\ starved = 0
  /\ pp = "none" /\ si = 1 /\ done_in_seg = 0 /\ filled = 0
  /\ bc = "start" /\ was_empty = FALSE /\ ret = "ok"
  /\ lba = 0 /\ disc = [i \in 0 .. -1 |-> i]

------------------------------------------------------------------------------
(* The producer thread: fill().                                            *)

Full_Bug == FALSE
Full == count = nslots

FillWait ==
  /\ pp = "top"
  /\ Full /\ ~cancelled
  /\ pp' = "not_full"
  /\ UNCHANGED <<ring, flags, reports, place, bc, burn>>

FillCancelled ==
  /\ pp = "top"
  /\ cancelled
  /\ pp' = "exit"
  /\ UNCHANGED <<ring, flags, reports, place, bc, burn>>

FillClaim ==
  /\ pp = "top"
  /\ ~Full /\ ~cancelled
  /\ pp' = "fill"
  /\ UNCHANGED <<ring, flags, reports, place, bc, burn>>

\* One turn of the loop that looks for a segment with data left.
FillNextSegment ==
  /\ pp = "fill"
  /\ si <= NSeg
  /\ done_in_seg >= SegLen(si)
  /\ si' = si + 1
  /\ done_in_seg' = 0
  /\ UNCHANGED <<ring, flags, reports, filled, pp, bc, burn>>

FillEndOfStream ==
  /\ pp = "fill"
  /\ si > NSeg
  /\ producer_done' = TRUE
  /\ pp' = "exit"
  /\ SignalNotEmpty
  /\ UNCHANGED <<ring, producer_rc, cancelled, thread_live, reports, place, burn>>

\* pread starts to overwrite the slot at head, outside the lock.
FillReadBegin ==
  /\ pp = "fill"
  /\ si <= NSeg
  /\ done_in_seg < SegLen(si)
  /\ arena' = [arena EXCEPT ![head] = Torn]
  /\ pp' = "pread"
  /\ UNCHANGED <<head, tail, count, slot_nsec, flags, reports, place, bc, burn>>

FillSize_Bug == sectors_per_slot
FillSize ==
  LET want == SegLen(si) - done_in_seg
  IN  IF want < sectors_per_slot THEN want ELSE sectors_per_slot

FillReadOk ==
  /\ pp = "pread"
  /\ arena' = [arena EXCEPT ![head] = SegStart[si] + done_in_seg]
  /\ filled' = FillSize
  /\ done_in_seg' = done_in_seg + FillSize
  /\ pp' = "publish"
  /\ UNCHANGED <<head, tail, count, slot_nsec, flags, reports, si, bc, burn>>

\* The first error is the one kept.
KeepError == IF producer_rc = "ok" THEN "io" ELSE producer_rc

\* A short or failed pread.
FillReadError ==
  /\ pp = "pread"
  /\ producer_rc' = KeepError
  /\ producer_done' = TRUE
  /\ pp' = "exit"
  /\ SignalNotEmpty
  /\ UNCHANGED <<ring, cancelled, thread_live, reports, place, burn>>

FillPublish ==
  /\ pp = "publish"
  /\ slot_nsec' = [slot_nsec EXCEPT ![head] = filled]
  /\ head' = Advance(head)
  /\ count' = count + 1
  /\ pp' = "top"
  /\ SignalNotEmpty
  /\ UNCHANGED <<tail, arena, flags, reports, place, burn>>

Fill ==
  \/ FillWait \/ FillCancelled \/ FillClaim \/ FillNextSegment
  \/ FillEndOfStream \/ FillReadBegin \/ FillReadOk \/ FillReadError
  \/ FillPublish

------------------------------------------------------------------------------
(* The burn thread, in the order adsc_write_run calls the FIFO.            *)

\* adsc_wfifo_start, up to pthread_create.
Start ==
  /\ bc = "start"
  /\ thread_live' = TRUE
  /\ pp' = "top"
  /\ bc' = "prefill"
  /\ UNCHANGED <<ring, producer_done, producer_rc, cancelled, reports, place, burn>>

\* No memory, lock, condition or thread: the burn is refused.  adsc_wfifo_stop
\* is never reached, fifo_live being 0.
StartFails ==
  /\ bc = "start"
  /\ ret' = "nomem"
  /\ bc' = "ended"
  /\ UNCHANGED <<ring, flags, reports, pp, place, was_empty, lba, disc>>

PrefillBlocked_Bug == FALSE
PrefillBlocked == count < nslots /\ ~producer_done /\ producer_rc = "ok"

PrefillWait ==
  /\ bc = "prefill"
  /\ PrefillBlocked
  /\ bc' = "prefill_wait"
  /\ UNCHANGED <<ring, flags, reports, pp, place, burn>>

PrefillReady ==
  /\ bc = "prefill"
  /\ ~PrefillBlocked
  /\ min_count' = count
  /\ bc' = "primed"
  /\ UNCHANGED <<ring, flags, starved, pp, place, burn>>

\* producer_rc is read after the unlock.
PrefillReturn ==
  /\ bc = "primed"
  /\ IF producer_rc = "ok"
       THEN bc' = "pop" /\ UNCHANGED ret
       ELSE bc' = "stop" /\ ret' = "prefill"
  /\ UNCHANGED <<ring, flags, reports, pp, place, was_empty, lba, disc>>

PopBlocked == count = 0 /\ ~producer_done

\* The entry of adsc_wfifo_pop: is the host behind?
PopEnter ==
  /\ bc = "pop"
  /\ was_empty' = PopBlocked
  /\ starved' = IF PopBlocked THEN starved + 1 ELSE starved
  /\ bc' = IF PopBlocked THEN "pop_wait" ELSE "pop_test"
  /\ UNCHANGED <<ring, flags, min_count, pp, place, ret, lba, disc>>

PopWait ==
  /\ bc = "pop_test"
  /\ PopBlocked
  /\ bc' = "pop_wait"
  /\ UNCHANGED <<ring, flags, reports, pp, place, burn>>

Drained_Bug == producer_done
Drained == count = 0 /\ producer_done

\* Nothing left, nothing to come: end of stream, or the producer's error.
PopDrained ==
  /\ bc = "pop_test"
  /\ Drained
  /\ IF producer_rc = "ok"
       THEN bc' = "eos" /\ UNCHANGED ret
       ELSE bc' = "stop" /\ ret' = "read"
  /\ UNCHANGED <<ring, flags, reports, pp, place, was_empty, lba, disc>>

PopTake ==
  /\ bc = "pop_test"
  /\ count > 0
  /\ min_count' = IF ~producer_done /\ count < min_count THEN count ELSE min_count
  /\ bc' = "hold"
  /\ UNCHANGED <<ring, flags, starved, pp, place, burn>>

\* The underrun policy: without BURN-Proof a wait for data ends the burn.
Starved ==
  /\ bc = "hold"
  /\ was_empty /\ ~burnproof_on
  /\ ret' = "starved"
  /\ bc' = "stop"
  /\ UNCHANGED <<ring, flags, reports, pp, place, was_empty, lba, disc>>

\* WRITE(10) straight from the slot.
WriteChunk ==
  /\ bc = "hold"
  /\ burnproof_on \/ ~was_empty
  /\ lba' = lba + slot_nsec[tail]
  /\ disc' = [i \in 0 .. lba + slot_nsec[tail] - 1 |->
                IF i < lba THEN disc[i]
                ELSE IF arena[tail] = Torn THEN Torn
                ELSE arena[tail] + (i - lba)]
  /\ bc' = "release"
  /\ UNCHANGED <<ring, flags, reports, pp, place, was_empty, ret>>

WriteFails ==
  /\ bc = "hold"
  /\ burnproof_on \/ ~was_empty
  /\ ret' = "write"
  /\ bc' = "stop"
  /\ UNCHANGED <<ring, flags, reports, pp, place, was_empty, lba, disc>>

Release ==
  /\ bc = "release"
  /\ tail' = Advance(tail)
  /\ count' = count - 1
  /\ bc' = "pop"
  /\ SignalNotFull
  /\ UNCHANGED <<head, arena, slot_nsec, flags, reports, place, burn>>

\* SYNCHRONIZE CACHE after the last sector; only its verdict matters here.
Close ==
  /\ bc = "eos"
  /\ ret' \in {"ok", "sync"}
  /\ bc' = "stop"
  /\ UNCHANGED <<ring, flags, reports, pp, place, was_empty, lba, disc>>

StopCancels_Bug == FALSE
StopCancels == ret # "ok"

\* adsc_wfifo_stop(f, ret != OK) up to the join: wake both sides.
Stop ==
  /\ bc = "stop"
  /\ cancelled' = (cancelled \/ StopCancels)
  /\ SignalNotFull
  /\ bc' = "join"
  /\ UNCHANGED <<ring, producer_done, producer_rc, thread_live, reports, place, burn>>

ProducerGone_Bug == TRUE
ProducerGone == pp = "exit"

Join ==
  /\ bc = "join"
  /\ ProducerGone
  /\ thread_live' = FALSE
  /\ ret' = IF ret = "ok" /\ producer_rc # "ok" THEN "read" ELSE ret
  /\ bc' = "ended"
  /\ UNCHANGED <<ring, producer_done, producer_rc, cancelled, reports, pp,
                 place, was_empty, lba, disc>>

Burn ==
  \/ Start \/ StartFails \/ PrefillWait \/ PrefillReady \/ PrefillReturn
  \/ PopEnter \/ PopWait \/ PopDrained \/ PopTake \/ Starved \/ WriteChunk
  \/ WriteFails \/ Release \/ Close \/ Stop \/ Join

------------------------------------------------------------------------------
SpuriousWakeup ==
  /\ pp = "not_full" \/ bc \in {"prefill_wait", "pop_wait"}
  /\ \/ SignalNotFull /\ UNCHANGED bc
     \/ SignalNotEmpty /\ UNCHANGED pp
  /\ UNCHANGED <<ring, flags, reports, place, burn>>

Terminated == bc = "ended" /\ UNCHANGED vars

Next == Fill \/ Burn \/ SpuriousWakeup \/ Terminated

\* The threads are scheduled, and pread and WRITE(10) return.
Fairness == WF_vars(Fill) /\ WF_vars(Burn)

Spec == Init /\ [][Next]_vars
FairSpec == Spec /\ Fairness

------------------------------------------------------------------------------
(* Properties.                                                             *)

ProducerAt == {"none", "top", "not_full", "fill", "pread", "publish", "exit"}
BurnAt == {"start", "prefill", "prefill_wait", "primed", "pop", "pop_test",
           "pop_wait", "hold", "release", "eos", "stop", "join", "ended"}
Verdict == {"ok", "nomem", "prefill", "read", "starved", "write", "sync"}

\* Every variable has its type; count stays within the ring although release
\* decrements it unconditionally (fifo.c, adsc_wfifo_release).
TypeOK ==
  /\ head \in Slot /\ tail \in Slot /\ count \in 0 .. nslots
  /\ arena \in [Slot -> Nat \cup {Torn}]
  /\ slot_nsec \in [Slot -> Nat]
  /\ producer_done \in BOOLEAN /\ producer_rc \in {"ok", "io"}
  /\ cancelled \in BOOLEAN /\ thread_live \in BOOLEAN
  /\ min_count \in 0 .. nslots /\ starved \in Nat
  /\ pp \in ProducerAt
  /\ si \in 1 .. NSeg + 1 /\ done_in_seg \in Nat /\ filled \in Nat
  /\ bc \in BurnAt /\ was_empty \in BOOLEAN /\ ret \in Verdict
  /\ lba \in Nat /\ disc \in [0 .. lba - 1 -> Nat \cup {Torn}]

\* The slot handed out by pop is not the one being filled, and holds the
\* sectors the drive is owed next: pop hands out the ring's own memory, so a
\* producer lapping it would be burned (fifo.c, adsc_wfifo_pop and _release).
HandedOutIntact ==
  bc = "hold" =>
    /\ count > 0
    /\ arena[tail] = lba
    /\ slot_nsec[tail] > 0
    /\ pp \in {"fill", "pread", "publish"} => head # tail

\* A burn that reports success has put the whole source on the disc, each
\* sector at its own address.
CompleteOnSuccess ==
  bc = "ended" /\ ret = "ok" =>
    lba = Total /\ disc = [i \in 0 .. Total - 1 |-> i]

\* pop reports the producer's error only when every sector read before it has
\* been handed over: an error never costs the good data queued ahead of it.
ReadErrorIsLast ==
  bc \in {"stop", "join", "ended"} /\ ret = "read" =>
    /\ producer_done /\ count = 0
    /\ si <= NSeg /\ lba = SegStart[si] + done_in_seg

\* prefill exists so that the opening pop is never scored as a starvation:
\* "that single false positive would stop EVERY burn at sector 0" (fifo.c).
NoStarvationAtSectorZero == was_empty => lba > 0

\* stop(discard = 0) does not cancel, so its join returns only because the
\* producer is already on its way out; with room left to wait for it would hang.
StopWithoutCancelIsSafe ==
  bc = "join" /\ ~cancelled => producer_done

\* Both threads are done with the ring when it is freed.
NoUseAfterStop == bc = "ended" => pp \in {"none", "exit"}

\* The i-th slot from slot t on, round the ring.
Wrap(t, i) == IF t + i < nslots THEN t + i ELSE t + i - nslots
At(i) == Wrap(tail, i)

\* A published slot keeps its contents until it is released.
Live(s) == \E k \in 0 .. count - 1 : s = At(k)
SlotsStable ==
  [][\A s \in Slot : Live(s) =>
       arena'[s] = arena[s] /\ slot_nsec'[s] = slot_nsec[s]]_vars

\* The FIFO is a faithful feed: see AudioStream.
status ==
  CASE bc = "ended" /\ ret = "ok"  -> "complete"
    [] bc = "ended" /\ ret # "ok"  -> "failed"
    [] OTHER                       -> "running"
Stream == INSTANCE AudioStream WITH MaxChunk <- sectors_per_slot
ImplementsStream == Stream!Spec

\* The inductive invariant behind the safety properties.  First, where the
\* producer stands in the source, and up to where it has published.
Pos == SegStart[si] + done_in_seg
Published == IF pp = "publish" THEN Pos - filled ELSE Pos
InvPlace ==
  /\ si <= NSeg => done_in_seg <= SegLen(si)
  /\ si > NSeg => done_in_seg = 0
  /\ pp = "pread" => si <= NSeg /\ done_in_seg < SegLen(si)
  /\ pp = "publish" =>
       /\ filled \in 1 .. sectors_per_slot
       /\ filled <= done_in_seg
       /\ arena[head] = Published

\* The ring's three numbers agree; the slot being filled is not a live one.
InvRing ==
  /\ head = At(count)
  /\ pp \in {"fill", "pread", "publish"} => count < nslots
  /\ bc \in {"hold", "release"} => count > 0

\* The live slots hold consecutive stretches of the source, from the sector the
\* drive is owed next up to what has been published.
Owed == IF bc = "release" THEN lba - slot_nsec[tail] ELSE lba
InvSlots ==
  /\ \A i \in 0 .. count - 1 :
       /\ slot_nsec[At(i)] \in 1 .. sectors_per_slot
       /\ arena[At(i)] >= 0
       /\ arena[At(i)] + slot_nsec[At(i)] <= Published
       /\ i + 1 < count => arena[At(i)] + slot_nsec[At(i)] = arena[At(i + 1)]
       /\ i + 1 = count => arena[At(i)] + slot_nsec[At(i)] = Published
  /\ Owed = IF count = 0 THEN Published ELSE arena[tail]

\* How the flags and the two threads' positions constrain each other.
Finished == producer_done /\ producer_rc = "ok" /\ count = 0
InvFlags ==
  /\ producer_done => pp = "exit"
  /\ pp = "exit" => producer_done \/ cancelled
  /\ producer_rc # "ok" => producer_done /\ si <= NSeg
  /\ producer_done /\ producer_rc = "ok" => si > NSeg
  /\ cancelled => bc \in {"join", "ended"} /\ ret # "ok"
  /\ bc = "join" /\ ret # "ok" => cancelled
  /\ bc \notin {"stop", "join", "ended"} => ret = "ok"
  /\ pp = "none" <=> bc = "start" \/ ret = "nomem"
  /\ ret = "nomem" => bc = "ended"
  /\ bc = "ended" => pp \in {"none", "exit"}
  /\ bc \in {"eos", "stop", "join", "ended"} /\ ret = "ok" => Finished
  /\ bc \in {"primed", "pop"} /\ lba = 0 => count > 0 \/ producer_done
  /\ was_empty => lba > 0
InvDisc == disc = [i \in 0 .. lba - 1 |-> i]

IInv ==
  /\ TypeOK /\ InvPlace /\ InvRing /\ InvSlots /\ InvFlags /\ InvDisc
  /\ ReadErrorIsLast

\* Every burn ends, with both threads stopped: no signal is lost.
Terminates == <>(bc = "ended")

\* The comment on min_count (fifo.c, adsc_wfifo_pop): the low-water mark moves
\* "Only while the source still has data".
SourceHasData == \E k \in 1 .. NSeg :
                   k >= si /\ SegLen(k) > IF k = si THEN done_in_seg ELSE 0
LowWaterOnlyWithData ==
  [][bc = "pop_test" /\ min_count' < min_count => SourceHasData]_vars
==============================================================================
