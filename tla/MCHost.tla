------------------------------- MODULE MCHost -------------------------------
(* The library's threads and calls, one component at a time: subject names the
   one that runs, the others rest where they begin.

   Ready: two retries per unit attention (3 in the code) and three polls before
   a timeout (240 in the code): every order of quota use up to both being spent.
   AccuBuf: five chunks through three slots, so it fills, wraps and is drained or
   discarded at every occupancy; count wraps at 8, well above the ring's size, as
   2^32 is.  WriteFifo: tracks of 5, 0 and 6 sectors in chunks of 2 through two
   slots, on a drive that rides out starvation.  Burn: two calls on a handle
   whose budget may be one, with tracks of 3, 0 and 1 sectors, which give a short
   chunk at a track end, an empty track and a gap of no whole number of chunks. *)
EXTENDS MCBurn

CONSTANTS
  UARetries, TimeoutPolls,                      \* Ready's
  NChunks, BufWant, BufMin, BufMax, CountMod,   \* AccuBuf's
  NSeg, SegStart, sectors_per_slot, FifoWant, FifoMin, FifoMax, burnproof_on  \* WriteFifo's

MCSegStart == <<0, 5, 5, 11>>

VARIABLES
  subject,
  r_at, caller, cmd, rc, ua, r_waited, r_wait_off, polls, result, issued, executed,
  a_head, a_tail, a_count, slot, a_done, sink_rc, a_live, dp, meta, ep, pushed,
  a_rc, sunk, discarded,
  head, tail, count, arena, slot_nsec, producer_done, producer_rc, cancelled,
  thread_live, min_count, starved, pp, si, done_in_seg, filled, bc, was_empty,
  f_ret, f_lba, disc

Rdy == INSTANCE Ready WITH
  at <- r_at, waited <- r_waited, ready_wait_off <- r_wait_off
Buf == INSTANCE AccuBuf WITH
  WantSlots <- BufWant, MinSlots <- BufMin, MaxSlots <- BufMax,
  head <- a_head, tail <- a_tail, count <- a_count, producer_done <- a_done,
  thread_live <- a_live, rc <- a_rc
Fifo == INSTANCE WriteFifo WITH
  WantSlots <- FifoWant, MinSlots <- FifoMin, MaxSlots <- FifoMax,
  ret <- f_ret, lba <- f_lba

ASSUME HostAssumption ==
  /\ BurnAssumption /\ Rdy!QuotaAssumption /\ Buf!BufAssumption
  /\ Fifo!SegAssumption /\ Fifo!SizeAssumption

readyvars == <<r_at, caller, cmd, rc, ua, r_waited, r_wait_off, polls, result, issued,
               executed>>
bufvars   == <<a_head, a_tail, a_count, slot, a_done, sink_rc, a_live, dp, meta, ep,
               pushed, a_rc, sunk, discarded>>
fifovars  == <<head, tail, count, arena, slot_nsec, producer_done, producer_rc,
               cancelled, thread_live, min_count, starved, pp, si, done_in_seg, filled,
               bc, was_empty, f_ret, f_lba, disc>>
all == <<subject, vars, readyvars, bufvars, fifovars>>

ReadyStep(A) == subject = "ready" /\ A /\ UNCHANGED <<subject, vars, bufvars, fifovars>>
BufStep(A)   == subject = "accubuf" /\ A /\ UNCHANGED <<subject, vars, readyvars, fifovars>>
FifoStep(A)  == subject = "fifo" /\ A /\ UNCHANGED <<subject, vars, readyvars, bufvars>>
BurnStep(A)  == subject = "burn" /\ A /\ UNCHANGED <<subject, readyvars, bufvars, fifovars>>

MCInit ==
  /\ subject \in {"ready", "accubuf", "fifo", "burn"}
  /\ Init /\ Rdy!Init /\ Buf!Init /\ Fifo!Init

MCNext ==
  \/ ReadyStep(Rdy!Next) \/ BufStep(Buf!Next) \/ FifoStep(Fifo!Next) \/ BurnStep(Next)

\* Each component's own fairness, for the component that runs.
MCSpec ==
  /\ MCInit /\ [][MCNext]_all
  /\ WF_all(ReadyStep(Rdy!Step))
  /\ WF_all(BufStep(Buf!Drain)) /\ WF_all(BufStep(Buf!Engine))
  /\ WF_all(FifoStep(Fifo!Fill)) /\ WF_all(FifoStep(Fifo!Burn))
  /\ WF_all(BurnStep(Step))

\* The type invariants of the four (Burn, Ready, AccuBuf, WriteFifo).
TypesOK == TypeOK /\ Rdy!TypeOK /\ Buf!TypeOK /\ Fifo!TypeOK

\* Ready (device.c, ready.c): nothing is done twice, a write is sent once, and the two
\* quotas together bound what is sent.
RetriedSafely == Rdy!RetriedSafely
\* Ready: accudisc_load never reports success for a drive that was still becoming ready.
LoadMeansSettled == Rdy!LoadMeansSettled
\* AccuBuf (accubuf.c): chunks reach the sink in order, none lost and none twice; the
\* payload a running sink was given stays put; a read that reports success delivered
\* every chunk, and a refusal reaches the caller as a cancelled read and is the last
\* call of the sink; the ring outlives the thread that empties it.
SinkContract == Buf!SinkContract
\* AccuBuf, WriteFifo (fifo.c): a read and a burn end, and all their threads stop.
ThreadsEnd == (subject = "accubuf" => Buf!Terminates) /\ (subject = "fifo" => Fifo!Terminates)
\* Ready, Burn: accudisc_load of a drive that stops answering with attentions and
\* every accudisc_write return.
CallsEnd == (subject = "ready" => Rdy!LoadEnds) /\ (subject = "burn" => CallEnds)
==============================================================================
