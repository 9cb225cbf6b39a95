------------------------------- MODULE AccuBuf -------------------------------
(***************************************************************************)
(* The AccuBuffer (src/read/accubuf.c): a ring between the read engine,    *)
(* which pushes chunks in LBA order, and the caller's sink, which runs on  *)
(* a consumer thread (drain).  The engine thread is the code of            *)
(* accudisc_read_cdda that uses the ring (src/read/engine.c): push each    *)
(* chunk, look at the caller's cancel flag between reads, stop the ring    *)
(* with discard when the read failed.  Chunks are numbered 1 .. NChunks.   *)
(*                                                                         *)
(* count is a uint32_t: it wraps, modulo CountMod (2^32 in the code).      *)
(***************************************************************************)
EXTENDS Integers, Sequences

CONSTANTS
  NChunks,   \* chunks in the range read
  WantSlots, \* whole chunks in the bytes the caller asked for
  MinSlots,  \* ADSC_ACCUBUF_MIN_SLOTS
  MaxSlots,  \* ADSC_ACCUBUF_MAX_SLOTS
  CountMod   \* 2^32

\* What the constants must satisfy; an instance assumes it.
BufAssumption ==
  /\ NChunks \in Nat \ {0}
  /\ WantSlots \in Nat /\ MinSlots \in Nat \ {0} /\ MaxSlots \in Nat
  /\ MinSlots <= MaxSlots /\ CountMod \in Nat /\ MaxSlots < CountMod

\* The size adsc_accubuf_start settles on.
nslots ==
  IF WantSlots < MinSlots THEN MinSlots
  ELSE IF WantSlots > MaxSlots THEN MaxSlots
  ELSE WantSlots

Slot == 0 .. nslots - 1
Unused == 0

\* (Definitions whose names end in _Bug restate the one that follows them with a
\* plausible mistake; nothing uses them but the checks that the properties bite.)
Advance(i) == (i + 1) % nslots

VARIABLES
  head, tail, count, slot,    \* the ring, under ab->mtx
  producer_done, sink_rc, thread_live,
  dp,                         \* where the drain thread is
  meta,                       \* the chunk it copied out
  ep,                         \* where the engine thread is
  pushed,                     \* chunks the engine has pushed
  rc,                         \* the read's verdict
  sunk,                       \* chunks handed to the sink, in order
  discarded                   \* stop was called with discard

ring == <<head, tail, count, slot>>
flags == <<producer_done, sink_rc, thread_live>>
drainer == <<dp, meta, sunk>>
engine == <<ep, pushed, rc, discarded>>
vars == <<ring, flags, drainer, engine>>

SignalNotEmpty_Bug == dp' = dp
SignalNotEmpty == dp' = IF dp = "not_empty" THEN "top" ELSE dp
SignalNotFull == ep' = IF ep = "not_full" THEN "push" ELSE ep

Init ==
  /\ head = 0 /\ tail = 0 /\ count = 0
  /\ slot = [s \in Slot |-> Unused]
  /\ producer_done = FALSE /\ sink_rc = 0 /\ thread_live = FALSE
  /\ dp = "none" /\ meta = Unused /\ sunk = <<>>
  /\ ep = "start" /\ pushed = 0 /\ rc = "ok" /\ discarded = FALSE

------------------------------------------------------------------------------
(* The consumer thread: drain().                                           *)

DrainWait ==
  /\ dp = "top"
  /\ count = 0 /\ ~producer_done
  /\ dp' = "not_empty"
  /\ UNCHANGED <<ring, flags, meta, sunk, engine>>

Drained_Bug == producer_done
Drained == count = 0 /\ producer_done

DrainExit ==
  /\ dp = "top"
  /\ Drained
  /\ dp' = "exit"
  /\ UNCHANGED <<ring, flags, meta, sunk, engine>>

\* Copy the metadata out, unlock, call the sink.
DrainTake ==
  /\ dp = "top"
  /\ count # 0
  /\ meta' = slot[tail]
  /\ sunk' = Append(sunk, slot[tail])
  /\ dp' = "sink"
  /\ UNCHANGED <<ring, flags, engine>>

\* Where the thread goes once the sink has answered r.
AfterSink_Bug(r) == "top"
AfterSink(r) == IF r # 0 THEN "exit" ELSE "top"

\* What release leaves in the uint32_t.
Decrement_Bug == count - 1
Decrement == (count - 1) % CountMod

\* The sink returned: release the slot, keep the first refusal.
DrainReturn ==
  /\ dp = "sink"
  /\ tail' = Advance(tail)
  /\ count' = Decrement
  /\ \E r \in {0, 1} :
       /\ sink_rc' = IF r # 0 /\ sink_rc = 0 THEN r ELSE sink_rc
       /\ dp' = AfterSink(r)
  /\ SignalNotFull
  /\ UNCHANGED <<head, slot, producer_done, thread_live, meta, sunk,
                 pushed, rc, discarded>>

Drain == DrainWait \/ DrainExit \/ DrainTake \/ DrainReturn

------------------------------------------------------------------------------
(* The engine thread.                                                      *)

Start ==
  /\ ep = "start"
  /\ thread_live' = TRUE
  /\ dp' = "top"
  /\ ep' = "reading"
  /\ UNCHANGED <<ring, producer_done, sink_rc, meta, sunk, pushed, rc, discarded>>

StartFails ==
  /\ ep = "start"
  /\ rc' = "nomem"
  /\ ep' = "ended"
  /\ UNCHANGED <<ring, flags, drainer, pushed, discarded>>

\* The next chunk has been read and published: push it.
ReadChunk ==
  /\ ep = "reading"
  /\ pushed < NChunks
  /\ ep' = "push"
  /\ UNCHANGED <<ring, flags, drainer, pushed, rc, discarded>>

\* The caller's cancel flag, seen at the top of the loop.  Delivery runs one
\* chunk late, so it is not looked at once only the last chunk is left.
Cancel ==
  /\ ep = "reading"
  /\ pushed = 0 \/ pushed < NChunks - 1
  /\ rc' = "cancelled"
  /\ ep' = "stop"
  /\ UNCHANGED <<ring, flags, drainer, pushed, discarded>>

AllRead ==
  /\ ep = "reading"
  /\ pushed = NChunks
  /\ ep' = "stop"
  /\ UNCHANGED <<ring, flags, drainer, pushed, rc, discarded>>

Full_Bug == FALSE
Full == count = nslots

PushWait ==
  /\ ep = "push"
  /\ Full /\ sink_rc = 0
  /\ ep' = "not_full"
  /\ UNCHANGED <<ring, flags, drainer, pushed, rc, discarded>>

\* The sink refused: push nothing more.
PushRefused ==
  /\ ep = "push"
  /\ sink_rc # 0
  /\ rc' = "cancelled"
  /\ ep' = "stop"
  /\ UNCHANGED <<ring, flags, drainer, pushed, discarded>>

PushCopy ==
  /\ ep = "push"
  /\ ~Full /\ sink_rc = 0
  /\ slot' = [slot EXCEPT ![head] = pushed + 1]
  /\ head' = Advance(head)
  /\ count' = (count + 1) % CountMod
  /\ pushed' = pushed + 1
  /\ ep' = "reading"
  /\ SignalNotEmpty
  /\ UNCHANGED <<tail, flags, meta, sunk, rc, discarded>>

\* adsc_accubuf_stop(&ab, rc != OK), up to the join.
Stop ==
  /\ ep = "stop"
  /\ producer_done' = TRUE
  /\ IF rc # "ok"
       THEN count' = 0 /\ tail' = head /\ discarded' = TRUE
       ELSE UNCHANGED <<count, tail, discarded>>
  /\ SignalNotEmpty
  /\ ep' = "join"
  /\ UNCHANGED <<head, slot, sink_rc, thread_live, meta, sunk, pushed, rc>>

ConsumerGone_Bug == TRUE
ConsumerGone == dp = "exit"

\* A refusal during the drain is a cancelled read.
Fold_Bug == rc
Fold == IF sink_rc # 0 /\ rc = "ok" THEN "cancelled" ELSE rc

Join ==
  /\ ep = "join"
  /\ ConsumerGone
  /\ thread_live' = FALSE
  /\ rc' = Fold
  /\ ep' = "ended"
  /\ UNCHANGED <<ring, producer_done, sink_rc, drainer, pushed, discarded>>

Engine ==
  \/ Start \/ StartFails \/ ReadChunk \/ Cancel \/ AllRead
  \/ PushWait \/ PushRefused \/ PushCopy \/ Stop \/ Join

------------------------------------------------------------------------------
SpuriousWakeup ==
  /\ \/ dp = "not_empty" /\ dp' = "top" /\ UNCHANGED ep
     \/ ep = "not_full" /\ ep' = "push" /\ UNCHANGED dp
  /\ UNCHANGED <<ring, flags, meta, sunk, pushed, rc, discarded>>

Terminated == ep = "ended" /\ UNCHANGED vars

Next == Drain \/ Engine \/ SpuriousWakeup \/ Terminated

\* Both threads are scheduled, the sink returns and each read completes.
Fairness == WF_vars(Drain) /\ WF_vars(Engine)

Spec == Init /\ [][Next]_vars
FairSpec == Spec /\ Fairness

------------------------------------------------------------------------------
(* Properties.                                                             *)

\* Every variable has its type.
TypeOK ==
  /\ head \in Slot /\ tail \in Slot /\ count \in 0 .. CountMod - 1
  /\ slot \in [Slot -> 0 .. NChunks]
  /\ producer_done \in BOOLEAN /\ sink_rc \in {0, 1} /\ thread_live \in BOOLEAN
  /\ dp \in {"none", "top", "not_empty", "sink", "exit"}
  /\ meta \in 0 .. NChunks /\ sunk \in Seq(0 .. NChunks)
  /\ ep \in {"start", "reading", "push", "not_full", "stop", "join", "ended"}
  /\ pushed \in 0 .. NChunks /\ rc \in {"ok", "nomem", "cancelled"}
  /\ discarded \in BOOLEAN

\* Until the ring is discarded "chunks reach the sink in exactly the order the
\* producer pushed them" (accubuf.c, drain), none lost and none twice.
DeliveredInOrder ==
  ~discarded => /\ Len(sunk) <= pushed
                /\ \A i \in 1 .. Len(sunk) : sunk[i] = i

\* While the sink runs, without the lock, the payload it was given stays put:
\* the slot keeps its chunk until the call returns.
SinkPayloadStable == dp = "sink" /\ ~discarded => slot[tail] = meta

\* A read that reports success delivered every chunk.
CompleteOnSuccess ==
  ep = "ended" /\ rc = "ok" => Len(sunk) = NChunks

\* A refusal, whether met by a push or during the final drain, reaches the
\* caller as a cancelled read.
RefusalReported == ep = "ended" /\ sink_rc # 0 => rc = "cancelled"

\* After the sink has refused a chunk it is never called again.
NoCallAfterRefusal == sink_rc # 0 => dp # "sink"

\* The ring is freed only once the consumer thread is gone.
NoUseAfterFree == ep = "ended" => dp \in {"none", "exit"}

\* What the sink and the caller of the read are owed, all of it.
SinkContract ==
  /\ DeliveredInOrder /\ SinkPayloadStable /\ CompleteOnSuccess
  /\ RefusalReported /\ NoCallAfterRefusal /\ NoUseAfterFree

\* The read ends, with the consumer joined, unless it was discarded while the
\* sink held a chunk (see NothingAfterDiscard).
RacedDiscard == discarded /\ dp = "sink"
Terminates == <>(ep = "ended" \/ RacedDiscard)

\* "those chunks are simply never delivered" (accubuf.c, adsc_accubuf_stop):
\* once the queue has been abandoned the sink is given nothing more.
NothingAfterDiscard == [][discarded => sunk' = sunk]_vars
==============================================================================
