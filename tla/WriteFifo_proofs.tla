-------------------------- MODULE WriteFifo_proofs --------------------------
(***************************************************************************)
(* Proofs about the write FIFO, for every source, chunk and ring size.     *)
(***************************************************************************)
EXTENDS WriteFifo, TLAPS

------------------------------------------------------------------------------
(* The ring's arithmetic.                                                  *)

\* Whatever size is asked for, the ring has a slot (fifo.c, adsc_wfifo_start).
LEMMA RingHasRoom == nslots \in Nat /\ nslots >= 1
  BY SizeAssumption DEF nslots

\* The source is laid out without a gap or a step back.
LEMMA SegFacts ==
  /\ \A k \in 1 .. NSeg : SegLen(k) \in Nat /\ SegStart[k] + SegLen(k) = SegStart[k + 1]
  /\ \A k \in 1 .. NSeg + 1 : SegStart[k] \in Nat /\ SegStart[k] <= Total
  /\ Total \in Nat
<1>1. NSeg \in Nat /\ SegStart \in [1 .. NSeg + 1 -> Nat]
  BY SegAssumption
<1>2. \A k \in 1 .. NSeg + 1 : SegStart[k] \in Nat
  BY <1>1
<1>3. \A k \in 1 .. NSeg : SegStart[k] <= SegStart[k + 1]
  BY <1>1, SegAssumption
<1> QED
  BY <1>1, <1>2, <1>3, SegAssumption DEF SegLen, Total

\* Advancing is one step round the ring.
LEMMA AdvanceIs ==
  \A s \in Slot : Advance(s) = IF s + 1 = nslots THEN 0 ELSE s + 1
<1> SUFFICES ASSUME NEW s \in Slot
             PROVE  Advance(s) = IF s + 1 = nslots THEN 0 ELSE s + 1
  OBVIOUS
<1>1. CASE s + 1 = nslots
  BY <1>1, RingHasRoom DEF Advance, Slot
<1>2. CASE s + 1 # nslots
  BY <1>2, RingHasRoom DEF Advance, Slot
<1> QED
  BY <1>1, <1>2

\* head and tail never leave the arena (fifo.c, fill and adsc_wfifo_release).
LEMMA AdvanceInSlot == \A s \in Slot : Advance(s) \in Slot
  BY AdvanceIs, RingHasRoom DEF Slot

\* Wrap stays on the ring, tells slots apart and steps as Advance does.
LEMMA WrapFacts ==
  ASSUME NEW t \in Slot
  PROVE  /\ \A i \in 0 .. nslots : Wrap(t, i) \in Slot
         /\ Wrap(t, 0) = t
         /\ \A i, j \in 0 .. nslots - 1 : i # j => Wrap(t, i) # Wrap(t, j)
         /\ \A i \in 0 .. nslots - 1 : Advance(Wrap(t, i)) = Wrap(t, i + 1)
         /\ \A i \in 0 .. nslots - 1 : Wrap(Advance(t), i) = Wrap(t, i + 1)
<1>1. \A i \in 0 .. nslots : Wrap(t, i) \in Slot
  BY RingHasRoom DEF Wrap, Slot
<1>2. Wrap(t, 0) = t
  BY RingHasRoom DEF Wrap, Slot
<1>3. \A i, j \in 0 .. nslots - 1 : i # j => Wrap(t, i) # Wrap(t, j)
  BY RingHasRoom DEF Wrap, Slot
<1>4. \A i \in 0 .. nslots - 1 : Advance(Wrap(t, i)) = Wrap(t, i + 1)
  BY <1>1, AdvanceIs, RingHasRoom DEF Wrap, Slot
<1>5. \A i \in 0 .. nslots - 1 : Wrap(Advance(t), i) = Wrap(t, i + 1)
  BY AdvanceIs, RingHasRoom DEF Wrap, Slot
<1> QED
  BY <1>1, <1>2, <1>3, <1>4, <1>5

------------------------------------------------------------------------------
(* The inductive invariant, one part at a time.                            *)

\* The invariant holds of a zeroed struct, before adsc_wfifo_start.
LEMMA InitInv == Init => IInv
<1> SUFFICES ASSUME Init PROVE IInv
  OBVIOUS
<1> USE RingHasRoom, SegFacts, SegAssumption, SizeAssumption DEF Init
<1>1. TypeOK
  <2>1. arena \in [Slot -> Nat \cup {Torn}] /\ slot_nsec \in [Slot -> Nat]
    OBVIOUS
  <2>2. disc \in [0 .. lba - 1 -> Nat \cup {Torn}]
    OBVIOUS
  <2>3. 0 \in Slot /\ si \in 1 .. NSeg + 1
    BY DEF Slot
  <2>4. pp \in ProducerAt /\ bc \in BurnAt /\ ret \in Verdict
    BY DEF ProducerAt, BurnAt, Verdict
  <2>5. head \in Slot /\ tail \in Slot /\ count \in 0 .. nslots
    BY <2>3
  <2>6. min_count \in 0 .. nslots /\ starved \in Nat /\ done_in_seg \in Nat
        /\ filled \in Nat /\ lba \in Nat
    OBVIOUS
  <2>7. producer_done \in BOOLEAN /\ producer_rc \in {"ok", "io"} /\ was_empty \in BOOLEAN
        /\ cancelled \in BOOLEAN /\ thread_live \in BOOLEAN
    OBVIOUS
  <2> HIDE DEF Init
  <2> QED
    BY ONLY <2>1, <2>2, <2>3, <2>4, <2>5, <2>6, <2>7 DEF TypeOK
<1>2. InvPlace
  BY DEF InvPlace
<1>3. InvRing
  BY DEF InvRing, At, Wrap
<1>4. InvSlots
  BY DEF InvSlots, Owed, Published, Pos
<1>5. InvFlags
  BY DEF InvFlags
<1>6. InvDisc /\ ReadErrorIsLast
  BY DEF InvDisc, ReadErrorIsLast
<1> QED
  BY <1>1, <1>2, <1>3, <1>4, <1>5, <1>6 DEF IInv

\* What fill reads next: at least a sector, no more than a slot holds or the
\* track has left.
LEMMA FillSizeFacts ==
  ASSUME TypeOK, InvPlace, pp = "pread"
  PROVE  /\ si \in 1 .. NSeg
         /\ FillSize \in 1 .. sectors_per_slot
         /\ done_in_seg + FillSize <= SegLen(si)
         /\ SegStart[si] \in Nat /\ SegLen(si) \in Nat
<1>1. si \in 1 .. NSeg /\ done_in_seg \in Nat /\ done_in_seg < SegLen(si)
  BY SegAssumption DEF TypeOK, InvPlace
<1>2. SegStart[si] \in Nat /\ SegLen(si) \in Nat
  BY <1>1, SegFacts, SegAssumption
<1> QED
  BY <1>1, <1>2, SizeAssumption DEF FillSize

\* No step of either thread takes a variable out of its type; release finds a
\* slot to give back (fifo.c, adsc_wfifo_release).
LEMMA TypeStep ==
  ASSUME IInv, [Next]_vars
  PROVE  TypeOK'
<1> USE RingHasRoom, SizeAssumption DEF IInv, TypeOK, ring, flags, reports, place, burn, Torn, ProducerAt, BurnAt, Verdict
<1>1. CASE FillWait
  BY <1>1 DEF FillWait
<1>2. CASE FillCancelled
  BY <1>2 DEF FillCancelled
<1>3. CASE FillClaim
  BY <1>3 DEF FillClaim
<1>4. CASE FillNextSegment
  BY <1>4, SegAssumption DEF FillNextSegment
<1>5. CASE FillEndOfStream
  BY <1>5 DEF FillEndOfStream, SignalNotEmpty
<1>6. CASE FillReadBegin
  BY <1>6 DEF FillReadBegin
<1>7. CASE FillReadOk
  <2>1. FillSize \in Nat /\ SegStart[si] + done_in_seg \in Nat
    BY <1>7, FillSizeFacts, SMTT(40) DEF FillReadOk
  <2> QED
    BY <1>7, <2>1 DEF FillReadOk
<1>8. CASE FillReadError
  BY <1>8 DEF FillReadError, KeepError, SignalNotEmpty
<1>9. CASE FillPublish
  <2>1. count' \in 0 .. nslots /\ head' \in Slot
    BY <1>9, AdvanceInSlot DEF FillPublish, InvRing
  <2>2. slot_nsec' \in [Slot -> Nat]
    BY <1>9 DEF FillPublish
  <2>3. bc' \in BurnAt
    BY <1>9 DEF FillPublish, SignalNotEmpty
  <2> QED
    BY <1>9, <2>1, <2>2, <2>3 DEF FillPublish
<1>10. CASE Start
  BY <1>10 DEF Start
<1>11. CASE StartFails
  BY <1>11 DEF StartFails
<1>12. CASE PrefillWait
  BY <1>12 DEF PrefillWait
<1>13. CASE PrefillReady
  BY <1>13 DEF PrefillReady
<1>14. CASE PrefillReturn
  BY <1>14 DEF PrefillReturn
<1>15. CASE PopEnter
  BY <1>15 DEF PopEnter, PopBlocked
<1>16. CASE PopWait
  BY <1>16 DEF PopWait
<1>17. CASE PopDrained
  BY <1>17 DEF PopDrained
<1>18. CASE PopTake
  BY <1>18 DEF PopTake
<1>19. CASE Starved
  BY <1>19 DEF Starved
<1>20. CASE WriteChunk
  BY <1>20, SMTT(40) DEF WriteChunk, InvRing, InvSlots
<1>21. CASE WriteFails
  BY <1>21 DEF WriteFails
<1>22. CASE Release
  BY <1>22, AdvanceInSlot DEF Release, InvRing, SignalNotFull
<1>23. CASE Close
  BY <1>23 DEF Close
<1>24. CASE Stop
  BY <1>24 DEF Stop, SignalNotFull
<1>25. CASE Join
  BY <1>25 DEF Join
<1>26. CASE SpuriousWakeup
  BY <1>26, SMTT(40) DEF SpuriousWakeup, SignalNotFull, SignalNotEmpty
<1>27. CASE Terminated
  BY <1>27 DEF Terminated, vars
<1>28. CASE UNCHANGED vars
  BY <1>28 DEF vars
<1> QED
  BY <1>1, <1>2, <1>3, <1>4, <1>5, <1>6, <1>7, <1>8, <1>9, <1>10, <1>11, <1>12, <1>13, <1>14, <1>15, <1>16, <1>17, <1>18, <1>19, <1>20, <1>21, <1>22, <1>23, <1>24, <1>25, <1>26, <1>27, <1>28 DEF Next, Fill, Burn

\* fill never walks past the end of a track, and what it carries to its publish
\* is the chunk it read (fifo.c, fill).
LEMMA PlaceStep ==
  ASSUME IInv, [Next]_vars
  PROVE  InvPlace'
<1> USE DEF ring, flags, reports, place, burn
<1>0. TypeOK /\ InvPlace /\ si \in 1 .. NSeg + 1 /\ done_in_seg \in Nat
  BY DEF IInv, TypeOK
<1>1. CASE UNCHANGED <<head, arena, place>> /\ pp' \in {pp, "top", "not_full", "fill", "exit"}
  BY <1>0, <1>1 DEF InvPlace, Published, Pos, SegLen
<1>2. CASE FillNextSegment
  <2>1. si' \in 1 .. NSeg + 1 /\ done_in_seg' = 0 /\ pp' = "fill"
    BY <1>0, <1>2, SegAssumption DEF FillNextSegment
  <2>2. si' <= NSeg => SegLen(si') \in Nat
    BY <2>1, SegFacts, SegAssumption
  <2> QED
    BY <2>1, <2>2 DEF InvPlace, SegLen
<1>3. CASE FillReadBegin
  BY <1>0, <1>3 DEF FillReadBegin, InvPlace, SegLen
<1>4. CASE FillReadOk
  <2>1. pp = "pread" /\ pp' = "publish" /\ si' = si /\ filled' = FillSize
        /\ done_in_seg' = done_in_seg + FillSize /\ head' = head
    BY <1>4 DEF FillReadOk
  <2>2. /\ si \in 1 .. NSeg /\ FillSize \in 1 .. sectors_per_slot
        /\ done_in_seg + FillSize <= SegLen(si)
        /\ SegStart[si] \in Nat /\ SegLen(si) \in Nat
    BY <1>0, <2>1, FillSizeFacts
  <2>3. arena'[head'] = SegStart[si] + done_in_seg
    BY <1>0, <1>4, <2>1 DEF FillReadOk, TypeOK
  <2>4. Published' = SegStart[si] + done_in_seg
    BY <1>0, <2>1, <2>2, SizeAssumption DEF Published, Pos
  <2> QED
    BY <1>0, <2>1, <2>2, <2>3, <2>4, SizeAssumption, SegAssumption DEF InvPlace, SegLen
<1>5. CASE FillPublish
  BY <1>0, <1>5 DEF FillPublish, InvPlace, SegLen
<1> QED
  <2>1. CASE Fill
    BY <2>1, <1>1, <1>2, <1>3, <1>4, <1>5
       DEF Fill, FillWait, FillCancelled, FillClaim, FillEndOfStream, FillReadError
  <2>2. CASE Burn
    BY <2>2, <1>1
       DEF Burn, Start, StartFails, PrefillWait, PrefillReady, PrefillReturn, PopEnter,
           PopWait, PopDrained, PopTake, Starved, WriteChunk, WriteFails, Release,
           Close, Stop, Join, SignalNotFull
  <2>3. CASE SpuriousWakeup \/ Terminated \/ UNCHANGED vars
    BY <2>3, <1>1 DEF SpuriousWakeup, Terminated, vars, SignalNotFull
  <2> QED
    BY <2>1, <2>2, <2>3 DEF Next

\* head is count slots ahead of tail, whichever thread moves (fifo.c, fill and
\* adsc_wfifo_release).
LEMMA RingStep ==
  ASSUME IInv, [Next]_vars
  PROVE  InvRing'
<1> USE DEF ring, flags, reports, place, burn
<1>0. /\ TypeOK /\ InvRing
      /\ head \in Slot /\ tail \in Slot /\ count \in 0 .. nslots
  BY DEF IInv, TypeOK
<1>1. CASE /\ UNCHANGED <<head, tail, count>>
           /\ pp' \in {"fill", "pread", "publish"} => pp \in {"fill", "pread", "publish"}
           /\ bc' \in {"hold", "release"} => bc \in {"hold", "release"}
  BY <1>0, <1>1 DEF InvRing, At, Wrap
<1>2. CASE FillClaim
  BY <1>0, <1>2, RingHasRoom DEF FillClaim, Full, InvRing, At, Wrap
<1>3. CASE PopTake
  BY <1>0, <1>3 DEF PopTake, InvRing, At, Wrap
<1>4. CASE FillPublish
  <2>1. count < nslots /\ count' = count + 1 /\ tail' = tail /\ head' = Advance(head)
        /\ pp' = "top" /\ (bc' \in {"hold", "release"} => bc \in {"hold", "release"})
    BY <1>0, <1>4 DEF FillPublish, InvRing, SignalNotEmpty
  <2>2. head' = At(count)'
    BY <1>0, <2>1, WrapFacts, RingHasRoom DEF InvRing, At
  <2> QED
    BY <1>0, <2>1, <2>2 DEF InvRing
<1>5. CASE Release
  <2>1. count > 0 /\ count' = count - 1 /\ tail' = Advance(tail) /\ head' = head
        /\ bc' = "pop"
        /\ (pp' \in {"fill", "pread", "publish"} => pp \in {"fill", "pread", "publish"})
    BY <1>0, <1>5 DEF Release, InvRing, SignalNotFull
  <2>2. Wrap(tail', count') = Wrap(tail, count)
    BY <1>0, <2>1, WrapFacts, RingHasRoom
  <2>3. head' = At(count)'
    BY <1>0, <2>1, <2>2 DEF InvRing, At
  <2> QED
    BY <1>0, <2>1, <2>3, RingHasRoom DEF InvRing
<1> QED
  <2>1. CASE Fill
    BY <2>1, <1>1, <1>2, <1>4
       DEF Fill, FillWait, FillCancelled, FillNextSegment, FillEndOfStream, FillReadBegin,
           FillReadOk, FillReadError, SignalNotEmpty
  <2>2. CASE Burn
    BY <2>2, <1>1, <1>3, <1>5
       DEF Burn, Start, StartFails, PrefillWait, PrefillReady, PrefillReturn, PopEnter,
           PopWait, PopDrained, Starved, WriteChunk, WriteFails,
           Close, Stop, Join, SignalNotFull
  <2>3. CASE SpuriousWakeup \/ Terminated \/ UNCHANGED vars
    BY <2>3, <1>1 DEF SpuriousWakeup, Terminated, vars, SignalNotFull, SignalNotEmpty
  <2> QED
    BY <2>1, <2>2, <2>3 DEF Next

\* The slot at head is free while the ring has room; the live ones start at tail.
LEMMA LiveSlots ==
  ASSUME TypeOK, InvRing
  PROVE  /\ \A i \in 0 .. count - 1 : At(i) \in Slot
         /\ count < nslots => \A i \in 0 .. count - 1 : At(i) # head
         /\ At(0) = tail
<1>1. tail \in Slot /\ count \in 0 .. nslots /\ head = Wrap(tail, count)
  BY DEF TypeOK, InvRing, At
<1>2. \A i \in 0 .. count - 1 : At(i) \in Slot
  BY <1>1, WrapFacts, RingHasRoom DEF At
<1>3. ASSUME count < nslots, NEW i \in 0 .. count - 1
      PROVE  At(i) # head
  BY <1>1, <1>3, WrapFacts, RingHasRoom DEF At
<1>4. At(0) = tail
  BY <1>1, WrapFacts DEF At
<1> QED
  BY <1>2, <1>3, <1>4

\* Only publishing moves the point up to which the source has been published.
LEMMA PublishedMoves ==
  ASSUME IInv, [Next]_vars
  PROVE  /\ Published \in Nat /\ Published' \in Nat
         /\ ~FillPublish => Published' = Published
         /\ FillPublish => Published' = Published + filled
<1> USE DEF ring, flags, reports, place, burn
<1>0. /\ TypeOK /\ InvPlace /\ si \in 1 .. NSeg + 1 /\ done_in_seg \in Nat /\ NSeg \in Nat
      /\ SegStart[si] \in Nat /\ (pp = "publish" => filled \in Nat /\ filled <= done_in_seg)
  BY SegAssumption, SegFacts, SizeAssumption DEF IInv, TypeOK, InvPlace
<1>6. FillPublish => pp = "publish" /\ pp' = "top"
  BY DEF FillPublish
<1>1. CASE UNCHANGED place /\ pp # "publish" /\ pp' # "publish"
  BY <1>0, <1>1, <1>6 DEF Published, Pos
<1>2. CASE UNCHANGED <<place, pp>>
  BY <1>0, <1>2, <1>6 DEF Published, Pos
<1>3. CASE FillNextSegment
  <2>1. /\ si \in 1 .. NSeg /\ si' = si + 1 /\ done_in_seg' = 0
        /\ pp = "fill" /\ pp' = "fill" /\ done_in_seg = SegLen(si)
    BY <1>0, <1>3, SegFacts DEF FillNextSegment, InvPlace
  <2>2. SegStart[si'] = SegStart[si] + done_in_seg
    BY <2>1, SegFacts
  <2>3. ~FillPublish
    BY <2>1 DEF FillPublish
  <2> QED
    BY <1>0, <2>1, <2>2, <2>3 DEF Published, Pos
<1>4. CASE FillReadOk
  BY <1>0, <1>4, FillSizeFacts DEF FillReadOk, FillPublish, Published, Pos
<1>5. CASE FillPublish
  BY <1>0, <1>5 DEF FillPublish, Published, Pos
<1> QED
  <2>1. CASE Fill
    BY <2>1, <1>1, <1>3, <1>4, <1>5, <1>6
       DEF Fill, FillWait, FillCancelled, FillClaim, FillEndOfStream, FillReadBegin,
           FillReadError
  <2>2. CASE Burn
    BY <2>2, <1>0, <1>1, <1>2, <1>6
       DEF Burn, Start, StartFails, PrefillWait, PrefillReady, PrefillReturn, PopEnter,
           PopWait, PopDrained, PopTake, Starved, WriteChunk, WriteFails, Release,
           Close, Stop, Join, SignalNotFull, IInv, InvFlags
  <2>3. CASE SpuriousWakeup \/ Terminated \/ UNCHANGED vars
    BY <2>3, <1>1, <1>2, <1>6 DEF SpuriousWakeup, Terminated, vars, SignalNotFull
  <2> QED
    BY <2>1, <2>2, <2>3 DEF Next

\* The live slots stay consecutive stretches of the source, from what the drive
\* is owed to what has been published (fifo.c, fill, pop and release).
LEMMA SlotsStep ==
  ASSUME IInv, [Next]_vars
  PROVE  InvSlots'
<1> USE DEF ring, flags, reports, place, burn
<1>0. /\ TypeOK /\ InvPlace /\ InvRing /\ InvSlots
      /\ head \in Slot /\ tail \in Slot /\ count \in 0 .. nslots
      /\ arena \in [Slot -> Nat \cup {Torn}] /\ slot_nsec \in [Slot -> Nat] /\ lba \in Nat
  BY DEF IInv, TypeOK
<1>1. CASE /\ UNCHANGED <<arena, slot_nsec, count, tail, lba>>
           /\ bc' = "release" <=> bc = "release"
           /\ Published' = Published
  BY <1>0, <1>1 DEF InvSlots, Owed, At
<1>2. CASE FillReadBegin \/ FillReadOk
  <2>1. /\ UNCHANGED <<slot_nsec, count, tail, lba, bc>>
        /\ count < nslots
        /\ \A s \in Slot : s # head => arena'[s] = arena[s]
    BY <1>0, <1>2 DEF FillReadBegin, FillReadOk, InvRing
  <2>2. Published' = Published
    BY <1>2, PublishedMoves DEF FillReadBegin, FillReadOk, FillPublish
  <2>3. \A i \in 0 .. count - 1 : arena'[At(i)] = arena[At(i)]
    BY <1>0, <2>1, LiveSlots
  <2>4. count # 0 => arena'[tail] = arena[tail]
    BY <1>0, <2>3, LiveSlots
  <2> QED
    BY <1>0, <2>1, <2>2, <2>3, <2>4 DEF InvSlots, Owed, At
<1>3. CASE FillPublish
  <2>1. /\ UNCHANGED <<arena, tail, lba>> /\ count < nslots /\ count' = count + 1
        /\ (bc' = "release" <=> bc = "release")
        /\ slot_nsec'[head] = filled
        /\ \A s \in Slot : s # head => slot_nsec'[s] = slot_nsec[s]
        /\ filled \in 1 .. sectors_per_slot /\ arena[head] = Published
    BY <1>0, <1>3 DEF FillPublish, InvRing, InvPlace, SignalNotEmpty
  <2>2. /\ Published \in Nat /\ filled \in Nat /\ Published' = Published + filled
    BY <1>3, <2>1, SizeAssumption, PublishedMoves
  <2>3. head = At(count) /\ At(0) = tail /\ \A i \in 0 .. count - 1 :
          /\ At(i) \in Slot /\ slot_nsec'[At(i)] = slot_nsec[At(i)]
    BY <1>0, <2>1, LiveSlots DEF InvRing
  <2>4. \A i \in 0 .. count : At(i)' = At(i)
    BY <2>1 DEF At, Wrap
  <2>5. Owed' = Owed
    BY <1>0, <2>1, <2>3 DEF Owed, InvRing
  <2>6. Owed' = arena[tail]
    BY <1>0, <2>1, <2>3, <2>5 DEF InvSlots
  <2>7. ASSUME NEW i \in 0 .. count
        PROVE  /\ slot_nsec'[At(i)] \in 1 .. sectors_per_slot
               /\ arena[At(i)] >= 0
               /\ arena[At(i)] + slot_nsec'[At(i)] <= Published'
               /\ i < count => arena[At(i)] + slot_nsec'[At(i)] = arena[At(i + 1)]
               /\ i = count => arena[At(i)] + slot_nsec'[At(i)] = Published'
    <3>1. CASE i = count
      BY <1>0, <2>1, <2>2, <2>3, <3>1
    <3>2. CASE i < count
      <4>1. /\ i \in 0 .. count - 1 /\ slot_nsec'[At(i)] = slot_nsec[At(i)]
            /\ arena[At(i)] \in Nat \cup {Torn} /\ slot_nsec[At(i)] \in Nat
        BY <1>0, <2>3, <3>2
      <4>2. arena[At(i)] + slot_nsec[At(i)] =
              IF i + 1 < count THEN arena[At(i + 1)] ELSE Published
        BY <1>0, <4>1 DEF InvSlots
      <4>3. i + 1 < count \/ i + 1 = count
        BY <1>0, <4>1
      <4>4. arena[At(i)] + slot_nsec[At(i)] = arena[At(i + 1)]
        BY <2>1, <2>3, <4>2, <4>3
      <4>5. /\ slot_nsec[At(i)] \in 1 .. sectors_per_slot /\ arena[At(i)] >= 0
            /\ arena[At(i)] + slot_nsec[At(i)] <= Published
        BY <1>0, <4>1 DEF InvSlots
      <4> QED
        BY <2>2, <3>2, <4>1, <4>4, <4>5, SizeAssumption DEF Torn
    <3> QED
      BY <1>0, <3>1, <3>2
  <2> QED
    BY <1>0, <2>1, <2>4, <2>6, <2>7 DEF InvSlots
<1>4. CASE WriteChunk
  <2>1. /\ UNCHANGED <<arena, slot_nsec, count, tail>>
        /\ bc = "hold" /\ bc' = "release" /\ lba' = lba + slot_nsec[tail]
    BY <1>4 DEF WriteChunk
  <2>2. Published' = Published
    BY <1>4, PublishedMoves DEF WriteChunk, FillPublish
  <2> QED
    BY <1>0, <2>1, <2>2 DEF InvSlots, Owed, At
<1>5. CASE Release
  <2>1. /\ UNCHANGED <<arena, slot_nsec, lba>> /\ bc = "release" /\ bc' = "pop"
        /\ tail' = Advance(tail) /\ count' = count - 1 /\ count > 0
    BY <1>0, <1>5 DEF Release, InvRing
  <2>2. Published' = Published
    BY <1>5, <2>1, PublishedMoves DEF Release, FillPublish, SignalNotFull
  <2>3. \A i \in 0 .. count - 1 : At(i)' = At(i + 1)
    BY <1>0, <2>1, WrapFacts, RingHasRoom DEF At
  <2>4. arena[tail] + slot_nsec[tail] = lba
    BY <1>0, <2>1, LiveSlots DEF InvSlots, Owed, Torn
  <2>5. tail' = At(1)
    BY <1>0, <2>1, WrapFacts, RingHasRoom DEF At
  <2>6. lba = IF count = 1 THEN Published ELSE arena[At(1)]
    BY <1>0, <2>1, <2>4, LiveSlots DEF InvSlots
  <2> QED
    BY <1>0, <2>1, <2>2, <2>3, <2>5, <2>6 DEF InvSlots, Owed
<1> QED
  <2>1. CASE Fill
    BY <2>1, <1>1, <1>2, <1>3, PublishedMoves
       DEF Fill, FillWait, FillCancelled, FillClaim, FillNextSegment, FillEndOfStream,
           FillReadError, FillPublish, SignalNotEmpty
  <2>2. CASE Burn
    <3>1. ~FillPublish
      BY <2>2
         DEF Burn, Start, StartFails, PrefillWait, PrefillReady, PrefillReturn, PopEnter,
             PopWait, PopDrained, PopTake, Starved, WriteChunk, WriteFails, Release,
             Close, Stop, Join, SignalNotFull, FillPublish, IInv, InvFlags
    <3>2. Published' = Published
      BY <3>1, PublishedMoves
    <3> QED
      BY <2>2, <3>2, <1>1, <1>4, <1>5
         DEF Burn, Start, StartFails, PrefillWait, PrefillReady, PrefillReturn, PopEnter,
             PopWait, PopDrained, PopTake, Starved, WriteFails, Close, Stop, Join
  <2>3. CASE SpuriousWakeup \/ Terminated \/ UNCHANGED vars
    BY <2>3, <1>1, PublishedMoves
       DEF SpuriousWakeup, Terminated, vars, SignalNotFull, SignalNotEmpty, FillPublish
  <2> QED
    BY <2>1, <2>2, <2>3 DEF Next

\* The flags keep telling each thread the truth about where the other one is
\* (fifo.c, fill and adsc_wfifo_stop; burn.c, the exits of adsc_write_run).
LEMMA FlagsStep ==
  ASSUME IInv, [Next]_vars
  PROVE  InvFlags'
<1> USE DEF ring, flags, reports, place, burn
<1>0. /\ InvFlags /\ InvPlace /\ InvRing /\ lba \in Nat /\ count \in 0 .. nslots
      /\ si \in 1 .. NSeg + 1 /\ NSeg \in Nat /\ nslots \in Nat /\ nslots >= 1
      /\ producer_rc \in {"ok", "io"} /\ min_count \in 0 .. nslots
  BY RingHasRoom, SegAssumption DEF IInv, TypeOK
<1>1. CASE FillWait
  BY <1>0, <1>1 DEF FillWait, InvFlags, InvPlace, Finished
<1>2. CASE FillCancelled
  BY <1>0, <1>2 DEF FillCancelled, InvFlags, InvPlace, Finished
<1>3. CASE FillClaim
  BY <1>0, <1>3 DEF FillClaim, InvFlags, InvPlace, Finished
<1>4. CASE FillNextSegment
  BY <1>0, <1>4 DEF FillNextSegment, InvFlags, InvPlace, Finished
<1>5. CASE FillEndOfStream
  BY <1>0, <1>5 DEF FillEndOfStream, SignalNotEmpty, InvFlags, InvPlace, Finished
<1>6. CASE FillReadBegin
  BY <1>0, <1>6 DEF FillReadBegin, InvFlags, InvPlace, Finished
<1>7. CASE FillReadOk
  BY <1>0, <1>7 DEF FillReadOk, InvFlags, InvPlace, Finished
<1>8. CASE FillReadError
  BY <1>0, <1>8 DEF FillReadError, KeepError, SignalNotEmpty, InvFlags, InvPlace, Finished
<1>9. CASE FillPublish
  BY <1>0, <1>9 DEF FillPublish, SignalNotEmpty, InvFlags, InvPlace, Finished
<1>10. CASE Start
  BY <1>0, <1>10 DEF Start, InvFlags, InvPlace, Finished
<1>11. CASE StartFails
  BY <1>0, <1>11 DEF StartFails, InvFlags, InvPlace, Finished
<1>12. CASE PrefillWait
  BY <1>0, <1>12 DEF PrefillWait, InvFlags, InvPlace, Finished
<1>13. CASE PrefillReady
  BY <1>0, <1>13 DEF PrefillReady, PrefillBlocked, InvFlags, InvPlace, Finished
<1>14. CASE PrefillReturn
  BY <1>0, <1>14 DEF PrefillReturn, InvFlags, InvPlace, Finished
<1>15. CASE PopEnter
  <2>1. bc = "pop" /\ bc' \in {"pop_wait", "pop_test"} /\ UNCHANGED <<ret, lba>>
    BY <1>15 DEF PopEnter
  <2>2. PopBlocked => lba # 0
    BY <1>0, <2>1 DEF InvFlags, PopBlocked
  <2>3. was_empty' => lba' > 0
    BY <1>0, <1>15, <2>1, <2>2 DEF PopEnter
  <2> QED
    BY <1>0, <1>15, <2>1, <2>3 DEF PopEnter, InvFlags, Finished
<1>16. CASE PopWait
  BY <1>0, <1>16 DEF PopWait, InvFlags, InvPlace, Finished
<1>17. CASE PopDrained
  BY <1>0, <1>17 DEF PopDrained, Drained, InvFlags, InvPlace, Finished
<1>18. CASE PopTake
  BY <1>0, <1>18 DEF PopTake, InvFlags, InvPlace, Finished
<1>19. CASE Starved
  BY <1>0, <1>19 DEF Starved, InvFlags, InvPlace, Finished
<1>20. CASE WriteChunk
  <2>1. bc = "hold" /\ bc' = "release" /\ lba' = lba + slot_nsec[tail]
    BY <1>20 DEF WriteChunk
  <2>2. slot_nsec[tail] \in Nat
    BY DEF IInv, TypeOK
  <2>3. lba' \in Nat /\ lba' >= lba
    BY <1>0, <2>1, <2>2
  <2> QED
    BY <1>0, <1>20, <2>1, <2>3 DEF WriteChunk, InvFlags, Finished
<1>21. CASE WriteFails
  BY <1>0, <1>21 DEF WriteFails, InvFlags, InvPlace, Finished
<1>22. CASE Release
  <2>1. bc = "release" /\ bc' = "pop" /\ lba' = lba
    BY <1>22 DEF Release
  <2>2. lba > 0
    BY <1>0, <2>1, LiveSlots, SizeAssumption DEF IInv, TypeOK, InvRing, InvSlots, Owed
  <2> QED
    BY <1>0, <1>22, <2>1, <2>2 DEF Release, SignalNotFull, InvFlags, Finished
<1>23. CASE Close
  BY <1>0, <1>23 DEF Close, InvFlags, InvPlace, Finished
<1>24. CASE Stop
  BY <1>0, <1>24 DEF Stop, SignalNotFull, StopCancels, InvFlags, InvPlace, Finished
<1>25. CASE Join
  BY <1>0, <1>25 DEF Join, ProducerGone, InvFlags, InvPlace, Finished
<1>26. CASE SpuriousWakeup
  BY <1>0, <1>26 DEF SpuriousWakeup, SignalNotFull, SignalNotEmpty, InvFlags, InvPlace, Finished
<1>27. CASE Terminated
  BY <1>0, <1>27 DEF Terminated, vars, InvFlags, InvPlace, Finished
<1>28. CASE UNCHANGED vars
  BY <1>0, <1>28 DEF vars, InvFlags, Finished
<1> QED
  BY <1>1, <1>2, <1>3, <1>4, <1>5, <1>6, <1>7, <1>8, <1>9, <1>10, <1>11,
     <1>12, <1>13, <1>14, <1>15, <1>16, <1>17, <1>18, <1>19, <1>20, <1>21, <1>22,
     <1>23, <1>24, <1>25, <1>26, <1>27, <1>28 DEF Next, Fill, Burn

\* A chunk written goes to the addresses it is owed to.
LEMMA DiscStep ==
  ASSUME IInv, [Next]_vars
  PROVE  InvDisc'
<1> USE DEF ring, flags, reports, place, burn
<1>1. CASE UNCHANGED <<lba, disc>>
  BY <1>1 DEF IInv, InvDisc
<1>2. CASE WriteChunk
  <2>1. /\ lba \in Nat /\ slot_nsec[tail] \in Nat /\ disc = [i \in 0 .. lba - 1 |-> i]
        /\ arena[tail] = lba /\ lba # Torn
    BY <1>2, LiveSlots
       DEF WriteChunk, IInv, TypeOK, InvRing, InvSlots, InvDisc, Owed, Torn
  <2>2. lba' = lba + slot_nsec[tail]
    BY <1>2 DEF WriteChunk
  <2>3. disc' = [i \in 0 .. lba' - 1 |-> IF i < lba THEN disc[i] ELSE lba + (i - lba)]
    BY <1>2, <2>1, <2>2 DEF WriteChunk
  <2>4. \A i \in 0 .. lba' - 1 : (IF i < lba THEN disc[i] ELSE lba + (i - lba)) = i
    BY <2>1, <2>2
  <2> QED
    BY <2>3, <2>4 DEF InvDisc
<1> QED
  <2>1. CASE Fill
    BY <2>1, <1>1
       DEF Fill, FillWait, FillCancelled, FillClaim, FillNextSegment, FillEndOfStream,
           FillReadBegin, FillReadOk, FillReadError, FillPublish
  <2>2. CASE Burn
    BY <2>2, <1>1, <1>2
       DEF Burn, Start, StartFails, PrefillWait, PrefillReady, PrefillReturn, PopEnter,
           PopWait, PopDrained, PopTake, Starved, WriteFails, Release, Close, Stop, Join
  <2>3. CASE SpuriousWakeup \/ Terminated \/ UNCHANGED vars
    BY <2>3, <1>1 DEF SpuriousWakeup, Terminated, vars
  <2> QED
    BY <2>1, <2>2, <2>3 DEF Next

\* An error is passed on only from an empty ring (fifo.c, adsc_wfifo_pop).
LEMMA ReadErrorStep ==
  ASSUME IInv, [Next]_vars
  PROVE  ReadErrorIsLast'
<1> USE DEF ring, flags, reports, place, burn
<1>0. InvFlags /\ InvSlots /\ ReadErrorIsLast /\ producer_rc \in {"ok", "io"} /\ count \in 0 .. nslots
  BY DEF IInv, TypeOK
<1>1. CASE ret' # "read"
  BY <1>1 DEF ReadErrorIsLast
<1>2. CASE ret = "read" /\ UNCHANGED <<producer_done, count, si, done_in_seg, lba, ret>>
  BY <1>0, <1>2 DEF ReadErrorIsLast, InvFlags
<1>3. CASE PopDrained
  <2>1. CASE producer_rc = "ok"
    BY <1>0, <1>3, <2>1, <1>1 DEF PopDrained, InvFlags
  <2>2. CASE producer_rc # "ok"
    <3>1. producer_done /\ count = 0 /\ si <= NSeg /\ pp = "exit" /\ bc = "pop_test"
      BY <1>0, <1>3, <2>2 DEF PopDrained, Drained, InvFlags
    <3>2. lba = Pos
      BY <1>0, <3>1 DEF InvSlots, Owed, Published
    <3> QED
      BY <1>3, <3>1, <3>2 DEF PopDrained, ReadErrorIsLast, Pos
  <2> QED
    BY <2>1, <2>2
<1>4. CASE ret = "read"
  <2>1. producer_done /\ pp = "exit" /\ count = 0 /\ bc \in {"stop", "join", "ended"}
    BY <1>0, <1>4 DEF ReadErrorIsLast, InvFlags
  <2>2. CASE Fill
    BY <2>1, <2>2
       DEF Fill, FillWait, FillCancelled, FillClaim, FillNextSegment, FillEndOfStream,
           FillReadBegin, FillReadOk, FillReadError, FillPublish
  <2>3. CASE Burn
    BY <2>1, <2>3, <1>2, <1>4
       DEF Burn, Start, StartFails, PrefillWait, PrefillReady, PrefillReturn, PopEnter,
           PopWait, PopDrained, PopTake, Starved, WriteChunk, WriteFails, Release,
           Close, Stop, Join
  <2>4. CASE SpuriousWakeup \/ Terminated \/ UNCHANGED vars
    BY <2>4, <1>2, <1>4 DEF SpuriousWakeup, Terminated, vars
  <2> QED
    BY <2>2, <2>3, <2>4 DEF Next
<1>5. CASE ret # "read"
  <2>1. CASE Fill
    BY <2>1, <1>1, <1>5
       DEF Fill, FillWait, FillCancelled, FillClaim, FillNextSegment, FillEndOfStream,
           FillReadBegin, FillReadOk, FillReadError, FillPublish
  <2>2. CASE Join
    BY <2>2, <1>0, <1>1, <1>5 DEF Join, InvFlags, Finished
  <2>3. CASE Burn /\ ~Join
    BY <2>3, <1>1, <1>3, <1>5
       DEF Burn, Start, StartFails, PrefillWait, PrefillReady, PrefillReturn, PopEnter,
           PopWait, PopTake, Starved, WriteChunk, WriteFails, Release, Close, Stop
  <2>4. CASE SpuriousWakeup \/ Terminated \/ UNCHANGED vars
    BY <2>4, <1>1, <1>5 DEF SpuriousWakeup, Terminated, vars
  <2> QED
    BY <2>1, <2>2, <2>3, <2>4 DEF Next
<1> QED
  BY <1>4, <1>5

\* The invariant is inductive.
LEMMA NextInv == IInv /\ [Next]_vars => IInv'
<1> SUFFICES ASSUME IInv, [Next]_vars PROVE IInv'
  OBVIOUS
<1> QED
  BY TypeStep, PlaceStep, RingStep, SlotsStep, FlagsStep, DiscStep, ReadErrorStep DEF IInv

------------------------------------------------------------------------------
(* What follows from it.                                                   *)

\* The two threads, the ring and the disc agree in the way IInv says, whatever
\* the source, the chunk and the ring sizes (fifo.c with its caller in burn.c).
THEOREM SpecInv == Spec => []IInv
  BY InitInv, NextInv, PTL DEF Spec

\* Every variable keeps its type; count never leaves the ring's bounds.
THEOREM SpecTypeOK == Spec => []TypeOK
<1>1. IInv => TypeOK
  BY DEF IInv
<1> QED
  BY <1>1, SpecInv, PTL

\* From the end of the stream on, a burn that has not failed has sent it all.
LEMMA EndedWellIsWhole ==
  ASSUME IInv, bc \in {"eos", "stop", "join", "ended"}, ret = "ok"
  PROVE  lba = Total
<1>1. Finished /\ pp = "exit" /\ si > NSeg
  BY DEF IInv, InvFlags, Finished
<1>2. si = NSeg + 1 /\ done_in_seg = 0
  BY <1>1, SegAssumption DEF IInv, TypeOK, InvPlace
<1>3. Published = Total
  BY <1>1, <1>2, SegFacts DEF Published, Pos, Total
<1>4. lba = Published
  BY <1>1 DEF IInv, InvSlots, Owed, Finished
<1> QED
  BY <1>3, <1>4

\* What pop hands out is the next stretch of the source, out of the producer's
\* reach (fifo.c, adsc_wfifo_pop and adsc_wfifo_release).
THEOREM SpecHandedOutIntact == Spec => []HandedOutIntact
<1>1. IInv => HandedOutIntact
  <2> SUFFICES ASSUME IInv, bc = "hold"
               PROVE  /\ count > 0 /\ arena[tail] = lba /\ slot_nsec[tail] > 0
                      /\ pp \in {"fill", "pread", "publish"} => head # tail
    BY DEF HandedOutIntact
  <2>1. count > 0 /\ count \in 0 .. nslots /\ 0 \in 0 .. count - 1
    BY RingHasRoom DEF IInv, TypeOK, InvRing
  <2>2. At(0) = tail /\ slot_nsec[tail] \in 1 .. sectors_per_slot
    BY <2>1, LiveSlots DEF IInv, InvSlots
  <2>3. arena[tail] = lba
    BY <2>1 DEF IInv, InvSlots, Owed
  <2>4. pp \in {"fill", "pread", "publish"} => head # tail
    BY <2>1, <2>2, LiveSlots DEF IInv, InvRing
  <2> QED
    BY <2>1, <2>2, <2>3, <2>4, SizeAssumption
<1> QED
  BY <1>1, SpecInv, PTL

\* A burn that ends well has every sector of the source at its own address
\* (adsc_write_run returning ACCUDISC_OK).
THEOREM SpecCompleteOnSuccess == Spec => []CompleteOnSuccess
<1>1. IInv => CompleteOnSuccess
  BY EndedWellIsWhole DEF CompleteOnSuccess, IInv, InvDisc
<1> QED
  BY <1>1, SpecInv, PTL

\* An error of the producer is reported only after all it read before (fifo.c,
\* adsc_wfifo_pop).
THEOREM SpecReadErrorIsLast == Spec => []ReadErrorIsLast
<1>1. IInv => ReadErrorIsLast
  BY DEF IInv
<1> QED
  BY <1>1, SpecInv, PTL

\* The opening pop is never scored as a starvation (fifo.c, adsc_wfifo_prefill).
THEOREM SpecNoStarvationAtSectorZero == Spec => []NoStarvationAtSectorZero
<1>1. IInv => NoStarvationAtSectorZero
  BY DEF IInv, InvFlags, NoStarvationAtSectorZero
<1> QED
  BY <1>1, SpecInv, PTL

\* A join that nobody cancelled waits for a thread already on its way out
\* (fifo.c, adsc_wfifo_stop).
THEOREM SpecStopWithoutCancelIsSafe == Spec => []StopWithoutCancelIsSafe
<1>1. IInv => StopWithoutCancelIsSafe
  BY DEF IInv, InvFlags, StopWithoutCancelIsSafe, Finished
<1> QED
  BY <1>1, SpecInv, PTL

\* The ring outlives both its threads (fifo.c, adsc_wfifo_stop).
THEOREM SpecNoUseAfterStop == Spec => []NoUseAfterStop
<1>1. IInv => NoUseAfterStop
  BY DEF IInv, InvFlags, NoUseAfterStop
<1> QED
  BY <1>1, SpecInv, PTL

\* A published slot is left alone until it is released (fifo.c, fill).
THEOREM SpecSlotsStable == Spec => SlotsStable
<1> DEFINE Kept == \A s \in Slot : Live(s) => arena'[s] = arena[s] /\ slot_nsec'[s] = slot_nsec[s]
<1>1. IInv /\ [Next]_vars => [Kept]_vars
  <2> SUFFICES ASSUME IInv, [Next]_vars PROVE Kept
    OBVIOUS
  <2> USE DEF ring, flags, reports, place, burn
  <2>1. CASE UNCHANGED <<arena, slot_nsec>>
    BY <2>1
  <2>2. CASE FillReadBegin \/ FillReadOk \/ FillPublish
    <3>1. count < nslots /\ head \in Slot
      BY <2>2 DEF FillReadBegin, FillReadOk, FillPublish, IInv, InvRing, TypeOK
    <3>2. \A s \in Slot : s # head => arena'[s] = arena[s] /\ slot_nsec'[s] = slot_nsec[s]
      BY <2>2 DEF FillReadBegin, FillReadOk, FillPublish, IInv, TypeOK
    <3>3. \A s \in Slot : Live(s) => s # head
      BY <3>1, LiveSlots DEF IInv, Live
    <3> QED
      BY <3>2, <3>3
  <2>3. CASE Fill
    BY <2>1, <2>2, <2>3
       DEF Fill, FillWait, FillCancelled, FillClaim, FillNextSegment, FillEndOfStream,
           FillReadError
  <2>4. CASE Burn
    BY <2>1, <2>4
       DEF Burn, Start, StartFails, PrefillWait, PrefillReady, PrefillReturn, PopEnter,
           PopWait, PopDrained, PopTake, Starved, WriteChunk, WriteFails, Release,
           Close, Stop, Join
  <2>5. CASE SpuriousWakeup \/ Terminated \/ UNCHANGED vars
    BY <2>1, <2>5 DEF SpuriousWakeup, Terminated, vars
  <2> QED
    BY <2>3, <2>4, <2>5 DEF Next
<1> QED
  BY <1>1, SpecInv, PTL DEF Spec, SlotsStable

------------------------------------------------------------------------------
(* The FIFO implements AudioStream.                                        *)

\* Before a chunk is written it lies within the source.
LEMMA ChunkWithinSource ==
  ASSUME IInv, bc = "hold"
  PROVE  /\ slot_nsec[tail] \in 1 .. sectors_per_slot
         /\ lba + slot_nsec[tail] <= Total
<1>1. TypeOK /\ InvRing /\ InvSlots /\ InvPlace /\ count > 0 /\ 0 \in 0 .. count - 1
  BY RingHasRoom DEF IInv, TypeOK, InvRing
<1>2. /\ At(0) = tail /\ slot_nsec[tail] \in 1 .. sectors_per_slot
      /\ arena[tail] = lba /\ lba + slot_nsec[tail] <= Published
  BY <1>1, LiveSlots DEF InvSlots, Owed
<1>3. Published <= Pos
  BY <1>1, SizeAssumption, SegAssumption, SegFacts, SMTT(40) DEF TypeOK, InvPlace, Published, Pos
<1>4. Pos <= Total
  <2>1. si \in 1 .. NSeg + 1 /\ NSeg \in Nat
    BY <1>1, SegAssumption DEF TypeOK
  <2>2. CASE si <= NSeg
    <3>1. si \in 1 .. NSeg /\ si + 1 \in 1 .. NSeg + 1
      BY <2>1, <2>2
    <3>2. /\ SegStart[si] \in Nat /\ SegLen(si) \in Nat
          /\ SegStart[si] + SegLen(si) <= Total
      BY <3>1, <2>1, SegFacts
    <3> QED
      BY <1>1, <2>2, <3>2, SegFacts DEF InvPlace, Pos, TypeOK
  <2>3. CASE si > NSeg
    BY <1>1, <2>1, <2>3, SegFacts DEF InvPlace, Pos
  <2> QED
    BY <2>1, <2>2, <2>3
<1>5. Published \in Int /\ Pos \in Int /\ Total \in Int /\ lba \in Int
  BY <1>1, SegFacts, SegAssumption, SizeAssumption
     DEF TypeOK, InvPlace, Published, Pos
<1> QED
  BY <1>2, <1>3, <1>4, <1>5, SizeAssumption

\* A step of the FIFO is a step of the stream, or none of its business.
LEMMA StreamStep ==
  ASSUME IInv, [Next]_vars
  PROVE  [Stream!Next]_Stream!streamVars
<1> USE DEF ring, flags, reports, place, burn, Stream!streamVars
<1>0. InvFlags /\ TypeOK
  BY DEF IInv
<1>1. CASE UNCHANGED <<lba, disc, bc, ret>>
  BY <1>1 DEF status
<1>2. CASE UNCHANGED <<lba, disc>> /\ bc # "ended" /\ bc' # "ended"
  BY <1>2 DEF status
<1>3. CASE WriteChunk
  <2>1. /\ bc = "hold" /\ bc' = "release" /\ lba' = lba + slot_nsec[tail]
    BY <1>3 DEF WriteChunk
  <2>2. slot_nsec[tail] \in 1 .. sectors_per_slot /\ lba' <= Total
    BY <2>1, ChunkWithinSource
  <2>3. disc' = Stream!Laid(lba + slot_nsec[tail])
    BY <2>1, DiscStep DEF InvDisc, Stream!Laid
  <2>4. status = "running" /\ status' = "running"
    BY <2>1 DEF status
  <2> QED
    BY <2>1, <2>2, <2>3, <2>4 DEF Stream!Next, Stream!Send
<1>4. CASE StartFails
  <2>1. status = "running" /\ status' = "failed" /\ UNCHANGED <<lba, disc>>
    BY <1>4 DEF StartFails, status
  <2> QED
    BY <2>1 DEF Stream!Next, Stream!Fail
<1>5. CASE Join
  <2>1. bc = "join" /\ bc' = "ended" /\ status = "running" /\ UNCHANGED <<lba, disc>>
    BY <1>5 DEF Join, status
  <2>2. CASE ret' = "ok"
    <3>1. ret = "ok"
      BY <1>5, <2>2 DEF Join
    <3>2. lba = Total /\ status' = "complete"
      BY <2>1, <2>2, <3>1, EndedWellIsWhole DEF status
    <3> QED
      BY <2>1, <3>2 DEF Stream!Next, Stream!Complete
  <2>3. CASE ret' # "ok"
    BY <2>1, <2>3 DEF status, Stream!Next, Stream!Fail
  <2> QED
    BY <2>2, <2>3
<1> QED
  <2>1. CASE Fill
    BY <2>1, <1>0, <1>1, <1>2
       DEF Fill, FillWait, FillCancelled, FillClaim, FillNextSegment, FillEndOfStream,
           FillReadBegin, FillReadOk, FillReadError, FillPublish, SignalNotEmpty, InvFlags
  <2>2. CASE Burn
    BY <2>2, <1>1, <1>2, <1>3, <1>4, <1>5
       DEF Burn, Start, PrefillWait, PrefillReady, PrefillReturn, PopEnter,
           PopWait, PopDrained, PopTake, Starved, WriteFails, Release, Close, Stop
  <2>3. CASE SpuriousWakeup \/ Terminated \/ UNCHANGED vars
    BY <2>3, <1>1, <1>2 DEF SpuriousWakeup, Terminated, vars, SignalNotFull, SignalNotEmpty
  <2> QED
    BY <2>1, <2>2, <2>3 DEF Next

\* Whatever the interleaving, the drive sees the source in order, whole and
\* once, or the burn is reported failed: fifo.c with burn.c implement
\* AudioStream.
THEOREM SpecImplementsStream == Spec => ImplementsStream
<1>1. Init => Stream!Init
  BY DEF Init, Stream!Init, Stream!Laid, status
<1>2. IInv /\ [Next]_vars => [Stream!Next]_Stream!streamVars
  BY StreamStep
<1> QED
  BY <1>1, <1>2, SpecInv, PTL DEF Spec, ImplementsStream, Stream!Spec

==============================================================================
