-------------------------- MODULE ReadEngine_proofs --------------------------
(***************************************************************************)
(* Proofs about the chunk loop of accudisc_read_cdda, for any request, any *)
(* drive and any sizes: that the sink is given every sector once and in    *)
(* order although each chunk is held back for one iteration, that a        *)
(* slipped copy is never accepted on its own word, that a sector labelled  *)
(* OK was never contradicted by another transfer of it, and that a chunk a *)
(* seam or C2 condemns is never delivered on the word of one transfer.     *)
(***************************************************************************)
EXTENDS ReadEngine, FiniteSetTheorems, SequenceTheorems, TLAPS

ChunkFields == {"data", "prim", "alt", "recov", "susp", "witnessed"}
JobFields == {"s", "seen", "shifted", "anchoring", "tries", "held"}

\* A copy is held only while anchoring, and comes from a context read already spent.
JobOK(j) ==
  /\ DOMAIN j = JobFields /\ j.tries \in Nat
  /\ ~j.anchoring => j.held = Unread
  /\ j.held # Unread => j.tries >= 1

\* The two slots and the job in hand are what they were declared to be.
Shape ==
  /\ DOMAIN slot = {"cur", "pend"}
  /\ DOMAIN slot["cur"] = ChunkFields /\ DOMAIN slot["pend"] = ChunkFields
  /\ who \in {"cur", "pend"}
  /\ JobOK(job)

------------------------------------------------------------------------------
(* What the steps do to the shape.                                         *)

LEMMA EmptyFields == DOMAIN Empty = ChunkFields /\ Sectors(Empty) = {}
  BY DEF Empty, ChunkFields, Sectors

\* No job is a job in order.
LEMMA NoJobOK == JobOK(NoJob)
  BY DEF NoJob, JobFields, JobOK

\* Replacing or suspecting a sector leaves both chunks with the sectors they had.
LEMMA ReplacedKeeps ==
  ASSUME DOMAIN slot = {"cur", "pend"},
         DOMAIN slot["cur"] = ChunkFields, DOMAIN slot["pend"] = ChunkFields,
         NEW w \in {"cur", "pend"}, NEW s, NEW c,
         NEW new, new = Replaced(w, s, c)
  PROVE  /\ DOMAIN new = {"cur", "pend"}
         /\ DOMAIN new["cur"] = ChunkFields /\ DOMAIN new["pend"] = ChunkFields
         /\ Sectors(new["cur"]) = Sectors(slot["cur"])
         /\ Sectors(new["pend"]) = Sectors(slot["pend"])
  BY DEF Replaced, ChunkFields, Sectors

\* So does suspecting one.
LEMMA SuspectKeeps ==
  ASSUME DOMAIN slot = {"cur", "pend"},
         DOMAIN slot["cur"] = ChunkFields, DOMAIN slot["pend"] = ChunkFields,
         NEW w \in {"cur", "pend"}, NEW s,
         NEW new, new = Suspect(w, s)
  PROVE  /\ DOMAIN new = {"cur", "pend"}
         /\ DOMAIN new["cur"] = ChunkFields /\ DOMAIN new["pend"] = ChunkFields
         /\ Sectors(new["cur"]) = Sectors(slot["cur"])
         /\ Sectors(new["pend"]) = Sectors(slot["pend"])
         /\ s \in new[w].susp
  BY DEF Suspect, ChunkFields, Sectors

\* A sector that was replaced has the copy it was given.
LEMMA ReplacedValue ==
  ASSUME DOMAIN slot = {"cur", "pend"},
         DOMAIN slot["cur"] = ChunkFields, DOMAIN slot["pend"] = ChunkFields,
         NEW w \in {"cur", "pend"}, NEW s, NEW c, s \in Sectors(slot[w]),
         NEW new, new = Replaced(w, s, c)
  PROVE  new[w].data[s] = c
  BY DEF Replaced, ChunkFields, Sectors

------------------------------------------------------------------------------
(* Where the chunks are.                                                   *)

Between == {"qpos", "seam", "c2", "verify", "widen", "deliver"}

\* The chunk held back is exactly what lies between what was delivered and lba, and
\* the chunk in hand, while there is one, starts at lba and fits the request.
Places ==
  /\ next \in 0 .. Count /\ Len(out) \in 0 .. next /\ next <= Len(out) + Chunk
  /\ Sectors(slot["pend"]) = Len(out) .. next - 1
  /\ at \in Between =>
       \E n \in 1 .. Chunk : /\ next + n <= Count
                             /\ Sectors(slot["cur"]) = next .. next + n - 1

\* What was delivered, and what the status map says of it.
Delivered ==
  /\ out \in Seq(Nat)
  /\ \A i \in 1 .. Len(out) : out[i] = i - 1
  /\ DOMAIN map = Lbas
  /\ \A l \in Lbas : map[l] # "pending" <=> l < Len(out)
  /\ at = "done" /\ rc = "ok" => Len(out) = Count

IInv == Shape /\ Places /\ Delivered

\* Most steps leave both chunks' sectors, lba and the delivery alone.
LEMMA Quiet ==
  ASSUME IInv, Shape',
         at \in Between, at' \in Between,
         Sectors(slot'["cur"]) = Sectors(slot["cur"]),
         Sectors(slot'["pend"]) = Sectors(slot["pend"]),
         UNCHANGED <<next, map, out>>
  PROVE  IInv'
<1>1. Places'
  BY DEF IInv, Places, Sectors
<1>2. Delivered'
  <2>1. at' # "done"
    BY DEF Between
  <2>  QED
    BY <2>1 DEF IInv, Delivered, Lbas
<1>  QED
  BY <1>1, <1>2 DEF IInv

\* A run of consecutive sectors begins with its least one and has as many as it spans.
LEMMA Run ==
  ASSUME NEW a \in Int, NEW b \in Int, a <= b
  PROVE  Min(a .. b) = a /\ Cardinality(a .. b) = b - a + 1
<1>1. Cardinality(a .. b) = b - a + 1
  BY FS_Interval
<1>2. a \in a .. b /\ \A y \in a .. b : a <= y
  OBVIOUS
<1>3. \A x \in a .. b : (\A y \in a .. b : x <= y) => x = a
  BY <1>2
<1>4. Min(a .. b) = a
  BY <1>2, <1>3 DEF Min
<1>  QED
  BY <1>1, <1>4

\* publish's label is never PENDING.
LEMMA LabelNotPending == ASSUME NEW c, NEW s PROVE Label(c, s) # "pending"
  BY Zenon DEF Label

\* Appending the run from a to b - 1 to the first a sectors gives the first b.
LEMMA AppendRun ==
  ASSUME NEW s \in Seq(Nat), NEW a \in Nat, NEW b \in Nat, a <= b, Len(s) = a,
         \A i \in 1 .. a : s[i] = i - 1,
         NEW more, more = [i \in 1 .. b - a |-> a + i - 1]
  PROVE  /\ s \o more \in Seq(Nat) /\ Len(s \o more) = b
         /\ \A i \in 1 .. b : (s \o more)[i] = i - 1
<1>1. b - a \in Nat /\ \A i \in 1 .. b - a : a + i - 1 \in Nat
  OBVIOUS
<1>2. more \in Seq(Nat) /\ Len(more) = b - a
  BY <1>1
<1>3. /\ s \o more \in Seq(Nat) /\ Len(s \o more) = a + (b - a)
      /\ \A i \in 1 .. a + (b - a) :
           (s \o more)[i] = IF i <= a THEN s[i] ELSE more[i - a]
  <2>1. /\ s \o more \in Seq(Nat) /\ Len(s \o more) = Len(s) + Len(more)
        /\ \A i \in 1 .. Len(s) + Len(more) :
             (s \o more)[i] = IF i <= Len(s) THEN s[i] ELSE more[i - Len(s)]
    BY <1>2, ConcatProperties, ZenonT(40)
  <2>  QED
    BY <1>2, <2>1
<1>4. ASSUME NEW i \in 1 .. b PROVE (s \o more)[i] = i - 1
  <2>1. a + (b - a) = b
    OBVIOUS
  <2>2. CASE i <= a
    BY <1>3, <2>1, <2>2
  <2>3. CASE ~(i <= a)
    <3>1. i - a \in 1 .. b - a /\ a + (i - a) - 1 = i - 1
      BY <2>3
    <3>  QED
      BY <1>3, <2>1, <2>3, <3>1
  <2>  QED
    BY <2>2, <2>3
<1>5. Len(s \o more) = b
  BY <1>3
<1>  QED
  BY <1>3, <1>4, <1>5

\* Delivering the chunk held back brings the delivery up to lba.
LEMMA PublishPend ==
  ASSUME IInv, Live(slot["pend"]), Publish(slot["pend"])
  PROVE  /\ out' \in Seq(Nat) /\ Len(out') = next
         /\ \A i \in 1 .. Len(out') : out'[i] = i - 1
         /\ DOMAIN map' = Lbas
         /\ \A l \in Lbas : map'[l] # "pending" <=> l < Len(out')
<1>  DEFINE n == Len(out)
            more == [i \in 1 .. Cardinality(Sectors(slot["pend"])) |-> First(slot["pend"]) + i - 1]
<1>1. /\ n \in Nat /\ next \in Nat /\ n <= next /\ next <= Count /\ Count \in Nat
      /\ Sectors(slot["pend"]) = n .. next - 1 /\ n <= next - 1
  BY SizeAssumption DEF IInv, Places, Live
<1>5. out \in Seq(Nat) /\ out' = out \o more /\ \A i \in 1 .. n : out[i] = i - 1
  BY DEF IInv, Delivered, Publish
<1>2. Cardinality(Sectors(slot["pend"])) = next - n /\ First(slot["pend"]) = n
  <2>  HIDE DEF n
  <2>1. n \in Int /\ next - 1 \in Int /\ (next - 1) - n + 1 = next - n
    BY <1>1
  <2>2. Min(n .. next - 1) = n /\ Cardinality(n .. next - 1) = (next - 1) - n + 1
    BY <1>1, <2>1, Run
  <2>  QED
    BY <1>1, <2>1, <2>2 DEF First
<1>3. more = [i \in 1 .. next - n |-> n + i - 1]
  BY <1>2
<1>6. out' \in Seq(Nat) /\ Len(out') = next /\ \A i \in 1 .. next : out'[i] = i - 1
  <2>1. n = Len(out)
    OBVIOUS
  <2>  HIDE DEF n, more
  <2>  QED
    BY <1>1, <1>3, <1>5, <2>1, AppendRun
<1>9. map' = [l \in Lbas |-> IF l \in n .. next - 1 THEN Label(slot["pend"], l) ELSE map[l]]
  BY <1>1 DEF Publish
<1>10. \A l \in Lbas : map'[l] # "pending" <=> l < next
  <2>1. \A l \in Lbas : l \in Int /\ (map[l] # "pending" <=> l < n)
    BY DEF IInv, Delivered, Lbas
  <2>  QED
    BY <1>1, <1>9, <2>1, LabelNotPending
<1>  QED
  BY <1>6, <1>9, <1>10

------------------------------------------------------------------------------
(* The steps.                                                              *)

LEMMA InitInv == Init => IInv
<1>  SUFFICES ASSUME Init PROVE IInv
  OBVIOUS
<1>1. Shape
  BY EmptyFields, NoJobOK DEF Init, Shape
<1>2. Places
  <2>1. next = 0 /\ Len(out) = 0 /\ at \notin Between
    BY DEF Init, Between
  <2>2. Sectors(slot["pend"]) = {}
    BY EmptyFields DEF Init
  <2>3. 0 .. 0 - 1 = {}
    OBVIOUS
  <2>  QED
    BY SizeAssumption, <2>1, <2>2, <2>3 DEF Places
<1>3. Delivered
  <2>1. out = <<>> /\ Len(out) = 0 /\ at # "done" /\ map = [l \in Lbas |-> "pending"]
    BY DEF Init
  <2>2. \A l \in Lbas : ~(l < 0)
    BY DEF Lbas
  <2>  QED
    BY <2>1, <2>2 DEF Delivered
<1>  QED
  BY <1>1, <1>2, <1>3 DEF IInv

\* The sectors of a chunk being read are those of the transfer that fall inside it.
LEMMA ReadChunkInv == IInv /\ ReadChunk => IInv'
<1>  SUFFICES ASSUME IInv, ReadChunk PROVE IInv'
  OBVIOUS
<1>1. /\ next \in Nat /\ next < Count /\ Count \in Nat /\ Chunk \in Nat /\ Chunk >= 1
  BY SizeAssumption DEF IInv, Places, ReadChunk
<1>2. ChunkLen \in 1 .. Chunk /\ next + ChunkLen <= Count
  <2>1. PICK m \in {Count - next, Chunk} : \A y \in {Count - next, Chunk} : m <= y
    <3>1. CASE Count - next <= Chunk
      BY <1>1, <3>1
    <3>2. CASE ~(Count - next <= Chunk)
      BY <1>1, <3>2
    <3>  QED
      BY <3>1, <3>2
  <2>2. ChunkLen \in {Count - next, Chunk} /\ ChunkLen <= Count - next /\ ChunkLen <= Chunk
    BY <2>1 DEF ChunkLen, Min
  <2>  QED
    BY <1>1, <2>2
<1>3. PICK d : /\ DOMAIN d = next .. next + ChunkLen - 1
               /\ slot' = [slot EXCEPT !["cur"] = [Empty EXCEPT !.data = d, !.prim = d]]
  <2>1. PICK f : slot' = [slot EXCEPT !["cur"] =
                    [Empty EXCEPT !.data = Restrict(f, next .. next + ChunkLen - 1),
                                  !.prim = Restrict(f, next .. next + ChunkLen - 1)]]
    BY DEF ReadChunk
  <2>  QED
    BY <2>1 DEF Restrict
<1>4. /\ DOMAIN slot' = {"cur", "pend"} /\ slot'["pend"] = slot["pend"]
      /\ DOMAIN slot'["cur"] = ChunkFields
      /\ Sectors(slot'["cur"]) = next .. next + ChunkLen - 1
  BY <1>3, EmptyFields DEF IInv, Shape, ChunkFields, Sectors
<1>5. Shape'
  BY <1>4 DEF IInv, Shape, ReadChunk
<1>6. Places'
  BY <1>2, <1>4 DEF IInv, Places, ReadChunk
<1>7. Delivered'
  BY DEF IInv, Delivered, ReadChunk, options, Lbas
<1>  QED
  BY <1>5, <1>6, <1>7 DEF IInv

\* A sector settled, one way or another, keeps the shape and the places.
LEMMA SettledInv ==
  ASSUME IInv, at \in Between, at' = at, UNCHANGED <<who, next, map, out>>,
         NEW w \in {"cur", "pend"}, NEW s, NEW c,
         slot' \in {slot, Replaced(w, s, c), Suspect(w, s)},
         JobOK(job')
  PROVE  IInv'
<1>1. /\ DOMAIN slot' = {"cur", "pend"}
      /\ DOMAIN slot'["cur"] = ChunkFields /\ DOMAIN slot'["pend"] = ChunkFields
      /\ Sectors(slot'["cur"]) = Sectors(slot["cur"])
      /\ Sectors(slot'["pend"]) = Sectors(slot["pend"])
  <2>1. CASE slot' = slot
    BY <2>1 DEF IInv, Shape
  <2>2. CASE slot' = Replaced(w, s, c)
    BY <2>2, ReplacedKeeps DEF IInv, Shape
  <2>3. CASE slot' = Suspect(w, s)
    BY <2>3, SuspectKeeps DEF IInv, Shape
  <2>  QED
    BY <2>1, <2>2, <2>3
<1>2. Shape'
  BY <1>1 DEF IInv, Shape
<1>  QED
  BY <1>1, <1>2, Quiet

\* The steps that settle sectors.
LEMMA QposRescueInv == IInv /\ QposRescue => IInv'
<1>  SUFFICES ASSUME IInv, QposRescue PROVE IInv'
  OBVIOUS
<1>1. /\ at \in Between /\ at' = at /\ UNCHANGED <<who, next, map, out>> /\ job' = job
  BY DEF QposRescue, delivery, Between
<1>2. \E s, c : slot' \in {slot, Replaced("cur", s, c), Suspect("cur", s)}
  BY Zenon DEF QposRescue
<1>3. JobOK(job')
  BY <1>1 DEF IInv, Shape
<1>  QED
  BY <1>1, <1>2, <1>3, SettledInv

\* What consensus and anchor_position make of the job in hand.
LEMMA JobSteps ==
  ASSUME JobOK(job)
  PROVE  /\ JobOK([job EXCEPT !.tries = @ + 1])
         /\ \A seen, shifted :
              JobOK([job EXCEPT !.tries = @ + 1, !.seen = seen, !.shifted = shifted])
         /\ \A held : job.anchoring => JobOK([[job EXCEPT !.tries = @ + 1] EXCEPT !.held = held])
         /\ \A seen : ~job.anchoring => JobOK(Anchoring(seen))
<1>1. /\ DOMAIN job = JobFields /\ job.tries \in Nat /\ job.tries + 1 \in Nat
      /\ job.tries + 1 >= 1
  BY DEF JobOK
<1>2. JobOK([job EXCEPT !.tries = @ + 1])
  BY <1>1 DEF JobOK, JobFields
<1>3. ASSUME NEW seen, NEW shifted
      PROVE  JobOK([job EXCEPT !.tries = @ + 1, !.seen = seen, !.shifted = shifted])
  BY <1>1 DEF JobOK, JobFields
<1>4. ASSUME NEW held, job.anchoring
      PROVE  JobOK([[job EXCEPT !.tries = @ + 1] EXCEPT !.held = held])
  BY <1>1, <1>4 DEF JobOK, JobFields
<1>5. ASSUME NEW seen, ~job.anchoring PROVE JobOK(Anchoring(seen))
  BY <1>1, <1>5 DEF JobOK, JobFields, Anchoring
<1>  QED
  BY <1>2, <1>3, <1>4, <1>5

\* consensus and anchor_position end a job or go on with it.
LEMMA JobInv ==
  ASSUME IInv, Reread \/ RereadsSpent \/ Anchor \/ AnchorSpent
  PROVE  IInv'
<1>1. /\ at \in Between /\ at' = at /\ UNCHANGED <<who, next, map, out>>
      /\ who \in {"cur", "pend"} /\ JobOK(job)
  BY DEF Reread, RereadsSpent, Anchor, AnchorSpent, Settling, delivery, Between, IInv, Shape
<1>  DEFINE Small == \E s, c : slot' \in {slot, Replaced(who, s, c), Suspect(who, s)}
<1>2. ASSUME NEW new, JobOK(new), Continue(new) PROVE JobOK(job') /\ Small
  BY <1>2 DEF Continue
<1>3. ASSUME NEW s, NEW c, Settled(Replaced(who, s, c)) PROVE JobOK(job') /\ Small
  BY <1>3, NoJobOK DEF Settled
<1>4. ASSUME NEW s, Settled(Suspect(who, s)) PROVE JobOK(job') /\ Small
  BY <1>4, NoJobOK DEF Settled
<1>  HIDE DEF Small
<1>5. CASE Reread
  <2>1. \/ Continue([job EXCEPT !.tries = @ + 1])
        \/ \E c : Settled(Replaced(who, job.s, c))
        \/ \E seen : Continue(Anchoring(seen))
        \/ \E seen, shifted :
             Continue([job EXCEPT !.tries = @ + 1, !.seen = seen, !.shifted = shifted])
    BY <1>5, Zenon DEF Reread
  <2>2. ~job.anchoring
    BY <1>5 DEF Reread
  <2>3. JobOK(job') /\ Small
    <3>1. CASE Continue([job EXCEPT !.tries = @ + 1])
      BY <1>1, <1>2, <3>1, JobSteps
    <3>2. CASE \E c : Settled(Replaced(who, job.s, c))
      BY <1>3, <3>2
    <3>3. CASE \E seen : Continue(Anchoring(seen))
      BY <1>1, <1>2, <2>2, <3>3, JobSteps, Zenon
    <3>4. CASE \E seen, shifted :
                 Continue([job EXCEPT !.tries = @ + 1, !.seen = seen, !.shifted = shifted])
      BY <1>1, <1>2, <3>4, JobSteps, Zenon
    <3>  QED
      BY <2>1, <3>1, <3>2, <3>3, <3>4
  <2>  QED
    BY <1>1, <2>3, SettledInv DEF Small
<1>6. CASE RereadsSpent
  <2>1. /\ ~job.anchoring
        /\ Continue(Anchoring(job.seen)) \/ Settled(Suspect(who, job.s))
    BY <1>6 DEF RereadsSpent
  <2>2. JobOK(job') /\ Small
    BY <1>1, <1>2, <1>4, <2>1, JobSteps, Zenon
  <2>  QED
    BY <1>1, <2>2, SettledInv DEF Small
<1>7. CASE Anchor
  <2>1. /\ job.anchoring
        /\ \/ Continue([job EXCEPT !.tries = @ + 1])
           \/ \E held : Continue([[job EXCEPT !.tries = @ + 1] EXCEPT !.held = held])
           \/ Settled(Replaced(who, job.s, job.held))
           \/ Settled(Suspect(who, job.s))
    BY <1>7, Zenon DEF Anchor
  <2>2. JobOK(job') /\ Small
    <3>1. CASE Continue([job EXCEPT !.tries = @ + 1])
      BY <1>1, <1>2, <3>1, JobSteps
    <3>2. CASE \E held : Continue([[job EXCEPT !.tries = @ + 1] EXCEPT !.held = held])
      BY <1>1, <1>2, <2>1, <3>2, JobSteps, Zenon
    <3>3. CASE Settled(Replaced(who, job.s, job.held))
      BY <1>3, <3>3
    <3>4. CASE Settled(Suspect(who, job.s))
      BY <1>4, <3>4
    <3>  QED
      BY <2>1, <3>1, <3>2, <3>3, <3>4
  <2>  QED
    BY <1>1, <2>2, SettledInv DEF Small
<1>8. CASE AnchorSpent
  <2>1. Settled(Suspect(who, job.s))
    BY <1>8 DEF AnchorSpent
  <2>2. JobOK(job') /\ Small
    BY <1>4, <2>1
  <2>  QED
    BY <1>1, <2>2, SettledInv DEF Small
<1>  QED
  BY <1>5, <1>6, <1>7, <1>8

\* A sector's copy in cur replaced without a mark, as c2_rescue does.
LEMMA OverwriteKeeps ==
  ASSUME DOMAIN slot = {"cur", "pend"},
         DOMAIN slot["cur"] = ChunkFields, DOMAIN slot["pend"] = ChunkFields,
         NEW s, NEW c, NEW new, new = [slot EXCEPT !["cur"].data[s] = c]
  PROVE  /\ DOMAIN new = {"cur", "pend"}
         /\ DOMAIN new["cur"] = ChunkFields /\ DOMAIN new["pend"] = ChunkFields
         /\ Sectors(new["cur"]) = Sectors(slot["cur"])
         /\ Sectors(new["pend"]) = Sectors(slot["pend"])
  BY DEF ChunkFields, Sectors

\* A C2 reread keeps the invariant.
LEMMA C2RescueInv == IInv /\ C2Rescue => IInv'
<1>  SUFFICES ASSUME IInv, C2Rescue PROVE IInv'
  OBVIOUS
<1>1. /\ at \in Between /\ at' = at /\ UNCHANGED <<who, next, map, out>>
      /\ JobOK(job) /\ "cur" \in {"cur", "pend"}
  BY DEF C2Rescue, delivery, Between, IInv, Shape
<1>2. job' \in {[job EXCEPT !.tries = @ + 1], NoJob}
  BY DEF C2Rescue
<1>3. JobOK(job')
  BY <1>1, <1>2, JobSteps, NoJobOK
<1>4. \E s, c : slot' \in {slot, Replaced("cur", s, c), [slot EXCEPT !["cur"].data[s] = c]}
  BY Zenon DEF C2Rescue
<1>5. CASE \E s, c : slot' \in {slot, Replaced("cur", s, c), Suspect("cur", s)}
  BY <1>1, <1>3, <1>5, SettledInv
<1>6. CASE \E s, c : slot' = [slot EXCEPT !["cur"].data[s] = c]
  <2>1. /\ DOMAIN slot' = {"cur", "pend"}
        /\ DOMAIN slot'["cur"] = ChunkFields /\ DOMAIN slot'["pend"] = ChunkFields
        /\ Sectors(slot'["cur"]) = Sectors(slot["cur"])
        /\ Sectors(slot'["pend"]) = Sectors(slot["pend"])
    BY <1>6, OverwriteKeeps DEF IInv, Shape
  <2>2. Shape'
    BY <1>1, <1>3, <2>1 DEF IInv, Shape
  <2>  QED
    BY <1>1, <2>1, <2>2, Quiet
<1>  QED
  BY <1>4, <1>5, <1>6

\* consensus begins with a fresh job.
LEMMA SettleInv == IInv /\ Settle => IInv'
<1>  SUFFICES ASSUME IInv, Settle PROVE IInv'
  OBVIOUS
<1>1. /\ at \in Between /\ at' = at /\ slot' = slot /\ UNCHANGED <<who, next, map, out>>
  BY DEF Settle, Settling, delivery, Between
<1>2. PICK s, seen, shifted : job' = [NoJob EXCEPT !.s = s, !.seen = seen, !.shifted = shifted]
  BY DEF Settle
<1>3. JobOK(job')
  BY <1>2, NoJobOK DEF JobOK, JobFields, NoJob
<1>4. Shape'
  BY <1>1, <1>3 DEF IInv, Shape
<1>  QED
  BY <1>1, <1>4, Quiet

\* A second transfer is kept beside the first.
LEMMA WitnessInv ==
  ASSUME IInv, at \in Between, NEW w \in {"cur", "pend"}, NEW done, WitnessPass(w, done)
  PROVE  IInv'
<1>1. PICK f : slot' = [slot EXCEPT ![w].alt = f, ![w].witnessed = done]
  BY DEF WitnessPass
<1>2. /\ at' = at /\ who' = w /\ job' = job /\ UNCHANGED <<next, map, out>>
  BY DEF WitnessPass, delivery
<1>3. /\ DOMAIN slot' = {"cur", "pend"}
      /\ DOMAIN slot'["cur"] = ChunkFields /\ DOMAIN slot'["pend"] = ChunkFields
      /\ Sectors(slot'["cur"]) = Sectors(slot["cur"])
      /\ Sectors(slot'["pend"]) = Sectors(slot["pend"])
  BY <1>1 DEF IInv, Shape, ChunkFields, Sectors
<1>4. Shape'
  BY <1>2, <1>3 DEF IInv, Shape
<1>  QED
  BY <1>2, <1>3, <1>4, Quiet

\* The end of the verify passes keeps the invariant.
LEMMA VerifyDoneInv == IInv /\ VerifyDone => IInv'
<1>  SUFFICES ASSUME IInv, VerifyDone PROVE IInv'
  OBVIOUS
<1>1. /\ DOMAIN slot' = {"cur", "pend"}
      /\ DOMAIN slot'["cur"] = ChunkFields /\ DOMAIN slot'["pend"] = ChunkFields
      /\ Sectors(slot'["cur"]) = Sectors(slot["cur"])
      /\ Sectors(slot'["pend"]) = Sectors(slot["pend"])
  BY DEF VerifyDone, IInv, Shape, ChunkFields, Sectors
<1>2. at \in Between /\ at' \in Between /\ UNCHANGED <<who, job, next, map, out>>
  BY DEF VerifyDone, delivery, Between
<1>3. Shape'
  BY <1>1, <1>2 DEF IInv, Shape
<1>  QED
  BY <1>1, <1>2, <1>3, Quiet

\* The steps that only look at the chunks, or go from one check to the next.
LEMMA LookInv ==
  ASSUME IInv, SeamCheck \/ LatchC2 \/ C2Spent \/ C2Done \/ WidenDone
  PROVE  IInv'
<1>1. /\ slot' = slot /\ who' = who /\ job' \in {job, NoJob} /\ UNCHANGED <<next, map, out>>
      /\ at \in Between /\ at' \in Between
  BY DEF SeamCheck, LatchC2, C2Spent, C2Done, WidenDone, delivery, Between
<1>2. JobOK(job')
  BY <1>1, NoJobOK DEF IInv, Shape
<1>3. Shape'
  BY <1>1, <1>2 DEF IInv, Shape
<1>  QED
  BY <1>1, <1>3, Quiet

\* Delivering leaves nothing owed before lba.
LEMMA DeliveredToLba ==
  ASSUME IInv, at' # "done" \/ rc' # "ok" \/ next >= Count,
         \/ Live(slot["pend"]) /\ Publish(slot["pend"])
         \/ ~Live(slot["pend"]) /\ UNCHANGED <<map, out>> /\ at' # "done"
  PROVE  Delivered' /\ Len(out') = next
<1>1. next \in 0 .. Count /\ Count \in Nat
  BY SizeAssumption DEF IInv, Places
<1>2. CASE Live(slot["pend"]) /\ Publish(slot["pend"])
  <2>1. /\ out' \in Seq(Nat) /\ Len(out') = next
        /\ \A i \in 1 .. Len(out') : out'[i] = i - 1
        /\ DOMAIN map' = Lbas
        /\ \A l \in Lbas : map'[l] # "pending" <=> l < Len(out')
    BY <1>2, PublishPend
  <2>2. next >= Count => next = Count
    BY <1>1
  <2>  QED
    BY <2>1, <2>2 DEF Delivered, Lbas
<1>3. CASE ~Live(slot["pend"]) /\ UNCHANGED <<map, out>> /\ at' # "done"
  <2>1. Len(out) .. next - 1 = {} /\ Len(out) \in 0 .. next
    BY <1>3 DEF IInv, Places, Live
  <2>2. Len(out) = next
    <3>1. Len(out) # next => Len(out) \in Len(out) .. next - 1
      BY <1>1, <2>1
    <3>  QED
      BY <2>1, <3>1
  <2>  QED
    BY <1>3, <2>2 DEF IInv, Delivered, Lbas
<1>  QED
  BY <1>2, <1>3

\* Delivering a chunk and holding back the next keeps the invariant.
LEMMA DeliverInv == IInv /\ Deliver => IInv'
<1>  SUFFICES ASSUME IInv, Deliver PROVE IInv'
  OBVIOUS
<1>1. /\ slot' = [cur |-> Empty, pend |-> slot["cur"]] /\ at' = "loop"
      /\ next' = Advanced /\ UNCHANGED <<who, job>> /\ at = "deliver"
  BY DEF Deliver, NextChunk
<1>2. Delivered' /\ Len(out') = next
  BY <1>1, DeliveredToLba DEF Deliver
<1>3. PICK n \in 1 .. Chunk : /\ next + n <= Count
                              /\ Sectors(slot["cur"]) = next .. next + n - 1
  BY <1>1 DEF IInv, Places, Between
<1>4. next \in Nat /\ Count \in Nat /\ Chunk \in Nat
  BY SizeAssumption DEF IInv, Places
<1>5. next' = next + n
  <2>1. next \in Int /\ next + n - 1 \in Int /\ next <= next + n - 1
    BY <1>3, <1>4
  <2>2. Cardinality(next .. next + n - 1) = (next + n - 1) - next + 1
    BY <2>1, Run
  <2>3. (next + n - 1) - next + 1 = n
    BY <1>3, <1>4
  <2>  QED
    BY <1>1, <1>3, <2>2, <2>3 DEF Advanced
<1>6. Sectors(slot'["pend"]) = next .. next' - 1
  <2>1. slot'["pend"] = slot["cur"]
    BY <1>1
  <2>2. next' - 1 = next + n - 1
    BY <1>3, <1>4, <1>5
  <2>  QED
    BY <1>3, <2>1, <2>2
<1>7. Places'
  <2>1. at' \notin Between
    BY <1>1 DEF Between
  <2>2. next' \in 0 .. Count /\ next \in 0 .. next' /\ next' <= next + Chunk
    BY <1>3, <1>4, <1>5
  <2>  QED
    BY <1>2, <1>6, <2>1, <2>2 DEF Places, Sectors
<1>8. Shape'
  BY <1>1, EmptyFields DEF IInv, Shape
<1>  QED
  BY <1>2, <1>7, <1>8 DEF IInv

\* The last chunk, or one the sink refuses: nothing is held back any more.
LEMMA DeliverEndInv == IInv /\ (DeliverRefused \/ DeliverLast) => IInv'
<1>  SUFFICES ASSUME IInv, DeliverRefused \/ DeliverLast PROVE IInv'
  OBVIOUS
<1>1. /\ slot' = [slot EXCEPT !["pend"] = Empty] /\ at' = "done"
      /\ UNCHANGED <<who, job, next>>
      /\ Live(slot["pend"]) /\ Publish(slot["pend"])
      /\ rc' = "cancelled" \/ next >= Count
  BY DEF DeliverRefused, DeliverLast, Refused
<1>2. Delivered' /\ Len(out') = next
  BY <1>1, DeliveredToLba
<1>3. /\ DOMAIN slot' = {"cur", "pend"} /\ slot'["pend"] = Empty /\ slot'["cur"] = slot["cur"]
  BY <1>1 DEF IInv, Shape
<1>4. Shape'
  BY <1>1, <1>3, EmptyFields DEF IInv, Shape
<1>5. Places'
  <2>1. Sectors(slot'["pend"]) = {} /\ at' \notin Between
    BY <1>1, <1>3, EmptyFields DEF Between
  <2>2. next \in 0 .. Count /\ next \in 0 .. next /\ next <= next + Chunk /\ next .. next - 1 = {}
    BY SizeAssumption DEF IInv, Places
  <2>  QED
    BY <1>1, <1>2, <2>1, <2>2 DEF Places, Sectors
<1>  QED
  BY <1>2, <1>4, <1>5 DEF IInv

\* A read cancelled between chunks has delivered what it had, and is not done.
LEMMA CancelInv == IInv /\ Cancel => IInv'
<1>  SUFFICES ASSUME IInv, Cancel PROVE IInv'
  OBVIOUS
<1>1. /\ at' = "done" /\ rc' = "cancelled" /\ UNCHANGED <<slot, who, job, next, map, out>>
  BY DEF Cancel, delivery
<1>2. Shape'
  BY <1>1 DEF IInv, Shape
<1>3. Places'
  <2>1. at' \notin Between
    BY <1>1 DEF Between
  <2>  QED
    BY <1>1, <2>1 DEF IInv, Places, Sectors
<1>4. Delivered'
  BY <1>1 DEF IInv, Delivered, Lbas
<1>  QED
  BY <1>2, <1>3, <1>4 DEF IInv

\* Every step keeps the invariant.
LEMMA NextInv == IInv /\ [Next]_vars => IInv'
<1>  SUFFICES ASSUME IInv, [Next]_vars PROVE IInv'
  OBVIOUS
<1>1. CASE VerifyPass \/ WitnessPend \/ WitnessCur
  BY <1>1, WitnessInv DEF VerifyPass, WitnessPend, WitnessCur, Between
<1>2. CASE UNCHANGED vars
  <2>1. UNCHANGED <<slot, who, job, next, map, out, at, rc>>
    BY <1>2 DEF vars, delivery, options
  <2>  QED
    BY <2>1 DEF IInv, Shape, Places, Delivered, Sectors, Lbas
<1>3. CASE SeamCheck \/ LatchC2 \/ C2Spent \/ C2Done \/ WidenDone
  BY <1>3, LookInv
<1>4. CASE Reread \/ RereadsSpent \/ Anchor \/ AnchorSpent
  BY <1>4, JobInv
<1>5. CASE Cancel \/ ReadChunk \/ QposRescue \/ Settle \/ C2Rescue \/ VerifyDone
  BY <1>5, CancelInv, ReadChunkInv, QposRescueInv, SettleInv, C2RescueInv, VerifyDoneInv
<1>6. CASE Deliver \/ DeliverRefused \/ DeliverLast
  BY <1>6, DeliverInv, DeliverEndInv
<1>  QED
  BY <1>1, <1>2, <1>3, <1>4, <1>5, <1>6 DEF Next, Terminated

\* The invariant holds throughout.
LEMMA SpecInv == Spec => []IInv
  BY InitInv, NextInv, PTL DEF Spec

------------------------------------------------------------------------------

\* accudisc_sink_fn's contract: every sector once and in order, exactly the delivered
\* ones leave PENDING in the map, a read that ends well has delivered all, and one cut
\* short drops at most the chunk held back.
THEOREM SpecEachOnceInOrder == Spec => []EachOnceInOrder
<1>1. ASSUME IInv PROVE EachOnceInOrder
  <2>  DEFINE n == Len(out)
  <2>1. n \in Nat /\ out \in Seq(Nat) /\ n <= Count /\ Count \in Nat
        /\ \A i \in 1 .. n : out[i] = i - 1
    BY <1>1, SizeAssumption DEF IInv, Places, Delivered
  <2>2. out = [i \in 1 .. n |-> i - 1]
    <3>1. out = [i \in 1 .. n |-> out[i]]
      BY <2>1
    <3>  QED
      BY <2>1, <3>1
  <2>3. {l \in Lbas : map[l] # "pending"} = 0 .. n - 1
    BY <1>1, <2>1 DEF IInv, Delivered, Lbas
  <2>4. Range(out) = 0 .. n - 1
    <3>  HIDE DEF n
    <3>1. DOMAIN out = 1 .. n /\ \A i \in 1 .. n : out[i] = i - 1
      BY <2>1, <2>2
    <3>2. ASSUME NEW l \in 0 .. n - 1 PROVE l \in Range(out)
      <4>1. l + 1 \in 1 .. n /\ (l + 1) - 1 = l
        BY <2>1
      <4>2. l + 1 \in DOMAIN out /\ out[l + 1] = l
        BY <3>1, <4>1
      <4>  QED
        BY <4>2, Zenon DEF Range
    <3>3. ASSUME NEW l \in Range(out) PROVE l \in 0 .. n - 1
      <4>1. PICK i \in 1 .. n : l = out[i]
        BY <3>1, Zenon DEF Range
      <4>  QED
        BY <2>1, <3>1, <4>1
    <3>  QED
      BY <3>2, <3>3
  <2>5. next - n <= Chunk
    BY <1>1, <2>1, SizeAssumption DEF IInv, Places
  <2>  QED
    BY <1>1, <2>2, <2>3, <2>4, <2>5 DEF EachOnceInOrder, IInv, Delivered
<1>  QED
  BY <1>1, SpecInv, PTL

\* consensus and anchor_position: a copy some samples away from another one seen is
\* accepted only if it is the one held from an earlier context read.
THEOREM SpecSlipNeedsContext == Spec => SlipNeedsContext
<1>  DEFINE Context ==
       \A w \in {"cur", "pend"} :
         \A s \in Sectors(slot[w]) :
           (/\ Settling /\ job # NoJob /\ job' = NoJob /\ w = who /\ s = job.s
            /\ s \notin slot'[w].susp
            /\ \E a \in job.seen : Shift(a, slot'[w].data[s].audio))
           => job.held = slot'[w].data[s] /\ job.tries >= 1
<1>1. ASSUME IInv, [Next]_vars PROVE [Context]_vars
  <2>  SUFFICES ASSUME NEW w \in {"cur", "pend"}, NEW s \in Sectors(slot[w]),
                       Settling, job # NoJob, job' = NoJob, w = who, s = job.s,
                       s \notin slot'[w].susp,
                       NEW a \in job.seen, Shift(a, slot'[w].data[s].audio)
                PROVE  job.held = slot'[w].data[s] /\ job.tries >= 1
    OBVIOUS
  <2>1. /\ DOMAIN slot = {"cur", "pend"}
        /\ DOMAIN slot["cur"] = ChunkFields /\ DOMAIN slot["pend"] = ChunkFields
        /\ JobOK(job)
    BY <1>1 DEF IInv, Shape
  <2>2. ~Settled(Suspect(who, job.s))
    BY <2>1, SuspectKeeps DEF Settled
  <2>3. [job EXCEPT !.tries = @ + 1] # NoJob
    BY <2>1 DEF JobOK, JobFields, NoJob
  <2>4. ASSUME NEW seen, NEW shifted
        PROVE  [job EXCEPT !.tries = @ + 1, !.seen = seen, !.shifted = shifted] # NoJob
    <3>1. [job EXCEPT !.tries = @ + 1, !.seen = seen, !.shifted = shifted].tries = job.tries + 1
      BY <2>1 DEF JobOK, JobFields
    <3>2. NoJob.tries = 0 /\ job.tries + 1 # 0
      BY <2>1 DEF NoJob, JobOK
    <3>  QED
      BY <3>1, <3>2
  <2>5. \A held : [[job EXCEPT !.tries = @ + 1] EXCEPT !.held = held] # NoJob
    BY <2>1 DEF JobOK, JobFields, NoJob
  <2>6. \A seen : Anchoring(seen) # NoJob
    BY <2>1 DEF JobOK, JobFields, NoJob, Anchoring
  <2>7. Reread \/ RereadsSpent \/ Anchor \/ AnchorSpent
    <3>1. at \in {"seam", "verify", "widen"}
      BY DEF Settling
    <3>2. job' # job
      OBVIOUS
    <3>  QED
      BY <1>1, <3>1, <3>2
      DEF Next, Cancel, ReadChunk, QposRescue, SeamCheck, Settle, LatchC2, C2Rescue, C2Spent,
          C2Done, VerifyPass, VerifyDone, WitnessPend, WitnessCur, WitnessPass, WidenDone,
          Deliver, DeliverRefused, DeliverLast, Terminated, vars
  <2>8. CASE Reread
    <3>1. PICK f : /\ Settled(Replaced(who, job.s, f[job.s]))
                   /\ ~(job.shifted \/ \E b \in job.seen : Shift(b, f[job.s].audio))
      BY <2>3, <2>4, <2>6, <2>8, Zenon DEF Reread, Continue, Agreed
    <3>2. slot'[w].data[s] = f[job.s]
      BY <2>1, <3>1, ReplacedValue DEF Settled
    <3>  QED
      BY <3>1, <3>2
  <2>9. CASE Anchor
    <3>1. Settled(Replaced(who, job.s, job.held)) /\ job.held # Unread
      BY <2>2, <2>3, <2>5, <2>9, Zenon DEF Anchor, Continue
    <3>2. slot'[w].data[s] = job.held
      BY <2>1, <3>1, ReplacedValue DEF Settled
    <3>  QED
      BY <2>1, <3>1, <3>2 DEF JobOK
  <2>10. CASE RereadsSpent \/ AnchorSpent
    BY <2>2, <2>6, <2>10 DEF RereadsSpent, AnchorSpent, Continue
  <2>  QED
    BY <2>7, <2>8, <2>9, <2>10
<1>  QED
  BY <1>1, SpecInv, PTL DEF Spec, SlipNeedsContext

------------------------------------------------------------------------------
(* What the evidence of a read is worth.                                       *)


\* publish would label the sector OK, as far as it depends on the chunk alone.
Unmarked(c, s) ==
  c.data[s] # Unread /\ s \notin c.susp \cup c.recov /\ ~(Bits(c.data[s]) > 0)

\* The sector is still waiting to be settled.
Pending(w, s) == Settling /\ who = w /\ s \in todo

\* What has been heard of a sector of the chunk held back.
PendAgrees ==
  \A s \in Sectors(slot["pend"]) :
    Unmarked(slot["pend"], s) /\ ~Pending("pend", s) =>
      \A h \in heard : h[1] = s => h[2] = slot["pend"].data[s].audio

\* The same of the chunk in hand, for which the extension before it speaks too until
\* the seam has been checked.
ExtSays(h) == h[1] \in DOMAIN ext /\ ext[h[1]] # Unread /\ h[2] = ext[h[1]].audio
CurAgrees ==
  at \in Between =>
    \A s \in Sectors(slot["cur"]) :
      Unmarked(slot["cur"], s) /\ ~Pending("cur", s) =>
        \A h \in heard : h[1] = s => \/ h[2] = slot["cur"].data[s].audio
                                     \/ at = "qpos" /\ ExtSays(h)

\* Of sectors not yet in hand only the extension has spoken, and of no sector beyond
\* the chunk that comes next.
FreshSays(h) == h[1] \in DOMAIN fresh /\ fresh[h[1]] # Unread /\ h[2] = fresh[h[1]].audio
Ahead ==
  /\ \A h \in heard : h[1] \in Lbas
  /\ at = "loop" => \A h \in heard : h[1] >= next => ExtSays(h) /\ h[1] < next + Chunk
  /\ at \in Between =>
       \A h \in heard : h[1] >= next /\ h[1] \notin Sectors(slot["cur"]) =>
         FreshSays(h) /\ h[1] - Chunk \in Sectors(slot["cur"])

\* Whose sectors are being settled.
InHand == (at = "qpos" => who = "cur") /\ req \in Requests

Heard == PendAgrees /\ CurAgrees /\ Ahead /\ InHand

------------------------------------------------------------------------------
(* Helpers.                                                                *)

\* A sector of a chunk lies where Places says, and in one chunk only.
LEMMA WhereSectors ==
  ASSUME IInv
  PROVE  /\ next \in Nat /\ Count \in Nat /\ Chunk \in Nat /\ Chunk >= 1 /\ next <= Count
         /\ \A s \in Sectors(slot["pend"]) : s \in Lbas /\ s < next
         /\ at \in Between => \A s \in Sectors(slot["cur"]) : s \in Lbas /\ s >= next
<1>1. next \in Nat /\ Count \in Nat /\ Chunk \in Nat /\ Chunk >= 1 /\ next <= Count
  BY SizeAssumption DEF IInv, Places
<1>2. \A s \in Sectors(slot["pend"]) : s \in Lbas /\ s < next
  BY <1>1 DEF IInv, Places, Lbas
<1>3. ASSUME at \in Between PROVE \A s \in Sectors(slot["cur"]) : s \in Lbas /\ s >= next
  <2>1. PICK n \in 1 .. Chunk : /\ next + n <= Count
                                /\ Sectors(slot["cur"]) = next .. next + n - 1
    BY <1>3 DEF IInv, Places
  <2>  QED
    BY <1>1, <2>1 DEF Lbas
<1>  QED
  BY <1>1, <1>2, <1>3

\* Whatever is replaced or suspected is marked, and nothing else changes.
LEMMA Marks ==
  ASSUME Shape, NEW w \in {"cur", "pend"}, NEW s, NEW c,
         slot' \in {Replaced(w, s, c), Suspect(w, s)},
         NEW v \in {"cur", "pend"}, NEW t \in Sectors(slot'[v]), Unmarked(slot'[v], t)
  PROVE  /\ t \in Sectors(slot[v]) /\ Unmarked(slot[v], t)
         /\ slot'[v].data[t] = slot[v].data[t]
         /\ v = w => t # s
<1>1. /\ DOMAIN slot = {"cur", "pend"}
      /\ DOMAIN slot["cur"] = ChunkFields /\ DOMAIN slot["pend"] = ChunkFields
  BY DEF Shape
<1>2. CASE slot' = Suspect(w, s)
  <2>1. /\ slot'[v].data = slot[v].data /\ slot'[v].recov = slot[v].recov
        /\ slot'[v].susp = IF v = w THEN slot[v].susp \cup {s} ELSE slot[v].susp
    BY <1>1, <1>2 DEF Suspect, ChunkFields
  <2>  QED
    BY <2>1 DEF Unmarked, Sectors
<1>3. CASE slot' = Replaced(w, s, c)
  <2>1. /\ slot'[v].susp = slot[v].susp
        /\ slot'[v].recov = IF v = w THEN slot[v].recov \cup {s} ELSE slot[v].recov
        /\ slot'[v].data = IF v = w THEN [slot[v].data EXCEPT ![s] = c] ELSE slot[v].data
    BY <1>1, <1>3 DEF Replaced, ChunkFields
  <2>2. v = w => t # s
    BY <2>1 DEF Unmarked
  <2>3. t \in Sectors(slot[v]) /\ slot'[v].data[t] = slot[v].data[t]
    BY <2>1, <2>2 DEF Sectors
  <2>4. Unmarked(slot[v], t)
    BY <2>1, <2>3 DEF Unmarked
  <2>  QED
    BY <2>2, <2>3, <2>4
<1>  QED
  BY <1>2, <1>3
\* The chunk to read fits the request, and is short only at its end.
LEMMA ChunkFits ==
  ASSUME next \in Nat, next < Count, Count \in Nat, Chunk \in Nat, Chunk >= 1
  PROVE  /\ ChunkLen \in 1 .. Chunk /\ next + ChunkLen <= Count
         /\ ChunkLen < Chunk => next + ChunkLen = Count
<1>1. PICK m \in {Count - next, Chunk} : \A y \in {Count - next, Chunk} : m <= y
  <2>1. CASE Count - next <= Chunk
    BY <2>1
  <2>2. CASE ~(Count - next <= Chunk)
    BY <2>2
  <2>  QED
    BY <2>1, <2>2
<1>2. ChunkLen \in {Count - next, Chunk} /\ ChunkLen <= Count - next /\ ChunkLen <= Chunk
  BY <1>1 DEF ChunkLen, Min
<1>  QED
  BY <1>2

\* lba advances by the sectors of the chunk in hand.
LEMMA AdvancedBy ==
  ASSUME IInv, at \in Between
  PROVE  \E n \in 1 .. Chunk : /\ Advanced = next + n /\ next + n <= Count
                               /\ Sectors(slot["cur"]) = next .. next + n - 1
<1>1. PICK n \in 1 .. Chunk : /\ next + n <= Count
                              /\ Sectors(slot["cur"]) = next .. next + n - 1
  BY DEF IInv, Places
<1>2. next \in Nat /\ Count \in Nat /\ Chunk \in Nat
  BY SizeAssumption DEF IInv, Places
<1>3. next \in Int /\ next + n - 1 \in Int /\ next <= next + n - 1
  BY <1>1, <1>2
<1>4. Cardinality(next .. next + n - 1) = (next + n - 1) - next + 1
  BY <1>3, Run
<1>5. (next + n - 1) - next + 1 = n
  BY <1>1, <1>2
<1>6. Advanced = next + n
  BY <1>1, <1>4, <1>5 DEF Advanced
<1>  QED
  BY <1>1, <1>6

------------------------------------------------------------------------------
(* What was heard.                                                         *)

LEMMA HeardInit == Init => Heard
<1>  SUFFICES ASSUME Init PROVE Heard
  OBVIOUS
<1>1. heard = {} /\ at = "loop" /\ req \in Requests
  BY DEF Init
<1>  QED
  BY <1>1 DEF Heard, PendAgrees, CurAgrees, Ahead, InHand, Between

\* Nothing is lost by a step that hears nothing and after which a sector is unmarked
\* and settled only if it was before, with the same data.
LEMMA HeardStep ==
  ASSUME Heard, at \in Between, at' \in Between, at = "qpos" <=> at' = "qpos",
         at' = "qpos" => who' = "cur",
         UNCHANGED <<next, ext, fresh, heard, req>>,
         Sectors(slot'["cur"]) = Sectors(slot["cur"]),
         \A v \in {"cur", "pend"} : \A t \in Sectors(slot'[v]) :
           Unmarked(slot'[v], t) /\ ~(Pending(v, t))' =>
             /\ t \in Sectors(slot[v]) /\ Unmarked(slot[v], t) /\ ~Pending(v, t)
             /\ slot'[v].data[t] = slot[v].data[t]
  PROVE  Heard'
<1>4. PendAgrees'
  <2>  SUFFICES ASSUME NEW t \in Sectors(slot'["pend"]),
                       (Unmarked(slot["pend"], t))', ~(Pending("pend", t))',
                       NEW h \in heard', h[1] = t
                PROVE  h[2] = slot'["pend"].data[t].audio
    BY DEF PendAgrees, Sectors
  <2>1. Unmarked(slot'["pend"], t)
    BY DEF Unmarked, Bits
  <2>3. /\ t \in Sectors(slot["pend"]) /\ Unmarked(slot["pend"], t) /\ ~Pending("pend", t)
        /\ slot'["pend"].data[t] = slot["pend"].data[t]
    BY <2>1
  <2>  QED
    BY <2>3 DEF Heard, PendAgrees
<1>5. CurAgrees'
  <2>  SUFFICES ASSUME NEW t \in Sectors(slot'["cur"]),
                       (Unmarked(slot["cur"], t))', ~(Pending("cur", t))',
                       NEW h \in heard', h[1] = t
                PROVE  \/ h[2] = slot'["cur"].data[t].audio
                       \/ at' = "qpos" /\ (ExtSays(h))'
    BY DEF CurAgrees, Sectors
  <2>1. Unmarked(slot'["cur"], t)
    BY DEF Unmarked, Bits
  <2>3. /\ t \in Sectors(slot["cur"]) /\ Unmarked(slot["cur"], t) /\ ~Pending("cur", t)
        /\ slot'["cur"].data[t] = slot["cur"].data[t]
    BY <2>1
  <2>4. (ExtSays(h))' <=> ExtSays(h)
    BY DEF ExtSays
  <2>  QED
    BY <2>3, <2>4 DEF Heard, CurAgrees
<1>6. Ahead'
  BY DEF Heard, Ahead, FreshSays, Sectors, Between
<1>7. InHand'
  BY DEF Heard, InHand
<1>  QED
  BY <1>4, <1>5, <1>6, <1>7 DEF Heard

\* A sector settled, whichever way, is marked; until then nothing changes.
LEMMA HeardMark ==
  ASSUME IInv, Heard, at \in Between, at' = at,
         UNCHANGED <<who, next, ext, fresh, heard, req>>,
         NEW s, NEW c,
         \/ slot' = slot /\ todo' = todo
         \/ slot' \in {Replaced(who, s, c), Suspect(who, s)} /\ todo' = todo \ {s}
  PROVE  Heard'
<1>1. \A v \in {"cur", "pend"} : \A t : (Pending(v, t))' <=> (Settling /\ who = v /\ t \in todo')
  BY DEF Pending, Settling
<1>2. who \in {"cur", "pend"} /\ DOMAIN slot = {"cur", "pend"}
      /\ DOMAIN slot["cur"] = ChunkFields /\ DOMAIN slot["pend"] = ChunkFields /\ Shape
  BY DEF IInv, Shape
<1>3. Sectors(slot'["cur"]) = Sectors(slot["cur"])
  <2>1. CASE slot' = slot
    BY <2>1
  <2>2. CASE slot' = Replaced(who, s, c)
    BY <1>2, <2>2, ReplacedKeeps
  <2>3. CASE slot' = Suspect(who, s)
    BY <1>2, <2>3, SuspectKeeps
  <2>  QED
    BY <2>1, <2>2, <2>3
<1>4. ASSUME NEW v \in {"cur", "pend"}, NEW t \in Sectors(slot'[v]),
             Unmarked(slot'[v], t), ~(Pending(v, t))'
      PROVE  /\ t \in Sectors(slot[v]) /\ Unmarked(slot[v], t) /\ ~Pending(v, t)
             /\ slot'[v].data[t] = slot[v].data[t]
  <2>1. CASE slot' = slot /\ todo' = todo
    BY <1>1, <1>4, <2>1 DEF Pending
  <2>2. CASE slot' \in {Replaced(who, s, c), Suspect(who, s)} /\ todo' = todo \ {s}
    <3>1. /\ t \in Sectors(slot[v]) /\ Unmarked(slot[v], t)
          /\ slot'[v].data[t] = slot[v].data[t]
          /\ v = who => t # s
      <4>1. PICK w \in {"cur", "pend"} : w = who
        BY <1>2
      <4>2. /\ Shape /\ v \in {"cur", "pend"}
            /\ slot' \in {Replaced(w, s, c), Suspect(w, s)}
            /\ t \in Sectors(slot'[v]) /\ Unmarked(slot'[v], t)
        <5>1. CASE slot' = Replaced(who, s, c)
          <6>1. slot' = Replaced(w, s, c)
            BY <4>1, <5>1 DEF Replaced
          <6>  QED
            BY <1>2, <1>4, <6>1
        <5>2. CASE slot' = Suspect(who, s)
          <6>1. slot' = Suspect(w, s)
            BY <4>1, <5>2 DEF Suspect
          <6>  QED
            BY <1>2, <1>4, <6>1
        <5>  QED
          BY <2>2, <5>1, <5>2
      <4>3. v = w => t # s
        BY <4>2, Marks
      <4>4. t \in Sectors(slot[v])
        BY <4>2, Marks
      <4>5. Unmarked(slot[v], t)
        BY <4>2, Marks
      <4>6. slot'[v].data[t] = slot[v].data[t]
        <5>1. CASE slot' = Suspect(w, s)
          <6>1. slot'[v].data = slot[v].data
            BY <1>2, <4>2, <5>1 DEF Suspect, ChunkFields
          <6>  QED
            BY <6>1
        <5>2. CASE slot' = Replaced(w, s, c)
          <6>1. slot'[v].data = IF v = w THEN [slot[v].data EXCEPT ![s] = c] ELSE slot[v].data
            BY <1>2, <4>2, <5>2 DEF Replaced, ChunkFields
          <6>  QED
            BY <4>3, <4>4, <6>1 DEF Sectors
        <5>  QED
          BY <4>2, <5>1, <5>2
      <4>  QED
        BY <4>1, <4>3, <4>4, <4>5, <4>6
    <3>2. ~Pending(v, t)
      BY <1>1, <1>4, <2>2, <3>1 DEF Pending
    <3>  QED
      BY <3>1, <3>2
  <2>  QED
    BY <2>1, <2>2
<1>5. at' = "qpos" => who' = "cur"
  BY DEF Heard, InHand
<1>  QED
  BY <1>3, <1>4, <1>5, HeardStep

\* Moving on when nothing is left to settle.
LEMMA HeardOn ==
  ASSUME Heard, at \in Between \ {"qpos"}, at' \in Between \ {"qpos"},
         UNCHANGED <<next, ext, fresh, heard, req>>,
         \A v \in {"cur", "pend"} : /\ slot'[v].data = slot[v].data
                                    /\ slot'[v].recov = slot[v].recov
                                    /\ slot'[v].susp = slot[v].susp,
         Settling => todo = {}
  PROVE  Heard'
<1>1. \A v \in {"cur", "pend"} : \A t \in Sectors(slot'[v]) :
        Unmarked(slot'[v], t) /\ ~(Pending(v, t))' =>
          /\ t \in Sectors(slot[v]) /\ Unmarked(slot[v], t) /\ ~Pending(v, t)
          /\ slot'[v].data[t] = slot[v].data[t]
  BY DEF Unmarked, Pending, Sectors
<1>2. Sectors(slot'["cur"]) = Sectors(slot["cur"])
  BY DEF Sectors
<1>  QED
  BY <1>1, <1>2, HeardStep

\* What a chunk's transfer leaves, and what is heard from it: of the chunk, and of
\* the part of the extension the next chunk can be compared with.
LEMMA ChunkHeard ==
  ASSUME ReadChunk, DOMAIN slot = {"cur", "pend"},
         NEW a \in Int, NEW b \in Int, a = next + ChunkLen, b = next + ChunkLen + ExtLen,
         next \in Int, ChunkLen \in Int, ExtLen \in Int, next <= a, a <= b
  PROVE  LET d == slot'["cur"].data
             e == fresh'
         IN /\ slot'["pend"] = slot["pend"]
            /\ DOMAIN d = next .. a - 1 /\ DOMAIN e = a .. b - 1
            /\ \A h \in heard' :
                 \/ h \in heard
                 \/ h[1] \in next .. a - 1 /\ d[h[1]] # Unread /\ h[2] = d[h[1]].audio
                 \/ /\ h[1] \in a .. b - 1 /\ h[1] < a + Chunk
                    /\ e[h[1]] # Unread /\ h[2] = e[h[1]].audio
<1>1. PICK f \in Transfers(next .. next + ChunkLen + ExtLen - 1) :
        \E d, e, S :
          /\ d = Restrict(f, next .. next + ChunkLen - 1)
          /\ e = Restrict(f, DOMAIN f \ DOMAIN d)
          /\ \A l \in S : l \in DOMAIN d \/ (l \in DOMAIN e /\ l < next + ChunkLen + Chunk)
          /\ slot' = [slot EXCEPT !["cur"] = [Empty EXCEPT !.data = d, !.prim = d]]
          /\ fresh' = e
          /\ heard' = heard \cup Hear(f, S)
  BY Zenon DEF ReadChunk
<1>2. PICK d, e, S :
        /\ d = Restrict(f, next .. next + ChunkLen - 1)
        /\ e = Restrict(f, DOMAIN f \ DOMAIN d)
        /\ \A l \in S : l \in DOMAIN d \/ (l \in DOMAIN e /\ l < next + ChunkLen + Chunk)
        /\ slot' = [slot EXCEPT !["cur"] = [Empty EXCEPT !.data = d, !.prim = d]]
        /\ fresh' = e
        /\ heard' = heard \cup Hear(f, S)
  BY <1>1
<1>3. DOMAIN f = next .. b - 1 /\ (next .. b - 1) \ (next .. a - 1) = a .. b - 1
  <2>1. DOMAIN f = next .. b - 1
    BY DEF Transfers, Answers
  <2>2. (next .. b - 1) \ (next .. a - 1) = a .. b - 1
    OBVIOUS
  <2>  QED
    BY <2>1, <2>2
<1>4. DOMAIN d = next .. a - 1 /\ \A l \in next .. a - 1 : d[l] = f[l]
  <2>1. d = Restrict(f, next .. a - 1)
    BY <1>2
  <2>  QED
    BY <2>1 DEF Restrict
<1>5. DOMAIN e = a .. b - 1 /\ \A l \in a .. b - 1 : e[l] = f[l]
  BY <1>2, <1>3, <1>4 DEF Restrict
<1>6. slot'["pend"] = slot["pend"] /\ slot'["cur"].data = d
  BY <1>2 DEF Empty
<1>7. ASSUME NEW h \in heard', h \notin heard
      PROVE  \/ h[1] \in next .. a - 1 /\ d[h[1]] # Unread /\ h[2] = d[h[1]].audio
             \/ /\ h[1] \in a .. b - 1 /\ h[1] < a + Chunk
                /\ e[h[1]] # Unread /\ h[2] = e[h[1]].audio
  <2>1. h[1] \in S /\ f[h[1]] # Unread /\ h[2] = f[h[1]].audio
    BY <1>2, <1>7 DEF Hear
  <2>2. h[1] \in DOMAIN d \/ (h[1] \in DOMAIN e /\ h[1] < next + ChunkLen + Chunk)
    BY <1>2, <2>1
  <2>  QED
    BY <1>4, <1>5, <2>1, <2>2
<1>  QED
  BY <1>2, <1>4, <1>5, <1>6, <1>7, ZenonT(40)

\* What the chunk read says of itself agrees with it, and what the extension said
\* before lies inside it.
LEMMA HeardReadChunk == IInv /\ Heard /\ ReadChunk => Heard'
<1>  SUFFICES ASSUME IInv, Heard, ReadChunk PROVE Heard'
  OBVIOUS
<1>1. /\ next \in Nat /\ next < Count /\ Count \in Nat /\ Chunk \in Nat /\ Chunk >= 1
      /\ req \in Requests /\ req.overlap \in Nat
  <2>1. req \in Requests
    BY DEF Heard, InHand
  <2>2. req.overlap \in Nat
    BY <2>1, RequestsAssumption DEF RequestOK
  <2>  QED
    BY <2>1, <2>2, SizeAssumption DEF IInv, Places, ReadChunk
<1>2. /\ ChunkLen \in 1 .. Chunk /\ next + ChunkLen <= Count
      /\ ChunkLen < Chunk => next + ChunkLen = Count
  BY <1>1, ChunkFits
<1>3. ExtLen \in Nat /\ next + ChunkLen + ExtLen <= Count
  <2>  DEFINE room == Count - next - ChunkLen
  <2>1. room \in Nat
    BY <1>1, <1>2
  <2>2. PICK m \in {room, req.overlap} : \A y \in {room, req.overlap} : m <= y
    <3>1. CASE room <= req.overlap
      BY <1>1, <2>1, <3>1
    <3>2. CASE ~(room <= req.overlap)
      BY <1>1, <2>1, <3>2
    <3>  QED
      BY <3>1, <3>2
  <2>3. ExtLen \in {room, req.overlap} /\ ExtLen <= room
    BY <2>2 DEF ExtLen, Min
  <2>  QED
    BY <1>1, <1>2, <2>1, <2>3
<1>  DEFINE a == next + ChunkLen
            b == next + ChunkLen + ExtLen
            d == slot'["cur"].data
<1>5. a \in Nat /\ b \in Nat /\ a <= b /\ next < a /\ a <= next + Chunk
      /\ (b > a => a = next + Chunk) /\ b <= Count /\ (a < next + Chunk => a = Count)
  BY <1>1, <1>2, <1>3
<1>7. /\ slot'["pend"] = slot["pend"]
      /\ DOMAIN d = next .. a - 1 /\ DOMAIN fresh' = a .. b - 1
      /\ \A h \in heard' :
           \/ h \in heard
           \/ h[1] \in next .. a - 1 /\ d[h[1]] # Unread /\ h[2] = d[h[1]].audio
           \/ /\ h[1] \in a .. b - 1 /\ h[1] < a + Chunk
              /\ fresh'[h[1]] # Unread /\ h[2] = fresh'[h[1]].audio
  <2>1. DOMAIN slot = {"cur", "pend"} /\ ReadChunk
    BY DEF IInv, Shape
  <2>2. a \in Int /\ b \in Int /\ next \in Int /\ ChunkLen \in Int /\ ExtLen \in Int
        /\ next <= a /\ a <= b
    BY <1>1, <1>2, <1>3, <1>5
  <2>3. a = next + ChunkLen /\ b = next + ChunkLen + ExtLen
    OBVIOUS
  <2>  HIDE DEF a, b
  <2>  QED
    BY <2>1, <2>2, <2>3, ChunkHeard
<1>8. /\ at = "loop" /\ at' = "qpos" /\ who' = "cur"
      /\ UNCHANGED <<next, ext, req>>
  BY DEF ReadChunk, options
<1>  HIDE DEF a, b, d
<1>9. ASSUME NEW h \in heard' PROVE h[1] \in Lbas
  BY <1>1, <1>5, <1>7 DEF Heard, Ahead, Lbas
<1>10. PendAgrees'
  <2>  SUFFICES ASSUME NEW t \in Sectors(slot'["pend"]),
                       (Unmarked(slot["pend"], t))',
                       NEW h \in heard', h[1] = t
                PROVE  h[2] = slot'["pend"].data[t].audio
    BY DEF PendAgrees, Sectors
  <2>1. t \in Sectors(slot["pend"]) /\ Unmarked(slot["pend"], t)
    BY <1>7, <1>8 DEF Unmarked, Bits
  <2>2. ~Pending("pend", t)
    BY <1>8 DEF Pending, Settling
  <2>3. t < next /\ t \in Nat
    BY <2>1, WhereSectors DEF Lbas
  <2>4. h \in heard
    BY <1>1, <1>5, <1>7, <2>3
  <2>  QED
    BY <1>7, <2>1, <2>2, <2>4 DEF Heard, PendAgrees
<1>11. CurAgrees'
  <2>  SUFFICES ASSUME NEW t \in next .. a - 1, NEW h \in heard', h[1] = t
                PROVE  \/ h[2] = d[t].audio
                       \/ (ExtSays(h))'
    BY <1>7, <1>8 DEF CurAgrees, Sectors, d
  <2>1. CASE h \in heard
    <3>1. h[1] >= next
      BY <1>1, <1>5
    <3>2. ExtSays(h)
      BY <1>8, <2>1, <3>1 DEF Heard, Ahead
    <3>  QED
      BY <1>8, <3>2 DEF ExtSays
  <2>2. CASE h \notin heard
    BY <1>1, <1>5, <1>7, <2>2
  <2>  QED
    BY <2>1, <2>2
<1>12. Ahead'
  <2>1. ASSUME NEW h \in heard', h[1] >= next, h[1] \notin next .. a - 1
        PROVE  (FreshSays(h))' /\ h[1] - Chunk \in next .. a - 1
    <3>1. h[1] >= a /\ h[1] \in 0 .. Count - 1
      BY <1>1, <1>5, <1>9, <2>1 DEF Lbas
    <3>2. CASE h \in heard
      <4>1. h[1] < next + Chunk
        BY <1>8, <2>1, <3>2 DEF Heard, Ahead
      <4>  QED
        BY <1>1, <1>5, <3>1, <4>1
    <3>3. CASE h \notin heard
      <4>1. h[1] \in a .. b - 1 /\ fresh'[h[1]] # Unread /\ h[2] = fresh'[h[1]].audio
            /\ h[1] < a + Chunk
        BY <1>7, <2>1, <3>3
      <4>2. (FreshSays(h))'
        BY <1>7, <4>1 DEF FreshSays
      <4>3. h[1] - Chunk \in next .. a - 1
        BY <1>1, <1>5, <4>1
      <4>  QED
        BY <4>2, <4>3
    <3>  QED
      BY <3>2, <3>3
  <2>  QED
    BY <1>7, <1>8, <1>9, <2>1 DEF Ahead, Sectors, Between, d
<1>13. InHand'
  BY <1>1, <1>8 DEF InHand
<1>  QED
  BY <1>10, <1>11, <1>12, <1>13 DEF Heard

\* The seam: what the extension said is either what the chunk has, or to be settled.
LEMMA HeardSeamCheck == IInv /\ Heard /\ SeamCheck => Heard'
<1>  SUFFICES ASSUME IInv, Heard, SeamCheck PROVE Heard'
  OBVIOUS
<1>1. /\ at = "qpos" /\ at' = "seam" /\ who = "cur" /\ who' = "cur"
      /\ todo' = SeamDiffs(slot["cur"])
      /\ UNCHANGED <<slot, next, ext, fresh, heard, req>>
  BY DEF SeamCheck, Heard, InHand, delivery, options
<1>2. PendAgrees'
  <2>1. \A t : ~Pending("pend", t) /\ (Unmarked(slot["pend"], t) <=> (Unmarked(slot["pend"], t))')
    BY <1>1 DEF Pending, Settling, Unmarked, Bits
  <2>  QED
    BY <1>1, <2>1 DEF Heard, PendAgrees, Sectors
<1>3. CurAgrees'
  <2>  SUFFICES ASSUME NEW t \in Sectors(slot["cur"]), (Unmarked(slot["cur"], t))',
                       ~(Pending("cur", t))', NEW h \in heard, h[1] = t
                PROVE  h[2] = slot["cur"].data[t].audio
    BY <1>1 DEF CurAgrees, Sectors
  <2>1. Unmarked(slot["cur"], t) /\ ~Pending("cur", t)
    BY <1>1 DEF Pending, Settling, Unmarked, Bits
  <2>2. t \notin SeamDiffs(slot["cur"])
    BY <1>1 DEF Pending, Settling
  <2>3. h[2] = slot["cur"].data[t].audio \/ ExtSays(h)
    BY <1>1, <2>1 DEF Heard, CurAgrees, Between
  <2>4. ASSUME ExtSays(h) PROVE h[2] = slot["cur"].data[t].audio
    BY <2>1, <2>2, <2>4 DEF ExtSays, SeamDiffs, Unmarked
  <2>  QED
    BY <2>3, <2>4
<1>4. Ahead'
  BY <1>1 DEF Heard, Ahead, FreshSays, Sectors, Between
<1>5. InHand'
  BY <1>1 DEF Heard, InHand
<1>  QED
  BY <1>2, <1>3, <1>4, <1>5 DEF Heard

\* A context read for C2 leaves bits on what it replaces, or marks it.
LEMMA HeardC2Rescue == IInv /\ Heard /\ C2Rescue => Heard'
<1>  SUFFICES ASSUME IInv, Heard, C2Rescue PROVE Heard'
  OBVIOUS
<1>  DEFINE s == Min(todo)
            w == IF OffDisc(Start(s, job.tries)) THEN s ELSE Start(s, job.tries)
<1>1. /\ at = "c2" /\ at' = at /\ Shape
      /\ UNCHANGED <<who, next, ext, fresh, heard, req>>
  BY DEF C2Rescue, delivery, history, options, IInv
<1>2. /\ DOMAIN slot = {"cur", "pend"}
      /\ DOMAIN slot["cur"] = ChunkFields /\ DOMAIN slot["pend"] = ChunkFields
  BY <1>1 DEF Shape
<1>3. \/ slot' = slot
      \/ \E c : slot' = Replaced("cur", s, c)
      \/ \E ctx \in Answers(Window(w), Copies) :
           slot' = [slot EXCEPT !["cur"].data[s] = ctx[s]] /\ ~(Bits(ctx[s]) = 0)
  <2>1. CASE slot' = slot
    BY <2>1
  <2>2. CASE slot' # slot
    <3>1. PICK ctx \in Answers(Window(w), Copies) :
            LET better == /\ Corroborated(ctx, s, {slot["cur"].prim, ext})
                          /\ Bits(ctx[s]) < Bits(slot["cur"].data[s])
                clean == better /\ Bits(ctx[s]) = 0
            IN  slot' = IF clean THEN Replaced("cur", s, ctx[s])
                        ELSE IF better THEN [slot EXCEPT !["cur"].data[s] = ctx[s]]
                        ELSE slot
      <4>1. slot' = slot \/ \E ctx \in Answers(Window(w), Copies) :
            LET better == /\ Corroborated(ctx, s, {slot["cur"].prim, ext})
                          /\ Bits(ctx[s]) < Bits(slot["cur"].data[s])
                clean == better /\ Bits(ctx[s]) = 0
            IN  slot' = IF clean THEN Replaced("cur", s, ctx[s])
                        ELSE IF better THEN [slot EXCEPT !["cur"].data[s] = ctx[s]]
                        ELSE slot
        BY Zenon DEF C2Rescue
      <4>  QED
        BY <2>2, <4>1, Zenon
    <3>  DEFINE better == /\ Corroborated(ctx, s, {slot["cur"].prim, ext})
                          /\ Bits(ctx[s]) < Bits(slot["cur"].data[s])
    <3>2. CASE better /\ Bits(ctx[s]) = 0
      <4>1. slot' = Replaced("cur", s, ctx[s])
        BY <3>1, <3>2, Zenon
      <4>  QED
        BY <4>1, Zenon
    <3>3. CASE better /\ ~(Bits(ctx[s]) = 0)
      <4>1. slot' = [slot EXCEPT !["cur"].data[s] = ctx[s]]
        BY <3>1, <3>3, Zenon
      <4>  QED
        BY <3>3, <4>1, Zenon
    <3>4. CASE ~better
      <4>1. slot' = slot
        BY <3>1, <3>4, Zenon
      <4>  QED
        BY <2>2, <4>1, Zenon
    <3>  QED
      BY <3>2, <3>3, <3>4, Zenon
  <2>  QED
    BY <2>1, <2>2
<1>  HIDE DEF s
<1>4. ASSUME NEW v \in {"cur", "pend"}, NEW t \in Sectors(slot'[v]), Unmarked(slot'[v], t)
      PROVE  /\ t \in Sectors(slot[v]) /\ Unmarked(slot[v], t)
             /\ slot'[v].data[t] = slot[v].data[t]
  <2>1. CASE slot' = slot
    BY <1>4, <2>1
  <2>2. CASE \E c : slot' = Replaced("cur", s, c)
    BY <1>1, <1>4, <2>2, Marks
  <2>3. CASE \E ctx \in Answers(Window(w), Copies) :
               slot' = [slot EXCEPT !["cur"].data[s] = ctx[s]] /\ ~(Bits(ctx[s]) = 0)
    <3>  PICK ctx \in Answers(Window(w), Copies) :
               slot' = [slot EXCEPT !["cur"].data[s] = ctx[s]] /\ ~(Bits(ctx[s]) = 0)
      BY <2>3
    <3>1. /\ slot'["pend"] = slot["pend"]
          /\ slot'["cur"].data = [slot["cur"].data EXCEPT ![s] = ctx[s]]
          /\ slot'["cur"].recov = slot["cur"].recov /\ slot'["cur"].susp = slot["cur"].susp
      BY <1>2 DEF ChunkFields
    <3>2. CASE v = "pend" \/ t # s
      BY <1>4, <3>1, <3>2 DEF Unmarked, Sectors
    <3>3. CASE v = "cur" /\ t = s
      <4>1. s \in Sectors(slot["cur"]) /\ slot'["cur"].data[s] = ctx[s]
        BY <1>4, <3>1, <3>3 DEF Sectors
      <4>2. s \in Nat
        BY <1>1, <4>1, WhereSectors DEF Between, Lbas
      <4>3. Start(s, job.tries) \in {s - 1, s - 2, s}
        <5>1. job.tries % 3 = 0 => Start(s, job.tries) = s + -1
          BY Zenon DEF Start
        <5>2. job.tries % 3 # 0 /\ job.tries % 3 = 1 => Start(s, job.tries) = s + -2
          BY Zenon DEF Start
        <5>3. job.tries % 3 # 0 /\ job.tries % 3 # 1 => Start(s, job.tries) = s + 0
          BY Zenon DEF Start
        <5>  QED
          BY <4>2, <5>1, <5>2, <5>3
      <4>4. s \in Window(w)
        BY <4>2, <4>3 DEF Window
      <4>5. ctx[s] \in Copies
        BY <4>4 DEF Answers
      <4>6. ctx[s].c2 \in Nat
        BY <4>5, CopiesAssumption DEF Copy
      <4>7. Bits(ctx[s]) > 0
        BY <4>6 DEF Bits
      <4>  QED
        BY <1>4, <3>3, <4>1, <4>7 DEF Unmarked
    <3>  QED
      BY <3>2, <3>3
  <2>  QED
    BY <1>3, <2>1, <2>2, <2>3
<1>5. \A v \in {"cur", "pend"} : \A t : ~Pending(v, t)
  BY <1>1 DEF Pending, Settling
<1>6. Sectors(slot'["cur"]) = Sectors(slot["cur"])
  <2>1. CASE slot' = slot
    BY <2>1
  <2>2. ASSUME NEW c, slot' = Replaced("cur", s, c) PROVE <1>6
    BY <1>2, <2>2, ReplacedKeeps
  <2>3. ASSUME NEW c, slot' = [slot EXCEPT !["cur"].data[s] = c] PROVE <1>6
    BY <1>2, <2>3 DEF ChunkFields, Sectors
  <2>  QED
    BY <1>3, <2>1, <2>2, <2>3
<1>  QED
  BY <1>1, <1>4, <1>5, <1>6, HeardStep DEF Between

\* A second transfer of a chunk agrees with what it leaves alone.
LEMMA HeardWitness ==
  ASSUME IInv, Heard, at \in {"verify", "widen"}, todo = {},
         NEW w \in {"cur", "pend"}, NEW done, WitnessPass(w, done)
  PROVE  Heard'
<1>1. PICK f \in Transfers(Sectors(slot[w])) :
        /\ slot' = [slot EXCEPT ![w].alt = f, ![w].witnessed = done]
        /\ todo' = WitnessDiffs(slot[w], f)
        /\ heard' = heard \cup Hear(f, DOMAIN f)
  BY DEF WitnessPass
<1>2. DOMAIN f = Sectors(slot[w])
  BY DEF Transfers, Answers
<1>3. /\ at' = at /\ who' = w /\ UNCHANGED <<next, ext, fresh, req>>
  BY DEF WitnessPass, delivery, options
<1>4. \A v \in {"cur", "pend"} : /\ slot'[v].data = slot[v].data
                                 /\ slot'[v].recov = slot[v].recov
                                 /\ slot'[v].susp = slot[v].susp
  BY <1>1 DEF IInv, Shape, ChunkFields
<1>5. ASSUME NEW h \in heard', h \notin heard
      PROVE  h[1] \in Sectors(slot[w]) /\ f[h[1]] # Unread /\ h[2] = f[h[1]].audio
  BY <1>1, <1>2, <1>5 DEF Hear
<1>6. ASSUME NEW v \in {"cur", "pend"}, NEW t \in Sectors(slot'[v]), (Unmarked(slot[v], t))',
             ~(Pending(v, t))', NEW h \in heard', h[1] = t
      PROVE  h[2] = slot'[v].data[t].audio
  <2>1. t \in Sectors(slot[v]) /\ Unmarked(slot[v], t) /\ slot'[v].data[t] = slot[v].data[t]
    BY <1>3, <1>4, <1>6 DEF Unmarked, Bits, Sectors
  <2>2. CASE h \in heard
    <3>1. ~Pending(v, t)
      BY DEF Pending
    <3>2. CASE v = "pend"
      BY <1>6, <2>1, <2>2, <3>1, <3>2 DEF Heard, PendAgrees
    <3>3. CASE v = "cur"
      <4>1. at \in Between /\ at # "qpos"
        BY DEF Between
      <4>  QED
        BY <1>6, <2>1, <2>2, <3>1, <3>3, <4>1 DEF Heard, CurAgrees
    <3>  QED
      BY <3>2, <3>3
  <2>3. CASE h \notin heard
    <3>1. v = w
      <4>1. t \in Sectors(slot[w])
        BY <1>5, <1>6, <2>3
      <4>2. at \in Between
        BY DEF Between
      <4>3. next \in Nat /\ \A x \in Sectors(slot["pend"]) : x \in Lbas /\ x < next
        BY WhereSectors
      <4>4. \A x \in Sectors(slot["cur"]) : x \in Lbas /\ x >= next
        BY <4>2, WhereSectors
      <4>5. ~(t \in Sectors(slot["pend"]) /\ t \in Sectors(slot["cur"]))
        <5>  SUFFICES ASSUME t \in Sectors(slot["pend"]), t \in Sectors(slot["cur"]) PROVE FALSE
          OBVIOUS
        <5>1. t \in Nat /\ t < next /\ t >= next /\ next \in Nat
          BY <4>3, <4>4 DEF Lbas
        <5>  QED
          BY <5>1
      <4>  QED
        BY <2>1, <4>1, <4>5
    <3>2. t \notin WitnessDiffs(slot[w], f)
      BY <1>1, <1>3, <1>6, <3>1 DEF Pending, Settling
    <3>3. f[t].audio = slot[w].data[t].audio
      BY <2>1, <3>1, <3>2 DEF WitnessDiffs, Unmarked
    <3>  QED
      BY <1>5, <1>6, <2>1, <2>3, <3>1, <3>3
  <2>  QED
    BY <2>2, <2>3
<1>7. PendAgrees' /\ CurAgrees'
  BY <1>6 DEF PendAgrees, CurAgrees, Sectors
<1>8. Ahead'
  <2>1. at \in Between /\ at' = at /\ at # "loop"
    BY <1>3 DEF Between
  <2>2. ASSUME NEW h \in heard', h \notin heard
        PROVE  /\ h[1] \in Lbas
               /\ h[1] >= next => h[1] \in Sectors(slot["cur"])
    <3>1. h[1] \in Sectors(slot[w])
      BY <1>5, <2>2
    <3>2. \A x \in Sectors(slot["pend"]) : x \in Nat /\ x \in Lbas /\ ~(x >= next)
      BY WhereSectors DEF Lbas
    <3>3. \A x \in Sectors(slot["cur"]) : x \in Lbas
      BY <2>1, WhereSectors
    <3>  QED
      BY <3>1, <3>2, <3>3
  <2>  QED
    BY <1>3, <1>4, <2>1, <2>2 DEF Heard, Ahead, FreshSays, Sectors
<1>9. InHand'
  BY <1>3 DEF Heard, InHand
<1>  QED
  BY <1>7, <1>8, <1>9 DEF Heard

\* consensus and anchor_position.
LEMMA HeardJob ==
  ASSUME IInv, Heard, Reread \/ RereadsSpent \/ Anchor \/ AnchorSpent
  PROVE  Heard'
<1>1. /\ at \in Between /\ at' = at /\ UNCHANGED <<who, next, ext, fresh, heard, req>>
  BY DEF Reread, RereadsSpent, Anchor, AnchorSpent, Settling, delivery, history, options,
         Between
<1>2. \/ \E new : Continue(new)
      \/ \E c : Settled(Replaced(who, job.s, c))
      \/ Settled(Suspect(who, job.s))
  <2>1. CASE Reread
    BY <2>1, Zenon DEF Reread
  <2>2. CASE RereadsSpent
    BY <2>2, Zenon DEF RereadsSpent
  <2>3. CASE Anchor
    BY <2>3, Zenon DEF Anchor
  <2>4. CASE AnchorSpent
    BY <2>4, Zenon DEF AnchorSpent
  <2>  QED
    BY <2>1, <2>2, <2>3, <2>4
<1>3. CASE \E new : Continue(new)
  <2>1. slot' = slot /\ todo' = todo
    BY <1>3 DEF Continue
  <2>  QED
    BY <1>1, <2>1, HeardMark
<1>4. ASSUME NEW c, Settled(Replaced(who, job.s, c)) PROVE Heard'
  <2>1. slot' \in {Replaced(who, job.s, c), Suspect(who, job.s)} /\ todo' = todo \ {job.s}
    BY <1>4 DEF Settled
  <2>  QED
    BY <1>1, <2>1, HeardMark
<1>5. CASE Settled(Suspect(who, job.s))
  <2>1. slot' \in {Replaced(who, job.s, job), Suspect(who, job.s)} /\ todo' = todo \ {job.s}
    BY <1>5 DEF Settled
  <2>  QED
    BY <1>1, <2>1, HeardMark
<1>  QED
  BY <1>2, <1>3, <1>4, <1>5

\* A reread for position keeps it.
LEMMA HeardQposRescue == IInv /\ Heard /\ QposRescue => Heard'
<1>  SUFFICES ASSUME IInv, Heard, QposRescue PROVE Heard'
  OBVIOUS
<1>1. /\ at \in Between /\ at' = at /\ UNCHANGED <<who, next, ext, fresh, heard, req>>
      /\ who = "cur"
  BY DEF QposRescue, delivery, history, options, Between, Heard, InHand
<1>2. PICK s, c : slot' \in {Replaced("cur", s, c), Suspect("cur", s)} /\ todo' = todo \ {s}
  <2>1. /\ todo' = todo \ {Min(todo)}
        /\ \/ \E c : slot' = Replaced("cur", Min(todo), c)
           \/ slot' = Suspect("cur", Min(todo))
    BY Zenon DEF QposRescue
  <2>  QED
    BY <2>1
<1>  QED
  BY <1>1, <1>2, HeardMark

\* Beginning to settle a sector keeps it.
LEMMA HeardSettle == IInv /\ Heard /\ Settle => Heard'
<1>  SUFFICES ASSUME IInv, Heard, Settle PROVE Heard'
  OBVIOUS
<1>1. /\ at \in Between /\ at' = at /\ UNCHANGED <<who, next, ext, fresh, heard, req>>
      /\ slot' = slot /\ todo' = todo
  BY DEF Settle, Settling, delivery, history, options, Between
<1>  QED
  BY <1>1, HeardMark

\* So do the steps that only decide what to do next.
LEMMA HeardLook ==
  ASSUME IInv, Heard, LatchC2 \/ C2Spent \/ C2Done \/ VerifyDone \/ WidenDone
  PROVE  Heard'
<1>1. /\ at \in Between \ {"qpos"} /\ at' \in Between \ {"qpos"}
      /\ UNCHANGED <<next, ext, fresh, heard, req>>
      /\ Settling => todo = {}
  BY DEF LatchC2, C2Spent, C2Done, VerifyDone, WidenDone, AllSettled, Settling, delivery,
         history, options, Between
<1>2. \A v \in {"cur", "pend"} : /\ slot'[v].data = slot[v].data
                                 /\ slot'[v].recov = slot[v].recov
                                 /\ slot'[v].susp = slot[v].susp
  <2>1. CASE VerifyDone
    BY <2>1 DEF VerifyDone, IInv, Shape, ChunkFields
  <2>2. CASE ~VerifyDone
    <3>1. slot' = slot
      BY <2>2 DEF LatchC2, C2Spent, C2Done, WidenDone
    <3>  QED
      BY <3>1
  <2>  QED
    BY <2>1, <2>2
<1>  QED
  BY <1>1, <1>2, HeardOn

\* The chunk in hand becomes the one held back; what its extension said is what the
\* next one will be compared with.
LEMMA HeardDeliver == IInv /\ Heard /\ Deliver => Heard'
<1>  SUFFICES ASSUME IInv, Heard, Deliver PROVE Heard'
  OBVIOUS
<1>1. /\ slot' = [cur |-> Empty, pend |-> slot["cur"]] /\ at' = "loop" /\ at = "deliver"
      /\ ext' = fresh /\ next' = Advanced /\ req' = req
      /\ heard' \subseteq heard
  BY DEF Deliver, NextChunk, Publish, options
<1>2. PICK n \in 1 .. Chunk : /\ Advanced = next + n /\ next + n <= Count
                              /\ Sectors(slot["cur"]) = next .. next + n - 1
  BY <1>1, AdvancedBy DEF Between
<1>3. next \in Nat /\ Count \in Nat /\ Chunk \in Nat
  BY SizeAssumption DEF IInv, Places
<1>4. next' = next + n
  BY <1>1, <1>2
<1>5. PendAgrees'
  <2>  SUFFICES ASSUME NEW t \in Sectors(slot["cur"]), (Unmarked(slot["pend"], t))',
                       NEW h \in heard, h[1] = t
                PROVE  h[2] = slot["cur"].data[t].audio
    BY <1>1 DEF PendAgrees, Sectors
  <2>1. Unmarked(slot["cur"], t)
    <3>1. slot'["pend"] = slot["cur"] /\ req' = req
      BY <1>1
    <3>  QED
      BY <3>1 DEF Unmarked, Bits
  <2>2. ~Pending("cur", t) /\ at \in Between /\ at # "qpos"
    BY <1>1 DEF Pending, Settling, Between
  <2>  QED
    BY <2>1, <2>2 DEF Heard, CurAgrees
<1>6. CurAgrees' /\ InHand'
  BY <1>1 DEF CurAgrees, InHand, Heard, Between
<1>7. Ahead'
  <2>1. ASSUME NEW h \in heard, h[1] >= next'
        PROVE  FreshSays(h) /\ h[1] < next' + Chunk
    <3>1. h[1] \in Int
      BY <1>3 DEF Heard, Ahead, Lbas
    <3>2. h[1] >= next /\ h[1] \notin Sectors(slot["cur"])
      BY <1>2, <1>3, <1>4, <2>1, <3>1
    <3>3. FreshSays(h) /\ h[1] - Chunk \in Sectors(slot["cur"])
      BY <1>1, <3>2 DEF Heard, Ahead, Between
    <3>  QED
      BY <1>2, <1>3, <1>4, <3>1, <3>3
  <2>2. \A h \in heard : (ExtSays(h))' <=> FreshSays(h)
    BY <1>1 DEF ExtSays, FreshSays
  <2>3. at' = "loop" /\ at' \notin Between
    BY <1>1 DEF Between
  <2>  QED
    BY <1>1, <2>1, <2>2, <2>3 DEF Heard, Ahead, Lbas
<1>  QED
  BY <1>5, <1>6, <1>7 DEF Heard

\* A read that ends holds back what it held, or nothing.
LEMMA HeardEnd == IInv /\ Heard /\ (Cancel \/ DeliverRefused \/ DeliverLast) => Heard'
<1>  SUFFICES ASSUME IInv, Heard, Cancel \/ DeliverRefused \/ DeliverLast PROVE Heard'
  OBVIOUS
<1>1. /\ at' = "done" /\ heard' \subseteq heard /\ req' = req
      /\ slot'["pend"] = Empty \/ (slot' = slot /\ at = "loop" /\ heard' = heard)
  <2>1. CASE Cancel
    BY <2>1 DEF Cancel, history
  <2>2. CASE DeliverRefused \/ DeliverLast
    BY <2>2 DEF DeliverRefused, DeliverLast, Refused, Publish, IInv, Shape
  <2>  QED
    BY <2>1, <2>2
<1>2. PendAgrees'
  <2>1. CASE slot'["pend"] = Empty
    <3>1. DOMAIN slot'["pend"].data = {}
      BY <2>1, EmptyFields DEF Sectors
    <3>  QED
      BY <3>1 DEF PendAgrees, Sectors
  <2>2. CASE slot' = slot /\ at = "loop" /\ heard' = heard
    <3>1. \A t : ~Pending("pend", t)
                 /\ (Unmarked(slot["pend"], t) <=> (Unmarked(slot["pend"], t))')
      BY <1>1, <2>2 DEF Pending, Settling, Unmarked, Bits
    <3>  QED
      BY <2>2, <3>1 DEF Heard, PendAgrees, Sectors
  <2>  QED
    BY <1>1, <2>1, <2>2
<1>3. CurAgrees' /\ Ahead' /\ InHand'
  BY <1>1 DEF CurAgrees, Ahead, InHand, Heard, Between, Lbas
<1>  QED
  BY <1>2, <1>3 DEF Heard

\* So does every step.
LEMMA HeardNext == IInv /\ Heard /\ [Next]_vars => Heard'
<1>  SUFFICES ASSUME IInv, Heard, [Next]_vars PROVE Heard'
  OBVIOUS
<1>1. CASE VerifyPass \/ WitnessPend \/ WitnessCur
  BY <1>1, HeardWitness DEF VerifyPass, WitnessPend, WitnessCur, AllSettled
<1>2. CASE UNCHANGED vars
  <2>1. UNCHANGED <<slot, who, todo, next, ext, fresh, heard, at, req>>
    BY <1>2 DEF vars, delivery, options, history
  <2>  QED
    BY <2>1 DEF Heard, PendAgrees, CurAgrees, Ahead, InHand, Sectors, Unmarked, Bits, Pending,
                Settling, ExtSays, FreshSays, Lbas
<1>3. CASE LatchC2 \/ C2Spent \/ C2Done \/ VerifyDone \/ WidenDone
  BY <1>3, HeardLook
<1>4. CASE Reread \/ RereadsSpent \/ Anchor \/ AnchorSpent
  BY <1>4, HeardJob
<1>5. CASE ReadChunk \/ QposRescue \/ SeamCheck \/ Settle \/ C2Rescue
  BY <1>5, HeardReadChunk, HeardQposRescue, HeardSeamCheck, HeardSettle, HeardC2Rescue
<1>6. CASE Deliver \/ Cancel \/ DeliverRefused \/ DeliverLast
  BY <1>6, HeardDeliver, HeardEnd
<1>  QED
  BY <1>1, <1>2, <1>3, <1>4, <1>5, <1>6 DEF Next, Terminated

------------------------------------------------------------------------------

\* publish: a sector is labelled OK only when no transfer of it was ever heard to
\* differ from the copy delivered.
THEOREM SpecOKMeansNoDisagreement == Spec => []OKMeansNoDisagreement
<1>1. ASSUME Heard PROVE OKMeansNoDisagreement
  <2>  SUFFICES ASSUME AtDelivery, NEW s \in Sectors(slot["pend"]),
                       Label(slot["pend"], s) = "ok", NEW h \in heard, h[1] = s
                PROVE  h[2] = slot["pend"].data[s].audio
    BY DEF OKMeansNoDisagreement
  <2>1. ~Pending("pend", s)
    BY DEF AtDelivery, Pending, Settling
  <2>2. slot["pend"].data[s] # Unread
    BY Zenon DEF Label
  <2>3. s \notin slot["pend"].susp
    BY <2>2, Zenon DEF Label
  <2>4. s \notin slot["pend"].recov
    BY <2>2, <2>3, Zenon DEF Label
  <2>5. s \notin Flagged(slot["pend"])
    BY <2>2, <2>3, <2>4, Zenon DEF Label
  <2>6. Unmarked(slot["pend"], s)
    BY <2>2, <2>3, <2>4, <2>5 DEF Unmarked, Flagged
  <2>  QED
    BY <1>1, <2>1, <2>6 DEF Heard, PendAgrees
<1>  QED
  BY <1>1, SpecInv, HeardInit, HeardNext, PTL DEF Spec

------------------------------------------------------------------------------
(* Second transfers.                                                       *)

\* The chunk was compared with its second transfer, and each sector was confirmed,
\* marked, or is still to be settled.
Whole(w) ==
  /\ DOMAIN slot[w].alt = Sectors(slot[w])
  /\ \A s \in Sectors(slot[w]) : \/ slot[w].data[s] = Unread
                                 \/ s \in slot[w].susp \cup slot[w].recov
                                 \/ Pending(w, s)
                                 \/ slot[w].alt[s].audio = slot[w].data[s].audio

\* What witnessed says is true; between the verify passes it is true already, and
\* before them nobody says it of the chunk in hand.
Witnessing ==
  /\ \A w \in {"cur", "pend"} : slot[w].witnessed => Whole(w)
  /\ at = "verify" /\ pass > 1 => Whole("cur")
  /\ at \in {"qpos", "seam", "c2", "verify"} => ~slot["cur"].witnessed

\* A chunk stays so when what changes is marked.
LEMMA WholeKept ==
  ASSUME NEW v \in {"cur", "pend"}, Whole(v),
         slot'[v].alt = slot[v].alt, Sectors(slot'[v]) = Sectors(slot[v]),
         slot[v].susp \cup slot[v].recov \subseteq slot'[v].susp \cup slot'[v].recov,
         \A t \in Sectors(slot[v]) :
           \/ t \in slot'[v].susp \cup slot'[v].recov
           \/ slot'[v].data[t] = slot[v].data[t] /\ (Pending(v, t) => (Pending(v, t))')
  PROVE  (Whole(v))'
<1>  SUFFICES ASSUME NEW t \in Sectors(slot[v])
              PROVE  \/ slot'[v].data[t] = Unread
                     \/ t \in slot'[v].susp \cup slot'[v].recov
                     \/ (Pending(v, t))'
                     \/ slot'[v].alt[t].audio = slot'[v].data[t].audio
  BY DEF Whole, Sectors
<1>1. CASE t \in slot'[v].susp \cup slot'[v].recov
  BY <1>1
<1>2. CASE slot'[v].data[t] = slot[v].data[t] /\ (Pending(v, t) => (Pending(v, t))')
  <2>1. \/ slot[v].data[t] = Unread
        \/ t \in slot[v].susp \cup slot[v].recov
        \/ Pending(v, t)
        \/ slot[v].alt[t].audio = slot[v].data[t].audio
    BY DEF Whole
  <2>2. CASE slot[v].data[t] = Unread
    BY <1>2, <2>2
  <2>3. CASE t \in slot[v].susp \cup slot[v].recov
    BY <2>3
  <2>4. CASE Pending(v, t)
    BY <1>2, <2>4
  <2>5. CASE slot[v].alt[t].audio = slot[v].data[t].audio
    BY <1>2, <2>5
  <2>  QED
    BY <2>1, <2>2, <2>3, <2>4, <2>5
<1>  QED
  BY <1>1, <1>2

\* Replacing or suspecting a sector leaves a chunk Whole, since it is marked.
LEMMA WholeMark ==
  ASSUME Shape, at' = at, who' = who, NEW s, NEW c,
         \/ slot' = slot /\ todo' = todo
         \/ slot' = Replaced(who, s, c) /\ todo' = todo \ {s}
         \/ slot' = Suspect(who, s) /\ todo' = todo \ {s},
         NEW v \in {"cur", "pend"}
  PROVE  slot'[v].witnessed = slot[v].witnessed /\ (Whole(v) => (Whole(v))')
<1>1. /\ who \in {"cur", "pend"} /\ DOMAIN slot = {"cur", "pend"}
      /\ DOMAIN slot["cur"] = ChunkFields /\ DOMAIN slot["pend"] = ChunkFields
  BY DEF Shape
<1>6. PICK w \in {"cur", "pend"} : w = who
  BY <1>1
<1>2. \A t : (Pending(v, t))' <=> (Settling /\ w = v /\ t \in todo')
  BY <1>6 DEF Pending, Settling
<1>3. CASE slot' = slot /\ todo' = todo
  <2>1. \A t : Pending(v, t) => (Pending(v, t))'
    BY <1>2, <1>3, <1>6 DEF Pending
  <2>  QED
    BY <1>3, <2>1, WholeKept
<1>4. CASE slot' = Replaced(who, s, c) /\ todo' = todo \ {s}
  <2>1. /\ slot'[v].alt = slot[v].alt /\ slot'[v].witnessed = slot[v].witnessed
        /\ Sectors(slot'[v]) = Sectors(slot[v])
        /\ slot'[v].susp = slot[v].susp
        /\ slot'[v].recov = IF v = w THEN slot[v].recov \cup {s} ELSE slot[v].recov
        /\ \A t \in Sectors(slot[v]) : ~(v = w /\ t = s) => slot'[v].data[t] = slot[v].data[t]
    <3>1. slot' = Replaced(w, s, c)
      BY <1>4, <1>6 DEF Replaced
    <3>  QED
      BY <1>1, <3>1 DEF Replaced, ChunkFields, Sectors
  <2>2. \A t : Pending(v, t) /\ ~(v = w /\ t = s) => (Pending(v, t))'
    BY <1>2, <1>4, <1>6 DEF Pending
  <2>3. v = w => s \in slot'[v].susp \cup slot'[v].recov
    BY <2>1
  <2>4. slot[v].susp \cup slot[v].recov \subseteq slot'[v].susp \cup slot'[v].recov
    BY <2>1
  <2>5. ASSUME NEW t \in Sectors(slot[v])
        PROVE  \/ t \in slot'[v].susp \cup slot'[v].recov
               \/ slot'[v].data[t] = slot[v].data[t] /\ (Pending(v, t) => (Pending(v, t))')
    <3>1. CASE v = w /\ t = s
      BY <2>3, <3>1
    <3>2. CASE ~(v = w /\ t = s)
      BY <2>1, <2>2, <3>2
    <3>  QED
      BY <3>1, <3>2
  <2>6. Whole(v) => (Whole(v))'
    BY <2>1, <2>4, <2>5, WholeKept
  <2>  QED
    BY <2>1, <2>6
<1>5. CASE slot' = Suspect(who, s) /\ todo' = todo \ {s}
  <2>1. /\ slot'[v].alt = slot[v].alt /\ slot'[v].witnessed = slot[v].witnessed
        /\ slot'[v].data = slot[v].data /\ slot'[v].recov = slot[v].recov
        /\ slot'[v].susp = IF v = w THEN slot[v].susp \cup {s} ELSE slot[v].susp
    <3>1. slot' = Suspect(w, s)
      BY <1>5, <1>6 DEF Suspect
    <3>  QED
      BY <1>1, <3>1 DEF Suspect, ChunkFields
  <2>2. \A t : Pending(v, t) /\ ~(v = w /\ t = s) => (Pending(v, t))'
    BY <1>2, <1>5, <1>6 DEF Pending
  <2>3. v = w => s \in slot'[v].susp \cup slot'[v].recov
    BY <2>1
  <2>4. slot[v].susp \cup slot[v].recov \subseteq slot'[v].susp \cup slot'[v].recov
    BY <2>1
  <2>5. Sectors(slot'[v]) = Sectors(slot[v])
    BY <2>1 DEF Sectors
  <2>6. ASSUME NEW t \in Sectors(slot[v])
        PROVE  \/ t \in slot'[v].susp \cup slot'[v].recov
               \/ slot'[v].data[t] = slot[v].data[t] /\ (Pending(v, t) => (Pending(v, t))')
    <3>1. CASE v = w /\ t = s
      BY <2>3, <3>1
    <3>2. CASE ~(v = w /\ t = s)
      BY <2>1, <2>2, <3>2
    <3>  QED
      BY <3>1, <3>2
  <2>7. Whole(v) => (Whole(v))'
    BY <2>1, <2>4, <2>5, <2>6, WholeKept
  <2>  QED
    BY <2>1, <2>7
<1>  QED
  BY <1>3, <1>4, <1>5

\* A second transfer compares the whole chunk, and leaves the other chunk alone.
LEMMA WitnessedNow ==
  ASSUME Shape, todo = {}, Settling, NEW w \in {"cur", "pend"}, NEW done, WitnessPass(w, done)
  PROVE  /\ (Whole(w))' /\ slot'[w].witnessed = done /\ at' = at
         /\ \A v \in {"cur", "pend"} \ {w} :
              slot'[v] = slot[v] /\ (Whole(v) => (Whole(v))')
<1>1. PICK f \in Transfers(Sectors(slot[w])) :
        /\ slot' = [slot EXCEPT ![w].alt = f, ![w].witnessed = done]
        /\ todo' = WitnessDiffs(slot[w], f)
  BY DEF WitnessPass
<1>2. DOMAIN f = Sectors(slot[w]) /\ at' = at /\ who' = w
  BY DEF Transfers, Answers, WitnessPass
<1>3. /\ slot'[w].data = slot[w].data /\ slot'[w].susp = slot[w].susp
      /\ slot'[w].recov = slot[w].recov
      /\ slot'[w].alt = f /\ slot'[w].witnessed = done
  BY <1>1 DEF Shape, ChunkFields
<1>4. (Whole(w))'
  <2>  SUFFICES ASSUME NEW s \in Sectors(slot[w]), slot[w].data[s] # Unread,
                       s \notin slot[w].susp, f[s].audio # slot[w].data[s].audio
                PROVE  (Pending(w, s))'
    BY <1>2, <1>3 DEF Whole, Sectors
  <2>1. s \in todo'
    BY <1>1 DEF WitnessDiffs
  <2>  QED
    BY <1>2, <2>1 DEF Pending, Settling
<1>5. ASSUME NEW v \in {"cur", "pend"} \ {w}
      PROVE  slot'[v] = slot[v] /\ (Whole(v) => (Whole(v))')
  <2>1. slot'[v] = slot[v]
    BY <1>1 DEF Shape
  <2>2. \A t : ~Pending(v, t)
    BY DEF Pending
  <2>3. Whole(v) => (Whole(v))'
    BY <2>1, <2>2, WholeKept
  <2>  QED
    BY <2>1, <2>3
<1>  QED
  BY <1>2, <1>3, <1>4, <1>5

\* Steps at which no sector waits and that leave a chunk as it is.
LEMMA WholeOn ==
  ASSUME NEW v \in {"cur", "pend"}, ~Settling \/ todo = {},
         slot'[v].alt = slot[v].alt, slot'[v].data = slot[v].data,
         slot[v].susp \cup slot[v].recov \subseteq slot'[v].susp \cup slot'[v].recov
  PROVE  Whole(v) => (Whole(v))'
<1>1. \A t : ~Pending(v, t)
  BY DEF Pending
<1>2. Sectors(slot'[v]) = Sectors(slot[v])
  BY DEF Sectors
<1>  QED
  BY <1>1, <1>2, WholeKept

\* Witnessing holds at the start.
LEMMA WitnessingInit == Init => Witnessing
  BY DEF Init, Witnessing, Empty

\* The steps of a settling job keep it.
LEMMA WitnessingJob ==
  ASSUME Shape, Witnessing, Settle \/ Reread \/ RereadsSpent \/ Anchor \/ AnchorSpent
  PROVE  Witnessing'
<1>1. at' = at /\ who' = who /\ pass' = pass
  BY DEF Settle, Reread, RereadsSpent, Anchor, AnchorSpent, flags
<1>2. \/ slot' = slot /\ todo' = todo
      \/ \E c : Settled(Replaced(who, job.s, c))
      \/ Settled(Suspect(who, job.s))
  <2>1. CASE Reread
    BY <2>1, Zenon DEF Reread, Continue
  <2>2. CASE RereadsSpent
    BY <2>2, Zenon DEF RereadsSpent, Continue
  <2>3. CASE Anchor
    BY <2>3, Zenon DEF Anchor, Continue
  <2>4. CASE AnchorSpent
    BY <2>4, Zenon DEF AnchorSpent
  <2>5. CASE Settle
    BY <2>5 DEF Settle
  <2>  QED
    BY <2>1, <2>2, <2>3, <2>4, <2>5
<1>3. ASSUME NEW v \in {"cur", "pend"}
      PROVE  slot'[v].witnessed = slot[v].witnessed /\ (Whole(v) => (Whole(v))')
  <2>1. CASE slot' = slot /\ todo' = todo
    BY <1>1, <2>1, WholeMark
  <2>2. ASSUME NEW c, Settled(Replaced(who, job.s, c))
        PROVE  slot'[v].witnessed = slot[v].witnessed /\ (Whole(v) => (Whole(v))')
    <3>1. slot' = Replaced(who, job.s, c) /\ todo' = todo \ {job.s}
      BY <2>2 DEF Settled
    <3>  QED
      BY <1>1, <3>1, WholeMark
  <2>3. CASE Settled(Suspect(who, job.s))
    <3>1. slot' = Suspect(who, job.s) /\ todo' = todo \ {job.s}
      BY <2>3 DEF Settled
    <3>  QED
      BY <1>1, <3>1, WholeMark
  <2>  QED
    BY <1>2, <2>1, <2>2, <2>3
<1>  QED
  BY <1>1, <1>3 DEF Witnessing

\* Reading a chunk and the rescues of it keep it.
LEMMA WitnessingRead ==
  ASSUME Shape, Witnessing, ReadChunk \/ QposRescue \/ C2Rescue
  PROVE  Witnessing'
<1>1. /\ at \in {"loop", "qpos", "c2"} /\ at' \in {"qpos", "c2"} /\ ~Settling
      /\ at' = "c2" => at = "c2"
      /\ at' = "qpos" => at = "qpos" \/ ReadChunk
  BY DEF ReadChunk, QposRescue, C2Rescue, Settling
<1>2. slot'["pend"] = slot["pend"]
  <2>1. CASE ReadChunk
    BY <2>1 DEF ReadChunk, Shape
  <2>2. CASE QposRescue
    <3>1. \E s, c : slot' \in {Replaced("cur", s, c), Suspect("cur", s)}
      BY <2>2, Zenon DEF QposRescue
    <3>  QED
      BY <3>1 DEF Replaced, Suspect, Shape
  <2>3. CASE C2Rescue
    <3>1. \E s, c : slot' \in {slot, Replaced("cur", s, c), [slot EXCEPT !["cur"].data[s] = c]}
      BY <2>3, Zenon DEF C2Rescue
    <3>  QED
      BY <3>1 DEF Replaced, Shape
  <2>  QED
    BY <2>1, <2>2, <2>3
<1>3. ~slot'["cur"].witnessed
  <2>1. CASE ReadChunk
    <3>1. PICK d : slot' = [slot EXCEPT !["cur"] = [Empty EXCEPT !.data = d, !.prim = d]]
      BY <2>1 DEF ReadChunk
    <3>  QED
      BY <3>1 DEF Shape, Empty
  <2>2. CASE QposRescue
    <3>1. \E s, c : slot' \in {Replaced("cur", s, c), Suspect("cur", s)}
      BY <2>2, Zenon DEF QposRescue
    <3>2. slot'["cur"].witnessed = slot["cur"].witnessed
      BY <3>1 DEF Replaced, Suspect, Shape, ChunkFields
    <3>  QED
      BY <2>2, <3>2 DEF Witnessing, QposRescue
  <2>3. CASE C2Rescue
    <3>1. \E s, c : slot' \in {slot, Replaced("cur", s, c), [slot EXCEPT !["cur"].data[s] = c]}
      BY <2>3, Zenon DEF C2Rescue
    <3>2. slot'["cur"].witnessed = slot["cur"].witnessed
      BY <3>1 DEF Replaced, Shape, ChunkFields
    <3>  QED
      BY <2>3, <3>2 DEF Witnessing, C2Rescue
  <2>  QED
    BY <2>1, <2>2, <2>3
<1>4. Whole("pend") => (Whole("pend"))'
  BY <1>1, <1>2, WholeOn
<1>  QED
  BY <1>1, <1>2, <1>3, <1>4 DEF Witnessing

\* The checks between them keep it.
LEMMA WitnessingLook ==
  ASSUME Shape, Witnessing,
         SeamCheck \/ LatchC2 \/ C2Spent \/ C2Done \/ VerifyDone \/ WidenDone
  PROVE  Witnessing'
<1>1. ~Settling \/ todo = {}
  BY DEF SeamCheck, LatchC2, C2Spent, C2Done, VerifyDone, WidenDone, Settling, AllSettled
<1>2. \A v \in {"cur", "pend"} : /\ slot'[v].alt = slot[v].alt /\ slot'[v].data = slot[v].data
                                 /\ slot'[v].susp = slot[v].susp
                                 /\ slot'[v].recov = slot[v].recov
  <2>1. CASE VerifyDone
    BY <2>1 DEF VerifyDone, Shape, ChunkFields
  <2>2. CASE ~VerifyDone
    <3>1. slot' = slot
      BY <2>2 DEF SeamCheck, LatchC2, C2Spent, C2Done, WidenDone
    <3>  QED
      BY <3>1
  <2>  QED
    BY <2>1, <2>2
<1>3. \A v \in {"cur", "pend"} : Whole(v) => (Whole(v))'
  BY <1>1, <1>2, WholeOn
<1>4. CASE VerifyDone
  <2>1. /\ at = "verify" /\ at' = "widen" /\ pass = req.passes
        /\ slot'["cur"].witnessed = (req.passes > 1)
        /\ slot'["pend"].witnessed = slot["pend"].witnessed
    BY <1>4 DEF VerifyDone, Shape, ChunkFields
  <2>2. slot'["cur"].witnessed => pass > 1
    BY <2>1
  <2>  QED
    BY <1>3, <2>1, <2>2 DEF Witnessing
<1>5. CASE ~VerifyDone
  <2>1. /\ slot' = slot
        /\ at' \in {"seam", "c2", "verify"} => at \in {"qpos", "seam", "c2"}
        /\ at' = "verify" => pass' = 1
        /\ at' # "qpos"
    BY <1>5 DEF SeamCheck, LatchC2, C2Spent, C2Done, WidenDone
  <2>2. ~(1 > 1)
    OBVIOUS
  <2>  QED
    BY <1>3, <2>1, <2>2 DEF Witnessing
<1>  QED
  BY <1>4, <1>5

\* The passes that do the witnessing keep it.
LEMMA WitnessingWitness ==
  ASSUME Shape, Witnessing, VerifyPass \/ WitnessPend \/ WitnessCur
  PROVE  Witnessing'
<1>1. CASE VerifyPass
  <2>1. /\ (Whole("cur"))' /\ slot'["cur"].witnessed = FALSE /\ at' = at
        /\ slot'["pend"] = slot["pend"] /\ (Whole("pend") => (Whole("pend"))')
    BY <1>1, WitnessedNow DEF VerifyPass, AllSettled, Settling
  <2>  QED
    BY <2>1 DEF Witnessing
<1>2. CASE WitnessPend
  <2>1. /\ (Whole("pend"))' /\ at' = at /\ at = "widen"
        /\ slot'["cur"] = slot["cur"] /\ (Whole("cur") => (Whole("cur"))')
    BY <1>2, WitnessedNow DEF WitnessPend, AllSettled, Settling
  <2>  QED
    BY <2>1 DEF Witnessing
<1>3. CASE WitnessCur
  <2>1. /\ (Whole("cur"))' /\ at' = at /\ at = "widen"
        /\ slot'["pend"] = slot["pend"] /\ (Whole("pend") => (Whole("pend"))')
    BY <1>3, WitnessedNow DEF WitnessCur, AllSettled, Settling
  <2>  QED
    BY <2>1 DEF Witnessing
<1>  QED
  BY <1>1, <1>2, <1>3

\* Delivery keeps it, as does the end of the read.
LEMMA WitnessingDeliver ==
  ASSUME Shape, Witnessing, Deliver \/ DeliverRefused \/ DeliverLast \/ Cancel
  PROVE  Witnessing'
<1>1. at \in {"deliver", "loop"} /\ at' \in {"loop", "done"} /\ ~Settling
  BY DEF Deliver, NextChunk, DeliverRefused, DeliverLast, Refused, Cancel, Settling
<1>2. CASE Deliver
  <2>1. slot' = [cur |-> Empty, pend |-> slot["cur"]]
    BY <1>2 DEF Deliver, NextChunk
  <2>2. slot'["pend"] = slot["cur"] /\ ~slot'["cur"].witnessed
    BY <2>1 DEF Empty
  <2>3. \A t : ~Pending("cur", t)
    BY <1>1 DEF Pending
  <2>4. Whole("cur") => (Whole("pend"))'
    BY <2>2, <2>3 DEF Whole, Sectors
  <2>  QED
    BY <1>1, <2>2, <2>4 DEF Witnessing
<1>3. CASE ~Deliver
  <2>1. /\ slot'["cur"] = slot["cur"]
        /\ slot'["pend"] = Empty \/ slot'["pend"] = slot["pend"]
    BY <1>3 DEF DeliverRefused, DeliverLast, Refused, Cancel, Shape
  <2>2. ~Empty.witnessed
    BY DEF Empty
  <2>3. Whole("cur") => (Whole("cur"))'
    BY <1>1, <2>1, WholeOn
  <2>4. CASE slot'["pend"] = Empty
    BY <1>1, <2>1, <2>2, <2>3, <2>4 DEF Witnessing
  <2>5. CASE slot'["pend"] = slot["pend"]
    <3>1. Whole("pend") => (Whole("pend"))'
      BY <1>1, <2>5, WholeOn
    <3>  QED
      BY <1>1, <2>1, <2>3, <2>5, <3>1 DEF Witnessing
  <2>  QED
    BY <2>1, <2>4, <2>5
<1>  QED
  BY <1>2, <1>3

\* So every step does.
LEMMA WitnessingNext == IInv /\ Witnessing /\ [Next]_vars => Witnessing'
<1>  SUFFICES ASSUME IInv, Witnessing, [Next]_vars PROVE Witnessing'
  OBVIOUS
<1>1. Shape
  BY DEF IInv
<1>2. CASE UNCHANGED vars
  <2>1. UNCHANGED <<slot, who, todo, at, pass>>
    BY <1>2 DEF vars, flags
  <2>  QED
    BY <2>1 DEF Witnessing, Whole, Pending, Settling, Sectors
<1>3. CASE Settle \/ Reread \/ RereadsSpent \/ Anchor \/ AnchorSpent
  BY <1>1, <1>3, WitnessingJob
<1>4. CASE ReadChunk \/ QposRescue \/ C2Rescue
  BY <1>1, <1>4, WitnessingRead
<1>5. CASE SeamCheck \/ LatchC2 \/ C2Spent \/ C2Done \/ VerifyDone \/ WidenDone
  BY <1>1, <1>5, WitnessingLook
<1>6. CASE VerifyPass \/ WitnessPend \/ WitnessCur
  BY <1>1, <1>6, WitnessingWitness
<1>7. CASE Deliver \/ DeliverRefused \/ DeliverLast \/ Cancel
  BY <1>1, <1>7, WitnessingDeliver
<1>  QED
  BY <1>2, <1>3, <1>4, <1>5, <1>6, <1>7 DEF Next, Terminated

------------------------------------------------------------------------------
(* What condemns.                                                          *)

\* The history is that of chunks begun, the flags of this iteration are in it, and
\* only the last chunk is short.
Triggers ==
  /\ \A l \in badseams \cup latched : l \in Nat /\ l <= next
  /\ at \in {"loop", "qpos"} => next \notin badseams
  /\ at \in {"loop", "qpos", "seam"} => next \notin latched
  /\ at \in {"seam", "c2", "verify", "widen"} /\ next \in badseams => seam_bad
  /\ at \in {"c2", "verify", "widen"} /\ next \in latched => c2_hit
  /\ /\ at \in {"loop", "qpos", "seam", "c2", "verify", "widen"}
     /\ next < Count /\ req.c2_witness /\ next - Chunk \in latched
     => witness_next
  /\ at = "deliver" /\ req.c2_witness /\ next \in latched => witness_next
  /\ at \in Between => \/ next + Chunk - 1 \in Sectors(slot["cur"])
                       \/ Count - 1 \in Sectors(slot["cur"])

\* The steps between reading a chunk and delivering it leave it its sectors.
LEMMA SameSectors ==
  ASSUME Shape,
         \/ QposRescue \/ SeamCheck \/ Settle \/ Reread \/ RereadsSpent \/ Anchor \/ AnchorSpent
         \/ LatchC2 \/ C2Rescue \/ C2Spent \/ C2Done
         \/ VerifyPass \/ VerifyDone \/ WitnessPend \/ WitnessCur \/ WidenDone
  PROVE  /\ Sectors(slot'["cur"]) = Sectors(slot["cur"])
         /\ slot["pend"].witnessed => slot'["pend"].witnessed
<1>1. /\ DOMAIN slot = {"cur", "pend"} /\ who \in {"cur", "pend"}
      /\ DOMAIN slot["cur"] = ChunkFields /\ DOMAIN slot["pend"] = ChunkFields
  BY DEF Shape
<1>2. ASSUME NEW w \in {"cur", "pend"}, NEW s, NEW c, slot' = Replaced(w, s, c)
      PROVE  /\ Sectors(slot'["cur"]) = Sectors(slot["cur"])
             /\ slot["pend"].witnessed => slot'["pend"].witnessed
  BY <1>1, <1>2 DEF Replaced, ChunkFields, Sectors
<1>3. ASSUME NEW w \in {"cur", "pend"}, NEW s, slot' = Suspect(w, s)
      PROVE  /\ Sectors(slot'["cur"]) = Sectors(slot["cur"])
             /\ slot["pend"].witnessed => slot'["pend"].witnessed
  BY <1>1, <1>3 DEF Suspect, ChunkFields, Sectors
<1>4. ASSUME NEW s, NEW c, slot' = [slot EXCEPT !["cur"].data[s] = c]
      PROVE  /\ Sectors(slot'["cur"]) = Sectors(slot["cur"])
             /\ slot["pend"].witnessed => slot'["pend"].witnessed
  BY <1>1, <1>4 DEF ChunkFields, Sectors
<1>5. CASE slot' = slot
  BY <1>5
<1>6. CASE QposRescue \/ C2Rescue
  <2>1. \E s, c : \/ slot' = slot \/ slot' = Replaced("cur", s, c) \/ slot' = Suspect("cur", s)
                  \/ slot' = [slot EXCEPT !["cur"].data[s] = c]
    <3>1. CASE QposRescue
      BY <3>1, Zenon DEF QposRescue
    <3>2. CASE C2Rescue
      BY <3>2, Zenon DEF C2Rescue
    <3>  QED
      BY <1>6, <3>1, <3>2
  <2>  QED
    BY <1>2, <1>3, <1>4, <1>5, <2>1
<1>7. CASE Reread \/ RereadsSpent \/ Anchor \/ AnchorSpent
  <2>1. \E s, c : slot' = slot \/ slot' = Replaced(who, s, c) \/ slot' = Suspect(who, s)
    <3>1. CASE Reread
      BY <3>1, Zenon DEF Reread, Continue, Settled
    <3>2. CASE RereadsSpent
      BY <3>2, Zenon DEF RereadsSpent, Continue, Settled
    <3>3. CASE Anchor
      BY <3>3, Zenon DEF Anchor, Continue, Settled
    <3>4. CASE AnchorSpent
      BY <3>4, Zenon DEF AnchorSpent, Settled
    <3>  QED
      BY <1>7, <3>1, <3>2, <3>3, <3>4
  <2>2. PICK s, c : slot' = slot \/ slot' = Replaced(who, s, c) \/ slot' = Suspect(who, s)
    BY <2>1
  <2>3. CASE who = "cur"
    <3>1. slot' = slot \/ slot' = Replaced("cur", s, c) \/ slot' = Suspect("cur", s)
      BY <2>2, <2>3 DEF Replaced, Suspect
    <3>  QED
      BY <1>2, <1>3, <1>5, <3>1
  <2>4. CASE who = "pend"
    <3>1. slot' = slot \/ slot' = Replaced("pend", s, c) \/ slot' = Suspect("pend", s)
      BY <2>2, <2>4 DEF Replaced, Suspect
    <3>  QED
      BY <1>2, <1>3, <1>5, <3>1
  <2>  QED
    BY <1>1, <2>3, <2>4
<1>8. CASE VerifyPass \/ WitnessCur \/ WitnessPend
  <2>1. \/ \E f, b : slot' = [slot EXCEPT !["cur"].alt = f, !["cur"].witnessed = b]
        \/ \E f : slot' = [slot EXCEPT !["pend"].alt = f, !["pend"].witnessed = TRUE]
    BY <1>8 DEF VerifyPass, WitnessCur, WitnessPend, WitnessPass
  <2>2. CASE \E f, b : slot' = [slot EXCEPT !["cur"].alt = f, !["cur"].witnessed = b]
    BY <1>1, <2>2 DEF ChunkFields, Sectors
  <2>3. CASE \E f : slot' = [slot EXCEPT !["pend"].alt = f, !["pend"].witnessed = TRUE]
    <3>1. slot'["cur"] = slot["cur"] /\ slot'["pend"].witnessed = TRUE
      BY <1>1, <2>3 DEF ChunkFields
    <3>  QED
      BY <3>1
  <2>  QED
    BY <2>1, <2>2, <2>3
<1>9. CASE VerifyDone
  BY <1>1, <1>9 DEF VerifyDone, ChunkFields, Sectors
<1>10. CASE SeamCheck \/ Settle \/ LatchC2 \/ C2Spent \/ C2Done \/ WidenDone
  <2>1. slot' = slot
    BY <1>10 DEF SeamCheck, Settle, LatchC2, C2Spent, C2Done, WidenDone
  <2>  QED
    BY <1>5, <2>1
<1>  QED
  BY <1>6, <1>7, <1>8, <1>9, <1>10

\* Triggers holds at the start.
LEMMA TriggersInit == Init => Triggers
  BY DEF Init, Triggers, Between

\* Steps that change neither the flags nor the history.
LEMMA TriggersQuiet ==
  ASSUME Triggers, UNCHANGED <<at, next, req, badseams, latched, seam_bad, c2_hit, witness_next>>,
         Sectors(slot'["cur"]) = Sectors(slot["cur"])
  PROVE  Triggers'
  BY DEF Triggers, Sectors

\* A chunk begun adds to the history only itself.
LEMMA TriggersReadChunk == IInv /\ Triggers /\ ReadChunk => Triggers'
<1>  SUFFICES ASSUME IInv, Triggers, ReadChunk PROVE Triggers'
  OBVIOUS
<1>1. /\ next \in Nat /\ next < Count /\ Count \in Nat /\ Chunk \in Nat /\ Chunk >= 1
      /\ at = "loop" /\ at' = "qpos"
      /\ UNCHANGED <<next, req, badseams, latched, witness_next>>
  BY SizeAssumption DEF IInv, Places, ReadChunk, options, flags
<1>2. /\ ChunkLen \in 1 .. Chunk /\ next + ChunkLen <= Count
      /\ ChunkLen < Chunk => next + ChunkLen = Count
  BY <1>1, ChunkFits
<1>3. Sectors(slot'["cur"]) = next .. next + ChunkLen - 1
  <2>1. PICK d : /\ DOMAIN d = next .. next + ChunkLen - 1
                 /\ slot' = [slot EXCEPT !["cur"] = [Empty EXCEPT !.data = d, !.prim = d]]
    <3>1. PICK f : slot' = [slot EXCEPT !["cur"] =
                      [Empty EXCEPT !.data = Restrict(f, next .. next + ChunkLen - 1),
                                    !.prim = Restrict(f, next .. next + ChunkLen - 1)]]
      BY DEF ReadChunk
    <3>  QED
      BY <3>1 DEF Restrict
  <2>  QED
    BY <2>1, EmptyFields DEF IInv, Shape, ChunkFields, Sectors
<1>4. \/ next + Chunk - 1 \in Sectors(slot'["cur"])
      \/ Count - 1 \in Sectors(slot'["cur"])
  BY <1>1, <1>2, <1>3
<1>  QED
  BY <1>1, <1>4 DEF Triggers, Sectors

\* A check that finds something records it and raises its flag.
LEMMA TriggersCheck == IInv /\ Triggers /\ (SeamCheck \/ LatchC2) => Triggers'
<1>  SUFFICES ASSUME IInv, Triggers, SeamCheck \/ LatchC2 PROVE Triggers'
  OBVIOUS
<1>1. /\ slot' = slot /\ UNCHANGED <<next, req, witness_next>> /\ next \in Nat
  BY SizeAssumption DEF SeamCheck, LatchC2, delivery, options, IInv, Places
<1>2. CASE SeamCheck
  <2>1. /\ at = "qpos" /\ at' = "seam" /\ latched' = latched
        /\ badseams' = IF seam_bad' THEN badseams \cup {next} ELSE badseams
    BY <1>2 DEF SeamCheck
  <2>2. next \in badseams' => seam_bad'
    BY <2>1 DEF Triggers
  <2>3. \A l \in badseams' \cup latched' : l \in Nat /\ l <= next
    BY <1>1, <2>1 DEF Triggers
  <2>  QED
    BY <1>1, <2>1, <2>2, <2>3 DEF Triggers, Between, Sectors
<1>3. CASE LatchC2
  <2>1. /\ at = "seam" /\ at' = "c2" /\ badseams' = badseams /\ seam_bad' = seam_bad
        /\ latched' = IF c2_hit' THEN latched \cup {next} ELSE latched
    BY <1>3 DEF LatchC2
  <2>2. next \in latched' => c2_hit'
    BY <2>1 DEF Triggers
  <2>3. \A l \in badseams' \cup latched' : l \in Nat /\ l <= next
    BY <1>1, <2>1 DEF Triggers
  <2>4. next - Chunk \in latched' => next - Chunk \in latched
    BY <1>1, <2>1, SizeAssumption
  <2>  QED
    BY <1>1, <2>1, <2>2, <2>3, <2>4 DEF Triggers, Between, Sectors
<1>  QED
  BY <1>2, <1>3

\* The steps that pass a flag on keep it.
LEMMA TriggersOn ==
  ASSUME IInv, Triggers, C2Spent \/ C2Done \/ VerifyDone \/ WidenDone
  PROVE  Triggers'
<1>1. /\ UNCHANGED <<next, req, badseams, latched, seam_bad, c2_hit>>
      /\ at \in {"c2", "verify", "widen"}
  BY DEF C2Spent, C2Done, VerifyDone, WidenDone, delivery, options, history, flags
<1>2. Sectors(slot'["cur"]) = Sectors(slot["cur"])
  BY SameSectors DEF IInv
<1>3. CASE WidenDone
  <2>1. at = "widen" /\ at' = "deliver" /\ witness_next' = (req.c2_witness /\ c2_hit)
    BY <1>3 DEF WidenDone, C2Trig
  <2>  QED
    BY <1>1, <1>2, <2>1 DEF Triggers, Between, Sectors
<1>4. CASE ~WidenDone
  <2>1. witness_next' = witness_next /\ at' \in {"c2", "verify", "widen"}
    BY <1>4 DEF C2Spent, C2Done, VerifyDone, flags
  <2>  QED
    BY <1>1, <1>2, <2>1 DEF Triggers, Between, Sectors
<1>  QED
  BY <1>3, <1>4

\* The next chunk begins where this one ended, which is one whole chunk on.
LEMMA TriggersDeliver == IInv /\ Triggers /\ Deliver => Triggers'
<1>  SUFFICES ASSUME IInv, Triggers, Deliver PROVE Triggers'
  OBVIOUS
<1>1. /\ at = "deliver" /\ at' = "loop" /\ UNCHANGED <<req, badseams, latched, witness_next>>
      /\ next' = Advanced
  BY DEF Deliver, NextChunk, options, flags
<1>2. PICK n \in 1 .. Chunk : /\ next' = next + n
                              /\ Sectors(slot["cur"]) = next .. next + n - 1
  BY <1>1, AdvancedBy DEF Between
<1>3. next \in Nat /\ Count \in Nat /\ Chunk \in Nat
  BY SizeAssumption DEF IInv, Places
<1>4. next' < Count => next' - Chunk = next
  <2>1. \/ next + Chunk - 1 \in next .. next + n - 1
        \/ Count - 1 \in next .. next + n - 1
    BY <1>1, <1>2 DEF Triggers, Between
  <2>  QED
    BY <1>2, <1>3, <2>1
<1>5. \A l \in badseams \cup latched : l \in Nat /\ l <= next' /\ l # next'
  BY <1>2, <1>3 DEF Triggers
<1>6. at' \notin Between
  BY <1>1 DEF Between
<1>  QED
  BY <1>1, <1>4, <1>5, <1>6 DEF Triggers

\* So every step keeps it.
LEMMA TriggersNext == IInv /\ Triggers /\ [Next]_vars => Triggers'
<1>  SUFFICES ASSUME IInv, Triggers, [Next]_vars PROVE Triggers'
  OBVIOUS
<1>1. CASE UNCHANGED vars
  <2>1. /\ UNCHANGED <<at, next, req, badseams, latched, seam_bad, c2_hit, witness_next>>
        /\ Sectors(slot'["cur"]) = Sectors(slot["cur"])
    BY <1>1 DEF vars, options, flags, delivery, history
  <2>  QED
    BY <2>1, TriggersQuiet
<1>2. CASE \/ QposRescue \/ Settle \/ Reread \/ RereadsSpent \/ Anchor \/ AnchorSpent
           \/ C2Rescue \/ VerifyPass \/ WitnessPend \/ WitnessCur
  <2>1. UNCHANGED <<at, next, req, badseams, latched, seam_bad, c2_hit, witness_next>>
    BY <1>2 DEF QposRescue, Settle, Reread, RereadsSpent, Anchor, AnchorSpent, C2Rescue,
                VerifyPass, WitnessPend, WitnessCur, WitnessPass, options, flags, delivery,
                history
  <2>2. Sectors(slot'["cur"]) = Sectors(slot["cur"])
    BY <1>2, SameSectors DEF IInv
  <2>  QED
    BY <2>1, <2>2, TriggersQuiet
<1>3. CASE DeliverRefused \/ DeliverLast \/ Cancel
  <2>1. at' = "done" /\ UNCHANGED <<next, badseams, latched>>
    BY <1>3 DEF DeliverRefused, DeliverLast, Refused, Cancel, delivery, history
  <2>  QED
    BY <2>1 DEF Triggers, Between
<1>4. CASE C2Spent \/ C2Done \/ VerifyDone \/ WidenDone
  BY <1>4, TriggersOn
<1>5. CASE ReadChunk \/ SeamCheck \/ LatchC2 \/ Deliver
  BY <1>5, TriggersReadChunk, TriggersCheck, TriggersDeliver
<1>  QED
  BY <1>1, <1>2, <1>3, <1>4, <1>5 DEF Next, Terminated

------------------------------------------------------------------------------
(* What is condemned is witnessed.                                         *)

\* What a chunk beginning at l owes to its own flags and to those of the one before.
Condemned(l) == l \in badseams \/ (req.c2_witness /\ {l, l - Chunk} \cap latched # {})

Met ==
  /\ Live(slot["pend"]) /\ Condemned(Len(out)) => slot["pend"].witnessed
  /\ at = "deliver" /\ Condemned(next) => slot["cur"].witnessed
  /\ /\ at = "deliver" /\ Live(slot["pend"])
     /\ next \in badseams \/ (req.c2_witness /\ next \in latched)
     => slot["pend"].witnessed

\* Between two deliveries nothing is added to what condemns the chunk held back,
\* which began before lba.
LEMMA MetQuiet ==
  ASSUME IInv, IInv', Met, UNCHANGED <<next, out, req>>, at' # "deliver",
         badseams' \subseteq badseams \cup {next}, latched' \subseteq latched \cup {next},
         slot["pend"].witnessed => slot'["pend"].witnessed
  PROVE  Met'
<1>1. /\ Sectors(slot["pend"]) = Len(out) .. next - 1 /\ next \in Nat /\ Len(out) \in Nat
      /\ Sectors(slot'["pend"]) = Len(out) .. next - 1 /\ Chunk \in Nat
  BY SizeAssumption DEF IInv, Places, Sectors
<1>2. ASSUME Live(slot'["pend"]), (Condemned(Len(out)))' PROVE slot'["pend"].witnessed
  <2>1. Live(slot["pend"]) /\ Len(out) < next
    BY <1>1, <1>2 DEF Live
  <2>2. Len(out) # next /\ Len(out) - Chunk # next
    BY <1>1, <2>1
  <2>3. Condemned(Len(out))
    BY <1>2, <2>2 DEF Condemned
  <2>  QED
    BY <2>1, <2>3 DEF Met
<1>3. (Live(slot["pend"]))' <=> Live(slot'["pend"])
  BY DEF Live, Sectors
<1>  QED
  BY <1>2, <1>3 DEF Met

\* Met holds at the start.
LEMMA MetInit == Init => Met
<1>  SUFFICES ASSUME Init PROVE Met
  OBVIOUS
<1>1. ~Live(slot["pend"]) /\ at # "deliver"
  BY EmptyFields DEF Init, Live
<1>  QED
  BY <1>1 DEF Met

\* The widening is done only when both chunks have what they were owed.
LEMMA MetWidenDone == IInv /\ Triggers /\ Met /\ WidenDone => Met'
<1>  SUFFICES ASSUME IInv, Triggers, Met, WidenDone PROVE Met'
  OBVIOUS
<1>1. /\ at = "widen" /\ at' = "deliver" /\ slot' = slot /\ ~PendDue /\ ~CurDue
      /\ UNCHANGED <<next, out, req, badseams, latched>>
  BY DEF WidenDone, delivery, options, history
<1>2. next < Count
  <2>1. PICK n \in 1 .. Chunk : next + n <= Count
    BY <1>1 DEF IInv, Places, Between
  <2>  QED
    BY <2>1, SizeAssumption DEF IInv, Places
<1>3. /\ next \in badseams => seam_bad
      /\ next \in latched => c2_hit
      /\ req.c2_witness /\ next - Chunk \in latched => witness_next
  BY <1>1, <1>2 DEF Triggers
<1>4. ASSUME Condemned(next) PROVE slot["cur"].witnessed
  <2>1. WitCur
    BY <1>3, <1>4 DEF Condemned, WitCur, C2Trig
  <2>  QED
    BY <1>1, <2>1 DEF CurDue
<1>5. ASSUME Live(slot["pend"]), next \in badseams \/ (req.c2_witness /\ next \in latched)
      PROVE  slot["pend"].witnessed
  <2>1. WitPend
    BY <1>3, <1>5 DEF WitPend, C2Trig
  <2>  QED
    BY <1>1, <1>5, <2>1 DEF PendDue
<1>6. Live(slot["pend"]) /\ Condemned(Len(out)) => slot["pend"].witnessed
  BY DEF Met
<1>7. /\ (Live(slot["pend"]))' <=> Live(slot["pend"])
      /\ (Condemned(next))' <=> Condemned(next)
      /\ (Condemned(Len(out)))' <=> Condemned(Len(out))
  BY <1>1 DEF Live, Sectors, Condemned
<1>  QED
  BY <1>1, <1>4, <1>5, <1>6, <1>7 DEF Met

\* A delivery keeps it: what is held back next has met its debts.
LEMMA MetDeliver == IInv /\ Met /\ Deliver => Met'
<1>  SUFFICES ASSUME IInv, Met, Deliver PROVE Met'
  OBVIOUS
<1>1. /\ at = "deliver" /\ at' = "loop" /\ slot' = [cur |-> Empty, pend |-> slot["cur"]]
      /\ UNCHANGED <<req, badseams, latched>>
  BY DEF Deliver, NextChunk, options
<1>2. Len(out') = next
  BY <1>1, DeliveredToLba DEF Deliver
<1>3. (Condemned(Len(out)))' => Condemned(next)
  BY <1>1, <1>2 DEF Condemned
<1>4. slot'["pend"] = slot["cur"]
  BY <1>1
<1>  QED
  BY <1>1, <1>3, <1>4 DEF Met

\* So every step does.
LEMMA MetNext == IInv /\ Triggers /\ Met /\ [Next]_vars => Met'
<1>  SUFFICES ASSUME IInv, Triggers, Met, [Next]_vars PROVE Met'
  OBVIOUS
<1>1. IInv' /\ Shape
  BY NextInv DEF IInv
<1>2. CASE UNCHANGED vars
  <2>1. /\ UNCHANGED <<at, next, out, req, badseams, latched, slot>>
    BY <1>2 DEF vars, options, delivery, history
  <2>  QED
    BY <2>1 DEF Met, Condemned, Live, Sectors
<1>3. CASE \/ QposRescue \/ Settle \/ Reread \/ RereadsSpent \/ Anchor \/ AnchorSpent
           \/ C2Rescue \/ VerifyPass \/ WitnessPend \/ WitnessCur
           \/ SeamCheck \/ LatchC2 \/ C2Spent \/ C2Done \/ VerifyDone
  <2>1. UNCHANGED <<next, out, req>> /\ at' # "deliver"
    BY <1>3 DEF QposRescue, Settle, Reread, RereadsSpent, Anchor, AnchorSpent, C2Rescue,
                VerifyPass, WitnessPend, WitnessCur, WitnessPass, SeamCheck, LatchC2,
                C2Spent, C2Done, VerifyDone, Settling, options, delivery
  <2>2. badseams' \subseteq badseams \cup {next} /\ latched' \subseteq latched \cup {next}
    BY <1>3 DEF QposRescue, Settle, Reread, RereadsSpent, Anchor, AnchorSpent, C2Rescue,
                VerifyPass, WitnessPend, WitnessCur, WitnessPass, SeamCheck, LatchC2,
                C2Spent, C2Done, VerifyDone, history
  <2>3. slot["pend"].witnessed => slot'["pend"].witnessed
    BY <1>1, <1>3, SameSectors
  <2>  QED
    BY <1>1, <2>1, <2>2, <2>3, MetQuiet
<1>4. CASE ReadChunk
  <2>1. /\ UNCHANGED <<next, out, req, badseams, latched>> /\ at' # "deliver"
        /\ slot'["pend"] = slot["pend"]
    BY <1>1, <1>4 DEF ReadChunk, options, Shape
  <2>  QED
    BY <1>1, <2>1, MetQuiet
<1>5. CASE Cancel
  <2>1. UNCHANGED <<next, out, req, badseams, latched, slot>> /\ at' # "deliver"
    BY <1>5 DEF Cancel, delivery, history
  <2>  QED
    BY <1>1, <2>1, MetQuiet
<1>6. CASE DeliverRefused \/ DeliverLast
  <2>1. at' = "done" /\ slot'["pend"] = Empty
    BY <1>1, <1>6 DEF DeliverRefused, DeliverLast, Refused, Shape
  <2>2. ~(Live(slot["pend"]))'
    BY <2>1 DEF Live, Sectors, Empty
  <2>  QED
    BY <2>1, <2>2 DEF Met
<1>  QED
  BY <1>2, <1>3, <1>4, <1>5, <1>6, MetWidenDone, MetDeliver DEF Next, Terminated

\* The four hold throughout.
LEMMA EvidenceInv == Spec => [](Heard /\ Witnessing /\ Triggers /\ Met)
<1>1. Init => Heard /\ Witnessing /\ Triggers /\ Met
  BY HeardInit, WitnessingInit, TriggersInit, MetInit
<1>2. IInv /\ (Heard /\ Witnessing /\ Triggers /\ Met) /\ [Next]_vars
      => (Heard /\ Witnessing /\ Triggers /\ Met)'
  BY HeardNext, WitnessingNext, TriggersNext, MetNext
<1>  QED
  BY <1>1, <1>2, SpecInv, PTL DEF Spec

\* A run of consecutive sectors ends with its greatest one.
LEMMA RunEnd == ASSUME NEW a \in Int, NEW b \in Int, a <= b PROVE Max(a .. b) = b
<1>1. b \in a .. b /\ \A y \in a .. b : b >= y
  OBVIOUS
<1>2. \A x \in a .. b : (\A y \in a .. b : x >= y) => x = b
  BY <1>1
<1>  QED
  BY <1>1, <1>2 DEF Max

------------------------------------------------------------------------------

\* A seam that disagreed, or with c2_witness a latched flag, condemns its chunk and
\* the neighbours: none of their sectors is delivered on the word of one transfer.
THEOREM SpecCondemnedIsWitnessed == Spec => []CondemnedIsWitnessed
<1>1. ASSUME IInv, Witnessing, Triggers, Met PROVE CondemnedIsWitnessed
  <2>  DEFINE c == slot["pend"]
              n == Len(out)
  <2>  SUFFICES ASSUME AtDelivery,
                       \/ badseams \cap {First(c), Max(Sectors(c)) + 1} # {}
                       \/ req.c2_witness /\ latched \cap Around(c) # {}
                PROVE  WitnessedWhole(c)
    BY DEF CondemnedIsWitnessed
  <2>1. /\ Sectors(c) = n .. next - 1 /\ n \in Nat /\ next \in Nat /\ n < next
        /\ next <= Count /\ Count \in Nat /\ Live(c)
    BY <1>1, SizeAssumption DEF IInv, Places, AtDelivery, Live
  <2>2. First(c) = n /\ Max(Sectors(c)) + 1 = next
    <3>  HIDE DEF n
    <3>1. n \in Int /\ next - 1 \in Int /\ n <= next - 1 /\ (next - 1) + 1 = next
      BY <2>1
    <3>2. Min(n .. next - 1) = n /\ Max(n .. next - 1) = next - 1
      BY <3>1, Run, RunEnd
    <3>  QED
      BY <2>1, <3>1, <3>2 DEF First
  <2>3. c.witnessed
    <3>1. CASE Condemned(n)
      BY <1>1, <2>1, <3>1 DEF Met
    <3>2. CASE ~Condemned(n)
      <4>1. next \in badseams \/ (req.c2_witness /\ next \in latched)
        BY <2>2, <3>2 DEF Condemned, Around
      <4>2. at = "deliver"
        BY <1>1, <4>1 DEF Triggers, AtDelivery
      <4>  QED
        BY <1>1, <2>1, <4>1, <4>2 DEF Met
    <3>  QED
      BY <3>1, <3>2
  <2>4. \A s : ~Pending("pend", s)
    BY DEF AtDelivery, Pending, Settling
  <2>5. Whole("pend")
    BY <1>1, <2>3 DEF Witnessing
  <2>  QED
    BY <2>4, <2>5 DEF Whole, WitnessedWhole
<1>  QED
  BY <1>1, SpecInv, EvidenceInv, PTL
==============================================================================
