------------------------------ MODULE ReadEngine ------------------------------
(***************************************************************************)
(* The chunk loop of accudisc_read_cdda (src/read/engine.c): each chunk is *)
(* read with an extension past its end, checked against the drive's own    *)
(* account of its position (Q), against the previous chunk's extension     *)
(* (the seam), against C2, and against second transfers (verify passes and *)
(* witnesses), and is delivered one iteration late.                        *)
(*                                                                         *)
(* The drive is external.  A copy of a sector is what the checks can tell  *)
(* apart: its audio, how many C2 bits fired, and where its Q frame says    *)
(* the drive was.  Sectors are numbered from the request's first.          *)
(***************************************************************************)
EXTENDS Integers, Sequences, FiniteSetsExt, Functions

CONSTANTS
  Before,        \* req->lba: the sectors of the disc before the request's
  Count, Chunk,  \* req->count, and the chunk size after clamping
  Requests,      \* the option sets a caller may ask for
  Copies,        \* the copies of a sector the drive may return
  Silent,        \* sectors with no signal an alignment could be told from
  Rereads,       \* ADSC_SAMPLES_MAX - 2
  AnchorReads,   \* ADSC_ANCHOR_READS
  Margin,        \* ADSC_QPOS_MARGIN
  Faults         \* bound: how often the drive departs from the true sectors

Copy == [audio : {"true", "late", "away", "bad"}, c2 : Nat, q : {"here", "else", "mute"}]
Good == [audio |-> "true", c2 |-> 0, q |-> "here"]
\* A sector that could not be read: zero-filled, and no copy of anything.
Unread == [audio |-> "none", c2 |-> 0, q |-> "mute"]

\* What accudisc_read_cdda refuses (772-806) is not a request.
RequestOK(r) ==
  /\ r.passes \in Nat \ {0} /\ r.c2_retries \in Nat /\ r.overlap \in Nat
  /\ r.c2_retries > 0 => r.passes >= 2
  /\ r.c2_witness => r.c2

ASSUME SizeAssumption == Before \in Nat /\ Count \in Nat \ {0} /\ Chunk \in Nat \ {0}
ASSUME RequestsAssumption == \A r \in Requests : RequestOK(r)
ASSUME CopiesAssumption == Copies \subseteq Copy /\ Good \in Copies

\* (Definitions whose names end in _Bug restate the one that follows them with a
\* plausible mistake; nothing uses them but the checks that the properties bite.)

VARIABLES
  req, at, next,      \* the request, the place in the loop, lba
  slot,               \* the two chunk states: cur, and pend held back
  ext, fresh,         \* prev_ext, and the extension read with cur
  todo, who, job,     \* sectors still to settle, of which slot, and the one in hand
  pass, seam_bad, c2_hit, witness_next,
  map, out, rc,       \* status_map, the sectors the sink was given, the verdict
  faults,             \* departures so far
  badseams, latched, fired, heard, misplaced \* history, see the properties

options == <<req, rc>>
flags == <<pass, seam_bad, c2_hit, witness_next>>
delivery == <<next, ext, fresh, map, out>>
history == <<badseams, latched, fired, heard, misplaced>>
vars == <<options, at, slot, todo, who, job, flags, delivery, faults, history>>

Lbas == 0 .. Count - 1

\* One struct adsc_chunk_state, as functions on the chunk's sectors: buf, prim,
\* the witness transfer last compared (buf2), recov, susp, witnessed.  hard[s] is
\* data[s] = Unread, bits[s] is Bits(data[s]).
Empty == [data |-> <<>>, prim |-> <<>>, alt |-> <<>>, recov |-> {}, susp |-> {},
          witnessed |-> FALSE]
Sectors(c) == DOMAIN c.data
Live(c) == Sectors(c) # {}
Bits(c) == IF req.c2 THEN c.c2 ELSE 0

\* One sector being settled: the audio of the samples seen, whether two of them
\* are a shift apart, whether it has come to anchoring, the reads spent, and the
\* first corroborated copy.
NoJob == [s |-> -1, seen |-> {}, shifted |-> FALSE, anchoring |-> FALSE,
          tries |-> 0, held |-> Unread]

Init ==
  /\ req \in Requests /\ rc = "ok"
  /\ at = "loop" /\ next = 0
  /\ slot = [w \in {"cur", "pend"} |-> Empty]
  /\ ext = <<>> /\ fresh = <<>>
  /\ todo = {} /\ who = "cur" /\ job = NoJob
  /\ pass = 1 /\ seam_bad = FALSE /\ c2_hit = FALSE /\ witness_next = FALSE
  /\ map = [l \in Lbas |-> "pending"] /\ out = <<>>
  /\ faults = 0
  /\ badseams = {} /\ latched = {} /\ fired = {} /\ heard = {} /\ misplaced = {}

-----------------------------------------------------------------------------
(* The drive.                                                              *)

\* A silent sector read a few samples late is the same bytes.
Possible(l, c) == l \in Silent => c.audio # "late"
\* What an answer costs against the bound: a run of sectors wrong alike counts once.
Wrong(f) == Cardinality({f[l] : l \in DOMAIN f} \ {Good})
Answers(S, C) == {f \in [S -> C] : /\ faults + Wrong(f) <= Faults
                                   /\ \A l \in S : Possible(l, f[l])}
\* A span read whole, or sector by sector when the transfer fails.
Transfers(S) == Answers(S, Copies \cup {Unread})
\* A command that fails leaves nothing.
NoAnswer == faults < Faults /\ faults' = faults + 1

\* adsc_shift_find: the two copies are the same audio, some samples apart.
Shift(a, b) == {a, b} = {"true", "late"}

Hear(f, S) == {<<l, f[l].audio>> : l \in {l \in S : f[l] # Unread}}

-----------------------------------------------------------------------------
(* Reading a chunk, and the check of its position.                         *)

\* *req->cancel is looked at before each chunk.
Cancel ==
  /\ at = "loop" /\ next < Count
  /\ at' = "done" /\ rc' = "cancelled"
  /\ UNCHANGED <<req, slot, todo, who, job, flags, delivery, faults, history>>

ChunkLen == Min({Count - next, Chunk})
ExtLen_Bug == req.overlap
ExtLen == Min({Count - next - ChunkLen, req.overlap})

Misplaced(d) == IF req.sub THEN {l \in DOMAIN d : d[l].q = "else"} ELSE {}
Suspected(d) == {l \in DOMAIN d : /\ d[l] # Unread
                                  /\ \E m \in Misplaced(d) : l \in m - Margin .. m + Margin}

ReadChunk ==
  /\ at = "loop" /\ next < Count
  /\ \E f \in Transfers(next .. next + ChunkLen + ExtLen - 1) :
       LET d == Restrict(f, next .. next + ChunkLen - 1)
           e == Restrict(f, DOMAIN f \ DOMAIN d)
           compared == DOMAIN d \cup {l \in DOMAIN e : l < next + ChunkLen + Chunk}
       IN /\ slot' = [slot EXCEPT !["cur"] = [Empty EXCEPT !.data = d, !.prim = d]]
          /\ fresh' = e
          /\ todo' = Suspected(d)
          /\ faults' = faults + Wrong(f)
          /\ heard' = heard \cup Hear(f, compared)
          /\ misplaced' = misplaced \cup Misplaced(d)
          /\ fired' = IF \E l \in DOMAIN d : Bits(d[l]) > 0 THEN fired \cup {next} ELSE fired
  /\ at' = "qpos" /\ who' = "cur"
  /\ UNCHANGED <<options, job, flags, next, ext, map, out, badseams, latched>>

Replaced(w, s, c) == [slot EXCEPT ![w].data[s] = c, ![w].recov = @ \cup {s}]
Suspect(w, s) == [slot EXCEPT ![w].susp = @ \cup {s}]

\* qpos_rescue: the first reread whose own Q agrees, or none in all of them (the
\* bound counts such a run of refusals once).
QposRescue ==
  /\ at = "qpos" /\ todo # {}
  /\ LET s == Min(todo)
     IN /\ \/ \E f \in Answers({s}, Copies) :
                /\ f[s].q = "here"
                /\ slot' = Replaced("cur", s, f[s])
                /\ faults' = faults + Wrong(f)
           \/ NoAnswer /\ slot' = Suspect("cur", s)
        /\ todo' = todo \ {s}
  /\ UNCHANGED <<options, at, who, job, flags, delivery, history>>

-----------------------------------------------------------------------------
(* Settling sectors two transfers differ on: consensus, anchor_position.   *)

SeamDiffs_Bug(c) == {s \in Sectors(c) \cap DOMAIN ext :
                      /\ c.data[s] # Unread /\ s \notin c.susp
                      /\ Shift(ext[s].audio, c.data[s].audio)}
SeamDiffs(c) == {s \in Sectors(c) \cap DOMAIN ext :
                  /\ c.data[s] # Unread /\ ext[s] # Unread /\ s \notin c.susp
                  /\ ext[s].audio # c.data[s].audio}

\* The head of this chunk against the extension of the one before.
SeamCheck ==
  /\ at = "qpos" /\ todo = {}
  /\ at' = "seam"
  /\ todo' = SeamDiffs(slot["cur"])
  /\ seam_bad' = (todo' # {})
  /\ badseams' = IF seam_bad' THEN badseams \cup {next} ELSE badseams
  /\ UNCHANGED <<options, slot, who, job, pass, c2_hit, witness_next, delivery, faults,
                 latched, fired, heard, misplaced>>

\* The other transfer's copies: the seam's, or the witness's.
Other == IF at = "seam" THEN ext ELSE slot[who].alt
Settling == at \in {"seam", "verify", "widen"}

\* consensus() begins with the two copies at hand.
Settle ==
  /\ Settling /\ todo # {} /\ job = NoJob
  /\ LET s == Min(todo)
         mine == slot[who].data[s].audio
         theirs == Other[s].audio
     IN job' = [NoJob EXCEPT !.s = s, !.seen = {mine, theirs} \ {"none"},
                             !.shifted = Shift(mine, theirs)]
  /\ UNCHANGED <<options, at, slot, todo, who, flags, delivery, faults, history>>

Settled(newslot) == slot' = newslot /\ todo' = todo \ {job.s} /\ job' = NoJob
Continue(newjob) == job' = newjob /\ UNCHANGED <<slot, todo>>
Anchoring(newseen) == [job EXCEPT !.seen = newseen, !.shifted = TRUE,
                                  !.anchoring = TRUE, !.tries = 0]

\* Agreement counts only among copies no two of which are a shift apart.
Agreed_Bug(matched, shifted) == matched
Agreed(matched, shifted) == matched /\ ~shifted

\* One single-sector reread.
Reread ==
  /\ Settling /\ job # NoJob /\ ~job.anchoring /\ job.tries < Rereads
  /\ \/ NoAnswer /\ Continue([job EXCEPT !.tries = @ + 1])
     \/ \E f \in Answers({job.s}, Copies) :
          LET c == f[job.s]
              matched == c.audio \in job.seen
              shifted == job.shifted \/ \E a \in job.seen : Shift(a, c.audio)
              seen == job.seen \cup {c.audio}
          IN /\ faults' = faults + Wrong(f)
             /\ IF Agreed(matched, shifted) THEN Settled(Replaced(who, job.s, c))
                ELSE IF matched THEN Continue(Anchoring(seen))
                ELSE Continue([job EXCEPT !.tries = @ + 1, !.seen = seen,
                                          !.shifted = shifted])
  /\ UNCHANGED <<options, at, who, flags, delivery, history>>

RereadsSpent ==
  /\ Settling /\ job # NoJob /\ ~job.anchoring /\ job.tries = Rereads
  /\ IF job.shifted THEN Continue(Anchoring(job.seen))
     ELSE Settled(Suspect(who, job.s))
  /\ UNCHANGED <<options, at, who, flags, delivery, faults, history>>

\* The windows of the context reads: three sectors, from -1, -2 and 0.
Start(s, tries) == s + (CASE tries % 3 = 0 -> -1 [] tries % 3 = 1 -> -2 [] OTHER -> 0)
Window(w) == w .. w + 2
\* Sectors are counted from the request's first, and the disc's may be before it.
OffDisc(w) == Before + w < 0

\* corroborated: a neighbour in the context read is another transfer's copy of it.
Corroborated(ctx, s, refs) ==
  \E m \in DOMAIN ctx \ {s}, r \in refs :
    /\ m \in DOMAIN r /\ r[m] # Unread /\ m \notin Silent
    /\ ctx[m].audio = r[m].audio

\* One context read of anchor_position.  Two corroborated ones must agree.
Anchor ==
  /\ Settling /\ job.anchoring /\ job.tries < AnchorReads
  /\ LET w == Start(job.s, job.tries)
         again == [job EXCEPT !.tries = @ + 1]
     IN \/ OffDisc(w) /\ Continue(again) /\ UNCHANGED faults
        \/ ~OffDisc(w) /\ NoAnswer /\ Continue(again)
        \/ /\ ~OffDisc(w)
           /\ \E ctx \in Answers(Window(w), Copies) :
                /\ faults' = faults + Wrong(ctx)
                /\ IF ~Corroborated(ctx, job.s, {slot[who].prim, Other})
                   THEN Continue(again)
                   ELSE IF job.held = Unread
                   THEN Continue([again EXCEPT !.held = ctx[job.s]])
                   ELSE IF job.held.audio = ctx[job.s].audio
                   THEN Settled(Replaced(who, job.s, job.held))
                   ELSE Settled(Suspect(who, job.s))
  /\ UNCHANGED <<options, at, who, flags, delivery, history>>

AnchorSpent ==
  /\ Settling /\ job.anchoring /\ job.tries = AnchorReads
  /\ Settled(Suspect(who, job.s))
  /\ UNCHANGED <<options, at, who, flags, delivery, faults, history>>

-----------------------------------------------------------------------------
(* C2: the flag is latched, then the flagged sectors may be rescued.       *)

Flagged(c) == {s \in Sectors(c) : c.data[s] # Unread /\ Bits(c.data[s]) > 0}
AllSettled == todo = {} /\ job = NoJob

LatchC2 ==
  /\ at = "seam" /\ AllSettled
  /\ at' = "c2"
  /\ c2_hit' = (Flagged(slot["cur"]) # {})
  /\ latched' = IF c2_hit' THEN latched \cup {next} ELSE latched
  /\ todo' = IF req.c2_retries > 0 THEN Flagged(slot["cur"]) ELSE {}
  /\ UNCHANGED <<options, slot, who, job, pass, seam_bad, witness_next, delivery, faults,
                 badseams, fired, heard, misplaced>>

\* One context read of c2_rescue: a corroborated copy with fewer bits replaces the
\* sector; one with none ends the hunt.
C2Rescue ==
  /\ at = "c2" /\ todo # {} /\ job.tries < req.c2_retries
  /\ LET s == Min(todo)
         w == IF OffDisc(Start(s, job.tries)) THEN s ELSE Start(s, job.tries)
         again == [job EXCEPT !.tries = @ + 1]
     IN \/ NoAnswer /\ job' = again /\ UNCHANGED <<slot, todo>>
        \/ \E ctx \in Answers(Window(w), Copies) :
             LET better == /\ Corroborated(ctx, s, {slot["cur"].prim, ext})
                           /\ Bits(ctx[s]) < Bits(slot["cur"].data[s])
                 clean == better /\ Bits(ctx[s]) = 0
             IN /\ faults' = faults + Wrong(ctx)
                /\ slot' = IF clean THEN Replaced("cur", s, ctx[s])
                           ELSE IF better THEN [slot EXCEPT !["cur"].data[s] = ctx[s]]
                           ELSE slot
                /\ todo' = IF clean THEN todo \ {s} ELSE todo
                /\ job' = IF clean THEN NoJob ELSE again
  /\ UNCHANGED <<options, at, who, flags, delivery, history>>

C2Spent ==
  /\ at = "c2" /\ todo # {} /\ job.tries = req.c2_retries
  /\ todo' = todo \ {Min(todo)} /\ job' = NoJob
  /\ UNCHANGED <<options, at, slot, who, flags, delivery, faults, history>>

C2Done ==
  /\ at = "c2" /\ todo = {}
  /\ at' = "verify" /\ pass' = 1
  /\ UNCHANGED <<options, slot, todo, who, job, seam_bad, c2_hit, witness_next, delivery,
                 faults, history>>

-----------------------------------------------------------------------------
(* Second transfers: verify passes, and the chunks a seam or C2 condemns.  *)

WitnessDiffs(c, f) == {s \in Sectors(c) : /\ c.data[s] # Unread /\ s \notin c.susp
                                          /\ f[s].audio # c.data[s].audio}

\* witness_pass: read the chunk in slot w again and compare.
WitnessPass(w, done) ==
  /\ \E f \in Transfers(Sectors(slot[w])) :
       /\ slot' = [slot EXCEPT ![w].alt = f, ![w].witnessed = done]
       /\ todo' = WitnessDiffs(slot[w], f)
       /\ faults' = faults + Wrong(f)
       /\ heard' = heard \cup Hear(f, DOMAIN f)
  /\ who' = w
  /\ UNCHANGED <<options, at, job, seam_bad, c2_hit, witness_next, delivery,
                 badseams, latched, fired, misplaced>>

VerifyPass ==
  /\ at = "verify" /\ AllSettled /\ pass < req.passes
  /\ WitnessPass("cur", FALSE)
  /\ pass' = pass + 1

VerifyDone ==
  /\ at = "verify" /\ AllSettled /\ pass = req.passes
  /\ slot' = [slot EXCEPT !["cur"].witnessed = (req.passes > 1)]
  /\ at' = "widen"
  /\ UNCHANGED <<options, todo, who, job, flags, delivery, faults, history>>

C2Trig == req.c2_witness /\ c2_hit
WitPend_Bug == seam_bad
WitPend == seam_bad \/ C2Trig
WitCur == seam_bad \/ C2Trig \/ witness_next
PendDue == WitPend /\ Live(slot["pend"]) /\ ~slot["pend"].witnessed
CurDue == WitCur /\ ~slot["cur"].witnessed

WitnessPend ==
  /\ at = "widen" /\ AllSettled /\ PendDue
  /\ WitnessPass("pend", TRUE)
  /\ UNCHANGED pass

WitnessCur ==
  /\ at = "widen" /\ AllSettled /\ ~PendDue /\ CurDue
  /\ WitnessPass("cur", TRUE)
  /\ UNCHANGED pass

WidenDone ==
  /\ at = "widen" /\ AllSettled /\ ~PendDue /\ ~CurDue
  /\ witness_next' = C2Trig
  /\ at' = "deliver"
  /\ UNCHANGED <<options, slot, todo, who, job, pass, seam_bad, c2_hit, delivery, faults,
                 history>>

-----------------------------------------------------------------------------
(* Delivery, one chunk late.                                               *)

\* publish's priority: hard, suspect, recovered, C2, OK.
Label(c, s) ==
  CASE c.data[s] = Unread -> "hard"
    [] c.data[s] # Unread /\ s \in c.susp -> "suspect"
    [] c.data[s] # Unread /\ s \in c.recov \ c.susp -> "recovered"
    [] s \in Flagged(c) \ (c.susp \cup c.recov) -> "c2"
    [] OTHER -> "ok"

First(c) == Min(Sectors(c))
Publish(c) ==
  /\ map' = [l \in Lbas |-> IF l \in Sectors(c) THEN Label(c, l) ELSE map[l]]
  /\ out' = out \o [i \in 1 .. Cardinality(Sectors(c)) |-> First(c) + i - 1]
  /\ heard' = {h \in heard : h[1] \notin Sectors(c)}
  /\ misplaced' = misplaced \ Sectors(c)

Advanced_Bug == next + Cardinality(Sectors(slot["cur"]) \cup DOMAIN fresh)
Advanced == next + Cardinality(Sectors(slot["cur"]))

\* The chunk just read is held back in its turn.  What the swap leaves in cur is
\* never read again.
NextChunk ==
  /\ slot' = [cur |-> Empty, pend |-> slot["cur"]]
  /\ ext' = fresh /\ fresh' = <<>>
  /\ next' = Advanced
  /\ at' = "loop"

Refused ==
  /\ rc' = "cancelled" /\ at' = "done"
  /\ slot' = [slot EXCEPT !["pend"] = Empty]

Deliver ==
  /\ at = "deliver"
  /\ IF Live(slot["pend"]) THEN Publish(slot["pend"])
     ELSE UNCHANGED <<map, out, heard, misplaced>>
  /\ NextChunk
  /\ UNCHANGED <<options, todo, who, job, flags, faults, badseams, latched, fired>>

\* The sink, or the AccuBuffer for it, refuses the chunk.
DeliverRefused ==
  /\ at = "deliver" /\ Live(slot["pend"])
  /\ Publish(slot["pend"])
  /\ Refused
  /\ UNCHANGED <<req, todo, who, job, flags, next, ext, fresh, faults, badseams, latched,
                 fired>>

\* The last chunk has no seam ahead of it.
DeliverLast ==
  /\ at = "loop" /\ next >= Count /\ Live(slot["pend"])
  /\ Publish(slot["pend"])
  /\ \/ /\ slot' = [slot EXCEPT !["pend"] = Empty] /\ at' = "done" /\ UNCHANGED rc
     \/ Refused
  /\ UNCHANGED <<req, todo, who, job, flags, next, ext, fresh, faults, badseams, latched,
                 fired>>

Terminated == at = "done" /\ UNCHANGED vars

Next ==
  \/ Cancel \/ ReadChunk \/ QposRescue \/ SeamCheck
  \/ Settle \/ Reread \/ RereadsSpent \/ Anchor \/ AnchorSpent
  \/ LatchC2 \/ C2Rescue \/ C2Spent \/ C2Done
  \/ VerifyPass \/ VerifyDone \/ WitnessPend \/ WitnessCur \/ WidenDone
  \/ Deliver \/ DeliverRefused \/ DeliverLast
  \/ Terminated

Spec == Init /\ [][Next]_vars

-----------------------------------------------------------------------------
(* Properties.                                                             *)

Span(f) == DOMAIN f \subseteq Lbas /\ \A l \in DOMAIN f : f[l] \in Copies \cup {Unread}
ChunkOK(c) ==
  /\ Span(c.data) /\ Span(c.prim) /\ Span(c.alt)
  /\ DOMAIN c.prim = Sectors(c) /\ DOMAIN c.alt \subseteq Sectors(c)
  /\ c.recov \cup c.susp \subseteq Sectors(c)
  /\ c.witnessed \in BOOLEAN

\* Every index stays inside its buffer: a chunk and its extension lie in the
\* request, and what is left to settle lies in the slot in hand.
TypeOK ==
  /\ at \in {"loop", "qpos", "seam", "c2", "verify", "widen", "deliver", "done"}
  /\ ChunkOK(slot["cur"]) /\ ChunkOK(slot["pend"])
  /\ Span(ext) /\ Span(fresh)
  /\ todo \subseteq Sectors(slot[who])
  /\ job = NoJob \/ job.tries <= AnchorReads + Rereads + req.c2_retries
  /\ rc \in {"ok", "cancelled"} /\ next \in 0 .. Count /\ faults \in 0 .. Faults
  /\ \A l \in Lbas : map[l] \in {"pending", "hard", "suspect", "recovered", "c2", "ok"}

\* pend is what the sink is about to be given.
AtDelivery == Live(slot["pend"]) /\ (at = "deliver" \/ (at = "loop" /\ next >= Count))

\* Every sector of the chunk was compared with a second transfer of it, and was
\* confirmed, replaced, or marked.
WitnessedWhole(c) ==
  /\ DOMAIN c.alt = Sectors(c)
  /\ \A s \in Sectors(c) : \/ c.data[s] = Unread
                           \/ s \in c.susp \cup c.recov
                           \/ c.alt[s].audio = c.data[s].audio

\* The first sectors of a chunk and of its two neighbours.
Around(c) == {First(c) - Chunk, First(c), Max(Sectors(c)) + 1}

\* A seam that disagreed condemns the transfers on both sides of it, and with
\* c2_witness a latched C2 flag its own chunk and both neighbours: no sector of a
\* condemned chunk is delivered on the word of one transfer (engine.c 1133-1170).
CondemnedIsWitnessed ==
  AtDelivery =>
    LET c == slot["pend"]
    IN (\/ badseams \cap {First(c), Max(Sectors(c)) + 1} # {}
        \/ req.c2_witness /\ latched \cap Around(c) # {}) => WitnessedWhole(c)

\* OK in the status map means that no two transfers of the sector (its chunk's, the
\* extension before it, its witnesses) were ever heard to differ (publish, 661-739).
OKMeansNoDisagreement ==
  AtDelivery =>
    LET c == slot["pend"]
    IN \A s \in Sectors(c) :
         Label(c, s) = "ok" => \A h \in heard : h[1] = s => h[2] = c.data[s].audio

\* A slip cannot confirm itself: where two of the copies compared are a pure shift
\* apart, the copy accepted is one that two reads with its neighbours agreed on, and
\* never a single-sector reread (consensus and anchor_position, 422-602).
SlipNeedsContext ==
  [][\A w \in {"cur", "pend"} :
       \A s \in Sectors(slot[w]) :
         (/\ Settling /\ job # NoJob /\ job' = NoJob /\ w = who /\ s = job.s
          /\ s \notin slot'[w].susp
          /\ \E a \in job.seen : Shift(a, slot'[w].data[s].audio))
         => job.held = slot'[w].data[s] /\ job.tries >= 1]_vars

\* The sink is given every sector once and in order, exactly those leave PENDING in
\* the map, a read that ends well has delivered them all, and one that is cancelled
\* drops no more than the chunk held back (accudisc_sink_fn's contract).
EachOnceInOrder ==
  /\ out = [i \in 1 .. Len(out) |-> i - 1]
  /\ {l \in Lbas : map[l] # "pending"} = Range(out)
  /\ at = "done" /\ rc = "ok" => Len(out) = Count
  /\ at = "done" => next - Len(out) <= Chunk

\* What accudisc.h says of c2_witness: when C2 fires ANYWHERE in a chunk, as read,
\* the chunk and both neighbours get a second transfer.
FlagCondemnsNeighbours ==
  AtDelivery =>
    LET c == slot["pend"]
    IN req.c2_witness /\ fired \cap Around(c) # {} => WitnessedWhole(c)

\* What qpos_rescue's comment says: where Q convicted a copy, a replacement is
\* accepted only when its own Q agrees with the address asked for.
PositionFaultNotLaundered ==
  AtDelivery =>
    LET c == slot["pend"]
    IN \A s \in misplaced \cap Sectors(c) :
         Label(c, s) = "recovered" => c.data[s].q = "here"
=============================================================================
