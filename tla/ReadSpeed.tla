------------------------------ MODULE ReadSpeed ------------------------------
(***************************************************************************)
(* The speeds a read asks of the drive (src/read/engine.c): the pass speed *)
(* for everything that streams, the rungs of the ladder for the rereads of *)
(* single sectors.  Which sectors need settling, and whether they settle,  *)
(* is ReadEngine's business and anyone's guess here.                       *)
(***************************************************************************)
EXTENDS Integers, Sequences

CONSTANTS
  Requests,  \* [speed: req->speed_x, ladder: req->speed_ladder]
  Chunks,    \* of the request
  Attempts   \* the most rereads of one sector

SpeedAssumption == Requests \subseteq [speed : Nat, ladder : Seq(Nat)]

VARIABLES
  req,
  at, left, attempt, may_anchor,
  cur_speed, speed_dirty,  \* struct rd
  drive,   \* what the drive was last asked for and took, "before" at the call
  asked,   \* what it was last asked for in this call
  noop,    \* whether it has been asked for what it was already asked for
  last,    \* the last transfer: [kind, attempt, asked]
  rc

vars == <<req, at, left, attempt, may_anchor, cur_speed, speed_dirty, drive, asked, noop, last, rc>>
place == <<at, left, attempt, may_anchor, rc>>
speed == <<cur_speed, speed_dirty, drive, asked, noop>>

Before == -2   \* nothing asked in this call
Unknown == -1  \* cur_speed at the start

\* accudisc_set_speed: the drive may refuse, and nobody looks.
SetSpeed(s) ==
  /\ asked' = s
  /\ noop' = (noop \/ asked = s)
  /\ drive' \in {s, drive}

\* set_speed_once
SetSpeedOnce(s) ==
  IF s = cur_speed THEN UNCHANGED <<asked, noop, drive, cur_speed>>
  ELSE SetSpeed(s) /\ cur_speed' = s

Rung(a) == req.ladder[IF a <= Len(req.ladder) THEN a ELSE Len(req.ladder)]

\* ladder_speed
LadderSpeed(a) ==
  IF req.ladder = << >> THEN UNCHANGED speed
  ELSE SetSpeedOnce(Rung(a)) /\ speed_dirty' = TRUE

\* ladder_restore
Restore_Bug == UNCHANGED speed
Restore ==
  IF ~speed_dirty THEN UNCHANGED speed
  ELSE SetSpeedOnce(req.speed) /\ speed_dirty' = FALSE

Transfer(kind, a) == last' = [kind |-> kind, attempt |-> a, asked |-> asked']

Init ==
  /\ req \in Requests
  /\ at = "start" /\ left = Chunks /\ attempt = 0 /\ may_anchor = FALSE /\ rc = "ok"
  /\ cur_speed = Unknown /\ speed_dirty = FALSE
  /\ drive = Before /\ asked = Before /\ noop = FALSE
  /\ last = [kind |-> "none", attempt |-> 0, asked |-> Before]

\* The pass speed, set directly: cur_speed does not hear of it.
Start ==
  /\ at = "start" /\ at' = "loop"
  /\ IF req.speed = 0 THEN UNCHANGED <<asked, noop, drive>> ELSE SetSpeed(req.speed)
  /\ UNCHANGED <<req, left, attempt, may_anchor, cur_speed, speed_dirty, last, rc>>

\* *req->cancel, looked at before each chunk.
Cancel ==
  /\ at = "loop" /\ left > 0
  /\ at' = "done" /\ rc' = "cancelled"
  /\ UNCHANGED <<req, left, attempt, may_anchor, speed, last>>

ReadChunk ==
  /\ at = "loop" /\ left > 0
  /\ Restore /\ Transfer("stream", 0)
  /\ at' = "checks" /\ left' = left - 1
  /\ UNCHANGED <<req, attempt, may_anchor, rc>>

\* A sector to settle: by qpos_rescue or c2_rescue, or by consensus, which may end in
\* anchor_position.
Settle ==
  /\ at = "checks"
  /\ at' = "reread" /\ attempt' = 1 /\ may_anchor' \in BOOLEAN
  /\ UNCHANGED <<req, left, speed, last, rc>>

Reread ==
  /\ at = "reread"
  /\ LadderSpeed(attempt) /\ Transfer("reread", attempt)
  /\ \/ attempt < Attempts /\ attempt' = attempt + 1 /\ UNCHANGED <<at, may_anchor>>
     \/ attempt' = 0 /\ may_anchor' = FALSE /\ at' \in {"checks"} \cup IF may_anchor THEN {"shifted"} ELSE {}
  /\ UNCHANGED <<req, left, rc>>

Anchor ==
  /\ at = "shifted" /\ at' = "checks"
  /\ Restore /\ Transfer("anchor", 0)
  /\ UNCHANGED <<req, left, attempt, may_anchor, rc>>

\* witness_pass, of a verify pass, a seam or a C2 flag.
Witness ==
  /\ at = "checks"
  /\ Restore /\ Transfer("witness", 0)
  /\ UNCHANGED <<req, place>>

\* publish: the sink takes the chunk held back, or refuses it.
Publish ==
  /\ at = "checks" /\ at' = "loop"
  /\ UNCHANGED <<req, left, attempt, may_anchor, speed, last, rc>>

SinkRefuses ==
  /\ at \in {"checks", "loop"}
  /\ left < Chunks - 1 \/ (at = "loop" /\ left = 0)
  /\ at' = "done" /\ rc' = "cancelled"
  /\ UNCHANGED <<req, left, attempt, may_anchor, speed, last>>

Finish ==
  /\ at = "loop" /\ left = 0
  /\ Restore /\ at' = "done"
  /\ UNCHANGED <<req, left, attempt, may_anchor, last, rc>>

Done == at = "done" /\ UNCHANGED vars

Next ==
  \/ Start \/ Cancel \/ ReadChunk \/ Settle \/ Reread \/ Anchor \/ Witness
  \/ Publish \/ SinkRefuses \/ Finish \/ Done

Spec == Init /\ [][Next]_vars

------------------------------------------------------------------------------
(* Properties.                                                             *)

TypeOK ==
  /\ attempt \in 0 .. Attempts /\ left \in 0 .. Chunks /\ speed_dirty \in BOOLEAN
  /\ {cur_speed, asked, drive} \subseteq {Before, Unknown} \cup Nat

\* The pass speed, or the drive's own once a rung has been asked for.
AtPassSpeed(s) == s = req.speed \/ (s = Before /\ req.speed = 0)

\* accudisc.h on speed_ladder: "The pass speed is restored before the next streaming
\* chunk", attempt n "runs at ladder[min(n-1, len-1)]", and verify passes stream at
\* speed_x; whatever order the checks of a chunk come in.
StreamsAtPassSpeed ==
  /\ last.kind \in {"stream", "witness", "anchor"} => AtPassSpeed(last.asked)
  /\ last.kind = "reread" /\ req.ladder # << >> => last.asked = Rung(last.attempt)

\* accudisc.h on speed_x, for a read that was not cut short: "the drive is left at
\* speed_x (or, if a ladder rung fired while speed_x == 0, at the drive's own
\* management)".
LeftAtPassSpeed == at = "done" /\ rc = "ok" => AtPassSpeed(asked)

\* Both: no reread changes the speed of anything but rereads.
PassSpeedKept == StreamsAtPassSpeed /\ LeftAtPassSpeed

\* The same sentence as it stands, "NOT restored on exit" included: of every exit.
EveryExitAtPassSpeed == at = "done" => AtPassSpeed(asked)

\* engine.c on set_speed_once: "never issue a no-op change".
NeverNoOp == ~noop
==============================================================================
