------------------------------- MODULE ReadCd -------------------------------
(***************************************************************************)
(* READ CD on one handle (src/mmc/mmc.c, src/cdda/layout.c): transfers are *)
(* rounded up to 16 bytes through a bounce buffer, a refusal of the        *)
(* rounding is told from a failure of the disc, and the records of a       *)
(* combined read are checked for their place and put in the standard's     *)
(* order from what they hold and from what the handle has learnt.          *)
(*                                                                         *)
(* A transfer is abstracted to what the layout check can tell apart: which *)
(* of its records hold a Q frame that verifies, and where.                 *)
(***************************************************************************)
EXTENDS Integers

CONSTANTS
  C2s,        \* bytes of C2 a read may ask for: 0, 294 or 296
  Subs,       \* bytes of subchannel: 0, 96 (raw) or 16 (formatted Q)
  Lengths     \* how many sectors a read may have

\* What the constants must satisfy; an instance assumes it.
ReadCdAssumption ==
  C2s \subseteq {0, 294, 296} /\ Subs \subseteq {0, 16, 96} /\ Lengths \subseteq Nat \ {0}

VARIABLES
  order, pads, refuses,      \* the drive, see DriveInit
  transients,                \* what may fail on the way to it, see DriveInit
  xfer_exact, layout, cap,   \* the handle: what it learnt; its bounce buffer's size
  step, c2, sub, nsec, xfer, \* the call: where it is, its arguments, its transfer
  rc, timed_out,             \* what its last attempt came to; the first timed out
  fault,                     \* something is wrong with the disc or its answer
  got                        \* the last successful transfer, see Transfer

drive  == <<order, pads, refuses, transients>>
handle == <<xfer_exact, layout, cap>>
args   == <<c2, sub, nsec>>
vars   == <<drive, handle, step, args, xfer, rc, timed_out, fault, got>>

Orders == {"mmc", "sub_first"}

SectorLen == 2352 + c2 + sub
Combined  == c2 # 0 /\ sub # 0
Exact     == nsec * SectorLen
RoundUp(n) == ((n + 15) \div 16) * 16

NoTransfer == [displaced |-> FALSE, right |-> 0, wrong |-> 0, tail |-> 0, order |-> "mmc"]

\* The drive: the order its combined records have, whether a transfer that is
\* no multiple of 16 has its records padded to one (libata's PIO), and how a
\* transfer longer than the data is refused, if it is.  transients: whether errors
\* that a refusal of the length would look like may pass: a failure of the ioctl, the
\* host or the adapter that is no time-out, or an illegal request.
DriveInit ==
  /\ order \in Orders /\ pads \in BOOLEAN /\ refuses \in {"no", "io", "illegal"}
  /\ transients \in BOOLEAN

Init ==
  /\ DriveInit
  /\ xfer_exact = 0 /\ layout = [p \in C2s \X Subs |-> "unknown"] /\ cap = 0
  /\ step = "idle" /\ c2 = 0 /\ sub = 0 /\ nsec = 1 /\ xfer = 0
  /\ rc = "ok" /\ timed_out = FALSE /\ fault = FALSE
  /\ got = NoTransfer

------------------------------------------------------------------------------
(* A transfer and what it shows.                                           *)

\* The records that arrive when len bytes are asked for.  right and wrong: Q
\* frames that verify at the place the drive puts them and, by chance and at most
\* one of them, at the other.  In a displaced transfer only record 0 is at its
\* place; tail of the others verify at the padded stride, where the last one is
\* cut off if the subchannel ends the record.
Transfer(len) ==
  LET displaced == pads /\ len % 16 # 0 /\ nsec > 1
      seen      == IF displaced THEN 1 ELSE nsec
      after     == IF ~displaced THEN 0 ELSE IF order = "mmc" THEN nsec - 2 ELSE nsec - 1
  IN  IF ~Combined
      THEN {[NoTransfer EXCEPT !.displaced = displaced, !.order = order]}
      ELSE [displaced : {displaced}, right : 0 .. seen, wrong : 0 .. 1,
            tail : 0 .. after, order : {order}]

Opposite(o) == IF o = "mmc" THEN "sub_first" ELSE "mmc"

\* winner(): one place wins when the other has at most a third of its hits.
Winner(t) ==
  CASE t.right > 0 /\ t.wrong * 3 <= t.right -> t.order
    [] t.wrong > 0 /\ t.right * 3 <= t.wrong -> Opposite(t.order)
    [] OTHER                                 -> "unknown"

Votes(t) == IF t.right > t.wrong THEN t.right ELSE t.wrong

\* adsc_layout_inspect: too few hits at the stride asked for, and half the records
\* after the first verify at another.
Misframed(t) ==
  /\ nsec >= 4 /\ Votes(t) * 2 < nsec
  /\ t.tail * 2 >= nsec - 1 /\ t.tail >= 2

------------------------------------------------------------------------------
(* The call.                                                               *)

NeedsRounding == xfer_exact # 1 /\ Exact % 16 # 0

Call ==
  /\ step = "idle"
  /\ c2' \in C2s /\ sub' \in Subs /\ nsec' \in Lengths
  /\ fault' \in BOOLEAN
  /\ step' = "bounce"
  /\ UNCHANGED <<drive, handle, xfer, rc, timed_out, got>>

\* A length that does not fit the fields, or no sectors at all.
BadArgs ==
  /\ step = "idle"
  /\ rc' = "inval"
  /\ UNCHANGED <<drive, handle, step, args, xfer, timed_out, fault, got>>

\* The rounded transfer goes through the bounce buffer; without one the exact
\* length is asked for.
Bounce ==
  /\ step = "bounce"
  /\ LET want == RoundUp(Exact) IN
     IF ~NeedsRounding THEN xfer' = Exact /\ UNCHANGED cap
     ELSE \/ cap >= want /\ xfer' = want /\ UNCHANGED cap
          \/ cap < want /\ xfer' = want /\ cap' = want
          \/ cap < want /\ xfer' = Exact /\ UNCHANGED cap   \* realloc failed
  /\ step' = "first"
  /\ UNCHANGED <<drive, xfer_exact, layout, args, rc, timed_out, fault, got>>

Refused == refuses # "no" /\ xfer # Exact

\* What is wrong with this command, of any length: a medium error, an illegal
\* address, a time-out, a short transfer; or the host fails it.
Faults ==
  IF ~fault THEN {}
  ELSE {"medium", "illegal", "timeout", "short"} \cup IF transients THEN {"io"} ELSE {}

\* What the first attempt may come to.
Answers == (IF Refused THEN {refuses} ELSE {"ok"}) \cup Faults

\* And an attempt of the exact length.  A fault may have passed, but where errors do
\* not, an illegal request that was not about the length (an address beyond the
\* disc) stays one.
ExactAnswers ==
  IF fault /\ rc = "illegal" /\ ~Refused /\ ~transients THEN {"illegal"}
  ELSE {"ok"} \cup Faults

\* rounding_suspect()
Suspects_Bug(r) == r \in {"io", "timeout"}
Suspects(r) == r \in {"io", "timeout", "illegal"}

First ==
  /\ step = "first"
  /\ \E r \in Answers :
       /\ rc' = r
       /\ timed_out' = (r = "timeout")
       /\ IF r = "ok" THEN got' \in Transfer(xfer) ELSE UNCHANGED got
       /\ step' = IF r # "ok" /\ xfer # Exact /\ xfer_exact = 0 /\ Suspects(r)
                  THEN "retry" ELSE "after"
  /\ UNCHANGED <<drive, handle, args, xfer, fault>>

\* The exact length works where the rounded one did not.  A time-out says nothing
\* about the length; that another error may as well have passed is not considered.
Condemned_Bug(r) == r = "ok"
Condemned(r) == r = "ok" /\ ~timed_out

Retry ==
  /\ step = "retry"
  /\ xfer' = Exact
  /\ \E r \in ExactAnswers :
       /\ rc' = r
       /\ xfer_exact' = IF Condemned(r) THEN 1 ELSE xfer_exact
       /\ IF r = "ok" THEN got' \in Transfer(Exact) ELSE UNCHANGED got
  /\ step' = "after"
  /\ UNCHANGED <<drive, layout, cap, args, timed_out, fault>>

Latches_Bug(t) == Winner(t) # "unknown" /\ Votes(t) >= 1
Latches(t) == Winner(t) # "unknown" /\ Votes(t) >= 2

\* What the caller's buffer is sorted by.
Use_Bug(t) == Winner(t)
Use(t) == IF Winner(t) # "unknown" THEN Winner(t) ELSE layout[<<c2, sub>>]

\* A rounded read that worked is proof for the handle; then read_cd_layout.
\* The buffer is moved into the standard's order when it is taken to be the other:
\* got.order becomes the order the caller receives.
After ==
  /\ step = "after"
  /\ IF rc # "ok"
     THEN UNCHANGED <<handle, rc, got>>
     ELSE /\ xfer_exact' = IF xfer # Exact THEN -1 ELSE xfer_exact
          /\ UNCHANGED cap
          /\ IF ~Combined THEN UNCHANGED <<layout, rc, got>>
             ELSE IF Misframed(got) THEN rc' = "misframed" /\ UNCHANGED <<layout, got>>
             ELSE /\ layout' = IF Latches(got) THEN [layout EXCEPT ![<<c2, sub>>] = Winner(got)]
                                               ELSE layout
                  /\ got' = [got EXCEPT !.order = IF Use(got) = "sub_first"
                                                  THEN Opposite(@) ELSE @]
                  /\ UNCHANGED rc
  /\ step' = "done"
  /\ UNCHANGED <<drive, args, xfer, timed_out, fault>>

Return ==
  /\ step = "done"
  /\ step' = "idle" /\ xfer' = 0 /\ rc' = "ok" /\ got' = NoTransfer
  /\ c2' = 0 /\ sub' = 0 /\ nsec' = 1
  /\ timed_out' = FALSE /\ fault' = FALSE
  /\ UNCHANGED <<drive, handle>>

Next == Call \/ BadArgs \/ Bounce \/ First \/ Retry \/ After \/ Return

Spec == Init /\ [][Next]_vars

------------------------------------------------------------------------------
(* Properties.                                                             *)

TypeOK ==
  /\ DriveInit
  /\ xfer_exact \in -1 .. 1 /\ cap \in Nat
  /\ layout \in [C2s \X Subs -> Orders \cup {"unknown"}]
  /\ step \in {"idle", "bounce", "first", "retry", "after", "done"}
  /\ c2 \in C2s \cup {0} /\ sub \in Subs \cup {0} /\ nsec \in Lengths \cup {1}
  /\ xfer \in {0, Exact, RoundUp(Exact)}
  /\ {timed_out, fault} \subseteq BOOLEAN

\* mmc.c: "a CRC-16 collision in one record is ~1 in 65 536, and a latched layout
\* is what an evidence-free buffer is sorted by later".  With no more than one
\* collision in a buffer, what is latched is the order of the drive.
LatchIsTrue == \A c \in C2s, s \in Subs : layout[<<c, s>>] \in {"unknown", order}

\* mmc.c, of xfer_exact = -1: "proven: never fall back on this handle".  Rounding is
\* taken to work, and its refusal no longer asked about, only with a drive that does
\* not refuse it, whichever of the attempts it was that succeeded.
ProvenIsTrue == xfer_exact = -1 => refuses = "no"

\* mmc.c: "a timeout is retried and forgotten".  However reads time out, come short or
\* fail on the medium, the rest of the rip goes back to exact transfers only where
\* rounding is refused; unless errors that look like a refusal pass by themselves.
TimeoutIsForgotten == xfer_exact = 1 => refuses # "no" \/ transients

\* mmc.c, of xfer_exact: "1 = the transport refused rounding on this handle", and that
\* latching on what is not about the length "would put the rest of the rip back on PIO
\* for a refusal that never happened".
ExactOnlyIfRefused == xfer_exact = 1 => refuses # "no"

\* mmc.c: "the engine's last resort is a ONE-sector read ... without this retry
\* such a drive would have no working path at all".  Whatever the handle has
\* learnt, one sector that nothing is wrong with is read.
OneSectorReadWorks ==
  step = "done" /\ nsec = 1 /\ ~fault => rc = "ok" /\ ~got.displaced

\* A buffer handed over in the wrong order, or displaced, is one the checks could
\* not have known better about: no order was latched, or a lone collision spoke
\* against it; too few records, no subchannel, or too few of its frames verify.
RecordsInPlace ==
  step = "done" /\ rc = "ok" =>
    /\ Combined /\ ~got.displaced /\ got.order # "mmc" =>
         layout[<<c2, sub>>] = "unknown" \/ (got.right = 0 /\ got.wrong = 1)
    /\ got.displaced => ~Combined \/ nsec < 4 \/ got.tail * 2 < nsec - 1 \/ got.tail < 2

\* mmc.c, on a read without a bounce buffer: a lost optimisation on most hosts
\* "and a misframing the layout check below will refuse on this one".
DisplacedIsRefused == step = "done" /\ rc = "ok" => ~got.displaced
=============================================================================
