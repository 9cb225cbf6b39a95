----------------------------- MODULE AudioStream -----------------------------
(***************************************************************************)
(* What feeding a burn promises, whatever carries the bytes: the disc      *)
(* receives the source sector by sector, in order, nothing skipped and     *)
(* nothing twice, and the burn is called complete only when the whole      *)
(* source is on the disc.  disc[i] is the source sector recorded at        *)
(* payload address i.  src/write/fifo.c and the synchronous path of        *)
(* src/write/burn.c both have to provide this.                             *)
(***************************************************************************)
EXTENDS Integers

CONSTANTS
  Total,      \* sectors in the source
  MaxChunk    \* most sectors one WRITE(10) carries

VARIABLES disc, lba, status

streamVars == <<disc, lba, status>>

\* The first n sectors of the source, each at its own address.
Laid(n) == [i \in 0 .. n - 1 |-> i]

Init ==
  /\ lba = 0
  /\ disc = Laid(0)
  /\ status = "running"

Send ==
  /\ status = "running"
  /\ \E n \in 1 .. MaxChunk :
       /\ lba + n <= Total
       /\ lba' = lba + n
       /\ disc' = Laid(lba + n)
  /\ UNCHANGED status

Complete ==
  /\ status = "running"
  /\ lba = Total
  /\ status' = "complete"
  /\ UNCHANGED <<disc, lba>>

Fail ==
  /\ status = "running"
  /\ status' = "failed"
  /\ UNCHANGED <<disc, lba>>

Next == Send \/ Complete \/ Fail

Spec == Init /\ [][Next]_streamVars
==============================================================================
