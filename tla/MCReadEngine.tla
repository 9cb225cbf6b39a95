---------------------------- MODULE MCReadEngine ----------------------------
(* Five sectors in chunks of two (the last one short), three chunks: a chunk
   with a neighbour on either side.  Every sector can come back late (a pure
   shift), from elsewhere with a Q frame that says so, damaged with C2 set, or
   not at all. *)
EXTENDS ReadEngine

MCCopies == {Good,
             [audio |-> "late", c2 |-> 0, q |-> "here"],
             [audio |-> "away", c2 |-> 0, q |-> "else"],
             [audio |-> "bad", c2 |-> 1, q |-> "here"]}

Plain == [passes |-> 1, c2_retries |-> 0, c2 |-> FALSE, c2_witness |-> FALSE,
          sub |-> FALSE, overlap |-> 0]
Seams == [Plain EXCEPT !.overlap = 1]
Witness == [Plain EXCEPT !.overlap = 1, !.c2 = TRUE, !.c2_witness = TRUE]
Rescue == [Plain EXCEPT !.passes = 2, !.c2 = TRUE, !.c2_retries = 2]
Position == [Plain EXCEPT !.sub = TRUE, !.overlap = 1]
Verified == [Plain EXCEPT !.sub = TRUE, !.passes = 2]

MCRequests == {Seams, Witness, Rescue, Position, Verified}
=============================================================================
