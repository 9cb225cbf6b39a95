---------------------------- MODULE MCWriteFifo ----------------------------
(* Three tracks of 5, 0 and 6 sectors, chunks of 2: six chunks through a
   ring of two or three slots, so it fills, wraps twice and drains, with a
   short chunk at a track end and an empty track to step over. *)
EXTENDS WriteFifo

MCSegStart == <<0, 5, 5, 11>>
============================================================================
