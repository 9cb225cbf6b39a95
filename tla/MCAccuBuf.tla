----------------------------- MODULE MCAccuBuf -----------------------------
(* Five chunks through a ring of two or three slots: it fills, wraps and is
   drained or discarded at every occupancy.  count wraps at CountMod = 8, well
   above the ring's size, as 2^32 is. *)
EXTENDS AccuBuf
============================================================================
