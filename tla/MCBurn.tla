------------------------------- MODULE MCBurn -------------------------------
(* Two calls on a handle whose budget may be set to one: the second meets what
   the first left behind.  Tracks of 3, 0 and 1 sectors in chunks of 2 give a
   short chunk at a track end, an empty track, and a gap of 3 that is not a
   whole number of chunks. *)
EXTENDS Burn

MCTracks == <<3, 0, 1>>
MCBudgets == {0, 1}
============================================================================
