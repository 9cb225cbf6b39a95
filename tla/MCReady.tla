------------------------------ MODULE MCReady ------------------------------
(* Two retries per unit attention (3 in the code) and three polls before a
   timeout (240 in the code): every order of quota use up to both being spent. *)
EXTENDS Ready
============================================================================
