------------------------------- MODULE MCAuth -------------------------------
(* A small instance of Auth for TLC.  The constants are given in the .cfg file; the
   run checks liveness, so it uses no symmetry. *)
EXTENDS Auth, TLC
=============================================================================
