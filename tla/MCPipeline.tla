----------------------------- MODULE MCPipeline -----------------------------
(* Small instances of Pipeline for TLC.  The constants are given in the .cfg
   files; the runs check liveness, or find their violation at once, and use no
   symmetry. *)
EXTENDS Pipeline, TLC
=============================================================================
