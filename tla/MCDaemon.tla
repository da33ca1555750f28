------------------------------ MODULE MCDaemon ------------------------------
(* Small instances of Daemon for TLC.  The constants are given in the .cfg files;
   the runs check liveness, so they use no symmetry. *)
EXTENDS Daemon, TLC
=============================================================================
