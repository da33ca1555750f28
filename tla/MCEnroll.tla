------------------------------ MODULE MCEnroll ------------------------------
(* Small instances of Enroll for TLC.  The constants are given in the .cfg files;
   clients are interchangeable. *)
EXTENDS Enroll, TLC

Symmetry == Permutations(Clients)
=============================================================================
