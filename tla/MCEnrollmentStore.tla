-------------------------- MODULE MCEnrollmentStore --------------------------
(* Small instances of EnrollmentStore for TLC: threads and labels are
   interchangeable. *)
EXTENDS EnrollmentStore, TLC

Symmetry == Permutations(Threads) \cup Permutations(Labels)
=============================================================================
