---------------------------- MODULE MCRunManager ----------------------------
(***************************************************************************)
(* RunManager for TLC.                                                     *)
(***************************************************************************)
EXTENDS RunManager

\* The threads are interchangeable.
ThreadSymmetry == Permutations(Threads)
=============================================================================
