------------------------------ MODULE MCTimers ------------------------------
(* Timers for TLC.                                                         *)
EXTENDS Timers, TLC

(* The threads of the application are interchangeable.                     *)
ThreadSymmetry == Permutations(Threads)
=============================================================================
