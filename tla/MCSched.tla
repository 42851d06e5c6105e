------------------------------- MODULE MCSched -------------------------------
(* Sched with the symmetry of its threads, for TLC.                        *)
EXTENDS Sched, TLC

(* The threads the application creates are interchangeable.                *)
AppSymmetry == Permutations(Threads \ {Boot})
=============================================================================
