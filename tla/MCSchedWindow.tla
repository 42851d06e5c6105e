---------------------------- MODULE MCSchedWindow ----------------------------
(* SchedWindow for TLC.                                                    *)
EXTENDS SchedWindow, TLC

(* The threads the application creates are interchangeable.                *)
AppSymmetry == Permutations(Threads \ {Boot})
=============================================================================
