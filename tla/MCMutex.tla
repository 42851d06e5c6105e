------------------------------- MODULE MCMutex -------------------------------
(* The mutexes explored by MCMutex.cfg, used by one thread of low and two  *)
(* of higher priority.                                                     *)
EXTENDS MutexCond, TLC

CONSTANTS low, high1, high2

MCBase == (low :> 2 @@ high1 :> 1 @@ high2 :> 1)
Plain == [type |-> "NORMAL", prot |-> "NONE", ceil |-> {0}, users |-> Threads,
          cond |-> {low, high1}, timed |-> {}, tryfirst |-> FALSE]
Protected == [Plain EXCEPT !.prot = "PROTECT", !.ceil = {0, 1}, !.cond = {low}]
MCRoles ==
    {Plain, [Protected EXCEPT !.type = "RECURSIVE"],
     [Protected EXCEPT !.type = "ERRORCHECK", !.users = {low, high1}, !.timed = {low, high1}]}
=============================================================================
