-------------------------------- MODULE MCSem --------------------------------
(* The uses of a semaphore explored by MCSem.cfg: a waiter below two       *)
(* posters in priority; three threads that wait with a timeout, try and    *)
(* post; timed waiters one of which gets signals.                          *)
EXTENDS Semaphore, TLC

CONSTANTS waiter, poster, third

MCBase == (waiter :> 2 @@ poster :> 1 @@ third :> 0)
Nothing == [wait |-> {}, timed |-> {}, try |-> {}, post |-> {}, signal |-> {}]
MCRoles ==
    {[Nothing EXCEPT !.wait = {waiter}, !.try = {waiter}, !.post = {poster, third}],
     [Nothing EXCEPT !.timed = Threads, !.try = Threads, !.post = Threads],
     [Nothing EXCEPT !.timed = {waiter, poster}, !.post = {third}, !.signal = {poster}]}
=============================================================================
