----------------------------- MODULE MCSyscalls -----------------------------
(***************************************************************************)
(* Two threads and one that does not exist yet.  The first makes any call, *)
(* and its signal handler prints; the second waits for a semaphore.        *)
(***************************************************************************)
EXTENDS SyscallPath, TLC

MCCalls == (1 :> Names @@ 2 :> {"sem_wait"} @@ 3 :> {})
MCHandlerCalls == (1 :> {"write"} @@ 2 :> {} @@ 3 :> {})
=============================================================================
