------------------------------ MODULE MCMutex ------------------------------
(* Small instances of Mutex. *)
EXTENDS Mutex

CONSTANTS high, mid, low

MCPrio == (high :> 1) @@ (mid :> 2) @@ (low :> 3)
=============================================================================
