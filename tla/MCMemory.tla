------------------------------ MODULE MCMemory ------------------------------
(* A small instance of Memory. *)
EXTENDS Memory

CONSTANTS waiter, user, manager

MCPrio == (waiter :> 1) @@ (user :> 2) @@ (manager :> 3)
=============================================================================
