------------------------------ MODULE MCEvent ------------------------------
(* A small instance of Event. *)
EXTENDS Event

CONSTANTS a, b

MCPrio == (a :> 1) @@ (b :> 2)
=============================================================================
