-------------------------- MODULE MCMessageQueue --------------------------
(* Small instances of MessageQueue. *)
EXTENDS MessageQueue

CONSTANTS a, b, c

MCPrio == (a :> 1) @@ (b :> 2) @@ (c :> 3)
=============================================================================
