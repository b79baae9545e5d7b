---------------------------- MODULE MCSemaphore ----------------------------
(* Small instances of Semaphore. *)
EXTENDS Semaphore

CONSTANTS a, b, c, d

\* a is the most urgent thread, b and c share a priority.
MCPrio == (a :> 1) @@ (b :> 2) @@ (c :> 2) @@ (d :> 3)
=============================================================================
