----------------------------- MODULE MCMailbox -----------------------------
(* Small instances of Mailbox. *)
EXTENDS Mailbox

CONSTANTS a, b, c

MCPrio == (a :> 1) @@ (b :> 2) @@ (c :> 3)
=============================================================================
