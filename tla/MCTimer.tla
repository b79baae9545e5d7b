------------------------------ MODULE MCTimer ------------------------------
(* Small instances of Timer. *)
EXTENDS Timer

CONSTANTS a, x, z

\* The thread has a timer of its own; z is started by timeout functions.
MCThreadTimers == (a :> {x})
============================================================================
