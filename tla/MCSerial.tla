------------------------------ MODULE MCSerial ------------------------------
(* Small instances of Serial. *)
EXTENDS Serial

\* The demo threads by their numbers: a later one is more urgent.
MCWriterPrio == [w \in Writers |-> 9 - w]
=============================================================================
