---------------------------- MODULE MCDataQueue ----------------------------
(* Small instances of DataQueue. *)
EXTENDS DataQueue

CONSTANTS source, sink1, sink2, manager

ASSUME MaskAssumption == MaskWorks

MCPrio == [t \in Threads |-> 1]
=============================================================================
