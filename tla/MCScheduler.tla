---------------------------- MODULE MCScheduler ----------------------------
(* Small instances of Scheduler. *)
EXTENDS Scheduler

CONSTANTS init, t1, t2, idle

\* t1 and t2 share the highest priority, below them the thread that starts them.
MCPriority == (t1 :> 0) @@ (t2 :> 0) @@ (init :> 1) @@ (idle :> 2)

\* init and idle are started before the scheduler, t1 and t2 by init.
MCTable == (0 :> <<>>) @@ (1 :> <<init>>) @@ (2 :> <<idle>>)

MCTick == (t1 :> 2) @@ (t2 :> 1) @@ (init :> 2) @@ (idle :> 2)
============================================================================
