------------------------------ MODULE MemPool ------------------------------
(***************************************************************************)
(* The memory pool of mempool.c: equal blocks on a list of free ones, with *)
(* a counter beside the list, and a list of suspended threads with another *)
(* counter.  rt_mp_free wakes the thread that waited last; that thread     *)
(* takes a block without looking at the counter again.                     *)
(*                                                                         *)
(* That is right only while nobody comes in between, so this module keeps  *)
(* the one thing of the scheduler that matters: a ready thread that stands *)
(* inside a call runs before any less urgent thread (Urgent).              *)
(***************************************************************************)
EXTENDS Integers, IpcThread

CONSTANTS BlockCount, \* mp->block_total_count
          NoOwner,
          Users,      \* the threads that allocate and free blocks
          Waiters     \* those of them that wait for a block

ASSUME MemPoolAssumption ==
    /\ BlockCount \in Nat \ {0}
    /\ NoOwner \notin Threads
    /\ Waiters \subseteq Users /\ Users \subseteq Threads

VARIABLES block_list,             \* the free blocks, first one first
          block_free_count,
          suspend_thread,
          suspend_thread_count,
          held                    \* block -> who holds it

poolState == <<block_list, block_free_count, suspend_thread, suspend_thread_count, held>>

Blocks == 1..BlockCount

\* rt_mp_init, and the end of rt_mp_create: all blocks are free.
PoolReset ==
    /\ block_list' = [i \in Blocks |-> i]
    /\ block_free_count' = BlockCount
    /\ suspend_thread' = <<>> /\ suspend_thread_count' = 0
    /\ held' = [b \in Blocks |-> NoOwner]

\* No pool yet, or none any more.
NoPool ==
    /\ block_list = <<>> /\ block_free_count = 0
    /\ suspend_thread = <<>> /\ suspend_thread_count = 0
    /\ held = [b \in Blocks |-> NoOwner]

\* No more urgent thread is on its way out of rt_mp_alloc.
Urgent(t) == \A u \in Threads : At(u, "woken") => u = t \/ Prio[u] >= Prio[t]

\* The block at the head of the list is taken off.
Pop(t) ==
    /\ block_free_count' = block_free_count - 1
    /\ block_list' = Tail(block_list)
    /\ held' = [held EXCEPT ![Head(block_list)] = t]

\* rt_mp_alloc of a pool with a free block.
Alloc(t) ==
    /\ At(t, "run") /\ t \in Users /\ Urgent(t)
    /\ block_free_count # 0
    /\ Pop(t)
    /\ UNCHANGED <<ipcVars, suspend_thread, suspend_thread_count>>

\* Mutant of AllocSuspend: the waiter is not counted.
AllocSuspend_Uncounted(t) ==
    /\ At(t, "run") /\ t \in Waiters /\ Urgent(t)
    /\ block_free_count = 0
    /\ stat' = [stat EXCEPT ![t] = "SUSPEND"]
    /\ suspend_thread' = rt_list_insert_after(suspend_thread, t)
    /\ Goto(t, "woken")
    /\ UNCHANGED <<error, thread_timer, block_list, block_free_count, held, suspend_thread_count>>

\* rt_mp_alloc of an empty pool: the thread is linked in front.  Its error is
\* left as it is.
AllocSuspend(t) ==
    /\ At(t, "run") /\ t \in Waiters /\ Urgent(t)
    /\ block_free_count = 0
    /\ stat' = [stat EXCEPT ![t] = "SUSPEND"]
    /\ suspend_thread' = rt_list_insert_after(suspend_thread, t)
    /\ suspend_thread_count' = suspend_thread_count + 1
    /\ Goto(t, "woken")
    /\ UNCHANGED <<error, thread_timer, block_list, block_free_count, held>>

\* A woken thread takes a block, or leaves with an error.
AllocWoken(t) ==
    /\ At(t, "woken") /\ Urgent(t)
    /\ Goto(t, "run")
    /\ IF error[t] = "EOK" THEN Pop(t) ELSE UNCHANGED <<block_list, block_free_count, held>>
    /\ UNCHANGED <<stat, error, thread_timer, suspend_thread, suspend_thread_count>>

\* Mutant of WakeOne: nobody is woken.
WakeOne_Not == UNCHANGED <<stat, error, suspend_thread, suspend_thread_count>>

\* rt_mp_free: the first thread of the list goes on.
WakeOne ==
    /\ stat' = [stat EXCEPT ![Head(suspend_thread)] = "READY"]
    /\ error' = [error EXCEPT ![Head(suspend_thread)] = "EOK"]
    /\ suspend_thread' = Tail(suspend_thread)
    /\ suspend_thread_count' = suspend_thread_count - 1

\* rt_mp_free
FreeToPool(t, b) ==
    /\ At(t, "run") /\ held[b] = t /\ Urgent(t)
    /\ block_free_count' = block_free_count + 1
    /\ block_list' = <<b>> \o block_list
    /\ held' = [held EXCEPT ![b] = NoOwner]
    /\ IF suspend_thread_count > 0 THEN WakeOne
       ELSE UNCHANGED <<stat, error, suspend_thread, suspend_thread_count>>
    /\ UNCHANGED <<thread_timer, pc>>

\* One turn of the loop of rt_mp_delete and rt_mp_detach.
WakeWithError ==
    /\ stat' = [stat EXCEPT ![Head(suspend_thread)] = "READY"]
    /\ error' = [error EXCEPT ![Head(suspend_thread)] = "ERROR"]
    /\ suspend_thread' = Tail(suspend_thread)
    /\ suspend_thread_count' = suspend_thread_count - 1
    /\ UNCHANGED <<block_list, block_free_count, held>>

PoolUse(t) == Alloc(t) \/ AllocSuspend(t) \/ AllocWoken(t) \/ \E b \in Blocks : FreeToPool(t, b)
=============================================================================
