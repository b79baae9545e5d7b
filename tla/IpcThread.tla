----------------------------- MODULE IpcThread -----------------------------
(***************************************************************************)
(* What the blocking calls of ipc.c (and of mempool.c and the data queue)  *)
(* have in common: a thread is suspended on a list, its thread timer may   *)
(* run, and it is woken by another call, by a reset or deletion of the     *)
(* object, or by its timer.  Each operator is the part of a section that   *)
(* rt_ipc_list_suspend, rt_ipc_list_resume and rt_thread_timeout do to the *)
(* thread; the lists belong to the modules that use them.                  *)
(*                                                                         *)
(* Which ready thread runs is left open (see Scheduler for the choice), so *)
(* every interleaving of sections is possible.                             *)
(***************************************************************************)
EXTENDS Naturals, FiniteSets, RtList

CONSTANTS Threads,    \* the threads that use the object
          Prio,       \* init_priority of each of them
          PrioFlag    \* TRUE: RT_IPC_FLAG_PRIO, FALSE: RT_IPC_FLAG_FIFO

ASSUME IpcAssumption ==
    /\ Prio \in [Threads -> Nat]
    /\ PrioFlag \in BOOLEAN

VARIABLES stat,           \* thread->stat
          error,          \* thread->error
          thread_timer,   \* the threads whose thread_timer is started
          pc              \* where a thread stands inside a call

ipcVars == <<stat, error, thread_timer, pc>>

Errors == {"EOK", "ETIMEOUT", "ERROR", "EFULL"}

IpcInit ==
    /\ stat = [t \in Threads |-> "READY"]
    /\ error = [t \in Threads |-> "EOK"]
    /\ thread_timer = {}
    /\ pc = [t \in Threads |-> "run"]

\* A ready thread stands at the given place of its code.
At(t, label) == stat[t] = "READY" /\ pc[t] = label

Goto(t, label) == pc' = [pc EXCEPT ![t] = label]

\* Mutant of rt_ipc_list_suspend: the thread is linked in front.
rt_ipc_list_suspend_Front(list, t, prio) == rt_list_insert_after(list, t)

\* rt_ipc_list_suspend: the list with the thread linked into it.
rt_ipc_list_suspend(list, t, prio) ==
    IF PrioFlag THEN InsertByPriority(list, t, prio) ELSE rt_list_insert_before(list, t)

\* rt_ipc_list_suspend and the start of the timer: the thread.  A negative
\* time waits for ever.
Suspend(t, timed) ==
    /\ stat' = [stat EXCEPT ![t] = "SUSPEND"]
    /\ error' = [error EXCEPT ![t] = "EOK"]
    /\ thread_timer' = IF timed THEN thread_timer \cup {t} ELSE thread_timer

\* rt_thread_resume: the thread.
Resume(t) ==
    /\ stat' = [stat EXCEPT ![t] = "READY"]
    /\ thread_timer' = thread_timer \ {t}
    /\ UNCHANGED error

\* rt_ipc_list_resume_all inside a section: every thread of the list is
\* resumed with an error.
ResumeAll(list) ==
    /\ stat' = [t \in Threads |-> IF t \in ToSet(list) THEN "READY" ELSE stat[t]]
    /\ error' = [t \in Threads |-> IF t \in ToSet(list) THEN "ERROR" ELSE error[t]]
    /\ thread_timer' = thread_timer \ ToSet(list)

\* One turn of the loop of rt_ipc_list_resume_all: the first thread.
ResumeWithError(list) ==
    /\ stat' = [stat EXCEPT ![Head(list)] = "READY"]
    /\ error' = [error EXCEPT ![Head(list)] = "ERROR"]
    /\ thread_timer' = thread_timer \ {Head(list)}

\* Mutant of Timeout: thread->error is not set.
Timeout_NoError(t) ==
    /\ t \in thread_timer
    /\ stat' = [stat EXCEPT ![t] = "READY"]
    /\ thread_timer' = thread_timer \ {t}
    /\ UNCHANGED error

\* rt_thread_timeout: the thread.
Timeout(t) ==
    /\ t \in thread_timer
    /\ stat' = [stat EXCEPT ![t] = "READY"]
    /\ error' = [error EXCEPT ![t] = "ETIMEOUT"]
    /\ thread_timer' = thread_timer \ {t}
=============================================================================
