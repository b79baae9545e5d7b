------------------------------- MODULE Mutex -------------------------------
(***************************************************************************)
(* The mutex of ipc.c with its priority inheritance, and the choice of the *)
(* running thread as far as inheritance is about it: rt_schedule runs a    *)
(* ready thread of the highest priority (the smallest number).  A call     *)
(* that ends in rt_schedule is one step with it.                           *)
(***************************************************************************)
EXTENDS IpcThread

CONSTANTS NoThread,       \* RT_NULL as an owner; also: no thread is ready, idle runs
          Mutexes,        \* numbers; threads take mutexes in ascending order
          MaxHold,        \* bound on mutex->hold
          TimedTakers,    \* threads that take with a timeout
          Sleepers,       \* threads that sleep now and then, holding mutexes or not
          InnerFirst      \* TRUE: a thread releases the mutex it took last first

ASSUME MutexAssumption ==
    /\ NoThread \notin Threads
    /\ Mutexes \subseteq Nat
    /\ MaxHold \in Nat \ {0}
    /\ TimedTakers \subseteq Threads /\ Sleepers \subseteq Threads
    /\ InnerFirst \in BOOLEAN

VARIABLES value, owner, hold, original_priority,   \* mutex->...
          suspend_thread,                          \* mutex->parent.suspend_thread
          current_priority,                        \* thread->current_priority
          rt_current_thread

mutexVars == <<value, owner, hold, original_priority, suspend_thread>>
vars == <<ipcVars, mutexVars, current_priority, rt_current_thread>>

\* The priority of a mutex without an owner: no thread has it.
NoPriority == 255

\* rt_mutex_init, rt_mutex_create; every thread is ready.
Init ==
    /\ IpcInit
    /\ value = [m \in Mutexes |-> 1]
    /\ owner = [m \in Mutexes |-> NoThread]
    /\ hold = [m \in Mutexes |-> 0]
    /\ original_priority = [m \in Mutexes |-> NoPriority]
    /\ suspend_thread = [m \in Mutexes |-> <<>>]
    /\ current_priority = Prio
    /\ rt_current_thread \in {t \in Threads : \A u \in Threads : Prio[t] <= Prio[u]}

\* The ready threads of the highest priority.
Highest(st, prio) ==
    LET ready == {t \in Threads : st[t] = "READY"}
    IN  {t \in ready : \A u \in ready : prio[t] <= prio[u]}

\* rt_schedule in the state a step leads to.
rt_schedule ==
    LET highest == Highest(stat', current_priority')
    IN  IF highest = {} THEN rt_current_thread' = NoThread
        ELSE rt_current_thread' \in highest

Running(c, label) == c = rt_current_thread /\ At(c, label)

Owned(c) == {m \in Mutexes : owner[m] = c}

\* The application takes mutexes in ascending order.
InOrder(c, m) == \A n \in Owned(c) : n <= m

\* rt_mutex_take by the owner.
TakeAgain(c, m) ==
    /\ Running(c, "run") /\ owner[m] = c /\ InOrder(c, m) /\ hold[m] < MaxHold
    /\ hold' = [hold EXCEPT ![m] = @ + 1]
    /\ error' = [error EXCEPT ![c] = "EOK"]
    /\ UNCHANGED <<stat, thread_timer, pc, value, owner, original_priority, suspend_thread,
                   current_priority, rt_current_thread>>

\* rt_mutex_take of an available mutex.
Take(c, m) ==
    /\ Running(c, "run") /\ owner[m] # c /\ InOrder(c, m) /\ value[m] > 0
    /\ value' = [value EXCEPT ![m] = @ - 1]
    /\ owner' = [owner EXCEPT ![m] = c]
    /\ original_priority' = [original_priority EXCEPT ![m] = current_priority[c]]
    /\ hold' = [hold EXCEPT ![m] = @ + 1]
    /\ error' = [error EXCEPT ![c] = "EOK"]
    /\ UNCHANGED <<stat, thread_timer, pc, suspend_thread, current_priority, rt_current_thread>>

\* Mutant of Boosted: no priority inheritance.
Boosted_Not(c, m) == current_priority

\* The owner inherits the priority of a more urgent thread that has to wait.
Boosted(c, m) ==
    IF current_priority[c] < current_priority[owner[m]]
    THEN [current_priority EXCEPT ![owner[m]] = current_priority[c]]
    ELSE current_priority

\* rt_mutex_take of a mutex another thread owns.  (With time = 0 it returns
\* -RT_ETIMEOUT and only sets thread->error.)
TakeSuspend(c, m, timed) ==
    /\ Running(c, "run") /\ owner[m] # c /\ InOrder(c, m) /\ value[m] = 0
    /\ timed => c \in TimedTakers
    /\ current_priority' = Boosted(c, m)
    /\ Suspend(c, timed)
    /\ suspend_thread' = [suspend_thread EXCEPT ![m] = rt_ipc_list_suspend(@, c, current_priority')]
    /\ Goto(c, "wait")
    /\ UNCHANGED <<value, owner, hold, original_priority>>
    /\ rt_schedule

\* The end of rt_mutex_take after the wakeup.
TakeReturn(c) ==
    /\ Running(c, "wait")
    /\ Goto(c, "run")
    /\ UNCHANGED <<stat, error, thread_timer, mutexVars, current_priority, rt_current_thread>>

\* rt_mutex_release of a mutex the thread does not own.
ReleaseRefused(c, m) ==
    /\ Running(c, "run") /\ owner[m] # c
    /\ error' = [error EXCEPT ![c] = "ERROR"]
    /\ UNCHANGED <<stat, thread_timer, pc, mutexVars, current_priority, rt_current_thread>>

\* The order the application releases in.
MayRelease(c, m) ==
    /\ Running(c, "run") /\ owner[m] = c
    /\ InnerFirst => \A n \in Owned(c) : n <= m

\* rt_mutex_release that leaves the mutex held.
ReleaseNested(c, m) ==
    /\ MayRelease(c, m) /\ hold[m] > 1
    /\ hold' = [hold EXCEPT ![m] = @ - 1]
    /\ UNCHANGED <<ipcVars, value, owner, original_priority, suspend_thread, current_priority,
                   rt_current_thread>>

\* Mutant of Restored: the owner keeps the inherited priority.
Restored_Not(c, m) == current_priority

\* The owner goes back to the priority it had when it took the mutex.
Restored(c, m) == [current_priority EXCEPT ![c] = original_priority[m]]

\* The last release without a waiter: the mutex becomes available, and no
\* rt_schedule follows, whatever became of the priority.
ReleaseFree(c, m) ==
    /\ MayRelease(c, m) /\ hold[m] = 1 /\ rt_list_isempty(suspend_thread[m])
    /\ current_priority' = Restored(c, m)
    /\ hold' = [hold EXCEPT ![m] = @ - 1]
    /\ value' = [value EXCEPT ![m] = @ + 1]
    /\ owner' = [owner EXCEPT ![m] = NoThread]
    /\ original_priority' = [original_priority EXCEPT ![m] = NoPriority]
    /\ UNCHANGED <<ipcVars, suspend_thread, rt_current_thread>>

\* Mutant of NextOwner: the first waiter is woken and has to take the mutex.
NextOwner_None(m) == NoThread

\* The waiter the mutex is handed to.
NextOwner(m) == Head(suspend_thread[m])

\* The last release with waiters: the first one becomes the owner at once.
ReleaseHandOver(c, m) ==
    /\ MayRelease(c, m) /\ hold[m] = 1 /\ ~rt_list_isempty(suspend_thread[m])
    /\ LET t == Head(suspend_thread[m])
       IN  /\ current_priority' = Restored(c, m)
           /\ owner' = [owner EXCEPT ![m] = NextOwner(m)]
           /\ original_priority' = [original_priority EXCEPT ![m] = current_priority'[t]]
           /\ suspend_thread' = [suspend_thread EXCEPT ![m] = Tail(@)]
           /\ Resume(t)
           /\ UNCHANGED <<pc, hold, value>>
    /\ rt_schedule

\* A waiter's timer expires: rt_thread_timeout and rt_schedule.
TakeTimeout(t) ==
    /\ Timeout(t)
    /\ suspend_thread' = [m \in Mutexes |-> rt_list_remove(suspend_thread[m], t)]
    /\ UNCHANGED <<pc, value, owner, hold, original_priority, current_priority>>
    /\ rt_schedule

\* The running thread sleeps (rt_thread_delay) ...
Sleep(c) ==
    /\ Running(c, "run") /\ c \in Sleepers
    /\ stat' = [stat EXCEPT ![c] = "SUSPEND"]
    /\ Goto(c, "sleep")
    /\ UNCHANGED <<error, thread_timer, mutexVars, current_priority>>
    /\ rt_schedule

\* ... and the tick wakes it.
Wake(t) ==
    /\ stat[t] = "SUSPEND" /\ pc[t] = "sleep"
    /\ stat' = [stat EXCEPT ![t] = "READY"]
    /\ Goto(t, "run")
    /\ UNCHANGED <<error, thread_timer, mutexVars, current_priority>>
    /\ rt_schedule

LastRelease(c, m) == ReleaseFree(c, m) \/ ReleaseHandOver(c, m)

Next ==
    \E c \in Threads :
        \/ TakeReturn(c) \/ TakeTimeout(c) \/ Sleep(c) \/ Wake(c)
        \/ \E m \in Mutexes :
              \/ Take(c, m) \/ TakeAgain(c, m)
              \/ \E timed \in BOOLEAN : TakeSuspend(c, m, timed)
              \/ ReleaseRefused(c, m) \/ ReleaseNested(c, m) \/ LastRelease(c, m)

Spec == Init /\ [][Next]_vars

\* A thread that runs while it owns a mutex releases it sooner or later (strong
\* fairness: it may be preempted again and again), sleeping threads wake up and
\* a call that was woken returns.  A thread that owns nothing may run for ever.
FairSpec ==
    /\ Spec
    /\ \A c \in Threads :
           /\ WF_vars(Wake(c)) /\ SF_vars(TakeReturn(c))
           /\ \A m \in Mutexes : SF_vars(ReleaseNested(c, m)) /\ SF_vars(LastRelease(c, m))

-----------------------------------------------------------------------------
(* Properties *)

Waiters(m) == ToSet(suspend_thread[m])

\* value, owner and hold tell the same story, a mutex with waiters has an
\* owner that will wake them, and the owner does not wait for its own mutex.
OwnerConsistent ==
    \A m \in Mutexes :
        /\ value[m] = 1 <=> owner[m] = NoThread
        /\ hold[m] = 0 <=> owner[m] = NoThread
        /\ suspend_thread[m] # <<>> => owner[m] # NoThread
        /\ owner[m] \notin Waiters(m)

\* Priority inheritance: the owner of a mutex is at least as urgent as every
\* thread that waits for it.
OwnerInherits ==
    \A m \in Mutexes : \A t \in Waiters(m) : current_priority[owner[m]] <= current_priority[t]

\* A thread that owns no mutex has its own priority again.
PriorityRestored ==
    \A t \in Threads : Owned(t) = {} => current_priority[t] = Prio[t]

\* No unbounded priority inversion: the most urgent thread gets the mutex it
\* waits for although a thread of middle priority never stops running.
UrgentThreadServed ==
    \A t \in Threads, m \in Mutexes :
        (t \in Waiters(m) /\ \A u \in Threads : Prio[t] <= Prio[u]) ~> t \notin Waiters(m)
=============================================================================
