----------------------------- MODULE Semaphore -----------------------------
(***************************************************************************)
(* The counting semaphore of ipc.c.                                        *)
(***************************************************************************)
EXTENDS IpcObject

CONSTANTS InitValue,      \* value passed to rt_sem_init
          ValueMod,       \* 2^16: sem->value is a rt_uint16_t
          MaxTokens,      \* bound on the tokens in circulation
          TimedTakers,    \* threads that take with a timeout
          Deleters        \* threads that call rt_sem_delete or rt_sem_detach

ASSUME SemaphoreAssumption ==
    /\ IsFiniteSet(Threads)
    /\ ValueMod \in Nat \ {0}
    /\ MaxTokens \in 0..(ValueMod - 1)
    /\ InitValue \in 0..MaxTokens
    /\ TimedTakers \subseteq Threads
    /\ Resetters \subseteq Threads
    /\ Deleters \subseteq Threads

VARIABLES value,            \* sem->value
          deleted,          \* the object is gone
          tokens,           \* released and not yet consumed by a take that returned RT_EOK
          head_as_thread    \* rt_ipc_list_resume_all took the list head for a thread

vars == <<ipcVars, value, suspend_thread, deleted, tokens, head_as_thread>>

\* rt_sem_init, rt_sem_create
Init ==
    /\ IpcInit
    /\ value = InitValue
    /\ rt_ipc_object_init
    /\ deleted = FALSE
    /\ tokens = InitValue
    /\ head_as_thread = FALSE

\* The object may be used: no call has begun to delete it.  (To delete a
\* semaphore others still take or release is an error of the application.)
Usable ==
    /\ ~deleted /\ ~head_as_thread
    /\ \A d \in Threads : pc[d] \notin {"delete_test", "delete_resume", "delete_object"}

Available == value > 0

\* rt_sem_take and rt_sem_trytake of an available semaphore.
Take(t) ==
    /\ Usable /\ At(t, "run") /\ Available
    /\ value' = value - 1
    /\ tokens' = tokens - 1
    /\ UNCHANGED <<ipcVars, suspend_thread, deleted, head_as_thread>>

\* rt_sem_take of an unavailable one, up to its call of rt_schedule.  (With
\* time = 0 it returns -RT_ETIMEOUT and changes nothing.)
TakeSuspend(t, timed) ==
    /\ Usable /\ At(t, "run") /\ ~Available
    /\ timed => t \in TimedTakers
    /\ Suspend(t, timed)
    /\ suspend_thread' = rt_ipc_list_suspend(suspend_thread, t, Prio)
    /\ Goto(t, "wait")
    /\ UNCHANGED <<value, deleted, tokens, head_as_thread>>

\* The end of rt_sem_take after the wakeup: RT_EOK means the token is taken.
TakeReturn(t) ==
    /\ At(t, "wait")
    /\ tokens' = IF error[t] = "EOK" THEN tokens - 1 ELSE tokens
    /\ Goto(t, "run")
    /\ UNCHANGED <<stat, error, thread_timer, value, suspend_thread, deleted, head_as_thread>>

\* Mutant of ReleasedValue: the value is increased for a woken thread too.
ReleasedValue_Twice == (value + 1) % ValueMod

\* The value after a release: increased unless a thread is woken.
ReleasedValue == IF rt_list_isempty(suspend_thread) THEN (value + 1) % ValueMod ELSE value

\* rt_sem_release, by a thread or by an interrupt: the token goes to the first
\* waiter or into the value.
Release ==
    /\ Usable /\ tokens < MaxTokens
    /\ tokens' = tokens + 1
    /\ value' = ReleasedValue
    /\ IF rt_list_isempty(suspend_thread)
       THEN UNCHANGED <<stat, error, thread_timer, suspend_thread>>
       ELSE /\ Resume(Head(suspend_thread))
            /\ suspend_thread' = Tail(suspend_thread)
    /\ UNCHANGED <<pc, deleted, head_as_thread>>

\* The thread timer expires: rt_thread_timeout unlinks the thread.
TakeTimeout(t) ==
    /\ ~head_as_thread
    /\ Timeout(t)
    /\ suspend_thread' = rt_list_remove(suspend_thread, t)
    /\ UNCHANGED <<pc, value, deleted, tokens, head_as_thread>>

\* The tokens of threads that were handed one and have not returned yet.
Granted == {t \in Threads : stat[t] = "READY" /\ pc[t] = "wait" /\ error[t] = "EOK"}

\* rt_sem_control(RT_IPC_CMD_RESET): one section.
Reset(t, v) ==
    /\ Usable /\ At(t, "run") /\ t \in Resetters
    /\ v + Cardinality(Granted) <= MaxTokens
    /\ ResumeAll(suspend_thread)
    /\ suspend_thread' = <<>>
    /\ value' = v % ValueMod
    /\ tokens' = v + Cardinality(Granted)
    /\ UNCHANGED <<pc, deleted, head_as_thread>>

\* The test of the loop of rt_ipc_list_resume_all.
LoopTest == IF rt_list_isempty(suspend_thread) THEN "delete_object" ELSE "delete_resume"

\* rt_sem_delete and rt_sem_detach: the loop of rt_ipc_list_resume_all tests
\* the list with interrupts enabled ...
DeleteTest(d) ==
    /\ At(d, "delete_test") \/ (Usable /\ At(d, "run") /\ d \in Deleters)
    /\ ~head_as_thread
    /\ Goto(d, LoopTest)
    /\ UNCHANGED <<stat, error, thread_timer, value, suspend_thread, deleted, tokens,
                   head_as_thread>>

\* ... and then resumes its first thread without testing again.
DeleteResume(d) ==
    /\ At(d, "delete_resume") /\ ~head_as_thread
    /\ IF rt_list_isempty(suspend_thread)
       THEN /\ head_as_thread' = TRUE
            /\ UNCHANGED <<stat, error, thread_timer, suspend_thread>>
       ELSE /\ ResumeWithError(suspend_thread)
            /\ suspend_thread' = Tail(suspend_thread)
            /\ UNCHANGED head_as_thread
    /\ Goto(d, "delete_test")
    /\ UNCHANGED <<value, deleted, tokens>>

\* rt_object_delete, rt_object_detach
DeleteObject(d) ==
    /\ At(d, "delete_object")
    /\ deleted' = TRUE
    /\ Goto(d, "run")
    /\ UNCHANGED <<stat, error, thread_timer, value, suspend_thread, tokens, head_as_thread>>

Step(t) ==
    \/ Take(t) \/ TakeReturn(t) \/ TakeTimeout(t)
    \/ \E timed \in BOOLEAN : TakeSuspend(t, timed)
    \/ \E v \in 0..MaxTokens : Reset(t, v)
    \/ DeleteTest(t) \/ DeleteResume(t) \/ DeleteObject(t)

Next == Release \/ \E t \in Threads : Step(t)

Spec == Init /\ [][Next]_vars

\* Threads that are ready get to run, timers expire, and tokens keep being
\* released (by an interrupt, say).
FairSpec ==
    /\ Spec
    /\ WF_vars(Release)
    /\ \A t \in Threads : /\ WF_vars(TakeReturn(t)) /\ WF_vars(TakeTimeout(t))
                          /\ WF_vars(DeleteTest(t)) /\ WF_vars(DeleteResume(t))
                          /\ WF_vars(DeleteObject(t))

-----------------------------------------------------------------------------
(* Properties *)

\* The types of the variables.
TypeOK ==
    /\ stat \in [Threads -> {"READY", "SUSPEND"}]
    /\ error \in [Threads -> Errors]
    /\ thread_timer \subseteq Threads
    /\ pc \in [Threads -> {"run", "wait", "delete_test", "delete_resume", "delete_object"}]
    /\ value \in 0..(ValueMod - 1)
    /\ suspend_thread \in Seq(Threads)
    /\ deleted \in BOOLEAN
    /\ tokens \in 0..MaxTokens
    /\ head_as_thread \in BOOLEAN

\* No wakeup is lost: nobody is suspended on a semaphore whose value is
\* positive, whatever releases, timeouts and resets came in which order.
NoWaiterWhileAvailable == suspend_thread # <<>> => value = 0

\* The list holds exactly the threads that are suspended in rt_sem_take, each
\* once, and only they have a started timer.
WaitersAreSuspended ==
    /\ LinkedOnce(suspend_thread)
    /\ ToSet(suspend_thread) = {t \in Threads : stat[t] = "SUSPEND"}
    /\ thread_timer \subseteq ToSet(suspend_thread)
    /\ \A t \in ToSet(suspend_thread) : pc[t] = "wait"

\* No token is lost or made up: a token is in the value or on its way to a
\* thread that was woken with it; a thread that timed out has none.
TokensConserved == value + Cardinality(Granted) = tokens

\* A RT_IPC_FLAG_PRIO semaphore keeps its waiters in the order of priority, so
\* that rt_sem_release wakes the most urgent one.
WaitersInOrder ==
    PrioFlag => \A i, j \in DOMAIN suspend_thread :
                    i < j => Prio[suspend_thread[i]] <= Prio[suspend_thread[j]]

\* rt_ipc_list_resume_all finds a thread in the list it resumes.
ResumesAThread == ~head_as_thread

\* rt_sem_delete leaves nobody suspended on the semaphore.
DeleteWakesAll == deleted => suspend_thread = <<>>

\* The list of waiters is what rt_sem_release relies on: the suspended threads,
\* each once and in order, and none of them is left behind by rt_sem_delete.
WaitersConsistent == WaitersAreSuspended /\ WaitersInOrder /\ DeleteWakesAll

\* While tokens are released, a FIFO semaphore serves every waiter, and a
\* RT_IPC_FLAG_PRIO one serves the most urgent thread: neither is overtaken
\* for ever, nor forgotten by a reset or a deletion.
WaitersServed ==
    \A t \in Threads :
        (~PrioFlag \/ \A u \in Threads \ {t} : Prio[t] < Prio[u])
        => ((stat[t] = "SUSPEND") ~> (stat[t] = "READY"))
=============================================================================
