------------------------------- MODULE Event -------------------------------
(***************************************************************************)
(* The event object of ipc.c: a set of bits that threads wait for.         *)
(***************************************************************************)
EXTENDS IpcObject

CONSTANTS Bits,           \* the bits of event->set
          TimedReceivers  \* threads that receive with a timeout

ASSUME EventAssumption == TimedReceivers \subseteq Threads /\ Resetters \subseteq Threads

VARIABLES set,              \* event->set
          event_set,        \* thread->event_set: what a thread waits for, then what it got
          event_info,       \* thread->event_info: RT_EVENT_FLAG_AND, RT_EVENT_FLAG_CLEAR
          wanted,           \* the set and the option passed to rt_event_recv
          recved            \* *recved after rt_event_recv, {} if it failed

eventVars == <<ipcVars, set, suspend_thread, event_set, event_info, wanted, recved>>

Sets == SUBSET Bits \ {{}}
Options == [and : BOOLEAN, clear : BOOLEAN]

\* rt_event_init, rt_event_create
EventInit ==
    /\ IpcInit
    /\ set = {}
    /\ rt_ipc_object_init
    /\ event_set = [t \in Threads |-> {}]
    /\ event_info = [t \in Threads |-> [and |-> FALSE, clear |-> FALSE]]
    /\ wanted = [t \in Threads |-> [bits |-> {}, and |-> FALSE]]
    /\ recved = [t \in Threads |-> {}]

\* Mutant of Satisfied: one bit is enough for everyone.
Satisfied_AnyBit(option, bits, s) == bits \cap s # {}

\* The condition of a receiver: all of its bits, or one of them.
Satisfied(option, bits, s) == IF option.and THEN bits \subseteq s ELSE bits \cap s # {}

\* Mutant of Wakes: the search ends at the first thread that is satisfied.
Wakes_OnlyFirst(s, i) ==
    LET is(j) == Satisfied(event_info[suspend_thread[j]], event_set[suspend_thread[j]], s[j])
    IN is(i) /\ \A j \in 1..(i - 1) : ~is(j)

\* Turn i of the loop of rt_event_send finds the condition of its thread true,
\* s[i] being event->set when the turn begins.
Wakes(s, i) == Satisfied(event_info[suspend_thread[i]], event_set[suspend_thread[i]], s[i])

\* Mutant of AfterTurn: a satisfied thread leaves the bits it got in the set.
AfterTurn_NotCleared(s, i) == s[i]

\* event->set when turn i ends: a woken thread clears its bits if it asked to.
AfterTurn(s, i) ==
    LET t == suspend_thread[i]
    IN IF Wakes(s, i) /\ event_info[t].clear THEN s[i] \ event_set[t] ELSE s[i]

\* What is left of a list without some of its nodes, in the same order.
Remaining(list, gone) ==
    {rest \in UNION {[1..n -> ToSet(list)] : n \in 0..Len(list)} :
        /\ ToSet(rest) = ToSet(list) \ gone
        /\ \A j, k \in DOMAIN rest : j < k =>
              \E i, l \in DOMAIN list : i < l /\ list[i] = rest[j] /\ list[l] = rest[k]}

\* rt_event_send, by a thread or an interrupt: the bits are set, then every turn
\* of the loop over the suspended threads may take some of them and wake its
\* thread, which keeps the bits it waited for and found.
Send(bits) ==
    \E s \in [1..(Len(suspend_thread) + 1) -> SUBSET Bits] :
        LET turnOf(t) == CHOOSE i \in DOMAIN suspend_thread : suspend_thread[i] = t
            woken == {suspend_thread[i] : i \in {j \in DOMAIN suspend_thread : Wakes(s, j)}}
        IN  /\ s[1] = set \cup bits
            /\ \A i \in DOMAIN suspend_thread : s[i + 1] = AfterTurn(s, i)
            /\ set' = s[Len(suspend_thread) + 1]
            /\ event_set' = [t \in Threads |-> IF t \in woken THEN event_set[t] \cap s[turnOf(t)]
                                              ELSE event_set[t]]
            /\ stat' = [t \in Threads |-> IF t \in woken THEN "READY" ELSE stat[t]]
            /\ thread_timer' = thread_timer \ woken
            /\ suspend_thread' \in Remaining(suspend_thread, woken)
            /\ UNCHANGED <<error, pc, event_info, wanted, recved>>

\* rt_event_recv of a set that is there.
RecvNow(t, bits, option) ==
    /\ At(t, "run") /\ Satisfied(option, bits, set)
    /\ error' = [error EXCEPT ![t] = "EOK"]
    /\ wanted' = [wanted EXCEPT ![t] = [bits |-> bits, and |-> option.and]]
    /\ recved' = [recved EXCEPT ![t] = set \cap bits]
    /\ set' = IF option.clear THEN set \ bits ELSE set
    /\ UNCHANGED <<stat, thread_timer, pc, suspend_thread, event_set, event_info>>

\* rt_event_recv of one that is not.
RecvSuspend(t, bits, option, timed) ==
    /\ At(t, "run") /\ ~Satisfied(option, bits, set)
    /\ timed => t \in TimedReceivers
    /\ wanted' = [wanted EXCEPT ![t] = [bits |-> bits, and |-> option.and]]
    /\ recved' = [recved EXCEPT ![t] = {}]
    /\ event_set' = [event_set EXCEPT ![t] = bits]
    /\ event_info' = [event_info EXCEPT ![t] = option]
    /\ Suspend(t, timed)
    /\ suspend_thread' = rt_ipc_list_suspend(suspend_thread, t, Prio)
    /\ Goto(t, "wait")
    /\ UNCHANGED set

\* The end of rt_event_recv after the wakeup.
RecvReturn(t) ==
    /\ At(t, "wait")
    /\ recved' = [recved EXCEPT ![t] = IF error[t] = "EOK" THEN event_set[t] ELSE {}]
    /\ Goto(t, "run")
    /\ UNCHANGED <<stat, error, thread_timer, set, suspend_thread, event_set, event_info, wanted>>

\* The thread timer expires.
RecvTimeout(t) ==
    /\ Timeout(t)
    /\ suspend_thread' = rt_list_remove(suspend_thread, t)
    /\ UNCHANGED <<pc, set, event_set, event_info, wanted, recved>>

\* rt_event_control(RT_IPC_CMD_RESET)
EventReset(t) ==
    /\ At(t, "run") /\ t \in Resetters
    /\ ResumeAll(suspend_thread)
    /\ suspend_thread' = <<>>
    /\ set' = {}
    /\ UNCHANGED <<pc, event_set, event_info, wanted, recved>>

EventNext ==
    \/ \E bits \in Sets : Send(bits)
    \/ \E t \in Threads :
          \/ RecvReturn(t) \/ RecvTimeout(t) \/ EventReset(t)
          \/ \E bits \in Sets, option \in Options :
                \/ RecvNow(t, bits, option)
                \/ \E timed \in BOOLEAN : RecvSuspend(t, bits, option, timed)

EventSpec == EventInit /\ [][EventNext]_eventVars

-----------------------------------------------------------------------------
(* Properties *)

\* No thread is left suspended while the event it waits for is set: neither a
\* send that serves several threads, nor one that clears bits for an earlier
\* thread, nor a receive racing a send forgets one.
NoSatisfiedWaiter ==
    \A t \in ToSet(suspend_thread) : ~Satisfied(event_info[t], event_set[t], set)

\* What rt_event_recv reports is what was asked for: all the bits of an AND
\* receive, some of an OR receive, whether it waited or not.
ReceivesWhatItWanted ==
    \A t \in Threads :
        pc[t] = "run" /\ recved[t] # {} =>
            /\ recved[t] \subseteq wanted[t].bits
            /\ wanted[t].and => recved[t] = wanted[t].bits

\* A bit that RT_EVENT_FLAG_CLEAR takes away goes to one receiver: one send
\* never wakes two clearing receivers with the same bit.
ClearedOnce ==
    [][\A t, u \in Threads :
          /\ t # u
          /\ {t, u} \subseteq ToSet(suspend_thread)
          /\ stat'[t] = "READY" /\ stat'[u] = "READY"
          /\ error'[t] = "EOK" /\ error'[u] = "EOK"
          /\ event_info[t].clear /\ event_info[u].clear
          => event_set'[t] \cap event_set'[u] = {}]_eventVars
=============================================================================
