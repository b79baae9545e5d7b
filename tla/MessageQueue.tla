---------------------------- MODULE MessageQueue ----------------------------
(***************************************************************************)
(* The message queue of ipc.c.  The slots of the pool are chained through  *)
(* their next pointers into the queue and the free list.  Sending and      *)
(* receiving take a slot in one section, copy the message with interrupts  *)
(* enabled, and give the slot back in another.                             *)
(***************************************************************************)
EXTENDS IpcObject

CONSTANTS Messages, NoMessage,
          MaxMsgs,           \* mq->max_msgs
          Null,              \* RT_NULL
          TimedReceivers, Senders, Receivers

ASSUME QueueAssumption ==
    /\ IsFiniteSet(Threads)
    /\ MaxMsgs \in Nat \ {0}
    /\ Null \notin 1..MaxMsgs
    /\ UNION {TimedReceivers, Senders, Receivers, Resetters} \subseteq Threads

Slots == 1..MaxMsgs

VARIABLES next, data,          \* the next pointer and the contents of each slot
          msg_queue_head, msg_queue_tail, msg_queue_free, entry,   \* mq->...
          msg,                 \* the slot a call in progress holds
          sending,             \* the message a send in progress copies
          delivered            \* the message the last receive took

queueVars == <<next, data, msg_queue_head, msg_queue_tail, msg_queue_free, entry, delivered>>
vars == <<ipcVars, queueVars, suspend_thread, msg, sending>>

\* rt_mq_init, rt_mq_create: the loop chains every slot into the free list.
Init ==
    /\ IpcInit
    /\ next = [s \in Slots |-> IF s = 1 THEN Null ELSE s - 1]
    /\ data = [s \in Slots |-> NoMessage]
    /\ msg_queue_head = Null /\ msg_queue_tail = Null
    /\ msg_queue_free = MaxMsgs
    /\ entry = 0
    /\ rt_ipc_object_init
    /\ msg = [t \in Threads |-> Null]
    /\ sending = [t \in Threads |-> NoMessage]
    /\ delivered = NoMessage

-----------------------------------------------------------------------------
\* Where n steps along the pointers nxt lead, and the whole chain.  A chain
\* that does not end within the pool is cut there.
Walk(nxt, p) ==
    LET At_[n \in 0..MaxMsgs] ==
            IF n = 0 THEN p ELSE IF At_[n - 1] = Null THEN Null ELSE nxt[At_[n - 1]]
    IN  At_

Chain(nxt, p) ==
    LET w == Walk(nxt, p)
    IN  [i \in 1..Cardinality({n \in 0..MaxMsgs : w[n] # Null}) |-> w[i - 1]]

-----------------------------------------------------------------------------
\* First section of rt_mq_send and rt_mq_urgent: a slot from the free list.
\* (A full queue returns -RT_EFULL.)
SendTakeSlot(t, m, label) ==
    /\ At(t, "run") /\ t \in Senders /\ msg_queue_free # Null
    /\ msg' = [msg EXCEPT ![t] = msg_queue_free]
    /\ msg_queue_free' = next[msg_queue_free]
    /\ sending' = [sending EXCEPT ![t] = m]
    /\ Goto(t, label)
    /\ UNCHANGED <<stat, error, thread_timer, next, data, msg_queue_head, msg_queue_tail, entry,
                   suspend_thread, delivered>>

\* The copy, with interrupts enabled.
SendCopy(t) ==
    /\ At(t, "send_copy") \/ At(t, "urgent_copy")
    /\ data' = [data EXCEPT ![msg[t]] = sending[t]]
    /\ next' = IF pc[t] = "send_copy" THEN [next EXCEPT ![msg[t]] = Null] ELSE next
    /\ Goto(t, IF pc[t] = "send_copy" THEN "send_link" ELSE "urgent_link")
    /\ UNCHANGED <<stat, error, thread_timer, msg_queue_head, msg_queue_tail, msg_queue_free,
                   entry, suspend_thread, msg, sending, delivered>>

\* The slot becomes the tail of the queue.
LinkLast(s) ==
    /\ next' = IF msg_queue_tail = Null THEN next ELSE [next EXCEPT ![msg_queue_tail] = s]
    /\ msg_queue_tail' = s
    /\ msg_queue_head' = IF msg_queue_head = Null THEN s ELSE msg_queue_head

\* Mutant of LinkFirst: the urgent message goes to the tail.
LinkFirst_Last(s) == LinkLast(s)

\* The slot becomes the head of the queue.
LinkFirst(s) ==
    /\ next' = [next EXCEPT ![s] = msg_queue_head]
    /\ msg_queue_head' = s
    /\ msg_queue_tail' = IF msg_queue_tail = Null THEN s ELSE msg_queue_tail

\* Mutant of WakeReceiver: a thread is woken only for the first message.
WakeReceiver_OnlyFirst ==
    IF rt_list_isempty(suspend_thread) \/ entry > 0
    THEN UNCHANGED <<stat, error, thread_timer, suspend_thread>>
    ELSE Resume(Head(suspend_thread)) /\ suspend_thread' = Tail(suspend_thread)

\* A message that was linked wakes the first suspended receiver.
WakeReceiver ==
    IF rt_list_isempty(suspend_thread)
    THEN UNCHANGED <<stat, error, thread_timer, suspend_thread>>
    ELSE Resume(Head(suspend_thread)) /\ suspend_thread' = Tail(suspend_thread)

\* Last section of rt_mq_send and rt_mq_urgent.
SendLink(t) ==
    /\ \/ At(t, "send_link") /\ LinkLast(msg[t])
       \/ At(t, "urgent_link") /\ LinkFirst(msg[t])
    /\ entry' = entry + 1
    /\ WakeReceiver
    /\ msg' = [msg EXCEPT ![t] = Null]
    /\ sending' = [sending EXCEPT ![t] = NoMessage]
    /\ Goto(t, "run")
    /\ UNCHANGED <<data, msg_queue_free, delivered>>

-----------------------------------------------------------------------------
\* rt_mq_recv of an empty queue: for the first time, or when another receiver
\* was faster and time is left (a timed wait has some left or not).
RecvSuspend(t, timed) ==
    /\ \/ At(t, "run") /\ t \in Receivers /\ (timed => t \in TimedReceivers)
       \/ At(t, "wait") /\ error[t] = "EOK"
       \/ At(t, "timed_wait") /\ error[t] = "EOK" /\ timed
    /\ pc[t] = "wait" => ~timed
    /\ entry = 0
    /\ Suspend(t, timed)
    /\ suspend_thread' = rt_ipc_list_suspend(suspend_thread, t, Prio)
    /\ Goto(t, IF timed THEN "timed_wait" ELSE "wait")
    /\ UNCHANGED <<queueVars, msg, sending>>

\* A wait that ends without a message: an error, or no time is left.
RecvReturn(t) ==
    /\ \/ (At(t, "wait") \/ At(t, "timed_wait")) /\ error[t] # "EOK" /\ UNCHANGED error
       \/ At(t, "timed_wait") /\ error[t] = "EOK" /\ entry = 0
          /\ error' = [error EXCEPT ![t] = "ETIMEOUT"]
    /\ Goto(t, "run")
    /\ UNCHANGED <<stat, thread_timer, queueVars, suspend_thread, msg, sending>>

\* Mutant of UnlinkHead: the tail keeps pointing to the slot.
UnlinkHead_KeepsTail ==
    /\ msg_queue_head' = next[msg_queue_head]
    /\ UNCHANGED msg_queue_tail

UnlinkHead ==
    /\ msg_queue_head' = next[msg_queue_head]
    /\ msg_queue_tail' = IF msg_queue_tail = msg_queue_head THEN Null ELSE msg_queue_tail

\* The section of rt_mq_recv that takes the first message.
RecvUnlink(t) ==
    /\ \/ At(t, "run") /\ t \in Receivers
       \/ (At(t, "wait") \/ At(t, "timed_wait")) /\ error[t] = "EOK"
    /\ entry # 0
    /\ UnlinkHead
    /\ msg' = [msg EXCEPT ![t] = msg_queue_head]
    /\ delivered' = data[msg_queue_head]
    /\ entry' = entry - 1
    /\ Goto(t, "recv_free")
    /\ UNCHANGED <<stat, error, thread_timer, next, data, msg_queue_free, suspend_thread, sending>>

\* The last section, after the copy: the slot goes to the free list.
RecvFree(t) ==
    /\ At(t, "recv_free")
    /\ next' = [next EXCEPT ![msg[t]] = msg_queue_free]
    /\ msg_queue_free' = msg[t]
    /\ msg' = [msg EXCEPT ![t] = Null]
    /\ Goto(t, "run")
    /\ UNCHANGED <<stat, error, thread_timer, data, msg_queue_head, msg_queue_tail, entry,
                   suspend_thread, sending, delivered>>

\* The thread timer expires.
RecvTimeout(t) ==
    /\ Timeout(t)
    /\ suspend_thread' = rt_list_remove(suspend_thread, t)
    /\ UNCHANGED <<pc, queueVars, msg, sending>>

\* rt_mq_control(RT_IPC_CMD_RESET): the loop moves the queue slot by slot to
\* the free list.
Reset(t) ==
    LET q == Chain(next, msg_queue_head)
        Position(s) == CHOOSE i \in DOMAIN q : q[i] = s
    IN  /\ At(t, "run") /\ t \in Resetters
        /\ ResumeAll(suspend_thread)
        /\ suspend_thread' = <<>>
        /\ next' = [s \in Slots |-> IF s \notin ToSet(q) THEN next[s]
                                    ELSE IF Position(s) = 1 THEN msg_queue_free
                                    ELSE q[Position(s) - 1]]
        /\ msg_queue_free' = IF q = <<>> THEN msg_queue_free ELSE Last(q)
        /\ msg_queue_head' = Null /\ msg_queue_tail' = Null
        /\ entry' = 0
        /\ UNCHANGED <<pc, data, msg, sending, delivered>>

Next ==
    \E t \in Threads :
        \/ \E m \in Messages : SendTakeSlot(t, m, "send_copy") \/ SendTakeSlot(t, m, "urgent_copy")
        \/ SendCopy(t) \/ SendLink(t)
        \/ \E timed \in BOOLEAN : RecvSuspend(t, timed)
        \/ RecvReturn(t) \/ RecvUnlink(t) \/ RecvFree(t) \/ RecvTimeout(t)
        \/ Reset(t)

Spec == Init /\ [][Next]_vars

-----------------------------------------------------------------------------
(* Properties *)

QueueSlots == Chain(next, msg_queue_head)
FreeSlots == Chain(next, msg_queue_free)

\* Every slot is at one place: in the queue, in the free list, or held by one
\* call in progress.  The pointers form two chains that end, tail points to
\* the last message and entry counts them.
SlotsPartitioned ==
    LET held == {t \in Threads : msg[t] # Null}
    IN  /\ LinkedOnce(QueueSlots \o FreeSlots)
        /\ \A t, u \in held : t # u => msg[t] # msg[u]
        /\ {msg[t] : t \in held} \cap ToSet(QueueSlots \o FreeSlots) = {}
        /\ ToSet(QueueSlots \o FreeSlots) \cup {msg[t] : t \in held} = Slots
        /\ entry = Len(QueueSlots)
        /\ msg_queue_tail = IF QueueSlots = <<>> THEN Null ELSE Last(QueueSlots)

Contents == [i \in 1..Len(QueueSlots) |-> data[QueueSlots[i]]]

Promise == INSTANCE Channel WITH queue <- Contents, Capacity <- MaxMsgs

\* The message queue is a bounded first-in first-out channel with urgent
\* messages, although the copies are made with interrupts enabled.
ImplementsChannel == Promise!Spec

\* No wakeup is lost: while a receiver is suspended, every message in the queue
\* has a woken receiver on its way to it.
NoLostWakeup ==
    suspend_thread # <<>> =>
        entry <= Cardinality({t \in Threads : stat[t] = "READY" /\ error[t] = "EOK"
                                              /\ pc[t] \in {"wait", "timed_wait"}})
=============================================================================
