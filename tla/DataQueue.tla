----------------------------- MODULE DataQueue -----------------------------
(***************************************************************************)
(* The data queue of dataqueue.c, which device drivers use between a       *)
(* thread and an interrupt: two 16-bit indices that run on, a mask that    *)
(* turns them into slots, and a low water mark.  A pop that brings the     *)
(* queue down to the mark wakes one pusher; a push wakes one popper.  A    *)
(* woken thread tests the indices again and, if another was faster, waits  *)
(* again with its whole timeout.                                           *)
(*                                                                         *)
(* Two paths of the code end in a state nothing sensible follows from: a   *)
(* pop at the mark that finds no pusher returns with the interrupts off,   *)
(* and a reset whose last waiter times out resumes a list head.  The model *)
(* records which (broken) and stops there.                                 *)
(***************************************************************************)
EXTENDS IpcThread, Integers

CONSTANTS Items, NoItem,
          QueueSize,    \* queue->size
          Lwm,          \* queue->lwm
          IndexMod,     \* the range of the indices: 2^16
          MaxIndex,     \* bound on put_index; below IndexMod it never wraps
          Pushers, Poppers, QueueResetters,
          PushTimed, PopTimed,  \* whether those waits have a timeout
          IsrPushes             \* whether an interrupt pushes, too

ASSUME DataQueueAssumption ==
    /\ QueueSize \in Nat \ {0} /\ Lwm \in Nat /\ IndexMod \in Nat \ {0} /\ MaxIndex \in Nat
    /\ Pushers \subseteq Threads /\ Poppers \subseteq Threads /\ QueueResetters \subseteq Threads
    /\ PushTimed \subseteq BOOLEAN /\ PopTimed \subseteq BOOLEAN /\ IsrPushes \in BOOLEAN

VARIABLES queue, put_index, get_index, waiting_lwm,   \* queue->...
          suspended_push_list, suspended_pop_list,
          item,       \* what a waiting pusher holds
          timed,      \* the waiting threads that have a timeout
          popped,     \* what the last pop delivered
          broken      \* "no", or how the program has gone astray

queueRing == <<queue, put_index, get_index, popped>>
lists == <<suspended_push_list, suspended_pop_list>>
queueVars == <<ipcVars, queueRing, lists, waiting_lwm, item, timed, broken>>

\* rt_data_queue_init
DataQueueInit ==
    /\ IpcInit
    /\ queue = [i \in 0..(QueueSize - 1) |-> NoItem]
    /\ put_index = 0 /\ get_index = 0 /\ waiting_lwm = FALSE
    /\ suspended_push_list = <<>> /\ suspended_pop_list = <<>>
    /\ item = [t \in Threads |-> NoItem]
    /\ timed = {} /\ popped = NoItem /\ broken = "no"

Advance(index) == (index + 1) % IndexMod

\* Bit k of a 16-bit value is set.
Bit(value, k) == (value \div 2^k) % 2 = 1

\* index & mask: the bits both have.
Slot(index) ==
    CHOOSE slot \in 0..(QueueSize - 1) :
        \A k \in 0..15 : Bit(slot, k) <=> Bit(index, k) /\ Bit(QueueSize - 1, k)

\* What the mask is for, and does when the size is a power of two: as many
\* indices as there are places, one after the other, have different places.
MaskWorks ==
    \A i \in 0..MaxIndex :
        /\ Slot(i) \in 0..(QueueSize - 1)
        /\ \A j \in 0..(QueueSize - 1) \ {0} : i + j <= MaxIndex => Slot(i + j) # Slot(i)

\* Mutant of Full: one item too many.
Full_OffByOne == put_index - get_index = QueueSize + 1

\* put_index - get_index == size, the difference of two ints
Full == put_index - get_index = QueueSize

Empty == get_index = put_index

Resetting(t) == pc[t] \in {"test_pop", "wake_pop", "test_push", "wake_push"}

\* A thread runs unless another has locked the scheduler.
Runs(t) == broken = "no" /\ \A u \in Threads : Resetting(u) => u = t

-----------------------------------------------------------------------------
(* Pushing *)

\* The first suspended popper, if there is one, is resumed.
WakePopper ==
    IF rt_list_isempty(suspended_pop_list)
    THEN UNCHANGED <<stat, error, thread_timer, suspended_pop_list>>
    ELSE Resume(Head(suspended_pop_list)) /\ suspended_pop_list' = Tail(suspended_pop_list)

\* The end of rt_data_queue_push.
Store(m) ==
    /\ ~Full /\ put_index < MaxIndex
    /\ queue' = [queue EXCEPT ![Slot(put_index)] = m]
    /\ put_index' = Advance(put_index)
    /\ WakePopper
    /\ UNCHANGED <<get_index, popped, waiting_lwm, suspended_push_list, broken>>

\* The loop of rt_data_queue_push: the thread waits.
WaitForRoom(t, m, hasTimeout) ==
    /\ Full
    /\ waiting_lwm' = TRUE
    /\ Suspend(t, hasTimeout)
    /\ suspended_push_list' = rt_list_insert_before(suspended_push_list, t)
    /\ UNCHANGED <<queueRing, suspended_pop_list, broken>>

Push(t, m) ==
    /\ At(t, "run") /\ t \in Pushers /\ Runs(t)
    /\ Store(m)
    /\ UNCHANGED <<pc, item, timed>>

PushSuspend(t, m, hasTimeout) ==
    /\ At(t, "run") /\ t \in Pushers /\ Runs(t) /\ put_index < MaxIndex
    /\ WaitForRoom(t, m, hasTimeout)
    /\ Goto(t, "push")
    /\ item' = [item EXCEPT ![t] = m]
    /\ timed' = IF hasTimeout THEN timed \cup {t} ELSE timed

\* A push with timeout 0, from an interrupt: a full queue is only marked.
PushFromInterrupt(m) ==
    /\ broken = "no" /\ IsrPushes
    /\ \/ Store(m)
       \/ /\ Full
          /\ waiting_lwm' = TRUE
          /\ UNCHANGED <<stat, error, thread_timer, queueRing, lists, broken>>
    /\ UNCHANGED <<pc, item, timed>>

\* The call of a waiting thread returns.
Return(t) ==
    /\ Goto(t, "run")
    /\ item' = [item EXCEPT ![t] = NoItem]
    /\ timed' = timed \ {t}

\* A woken pusher pushes, or waits again.
PushWoken(t) ==
    /\ At(t, "push") /\ Runs(t) /\ error[t] = "EOK"
    /\ \/ Store(item[t]) /\ Return(t)
       \/ WaitForRoom(t, item[t], t \in timed) /\ UNCHANGED <<pc, item, timed>>

-----------------------------------------------------------------------------
(* Popping *)

\* Mutant of AtMark: the mark itself is missed.
AtMark_Below(size) == waiting_lwm /\ size < Lwm

\* A pop that leaves size items comes down to the low water mark.
AtMark(size) == waiting_lwm /\ size <= Lwm

\* At the mark the first pusher is resumed.  Without one the call returns with
\* the interrupts off.
LowWaterMark ==
    /\ waiting_lwm' = FALSE
    /\ IF rt_list_isempty(suspended_push_list)
       THEN /\ broken' = "interrupts off"
            /\ UNCHANGED <<stat, error, thread_timer, suspended_push_list>>
       ELSE /\ Resume(Head(suspended_push_list))
            /\ suspended_push_list' = Tail(suspended_push_list)
            /\ UNCHANGED broken

\* The end of rt_data_queue_pop.
Take ==
    /\ ~Empty
    /\ popped' = queue[Slot(get_index)]
    /\ get_index' = Advance(get_index)
    /\ IF AtMark(put_index - get_index') THEN LowWaterMark
       ELSE UNCHANGED <<stat, error, thread_timer, suspended_push_list, waiting_lwm, broken>>
    /\ UNCHANGED <<queue, put_index, suspended_pop_list>>

\* The loop of rt_data_queue_pop: the thread waits.
WaitForItem(t, hasTimeout) ==
    /\ Empty
    /\ Suspend(t, hasTimeout)
    /\ suspended_pop_list' = rt_list_insert_before(suspended_pop_list, t)
    /\ UNCHANGED <<queueRing, suspended_push_list, waiting_lwm, broken>>

Pop(t) ==
    /\ At(t, "run") /\ t \in Poppers /\ Runs(t)
    /\ Take
    /\ UNCHANGED <<pc, item, timed>>

PopSuspend(t, hasTimeout) ==
    /\ At(t, "run") /\ t \in Poppers /\ Runs(t)
    /\ WaitForItem(t, hasTimeout)
    /\ Goto(t, "pop")
    /\ timed' = IF hasTimeout THEN timed \cup {t} ELSE timed
    /\ UNCHANGED item

\* A pop with timeout 0, from an interrupt.
PopFromInterrupt ==
    /\ broken = "no"
    /\ Take
    /\ UNCHANGED <<pc, item, timed>>

\* A woken popper pops, or waits again.
PopWoken(t) ==
    /\ At(t, "pop") /\ Runs(t) /\ error[t] = "EOK"
    /\ \/ Take /\ Return(t)
       \/ WaitForItem(t, t \in timed) /\ UNCHANGED <<pc, item, timed>>

-----------------------------------------------------------------------------
(* Errors *)

\* The thread timer of a waiting thread expires.
QueueTimeout(t) ==
    /\ broken = "no"
    /\ Timeout(t)
    /\ suspended_push_list' = rt_list_remove(suspended_push_list, t)
    /\ suspended_pop_list' = rt_list_remove(suspended_pop_list, t)
    /\ UNCHANGED <<pc, queueRing, waiting_lwm, item, timed, broken>>

\* A thread woken with an error returns it.
QueueError(t) ==
    /\ At(t, "push") \/ At(t, "pop")
    /\ Runs(t) /\ error[t] # "EOK"
    /\ Return(t)
    /\ UNCHANGED <<stat, error, thread_timer, queueRing, lists, waiting_lwm, broken>>

\* rt_data_queue_reset locks the scheduler ...
QueueReset(t) ==
    /\ At(t, "run") /\ t \in QueueResetters /\ Runs(t)
    /\ Goto(t, "test_pop")
    /\ UNCHANGED <<stat, error, thread_timer, queueRing, lists, waiting_lwm, item, timed, broken>>

\* ... tests a list with the interrupts enabled ...
ResetTest(t) ==
    /\ \/ /\ At(t, "test_pop")
          /\ Goto(t, IF rt_list_isempty(suspended_pop_list) THEN "test_push" ELSE "wake_pop")
       \/ /\ At(t, "test_push")
          /\ Goto(t, IF rt_list_isempty(suspended_push_list) THEN "run" ELSE "wake_push")
    /\ Runs(t)
    /\ UNCHANGED <<stat, error, thread_timer, queueRing, lists, waiting_lwm, item, timed, broken>>

\* The section that resumes the first thread of a list with an error.
WakeWithError(list) ==
    IF rt_list_isempty(list)
    THEN broken' = "resumed a list head" /\ UNCHANGED <<stat, error, thread_timer>>
    ELSE ResumeWithError(list) /\ UNCHANGED broken

WithoutFirst(list) == IF rt_list_isempty(list) THEN list ELSE Tail(list)

\* ... and resumes one thread after the other.
ResetWake(t) ==
    /\ Runs(t)
    /\ \/ /\ At(t, "wake_pop")
          /\ WakeWithError(suspended_pop_list)
          /\ suspended_pop_list' = WithoutFirst(suspended_pop_list)
          /\ Goto(t, "test_pop") /\ UNCHANGED suspended_push_list
       \/ /\ At(t, "wake_push")
          /\ WakeWithError(suspended_push_list)
          /\ suspended_push_list' = WithoutFirst(suspended_push_list)
          /\ Goto(t, "test_push") /\ UNCHANGED suspended_pop_list
    /\ UNCHANGED <<queueRing, waiting_lwm, item, timed>>

DataQueueNext ==
    \/ PopFromInterrupt
    \/ \E m \in Items : PushFromInterrupt(m)
    \/ \E t \in Threads :
          \/ \E m \in Items : Push(t, m) \/ \E h \in PushTimed : PushSuspend(t, m, h)
          \/ Pop(t) \/ \E h \in PopTimed : PopSuspend(t, h)
          \/ PushWoken(t) \/ PopWoken(t) \/ QueueError(t) \/ QueueTimeout(t)
          \/ QueueReset(t) \/ ResetTest(t) \/ ResetWake(t)

DataQueueSpec == DataQueueInit /\ [][DataQueueNext]_queueVars

-----------------------------------------------------------------------------
(* Properties *)

\* How many items there are between the two indices, and which.
Count == (put_index - get_index) % IndexMod

QueuedItems == [i \in 1..Count |-> queue[Slot(get_index + i - 1)]]

Fifo == INSTANCE Channel WITH
    Messages <- Items, NoMessage <- NoItem, Capacity <- QueueSize,
    queue <- QueuedItems, delivered <- popped

\* The data queue is a bounded first-in first-out channel: no item is lost,
\* doubled or overtaken, however pushes, pops, timeouts and resets of threads
\* and interrupts interleave.
IsBoundedFifo == Fifo!Spec

\* While a popper is suspended, every item in the queue has a woken popper on
\* its way to it.
NoPopperBesideItem ==
    suspended_pop_list # <<>> =>
        Count <= Cardinality({t \in Threads : At(t, "pop") /\ error[t] = "EOK"})

\* A suspended pusher will be woken: the low water mark is still ahead, and the
\* pop that reaches it will look for a pusher.
PusherNotForgotten ==
    suspended_push_list # <<>> => waiting_lwm /\ Count > Lwm

\* No wakeup is lost on either side of the queue.
NoWaiterForgotten == NoPopperBesideItem /\ PusherNotForgotten

\* A pop returns with the interrupts as it found them.
InterruptsRestored == broken # "interrupts off"
=============================================================================
