------------------------------ MODULE Mailbox ------------------------------
(***************************************************************************)
(* The mailbox of ipc.c: a ring of mails with a list of suspended receivers *)
(* and one of suspended senders.  A woken thread tests the ring again and   *)
(* waits for what is left of its timeout if another was faster.             *)
(***************************************************************************)
EXTENDS IpcObject

CONSTANTS Messages, NoMessage,
          Size,             \* mb->size
          MaxTimeout,       \* bound on the ticks of a timed wait
          Forever,          \* a negative timeout
          Senders, Receivers,
          Timeouts          \* the timeouts threads wait with

ASSUME MailboxAssumption ==
    /\ IsFiniteSet(Threads)
    /\ Size \in Nat \ {0}
    /\ MaxTimeout \in Nat /\ Forever \notin Nat
    /\ Timeouts \subseteq (1..MaxTimeout) \cup {Forever}
    /\ Senders \subseteq Threads /\ Receivers \subseteq Threads /\ Resetters \subseteq Threads

VARIABLES msg_pool, in_offset, out_offset, entry,   \* mb->...
          suspend_sender_thread,   \* suspended senders; the receivers are in suspend_thread
          timeout,                 \* what is left of the timeout of a wait
          mail,                    \* the mail a suspended sender holds
          delivered                \* the mail the last receive delivered

ring == <<msg_pool, in_offset, out_offset, entry, delivered>>
waits == <<suspend_thread, suspend_sender_thread, timeout, mail>>
vars == <<ipcVars, ring, waits>>

\* rt_mb_init, rt_mb_create
Init ==
    /\ IpcInit
    /\ msg_pool = [i \in 0..(Size - 1) |-> NoMessage]
    /\ in_offset = 0 /\ out_offset = 0 /\ entry = 0
    /\ rt_ipc_object_init
    /\ suspend_sender_thread = <<>>
    /\ timeout = [t \in Threads |-> 0]
    /\ mail = [t \in Threads |-> NoMessage]
    /\ delivered = NoMessage

\* The offset that follows one in the ring.
NextOffset(i) == IF i + 1 >= Size THEN 0 ELSE i + 1

\* Mutant of WakeFirst: nobody is woken.
WakeFirst_Not(list, rest) == rest = list /\ UNCHANGED <<stat, error, thread_timer>>

\* The first thread of a list, if there is one, is resumed; the rest is left.
WakeFirst(list, rest) ==
    IF rt_list_isempty(list)
    THEN rest = list /\ UNCHANGED <<stat, error, thread_timer>>
    ELSE rest = Tail(list) /\ Resume(Head(list))

\* The end of rt_mb_send_wait: the mail goes into the ring, a receiver wakes.
Put(m) ==
    /\ entry # Size
    /\ msg_pool' = [msg_pool EXCEPT ![in_offset] = m]
    /\ in_offset' = NextOffset(in_offset)
    /\ entry' = entry + 1
    /\ WakeFirst(suspend_thread, suspend_thread')
    /\ UNCHANGED <<out_offset, delivered>>

\* The end of rt_mb_recv: the mail leaves the ring, a sender wakes.
Get ==
    /\ entry # 0
    /\ delivered' = msg_pool[out_offset]
    /\ out_offset' = NextOffset(out_offset)
    /\ entry' = entry - 1
    /\ WakeFirst(suspend_sender_thread, suspend_sender_thread')
    /\ UNCHANGED <<msg_pool, in_offset>>

\* rt_mb_send_wait of a mailbox with room, and rt_mb_send.
Send(t, m) ==
    /\ At(t, "run") /\ t \in Senders
    /\ Put(m)
    /\ UNCHANGED <<pc, suspend_sender_thread, timeout, mail>>

\* rt_mb_send from an interrupt.
SendFromInterrupt(m) ==
    /\ Put(m)
    /\ UNCHANGED <<pc, suspend_sender_thread, timeout, mail>>

\* The thread is suspended with its timer running unless it waits for ever.
Wait(t, ticks, label) ==
    /\ Suspend(t, ticks # Forever)
    /\ timeout' = [timeout EXCEPT ![t] = ticks]
    /\ Goto(t, label)

\* rt_mb_send_wait of a full mailbox.
SendSuspend(t, m, ticks) ==
    /\ At(t, "run") /\ t \in Senders /\ entry = Size
    /\ Wait(t, ticks, "send")
    /\ mail' = [mail EXCEPT ![t] = m]
    /\ suspend_sender_thread' = rt_ipc_list_suspend(suspend_sender_thread, t, Prio)
    /\ UNCHANGED <<ring, suspend_thread>>

\* rt_mb_recv of a mailbox with mail.
Recv(t) ==
    /\ At(t, "run") /\ t \in Receivers
    /\ Get
    /\ UNCHANGED <<pc, suspend_thread, timeout, mail>>

\* rt_mb_recv of an empty one.
RecvSuspend(t, ticks) ==
    /\ At(t, "run") /\ t \in Receivers /\ entry = 0
    /\ Wait(t, ticks, "recv")
    /\ suspend_thread' = rt_ipc_list_suspend(suspend_thread, t, Prio)
    /\ UNCHANGED <<ring, suspend_sender_thread, mail>>

\* A call that was woken with an error returns it.
ReturnError(t) ==
    /\ At(t, "send") \/ At(t, "recv")
    /\ error[t] # "EOK"
    /\ Goto(t, "run")
    /\ mail' = [mail EXCEPT ![t] = NoMessage]
    /\ UNCHANGED <<stat, error, thread_timer, ring, suspend_thread, suspend_sender_thread, timeout>>

\* A woken sender finds room.
SendWoken(t) ==
    /\ At(t, "send") /\ error[t] = "EOK"
    /\ Put(mail[t])
    /\ Goto(t, "run")
    /\ mail' = [mail EXCEPT ![t] = NoMessage]
    /\ UNCHANGED <<suspend_sender_thread, timeout>>

\* A woken receiver finds a mail.
RecvWoken(t) ==
    /\ At(t, "recv") /\ error[t] = "EOK"
    /\ Get
    /\ Goto(t, "run")
    /\ UNCHANGED <<suspend_thread, timeout, mail>>

\* Mutant of TimeLeft: the wait starts over with a full timeout.
TimeLeft_Restarted(t) == IF timeout[t] = Forever THEN Forever ELSE MaxTimeout

\* timeout -= tick_delta: what a woken thread has left to wait.
TimeLeft(t) == timeout[t]

\* Another thread was faster: wait for the time that is left ...
WaitAgain(t) ==
    /\ error[t] = "EOK" /\ TimeLeft(t) # 0
    /\ \/ /\ At(t, "send") /\ entry = Size
          /\ suspend_sender_thread' = rt_ipc_list_suspend(suspend_sender_thread, t, Prio)
          /\ UNCHANGED suspend_thread
       \/ /\ At(t, "recv") /\ entry = 0
          /\ suspend_thread' = rt_ipc_list_suspend(suspend_thread, t, Prio)
          /\ UNCHANGED suspend_sender_thread
    /\ Wait(t, TimeLeft(t), pc[t])
    /\ UNCHANGED <<ring, mail>>

\* ... or return, when no time is left.
GiveUp(t) ==
    /\ error[t] = "EOK" /\ TimeLeft(t) = 0
    /\ \/ At(t, "send") /\ entry = Size /\ UNCHANGED error
       \/ At(t, "recv") /\ entry = 0 /\ error' = [error EXCEPT ![t] = "ETIMEOUT"]
    /\ Goto(t, "run")
    /\ mail' = [mail EXCEPT ![t] = NoMessage]
    /\ UNCHANGED <<stat, thread_timer, ring, suspend_thread, suspend_sender_thread, timeout>>

\* A tick: every wait that has begun has one tick less, woken or not.  A timer
\* that ran out is served first (WaitTimeout).
Tick ==
    /\ \A t \in thread_timer : timeout[t] # 0
    /\ \E t \in Threads : pc[t] # "run" /\ timeout[t] \notin {0, Forever}
    /\ timeout' = [t \in Threads |-> IF pc[t] # "run" /\ timeout[t] \notin {0, Forever}
                                     THEN timeout[t] - 1 ELSE timeout[t]]
    /\ UNCHANGED <<ipcVars, ring, suspend_thread, suspend_sender_thread, mail>>

\* The thread timer expires.
WaitTimeout(t) ==
    /\ timeout[t] = 0
    /\ Timeout(t)
    /\ suspend_thread' = rt_list_remove(suspend_thread, t)
    /\ suspend_sender_thread' = rt_list_remove(suspend_sender_thread, t)
    /\ UNCHANGED <<pc, ring, timeout, mail>>

\* Mutant of ResetOffsets: the input offset is forgotten.
ResetOffsets_InKept == out_offset' = 0 /\ UNCHANGED in_offset

ResetOffsets == out_offset' = 0 /\ in_offset' = 0

\* rt_mb_control(RT_IPC_CMD_RESET)
Reset(t) ==
    /\ At(t, "run") /\ t \in Resetters
    /\ ResumeAll(suspend_thread \o suspend_sender_thread)
    /\ suspend_thread' = <<>> /\ suspend_sender_thread' = <<>>
    /\ entry' = 0 /\ ResetOffsets
    /\ UNCHANGED <<pc, msg_pool, delivered, timeout, mail>>

Continue(t) == ReturnError(t) \/ SendWoken(t) \/ RecvWoken(t) \/ WaitAgain(t) \/ GiveUp(t)

Next ==
    \/ Tick
    \/ \E m \in Messages : SendFromInterrupt(m)
    \/ \E t \in Threads :
          \/ Continue(t) \/ WaitTimeout(t) \/ Recv(t) \/ Reset(t)
          \/ \E m \in Messages : Send(t, m) \/ \E ticks \in Timeouts : SendSuspend(t, m, ticks)
          \/ \E ticks \in Timeouts : RecvSuspend(t, ticks)

Spec == Init /\ [][Next]_vars

\* The tick comes, its timers are served, and a ready thread gets to run.
FairSpec ==
    /\ Spec
    /\ WF_vars(Tick)
    /\ \A t \in Threads : WF_vars(Continue(t)) /\ WF_vars(WaitTimeout(t))

-----------------------------------------------------------------------------
(* Properties *)

\* The ring from out_offset on.
Queue == [i \in 1..entry |-> msg_pool[(out_offset + i - 1) % Size]]

Promise == INSTANCE Channel WITH queue <- Queue, delivered <- delivered, Capacity <- Size

\* The mailbox is a bounded first-in first-out channel: no mail is lost,
\* doubled or overtaken, however senders, receivers, timeouts and resets
\* interleave.
ImplementsChannel == Promise!Spec

Woken(label) == {t \in Threads : stat[t] = "READY" /\ pc[t] = label /\ error[t] = "EOK"}

\* No wakeup is lost: while a receiver is suspended, every mail in the ring has
\* a woken receiver on its way to it; while a sender is suspended, every free
\* place has a woken sender.
NoLostWakeup ==
    /\ suspend_thread # <<>> => entry <= Cardinality(Woken("recv"))
    /\ suspend_sender_thread # <<>> => Size - entry <= Cardinality(Woken("send"))

\* A timed wait ends although others are faster again and again.
TimedWaitEnds ==
    \A t \in Threads :
        (pc[t] # "run" /\ timeout[t] # Forever) ~> (pc[t] = "run")
=============================================================================
