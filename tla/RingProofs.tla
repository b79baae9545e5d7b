----------------------------- MODULE RingProofs -----------------------------
(***************************************************************************)
(* The three rings.  The mailbox loses no wakeup and is a bounded first-in *)
(* first-out channel, for every size, every finite set of threads and      *)
(* every interleaving of senders, receivers, interrupts, timeouts and      *)
(* resets.  So is the data queue, as long as its indices do not wrap and,  *)
(* for the wakeups of pushers, there is one of them.  The transmit ring of *)
(* the serial port reaches the line in order.                              *)
(***************************************************************************)
EXTENDS Integers, Mailbox, DataQueue, Serial, RtListProofs, FiniteSetTheorems

\* The types the proofs need.
MailboxTypes ==
    /\ stat \in [Threads -> {"READY", "SUSPEND"}]
    /\ error \in [Threads -> Errors]
    /\ pc \in [Threads -> {"run", "send", "recv"}]
    /\ mail \in [Threads -> Messages \cup {NoMessage}]
    /\ msg_pool \in [0..(Size - 1) -> Messages \cup {NoMessage}]
    /\ in_offset \in 0..(Size - 1)
    /\ out_offset \in 0..(Size - 1)
    /\ entry \in 0..Size
    /\ suspend_thread \in Seq(Threads)
    /\ suspend_sender_thread \in Seq(Threads)

\* An offset at most Size beyond the ring, brought back into it.
Fold(i) == IF i < Size THEN i ELSE i - Size

\* The mails lie between the two offsets.
OffsetsAgree == in_offset = Fold(out_offset + entry)

\* The threads of a list are suspended in the call the list belongs to, and a
\* reason to wake them has not been given yet.
Queued(list, label) ==
    /\ LinkedOnce(list)
    /\ \A t \in ToSet(list) : stat[t] = "SUSPEND" /\ pc[t] = label /\ error[t] = "EOK"

\* Only suspended threads have a running timer.
TimersOfSuspended == \A t \in thread_timer : t \in Threads => stat[t] = "SUSPEND"

\* A thread inside rt_mb_send_wait holds a mail.
SendersHoldMail == \A t \in Threads : pc[t] = "send" => mail[t] \in Messages

\* The inductive invariant.
MailboxInv ==
    /\ MailboxTypes
    /\ OffsetsAgree
    /\ Queued(suspend_thread, "recv")
    /\ Queued(suspend_sender_thread, "send")
    /\ TimersOfSuspended
    /\ SendersHoldMail
    /\ NoLostWakeup

-----------------------------------------------------------------------------
\* rt_ipc_list_suspend links the thread once.
LEMMA SuspendList ==
    ASSUME NEW list \in Seq(Threads), NEW t \in Threads
    PROVE  LET r == rt_ipc_list_suspend(list, t, Prio)
           IN  /\ r \in Seq(Threads)
               /\ ToSet(r) = ToSet(list) \cup {t}
               /\ LinkedOnce(list) /\ t \notin ToSet(list) => LinkedOnce(r)
<1>1. CASE PrioFlag
  <2>1. rt_ipc_list_suspend(list, t, Prio) = InsertByPriority(list, t, Prio)
    BY <1>1 DEF rt_ipc_list_suspend
  <2>2. Prio \in [Threads -> Int]
    BY IpcAssumption
  <2> QED BY <2>1, <2>2, InsertByPriorityInOrder
<1>2. CASE ~PrioFlag
  <2>1. rt_ipc_list_suspend(list, t, Prio) = InsertBeforeFirst(list, {}, t)
    BY <1>2 DEF rt_ipc_list_suspend, rt_list_insert_before, InsertBeforeFirst
  <2> QED BY <2>1, InsertBeforeFirstMembers
<1> QED BY <1>1, <1>2

\* Sets of threads can be counted, and one thread more or less counts as one.
LEMMA ThreadsCount ==
    ASSUME NEW S \in SUBSET Threads, NEW t \in Threads
    PROVE  /\ Cardinality(S) \in Nat
           /\ Cardinality(S \ {t}) \in Nat /\ Cardinality(S) - 1 <= Cardinality(S \ {t})
           /\ t \notin S => Cardinality(S \cup {t}) = Cardinality(S) + 1
<1>1. IsFiniteSet(S) /\ IsFiniteSet(S \ {t})
  BY MailboxAssumption, FS_Subset
<1>2. Cardinality(S) \in Nat /\ Cardinality(S \ {t}) \in Nat
  BY <1>1, FS_CardinalityType
<1>3. t \in S => Cardinality(S \ {t}) = Cardinality(S) - 1
  BY <1>1, FS_RemoveElement
<1>4. t \notin S => S \ {t} = S
  OBVIOUS
<1>5. t \notin S => Cardinality(S \cup {t}) = Cardinality(S) + 1
  BY <1>1, FS_AddElement
<1> QED BY <1>2, <1>3, <1>4, <1>5

\* Who is woken by WakeFirst: the first thread of the list, if there is one.
Chosen(list) == IF list = <<>> THEN {} ELSE {Head(list)}

LEMMA WakeFirstWakes ==
    ASSUME NEW list \in Seq(Threads), NEW rest, LinkedOnce(list), WakeFirst(list, rest),
           stat \in [Threads -> {"READY", "SUSPEND"}]
    PROVE  /\ rest \in Seq(Threads) /\ LinkedOnce(rest)
           /\ ToSet(rest) = ToSet(list) \ Chosen(list)
           /\ Chosen(list) \subseteq ToSet(list)
           /\ stat' = [t \in Threads |-> IF t \in Chosen(list) THEN "READY" ELSE stat[t]]
           /\ error' = error
           /\ thread_timer' = thread_timer \ Chosen(list)
<1>1. CASE list = <<>>
  BY <1>1 DEF WakeFirst, Chosen, rt_list_isempty
<1>2. CASE list # <<>>
  <2>1. /\ rest = Tail(list)
        /\ stat' = [stat EXCEPT ![Head(list)] = "READY"]
        /\ error' = error
        /\ thread_timer' = thread_timer \ {Head(list)}
    BY <1>2 DEF WakeFirst, Resume, rt_list_isempty
  <2>2. /\ Head(list) \in ToSet(list) /\ Tail(list) \in Seq(Threads) /\ LinkedOnce(Tail(list))
        /\ ToSet(Tail(list)) = ToSet(list) \ {Head(list)}
    BY <1>2, TailMembers
  <2>3. Chosen(list) = {Head(list)}
    BY <1>2 DEF Chosen
  <2> QED BY <2>1, <2>2, <2>3
<1> QED BY <1>1, <1>2

-----------------------------------------------------------------------------
\* The invariant holds at the start ...
LEMMA MailboxInitially == Init => MailboxInv
<1> SUFFICES ASSUME Init PROVE MailboxInv
  OBVIOUS
<1> USE DEF Init, IpcInit, rt_ipc_object_init
<1>1. suspend_thread = <<>> /\ suspend_sender_thread = <<>>
  OBVIOUS
<1>2. MailboxTypes
  <2>1. 0 \in 0..(Size - 1) /\ 0 \in 0..Size
    BY MailboxAssumption
  <2>2. suspend_thread \in Seq(Threads) /\ suspend_sender_thread \in Seq(Threads)
    BY <1>1
  <2> QED BY <2>1, <2>2 DEF MailboxTypes, Errors
<1>3. OffsetsAgree
  BY MailboxAssumption DEF OffsetsAgree, Fold
<1>4. /\ Queued(suspend_thread, "recv") /\ Queued(suspend_sender_thread, "send")
      /\ TimersOfSuspended /\ SendersHoldMail
  BY <1>1 DEF Queued, ToSet, LinkedOnce, TimersOfSuspended, SendersHoldMail
<1>5. NoLostWakeup
  BY <1>1 DEF NoLostWakeup
<1> QED BY <1>2, <1>3, <1>4, <1>5 DEF MailboxInv

\* ... and every step keeps it.
LEMMA MailboxStep == MailboxInv /\ [Next]_vars => MailboxInv'
<1> SUFFICES ASSUME MailboxInv, [Next]_vars
             PROVE  MailboxInv'
  OBVIOUS
<1>1. /\ stat \in [Threads -> {"READY", "SUSPEND"}]
      /\ error \in [Threads -> Errors]
      /\ pc \in [Threads -> {"run", "send", "recv"}]
      /\ mail \in [Threads -> Messages \cup {NoMessage}]
  BY DEF MailboxInv, MailboxTypes
<1>2. /\ msg_pool \in [0..(Size - 1) -> Messages \cup {NoMessage}]
      /\ in_offset \in 0..(Size - 1)
      /\ out_offset \in 0..(Size - 1)
      /\ entry \in 0..Size
      /\ Size \in Nat \ {0}
      /\ in_offset = Fold(out_offset + entry)
  BY MailboxAssumption DEF MailboxInv, MailboxTypes, OffsetsAgree
<1>3. suspend_thread \in Seq(Threads) /\ suspend_sender_thread \in Seq(Threads)
  BY DEF MailboxInv, MailboxTypes
<1> DEFINE R == ToSet(suspend_thread)
           S == ToSet(suspend_sender_thread)
<1>4. /\ LinkedOnce(suspend_thread) /\ R \subseteq Threads
      /\ \A t \in R : stat[t] = "SUSPEND" /\ pc[t] = "recv" /\ error[t] = "EOK"
  BY <1>3 DEF MailboxInv, Queued, ToSet
<1>5. /\ LinkedOnce(suspend_sender_thread) /\ S \subseteq Threads
      /\ \A t \in S : stat[t] = "SUSPEND" /\ pc[t] = "send" /\ error[t] = "EOK"
  BY <1>3 DEF MailboxInv, Queued, ToSet
<1>6. \A t \in thread_timer : t \in Threads => stat[t] = "SUSPEND"
  BY DEF MailboxInv, TimersOfSuspended
<1>7. \A t \in Threads : pc[t] = "send" => mail[t] \in Messages
  BY DEF MailboxInv, SendersHoldMail
<1>8. /\ suspend_thread # <<>> => entry <= Cardinality(Woken("recv"))
      /\ suspend_sender_thread # <<>> => Size - entry <= Cardinality(Woken("send"))
  BY DEF MailboxInv, NoLostWakeup
<1>9. /\ Woken("recv") \in SUBSET Threads /\ Woken("send") \in SUBSET Threads
      /\ Cardinality(Woken("recv")) \in Nat /\ Cardinality(Woken("send")) \in Nat
  <2>1. \A label : IsFiniteSet(Woken(label)) /\ Woken(label) \in SUBSET Threads
    BY MailboxAssumption, FS_Subset DEF Woken
  <2> QED BY <2>1, FS_CardinalityType
<1> HIDE DEF R, S
\* A mail is put into the ring; the caller w, if it had to wait, returns.
<1>10. ASSUME NEW m \in Messages, Put(m), UNCHANGED suspend_sender_thread,
              NEW w \in SUBSET Woken("send"), w = {} \/ \E t \in Threads : w = {t},
              pc' = [t \in Threads |-> IF t \in w THEN "run" ELSE pc[t]],
              mail' = [t \in Threads |-> IF t \in w THEN NoMessage ELSE mail[t]]
       PROVE  MailboxInv'
  <2> DEFINE h == Chosen(suspend_thread)
  <2>1. /\ entry # Size
        /\ msg_pool' = [msg_pool EXCEPT ![in_offset] = m]
        /\ in_offset' = NextOffset(in_offset)
        /\ entry' = entry + 1
        /\ WakeFirst(suspend_thread, suspend_thread')
        /\ out_offset' = out_offset
    BY <1>10 DEF Put
  <2>2. /\ suspend_thread' \in Seq(Threads) /\ LinkedOnce(suspend_thread')
        /\ ToSet(suspend_thread') = R \ h
        /\ h \subseteq R
        /\ stat' = [t \in Threads |-> IF t \in h THEN "READY" ELSE stat[t]]
        /\ error' = error
        /\ thread_timer' = thread_timer \ h
    BY <1>1, <1>3, <1>4, <2>1, WakeFirstWakes DEF R
  <2>3. \A t \in h \cup R \cup S : t \notin w /\ pc'[t] = pc[t]
    BY <1>4, <1>5, <1>10, <2>2 DEF Woken
  <2>4. MailboxTypes'
    <3>1. in_offset' \in 0..(Size - 1) /\ entry' \in 0..Size
      BY <1>2, <2>1 DEF NextOffset
    <3>2. pc' \in [Threads -> {"run", "send", "recv"}]
      BY <1>1, <1>10
    <3>3. mail' \in [Threads -> Messages \cup {NoMessage}]
      BY <1>1, <1>10
    <3>4. stat' \in [Threads -> {"READY", "SUSPEND"}]
      BY <1>1, <2>2
    <3> QED BY <1>1, <1>2, <1>3, <1>10, <2>1, <2>2, <3>1, <3>2, <3>3, <3>4 DEF MailboxTypes
  <2>5. OffsetsAgree'
    BY <1>2, <2>1 DEF OffsetsAgree, Fold, NextOffset
  <2>6. Queued(suspend_thread, "recv")'
    BY <1>4, <2>2, <2>3 DEF Queued
  <2>7. Queued(suspend_sender_thread, "send")'
    <3>1. \A t \in S : t \notin h
      BY <1>4, <1>5, <2>2
    <3> QED BY <1>5, <1>10, <2>2, <2>3, <3>1 DEF Queued, S
  <2>8. TimersOfSuspended' /\ SendersHoldMail'
    BY <1>1, <1>6, <1>7, <1>10, <2>2 DEF TimersOfSuspended, SendersHoldMail
  <2>9. suspend_thread' # <<>> => entry' <= Cardinality(Woken("recv")')
    <3> SUFFICES ASSUME suspend_thread' # <<>>
                 PROVE  entry' <= Cardinality(Woken("recv")')
      OBVIOUS
    <3>1. suspend_thread # <<>>
      BY <2>1 DEF WakeFirst, rt_list_isempty
    <3>2. PICK t \in Threads : h = {t} /\ t \in R
      BY <1>4, <2>2, <3>1 DEF Chosen
    <3>3. Woken("recv")' = Woken("recv") \cup {t} /\ t \notin Woken("recv")
      BY <1>1, <1>4, <1>10, <2>2, <2>3, <3>2 DEF Woken
    <3>4. Cardinality(Woken("recv") \cup {t}) = Cardinality(Woken("recv")) + 1
      BY <1>9, <3>3, ThreadsCount
    <3>5. Cardinality(Woken("recv")') = Cardinality(Woken("recv")) + 1
      BY <3>3, <3>4
    <3> QED BY <1>2, <1>8, <1>9, <2>1, <3>1, <3>5
  <2>10. suspend_sender_thread' # <<>> => Size - entry' <= Cardinality(Woken("send")')
    <3>1. Woken("send")' = Woken("send") \ w
      BY <1>1, <1>4, <1>10, <2>2 DEF Woken
    <3>2. Cardinality(Woken("send")) - 1 <= Cardinality(Woken("send") \ w)
          /\ Cardinality(Woken("send") \ w) \in Nat
      <4>1. CASE w = {}
        <5>1. Woken("send") \ w = Woken("send")
          BY <4>1
        <5> QED BY <1>9, <5>1
      <4>2. ASSUME NEW t \in Threads, w = {t} PROVE <3>2
        BY <1>9, <4>2, ThreadsCount
      <4> QED BY <1>10, <4>1, <4>2
    <3>3. /\ Cardinality(Woken("send")) - 1 <= Cardinality(Woken("send")')
          /\ Cardinality(Woken("send")') \in Nat
      BY <3>1, <3>2
    <3> QED BY <1>2, <1>8, <1>9, <1>10, <2>1, <3>3
  <2> QED BY <2>4, <2>5, <2>6, <2>7, <2>8, <2>9, <2>10 DEF MailboxInv, NoLostWakeup
\* A mail is taken out of the ring; the caller w, if it had to wait, returns.
<1>11. ASSUME Get, UNCHANGED <<suspend_thread, mail>>,
              NEW w \in SUBSET Woken("recv"), w = {} \/ \E t \in Threads : w = {t},
              pc' = [t \in Threads |-> IF t \in w THEN "run" ELSE pc[t]]
       PROVE  MailboxInv'
  <2> DEFINE h == Chosen(suspend_sender_thread)
  <2>1. /\ entry # 0
        /\ out_offset' = NextOffset(out_offset)
        /\ entry' = entry - 1
        /\ WakeFirst(suspend_sender_thread, suspend_sender_thread')
        /\ msg_pool' = msg_pool /\ in_offset' = in_offset
    BY <1>11 DEF Get
  <2>2. /\ suspend_sender_thread' \in Seq(Threads) /\ LinkedOnce(suspend_sender_thread')
        /\ ToSet(suspend_sender_thread') = S \ h
        /\ h \subseteq S
        /\ stat' = [t \in Threads |-> IF t \in h THEN "READY" ELSE stat[t]]
        /\ error' = error
        /\ thread_timer' = thread_timer \ h
    BY <1>1, <1>3, <1>5, <2>1, WakeFirstWakes DEF S
  <2>3. \A t \in h \cup R \cup S : t \notin w /\ pc'[t] = pc[t]
    BY <1>4, <1>5, <1>11, <2>2 DEF Woken
  <2>4. MailboxTypes'
    <3>1. out_offset' \in 0..(Size - 1) /\ entry' \in 0..Size
      BY <1>2, <2>1 DEF NextOffset
    <3>2. pc' \in [Threads -> {"run", "send", "recv"}]
      BY <1>1, <1>11
    <3>3. stat' \in [Threads -> {"READY", "SUSPEND"}]
      BY <1>1, <2>2
    <3> QED BY <1>1, <1>2, <1>3, <1>11, <2>1, <2>2, <3>1, <3>2, <3>3 DEF MailboxTypes
  <2>5. OffsetsAgree'
    BY <1>2, <2>1 DEF OffsetsAgree, Fold, NextOffset
  <2>6. Queued(suspend_sender_thread, "send")'
    BY <1>5, <2>2, <2>3 DEF Queued
  <2>7. Queued(suspend_thread, "recv")'
    <3>1. \A t \in R : t \notin h
      BY <1>4, <1>5, <2>2
    <3> QED BY <1>4, <1>11, <2>2, <2>3, <3>1 DEF Queued, R
  <2>8. TimersOfSuspended' /\ SendersHoldMail'
    BY <1>1, <1>6, <1>7, <1>11, <2>2 DEF TimersOfSuspended, SendersHoldMail
  <2>9. suspend_sender_thread' # <<>> => Size - entry' <= Cardinality(Woken("send")')
    <3> SUFFICES ASSUME suspend_sender_thread' # <<>>
                 PROVE  Size - entry' <= Cardinality(Woken("send")')
      OBVIOUS
    <3>1. suspend_sender_thread # <<>>
      BY <2>1 DEF WakeFirst, rt_list_isempty
    <3>2. PICK t \in Threads : h = {t} /\ t \in S
      BY <1>5, <2>2, <3>1 DEF Chosen
    <3>3. Woken("send")' = Woken("send") \cup {t} /\ t \notin Woken("send")
      BY <1>1, <1>5, <1>11, <2>2, <2>3, <3>2 DEF Woken
    <3>4. Cardinality(Woken("send") \cup {t}) = Cardinality(Woken("send")) + 1
      BY <1>9, <3>3, ThreadsCount
    <3>5. Cardinality(Woken("send")') = Cardinality(Woken("send")) + 1
      BY <3>3, <3>4
    <3> QED BY <1>2, <1>8, <1>9, <2>1, <3>1, <3>5
  <2>10. suspend_thread' # <<>> => entry' <= Cardinality(Woken("recv")')
    <3>1. Woken("recv")' = Woken("recv") \ w
      BY <1>1, <1>5, <1>11, <2>2 DEF Woken
    <3>2. Cardinality(Woken("recv")) - 1 <= Cardinality(Woken("recv") \ w)
          /\ Cardinality(Woken("recv") \ w) \in Nat
      <4>1. CASE w = {}
        <5>1. Woken("recv") \ w = Woken("recv")
          BY <4>1
        <5> QED BY <1>9, <5>1
      <4>2. ASSUME NEW t \in Threads, w = {t} PROVE <3>2
        BY <1>9, <4>2, ThreadsCount
      <4> QED BY <1>11, <4>1, <4>2
    <3>3. /\ Cardinality(Woken("recv")) - 1 <= Cardinality(Woken("recv")')
          /\ Cardinality(Woken("recv")') \in Nat
      BY <3>1, <3>2
    <3> QED BY <1>2, <1>8, <1>9, <1>11, <2>1, <3>3
  <2> QED BY <2>4, <2>5, <2>6, <2>7, <2>8, <2>9, <2>10 DEF MailboxInv, NoLostWakeup
\* A receiver waits, a sender waits.
<1>12. ASSUME NEW t \in Threads, NEW ticks, Wait(t, ticks, "recv"),
              stat[t] = "READY", pc[t] \in {"run", "recv"}, entry = 0,
              suspend_thread' = rt_ipc_list_suspend(suspend_thread, t, Prio),
              UNCHANGED <<ring, suspend_sender_thread>>,
              mail' \in [Threads -> Messages \cup {NoMessage}],
              \A u \in Threads : mail'[u] = mail[u]
       PROVE  MailboxInv'
  <2> USE <1>12 DEF Wait, Suspend, Goto, ring
  <2>1. t \notin R /\ t \notin S
    BY <1>4, <1>5
  <2>2. /\ suspend_thread' \in Seq(Threads) /\ LinkedOnce(suspend_thread')
        /\ ToSet(suspend_thread') = R \cup {t}
    BY <1>3, <1>4, <2>1, SuspendList DEF R
  <2>3. \A u \in Threads \ {t} : stat'[u] = stat[u] /\ error'[u] = error[u] /\ pc'[u] = pc[u]
    BY <1>1
  <2>4. stat'[t] = "SUSPEND" /\ error'[t] = "EOK" /\ pc'[t] = "recv"
    BY <1>1
  <2>5. MailboxTypes' /\ OffsetsAgree'
    BY <1>1, <1>2, <1>3, <2>2 DEF MailboxTypes, OffsetsAgree, Errors
  <2>6. Queued(suspend_thread, "recv")'
    BY <1>4, <2>2, <2>3, <2>4 DEF Queued
  <2>7. Queued(suspend_sender_thread, "send")'
    BY <1>5, <2>1, <2>3 DEF Queued, S
  <2>8. TimersOfSuspended'
    BY <1>6, <2>3, <2>4 DEF TimersOfSuspended
  <2>9. SendersHoldMail'
    BY <1>7, <2>3, <2>4 DEF SendersHoldMail
  <2>10. suspend_sender_thread' # <<>> => Size - entry' <= Cardinality(Woken("send")')
    <3>1. Woken("send")' = Woken("send")
      BY <2>3, <2>4 DEF Woken
    <3>2. Cardinality(Woken("send")') = Cardinality(Woken("send"))
      BY <3>1
    <3> QED BY <1>8, <3>2
  <2>11. entry' <= Cardinality(Woken("recv")')
    <3>1. Woken("recv")' \in SUBSET Threads
      BY DEF Woken
    <3>2. Cardinality(Woken("recv")') \in Nat
      BY <3>1, ThreadsCount
    <3> QED BY <1>2, <3>2
  <2> QED BY <2>5, <2>6, <2>7, <2>8, <2>9, <2>10, <2>11 DEF MailboxInv, NoLostWakeup
<1>13. ASSUME NEW t \in Threads, NEW ticks, Wait(t, ticks, "send"),
              stat[t] = "READY", pc[t] \in {"run", "send"}, entry = Size,
              suspend_sender_thread' = rt_ipc_list_suspend(suspend_sender_thread, t, Prio),
              UNCHANGED <<ring, suspend_thread>>,
              mail' \in [Threads -> Messages \cup {NoMessage}],
              \A u \in Threads : IF u = t THEN mail'[u] \in Messages ELSE mail'[u] = mail[u]
       PROVE  MailboxInv'
  <2> USE <1>13 DEF Wait, Suspend, Goto, ring
  <2>1. t \notin R /\ t \notin S
    BY <1>4, <1>5
  <2>2. /\ suspend_sender_thread' \in Seq(Threads) /\ LinkedOnce(suspend_sender_thread')
        /\ ToSet(suspend_sender_thread') = S \cup {t}
    BY <1>3, <1>5, <2>1, SuspendList DEF S
  <2>3. \A u \in Threads \ {t} : stat'[u] = stat[u] /\ error'[u] = error[u] /\ pc'[u] = pc[u]
    BY <1>1
  <2>4. stat'[t] = "SUSPEND" /\ error'[t] = "EOK" /\ pc'[t] = "send"
    BY <1>1
  <2>5. MailboxTypes' /\ OffsetsAgree'
    BY <1>1, <1>2, <1>3, <2>2 DEF MailboxTypes, OffsetsAgree, Errors
  <2>6. Queued(suspend_sender_thread, "send")'
    BY <1>5, <2>2, <2>3, <2>4 DEF Queued
  <2>7. Queued(suspend_thread, "recv")'
    BY <1>4, <2>1, <2>3 DEF Queued, R
  <2>8. TimersOfSuspended'
    BY <1>6, <2>3, <2>4 DEF TimersOfSuspended
  <2>9. SendersHoldMail'
    BY <1>7, <2>3, <2>4 DEF SendersHoldMail
  <2>10. suspend_thread' # <<>> => entry' <= Cardinality(Woken("recv")')
    <3>1. Woken("recv")' = Woken("recv")
      BY <2>3, <2>4 DEF Woken
    <3>2. Cardinality(Woken("recv")') = Cardinality(Woken("recv"))
      BY <3>1
    <3> QED BY <1>8, <3>2
  <2>11. Size - entry' <= Cardinality(Woken("send")')
    <3>1. Woken("send")' \in SUBSET Threads
      BY DEF Woken
    <3>2. Cardinality(Woken("send")') \in Nat
      BY <3>1, ThreadsCount
    <3> QED BY <1>2, <3>2
  <2> QED BY <2>5, <2>6, <2>7, <2>8, <2>9, <2>10, <2>11 DEF MailboxInv, NoLostWakeup
\* What a step keeps that leaves the ring, the lists and the suspended threads
\* alone: it may end the call of a thread that found nothing and is not missed.
<1>14. ASSUME UNCHANGED <<ring, suspend_thread, suspend_sender_thread, stat, thread_timer>>,
              error' \in [Threads -> Errors],
              pc' \in [Threads -> {"run", "send", "recv"}],
              mail' \in [Threads -> Messages \cup {NoMessage}],
              \A t \in Threads : stat[t] = "SUSPEND" => pc'[t] = pc[t] /\ error'[t] = error[t],
              \A t \in Threads : pc'[t] = "send" => pc[t] = "send" /\ mail'[t] = mail[t],
              Woken("recv")' = Woken("recv") \/ entry = 0,
              Woken("send")' = Woken("send") \/ entry = Size
       PROVE  MailboxInv'
  <2> USE <1>14 DEF ring
  <2>1. MailboxTypes' /\ OffsetsAgree'
    BY <1>1, <1>2, <1>3 DEF MailboxTypes, OffsetsAgree
  <2>2. Queued(suspend_thread, "recv")' /\ Queued(suspend_sender_thread, "send")'
    BY <1>4, <1>5 DEF Queued, R, S
  <2>3. TimersOfSuspended' /\ SendersHoldMail'
    BY <1>6, <1>7 DEF TimersOfSuspended, SendersHoldMail
  <2>4. Cardinality(Woken("recv")') \in Nat /\ Cardinality(Woken("send")') \in Nat
    <3>1. \A label : IsFiniteSet(Woken(label)')
      BY MailboxAssumption, FS_Subset DEF Woken
    <3> QED BY <3>1, FS_CardinalityType
  <2>5. suspend_thread # <<>> => entry <= Cardinality(Woken("recv")')
    <3>1. CASE Woken("recv")' = Woken("recv")
      <4>1. Cardinality(Woken("recv")') = Cardinality(Woken("recv"))
        BY <3>1
      <4> QED BY <1>8, <4>1
    <3>2. CASE entry = 0
      BY <2>4, <3>2
    <3> QED BY <3>1, <3>2
  <2>6. suspend_sender_thread # <<>> => Size - entry <= Cardinality(Woken("send")')
    <3>1. CASE Woken("send")' = Woken("send")
      <4>1. Cardinality(Woken("send")') = Cardinality(Woken("send"))
        BY <3>1
      <4> QED BY <1>8, <4>1
    <3>2. CASE entry = Size
      BY <1>2, <2>4, <3>2
    <3> QED BY <3>1, <3>2
  <2> QED BY <2>1, <2>2, <2>3, <2>5, <2>6 DEF MailboxInv, NoLostWakeup
\* One step per action.
<1>20. CASE UNCHANGED vars
  BY <1>1, <1>14, <1>20 DEF vars, ipcVars, waits, Woken
<1>21. CASE Tick
  BY <1>1, <1>14, <1>21 DEF Tick, ipcVars, Woken
<1>22. ASSUME NEW m \in Messages, SendFromInterrupt(m) PROVE MailboxInv'
  <2>1. {} \in SUBSET Woken("send")
    OBVIOUS
  <2>2. Put(m) /\ UNCHANGED <<suspend_sender_thread, pc, mail>>
    BY <1>22 DEF SendFromInterrupt
  <2>3. /\ pc' = [t \in Threads |-> IF t \in {} THEN "run" ELSE pc[t]]
        /\ mail' = [t \in Threads |-> IF t \in {} THEN NoMessage ELSE mail[t]]
    BY <1>1, <2>2
  <2> QED BY <1>10, <2>1, <2>2, <2>3
<1>23. ASSUME NEW t \in Threads, NEW m \in Messages, Send(t, m) PROVE MailboxInv'
  <2>1. {} \in SUBSET Woken("send")
    OBVIOUS
  <2>2. Put(m) /\ UNCHANGED <<suspend_sender_thread, pc, mail>>
    BY <1>23 DEF Send
  <2>3. /\ pc' = [u \in Threads |-> IF u \in {} THEN "run" ELSE pc[u]]
        /\ mail' = [u \in Threads |-> IF u \in {} THEN NoMessage ELSE mail[u]]
    BY <1>1, <2>2
  <2> QED BY <1>10, <2>1, <2>2, <2>3
<1>24. ASSUME NEW t \in Threads, SendWoken(t) PROVE MailboxInv'
  <2>1. {t} \in SUBSET Woken("send") /\ mail[t] \in Messages
    BY <1>7, <1>24 DEF SendWoken, At, Woken
  <2>2. Put(mail[t]) /\ UNCHANGED suspend_sender_thread
    BY <1>24 DEF SendWoken
  <2>3. /\ pc' = [u \in Threads |-> IF u \in {t} THEN "run" ELSE pc[u]]
        /\ mail' = [u \in Threads |-> IF u \in {t} THEN NoMessage ELSE mail[u]]
    BY <1>1, <1>24 DEF SendWoken, Goto
  <2> QED BY <1>10, <2>1, <2>2, <2>3
<1>25. ASSUME NEW t \in Threads, Recv(t) PROVE MailboxInv'
  <2>1. {} \in SUBSET Woken("recv")
    OBVIOUS
  <2>2. Get /\ UNCHANGED <<suspend_thread, pc, mail>>
    BY <1>25 DEF Recv
  <2>3. pc' = [u \in Threads |-> IF u \in {} THEN "run" ELSE pc[u]]
    BY <1>1, <2>2
  <2> QED BY <1>11, <2>1, <2>2, <2>3
<1>26. ASSUME NEW t \in Threads, RecvWoken(t) PROVE MailboxInv'
  <2>1. {t} \in SUBSET Woken("recv")
    BY <1>26 DEF RecvWoken, At, Woken
  <2>2. Get /\ UNCHANGED <<suspend_thread, mail>>
    BY <1>26 DEF RecvWoken
  <2>3. pc' = [u \in Threads |-> IF u \in {t} THEN "run" ELSE pc[u]]
    BY <1>1, <1>26 DEF RecvWoken, Goto
  <2> QED BY <1>11, <2>1, <2>2, <2>3
<1>27. ASSUME NEW t \in Threads, NEW ticks, RecvSuspend(t, ticks) PROVE MailboxInv'
  BY <1>1, <1>12, <1>27 DEF RecvSuspend, At
<1>28. ASSUME NEW t \in Threads, NEW m \in Messages, NEW ticks, SendSuspend(t, m, ticks)
       PROVE  MailboxInv'
  <2>1. mail' = [mail EXCEPT ![t] = m]
    BY <1>28 DEF SendSuspend
  <2> QED BY <1>1, <1>13, <1>28, <2>1 DEF SendSuspend, At
<1>29. ASSUME NEW t \in Threads, WaitAgain(t) PROVE MailboxInv'
  <2>1. CASE At(t, "send")
    <3>1. mail[t] \in Messages
      BY <1>7, <2>1 DEF At
    <3> QED BY <1>1, <1>13, <1>29, <2>1, <3>1 DEF WaitAgain, At
  <2>2. CASE At(t, "recv")
    BY <1>1, <1>12, <1>29, <2>2 DEF WaitAgain, At
  <2> QED BY <1>29, <2>1, <2>2 DEF WaitAgain
<1>30. ASSUME NEW t \in Threads, ReturnError(t) PROVE MailboxInv'
  <2>1. Woken("recv")' = Woken("recv") /\ Woken("send")' = Woken("send")
    BY <1>1, <1>30 DEF ReturnError, Goto, Woken
  <2> QED BY <1>1, <1>14, <1>30, <2>1 DEF ReturnError, At, Goto
<1>31. ASSUME NEW t \in Threads, GiveUp(t) PROVE MailboxInv'
  <2>1. CASE At(t, "send")
    <3>1. /\ entry = Size /\ error' = error
      BY <1>31, <2>1 DEF GiveUp, At
    <3>2. Woken("recv")' = Woken("recv")
      BY <1>1, <1>31, <2>1, <3>1 DEF GiveUp, At, Goto, Woken
    <3> QED BY <1>1, <1>14, <1>31, <2>1, <3>1, <3>2 DEF GiveUp, At, Goto
  <2>2. CASE At(t, "recv")
    <3>1. /\ entry = 0 /\ error' = [error EXCEPT ![t] = "ETIMEOUT"]
      BY <1>31, <2>2 DEF GiveUp, At
    <3>2. Woken("send")' = Woken("send")
      BY <1>1, <1>31, <2>2, <3>1 DEF GiveUp, At, Goto, Woken
    <3>3. error' \in [Threads -> Errors]
      BY <1>1, <3>1 DEF Errors
    <3> QED BY <1>1, <1>14, <1>31, <2>2, <3>1, <3>2, <3>3 DEF GiveUp, At, Goto
  <2> QED BY <1>31, <2>1, <2>2 DEF GiveUp
<1>32. ASSUME NEW t \in Threads, WaitTimeout(t) PROVE MailboxInv'
  <2> USE <1>32 DEF WaitTimeout, Timeout, ring
  <2>1. /\ suspend_thread' \in Seq(Threads) /\ LinkedOnce(suspend_thread')
        /\ ToSet(suspend_thread') = R \ {t}
        /\ suspend_sender_thread' \in Seq(Threads) /\ LinkedOnce(suspend_sender_thread')
        /\ ToSet(suspend_sender_thread') = S \ {t}
    BY <1>3, <1>4, <1>5, RemoveMembers DEF R, S
  <2>2. /\ suspend_thread' # <<>> => suspend_thread # <<>>
        /\ suspend_sender_thread' # <<>> => suspend_sender_thread # <<>>
    BY DEF rt_list_remove, ToSet
  <2>3. stat[t] = "SUSPEND" /\ stat'[t] = "READY" /\ error'[t] = "ETIMEOUT"
    BY <1>1, <1>6
  <2>4. \A u \in Threads \ {t} : stat'[u] = stat[u] /\ error'[u] = error[u]
    BY <1>1
  <2>5. MailboxTypes' /\ OffsetsAgree'
    BY <1>1, <1>2, <2>1 DEF MailboxTypes, OffsetsAgree, Errors
  <2>6. Queued(suspend_thread, "recv")' /\ Queued(suspend_sender_thread, "send")'
    BY <1>4, <1>5, <2>1, <2>4 DEF Queued
  <2>7. TimersOfSuspended' /\ SendersHoldMail'
    BY <1>6, <1>7, <2>4 DEF TimersOfSuspended, SendersHoldMail
  <2>8. Woken("recv")' = Woken("recv") /\ Woken("send")' = Woken("send")
    BY <2>3, <2>4 DEF Woken
  <2>9. NoLostWakeup'
    BY <1>8, <2>2, <2>8 DEF NoLostWakeup
  <2> QED BY <2>5, <2>6, <2>7, <2>9 DEF MailboxInv
<1>33. ASSUME NEW t \in Threads, Reset(t) PROVE MailboxInv'
  <2> USE <1>33 DEF Reset, ResumeAll, ResetOffsets
  <2>1. suspend_thread' = <<>> /\ suspend_sender_thread' = <<>>
    OBVIOUS
  <2>2. MailboxTypes'
    <3>1. stat' \in [Threads -> {"READY", "SUSPEND"}] /\ error' \in [Threads -> Errors]
      BY <1>1 DEF Errors
    <3>2. 0 \in 0..(Size - 1) /\ 0 \in 0..Size
      BY <1>2
    <3>3. suspend_thread' \in Seq(Threads) /\ suspend_sender_thread' \in Seq(Threads)
      BY <2>1
    <3> QED BY <1>1, <1>2, <3>1, <3>2, <3>3 DEF MailboxTypes
  <2>3. OffsetsAgree'
    BY <1>2 DEF OffsetsAgree, Fold
  <2>4. Queued(suspend_thread, "recv")' /\ Queued(suspend_sender_thread, "send")'
    BY <2>1 DEF Queued, LinkedOnce, ToSet
  <2>5. TimersOfSuspended' /\ SendersHoldMail'
    BY <1>6, <1>7 DEF TimersOfSuspended, SendersHoldMail
  <2>6. NoLostWakeup'
    BY <2>1 DEF NoLostWakeup
  <2> QED BY <2>2, <2>3, <2>4, <2>5, <2>6 DEF MailboxInv
<1> QED
  BY <1>20, <1>21, <1>22, <1>23, <1>24, <1>25, <1>26, <1>27, <1>28, <1>29, <1>30, <1>31,
     <1>32, <1>33 DEF Next, Continue

\* While a receiver is suspended every mail has a woken receiver on its way,
\* and while a sender is suspended every free place has a woken sender.
THEOREM MailboxNoLostWakeup == Spec => []NoLostWakeup
<1>1. MailboxInv => NoLostWakeup
  BY DEF MailboxInv
<1> QED BY <1>1, MailboxInitially, MailboxStep, PTL DEF Spec

-----------------------------------------------------------------------------
\* The remainder that the ring of the abstract channel is written with.
LEMMA ModIsFold ==
    ASSUME NEW i \in Nat, i < 2 * Size
    PROVE  i % Size = Fold(i)
<1>1. Size \in Nat \ {0}
  BY MailboxAssumption
<1>2. CASE i < Size
  BY <1>1, <1>2 DEF Fold
<1>3. CASE ~(i < Size)
  <2> DEFINE q == i \div Size
             r == i % Size
  <2>1. q \in Int /\ r \in 0..(Size - 1) /\ i = Size * q + r
    BY <1>1
  <2> HIDE DEF q, r
  <2>2. q = 1
    <3>1. Size * q > 0
      BY <1>1, <1>3, <2>1
    <3> QED BY <1>1, <1>3, <2>1
  <2> QED BY <1>1, <1>3, <2>1, <2>2 DEF Fold, r
<1> QED BY <1>2, <1>3

\* The mails of the ring as a sequence.
QueueIsRing ==
    /\ Queue \in Seq(Messages \cup {NoMessage})
    /\ Len(Queue) = entry
    /\ \A i \in 1..entry : Queue[i] = msg_pool[Fold(out_offset + i - 1)]

LEMMA QueueIsSeq == MailboxInv => QueueIsRing
<1> SUFFICES ASSUME MailboxInv PROVE QueueIsRing
  OBVIOUS
<1>1. /\ msg_pool \in [0..(Size - 1) -> Messages \cup {NoMessage}]
      /\ out_offset \in 0..(Size - 1)
      /\ entry \in 0..Size
      /\ Size \in Nat \ {0}
  BY MailboxAssumption DEF MailboxInv, MailboxTypes
<1>2. \A i \in 1..entry : /\ (out_offset + i - 1) % Size = Fold(out_offset + i - 1)
                          /\ Fold(out_offset + i - 1) \in 0..(Size - 1)
  <2> SUFFICES ASSUME NEW i \in 1..entry
               PROVE  /\ (out_offset + i - 1) % Size = Fold(out_offset + i - 1)
                      /\ Fold(out_offset + i - 1) \in 0..(Size - 1)
    OBVIOUS
  <2>1. out_offset + i - 1 \in Nat /\ out_offset + i - 1 < 2 * Size
    BY <1>1
  <2>2. Fold(out_offset + i - 1) \in 0..(Size - 1)
    BY <1>1, <2>1 DEF Fold
  <2> QED BY <2>1, <2>2, ModIsFold
<1>3. \A i \in 1..entry : Queue[i] = msg_pool[Fold(out_offset + i - 1)]
  BY <1>2 DEF Queue
<1>4. Queue = [i \in 1..entry |-> msg_pool[Fold(out_offset + i - 1)]]
  BY <1>2 DEF Queue
<1>5. Queue \in [1..entry -> Messages \cup {NoMessage}]
  BY <1>1, <1>2, <1>4
<1>6. Queue \in Seq(Messages \cup {NoMessage}) /\ Len(Queue) = entry
  <2>1. DOMAIN Queue = 1..entry /\ entry \in Nat
    BY <1>1, <1>4
  <2> QED BY <1>5, <2>1
<1> QED BY <1>3, <1>6 DEF QueueIsRing

LEMMA QueueIsSeqNext == MailboxInv' => QueueIsRing'
  BY QueueIsSeq, PTL

\* A step of the mailbox is a step of the channel, or leaves it alone.
LEMMA MailboxRefines ==
    MailboxInv /\ MailboxInv' /\ [Next]_vars => [Promise!Next]_<<Queue, delivered>>
<1> SUFFICES ASSUME MailboxInv, MailboxInv', [Next]_vars
             PROVE  Promise!Next \/ UNCHANGED <<Queue, delivered>>
  OBVIOUS
<1>1. /\ msg_pool \in [0..(Size - 1) -> Messages \cup {NoMessage}]
      /\ in_offset \in 0..(Size - 1)
      /\ out_offset \in 0..(Size - 1)
      /\ entry \in 0..Size
      /\ Size \in Nat \ {0}
      /\ in_offset = Fold(out_offset + entry)
  BY MailboxAssumption DEF MailboxInv, MailboxTypes, OffsetsAgree
<1>2. /\ Queue \in Seq(Messages \cup {NoMessage})
      /\ Len(Queue) = entry
      /\ \A i \in 1..entry : Queue[i] = msg_pool[Fold(out_offset + i - 1)]
  BY QueueIsSeq DEF QueueIsRing
<1>3. /\ Queue' \in Seq(Messages \cup {NoMessage})
      /\ Len(Queue') = entry'
      /\ \A i \in 1..entry' : Queue'[i] = msg_pool'[Fold(out_offset' + i - 1)]
  BY QueueIsSeqNext DEF QueueIsRing
<1>4. \A t \in Threads : pc[t] = "send" => mail[t] \in Messages
  BY DEF MailboxInv, SendersHoldMail
<1> DEFINE q == Queue
           r == Queue'
<1>5. ASSUME NEW m \in Messages, Put(m) PROVE Promise!Next
  <2> HIDE DEF q, r
  <2>1. /\ entry < Size /\ entry' = entry + 1 /\ out_offset' = out_offset
        /\ msg_pool' = [msg_pool EXCEPT ![in_offset] = m] /\ delivered' = delivered
    BY <1>1, <1>5 DEF Put
  <2>2. \A i \in 1..entry : r[i] = q[i]
    <3> SUFFICES ASSUME NEW i \in 1..entry PROVE r[i] = q[i]
      OBVIOUS
    <3>1. /\ Fold(out_offset + i - 1) # in_offset
          /\ Fold(out_offset + i - 1) \in 0..(Size - 1)
      BY <1>1, <2>1 DEF Fold
    <3>2. r[i] = msg_pool'[Fold(out_offset + i - 1)]
      BY <1>1, <1>3, <2>1 DEF r
    <3> QED BY <1>1, <1>2, <2>1, <3>1, <3>2 DEF q
  <2>3. r[entry + 1] = m
    <3>1. Fold(out_offset + (entry + 1) - 1) = in_offset
      BY <1>1
    <3>2. r[entry + 1] = msg_pool'[Fold(out_offset + (entry + 1) - 1)]
      BY <1>1, <1>3, <2>1 DEF r
    <3> QED BY <1>1, <2>1, <3>1, <3>2
  <2>4. /\ q \in Seq(Messages \cup {NoMessage}) /\ Len(q) = entry
        /\ r \in Seq(Messages \cup {NoMessage}) /\ Len(r) = entry + 1
    BY <1>2, <1>3, <2>1 DEF q, r
  <2>5. r = Append(q, m)
    <3>1. /\ Append(q, m) \in Seq(Messages \cup {NoMessage})
          /\ Len(Append(q, m)) = entry + 1
          /\ \A i \in 1..entry : Append(q, m)[i] = q[i]
          /\ Append(q, m)[entry + 1] = m
      BY <2>4, AppendProperties
    <3>2. \A i \in 1..(entry + 1) : r[i] = Append(q, m)[i]
      BY <1>1, <2>2, <2>3, <3>1
    <3> QED BY <2>4, <3>1, <3>2, SeqEqual
  <2>6. Promise!Send(m)
    BY <1>1, <2>1, <2>4, <2>5 DEF Promise!Send, q, r
  <2> QED BY <2>6 DEF Promise!Next
<1>6. ASSUME Get PROVE Promise!Next
  <2> HIDE DEF q, r
  <2>1. /\ entry # 0 /\ entry' = entry - 1 /\ out_offset' = NextOffset(out_offset)
        /\ msg_pool' = msg_pool /\ delivered' = msg_pool[out_offset]
    BY <1>6 DEF Get
  <2>2. /\ q \in Seq(Messages \cup {NoMessage}) /\ Len(q) = entry /\ q # <<>>
        /\ r \in Seq(Messages \cup {NoMessage}) /\ Len(r) = entry - 1
    BY <1>1, <1>2, <1>3, <2>1 DEF q, r
  <2>3. \A i \in 1..(entry - 1) : r[i] = q[i + 1]
    <3> SUFFICES ASSUME NEW i \in 1..(entry - 1) PROVE r[i] = q[i + 1]
      OBVIOUS
    <3>1. Fold(out_offset' + i - 1) = Fold(out_offset + (i + 1) - 1)
      BY <1>1, <2>1 DEF Fold, NextOffset
    <3>2. r[i] = msg_pool[Fold(out_offset' + i - 1)]
      BY <1>1, <1>3, <2>1 DEF r
    <3>3. q[i + 1] = msg_pool[Fold(out_offset + (i + 1) - 1)]
      BY <1>1, <1>2 DEF q
    <3> QED BY <3>1, <3>2, <3>3
  <2>4. r = Tail(q)
    <3>1. /\ Tail(q) \in Seq(Messages \cup {NoMessage})
          /\ Len(Tail(q)) = entry - 1
          /\ \A i \in 1..(entry - 1) : Tail(q)[i] = q[i + 1]
      BY <1>1, <2>2
    <3> QED BY <2>2, <2>3, <3>1, SeqEqual
  <2>5. delivered' = Head(q)
    <3>1. Fold(out_offset + 1 - 1) = out_offset
      BY <1>1 DEF Fold
    <3>2. q[1] = msg_pool[Fold(out_offset + 1 - 1)]
      BY <1>1, <1>2, <2>1 DEF q
    <3> QED BY <2>1, <2>2, <3>1, <3>2
  <2>6. Promise!Receive
    BY <2>2, <2>4, <2>5 DEF Promise!Receive, q, r
  <2> QED BY <2>6 DEF Promise!Next
<1>7. ASSUME NEW t \in Threads, Reset(t) PROVE Promise!Next
  <2>1. entry' = 0 /\ delivered' = delivered
    BY <1>7 DEF Reset
  <2>2. Queue' = <<>>
    BY <1>3, <2>1
  <2> QED BY <2>1, <2>2 DEF Promise!Next, Promise!Reset
<1>8. ASSUME UNCHANGED ring PROVE UNCHANGED <<Queue, delivered>>
  BY <1>8 DEF ring, Queue
<1>9. \/ UNCHANGED ring
      \/ \E m \in Messages : Put(m)
      \/ Get
      \/ \E t \in Threads : Reset(t)
  <2>1. ASSUME NEW t \in Threads, SendWoken(t) PROVE \E m \in Messages : Put(m)
    <3>1. mail[t] \in Messages /\ Put(mail[t])
      BY <1>4, <2>1 DEF SendWoken, At
    <3> QED BY <3>1
  <2> QED BY <2>1 DEF Next, Continue, vars, Tick, SendFromInterrupt, Send, Recv, RecvWoken,
             SendSuspend, RecvSuspend, WaitAgain, GiveUp, ReturnError, WaitTimeout
<1> QED BY <1>5, <1>6, <1>7, <1>8, <1>9

\* The mailbox is a bounded first-in first-out channel: no mail is lost,
\* doubled or overtaken, for every size of the ring and however the offsets
\* wrap, by any number of senders, receivers, timeouts and resets.
THEOREM MailboxImplementsChannel == Spec => ImplementsChannel
<1>1. Init => Promise!Init
  <2> SUFFICES ASSUME Init PROVE Promise!Init
    OBVIOUS
  <2>1. entry = 0 /\ delivered = NoMessage
    BY DEF Init
  <2>2. QueueIsRing
    BY MailboxInitially, QueueIsSeq
  <2>3. Queue = <<>>
    BY <2>1, <2>2 DEF QueueIsRing
  <2> QED BY <2>1, <2>3 DEF Promise!Init
<1>2. Spec => []MailboxInv
  BY MailboxInitially, MailboxStep, PTL DEF Spec
<1> QED BY <1>1, <1>2, MailboxRefines, PTL DEF Spec, ImplementsChannel, Promise!Spec

-----------------------------------------------------------------------------
(* The data queue. *)

\* The indices are not driven past the range of their counters.
NeverWraps == MaxIndex \in Nat /\ IndexMod \in Nat /\ MaxIndex < IndexMod

\* One thread pushes, and the mark lies below the size.
OnePusher == (\A p, q \in Pushers : p = q) /\ Lwm \in Nat /\ Lwm < QueueSize

Labels == {"run", "push", "pop", "test_pop", "wake_pop", "test_push", "wake_push"}

\* The threads and the two lists.
DqThreads ==
    /\ stat \in [Threads -> {"READY", "SUSPEND"}]
    /\ error \in [Threads -> Errors]
    /\ pc \in [Threads -> Labels]
    /\ item \in [Threads -> Items \cup {NoItem}]
    /\ suspended_pop_list \in Seq(Threads) /\ suspended_push_list \in Seq(Threads)
    /\ Queued(suspended_pop_list, "pop") /\ Queued(suspended_push_list, "push")
    /\ TimersOfSuspended
    /\ \A t \in Threads : pc[t] = "push" => t \in Pushers /\ item[t] \in Items

\* The items lie between the two indices.
DqIndices ==
    /\ queue \in [0..(QueueSize - 1) -> Items \cup {NoItem}]
    /\ get_index \in Nat /\ put_index \in Nat
    /\ get_index <= put_index /\ put_index <= MaxIndex
    /\ put_index - get_index <= QueueSize

DqPoppers == suspended_pop_list # <<>> => put_index - get_index <= Cardinality(Woken("pop"))

\* The inductive invariant, but for the pushers.
DqInv == DqThreads /\ DqIndices /\ DqPoppers

\* The woken poppers of the property are those of the lemmas.
LEMMA WokenPoppers == {t \in Threads : At(t, "pop") /\ error[t] = "EOK"} = Woken("pop")
  BY DEF Woken, At

\* How many items there are, as long as no index wraps.
LEMMA CountIs == NeverWraps /\ DqIndices => Count = put_index - get_index
<1> SUFFICES ASSUME NeverWraps, DqIndices PROVE Count = put_index - get_index
  OBVIOUS
<1>1. put_index - get_index \in Nat /\ put_index - get_index < IndexMod /\ IndexMod \in Nat \ {0}
  BY DEF NeverWraps, DqIndices
<1>2. \A n \in Nat, m \in Nat \ {0} : n < m => n % m = n
  OBVIOUS
<1> QED BY <1>1, <1>2 DEF Count

\* The ready threads w leave the wait they were woken from, or go on elsewhere
\* outside the two waits; the others stay where they are.
Goes(w) ==
    /\ \A t \in w : stat[t] = "READY"
    /\ pc' \in [Threads -> Labels] /\ item' \in [Threads -> Items \cup {NoItem}]
    /\ \A t \in Threads \ w : pc'[t] = pc[t] /\ item'[t] = item[t]
    /\ \A t \in w : pc'[t] \notin {"push", "pop"}

\* Steps that take the threads h off the lists, while the threads w go on.
LEMMA DqLeave ==
    ASSUME DqThreads, NEW h \in SUBSET Threads, NEW w \in SUBSET Threads,
           stat' = [t \in Threads |-> IF t \in h THEN "READY" ELSE stat[t]],
           error' \in [Threads -> Errors], \A t \in Threads \ h : error'[t] = error[t],
           thread_timer' = thread_timer \ h,
           Goes(w),
           suspended_pop_list' \in Seq(Threads), LinkedOnce(suspended_pop_list'),
           ToSet(suspended_pop_list') = ToSet(suspended_pop_list) \ h,
           suspended_push_list' \in Seq(Threads), LinkedOnce(suspended_push_list'),
           ToSet(suspended_push_list') = ToSet(suspended_push_list) \ h
    PROVE  DqThreads'
<1> USE DEF Goes
<1>1. stat' \in [Threads -> {"READY", "SUSPEND"}]
  BY DEF DqThreads
<1>2. ASSUME NEW list \in Seq(Threads), NEW label, Queued(list, label)
      PROVE  \A t \in ToSet(list) \ h : stat'[t] = "SUSPEND" /\ pc'[t] = label /\ error'[t] = "EOK"
  <2>1. ToSet(list) \subseteq Threads
    BY <1>2 DEF ToSet
  <2>2. ASSUME NEW t \in ToSet(list) \ h
        PROVE  stat'[t] = "SUSPEND" /\ pc'[t] = label /\ error'[t] = "EOK"
    <3>1. t \in Threads \ h /\ stat[t] = "SUSPEND" /\ pc[t] = label /\ error[t] = "EOK"
      BY <1>2, <2>1, <2>2 DEF Queued
    <3>2. t \notin w
      BY <3>1
    <3> QED BY <3>1, <3>2
  <2> QED BY <2>2
<1>3. Queued(suspended_pop_list, "pop")' /\ Queued(suspended_push_list, "push")'
  <2>1. /\ suspended_pop_list \in Seq(Threads) /\ Queued(suspended_pop_list, "pop")
        /\ suspended_push_list \in Seq(Threads) /\ Queued(suspended_push_list, "push")
    BY DEF DqThreads
  <2>2. Queued(suspended_pop_list, "pop")'
    <3>1. \A t \in ToSet(suspended_pop_list) \ h : stat'[t] = "SUSPEND" /\ pc'[t] = "pop" /\ error'[t] = "EOK"
      BY <1>2, <2>1
    <3> QED BY <3>1 DEF Queued
  <2>3. Queued(suspended_push_list, "push")'
    <3>1. \A t \in ToSet(suspended_push_list) \ h : stat'[t] = "SUSPEND" /\ pc'[t] = "push" /\ error'[t] = "EOK"
      BY <1>2, <2>1
    <3> QED BY <3>1 DEF Queued
  <2> QED BY <2>2, <2>3
<1>4. TimersOfSuspended'
  BY DEF DqThreads, TimersOfSuspended
<1>5. \A t \in Threads : pc'[t] = "push" => t \in Pushers /\ item'[t] \in Items
  BY DEF DqThreads
<1> QED BY <1>1, <1>3, <1>4, <1>5 DEF DqThreads

\* A thread waits, at the end of one of the lists.
LEMMA DqJoin ==
    ASSUME DqThreads, NEW t \in Threads, NEW label, stat[t] = "READY",
           stat' = [stat EXCEPT ![t] = "SUSPEND"], error' = [error EXCEPT ![t] = "EOK"],
           thread_timer' \subseteq thread_timer \cup {t},
           pc' = [pc EXCEPT ![t] = label],
           item' \in [Threads -> Items \cup {NoItem}],
           \A u \in Threads \ {t} : item'[u] = item[u],
           \/ /\ label = "pop"
              /\ suspended_pop_list' = Append(suspended_pop_list, t)
              /\ suspended_push_list' = suspended_push_list
           \/ /\ label = "push" /\ t \in Pushers /\ item'[t] \in Items
              /\ suspended_push_list' = Append(suspended_push_list, t)
              /\ suspended_pop_list' = suspended_pop_list
    PROVE  DqThreads'
<1>1. \A u \in Threads : /\ stat'[u] = IF u = t THEN "SUSPEND" ELSE stat[u]
                         /\ error'[u] = IF u = t THEN "EOK" ELSE error[u]
                         /\ pc'[u] = IF u = t THEN label ELSE pc[u]
  BY DEF DqThreads
<1>2. /\ stat' \in [Threads -> {"READY", "SUSPEND"}] /\ error' \in [Threads -> Errors]
      /\ pc' \in [Threads -> Labels]
  BY DEF DqThreads, Errors, Labels
<1>3. ASSUME NEW list \in Seq(Threads), NEW where, Queued(list, where)
      PROVE  /\ LinkedOnce(list) /\ t \notin ToSet(list)
             /\ \A u \in ToSet(list) : stat'[u] = "SUSPEND" /\ pc'[u] = where /\ error'[u] = "EOK"
             /\ Append(list, t) \in Seq(Threads) /\ LinkedOnce(Append(list, t))
             /\ ToSet(Append(list, t)) = ToSet(list) \cup {t}
  <2>1. ToSet(list) \subseteq Threads
    BY <1>3 DEF ToSet
  <2>2. t \notin ToSet(list) /\ LinkedOnce(list)
    BY <1>3 DEF Queued
  <2>3. \A u \in ToSet(list) : stat'[u] = "SUSPEND" /\ pc'[u] = where /\ error'[u] = "EOK"
    BY <1>1, <1>3, <2>1, <2>2 DEF Queued
  <2>4. /\ Append(list, t) \in Seq(Threads) /\ LinkedOnce(Append(list, t))
        /\ ToSet(Append(list, t)) = ToSet(list) \cup {t}
    <3>1. rt_list_insert_before(list, t) = Append(list, t)
      BY DEF rt_list_insert_before
    <3>2. /\ rt_list_insert_before(list, t) \in Seq(Threads)
          /\ ToSet(rt_list_insert_before(list, t)) = ToSet(list) \cup {t}
      BY <1>3, AppendMembers
    <3>3. LinkedOnce(rt_list_insert_before(list, t))
      BY <1>3, <2>2, AppendLinkedOnce
    <3> QED BY <3>1, <3>2, <3>3
  <2> QED BY <2>2, <2>3, <2>4
<1>4. /\ stat'[t] = "SUSPEND" /\ pc'[t] = label /\ error'[t] = "EOK"
  BY <1>1
<1>5. /\ suspended_pop_list' \in Seq(Threads) /\ suspended_push_list' \in Seq(Threads)
      /\ Queued(suspended_pop_list, "pop")' /\ Queued(suspended_push_list, "push")'
  <2>1. /\ suspended_pop_list \in Seq(Threads) /\ Queued(suspended_pop_list, "pop")
        /\ suspended_push_list \in Seq(Threads) /\ Queued(suspended_push_list, "push")
    BY DEF DqThreads
  <2>2. CASE /\ label = "pop"
             /\ suspended_pop_list' = Append(suspended_pop_list, t)
             /\ suspended_push_list' = suspended_push_list
    <3>1. /\ suspended_pop_list' \in Seq(Threads) /\ LinkedOnce(suspended_pop_list')
          /\ ToSet(suspended_pop_list') = ToSet(suspended_pop_list) \cup {t}
          /\ \A u \in ToSet(suspended_pop_list) : stat'[u] = "SUSPEND" /\ pc'[u] = "pop" /\ error'[u] = "EOK"
      BY <1>3, <2>1, <2>2
    <3>2. Queued(suspended_pop_list, "pop")'
      BY <1>4, <2>2, <3>1 DEF Queued
    <3>3. /\ LinkedOnce(suspended_push_list)
          /\ \A u \in ToSet(suspended_push_list) : stat'[u] = "SUSPEND" /\ pc'[u] = "push" /\ error'[u] = "EOK"
      BY <1>3, <2>1
    <3>4. Queued(suspended_push_list, "push")'
      BY <2>2, <3>3 DEF Queued
    <3> QED BY <2>1, <2>2, <3>1, <3>2, <3>4
  <2>3. CASE /\ label = "push"
             /\ suspended_push_list' = Append(suspended_push_list, t)
             /\ suspended_pop_list' = suspended_pop_list
    <3>1. /\ suspended_push_list' \in Seq(Threads) /\ LinkedOnce(suspended_push_list')
          /\ ToSet(suspended_push_list') = ToSet(suspended_push_list) \cup {t}
          /\ \A u \in ToSet(suspended_push_list) : stat'[u] = "SUSPEND" /\ pc'[u] = "push" /\ error'[u] = "EOK"
      BY <1>3, <2>1, <2>3
    <3>2. Queued(suspended_push_list, "push")'
      BY <1>4, <2>3, <3>1 DEF Queued
    <3>3. /\ LinkedOnce(suspended_pop_list)
          /\ \A u \in ToSet(suspended_pop_list) : stat'[u] = "SUSPEND" /\ pc'[u] = "pop" /\ error'[u] = "EOK"
      BY <1>3, <2>1
    <3>4. Queued(suspended_pop_list, "pop")'
      BY <2>3, <3>3 DEF Queued
    <3> QED BY <2>1, <2>3, <3>1, <3>2, <3>4
  <2> QED BY <2>2, <2>3
<1>6. TimersOfSuspended'
  BY <1>1 DEF DqThreads, TimersOfSuspended
<1>7. \A u \in Threads : pc'[u] = "push" => u \in Pushers /\ item'[u] \in Items
  BY <1>1 DEF DqThreads
<1> QED BY <1>2, <1>5, <1>6, <1>7 DEF DqThreads

\* The ways a thread goes on.
LEMMA GoesOnItsWay ==
    ASSUME DqThreads
    PROVE  /\ pc' = pc /\ item' = item => Goes({})
           /\ \A t \in Threads : stat[t] = "READY" /\ Return(t) => Goes({t})
           /\ \A t \in Threads, label \in Labels \ {"push", "pop"} :
                 stat[t] = "READY" /\ Goto(t, label) /\ item' = item => Goes({t})
<1>1. /\ pc \in [Threads -> Labels] /\ item \in [Threads -> Items \cup {NoItem}]
      /\ "run" \in Labels \ {"push", "pop"}
  BY DEF DqThreads, Labels
<1>2. pc' = pc /\ item' = item => Goes({})
  BY <1>1 DEF Goes
<1>3. ASSUME NEW t \in Threads, NEW label \in Labels \ {"push", "pop"}, stat[t] = "READY",
             Goto(t, label), item' \in [Threads -> Items \cup {NoItem}],
             \A u \in Threads \ {t} : item'[u] = item[u]
      PROVE  Goes({t})
  <2>1. pc' = [pc EXCEPT ![t] = label]
    BY <1>3 DEF Goto
  <2>2. pc' \in [Threads -> Labels] /\ pc'[t] = label /\ \A u \in Threads \ {t} : pc'[u] = pc[u]
    BY <1>1, <2>1
  <2> QED BY <1>3, <2>2 DEF Goes
<1>4. ASSUME NEW t \in Threads, stat[t] = "READY", Return(t) PROVE Goes({t})
  <2>1. Goto(t, "run") /\ item' = [item EXCEPT ![t] = NoItem]
    BY <1>4 DEF Return
  <2>2. item' \in [Threads -> Items \cup {NoItem}] /\ \A u \in Threads \ {t} : item'[u] = item[u]
    BY <1>1, <2>1
  <2> QED BY <1>1, <1>3, <1>4, <2>1, <2>2
<1>5. ASSUME NEW t \in Threads, NEW label \in Labels \ {"push", "pop"}, stat[t] = "READY",
             Goto(t, label), item' = item
      PROVE  Goes({t})
  <2>1. item' \in [Threads -> Items \cup {NoItem}] /\ \A u \in Threads \ {t} : item'[u] = item[u]
    BY <1>1, <1>5
  <2> QED BY <1>3, <1>5, <2>1
<1> QED BY <1>2, <1>4, <1>5

\* The pushers who may be on the list, and what they wait for.
DqPushers == suspended_push_list # <<>> => waiting_lwm /\ put_index - get_index > Lwm

\* A push puts one item in and wakes one popper.
LEMMA DqStore ==
    ASSUME NeverWraps, DqInv, NEW m \in Items, Store(m), NEW w \in SUBSET Threads, Goes(w),
           \A t \in w : pc[t] # "pop"
    PROVE  DqInv' /\ (OnePusher /\ DqPushers => DqPushers')
<1>1. /\ put_index - get_index # QueueSize /\ put_index < MaxIndex
      /\ queue' = [queue EXCEPT ![Slot(put_index)] = m]
      /\ put_index' = Advance(put_index) /\ get_index' = get_index
      /\ waiting_lwm' = waiting_lwm /\ suspended_push_list' = suspended_push_list
      /\ WakeFirst(suspended_pop_list, suspended_pop_list')
  BY DEF Store, Full, WakePopper, WakeFirst, rt_list_isempty, rt_list_isempty,
         Resume, Resume
<1>2. DqThreads /\ DqIndices /\ DqPoppers
  BY DEF DqInv
<1>3. put_index' = put_index + 1
  <2>1. put_index + 1 \in Nat /\ put_index + 1 < IndexMod /\ IndexMod \in Nat \ {0}
    BY <1>1, <1>2 DEF NeverWraps, DqIndices
  <2>2. \A i \in Nat, j \in Nat \ {0} : i < j => i % j = i
    OBVIOUS
  <2> QED BY <1>1, <2>1, <2>2 DEF Advance
<1>4. DqIndices'
  <2>1. queue' \in [0..(QueueSize - 1) -> Items \cup {NoItem}]
    BY <1>1, <1>2 DEF DqIndices
  <2>2. QueueSize \in Nat \ {0}
    BY MailboxAssumption, DataQueueAssumption
  <2>3. /\ get_index \in Nat /\ put_index \in Nat /\ get_index <= put_index
        /\ put_index - get_index <= QueueSize /\ MaxIndex \in Nat
    BY <1>2 DEF DqIndices, NeverWraps
  <2>4. /\ put_index + 1 \in Nat /\ get_index <= put_index + 1 /\ put_index + 1 <= MaxIndex
        /\ (put_index + 1) - get_index <= QueueSize
    BY <1>1, <2>2, <2>3
  <2> QED BY <1>1, <1>3, <2>1, <2>3, <2>4 DEF DqIndices
<1>5. /\ suspended_pop_list \in Seq(Threads) /\ LinkedOnce(suspended_pop_list)
      /\ \A t \in ToSet(suspended_pop_list) : stat[t] = "SUSPEND" /\ pc[t] = "pop" /\ error[t] = "EOK"
      /\ suspended_push_list \in Seq(Threads) /\ Queued(suspended_push_list, "push")
      /\ stat \in [Threads -> {"READY", "SUSPEND"}] /\ error \in [Threads -> Errors]
  BY <1>2 DEF DqThreads, Queued
<1> DEFINE h == Chosen(suspended_pop_list)
<1>6. /\ suspended_pop_list' \in Seq(Threads) /\ LinkedOnce(suspended_pop_list')
      /\ ToSet(suspended_pop_list') = ToSet(suspended_pop_list) \ h
      /\ h \subseteq ToSet(suspended_pop_list)
      /\ stat' = [t \in Threads |-> IF t \in h THEN "READY" ELSE stat[t]]
      /\ error' = error
      /\ thread_timer' = thread_timer \ h
  BY <1>1, <1>5, WakeFirstWakes
<1>7. h \in SUBSET Threads
  <2>1. ToSet(suspended_pop_list) \subseteq Threads
    BY <1>5 DEF ToSet
  <2> QED BY <1>6, <2>1
<1>8. ToSet(suspended_push_list') = ToSet(suspended_push_list) \ h
  <2>1. \A t \in ToSet(suspended_push_list) : pc[t] = "push"
    BY <1>5 DEF Queued
  <2>2. \A t \in h : pc[t] = "pop"
    BY <1>5, <1>6
  <2>3. ToSet(suspended_push_list) \cap h = {}
    BY <2>1, <2>2
  <2> QED BY <1>1, <2>3
<1>9. DqThreads'
  <2>1. LinkedOnce(suspended_push_list') /\ suspended_push_list' \in Seq(Threads)
    BY <1>1, <1>5 DEF Queued
  <2>2. error' \in [Threads -> Errors] /\ \A t \in Threads \ h : error'[t] = error[t]
    BY <1>5, <1>6
  <2> HIDE DEF h
  <2> QED BY <1>2, <1>6, <1>7, <1>8, <2>1, <2>2, DqLeave
<1>10. DqPoppers'
  <2> SUFFICES ASSUME suspended_pop_list' # <<>>
               PROVE  put_index' - get_index' <= Cardinality(Woken("pop")')
    BY DEF DqPoppers
  <2>1. suspended_pop_list # <<>>
    BY <1>1 DEF WakeFirst, rt_list_isempty
  <2>2. PICK t : h = {t}
    BY <2>1 DEF Chosen
  <2>3. t \in Threads /\ stat[t] = "SUSPEND" /\ pc[t] = "pop" /\ error[t] = "EOK"
    BY <1>5, <1>6, <1>7, <2>2
  <2>4. Woken("pop")' = Woken("pop") \cup {t} /\ t \notin Woken("pop")
    BY <1>6, <2>2, <2>3 DEF Woken, Goes
  <2>5. Woken("pop") \in SUBSET Threads
    BY DEF Woken
  <2>6. /\ Cardinality(Woken("pop")) \in Nat
        /\ Cardinality(Woken("pop")') = Cardinality(Woken("pop")) + 1
    BY <2>3, <2>4, <2>5, ThreadsCount
  <2>7. put_index - get_index <= Cardinality(Woken("pop"))
    BY <1>2, <2>1 DEF DqPoppers
  <2>8. put_index \in Nat /\ get_index \in Nat
    BY <1>2 DEF DqIndices
  <2> QED BY <1>1, <1>3, <2>6, <2>7, <2>8
<1>11. OnePusher /\ DqPushers => DqPushers'
  <2>1. put_index \in Nat /\ get_index \in Nat
    BY <1>2 DEF DqIndices
  <2> QED BY <1>1, <1>3, <2>1 DEF DqPushers, OnePusher
<1> QED BY <1>4, <1>9, <1>10, <1>11 DEF DqInv

\* One pusher is at most once on its list.
LEMMA OneOnTheList == OnePusher /\ DqThreads /\ suspended_push_list # <<>> => Tail(suspended_push_list) = <<>>
<1> SUFFICES ASSUME OnePusher, DqThreads, suspended_push_list # <<>>
             PROVE  Tail(suspended_push_list) = <<>>
  OBVIOUS
<1> DEFINE l == suspended_push_list
<1>1. l \in Seq(Threads) /\ LinkedOnce(l) /\ \A t \in ToSet(l) : pc[t] = "push"
  BY DEF DqThreads, Queued
<1>2. \A t \in ToSet(l) : t \in Pushers
  <2>1. ToSet(l) \subseteq Threads
    BY <1>1 DEF ToSet
  <2> QED BY <1>1, <2>1 DEF DqThreads
<1>3. \A i, j \in 1..Len(l) : i = j
  <2> SUFFICES ASSUME NEW i \in 1..Len(l), NEW j \in 1..Len(l) PROVE i = j
    OBVIOUS
  <2>1. l[i] \in ToSet(l) /\ l[j] \in ToSet(l)
    BY <1>1 DEF ToSet
  <2>2. l[i] = l[j]
    BY <1>2, <2>1 DEF OnePusher
  <2> QED BY <1>1, <2>2 DEF LinkedOnce
<1> HIDE DEF l
<1>4. Len(l) \in Nat
  BY <1>1
<1>5. ~(Len(l) >= 2)
  <2> SUFFICES ASSUME Len(l) >= 2 PROVE FALSE
    BY <1>4
  <2>1. 1 \in 1..Len(l) /\ 2 \in 1..Len(l)
    BY <1>4
  <2>2. 1 = 2
    BY <1>3, <2>1
  <2> QED BY <2>2
<1>6. l # <<>>
  BY DEF l
<1>7. Len(l) = 1
  <2>1. Len(l) # 0
    BY <1>1, <1>6, EmptySeq
  <2> QED BY <1>4, <1>5, <2>1
<1>8. Tail(l) \in Seq(Threads) /\ Len(Tail(l)) = 0
  BY <1>1, <1>7
<1>9. Tail(l) = <<>>
  BY <1>8, EmptySeq
<1> QED BY <1>9 DEF l

\* A pop takes one item out and, at the mark, wakes one pusher.
LEMMA DqTake ==
    ASSUME NeverWraps, DqInv, Take, NEW c, NEW w \in SUBSET {c}, w \subseteq Threads, Goes(w)
    PROVE  DqInv' /\ (OnePusher /\ DqPushers => DqPushers')
<1> DEFINE atMark == AtMark(put_index - get_index')
           h == IF atMark THEN Chosen(suspended_push_list) ELSE {}
<1>1. /\ get_index # put_index /\ get_index' = Advance(get_index)
      /\ queue' = queue /\ put_index' = put_index
      /\ suspended_pop_list' = suspended_pop_list
      /\ IF atMark
         THEN waiting_lwm' = FALSE /\ WakeFirst(suspended_push_list, suspended_push_list')
         ELSE UNCHANGED <<stat, error, thread_timer, suspended_push_list, waiting_lwm>>
  BY DEF Take, Empty, LowWaterMark, WakeFirst, rt_list_isempty, rt_list_isempty,
         Resume, Resume
<1> HIDE DEF atMark
<1>2. DqThreads /\ DqIndices /\ DqPoppers
  BY DEF DqInv
<1>3. /\ get_index \in Nat /\ put_index \in Nat /\ get_index < put_index /\ put_index <= MaxIndex
      /\ put_index - get_index <= QueueSize /\ QueueSize \in Nat
      /\ queue \in [0..(QueueSize - 1) -> Items \cup {NoItem}]
  BY <1>1, <1>2, MailboxAssumption, DataQueueAssumption DEF DqIndices
<1>4. get_index' = get_index + 1
  <2>1. get_index + 1 \in Nat /\ get_index + 1 < IndexMod /\ IndexMod \in Nat \ {0}
    BY <1>3 DEF NeverWraps
  <2>2. \A i \in Nat, j \in Nat \ {0} : i < j => i % j = i
    OBVIOUS
  <2> QED BY <1>1, <2>1, <2>2 DEF Advance
<1>5. DqIndices'
  <2>1. /\ get_index + 1 \in Nat /\ get_index + 1 <= put_index
        /\ put_index - (get_index + 1) <= QueueSize
    BY <1>3
  <2> QED BY <1>1, <1>3, <1>4, <2>1 DEF DqIndices
<1>6. /\ suspended_push_list \in Seq(Threads) /\ LinkedOnce(suspended_push_list)
      /\ \A t \in ToSet(suspended_push_list) : stat[t] = "SUSPEND" /\ pc[t] = "push" /\ error[t] = "EOK"
      /\ suspended_pop_list \in Seq(Threads) /\ LinkedOnce(suspended_pop_list)
      /\ \A t \in ToSet(suspended_pop_list) : pc[t] = "pop"
      /\ stat \in [Threads -> {"READY", "SUSPEND"}] /\ error \in [Threads -> Errors]
  BY <1>2 DEF DqThreads, Queued
<1>7. /\ suspended_push_list' \in Seq(Threads) /\ LinkedOnce(suspended_push_list')
      /\ ToSet(suspended_push_list') = ToSet(suspended_push_list) \ h
      /\ h \subseteq ToSet(suspended_push_list)
      /\ stat' = [t \in Threads |-> IF t \in h THEN "READY" ELSE stat[t]]
      /\ error' = error
      /\ thread_timer' = thread_timer \ h
  <2>1. CASE atMark
    <3>1. h = Chosen(suspended_push_list)
      BY <2>1
    <3>2. WakeFirst(suspended_push_list, suspended_push_list')
      BY <1>1, <2>1
    <3> QED BY <1>6, <3>1, <3>2, WakeFirstWakes
  <2>2. CASE ~atMark
    <3>1. h = {}
      BY <2>2
    <3>2. UNCHANGED <<stat, error, thread_timer, suspended_push_list>>
      BY <1>1, <2>2
    <3> QED BY <1>6, <3>1, <3>2
  <2> QED BY <2>1, <2>2
<1> HIDE DEF h
<1>8. h \in SUBSET Threads /\ \A t \in h : pc[t] = "push"
  <2>1. ToSet(suspended_push_list) \subseteq Threads
    BY <1>6 DEF ToSet
  <2> QED BY <1>6, <1>7, <2>1
<1>9. DqThreads'
  <2>1. ToSet(suspended_pop_list) \cap h = {}
    BY <1>6, <1>8
  <2>2. /\ suspended_pop_list' \in Seq(Threads) /\ LinkedOnce(suspended_pop_list')
        /\ ToSet(suspended_pop_list') = ToSet(suspended_pop_list) \ h
    BY <1>1, <1>6, <2>1
  <2>3. error' \in [Threads -> Errors] /\ \A t \in Threads \ h : error'[t] = error[t]
    BY <1>6, <1>7
  <2>4. w \in SUBSET Threads
    OBVIOUS
  <2> QED BY <1>2, <1>7, <1>8, <2>2, <2>3, <2>4, DqLeave
<1>10. DqPoppers'
  <2> SUFFICES ASSUME suspended_pop_list # <<>>
               PROVE  put_index' - get_index' <= Cardinality(Woken("pop")')
    BY <1>1 DEF DqPoppers
  <2>1. Woken("pop")' = Woken("pop") \ w
    BY <1>7, <1>8 DEF Woken, Goes
  <2>2. w = {} \/ w = {c}
    OBVIOUS
  <2>3. Woken("pop") \in SUBSET Threads
    BY DEF Woken
  <2>4. Cardinality(Woken("pop")) \in Nat
    BY <2>3, MailboxAssumption, DataQueueAssumption, FS_Subset, FS_CardinalityType
  <2>5. w = {} => Woken("pop")' = Woken("pop")
    BY <2>1
  <2>6. /\ Cardinality(Woken("pop")') \in Nat
        /\ Cardinality(Woken("pop")) - 1 <= Cardinality(Woken("pop")')
    <3>1. CASE w = {}
      BY <2>4, <2>5, <3>1
    <3>2. CASE w = {c}
      <4>1. c \in Threads
        BY <3>2
      <4>2. /\ Cardinality(Woken("pop") \ {c}) \in Nat
            /\ Cardinality(Woken("pop")) - 1 <= Cardinality(Woken("pop") \ {c})
        BY <2>3, <4>1, ThreadsCount
      <4> QED BY <2>1, <3>2, <4>2
    <3> QED BY <2>2, <3>1, <3>2
  <2>7. put_index - get_index <= Cardinality(Woken("pop"))
    BY <1>2 DEF DqPoppers
  <2> QED BY <1>1, <1>3, <1>4, <2>4, <2>6, <2>7
<1>11. ASSUME OnePusher, DqPushers, suspended_push_list' # <<>>
       PROVE  waiting_lwm' /\ put_index' - get_index' > Lwm
  <2>1. suspended_push_list # <<>>
    BY <1>11, <1>1 DEF WakeFirst, rt_list_isempty
  <2>2. waiting_lwm /\ put_index - get_index > Lwm
    BY <1>11, <2>1 DEF DqPushers
  <2>3. ~atMark
    <3>1. SUFFICES ASSUME atMark PROVE FALSE
      OBVIOUS
    <3>2. suspended_push_list' = Tail(suspended_push_list)
      BY <1>1, <2>1, <3>1 DEF WakeFirst, rt_list_isempty
    <3> QED BY <1>2, <1>11, <2>1, <3>2, OneOnTheList
  <2>4. ~(put_index - get_index' <= Lwm)
    BY <2>2, <2>3 DEF atMark, AtMark
  <2>5. waiting_lwm' = waiting_lwm
    BY <1>1, <2>3
  <2>6. put_index' - get_index' > Lwm
    BY <1>1, <1>3, <1>4, <1>11, <2>4 DEF OnePusher
  <2> QED BY <2>2, <2>5, <2>6
<1> QED BY <1>5, <1>9, <1>10, <1>11 DEF DqInv, DqPushers

\* Steps that leave the ring alone: the suspended threads h are taken off the
\* lists with an error, and threads w that no item was promised to go on.
LEMMA DqStay ==
    ASSUME DqInv, NEW h \in SUBSET Threads, NEW w \in SUBSET Threads, Goes(w),
           \A t \in h : stat[t] = "SUSPEND",
           \A t \in w : pc[t] = "pop" => error[t] # "EOK",
           stat' = [t \in Threads |-> IF t \in h THEN "READY" ELSE stat[t]],
           error' \in [Threads -> Errors], \A t \in Threads \ h : error'[t] = error[t],
           \A t \in h : error'[t] # "EOK",
           thread_timer' = thread_timer \ h,
           suspended_pop_list' \in Seq(Threads), LinkedOnce(suspended_pop_list'),
           ToSet(suspended_pop_list') = ToSet(suspended_pop_list) \ h,
           suspended_push_list' \in Seq(Threads), LinkedOnce(suspended_push_list'),
           ToSet(suspended_push_list') = ToSet(suspended_push_list) \ h,
           UNCHANGED <<queue, put_index, get_index, waiting_lwm>>
    PROVE  DqInv' /\ (DqPushers => DqPushers')
<1>1. DqThreads /\ DqIndices /\ DqPoppers
  BY DEF DqInv
<1>2. DqThreads'
  BY <1>1, DqLeave
<1>3. DqIndices'
  BY <1>1 DEF DqIndices
<1>4. Woken("pop")' = Woken("pop")
  <2>1. \A t \in Threads : t \in Woken("pop") => t \in Woken("pop")'
    BY DEF Woken, Goes
  <2>2. \A t \in Threads : t \in Woken("pop")' => t \in Woken("pop")
    BY DEF Woken, Goes
  <2> QED BY <2>1, <2>2 DEF Woken
<1>5. ASSUME NEW list, NEW rest \in Seq(Threads), rest # <<>>, ToSet(rest) = ToSet(list) \ h
      PROVE  list # <<>>
  <2>1. 1 \in DOMAIN rest
    BY <1>5, EmptySeq
  <2>2. rest[1] \in ToSet(list)
    BY <1>5, <2>1 DEF ToSet
  <2> QED BY <2>2 DEF ToSet
<1>6. suspended_pop_list' # <<>> => suspended_pop_list # <<>>
  BY <1>5
<1>7. suspended_push_list' # <<>> => suspended_push_list # <<>>
  BY <1>5
<1>8. DqPoppers'
  BY <1>1, <1>4, <1>6 DEF DqPoppers
<1>9. DqPushers => DqPushers'
  BY <1>7 DEF DqPushers
<1> QED BY <1>2, <1>3, <1>8, <1>9 DEF DqInv

\* A thread waits for an item or for room.
LEMMA DqWait ==
    ASSUME DqInv, NEW t \in Threads, NEW m, NEW hasTimeout, stat[t] = "READY",
           item' \in [Threads -> Items \cup {NoItem}],
           \A u \in Threads \ {t} : item'[u] = item[u],
           \/ /\ WaitForItem(t, hasTimeout) /\ pc' = [pc EXCEPT ![t] = "pop"]
           \/ /\ WaitForRoom(t, m, hasTimeout) /\ pc' = [pc EXCEPT ![t] = "push"]
              /\ pc[t] # "pop" /\ t \in Pushers /\ item'[t] \in Items
    PROVE  DqInv' /\ (OnePusher /\ DqPushers => DqPushers')
<1>1. DqThreads /\ DqIndices /\ DqPoppers
  BY DEF DqInv
<1>2. DqThreads'
  <2>1. /\ stat' = [stat EXCEPT ![t] = "SUSPEND"] /\ error' = [error EXCEPT ![t] = "EOK"]
        /\ thread_timer' \subseteq thread_timer \cup {t}
    BY DEF WaitForItem, WaitForRoom, Suspend
  <2>2. CASE WaitForItem(t, hasTimeout) /\ pc' = [pc EXCEPT ![t] = "pop"]
    <3>1. /\ suspended_pop_list' = Append(suspended_pop_list, t)
          /\ suspended_push_list' = suspended_push_list
      BY <2>2 DEF WaitForItem, rt_list_insert_before
    <3> QED BY <1>1, <2>1, <2>2, <3>1, DqJoin
  <2>3. CASE /\ WaitForRoom(t, m, hasTimeout) /\ pc' = [pc EXCEPT ![t] = "push"]
             /\ pc[t] # "pop" /\ t \in Pushers /\ item'[t] \in Items
    <3>1. /\ suspended_push_list' = Append(suspended_push_list, t)
          /\ suspended_pop_list' = suspended_pop_list
      BY <2>3 DEF WaitForRoom, rt_list_insert_before
    <3> QED BY <1>1, <2>1, <2>3, <3>1, DqJoin
  <2> QED BY <2>2, <2>3
<1>3. queue' = queue /\ put_index' = put_index /\ get_index' = get_index
  BY DEF WaitForItem, WaitForRoom, queueRing
<1>4. DqIndices'
  BY <1>1, <1>3 DEF DqIndices
<1>5. /\ get_index \in Nat /\ put_index \in Nat
      /\ stat \in [Threads -> {"READY", "SUSPEND"}] /\ error \in [Threads -> Errors]
      /\ pc \in [Threads -> Labels]
  BY <1>1 DEF DqIndices, DqThreads
<1>6. CASE WaitForItem(t, hasTimeout)
  <2>1. /\ get_index = put_index /\ waiting_lwm' = waiting_lwm
        /\ suspended_push_list' = suspended_push_list
    BY <1>6 DEF WaitForItem, Empty
  <2>2. DqPoppers'
    <3>1. Woken("pop")' \in SUBSET Threads
      BY DEF Woken
    <3>2. Cardinality(Woken("pop")') \in Nat
      BY <3>1, ThreadsCount
    <3>3. put_index' - get_index' = 0
      BY <1>3, <1>5, <2>1
    <3> QED BY <3>2, <3>3 DEF DqPoppers
  <2>3. DqPushers => DqPushers'
    BY <1>3, <2>1 DEF DqPushers
  <2> QED BY <1>2, <1>4, <2>2, <2>3 DEF DqInv
<1>7. CASE WaitForRoom(t, m, hasTimeout) /\ pc' = [pc EXCEPT ![t] = "push"] /\ pc[t] # "pop"
  <2>1. /\ put_index - get_index = QueueSize /\ waiting_lwm' = TRUE
        /\ suspended_pop_list' = suspended_pop_list
        /\ stat' = [stat EXCEPT ![t] = "SUSPEND"] /\ error' = [error EXCEPT ![t] = "EOK"]
    BY <1>7 DEF WaitForRoom, Full, Suspend
  <2>2. Woken("pop")' = Woken("pop")
    <3>1. \A u \in Threads : u \in Woken("pop")' <=> u \in Woken("pop")
      <4> SUFFICES ASSUME NEW u \in Threads PROVE u \in Woken("pop")' <=> u \in Woken("pop")
        OBVIOUS
      <4>1. CASE u = t
        BY <1>5, <1>7, <2>1, <4>1 DEF Woken
      <4>2. CASE u # t
        BY <1>5, <1>7, <2>1, <4>2 DEF Woken
      <4> QED BY <4>1, <4>2
    <3> QED BY <3>1 DEF Woken
  <2>3. DqPoppers'
    BY <1>1, <1>3, <2>1, <2>2 DEF DqPoppers
  <2>4. OnePusher => DqPushers'
    BY <1>3, <2>1, MailboxAssumption, DataQueueAssumption DEF OnePusher, DqPushers
  <2> QED BY <1>2, <1>4, <2>3, <2>4 DEF DqInv
<1> QED BY <1>6, <1>7

LEMMA DqInitially == NeverWraps /\ DataQueueInit => DqInv /\ DqPushers
<1> SUFFICES ASSUME NeverWraps, DataQueueInit PROVE DqInv /\ DqPushers
  OBVIOUS
<1>1. /\ stat = [t \in Threads |-> "READY"] /\ error = [t \in Threads |-> "EOK"]
      /\ thread_timer = {} /\ pc = [t \in Threads |-> "run"]
      /\ queue = [i \in 0..(QueueSize - 1) |-> NoItem] /\ put_index = 0 /\ get_index = 0
      /\ suspended_push_list = <<>> /\ suspended_pop_list = <<>>
      /\ item = [t \in Threads |-> NoItem]
  BY DEF DataQueueInit, IpcInit
<1>2. suspended_push_list \in Seq(Threads) /\ suspended_pop_list \in Seq(Threads)
  BY <1>1, EmptySeq
<1>3. Queued(suspended_pop_list, "pop") /\ Queued(suspended_push_list, "push")
  BY <1>1 DEF Queued, ToSet, LinkedOnce
<1>4. TimersOfSuspended
  BY <1>1 DEF TimersOfSuspended
<1>5. DqThreads
  BY <1>1, <1>2, <1>3, <1>4 DEF DqThreads, Labels, Errors
<1>6. DqIndices
  <2>1. queue \in [0..(QueueSize - 1) -> Items \cup {NoItem}]
    BY <1>1
  <2> QED BY <1>1, <2>1, MailboxAssumption, DataQueueAssumption DEF DqIndices, NeverWraps
<1> QED BY <1>1, <1>5, <1>6 DEF DqInv, DqPoppers, DqPushers

\* Every step keeps the invariant; with one pusher, that of the pushers, too.
LEMMA DqStep ==
    ASSUME NeverWraps, DqInv, [DataQueueNext]_queueVars
    PROVE  DqInv' /\ (OnePusher /\ DqPushers => DqPushers')
<1> DEFINE Kept == DqInv' /\ (OnePusher /\ DqPushers => DqPushers')
<1>1. /\ DqThreads /\ pc \in [Threads -> Labels] /\ item \in [Threads -> Items \cup {NoItem}]
      /\ stat \in [Threads -> {"READY", "SUSPEND"}] /\ error \in [Threads -> Errors]
      /\ suspended_pop_list \in Seq(Threads) /\ LinkedOnce(suspended_pop_list)
      /\ suspended_push_list \in Seq(Threads) /\ LinkedOnce(suspended_push_list)
      /\ \A t \in Threads : pc[t] = "push" => t \in Pushers /\ item[t] \in Items
      /\ TimersOfSuspended
  BY DEF DqInv, DqThreads, Queued
<1>2. Goes({}) \/ ~(pc' = pc /\ item' = item)
  BY <1>1, GoesOnItsWay
<1>3. ASSUME NEW w \in SUBSET Threads, Goes(w), \A t \in w : pc[t] = "pop" => error[t] # "EOK",
             UNCHANGED <<stat, error, thread_timer, suspended_pop_list, suspended_push_list,
                         queue, put_index, get_index, waiting_lwm>>
      PROVE  Kept
  <2>1. /\ {} \in SUBSET Threads
        /\ stat' = [t \in Threads |-> IF t \in {} THEN "READY" ELSE stat[t]]
        /\ error' \in [Threads -> Errors] /\ \A t \in Threads \ {} : error'[t] = error[t]
        /\ thread_timer' = thread_timer \ {}
        /\ suspended_pop_list' \in Seq(Threads) /\ LinkedOnce(suspended_pop_list')
        /\ ToSet(suspended_pop_list') = ToSet(suspended_pop_list) \ {}
        /\ suspended_push_list' \in Seq(Threads) /\ LinkedOnce(suspended_push_list')
        /\ ToSet(suspended_push_list') = ToSet(suspended_push_list) \ {}
        /\ \A t \in {} : stat[t] = "SUSPEND" /\ error'[t] # "EOK"
    BY <1>1, <1>3
  <2> QED BY <1>3, <2>1, DqStay
<1>4. CASE PopFromInterrupt
  <2>1. Take /\ pc' = pc /\ item' = item
    BY <1>4 DEF PopFromInterrupt
  <2> QED BY <1>2, <2>1, DqTake
<1>5. ASSUME NEW m \in Items, PushFromInterrupt(m) PROVE Kept
  <2>1. pc' = pc /\ item' = item
    BY <1>5 DEF PushFromInterrupt
  <2>2. CASE Store(m)
    BY <1>2, <2>1, <2>2, DqStore
  <2>3. CASE ~Store(m)
    <3>1. /\ UNCHANGED <<stat, error, thread_timer, queue, put_index, get_index>>
          /\ UNCHANGED <<suspended_pop_list, suspended_push_list>> /\ waiting_lwm' = TRUE
      BY <1>5, <2>3 DEF PushFromInterrupt, queueRing, lists
    <3>2. DqThreads'
      BY <1>1, <2>1, <3>1 DEF DqThreads, Queued, TimersOfSuspended
    <3>3. DqIndices'
      BY <3>1 DEF DqInv, DqIndices
    <3>4. Woken("pop")' = Woken("pop")
      BY <2>1, <3>1 DEF Woken
    <3>5. DqPoppers'
      BY <3>1, <3>4 DEF DqInv, DqPoppers
    <3>6. DqPushers => DqPushers'
      BY <3>1 DEF DqPushers
    <3> QED BY <3>2, <3>3, <3>5, <3>6 DEF DqInv
  <2> QED BY <2>2, <2>3
<1>6. ASSUME NEW t \in Threads, NEW m \in Items, Push(t, m) PROVE Kept
  <2>1. Store(m) /\ pc' = pc /\ item' = item
    BY <1>6 DEF Push
  <2> QED BY <1>2, <2>1, DqStore
<1>7. ASSUME NEW t \in Threads, NEW m \in Items, NEW hasTimeout, PushSuspend(t, m, hasTimeout)
      PROVE  Kept
  <2>1. /\ stat[t] = "READY" /\ pc[t] # "pop" /\ t \in Pushers
        /\ WaitForRoom(t, m, hasTimeout) /\ pc' = [pc EXCEPT ![t] = "push"]
        /\ item' = [item EXCEPT ![t] = m]
    BY <1>7 DEF PushSuspend, At, Goto
  <2>2. /\ item' \in [Threads -> Items \cup {NoItem}] /\ item'[t] \in Items
        /\ \A u \in Threads \ {t} : item'[u] = item[u]
    BY <1>1, <2>1
  <2> QED BY <2>1, <2>2, DqWait
<1>8. ASSUME NEW t \in Threads, Pop(t) PROVE Kept
  <2>1. Take /\ pc' = pc /\ item' = item
    BY <1>8 DEF Pop
  <2> QED BY <1>2, <2>1, DqTake
<1>9. ASSUME NEW t \in Threads, NEW hasTimeout, PopSuspend(t, hasTimeout) PROVE Kept
  <2>1. /\ stat[t] = "READY" /\ WaitForItem(t, hasTimeout) /\ pc' = [pc EXCEPT ![t] = "pop"]
        /\ item' = item
    BY <1>9 DEF PopSuspend, At, Goto
  <2>2. /\ item' \in [Threads -> Items \cup {NoItem}]
        /\ \A u \in Threads \ {t} : item'[u] = item[u]
    BY <1>1, <2>1
  <2> QED BY <2>1, <2>2, DqWait
<1>10. ASSUME NEW t \in Threads, PushWoken(t) PROVE Kept
  <2>1. stat[t] = "READY" /\ pc[t] = "push" /\ t \in Pushers /\ item[t] \in Items
    BY <1>1, <1>10 DEF PushWoken, At
  <2>2. CASE Store(item[t]) /\ Return(t)
    <3>1. Goes({t}) /\ \A u \in {t} : pc[u] # "pop"
      BY <1>1, <2>1, <2>2, GoesOnItsWay
    <3>2. {t} \in SUBSET Threads
      OBVIOUS
    <3> QED BY <2>1, <2>2, <3>1, <3>2, DqStore
  <2>3. CASE WaitForRoom(t, item[t], t \in timed) /\ UNCHANGED <<pc, item>>
    <3>1. /\ pc' = [pc EXCEPT ![t] = "push"] /\ pc[t] # "pop"
          /\ item' \in [Threads -> Items \cup {NoItem}] /\ item'[t] \in Items
          /\ \A u \in Threads \ {t} : item'[u] = item[u]
      BY <1>1, <2>1, <2>3
    <3> QED BY <2>1, <2>3, <3>1, DqWait
  <2> QED BY <1>10, <2>2, <2>3 DEF PushWoken
<1>11. ASSUME NEW t \in Threads, PopWoken(t) PROVE Kept
  <2>1. stat[t] = "READY" /\ pc[t] = "pop"
    BY <1>11 DEF PopWoken, At
  <2>2. CASE Take /\ Return(t)
    <3>1. Goes({t})
      BY <1>1, <2>1, <2>2, GoesOnItsWay
    <3>2. {t} \in SUBSET {t} /\ {t} \subseteq Threads
      OBVIOUS
    <3> QED BY <2>2, <3>1, <3>2, DqTake
  <2>3. CASE WaitForItem(t, t \in timed) /\ UNCHANGED <<pc, item>>
    <3>1. /\ pc' = [pc EXCEPT ![t] = "pop"]
          /\ item' \in [Threads -> Items \cup {NoItem}]
          /\ \A u \in Threads \ {t} : item'[u] = item[u]
      BY <1>1, <2>1, <2>3
    <3> QED BY <2>1, <2>3, <3>1, DqWait
  <2> QED BY <1>11, <2>2, <2>3 DEF PopWoken
<1>12. ASSUME NEW t \in Threads, QueueError(t) PROVE Kept
  <2>1. /\ stat[t] = "READY" /\ error[t] # "EOK" /\ Return(t)
        /\ UNCHANGED <<stat, error, thread_timer, suspended_pop_list, suspended_push_list,
                       queue, put_index, get_index, waiting_lwm>>
    BY <1>12 DEF QueueError, At, queueRing, lists
  <2>2. Goes({t})
    BY <1>1, <2>1, GoesOnItsWay
  <2>3. {t} \in SUBSET Threads /\ \A u \in {t} : pc[u] = "pop" => error[u] # "EOK"
    BY <2>1
  <2> QED BY <1>3, <2>1, <2>2, <2>3
<1>13. ASSUME NEW t \in Threads, QueueTimeout(t) PROVE Kept
  <2>1. /\ t \in thread_timer
        /\ stat' = [stat EXCEPT ![t] = "READY"] /\ error' = [error EXCEPT ![t] = "ETIMEOUT"]
        /\ thread_timer' = thread_timer \ {t}
        /\ suspended_push_list' = rt_list_remove(suspended_push_list, t)
        /\ suspended_pop_list' = rt_list_remove(suspended_pop_list, t)
        /\ pc' = pc /\ item' = item
        /\ UNCHANGED <<queue, put_index, get_index, waiting_lwm>>
    BY <1>13, WokenPoppers DEF QueueTimeout, Timeout, queueRing
  <2>2. stat[t] = "SUSPEND"
    BY <1>1, <2>1 DEF TimersOfSuspended
  <2>3. /\ suspended_pop_list' \in Seq(Threads) /\ LinkedOnce(suspended_pop_list')
        /\ ToSet(suspended_pop_list') = ToSet(suspended_pop_list) \ {t}
    BY <1>1, <2>1, RemoveMembers
  <2>4. /\ suspended_push_list' \in Seq(Threads) /\ LinkedOnce(suspended_push_list')
        /\ ToSet(suspended_push_list') = ToSet(suspended_push_list) \ {t}
    BY <1>1, <2>1, RemoveMembers
  <2>5. /\ {t} \in SUBSET Threads /\ \A u \in {t} : stat[u] = "SUSPEND"
        /\ stat' = [u \in Threads |-> IF u \in {t} THEN "READY" ELSE stat[u]]
        /\ error' \in [Threads -> Errors] /\ \A u \in Threads \ {t} : error'[u] = error[u]
        /\ \A u \in {t} : error'[u] # "EOK"
    BY <1>1, <2>1, <2>2 DEF Errors
  <2>6. Goes({}) /\ {} \in SUBSET Threads /\ \A u \in {} : pc[u] = "pop" => error[u] # "EOK"
    BY <1>2, <2>1
  <2> QED BY <2>1, <2>3, <2>4, <2>5, <2>6, DqStay
<1>14. ASSUME NEW t \in Threads, NEW label \in Labels \ {"push", "pop"}, stat[t] = "READY", pc[t] # "pop",
              Goto(t, label), item' = item,
              UNCHANGED <<stat, error, thread_timer, suspended_pop_list, suspended_push_list,
                          queue, put_index, get_index, waiting_lwm>>
       PROVE  Kept
  <2>1. Goes({t})
    BY <1>1, <1>14, GoesOnItsWay
  <2>2. {t} \in SUBSET Threads /\ \A u \in {t} : pc[u] = "pop" => error[u] # "EOK"
    BY <1>14
  <2> QED BY <1>3, <1>14, <2>1, <2>2
<1>15. ASSUME NEW t \in Threads, QueueReset(t) PROVE Kept
  <2>1. /\ stat[t] = "READY" /\ pc[t] # "pop" /\ Goto(t, "test_pop") /\ item' = item
        /\ UNCHANGED <<stat, error, thread_timer, suspended_pop_list, suspended_push_list,
                       queue, put_index, get_index, waiting_lwm>>
    BY <1>15 DEF QueueReset, At, queueRing, lists
  <2>2. "test_pop" \in Labels \ {"push", "pop"}
    BY DEF Labels
  <2> QED BY <1>14, <2>1, <2>2
<1>16. ASSUME NEW t \in Threads, ResetTest(t) PROVE Kept
  <2>1. /\ stat[t] = "READY" /\ pc[t] # "pop" /\ item' = item
        /\ UNCHANGED <<stat, error, thread_timer, suspended_pop_list, suspended_push_list,
                       queue, put_index, get_index, waiting_lwm>>
    BY <1>16 DEF ResetTest, At, queueRing, lists
  <2>2. \E label \in Labels \ {"push", "pop"} : Goto(t, label)
    <3>1. {"test_push", "wake_pop", "run", "wake_push"} \subseteq Labels \ {"push", "pop"}
      BY DEF Labels
    <3> QED BY <1>16, <3>1 DEF ResetTest
  <2> QED BY <1>14, <2>1, <2>2
<1>17. ASSUME NEW t \in Threads, ResetWake(t) PROVE Kept
  <2>1. /\ stat[t] = "READY" /\ pc[t] # "pop" /\ item' = item
        /\ UNCHANGED <<queue, put_index, get_index, waiting_lwm>>
    BY <1>17 DEF ResetWake, At, queueRing
  <2>2. {"test_pop", "test_push"} \subseteq Labels \ {"push", "pop"}
    BY DEF Labels
  <2>3. PICK label \in Labels \ {"push", "pop"} :
           /\ Goto(t, label)
           /\ \/ /\ WakeWithError(suspended_pop_list)
                 /\ suspended_pop_list' = WithoutFirst(suspended_pop_list)
                 /\ suspended_push_list' = suspended_push_list
              \/ /\ WakeWithError(suspended_push_list)
                 /\ suspended_push_list' = WithoutFirst(suspended_push_list)
                 /\ suspended_pop_list' = suspended_pop_list
    BY <1>17, <2>2 DEF ResetWake
  <2>4. ASSUME NEW list \in Seq(Threads), LinkedOnce(list), WakeWithError(list),
               \A u \in ToSet(list) : stat[u] = "SUSPEND",
               NEW rest, rest = WithoutFirst(list)
        PROVE  /\ rest \in Seq(Threads) /\ LinkedOnce(rest)
               /\ ToSet(rest) = ToSet(list) \ Chosen(list)
               /\ Chosen(list) \in SUBSET Threads /\ Chosen(list) \subseteq ToSet(list)
               /\ stat' = [u \in Threads |-> IF u \in Chosen(list) THEN "READY" ELSE stat[u]]
               /\ error' \in [Threads -> Errors] /\ \A u \in Threads \ Chosen(list) : error'[u] = error[u]
               /\ \A u \in Chosen(list) : stat[u] = "SUSPEND" /\ error'[u] # "EOK"
               /\ thread_timer' = thread_timer \ Chosen(list)
    <3>1. CASE list = <<>>
      <4>1. Chosen(list) = {} /\ rest = list /\ UNCHANGED <<stat, error, thread_timer>>
        BY <2>4, <3>1 DEF Chosen, WakeWithError, WithoutFirst, rt_list_isempty
      <4> QED BY <1>1, <2>4, <4>1
    <3>2. CASE list # <<>>
      <4>1. /\ Chosen(list) = {Head(list)} /\ rest = Tail(list)
            /\ stat' = [stat EXCEPT ![Head(list)] = "READY"]
            /\ error' = [error EXCEPT ![Head(list)] = "ERROR"]
            /\ thread_timer' = thread_timer \ {Head(list)}
        BY <2>4, <3>2 DEF Chosen, WakeWithError, WithoutFirst, rt_list_isempty,
                          ResumeWithError
      <4>2. /\ Head(list) \in Threads /\ Head(list) \in ToSet(list) /\ Tail(list) \in Seq(Threads)
            /\ LinkedOnce(Tail(list)) /\ ToSet(Tail(list)) = ToSet(list) \ {Head(list)}
        BY <2>4, <3>2, TailMembers
      <4>3. /\ stat' = [u \in Threads |-> IF u \in {Head(list)} THEN "READY" ELSE stat[u]]
            /\ error' \in [Threads -> Errors] /\ \A u \in Threads \ {Head(list)} : error'[u] = error[u]
            /\ error'[Head(list)] = "ERROR"
        BY <1>1, <4>1, <4>2 DEF Errors
      <4> QED BY <2>4, <4>1, <4>2, <4>3
    <3> QED BY <3>1, <3>2
  <2>5. Goes({t}) /\ {t} \in SUBSET Threads /\ \A u \in {t} : pc[u] = "pop" => error[u] # "EOK"
    BY <1>1, <2>1, <2>3, GoesOnItsWay
  <2>6. /\ \A u \in ToSet(suspended_pop_list) : stat[u] = "SUSPEND" /\ pc[u] = "pop"
        /\ \A u \in ToSet(suspended_push_list) : stat[u] = "SUSPEND" /\ pc[u] = "push"
    BY <1>1 DEF DqThreads, Queued
  <2>7. CASE /\ WakeWithError(suspended_pop_list)
             /\ suspended_pop_list' = WithoutFirst(suspended_pop_list)
             /\ suspended_push_list' = suspended_push_list
    <3> DEFINE h == Chosen(suspended_pop_list)
    <3>1. /\ suspended_pop_list' \in Seq(Threads) /\ LinkedOnce(suspended_pop_list')
          /\ ToSet(suspended_pop_list') = ToSet(suspended_pop_list) \ h
          /\ h \in SUBSET Threads /\ h \subseteq ToSet(suspended_pop_list)
          /\ stat' = [u \in Threads |-> IF u \in h THEN "READY" ELSE stat[u]]
          /\ error' \in [Threads -> Errors] /\ \A u \in Threads \ h : error'[u] = error[u]
          /\ \A u \in h : stat[u] = "SUSPEND" /\ error'[u] # "EOK"
          /\ thread_timer' = thread_timer \ h
      BY <1>1, <2>4, <2>6, <2>7
    <3> HIDE DEF h
    <3>2. ToSet(suspended_push_list) \cap h = {}
      BY <2>6, <3>1
    <3>3. /\ suspended_push_list' \in Seq(Threads) /\ LinkedOnce(suspended_push_list')
          /\ ToSet(suspended_push_list') = ToSet(suspended_push_list) \ h
      BY <1>1, <2>7, <3>2
    <3> QED BY <2>1, <2>5, <3>1, <3>3, DqStay
  <2>8. CASE /\ WakeWithError(suspended_push_list)
             /\ suspended_push_list' = WithoutFirst(suspended_push_list)
             /\ suspended_pop_list' = suspended_pop_list
    <3> DEFINE h == Chosen(suspended_push_list)
    <3>1. /\ suspended_push_list' \in Seq(Threads) /\ LinkedOnce(suspended_push_list')
          /\ ToSet(suspended_push_list') = ToSet(suspended_push_list) \ h
          /\ h \in SUBSET Threads /\ h \subseteq ToSet(suspended_push_list)
          /\ stat' = [u \in Threads |-> IF u \in h THEN "READY" ELSE stat[u]]
          /\ error' \in [Threads -> Errors] /\ \A u \in Threads \ h : error'[u] = error[u]
          /\ \A u \in h : stat[u] = "SUSPEND" /\ error'[u] # "EOK"
          /\ thread_timer' = thread_timer \ h
      BY <1>1, <2>4, <2>6, <2>8
    <3> HIDE DEF h
    <3>2. ToSet(suspended_pop_list) \cap h = {}
      BY <2>6, <3>1
    <3>3. /\ suspended_pop_list' \in Seq(Threads) /\ LinkedOnce(suspended_pop_list')
          /\ ToSet(suspended_pop_list') = ToSet(suspended_pop_list) \ h
      BY <1>1, <2>8, <3>2
    <3> QED BY <2>1, <2>5, <3>1, <3>3, DqStay
  <2> QED BY <2>3, <2>7, <2>8
<1>18. CASE UNCHANGED queueVars
  <2>1. /\ UNCHANGED <<stat, error, thread_timer, suspended_pop_list, suspended_push_list,
                       queue, put_index, get_index, waiting_lwm>>
        /\ pc' = pc /\ item' = item
    BY <1>18 DEF queueVars, queueRing, lists, ipcVars
  <2>2. Goes({}) /\ {} \in SUBSET Threads /\ \A u \in {} : pc[u] = "pop" => error[u] # "EOK"
    BY <1>2, <2>1
  <2> QED BY <1>3, <2>1, <2>2
<1> HIDE DEF Kept
<1>19. ASSUME NEW t \in Threads, NEW m \in Items,
              Push(t, m) \/ \E h \in PushTimed : PushSuspend(t, m, h)
       PROVE  Kept
  BY <1>6, <1>7, <1>19
<1>20. ASSUME NEW t \in Threads,
              \/ Pop(t) \/ \E h \in PopTimed : PopSuspend(t, h)
              \/ PushWoken(t) \/ PopWoken(t) \/ QueueError(t) \/ QueueTimeout(t)
              \/ QueueReset(t) \/ ResetTest(t) \/ ResetWake(t)
       PROVE  Kept
  BY <1>8, <1>9, <1>10, <1>11, <1>12, <1>13, <1>15, <1>16, <1>17, <1>20
<1> QED BY <1>4, <1>5, <1>18, <1>19, <1>20 DEF DataQueueNext, Kept

LEMMA DqInvariant == NeverWraps => (DataQueueSpec => []DqInv)
<1> SUFFICES ASSUME NeverWraps PROVE DataQueueSpec => []DqInv
  OBVIOUS
<1>1. DataQueueInit => DqInv
  BY DqInitially
<1>2. DqInv /\ [DataQueueNext]_queueVars => DqInv'
  BY DqStep
<1> QED BY <1>1, <1>2, PTL DEF DataQueueSpec

\* What the two indices say of the poppers.
LEMMA PoppersServed == NeverWraps /\ DqInv => NoPopperBesideItem
<1> SUFFICES ASSUME NeverWraps, DqInv, suspended_pop_list # <<>>
             PROVE  Count <= Cardinality({t \in Threads : At(t, "pop") /\ error[t] = "EOK"})
  BY DEF NoPopperBesideItem
<1>1. Count = put_index - get_index
  BY CountIs DEF DqInv
<1>2. put_index - get_index <= Cardinality(Woken("pop"))
  BY DEF DqInv, DqPoppers
<1> QED BY <1>1, <1>2, WokenPoppers

\* While a popper is suspended on a data queue, every item has a woken popper
\* on its way to it: for every size and mark, any number of pushers, poppers and
\* interrupts, timeouts and resets, as long as no index wraps.
THEOREM DataQueuePoppersServed == NeverWraps => (DataQueueSpec => []NoPopperBesideItem)
<1> SUFFICES ASSUME NeverWraps PROVE DataQueueSpec => []NoPopperBesideItem
  OBVIOUS
<1>1. DqInv => NoPopperBesideItem
  BY PoppersServed
<1> QED BY <1>1, DqInvariant, PTL

\* No wakeup is lost on either side of a data queue with one pusher: its mark
\* is still ahead while it waits.  (With two, the pop at the mark wakes one,
\* clears waiting_lwm, and leaves the other without a mark ahead.)
THEOREM DataQueueNoLostWakeup == NeverWraps /\ OnePusher => (DataQueueSpec => []NoWaiterForgotten)
<1> SUFFICES ASSUME NeverWraps, OnePusher PROVE DataQueueSpec => []NoWaiterForgotten
  OBVIOUS
<1>1. DataQueueInit => DqInv /\ DqPushers
  BY DqInitially
<1>2. DqInv /\ DqPushers /\ [DataQueueNext]_queueVars => DqInv' /\ DqPushers'
  BY DqStep
<1>3. DqInv /\ DqPushers => NoWaiterForgotten
  <2> SUFFICES ASSUME DqInv, DqPushers PROVE NoPopperBesideItem /\ PusherNotForgotten
    BY DEF NoWaiterForgotten
  <2>1. Count = put_index - get_index
    BY CountIs DEF DqInv
  <2>2. PusherNotForgotten
    BY <2>1 DEF DqPushers, PusherNotForgotten
  <2> QED BY <2>2, PoppersServed
<1> QED BY <1>1, <1>2, <1>3, PTL DEF DataQueueSpec

-----------------------------------------------------------------------------
\* The items of the data queue as a sequence.
DqQueueIsRing ==
    /\ QueuedItems \in Seq(Items \cup {NoItem})
    /\ Len(QueuedItems) = put_index - get_index
    /\ \A i \in 1..(put_index - get_index) : QueuedItems[i] = queue[Slot(get_index + i - 1)]

LEMMA DqQueueIsSeq == NeverWraps /\ MaskWorks /\ DqInv => DqQueueIsRing
<1> SUFFICES ASSUME NeverWraps, MaskWorks, DqInv PROVE DqQueueIsRing
  OBVIOUS
<1> DEFINE n == put_index - get_index
<1>1. /\ get_index \in Nat /\ put_index \in Nat /\ MaxIndex \in Nat
      /\ get_index <= put_index /\ put_index <= MaxIndex /\ n \in Nat
      /\ queue \in [0..(QueueSize - 1) -> Items \cup {NoItem}]
  BY DEF DqInv, DqIndices, NeverWraps
<1>2. Count = n
  BY CountIs DEF DqInv
<1> HIDE DEF n
<1>3. QueuedItems = [i \in 1..n |-> queue[Slot(get_index + i - 1)]]
  BY <1>2 DEF QueuedItems
<1>4. \A i \in 1..n : queue[Slot(get_index + i - 1)] \in Items \cup {NoItem}
  <2> SUFFICES ASSUME NEW i \in 1..n PROVE Slot(get_index + i - 1) \in 0..(QueueSize - 1)
    BY <1>1
  <2>1. get_index + i - 1 \in 0..MaxIndex
    BY <1>1 DEF n
  <2> QED BY <2>1 DEF MaskWorks
<1>5. QueuedItems \in [1..n -> Items \cup {NoItem}]
  BY <1>3, <1>4
<1>6. DOMAIN QueuedItems = 1..n
  BY <1>3
<1>7. QueuedItems \in Seq(Items \cup {NoItem}) /\ Len(QueuedItems) = n
  BY <1>1, <1>5, <1>6
<1>8. \A i \in 1..n : QueuedItems[i] = queue[Slot(get_index + i - 1)]
  BY <1>3
<1> QED BY <1>7, <1>8 DEF DqQueueIsRing, n

LEMMA DqQueueIsSeqNext == NeverWraps /\ MaskWorks => (DqInv' => DqQueueIsRing')
<1> SUFFICES ASSUME NeverWraps, MaskWorks PROVE DqInv' => DqQueueIsRing'
  OBVIOUS
<1>1. DqInv => DqQueueIsRing
  BY DqQueueIsSeq
<1> QED BY <1>1, PTL

\* A step of the data queue is a step of the channel, or leaves it alone.
LEMMA DqRefines ==
    ASSUME NeverWraps, MaskWorks, DqInv, DqInv', [DataQueueNext]_queueVars
    PROVE  Fifo!Next \/ UNCHANGED <<QueuedItems, popped>>
<1>1. /\ get_index \in Nat /\ put_index \in Nat /\ MaxIndex \in Nat /\ QueueSize \in Nat \ {0}
      /\ get_index <= put_index /\ put_index <= MaxIndex /\ put_index - get_index <= QueueSize
      /\ queue \in [0..(QueueSize - 1) -> Items \cup {NoItem}]
  BY MailboxAssumption, DataQueueAssumption DEF DqInv, DqIndices, NeverWraps
<1> DEFINE q == QueuedItems
           r == QueuedItems'
           n == put_index - get_index
<1>2. /\ q \in Seq(Items \cup {NoItem}) /\ Len(q) = n
      /\ \A i \in 1..n : q[i] = queue[Slot(get_index + i - 1)]
  BY DqQueueIsSeq DEF DqQueueIsRing
<1>3. /\ r \in Seq(Items \cup {NoItem}) /\ Len(r) = put_index' - get_index'
      /\ \A i \in 1..(put_index' - get_index') : r[i] = queue'[Slot(get_index' + i - 1)]
  BY DqQueueIsSeqNext DEF DqQueueIsRing
<1>4. \A i \in 0..MaxIndex :
         /\ Slot(i) \in 0..(QueueSize - 1)
         /\ \A j \in 1..(QueueSize - 1) : i + j <= MaxIndex => Slot(i + j) # Slot(i)
  <2>1. 1..(QueueSize - 1) \subseteq 0..(QueueSize - 1) \ {0}
    BY <1>1
  <2> QED BY <2>1 DEF MaskWorks
<1>5. \A i \in Nat, j \in Nat \ {0} : i < j => i % j = i
  OBVIOUS
<1>6. ASSUME NEW m \in Items, Store(m) PROVE Fifo!Next
  <2> HIDE DEF q, r
  <2>1. /\ n # QueueSize /\ put_index < MaxIndex /\ get_index' = get_index /\ popped' = popped
        /\ queue' = [queue EXCEPT ![Slot(put_index)] = m]
        /\ put_index' = (put_index + 1) % IndexMod
    BY <1>6 DEF Store, Full, Advance
  <2>2. put_index' = put_index + 1
    <3>1. put_index + 1 \in Nat /\ put_index + 1 < IndexMod /\ IndexMod \in Nat \ {0}
      BY <1>1, <2>1 DEF NeverWraps
    <3> QED BY <1>5, <2>1, <3>1
  <2>3. n \in Nat /\ n < QueueSize /\ put_index' - get_index' = n + 1
    BY <1>1, <2>1, <2>2
  <2>4. \A i \in 1..n : r[i] = q[i]
    <3> SUFFICES ASSUME NEW i \in 1..n PROVE r[i] = q[i]
      OBVIOUS
    <3> DEFINE k == get_index + i - 1
               j == put_index - k
    <3>1. k \in 0..MaxIndex /\ j \in 1..(QueueSize - 1) /\ k + j = put_index /\ k + j <= MaxIndex
      BY <1>1, <2>3
    <3> HIDE DEF k, j
    <3>2. Slot(k) \in 0..(QueueSize - 1) /\ Slot(put_index) # Slot(k)
      BY <1>4, <3>1
    <3>3. i \in 1..(put_index' - get_index')
      BY <2>3
    <3>4. r[i] = queue'[Slot(k)]
      BY <1>3, <2>1, <3>3 DEF k
    <3>5. q[i] = queue[Slot(k)]
      BY <1>2 DEF k
    <3> QED BY <1>1, <2>1, <3>2, <3>4, <3>5
  <2>5. r[n + 1] = m
    <3>1. get_index' + (n + 1) - 1 = put_index /\ n + 1 \in 1..(put_index' - get_index')
      BY <1>1, <2>1, <2>3
    <3>2. r[n + 1] = queue'[Slot(put_index)]
      BY <1>3, <3>1
    <3>3. Slot(put_index) \in 0..(QueueSize - 1)
      BY <1>1, <1>4
    <3> QED BY <1>1, <2>1, <3>2, <3>3
  <2>6. r = Append(q, m)
    <3>1. /\ Append(q, m) \in Seq(Items \cup {NoItem})
          /\ Len(Append(q, m)) = n + 1
          /\ \A i \in 1..n : Append(q, m)[i] = q[i]
          /\ Append(q, m)[n + 1] = m
      BY <1>2, AppendProperties
    <3>2. \A i \in 1..(n + 1) : r[i] = Append(q, m)[i]
      BY <2>3, <2>4, <2>5, <3>1
    <3>3. Len(r) = n + 1
      BY <1>3, <2>3
    <3> QED BY <1>3, <3>1, <3>2, <3>3, SeqEqual
  <2>7. Len(q) < QueueSize
    BY <1>2, <2>3
  <2>8. Fifo!Send(m)
    BY <2>1, <2>6, <2>7 DEF Fifo!Send, q, r
  <2> QED BY <2>8 DEF Fifo!Next
<1>7. ASSUME Take PROVE Fifo!Next
  <2> HIDE DEF q, r
  <2>1. /\ get_index # put_index /\ put_index' = put_index /\ queue' = queue
        /\ popped' = queue[Slot(get_index)] /\ get_index' = (get_index + 1) % IndexMod
    BY <1>7 DEF Take, Empty, Advance
  <2>2. get_index' = get_index + 1
    <3>1. get_index + 1 \in Nat /\ get_index + 1 < IndexMod /\ IndexMod \in Nat \ {0}
      BY <1>1, <2>1 DEF NeverWraps
    <3> QED BY <1>5, <2>1, <3>1
  <2>3. n \in Nat \ {0} /\ put_index' - get_index' = n - 1
    BY <1>1, <2>1, <2>2
  <2>4. \A i \in 1..(n - 1) : r[i] = q[i + 1]
    <3> SUFFICES ASSUME NEW i \in 1..(n - 1) PROVE r[i] = q[i + 1]
      OBVIOUS
    <3>1. /\ get_index' + i - 1 = get_index + i /\ get_index + (i + 1) - 1 = get_index + i
          /\ i \in 1..(put_index' - get_index') /\ i + 1 \in 1..n
      BY <1>1, <2>2, <2>3
    <3>2. r[i] = queue[Slot(get_index + i)]
      BY <1>3, <2>1, <3>1
    <3>3. q[i + 1] = queue[Slot(get_index + i)]
      BY <1>2, <3>1
    <3> QED BY <3>2, <3>3
  <2>5. r = Tail(q) /\ q # <<>>
    <3>1. q # <<>>
      BY <1>2, <2>3
    <3>2. /\ Tail(q) \in Seq(Items \cup {NoItem})
          /\ Len(Tail(q)) = n - 1
          /\ \A i \in 1..(n - 1) : Tail(q)[i] = q[i + 1]
      BY <1>2, <3>1
    <3>3. Len(r) = n - 1
      BY <1>3, <2>3
    <3> QED BY <1>3, <2>4, <3>1, <3>2, <3>3, SeqEqual
  <2>6. popped' = Head(q)
    <3>1. get_index + 1 - 1 = get_index /\ 1 \in 1..n
      BY <1>1, <2>3
    <3>2. q[1] = queue[Slot(get_index)]
      BY <1>2, <3>1
    <3> QED BY <1>2, <2>1, <2>5, <3>2
  <2>7. Fifo!Receive
    BY <2>5, <2>6 DEF Fifo!Receive, q, r
  <2> QED BY <2>7 DEF Fifo!Next
<1>8. ASSUME UNCHANGED queueRing PROVE UNCHANGED <<QueuedItems, popped>>
  BY <1>8 DEF queueRing, QueuedItems, Count
<1>9. (\E m \in Items : Store(m)) \/ Take \/ UNCHANGED queueRing
  <2>1. ASSUME NEW t \in Threads, PushWoken(t)
        PROVE  (\E m \in Items : Store(m)) \/ UNCHANGED queueRing
    <3>1. item[t] \in Items
      BY <2>1 DEF PushWoken, At, DqInv, DqThreads
    <3> QED BY <2>1, <3>1 DEF PushWoken, WaitForRoom
  <2> QED BY <2>1 DEF DataQueueNext, queueVars, PopFromInterrupt, PushFromInterrupt, Push,
             PushSuspend, WaitForRoom, Pop, PopSuspend, WaitForItem, PopWoken,
             QueueError, QueueTimeout, QueueReset, ResetTest, ResetWake
<1> QED BY <1>6, <1>7, <1>8, <1>9

\* The data queue is a bounded first-in first-out channel for every size whose
\* mask gives every place its index, as long as the indices do not wrap: pushes,
\* pops, timeouts and resets of any number of threads and of interrupts lose,
\* double and overtake nothing.
THEOREM DataQueueImplementsChannel == NeverWraps /\ MaskWorks => (DataQueueSpec => IsBoundedFifo)
<1> SUFFICES ASSUME NeverWraps, MaskWorks PROVE DataQueueSpec => IsBoundedFifo
  OBVIOUS
<1>1. DataQueueInit => Fifo!Init
  <2> SUFFICES ASSUME DataQueueInit PROVE Fifo!Init
    OBVIOUS
  <2>1. put_index = 0 /\ get_index = 0 /\ popped = NoItem
    BY DEF DataQueueInit
  <2>2. DqQueueIsRing
    BY DqInitially, DqQueueIsSeq
  <2>3. QueuedItems = <<>>
    BY <2>1, <2>2 DEF DqQueueIsRing
  <2> QED BY <2>1, <2>3 DEF Fifo!Init
<1>2. DqInv /\ DqInv' /\ [DataQueueNext]_queueVars => [Fifo!Next]_<<QueuedItems, popped>>
  BY DqRefines
<1> QED BY <1>1, <1>2, DqInvariant, PTL DEF DataQueueSpec, IsBoundedFifo, Fifo!Spec

-----------------------------------------------------------------------------
(* The transmit ring of the serial port. *)

\* One thread writes text without '\0', and is not held up inside serial_put for
\* as long as the UART takes to empty its FIFO.
OneWriter ==
    /\ RingSize \in Nat \ {0, 1} /\ FifoLimit \in Nat \ {0}
    /\ \A v, w \in Writers : v = w
    /\ NulChars = {} /\ Prompt = TRUE

\* An index at most once beyond the ring, brought back into it.
Turn(i) == IF i < RingSize THEN i ELSE i - RingSize

\* The ring r holds the s characters that follow number first.
RingHolds(r, first, s) ==
    /\ r \in [buffer : [0..(RingSize - 1) -> Nat \cup {NoChar}],
              put_index : 0..(RingSize - 1), get_index : 0..(RingSize - 1)]
    /\ first \in Nat /\ s \in 0..(RingSize - 1)
    /\ r.put_index = Turn(r.get_index + s)
    /\ \A k \in 1..s : r.buffer[Turn(r.get_index + k - 1)] = first + k

\* A remainder that is at most one turn away.
LEMMA ModIsTurn ==
    ASSUME NEW n \in Nat \ {0}, NEW i \in Int, -n < i, i < 2 * n
    PROVE  i % n = IF i < 0 THEN i + n ELSE IF i < n THEN i ELSE i - n
<1> DEFINE q == i \div n
           r == i % n
<1>1. q \in Int /\ r \in 0..(n - 1) /\ i = n * q + r
  OBVIOUS
<1> HIDE DEF q, r
<1>2. CASE i < 0
  <2>1. q = -1
    <3>1. n * q < 0
      BY <1>1, <1>2
    <3>2. n * (q + 2) > 0
      BY <1>1, <1>2
    <3> QED BY <1>1, <3>1, <3>2
  <2> QED BY <1>1, <1>2, <2>1 DEF r
<1>3. CASE i >= 0 /\ i < n
  <2> QED BY <1>3
<1>4. CASE i >= n
  <2>1. q = 1
    <3>1. n * q > 0
      BY <1>1, <1>4
    <3> QED BY <1>1, <1>4, <3>1
  <2> QED BY <1>1, <1>4, <2>1 DEF r
<1> QED BY <1>2, <1>3, <1>4

\* What the operations see of such a ring.
LEMMA RingSeen ==
    ASSUME OneWriter, NEW r, NEW first, NEW s, RingHolds(r, first, s)
    PROVE  /\ serial_ringbuffer_size(r) = s
           /\ IsEmpty(r) <=> s = 0
           /\ IsFull(r) <=> s = RingSize - 1
           /\ s # 0 => First(r) = first + 1
           /\ Contents(r) \in Seq(Nat) /\ Len(Contents(r)) = s
           /\ \A k \in 1..s : Contents(r)[k] = first + k
<1> DEFINE p == r.put_index
           g == r.get_index
<1>1. /\ RingSize \in Nat \ {0, 1} /\ p \in 0..(RingSize - 1) /\ g \in 0..(RingSize - 1)
      /\ s \in 0..(RingSize - 1) /\ first \in Nat /\ p = Turn(g + s)
      /\ \A k \in 1..s : r.buffer[Turn(g + k - 1)] = first + k
  BY DEF OneWriter, RingHolds
<1> HIDE DEF p, g
<1>2. serial_ringbuffer_size(r) = s
  <2>1. (p - g) % RingSize = IF p - g < 0 THEN p - g + RingSize ELSE p - g
    <3>1. p - g \in Int /\ -RingSize < p - g /\ p - g < RingSize /\ p - g < 2 * RingSize
      BY <1>1
    <3> QED BY <1>1, <3>1, ModIsTurn
  <2>2. (p - g) % RingSize = s
    BY <1>1, <2>1 DEF Turn
  <2> QED BY <2>2 DEF serial_ringbuffer_size, p, g
<1>3. IsEmpty(r) <=> s = 0
  <2>1. g = p <=> s = 0
    BY <1>1 DEF Turn
  <2> QED BY <2>1 DEF IsEmpty, p, g
<1>4. IsFull(r) <=> s = RingSize - 1
  <2>1. (p + 1) % RingSize = Turn(p + 1)
    <3>1. p + 1 \in Int /\ -RingSize < p + 1 /\ p + 1 < 2 * RingSize /\ ~(p + 1 < 0)
      BY <1>1
    <3> QED BY <1>1, <3>1, ModIsTurn DEF Turn
  <2>2. Turn(p + 1) = g <=> s = RingSize - 1
    BY <1>1 DEF Turn
  <2> QED BY <2>1, <2>2 DEF IsFull, After, p, g
<1>5. s # 0 => First(r) = first + 1
  <2> SUFFICES ASSUME s # 0 PROVE r.buffer[g] = first + 1
    BY DEF First, g
  <2>1. 1 \in 1..s /\ Turn(g + 1 - 1) = g
    BY <1>1 DEF Turn
  <2> QED BY <1>1, <2>1
<1>6. /\ Contents(r) \in Seq(Nat) /\ Len(Contents(r)) = s
      /\ \A k \in 1..s : Contents(r)[k] = first + k
  <2>1. ASSUME NEW k \in 1..s PROVE r.buffer[(g + k - 1) % RingSize] = first + k
    <3>1. g + k - 1 \in Int /\ -RingSize < g + k - 1 /\ g + k - 1 < 2 * RingSize /\ ~(g + k - 1 < 0)
      BY <1>1
    <3>2. (g + k - 1) % RingSize = Turn(g + k - 1)
      BY <1>1, <3>1, ModIsTurn DEF Turn
    <3> QED BY <1>1, <3>2
  <2>2. Contents(r) = [k \in 1..s |-> r.buffer[(g + k - 1) % RingSize]]
    BY <1>2 DEF Contents, g
  <2>3. Contents(r) = [k \in 1..s |-> first + k]
    BY <2>1, <2>2
  <2>4. s \in Nat /\ \A k \in 1..s : first + k \in Nat
    BY <1>1
  <2> QED BY <2>3, <2>4
<1> QED BY <1>2, <1>3, <1>4, <1>5, <1>6

\* A character more.
LEMMA RingPut ==
    ASSUME OneWriter, NEW r, NEW first, NEW s, RingHolds(r, first, s), s # RingSize - 1
    PROVE  RingHolds(serial_ringbuffer_putchar(r, first + s + 1), first, s + 1)
<1> DEFINE p == r.put_index
           g == r.get_index
           b == r.buffer
           c == first + s + 1
           n == serial_ringbuffer_putchar(r, c)
<1>1. /\ RingSize \in Nat \ {0, 1} /\ p \in 0..(RingSize - 1) /\ g \in 0..(RingSize - 1)
      /\ b \in [0..(RingSize - 1) -> Nat \cup {NoChar}]
      /\ s \in 0..(RingSize - 1) /\ first \in Nat /\ p = Turn(g + s)
      /\ \A k \in 1..s : b[Turn(g + k - 1)] = first + k
  BY DEF OneWriter, RingHolds
<1>2. n = [buffer |-> [b EXCEPT ![p] = c], put_index |-> After(p), get_index |-> g]
  <2>1. /\ r = [buffer |-> b, put_index |-> p, get_index |-> g]
        /\ n = [r EXCEPT !.buffer[p] = c, !.put_index = After(p)]
    BY DEF RingHolds, serial_ringbuffer_putchar
  <2>2. r.buffer = b /\ DOMAIN r = {"buffer", "put_index", "get_index"}
    BY <2>1
  <2>3. DOMAIN n = {"buffer", "put_index", "get_index"}
    BY <2>1, <2>2
  <2>4. n.put_index = After(p) /\ n.get_index = g
    BY <2>1, <2>2
  <2>5. n.buffer = [b EXCEPT ![p] = c]
    BY <2>1, <2>2
  <2> HIDE DEF n, p, g, b
  <2> QED BY <2>1, <2>3, <2>4, <2>5
<1> HIDE DEF n
<1>3. n.buffer = [b EXCEPT ![p] = c] /\ n.put_index = After(p) /\ n.get_index = g
  BY <1>2
<1> HIDE DEF p, g, b
<1>4. After(p) = Turn(p + 1)
  <2>1. p + 1 \in Int /\ -RingSize < p + 1 /\ p + 1 < 2 * RingSize /\ ~(p + 1 < 0)
    BY <1>1
  <2> QED BY <1>1, <2>1, ModIsTurn DEF Turn, After
<1>5. Turn(p + 1) \in 0..(RingSize - 1) /\ Turn(p + 1) = Turn(g + (s + 1)) /\ s + 1 \in 0..(RingSize - 1)
  BY <1>1 DEF Turn
<1>6. c \in Nat
  BY <1>1
<1>7. n \in [buffer : [0..(RingSize - 1) -> Nat \cup {NoChar}],
             put_index : 0..(RingSize - 1), get_index : 0..(RingSize - 1)]
  BY <1>1, <1>2, <1>4, <1>5, <1>6
<1>8. ASSUME NEW k \in 1..(s + 1) PROVE n.buffer[Turn(g + k - 1)] = first + k
  <2>1. CASE k \in 1..s
    <3>1. Turn(g + k - 1) # p /\ Turn(g + k - 1) \in 0..(RingSize - 1)
      BY <1>1, <2>1 DEF Turn
    <3> QED BY <1>1, <1>3, <2>1, <3>1
  <2>2. CASE k = s + 1
    <3>1. g + k - 1 = g + s /\ first + k = c
      BY <1>1, <2>2
    <3> QED BY <1>1, <1>3, <3>1
  <2> QED BY <1>1, <2>1, <2>2
<1> QED BY <1>1, <1>3, <1>4, <1>5, <1>7, <1>8 DEF RingHolds, n

\* Characters taken.
LEMMA RingTake ==
    ASSUME OneWriter, NEW r, NEW first, NEW s, RingHolds(r, first, s), NEW n \in 0..s
    PROVE  RingHolds([r EXCEPT !.get_index = (@ + n) % RingSize], first + n, s - n)
<1> DEFINE p == r.put_index
           g == r.get_index
           b == r.buffer
           x == [r EXCEPT !.get_index = (@ + n) % RingSize]
<1>1. /\ RingSize \in Nat \ {0, 1} /\ p \in 0..(RingSize - 1) /\ g \in 0..(RingSize - 1)
      /\ b \in [0..(RingSize - 1) -> Nat \cup {NoChar}]
      /\ s \in 0..(RingSize - 1) /\ first \in Nat /\ p = Turn(g + s) /\ n \in 0..s
      /\ \A k \in 1..s : b[Turn(g + k - 1)] = first + k
  BY DEF OneWriter, RingHolds
<1>2. x = [buffer |-> b, put_index |-> p, get_index |-> (g + n) % RingSize]
  BY DEF RingHolds
<1> HIDE DEF x, p, g, b
<1>3. x.buffer = b /\ x.put_index = p /\ x.get_index = (g + n) % RingSize
  BY <1>2
<1>4. (g + n) % RingSize = Turn(g + n)
  <2>1. g + n \in Int /\ -RingSize < g + n /\ g + n < 2 * RingSize /\ ~(g + n < 0)
    BY <1>1
  <2> QED BY <1>1, <2>1, ModIsTurn DEF Turn
<1>5. /\ Turn(g + n) \in 0..(RingSize - 1) /\ p = Turn(Turn(g + n) + (s - n))
      /\ s - n \in 0..(RingSize - 1) /\ first + n \in Nat
  BY <1>1 DEF Turn
<1>6. x \in [buffer : [0..(RingSize - 1) -> Nat \cup {NoChar}],
             put_index : 0..(RingSize - 1), get_index : 0..(RingSize - 1)]
  BY <1>1, <1>2, <1>4, <1>5
<1>7. ASSUME NEW k \in 1..(s - n) PROVE b[Turn(Turn(g + n) + k - 1)] = (first + n) + k
  <2>1. n + k \in 1..s /\ Turn(Turn(g + n) + k - 1) = Turn(g + (n + k) - 1) /\ first + (n + k) = (first + n) + k
    BY <1>1 DEF Turn
  <2> QED BY <1>1, <2>1
<1> QED BY <1>3, <1>4, <1>5, <1>6, <1>7 DEF RingHolds, x

-----------------------------------------------------------------------------
WriterLabels == {"idle", "fill", "test", "start", "getc", "putc", "inc", "mark"}

\* 1 while a writer has a character in its hand, and how many characters have
\* left the ring.
Held == IF \E w \in Writers : place[w] = "putc" THEN 1 ELSE 0

Out == Len(line) + Len(tx_fifo) + Held

SerTypes ==
    /\ place \in [Writers -> WriterLabels] /\ count \in [Writers -> {0, 1}]
    /\ ch \in [Writers -> Nat \cup {NoChar}]
    /\ line \in Seq(Nat) /\ tx_fifo \in Seq(Nat)
    /\ accepted \in Nat /\ SendFifoLength \in Nat
    /\ tx_busy \in BOOLEAN /\ thre \in BOOLEAN

\* The characters stand in their order: on the line, in the FIFO, in the hand of
\* a writer and in the ring.
InOrder ==
    /\ \A k \in 1..Len(line) : line[k] = k
    /\ \A k \in 1..Len(tx_fifo) : tx_fifo[k] = Len(line) + k
    /\ \A w \in Writers : place[w] = "putc" => ch[w] = Len(line) + Len(tx_fifo) + 1
    /\ RingHolds(int_tx, Out, accepted - Out)

\* Whoever sends is alone: tx_busy covers the FIFO and its interrupt, and while
\* a writer is inside serial_put the interrupt is not pending and the count of
\* the FIFO is not below what is in it.
OneSender ==
    /\ thre => tx_fifo = <<>> /\ tx_busy
    /\ tx_fifo # <<>> => tx_busy
    /\ ~tx_busy => SendFifoLength = 0
    /\ \A w \in Writers :
          /\ place[w] = "start" => ~tx_busy
          /\ place[w] \in {"getc", "putc", "inc", "mark"} => tx_busy /\ ~thre
          /\ place[w] \in {"getc", "putc", "inc"} => SendFifoLength < FifoLimit
          /\ place[w] \in {"getc", "putc"} => Len(tx_fifo) <= SendFifoLength
          /\ place[w] \in {"getc", "mark"} /\ count[w] = 0 => tx_fifo = <<>> /\ SendFifoLength = 0
          /\ place[w] = "inc" => Len(tx_fifo) <= SendFifoLength + 1
          /\ place[w] = "mark" => count[w] = 0
          /\ place[w] = "inc" => count[w] = 1

SerInv == SerTypes /\ InOrder /\ OneSender

LEMMA SerInitially == OneWriter /\ SerialInit => SerInv
<1> SUFFICES ASSUME OneWriter, SerialInit PROVE SerInv
  OBVIOUS
<1>1. /\ int_tx = [buffer |-> [i \in 0..(RingSize - 1) |-> NoChar], put_index |-> 0, get_index |-> 0]
      /\ tx_busy = FALSE /\ SendFifoLength = 0 /\ place = [w \in Writers |-> "idle"]
      /\ ch = [w \in Writers |-> NoChar] /\ count = [w \in Writers |-> 0]
      /\ tx_fifo = <<>> /\ thre = FALSE /\ accepted = 0 /\ line = <<>>
  BY DEF SerialInit, serial_ringbuffer_init
<1>2. Len(line) = 0 /\ Len(tx_fifo) = 0 /\ line \in Seq(Nat) /\ tx_fifo \in Seq(Nat)
  BY <1>1, EmptySeq
<1>3. SerTypes
  BY <1>1, <1>2 DEF SerTypes, WriterLabels
<1>4. Out = 0 /\ accepted - Out = 0
  <2>1. \A w \in Writers : place[w] # "putc"
    BY <1>1
  <2>2. Held = 0
    BY <2>1 DEF Held
  <2>3. Out = 0
    BY <1>2, <2>2 DEF Out
  <2> QED BY <1>1, <2>3
<1>5. RingHolds(int_tx, 0, 0)
  BY <1>1 DEF RingHolds, OneWriter, Turn
<1>6. InOrder
  BY <1>1, <1>2, <1>4, <1>5 DEF InOrder
<1>7. OneSender
  BY <1>1 DEF OneSender
<1> QED BY <1>3, <1>6, <1>7 DEF SerInv

\* The UART sends a character.
LEMMA SerTransmit ==
    ASSUME OneWriter, SerInv, Transmit
    PROVE  SerInv'
<1>1. /\ SerTypes /\ InOrder /\ OneSender /\ Prompt = TRUE
      /\ tx_fifo # <<>> /\ line' = Append(line, Head(tx_fifo)) /\ tx_fifo' = Tail(tx_fifo)
      /\ thre' = (Len(tx_fifo) = 1)
      /\ Len(tx_fifo) = 1 => \A w \in Writers : place[w] \notin {"getc", "putc", "inc", "mark"}
      /\ place' = place /\ ch' = ch /\ count' = count /\ accepted' = accepted /\ int_tx' = int_tx
      /\ tx_busy' = tx_busy /\ SendFifoLength' = SendFifoLength
  BY DEF SerInv, OneWriter, Transmit, writerVars, InSerialPut
<1>2. line \in Seq(Nat) /\ tx_fifo \in Seq(Nat) /\ Len(tx_fifo) \in Nat \ {0} /\ Len(line) \in Nat
  BY <1>1, EmptySeq DEF SerTypes
<1>3. /\ tx_fifo' \in Seq(Nat) /\ Len(tx_fifo') = Len(tx_fifo) - 1
      /\ \A k \in 1..(Len(tx_fifo) - 1) : tx_fifo'[k] = tx_fifo[k + 1]
      /\ Head(tx_fifo) = tx_fifo[1] /\ Head(tx_fifo) \in Nat
  BY <1>1, <1>2
<1>4. /\ line' \in Seq(Nat) /\ Len(line') = Len(line) + 1
      /\ \A k \in 1..Len(line) : line'[k] = line[k]
      /\ line'[Len(line) + 1] = Head(tx_fifo)
  BY <1>1, <1>2, <1>3
<1>5. Head(tx_fifo) = Len(line) + 1
  <2>1. 1 \in 1..Len(tx_fifo)
    BY <1>2
  <2> QED BY <1>1, <1>3, <2>1 DEF InOrder
<1>6. \A k \in 1..Len(line') : line'[k] = k
  <2> SUFFICES ASSUME NEW k \in 1..(Len(line) + 1) PROVE line'[k] = k
    BY <1>4
  <2>1. CASE k \in 1..Len(line)
    BY <1>1, <1>4, <2>1 DEF InOrder
  <2>2. CASE k = Len(line) + 1
    BY <1>4, <1>5, <2>2
  <2> QED BY <1>2, <2>1, <2>2
<1>7. \A k \in 1..Len(tx_fifo') : tx_fifo'[k] = Len(line') + k
  <2> SUFFICES ASSUME NEW k \in 1..(Len(tx_fifo) - 1) PROVE tx_fifo'[k] = Len(line) + 1 + k
    BY <1>3, <1>4
  <2>1. k + 1 \in 1..Len(tx_fifo) /\ Len(line) + (k + 1) = Len(line) + 1 + k
    BY <1>2
  <2> QED BY <1>1, <1>3, <2>1 DEF InOrder
<1>8. Len(line') + Len(tx_fifo') = Len(line) + Len(tx_fifo) /\ Held' = Held
  BY <1>1, <1>2, <1>3, <1>4 DEF Held
<1>9. Out' = Out
  BY <1>8 DEF Out
<1>10. InOrder'
  BY <1>1, <1>6, <1>7, <1>8, <1>9 DEF InOrder
<1>11. SerTypes'
  BY <1>1, <1>3, <1>4 DEF SerTypes
<1>12. Len(tx_fifo) = 1 => tx_fifo' = <<>>
  BY <1>3, EmptySeq
<1>13. OneSender'
  <2>1. tx_busy
    BY <1>1 DEF OneSender
  <2>2. thre' => tx_fifo' = <<>> /\ tx_busy'
    BY <1>1, <1>12, <2>1
  <2>3. Len(tx_fifo') <= Len(tx_fifo) /\ Len(tx_fifo') \in Nat /\ SendFifoLength \in Nat
    BY <1>1, <1>2, <1>3 DEF SerTypes
  <2>4. ASSUME NEW w \in Writers
        PROVE  /\ place[w] = "start" => ~tx_busy
               /\ place[w] \in {"getc", "putc", "inc", "mark"} => tx_busy /\ ~thre'
               /\ place[w] \in {"getc", "putc", "inc"} => SendFifoLength < FifoLimit
               /\ place[w] \in {"getc", "putc"} => Len(tx_fifo') <= SendFifoLength
               /\ ~(place[w] \in {"getc", "mark"} /\ count[w] = 0)
               /\ place[w] = "inc" => Len(tx_fifo') <= SendFifoLength + 1
               /\ place[w] = "mark" => count[w] = 0
               /\ place[w] = "inc" => count[w] = 1
    <3>1. /\ place[w] = "start" => ~tx_busy
          /\ place[w] \in {"getc", "putc", "inc", "mark"} => tx_busy
          /\ place[w] \in {"getc", "putc", "inc"} => SendFifoLength < FifoLimit
          /\ place[w] \in {"getc", "putc"} => Len(tx_fifo) <= SendFifoLength
          /\ ~(place[w] \in {"getc", "mark"} /\ count[w] = 0)
          /\ place[w] = "inc" => Len(tx_fifo) <= SendFifoLength + 1
          /\ place[w] = "mark" => count[w] = 0
          /\ place[w] = "inc" => count[w] = 1
      BY <1>1 DEF OneSender
    <3>2. place[w] \in {"getc", "putc", "inc", "mark"} => ~thre'
      BY <1>1
    <3>3. place[w] \in {"getc", "putc"} => Len(tx_fifo') <= SendFifoLength
      BY <1>2, <2>3, <3>1
    <3>4. place[w] = "inc" => Len(tx_fifo') <= SendFifoLength + 1
      BY <1>2, <2>3, <3>1
    <3> QED BY <3>1, <3>2, <3>3, <3>4
  <2> QED BY <1>1, <2>1, <2>2, <2>4 DEF OneSender
<1> QED BY <1>10, <1>11, <1>13 DEF SerInv

\* The handler fills the empty FIFO from the ring.
LEMMA SerTransmitIsr ==
    ASSUME OneWriter, SerInv, TransmitIsr
    PROVE  SerInv'
<1>1. /\ SerTypes /\ InOrder /\ OneSender /\ NulChars = {}
      /\ thre /\ thre' = FALSE
      /\ place' = place /\ ch' = ch /\ count' = count /\ accepted' = accepted /\ line' = line
  BY DEF SerInv, OneWriter, TransmitIsr, writerVars
<1>2. PICK n \in Batch :
         /\ SendFifoLength' = n
         /\ tx_fifo' = SubSeq(Contents(int_tx), 1, n)
         /\ int_tx' = [int_tx EXCEPT !.get_index = (@ + n + Swallowed(n)) % RingSize]
         /\ tx_busy' = BusyAfter(n)
  BY DEF TransmitIsr
<1> DEFINE s == accepted - Out
           q == Contents(int_tx)
<1>3. RingHolds(int_tx, Out, s) /\ s \in Nat /\ Out \in Nat
  BY <1>1 DEF InOrder, RingHolds, OneWriter
<1>4. /\ serial_ringbuffer_size(int_tx) = s
      /\ q \in Seq(Nat) /\ Len(q) = s /\ \A k \in 1..s : q[k] = Out + k
  BY <1>3, RingSeen
<1> HIDE DEF s, q
<1>5. n \in Nat /\ n <= s /\ (n = FifoLimit \/ n = s)
  <2>1. n \in 0..FifoLimit /\ n <= Len(q) /\ (n = FifoLimit \/ n = Len(q) \/ q[n + 1] \in NulChars)
    BY DEF Batch, q
  <2> QED BY <1>1, <1>4, <2>1
<1>6. Swallowed(n) = 0
  BY <1>4, <1>5, <1>3 DEF Swallowed
<1>7. tx_fifo = <<>> /\ Len(tx_fifo) = 0 /\ tx_busy
  BY <1>1, EmptySeq DEF OneSender
<1>8. \A w \in Writers : place[w] \notin {"start", "getc", "putc", "inc", "mark"}
  BY <1>1, <1>7 DEF OneSender
<1>9. Held = 0 /\ Held' = 0 /\ Len(line) \in Nat
  BY <1>1, <1>8 DEF Held, SerTypes
<1>10. Out = Len(line)
  BY <1>7, <1>9 DEF Out
<1>11. /\ tx_fifo' \in Seq(Nat) /\ Len(tx_fifo') = n
       /\ \A k \in 1..n : tx_fifo'[k] = Len(line) + k
  <2>1. tx_fifo' = SubSeq(q, 1, n) /\ n \in 0..Len(q)
    BY <1>2, <1>3, <1>4, <1>5 DEF q
  <2>2. /\ SubSeq(q, 1, n) \in Seq(Nat) /\ Len(SubSeq(q, 1, n)) = n
        /\ \A k \in 1..n : SubSeq(q, 1, n)[k] = q[k]
    BY <1>4, <2>1
  <2>3. \A k \in 1..n : k \in 1..s
    BY <1>3, <1>5
  <2> QED BY <1>4, <1>10, <2>1, <2>2, <2>3
<1>12. Out' = Out + n /\ accepted' - Out' = s - n
  <2>1. Out' = Len(line) + n + 0
    BY <1>1, <1>9, <1>11 DEF Out
  <2>2. accepted \in Nat
    BY <1>1 DEF SerTypes
  <2> QED BY <1>1, <1>5, <1>9, <1>10, <2>1, <2>2 DEF s
<1>13. RingHolds(int_tx', Out + n, s - n)
  <2>1. n \in 0..s
    BY <1>3, <1>5
  <2>2. RingHolds([int_tx EXCEPT !.get_index = (@ + n) % RingSize], Out + n, s - n)
    BY <1>3, <2>1, RingTake
  <2>3. int_tx' = [int_tx EXCEPT !.get_index = (@ + n) % RingSize]
    <3>1. int_tx.get_index \in Int
      BY <1>3 DEF RingHolds
    <3>2. int_tx.get_index + n + 0 = int_tx.get_index + n
      BY <1>5, <3>1
    <3> QED BY <1>2, <1>6, <3>2
  <2> QED BY <2>2, <2>3
<1>14. InOrder'
  BY <1>1, <1>8, <1>11, <1>12, <1>13 DEF InOrder
<1>15. tx_busy' = (n # 0)
  BY <1>2, <1>7 DEF BusyAfter
<1>16. SerTypes'
  BY <1>1, <1>2, <1>5, <1>11, <1>15 DEF SerTypes
<1>17. n = 0 => tx_fifo' = <<>>
  BY <1>11, EmptySeq
<1>18. OneSender'
  BY <1>1, <1>2, <1>8, <1>15, <1>17 DEF OneSender
<1> QED BY <1>14, <1>16, <1>18 DEF SerInv

\* Where the one writer goes, the others being nobody.
LEMMA WriterGoes ==
    ASSUME OneWriter, SerTypes, NEW w \in Writers, NEW label \in WriterLabels, MoveTo(w, label)
    PROVE  /\ place' \in [Writers -> WriterLabels] /\ \A v \in Writers : place'[v] = label
           /\ Held' = IF label = "putc" THEN 1 ELSE 0
           /\ Held = IF place[w] = "putc" THEN 1 ELSE 0
<1>1. place' = [place EXCEPT ![w] = label] /\ place \in [Writers -> WriterLabels]
  BY DEF MoveTo, SerTypes
<1>2. \A v \in Writers : v = w
  BY DEF OneWriter
<1>3. place' \in [Writers -> WriterLabels] /\ \A v \in Writers : place'[v] = label
  BY <1>1, <1>2
<1>4. Held' = IF label = "putc" THEN 1 ELSE 0
  BY <1>3 DEF Held
<1>5. Held = IF place[w] = "putc" THEN 1 ELSE 0
  BY <1>2 DEF Held
<1> QED BY <1>3, <1>4, <1>5

\* Steps that touch no character.
LEMMA SerMoves ==
    ASSUME OneWriter, SerInv, NEW w \in Writers, NEW label \in WriterLabels \ {"putc"}, place[w] # "putc",
           MoveTo(w, label), count' \in [Writers -> {0, 1}],
           UNCHANGED <<ch, accepted, int_tx, tx_fifo, thre, line>>,
           SendFifoLength' \in Nat, tx_busy' \in BOOLEAN
    PROVE  SerTypes' /\ InOrder'
<1>1. SerTypes /\ InOrder
  BY DEF SerInv
<1>2. place' \in [Writers -> WriterLabels] /\ (\A v \in Writers : place'[v] = label) /\ Held' = 0 /\ Held = 0
  BY <1>1, WriterGoes
<1>3. SerTypes'
  BY <1>1, <1>2 DEF SerTypes
<1>4. Out' = Out
  BY <1>2 DEF Out
<1>5. InOrder'
  BY <1>1, <1>2, <1>4 DEF InOrder
<1> QED BY <1>3, <1>5

LEMMA SerWriter ==
    ASSUME OneWriter, SerInv, NEW w \in Writers, WriterStep(w) \/ \E n \in Lengths : Write(w, n)
    PROVE  SerInv'
<1>1. /\ SerTypes /\ InOrder /\ OneSender /\ \A v \in Writers : v = w
      /\ place[w] \in WriterLabels /\ count \in [Writers -> {0, 1}] /\ ch \in [Writers -> Nat \cup {NoChar}]
      /\ SendFifoLength \in Nat /\ tx_busy \in BOOLEAN /\ thre \in BOOLEAN /\ accepted \in Nat
      /\ line \in Seq(Nat) /\ tx_fifo \in Seq(Nat) /\ Len(line) \in Nat /\ Len(tx_fifo) \in Nat
      /\ FifoLimit \in Nat \ {0}
  BY DEF SerInv, SerTypes, OneWriter
<1>2. /\ thre => tx_fifo = <<>> /\ tx_busy
      /\ tx_fifo # <<>> => tx_busy
      /\ ~tx_busy => SendFifoLength = 0
      /\ place[w] = "start" => ~tx_busy
      /\ place[w] \in {"getc", "putc", "inc", "mark"} => tx_busy /\ ~thre
      /\ place[w] \in {"getc", "putc", "inc"} => SendFifoLength < FifoLimit
      /\ place[w] \in {"getc", "putc"} => Len(tx_fifo) <= SendFifoLength
      /\ place[w] \in {"getc", "mark"} /\ count[w] = 0 => tx_fifo = <<>> /\ SendFifoLength = 0
      /\ place[w] = "inc" => Len(tx_fifo) <= SendFifoLength + 1
      /\ place[w] = "mark" => count[w] = 0
      /\ place[w] = "inc" => count[w] = 1
  BY <1>1 DEF OneSender
<1> DEFINE s == accepted - Out
<1>3. /\ RingHolds(int_tx, Out, s) /\ s \in Nat /\ Out \in Nat
      /\ IsEmpty(int_tx) <=> s = 0
      /\ IsFull(int_tx) <=> s = RingSize - 1
      /\ s # 0 => First(int_tx) = Out + 1
  <2>1. RingHolds(int_tx, Out, s) /\ s \in Nat /\ Out \in Nat
    BY <1>1 DEF InOrder, RingHolds, OneWriter
  <2> QED BY <2>1, RingSeen
<1>4. /\ "idle" \in WriterLabels \ {"putc"} /\ "fill" \in WriterLabels \ {"putc"}
      /\ "test" \in WriterLabels \ {"putc"} /\ "start" \in WriterLabels \ {"putc"}
      /\ "getc" \in WriterLabels \ {"putc"} /\ "inc" \in WriterLabels \ {"putc"}
      /\ "mark" \in WriterLabels \ {"putc"} /\ "putc" \in WriterLabels
  BY DEF WriterLabels
<1>5. ASSUME NEW n \in Lengths, Write(w, n) PROVE SerInv'
  <2>1. /\ place[w] = "idle" /\ MoveTo(w, "fill")
        /\ UNCHANGED <<ch, count, accepted, int_tx, tx_fifo, thre, line, SendFifoLength, tx_busy>>
    BY <1>5 DEF Write, txVars
  <2>2. SerTypes' /\ InOrder'
    BY <1>1, <1>4, <2>1, SerMoves
  <2>3. \A v \in Writers : place'[v] = "fill"
    BY <1>1, <1>4, <2>1, WriterGoes
  <2>4. OneSender'
    BY <1>2, <2>1, <2>3 DEF OneSender
  <2> QED BY <2>2, <2>4 DEF SerInv
<1>6. ASSUME Fill(w) PROVE SerInv'
  <2>1. /\ place[w] = "fill"
        /\ UNCHANGED <<ch, count, tx_fifo, thre, line, SendFifoLength, tx_busy>>
    BY <1>6 DEF Fill
  <2>2. CASE IsFull(int_tx)
    <3>1. MoveTo(w, "test") /\ UNCHANGED <<int_tx, accepted>>
      BY <1>6, <2>2 DEF Fill
    <3>2. SerTypes' /\ InOrder'
      BY <1>1, <1>4, <2>1, <3>1, SerMoves
    <3>3. \A v \in Writers : place'[v] = "test"
      BY <1>1, <1>4, <3>1, WriterGoes
    <3>4. OneSender'
      BY <1>2, <2>1, <3>3 DEF OneSender
    <3> QED BY <3>2, <3>4 DEF SerInv
  <2>3. CASE ~IsFull(int_tx)
    <3>1. /\ int_tx' = serial_ringbuffer_putchar(int_tx, accepted + 1)
          /\ accepted' = accepted + 1 /\ place' = place
      BY <1>6, <2>3 DEF Fill
    <3>2. SerTypes'
      BY <1>1, <2>1, <3>1 DEF SerTypes
    <3>3. Out' = Out
      BY <2>1, <3>1 DEF Out, Held
    <3>4. RingHolds(int_tx', Out, s + 1)
      <4>1. Out + s + 1 = accepted + 1
        BY <1>1, <1>3
      <4>2. RingHolds(serial_ringbuffer_putchar(int_tx, Out + s + 1), Out, s + 1)
        BY <1>3, <2>3, RingPut
      <4> QED BY <3>1, <4>1, <4>2
    <3>5. accepted' - Out' = s + 1
      BY <1>1, <1>3, <3>1, <3>3
    <3> HIDE DEF s
    <3>6. InOrder'
      BY <1>1, <2>1, <3>1, <3>3, <3>4, <3>5 DEF InOrder
    <3>7. OneSender'
      BY <1>1, <2>1, <3>1 DEF OneSender
    <3> QED BY <3>2, <3>6, <3>7 DEF SerInv
  <2> QED BY <2>2, <2>3
<1>7. ASSUME TestBusy(w) PROVE SerInv'
  <2>1. /\ place[w] \in {"test", "fill"} /\ MoveTo(w, IF tx_busy THEN "idle" ELSE "start")
        /\ UNCHANGED <<ch, count, accepted, int_tx, tx_fifo, thre, line, SendFifoLength, tx_busy>>
    BY <1>7 DEF TestBusy, txVars
  <2> DEFINE label == IF tx_busy THEN "idle" ELSE "start"
  <2>2. label \in WriterLabels \ {"putc"} /\ (label = "start" => ~tx_busy) /\ label \in {"idle", "start"}
    BY <1>4
  <2> HIDE DEF label
  <2>3. MoveTo(w, label)
    BY <2>1 DEF label
  <2>4. SerTypes' /\ InOrder'
    BY <1>1, <2>1, <2>2, <2>3, SerMoves
  <2>5. \A v \in Writers : place'[v] = label
    BY <1>1, <2>2, <2>3, WriterGoes
  <2>6. OneSender'
    BY <1>2, <2>1, <2>2, <2>5 DEF OneSender
  <2> QED BY <2>4, <2>6 DEF SerInv
<1>8. ASSUME StartSending(w) PROVE SerInv'
  <2>1. /\ place[w] = "start" /\ MoveTo(w, "getc") /\ tx_busy' = TRUE
        /\ count' = [count EXCEPT ![w] = 0]
        /\ UNCHANGED <<ch, accepted, int_tx, tx_fifo, thre, line, SendFifoLength>>
    BY <1>8 DEF StartSending
  <2>2. count' \in [Writers -> {0, 1}]
    BY <1>1, <2>1
  <2>3. SerTypes' /\ InOrder'
    BY <1>1, <1>4, <2>1, <2>2, SerMoves
  <2>4. \A v \in Writers : place'[v] = "getc"
    BY <1>1, <1>4, <2>1, WriterGoes
  <2>5. tx_fifo = <<>> /\ SendFifoLength = 0 /\ ~thre /\ Len(tx_fifo) = 0
    BY <1>2, <2>1, EmptySeq
  <2>6. SendFifoLength < FifoLimit /\ Len(tx_fifo) <= SendFifoLength
    BY <1>1, <2>5
  <2>7. OneSender'
    BY <1>2, <2>1, <2>4, <2>5, <2>6 DEF OneSender
  <2> QED BY <2>3, <2>7 DEF SerInv
<1>9. ASSUME GetForSending(w) PROVE SerInv'
  <2>1. /\ place[w] = "getc"
        /\ UNCHANGED <<count, accepted, tx_fifo, thre, line, SendFifoLength, tx_busy>>
    BY <1>9 DEF GetForSending
  <2>2. CASE s = 0
    <3> DEFINE label == IF count[w] = 0 THEN "mark" ELSE "idle"
    <3>1. MoveTo(w, label) /\ UNCHANGED <<ch, int_tx>>
      BY <1>3, <1>9, <2>2 DEF GetForSending
    <3>2. label \in WriterLabels \ {"putc"} /\ label \in {"mark", "idle"} /\ (label = "mark" => count[w] = 0)
      BY <1>4
    <3> HIDE DEF label
    <3>3. SerTypes' /\ InOrder'
      BY <1>1, <2>1, <3>1, <3>2, SerMoves
    <3>4. \A v \in Writers : place'[v] = label
      BY <1>1, <3>1, <3>2, WriterGoes
    <3>5. \A v \in Writers : count'[v] = count[w]
      BY <1>1, <2>1
    <3>6. OneSender'
      BY <1>2, <2>1, <3>2, <3>4, <3>5 DEF OneSender
    <3> QED BY <3>3, <3>6 DEF SerInv
  <2>3. CASE s # 0
    <3>1. /\ MoveTo(w, "putc") /\ ch' = [ch EXCEPT ![w] = Out + 1]
          /\ int_tx' = Rest(int_tx)
      BY <1>3, <1>9, <2>3 DEF GetForSending, OneWriter
    <3>2. /\ place' \in [Writers -> WriterLabels] /\ \A v \in Writers : place'[v] = "putc"
          /\ Held' = 1 /\ Held = 0
      BY <1>1, <1>4, <2>1, <3>1, WriterGoes
    <3>3. Out = Len(line) + Len(tx_fifo) /\ Out' = Out + 1
      BY <1>1, <2>1, <3>2 DEF Out
    <3>4. ch' \in [Writers -> Nat \cup {NoChar}] /\ \A v \in Writers : ch'[v] = Out + 1
      BY <1>1, <1>3, <3>1
    <3>5. SerTypes'
      BY <1>1, <2>1, <3>2, <3>4 DEF SerTypes
    <3>6. RingHolds(int_tx', Out + 1, s - 1)
      <4>1. 1 \in 0..s
        BY <1>3, <2>3
      <4>2. int_tx' = [int_tx EXCEPT !.get_index = (@ + 1) % RingSize]
        BY <3>1 DEF Rest, After
      <4> QED BY <1>3, <4>1, <4>2, RingTake
    <3>7. accepted' - Out' = s - 1
      BY <1>1, <1>3, <2>1, <3>3
    <3> HIDE DEF s
    <3>8. InOrder'
      BY <1>1, <2>1, <3>3, <3>4, <3>6, <3>7 DEF InOrder
    <3>9. OneSender'
      BY <1>2, <2>1, <3>2 DEF OneSender
    <3> QED BY <3>5, <3>8, <3>9 DEF SerInv
  <2> QED BY <2>2, <2>3
<1>10. ASSUME PutChar(w) PROVE SerInv'
  <2>1. /\ place[w] = "putc" /\ SendFifoLength < FifoLimit /\ tx_busy
        /\ Len(tx_fifo) <= SendFifoLength
    BY <1>2, <1>10 DEF PutChar
  <2>2. /\ MoveTo(w, "inc") /\ thre' = FALSE
        /\ tx_fifo' = IF Len(tx_fifo) < FifoLimit + 1 THEN Append(tx_fifo, ch[w]) ELSE tx_fifo
        /\ count' = [count EXCEPT ![w] = 1] /\ ch' = [ch EXCEPT ![w] = NoChar]
        /\ UNCHANGED <<accepted, int_tx, line, SendFifoLength, tx_busy>>
    BY <1>10, <2>1 DEF PutChar, ToThr, FifoDepth
  <2>3. ch[w] = Len(line) + Len(tx_fifo) + 1
    BY <1>1, <2>1 DEF InOrder
  <2>4. Len(tx_fifo) < FifoLimit + 1
    BY <1>1, <2>1
  <2>5. ch[w] \in Nat
    BY <1>1, <2>3
  <2>6. /\ tx_fifo' \in Seq(Nat) /\ Len(tx_fifo') = Len(tx_fifo) + 1
        /\ \A k \in 1..Len(tx_fifo) : tx_fifo'[k] = tx_fifo[k]
        /\ tx_fifo'[Len(tx_fifo) + 1] = ch[w]
    BY <1>1, <2>2, <2>4, <2>5
  <2>7. /\ place' \in [Writers -> WriterLabels] /\ \A v \in Writers : place'[v] = "inc"
        /\ Held' = 0 /\ Held = 1
    BY <1>1, <1>4, <2>1, <2>2, WriterGoes
  <2>8. Out' = Out
    BY <1>1, <2>2, <2>6, <2>7 DEF Out
  <2>9. SerTypes'
    BY <1>1, <2>2, <2>6, <2>7 DEF SerTypes
  <2>10. \A k \in 1..Len(tx_fifo') : tx_fifo'[k] = Len(line) + k
    <3> SUFFICES ASSUME NEW k \in 1..(Len(tx_fifo) + 1) PROVE tx_fifo'[k] = Len(line) + k
      BY <2>6
    <3>1. CASE k \in 1..Len(tx_fifo)
      BY <1>1, <2>6, <3>1 DEF InOrder
    <3>2. CASE k = Len(tx_fifo) + 1
      BY <1>1, <2>3, <2>6, <3>2
    <3> QED BY <1>1, <3>1, <3>2
  <2>11. InOrder'
    BY <1>1, <2>2, <2>7, <2>8, <2>10 DEF InOrder
  <2>12. Len(tx_fifo') <= SendFifoLength + 1
    BY <1>1, <2>1, <2>6
  <2>13. \A v \in Writers : count'[v] = 1
    BY <1>1, <2>2
  <2>14. OneSender'
    BY <1>2, <2>1, <2>2, <2>7, <2>12, <2>13 DEF OneSender
  <2> QED BY <2>9, <2>11, <2>14 DEF SerInv
<1>11. ASSUME CountSent(w) PROVE SerInv'
  <2> DEFINE label == AfterPut(SendFifoLength + 1)
  <2>1. /\ place[w] = "inc" /\ MoveTo(w, label) /\ SendFifoLength' = SendFifoLength + 1
        /\ UNCHANGED <<ch, count, accepted, int_tx, tx_fifo, thre, line, tx_busy>>
    BY <1>11 DEF CountSent
  <2>2. /\ label \in WriterLabels \ {"putc"} /\ label \in {"idle", "getc"}
        /\ label = "getc" => SendFifoLength + 1 < FifoLimit
    BY <1>1, <1>2, <1>4, <2>1 DEF AfterPut
  <2> HIDE DEF label
  <2>3. SerTypes' /\ InOrder'
    BY <1>1, <2>1, <2>2, SerMoves
  <2>4. \A v \in Writers : place'[v] = label
    BY <1>1, <2>1, <2>2, WriterGoes
  <2>5. tx_busy /\ ~thre /\ Len(tx_fifo) <= SendFifoLength + 1
    BY <1>2, <2>1
  <2>6. \A v \in Writers : count[v] = 1
    BY <1>1, <1>2, <2>1
  <2>7. OneSender'
    BY <1>2, <2>1, <2>2, <2>4, <2>5, <2>6 DEF OneSender
  <2> QED BY <2>3, <2>7 DEF SerInv
<1>12. ASSUME MarkIdle(w) PROVE SerInv'
  <2>1. /\ place[w] = "mark" /\ MoveTo(w, "idle") /\ tx_busy' = FALSE
        /\ UNCHANGED <<ch, count, accepted, int_tx, tx_fifo, thre, line, SendFifoLength>>
    BY <1>12 DEF MarkIdle
  <2>2. SerTypes' /\ InOrder'
    BY <1>1, <1>4, <2>1, SerMoves
  <2>3. \A v \in Writers : place'[v] = "idle"
    BY <1>1, <1>4, <2>1, WriterGoes
  <2>4. tx_fifo = <<>> /\ SendFifoLength = 0 /\ ~thre
    BY <1>2, <2>1
  <2>5. OneSender'
    BY <2>1, <2>3, <2>4 DEF OneSender
  <2> QED BY <2>2, <2>5 DEF SerInv
<1> QED BY <1>5, <1>6, <1>7, <1>8, <1>9, <1>10, <1>11, <1>12 DEF WriterStep

\* Every step keeps the characters in their order.
LEMMA SerStep == OneWriter => (SerInv /\ [SerialNext]_portVars => SerInv')
<1> SUFFICES ASSUME OneWriter, SerInv, [SerialNext]_portVars PROVE SerInv'
  OBVIOUS
<1>1. ASSUME UNCHANGED <<place, ch, count, int_tx, tx_busy, SendFifoLength, tx_fifo, thre, line, accepted>>
      PROVE  SerInv'
  <2>1. SerTypes'
    BY <1>1 DEF SerInv, SerTypes
  <2>2. Out' = Out
    BY <1>1 DEF Out, Held
  <2>3. InOrder'
    BY <1>1, <2>2 DEF SerInv, InOrder
  <2>4. OneSender'
    BY <1>1 DEF SerInv, OneSender
  <2> QED BY <2>1, <2>3, <2>4 DEF SerInv
<1>2. CASE UNCHANGED portVars \/ Arrive \/ ReceiveIsr \/ TimeoutIsr
           \/ Read \/ ReadChar \/ Close \/ Open
  BY <1>1, <1>2 DEF portVars, writerVars, txVars, Arrive, ReceiveIsr, TimeoutIsr,
                    Read, ReadChar, Close, Open
<1> QED BY <1>2, SerTransmit, SerTransmitIsr, SerWriter DEF SerialNext

\* What one writer hands to the port reaches the line in order, none lost,
\* doubled or overtaken, although the writer and the handler both take from the
\* ring: for every size of the ring and of the FIFO, whatever it writes and
\* however the port is closed and opened.
THEOREM SerialLineInOrder == OneWriter => (SerialSpec => []LineInOrder)
<1> SUFFICES ASSUME OneWriter PROVE SerialSpec => []LineInOrder
  OBVIOUS
<1>1. SerialInit => SerInv
  BY SerInitially
<1>2. SerInv /\ [SerialNext]_portVars => SerInv'
  BY SerStep
<1>3. SerInv => LineInOrder
  <2> SUFFICES ASSUME SerInv PROVE line = [k \in 1..Len(line) |-> k]
    BY DEF LineInOrder
  <2>1. line \in Seq(Nat) /\ \A k \in 1..Len(line) : line[k] = k
    BY DEF SerInv, SerTypes, InOrder
  <2>2. line = [k \in 1..Len(line) |-> line[k]]
    BY <2>1
  <2> QED BY <2>1, <2>2
<1> QED BY <1>1, <1>2, <1>3, PTL DEF SerialSpec

\* A character that the ring has accepted is on the line, in the FIFO, in the
\* hand of the writer or in the ring: put_char never finds the FIFO full.
THEOREM SerialDropsNone == OneWriter => (SerialSpec => []NoneDropped)
<1> SUFFICES ASSUME OneWriter PROVE SerialSpec => []NoneDropped
  OBVIOUS
<1>1. SerialInit => SerInv
  BY SerInitially
<1>2. SerInv /\ [SerialNext]_portVars => SerInv'
  BY SerStep
<1>3. SerInv => NoneDropped
  <2> SUFFICES ASSUME SerInv, NEW c \in 1..accepted
               PROVE  \/ \E k \in 1..Len(line) : line[k] = c
                      \/ \E k \in 1..Len(tx_fifo) : tx_fifo[k] = c
                      \/ \E k \in 1..serial_ringbuffer_size(int_tx) : Contents(int_tx)[k] = c
                      \/ \E w \in Writers : ch[w] = c
    BY DEF NoneDropped
  <2> DEFINE a == Len(line)
             b == Len(tx_fifo)
             s == accepted - Out
  <2>1. /\ accepted \in Nat /\ a \in Nat /\ b \in Nat /\ Held \in {0, 1} /\ Out = a + b + Held
        /\ \A k \in 1..a : line[k] = k
        /\ \A k \in 1..b : tx_fifo[k] = a + k
        /\ \A w \in Writers : place[w] = "putc" => ch[w] = a + b + 1
        /\ RingHolds(int_tx, Out, s)
    BY DEF SerInv, SerTypes, InOrder, Out, Held
  <2>2. serial_ringbuffer_size(int_tx) = s /\ \A k \in 1..s : Contents(int_tx)[k] = Out + k
    BY <2>1, RingSeen
  <2> HIDE DEF a, b, s
  <2>3. CASE c <= a
    BY <2>1, <2>3 DEF a
  <2>4. CASE c > a /\ c <= a + b
    <3>1. c - a \in 1..b /\ a + (c - a) = c
      BY <2>1, <2>4
    <3> QED BY <2>1, <3>1 DEF b
  <2>5. CASE c > a + b /\ c <= Out
    <3>1. Held = 1 /\ c = a + b + 1
      BY <2>1, <2>5
    <3>2. \E w \in Writers : place[w] = "putc"
      BY <3>1 DEF Held
    <3> QED BY <2>1, <3>1, <3>2
  <2>6. CASE c > Out
    <3>1. c - Out \in 1..s /\ Out + (c - Out) = c
      BY <2>1, <2>6 DEF s
    <3> QED BY <2>2, <3>1
  <2> QED BY <2>1, <2>3, <2>4, <2>5, <2>6
<1> QED BY <1>1, <1>2, <1>3, PTL DEF SerialSpec

=============================================================================
