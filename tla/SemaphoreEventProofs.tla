------------------------ MODULE SemaphoreEventProofs ------------------------
(***************************************************************************)
(* The safety of the two objects of ipc.c that carry no data and have no   *)
(* owner: the semaphore, for every finite set of threads, every priority   *)
(* assignment, either kind of list, and every choice of the threads that   *)
(* wait with a timeout, reset or delete; and, in the last section, the     *)
(* event, for every set of threads and bits.                               *)
(***************************************************************************)
EXTENDS Semaphore, Event, RtListProofs, FiniteSetTheorems

\* A suspended thread has no error yet: the one rt_sem_release wakes reports
\* RT_EOK, and the token it was handed is its own.
WaitersHaveNoError == \A t \in ToSet(suspend_thread) : error[t] = "EOK"

\* From the moment the loop of rt_ipc_list_resume_all has found the list empty,
\* it stays empty.
EmptyOnceDeleted ==
    (deleted \/ \E d \in Threads : pc[d] = "delete_object") => suspend_thread = <<>>

\* The inductive invariant.
SemaphoreInv ==
    /\ TypeOK
    /\ NoWaiterWhileAvailable
    /\ WaitersAreSuspended
    /\ TokensConserved
    /\ WaitersInOrder
    /\ WaitersHaveNoError
    /\ EmptyOnceDeleted

-----------------------------------------------------------------------------
\* A value below the range of the counter is not changed by the wrap.
LEMMA NoWrap ==
    ASSUME NEW n \in Nat, NEW m \in Nat \ {0}, n < m
    PROVE  n % m = n
  OBVIOUS

\* The order of a RT_IPC_FLAG_PRIO list, as the list lemmas have it.
LEMMA OrderIsSorted ==
    ASSUME suspend_thread \in Seq(Threads)
    PROVE  WaitersInOrder <=> (PrioFlag => SortedBy(suspend_thread, Prio))
  BY DEF WaitersInOrder, SortedBy

\* rt_ipc_list_suspend links the thread once and keeps the order.
LEMMA SuspendList ==
    ASSUME NEW list \in Seq(Threads), NEW t \in Threads
    PROVE  LET r == rt_ipc_list_suspend(list, t, Prio)
           IN  /\ r \in Seq(Threads)
               /\ ToSet(r) = ToSet(list) \cup {t}
               /\ LinkedOnce(list) /\ t \notin ToSet(list) => LinkedOnce(r)
               /\ (PrioFlag => SortedBy(list, Prio)) => (PrioFlag => SortedBy(r, Prio))
<1>1. CASE PrioFlag
  <2>1. rt_ipc_list_suspend(list, t, Prio) = InsertByPriority(list, t, Prio)
    BY <1>1 DEF rt_ipc_list_suspend
  <2>2. Prio \in [Threads -> Int]
    BY IpcAssumption
  <2> QED BY <2>1, <2>2, InsertByPriorityInOrder
<1>2. CASE ~PrioFlag
  <2>1. rt_ipc_list_suspend(list, t, Prio) = InsertBeforeFirst(list, {}, t)
    BY <1>2 DEF rt_ipc_list_suspend, rt_list_insert_before, InsertBeforeFirst
  <2> QED BY <1>2, <2>1, InsertBeforeFirstMembers
<1> QED BY <1>1, <1>2

\* Granted tokens can be counted.
LEMMA GrantedFinite == IsFiniteSet(Granted) /\ Cardinality(Granted) \in Nat
<1>1. IsFiniteSet(Threads)
  BY SemaphoreAssumption
<1>2. Granted \subseteq Threads
  BY DEF Granted
<1> QED BY <1>1, <1>2, FS_Subset, FS_CardinalityType

-----------------------------------------------------------------------------
LEMMA SemaphoreInit == Init => SemaphoreInv
<1> SUFFICES ASSUME Init PROVE SemaphoreInv
  OBVIOUS
<1> USE DEF Init, IpcInit, rt_ipc_object_init
<1>1. TypeOK
  <2>1. InitValue \in 0..MaxTokens /\ MaxTokens \in 0..(ValueMod - 1) /\ ValueMod \in Nat
    BY SemaphoreAssumption
  <2>2. value \in 0..(ValueMod - 1) /\ tokens \in 0..MaxTokens
    BY <2>1
  <2>3. deleted \in BOOLEAN /\ head_as_thread \in BOOLEAN
    OBVIOUS
  <2>4. suspend_thread \in Seq(Threads) /\ thread_timer \subseteq Threads
    OBVIOUS
  <2>5. /\ stat \in [Threads -> {"READY", "SUSPEND"}]
        /\ error \in [Threads -> Errors]
        /\ pc \in [Threads -> {"run", "wait", "delete_test", "delete_resume", "delete_object"}]
    BY DEF Errors
  <2> QED BY <2>2, <2>3, <2>4, <2>5 DEF TypeOK
<1>2. ToSet(suspend_thread) = {}
  BY DEF ToSet
<1>3. WaitersAreSuspended
  <2>1. {t \in Threads : stat[t] = "SUSPEND"} = {}
    OBVIOUS
  <2> QED BY <1>2, <2>1 DEF WaitersAreSuspended, LinkedOnce
<1>4. TokensConserved
  <2>1. Granted = {}
    BY DEF Granted
  <2>2. InitValue \in Nat
    BY SemaphoreAssumption
  <2> QED BY <2>1, <2>2, FS_EmptySet DEF TokensConserved
<1>5. NoWaiterWhileAvailable /\ WaitersInOrder /\ WaitersHaveNoError /\ EmptyOnceDeleted
  BY <1>2 DEF NoWaiterWhileAvailable, WaitersInOrder, WaitersHaveNoError, EmptyOnceDeleted
<1> QED BY <1>1, <1>3, <1>4, <1>5 DEF SemaphoreInv

-----------------------------------------------------------------------------
LEMMA SemaphoreStep == SemaphoreInv /\ [Next]_vars => SemaphoreInv'
<1> SUFFICES ASSUME SemaphoreInv, [Next]_vars
             PROVE  SemaphoreInv'
  OBVIOUS
\* What the invariant says, one fact at a time.
<1>1. /\ stat \in [Threads -> {"READY", "SUSPEND"}]
      /\ error \in [Threads -> Errors]
      /\ thread_timer \subseteq Threads
      /\ pc \in [Threads -> {"run", "wait", "delete_test", "delete_resume", "delete_object"}]
  BY DEF SemaphoreInv, TypeOK
<1>2. /\ value \in 0..(ValueMod - 1)
      /\ tokens \in 0..MaxTokens
      /\ ValueMod \in Nat \ {0}
      /\ MaxTokens \in 0..(ValueMod - 1)
  BY SemaphoreAssumption DEF SemaphoreInv, TypeOK
<1>3. suspend_thread \in Seq(Threads)
  BY DEF SemaphoreInv, TypeOK
<1>4. /\ LinkedOnce(suspend_thread)
      /\ ToSet(suspend_thread) = {t \in Threads : stat[t] = "SUSPEND"}
      /\ thread_timer \subseteq ToSet(suspend_thread)
      /\ \A t \in ToSet(suspend_thread) : pc[t] = "wait"
  BY DEF SemaphoreInv, WaitersAreSuspended
<1>5. suspend_thread # <<>> => value = 0
  BY DEF SemaphoreInv, NoWaiterWhileAvailable
<1>6. value + Cardinality(Granted) = tokens
  BY DEF SemaphoreInv, TokensConserved
<1>7. PrioFlag => SortedBy(suspend_thread, Prio)
  BY <1>3, OrderIsSorted DEF SemaphoreInv
<1>8. \A t \in ToSet(suspend_thread) : error[t] = "EOK"
  BY DEF SemaphoreInv, WaitersHaveNoError
<1>9. EmptyOnceDeleted
  BY DEF SemaphoreInv
<1>10. deleted \in BOOLEAN /\ head_as_thread \in BOOLEAN
  BY DEF SemaphoreInv, TypeOK
<1>11. IsFiniteSet(Granted) /\ Cardinality(Granted) \in Nat
  BY GrantedFinite
\* What a step that leaves the list alone preserves.
<1>12. ASSUME UNCHANGED <<suspend_thread, stat, error, thread_timer>>,
              \A t \in Threads : stat[t] = "SUSPEND" => pc'[t] = pc[t]
       PROVE  WaitersAreSuspended' /\ WaitersInOrder' /\ WaitersHaveNoError'
  <2>1. WaitersAreSuspended'
    BY <1>4, <1>12 DEF WaitersAreSuspended, LinkedOnce, ToSet
  <2>2. WaitersInOrder' /\ WaitersHaveNoError'
    BY <1>12 DEF SemaphoreInv, WaitersInOrder, WaitersHaveNoError, ToSet
  <2> QED BY <2>1, <2>2
\* What every action that takes threads out of the list preserves: w are the
\* threads taken out, and the list keeps its order.
<1>13. ASSUME NEW w \in SUBSET Threads,
              suspend_thread' \in Seq(Threads),
              LinkedOnce(suspend_thread'),
              ToSet(suspend_thread') = ToSet(suspend_thread) \ w,
              PrioFlag => SortedBy(suspend_thread', Prio),
              \A u \in Threads : stat'[u] = IF u \in w THEN "READY" ELSE stat[u],
              \A u \in Threads \ w : error'[u] = error[u],
              thread_timer' = thread_timer \ w,
              \A u \in Threads : stat[u] = "SUSPEND" => pc'[u] = pc[u]
       PROVE  WaitersAreSuspended' /\ WaitersInOrder' /\ WaitersHaveNoError'
  <2>1. ToSet(suspend_thread') = {u \in Threads : stat'[u] = "SUSPEND"}
    <3>1. ToSet(suspend_thread') \subseteq {u \in Threads : stat'[u] = "SUSPEND"}
      BY <1>4, <1>13
    <3>2. {u \in Threads : stat'[u] = "SUSPEND"} \subseteq ToSet(suspend_thread')
      BY <1>4, <1>13
    <3> QED BY <3>1, <3>2
  <2>2. thread_timer' \subseteq ToSet(suspend_thread')
    BY <1>4, <1>13
  <2>3. \A u \in ToSet(suspend_thread') : pc'[u] = "wait"
    BY <1>4, <1>13
  <2>4. WaitersAreSuspended'
    BY <1>13, <2>1, <2>2, <2>3 DEF WaitersAreSuspended
  <2>5. WaitersInOrder'
    BY <1>13 DEF WaitersInOrder, SortedBy
  <2>6. WaitersHaveNoError'
    BY <1>4, <1>8, <1>13 DEF WaitersHaveNoError
  <2> QED BY <2>4, <2>5, <2>6
\* What a step of a deleting thread that leaves the list alone preserves.
<1>14. ASSUME NEW d \in Threads,
              NEW label \in {"run", "delete_test", "delete_resume", "delete_object"},
              stat[d] = "READY", pc[d] # "wait",
              pc' = [pc EXCEPT ![d] = label],
              label = "delete_object" => suspend_thread = <<>>,
              deleted' \in BOOLEAN, head_as_thread' \in BOOLEAN,
              deleted' => deleted \/ suspend_thread = <<>>,
              UNCHANGED <<stat, error, thread_timer, value, suspend_thread, tokens>>
       PROVE  SemaphoreInv'
  <2>1. Granted' = Granted
    BY <1>1, <1>14 DEF Granted
  <2>2. TokensConserved'
    BY <1>6, <1>14, <2>1 DEF TokensConserved
  <2>3. TypeOK'
    <3>1. pc' \in [Threads -> {"run", "wait", "delete_test", "delete_resume", "delete_object"}]
      BY <1>1, <1>14
    <3> QED BY <1>1, <1>2, <1>3, <1>14, <3>1 DEF TypeOK
  <2>4. NoWaiterWhileAvailable'
    BY <1>5, <1>14 DEF NoWaiterWhileAvailable
  <2>5. EmptyOnceDeleted'
    <3>1. \A u \in Threads : pc'[u] = "delete_object" =>
              pc[u] = "delete_object" \/ suspend_thread = <<>>
      BY <1>1, <1>14
    <3> QED BY <1>9, <1>14, <3>1 DEF EmptyOnceDeleted
  <2>6. WaitersAreSuspended' /\ WaitersInOrder' /\ WaitersHaveNoError'
    <3>1. \A u \in Threads : stat[u] = "SUSPEND" => pc'[u] = pc[u]
      BY <1>1, <1>14
    <3> QED BY <1>12, <1>14, <3>1
  <2> QED BY <2>2, <2>3, <2>4, <2>5, <2>6 DEF SemaphoreInv
\* One step per action.
<1>20. CASE UNCHANGED vars
  <2>1. TypeOK' /\ NoWaiterWhileAvailable' /\ EmptyOnceDeleted'
    BY <1>20 DEF SemaphoreInv, vars, ipcVars, TypeOK, NoWaiterWhileAvailable, EmptyOnceDeleted
  <2>2. WaitersAreSuspended' /\ WaitersInOrder' /\ WaitersHaveNoError'
    BY <1>12, <1>20 DEF vars, ipcVars
  <2>3. TokensConserved'
    BY <1>6, <1>20 DEF vars, ipcVars, TokensConserved, Granted
  <2> QED BY <2>1, <2>2, <2>3 DEF SemaphoreInv
<1>21. ASSUME NEW t \in Threads, Take(t) PROVE SemaphoreInv'
  <2>1. /\ value > 0 /\ value' = value - 1 /\ tokens' = tokens - 1
        /\ UNCHANGED <<stat, error, thread_timer, pc, suspend_thread, deleted, head_as_thread>>
    BY <1>21 DEF Take, Available, ipcVars
  <2>2. Granted' = Granted
    BY <2>1 DEF Granted
  <2>3. TokensConserved'
    BY <1>2, <1>6, <1>11, <2>1, <2>2 DEF TokensConserved
  <2>4. value' \in 0..(ValueMod - 1) /\ tokens' \in 0..MaxTokens
    BY <1>2, <1>6, <1>11, <2>1
  <2>5. TypeOK'
    BY <1>1, <1>3, <1>10, <2>1, <2>4 DEF TypeOK
  <2>6. NoWaiterWhileAvailable'
    BY <1>2, <1>5, <2>1 DEF NoWaiterWhileAvailable
  <2>7. EmptyOnceDeleted'
    BY <1>9, <2>1 DEF EmptyOnceDeleted
  <2> QED BY <1>12, <2>1, <2>3, <2>5, <2>6, <2>7 DEF SemaphoreInv
<1>22. ASSUME NEW t \in Threads, NEW timed \in BOOLEAN, TakeSuspend(t, timed)
       PROVE  SemaphoreInv'
  <2>1. /\ Usable /\ stat[t] = "READY" /\ pc[t] = "run" /\ ~(value > 0)
        /\ stat' = [stat EXCEPT ![t] = "SUSPEND"]
        /\ error' = [error EXCEPT ![t] = "EOK"]
        /\ thread_timer' = IF timed THEN thread_timer \cup {t} ELSE thread_timer
        /\ suspend_thread' = rt_ipc_list_suspend(suspend_thread, t, Prio)
        /\ pc' = [pc EXCEPT ![t] = "wait"]
        /\ UNCHANGED <<value, deleted, tokens, head_as_thread>>
    BY <1>22 DEF TakeSuspend, Available, At, Suspend, Goto
  <2>2. t \notin ToSet(suspend_thread)
    BY <1>4, <2>1
  <2>3. /\ suspend_thread' \in Seq(Threads)
        /\ ToSet(suspend_thread') = ToSet(suspend_thread) \cup {t}
        /\ LinkedOnce(suspend_thread')
        /\ PrioFlag => SortedBy(suspend_thread', Prio)
    BY <1>3, <1>4, <1>7, <2>1, <2>2, SuspendList
  <2>4. TypeOK'
    <3>1. /\ stat' \in [Threads -> {"READY", "SUSPEND"}]
          /\ error' \in [Threads -> Errors]
          /\ pc' \in [Threads -> {"run", "wait", "delete_test", "delete_resume", "delete_object"}]
      BY <1>1, <2>1 DEF Errors
    <3>2. thread_timer' \subseteq Threads
      BY <1>1, <2>1
    <3> QED BY <1>2, <1>10, <2>1, <2>3, <3>1, <3>2 DEF TypeOK
  <2>5. NoWaiterWhileAvailable'
    BY <1>2, <2>1 DEF NoWaiterWhileAvailable
  <2>6. WaitersAreSuspended'
    <3>1. {u \in Threads : stat'[u] = "SUSPEND"} = ToSet(suspend_thread) \cup {t}
      BY <1>1, <1>4, <2>1
    <3>2. thread_timer' \subseteq ToSet(suspend_thread')
      BY <1>4, <2>1, <2>3
    <3>3. \A u \in ToSet(suspend_thread') : pc'[u] = "wait"
      <4> SUFFICES ASSUME NEW u \in ToSet(suspend_thread) \cup {t} PROVE pc'[u] = "wait"
        BY <2>3
      <4>1. u \in Threads
        BY <1>4
      <4> QED BY <1>1, <1>4, <2>1, <4>1
    <3> QED BY <2>3, <3>1, <3>2, <3>3 DEF WaitersAreSuspended
  <2>7. TokensConserved'
    <3>1. Granted' = Granted
      BY <1>1, <2>1 DEF Granted
    <3> QED BY <1>6, <2>1, <3>1 DEF TokensConserved
  <2>8. WaitersInOrder'
    BY <2>3 DEF WaitersInOrder, SortedBy
  <2>9. WaitersHaveNoError'
    <3> SUFFICES ASSUME NEW u \in ToSet(suspend_thread) \cup {t} PROVE error'[u] = "EOK"
      BY <2>3 DEF WaitersHaveNoError
    <3>1. u \in Threads
      BY <1>4
    <3> QED BY <1>1, <1>8, <2>1, <3>1
  <2>10. EmptyOnceDeleted'
    <3>1. ~deleted /\ \A d \in Threads : pc[d] # "delete_object"
      BY <2>1 DEF Usable
    <3>2. \A d \in Threads : pc'[d] # "delete_object"
      BY <1>1, <2>1, <3>1
    <3> QED BY <2>1, <3>1, <3>2 DEF EmptyOnceDeleted
  <2> QED BY <2>4, <2>5, <2>6, <2>7, <2>8, <2>9, <2>10 DEF SemaphoreInv
<1>23. ASSUME NEW t \in Threads, TakeReturn(t) PROVE SemaphoreInv'
  <2>1. /\ stat[t] = "READY" /\ pc[t] = "wait"
        /\ tokens' = IF error[t] = "EOK" THEN tokens - 1 ELSE tokens
        /\ pc' = [pc EXCEPT ![t] = "run"]
        /\ UNCHANGED <<stat, error, thread_timer, value, suspend_thread, deleted, head_as_thread>>
    BY <1>23 DEF TakeReturn, At, Goto
  <2>2. Granted' = Granted \ {t}
    BY <1>1, <2>1 DEF Granted
  <2>3. TokensConserved' /\ tokens' \in 0..MaxTokens
    <3>1. CASE error[t] = "EOK"
      <4>1. t \in Granted
        BY <2>1, <3>1 DEF Granted
      <4>2. Cardinality(Granted \ {t}) = Cardinality(Granted) - 1
        BY <1>11, <4>1, FS_RemoveElement
      <4>3. Cardinality(Granted \ {t}) \in Nat
        BY <1>11, FS_Subset, FS_CardinalityType
      <4>4. tokens' = tokens - 1 /\ value' = value
        BY <2>1, <3>1
      <4>5. Cardinality(Granted)' = Cardinality(Granted) - 1
        BY <2>2, <4>2
      <4>6. TokensConserved'
        BY <1>2, <1>6, <1>11, <4>4, <4>5 DEF TokensConserved
      <4>7. tokens' \in 0..MaxTokens
        BY <1>2, <1>6, <1>11, <4>2, <4>3, <4>4
      <4> QED BY <4>6, <4>7
    <3>2. CASE error[t] # "EOK"
      <4>1. Granted' = Granted
        BY <2>2, <3>2 DEF Granted
      <4> QED BY <1>2, <1>6, <2>1, <3>2, <4>1 DEF TokensConserved
    <3> QED BY <3>1, <3>2
  <2>4. TypeOK'
    <3>1. pc' \in [Threads -> {"run", "wait", "delete_test", "delete_resume", "delete_object"}]
      BY <1>1, <2>1
    <3> QED BY <1>1, <1>2, <1>3, <1>10, <2>1, <2>3, <3>1 DEF TypeOK
  <2>5. NoWaiterWhileAvailable'
    BY <1>5, <2>1 DEF NoWaiterWhileAvailable
  <2>6. WaitersAreSuspended' /\ WaitersInOrder' /\ WaitersHaveNoError'
    <3>1. \A u \in Threads : stat[u] = "SUSPEND" => pc'[u] = pc[u]
      BY <1>1, <2>1
    <3> QED BY <1>12, <2>1, <3>1
  <2>7. EmptyOnceDeleted'
    <3>1. \A d \in Threads : pc'[d] = "delete_object" => pc[d] = "delete_object"
      BY <1>1, <2>1
    <3> QED BY <1>9, <2>1, <3>1 DEF EmptyOnceDeleted
  <2> QED BY <2>3, <2>4, <2>5, <2>6, <2>7 DEF SemaphoreInv
<1>24. ASSUME Release, suspend_thread = <<>> PROVE SemaphoreInv'
  <2>1. /\ tokens < MaxTokens /\ tokens' = tokens + 1
        /\ value' = (value + 1) % ValueMod
        /\ UNCHANGED <<stat, error, thread_timer, suspend_thread, pc, deleted, head_as_thread>>
    BY <1>24 DEF Release, ReleasedValue, rt_list_isempty
  <2>2. value + 1 \in Nat /\ value + 1 < ValueMod
    BY <1>2, <1>6, <1>11, <2>1
  <2>3. value' = value + 1
    BY <1>2, <2>1, <2>2, NoWrap
  <2>4. Granted' = Granted
    BY <2>1 DEF Granted
  <2>5. TokensConserved'
    BY <1>2, <1>6, <1>11, <2>1, <2>3, <2>4 DEF TokensConserved
  <2>6. value' \in 0..(ValueMod - 1) /\ tokens' \in 0..MaxTokens
    BY <1>2, <2>1, <2>2, <2>3
  <2>7. TypeOK'
    BY <1>1, <1>3, <1>10, <2>1, <2>6 DEF TypeOK
  <2>8. NoWaiterWhileAvailable' /\ EmptyOnceDeleted'
    BY <1>24, <2>1 DEF NoWaiterWhileAvailable, EmptyOnceDeleted
  <2> QED BY <1>12, <2>1, <2>5, <2>7, <2>8 DEF SemaphoreInv
<1>25. ASSUME Release, suspend_thread # <<>> PROVE SemaphoreInv'
  <2> DEFINE h == Head(suspend_thread)
  <2>1. /\ tokens < MaxTokens /\ tokens' = tokens + 1
        /\ value' = value
        /\ stat' = [stat EXCEPT ![h] = "READY"]
        /\ thread_timer' = thread_timer \ {h}
        /\ suspend_thread' = Tail(suspend_thread)
        /\ UNCHANGED <<error, pc, deleted, head_as_thread>>
    BY <1>25 DEF Release, ReleasedValue, rt_list_isempty, Resume
  <2>2. /\ h \in Threads
        /\ h \in ToSet(suspend_thread)
        /\ Tail(suspend_thread) \in Seq(Threads)
        /\ ToSet(suspend_thread) = ToSet(Tail(suspend_thread)) \cup {h}
        /\ h \notin ToSet(Tail(suspend_thread))
        /\ LinkedOnce(Tail(suspend_thread))
    BY <1>3, <1>4, <1>25, TailMembers
  <2>3. PrioFlag => SortedBy(Tail(suspend_thread), Prio)
    BY <1>3, <1>7, <1>25, TailSorted
  <2> HIDE DEF h
  <2>4. stat[h] = "SUSPEND" /\ pc[h] = "wait" /\ error[h] = "EOK"
    BY <1>4, <1>8, <2>2
  <2>5. Granted' = Granted \cup {h} /\ h \notin Granted
    BY <1>1, <2>1, <2>2, <2>4 DEF Granted
  <2>6. Cardinality(Granted \cup {h}) = Cardinality(Granted) + 1
    BY <1>11, <2>5, FS_AddElement
  <2>7. TokensConserved'
    BY <1>2, <1>6, <1>11, <2>1, <2>5, <2>6 DEF TokensConserved
  <2>8. TypeOK'
    <3>1. stat' \in [Threads -> {"READY", "SUSPEND"}] /\ thread_timer' \subseteq Threads
      BY <1>1, <2>1
    <3>2. value' \in 0..(ValueMod - 1) /\ tokens' \in 0..MaxTokens
      BY <1>2, <2>1
    <3> QED BY <1>1, <1>10, <2>1, <2>2, <3>1, <3>2 DEF TypeOK
  <2>9. NoWaiterWhileAvailable'
    BY <1>5, <1>25, <2>1 DEF NoWaiterWhileAvailable
  <2>10. EmptyOnceDeleted'
    BY <1>9, <1>25, <2>1 DEF EmptyOnceDeleted
  <2>11. WaitersAreSuspended' /\ WaitersInOrder' /\ WaitersHaveNoError'
    <3>1. ToSet(suspend_thread') = ToSet(suspend_thread) \ {h}
      BY <2>1, <2>2
    <3>2. \A u \in Threads : stat'[u] = IF u \in {h} THEN "READY" ELSE stat[u]
      BY <1>1, <2>1
    <3> QED BY <1>13, <2>1, <2>2, <2>3, <3>1, <3>2
  <2> QED BY <2>7, <2>8, <2>9, <2>10, <2>11 DEF SemaphoreInv

<1>26. ASSUME NEW t \in Threads, TakeTimeout(t) PROVE SemaphoreInv'
  <2>1. /\ t \in thread_timer
        /\ stat' = [stat EXCEPT ![t] = "READY"]
        /\ error' = [error EXCEPT ![t] = "ETIMEOUT"]
        /\ thread_timer' = thread_timer \ {t}
        /\ suspend_thread' = rt_list_remove(suspend_thread, t)
        /\ UNCHANGED <<pc, value, deleted, tokens, head_as_thread>>
    BY <1>26 DEF TakeTimeout, Timeout
  <2>2. suspend_thread # <<>> /\ stat[t] = "SUSPEND"
    <3>1. t \in ToSet(suspend_thread)
      BY <1>4, <2>1
    <3> QED BY <1>4, <3>1 DEF ToSet
  <2>3. /\ suspend_thread' \in Seq(Threads)
        /\ ToSet(suspend_thread') = ToSet(suspend_thread) \ {t}
        /\ LinkedOnce(suspend_thread')
    BY <1>3, <1>4, <2>1, RemoveMembers
  <2>4. PrioFlag => SortedBy(suspend_thread', Prio)
    BY <1>3, <1>7, <2>1, RemoveSorted
  <2>5. Granted' = Granted
    BY <1>1, <2>1, <2>2 DEF Granted
  <2>6. TokensConserved'
    BY <1>6, <2>1, <2>5 DEF TokensConserved
  <2>7. TypeOK'
    <3>1. /\ stat' \in [Threads -> {"READY", "SUSPEND"}]
          /\ error' \in [Threads -> Errors]
          /\ thread_timer' \subseteq Threads
      BY <1>1, <2>1 DEF Errors
    <3> QED BY <1>1, <1>2, <1>10, <2>1, <2>3, <3>1 DEF TypeOK
  <2>8. NoWaiterWhileAvailable' /\ EmptyOnceDeleted'
    BY <1>5, <1>9, <2>1, <2>2 DEF NoWaiterWhileAvailable, EmptyOnceDeleted
  <2>9. WaitersAreSuspended' /\ WaitersInOrder' /\ WaitersHaveNoError'
    <3>1. \A u \in Threads : stat'[u] = IF u \in {t} THEN "READY" ELSE stat[u]
      BY <1>1, <2>1
    <3>2. \A u \in Threads \ {t} : error'[u] = error[u]
      BY <1>1, <2>1
    <3> QED BY <1>13, <2>1, <2>3, <2>4, <3>1, <3>2
  <2> QED BY <2>6, <2>7, <2>8, <2>9 DEF SemaphoreInv
<1>27. ASSUME NEW t \in Threads, NEW v \in 0..MaxTokens, Reset(t, v) PROVE SemaphoreInv'
  <2> DEFINE w == ToSet(suspend_thread)
  <2>1. /\ v + Cardinality(Granted) <= MaxTokens
        /\ stat' = [u \in Threads |-> IF u \in w THEN "READY" ELSE stat[u]]
        /\ error' = [u \in Threads |-> IF u \in w THEN "ERROR" ELSE error[u]]
        /\ thread_timer' = thread_timer \ w
        /\ suspend_thread' = <<>>
        /\ value' = v % ValueMod
        /\ tokens' = v + Cardinality(Granted)
        /\ UNCHANGED <<pc, deleted, head_as_thread>>
    BY <1>27 DEF Reset, ResumeAll
  <2>2. value' = v
    <3>1. v \in Nat /\ v < ValueMod
      BY <1>2
    <3> QED BY <1>2, <2>1, <3>1, NoWrap
  <2>3. w \subseteq Threads /\ \A u \in w : stat[u] = "SUSPEND"
    BY <1>4
  <2> HIDE DEF w
  <2>4. Granted' = Granted
    BY <2>1, <2>3 DEF Granted
  <2>5. TokensConserved'
    BY <2>1, <2>2, <2>4 DEF TokensConserved
  <2>6. TypeOK'
    <3>1. stat' \in [Threads -> {"READY", "SUSPEND"}]
      BY <1>1, <2>1
    <3>2. error' \in [Threads -> Errors]
      BY <1>1, <2>1 DEF Errors
    <3>3. thread_timer' \subseteq Threads /\ suspend_thread' \in Seq(Threads)
      BY <1>1, <2>1
    <3>4. value' \in 0..(ValueMod - 1) /\ tokens' \in 0..MaxTokens
      BY <1>2, <1>11, <2>1, <2>2
    <3> QED BY <1>1, <1>10, <2>1, <3>1, <3>2, <3>3, <3>4 DEF TypeOK
  <2>7. NoWaiterWhileAvailable' /\ EmptyOnceDeleted'
    BY <2>1 DEF NoWaiterWhileAvailable, EmptyOnceDeleted
  <2>8. WaitersAreSuspended' /\ WaitersInOrder' /\ WaitersHaveNoError'
    <3>1. ToSet(suspend_thread') = {} /\ LinkedOnce(suspend_thread')
      BY <2>1 DEF ToSet, LinkedOnce
    <3>2. SortedBy(suspend_thread', Prio)
      BY <2>1 DEF SortedBy
    <3>3. ToSet(suspend_thread') = ToSet(suspend_thread) \ w
      BY <3>1 DEF w
    <3>4. /\ \A u \in Threads : stat'[u] = IF u \in w THEN "READY" ELSE stat[u]
          /\ \A u \in Threads \ w : error'[u] = error[u]
          /\ suspend_thread' \in Seq(Threads)
      BY <2>1
    <3> QED BY <1>13, <2>1, <2>3, <3>1, <3>2, <3>3, <3>4
  <2> QED BY <2>5, <2>6, <2>7, <2>8 DEF SemaphoreInv
<1>28. ASSUME NEW d \in Threads, DeleteTest(d) PROVE SemaphoreInv'
  <2>1. /\ stat[d] = "READY" /\ pc[d] # "wait"
        /\ pc' = [pc EXCEPT ![d] = LoopTest]
        /\ UNCHANGED <<stat, error, thread_timer, value, suspend_thread, deleted, tokens,
                       head_as_thread>>
    BY <1>28 DEF DeleteTest, At, Goto
  <2>2. /\ LoopTest \in {"run", "delete_test", "delete_resume", "delete_object"}
        /\ LoopTest = "delete_object" => suspend_thread = <<>>
    BY DEF LoopTest, rt_list_isempty
  <2> QED BY <1>10, <1>14, <2>1, <2>2
<1>29. ASSUME NEW d \in Threads, DeleteResume(d), suspend_thread = <<>> PROVE SemaphoreInv'
  <2>1. /\ stat[d] = "READY" /\ pc[d] # "wait"
        /\ pc' = [pc EXCEPT ![d] = "delete_test"]
        /\ head_as_thread' = TRUE
        /\ UNCHANGED <<stat, error, thread_timer, value, suspend_thread, deleted, tokens>>
    BY <1>29 DEF DeleteResume, At, Goto, rt_list_isempty
  <2> QED BY <1>10, <1>14, <2>1
<1>30. ASSUME NEW d \in Threads, DeleteResume(d), suspend_thread # <<>> PROVE SemaphoreInv'
  <2> DEFINE h == Head(suspend_thread)
  <2>1. /\ stat[d] = "READY" /\ pc[d] = "delete_resume"
        /\ pc' = [pc EXCEPT ![d] = "delete_test"]
        /\ stat' = [stat EXCEPT ![h] = "READY"]
        /\ error' = [error EXCEPT ![h] = "ERROR"]
        /\ thread_timer' = thread_timer \ {h}
        /\ suspend_thread' = Tail(suspend_thread)
        /\ UNCHANGED <<value, deleted, tokens, head_as_thread>>
    BY <1>30 DEF DeleteResume, At, Goto, rt_list_isempty, ResumeWithError
  <2>2. /\ h \in Threads
        /\ h \in ToSet(suspend_thread)
        /\ Tail(suspend_thread) \in Seq(Threads)
        /\ ToSet(suspend_thread) = ToSet(Tail(suspend_thread)) \cup {h}
        /\ h \notin ToSet(Tail(suspend_thread))
        /\ LinkedOnce(Tail(suspend_thread))
    BY <1>3, <1>4, <1>30, TailMembers
  <2>3. PrioFlag => SortedBy(Tail(suspend_thread), Prio)
    BY <1>3, <1>7, <1>30, TailSorted
  <2> HIDE DEF h
  <2>4. stat[h] = "SUSPEND"
    BY <1>4, <2>2
  <2>5. Granted' = Granted
    BY <1>1, <2>1, <2>2, <2>4 DEF Granted
  <2>6. TokensConserved'
    BY <1>6, <2>1, <2>5 DEF TokensConserved
  <2>7. TypeOK'
    <3>1. /\ stat' \in [Threads -> {"READY", "SUSPEND"}]
          /\ error' \in [Threads -> Errors]
          /\ thread_timer' \subseteq Threads
          /\ pc' \in [Threads -> {"run", "wait", "delete_test", "delete_resume", "delete_object"}]
      BY <1>1, <2>1 DEF Errors
    <3> QED BY <1>2, <1>10, <2>1, <2>2, <3>1 DEF TypeOK
  <2>8. NoWaiterWhileAvailable'
    BY <1>5, <1>30, <2>1 DEF NoWaiterWhileAvailable
  <2>9. EmptyOnceDeleted'
    <3>1. ~deleted /\ \A u \in Threads : pc[u] # "delete_object"
      BY <1>9, <1>30 DEF EmptyOnceDeleted
    <3>2. \A u \in Threads : pc'[u] # "delete_object"
      BY <1>1, <2>1, <3>1
    <3> QED BY <2>1, <3>1, <3>2 DEF EmptyOnceDeleted
  <2>10. WaitersAreSuspended' /\ WaitersInOrder' /\ WaitersHaveNoError'
    <3>1. ToSet(suspend_thread') = ToSet(suspend_thread) \ {h}
      BY <2>1, <2>2
    <3>2. \A u \in Threads : stat'[u] = IF u \in {h} THEN "READY" ELSE stat[u]
      BY <1>1, <2>1
    <3>3. \A u \in Threads \ {h} : error'[u] = error[u]
      BY <1>1, <2>1
    <3>4. \A u \in Threads : stat[u] = "SUSPEND" => pc'[u] = pc[u]
      BY <1>1, <2>1
    <3> QED BY <1>13, <2>1, <2>2, <2>3, <3>1, <3>2, <3>3, <3>4
  <2> QED BY <2>6, <2>7, <2>8, <2>9, <2>10 DEF SemaphoreInv
<1>31. ASSUME NEW d \in Threads, DeleteObject(d) PROVE SemaphoreInv'
  <2>1. /\ stat[d] = "READY" /\ pc[d] = "delete_object"
        /\ pc' = [pc EXCEPT ![d] = "run"]
        /\ deleted' = TRUE
        /\ UNCHANGED <<stat, error, thread_timer, value, suspend_thread, tokens, head_as_thread>>
    BY <1>31 DEF DeleteObject, At, Goto
  <2>2. suspend_thread = <<>>
    BY <1>9, <2>1 DEF EmptyOnceDeleted
  <2> QED BY <1>10, <1>14, <2>1, <2>2
<1>40. CASE Next
  <2>1. Release \/ \E t \in Threads : Step(t)
    BY <1>40 DEF Next
  <2>2. ASSUME NEW t \in Threads, Step(t) PROVE SemaphoreInv'
    BY <1>21, <1>22, <1>23, <1>26, <1>27, <1>28, <1>29, <1>30, <1>31, <2>2 DEF Step
  <2> QED BY <1>24, <1>25, <2>1, <2>2
<1> QED BY <1>20, <1>40

\* The inductive invariant holds of every behaviour.
LEMMA SemaphoreInductive == Spec => []SemaphoreInv
  BY SemaphoreInit, SemaphoreStep, PTL DEF Spec

-----------------------------------------------------------------------------
\* Every variable keeps its type: in particular sem->value stays in the range
\* of its counter and no operation links anything but a thread.
THEOREM SemaphoreTyping == Spec => []TypeOK
  BY SemaphoreInductive, PTL DEF SemaphoreInv

\* No lost wakeup: rt_sem_release, the timeouts and rt_sem_control never leave
\* a thread suspended on a semaphore with a positive value.
THEOREM SemaphoreNoLostWakeup == Spec => []NoWaiterWhileAvailable
  BY SemaphoreInductive, PTL DEF SemaphoreInv

\* The waiting list is exactly the threads suspended in rt_sem_take, and a
\* thread timer runs for nobody else.
THEOREM SemaphoreWaiters == Spec => []WaitersAreSuspended
  BY SemaphoreInductive, PTL DEF SemaphoreInv

\* rt_sem_take and rt_sem_release neither lose nor make up a token, whoever
\* times out meanwhile.
THEOREM SemaphoreTokens == Spec => []TokensConserved
  BY SemaphoreInductive, PTL DEF SemaphoreInv

\* A RT_IPC_FLAG_PRIO semaphore keeps its waiters in order of priority through
\* every insertion by rt_ipc_list_suspend and every removal.
THEOREM SemaphoreOrder == Spec => []WaitersInOrder
  BY SemaphoreInductive, PTL DEF SemaphoreInv

\* rt_sem_delete and rt_sem_detach leave no thread suspended.
THEOREM SemaphoreDeletion == Spec => []DeleteWakesAll
<1>1. SemaphoreInv => DeleteWakesAll
  BY DEF SemaphoreInv, EmptyOnceDeleted, DeleteWakesAll
<1> QED BY <1>1, SemaphoreInductive, PTL

\* The three facts about the list of waiters that rt_sem_release, rt_sem_delete
\* and the timeouts rely on together.
THEOREM SemaphoreListConsistent == Spec => []WaitersConsistent
<1>1. WaitersAreSuspended /\ WaitersInOrder /\ DeleteWakesAll => WaitersConsistent
  BY DEF WaitersConsistent
<1> QED BY <1>1, SemaphoreWaiters, SemaphoreOrder, SemaphoreDeletion, PTL

-----------------------------------------------------------------------------
(* The event. *)

EventTypes ==
    /\ stat \in [Threads -> {"READY", "SUSPEND"}]
    /\ pc \in [Threads -> {"run", "wait"}]
    /\ set \subseteq Bits /\ suspend_thread \in Seq(Threads)
    /\ event_set \in [Threads -> SUBSET Bits]
    /\ event_info \in [Threads -> [and : BOOLEAN, clear : BOOLEAN]]
    /\ wanted \in [Threads -> [bits : SUBSET Bits, and : BOOLEAN]]
    /\ recved \in [Threads -> SUBSET Bits]

\* The list holds the suspended threads, each once, and what rt_event_recv was
\* asked for is what rt_event_send will look at.
ReceiversAsk ==
    /\ LinkedOnce(suspend_thread)
    /\ ToSet(suspend_thread) = {t \in Threads : stat[t] = "SUSPEND"}
    /\ \A t \in ToSet(suspend_thread) :
          /\ pc[t] = "wait"
          /\ event_set[t] = wanted[t].bits /\ event_info[t].and = wanted[t].and

\* A thread inside rt_event_recv has in event_set what it may report.
WillReport ==
    \A t \in Threads : pc[t] = "wait" =>
        /\ event_set[t] \subseteq wanted[t].bits
        /\ wanted[t].and => event_set[t] = wanted[t].bits

\* The inductive invariant.
EventInv ==
    /\ EventTypes /\ ReceiversAsk /\ WillReport
    /\ NoSatisfiedWaiter /\ ReceivesWhatItWanted

\* Fewer bits satisfy nobody who was not satisfied.
LEMMA FewerBits ==
    ASSUME NEW option, NEW bits, NEW s, NEW r, r \subseteq s, ~Satisfied(option, bits, s)
    PROVE  ~Satisfied(option, bits, r)
BY DEF Satisfied

\* The turns of the loop of rt_event_send only take bits away.
LEMMA TurnsTakeBits ==
    ASSUME NEW n \in Nat, n = Len(suspend_thread), DOMAIN suspend_thread = 1..n,
           NEW s \in [1..(n + 1) -> SUBSET Bits],
           \A i \in 1..n : s[i + 1] = AfterTurn(s, i)
    PROVE  \A i, j \in 1..(n + 1) : i <= j => s[j] \subseteq s[i]
<1> SUFFICES ASSUME NEW i \in 1..(n + 1), NEW k \in 1..(n + 1), i <= k, ~(s[k] \subseteq s[i])
             PROVE  FALSE
  OBVIOUS
<1> DEFINE Bad == {j \in 1..(n + 1) : i <= j /\ ~(s[j] \subseteq s[i])}
<1>1. Bad \in SUBSET Nat /\ Bad # {}
  OBVIOUS
<1>2. PICK j \in Bad : \A q \in Bad : j <= q
  BY <1>1, LeastExists
<1>3. j \in 1..(n + 1) /\ i <= j /\ ~(s[j] \subseteq s[i]) /\ j # i
  BY <1>2
<1>4. j - 1 \in 1..n /\ j - 1 \in 1..(n + 1) /\ i <= j - 1 /\ (j - 1) + 1 = j
  BY <1>3
<1>5. s[j - 1] \subseteq s[i]
  <2>1. j - 1 \notin Bad
    BY <1>2, <1>4
  <2> QED BY <1>4, <2>1
<1>6. s[j] = AfterTurn(s, j - 1)
  BY <1>4
<1>7. s[j] \subseteq s[j - 1]
  BY <1>6 DEF AfterTurn
<1> QED BY <1>3, <1>5, <1>7

\* A list without some of its nodes.
LEMMA RemainingMembers ==
    ASSUME NEW S, NEW list \in Seq(S), LinkedOnce(list), NEW gone, NEW r \in Remaining(list, gone)
    PROVE  /\ r \in Seq(S) /\ LinkedOnce(r)
           /\ ToSet(r) = ToSet(list) \ gone
<1>1. PICK n \in 0..Len(list) : r \in [1..n -> ToSet(list)]
  BY DEF Remaining
<1>2. /\ ToSet(r) = ToSet(list) \ gone
      /\ \A j, k \in DOMAIN r : j < k =>
            \E i, l \in DOMAIN list : i < l /\ list[i] = r[j] /\ list[l] = r[k]
  BY DEF Remaining
<1>3. ToSet(list) \subseteq S
  BY DEF ToSet
<1>4. n \in Nat /\ DOMAIN r = 1..n /\ r \in [1..n -> S]
  BY <1>1, <1>3
<1>5. r \in Seq(S)
  BY <1>4
<1>6. ASSUME NEW j \in DOMAIN r, NEW k \in DOMAIN r, j < k PROVE r[j] # r[k]
  <2>1. PICK i \in DOMAIN list, l \in DOMAIN list : i < l /\ list[i] = r[j] /\ list[l] = r[k]
    BY <1>2, <1>6
  <2>2. i \in Nat /\ l \in Nat
    OBVIOUS
  <2> QED BY <2>1, <2>2 DEF LinkedOnce
<1>7. LinkedOnce(r)
  <2> SUFFICES ASSUME NEW j \in DOMAIN r, NEW k \in DOMAIN r, r[j] = r[k] PROVE j = k
    BY DEF LinkedOnce
  <2>1. j \in Nat /\ k \in Nat
    BY <1>4
  <2>2. ~(j < k) /\ ~(k < j)
    BY <1>6
  <2> QED BY <2>1, <2>2
<1> QED BY <1>2, <1>5, <1>7

\* What rt_event_send does to the thread of each turn.
SendTurns(s, woken) ==
    /\ \A i, j \in 1..(Len(suspend_thread) + 1) : i <= j => s[j] \subseteq s[i]
    /\ \A i \in DOMAIN suspend_thread :
          LET t == suspend_thread[i]
          IN  /\ t \in woken <=> Satisfied(event_info[t], event_set[t], s[i])
              /\ t \in woken => event_set'[t] = event_set[t] \cap s[i]
              /\ t \in woken /\ event_info[t].clear => s[i + 1] = s[i] \ event_set[t]
    /\ \A t \in Threads \ woken : event_set'[t] = event_set[t]
    /\ event_set' \in [Threads -> SUBSET Bits]
    /\ set' = s[Len(suspend_thread) + 1]
    /\ stat' = [t \in Threads |-> IF t \in woken THEN "READY" ELSE stat[t]]
    /\ suspend_thread' \in Seq(Threads) /\ LinkedOnce(suspend_thread')
    /\ ToSet(suspend_thread') = ToSet(suspend_thread) \ woken
    /\ UNCHANGED <<error, pc, event_info, wanted, recved>>

LEMMA SendIsTurns ==
    ASSUME EventInv, NEW bits \in Sets, Send(bits)
    PROVE  \E s \in [1..(Len(suspend_thread) + 1) -> SUBSET Bits] :
               \E woken \in SUBSET ToSet(suspend_thread) : SendTurns(s, woken)
<1> DEFINE n == Len(suspend_thread)
           turnOf(t) == CHOOSE i \in DOMAIN suspend_thread : suspend_thread[i] = t
           wokenOf(s) == {suspend_thread[i] : i \in {j \in DOMAIN suspend_thread : Wakes(s, j)}}
<1>1. PICK s \in [1..(n + 1) -> SUBSET Bits] :
        /\ \A i \in DOMAIN suspend_thread : s[i + 1] = AfterTurn(s, i)
        /\ set' = s[n + 1]
        /\ event_set' = [t \in Threads |-> IF t \in wokenOf(s) THEN event_set[t] \cap s[turnOf(t)]
                                           ELSE event_set[t]]
        /\ stat' = [t \in Threads |-> IF t \in wokenOf(s) THEN "READY" ELSE stat[t]]
        /\ suspend_thread' \in Remaining(suspend_thread, wokenOf(s))
        /\ UNCHANGED <<error, pc, event_info, wanted, recved>>
  BY DEF Send
<1>2. /\ suspend_thread \in Seq(Threads) /\ LinkedOnce(suspend_thread)
      /\ n \in Nat /\ DOMAIN suspend_thread = 1..n
      /\ event_set \in [Threads -> SUBSET Bits]
  BY DEF EventInv, EventTypes, ReceiversAsk
<1>3. PICK woken : woken = wokenOf(s)
  OBVIOUS
<1>4. \A i \in DOMAIN suspend_thread : turnOf(suspend_thread[i]) = i
  BY <1>2 DEF LinkedOnce
<1>5. \A i \in DOMAIN suspend_thread : suspend_thread[i] \in woken <=> Wakes(s, i)
  BY <1>2, <1>3 DEF LinkedOnce
<1>6. woken \in SUBSET ToSet(suspend_thread)
  BY <1>3 DEF ToSet
<1>7. /\ event_set' = [t \in Threads |-> IF t \in woken THEN event_set[t] \cap s[turnOf(t)] ELSE event_set[t]]
      /\ stat' = [t \in Threads |-> IF t \in woken THEN "READY" ELSE stat[t]]
      /\ suspend_thread' \in Remaining(suspend_thread, woken)
  BY <1>1, <1>3
<1> HIDE DEF turnOf, wokenOf, n
<1>8. \A i, j \in 1..(n + 1) : i <= j => s[j] \subseteq s[i]
  BY <1>1, <1>2, TurnsTakeBits DEF n
<1>9. ASSUME NEW i \in DOMAIN suspend_thread
      PROVE  LET t == suspend_thread[i]
             IN  /\ t \in woken <=> Satisfied(event_info[t], event_set[t], s[i])
                 /\ t \in woken => event_set'[t] = event_set[t] \cap s[i]
                 /\ t \in woken /\ event_info[t].clear => s[i + 1] = s[i] \ event_set[t]
  <2>1. suspend_thread[i] \in Threads
    BY <1>2
  <2>2. suspend_thread[i] \in woken <=> Satisfied(event_info[suspend_thread[i]], event_set[suspend_thread[i]], s[i])
    BY <1>5 DEF Wakes
  <2>3. suspend_thread[i] \in woken => event_set'[suspend_thread[i]] = event_set[suspend_thread[i]] \cap s[i]
    BY <1>4, <1>7, <2>1
  <2>4. suspend_thread[i] \in woken /\ event_info[suspend_thread[i]].clear
        => s[i + 1] = s[i] \ event_set[suspend_thread[i]]
    BY <1>1, <1>5 DEF AfterTurn
  <2> QED BY <2>2, <2>3, <2>4
<1>10. \A t \in Threads \ woken : event_set'[t] = event_set[t]
  BY <1>7
<1>11. event_set' \in [Threads -> SUBSET Bits]
  <2> SUFFICES ASSUME NEW t \in Threads PROVE event_set'[t] \subseteq Bits
    BY <1>7
  <2> QED BY <1>2, <1>7
<1>12. /\ suspend_thread' \in Seq(Threads) /\ LinkedOnce(suspend_thread')
       /\ ToSet(suspend_thread') = ToSet(suspend_thread) \ woken
  BY <1>2, <1>7, RemainingMembers
<1>13. SendTurns(s, woken)
  BY <1>1, <1>7, <1>8, <1>9, <1>10, <1>11, <1>12 DEF SendTurns, n
<1> QED BY <1>1, <1>6, <1>13 DEF n

\* rt_event_send leaves nobody satisfied behind and hands out what was asked for.
LEMMA SendKeeps ==
    ASSUME EventInv, NEW bits \in Sets, Send(bits)
    PROVE  EventInv'
<1>1. PICK s \in [1..(Len(suspend_thread) + 1) -> SUBSET Bits] :
          \E woken \in SUBSET ToSet(suspend_thread) : SendTurns(s, woken)
  BY SendIsTurns
<1>2. PICK woken \in SUBSET ToSet(suspend_thread) : SendTurns(s, woken)
  BY <1>1
<1> DEFINE n == Len(suspend_thread)
<1>3. /\ \A i, j \in 1..(n + 1) : i <= j => s[j] \subseteq s[i]
      /\ \A t \in Threads \ woken : event_set'[t] = event_set[t]
      /\ event_set' \in [Threads -> SUBSET Bits]
      /\ set' = s[n + 1]
      /\ stat' = [t \in Threads |-> IF t \in woken THEN "READY" ELSE stat[t]]
      /\ suspend_thread' \in Seq(Threads) /\ LinkedOnce(suspend_thread')
      /\ ToSet(suspend_thread') = ToSet(suspend_thread) \ woken
      /\ error' = error /\ pc' = pc /\ event_info' = event_info /\ wanted' = wanted /\ recved' = recved
  BY <1>2 DEF SendTurns
<1>4. ASSUME NEW i \in DOMAIN suspend_thread
      PROVE  LET t == suspend_thread[i]
             IN  /\ t \in woken <=> Satisfied(event_info[t], event_set[t], s[i])
                 /\ t \in woken => event_set'[t] = event_set[t] \cap s[i]
  BY <1>2 DEF SendTurns
<1>5. EventTypes /\ ReceiversAsk /\ WillReport /\ ReceivesWhatItWanted
  BY DEF EventInv
<1>6. /\ n \in Nat /\ DOMAIN suspend_thread = 1..n
      /\ ToSet(suspend_thread) \subseteq Threads /\ woken \subseteq Threads
  BY <1>5 DEF EventTypes, ToSet
<1>7. EventTypes'
  <2>1. set' \subseteq Bits
    BY <1>3, <1>6
  <2> QED BY <1>3, <1>5, <2>1 DEF EventTypes
<1>8. ReceiversAsk'
  <2>1. ToSet(suspend_thread') = {t \in Threads : stat'[t] = "SUSPEND"}
    BY <1>3, <1>5, <1>6 DEF ReceiversAsk
  <2>2. ASSUME NEW t \in ToSet(suspend_thread')
        PROVE  pc'[t] = "wait" /\ event_set'[t] = wanted'[t].bits /\ event_info'[t].and = wanted'[t].and
    <3>1. t \in ToSet(suspend_thread) /\ t \in Threads \ woken
      BY <1>3, <1>6
    <3> QED BY <1>3, <1>5, <3>1 DEF ReceiversAsk
  <2> QED BY <1>3, <2>1, <2>2 DEF ReceiversAsk
<1>9. WillReport'
  <2> SUFFICES ASSUME NEW t \in Threads, pc'[t] = "wait"
               PROVE  /\ event_set'[t] \subseteq wanted'[t].bits
                      /\ wanted'[t].and => event_set'[t] = wanted'[t].bits
    BY DEF WillReport
  <2>1. pc[t] = "wait" /\ wanted'[t] = wanted[t]
    BY <1>3
  <2>2. CASE t \notin woken
    BY <1>3, <1>5, <2>1, <2>2 DEF WillReport
  <2>3. CASE t \in woken
    <3>1. PICK i \in DOMAIN suspend_thread : suspend_thread[i] = t
      BY <2>3 DEF ToSet
    <3>2. event_set'[t] = event_set[t] \cap s[i] /\ Satisfied(event_info[t], event_set[t], s[i])
      BY <1>4, <2>3, <3>1
    <3>3. event_set[t] = wanted[t].bits /\ event_info[t].and = wanted[t].and
      BY <1>5, <2>3 DEF ReceiversAsk
    <3>4. wanted[t].and => event_set[t] \subseteq s[i]
      BY <3>2, <3>3 DEF Satisfied
    <3> QED BY <2>1, <3>2, <3>3, <3>4
  <2> QED BY <2>2, <2>3
<1>10. NoSatisfiedWaiter'
  <2> SUFFICES ASSUME NEW t \in ToSet(suspend_thread')
               PROVE  ~Satisfied(event_info'[t], event_set'[t], set')
    BY DEF NoSatisfiedWaiter, Satisfied
  <2>1. t \in ToSet(suspend_thread) /\ t \in Threads \ woken
    BY <1>3, <1>6
  <2>2. PICK i \in DOMAIN suspend_thread : suspend_thread[i] = t
    BY <2>1 DEF ToSet
  <2>3. ~Satisfied(event_info[t], event_set[t], s[i])
    BY <1>4, <2>1, <2>2
  <2>4. s[n + 1] \subseteq s[i]
    <3>1. i \in 1..(n + 1) /\ n + 1 \in 1..(n + 1) /\ i <= n + 1
      BY <1>6
    <3> QED BY <1>3, <3>1
  <2>5. ~Satisfied(event_info[t], event_set[t], s[n + 1])
    BY <2>3, <2>4, FewerBits
  <2> QED BY <1>3, <2>1, <2>5
<1>11. ReceivesWhatItWanted'
  BY <1>3, <1>5 DEF ReceivesWhatItWanted
<1> QED BY <1>7, <1>8, <1>9, <1>10, <1>11 DEF EventInv

\* One rt_event_send never gives the same bit to two clearing receivers.
LEMMA SendClears ==
    ASSUME EventInv, NEW bits \in Sets, Send(bits),
           NEW t \in Threads, NEW u \in Threads, t # u,
           {t, u} \subseteq ToSet(suspend_thread), stat'[t] = "READY", stat'[u] = "READY",
           event_info[t].clear, event_info[u].clear
    PROVE  event_set'[t] \cap event_set'[u] = {}
<1>1. PICK s \in [1..(Len(suspend_thread) + 1) -> SUBSET Bits] :
          \E woken \in SUBSET ToSet(suspend_thread) : SendTurns(s, woken)
  BY SendIsTurns
<1>2. PICK woken \in SUBSET ToSet(suspend_thread) : SendTurns(s, woken)
  BY <1>1
<1> DEFINE n == Len(suspend_thread)
<1>3. /\ \A i, j \in 1..(n + 1) : i <= j => s[j] \subseteq s[i]
      /\ stat' = [v \in Threads |-> IF v \in woken THEN "READY" ELSE stat[v]]
  BY <1>2 DEF SendTurns
<1>4. /\ n \in Nat /\ DOMAIN suspend_thread = 1..n
      /\ stat[t] = "SUSPEND" /\ stat[u] = "SUSPEND"
  BY DEF EventInv, EventTypes, ReceiversAsk
<1>5. t \in woken /\ u \in woken
  BY <1>3, <1>4
\* The thread of the earlier turn has taken its bits away before the later one.
<1>6. ASSUME NEW i \in 1..n, NEW j \in 1..n, i < j,
             suspend_thread[i] \in woken, suspend_thread[j] \in woken,
             event_info[suspend_thread[i]].clear
      PROVE  event_set'[suspend_thread[i]] \cap event_set'[suspend_thread[j]] = {}
  <2>1. /\ event_set'[suspend_thread[i]] \subseteq event_set[suspend_thread[i]]
        /\ s[i + 1] = s[i] \ event_set[suspend_thread[i]]
        /\ event_set'[suspend_thread[j]] \subseteq s[j]
    <3>1. \A k \in DOMAIN suspend_thread :
            /\ suspend_thread[k] \in woken => event_set'[suspend_thread[k]] = event_set[suspend_thread[k]] \cap s[k]
            /\ suspend_thread[k] \in woken /\ event_info[suspend_thread[k]].clear
               => s[k + 1] = s[k] \ event_set[suspend_thread[k]]
      BY <1>2 DEF SendTurns
    <3>2. /\ event_set'[suspend_thread[i]] = event_set[suspend_thread[i]] \cap s[i]
          /\ event_set'[suspend_thread[j]] = event_set[suspend_thread[j]] \cap s[j]
          /\ s[i + 1] = s[i] \ event_set[suspend_thread[i]]
      BY <1>4, <1>6, <3>1
    <3> QED BY <3>2
  <2>2. s[j] \subseteq s[i + 1]
    <3>1. i + 1 \in 1..(n + 1) /\ j \in 1..(n + 1) /\ i + 1 <= j
      BY <1>4, <1>6
    <3> QED BY <1>3, <3>1
  <2> QED BY <2>1, <2>2
<1>7. PICK i \in 1..n : suspend_thread[i] = t
  BY <1>4 DEF ToSet
<1>8. PICK j \in 1..n : suspend_thread[j] = u
  BY <1>4 DEF ToSet
<1>9. i < j \/ j < i
  BY <1>4, <1>7, <1>8
<1> QED BY <1>5, <1>6, <1>7, <1>8, <1>9

\* Before the first receive.
LEMMA EventInitially == EventInit => EventInv
<1> SUFFICES ASSUME EventInit PROVE EventInv
  OBVIOUS
<1>1. /\ stat = [t \in Threads |-> "READY"] /\ pc = [t \in Threads |-> "run"]
      /\ set = {} /\ suspend_thread = <<>>
      /\ event_set = [t \in Threads |-> {}]
      /\ event_info = [t \in Threads |-> [and |-> FALSE, clear |-> FALSE]]
      /\ wanted = [t \in Threads |-> [bits |-> {}, and |-> FALSE]]
      /\ recved = [t \in Threads |-> {}]
  BY DEF EventInit, IpcInit, rt_ipc_object_init
<1>2. ToSet(suspend_thread) = {}
  BY <1>1 DEF ToSet
<1>3. EventTypes
  BY <1>1 DEF EventTypes
<1>4. ReceiversAsk
  <2>1. LinkedOnce(suspend_thread)
    BY <1>1 DEF LinkedOnce
  <2>2. {t \in Threads : stat[t] = "SUSPEND"} = {}
    BY <1>1
  <2> QED BY <1>2, <2>1, <2>2 DEF ReceiversAsk
<1>5. WillReport
  BY <1>1 DEF WillReport
<1>6. NoSatisfiedWaiter
  BY <1>2 DEF NoSatisfiedWaiter
<1>7. ReceivesWhatItWanted
  BY <1>1 DEF ReceivesWhatItWanted
<1> QED BY <1>3, <1>4, <1>5, <1>6, <1>7 DEF EventInv

\* rt_event_recv of a set that is there.
LEMMA RecvNowKeeps ==
    ASSUME EventInv, NEW t \in Threads, NEW bits \in Sets, NEW option \in Options,
           RecvNow(t, bits, option)
    PROVE  EventInv'
<1>0. EventTypes /\ ReceiversAsk /\ WillReport /\ NoSatisfiedWaiter /\ ReceivesWhatItWanted
  BY DEF EventInv
<1>1. /\ pc[t] = "run" /\ stat[t] = "READY" /\ Satisfied(option, bits, set)
      /\ wanted' = [wanted EXCEPT ![t] = [bits |-> bits, and |-> option.and]]
      /\ recved' = [recved EXCEPT ![t] = set \cap bits]
      /\ set' \subseteq set
      /\ stat' = stat /\ pc' = pc /\ suspend_thread' = suspend_thread
      /\ event_set' = event_set /\ event_info' = event_info
  BY DEF RecvNow, At
<1>2. bits \subseteq Bits /\ option.and \in BOOLEAN
  BY DEF Sets, Options
<1>3. t \notin ToSet(suspend_thread) /\ ToSet(suspend_thread) \subseteq Threads
  BY <1>0, <1>1 DEF ReceiversAsk
<1>4. \A u \in Threads : /\ wanted'[u] = IF u = t THEN [bits |-> bits, and |-> option.and] ELSE wanted[u]
                         /\ recved'[u] = IF u = t THEN set \cap bits ELSE recved[u]
  BY <1>0, <1>1 DEF EventTypes
<1>5. EventTypes'
  <2>1. [bits |-> bits, and |-> option.and] \in [bits : SUBSET Bits, and : BOOLEAN]
    BY <1>2
  <2>2. wanted' \in [Threads -> [bits : SUBSET Bits, and : BOOLEAN]]
    BY <1>0, <1>1, <2>1 DEF EventTypes
  <2>3. recved' \in [Threads -> SUBSET Bits] /\ set' \subseteq Bits
    BY <1>0, <1>1, <1>2 DEF EventTypes
  <2> QED BY <1>0, <1>1, <2>2, <2>3 DEF EventTypes
<1>6. ReceiversAsk'
  <2>1. \A u \in ToSet(suspend_thread) : wanted'[u] = wanted[u]
    BY <1>3, <1>4
  <2> QED BY <1>0, <1>1, <2>1 DEF ReceiversAsk
<1>7. WillReport'
  <2>1. \A u \in Threads : pc[u] = "wait" => wanted'[u] = wanted[u]
    BY <1>1, <1>4
  <2> QED BY <1>0, <1>1, <2>1 DEF WillReport
<1>8. NoSatisfiedWaiter'
  <2> SUFFICES ASSUME NEW u \in ToSet(suspend_thread)
               PROVE  ~Satisfied(event_info[u], event_set[u], set')
    BY <1>1 DEF NoSatisfiedWaiter, Satisfied
  <2>1. ~Satisfied(event_info[u], event_set[u], set)
    BY <1>0 DEF NoSatisfiedWaiter
  <2> QED BY <1>1, <2>1, FewerBits
<1>9. ReceivesWhatItWanted'
  <2> SUFFICES ASSUME NEW u \in Threads, pc'[u] = "run", recved'[u] # {}
               PROVE  /\ recved'[u] \subseteq wanted'[u].bits
                      /\ wanted'[u].and => recved'[u] = wanted'[u].bits
    BY DEF ReceivesWhatItWanted
  <2>1. CASE u = t
    <3>1. wanted'[u].bits = bits /\ wanted'[u].and = option.and /\ recved'[u] = set \cap bits
      BY <1>4, <2>1
    <3>2. option.and => bits \subseteq set
      BY <1>1 DEF Satisfied
    <3> QED BY <3>1, <3>2
  <2>2. CASE u # t
    BY <1>0, <1>1, <1>4, <2>2 DEF ReceivesWhatItWanted
  <2> QED BY <2>1, <2>2
<1> QED BY <1>5, <1>6, <1>7, <1>8, <1>9 DEF EventInv

\* rt_event_recv of one that is not.
LEMMA RecvSuspendKeeps ==
    ASSUME EventInv, NEW t \in Threads, NEW bits \in Sets, NEW option \in Options,
           NEW timed \in BOOLEAN, RecvSuspend(t, bits, option, timed)
    PROVE  EventInv'
<1>0. EventTypes /\ ReceiversAsk /\ WillReport /\ NoSatisfiedWaiter /\ ReceivesWhatItWanted
  BY DEF EventInv
<1>1. /\ pc[t] = "run" /\ stat[t] = "READY" /\ ~Satisfied(option, bits, set)
      /\ wanted' = [wanted EXCEPT ![t] = [bits |-> bits, and |-> option.and]]
      /\ recved' = [recved EXCEPT ![t] = {}]
      /\ event_set' = [event_set EXCEPT ![t] = bits]
      /\ event_info' = [event_info EXCEPT ![t] = option]
      /\ stat' = [stat EXCEPT ![t] = "SUSPEND"]
      /\ suspend_thread' = rt_ipc_list_suspend(suspend_thread, t, Prio)
      /\ pc' = [pc EXCEPT ![t] = "wait"]
      /\ set' = set
  BY DEF RecvSuspend, At, Suspend, Goto
<1>2. bits \subseteq Bits /\ option \in [and : BOOLEAN, clear : BOOLEAN]
  BY DEF Sets, Options
<1>3. t \notin ToSet(suspend_thread) /\ ToSet(suspend_thread) \subseteq Threads
  BY <1>0, <1>1 DEF ReceiversAsk
<1>4. \A u \in Threads :
        /\ wanted'[u] = IF u = t THEN [bits |-> bits, and |-> option.and] ELSE wanted[u]
        /\ recved'[u] = IF u = t THEN {} ELSE recved[u]
        /\ event_set'[u] = IF u = t THEN bits ELSE event_set[u]
        /\ event_info'[u] = IF u = t THEN option ELSE event_info[u]
        /\ stat'[u] = IF u = t THEN "SUSPEND" ELSE stat[u]
        /\ pc'[u] = IF u = t THEN "wait" ELSE pc[u]
  BY <1>0, <1>1 DEF EventTypes
<1>5. /\ suspend_thread' \in Seq(Threads) /\ LinkedOnce(suspend_thread')
      /\ ToSet(suspend_thread') = ToSet(suspend_thread) \cup {t}
  BY <1>0, <1>1, <1>3, SuspendList DEF EventTypes, ReceiversAsk
<1>6. EventTypes'
  <2>1. [bits |-> bits, and |-> option.and] \in [bits : SUBSET Bits, and : BOOLEAN]
    BY <1>2
  <2>2. wanted' \in [Threads -> [bits : SUBSET Bits, and : BOOLEAN]]
    BY <1>0, <1>1, <2>1 DEF EventTypes
  <2>3. /\ recved' \in [Threads -> SUBSET Bits] /\ event_set' \in [Threads -> SUBSET Bits]
        /\ event_info' \in [Threads -> [and : BOOLEAN, clear : BOOLEAN]]
    BY <1>0, <1>1, <1>2 DEF EventTypes
  <2>4. stat' \in [Threads -> {"READY", "SUSPEND"}] /\ pc' \in [Threads -> {"run", "wait"}]
    BY <1>0, <1>1 DEF EventTypes
  <2> QED BY <1>0, <1>1, <1>5, <2>2, <2>3, <2>4 DEF EventTypes
<1>7. ReceiversAsk'
  <2>1. ToSet(suspend_thread') = {u \in Threads : stat'[u] = "SUSPEND"}
    BY <1>0, <1>4, <1>5 DEF ReceiversAsk
  <2>2. ASSUME NEW u \in ToSet(suspend_thread')
        PROVE  pc'[u] = "wait" /\ event_set'[u] = wanted'[u].bits /\ event_info'[u].and = wanted'[u].and
    <3>1. CASE u = t
      BY <1>4, <3>1
    <3>2. CASE u # t
      BY <1>0, <1>3, <1>4, <1>5, <3>2 DEF ReceiversAsk
    <3> QED BY <3>1, <3>2
  <2> QED BY <1>5, <2>1, <2>2 DEF ReceiversAsk
<1>8. WillReport'
  <2> SUFFICES ASSUME NEW u \in Threads, pc'[u] = "wait"
               PROVE  /\ event_set'[u] \subseteq wanted'[u].bits
                      /\ wanted'[u].and => event_set'[u] = wanted'[u].bits
    BY DEF WillReport
  <2>1. CASE u = t
    BY <1>4, <2>1
  <2>2. CASE u # t
    BY <1>0, <1>4, <2>2 DEF WillReport
  <2> QED BY <2>1, <2>2
<1>9. NoSatisfiedWaiter'
  <2> SUFFICES ASSUME NEW u \in ToSet(suspend_thread')
               PROVE  ~Satisfied(event_info'[u], event_set'[u], set')
    BY DEF NoSatisfiedWaiter, Satisfied
  <2>1. CASE u = t
    BY <1>1, <1>4, <2>1
  <2>2. CASE u # t
    <3>1. u \in ToSet(suspend_thread) /\ u \in Threads
      BY <1>3, <1>5, <2>2
    <3>2. ~Satisfied(event_info[u], event_set[u], set)
      BY <1>0, <3>1 DEF NoSatisfiedWaiter
    <3> QED BY <1>1, <1>4, <2>2, <3>1, <3>2
  <2> QED BY <2>1, <2>2
<1>10. ReceivesWhatItWanted'
  BY <1>0, <1>4 DEF ReceivesWhatItWanted
<1> QED BY <1>6, <1>7, <1>8, <1>9, <1>10 DEF EventInv

\* The end of rt_event_recv.
LEMMA RecvReturnKeeps ==
    ASSUME EventInv, NEW t \in Threads, RecvReturn(t)
    PROVE  EventInv'
<1>0. EventTypes /\ ReceiversAsk /\ WillReport /\ NoSatisfiedWaiter /\ ReceivesWhatItWanted
  BY DEF EventInv
<1>1. /\ pc[t] = "wait" /\ stat[t] = "READY"
      /\ recved' = [recved EXCEPT ![t] = IF error[t] = "EOK" THEN event_set[t] ELSE {}]
      /\ pc' = [pc EXCEPT ![t] = "run"]
      /\ stat' = stat /\ set' = set /\ suspend_thread' = suspend_thread
      /\ event_set' = event_set /\ event_info' = event_info /\ wanted' = wanted
  BY DEF RecvReturn, At, Goto
<1>2. \A u \in Threads :
        /\ recved'[u] = IF u # t THEN recved[u] ELSE IF error[t] = "EOK" THEN event_set[t] ELSE {}
        /\ pc'[u] = IF u = t THEN "run" ELSE pc[u]
  BY <1>0, <1>1 DEF EventTypes
<1>3. t \notin ToSet(suspend_thread) /\ ToSet(suspend_thread) \subseteq Threads
  BY <1>0, <1>1 DEF ReceiversAsk
<1>4. EventTypes'
  <2>1. recved' \in [Threads -> SUBSET Bits] /\ pc' \in [Threads -> {"run", "wait"}]
    BY <1>0, <1>1 DEF EventTypes
  <2> QED BY <1>0, <1>1, <2>1 DEF EventTypes
<1>5. ReceiversAsk'
  <2>1. \A u \in ToSet(suspend_thread) : pc'[u] = pc[u]
    BY <1>2, <1>3
  <2> QED BY <1>0, <1>1, <2>1 DEF ReceiversAsk
<1>6. WillReport'
  BY <1>0, <1>1, <1>2 DEF WillReport
<1>7. NoSatisfiedWaiter'
  BY <1>0, <1>1 DEF NoSatisfiedWaiter, Satisfied
<1>8. ReceivesWhatItWanted'
  <2> SUFFICES ASSUME NEW u \in Threads, pc'[u] = "run", recved'[u] # {}
               PROVE  /\ recved'[u] \subseteq wanted'[u].bits
                      /\ wanted'[u].and => recved'[u] = wanted'[u].bits
    BY DEF ReceivesWhatItWanted
  <2>1. CASE u = t
    <3>1. recved'[t] = event_set[t]
      BY <1>2, <2>1
    <3> QED BY <1>0, <1>1, <2>1, <3>1 DEF WillReport
  <2>2. CASE u # t
    BY <1>0, <1>1, <1>2, <2>2 DEF ReceivesWhatItWanted
  <2> QED BY <2>1, <2>2
<1> QED BY <1>4, <1>5, <1>6, <1>7, <1>8 DEF EventInv

\* Steps that take threads off the list and leave their bits alone.
LEMMA LeavingKeeps ==
    ASSUME EventInv, NEW gone \in SUBSET Threads,
           stat' = [t \in Threads |-> IF t \in gone THEN "READY" ELSE stat[t]],
           suspend_thread' \in Seq(Threads), LinkedOnce(suspend_thread'),
           ToSet(suspend_thread') = ToSet(suspend_thread) \ gone,
           set' \subseteq set, UNCHANGED <<pc, event_set, event_info, wanted, recved>>
    PROVE  EventInv'
<1>0. EventTypes /\ ReceiversAsk /\ WillReport /\ NoSatisfiedWaiter /\ ReceivesWhatItWanted
  BY DEF EventInv
<1>1. pc' = pc /\ event_set' = event_set /\ event_info' = event_info /\ wanted' = wanted /\ recved' = recved
  OBVIOUS
<1>2. EventTypes'
  BY <1>0, <1>1 DEF EventTypes
<1>3. ReceiversAsk'
  <2>1. ToSet(suspend_thread') = {t \in Threads : stat'[t] = "SUSPEND"}
    BY <1>0 DEF ReceiversAsk
  <2> QED BY <1>0, <1>1, <2>1 DEF ReceiversAsk
<1>4. WillReport' /\ ReceivesWhatItWanted'
  BY <1>0, <1>1 DEF WillReport, ReceivesWhatItWanted
<1>5. NoSatisfiedWaiter'
  <2> SUFFICES ASSUME NEW u \in ToSet(suspend_thread')
               PROVE  ~Satisfied(event_info[u], event_set[u], set')
    BY <1>1 DEF NoSatisfiedWaiter, Satisfied
  <2>1. ~Satisfied(event_info[u], event_set[u], set)
    BY <1>0 DEF NoSatisfiedWaiter
  <2> QED BY <2>1, FewerBits
<1> QED BY <1>2, <1>3, <1>4, <1>5 DEF EventInv

\* rt_thread_timeout and rt_event_control(RT_IPC_CMD_RESET).
LEMMA TimeoutOrResetKeeps ==
    ASSUME EventInv, NEW t \in Threads, RecvTimeout(t) \/ EventReset(t)
    PROVE  EventInv'
<1>0. /\ stat \in [Threads -> {"READY", "SUSPEND"}]
      /\ suspend_thread \in Seq(Threads) /\ LinkedOnce(suspend_thread)
      /\ ToSet(suspend_thread) \subseteq Threads
  BY DEF EventInv, EventTypes, ReceiversAsk
<1>1. CASE RecvTimeout(t)
  <2>1. /\ stat' = [stat EXCEPT ![t] = "READY"] /\ set' = set
        /\ suspend_thread' = rt_list_remove(suspend_thread, t)
        /\ UNCHANGED <<pc, event_set, event_info, wanted, recved>>
    BY <1>1 DEF RecvTimeout, Timeout
  <2>2. /\ suspend_thread' \in Seq(Threads) /\ LinkedOnce(suspend_thread')
        /\ ToSet(suspend_thread') = ToSet(suspend_thread) \ {t}
    BY <1>0, <2>1, RemoveMembers
  <2>3. stat' = [u \in Threads |-> IF u \in {t} THEN "READY" ELSE stat[u]]
    BY <1>0, <2>1
  <2>4. {t} \in SUBSET Threads
    OBVIOUS
  <2> QED BY <2>1, <2>2, <2>3, <2>4, LeavingKeeps
<1>2. CASE EventReset(t)
  <2>1. /\ stat' = [u \in Threads |-> IF u \in ToSet(suspend_thread) THEN "READY" ELSE stat[u]]
        /\ suspend_thread' = <<>> /\ set' = {}
        /\ UNCHANGED <<pc, event_set, event_info, wanted, recved>>
    BY <1>2 DEF EventReset, ResumeAll
  <2>2. /\ suspend_thread' \in Seq(Threads) /\ LinkedOnce(suspend_thread')
        /\ ToSet(suspend_thread') = ToSet(suspend_thread) \ ToSet(suspend_thread)
    BY <2>1 DEF ToSet, LinkedOnce
  <2>3. set' \subseteq set
    BY <2>1
  <2> QED BY <1>0, <2>1, <2>2, <2>3, LeavingKeeps
<1> QED BY <1>1, <1>2

\* Every step keeps the invariant.
LEMMA EventStep == EventInv /\ [EventNext]_(eventVars) => EventInv'
<1> SUFFICES ASSUME EventInv, [EventNext]_(eventVars) PROVE EventInv'
  OBVIOUS
<1>1. ASSUME NEW bits \in Sets, Send(bits) PROVE EventInv'
  BY <1>1, SendKeeps
<1>2. ASSUME NEW t \in Threads, NEW bits \in Sets, NEW option \in Options,
             RecvNow(t, bits, option)
      PROVE  EventInv'
  BY <1>2, RecvNowKeeps
<1>3. ASSUME NEW t \in Threads, NEW bits \in Sets, NEW option \in Options,
             NEW timed \in BOOLEAN, RecvSuspend(t, bits, option, timed)
      PROVE  EventInv'
  BY <1>3, RecvSuspendKeeps
<1>4. ASSUME NEW t \in Threads, RecvReturn(t) PROVE EventInv'
  BY <1>4, RecvReturnKeeps
<1>5. ASSUME NEW t \in Threads, RecvTimeout(t) \/ EventReset(t) PROVE EventInv'
  BY <1>5, TimeoutOrResetKeeps
<1>6. ASSUME UNCHANGED eventVars PROVE EventInv'
  <2>1. /\ stat' = stat /\ pc' = pc /\ set' = set /\ suspend_thread' = suspend_thread
        /\ event_set' = event_set /\ event_info' = event_info /\ wanted' = wanted /\ recved' = recved
    BY <1>6 DEF eventVars, ipcVars
  <2>2. EventTypes' /\ ReceiversAsk' /\ WillReport'
    BY <2>1 DEF EventInv, EventTypes, ReceiversAsk, WillReport
  <2>3. NoSatisfiedWaiter' /\ ReceivesWhatItWanted'
    BY <2>1 DEF EventInv, NoSatisfiedWaiter, ReceivesWhatItWanted, Satisfied, ToSet
  <2> QED BY <2>2, <2>3 DEF EventInv
<1> QED BY <1>1, <1>2, <1>3, <1>4, <1>5, <1>6 DEF EventNext

LEMMA EventInductive == EventSpec => []EventInv
  BY EventInitially, EventStep, PTL DEF EventSpec

\* No thread is left suspended while the event it waits for is set: neither
\* rt_event_send, which may clear bits for an earlier thread of the list, nor a
\* receive, a timeout or a reset in between forgets one.
THEOREM EventNobodyForgotten == EventSpec => []NoSatisfiedWaiter
  BY EventInductive, PTL DEF EventInv

\* rt_event_recv reports all the bits of an AND receive and only bits asked for
\* of an OR receive, whether they were there, came later or came while others
\* took some of them.
THEOREM EventReportsWhatWasAsked == EventSpec => []ReceivesWhatItWanted
  BY EventInductive, PTL DEF EventInv

\* One rt_event_send wakes no two threads with RT_EVENT_FLAG_CLEAR for the same
\* bit, however many threads wait for it.
THEOREM EventBitsClearedOnce == EventSpec => ClearedOnce
<1> DEFINE Apart(t, u) == event_set'[t] \cap event_set'[u] = {}
           Both(t, u) == /\ {t, u} \subseteq ToSet(suspend_thread)
                         /\ stat'[t] = "READY" /\ stat'[u] = "READY"
                         /\ error'[t] = "EOK" /\ error'[u] = "EOK"
                         /\ event_info[t].clear /\ event_info[u].clear
<1>1. ASSUME EventInv, [EventNext]_(eventVars)
      PROVE  [\A t, u \in Threads : t # u /\ Both(t, u) => Apart(t, u)]_(eventVars)
  <2> SUFFICES ASSUME EventNext, NEW t \in Threads, NEW u \in Threads, t # u, Both(t, u)
               PROVE  Apart(t, u)
    BY <1>1
  <2>0. /\ stat \in [Threads -> {"READY", "SUSPEND"}] /\ {t, u} \subseteq ToSet(suspend_thread)
        /\ stat[t] = "SUSPEND" /\ stat[u] = "SUSPEND"
    BY <1>1 DEF EventInv, EventTypes, ReceiversAsk
  <2>1. ASSUME NEW bits \in Sets, Send(bits) PROVE Apart(t, u)
    BY <1>1, <2>0, <2>1, SendClears
  \* Any other step that wakes threads wakes one, or wakes them with an error.
  <2>2. ASSUME NEW v \in Threads,
               stat' = stat \/ \E q : stat' = [stat EXCEPT ![v] = q]
        PROVE  FALSE
    BY <2>0, <2>2
  <2>3. ASSUME NEW v \in Threads, EventReset(v) PROVE FALSE
    BY <2>0, <2>3 DEF EventReset, ResumeAll
  <2>4. ASSUME NEW v \in Threads, RecvReturn(v) \/ RecvTimeout(v) PROVE FALSE
    BY <2>2, <2>4 DEF RecvReturn, RecvTimeout, Timeout
  <2>5. ASSUME NEW v \in Threads, NEW bits \in Sets, NEW option \in Options,
               RecvNow(v, bits, option) \/ \E timed \in BOOLEAN : RecvSuspend(v, bits, option, timed)
        PROVE  FALSE
    BY <2>2, <2>5 DEF RecvNow, RecvSuspend, Suspend
  <2> QED BY <2>1, <2>3, <2>4, <2>5 DEF EventNext
<1>2. EventInv /\ [EventNext]_(eventVars)
      => [\A t, u \in Threads : t # u /\ Both(t, u) => Apart(t, u)]_(eventVars)
  BY <1>1
<1>3. [\A t, u \in Threads : t # u /\ Both(t, u) => Apart(t, u)]_(eventVars)
      => [\A t, u \in Threads :
             /\ t # u
             /\ {t, u} \subseteq ToSet(suspend_thread)
             /\ stat'[t] = "READY" /\ stat'[u] = "READY"
             /\ error'[t] = "EOK" /\ error'[u] = "EOK"
             /\ event_info[t].clear /\ event_info[u].clear
             => event_set'[t] \cap event_set'[u] = {}]_(eventVars)
  OBVIOUS
<1> QED BY <1>2, <1>3, EventInductive, PTL DEF EventSpec, ClearedOnce

=============================================================================
