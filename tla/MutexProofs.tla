---------------------------- MODULE MutexProofs ----------------------------
(***************************************************************************)
(* Ownership and priority inheritance of the mutex for every set of        *)
(* threads, priorities and mutexes.  The priority a thread gets back after *)
(* nested mutexes needs the releases in the reverse order of the takes,    *)
(* and inheritance itself needs that there is one mutex, and a list by     *)
(* priority: the code keeps one saved priority per mutex and hands a mutex *)
(* over without looking at the waiters that are left.                      *)
(***************************************************************************)
EXTENDS Mutex, RtListProofs

\* A thread releases the mutex it took last first.
ReverseOrder == InnerFirst \/ \A m, n \in Mutexes : m = n

\* One mutex whose waiters are queued by priority.
OneMutex == PrioFlag /\ \A m, n \in Mutexes : m = n

\* The types the proofs need.
MutexTypes ==
    /\ stat \in [Threads -> {"READY", "SUSPEND"}]
    /\ pc \in [Threads -> {"run", "wait", "sleep"}]
    /\ value \in [Mutexes -> {0, 1}]
    /\ owner \in [Mutexes -> Threads \cup {NoThread}]
    /\ hold \in [Mutexes -> Nat]
    /\ original_priority \in [Mutexes -> Nat]
    /\ suspend_thread \in [Mutexes -> Seq(Threads)]
    /\ current_priority \in [Threads -> Nat]

\* value, owner and hold agree, and a mutex with waiters has an owner.
LockAgrees ==
    \A m \in Mutexes :
        /\ value[m] = 1 <=> owner[m] = NoThread
        /\ hold[m] = 0 <=> owner[m] = NoThread
        /\ suspend_thread[m] # <<>> => owner[m] # NoThread

\* A waiter is suspended in rt_mutex_take and linked into one list, once.
WaitersWait ==
    /\ \A m \in Mutexes : LinkedOnce(suspend_thread[m])
    /\ \A m \in Mutexes : \A t \in Waiters(m) : stat[t] = "SUSPEND" /\ pc[t] = "wait"
    /\ \A m, n \in Mutexes : \A t \in Waiters(m) : t \in Waiters(n) => m = n

\* The mutexes a waiter owns come before the one it waits for.
WaitersInOrder ==
    \A m, n \in Mutexes : owner[n] \in Waiters(m) => n < m

\* The inductive invariant of ownership.
OwnerInv == MutexTypes /\ LockAgrees /\ WaitersWait /\ WaitersInOrder

\* The first of the mutexes a thread owns has saved its own priority.
OutermostSaved ==
    \A m \in Mutexes :
        owner[m] # NoThread /\ (\A n \in Mutexes : owner[n] = owner[m] => m <= n)
            => original_priority[m] = Prio[owner[m]]

\* The inductive invariant of the priorities.
PriorityInv == OwnerInv /\ OutermostSaved /\ PriorityRestored

\* The inductive invariant of inheritance: the list is in the order of the
\* priorities, which nobody changes while a thread waits.
InheritInv ==
    /\ PriorityInv
    /\ \A m \in Mutexes : SortedBy(suspend_thread[m], Prio)
    /\ OwnerInherits

-----------------------------------------------------------------------------
\* rt_ipc_list_suspend links the thread once, whatever the priorities are.
LEMMA SuspendList ==
    ASSUME NEW list \in Seq(Threads), NEW t \in Threads, NEW prio \in [Threads -> Nat]
    PROVE  LET r == rt_ipc_list_suspend(list, t, prio)
           IN  /\ r \in Seq(Threads)
               /\ ToSet(r) = ToSet(list) \cup {t}
               /\ LinkedOnce(list) /\ t \notin ToSet(list) => LinkedOnce(r)
<1>1. CASE PrioFlag
  <2>1. rt_ipc_list_suspend(list, t, prio) = InsertByPriority(list, t, prio)
    BY <1>1 DEF rt_ipc_list_suspend
  <2>2. prio \in [Threads -> Int]
    OBVIOUS
  <2> QED BY <2>1, <2>2, InsertByPriorityInOrder
<1>2. CASE ~PrioFlag
  <2>1. rt_ipc_list_suspend(list, t, prio) = InsertBeforeFirst(list, {}, t)
    BY <1>2 DEF rt_ipc_list_suspend, rt_list_insert_before, InsertBeforeFirst
  <2> QED BY <2>1, InsertBeforeFirstMembers
<1> QED BY <1>1, <1>2

-----------------------------------------------------------------------------
\* Ownership: the invariant holds at the start ...
LEMMA OwnerInitially == Init => OwnerInv
<1> SUFFICES ASSUME Init PROVE OwnerInv
  OBVIOUS
<1> USE DEF Init, IpcInit
<1>1. \A m \in Mutexes : suspend_thread[m] = <<>> /\ Waiters(m) = {}
  BY DEF Waiters, ToSet
<1>2. MutexTypes
  <2>1. suspend_thread \in [Mutexes -> Seq(Threads)]
    OBVIOUS
  <2> QED BY <2>1, IpcAssumption DEF MutexTypes, NoPriority
<1>3. LockAgrees
  BY <1>1 DEF LockAgrees
<1>4. WaitersWait /\ WaitersInOrder
  BY <1>1 DEF WaitersWait, WaitersInOrder, LinkedOnce
<1> QED BY <1>2, <1>3, <1>4 DEF OwnerInv

\* ... and every step keeps it.
LEMMA OwnerStep == OwnerInv /\ [Next]_vars => OwnerInv'
<1> SUFFICES ASSUME OwnerInv, [Next]_vars
             PROVE  OwnerInv'
  OBVIOUS
<1>1. /\ stat \in [Threads -> {"READY", "SUSPEND"}]
      /\ pc \in [Threads -> {"run", "wait", "sleep"}]
      /\ value \in [Mutexes -> {0, 1}]
      /\ owner \in [Mutexes -> Threads \cup {NoThread}]
      /\ hold \in [Mutexes -> Nat]
      /\ original_priority \in [Mutexes -> Nat]
      /\ current_priority \in [Threads -> Nat]
  BY DEF OwnerInv, MutexTypes
<1>2. suspend_thread \in [Mutexes -> Seq(Threads)]
  BY DEF OwnerInv, MutexTypes
<1>3. \A m \in Mutexes :
        /\ value[m] = 1 <=> owner[m] = NoThread
        /\ hold[m] = 0 <=> owner[m] = NoThread
        /\ suspend_thread[m] # <<>> => owner[m] # NoThread
  BY DEF OwnerInv, LockAgrees
<1>4. /\ \A m \in Mutexes : LinkedOnce(suspend_thread[m])
      /\ \A m \in Mutexes : \A t \in Waiters(m) : stat[t] = "SUSPEND" /\ pc[t] = "wait"
      /\ \A m, n \in Mutexes : \A t \in Waiters(m) : t \in Waiters(n) => m = n
  BY DEF OwnerInv, WaitersWait
<1>5. \A m, n \in Mutexes : owner[n] \in Waiters(m) => n < m
  BY DEF OwnerInv, WaitersInOrder
<1>6. \A m \in Mutexes : Waiters(m) \subseteq Threads
  BY <1>2 DEF Waiters, ToSet
<1>7. NoThread \notin Threads /\ Mutexes \subseteq Nat
  BY MutexAssumption
\* What a step that leaves the lists alone keeps.
<1>8. ASSUME UNCHANGED <<suspend_thread, owner>>,
             \A t \in Threads : stat[t] = "SUSPEND" /\ pc[t] = "wait" =>
                                stat'[t] = "SUSPEND" /\ pc'[t] = "wait"
      PROVE  WaitersWait' /\ WaitersInOrder'
  <2>1. \A m \in Mutexes : Waiters(m)' = Waiters(m)
    BY <1>8 DEF Waiters
  <2> QED BY <1>4, <1>5, <1>6, <1>8, <2>1 DEF WaitersWait, WaitersInOrder, LinkedOnce
<1>9. ASSUME NEW c \in Threads, TakeReturn(c) PROVE OwnerInv'
  <2> USE <1>9 DEF TakeReturn, Running, At, Goto, mutexVars
  <2>1. MutexTypes' /\ LockAgrees'
    BY <1>1, <1>2, <1>3 DEF MutexTypes, LockAgrees
  <2>2. WaitersWait' /\ WaitersInOrder'
    BY <1>1, <1>8
  <2> QED BY <2>1, <2>2 DEF OwnerInv
<1>10. ASSUME NEW c \in Threads, Sleep(c) PROVE OwnerInv'
  <2> USE <1>10 DEF Sleep, Running, At, Goto, mutexVars
  <2>1. MutexTypes' /\ LockAgrees'
    BY <1>1, <1>2, <1>3 DEF MutexTypes, LockAgrees
  <2>2. WaitersWait' /\ WaitersInOrder'
    BY <1>1, <1>8
  <2> QED BY <2>1, <2>2 DEF OwnerInv
<1>11. ASSUME NEW c \in Threads, Wake(c) PROVE OwnerInv'
  <2> USE <1>11 DEF Wake, Goto, mutexVars
  <2>1. MutexTypes' /\ LockAgrees'
    BY <1>1, <1>2, <1>3 DEF MutexTypes, LockAgrees
  <2>2. WaitersWait' /\ WaitersInOrder'
    BY <1>1, <1>8
  <2> QED BY <2>1, <2>2 DEF OwnerInv
<1>12. ASSUME NEW c \in Threads, TakeTimeout(c) PROVE OwnerInv'
  <2> USE <1>12 DEF TakeTimeout, Timeout
  <2>1. \A m \in Mutexes : /\ suspend_thread'[m] \in Seq(Threads)
                           /\ Waiters(m)' = Waiters(m) \ {c}
                           /\ LinkedOnce(suspend_thread'[m])
    BY <1>2, <1>4, RemoveMembers DEF Waiters
  <2>2. \A m \in Mutexes : suspend_thread'[m] # <<>> => suspend_thread[m] # <<>>
    BY DEF rt_list_remove, ToSet
  <2>3. suspend_thread' \in [Mutexes -> Seq(Threads)]
    BY <2>1
  <2>4. MutexTypes' /\ LockAgrees'
    BY <1>1, <1>3, <2>2, <2>3 DEF MutexTypes, LockAgrees
  <2>5. WaitersWait' /\ WaitersInOrder'
    BY <1>1, <1>4, <1>5, <1>6, <2>1 DEF WaitersWait, WaitersInOrder
  <2> QED BY <2>4, <2>5 DEF OwnerInv
<1>13. ASSUME NEW c \in Threads, NEW m \in Mutexes, Take(c, m) PROVE OwnerInv'
  <2> USE <1>13 DEF Take, Running, At
  <2>1. owner[m] = NoThread /\ hold[m] = 0 /\ value[m] = 1 /\ suspend_thread[m] = <<>>
    BY <1>1, <1>3
  <2>2. MutexTypes'
    BY <1>1, <1>2, <2>1 DEF MutexTypes
  <2>3. LockAgrees'
    BY <1>1, <1>3, <1>7, <2>1 DEF LockAgrees
  <2>4. \A n \in Mutexes : Waiters(n)' = Waiters(n) /\ c \notin Waiters(n)
    BY <1>4 DEF Waiters
  <2>5. WaitersWait' /\ WaitersInOrder'
    BY <1>1, <1>4, <1>5, <2>4 DEF WaitersWait, WaitersInOrder, LinkedOnce
  <2> QED BY <2>2, <2>3, <2>5 DEF OwnerInv
<1>14. ASSUME NEW c \in Threads, NEW m \in Mutexes, TakeAgain(c, m) PROVE OwnerInv'
  <2> USE <1>14 DEF TakeAgain, Running, At
  <2>1. MutexTypes' /\ LockAgrees'
    BY <1>1, <1>2, <1>3, <1>7 DEF MutexTypes, LockAgrees
  <2>2. WaitersWait' /\ WaitersInOrder'
    BY <1>8
  <2> QED BY <2>1, <2>2 DEF OwnerInv
<1>15. ASSUME NEW c \in Threads, NEW m \in Mutexes, NEW timed \in BOOLEAN, TakeSuspend(c, m, timed)
       PROVE  OwnerInv'
  <2> USE <1>15 DEF TakeSuspend, Running, At, Suspend, Goto
  <2>1. owner[m] # NoThread /\ owner[m] \in Threads /\ c \notin Waiters(m)
    BY <1>1, <1>3, <1>4
  <2>2. current_priority' \in [Threads -> Nat]
    BY <1>1, <2>1 DEF Boosted
  <2> DEFINE r == rt_ipc_list_suspend(suspend_thread[m], c, current_priority')
  <2>3. /\ r \in Seq(Threads) /\ ToSet(r) = Waiters(m) \cup {c} /\ LinkedOnce(r)
    BY <1>2, <1>4, <2>1, <2>2, SuspendList DEF Waiters
  <2>4. suspend_thread' = [suspend_thread EXCEPT ![m] = r]
    OBVIOUS
  <2> HIDE DEF r
  <2>5. /\ Waiters(m)' = Waiters(m) \cup {c}
        /\ \A n \in Mutexes \ {m} : Waiters(n)' = Waiters(n)
        /\ \A n \in Mutexes : LinkedOnce(suspend_thread'[n])
    BY <1>2, <1>4, <2>3, <2>4 DEF Waiters
  <2>6. MutexTypes'
    BY <1>1, <1>2, <2>2, <2>3, <2>4 DEF MutexTypes
  <2>7. LockAgrees'
    BY <1>2, <1>3, <2>1, <2>4 DEF LockAgrees
  <2>8. \A n \in Mutexes : c \notin Waiters(n)
    BY <1>4
  <2>9. \A n \in Mutexes : owner[n] = c => n < m
    BY <1>7 DEF InOrder, Owned
  <2>10. WaitersWait'
    BY <1>1, <1>4, <1>6, <2>5, <2>8 DEF WaitersWait
  <2>11. WaitersInOrder'
    BY <1>5, <2>5, <2>9 DEF WaitersInOrder
  <2> QED BY <2>6, <2>7, <2>10, <2>11 DEF OwnerInv
<1>16. ASSUME NEW c \in Threads, NEW m \in Mutexes, ReleaseRefused(c, m) PROVE OwnerInv'
  <2> USE <1>16 DEF ReleaseRefused, mutexVars
  <2>1. MutexTypes' /\ LockAgrees'
    BY <1>1, <1>2, <1>3 DEF MutexTypes, LockAgrees
  <2>2. WaitersWait' /\ WaitersInOrder'
    BY <1>8
  <2> QED BY <2>1, <2>2 DEF OwnerInv
<1>17. ASSUME NEW c \in Threads, NEW m \in Mutexes, ReleaseNested(c, m) PROVE OwnerInv'
  <2> USE <1>17 DEF ReleaseNested, MayRelease, ipcVars
  <2>1. MutexTypes' /\ LockAgrees'
    BY <1>1, <1>2, <1>3, <1>7 DEF MutexTypes, LockAgrees
  <2>2. WaitersWait' /\ WaitersInOrder'
    BY <1>8
  <2> QED BY <2>1, <2>2 DEF OwnerInv
<1>18. ASSUME NEW c \in Threads, NEW m \in Mutexes, ReleaseFree(c, m) PROVE OwnerInv'
  <2> USE <1>18 DEF ReleaseFree, MayRelease, Running, At, rt_list_isempty, ipcVars
  <2>1. owner[m] = c /\ value[m] = 0 /\ hold[m] = 1 /\ suspend_thread[m] = <<>>
    BY <1>1, <1>3, <1>7
  <2>2. MutexTypes'
    BY <1>1, <1>2, <2>1 DEF MutexTypes, NoPriority, Restored
  <2>3. LockAgrees'
    BY <1>1, <1>3, <2>1 DEF LockAgrees
  <2>4. \A n \in Mutexes : Waiters(n)' = Waiters(n) /\ NoThread \notin Waiters(n)
    BY <1>6, <1>7 DEF Waiters
  <2>5. WaitersWait' /\ WaitersInOrder'
    BY <1>1, <1>4, <1>5, <2>4 DEF WaitersWait, WaitersInOrder, LinkedOnce
  <2> QED BY <2>2, <2>3, <2>5 DEF OwnerInv
<1>19. ASSUME NEW c \in Threads, NEW m \in Mutexes, ReleaseHandOver(c, m) PROVE OwnerInv'
  <2> USE <1>19 DEF ReleaseHandOver, MayRelease, Running, At, rt_list_isempty, NextOwner, Resume
  <2>1. owner[m] = c /\ value[m] = 0 /\ hold[m] = 1 /\ suspend_thread[m] # <<>>
    BY <1>1, <1>3, <1>7
  <2>2. PICK t \in Threads :
            /\ t = Head(suspend_thread[m]) /\ t \in Waiters(m)
            /\ Tail(suspend_thread[m]) \in Seq(Threads)
            /\ ToSet(Tail(suspend_thread[m])) = Waiters(m) \ {t}
            /\ LinkedOnce(Tail(suspend_thread[m]))
    BY <1>2, <1>4, <2>1, TailMembers DEF Waiters
  <2>3. /\ Waiters(m)' = Waiters(m) \ {t}
        /\ \A n \in Mutexes \ {m} : Waiters(n)' = Waiters(n) /\ t \notin Waiters(n)
        /\ \A n \in Mutexes : LinkedOnce(suspend_thread'[n])
    BY <1>2, <1>4, <2>2 DEF Waiters
  <2>4. MutexTypes'
    <3>1. current_priority' \in [Threads -> Nat]
      BY <1>1 DEF Restored
    <3>2. original_priority' \in [Mutexes -> Nat]
      BY <1>1, <2>2, <3>1
    <3>3. suspend_thread' \in [Mutexes -> Seq(Threads)]
      BY <1>2, <2>2
    <3> QED BY <1>1, <2>2, <3>1, <3>2, <3>3 DEF MutexTypes
  <2>5. LockAgrees'
    BY <1>1, <1>2, <1>3, <1>7, <2>1, <2>2 DEF LockAgrees
  <2>6. \A n \in Mutexes : Waiters(n)' \subseteq Waiters(n) /\ t \notin Waiters(n)'
    BY <2>3
  <2>7. WaitersWait'
    <3>1. \A u \in Threads \ {t} : stat'[u] = stat[u] /\ pc'[u] = pc[u]
      BY <1>1, <2>2
    <3>2. \A n \in Mutexes : \A u \in Waiters(n)' : stat'[u] = "SUSPEND" /\ pc'[u] = "wait"
      BY <1>4, <1>6, <2>6, <3>1
    <3>3. \A k, n \in Mutexes : \A u \in Waiters(k)' : u \in Waiters(n)' => k = n
      BY <1>4, <2>6
    <3> QED BY <2>3, <3>2, <3>3 DEF WaitersWait
  <2>8. WaitersInOrder'
    <3>1. owner'[m] = t /\ \A n \in Mutexes \ {m} : owner'[n] = owner[n]
      BY <1>1, <2>2
    <3> QED BY <1>5, <2>6, <3>1 DEF WaitersInOrder
  <2> QED BY <2>4, <2>5, <2>7, <2>8 DEF OwnerInv
<1>20. CASE UNCHANGED vars
  <2> USE <1>20 DEF vars, ipcVars, mutexVars
  <2>1. MutexTypes' /\ LockAgrees'
    BY <1>1, <1>2, <1>3 DEF MutexTypes, LockAgrees
  <2>2. WaitersWait' /\ WaitersInOrder'
    BY <1>8
  <2> QED BY <2>1, <2>2 DEF OwnerInv
<1> QED
  BY <1>9, <1>10, <1>11, <1>12, <1>13, <1>14, <1>15, <1>16, <1>17, <1>18, <1>19, <1>20
     DEF Next, LastRelease

-----------------------------------------------------------------------------
\* The saved priorities: the invariant holds at the start ...
LEMMA PriorityInitially == Init => PriorityInv
<1> SUFFICES ASSUME Init PROVE PriorityInv
  OBVIOUS
<1>1. OutermostSaved /\ PriorityRestored
  BY DEF Init, OutermostSaved, PriorityRestored
<1> QED BY <1>1, OwnerInitially DEF PriorityInv

\* ... and every step keeps it.
LEMMA PriorityStep == ReverseOrder /\ PriorityInv /\ [Next]_vars => PriorityInv'
<1> SUFFICES ASSUME ReverseOrder, PriorityInv, [Next]_vars
             PROVE  PriorityInv'
  OBVIOUS
<1>1. /\ owner \in [Mutexes -> Threads \cup {NoThread}]
      /\ original_priority \in [Mutexes -> Nat]
      /\ current_priority \in [Threads -> Nat]
      /\ suspend_thread \in [Mutexes -> Seq(Threads)]
      /\ value \in [Mutexes -> {0, 1}]
  BY DEF PriorityInv, OwnerInv, MutexTypes
<1>2. \A m \in Mutexes : value[m] = 1 <=> owner[m] = NoThread
  BY DEF PriorityInv, OwnerInv, LockAgrees
<1>3. \A m, n \in Mutexes : owner[n] \in Waiters(m) => n < m
  BY DEF PriorityInv, OwnerInv, WaitersInOrder
<1>4. \A m \in Mutexes :
        owner[m] # NoThread /\ (\A n \in Mutexes : owner[n] = owner[m] => m <= n)
            => original_priority[m] = Prio[owner[m]]
  BY DEF PriorityInv, OutermostSaved
<1>5. \A t \in Threads : (\A m \in Mutexes : owner[m] # t) => current_priority[t] = Prio[t]
  BY DEF PriorityInv, PriorityRestored, Owned
<1>6. NoThread \notin Threads /\ Mutexes \subseteq Nat
  BY MutexAssumption
<1>7. OwnerInv'
  BY OwnerStep DEF PriorityInv
<1>8. SUFFICES /\ OutermostSaved'
               /\ \A t \in Threads : (\A m \in Mutexes : owner'[m] # t) =>
                      current_priority'[t] = Prio[t]
  BY <1>7 DEF PriorityInv, PriorityRestored, Owned
\* The mutex c may release is the last of those it owns, and if it is the only
\* one it has saved the priority of c.
<1>9. ASSUME NEW c \in Threads, NEW m \in Mutexes, MayRelease(c, m)
      PROVE  /\ owner[m] = c /\ \A n \in Mutexes : owner[n] = c => n <= m
             /\ (\A n \in Mutexes \ {m} : owner[n] # c) => original_priority[m] = Prio[c]
  <2>1. owner[m] = c /\ \A n \in Mutexes : owner[n] = c => n <= m
    BY <1>6, <1>9 DEF MayRelease, ReverseOrder, Owned
  <2> QED BY <1>4, <1>6, <2>1
<1>10. CASE UNCHANGED <<owner, original_priority, current_priority>>
  BY <1>4, <1>5, <1>10 DEF OutermostSaved
<1>11. ASSUME NEW c \in Threads, NEW m \in Mutexes, Take(c, m)
       PROVE  /\ OutermostSaved'
              /\ \A t \in Threads : (\A n \in Mutexes : owner'[n] # t) =>
                      current_priority'[t] = Prio[t]
  <2> USE <1>11 DEF Take, InOrder, Owned
  <2>1. /\ owner[m] = NoThread
        /\ owner'[m] = c /\ \A n \in Mutexes \ {m} : owner'[n] = owner[n]
        /\ original_priority'[m] = current_priority[c]
        /\ \A n \in Mutexes \ {m} : original_priority'[n] = original_priority[n]
        /\ current_priority' = current_priority
        /\ \A n \in Mutexes : owner[n] = c => n < m
    BY <1>1, <1>2, <1>6
  <2>2. ASSUME NEW n \in Mutexes, owner'[n] # NoThread,
               \A k \in Mutexes : owner'[k] = owner'[n] => n <= k
        PROVE  original_priority'[n] = Prio[owner'[n]]
    <3>1. CASE n = m
      <4>1. \A k \in Mutexes : owner[k] # c
        BY <1>6, <2>1, <2>2, <3>1
      <4> QED BY <1>5, <2>1, <3>1, <4>1
    <3>2. CASE n # m
      <4>1. \A k \in Mutexes : owner[k] = owner[n] => n <= k
        BY <2>1, <2>2, <3>2
      <4> QED BY <1>4, <2>1, <2>2, <3>2, <4>1
    <3> QED BY <3>1, <3>2
  <2>3. \A t \in Threads : (\A n \in Mutexes : owner'[n] # t) => \A n \in Mutexes : owner[n] # t
    BY <1>6, <2>1
  <2> QED BY <1>5, <2>1, <2>2, <2>3 DEF OutermostSaved
<1>12. ASSUME NEW c \in Threads, NEW m \in Mutexes, NEW timed \in BOOLEAN, TakeSuspend(c, m, timed)
       PROVE  /\ OutermostSaved'
              /\ \A t \in Threads : (\A n \in Mutexes : owner'[n] # t) =>
                      current_priority'[t] = Prio[t]
  <2> USE <1>12 DEF TakeSuspend, Boosted
  <2>1. OutermostSaved'
    BY <1>4 DEF OutermostSaved
  <2>2. \A t \in Threads : t # owner[m] => current_priority'[t] = current_priority[t]
    BY <1>1
  <2> QED BY <1>5, <2>1, <2>2
<1>13. ASSUME NEW c \in Threads, NEW m \in Mutexes, ReleaseFree(c, m)
       PROVE  /\ OutermostSaved'
              /\ \A t \in Threads : (\A n \in Mutexes : owner'[n] # t) =>
                      current_priority'[t] = Prio[t]
  <2> USE <1>13 DEF ReleaseFree, Restored
  <2>1. /\ owner[m] = c /\ \A n \in Mutexes : owner[n] = c => n <= m
        /\ (\A n \in Mutexes \ {m} : owner[n] # c) => original_priority[m] = Prio[c]
    BY <1>9
  <2>2. /\ owner'[m] = NoThread /\ \A n \in Mutexes \ {m} : owner'[n] = owner[n]
        /\ \A n \in Mutexes \ {m} : original_priority'[n] = original_priority[n]
        /\ current_priority'[c] = original_priority[m]
        /\ \A t \in Threads \ {c} : current_priority'[t] = current_priority[t]
    BY <1>1
  <2>3. ASSUME NEW n \in Mutexes, owner'[n] # NoThread,
               \A k \in Mutexes : owner'[k] = owner'[n] => n <= k
        PROVE  original_priority'[n] = Prio[owner'[n]]
    <3>1. n # m /\ owner'[n] = owner[n]
      BY <2>2, <2>3
    <3>2. \A k \in Mutexes : owner[k] = owner[n] => n <= k
      BY <2>1, <2>2, <2>3, <3>1
    <3> QED BY <1>4, <2>2, <2>3, <3>1, <3>2
  <2>4. ASSUME NEW t \in Threads, \A n \in Mutexes : owner'[n] # t
        PROVE  current_priority'[t] = Prio[t]
    <3>1. \A n \in Mutexes \ {m} : owner[n] # t
      BY <2>2, <2>4
    <3> QED BY <1>5, <2>1, <2>2, <3>1
  <2> QED BY <2>3, <2>4 DEF OutermostSaved
<1>14. ASSUME NEW c \in Threads, NEW m \in Mutexes, ReleaseHandOver(c, m)
       PROVE  /\ OutermostSaved'
              /\ \A t \in Threads : (\A n \in Mutexes : owner'[n] # t) =>
                      current_priority'[t] = Prio[t]
  <2> USE <1>14 DEF ReleaseHandOver, Restored, NextOwner, rt_list_isempty
  <2>1. /\ owner[m] = c /\ \A n \in Mutexes : owner[n] = c => n <= m
        /\ (\A n \in Mutexes \ {m} : owner[n] # c) => original_priority[m] = Prio[c]
    BY <1>9
  <2>2. PICK t \in Threads : t = Head(suspend_thread[m]) /\ t \in Waiters(m)
    BY <1>1, TailMembers DEF Waiters
  <2>3. t # c /\ \A n \in Mutexes : owner[n] = t => n < m
    BY <1>3, <1>6, <2>1, <2>2
  <2>4. /\ owner'[m] = t /\ \A n \in Mutexes \ {m} : owner'[n] = owner[n]
        /\ \A n \in Mutexes \ {m} : original_priority'[n] = original_priority[n]
        /\ original_priority'[m] = current_priority[t]
        /\ current_priority'[c] = original_priority[m]
        /\ \A u \in Threads \ {c} : current_priority'[u] = current_priority[u]
    BY <1>1, <2>2, <2>3
  <2>5. ASSUME NEW n \in Mutexes, owner'[n] # NoThread,
               \A k \in Mutexes : owner'[k] = owner'[n] => n <= k
        PROVE  original_priority'[n] = Prio[owner'[n]]
    <3>1. CASE n = m
      <4>1. \A k \in Mutexes : owner[k] # t
        BY <1>6, <2>1, <2>3, <2>4, <2>5, <3>1
      <4> QED BY <1>5, <2>4, <3>1, <4>1
    <3>2. CASE n # m
      <4>1. \A k \in Mutexes : owner[k] = owner[n] => n <= k
        BY <2>1, <2>4, <2>5, <3>2
      <4> QED BY <1>4, <2>4, <2>5, <3>2, <4>1
    <3> QED BY <3>1, <3>2
  <2>6. ASSUME NEW u \in Threads, \A n \in Mutexes : owner'[n] # u
        PROVE  current_priority'[u] = Prio[u]
    <3>1. u # t /\ \A n \in Mutexes \ {m} : owner[n] # u
      BY <2>4, <2>6
    <3> QED BY <1>5, <2>1, <2>4, <3>1
  <2> QED BY <2>5, <2>6 DEF OutermostSaved
<1>15. UNCHANGED <<owner, original_priority, current_priority>> \/
       \E c \in Threads, m \in Mutexes :
           \/ Take(c, m) \/ ReleaseFree(c, m) \/ ReleaseHandOver(c, m)
           \/ \E timed \in BOOLEAN : TakeSuspend(c, m, timed)
  BY DEF Next, LastRelease, TakeReturn, TakeTimeout, Sleep, Wake, TakeAgain, ReleaseRefused,
         ReleaseNested, vars, mutexVars
<1> QED BY <1>10, <1>11, <1>12, <1>13, <1>14, <1>15

-----------------------------------------------------------------------------
\* Inheritance: the invariant holds at the start ...
LEMMA InheritInitially == Init => InheritInv
<1> SUFFICES ASSUME Init PROVE InheritInv
  OBVIOUS
<1>1. \A m \in Mutexes : SortedBy(suspend_thread[m], Prio) /\ Waiters(m) = {}
  BY DEF Init, Waiters, ToSet, SortedBy
<1> QED BY <1>1, PriorityInitially DEF InheritInv, OwnerInherits

\* ... and every step keeps it.
LEMMA InheritStep == OneMutex /\ InheritInv /\ [Next]_vars => InheritInv'
<1> SUFFICES ASSUME OneMutex, InheritInv, [Next]_vars
             PROVE  InheritInv'
  OBVIOUS
<1>1. /\ owner \in [Mutexes -> Threads \cup {NoThread}]
      /\ current_priority \in [Threads -> Nat]
      /\ suspend_thread \in [Mutexes -> Seq(Threads)]
      /\ value \in [Mutexes -> {0, 1}]
  BY DEF InheritInv, PriorityInv, OwnerInv, MutexTypes
<1>2. \A m \in Mutexes : /\ value[m] = 1 <=> owner[m] = NoThread
                         /\ suspend_thread[m] # <<>> => owner[m] # NoThread
                         /\ LinkedOnce(suspend_thread[m])
  BY DEF InheritInv, PriorityInv, OwnerInv, LockAgrees, WaitersWait
<1>3. \A m, n \in Mutexes : m = n
  BY DEF OneMutex
\* A waiter owns nothing, so it has its own priority.
<1>4. \A m \in Mutexes : \A t \in Waiters(m) :
        t \in Threads /\ t # owner[m] /\ current_priority[t] = Prio[t]
  <2> SUFFICES ASSUME NEW m \in Mutexes, NEW t \in Waiters(m)
               PROVE  t \in Threads /\ t # owner[m] /\ current_priority[t] = Prio[t]
    OBVIOUS
  <2>1. t \in Threads
    BY <1>1 DEF Waiters, ToSet
  <2>2. m \in Nat /\ ~(m < m)
    BY MutexAssumption
  <2>3. t # owner[m]
    BY <2>2 DEF InheritInv, PriorityInv, OwnerInv, WaitersInOrder
  <2>4. Owned(t) = {}
    BY <1>3, <2>3 DEF Owned
  <2> QED BY <2>1, <2>3, <2>4 DEF InheritInv, PriorityInv, PriorityRestored
<1>5. \A m \in Mutexes : SortedBy(suspend_thread[m], Prio)
  BY DEF InheritInv
<1>6. \A m \in Mutexes : \A t \in Waiters(m) : current_priority[owner[m]] <= current_priority[t]
  BY DEF InheritInv, OwnerInherits
<1>7. PriorityInv'
  BY PriorityStep DEF InheritInv, OneMutex, ReverseOrder
<1>8. SUFFICES OwnerInherits' /\ \A m \in Mutexes : SortedBy(suspend_thread'[m], Prio)
  BY <1>7 DEF InheritInv
<1>9. CASE UNCHANGED <<owner, current_priority, suspend_thread>>
  BY <1>5, <1>6, <1>9 DEF OwnerInherits, Waiters
<1>10. ASSUME NEW c \in Threads, TakeTimeout(c)
       PROVE  OwnerInherits' /\ \A m \in Mutexes : SortedBy(suspend_thread'[m], Prio)
  <2> USE <1>10 DEF TakeTimeout
  <2>1. \A m \in Mutexes : Waiters(m)' = Waiters(m) \ {c}
    BY <1>1, <1>2, RemoveMembers DEF Waiters
  <2>2. \A m \in Mutexes : SortedBy(suspend_thread'[m], Prio)
    BY <1>1, <1>5, RemoveSorted
  <2> QED BY <1>6, <2>1, <2>2 DEF OwnerInherits
<1>11. ASSUME NEW c \in Threads, NEW m \in Mutexes, Take(c, m) \/ ReleaseFree(c, m)
       PROVE  OwnerInherits' /\ \A n \in Mutexes : SortedBy(suspend_thread'[n], Prio)
  <2>1. suspend_thread[m] = <<>> /\ suspend_thread' = suspend_thread
    BY <1>1, <1>2, <1>11 DEF Take, ReleaseFree, rt_list_isempty
  <2>2. \A n \in Mutexes : Waiters(n)' = {}
    BY <1>3, <2>1 DEF Waiters, ToSet
  <2> QED BY <1>5, <2>1, <2>2 DEF OwnerInherits
<1>12. ASSUME NEW c \in Threads, NEW m \in Mutexes, NEW timed \in BOOLEAN, TakeSuspend(c, m, timed)
       PROVE  OwnerInherits' /\ \A n \in Mutexes : SortedBy(suspend_thread'[n], Prio)
  <2> USE <1>12 DEF TakeSuspend
  <2>1. owner[m] \in Threads /\ owner[m] # c
    BY <1>1, <1>2
  <2>2. current_priority[c] = Prio[c]
    BY <1>3, <2>1 DEF InheritInv, PriorityInv, PriorityRestored, Owned
  <2>3. /\ \A t \in Waiters(m) \cup {c} : current_priority'[t] = Prio[t]
        /\ current_priority' \in [Threads -> Nat]
    BY <1>1, <1>4, <2>1, <2>2 DEF Boosted
  <2> DEFINE list == suspend_thread[m]
             r == InsertByPriority(list, c, Prio)
             prio == current_priority'
  <2>4. rt_ipc_list_suspend(list, c, prio) = r
    <3>1. \A i \in DOMAIN list : prio[list[i]] = Prio[list[i]] /\ prio[c] = Prio[c]
      BY <1>1, <2>3 DEF Waiters, ToSet
    <3> HIDE DEF list, prio
    <3>2. {i \in DOMAIN list : prio[c] < prio[list[i]]} = {i \in DOMAIN list : Prio[c] < Prio[list[i]]}
      BY <3>1
    <3>3. rt_ipc_list_suspend(list, c, prio) = InsertByPriority(list, c, prio)
      BY DEF OneMutex, rt_ipc_list_suspend
    <3> QED BY <3>2, <3>3 DEF InsertByPriority
  <2>5. suspend_thread' = [suspend_thread EXCEPT ![m] = r]
    BY <2>4
  <2>6. SortedBy(r, Prio) /\ ToSet(r) = Waiters(m) \cup {c}
    <3>1. Prio \in [Threads -> Int] /\ list \in Seq(Threads) /\ SortedBy(list, Prio)
      BY <1>1, <1>5, IpcAssumption
    <3> QED BY <3>1, InsertByPriorityInOrder DEF Waiters
  <2> HIDE DEF r
  <2>7. \A n \in Mutexes : suspend_thread'[n] = r /\ n = m
    BY <1>1, <1>3, <2>5
  <2>8. \A n \in Mutexes : Waiters(n)' = Waiters(m) \cup {c}
    BY <2>6, <2>7 DEF Waiters
  <2>9. \A t \in Waiters(m) \cup {c} : current_priority'[owner[m]] <= current_priority'[t]
    <3>1. /\ current_priority'[owner[m]] <= current_priority[owner[m]]
          /\ current_priority'[owner[m]] <= current_priority[c]
      BY <1>1, <2>1 DEF Boosted
    <3>2. \A t \in Waiters(m) : /\ current_priority[owner[m]] <= current_priority[t]
                                /\ current_priority'[t] = current_priority[t]
                                /\ current_priority[t] \in Nat
      BY <1>1, <1>4, <1>6, <2>3
    <3>3. /\ current_priority[owner[m]] \in Nat /\ current_priority'[owner[m]] \in Nat
          /\ current_priority'[c] = current_priority[c]
      BY <1>1, <2>1, <2>2, <2>3
    <3> QED BY <3>1, <3>2, <3>3
  <2> QED BY <2>6, <2>7, <2>8, <2>9 DEF OwnerInherits
<1>13. ASSUME NEW c \in Threads, NEW m \in Mutexes, ReleaseHandOver(c, m)
       PROVE  OwnerInherits' /\ \A n \in Mutexes : SortedBy(suspend_thread'[n], Prio)
  <2> USE <1>13 DEF ReleaseHandOver, MayRelease, Restored, NextOwner, rt_list_isempty
  <2> DEFINE list == suspend_thread[m]
  <2>1. list \in Seq(Threads) /\ list # <<>> /\ SortedBy(list, Prio) /\ owner[m] = c
    BY <1>1, <1>5
  <2>2. /\ Head(list) \in Waiters(m) /\ ToSet(Tail(list)) \subseteq Waiters(m)
        /\ SortedBy(Tail(list), Prio)
    BY <2>1, TailMembers, TailSorted DEF Waiters
  <2>3. \A u \in Waiters(m) : Prio[Head(list)] <= Prio[u]
    <3>1. Waiters(m) = {list[i] : i \in 1..Len(list)} /\ Head(list) = list[1] /\ 1 \in 1..Len(list)
      BY <2>1 DEF Waiters, ToSet
    <3>2. Prio[list[1]] <= Prio[list[1]]
      <4>1. Prio[list[1]] \in Nat
        BY <2>1, <3>1, IpcAssumption
      <4> QED BY <4>1
    <3> QED BY <2>1, <3>1, <3>2 DEF SortedBy
  <2>4. \A u \in Waiters(m) : current_priority'[u] = Prio[u]
    BY <1>1, <1>4, <2>1
  <2>5. \A n \in Mutexes : n = m /\ suspend_thread'[n] = Tail(list) /\ owner'[n] = Head(list)
    BY <1>1, <1>3
  <2> QED BY <2>2, <2>3, <2>4, <2>5 DEF OwnerInherits, Waiters
<1>14. UNCHANGED <<owner, current_priority, suspend_thread>> \/
       \E c \in Threads :
           \/ TakeTimeout(c)
           \/ \E m \in Mutexes :
                 \/ Take(c, m) \/ ReleaseFree(c, m) \/ ReleaseHandOver(c, m)
                 \/ \E timed \in BOOLEAN : TakeSuspend(c, m, timed)
  BY DEF Next, LastRelease, TakeReturn, Sleep, Wake, TakeAgain, ReleaseRefused,
         ReleaseNested, vars, mutexVars
<1> QED BY <1>9, <1>10, <1>11, <1>12, <1>13, <1>14

-----------------------------------------------------------------------------
\* value, owner and hold of every mutex tell the same story, a mutex with
\* waiters has an owner, and no owner waits for its own mutex, with any number
\* of mutexes and any order of releases.
THEOREM MutexOwnerConsistent == Spec => []OwnerConsistent
<1>1. OwnerInv => OwnerConsistent
  <2> SUFFICES ASSUME OwnerInv, NEW m \in Mutexes, owner[m] \in Waiters(m) PROVE FALSE
    BY DEF OwnerInv, LockAgrees, OwnerConsistent
  <2>1. m \in Nat /\ m < m
    BY MutexAssumption DEF OwnerInv, WaitersInOrder
  <2> QED BY <2>1
<1> QED BY <1>1, OwnerInitially, OwnerStep, PTL DEF Spec

\* rt_mutex_release gives a thread its own priority back, also after nested
\* mutexes, when they are released in the reverse order of the takes.
THEOREM MutexPriorityRestored == ReverseOrder => (Spec => []PriorityRestored)
<1> SUFFICES ASSUME ReverseOrder PROVE Spec => []PriorityRestored
  OBVIOUS
<1>1. PriorityInv /\ [Next]_vars => PriorityInv'
  BY PriorityStep
<1>2. PriorityInv => PriorityRestored
  BY DEF PriorityInv
<1> QED BY <1>1, <1>2, PriorityInitially, PTL DEF Spec

\* The owner of the mutex is at least as urgent as every thread that waits for
\* it, across boosts, timeouts and hand-overs, whatever the priorities.
THEOREM MutexOwnerInherits == OneMutex => (Spec => []OwnerInherits)
<1> SUFFICES ASSUME OneMutex PROVE Spec => []OwnerInherits
  OBVIOUS
<1>1. InheritInv /\ [Next]_vars => InheritInv'
  BY InheritStep
<1>2. InheritInv => OwnerInherits
  BY DEF InheritInv
<1> QED BY <1>1, <1>2, InheritInitially, PTL DEF Spec
=============================================================================
