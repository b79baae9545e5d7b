-------------------------- MODULE SchedulerProofs --------------------------
(***************************************************************************)
(* For every set of threads, every priority assignment and every choice of *)
(* the calls the application makes: the types of the scheduler's state, no *)
(* ready thread is invisible to rt_schedule, and idle never leaves its     *)
(* ready list.                                                             *)
(*                                                                         *)
(* For every choice of calls that keeps the Discipline below: the lists    *)
(* and stat agree, no bit is stale outside a call, the highest thread      *)
(* runs, only suspended threads have timers, and what idle freed is used   *)
(* no more; and, if nobody suspends the administrator, no state is         *)
(* undefined.                                                              *)
(***************************************************************************)
EXTENDS Scheduler, RtListProofs

\* The ready table and the bitmap, as every path of the kernel must leave them.
TableOK(table, group) ==
    /\ table \in [Priorities -> Seq(Threads)]
    /\ group \subseteq Priorities
    /\ \A p \in Priorities : table[p] # <<>> => p \in group
    /\ Idle \in ToSet(table[PriorityMax - 1])

\* The rest of the type invariant.
RestOK ==
    /\ stat \in [Threads -> Stats]
    /\ current_priority \in [Threads -> Priorities]
    /\ remaining_tick \in [Threads -> Nat \ {0}]
    /\ rt_current_thread \in Threads \cup {NoThread}
    /\ rt_scheduler_lock_nest \in 0..MaxNest
    /\ timer_list \subseteq Threads
    /\ ticks_left \in [Threads -> 0..MaxSleep]
    /\ rt_thread_defunct \in Seq(Threads)
    /\ freed \subseteq Threads
    /\ rt_interrupt_nest \in 0..1
    /\ pc \in [Threads -> Labels]
    /\ obj \in [Threads -> Threads]
    /\ resched_owed \in BOOLEAN

\* No call in progress is about idle: nobody can take it out of its list.
IdleUntouched ==
    /\ stat[Idle] = "READY"
    /\ Idle \notin timer_list
    /\ \A c \in Threads : pc[c] \notin {"run", "schedule"} => obj[c] # Idle

\* The inductive invariant.
SchedulerInv ==
    /\ TableOK(rt_thread_priority_table, rt_thread_ready_priority_group)
    /\ RestOK
    /\ IdleUntouched

-----------------------------------------------------------------------------
\* The thread rt_schedule takes from a sound table: the bitmap is never empty.
LEMMA ToThreadType ==
    ASSUME NEW table, NEW group, TableOK(table, group)
    PROVE  to_thread(table, group) \in Threads \cup {NoThread}
<1> USE ThreadAssumption
<1>1. table \in [Priorities -> Seq(Threads)] /\ group \subseteq Priorities
  BY DEF TableOK
<1>2. PriorityMax - 1 \in group
  <2>1. PriorityMax - 1 \in Priorities
    BY DEF Priorities
  <2>2. table[PriorityMax - 1] # <<>>
    BY DEF TableOK, ToSet
  <2> QED BY <2>1, <2>2 DEF TableOK
<1>3. highest_ready_priority(group) \in group
  <2>1. \E p \in group : \A q \in group : p <= q
    <3>1. group \in SUBSET Nat
      BY <1>1 DEF Priorities
    <3>2. group # {}
      BY <1>2
    <3> QED BY <3>1, <3>2, LeastExists
  <2> QED BY <2>1 DEF highest_ready_priority
<1> QED BY <1>1, <1>3 DEF to_thread, rt_list_isempty

LEMMA ScheduleType ==
    ASSUME NEW table, NEW group, TableOK(table, group), RestOK, rt_schedule(table, group)
    PROVE  rt_current_thread' \in Threads \cup {NoThread} /\ resched_owed' \in BOOLEAN
  BY ToThreadType DEF rt_schedule, RestOK

\* rt_list_remove on every list of the table.
LEMMA UnlinkedTable ==
    ASSUME NEW table \in [Priorities -> Seq(Threads)], NEW t
    PROVE  /\ Unlinked(table, t) \in [Priorities -> Seq(Threads)]
           /\ \A p \in Priorities :
                 /\ Unlinked(table, t)[p] # <<>> => table[p] # <<>>
                 /\ \A x \in ToSet(table[p]) : x # t => x \in ToSet(Unlinked(table, t)[p])
<1> SUFFICES ASSUME NEW p \in Priorities
             PROVE  /\ rt_list_remove(table[p], t) \in Seq(Threads)
                    /\ rt_list_remove(table[p], t) # <<>> => table[p] # <<>>
                    /\ \A x \in ToSet(table[p]) : x # t => x \in ToSet(rt_list_remove(table[p], t))
  BY DEF Unlinked
<1>1. table[p] \in Seq(Threads)
  OBVIOUS
<1>2. /\ rt_list_remove(table[p], t) \in Seq(Threads)
      /\ ToSet(table[p]) \ {t} \subseteq ToSet(rt_list_remove(table[p], t))
  BY <1>1, RemoveMembers
<1>3. table[p] = <<>> => rt_list_remove(table[p], t) = <<>>
  BY DEF rt_list_remove, ToSet
<1> QED BY <1>2, <1>3

\* A sound table stays sound when a thread other than idle leaves it, whether
\* the bit of the emptied list is cleared or not.
LEMMA UnlinkedTableOK ==
    ASSUME NEW table, NEW group, TableOK(table, group), NEW t \in Threads, t # Idle,
           NEW p \in Priorities
    PROVE  /\ TableOK(Unlinked(table, t), group)
           /\ rt_list_isempty(Unlinked(table, t)[p]) => TableOK(Unlinked(table, t), group \ {p})
<1> USE ThreadAssumption
<1>1. PriorityMax - 1 \in Priorities
  BY DEF Priorities
<1>2. /\ Unlinked(table, t) \in [Priorities -> Seq(Threads)]
      /\ \A q \in Priorities : Unlinked(table, t)[q] # <<>> => table[q] # <<>>
      /\ Idle \in ToSet(Unlinked(table, t)[PriorityMax - 1])
  BY <1>1, UnlinkedTable DEF TableOK
<1> QED BY <1>2 DEF TableOK, rt_list_isempty

\* A sound table stays sound when a thread is appended and its bit set.
LEMMA InsertTableOK ==
    ASSUME NEW table, NEW group, TableOK(table, group), NEW t \in Threads,
           NEW prio \in Priorities
    PROVE  TableOK([table EXCEPT ![prio] = rt_list_insert_before(@, t)], group \cup {prio})
<1> USE ThreadAssumption
<1> DEFINE new == [table EXCEPT ![prio] = rt_list_insert_before(@, t)]
<1>1. PriorityMax - 1 \in Priorities
  BY DEF Priorities
<1>2. table \in [Priorities -> Seq(Threads)]
  BY DEF TableOK
<1>3. /\ rt_list_insert_before(table[prio], t) \in Seq(Threads)
      /\ ToSet(table[prio]) \subseteq ToSet(rt_list_insert_before(table[prio], t))
  BY <1>2, AppendMembers
<1>4. new \in [Priorities -> Seq(Threads)]
  BY <1>2, <1>3
<1>5. Idle \in ToSet(new[PriorityMax - 1])
  BY <1>1, <1>2, <1>3 DEF TableOK
<1>6. \A p \in Priorities : new[p] # <<>> => p \in group \cup {prio}
  BY <1>2 DEF TableOK
<1> QED BY <1>4, <1>5, <1>6 DEF TableOK

\* rt_schedule_remove_thread keeps the table sound.
LEMMA RemoveThreadOK ==
    ASSUME SchedulerInv, NEW t \in Threads, t # Idle, rt_schedule_remove_thread(t)
    PROVE  TableOK(rt_thread_priority_table', rt_thread_ready_priority_group')
<1>1. current_priority[t] \in Priorities
  BY DEF SchedulerInv, RestOK
<1>2. TableOK(rt_thread_priority_table, rt_thread_ready_priority_group)
  BY DEF SchedulerInv
<1> QED BY <1>1, <1>2, UnlinkedTableOK DEF rt_schedule_remove_thread

\* rt_thread_yield keeps the table sound.
LEMMA YieldedTableOK ==
    ASSUME SchedulerInv, NEW c \in Threads, Yields(c)
    PROVE  TableOK(YieldedTable(c), rt_thread_ready_priority_group)
<1> USE ThreadAssumption
<1> DEFINE p == current_priority[c]
           table == rt_thread_priority_table
           removed == rt_list_remove(table[p], c)
           new == rt_list_insert_before(removed, c)
<1>1. p \in Priorities /\ table[p] \in Seq(Threads) /\ table \in [Priorities -> Seq(Threads)]
  BY DEF SchedulerInv, RestOK, TableOK
<1>2. removed \in Seq(Threads) /\ ToSet(table[p]) \ {c} \subseteq ToSet(removed)
  <2> HIDE DEF p, table
  <2> QED BY <1>1, RemoveMembers
<1>3. new \in Seq(Threads) /\ ToSet(new) = ToSet(removed) \cup {c}
  <2> HIDE DEF removed
  <2> QED BY <1>2, AppendMembers
<1>4. YieldedTable(c) = [table EXCEPT ![p] = new]
  BY DEF YieldedTable
<1>5. table[p] # <<>>
  BY DEF Yields, ToSet
<1>6. PriorityMax - 1 \in Priorities /\ Idle \in ToSet(table[PriorityMax - 1])
  BY DEF Priorities, SchedulerInv, TableOK
<1>7. \A q \in Priorities : table[q] # <<>> => q \in rt_thread_ready_priority_group
  BY DEF SchedulerInv, TableOK
<1>8. rt_thread_ready_priority_group \subseteq Priorities
  BY DEF SchedulerInv, TableOK
<1> HIDE DEF p, table, removed, new
<1> DEFINE result == [table EXCEPT ![p] = new]
<1>9. result \in [Priorities -> Seq(Threads)]
  BY <1>1, <1>3
<1>10. \A q \in Priorities : result[q] # <<>> => q \in rt_thread_ready_priority_group
  BY <1>1, <1>5, <1>7
<1>11. ToSet(table[PriorityMax - 1]) \subseteq ToSet(result[PriorityMax - 1])
  <2>1. CASE p = PriorityMax - 1
    <3>1. result[PriorityMax - 1] = new
      BY <1>1, <2>1
    <3> QED BY <1>2, <1>3, <2>1, <3>1
  <2>2. CASE p # PriorityMax - 1
    BY <1>1, <1>6, <2>2
  <2> QED BY <2>1, <2>2
<1> HIDE DEF result
<1>12. YieldedTable(c) = result
  BY <1>4 DEF result
<1> QED BY <1>6, <1>8, <1>9, <1>10, <1>11, <1>12 DEF TableOK

-----------------------------------------------------------------------------
LEMMA SchedulerInit == Init => SchedulerInv
<1> USE ThreadAssumption
<1> SUFFICES ASSUME Init PROVE SchedulerInv
  OBVIOUS
<1>1. PriorityMax - 1 \in Priorities
  BY DEF Priorities
<1>3. TableOK(rt_thread_priority_table, rt_thread_ready_priority_group)
  BY <1>1, StartAssumption DEF Init, TableOK
<1>4. rt_current_thread \in Threads \cup {NoThread}
  BY <1>3, ToThreadType DEF Init
<1>5. RestOK
  <2>1. pc \in [Threads -> Labels] /\ stat \in [Threads -> Stats]
    BY DEF Init, Stats, Labels
  <2>2. rt_thread_defunct \in Seq(Threads)
    BY DEF Init
  <2>3. /\ current_priority \in [Threads -> Priorities]
        /\ remaining_tick \in [Threads -> Nat \ {0}]
    BY DEF Init
  <2>4. /\ rt_scheduler_lock_nest \in 0..MaxNest
        /\ ticks_left \in [Threads -> 0..MaxSleep]
        /\ rt_interrupt_nest \in 0..1
    BY DEF Init
  <2>5. /\ timer_list \subseteq Threads
        /\ freed \subseteq Threads
        /\ obj \in [Threads -> Threads]
        /\ resched_owed \in BOOLEAN
    BY DEF Init
  <2> QED BY <1>4, <2>1, <2>2, <2>3, <2>4, <2>5 DEF RestOK
<1>6. IdleUntouched
  BY StartAssumption DEF Init, IdleUntouched
<1> QED BY <1>3, <1>5, <1>6 DEF SchedulerInv

LEMMA SchedulerStep == SchedulerInv /\ [Next]_vars => SchedulerInv'
<1> USE ThreadAssumption
<1> SUFFICES ASSUME SchedulerInv, [Next]_vars PROVE SchedulerInv'
  OBVIOUS
<1> DEFINE Table == TableOK(rt_thread_priority_table, rt_thread_ready_priority_group)
<1>0. Table /\ RestOK /\ IdleUntouched
  BY DEF SchedulerInv
<1>1. ASSUME NEW c \in Threads, Schedule(c) PROVE SchedulerInv'
  <2>1. rt_current_thread' \in Threads \cup {NoThread} /\ resched_owed' \in BOOLEAN
    BY <1>0, <1>1, ScheduleType DEF Schedule
  <2> QED BY <1>0, <1>1, <2>1
      DEF Schedule, SchedulerInv, TableOK, RestOK, IdleUntouched, Goto, lists, timers, Labels
<1>2. ASSUME NEW c \in Threads, NEW t \in Threads, ThreadStartup(c, t) PROVE SchedulerInv'
  BY <1>0, <1>2 DEF ThreadStartup, SchedulerInv, TableOK, RestOK, IdleUntouched, GotoFor,
                    lists, timers, Labels, Stats
<1>3. ASSUME NEW c \in Threads, NEW t \in Threads, ThreadResume(c, t) PROVE SchedulerInv'
  BY <1>0, <1>3 DEF ThreadResume, SchedulerInv, TableOK, RestOK, IdleUntouched, GotoFor,
                    lists, timers, Labels
<1>4. ASSUME NEW c \in Threads, ResumeUnlink(c) PROVE SchedulerInv'
  <2>1. obj[c] \in Threads /\ obj[c] # Idle
    BY <1>0, <1>4 DEF ResumeUnlink, At, RestOK, IdleUntouched
  <2>2. TableOK(rt_thread_priority_table', rt_thread_ready_priority_group')
    <3>1. 0 \in Priorities
      BY DEF Priorities
    <3> QED BY <1>0, <1>4, <2>1, <3>1, UnlinkedTableOK DEF ResumeUnlink
  <2>3. rt_thread_defunct' \in Seq(Threads)
    BY <1>0, <1>4, RemoveMembers DEF ResumeUnlink, RestOK
  <2> QED BY <1>0, <1>4, <2>1, <2>2, <2>3
      DEF ResumeUnlink, ResumedTimers, SchedulerInv, RestOK, IdleUntouched, Goto, At, Labels
<1>5. ASSUME NEW c \in Threads, ResumeInsert(c) PROVE SchedulerInv'
  <2>1. obj[c] \in Threads /\ current_priority[obj[c]] \in Priorities
    BY <1>0 DEF RestOK
  <2>2. TableOK(rt_thread_priority_table', rt_thread_ready_priority_group')
    BY <1>0, <1>5, <2>1, InsertTableOK DEF ResumeInsert, Insert
  <2> QED BY <1>0, <1>5, <2>1, <2>2
      DEF ResumeInsert, SchedulerInv, RestOK, IdleUntouched, Goto, timers, Labels, Stats
<1>6. ASSUME NEW c \in Threads, NEW t \in Threads, ThreadSuspend(c, t) PROVE SchedulerInv'
  BY <1>0, <1>6, CallAssumption DEF ThreadSuspend, SchedulerInv, TableOK, RestOK, IdleUntouched, GotoFor,
                    lists, timers, Labels
<1>7. ASSUME NEW c \in Threads, SuspendRemove(c) PROVE SchedulerInv'
  <2>1. obj[c] \in Threads /\ obj[c] # Idle
    BY <1>0, <1>7 DEF SuspendRemove, At, RestOK, IdleUntouched
  <2>2. TableOK(rt_thread_priority_table', rt_thread_ready_priority_group')
    BY <1>7, <2>1, RemoveThreadOK DEF SuspendRemove
  <2>3. rt_thread_defunct' \in Seq(Threads)
    BY <1>0, <1>7, RemoveMembers DEF SuspendRemove, RestOK
  <2> QED BY <1>0, <1>7, <2>1, <2>2, <2>3
      DEF SuspendRemove, SchedulerInv, RestOK, IdleUntouched, Goto, timers, Labels, Stats
<1>8. ASSUME NEW c \in Threads, ThreadYield(c) PROVE SchedulerInv'
  <2>1. TableOK(rt_thread_priority_table', rt_thread_ready_priority_group')
    BY <1>8, YieldedTableOK DEF ThreadYield
  <2> QED BY <1>0, <1>8, <2>1
      DEF ThreadYield, SchedulerInv, RestOK, IdleUntouched, Goto, timers, Labels
<1>9. ASSUME NEW c \in Threads, NEW tick \in 0..MaxSleep, ThreadSleep(c, tick)
      PROVE  SchedulerInv'
  <2>1. c # Idle
    BY <1>9, CallAssumption DEF ThreadSleep
  <2>2. TableOK(rt_thread_priority_table', rt_thread_ready_priority_group')
    BY <1>9, <2>1, RemoveThreadOK DEF ThreadSleep
  <2> QED BY <1>0, <1>9, <2>1, <2>2
      DEF ThreadSleep, SchedulerInv, RestOK, IdleUntouched, Goto, Labels, Stats
<1>10. ASSUME NEW c \in Threads, ThreadExit(c) PROVE SchedulerInv'
  <2>1. c # Idle
    BY <1>10, CallAssumption DEF ThreadExit
  <2>2. TableOK(rt_thread_priority_table', rt_thread_ready_priority_group')
    BY <1>10, <2>1, RemoveThreadOK DEF ThreadExit
  <2>3. rt_thread_defunct' \in Seq(Threads)
    BY <1>0, <1>10, PushMembers DEF ThreadExit, RestOK
  <2> QED BY <1>0, <1>10, <2>1, <2>2, <2>3
      DEF ThreadExit, SchedulerInv, RestOK, IdleUntouched, Goto, Labels, Stats
<1>11. ASSUME NEW c \in Threads, NEW t \in Threads, ThreadDelete(c, t) PROVE SchedulerInv'
  <2>1. t # Idle
    BY <1>11, CallAssumption DEF ThreadDelete
  <2>2. TableOK(rt_thread_priority_table', rt_thread_ready_priority_group')
    BY <1>11, <2>1, RemoveThreadOK DEF ThreadDelete
  <2> QED BY <1>0, <1>11, <2>1, <2>2
      DEF ThreadDelete, SchedulerInv, RestOK, IdleUntouched, GotoFor, timers, Labels
<1>12. ASSUME NEW c \in Threads, DeleteTimer(c) PROVE SchedulerInv'
  BY <1>0, <1>12 DEF DeleteTimer, SchedulerInv, TableOK, RestOK, IdleUntouched, Goto, At,
                     lists, Labels
<1>13. ASSUME NEW c \in Threads, DeleteClose(c) PROVE SchedulerInv'
  BY <1>0, <1>13 DEF DeleteClose, SchedulerInv, TableOK, RestOK, IdleUntouched, Goto, At,
                     lists, timers, Labels, Stats
<1>14. ASSUME NEW c \in Threads, DeleteDefunct(c) PROVE SchedulerInv'
  <2>1. rt_thread_defunct' \in Seq(Threads)
    BY <1>0, <1>14, PushMembers DEF DeleteDefunct, RestOK
  <2> QED BY <1>0, <1>14, <2>1
      DEF DeleteDefunct, SchedulerInv, TableOK, RestOK, IdleUntouched, Goto, timers, Labels
<1>15. ASSUME NEW c \in Threads, NEW t \in Threads, NEW prio \in Priorities,
              ChangePriority(c, t, prio)
       PROVE  SchedulerInv'
  <2>1. t # Idle /\ current_priority[t] \in Priorities
    BY <1>0, <1>15 DEF ChangePriority, RestOK
  <2>2. CASE stat[t] = "READY"
    <3> DEFINE table == Unlinked(rt_thread_priority_table, t)
               group == IF rt_list_isempty(table[current_priority[t]])
                        THEN rt_thread_ready_priority_group \ {current_priority[t]}
                        ELSE rt_thread_ready_priority_group
    <3>1. TableOK(table, group)
      BY <1>0, <2>1, UnlinkedTableOK
    <3>2. TableOK(rt_thread_priority_table', rt_thread_ready_priority_group')
      <4>1. Insert(table, group, t, prio)
        BY <1>15, <2>2 DEF ChangePriority
      <4> HIDE DEF table, group
      <4> QED BY <3>1, <4>1, InsertTableOK DEF Insert
    <3>3. rt_thread_defunct' \in Seq(Threads)
      BY <1>0, <1>15, <2>2, RemoveMembers DEF ChangePriority, RestOK
    <3> HIDE DEF table, group
    <3> QED BY <1>0, <1>15, <2>2, <3>2, <3>3
        DEF ChangePriority, SchedulerInv, RestOK, IdleUntouched, timers, calls
  <2>3. CASE stat[t] # "READY"
    BY <1>0, <1>15, <2>3
       DEF ChangePriority, SchedulerInv, TableOK, RestOK, IdleUntouched, lists, timers, calls
  <2> QED BY <2>2, <2>3
<1>16. ASSUME NEW c \in Threads, EnterCritical(c) PROVE SchedulerInv'
  <2>1. rt_scheduler_lock_nest' \in 0..MaxNest
    BY <1>0, <1>16 DEF EnterCritical, RestOK
  <2>2. Table'
    BY <1>0, <1>16 DEF EnterCritical, TableOK, lists
  <2> QED BY <1>0, <1>16, <2>1, <2>2
      DEF EnterCritical, SchedulerInv, RestOK, IdleUntouched, lists, timers, calls
<1>17. ASSUME NEW c \in Threads, ExitCritical(c) PROVE SchedulerInv'
  <2>1. rt_scheduler_lock_nest' \in 0..MaxNest
    BY <1>0, <1>17 DEF ExitCritical, RestOK
  <2>2. Table'
    BY <1>0, <1>17 DEF ExitCritical, TableOK, lists
  <2> QED BY <1>0, <1>17, <2>1, <2>2
      DEF ExitCritical, SchedulerInv, RestOK, IdleUntouched, Goto, lists, timers, Labels
<1>18. CASE IdleExecute
  <2>1. rt_thread_defunct' \in Seq(Threads) /\ freed' \subseteq Threads
    BY <1>0, <1>18 DEF IdleExecute, RestOK, rt_list_isempty
  <2>2. Table'
    BY <1>0, <1>18 DEF IdleExecute, TableOK
  <2> QED BY <1>0, <1>18, <2>1, <2>2
      DEF IdleExecute, SchedulerInv, RestOK, IdleUntouched, timers, calls
<1>19. CASE TickIncrease
  <2>1. rt_current_thread \in Threads
    BY <1>0, <1>19 DEF TickIncrease, Defined, RestOK
  <2>2. remaining_tick' \in [Threads -> Nat \ {0}]
    BY <1>0, <1>19, <2>1 DEF TickIncrease, SliceAfterTick, RestOK
  <2>3. ticks_left' \in [Threads -> 0..MaxSleep]
    BY <1>0, <1>19 DEF TickIncrease, RestOK
  <2>4. /\ TableOK(rt_thread_priority_table', rt_thread_ready_priority_group')
        /\ rt_current_thread' \in Threads \cup {NoThread}
        /\ resched_owed' \in BOOLEAN
    <3>1. CASE remaining_tick[rt_current_thread] = 1 /\ Yields(rt_current_thread)
      BY <1>0, <1>19, <2>1, <3>1, YieldedTableOK, ScheduleType DEF TickIncrease
    <3>2. CASE ~(remaining_tick[rt_current_thread] = 1 /\ Yields(rt_current_thread))
      BY <1>0, <1>19, <3>2 DEF TickIncrease, RestOK
    <3> QED BY <3>1, <3>2
  <2> QED BY <1>0, <1>19, <2>2, <2>3, <2>4
      DEF TickIncrease, SchedulerInv, RestOK, IdleUntouched, calls
<1>20. ASSUME NEW t \in Threads, ThreadTimeout(t) PROVE SchedulerInv'
  <2>1. t # Idle /\ current_priority[t] \in Priorities
    BY <1>0, <1>20 DEF ThreadTimeout, Expired, RestOK, IdleUntouched
  <2> DEFINE table == Unlinked(rt_thread_priority_table, t)
             new == [table EXCEPT ![current_priority[t]] = rt_list_insert_before(@, t)]
             group == rt_thread_ready_priority_group \cup {current_priority[t]}
  <2>2. TableOK(new, group)
    <3>1. TableOK(table, rt_thread_ready_priority_group)
      BY <1>0, <2>1, UnlinkedTableOK
    <3> HIDE DEF table
    <3> QED BY <2>1, <3>1, InsertTableOK
  <2>3. /\ rt_thread_priority_table' = new
        /\ rt_thread_ready_priority_group' = group
        /\ rt_schedule(new, group)
    BY <1>20 DEF ThreadTimeout, Insert, rt_list_insert_before
  <2>4. rt_thread_defunct' \in Seq(Threads)
    BY <1>0, <1>20, RemoveMembers DEF ThreadTimeout, RestOK
  <2> HIDE DEF table, new, group
  <2>5. rt_current_thread' \in Threads \cup {NoThread} /\ resched_owed' \in BOOLEAN
    BY <1>0, <2>2, <2>3, ScheduleType
  <2> QED BY <1>0, <1>20, <2>2, <2>3, <2>4, <2>5
      DEF ThreadTimeout, SchedulerInv, RestOK, IdleUntouched, calls, Stats
<1>21. CASE TickEnd
  <2>1. Table'
    BY <1>0, <1>21 DEF TickEnd, TableOK, lists
  <2> QED BY <1>0, <1>21, <2>1
      DEF TickEnd, SchedulerInv, RestOK, IdleUntouched, lists, timers, calls
<1>22. CASE UNCHANGED vars
  BY <1>0, <1>22 DEF vars, SchedulerInv, TableOK, RestOK, IdleUntouched,
                     lists, timers, calls
<1> QED
  BY <1>1, <1>2, <1>3, <1>4, <1>5, <1>6, <1>7, <1>8, <1>9, <1>10, <1>11, <1>12, <1>13, <1>14,
     <1>15, <1>16, <1>17, <1>18, <1>19, <1>20, <1>21, <1>22
  DEF Next, ThreadStep, Tick

-----------------------------------------------------------------------------
\* The state of the scheduler keeps its types.
THEOREM SchedulerTyping == Spec => []TypeOK
<1>1. SchedulerInv => TypeOK
  BY DEF SchedulerInv, TableOK, RestOK, TypeOK
<1> QED BY <1>1, SchedulerInit, SchedulerStep, PTL DEF Spec

\* Whatever the application calls and however the tick interrupts it, the bit
\* of every priority with a ready thread is set, so rt_schedule sees it.
THEOREM ReadyThreadsAreVisible == Spec => []ReadyThreadsVisible
<1>1. SchedulerInv => ReadyThreadsVisible
  BY DEF SchedulerInv, TableOK, ReadyThreadsVisible
<1> QED BY <1>1, SchedulerInit, SchedulerStep, PTL DEF Spec

\* Idle is always in its ready list, so the bitmap rt_schedule reads is never 0.
THEOREM IdleIsAlwaysReady == Spec => []IdleAlwaysReady
<1>1. SchedulerInv => IdleAlwaysReady
  BY DEF SchedulerInv, TableOK, IdleAlwaysReady
<1> QED BY <1>1, SchedulerInit, SchedulerStep, PTL DEF Spec

-----------------------------------------------------------------------------
(* The discipline under which the sections of thread.c fit together. *)

\* The threads that start, resume, reprioritise or delete others.
Admins == Starters \cup Resumers \cup PriorityChangers \cup Deleters

\* One thread administers the others and does not delete itself; a thread that
\* ends is not suspended by others, one that is deleted does not sleep, and where
\* threads are resumed none both sleeps and exits.
Discipline ==
    /\ \A c, d \in Admins : c = d
    /\ Deleters \cap Deletable = {}
    /\ Suspendable \cap (Exiters \cup Deletable) = {}
    /\ Sleepers \cap Deletable = {}
    /\ Resumers # {} => Sleepers \cap Exiters = {}

Members(p) == ToSet(rt_thread_priority_table[p])

\* Thread t is in no list of the table.
Absent(t) == \A p \in Priorities : t \notin Members(p)

\* Who may be inside which call, about whom.
CallersOk ==
    \A c \in Threads :
        /\ pc[c] \in {"resume", "insert"} => c \in Resumers
        /\ pc[c] \in {"start", "start_insert"} => c \in Starters
        /\ pc[c] \in {"delete_timer", "delete_close", "delete_defunct"} =>
              c \in Deleters /\ obj[c] \in Deletable
        /\ pc[c] = "suspend" => obj[c] \in Suspendable

\* Where the thread stands that a call in progress is about.
ObjectsOk ==
    \A c \in Threads :
        /\ pc[c] = "resume" => obj[c] # c /\ (stat[obj[c]] = "SUSPEND" \/ obj[c] \in Sleepers)
        /\ pc[c] = "start" => obj[c] # c /\ stat[obj[c]] = "SUSPEND" /\ obj[c] \notin timer_list
        /\ pc[c] \in {"insert", "start_insert"} =>
              stat[obj[c]] # "CLOSE" /\ obj[c] \notin timer_list /\ Absent(obj[c])
        /\ pc[c] \in {"delete_timer", "delete_close"} => stat[obj[c]] # "CLOSE" /\ Absent(obj[c])
        /\ pc[c] = "delete_defunct" =>
              stat[obj[c]] = "CLOSE" /\ obj[c] \notin ToSet(rt_thread_defunct) /\ obj[c] \notin freed

\* Lists, stat and timers.
ListsOk ==
    /\ \A p \in Priorities : LinkedOnce(rt_thread_priority_table[p])
    /\ LinkedOnce(rt_thread_defunct)
    /\ \A t \in Threads, p \in Priorities : t \in Members(p) => stat[t] = "READY" /\ p = current_priority[t]
    /\ \A t \in Threads : \/ stat[t] # "READY" \/ Deleting(t) \/ Resuming(t)
                         \/ t \in Members(current_priority[t])
    /\ \A t \in ToSet(rt_thread_defunct) : stat[t] = "CLOSE" /\ t \notin freed
    /\ \A t \in freed : stat[t] = "CLOSE"
    /\ \A t \in Threads : stat[t] = "CLOSE" => t \in Exiters \cup Deletable
    /\ timer_list \subseteq Sleepers /\ TimeoutAssertion

\* The running thread is in the table, or about to call rt_schedule; unless
\* that call or one of another caller is due, it is the one rt_schedule takes.
RunningOk ==
    rt_current_thread # NoThread =>
        /\ \/ rt_current_thread \in Members(current_priority[rt_current_thread])
           \/ pc[rt_current_thread] = "schedule" /\ rt_scheduler_lock_nest = 0
        /\ pc[rt_current_thread] = "suspend" /\ obj[rt_current_thread] = rt_current_thread =>
              rt_scheduler_lock_nest = 0
        /\ rt_current_thread \notin freed
        /\ rt_scheduler_lock_nest = 0 /\ ~resched_owed =>
              \/ pc[rt_current_thread] = "schedule"
              \/ rt_current_thread = to_thread(rt_thread_priority_table, rt_thread_ready_priority_group)

\* Everything but the running thread.
LinksOk == CallersOk /\ ObjectsOk /\ ListsOk /\ BitsNotStale

\* The inductive invariant under the discipline.
KernelInv == SchedulerInv /\ LinksOk /\ RunningOk

-----------------------------------------------------------------------------
(* What the operations on the table do to its members. *)

\* A thread leaves every list.
LEMMA UnlinkedMembers ==
    ASSUME NEW table \in [Priorities -> Seq(Threads)], NEW t, NEW p \in Priorities, LinkedOnce(table[p])
    PROVE  /\ ToSet(Unlinked(table, t)[p]) = ToSet(table[p]) \ {t}
           /\ LinkedOnce(Unlinked(table, t)[p])
<1>1. Unlinked(table, t)[p] = rt_list_remove(table[p], t)
  BY DEF Unlinked
<1>2. table[p] \in Seq(Threads)
  OBVIOUS
<1>3. /\ ToSet(rt_list_remove(table[p], t)) = ToSet(table[p]) \ {t}
      /\ LinkedOnce(rt_list_remove(table[p], t))
  BY <1>2, RemoveMembers
<1> QED BY <1>1, <1>3

\* A thread enters the list of its priority.
LEMMA InsertedMembers ==
    ASSUME NEW table \in [Priorities -> Seq(Threads)], NEW t \in Threads, NEW prio \in Priorities,
           NEW p \in Priorities, LinkedOnce(table[p]), t \notin ToSet(table[prio])
    PROVE  LET new == [table EXCEPT ![prio] = rt_list_insert_before(@, t)]
           IN  /\ ToSet(new[p]) = IF p = prio THEN ToSet(table[p]) \cup {t} ELSE ToSet(table[p])
               /\ LinkedOnce(new[p])
<1> DEFINE new == [table EXCEPT ![prio] = rt_list_insert_before(@, t)]
<1>1. CASE p # prio
  <2>1. new[p] = table[p]
    BY <1>1
  <2> QED BY <1>1, <2>1
<1>2. CASE p = prio
  <2>1. new[p] = rt_list_insert_before(table[p], t)
    BY <1>2
  <2>2. PICK l \in Seq(Threads) : l = table[p]
    OBVIOUS
  <2>3. LinkedOnce(l) /\ t \notin ToSet(l)
    BY <1>2, <2>2
  <2>4. ToSet(rt_list_insert_before(l, t)) = ToSet(l) \cup {t}
    BY AppendMembers
  <2>5. LinkedOnce(rt_list_insert_before(l, t))
    BY <2>3, AppendLinkedOnce
  <2> QED BY <1>2, <2>1, <2>2, <2>4, <2>5
<1> QED BY <1>1, <1>2

\* A thread that yields goes to the tail of its list.
LEMMA YieldedMembers ==
    ASSUME SchedulerInv, NEW c \in Threads, Yields(c), NEW p \in Priorities,
           LinkedOnce(rt_thread_priority_table[p])
    PROVE  /\ ToSet(YieldedTable(c)[p]) = ToSet(rt_thread_priority_table[p])
           /\ LinkedOnce(YieldedTable(c)[p])
<1> DEFINE q == current_priority[c]
           list == rt_thread_priority_table[p]
<1>1. q \in Priorities /\ list \in Seq(Threads) /\ rt_thread_priority_table \in [Priorities -> Seq(Threads)]
  BY DEF SchedulerInv, RestOK, TableOK
<1>2. CASE p # q
  <2>1. YieldedTable(c)[p] = list
    BY <1>1, <1>2 DEF YieldedTable
  <2> QED BY <2>1
<1>3. CASE p = q
  <2>1. YieldedTable(c)[p] = rt_list_insert_before(rt_list_remove(list, c), c)
    BY <1>1, <1>3 DEF YieldedTable
  <2>2. c \in ToSet(list)
    BY <1>3 DEF Yields
  <2> HIDE DEF list
  <2>3. /\ rt_list_remove(list, c) \in Seq(Threads)
        /\ ToSet(rt_list_remove(list, c)) = ToSet(list) \ {c}
        /\ LinkedOnce(rt_list_remove(list, c))
    BY <1>1, RemoveMembers DEF list
  <2>4. PICK l \in Seq(Threads) : l = rt_list_remove(list, c)
    BY <2>3
  <2>5. LinkedOnce(l) /\ c \notin ToSet(l)
    BY <2>3, <2>4
  <2>6. ToSet(rt_list_insert_before(l, c)) = ToSet(l) \cup {c}
    BY AppendMembers
  <2>7. LinkedOnce(rt_list_insert_before(l, c))
    BY <2>5, AppendLinkedOnce
  <2> QED BY <2>1, <2>2, <2>3, <2>4, <2>6, <2>7 DEF list
<1> QED BY <1>2, <1>3

\* A list is empty when it has no members.
LEMMA EmptyList ==
    ASSUME NEW list \in Seq(Threads)
    PROVE  list = <<>> <=> ToSet(list) = {}
<1>1. list # <<>> => list[1] \in ToSet(list)
  BY DEF ToSet
<1>2. ToSet(<<>>) = {}
  BY DEF ToSet
<1> QED BY <1>1, <1>2

\* The head of a list stays when another node leaves.
LEMMA RemoveKeepsHead ==
    ASSUME NEW list \in Seq(Threads), list # <<>>, NEW t, Head(list) # t
    PROVE  rt_list_remove(list, t) # <<>> /\ Head(rt_list_remove(list, t)) = Head(list)
<1>1. CASE t \notin ToSet(list)
  BY <1>1 DEF rt_list_remove
<1>2. CASE t \in ToSet(list)
  <2> DEFINE k == CHOOSE i \in DOMAIN list : list[i] = t
  <2>1. \E i \in DOMAIN list : list[i] = t
    BY <1>2 DEF ToSet
  <2>2. k \in DOMAIN list /\ list[k] = t
    BY <2>1
  <2>3. rt_list_remove(list, t) = RemoveAt(list, k)
    BY <1>2 DEF rt_list_remove
  <2> HIDE DEF k
  <2>4. k \in 1..Len(list) /\ k # 1 /\ Head(list) = list[1] /\ Len(list) \in Nat
    BY <2>2
  <2>5. /\ RemoveAt(list, k) \in Seq(Threads) /\ Len(RemoveAt(list, k)) = Len(list) - 1
        /\ \A i \in 1..(Len(list) - 1) : RemoveAt(list, k)[i] = IF i < k THEN list[i] ELSE list[i + 1]
    BY <2>4, RemoveAtElements
  <2>6. 1 \in 1..(Len(list) - 1) /\ 1 < k
    BY <2>4
  <2>7. RemoveAt(list, k)[1] = list[1]
    BY <2>5, <2>6
  <2> QED BY <2>3, <2>4, <2>5, <2>6, <2>7
<1> QED BY <1>1, <1>2

\* The lowest bit that is set.
LEMMA HighestBit ==
    ASSUME NEW table, NEW group, TableOK(table, group)
    PROVE  /\ highest_ready_priority(group) \in group /\ highest_ready_priority(group) \in Priorities
           /\ \A q \in group : highest_ready_priority(group) <= q
           /\ \A p \in group : (\A q \in group : p <= q) => p = highest_ready_priority(group)
<1> USE ThreadAssumption
<1>1. table \in [Priorities -> Seq(Threads)] /\ group \subseteq Priorities
  BY DEF TableOK
<1>2. PriorityMax - 1 \in group
  <2>1. PriorityMax - 1 \in Priorities
    BY DEF Priorities
  <2>2. table[PriorityMax - 1] # <<>>
    BY DEF TableOK, ToSet
  <2> QED BY <2>1, <2>2 DEF TableOK
<1>3. group \in SUBSET Nat
  BY <1>1 DEF Priorities
<1>4. \E p \in group : \A q \in group : p <= q
  BY <1>2, <1>3, LeastExists
<1>5. highest_ready_priority(group) \in group /\ \A q \in group : highest_ready_priority(group) <= q
  BY <1>4 DEF highest_ready_priority
<1>6. PICK h : h = highest_ready_priority(group)
  OBVIOUS
<1>7. ASSUME NEW p \in group, \A q \in group : p <= q PROVE p = h
  <2>1. p \in Nat /\ h \in Nat
    BY <1>3, <1>5, <1>6
  <2>2. p <= h /\ h <= p
    BY <1>5, <1>6, <1>7
  <2> QED BY <2>1, <2>2
<1> QED BY <1>1, <1>5, <1>6, <1>7

\* The thread rt_schedule takes, if it is one, is a member of the table.
LEMMA ToThreadMember ==
    ASSUME NEW table, NEW group, TableOK(table, group), to_thread(table, group) # NoThread
    PROVE  /\ to_thread(table, group) \in Threads
           /\ to_thread(table, group) \in ToSet(table[highest_ready_priority(group)])
           /\ highest_ready_priority(group) \in Priorities
<1> DEFINE list == table[highest_ready_priority(group)]
<1>1. highest_ready_priority(group) \in Priorities
  BY HighestBit
<1>2. list \in Seq(Threads)
  BY <1>1 DEF TableOK
<1>3. list # <<>> /\ to_thread(table, group) = Head(list)
  BY DEF to_thread, rt_list_isempty
<1> HIDE DEF list
<1>4. Head(list) = list[1] /\ 1 \in DOMAIN list /\ list[1] \in Threads
  BY <1>2, <1>3
<1>5. Head(list) \in ToSet(list)
  BY <1>4 DEF ToSet
<1> QED BY <1>1, <1>3, <1>4, <1>5 DEF list

\* It stays the same when another thread leaves the table, whether the bit of the
\* emptied list is cleared or not.
LEMMA ToThreadKept ==
    ASSUME NEW table, NEW group, TableOK(table, group), to_thread(table, group) # NoThread,
           NEW t, t # to_thread(table, group), NEW p \in Priorities, NEW group2,
           group2 = group \/ (group2 = group \ {p} /\ Unlinked(table, t)[p] = <<>>)
    PROVE  to_thread(Unlinked(table, t), group2) = to_thread(table, group)
<1> DEFINE h == highest_ready_priority(group)
           list == table[h]
<1>1. /\ h \in group /\ h \in Priorities /\ group \subseteq Nat
      /\ \A q \in group : h <= q
  <2>1. group \subseteq Nat
    BY DEF TableOK, Priorities
  <2>2. h \in group /\ h \in Priorities /\ \A q \in group : h <= q
    BY HighestBit
  <2> QED BY <2>1, <2>2
<1>2. list \in Seq(Threads) /\ list # <<>> /\ to_thread(table, group) = Head(list)
  BY <1>1 DEF TableOK, to_thread, rt_list_isempty
<1>3. Unlinked(table, t)[h] = rt_list_remove(list, t)
  BY <1>1 DEF Unlinked
<1> HIDE DEF h, list
<1>4. rt_list_remove(list, t) # <<>> /\ Head(rt_list_remove(list, t)) = Head(list)
  BY <1>2, RemoveKeepsHead
<1>5. h \in group2 /\ group2 \subseteq group
  BY <1>1, <1>3, <1>4
<1>6. highest_ready_priority(group2) = h
  <2>1. \A x \in group2 : (\A q \in group2 : x <= q) => x = h
    BY <1>1, <1>5
  <2>2. \A q \in group2 : h <= q
    BY <1>1, <1>5
  <2> QED BY <1>5, <2>1, <2>2 DEF highest_ready_priority
<1> QED BY <1>2, <1>3, <1>4, <1>6 DEF to_thread, rt_list_isempty

-----------------------------------------------------------------------------
(* Facts the steps share. *)

\* The thread that executes, outside the rt_schedule it owes, is ready and linked.
LEMMA RunningThread ==
    ASSUME KernelInv, NEW c \in Threads, NEW label, label # "schedule", At(c, label)
    PROVE  /\ c = rt_current_thread /\ rt_current_thread # NoThread /\ pc[c] = label
           /\ current_priority[c] \in Priorities
           /\ c \in Members(current_priority[c])
           /\ stat[c] = "READY" /\ c \notin freed /\ ~Absent(c)
<1>1. c = rt_current_thread /\ rt_current_thread # NoThread /\ pc[c] = label
  BY DEF At, Defined
<1>2. current_priority[c] \in Priorities
  BY DEF KernelInv, SchedulerInv, RestOK
<1>3. c \in Members(current_priority[c]) /\ c \notin freed
  BY <1>1 DEF KernelInv, RunningOk
<1>4. stat[c] = "READY"
  BY <1>2, <1>3 DEF KernelInv, LinksOk, ListsOk
<1> QED BY <1>1, <1>2, <1>3, <1>4 DEF Absent

\* While an administrator is at work nobody else is inside one of its calls.
LEMMA OneAdmin ==
    ASSUME Discipline, CallersOk, NEW c \in Threads, c \in Admins, NEW d \in Threads, d # c
    PROVE  pc[d] \notin {"resume", "insert", "start", "start_insert",
                         "delete_timer", "delete_close", "delete_defunct"}
  BY DEF Discipline, CallersOk, Admins

\* Outside the calls of the administrator, no bit is stale, and no thread is
\* being deleted or resumed.
LEMMA NoCallPending ==
    ASSUME Discipline, LinksOk, NEW c \in Threads, c \in Admins, pc[c] = "run"
    PROVE  /\ \A t \in Threads : ~Deleting(t) /\ ~Resuming(t)
           /\ \A p \in rt_thread_ready_priority_group : rt_thread_priority_table[p] # <<>>
<1>1. \A d \in Threads : pc[d] \notin {"insert", "start_insert", "delete_timer", "delete_close", "delete_defunct"}
  BY OneAdmin DEF LinksOk
<1> QED BY <1>1 DEF LinksOk, BitsNotStale, Deleting, Resuming

\* The thread rt_schedule has just taken is linked and is the highest.
LEMMA AfterSchedule ==
    ASSUME SchedulerInv', ListsOk', rt_scheduler_lock_nest' = 0,
           rt_current_thread' = to_thread(rt_thread_priority_table', rt_thread_ready_priority_group')
    PROVE  RunningOk'
<1> SUFFICES ASSUME rt_current_thread' # NoThread PROVE RunningOk'
  BY DEF RunningOk
<1>1. TableOK(rt_thread_priority_table', rt_thread_ready_priority_group')
  BY DEF SchedulerInv
<1>2. PICK h \in Priorities : /\ rt_current_thread' \in Threads
                             /\ rt_current_thread' \in ToSet(rt_thread_priority_table'[h])
  BY <1>1, ToThreadMember
<1>3. rt_current_thread' \in Members(h)'
  BY <1>2 DEF Members
<1>4. stat'[rt_current_thread'] = "READY" /\ h = current_priority'[rt_current_thread']
  BY <1>2, <1>3 DEF ListsOk
<1>5. rt_current_thread' \notin freed'
  BY <1>4 DEF ListsOk
<1>6. rt_current_thread' \in Members(current_priority[rt_current_thread])'
  BY <1>2, <1>4 DEF Members
<1> QED BY <1>5, <1>6 DEF RunningOk

\* A step that leaves the members of the lists, the bitmap, stat, the priorities,
\* the timers and the reaper's list alone, and at most starts a resume or suspend.
LEMMA QuietStep ==
    ASSUME SchedulerInv, SchedulerInv', LinksOk,
           \A p \in Priorities : Members(p)' = Members(p) /\ LinkedOnce(rt_thread_priority_table'[p]),
           UNCHANGED <<rt_thread_ready_priority_group, stat, current_priority, rt_thread_defunct, freed, timer_list>>,
           \A d \in Threads :
               \/ pc'[d] = pc[d] /\ obj'[d] = obj[d]
               \/ pc[d] \in {"run", "schedule"} /\ pc'[d] \in {"run", "schedule"}
               \/ /\ pc[d] = "run" /\ pc'[d] = "resume" /\ d \in Resumers
                  /\ obj'[d] # d /\ stat[obj'[d]] = "SUSPEND"
               \/ pc[d] = "run" /\ pc'[d] = "suspend" /\ obj'[d] \in Suspendable
    PROVE  LinksOk'
<1>1. CallersOk'
  BY DEF LinksOk, CallersOk
<1>2. \A t : Absent(t)' <=> Absent(t)
  BY DEF Absent
<1>3. ObjectsOk'
  BY <1>2 DEF LinksOk, ObjectsOk
<1>4. \A t \in Threads : (Deleting(t)' <=> Deleting(t)) /\ (Resuming(t)' <=> Resuming(t))
  BY DEF Deleting, Resuming
<1>5. ListsOk'
  <2>1. current_priority \in [Threads -> Priorities]
    BY DEF SchedulerInv, RestOK
  <2>2. \A t \in Threads : \/ stat[t] # "READY" \/ Deleting(t)' \/ Resuming(t)'
                           \/ t \in Members(current_priority[t])
    BY <1>4 DEF LinksOk, ListsOk
  <2>3. \A t \in Threads : \/ stat'[t] # "READY" \/ Deleting(t)' \/ Resuming(t)'
                           \/ t \in Members(current_priority[t])'
    BY <2>1, <2>2 DEF Members
  <2> QED BY <2>3 DEF LinksOk, ListsOk, TimeoutAssertion
<1>6. BitsNotStale'
  <2>1. ASSUME NEW p \in Priorities, rt_thread_priority_table'[p] = <<>> PROVE rt_thread_priority_table[p] = <<>>
    <3>1. rt_thread_priority_table'[p] \in Seq(Threads) /\ rt_thread_priority_table[p] \in Seq(Threads)
      BY DEF SchedulerInv, TableOK
    <3>2. ToSet(rt_thread_priority_table[p]) = ToSet(rt_thread_priority_table'[p])
      BY DEF Members
    <3> QED BY <2>1, <3>1, <3>2, EmptyList
  <2>2. rt_thread_ready_priority_group' \subseteq Priorities
    BY DEF SchedulerInv, TableOK
  <2>3. \A d \in Threads : pc[d] \in {"insert", "start_insert"} => pc'[d] = pc[d] /\ obj'[d] = obj[d]
    OBVIOUS
  <2> QED BY <2>1, <2>2, <2>3 DEF LinksOk, BitsNotStale
<1> QED BY <1>1, <1>3, <1>5, <1>6 DEF LinksOk

-----------------------------------------------------------------------------
(* The steps that move no thread between lists. *)

\* A step that leaves the lists alone leaves their members alone.
LEMMA SameTable ==
    ASSUME LinksOk, UNCHANGED rt_thread_priority_table
    PROVE  \A p \in Priorities : Members(p)' = Members(p) /\ LinkedOnce(rt_thread_priority_table'[p])
  BY DEF LinksOk, ListsOk, Members

\* rt_schedule, called by a thread.
LEMMA ScheduleKeeps ==
    ASSUME KernelInv, SchedulerInv', NEW c \in Threads, Schedule(c)
    PROVE  LinksOk' /\ RunningOk'
<1>1. UNCHANGED <<rt_thread_priority_table, rt_thread_ready_priority_group, stat, current_priority,
                  rt_thread_defunct, freed, timer_list, rt_scheduler_lock_nest, obj>>
  BY DEF Schedule, lists, timers, Goto
<1>2. /\ c = rt_current_thread /\ rt_current_thread # NoThread /\ pc[c] \in {"run", "schedule"}
      /\ pc' = [pc EXCEPT ![c] = "run"] /\ pc \in [Threads -> Labels]
  BY DEF Schedule, At, Defined, Goto, KernelInv, SchedulerInv, RestOK
<1>3. LinksOk'
  <2>1. \A p \in Priorities : Members(p)' = Members(p) /\ LinkedOnce(rt_thread_priority_table'[p])
    BY <1>1, SameTable DEF KernelInv
  <2>2. \A d \in Threads : \/ pc'[d] = pc[d] /\ obj'[d] = obj[d]
                           \/ pc[d] \in {"run", "schedule"} /\ pc'[d] \in {"run", "schedule"}
    BY <1>1, <1>2
  <2> QED BY <1>1, <2>1, <2>2, QuietStep DEF KernelInv
<1>4. CASE rt_scheduler_lock_nest = 0
  <2>1. rt_current_thread' = to_thread(rt_thread_priority_table', rt_thread_ready_priority_group')
    BY <1>1, <1>4 DEF Schedule, rt_schedule
  <2> QED BY <1>1, <1>3, <1>4, <2>1, AfterSchedule DEF LinksOk
<1>5. CASE rt_scheduler_lock_nest # 0
  <2>1. rt_current_thread' = c
    BY <1>2, <1>5 DEF Schedule, rt_schedule
  <2>2. c \in Members(current_priority[c]) /\ c \notin freed
    BY <1>2, <1>5 DEF KernelInv, RunningOk
  <2>3. rt_current_thread' \in Members(current_priority[rt_current_thread])'
    BY <1>1, <2>1, <2>2 DEF Members
  <2>4. pc'[c] = "run"
    BY <1>2
  <2> QED BY <1>1, <1>3, <1>5, <2>1, <2>2, <2>3, <2>4 DEF RunningOk
<1> QED BY <1>3, <1>4, <1>5

\* A call that only records what it is about, or changes the lock: the running
\* thread goes on.
LEMMA GoesOn ==
    ASSUME KernelInv, NEW c \in Threads, At(c, "run"),
           UNCHANGED <<rt_thread_priority_table, rt_thread_ready_priority_group, stat, current_priority,
                       freed, rt_current_thread, resched_owed>>,
           pc'[c] = "suspend" /\ obj'[c] = c => rt_scheduler_lock_nest' = 0,
           rt_scheduler_lock_nest' = 0 => pc'[c] = "schedule" \/ rt_scheduler_lock_nest = 0
    PROVE  RunningOk'
<1>1. /\ c = rt_current_thread /\ rt_current_thread # NoThread /\ pc[c] = "run"
      /\ c \in Members(current_priority[c]) /\ c \notin freed
  BY RunningThread
<1>2. rt_current_thread' \in Members(current_priority[rt_current_thread])'
  BY <1>1 DEF Members
<1>3. rt_current_thread' = c /\ freed' = freed
  BY <1>1
<1>4. rt_scheduler_lock_nest' = 0 /\ ~resched_owed' =>
        \/ pc'[c] = "schedule"
        \/ c = to_thread(rt_thread_priority_table', rt_thread_ready_priority_group')
  BY <1>1 DEF KernelInv, RunningOk
<1> QED BY <1>1, <1>2, <1>3, <1>4 DEF RunningOk

\* rt_thread_resume and rt_thread_suspend read stat.
LEMMA CallBegins ==
    ASSUME KernelInv, SchedulerInv', NEW c \in Threads, NEW t \in Threads,
           ThreadResume(c, t) \/ ThreadSuspend(c, t)
    PROVE  LinksOk' /\ RunningOk'
<1>1. /\ UNCHANGED <<rt_thread_priority_table, rt_thread_ready_priority_group, stat, current_priority,
                     rt_thread_defunct, freed, timer_list, rt_scheduler_lock_nest, rt_current_thread, resched_owed>>
      /\ At(c, "run")
  BY DEF ThreadResume, ThreadSuspend, lists, timers
<1>2. stat[c] = "READY" /\ pc[c] = "run"
  BY <1>1, RunningThread
<1>3. /\ \A d \in Threads : d # c => pc'[d] = pc[d] /\ obj'[d] = obj[d]
      /\ obj'[c] = t
      /\ \/ pc'[c] = "resume" /\ c \in Resumers /\ t # c /\ stat[t] = "SUSPEND"
         \/ pc'[c] = "suspend" /\ t \in Suspendable /\ (t = c => rt_scheduler_lock_nest = 0)
  <2>1. pc \in [Threads -> Labels] /\ obj \in [Threads -> Threads]
    BY DEF KernelInv, SchedulerInv, RestOK
  <2>2. CASE ThreadResume(c, t)
    BY <1>2, <2>1, <2>2 DEF ThreadResume, GotoFor
  <2>3. CASE ThreadSuspend(c, t)
    BY <2>1, <2>3 DEF ThreadSuspend, GotoFor
  <2> QED BY <2>2, <2>3
<1>4. LinksOk'
  <2>1. \A p \in Priorities : Members(p)' = Members(p) /\ LinkedOnce(rt_thread_priority_table'[p])
    BY <1>1, SameTable DEF KernelInv
  <2>2. \A d \in Threads :
               \/ pc'[d] = pc[d] /\ obj'[d] = obj[d]
               \/ /\ pc[d] = "run" /\ pc'[d] = "resume" /\ d \in Resumers
                  /\ obj'[d] # d /\ stat[obj'[d]] = "SUSPEND"
               \/ pc[d] = "run" /\ pc'[d] = "suspend" /\ obj'[d] \in Suspendable
    BY <1>2, <1>3
  <2> QED BY <1>1, <2>1, <2>2, QuietStep DEF KernelInv
<1>5. RunningOk'
  BY <1>1, <1>3, GoesOn
<1> QED BY <1>4, <1>5

\* rt_enter_critical and rt_exit_critical.
LEMMA LockKeeps ==
    ASSUME KernelInv, SchedulerInv', NEW c \in Threads, EnterCritical(c) \/ ExitCritical(c)
    PROVE  LinksOk' /\ RunningOk'
<1>1. /\ UNCHANGED <<rt_thread_priority_table, rt_thread_ready_priority_group, stat, current_priority,
                     rt_thread_defunct, freed, timer_list, rt_current_thread, resched_owed, obj>>
      /\ At(c, "run") /\ pc[c] = "run"
  BY DEF EnterCritical, ExitCritical, lists, timers, Goto, calls, At
<1>2. /\ \A d \in Threads : d # c => pc'[d] = pc[d]
      /\ pc'[c] \in {"run", "schedule"}
      /\ rt_scheduler_lock_nest' = 0 => pc'[c] = "schedule"
  <2>1. pc \in [Threads -> Labels] /\ rt_scheduler_lock_nest \in Nat
    BY ThreadAssumption DEF KernelInv, SchedulerInv, RestOK
  <2>2. CASE EnterCritical(c)
    BY <1>1, <2>1, <2>2 DEF EnterCritical, calls
  <2>3. CASE ExitCritical(c)
    BY <1>1, <2>1, <2>3 DEF ExitCritical, Goto
  <2> QED BY <2>2, <2>3
<1>3. LinksOk'
  <2>1. \A p \in Priorities : Members(p)' = Members(p) /\ LinkedOnce(rt_thread_priority_table'[p])
    BY <1>1, SameTable DEF KernelInv
  <2>2. \A d \in Threads : \/ pc'[d] = pc[d] /\ obj'[d] = obj[d]
                           \/ pc[d] \in {"run", "schedule"} /\ pc'[d] \in {"run", "schedule"}
    BY <1>1, <1>2
  <2> QED BY <1>1, <2>1, <2>2, QuietStep DEF KernelInv
<1>4. RunningOk'
  BY <1>1, <1>2, GoesOn
<1> QED BY <1>3, <1>4

\* rt_thread_yield by the running thread.
LEMMA YieldKeeps ==
    ASSUME KernelInv, SchedulerInv', NEW c \in Threads, ThreadYield(c)
    PROVE  LinksOk' /\ RunningOk'
<1>1. /\ UNCHANGED <<rt_thread_ready_priority_group, stat, current_priority, rt_thread_defunct, freed,
                     timer_list, rt_scheduler_lock_nest, rt_current_thread, resched_owed, obj>>
      /\ At(c, "run") /\ Yields(c) /\ rt_thread_priority_table' = YieldedTable(c)
      /\ pc' = [pc EXCEPT ![c] = "schedule"]
  BY DEF ThreadYield, timers, Goto
<1>2. /\ c = rt_current_thread /\ rt_current_thread # NoThread /\ pc[c] = "run"
      /\ current_priority[c] \in Priorities
      /\ c \in Members(current_priority[c]) /\ c \notin freed
  BY <1>1, RunningThread
<1>3. \A p \in Priorities : Members(p)' = Members(p) /\ LinkedOnce(rt_thread_priority_table'[p])
  BY <1>1, YieldedMembers DEF Members, KernelInv, LinksOk, ListsOk
<1>4. pc'[c] = "schedule" /\ \A d \in Threads : d # c => pc'[d] = pc[d]
  BY <1>1 DEF KernelInv, SchedulerInv, RestOK
<1>5. LinksOk'
  <2>1. \A d \in Threads : \/ pc'[d] = pc[d] /\ obj'[d] = obj[d]
                           \/ pc[d] \in {"run", "schedule"} /\ pc'[d] \in {"run", "schedule"}
    BY <1>1, <1>2, <1>4
  <2> QED BY <1>1, <1>3, <2>1, QuietStep DEF KernelInv
<1>6. RunningOk'
  <2>1. c \in Members(current_priority[c])'
    <3>1. c \in ToSet(rt_thread_priority_table'[current_priority[c]])
      BY <1>2, <1>3 DEF Members
    <3> QED BY <1>1, <3>1 DEF Members
  <2>2. rt_current_thread' = c /\ c \notin freed'
    BY <1>1, <1>2
  <2>3. rt_current_thread' \in Members(current_priority[rt_current_thread])'
    BY <2>1, <2>2 DEF Members
  <2> QED BY <1>4, <2>2, <2>3 DEF RunningOk
<1> QED BY <1>5, <1>6

\* The tick, up to the timers: the used up slice moves the running thread to the
\* tail of its list.
LEMMA TickKeeps ==
    ASSUME KernelInv, SchedulerInv', TickIncrease
    PROVE  LinksOk' /\ RunningOk'
<1> DEFINE c == rt_current_thread
           yields == remaining_tick[c] = 1 /\ Yields(c)
<1>1. /\ UNCHANGED <<rt_thread_ready_priority_group, stat, current_priority, rt_thread_defunct, freed,
                     timer_list, rt_scheduler_lock_nest, pc, obj>>
      /\ c # NoThread /\ c \in Threads
  BY DEF TickIncrease, calls, Defined, KernelInv, SchedulerInv, RestOK
<1>2. CASE ~yields
  <2>1. UNCHANGED <<rt_thread_priority_table, rt_current_thread, resched_owed>>
    BY <1>2 DEF TickIncrease
  <2>2. \A p \in Priorities : Members(p)' = Members(p) /\ LinkedOnce(rt_thread_priority_table'[p])
    BY <2>1, SameTable DEF KernelInv
  <2>3. LinksOk'
    <3>1. \A d \in Threads : pc'[d] = pc[d] /\ obj'[d] = obj[d]
      BY <1>1
    <3> QED BY <1>1, <2>2, <3>1, QuietStep DEF KernelInv
  <2>4. RunningOk'
    <3>1. Members(current_priority[rt_current_thread])' = Members(current_priority[rt_current_thread])
      BY <1>1, <2>1 DEF Members
    <3> QED BY <1>1, <2>1, <3>1 DEF KernelInv, RunningOk
  <2> QED BY <2>3, <2>4
<1>3. CASE yields
  <2>1. /\ rt_thread_priority_table' = YieldedTable(c)
        /\ rt_schedule(YieldedTable(c), rt_thread_ready_priority_group)
        /\ Yields(c)
    BY <1>3 DEF TickIncrease
  <2>2. \A p \in Priorities : Members(p)' = Members(p) /\ LinkedOnce(rt_thread_priority_table'[p])
    BY <1>1, <2>1, YieldedMembers DEF Members, KernelInv, LinksOk, ListsOk
  <2>3. LinksOk'
    <3>1. \A d \in Threads : pc'[d] = pc[d] /\ obj'[d] = obj[d]
      BY <1>1
    <3> QED BY <1>1, <2>2, <3>1, QuietStep DEF KernelInv
  <2>4. CASE rt_scheduler_lock_nest = 0
    <3>1. rt_current_thread' = to_thread(rt_thread_priority_table', rt_thread_ready_priority_group')
      BY <1>1, <2>1, <2>4 DEF rt_schedule
    <3> QED BY <1>1, <2>3, <2>4, <3>1, AfterSchedule DEF LinksOk
  <2>5. CASE rt_scheduler_lock_nest # 0
    <3>1. rt_current_thread' = rt_current_thread
      BY <2>1, <2>5 DEF rt_schedule
    <3>2. current_priority[c] \in Priorities
      BY <1>1 DEF KernelInv, SchedulerInv, RestOK
    <3>3. c \in Members(current_priority[c]) /\ c \notin freed
      BY <1>1, <2>5 DEF KernelInv, RunningOk
    <3>4. c \in ToSet(rt_thread_priority_table'[current_priority[c]])
      BY <2>2, <3>2, <3>3 DEF Members
    <3>5. rt_current_thread' \in Members(current_priority[rt_current_thread])'
      BY <1>1, <3>1, <3>4 DEF Members
    <3>6. pc'[c] = "suspend" /\ obj'[c] = c => rt_scheduler_lock_nest' = 0
      BY <1>1 DEF KernelInv, RunningOk
    <3> QED BY <1>1, <2>3, <2>5, <3>1, <3>3, <3>5, <3>6 DEF RunningOk
  <2> QED BY <2>3, <2>4, <2>5
<1> QED BY <1>2, <1>3

\* The end of the tick, and a step of another component.
LEMMA NothingMoves ==
    ASSUME KernelInv, SchedulerInv', TickEnd \/ UNCHANGED vars
    PROVE  LinksOk' /\ RunningOk'
<1>1. UNCHANGED <<rt_thread_priority_table, rt_thread_ready_priority_group, stat, current_priority,
                  rt_thread_defunct, freed, timer_list, rt_scheduler_lock_nest, pc, obj,
                  rt_current_thread, resched_owed>>
  BY DEF TickEnd, vars, lists, timers, calls
<1>2. LinksOk'
  <2>1. \A p \in Priorities : Members(p)' = Members(p) /\ LinkedOnce(rt_thread_priority_table'[p])
    BY <1>1, SameTable DEF KernelInv
  <2>2. \A d \in Threads : pc'[d] = pc[d] /\ obj'[d] = obj[d]
    BY <1>1
  <2> QED BY <1>1, <2>1, <2>2, QuietStep DEF KernelInv
<1>3. RunningOk'
  <2>1. Members(current_priority[rt_current_thread])' = Members(current_priority[rt_current_thread])
    BY <1>1 DEF Members
  <2> QED BY <1>1, <2>1 DEF KernelInv, RunningOk
<1> QED BY <1>2, <1>3

-----------------------------------------------------------------------------
(* The steps that take a thread out of the table. *)

\* rt_schedule_remove_thread: the thread is gone from every list, and no bit
\* becomes stale.
LEMMA RemovedThread ==
    ASSUME SchedulerInv, LinksOk, NEW t \in Threads, rt_schedule_remove_thread(t)
    PROVE  /\ \A p \in Priorities : Members(p)' = Members(p) \ {t} /\ LinkedOnce(rt_thread_priority_table'[p])
           /\ rt_thread_ready_priority_group' \subseteq rt_thread_ready_priority_group
           /\ \A p \in rt_thread_ready_priority_group' :
                 rt_thread_priority_table'[p] = <<>> => rt_thread_priority_table[p] = <<>>
           /\ rt_thread_priority_table' = Unlinked(rt_thread_priority_table, t)
           /\ \/ rt_thread_ready_priority_group' = rt_thread_ready_priority_group
              \/ /\ rt_thread_ready_priority_group' = rt_thread_ready_priority_group \ {current_priority[t]}
                 /\ Unlinked(rt_thread_priority_table, t)[current_priority[t]] = <<>>
<1>1. /\ rt_thread_priority_table \in [Priorities -> Seq(Threads)]
      /\ rt_thread_ready_priority_group \subseteq Priorities
      /\ current_priority[t] \in Priorities
  BY DEF SchedulerInv, TableOK, RestOK
<1>2. rt_thread_priority_table' = Unlinked(rt_thread_priority_table, t)
  BY DEF rt_schedule_remove_thread
<1>3. /\ rt_list_isempty(rt_thread_priority_table'[current_priority[t]]) =>
            rt_thread_ready_priority_group' = rt_thread_ready_priority_group \ {current_priority[t]}
      /\ ~rt_list_isempty(rt_thread_priority_table'[current_priority[t]]) =>
            rt_thread_ready_priority_group' = rt_thread_ready_priority_group
  BY DEF rt_schedule_remove_thread
<1>4. \A p \in Priorities : Members(p)' = Members(p) \ {t} /\ LinkedOnce(rt_thread_priority_table'[p])
  <2>1. ASSUME NEW p \in Priorities
        PROVE  /\ ToSet(rt_thread_priority_table'[p]) = ToSet(rt_thread_priority_table[p]) \ {t}
               /\ LinkedOnce(rt_thread_priority_table'[p])
    <3>1. LinkedOnce(rt_thread_priority_table[p])
      BY DEF LinksOk, ListsOk
    <3> QED BY <1>1, <1>2, <3>1, UnlinkedMembers
  <2> QED BY <2>1 DEF Members
<1>5. ASSUME NEW p \in rt_thread_ready_priority_group', rt_thread_priority_table'[p] = <<>>
      PROVE  rt_thread_priority_table[p] = <<>>
  <2>1. p # current_priority[t] /\ p \in Priorities
    BY <1>1, <1>3, <1>5 DEF rt_list_isempty
  <2>2. t \notin Members(p)
    BY <2>1 DEF LinksOk, ListsOk
  <2>3. rt_thread_priority_table'[p] = rt_thread_priority_table[p]
    BY <1>2, <2>1, <2>2 DEF Unlinked, rt_list_remove, Members
  <2> QED BY <1>5, <2>3
<1> QED BY <1>1, <1>2, <1>3, <1>4, <1>5 DEF rt_list_isempty

\* The running thread goes on when another one leaves the table.
LEMMA OtherLeaves ==
    ASSUME KernelInv, SchedulerInv', NEW c \in Threads, NEW label, label # "schedule", At(c, label),
           NEW t, t # c, rt_thread_priority_table' = Unlinked(rt_thread_priority_table, t),
           NEW p \in Priorities,
           \/ rt_thread_ready_priority_group' = rt_thread_ready_priority_group
           \/ /\ rt_thread_ready_priority_group' = rt_thread_ready_priority_group \ {p}
              /\ Unlinked(rt_thread_priority_table, t)[p] = <<>>,
           UNCHANGED <<current_priority, freed, rt_current_thread, rt_scheduler_lock_nest, resched_owed>>,
           pc'[c] # "suspend"
    PROVE  RunningOk'
<1>1. /\ c = rt_current_thread /\ rt_current_thread # NoThread /\ pc[c] = label
      /\ current_priority[c] \in Priorities
      /\ c \in Members(current_priority[c]) /\ c \notin freed
  BY RunningThread
<1>2. /\ rt_thread_priority_table \in [Priorities -> Seq(Threads)]
      /\ TableOK(rt_thread_priority_table, rt_thread_ready_priority_group)
  BY DEF KernelInv, SchedulerInv, TableOK
<1>3. c \in ToSet(rt_thread_priority_table'[current_priority[c]])
  <2>1. c \in ToSet(rt_thread_priority_table[current_priority[c]]) /\ c # t
    BY <1>1 DEF Members
  <2> QED BY <1>1, <1>2, <2>1, UnlinkedTable
<1>4. rt_current_thread' \in Members(current_priority[rt_current_thread])'
  BY <1>1, <1>3 DEF Members
<1>5. ASSUME c = to_thread(rt_thread_priority_table, rt_thread_ready_priority_group)
      PROVE  c = to_thread(rt_thread_priority_table', rt_thread_ready_priority_group')
  <2>1. to_thread(Unlinked(rt_thread_priority_table, t), rt_thread_ready_priority_group')
          = to_thread(rt_thread_priority_table, rt_thread_ready_priority_group)
    BY <1>1, <1>2, <1>5, ToThreadKept
  <2> QED BY <1>5, <2>1
<1>6. rt_scheduler_lock_nest = 0 /\ ~resched_owed =>
        c = to_thread(rt_thread_priority_table, rt_thread_ready_priority_group)
  BY <1>1 DEF KernelInv, RunningOk
<1> QED BY <1>1, <1>4, <1>5, <1>6 DEF RunningOk

\* The running thread takes itself out and goes on to rt_schedule.
LEMMA SelfLeaves ==
    ASSUME NEW c \in Threads, rt_current_thread' = c, pc'[c] = "schedule",
           rt_scheduler_lock_nest' = 0, c \notin freed'
    PROVE  RunningOk'
  BY DEF RunningOk

\* The stale bits that calls in progress excuse stay excused.
LEMMA StaleBits ==
    ASSUME SchedulerInv, LinksOk,
           \A p \in rt_thread_ready_priority_group' :
               rt_thread_priority_table'[p] = <<>> =>
                   p \in rt_thread_ready_priority_group /\ rt_thread_priority_table[p] = <<>>,
           UNCHANGED current_priority,
           \A d \in Threads : pc[d] \in {"insert", "start_insert"} => pc'[d] = pc[d] /\ obj'[d] = obj[d]
    PROVE  BitsNotStale'
  BY DEF LinksOk, BitsNotStale

\* The section of rt_thread_suspend.
LEMMA SuspendKeeps ==
    ASSUME Discipline, KernelInv, SchedulerInv', NEW c \in Threads, SuspendRemove(c)
    PROVE  LinksOk' /\ RunningOk'
<1>1. PICK t \in Threads : t = obj[c]
  BY DEF KernelInv, SchedulerInv, RestOK
<1>2. /\ UNCHANGED <<current_priority, rt_scheduler_lock_nest, freed, rt_current_thread, resched_owed, obj, timer_list>>
      /\ At(c, "suspend") /\ rt_schedule_remove_thread(t)
      /\ rt_thread_defunct' = rt_list_remove(rt_thread_defunct, t)
  BY <1>1 DEF SuspendRemove, timers, Goto
<1>3. /\ c = rt_current_thread /\ rt_current_thread # NoThread /\ pc[c] = "suspend" /\ c \notin freed
      /\ current_priority[t] \in Priorities
  BY <1>2, RunningThread DEF KernelInv, SchedulerInv, RestOK
<1>4. /\ \A d \in Threads : d # c => pc'[d] = pc[d]
      /\ pc'[c] = IF t = c THEN "schedule" ELSE "run"
      /\ \A x \in Threads : stat'[x] = IF x = t THEN "SUSPEND" ELSE stat[x]
  BY <1>1 DEF SuspendRemove, Goto, KernelInv, SchedulerInv, RestOK
<1>5. /\ \A p \in Priorities : Members(p)' = Members(p) \ {t} /\ LinkedOnce(rt_thread_priority_table'[p])
      /\ rt_thread_ready_priority_group' \subseteq rt_thread_ready_priority_group
      /\ \A p \in rt_thread_ready_priority_group' :
            rt_thread_priority_table'[p] = <<>> => rt_thread_priority_table[p] = <<>>
      /\ rt_thread_priority_table' = Unlinked(rt_thread_priority_table, t)
      /\ \/ rt_thread_ready_priority_group' = rt_thread_ready_priority_group
         \/ /\ rt_thread_ready_priority_group' = rt_thread_ready_priority_group \ {current_priority[t]}
            /\ Unlinked(rt_thread_priority_table, t)[current_priority[t]] = <<>>
  BY <1>2, RemovedThread DEF KernelInv
<1>6. t \in Suspendable /\ t \notin Exiters \cup Deletable /\ stat[t] # "CLOSE"
  BY <1>1, <1>3 DEF KernelInv, LinksOk, CallersOk, Discipline, ListsOk
<1>7. rt_thread_defunct' = rt_thread_defunct
  BY <1>2, <1>6 DEF rt_list_remove, KernelInv, LinksOk, ListsOk
<1>8. CallersOk'
  BY <1>2, <1>4 DEF KernelInv, LinksOk, CallersOk
<1>9. ObjectsOk'
  <2>1. \A x : Absent(x) => Absent(x)'
    BY <1>5 DEF Absent
  <2>2. \A d \in Threads : obj[d] \in Threads
    BY DEF KernelInv, SchedulerInv, RestOK
  <2>3. \A d \in Threads :
          pc[d] \in {"delete_timer", "delete_close", "delete_defunct"} => obj[d] # t
    BY <1>6 DEF KernelInv, LinksOk, CallersOk
  <2>4. ObjectsOk
    BY DEF KernelInv, LinksOk
  <2> QED BY <1>2, <1>4, <1>7, <2>1, <2>2, <2>3, <2>4 DEF ObjectsOk
<1>10. ListsOk'
  <2>1. \A x \in Threads : (Deleting(x) => Deleting(x)') /\ (Resuming(x) => Resuming(x)')
    BY <1>2, <1>3, <1>4 DEF Deleting, Resuming
  <2>2. ListsOk
    BY DEF KernelInv, LinksOk
  <2>3. ASSUME NEW x \in Threads, stat'[x] = "READY", ~Deleting(x)', ~Resuming(x)'
        PROVE  x \in Members(current_priority[x])'
    <3>1. x # t /\ stat[x] = "READY" /\ x \in Members(current_priority[x]) /\ current_priority[x] \in Priorities
      BY <1>4, <2>1, <2>2, <2>3 DEF ListsOk, KernelInv, SchedulerInv, RestOK
    <3>2. x \in ToSet(rt_thread_priority_table'[current_priority[x]])
      BY <1>5, <3>1 DEF Members
    <3> QED BY <1>2, <3>2 DEF Members
  <2>4. \A x \in Threads, p \in Priorities : x \in Members(p)' => stat'[x] = "READY" /\ p = current_priority'[x]
    BY <1>2, <1>4, <1>5, <2>2 DEF ListsOk
  <2>5. \A x \in ToSet(rt_thread_defunct') : stat'[x] = "CLOSE" /\ x \notin freed'
    <3>1. \A x \in ToSet(rt_thread_defunct) : x \in Threads
      BY DEF KernelInv, SchedulerInv, RestOK, ToSet
    <3> QED BY <1>2, <1>4, <1>6, <1>7, <2>2, <3>1 DEF ListsOk
  <2>6. \A x \in freed' : stat'[x] = "CLOSE"
    BY <1>2, <1>4, <1>6, <2>2 DEF ListsOk, KernelInv, SchedulerInv, RestOK
  <2>7. \A x \in Threads : stat'[x] = "CLOSE" => x \in Exiters \cup Deletable
    BY <1>4, <2>2 DEF ListsOk
  <2>8. timer_list' \subseteq Sleepers /\ TimeoutAssertion'
    BY <1>2, <1>4, <2>2 DEF ListsOk, TimeoutAssertion, KernelInv, SchedulerInv, RestOK
  <2> QED BY <1>5, <1>7, <2>2, <2>3, <2>4, <2>5, <2>6, <2>7, <2>8 DEF ListsOk
<1>11. BitsNotStale'
  <2>1. \A d \in Threads : pc[d] \in {"insert", "start_insert"} => pc'[d] = pc[d] /\ obj'[d] = obj[d]
    BY <1>2, <1>3, <1>4
  <2> QED BY <1>2, <1>5, <2>1, StaleBits DEF KernelInv
<1>12. RunningOk'
  <2>1. CASE t = c
    <3>1. rt_scheduler_lock_nest = 0
      BY <1>1, <1>3, <2>1 DEF KernelInv, RunningOk
    <3> QED BY <1>2, <1>3, <1>4, <2>1, <3>1, SelfLeaves
  <2>2. CASE t # c
    BY <1>2, <1>3, <1>4, <1>5, <2>2, OtherLeaves
  <2> QED BY <2>1, <2>2
<1> QED BY <1>8, <1>9, <1>10, <1>11, <1>12 DEF LinksOk

\* rt_thread_sleep.
LEMMA SleepKeeps ==
    ASSUME Discipline, KernelInv, SchedulerInv', NEW c \in Threads, NEW tick, ThreadSleep(c, tick)
    PROVE  LinksOk' /\ RunningOk'
<1>1. /\ UNCHANGED <<current_priority, rt_scheduler_lock_nest, freed, rt_current_thread, resched_owed, obj,
                     rt_thread_defunct>>
      /\ At(c, "run") /\ rt_schedule_remove_thread(c) /\ c \in Sleepers /\ rt_scheduler_lock_nest = 0
      /\ timer_list' = timer_list \cup {c}
  BY DEF ThreadSleep, Goto
<1>2. /\ c = rt_current_thread /\ rt_current_thread # NoThread /\ pc[c] = "run"
      /\ stat[c] = "READY" /\ c \notin freed /\ ~Absent(c)
  BY <1>1, RunningThread
<1>3. /\ \A d \in Threads : d # c => pc'[d] = pc[d]
      /\ pc'[c] = "schedule"
      /\ \A x \in Threads : stat'[x] = IF x = c THEN "SUSPEND" ELSE stat[x]
  BY DEF ThreadSleep, Goto, KernelInv, SchedulerInv, RestOK
<1>4. /\ \A p \in Priorities : Members(p)' = Members(p) \ {c} /\ LinkedOnce(rt_thread_priority_table'[p])
      /\ rt_thread_ready_priority_group' \subseteq rt_thread_ready_priority_group
      /\ \A p \in rt_thread_ready_priority_group' :
            rt_thread_priority_table'[p] = <<>> => rt_thread_priority_table[p] = <<>>
  BY <1>1, RemovedThread DEF KernelInv
<1>5. CallersOk'
  BY <1>1, <1>3 DEF KernelInv, LinksOk, CallersOk
<1>6. ObjectsOk'
  <2>1. \A x : Absent(x) => Absent(x)'
    BY <1>4 DEF Absent
  <2>2. \A d \in Threads : obj[d] \in Threads
    BY DEF KernelInv, SchedulerInv, RestOK
  <2>3. ObjectsOk
    BY DEF KernelInv, LinksOk
  <2>4. \A d \in Threads :
          pc[d] \in {"start", "insert", "start_insert", "delete_timer", "delete_close", "delete_defunct"} =>
              obj[d] # c
    BY <1>2, <2>3 DEF ObjectsOk
  <2> QED BY <1>1, <1>3, <2>1, <2>2, <2>3, <2>4 DEF ObjectsOk
<1>7. ListsOk'
  <2>1. \A x \in Threads : (Deleting(x) => Deleting(x)') /\ (Resuming(x) => Resuming(x)')
    BY <1>1, <1>2, <1>3 DEF Deleting, Resuming
  <2>2. ListsOk
    BY DEF KernelInv, LinksOk
  <2>3. ASSUME NEW x \in Threads, stat'[x] = "READY", ~Deleting(x)', ~Resuming(x)'
        PROVE  x \in Members(current_priority[x])'
    <3>1. x # c /\ stat[x] = "READY" /\ x \in Members(current_priority[x]) /\ current_priority[x] \in Priorities
      BY <1>3, <2>1, <2>2, <2>3 DEF ListsOk, KernelInv, SchedulerInv, RestOK
    <3>2. x \in ToSet(rt_thread_priority_table'[current_priority[x]])
      BY <1>4, <3>1 DEF Members
    <3> QED BY <1>1, <3>2 DEF Members
  <2>4. \A x \in Threads, p \in Priorities : x \in Members(p)' => stat'[x] = "READY" /\ p = current_priority'[x]
    BY <1>1, <1>3, <1>4, <2>2 DEF ListsOk
  <2>5. \A x \in ToSet(rt_thread_defunct') : stat'[x] = "CLOSE" /\ x \notin freed'
    <3>1. \A x \in ToSet(rt_thread_defunct) : x \in Threads
      BY DEF KernelInv, SchedulerInv, RestOK, ToSet
    <3> QED BY <1>1, <1>2, <1>3, <2>2, <3>1 DEF ListsOk
  <2>6. \A x \in freed' : stat'[x] = "CLOSE"
    BY <1>1, <1>2, <1>3, <2>2 DEF ListsOk, KernelInv, SchedulerInv, RestOK
  <2>7. \A x \in Threads : stat'[x] = "CLOSE" => x \in Exiters \cup Deletable
    BY <1>3, <2>2 DEF ListsOk
  <2>8. timer_list' \subseteq Sleepers /\ TimeoutAssertion'
    BY <1>1, <1>3, <2>2 DEF ListsOk, TimeoutAssertion, KernelInv, SchedulerInv, RestOK
  <2> QED BY <1>1, <1>4, <2>2, <2>3, <2>4, <2>5, <2>6, <2>7, <2>8 DEF ListsOk
<1>8. BitsNotStale'
  <2>1. \A d \in Threads : pc[d] \in {"insert", "start_insert"} => pc'[d] = pc[d] /\ obj'[d] = obj[d]
    BY <1>1, <1>2, <1>3
  <2> QED BY <1>1, <1>4, <2>1, StaleBits DEF KernelInv
<1>9. RunningOk'
  BY <1>1, <1>2, <1>3, SelfLeaves
<1> QED BY <1>5, <1>6, <1>7, <1>8, <1>9 DEF LinksOk

\* rt_thread_exit.
LEMMA ExitKeeps ==
    ASSUME Discipline, KernelInv, SchedulerInv', NEW c \in Threads, ThreadExit(c)
    PROVE  LinksOk' /\ RunningOk'
<1>1. /\ UNCHANGED <<current_priority, rt_scheduler_lock_nest, freed, rt_current_thread, resched_owed, obj>>
      /\ At(c, "run") /\ rt_schedule_remove_thread(c) /\ c \in Exiters /\ rt_scheduler_lock_nest = 0
      /\ timer_list' = timer_list \ {c}
      /\ \/ rt_thread_defunct' = rt_thread_defunct
         \/ rt_thread_defunct' = rt_list_insert_after(rt_thread_defunct, c)
  BY DEF ThreadExit, Goto
<1>2. /\ c = rt_current_thread /\ rt_current_thread # NoThread /\ pc[c] = "run"
      /\ stat[c] = "READY" /\ c \notin freed /\ ~Absent(c)
  BY <1>1, RunningThread
<1>3. /\ \A d \in Threads : d # c => pc'[d] = pc[d]
      /\ pc'[c] = "schedule"
      /\ \A x \in Threads : stat'[x] = IF x = c THEN "CLOSE" ELSE stat[x]
  BY DEF ThreadExit, Goto, KernelInv, SchedulerInv, RestOK
<1>4. /\ \A p \in Priorities : Members(p)' = Members(p) \ {c} /\ LinkedOnce(rt_thread_priority_table'[p])
      /\ rt_thread_ready_priority_group' \subseteq rt_thread_ready_priority_group
      /\ \A p \in rt_thread_ready_priority_group' :
            rt_thread_priority_table'[p] = <<>> => rt_thread_priority_table[p] = <<>>
  BY <1>1, RemovedThread DEF KernelInv
<1>5. /\ ToSet(rt_thread_defunct') \subseteq ToSet(rt_thread_defunct) \cup {c}
      /\ LinkedOnce(rt_thread_defunct')
  <2>1. rt_thread_defunct \in Seq(Threads) /\ LinkedOnce(rt_thread_defunct) /\ c \notin ToSet(rt_thread_defunct)
    BY <1>2 DEF KernelInv, SchedulerInv, RestOK, LinksOk, ListsOk
  <2> QED BY <1>1, <2>1, PushLinkedOnce
<1>6. CallersOk'
  BY <1>1, <1>3 DEF KernelInv, LinksOk, CallersOk
<1>7. ObjectsOk'
  <2>1. \A x : Absent(x) => Absent(x)'
    BY <1>4 DEF Absent
  <2>2. \A d \in Threads : obj[d] \in Threads
    BY DEF KernelInv, SchedulerInv, RestOK
  <2>3. ObjectsOk /\ CallersOk
    BY DEF KernelInv, LinksOk
  <2>4. \A d \in Threads :
          pc[d] \in {"resume", "start", "insert", "start_insert",
                     "delete_timer", "delete_close", "delete_defunct"} => obj[d] # c
    BY <1>1, <1>2, <2>3 DEF ObjectsOk, CallersOk, Discipline
  <2> QED BY <1>1, <1>3, <1>5, <2>1, <2>2, <2>3, <2>4 DEF ObjectsOk
<1>8. ListsOk'
  <2>1. \A x \in Threads : (Deleting(x) => Deleting(x)') /\ (Resuming(x) => Resuming(x)')
    BY <1>1, <1>2, <1>3 DEF Deleting, Resuming
  <2>2. ListsOk
    BY DEF KernelInv, LinksOk
  <2>3. ASSUME NEW x \in Threads, stat'[x] = "READY", ~Deleting(x)', ~Resuming(x)'
        PROVE  x \in Members(current_priority[x])'
    <3>1. x # c /\ stat[x] = "READY" /\ x \in Members(current_priority[x]) /\ current_priority[x] \in Priorities
      BY <1>3, <2>1, <2>2, <2>3 DEF ListsOk, KernelInv, SchedulerInv, RestOK
    <3>2. x \in ToSet(rt_thread_priority_table'[current_priority[x]])
      BY <1>4, <3>1 DEF Members
    <3> QED BY <1>1, <3>2 DEF Members
  <2>4. \A x \in Threads, p \in Priorities : x \in Members(p)' => stat'[x] = "READY" /\ p = current_priority'[x]
    BY <1>1, <1>3, <1>4, <2>2 DEF ListsOk
  <2>5. \A x \in ToSet(rt_thread_defunct') : stat'[x] = "CLOSE" /\ x \notin freed'
    <3>1. \A x \in ToSet(rt_thread_defunct) : x \in Threads
      BY DEF KernelInv, SchedulerInv, RestOK, ToSet
    <3> QED BY <1>1, <1>2, <1>3, <1>5, <2>2, <3>1 DEF ListsOk
  <2>6. \A x \in freed' : stat'[x] = "CLOSE"
    BY <1>1, <1>2, <1>3, <2>2 DEF ListsOk, KernelInv, SchedulerInv, RestOK
  <2>7. \A x \in Threads : stat'[x] = "CLOSE" => x \in Exiters \cup Deletable
    BY <1>1, <1>3, <2>2 DEF ListsOk
  <2>8. timer_list' \subseteq Sleepers /\ TimeoutAssertion'
    BY <1>1, <1>3, <2>2 DEF ListsOk, TimeoutAssertion, KernelInv, SchedulerInv, RestOK
  <2> QED BY <1>4, <1>5, <2>3, <2>4, <2>5, <2>6, <2>7, <2>8 DEF ListsOk
<1>9. BitsNotStale'
  <2>1. \A d \in Threads : pc[d] \in {"insert", "start_insert"} => pc'[d] = pc[d] /\ obj'[d] = obj[d]
    BY <1>1, <1>2, <1>3
  <2> QED BY <1>1, <1>4, <2>1, StaleBits DEF KernelInv
<1>10. RunningOk'
  BY <1>1, <1>2, <1>3, SelfLeaves
<1> QED BY <1>6, <1>7, <1>8, <1>9, <1>10 DEF LinksOk

\* The first section of rt_thread_delete and rt_thread_detach.
LEMMA DeleteKeeps ==
    ASSUME Discipline, KernelInv, SchedulerInv', NEW c \in Threads, NEW t \in Threads, ThreadDelete(c, t)
    PROVE  LinksOk' /\ RunningOk'
<1>1. /\ UNCHANGED <<current_priority, rt_scheduler_lock_nest, freed, rt_current_thread, resched_owed, stat,
                     rt_thread_defunct, timer_list>>
      /\ At(c, "run") /\ rt_schedule_remove_thread(t) /\ c \in Deleters /\ t \in Deletable
      /\ stat[t] # "CLOSE" /\ t # c
  BY DEF ThreadDelete, timers, Discipline
<1>2. /\ c = rt_current_thread /\ rt_current_thread # NoThread /\ pc[c] = "run"
      /\ current_priority[t] \in Priorities
  BY <1>1, RunningThread DEF KernelInv, SchedulerInv, RestOK
<1>3. /\ \A d \in Threads : d # c => pc'[d] = pc[d] /\ obj'[d] = obj[d]
      /\ pc'[c] = "delete_timer" /\ obj'[c] = t
  BY DEF ThreadDelete, GotoFor, KernelInv, SchedulerInv, RestOK
<1>4. /\ \A p \in Priorities : Members(p)' = Members(p) \ {t} /\ LinkedOnce(rt_thread_priority_table'[p])
      /\ rt_thread_ready_priority_group' \subseteq rt_thread_ready_priority_group
      /\ \A p \in rt_thread_ready_priority_group' :
            rt_thread_priority_table'[p] = <<>> => rt_thread_priority_table[p] = <<>>
      /\ rt_thread_priority_table' = Unlinked(rt_thread_priority_table, t)
      /\ \/ rt_thread_ready_priority_group' = rt_thread_ready_priority_group
         \/ /\ rt_thread_ready_priority_group' = rt_thread_ready_priority_group \ {current_priority[t]}
            /\ Unlinked(rt_thread_priority_table, t)[current_priority[t]] = <<>>
  BY <1>1, RemovedThread DEF KernelInv
<1>5. CallersOk'
  BY <1>1, <1>3 DEF KernelInv, LinksOk, CallersOk
<1>6. ObjectsOk'
  <2>1. (\A x : Absent(x) => Absent(x)') /\ Absent(t)'
    BY <1>4 DEF Absent
  <2>2. ObjectsOk
    BY DEF KernelInv, LinksOk
  <2> QED BY <1>1, <1>3, <2>1, <2>2 DEF ObjectsOk
<1>7. ListsOk'
  <2>1. (\A x \in Threads : (Deleting(x) => Deleting(x)') /\ (Resuming(x) => Resuming(x)')) /\ Deleting(t)'
    BY <1>1, <1>2, <1>3 DEF Deleting, Resuming
  <2>2. ListsOk
    BY DEF KernelInv, LinksOk
  <2>3. ASSUME NEW x \in Threads, stat'[x] = "READY", ~Deleting(x)', ~Resuming(x)'
        PROVE  x \in Members(current_priority[x])'
    <3>1. x # t /\ stat[x] = "READY" /\ x \in Members(current_priority[x]) /\ current_priority[x] \in Priorities
      BY <1>1, <2>1, <2>2, <2>3 DEF ListsOk, KernelInv, SchedulerInv, RestOK
    <3>2. x \in ToSet(rt_thread_priority_table'[current_priority[x]])
      BY <1>4, <3>1 DEF Members
    <3> QED BY <1>1, <3>2 DEF Members
  <2>4. \A x \in Threads, p \in Priorities : x \in Members(p)' => stat'[x] = "READY" /\ p = current_priority'[x]
    BY <1>1, <1>4, <2>2 DEF ListsOk
  <2> QED BY <1>1, <1>4, <2>2, <2>3, <2>4 DEF ListsOk, TimeoutAssertion
<1>8. BitsNotStale'
  <2>1. \A d \in Threads : pc[d] \in {"insert", "start_insert"} => pc'[d] = pc[d] /\ obj'[d] = obj[d]
    BY <1>2, <1>3
  <2> QED BY <1>1, <1>4, <2>1, StaleBits DEF KernelInv
<1>9. RunningOk'
  BY <1>1, <1>2, <1>3, <1>4, OtherLeaves
<1> QED BY <1>5, <1>6, <1>7, <1>8, <1>9 DEF LinksOk

\* The first section of rt_thread_resume: the bit of the list may become stale,
\* and the call in progress says so.
LEMMA UnlinkKeeps ==
    ASSUME Discipline, KernelInv, SchedulerInv', NEW c \in Threads, ResumeUnlink(c)
    PROVE  LinksOk' /\ RunningOk'
<1>1. PICK t \in Threads : t = obj[c]
  BY DEF KernelInv, SchedulerInv, RestOK
<1>2. PICK label \in {"resume", "start"} : At(c, label)
  BY DEF ResumeUnlink
<1>3. /\ UNCHANGED <<current_priority, rt_scheduler_lock_nest, freed, rt_current_thread, resched_owed, stat, obj,
                     rt_thread_ready_priority_group>>
      /\ rt_thread_priority_table' = Unlinked(rt_thread_priority_table, t)
      /\ rt_thread_defunct' = rt_list_remove(rt_thread_defunct, t)
      /\ timer_list' = timer_list \ {t}
  BY <1>1 DEF ResumeUnlink, Goto, ResumedTimers
<1>4. /\ c = rt_current_thread /\ rt_current_thread # NoThread /\ pc[c] = label
      /\ stat[c] = "READY"
  BY <1>2, RunningThread
<1>5. /\ \A d \in Threads : d # c => pc'[d] = pc[d]
      /\ pc'[c] = IF pc[c] = "resume" THEN "insert" ELSE "start_insert"
  BY DEF ResumeUnlink, Goto, KernelInv, SchedulerInv, RestOK
<1>6. c \in Admins /\ (pc[c] = "resume" => c \in Resumers) /\ (pc[c] = "start" => c \in Starters)
  BY <1>4 DEF KernelInv, LinksOk, CallersOk, Admins
<1>7. \A d \in Threads : d # c =>
        pc[d] \notin {"resume", "insert", "start", "start_insert", "delete_timer", "delete_close", "delete_defunct"}
  BY <1>6, OneAdmin DEF KernelInv, LinksOk
<1>8. t # c /\ stat[t] # "CLOSE"
  <2>1. t # c /\ (stat[t] = "SUSPEND" \/ (t \in Sleepers /\ c \in Resumers))
    BY <1>1, <1>4, <1>6 DEF KernelInv, LinksOk, ObjectsOk
  <2>2. stat[t] = "CLOSE" => t \in Exiters \cup Deletable
    BY DEF KernelInv, LinksOk, ListsOk
  <2> QED BY <2>1, <2>2 DEF Discipline
<1>9. \A p \in Priorities : Members(p)' = Members(p) \ {t} /\ LinkedOnce(rt_thread_priority_table'[p])
  <2>1. rt_thread_priority_table \in [Priorities -> Seq(Threads)]
    BY DEF KernelInv, SchedulerInv, TableOK
  <2>2. ASSUME NEW p \in Priorities
        PROVE  /\ ToSet(rt_thread_priority_table'[p]) = ToSet(rt_thread_priority_table[p]) \ {t}
               /\ LinkedOnce(rt_thread_priority_table'[p])
    <3>1. LinkedOnce(rt_thread_priority_table[p])
      BY DEF KernelInv, LinksOk, ListsOk
    <3> QED BY <1>3, <2>1, <3>1, UnlinkedMembers
  <2> QED BY <2>2 DEF Members
<1>10. rt_thread_defunct' = rt_thread_defunct
  BY <1>3, <1>8 DEF rt_list_remove, KernelInv, LinksOk, ListsOk
<1>11. CallersOk'
  BY <1>3, <1>4, <1>5, <1>6 DEF KernelInv, LinksOk, CallersOk
<1>12. ObjectsOk'
  <2>1. Absent(t)'
    BY <1>9 DEF Absent
  <2> QED BY <1>1, <1>3, <1>5, <1>7, <1>8, <2>1 DEF ObjectsOk
<1>13. ListsOk'
  <2>1. Resuming(t)'
    BY <1>1, <1>3, <1>5 DEF Resuming
  <2>2. \A x \in Threads : ~Deleting(x) /\ ~Resuming(x)
    BY <1>4, <1>7 DEF Deleting, Resuming
  <2>3. ListsOk
    BY DEF KernelInv, LinksOk
  <2>4. ASSUME NEW x \in Threads, stat'[x] = "READY", ~Deleting(x)', ~Resuming(x)'
        PROVE  x \in Members(current_priority[x])'
    <3>1. x # t /\ stat[x] = "READY" /\ x \in Members(current_priority[x]) /\ current_priority[x] \in Priorities
      BY <1>3, <2>1, <2>2, <2>3, <2>4 DEF ListsOk, KernelInv, SchedulerInv, RestOK
    <3>2. x \in ToSet(rt_thread_priority_table'[current_priority[x]])
      BY <1>9, <3>1 DEF Members
    <3> QED BY <1>3, <3>2 DEF Members
  <2>5. \A x \in Threads, p \in Priorities : x \in Members(p)' => stat'[x] = "READY" /\ p = current_priority'[x]
    BY <1>3, <1>9, <2>3 DEF ListsOk
  <2> QED BY <1>3, <1>9, <1>10, <2>3, <2>4, <2>5 DEF ListsOk, TimeoutAssertion
<1>14. BitsNotStale'
  <2> SUFFICES ASSUME NEW p \in rt_thread_ready_priority_group', rt_thread_priority_table'[p] = <<>>
               PROVE  pc'[c] \in {"insert", "start_insert"} /\ current_priority'[obj'[c]] = p
    BY DEF BitsNotStale
  <2>1. p \in Priorities /\ p \in rt_thread_ready_priority_group
    BY <1>3 DEF KernelInv, SchedulerInv, TableOK
  <2>2. rt_thread_priority_table[p] # <<>>
    BY <1>4, <1>7, <2>1 DEF KernelInv, LinksOk, BitsNotStale
  <2>3. t \in Members(p)
    BY <1>3, <2>1, <2>2 DEF Members, Unlinked, rt_list_remove
  <2>4. current_priority[t] = p
    BY <2>1, <2>3 DEF KernelInv, LinksOk, ListsOk
  <2> QED BY <1>1, <1>3, <1>5, <2>4
<1>15. RunningOk'
  <2>1. 0 \in Priorities
    BY ThreadAssumption DEF Priorities
  <2> QED BY <1>2, <1>3, <1>5, <1>8, <2>1, OtherLeaves
<1> QED BY <1>11, <1>12, <1>13, <1>14, <1>15 DEF LinksOk

-----------------------------------------------------------------------------
(* The steps on stat, the timers and the reaper's list. *)

\* The running thread goes on when the table stays.
LEMMA StillRunning ==
    ASSUME KernelInv, NEW c \in Threads, NEW label, label # "schedule", At(c, label),
           UNCHANGED <<rt_thread_priority_table, rt_thread_ready_priority_group, rt_current_thread,
                       rt_scheduler_lock_nest, resched_owed>>,
           current_priority'[c] = current_priority[c], c \notin freed', pc'[c] # "suspend"
    PROVE  RunningOk'
<1>1. /\ c = rt_current_thread /\ rt_current_thread # NoThread /\ pc[c] = label
      /\ c \in Members(current_priority[c])
  BY RunningThread
<1>2. rt_current_thread' \in Members(current_priority[rt_current_thread])'
  BY <1>1 DEF Members
<1>3. rt_scheduler_lock_nest' = 0 /\ ~resched_owed' =>
        c = to_thread(rt_thread_priority_table', rt_thread_ready_priority_group')
  BY <1>1 DEF KernelInv, RunningOk
<1> QED BY <1>1, <1>2, <1>3 DEF RunningOk

\* The other sections of rt_thread_delete and rt_thread_detach.
LEMMA DeletingKeeps ==
    ASSUME Discipline, KernelInv, SchedulerInv', NEW c \in Threads,
           DeleteTimer(c) \/ DeleteClose(c) \/ DeleteDefunct(c)
    PROVE  LinksOk' /\ RunningOk'
<1>1. PICK t \in Threads : t = obj[c]
  BY DEF KernelInv, SchedulerInv, RestOK
<1>2. PICK label \in {"delete_timer", "delete_close", "delete_defunct"} : At(c, label)
  BY DEF DeleteTimer, DeleteClose, DeleteDefunct
<1>3. UNCHANGED <<rt_thread_priority_table, rt_thread_ready_priority_group, current_priority,
                  rt_scheduler_lock_nest, freed, rt_current_thread, resched_owed, obj>>
  BY DEF DeleteTimer, DeleteClose, DeleteDefunct, lists, timers, Goto
<1>4. /\ c = rt_current_thread /\ rt_current_thread # NoThread /\ pc[c] = label /\ c \notin freed
  BY <1>2, RunningThread
<1>5. c \in Deleters /\ t \in Deletable /\ c \in Admins /\ t # c /\ t \notin Sleepers
  BY <1>1, <1>4 DEF KernelInv, LinksOk, CallersOk, Admins, Discipline
<1>6. \A d \in Threads : d # c =>
        pc[d] \notin {"resume", "insert", "start", "start_insert", "delete_timer", "delete_close", "delete_defunct"}
  BY <1>5, OneAdmin DEF KernelInv, LinksOk
<1>7. \A p \in Priorities : Members(p)' = Members(p)
  BY <1>3 DEF Members
<1>8. t \notin timer_list
  BY <1>5 DEF KernelInv, LinksOk, ListsOk
<1>9. KernelInv => LinksOk /\ CallersOk /\ ObjectsOk /\ ListsOk
  BY DEF KernelInv, LinksOk
<1>10. /\ \A d \in Threads : d # c => pc'[d] = pc[d]
       /\ DeleteTimer(c) => pc'[c] = "delete_close"
       /\ DeleteClose(c) => pc'[c] = "delete_defunct"
       /\ DeleteDefunct(c) => pc'[c] = "run"
  <2>1. pc \in [Threads -> Labels]
    BY DEF KernelInv, SchedulerInv, RestOK
  <2> QED BY <1>1, <1>5, <2>1 DEF DeleteTimer, DeleteClose, DeleteDefunct, Goto
<1>11. BitsNotStale'
  <2>1. \A d \in Threads : pc[d] \in {"insert", "start_insert"} => pc'[d] = pc[d] /\ obj'[d] = obj[d]
    BY <1>3, <1>4, <1>10
  <2> QED BY <1>3, <1>9, <2>1, StaleBits DEF KernelInv
<1>12. RunningOk'
  <2>1. pc'[c] # "suspend"
    BY <1>10
  <2> QED BY <1>2, <1>3, <1>4, <2>1, StillRunning
<1>13. CallersOk'
  BY <1>1, <1>3, <1>5, <1>9, <1>10 DEF CallersOk
<1>14. /\ label \in {"delete_timer", "delete_close"} => stat[t] # "CLOSE" /\ Absent(t)
       /\ label = "delete_defunct" => stat[t] = "CLOSE" /\ t \notin ToSet(rt_thread_defunct) /\ t \notin freed
  BY <1>1, <1>4, <1>9 DEF ObjectsOk
<1>15. Absent(t)' <=> Absent(t)
  BY <1>7 DEF Absent
<1>16. \A x \in Threads : x # t => ~Deleting(x) /\ ~Resuming(x)
  BY <1>1, <1>4, <1>6 DEF Deleting, Resuming
<1>17. CASE DeleteTimer(c)
  <2>1. /\ UNCHANGED <<stat, rt_thread_defunct>> /\ timer_list' = timer_list \ {t}
        /\ label = "delete_timer" /\ pc'[c] = "delete_close"
    BY <1>1, <1>2, <1>10, <1>17 DEF DeleteTimer, lists, At
  <2>2. ObjectsOk'
    BY <1>1, <1>3, <1>6, <1>10, <1>14, <1>15, <2>1 DEF ObjectsOk
  <2>3. Deleting(t)'
    BY <1>1, <1>3, <2>1 DEF Deleting
  <2>4. ASSUME NEW x \in Threads, stat'[x] = "READY", ~Deleting(x)', ~Resuming(x)'
        PROVE  x \in Members(current_priority[x])'
    <3>1. x \in Members(current_priority[x])
      BY <1>9, <1>16, <2>1, <2>3, <2>4 DEF ListsOk
    <3> QED BY <1>3, <3>1 DEF Members
  <2>5. ListsOk'
    BY <1>3, <1>7, <1>9, <2>1, <2>4 DEF ListsOk, TimeoutAssertion
  <2> QED BY <1>11, <1>12, <1>13, <2>2, <2>5 DEF LinksOk
<1>18. CASE DeleteClose(c)
  <2>1. /\ UNCHANGED <<rt_thread_defunct, timer_list>>
        /\ \A x \in Threads : stat'[x] = IF x = t THEN "CLOSE" ELSE stat[x]
        /\ label = "delete_close" /\ pc'[c] = "delete_defunct"
    BY <1>1, <1>2, <1>10, <1>18 DEF DeleteClose, lists, timers, At, KernelInv, SchedulerInv, RestOK
  <2>2. t \notin ToSet(rt_thread_defunct) /\ t \notin freed
    BY <1>9, <1>14, <2>1 DEF ListsOk
  <2>3. ObjectsOk'
    BY <1>1, <1>3, <1>6, <1>10, <2>1, <2>2 DEF ObjectsOk
  <2>4. ASSUME NEW x \in Threads, stat'[x] = "READY"
        PROVE  x \in Members(current_priority[x])'
    <3>1. x \in Members(current_priority[x])
      BY <1>9, <1>16, <2>1, <2>4 DEF ListsOk
    <3> QED BY <1>3, <3>1 DEF Members
  <2>5. \A x \in Threads, p \in Priorities : x \in Members(p)' => stat'[x] = "READY" /\ p = current_priority'[x]
    BY <1>3, <1>7, <1>9, <1>14, <2>1 DEF ListsOk, Absent
  <2>6. \A x \in ToSet(rt_thread_defunct') : stat'[x] = "CLOSE" /\ x \notin freed'
    <3>1. \A x \in ToSet(rt_thread_defunct) : x \in Threads
      BY DEF KernelInv, SchedulerInv, RestOK, ToSet
    <3> QED BY <1>3, <1>9, <2>1, <3>1 DEF ListsOk
  <2>7. \A x \in freed' : stat'[x] = "CLOSE"
    BY <1>3, <1>9, <2>1 DEF ListsOk, KernelInv, SchedulerInv, RestOK
  <2>8. \A x \in Threads : stat'[x] = "CLOSE" => x \in Exiters \cup Deletable
    BY <1>5, <1>9, <2>1 DEF ListsOk
  <2>9. timer_list' \subseteq Sleepers /\ TimeoutAssertion'
    BY <1>8, <1>9, <2>1 DEF ListsOk, TimeoutAssertion, KernelInv, SchedulerInv, RestOK
  <2>10. ListsOk'
    BY <1>3, <1>9, <2>1, <2>4, <2>5, <2>6, <2>7, <2>8, <2>9 DEF ListsOk
  <2> QED BY <1>11, <1>12, <1>13, <2>3, <2>10 DEF LinksOk
<1>19. CASE DeleteDefunct(c)
  <2>1. /\ UNCHANGED <<stat, timer_list>> /\ label = "delete_defunct" /\ pc'[c] = "run"
        /\ \/ rt_thread_defunct' = rt_thread_defunct
           \/ rt_thread_defunct' = rt_list_insert_after(rt_thread_defunct, t)
    BY <1>1, <1>2, <1>10, <1>19 DEF DeleteDefunct, timers, At
  <2>2. /\ ToSet(rt_thread_defunct') \subseteq ToSet(rt_thread_defunct) \cup {t}
        /\ LinkedOnce(rt_thread_defunct')
    <3>1. rt_thread_defunct \in Seq(Threads) /\ LinkedOnce(rt_thread_defunct) /\ t \notin ToSet(rt_thread_defunct)
      BY <1>14, <2>1 DEF KernelInv, SchedulerInv, RestOK, LinksOk, ListsOk
    <3> QED BY <2>1, <3>1, PushLinkedOnce
  <2>3. ObjectsOk'
    BY <1>3, <1>6, <1>10, <2>1 DEF ObjectsOk
  <2>4. ASSUME NEW x \in Threads, stat'[x] = "READY"
        PROVE  x \in Members(current_priority[x])'
    <3>1. x \in Members(current_priority[x])
      BY <1>9, <1>14, <1>16, <2>1, <2>4 DEF ListsOk
    <3> QED BY <1>3, <3>1 DEF Members
  <2>5. \A x \in ToSet(rt_thread_defunct') : stat'[x] = "CLOSE" /\ x \notin freed'
    BY <1>3, <1>9, <1>14, <2>1, <2>2 DEF ListsOk
  <2>6. ListsOk'
    BY <1>3, <1>7, <1>9, <2>1, <2>2, <2>4, <2>5 DEF ListsOk, TimeoutAssertion
  <2> QED BY <1>11, <1>12, <1>13, <2>3, <2>6 DEF LinksOk
<1> QED BY <1>17, <1>18, <1>19

\* The reaper of idle.c frees a thread that nobody uses.
LEMMA ReaperKeeps ==
    ASSUME KernelInv, SchedulerInv', IdleExecute
    PROVE  LinksOk' /\ RunningOk'
<1>1. /\ UNCHANGED <<rt_thread_priority_table, rt_thread_ready_priority_group, current_priority, stat,
                     rt_scheduler_lock_nest, rt_current_thread, resched_owed, obj, pc, timer_list>>
      /\ At(Idle, "run") /\ rt_thread_defunct # <<>>
      /\ rt_thread_defunct' = Tail(rt_thread_defunct)
      /\ freed' = freed \cup {Head(rt_thread_defunct)}
  BY DEF IdleExecute, timers, calls, rt_list_isempty
<1>2. Idle \in Threads /\ pc[Idle] = "run" /\ stat[Idle] = "READY" /\ Idle \notin freed
  BY <1>1, ThreadAssumption, RunningThread
<1>3. PICK t \in Threads : t = Head(rt_thread_defunct)
  BY <1>1, TailMembers DEF KernelInv, SchedulerInv, RestOK
<1>4. ListsOk /\ ObjectsOk /\ CallersOk
  BY DEF KernelInv, LinksOk
<1>5. /\ ToSet(rt_thread_defunct) = ToSet(rt_thread_defunct') \cup {t}
      /\ t \notin ToSet(rt_thread_defunct') /\ LinkedOnce(rt_thread_defunct')
  BY <1>1, <1>3, <1>4, TailMembers DEF ListsOk, KernelInv, SchedulerInv, RestOK
<1>6. stat[t] = "CLOSE"
  BY <1>4, <1>5 DEF ListsOk
<1>7. CallersOk'
  BY <1>1, <1>4 DEF CallersOk
<1>8. \A x : Absent(x)' <=> Absent(x)
  BY <1>1 DEF Absent, Members
<1>9. ObjectsOk'
  BY <1>1, <1>3, <1>4, <1>5, <1>8 DEF ObjectsOk
<1>10. ListsOk'
  <2>1. \A p : Members(p)' = Members(p)
    BY <1>1 DEF Members
  <2>2. \A x \in Threads : (Deleting(x) => Deleting(x)') /\ (Resuming(x) => Resuming(x)')
    BY <1>1 DEF Deleting, Resuming
  <2>3. \A x \in Threads : \/ stat'[x] # "READY" \/ Deleting(x)' \/ Resuming(x)'
                           \/ x \in Members(current_priority[x])'
    BY <1>1, <1>4, <2>2 DEF ListsOk, Members
  <2>4. \A x \in ToSet(rt_thread_defunct') : stat'[x] = "CLOSE" /\ x \notin freed'
    BY <1>1, <1>3, <1>4, <1>5 DEF ListsOk
  <2>5. \A x \in freed' : stat'[x] = "CLOSE"
    BY <1>1, <1>3, <1>4, <1>6 DEF ListsOk
  <2> QED BY <1>1, <1>4, <1>5, <2>1, <2>3, <2>4, <2>5 DEF ListsOk, TimeoutAssertion
<1>11. BitsNotStale'
  <2>1. BitsNotStale
    BY DEF KernelInv, LinksOk
  <2> QED BY <1>1, <2>1 DEF BitsNotStale
<1>12. RunningOk'
  <2>1. Idle \notin freed'
    BY <1>1, <1>2, <1>3, <1>6
  <2> QED BY <1>1, <1>2, <2>1, StillRunning
<1> QED BY <1>7, <1>9, <1>10, <1>11, <1>12 DEF LinksOk

\* rt_thread_startup up to its rt_thread_resume.
LEMMA StartupKeeps ==
    ASSUME Discipline, KernelInv, SchedulerInv', NEW c \in Threads, NEW t \in Threads, ThreadStartup(c, t)
    PROVE  LinksOk' /\ RunningOk'
<1>1. /\ UNCHANGED <<rt_thread_priority_table, rt_thread_ready_priority_group, rt_thread_defunct, freed,
                     rt_scheduler_lock_nest, rt_current_thread, resched_owed, timer_list>>
      /\ At(c, "run") /\ c \in Starters /\ stat[t] = "INIT"
  BY DEF ThreadStartup, lists, timers
<1>2. /\ c = rt_current_thread /\ pc[c] = "run" /\ stat[c] = "READY" /\ c \notin freed
  BY <1>1, RunningThread
<1>3. /\ \A d \in Threads : d # c => pc'[d] = pc[d] /\ obj'[d] = obj[d]
      /\ pc'[c] = "start" /\ obj'[c] = t
      /\ \A x \in Threads : stat'[x] = IF x = t THEN "SUSPEND" ELSE stat[x]
      /\ \A x \in Threads : x # t => current_priority'[x] = current_priority[x]
  BY DEF ThreadStartup, GotoFor, KernelInv, SchedulerInv, RestOK
<1>4. c \in Admins
  BY <1>1 DEF Admins
<1>5. \A d \in Threads : d # c =>
        pc[d] \notin {"resume", "insert", "start", "start_insert", "delete_timer", "delete_close", "delete_defunct"}
  BY <1>4, OneAdmin DEF KernelInv, LinksOk
<1>6. ListsOk /\ ObjectsOk /\ CallersOk /\ LinksOk
  BY DEF KernelInv, LinksOk
<1>7. /\ \A x \in Threads : ~Deleting(x) /\ ~Resuming(x)
      /\ \A p \in rt_thread_ready_priority_group : rt_thread_priority_table[p] # <<>>
  BY <1>2, <1>4, <1>6, NoCallPending
<1>8. t # c /\ t \notin timer_list /\ Absent(t)
  <2>1. t \notin timer_list
    BY <1>1, <1>6 DEF ListsOk, TimeoutAssertion
  <2>2. Absent(t)
    BY <1>1, <1>6 DEF ListsOk, Absent
  <2> QED BY <1>1, <1>2, <2>1, <2>2
<1>9. CallersOk'
  BY <1>1, <1>3, <1>6 DEF CallersOk
<1>10. ObjectsOk'
  BY <1>1, <1>3, <1>5, <1>8 DEF ObjectsOk
<1>11. ListsOk'
  <2>1. \A p : Members(p)' = Members(p)
    BY <1>1 DEF Members
  <2>2. ASSUME NEW x \in Threads, stat'[x] = "READY"
        PROVE  x \in Members(current_priority[x])'
    <3>1. x # t /\ x \in Members(current_priority[x])
      BY <1>3, <1>6, <1>7, <2>2 DEF ListsOk
    <3> QED BY <1>1, <1>3, <3>1 DEF Members
  <2>3. \A x \in Threads, p \in Priorities : x \in Members(p)' => stat'[x] = "READY" /\ p = current_priority'[x]
    BY <1>3, <1>6, <1>8, <2>1 DEF ListsOk, Absent
  <2>4. \A x \in ToSet(rt_thread_defunct') : stat'[x] = "CLOSE" /\ x \notin freed'
    <3>1. \A x \in ToSet(rt_thread_defunct) : x \in Threads
      BY DEF KernelInv, SchedulerInv, RestOK, ToSet
    <3> QED BY <1>1, <1>3, <1>6, <3>1 DEF ListsOk
  <2>5. \A x \in freed' : stat'[x] = "CLOSE"
    BY <1>1, <1>3, <1>6 DEF ListsOk, KernelInv, SchedulerInv, RestOK
  <2>6. \A x \in Threads : stat'[x] = "CLOSE" => x \in Exiters \cup Deletable
    BY <1>3, <1>6 DEF ListsOk
  <2>7. timer_list' \subseteq Sleepers /\ TimeoutAssertion'
    BY <1>1, <1>3, <1>6 DEF ListsOk, TimeoutAssertion, KernelInv, SchedulerInv, RestOK
  <2> QED BY <1>1, <1>6, <2>2, <2>3, <2>4, <2>5, <2>6, <2>7 DEF ListsOk
<1>12. BitsNotStale'
  BY <1>1, <1>7 DEF BitsNotStale
<1>13. RunningOk'
  <2>1. current_priority'[c] = current_priority[c] /\ c \notin freed' /\ pc'[c] # "suspend"
    BY <1>1, <1>2, <1>3, <1>8
  <2> QED BY <1>1, <2>1, StillRunning
<1> QED BY <1>9, <1>10, <1>11, <1>12, <1>13 DEF LinksOk

-----------------------------------------------------------------------------
(* The steps that put a thread into the table. *)

\* rt_schedule_insert_thread, for a thread that is in no list.
LEMMA InsertedThread ==
    ASSUME NEW table \in [Priorities -> Seq(Threads)], NEW group \in SUBSET Priorities,
           NEW t \in Threads, NEW prio \in Priorities,
           \A p \in Priorities : LinkedOnce(table[p]) /\ t \notin ToSet(table[p]),
           Insert(table, group, t, prio)
    PROVE  /\ \A p \in Priorities :
                 /\ Members(p)' = IF p = prio THEN ToSet(table[p]) \cup {t} ELSE ToSet(table[p])
                 /\ LinkedOnce(rt_thread_priority_table'[p])
           /\ \A p \in rt_thread_ready_priority_group' :
                 rt_thread_priority_table'[p] = <<>> => p \in group /\ p # prio /\ table[p] = <<>>
<1>1. /\ rt_thread_priority_table' = [table EXCEPT ![prio] = rt_list_insert_before(@, t)]
      /\ rt_thread_ready_priority_group' = group \cup {prio}
  BY DEF Insert
<1>2. ASSUME NEW p \in Priorities
      PROVE  /\ ToSet(rt_thread_priority_table'[p])
                    = IF p = prio THEN ToSet(table[p]) \cup {t} ELSE ToSet(table[p])
             /\ LinkedOnce(rt_thread_priority_table'[p])
  BY <1>1, InsertedMembers
<1>3. ASSUME NEW p \in rt_thread_ready_priority_group', rt_thread_priority_table'[p] = <<>>
      PROVE  p \in group /\ p # prio /\ table[p] = <<>>
  <2>1. p \in Priorities
    BY <1>1
  <2>2. p # prio
    BY <1>1, <1>3, AppendMembers
  <2> QED BY <1>1, <1>3, <2>1, <2>2
<1> QED BY <1>2, <1>3 DEF Members

\* The second section of rt_thread_resume.
LEMMA InsertKeeps ==
    ASSUME Discipline, KernelInv, SchedulerInv', NEW c \in Threads, ResumeInsert(c)
    PROVE  LinksOk' /\ RunningOk'
<1>1. PICK t \in Threads : t = obj[c]
  BY DEF KernelInv, SchedulerInv, RestOK
<1>2. PICK label \in {"insert", "start_insert"} : At(c, label)
  BY DEF ResumeInsert
<1>3. PICK prio \in Priorities : prio = current_priority[t]
  BY DEF KernelInv, SchedulerInv, RestOK
<1>4. /\ UNCHANGED <<current_priority, rt_scheduler_lock_nest, freed, rt_current_thread, obj,
                     rt_thread_defunct, timer_list>>
      /\ Insert(rt_thread_priority_table, rt_thread_ready_priority_group, t, prio)
      /\ resched_owed'
  BY <1>1, <1>3 DEF ResumeInsert, Goto, timers
<1>5. /\ c = rt_current_thread /\ rt_current_thread # NoThread /\ pc[c] = label /\ ~Absent(c) /\ c \notin freed
      /\ current_priority[c] \in Priorities /\ c \in Members(current_priority[c])
  BY <1>2, RunningThread
<1>6. /\ \A d \in Threads : d # c => pc'[d] = pc[d]
      /\ pc'[c] \in {"run", "schedule"}
      /\ \A x \in Threads : stat'[x] = IF x = t THEN "READY" ELSE stat[x]
  <2>1. pc \in [Threads -> Labels] /\ stat \in [Threads -> Stats]
    BY DEF KernelInv, SchedulerInv, RestOK
  <2> QED BY <1>1, <2>1 DEF ResumeInsert, Goto
<1>7. ListsOk /\ ObjectsOk /\ CallersOk /\ LinksOk
  BY DEF KernelInv, LinksOk
<1>8. c \in Admins
  BY <1>5, <1>7 DEF CallersOk, Admins
<1>9. \A d \in Threads : d # c =>
        pc[d] \notin {"resume", "insert", "start", "start_insert", "delete_timer", "delete_close", "delete_defunct"}
  BY <1>7, <1>8, OneAdmin
<1>10. stat[t] # "CLOSE" /\ t \notin timer_list /\ Absent(t)
  BY <1>1, <1>5, <1>7 DEF ObjectsOk
<1>11. /\ \A p \in Priorities : Members(p)' = IF p = prio THEN Members(p) \cup {t} ELSE Members(p)
       /\ \A p \in Priorities : LinkedOnce(rt_thread_priority_table'[p])
       /\ \A p \in rt_thread_ready_priority_group' :
             rt_thread_priority_table'[p] = <<>> =>
                 p \in rt_thread_ready_priority_group /\ p # prio /\ rt_thread_priority_table[p] = <<>>
  <2>1. /\ rt_thread_priority_table \in [Priorities -> Seq(Threads)]
        /\ rt_thread_ready_priority_group \in SUBSET Priorities
    BY DEF KernelInv, SchedulerInv, TableOK
  <2>2. \A p \in Priorities : LinkedOnce(rt_thread_priority_table[p]) /\ t \notin ToSet(rt_thread_priority_table[p])
    BY <1>7, <1>10 DEF ListsOk, Absent, Members
  <2>3. /\ \A p \in Priorities :
              /\ Members(p)' = IF p = prio THEN ToSet(rt_thread_priority_table[p]) \cup {t}
                               ELSE ToSet(rt_thread_priority_table[p])
              /\ LinkedOnce(rt_thread_priority_table'[p])
        /\ \A p \in rt_thread_ready_priority_group' :
              rt_thread_priority_table'[p] = <<>> =>
                  p \in rt_thread_ready_priority_group /\ p # prio /\ rt_thread_priority_table[p] = <<>>
    BY <1>4, <2>1, <2>2, InsertedThread
  <2>4. \A p \in Priorities : Members(p) = ToSet(rt_thread_priority_table[p])
    BY DEF Members
  <2> QED BY <2>3, <2>4
<1>12. CallersOk'
  BY <1>4, <1>6, <1>7 DEF CallersOk
<1>13. ObjectsOk'
  BY <1>6, <1>9 DEF ObjectsOk
<1>14. ListsOk'
  <2>1. \A x \in Threads : x # t => ~Deleting(x) /\ ~Resuming(x)
    BY <1>1, <1>5, <1>9 DEF Deleting, Resuming
  <2>2. ASSUME NEW x \in Threads, stat'[x] = "READY"
        PROVE  x \in Members(current_priority[x])'
    <3>1. x = t \/ x \in Members(current_priority[x])
      BY <1>6, <1>7, <2>1, <2>2 DEF ListsOk
    <3>2. current_priority[x] \in Priorities
      BY DEF KernelInv, SchedulerInv, RestOK
    <3>3. x \in ToSet(rt_thread_priority_table'[current_priority[x]])
      BY <1>3, <1>11, <3>1, <3>2 DEF Members
    <3> QED BY <1>4, <3>3 DEF Members
  <2>3. \A x \in Threads, p \in Priorities : x \in Members(p)' => stat'[x] = "READY" /\ p = current_priority'[x]
    BY <1>3, <1>4, <1>6, <1>7, <1>10, <1>11 DEF ListsOk, Absent
  <2>4. \A x \in ToSet(rt_thread_defunct') : stat'[x] = "CLOSE" /\ x \notin freed'
    <3>1. \A x \in ToSet(rt_thread_defunct) : x \in Threads
      BY DEF KernelInv, SchedulerInv, RestOK, ToSet
    <3> QED BY <1>4, <1>6, <1>7, <1>10, <3>1 DEF ListsOk
  <2>5. \A x \in freed' : stat'[x] = "CLOSE"
    BY <1>4, <1>6, <1>7, <1>10 DEF ListsOk, KernelInv, SchedulerInv, RestOK
  <2>6. \A x \in Threads : stat'[x] = "CLOSE" => x \in Exiters \cup Deletable
    BY <1>6, <1>7 DEF ListsOk
  <2>7. timer_list' \subseteq Sleepers /\ TimeoutAssertion'
    BY <1>4, <1>6, <1>7, <1>10 DEF ListsOk, TimeoutAssertion, KernelInv, SchedulerInv, RestOK
  <2> QED BY <1>4, <1>7, <1>11, <2>2, <2>3, <2>4, <2>5, <2>6, <2>7 DEF ListsOk
<1>15. BitsNotStale'
  <2> SUFFICES ASSUME NEW p \in rt_thread_ready_priority_group', rt_thread_priority_table'[p] = <<>>
               PROVE  FALSE
    BY DEF BitsNotStale
  <2>1. p \in rt_thread_ready_priority_group /\ p # prio /\ rt_thread_priority_table[p] = <<>>
    BY <1>11
  <2>2. PICK d \in Threads : pc[d] \in {"insert", "start_insert"} /\ current_priority[obj[d]] = p
    BY <1>7, <2>1 DEF LinksOk, BitsNotStale
  <2> QED BY <1>1, <1>3, <1>9, <2>1, <2>2
<1>16. RunningOk'
  <2>1. c \in ToSet(rt_thread_priority_table'[current_priority[c]])
    BY <1>5, <1>11 DEF Members
  <2>2. rt_current_thread' \in Members(current_priority[rt_current_thread])'
    BY <1>4, <1>5, <2>1 DEF Members
  <2> QED BY <1>4, <1>5, <1>6, <2>2 DEF RunningOk
<1> QED BY <1>12, <1>13, <1>14, <1>15, <1>16 DEF LinksOk

\* rt_thread_timeout, called by the tick: the sleeper is in no list, so that
\* only the insertion changes the table.
LEMMA TimeoutKeeps ==
    ASSUME Discipline, KernelInv, SchedulerInv', NEW t \in Threads, ThreadTimeout(t)
    PROVE  LinksOk' /\ RunningOk'
<1>1. PICK prio \in Priorities : prio = current_priority[t]
  BY DEF KernelInv, SchedulerInv, RestOK
<1>2. /\ UNCHANGED <<current_priority, rt_scheduler_lock_nest, freed, obj, pc>>
      /\ t \in timer_list /\ timer_list' = timer_list \ {t} /\ rt_current_thread # NoThread
      /\ rt_thread_defunct' = rt_list_remove(rt_thread_defunct, t)
  BY DEF ThreadTimeout, calls, Expired, Defined
<1>3. ListsOk /\ ObjectsOk /\ CallersOk /\ LinksOk
  BY DEF KernelInv, LinksOk
<1>4. stat[t] = "SUSPEND" /\ Absent(t) /\ t \in Sleepers /\ t \notin Deletable
  BY <1>2, <1>3 DEF ListsOk, TimeoutAssertion, Absent, Discipline
<1>5. /\ rt_thread_priority_table \in [Priorities -> Seq(Threads)]
      /\ rt_thread_ready_priority_group \in SUBSET Priorities
  BY DEF KernelInv, SchedulerInv, TableOK
<1>6. Unlinked(rt_thread_priority_table, t) = rt_thread_priority_table
  <2>1. \A p \in Priorities : rt_list_remove(rt_thread_priority_table[p], t) = rt_thread_priority_table[p]
    BY <1>4 DEF Absent, Members, rt_list_remove
  <2> QED BY <1>5, <2>1 DEF Unlinked
<1>7. /\ Insert(rt_thread_priority_table, rt_thread_ready_priority_group, t, prio)
      /\ rt_schedule([rt_thread_priority_table EXCEPT ![prio] = Append(@, t)],
                     rt_thread_ready_priority_group \cup {prio})
      /\ rt_thread_priority_table' = [rt_thread_priority_table EXCEPT ![prio] = Append(@, t)]
      /\ rt_thread_ready_priority_group' = rt_thread_ready_priority_group \cup {prio}
  <2>1. /\ Insert(rt_thread_priority_table, rt_thread_ready_priority_group, t, prio)
        /\ rt_schedule([rt_thread_priority_table EXCEPT ![prio] = Append(@, t)],
                       rt_thread_ready_priority_group \cup {prio})
    BY <1>1, <1>6 DEF ThreadTimeout
  <2> QED BY <2>1 DEF Insert, rt_list_insert_before
<1>8. /\ \A p \in Priorities : Members(p)' = IF p = prio THEN Members(p) \cup {t} ELSE Members(p)
      /\ \A p \in Priorities : LinkedOnce(rt_thread_priority_table'[p])
      /\ \A p \in rt_thread_ready_priority_group' :
            rt_thread_priority_table'[p] = <<>> =>
                p \in rt_thread_ready_priority_group /\ p # prio /\ rt_thread_priority_table[p] = <<>>
  <2>1. \A p \in Priorities : LinkedOnce(rt_thread_priority_table[p]) /\ t \notin ToSet(rt_thread_priority_table[p])
    BY <1>3, <1>4 DEF ListsOk, Absent, Members
  <2>2. /\ \A p \in Priorities :
              /\ Members(p)' = IF p = prio THEN ToSet(rt_thread_priority_table[p]) \cup {t}
                               ELSE ToSet(rt_thread_priority_table[p])
              /\ LinkedOnce(rt_thread_priority_table'[p])
        /\ \A p \in rt_thread_ready_priority_group' :
              rt_thread_priority_table'[p] = <<>> =>
                  p \in rt_thread_ready_priority_group /\ p # prio /\ rt_thread_priority_table[p] = <<>>
    BY <1>5, <1>7, <2>1, InsertedThread
  <2>3. \A p \in Priorities : Members(p) = ToSet(rt_thread_priority_table[p])
    BY DEF Members
  <2> QED BY <2>2, <2>3
<1>9. \A x \in Threads : stat'[x] = IF x = t THEN "READY" ELSE stat[x]
  BY DEF ThreadTimeout, KernelInv, SchedulerInv, RestOK
<1>10. rt_thread_defunct' = rt_thread_defunct
  BY <1>2, <1>3, <1>4 DEF rt_list_remove, ListsOk
<1>11. CallersOk'
  BY <1>2, <1>3 DEF CallersOk
<1>12. ObjectsOk'
  <2>1. \A x : x # t /\ Absent(x) => Absent(x)'
    BY <1>8 DEF Absent
  <2>2. \A d \in Threads : obj[d] \in Threads
    BY DEF KernelInv, SchedulerInv, RestOK
  <2>3. \A d \in Threads :
          pc[d] \in {"start", "insert", "start_insert", "delete_timer", "delete_close", "delete_defunct"} =>
              obj[d] # t
    BY <1>2, <1>3, <1>4 DEF ObjectsOk, CallersOk
  <2> QED BY <1>2, <1>3, <1>4, <1>9, <1>10, <2>1, <2>2, <2>3 DEF ObjectsOk
<1>13. ListsOk'
  <2>1. \A x \in Threads : (Deleting(x) => Deleting(x)') /\ (Resuming(x) => Resuming(x)')
    BY <1>2 DEF Deleting, Resuming
  <2>2. ASSUME NEW x \in Threads, stat'[x] = "READY", ~Deleting(x)', ~Resuming(x)'
        PROVE  x \in Members(current_priority[x])'
    <3>1. x = t \/ x \in Members(current_priority[x])
      BY <1>3, <1>9, <2>1, <2>2 DEF ListsOk
    <3>2. current_priority[x] \in Priorities
      BY DEF KernelInv, SchedulerInv, RestOK
    <3>3. x \in ToSet(rt_thread_priority_table'[current_priority[x]])
      BY <1>1, <1>8, <3>1, <3>2 DEF Members
    <3> QED BY <1>2, <3>3 DEF Members
  <2>3. \A x \in Threads, p \in Priorities : x \in Members(p)' => stat'[x] = "READY" /\ p = current_priority'[x]
    BY <1>1, <1>2, <1>3, <1>4, <1>8, <1>9 DEF ListsOk, Absent
  <2>4. \A x \in ToSet(rt_thread_defunct') : stat'[x] = "CLOSE" /\ x \notin freed'
    <3>1. \A x \in ToSet(rt_thread_defunct) : x \in Threads
      BY DEF KernelInv, SchedulerInv, RestOK, ToSet
    <3> QED BY <1>2, <1>3, <1>4, <1>9, <1>10, <3>1 DEF ListsOk
  <2>5. \A x \in freed' : stat'[x] = "CLOSE"
    BY <1>2, <1>3, <1>4, <1>9 DEF ListsOk, KernelInv, SchedulerInv, RestOK
  <2>6. \A x \in Threads : stat'[x] = "CLOSE" => x \in Exiters \cup Deletable
    BY <1>3, <1>9 DEF ListsOk
  <2>7. timer_list' \subseteq Sleepers /\ TimeoutAssertion'
    BY <1>2, <1>3, <1>9 DEF ListsOk, TimeoutAssertion, KernelInv, SchedulerInv, RestOK
  <2> QED BY <1>3, <1>8, <1>10, <2>2, <2>3, <2>4, <2>5, <2>6, <2>7 DEF ListsOk
<1>14. BitsNotStale'
  BY <1>2, <1>3, <1>8, StaleBits DEF KernelInv
<1>15. CASE rt_scheduler_lock_nest = 0
  <2>1. rt_current_thread' = to_thread(rt_thread_priority_table', rt_thread_ready_priority_group')
    BY <1>7, <1>15 DEF rt_schedule
  <2>2. RunningOk'
    BY <1>2, <1>13, <1>15, <2>1, AfterSchedule
  <2> QED BY <1>11, <1>12, <1>13, <1>14, <2>2 DEF LinksOk
<1>16. CASE rt_scheduler_lock_nest # 0
  <2>1. PICK c \in Threads : c = rt_current_thread
    BY <1>2 DEF KernelInv, SchedulerInv, RestOK
  <2>2. rt_current_thread' = c
    BY <1>7, <1>16, <2>1 DEF rt_schedule
  <2>3. /\ c \in Members(current_priority[c]) /\ c \notin freed /\ current_priority[c] \in Priorities
        /\ pc[c] = "suspend" /\ obj[c] = c => rt_scheduler_lock_nest = 0
    BY <1>2, <1>16, <2>1 DEF KernelInv, RunningOk, SchedulerInv, RestOK
  <2>4. c \in ToSet(rt_thread_priority_table'[current_priority[c]])
    BY <1>8, <2>3 DEF Members
  <2>5. rt_current_thread' \in Members(current_priority[rt_current_thread])'
    BY <1>2, <2>2, <2>4 DEF Members
  <2>6. RunningOk'
    BY <1>2, <1>16, <2>2, <2>3, <2>5 DEF RunningOk
  <2> QED BY <1>11, <1>12, <1>13, <1>14, <2>6 DEF LinksOk
<1> QED BY <1>15, <1>16

\* RT_THREAD_CTRL_CHANGE_PRIORITY: a ready thread moves to the list of its new
\* priority; another one only gets the new number.
LEMMA ChangePriorityKeeps ==
    ASSUME Discipline, KernelInv, SchedulerInv', NEW c \in Threads, NEW t \in Threads,
           NEW prio \in Priorities, ChangePriority(c, t, prio)
    PROVE  LinksOk' /\ RunningOk'
<1>1. /\ UNCHANGED <<rt_scheduler_lock_nest, freed, rt_current_thread, obj, pc, stat, timer_list>>
      /\ At(c, "run") /\ c \in PriorityChangers /\ t \notin freed
  BY DEF ChangePriority, timers, calls
<1>2. /\ c = rt_current_thread /\ rt_current_thread # NoThread /\ pc[c] = "run" /\ c \notin freed
      /\ stat[c] = "READY" /\ current_priority[c] \in Priorities /\ c \in Members(current_priority[c])
  BY <1>1, RunningThread
<1>3. \A x \in Threads : current_priority'[x] = IF x = t THEN prio ELSE current_priority[x]
  BY DEF ChangePriority, KernelInv, SchedulerInv, RestOK
<1>4. ListsOk /\ ObjectsOk /\ CallersOk /\ LinksOk
  BY DEF KernelInv, LinksOk
<1>5. c \in Admins
  BY <1>1 DEF Admins
<1>6. \A d \in Threads :
        pc[d] \notin {"resume", "insert", "start", "start_insert", "delete_timer", "delete_close", "delete_defunct"}
  BY <1>2, <1>4, <1>5, OneAdmin
<1>7. /\ \A x \in Threads : ~Deleting(x) /\ ~Resuming(x)
      /\ \A p \in rt_thread_ready_priority_group : rt_thread_priority_table[p] # <<>>
  BY <1>2, <1>4, <1>5, NoCallPending
<1>8. CallersOk'
  BY <1>1, <1>4 DEF CallersOk
<1>9. ObjectsOk'
  BY <1>1, <1>6 DEF ObjectsOk
<1>10. /\ rt_thread_priority_table \in [Priorities -> Seq(Threads)]
       /\ rt_thread_ready_priority_group \in SUBSET Priorities
       /\ \A x \in Threads : current_priority[x] \in Priorities
  BY DEF KernelInv, SchedulerInv, TableOK, RestOK
<1>11. CASE stat[t] # "READY"
  <2>1. UNCHANGED <<rt_thread_priority_table, rt_thread_ready_priority_group, rt_thread_defunct, resched_owed>>
    BY <1>11 DEF ChangePriority, lists
  <2>2. \A p : Members(p)' = Members(p)
    BY <2>1 DEF Members
  <2>3. t # c
    BY <1>2, <1>11
  <2>4. ListsOk'
    <3>1. ASSUME NEW x \in Threads, stat'[x] = "READY"
          PROVE  x \in Members(current_priority[x])'
      <4>1. x # t /\ x \in Members(current_priority[x])
        BY <1>1, <1>4, <1>7, <1>11, <3>1 DEF ListsOk
      <4> QED BY <1>3, <2>1, <4>1 DEF Members
    <3>2. \A x \in Threads, p \in Priorities : x \in Members(p)' => stat'[x] = "READY" /\ p = current_priority'[x]
      BY <1>1, <1>3, <1>4, <1>11, <2>2 DEF ListsOk
    <3> QED BY <1>1, <1>4, <2>1, <3>1, <3>2 DEF ListsOk, TimeoutAssertion
  <2>5. BitsNotStale'
    BY <1>7, <2>1 DEF BitsNotStale
  <2>6. RunningOk'
    <3>1. current_priority'[c] = current_priority[c] /\ c \notin freed' /\ pc'[c] # "suspend"
      BY <1>1, <1>2, <1>3, <2>3
    <3> QED BY <1>1, <2>1, <3>1, StillRunning
  <2> QED BY <1>8, <1>9, <2>4, <2>5, <2>6 DEF LinksOk
<1>12. CASE stat[t] = "READY"
  <2>1. PICK old \in Priorities : old = current_priority[t]
    BY <1>10
  <2>2. PICK table : table = Unlinked(rt_thread_priority_table, t)
    OBVIOUS
  <2>3. PICK group : group = IF rt_list_isempty(table[old])
                             THEN rt_thread_ready_priority_group \ {old}
                             ELSE rt_thread_ready_priority_group
    OBVIOUS
  <2>4. /\ Insert(table, group, t, prio) /\ resched_owed'
        /\ rt_thread_defunct' = rt_list_remove(rt_thread_defunct, t)
    BY <1>12, <2>1, <2>2, <2>3 DEF ChangePriority
  <2>5. /\ table \in [Priorities -> Seq(Threads)] /\ group \in SUBSET Priorities
        /\ \A p \in Priorities : ToSet(table[p]) = Members(p) \ {t} /\ LinkedOnce(table[p])
    <3>1. table \in [Priorities -> Seq(Threads)]
      BY <1>10, <2>2, UnlinkedTable
    <3>2. ASSUME NEW p \in Priorities
          PROVE  ToSet(table[p]) = ToSet(rt_thread_priority_table[p]) \ {t} /\ LinkedOnce(table[p])
      <4>1. LinkedOnce(rt_thread_priority_table[p])
        BY <1>4 DEF ListsOk
      <4> QED BY <1>10, <2>2, <4>1, UnlinkedMembers
    <3> QED BY <1>10, <2>3, <3>1, <3>2 DEF Members
  <2>6. /\ \A p \in Priorities :
              /\ Members(p)' = IF p = prio THEN ToSet(table[p]) \cup {t} ELSE ToSet(table[p])
              /\ LinkedOnce(rt_thread_priority_table'[p])
        /\ \A p \in rt_thread_ready_priority_group' :
              rt_thread_priority_table'[p] = <<>> => p \in group /\ p # prio /\ table[p] = <<>>
    <3>1. \A p \in Priorities : LinkedOnce(table[p]) /\ t \notin ToSet(table[p])
      BY <2>5
    <3> QED BY <2>4, <2>5, <3>1, InsertedThread
  <2>7. rt_thread_defunct' = rt_thread_defunct
    BY <1>4, <1>12, <2>4 DEF rt_list_remove, ListsOk
  <2>8. ListsOk'
    <3>1. ASSUME NEW x \in Threads, stat'[x] = "READY"
          PROVE  x \in Members(current_priority[x])'
      <4>1. x \in Members(current_priority[x])
        BY <1>1, <1>4, <1>7, <3>1 DEF ListsOk
      <4>2. PICK p \in Priorities : p = current_priority'[x]
        BY <1>3, <1>10
      <4>3. x \in Members(p)'
        BY <1>3, <2>5, <2>6, <4>1, <4>2
      <4> QED BY <4>2, <4>3 DEF Members
    <3>2. \A x \in Threads, p \in Priorities : x \in Members(p)' => stat'[x] = "READY" /\ p = current_priority'[x]
      BY <1>1, <1>3, <1>4, <1>12, <2>5, <2>6 DEF ListsOk
    <3> QED BY <1>1, <1>4, <2>6, <2>7, <3>1, <3>2 DEF ListsOk, TimeoutAssertion
  <2>9. BitsNotStale'
    <3> SUFFICES ASSUME NEW p \in rt_thread_ready_priority_group', rt_thread_priority_table'[p] = <<>>
                 PROVE  FALSE
      BY DEF BitsNotStale
    <3>1. p \in group /\ table[p] = <<>>
      BY <2>6
    <3>2. p # old /\ p \in rt_thread_ready_priority_group /\ p \in Priorities
      BY <1>10, <2>3, <3>1 DEF rt_list_isempty
    <3>3. t \notin Members(p)
      BY <1>4, <2>1, <3>2 DEF ListsOk
    <3>4. table[p] = rt_thread_priority_table[p]
      BY <2>2, <3>2, <3>3 DEF Unlinked, rt_list_remove, Members
    <3> QED BY <1>7, <3>1, <3>2, <3>4
  <2>10. RunningOk'
    <3>1. c \in Members(current_priority[c])'
      <4>1. ~Deleting(c)' /\ ~Resuming(c)' /\ stat'[c] = "READY"
        BY <1>1, <1>2, <1>6 DEF Deleting, Resuming
      <4> QED BY <2>8, <4>1 DEF ListsOk
    <3>2. rt_current_thread' \in Members(current_priority[rt_current_thread])'
      BY <1>1, <1>2, <3>1 DEF Members
    <3> QED BY <1>1, <1>2, <2>4, <3>2 DEF RunningOk
  <2> QED BY <1>8, <1>9, <2>8, <2>9, <2>10 DEF LinksOk
<1> QED BY <1>11, <1>12

-----------------------------------------------------------------------------
LEMMA KernelInit == Init => KernelInv
<1> SUFFICES ASSUME Init PROVE KernelInv
  OBVIOUS
<1> USE ThreadAssumption, StartAssumption
<1>1. SchedulerInv
  BY SchedulerInit
<1>2. /\ \A d \in Threads : pc[d] = "run"
      /\ freed = {} /\ timer_list = {} /\ rt_thread_defunct = <<>>
      /\ rt_thread_priority_table = InitTable /\ current_priority = InitPriority
      /\ \A t \in Threads : stat[t] = IF t \in ToSet(InitTable[InitPriority[t]]) THEN "READY" ELSE "INIT"
      /\ rt_scheduler_lock_nest = 0
      /\ rt_thread_ready_priority_group = {p \in Priorities : InitTable[p] # <<>>}
      /\ rt_current_thread = to_thread(rt_thread_priority_table, rt_thread_ready_priority_group)
  BY DEF Init
<1>3. CallersOk /\ ObjectsOk
  BY <1>2 DEF CallersOk, ObjectsOk
<1>4. ListsOk
  <2>1. LinkedOnce(<<>>) /\ ToSet(<<>>) = {}
    BY DEF LinkedOnce, ToSet
  <2>2. \A t \in Threads, p \in Priorities :
          t \in Members(p) => stat[t] = "READY" /\ p = current_priority[t]
    BY <1>2 DEF Members
  <2>3. \A t \in Threads : stat[t] = "READY" => t \in Members(current_priority[t])
    BY <1>2 DEF Members
  <2> QED BY <1>2, <2>1, <2>2, <2>3 DEF ListsOk, TimeoutAssertion
<1>5. BitsNotStale
  BY <1>2 DEF BitsNotStale
<1>6. RunningOk
  <2> SUFFICES ASSUME rt_current_thread # NoThread PROVE RunningOk
    BY DEF RunningOk
  <2>1. TableOK(rt_thread_priority_table, rt_thread_ready_priority_group)
    BY <1>1 DEF SchedulerInv
  <2>2. PICK h \in Priorities : /\ rt_current_thread \in Threads
                                /\ rt_current_thread \in ToSet(rt_thread_priority_table[h])
    BY <1>2, <2>1, ToThreadMember
  <2>3. rt_current_thread \in Members(current_priority[rt_current_thread])
    BY <1>4, <2>2 DEF Members, ListsOk
  <2> QED BY <1>2, <2>3 DEF RunningOk
<1> QED BY <1>1, <1>3, <1>4, <1>5, <1>6 DEF KernelInv, LinksOk

LEMMA KernelStep == Discipline => (KernelInv /\ [Next]_vars => KernelInv')
<1> SUFFICES ASSUME Discipline, KernelInv, [Next]_vars PROVE KernelInv'
  OBVIOUS
<1>0. SchedulerInv'
  BY SchedulerStep DEF KernelInv
<1>1. ASSUME NEW c \in Threads, ThreadStep(c) PROVE LinksOk' /\ RunningOk'
  BY <1>0, <1>1, ScheduleKeeps, UnlinkKeeps, InsertKeeps, SuspendKeeps, YieldKeeps, ExitKeeps,
     DeletingKeeps, LockKeeps, SleepKeeps, StartupKeeps, CallBegins, DeleteKeeps, ChangePriorityKeeps
     DEF ThreadStep
<1>2. CASE IdleExecute
  BY <1>0, <1>2, ReaperKeeps DEF KernelInv
<1>3. CASE TickIncrease
  BY <1>0, <1>3, TickKeeps DEF KernelInv
<1>4. ASSUME NEW t \in Threads, ThreadTimeout(t) PROVE LinksOk' /\ RunningOk'
  BY <1>0, <1>4, TimeoutKeeps
<1>5. CASE TickEnd \/ UNCHANGED vars
  BY <1>0, <1>5, NothingMoves DEF KernelInv
<1> QED BY <1>0, <1>1, <1>2, <1>3, <1>4, <1>5 DEF Next, Tick, KernelInv

-----------------------------------------------------------------------------
\* Under the discipline the inductive invariant holds.
LEMMA KernelInvariant == Discipline => (Spec => []KernelInv)
<1> SUFFICES ASSUME Discipline PROVE Spec => []KernelInv
  OBVIOUS
<1>1. KernelInv /\ [Next]_vars => KernelInv'
  BY KernelStep
<1> QED BY <1>1, KernelInit, PTL DEF Spec

\* No node of a list is linked twice and stat tells in which list a thread is:
\* the sections of rt_thread_resume, rt_thread_suspend, rt_thread_delete,
\* rt_thread_exit and the tick leave the lists intact in every interleaving.
THEOREM ListsAlwaysMatchStat == Discipline => (Spec => []ListsMatchStat)
<1>1. KernelInv => ListsMatchStat
  <2> SUFFICES ASSUME KernelInv PROVE ListsIntact /\ StatMatchesTable
    BY DEF ListsMatchStat
  <2>1. ListsOk
    BY DEF KernelInv, LinksOk
  <2>2. /\ \A p \in Priorities : \A x \in ToSet(rt_thread_priority_table[p]) : x \in Threads
        /\ \A x \in ToSet(rt_thread_defunct) : x \in Threads
    BY DEF KernelInv, SchedulerInv, TableOK, RestOK, ToSet
  <2>3. ListsIntact
    BY <2>1, <2>2 DEF ListsOk, ListsIntact, Members
  <2>4. StatMatchesTable
    BY <2>1 DEF ListsOk, StatMatchesTable, Members
  <2> QED BY <2>3, <2>4
<1> SUFFICES ASSUME Discipline PROVE Spec => []ListsMatchStat
  OBVIOUS
<1> QED BY <1>1, KernelInvariant, PTL

\* A bit of the bitmap stands over an empty list only between the two sections
\* of an rt_thread_resume for a thread of that priority.
THEOREM BitsAreNotStale == Discipline => (Spec => []BitsNotStale)
<1>1. KernelInv => BitsNotStale
  BY DEF KernelInv, LinksOk
<1> SUFFICES ASSUME Discipline PROVE Spec => []BitsNotStale
  OBVIOUS
<1> QED BY <1>1, KernelInvariant, PTL

\* No path of the tick, of a wakeup or of rt_exit_critical forgets rt_schedule:
\* the running thread is the first of the highest ready priority.
THEOREM HighestRuns == Discipline => (Spec => []RunsHighest)
<1>1. KernelInv => RunsHighest
  BY DEF KernelInv, RunningOk, RunsHighest, ScheduleDefined
<1> SUFFICES ASSUME Discipline PROVE Spec => []RunsHighest
  OBVIOUS
<1> QED BY <1>1, KernelInvariant, PTL

\* The assertion of rt_thread_timeout holds: only a suspended thread has a
\* started timer.
THEOREM TimeoutAssertionHolds == Discipline => (Spec => []TimeoutAssertion)
<1>1. KernelInv => TimeoutAssertion
  BY DEF KernelInv, LinksOk, ListsOk
<1> SUFFICES ASSUME Discipline PROVE Spec => []TimeoutAssertion
  OBVIOUS
<1> QED BY <1>1, KernelInvariant, PTL

\* The reaper of idle.c frees no thread that a list, a timer, the processor or a
\* call in progress still uses.
THEOREM FreedIsUnused == Discipline => (Spec => []NoUseAfterFree)
<1>1. KernelInv => NoUseAfterFree
  <2> SUFFICES ASSUME KernelInv, NEW t \in freed
               PROVE  /\ \A p \in Priorities : t \notin ToSet(rt_thread_priority_table[p])
                      /\ t \notin ToSet(rt_thread_defunct)
                      /\ t \notin timer_list
                      /\ t # rt_current_thread
                      /\ ~Deleting(t) /\ ~Resuming(t)
    BY DEF NoUseAfterFree
  <2>1. ListsOk /\ ObjectsOk /\ t \in Threads /\ stat[t] = "CLOSE"
    BY DEF KernelInv, LinksOk, ListsOk, SchedulerInv, RestOK
  <2>2. \A p \in Priorities : t \notin ToSet(rt_thread_priority_table[p])
    BY <2>1 DEF ListsOk, Members
  <2>3. t \notin ToSet(rt_thread_defunct) /\ t \notin timer_list
    BY <2>1 DEF ListsOk, TimeoutAssertion
  <2>4. t # rt_current_thread
    <3>1. NoThread \notin Threads
      BY ThreadAssumption
    <3> QED BY <2>1, <3>1 DEF KernelInv, RunningOk
  <2>5. ~Deleting(t) /\ ~Resuming(t)
    BY <2>1 DEF ObjectsOk, Deleting, Resuming
  <2> QED BY <2>2, <2>3, <2>4, <2>5
<1> SUFFICES ASSUME Discipline PROVE Spec => []NoUseAfterFree
  OBVIOUS
<1> QED BY <1>1, KernelInvariant, PTL

\* A closed thread stays closed: no late timeout, resume or suspend makes it
\* runnable again.
THEOREM ClosedStaysClosed == Discipline => (Spec => ClosedIsFinal)
<1> SUFFICES ASSUME Discipline PROVE Spec => ClosedIsFinal
  OBVIOUS
<1>1. ASSUME KernelInv, [Next]_vars, NEW t \in Threads, stat[t] = "CLOSE"
      PROVE  stat'[t] = "CLOSE"
  <2>1. ListsOk /\ ObjectsOk /\ CallersOk /\ stat \in [Threads -> Stats]
    BY <1>1 DEF KernelInv, LinksOk, SchedulerInv, RestOK
  <2>2. t \in Exiters \cup Deletable /\ t \notin timer_list
    BY <1>1, <2>1 DEF ListsOk, TimeoutAssertion
  <2>3. ASSUME NEW c \in Threads, ResumeInsert(c) PROVE stat'[t] = "CLOSE"
    <3>1. obj[c] # t
      BY <1>1, <2>1, <2>3 DEF ResumeInsert, At, ObjectsOk
    <3> QED BY <1>1, <2>1, <2>3, <3>1 DEF ResumeInsert
  <2>4. ASSUME NEW c \in Threads, SuspendRemove(c) PROVE stat'[t] = "CLOSE"
    <3>1. obj[c] # t
      BY <2>1, <2>2, <2>4 DEF SuspendRemove, At, CallersOk, Discipline
    <3> QED BY <1>1, <2>1, <2>4, <3>1 DEF SuspendRemove
  <2>5. ASSUME NEW c \in Threads, NEW tick, ThreadSleep(c, tick) PROVE stat'[t] = "CLOSE"
    BY <1>1, <2>1, <2>5 DEF ThreadSleep
  <2>6. ASSUME NEW c \in Threads, ThreadExit(c) \/ DeleteClose(c) PROVE stat'[t] = "CLOSE"
    BY <1>1, <2>1, <2>6 DEF ThreadExit, DeleteClose
  <2>7. ASSUME NEW c \in Threads, NEW x \in Threads, ThreadStartup(c, x) PROVE stat'[t] = "CLOSE"
    BY <1>1, <2>1, <2>7 DEF ThreadStartup
  <2>8. ASSUME NEW x \in Threads, ThreadTimeout(x) PROVE stat'[t] = "CLOSE"
    BY <1>1, <2>1, <2>2, <2>8 DEF ThreadTimeout, Expired
  <2>9. ASSUME NEW c \in Threads,
               \/ Schedule(c) \/ ResumeUnlink(c) \/ ThreadYield(c) \/ DeleteTimer(c)
               \/ DeleteDefunct(c) \/ EnterCritical(c) \/ ExitCritical(c)
        PROVE  stat'[t] = "CLOSE"
    BY <1>1, <2>9 DEF Schedule, ResumeUnlink, ThreadYield, DeleteTimer, DeleteDefunct, EnterCritical, ExitCritical
  <2>10. ASSUME NEW c \in Threads, NEW x \in Threads,
                ThreadResume(c, x) \/ ThreadSuspend(c, x) \/ ThreadDelete(c, x)
         PROVE  stat'[t] = "CLOSE"
    BY <1>1, <2>10 DEF ThreadResume, ThreadSuspend, ThreadDelete
  <2>11. ASSUME NEW c \in Threads, NEW x \in Threads, NEW prio, ChangePriority(c, x, prio)
         PROVE  stat'[t] = "CLOSE"
    BY <1>1, <2>11 DEF ChangePriority
  <2>12. CASE IdleExecute \/ TickIncrease \/ TickEnd \/ UNCHANGED vars
    BY <1>1, <2>12 DEF IdleExecute, TickIncrease, TickEnd, vars
  <2> QED BY <1>1, <2>3, <2>4, <2>5, <2>6, <2>7, <2>8, <2>9, <2>10, <2>11, <2>12
      DEF Next, ThreadStep, Tick
<1>2. KernelInv /\ [Next]_vars => [\A t \in Threads : stat[t] = "CLOSE" => stat'[t] = "CLOSE"]_vars
  BY <1>1
<1> QED BY <1>2, KernelInvariant, PTL DEF Spec, ClosedIsFinal

-----------------------------------------------------------------------------
(* rt_schedule never takes a list head for a thread, if nobody suspends the *)
(* administrator: then the list of the administrator stands above every     *)
(* stale bit, or the scheduler is locked.                                   *)

AdminNotSuspended == Admins \cap Suspendable = {}

\* Inside rt_thread_resume or rt_thread_startup the caller is ready.
AdminReady ==
    \A c \in Threads :
        pc[c] \in {"resume", "start", "insert", "start_insert"} => stat[c] = "READY" /\ obj[c] # c

\* An rt_schedule is owed by the administrator, who still runs; meanwhile the
\* thread it is about to resume became ready only under the lock.
OwedOk ==
    resched_owed =>
        /\ rt_current_thread \in Admins
        /\ \A c \in Threads : pc[c] = "resume" /\ ~Absent(obj[c]) => rt_scheduler_lock_nest # 0

\* A stale bit is covered.
StaleOk ==
    \A c \in Threads :
        \/ pc[c] \notin {"insert", "start_insert"}
        \/ current_priority[obj[c]] \notin rt_thread_ready_priority_group
        \/ rt_thread_priority_table[current_priority[obj[c]]] # <<>>
        \/ rt_scheduler_lock_nest # 0 /\ rt_current_thread = c
        \/ current_priority[c] < current_priority[obj[c]]

SwitchInv == KernelInv /\ AdminReady /\ OwedOk /\ StaleOk /\ ScheduleDefined

\* The caller inside rt_thread_resume is linked.
LEMMA AdminLinked ==
    ASSUME Discipline, KernelInv, AdminReady, NEW c \in Threads,
           pc[c] \in {"resume", "start", "insert", "start_insert"}
    PROVE  c \in Members(current_priority[c]) /\ c \in Admins
<1>1. CallersOk /\ ListsOk
  BY DEF KernelInv, LinksOk
<1>2. c \in Admins
  BY <1>1 DEF CallersOk, Admins
<1>3. \A d \in Threads : d # c =>
        pc[d] \notin {"resume", "insert", "start", "start_insert", "delete_timer", "delete_close", "delete_defunct"}
  BY <1>1, <1>2, OneAdmin
<1>4. stat[c] = "READY" /\ obj[c] # c
  BY DEF AdminReady
<1>5. ~Deleting(c) /\ ~Resuming(c)
  BY <1>3, <1>4 DEF Deleting, Resuming
<1> QED BY <1>1, <1>2, <1>4, <1>5 DEF ListsOk

\* With the stale bits covered and the scheduler unlocked, rt_schedule finds a thread.
LEMMA FindsThread ==
    (Discipline /\ KernelInv /\ AdminReady /\ StaleOk /\ rt_scheduler_lock_nest = 0)
        => to_thread(rt_thread_priority_table, rt_thread_ready_priority_group) # NoThread
<1> SUFFICES ASSUME Discipline, KernelInv, AdminReady, StaleOk, rt_scheduler_lock_nest = 0
             PROVE  to_thread(rt_thread_priority_table, rt_thread_ready_priority_group) # NoThread
  OBVIOUS
<1> USE ThreadAssumption
<1>1. /\ TableOK(rt_thread_priority_table, rt_thread_ready_priority_group)
      /\ rt_thread_priority_table \in [Priorities -> Seq(Threads)]
  BY DEF KernelInv, SchedulerInv, TableOK
<1>2. PICK h : h = highest_ready_priority(rt_thread_ready_priority_group)
  OBVIOUS
<1>3. /\ h \in rt_thread_ready_priority_group /\ h \in Priorities
      /\ \A q \in rt_thread_ready_priority_group : h <= q
  BY <1>1, <1>2, HighestBit
<1>4. rt_thread_priority_table[h] # <<>>
  <2> SUFFICES ASSUME rt_thread_priority_table[h] = <<>> PROVE FALSE
    OBVIOUS
  <2>1. PICK c \in Threads : pc[c] \in {"insert", "start_insert"} /\ current_priority[obj[c]] = h
    BY <1>3 DEF KernelInv, LinksOk, BitsNotStale
  <2>2. current_priority[c] < h
    BY <1>3, <2>1 DEF StaleOk
  <2>3. c \in Members(current_priority[c]) /\ current_priority[c] \in Priorities
    BY <2>1, AdminLinked DEF KernelInv, SchedulerInv, RestOK
  <2>4. rt_thread_priority_table[current_priority[c]] # <<>>
    BY <2>3 DEF Members, ToSet
  <2>5. current_priority[c] \in rt_thread_ready_priority_group
    BY <1>1, <2>3, <2>4 DEF TableOK
  <2>6. h <= current_priority[c] /\ h \in Nat /\ current_priority[c] \in Nat
    BY <1>3, <2>3, <2>5 DEF Priorities
  <2> QED BY <2>2, <2>6
<1>5. Head(rt_thread_priority_table[h]) \in Threads
  BY <1>1, <1>3, <1>4, TailMembers
<1>6. to_thread(rt_thread_priority_table, rt_thread_ready_priority_group) = Head(rt_thread_priority_table[h])
  BY <1>2, <1>4 DEF to_thread, rt_list_isempty
<1> QED BY <1>5, <1>6

\* The same for the next state.
LEMMA FindsThreadNext ==
    (Discipline /\ KernelInv /\ AdminReady /\ StaleOk /\ rt_scheduler_lock_nest = 0)'
        => (to_thread(rt_thread_priority_table, rt_thread_ready_priority_group) # NoThread)'
  BY FindsThread, PTL

\* The caller inside rt_thread_resume stays ready.
LEMMA AdminReadyStep ==
    ASSUME Discipline, AdminNotSuspended, KernelInv, AdminReady, [Next]_vars
    PROVE  AdminReady'
<1>1. /\ CallersOk /\ ListsOk /\ stat \in [Threads -> Stats]
      /\ pc \in [Threads -> Labels] /\ obj \in [Threads -> Threads]
  BY DEF KernelInv, LinksOk, SchedulerInv, RestOK
<1>2. \A d \in Threads : pc[d] \in {"resume", "start", "insert", "start_insert"} => d \in Admins
  BY <1>1 DEF CallersOk, Admins
<1>3. ASSUME NEW c \in Threads, ResumeUnlink(c) PROVE AdminReady'
  BY <1>1, <1>3 DEF ResumeUnlink, Goto, At, AdminReady
<1>4. ASSUME NEW c \in Threads, ResumeInsert(c) PROVE AdminReady'
  BY <1>1, <1>4 DEF ResumeInsert, Goto, AdminReady
<1>5. ASSUME NEW c \in Threads, SuspendRemove(c) PROVE AdminReady'
  <2>1. obj[c] \notin Admins
    BY <1>1, <1>5 DEF SuspendRemove, At, CallersOk, AdminNotSuspended
  <2> QED BY <1>1, <1>2, <1>5, <2>1 DEF SuspendRemove, Goto, AdminReady
<1>6. ASSUME NEW c \in Threads, NEW tick, ThreadSleep(c, tick) PROVE AdminReady'
  BY <1>1, <1>6 DEF ThreadSleep, Goto, AdminReady
<1>7. ASSUME NEW c \in Threads, ThreadExit(c) PROVE AdminReady'
  BY <1>1, <1>7 DEF ThreadExit, Goto, AdminReady
<1>8. ASSUME NEW c \in Threads, DeleteClose(c) PROVE AdminReady'
  <2>1. pc[c] = "delete_close" /\ c \in Admins
    BY <1>1, <1>8 DEF DeleteClose, At, CallersOk, Admins
  <2>2. \A d \in Threads : d # c =>
          pc[d] \notin {"resume", "insert", "start", "start_insert", "delete_timer", "delete_close", "delete_defunct"}
    BY <1>1, <2>1, OneAdmin
  <2> QED BY <1>1, <1>8, <2>2 DEF DeleteClose, Goto, AdminReady
<1>9. ASSUME NEW c \in Threads, NEW t \in Threads, ThreadStartup(c, t) PROVE AdminReady'
  <2>1. stat[c] = "READY"
    BY <1>9, RunningThread DEF ThreadStartup
  <2> QED BY <1>1, <1>9, <2>1 DEF ThreadStartup, GotoFor, AdminReady
<1>10. ASSUME NEW c \in Threads, NEW t \in Threads, ThreadResume(c, t) PROVE AdminReady'
  <2>1. stat[c] = "READY"
    BY <1>10, RunningThread DEF ThreadResume
  <2> QED BY <1>1, <1>10, <2>1 DEF ThreadResume, GotoFor, AdminReady
<1>11. ASSUME NEW c \in Threads, NEW t \in Threads, ThreadSuspend(c, t) \/ ThreadDelete(c, t) PROVE AdminReady'
  BY <1>1, <1>11 DEF ThreadSuspend, ThreadDelete, GotoFor, AdminReady
<1>12. ASSUME NEW t \in Threads, ThreadTimeout(t) PROVE AdminReady'
  BY <1>1, <1>12 DEF ThreadTimeout, calls, AdminReady
<1>13. ASSUME NEW c \in Threads,
              \/ Schedule(c) \/ ThreadYield(c) \/ DeleteTimer(c)
              \/ DeleteDefunct(c) \/ EnterCritical(c) \/ ExitCritical(c)
       PROVE  AdminReady'
  <2>1. /\ stat' = stat /\ obj' = obj
        /\ \A d \in Threads : pc'[d] = pc[d] \/ pc'[d] \in {"run", "schedule", "delete_close"}
    BY <1>1, <1>13 DEF Schedule, ThreadYield, DeleteTimer, DeleteDefunct, EnterCritical, ExitCritical, Goto, calls
  <2> QED BY <2>1 DEF AdminReady
<1>14. ASSUME NEW c \in Threads, NEW t \in Threads, NEW prio, ChangePriority(c, t, prio) PROVE AdminReady'
  BY <1>14 DEF ChangePriority, calls, AdminReady
<1>15. CASE IdleExecute \/ TickIncrease \/ TickEnd \/ UNCHANGED vars
  BY <1>15 DEF IdleExecute, TickIncrease, TickEnd, vars, calls, AdminReady
<1> QED BY <1>3, <1>4, <1>5, <1>6, <1>7, <1>8, <1>9, <1>10, <1>11, <1>12, <1>13, <1>14, <1>15
    DEF Next, ThreadStep, Tick

\* rt_schedule has switched to a thread.
LEMMA SwitchDefined ==
    ASSUME Discipline, KernelInv', AdminReady', StaleOk', ScheduleDefined,
           UNCHANGED rt_scheduler_lock_nest,
           rt_schedule(rt_thread_priority_table', rt_thread_ready_priority_group')
    PROVE  ScheduleDefined'
<1>1. CASE rt_scheduler_lock_nest = 0
  <2>1. rt_current_thread' = to_thread(rt_thread_priority_table', rt_thread_ready_priority_group')
    BY <1>1 DEF rt_schedule
  <2>2. (Discipline /\ KernelInv /\ AdminReady /\ StaleOk /\ rt_scheduler_lock_nest = 0)'
    BY <1>1 DEF Discipline, Admins
  <2>3. to_thread(rt_thread_priority_table', rt_thread_ready_priority_group') # NoThread
    BY <2>2, FindsThreadNext DEF to_thread, highest_ready_priority, rt_list_isempty
  <2> QED BY <2>1, <2>3 DEF ScheduleDefined
<1>2. CASE rt_scheduler_lock_nest # 0
  BY <1>2 DEF rt_schedule, ScheduleDefined
<1> QED BY <1>1, <1>2

\* Stale bits stay covered in a step that makes none.
LEMMA StaleKept ==
    ASSUME StaleOk,
           \A p \in rt_thread_ready_priority_group' :
               rt_thread_priority_table'[p] = <<>> =>
                   p \in rt_thread_ready_priority_group /\ rt_thread_priority_table[p] = <<>>,
           UNCHANGED current_priority,
           \A c \in Threads : pc'[c] \in {"insert", "start_insert"} =>
               /\ pc[c] = pc'[c] /\ obj'[c] = obj[c]
               /\ rt_scheduler_lock_nest # 0 /\ rt_current_thread = c =>
                     rt_scheduler_lock_nest' # 0 /\ rt_current_thread' = c
    PROVE  StaleOk'
  BY DEF StaleOk

\* A step of the administrator, other than the first section of rt_thread_resume.
LEMMA AdminSwitch ==
    ASSUME Discipline, SwitchInv, KernelInv', NEW c \in Threads,
           \/ ResumeInsert(c) \/ DeleteTimer(c) \/ DeleteClose(c) \/ DeleteDefunct(c)
           \/ \E t \in Threads : ThreadStartup(c, t) \/ ThreadResume(c, t) \/ ThreadDelete(c, t)
           \/ \E t \in Threads, prio \in Priorities : ChangePriority(c, t, prio)
    PROVE  OwedOk' /\ StaleOk' /\ ScheduleDefined'
<1>1. /\ KernelInv /\ OwedOk /\ ScheduleDefined /\ CallersOk /\ ListsOk
      /\ pc \in [Threads -> Labels] /\ obj \in [Threads -> Threads]
  BY DEF SwitchInv, KernelInv, LinksOk, SchedulerInv, RestOK
<1>2. c = rt_current_thread /\ rt_current_thread' = c
  BY DEF ResumeInsert, DeleteTimer, DeleteClose, DeleteDefunct, ThreadStartup, ThreadResume, ThreadDelete,
         ChangePriority, At
<1>3. c \in Admins
  BY <1>1 DEF ResumeInsert, DeleteTimer, DeleteClose, DeleteDefunct, ThreadStartup, ThreadResume, ThreadDelete,
         ChangePriority, At, CallersOk, Admins
<1>4. \A d \in Threads : d # c =>
        pc[d] \notin {"resume", "insert", "start", "start_insert", "delete_timer", "delete_close", "delete_defunct"}
  BY <1>1, <1>3, OneAdmin
<1>5. /\ \A d \in Threads : d # c => pc'[d] = pc[d]
      /\ \/ pc'[c] \notin {"resume", "insert", "start_insert"}
         \/ \E t \in Threads : ThreadResume(c, t)
  <2>1. CASE ResumeInsert(c) \/ DeleteTimer(c) \/ DeleteClose(c) \/ DeleteDefunct(c)
    BY <1>1, <2>1 DEF ResumeInsert, DeleteTimer, DeleteClose, DeleteDefunct, Goto
  <2>2. CASE \E t \in Threads : ThreadStartup(c, t) \/ ThreadResume(c, t) \/ ThreadDelete(c, t)
    BY <1>1, <2>2 DEF ThreadStartup, ThreadResume, ThreadDelete, GotoFor
  <2>3. CASE \E t \in Threads, prio \in Priorities : ChangePriority(c, t, prio)
    BY <1>1, <2>3 DEF ChangePriority, calls, At
  <2> QED BY <2>1, <2>2, <2>3
<1>6. \A t \in Threads : ThreadResume(c, t) => pc'[c] = "resume" /\ Absent(obj[c])'
  <2> SUFFICES ASSUME NEW t \in Threads, ThreadResume(c, t) PROVE pc'[c] = "resume" /\ Absent(obj[c])'
    OBVIOUS
  <2>1. pc'[c] = "resume" /\ obj'[c] = t /\ stat[t] = "SUSPEND" /\ rt_thread_priority_table' = rt_thread_priority_table
    BY <1>1 DEF ThreadResume, GotoFor, lists
  <2>2. \A p \in Priorities : t \notin Members(p)
    BY <1>1, <2>1 DEF ListsOk
  <2> QED BY <2>1, <2>2 DEF Absent, Members
<1>7. \A d \in Threads : pc'[d] \notin {"insert", "start_insert"}
  BY <1>4, <1>5, <1>6
<1>8. \A d \in Threads : pc'[d] = "resume" => Absent(obj[d])'
  BY <1>4, <1>5, <1>6
<1>9. StaleOk'
  BY <1>7 DEF StaleOk
<1>10. OwedOk'
  BY <1>2, <1>3, <1>8 DEF OwedOk
<1> QED BY <1>1, <1>2, <1>9, <1>10 DEF ScheduleDefined

\* The first section of rt_thread_resume: the caller runs, so its list stands
\* above the bit that becomes stale, or the scheduler is locked.
LEMMA UnlinkSwitch ==
    ASSUME Discipline, SwitchInv, KernelInv', NEW c \in Threads, ResumeUnlink(c)
    PROVE  OwedOk' /\ StaleOk' /\ ScheduleDefined'
<1>1. /\ KernelInv /\ OwedOk /\ ScheduleDefined /\ CallersOk /\ ListsOk
      /\ pc \in [Threads -> Labels] /\ obj \in [Threads -> Threads]
  BY DEF SwitchInv, KernelInv, LinksOk, SchedulerInv, RestOK
<1>2. PICK t \in Threads : t = obj[c]
  BY <1>1
<1>3. /\ UNCHANGED <<current_priority, rt_scheduler_lock_nest, rt_current_thread, resched_owed, obj,
                     rt_thread_ready_priority_group>>
      /\ rt_thread_priority_table' = Unlinked(rt_thread_priority_table, t)
      /\ pc[c] \in {"resume", "start"} /\ c = rt_current_thread
      /\ \A d \in Threads : d # c => pc'[d] = pc[d]
      /\ pc'[c] = IF pc[c] = "resume" THEN "insert" ELSE "start_insert"
  BY <1>1, <1>2 DEF ResumeUnlink, Goto, At
<1>4. c \in Members(current_priority[c]) /\ c \in Admins /\ current_priority[c] \in Priorities
  BY <1>1, <1>3, AdminLinked DEF SwitchInv, KernelInv, SchedulerInv, RestOK
<1>5. \A d \in Threads : d # c =>
        pc[d] \notin {"resume", "insert", "start", "start_insert", "delete_timer", "delete_close", "delete_defunct"}
  BY <1>1, <1>4, OneAdmin
<1>6. OwedOk'
  <2>1. \A d \in Threads : pc'[d] # "resume"
    BY <1>3, <1>5
  <2> QED BY <1>3, <1>4, <2>1 DEF OwedOk
<1>7. StaleOk'
  <2> SUFFICES ASSUME current_priority[t] \in rt_thread_ready_priority_group,
                      rt_thread_priority_table'[current_priority[t]] = <<>>,
                      rt_scheduler_lock_nest = 0
               PROVE  current_priority[c] < current_priority[t]
    <3>1. \A d \in Threads : d # c => pc'[d] \notin {"insert", "start_insert"}
      BY <1>3, <1>5
    <3> QED BY <1>2, <1>3, <3>1 DEF StaleOk
  <2>1. PICK p \in Priorities : p = current_priority[t]
    BY DEF KernelInv, SwitchInv, SchedulerInv, RestOK
  <2>2. rt_thread_priority_table[p] # <<>>
    <3>1. \A d \in Threads : pc[d] \notin {"insert", "start_insert"}
      BY <1>3, <1>5
    <3> QED BY <1>1, <2>1, <3>1 DEF KernelInv, LinksOk, BitsNotStale
  <2>3. t \in Members(p) /\ ~Absent(t)
    <3>1. t \in Members(p)
      BY <1>3, <2>1, <2>2 DEF Members, Unlinked, rt_list_remove
    <3> QED BY <3>1 DEF Absent
  <2>4. ~resched_owed
    <3>1. pc[c] = "resume"
      <4>1. stat[t] = "READY"
        BY <1>1, <2>3 DEF ListsOk
      <4> QED BY <1>1, <1>2, <1>3, <4>1 DEF KernelInv, LinksOk, ObjectsOk
    <3> QED BY <1>1, <1>2, <2>3, <3>1 DEF OwedOk
  <2>5. c = to_thread(rt_thread_priority_table, rt_thread_ready_priority_group)
    BY <1>1, <1>3, <2>4 DEF KernelInv, RunningOk, ScheduleDefined
  <2>6. PICK h : h = highest_ready_priority(rt_thread_ready_priority_group)
    OBVIOUS
  <2>7. TableOK(rt_thread_priority_table, rt_thread_ready_priority_group)
    BY <1>1 DEF KernelInv, SchedulerInv
  <2>8. h <= p /\ h \in Priorities /\ c \in ToSet(rt_thread_priority_table[h])
    <3>1. to_thread(rt_thread_priority_table, rt_thread_ready_priority_group) # NoThread
      BY <2>5, ThreadAssumption
    <3> QED BY <2>1, <2>5, <2>6, <2>7, <3>1, HighestBit, ToThreadMember
  <2>9. h = current_priority[c]
    BY <1>1, <2>8 DEF ListsOk, Members
  <2>10. c # t
    BY <1>2, <1>3 DEF SwitchInv, AdminReady
  <2>11. p # h
    <3> SUFFICES ASSUME p = h PROVE FALSE
      OBVIOUS
    <3>1. rt_thread_priority_table \in [Priorities -> Seq(Threads)]
      BY <2>7 DEF TableOK
    <3>2. c \in ToSet(Unlinked(rt_thread_priority_table, t)[p])
      BY <2>8, <2>10, <3>1, UnlinkedTable
    <3>3. ToSet(<<>>) = {}
      BY DEF ToSet
    <3> QED BY <1>3, <2>1, <3>2, <3>3
  <2>12. p \in Nat /\ h \in Nat
    BY <2>8 DEF Priorities
  <2> QED BY <2>1, <2>8, <2>9, <2>11, <2>12
<1> QED BY <1>1, <1>3, <1>6, <1>7 DEF ScheduleDefined

\* rt_thread_yield empties no list.
LEMMA YieldEmptiesNone ==
    ASSUME KernelInv, NEW c \in Threads, Yields(c),
           rt_thread_priority_table' = YieldedTable(c), UNCHANGED rt_thread_ready_priority_group, SchedulerInv'
    PROVE  \A p \in rt_thread_ready_priority_group' :
               rt_thread_priority_table'[p] = <<>> =>
                   p \in rt_thread_ready_priority_group /\ rt_thread_priority_table[p] = <<>>
<1> SUFFICES ASSUME NEW p \in rt_thread_ready_priority_group', rt_thread_priority_table'[p] = <<>>
             PROVE  p \in rt_thread_ready_priority_group /\ rt_thread_priority_table[p] = <<>>
  OBVIOUS
<1>1. /\ p \in Priorities /\ rt_thread_priority_table[p] \in Seq(Threads)
      /\ LinkedOnce(rt_thread_priority_table[p])
  BY DEF KernelInv, SchedulerInv, TableOK, LinksOk, ListsOk
<1>2. ToSet(rt_thread_priority_table'[p]) = ToSet(rt_thread_priority_table[p])
  BY <1>1, YieldedMembers DEF KernelInv
<1>3. ToSet(<<>>) = {}
  BY DEF ToSet
<1> QED BY <1>1, <1>2, <1>3, EmptyList

\* A step of any thread, outside the calls of the administrator.
LEMMA ThreadSwitch ==
    ASSUME Discipline, SwitchInv, KernelInv', AdminReady', NEW c \in Threads,
           \/ Schedule(c) \/ SuspendRemove(c) \/ ThreadYield(c) \/ ThreadExit(c)
           \/ EnterCritical(c) \/ ExitCritical(c)
           \/ \E tick \in 0..MaxSleep : ThreadSleep(c, tick)
           \/ \E t \in Threads : ThreadSuspend(c, t)
    PROVE  OwedOk' /\ StaleOk' /\ ScheduleDefined'
<1>1. /\ KernelInv /\ OwedOk /\ StaleOk /\ ScheduleDefined /\ CallersOk /\ LinksOk /\ SchedulerInv /\ SchedulerInv'
      /\ pc \in [Threads -> Labels] /\ obj \in [Threads -> Threads]
  BY DEF SwitchInv, KernelInv, LinksOk, SchedulerInv, RestOK
<1>2. /\ c = rt_current_thread
      /\ current_priority' = current_priority
      /\ resched_owed' => resched_owed /\ rt_current_thread' = c
  <2>1. CASE Schedule(c)
    BY <2>1 DEF Schedule, At, rt_schedule
  <2>2. CASE ~Schedule(c)
    BY <2>2 DEF SuspendRemove, ThreadYield, ThreadExit, EnterCritical, ExitCritical, ThreadSleep, ThreadSuspend, At
  <2> QED BY <2>1, <2>2
<1>3. /\ \A d \in Threads : d # c => pc'[d] = pc[d] /\ obj'[d] = obj[d]
      /\ pc'[c] \notin {"resume", "insert", "start_insert"}
  <2>1. CASE Schedule(c) \/ SuspendRemove(c) \/ ThreadYield(c) \/ ThreadExit(c) \/ ExitCritical(c)
    BY <1>1, <2>1 DEF Schedule, SuspendRemove, ThreadYield, ThreadExit, ExitCritical, Goto
  <2>2. CASE EnterCritical(c)
    BY <2>2 DEF EnterCritical, calls, At
  <2>3. CASE \E tick \in 0..MaxSleep : ThreadSleep(c, tick)
    BY <1>1, <2>3 DEF ThreadSleep, Goto
  <2>4. CASE \E t \in Threads : ThreadSuspend(c, t)
    BY <1>1, <2>4 DEF ThreadSuspend, GotoFor
  <2> QED BY <2>1, <2>2, <2>3, <2>4
<1>4. OwedOk'
  <2> SUFFICES ASSUME resched_owed' PROVE OwedOk'
    BY DEF OwedOk
  <2>1. c \in Admins /\ rt_current_thread' = c
    BY <1>1, <1>2 DEF OwedOk
  <2>2. \A d \in Threads : d # c => pc[d] # "resume"
    BY <1>1, <2>1, OneAdmin
  <2>3. \A d \in Threads : pc'[d] # "resume"
    BY <1>3, <2>2
  <2> QED BY <2>1, <2>3 DEF OwedOk
<1>5. \A p \in rt_thread_ready_priority_group' :
          rt_thread_priority_table'[p] = <<>> =>
              p \in rt_thread_ready_priority_group /\ rt_thread_priority_table[p] = <<>>
  <2>1. CASE Schedule(c) \/ EnterCritical(c) \/ ExitCritical(c) \/ \E t \in Threads : ThreadSuspend(c, t)
    BY <2>1 DEF Schedule, EnterCritical, ExitCritical, ThreadSuspend, lists
  <2>2. CASE ThreadYield(c)
    BY <1>1, <2>2, YieldEmptiesNone DEF ThreadYield
  <2>3. ASSUME NEW t \in Threads, rt_schedule_remove_thread(t)
        PROVE  \A p \in rt_thread_ready_priority_group' :
                   rt_thread_priority_table'[p] = <<>> =>
                       p \in rt_thread_ready_priority_group /\ rt_thread_priority_table[p] = <<>>
    BY <1>1, <2>3, RemovedThread
  <2>4. CASE SuspendRemove(c)
    BY <1>1, <2>3, <2>4 DEF SuspendRemove
  <2>5. CASE ThreadExit(c) \/ \E tick \in 0..MaxSleep : ThreadSleep(c, tick)
    BY <2>3, <2>5 DEF ThreadExit, ThreadSleep
  <2> QED BY <2>1, <2>2, <2>4, <2>5
<1>6. StaleOk'
  <2>1. \A d \in Threads : pc'[d] \in {"insert", "start_insert"} =>
            /\ pc[d] = pc'[d] /\ obj'[d] = obj[d]
            /\ rt_scheduler_lock_nest # 0 /\ rt_current_thread = d =>
                  rt_scheduler_lock_nest' # 0 /\ rt_current_thread' = d
    BY <1>2, <1>3
  <2> QED BY <1>1, <1>2, <1>5, <2>1, StaleKept
<1>7. ScheduleDefined'
  <2>1. CASE Schedule(c)
    <3>1. /\ UNCHANGED rt_scheduler_lock_nest
          /\ rt_schedule(rt_thread_priority_table', rt_thread_ready_priority_group')
      BY <2>1 DEF Schedule, lists
    <3> QED BY <1>1, <1>6, <3>1, SwitchDefined
  <2>2. CASE ~Schedule(c)
    <3>1. rt_current_thread' = rt_current_thread
      BY <2>2 DEF SuspendRemove, ThreadYield, ThreadExit, EnterCritical, ExitCritical, ThreadSleep, ThreadSuspend
    <3> QED BY <1>1, <3>1 DEF ScheduleDefined
  <2> QED BY <2>1, <2>2
<1> QED BY <1>4, <1>6, <1>7

\* The tick.
LEMMA TickSwitch ==
    ASSUME Discipline, SwitchInv, KernelInv', AdminReady', TickIncrease
    PROVE  OwedOk' /\ StaleOk' /\ ScheduleDefined'
<1>1. /\ KernelInv /\ OwedOk /\ StaleOk /\ ScheduleDefined /\ SchedulerInv /\ SchedulerInv'
  BY DEF SwitchInv, KernelInv
<1>2. PICK c \in Threads : c = rt_current_thread
  BY <1>1 DEF ScheduleDefined, SchedulerInv, RestOK
<1>3. /\ UNCHANGED <<current_priority, rt_thread_ready_priority_group, rt_scheduler_lock_nest, pc, obj>>
      /\ \/ UNCHANGED <<rt_thread_priority_table, rt_current_thread, resched_owed>>
         \/ /\ Yields(c) /\ rt_thread_priority_table' = YieldedTable(c)
            /\ rt_schedule(rt_thread_priority_table', rt_thread_ready_priority_group')
  BY <1>2 DEF TickIncrease, calls
<1>4. \A p \in rt_thread_ready_priority_group' :
          rt_thread_priority_table'[p] = <<>> =>
              p \in rt_thread_ready_priority_group /\ rt_thread_priority_table[p] = <<>>
  <2>1. CASE UNCHANGED rt_thread_priority_table
    BY <1>3, <2>1
  <2>2. CASE Yields(c) /\ rt_thread_priority_table' = YieldedTable(c)
    BY <1>1, <1>3, <2>2, YieldEmptiesNone
  <2> QED BY <1>3, <2>1, <2>2
<1>5. StaleOk'
  <2>1. \A d \in Threads : pc'[d] \in {"insert", "start_insert"} =>
            /\ pc[d] = pc'[d] /\ obj'[d] = obj[d]
            /\ rt_scheduler_lock_nest # 0 /\ rt_current_thread = d =>
                  rt_scheduler_lock_nest' # 0 /\ rt_current_thread' = d
    BY <1>3 DEF rt_schedule
  <2> QED BY <1>1, <1>3, <1>4, <2>1, StaleKept
<1>6. CASE UNCHANGED <<rt_thread_priority_table, rt_current_thread, resched_owed>>
  <2>1. \A x : Absent(x)' <=> Absent(x)
    BY <1>6 DEF Absent, Members
  <2>2. OwedOk'
    BY <1>1, <1>3, <1>6, <2>1 DEF OwedOk
  <2>3. ScheduleDefined'
    BY <1>1, <1>6 DEF ScheduleDefined
  <2> QED BY <1>5, <2>2, <2>3
<1>7. CASE rt_schedule(rt_thread_priority_table', rt_thread_ready_priority_group')
  <2>1. OwedOk'
    BY <1>1, <1>3, <1>7 DEF OwedOk, rt_schedule
  <2>2. ScheduleDefined'
    BY <1>1, <1>3, <1>5, <1>7, SwitchDefined
  <2> QED BY <1>5, <2>1, <2>2
<1> QED BY <1>3, <1>6, <1>7

\* A timeout.
LEMMA TimeoutSwitch ==
    ASSUME Discipline, SwitchInv, KernelInv', AdminReady', NEW t \in Threads, ThreadTimeout(t)
    PROVE  OwedOk' /\ StaleOk' /\ ScheduleDefined'
<1>1. /\ KernelInv /\ OwedOk /\ StaleOk /\ ScheduleDefined /\ ListsOk
  BY DEF SwitchInv, KernelInv, LinksOk
<1>2. PICK prio \in Priorities : prio = current_priority[t]
  BY DEF SwitchInv, KernelInv, SchedulerInv, RestOK
<1>3. UNCHANGED <<current_priority, rt_scheduler_lock_nest, pc, obj>> /\ t \in timer_list
  BY DEF ThreadTimeout, calls, Expired
<1>4. Unlinked(rt_thread_priority_table, t) = rt_thread_priority_table
  <2>1. \A p \in Priorities : t \notin Members(p)
    BY <1>1, <1>3 DEF ListsOk, TimeoutAssertion
  <2>2. \A p \in Priorities : rt_list_remove(rt_thread_priority_table[p], t) = rt_thread_priority_table[p]
    BY <2>1 DEF Members, rt_list_remove
  <2>3. rt_thread_priority_table \in [Priorities -> Seq(Threads)]
    BY <1>1 DEF KernelInv, SchedulerInv, TableOK
  <2> QED BY <2>2, <2>3 DEF Unlinked
<1>5. /\ rt_thread_priority_table' = [rt_thread_priority_table EXCEPT ![prio] = Append(@, t)]
      /\ rt_thread_ready_priority_group' = rt_thread_ready_priority_group \cup {prio}
      /\ rt_schedule(rt_thread_priority_table', rt_thread_ready_priority_group')
  BY <1>2, <1>4 DEF ThreadTimeout, Insert, rt_list_insert_before
<1>6. \A p \in rt_thread_ready_priority_group' :
          rt_thread_priority_table'[p] = <<>> =>
              p \in rt_thread_ready_priority_group /\ rt_thread_priority_table[p] = <<>>
  <2> SUFFICES ASSUME NEW p \in rt_thread_ready_priority_group', rt_thread_priority_table'[p] = <<>>
               PROVE  p \in rt_thread_ready_priority_group /\ rt_thread_priority_table[p] = <<>>
    OBVIOUS
  <2>1. /\ rt_thread_priority_table \in [Priorities -> Seq(Threads)]
        /\ p \in Priorities
    BY <1>1, <1>5 DEF KernelInv, SchedulerInv, TableOK
  <2>2. p # prio
    <3>1. Append(rt_thread_priority_table[prio], t) # <<>>
      BY <2>1
    <3> QED BY <1>5, <2>1, <3>1
  <2> QED BY <1>5, <2>1, <2>2
<1>7. StaleOk'
  <2>1. \A d \in Threads : pc'[d] \in {"insert", "start_insert"} =>
            /\ pc[d] = pc'[d] /\ obj'[d] = obj[d]
            /\ rt_scheduler_lock_nest # 0 /\ rt_current_thread = d =>
                  rt_scheduler_lock_nest' # 0 /\ rt_current_thread' = d
    BY <1>3, <1>5 DEF rt_schedule
  <2> QED BY <1>1, <1>3, <1>6, <2>1, StaleKept
<1>8. OwedOk'
  BY <1>1, <1>3, <1>5 DEF OwedOk, rt_schedule
<1>9. ScheduleDefined'
  BY <1>1, <1>3, <1>5, <1>7, SwitchDefined
<1> QED BY <1>7, <1>8, <1>9

\* The reaper, the end of the tick, and a step of another component.
LEMMA OtherSwitch ==
    ASSUME SwitchInv, IdleExecute \/ TickEnd \/ UNCHANGED vars
    PROVE  OwedOk' /\ StaleOk' /\ ScheduleDefined'
<1>1. UNCHANGED <<rt_thread_priority_table, rt_thread_ready_priority_group, current_priority,
                  rt_scheduler_lock_nest, pc, obj, rt_current_thread, resched_owed>>
  BY DEF IdleExecute, TickEnd, vars, lists, calls
<1>2. \A x : Absent(x)' <=> Absent(x)
  BY <1>1 DEF Absent, Members
<1> QED BY <1>1, <1>2 DEF SwitchInv, OwedOk, StaleOk, ScheduleDefined

LEMMA SwitchStep == Discipline /\ AdminNotSuspended => (SwitchInv /\ [Next]_vars => SwitchInv')
<1> SUFFICES ASSUME Discipline, AdminNotSuspended, SwitchInv, [Next]_vars PROVE SwitchInv'
  OBVIOUS
<1>1. KernelInv'
  BY KernelStep DEF SwitchInv
<1>2. AdminReady'
  BY AdminReadyStep DEF SwitchInv
<1>3. OwedOk' /\ StaleOk' /\ ScheduleDefined'
  <2>1. ASSUME NEW c \in Threads, ThreadStep(c) PROVE OwedOk' /\ StaleOk' /\ ScheduleDefined'
    BY <1>1, <1>2, <2>1, AdminSwitch, UnlinkSwitch, ThreadSwitch DEF ThreadStep
  <2>2. CASE TickIncrease
    BY <1>1, <1>2, <2>2, TickSwitch
  <2>3. ASSUME NEW t \in Threads, ThreadTimeout(t) PROVE OwedOk' /\ StaleOk' /\ ScheduleDefined'
    BY <1>1, <1>2, <2>3, TimeoutSwitch
  <2>4. CASE IdleExecute \/ TickEnd \/ UNCHANGED vars
    BY <2>4, OtherSwitch
  <2> QED BY <2>1, <2>2, <2>3, <2>4 DEF Next, Tick
<1> QED BY <1>1, <1>2, <1>3 DEF SwitchInv

\* If moreover nobody suspends the administrator, the kernel never gets into a
\* state its code says nothing about: no node is linked twice and rt_schedule
\* never takes a list head for a thread.
THEOREM KernelStaysDefined == Discipline /\ AdminNotSuspended => (Spec => []Defined)
<1> SUFFICES ASSUME Discipline, AdminNotSuspended PROVE Spec => []Defined
  OBVIOUS
<1>1. Init => SwitchInv
  <2> SUFFICES ASSUME Init PROVE SwitchInv
    OBVIOUS
  <2>1. KernelInv
    BY KernelInit
  <2>2. /\ \A c \in Threads : pc[c] = "run"
        /\ ~resched_owed /\ rt_scheduler_lock_nest = 0
        /\ rt_current_thread = to_thread(rt_thread_priority_table, rt_thread_ready_priority_group)
    BY DEF Init
  <2>3. AdminReady /\ OwedOk /\ StaleOk
    BY <2>2 DEF AdminReady, OwedOk, StaleOk
  <2>4. ScheduleDefined
    BY <2>1, <2>2, <2>3, FindsThread DEF ScheduleDefined
  <2> QED BY <2>1, <2>3, <2>4 DEF SwitchInv
<1>2. SwitchInv /\ [Next]_vars => SwitchInv'
  BY SwitchStep
<1>3. SwitchInv => ScheduleDefined
  BY DEF SwitchInv
<1>4. ListsMatchStat /\ ScheduleDefined => Defined
  BY DEF ListsMatchStat, ScheduleDefined, Defined
<1> QED BY <1>1, <1>2, <1>3, <1>4, ListsAlwaysMatchStat, PTL DEF Spec

=============================================================================
