------------------------------ MODULE Scheduler ------------------------------
(***************************************************************************)
(* The thread scheduler of the kernel: scheduler.c, thread.c, the tick of  *)
(* clock.c with the expiry loop of timer.c, and the reaper of idle.c.      *)
(*                                                                         *)
(* The processor has one core.  A section between rt_hw_interrupt_disable  *)
(* and rt_hw_interrupt_enable is one atomic step; between two sections of  *)
(* one call an interrupt may come, and the tick may then give the          *)
(* processor to another thread.  pc[t] is where thread t stands inside a   *)
(* kernel call, obj[t] the thread that call is about.  rt_schedule only    *)
(* requests the switch (PendSV), which happens as soon as interrupts are   *)
(* enabled, so the thread that takes the next step is rt_current_thread.   *)
(*                                                                         *)
(* Which calls the application makes is a parameter: the sets below name   *)
(* the threads that make each call.                                        *)
(***************************************************************************)
EXTENDS Naturals, FiniteSets, RtList

CONSTANTS Threads,        \* every thread of the system, idle included
          NoThread,       \* no thread: a list head read as if it were one
          Idle,           \* the thread of idle.c
          PriorityMax,    \* RT_THREAD_PRIORITY_MAX
          InitPriority,   \* init_priority of each thread
          InitTick,       \* init_tick of each thread: its time slice
          Dynamic,        \* threads made by rt_thread_create
          InitTable,      \* the ready table that the calls of rt_thread_startup made
                          \* before rt_system_scheduler_start leave
          MaxSleep,       \* bound on the ticks of a sleep
          MaxNest,        \* bound on the nesting of rt_enter_critical
          Starters, Yielders, Sleepers, Suspenders, Suspendable, Resumers,
          Lockers, Exiters, Deleters, Deletable, PriorityChangers

Priorities == 0 .. (PriorityMax - 1)

ASSUME ThreadAssumption ==
    /\ Idle \in Threads /\ NoThread \notin Threads
    /\ PriorityMax \in Nat \ {0}
    /\ InitPriority \in [Threads -> Priorities]
    /\ InitPriority[Idle] = PriorityMax - 1
    /\ InitTick \in [Threads -> Nat \ {0}]
    /\ MaxSleep \in Nat
    /\ MaxNest \in Nat

ASSUME StartAssumption ==
    /\ InitTable \in [Priorities -> Seq(Threads)]
    /\ \A p \in Priorities : /\ LinkedOnce(InitTable[p])
                             /\ \A t \in ToSet(InitTable[p]) : InitPriority[t] = p
    /\ Idle \in ToSet(InitTable[PriorityMax - 1])

\* idle.c makes none of these calls, and nobody makes them on idle.
ASSUME CallAssumption ==
    Idle \notin UNION {Dynamic, Starters, Yielders, Sleepers, Suspenders, Suspendable, Resumers,
                       Lockers, Exiters, Deleters, Deletable, PriorityChangers}

VARIABLES
    stat,                            \* thread->stat
    current_priority,                \* thread->current_priority (number_mask follows it)
    remaining_tick,                  \* thread->remaining_tick
    rt_thread_priority_table,        \* ready threads, one list per priority
    rt_thread_ready_priority_group,  \* bitmap: the priorities whose bit is set
    rt_current_thread,
    rt_scheduler_lock_nest,
    timer_list,                      \* threads whose thread_timer is linked
    ticks_left,                      \* timeout_tick - rt_tick of such a timer
    rt_thread_defunct,
    freed,                           \* threads whose stack and object idle gave back
    rt_interrupt_nest,               \* 1 while the tick interrupt runs
    pc, obj,                         \* progress of each thread inside a kernel call
    resched_owed                     \* a call made a thread runnable and left rt_schedule to its caller

lists == <<rt_thread_priority_table, rt_thread_ready_priority_group, rt_thread_defunct>>
timers == <<timer_list, ticks_left>>
calls == <<pc, obj>>
vars == <<stat, current_priority, remaining_tick, lists, rt_current_thread,
          rt_scheduler_lock_nest, timers, freed, rt_interrupt_nest, calls, resched_owed>>

Stats == {"INIT", "READY", "SUSPEND", "CLOSE"}

\* Where a thread may stand inside a call, named for the section that comes next.
Labels == {"run", "schedule", "suspend", "resume", "insert", "start", "start_insert",
           "delete_timer", "delete_close", "delete_defunct"}

-----------------------------------------------------------------------------
\* scheduler.c: the ready table

\* rt_list_remove(&thread->tlist), whichever list the thread is linked into.
Unlinked(table, t) == [p \in Priorities |-> rt_list_remove(table[p], t)]

\* Mutant of Insert: the thread goes back to the list of its initial priority.
Insert_InitPriority(table, group, t, prio) ==
    /\ rt_thread_priority_table' =
           [table EXCEPT ![InitPriority[t]] = rt_list_insert_before(@, t)]
    /\ rt_thread_ready_priority_group' = group \cup {InitPriority[t]}

\* rt_schedule_insert_thread, the lists and the bitmap.
Insert(table, group, t, prio) ==
    /\ rt_thread_priority_table' = [table EXCEPT ![prio] = rt_list_insert_before(@, t)]
    /\ rt_thread_ready_priority_group' = group \cup {prio}

\* Mutant of rt_schedule_remove_thread: the bit goes with any thread.
rt_schedule_remove_thread_ClearsBit(t) ==
    /\ rt_thread_priority_table' = Unlinked(rt_thread_priority_table, t)
    /\ rt_thread_ready_priority_group' = rt_thread_ready_priority_group \ {current_priority[t]}

\* Mutant of rt_schedule_remove_thread: the bit stays.
rt_schedule_remove_thread_KeepsBit(t) ==
    /\ rt_thread_priority_table' = Unlinked(rt_thread_priority_table, t)
    /\ UNCHANGED rt_thread_ready_priority_group

\* rt_schedule_remove_thread: the bit goes with the last thread of the list.
rt_schedule_remove_thread(t) ==
    LET table == Unlinked(rt_thread_priority_table, t)
        prio  == current_priority[t]
    IN  /\ rt_thread_priority_table' = table
        /\ rt_thread_ready_priority_group' =
               IF rt_list_isempty(table[prio])
               THEN rt_thread_ready_priority_group \ {prio}
               ELSE rt_thread_ready_priority_group

\* The thread rt_schedule takes: the first of the list that the lowest bit set
\* in the bitmap stands for (rt_lowest_bitmap).  The list is not looked at: the
\* first entry of an empty one is the list head itself, not a thread.
highest_ready_priority(group) == CHOOSE p \in group : \A q \in group : p <= q

to_thread(table, group) ==
    LET list == table[highest_ready_priority(group)]
    IN  IF rt_list_isempty(list) THEN NoThread ELSE Head(list)

\* Mutant of rt_schedule: no switch is requested from an interrupt.
rt_schedule_NotInInterrupt(table, group) ==
    IF rt_scheduler_lock_nest = 0 /\ rt_interrupt_nest = 0
    THEN rt_current_thread' = to_thread(table, group) /\ resched_owed' = FALSE
    ELSE UNCHANGED <<rt_current_thread, resched_owed>>

\* rt_schedule over the ready table of the step it is called from.
rt_schedule(table, group) ==
    IF rt_scheduler_lock_nest = 0
    THEN /\ rt_current_thread' = to_thread(table, group)
         /\ resched_owed' = FALSE
    ELSE UNCHANGED <<rt_current_thread, resched_owed>>

-----------------------------------------------------------------------------
\* main.c: rt_application_init and rt_thread_idle_init start threads, which no
\* rt_schedule follows, then rt_system_scheduler_start switches to the first
\* thread of the highest list.
Init ==
    /\ stat = [t \in Threads |-> IF t \in ToSet(InitTable[InitPriority[t]]) THEN "READY" ELSE "INIT"]
    /\ current_priority = InitPriority
    /\ remaining_tick = InitTick
    /\ rt_thread_priority_table = InitTable
    /\ rt_thread_ready_priority_group = {p \in Priorities : InitTable[p] # <<>>}
    /\ rt_current_thread = to_thread(rt_thread_priority_table, rt_thread_ready_priority_group)
    /\ rt_scheduler_lock_nest = 0
    /\ timer_list = {}
    /\ ticks_left = [t \in Threads |-> 0]
    /\ rt_thread_defunct = <<>>
    /\ freed = {}
    /\ rt_interrupt_nest = 0
    /\ pc = [t \in Threads |-> "run"]
    /\ obj = [t \in Threads |-> t]
    /\ resched_owed = FALSE

-----------------------------------------------------------------------------
\* No node is linked into two lists, or twice into one.
ListsIntact ==
    /\ \A p \in Priorities : LinkedOnce(rt_thread_priority_table[p])
    /\ \A p, q \in Priorities :
           p # q => ToSet(rt_thread_priority_table[p]) \cap ToSet(rt_thread_priority_table[q]) = {}
    /\ LinkedOnce(rt_thread_defunct)
    /\ \A p \in Priorities :
           ToSet(rt_thread_priority_table[p]) \cap ToSet(rt_thread_defunct) = {}

\* A node linked twice leaves the pointers of both lists wrong, and a list head
\* run as a thread has no stack: what the code does next is undefined, so no
\* step follows.
Defined == ListsIntact /\ rt_current_thread # NoThread

\* Thread c executes and stands at the given place of its code.
At(c, label) ==
    /\ rt_interrupt_nest = 0
    /\ c = rt_current_thread
    /\ pc[c] = label
    /\ Defined

Goto(c, label) == pc' = [pc EXCEPT ![c] = label] /\ UNCHANGED obj

GotoFor(c, label, t) == pc' = [pc EXCEPT ![c] = label] /\ obj' = [obj EXCEPT ![c] = t]

\* The call of rt_schedule that ends a blocking call, or that the application
\* makes itself.
Schedule(c) ==
    /\ At(c, "schedule") \/ (At(c, "run") /\ resched_owed /\ c # Idle)
    /\ rt_schedule(rt_thread_priority_table, rt_thread_ready_priority_group)
    /\ Goto(c, "run")
    /\ UNCHANGED <<stat, current_priority, remaining_tick, lists, rt_scheduler_lock_nest,
                   timers, freed, rt_interrupt_nest>>

-----------------------------------------------------------------------------
\* thread.c

\* Mutant of ThreadStartup: stat is not looked at.
ThreadStartup_AnyStat(c, t) ==
    /\ At(c, "run") /\ c \in Starters /\ t # Idle /\ t \notin freed /\ stat[t] \in {"INIT", "CLOSE"}
    /\ current_priority' = [current_priority EXCEPT ![t] = InitPriority[t]]
    /\ stat' = [stat EXCEPT ![t] = "SUSPEND"]
    /\ GotoFor(c, "start", t)
    /\ UNCHANGED <<remaining_tick, lists, rt_current_thread, rt_scheduler_lock_nest,
                   timers, freed, rt_interrupt_nest, resched_owed>>

\* rt_thread_startup up to its call of rt_thread_resume.
ThreadStartup(c, t) ==
    /\ At(c, "run") /\ c \in Starters /\ stat[t] = "INIT"
    /\ current_priority' = [current_priority EXCEPT ![t] = InitPriority[t]]
    /\ stat' = [stat EXCEPT ![t] = "SUSPEND"]
    /\ GotoFor(c, "start", t)
    /\ UNCHANGED <<remaining_tick, lists, rt_current_thread, rt_scheduler_lock_nest,
                   timers, freed, rt_interrupt_nest, resched_owed>>

\* rt_thread_resume reads stat before it disables interrupts.
ThreadResume(c, t) ==
    /\ At(c, "run") /\ c \in Resumers /\ t # Idle /\ t \notin freed
    /\ stat[t] = "SUSPEND"
    /\ GotoFor(c, "resume", t)
    /\ UNCHANGED <<stat, current_priority, remaining_tick, lists, rt_current_thread,
                   rt_scheduler_lock_nest, timers, freed, rt_interrupt_nest, resched_owed>>

\* Mutant of ResumedTimers: the timer of the resumed thread keeps running.
ResumedTimers_Kept(t) == timer_list

\* rt_thread_resume takes the thread's timer out of the timer list.
ResumedTimers(t) == timer_list \ {t}

\* First section of rt_thread_resume: out of every list, the timer included.
ResumeUnlink(c) ==
    /\ At(c, "resume") \/ At(c, "start")
    /\ rt_thread_priority_table' = Unlinked(rt_thread_priority_table, obj[c])
    /\ rt_thread_defunct' = rt_list_remove(rt_thread_defunct, obj[c])
    /\ timer_list' = ResumedTimers(obj[c])
    /\ Goto(c, IF pc[c] = "resume" THEN "insert" ELSE "start_insert")
    /\ UNCHANGED <<stat, current_priority, remaining_tick, rt_thread_ready_priority_group,
                   rt_current_thread, rt_scheduler_lock_nest, ticks_left, freed,
                   rt_interrupt_nest, resched_owed>>

\* Second section: rt_schedule_insert_thread.  rt_thread_resume leaves
\* rt_schedule to its caller; rt_thread_startup calls it.
ResumeInsert(c) ==
    /\ At(c, "insert") \/ At(c, "start_insert")
    /\ stat' = [stat EXCEPT ![obj[c]] = "READY"]
    /\ Insert(rt_thread_priority_table, rt_thread_ready_priority_group,
              obj[c], current_priority[obj[c]])
    /\ Goto(c, IF pc[c] = "insert" THEN "run" ELSE "schedule")
    /\ resched_owed' = TRUE
    /\ UNCHANGED <<current_priority, remaining_tick, rt_current_thread, rt_thread_defunct,
                   rt_scheduler_lock_nest, timers, freed, rt_interrupt_nest>>

\* rt_thread_suspend reads stat before it disables interrupts.
ThreadSuspend(c, t) ==
    /\ At(c, "run") /\ c \in Suspenders /\ t \in Suspendable
    /\ t = c => rt_scheduler_lock_nest = 0
    /\ stat[t] = "READY"
    /\ GotoFor(c, "suspend", t)
    /\ UNCHANGED <<stat, current_priority, remaining_tick, lists, rt_current_thread,
                   rt_scheduler_lock_nest, timers, freed, rt_interrupt_nest, resched_owed>>

\* The section of rt_thread_suspend; a thread that suspends itself then calls
\* rt_schedule, as the function's comment requires.
SuspendRemove(c) ==
    /\ At(c, "suspend")
    /\ stat' = [stat EXCEPT ![obj[c]] = "SUSPEND"]
    /\ rt_schedule_remove_thread(obj[c])
    /\ rt_thread_defunct' = rt_list_remove(rt_thread_defunct, obj[c])
    /\ Goto(c, IF obj[c] = c THEN "schedule" ELSE "run")
    /\ UNCHANGED <<current_priority, remaining_tick, rt_current_thread,
                   rt_scheduler_lock_nest, timers, freed, rt_interrupt_nest, resched_owed>>

\* Mutant of Yields: the test for company is off by one.
Yields_OffByOne(c) ==
    /\ stat[c] = "READY"
    /\ c \in ToSet(rt_thread_priority_table[current_priority[c]])
    /\ Len(rt_thread_priority_table[current_priority[c]]) > 2

\* rt_thread_yield, called by a thread or by the tick: only a ready thread with
\* company in its list (tlist.next # tlist.prev) moves to the tail.
Yields(c) ==
    /\ stat[c] = "READY"
    /\ c \in ToSet(rt_thread_priority_table[current_priority[c]])
    /\ Len(rt_thread_priority_table[current_priority[c]]) > 1

\* Where rt_thread_yield puts it: at the tail of the list of its priority.
YieldedTable(c) ==
    [rt_thread_priority_table EXCEPT
        ![current_priority[c]] = rt_list_insert_before(rt_list_remove(@, c), c)]

\* rt_thread_yield by the running thread: its section, then rt_schedule.
ThreadYield(c) ==
    /\ At(c, "run") /\ c \in Yielders /\ Yields(c)
    /\ rt_thread_priority_table' = YieldedTable(c)
    /\ Goto(c, "schedule")
    /\ UNCHANGED <<stat, current_priority, remaining_tick, rt_thread_ready_priority_group,
                   rt_current_thread, rt_thread_defunct, rt_scheduler_lock_nest, timers,
                   freed, rt_interrupt_nest, resched_owed>>

\* rt_thread_sleep: suspended and its timer started in one section.
ThreadSleep(c, tick) ==
    /\ At(c, "run") /\ c \in Sleepers /\ rt_scheduler_lock_nest = 0
    /\ stat[c] = "READY"
    /\ stat' = [stat EXCEPT ![c] = "SUSPEND"]
    /\ rt_schedule_remove_thread(c)
    /\ timer_list' = timer_list \cup {c}
    /\ ticks_left' = [ticks_left EXCEPT ![c] = tick]
    /\ Goto(c, "schedule")
    /\ UNCHANGED <<current_priority, remaining_tick, rt_current_thread, rt_thread_defunct,
                   rt_scheduler_lock_nest, freed, rt_interrupt_nest, resched_owed>>

\* rt_thread_exit: one section, then rt_schedule.
ThreadExit(c) ==
    /\ At(c, "run") /\ c \in Exiters /\ rt_scheduler_lock_nest = 0
    /\ stat' = [stat EXCEPT ![c] = "CLOSE"]
    /\ rt_schedule_remove_thread(c)
    /\ timer_list' = timer_list \ {c}
    /\ rt_thread_defunct' = IF c \in Dynamic THEN rt_list_insert_after(rt_thread_defunct, c)
                            ELSE rt_thread_defunct
    /\ Goto(c, "schedule")
    /\ UNCHANGED <<current_priority, remaining_tick, rt_current_thread,
                   rt_scheduler_lock_nest, ticks_left, freed, rt_interrupt_nest, resched_owed>>

\* rt_thread_delete (of a created thread) and rt_thread_detach (of a static
\* one, without a cleanup function): four sections.
ThreadDelete(c, t) ==
    /\ At(c, "run") /\ c \in Deleters /\ t \in Deletable
    /\ t = c => rt_scheduler_lock_nest = 0
    /\ stat[t] # "CLOSE"
    /\ rt_schedule_remove_thread(t)
    /\ GotoFor(c, "delete_timer", t)
    /\ UNCHANGED <<stat, current_priority, remaining_tick, rt_current_thread,
                   rt_thread_defunct, rt_scheduler_lock_nest, timers, freed,
                   rt_interrupt_nest, resched_owed>>

\* rt_timer_detach(&thread->thread_timer)
DeleteTimer(c) ==
    /\ At(c, "delete_timer")
    /\ timer_list' = timer_list \ {obj[c]}
    /\ Goto(c, "delete_close")
    /\ UNCHANGED <<stat, current_priority, remaining_tick, lists, rt_current_thread,
                   rt_scheduler_lock_nest, ticks_left, freed, rt_interrupt_nest, resched_owed>>

\* thread->stat = RT_THREAD_CLOSE
DeleteClose(c) ==
    /\ At(c, "delete_close")
    /\ stat' = [stat EXCEPT ![obj[c]] = "CLOSE"]
    /\ Goto(c, "delete_defunct")
    /\ UNCHANGED <<current_priority, remaining_tick, lists, rt_current_thread,
                   rt_scheduler_lock_nest, timers, freed, rt_interrupt_nest, resched_owed>>

\* The insertion into rt_thread_defunct; a thread that deleted itself then
\* calls rt_schedule.
DeleteDefunct(c) ==
    /\ At(c, "delete_defunct")
    /\ rt_thread_defunct' = IF obj[c] \in Dynamic
                            THEN rt_list_insert_after(rt_thread_defunct, obj[c])
                            ELSE rt_thread_defunct
    /\ Goto(c, IF obj[c] = c THEN "schedule" ELSE "run")
    /\ UNCHANGED <<stat, current_priority, remaining_tick, rt_thread_priority_table,
                   rt_thread_ready_priority_group, rt_current_thread,
                   rt_scheduler_lock_nest, timers, freed, rt_interrupt_nest, resched_owed>>

\* rt_thread_control(RT_THREAD_CTRL_CHANGE_PRIORITY): a ready thread changes
\* list; rt_schedule is left to the caller.
ChangePriority(c, t, prio) ==
    /\ At(c, "run") /\ c \in PriorityChangers /\ t # Idle /\ t \notin freed
    /\ current_priority' = [current_priority EXCEPT ![t] = prio]
    /\ IF stat[t] = "READY"
       THEN LET table == Unlinked(rt_thread_priority_table, t)
                old   == current_priority[t]
            IN  /\ Insert(table,
                          IF rt_list_isempty(table[old])
                          THEN rt_thread_ready_priority_group \ {old}
                          ELSE rt_thread_ready_priority_group,
                          t, prio)
                /\ rt_thread_defunct' = rt_list_remove(rt_thread_defunct, t)
                /\ resched_owed' = TRUE
       ELSE UNCHANGED <<lists, resched_owed>>
    /\ UNCHANGED <<stat, remaining_tick, rt_current_thread, rt_scheduler_lock_nest,
                   timers, freed, rt_interrupt_nest, calls>>

-----------------------------------------------------------------------------
\* scheduler.c: the scheduler lock

EnterCritical(c) ==
    /\ At(c, "run") /\ c \in Lockers /\ rt_scheduler_lock_nest < MaxNest
    /\ rt_scheduler_lock_nest' = rt_scheduler_lock_nest + 1
    /\ UNCHANGED <<stat, current_priority, remaining_tick, lists, rt_current_thread,
                   timers, freed, rt_interrupt_nest, calls, resched_owed>>

\* rt_exit_critical: the outermost one calls rt_schedule.
ExitCritical(c) ==
    /\ At(c, "run") /\ rt_scheduler_lock_nest > 0
    /\ rt_scheduler_lock_nest' = rt_scheduler_lock_nest - 1
    /\ Goto(c, IF rt_scheduler_lock_nest - 1 = 0 THEN "schedule" ELSE "run")
    /\ UNCHANGED <<stat, current_priority, remaining_tick, lists, rt_current_thread,
                   timers, freed, rt_interrupt_nest, resched_owed>>

-----------------------------------------------------------------------------
\* Mutant of IdleExecute: the thread is freed and left in the defunct list.
IdleExecute_NotUnlinked ==
    /\ At(Idle, "run") /\ ~rt_list_isempty(rt_thread_defunct)
    /\ freed' = freed \cup {Head(rt_thread_defunct)}
    /\ UNCHANGED <<stat, current_priority, remaining_tick, lists, rt_current_thread,
                   rt_scheduler_lock_nest, timers, rt_interrupt_nest, calls, resched_owed>>

\* idle.c: rt_thread_idle_excute takes one defunct thread and frees it.
IdleExecute ==
    /\ At(Idle, "run") /\ ~rt_list_isempty(rt_thread_defunct)
    /\ rt_thread_defunct' = Tail(rt_thread_defunct)
    /\ freed' = freed \cup {Head(rt_thread_defunct)}
    /\ UNCHANGED <<stat, current_priority, remaining_tick, rt_thread_priority_table,
                   rt_thread_ready_priority_group, rt_current_thread, rt_scheduler_lock_nest,
                   timers, rt_interrupt_nest, calls, resched_owed>>

-----------------------------------------------------------------------------
\* clock.c and timer.c, called by the tick interrupt

\* Mutant of SliceAfterTick: the used up slice is not renewed.
SliceAfterTick_NotRenewed(c) == remaining_tick[c] - 1

\* remaining_tick of the running thread after a tick: a used up slice is renewed.
SliceAfterTick(c) ==
    IF remaining_tick[c] - 1 = 0 THEN InitTick[c] ELSE remaining_tick[c] - 1

\* rt_interrupt_enter and rt_tick_increase up to rt_timer_check: the time slice
\* of the running thread, and one tick less for every started timer.
TickIncrease ==
    /\ rt_interrupt_nest = 0 /\ Defined
    /\ rt_interrupt_nest' = 1
    /\ ticks_left' = [t \in Threads |-> IF t \in timer_list /\ ticks_left[t] > 0
                                        THEN ticks_left[t] - 1 ELSE ticks_left[t]]
    /\ LET c == rt_current_thread
       IN  /\ remaining_tick' = [remaining_tick EXCEPT ![c] = SliceAfterTick(c)]
           /\ IF remaining_tick[c] = 1 /\ Yields(c)
              THEN /\ rt_thread_priority_table' = YieldedTable(c)
                   /\ rt_schedule(YieldedTable(c), rt_thread_ready_priority_group)
              ELSE UNCHANGED <<rt_thread_priority_table, rt_current_thread, resched_owed>>
    /\ UNCHANGED <<stat, current_priority, rt_thread_ready_priority_group, rt_thread_defunct,
                   rt_scheduler_lock_nest, timer_list, freed, calls>>

\* The test of rt_timer_check on the timer of t.
Expired(t) == t \in timer_list /\ ticks_left[t] = 0

\* One turn of the loop of rt_timer_check: an expired thread timer is removed
\* and rt_thread_timeout runs.  Timers that expire at one tick are taken in any
\* order.
ThreadTimeout(t) ==
    /\ rt_interrupt_nest = 1 /\ Defined /\ Expired(t)
    /\ timer_list' = timer_list \ {t}
    /\ stat' = [stat EXCEPT ![t] = "READY"]
    /\ LET table == Unlinked(rt_thread_priority_table, t)
       IN  /\ Insert(table, rt_thread_ready_priority_group, t, current_priority[t])
           /\ rt_schedule([table EXCEPT ![current_priority[t]] = Append(@, t)],
                          rt_thread_ready_priority_group \cup {current_priority[t]})
    /\ rt_thread_defunct' = rt_list_remove(rt_thread_defunct, t)
    /\ UNCHANGED <<current_priority, remaining_tick, rt_scheduler_lock_nest, ticks_left,
                   freed, rt_interrupt_nest, calls>>

\* The loop ends at the first timer that has not expired; rt_interrupt_leave.
TickEnd ==
    /\ rt_interrupt_nest = 1 /\ Defined
    /\ \A t \in Threads : ~Expired(t)
    /\ rt_interrupt_nest' = 0
    /\ UNCHANGED <<stat, current_priority, remaining_tick, lists, rt_current_thread,
                   rt_scheduler_lock_nest, timers, freed, calls, resched_owed>>

-----------------------------------------------------------------------------
ThreadStep(c) ==
    \/ Schedule(c)
    \/ ResumeUnlink(c) \/ ResumeInsert(c) \/ SuspendRemove(c)
    \/ ThreadYield(c) \/ ThreadExit(c)
    \/ DeleteTimer(c) \/ DeleteClose(c) \/ DeleteDefunct(c)
    \/ EnterCritical(c) \/ ExitCritical(c)
    \/ \E tick \in 0..MaxSleep : ThreadSleep(c, tick)
    \/ \E t \in Threads :
          \/ ThreadStartup(c, t) \/ ThreadResume(c, t)
          \/ ThreadSuspend(c, t) \/ ThreadDelete(c, t)
          \/ \E prio \in Priorities : ChangePriority(c, t, prio)

Tick == TickIncrease \/ (\E t \in Threads : ThreadTimeout(t)) \/ TickEnd

Next == (\E c \in Threads : ThreadStep(c)) \/ IdleExecute \/ Tick

Spec == Init /\ [][Next]_vars

\* The tick interrupt keeps coming.  Between two ticks the running thread
\* executes instructions, so a thread that runs again and again ends the kernel
\* call it is in and leaves the scheduler lock it entered (strong fairness:
\* every tick suspends the thread for a moment).
KernelProgress(c) ==
    \/ (pc[c] # "run" /\ (Schedule(c) \/ ResumeUnlink(c) \/ ResumeInsert(c) \/ SuspendRemove(c)
                          \/ DeleteTimer(c) \/ DeleteClose(c) \/ DeleteDefunct(c)))
    \/ ExitCritical(c)

LeaveCritical(c) == rt_scheduler_lock_nest = 1 /\ ExitCritical(c)

FairSpec ==
    /\ Spec
    /\ WF_vars(Tick)
    /\ \A c \in Threads : SF_vars(KernelProgress(c)) /\ SF_vars(LeaveCritical(c))

-----------------------------------------------------------------------------
(* Properties *)

\* The types of the scheduler's variables; that a time slice is never zero is
\* what SliceAfterTick guarantees (remaining_tick is unsigned and would wrap).
TypeOK ==
    /\ stat \in [Threads -> Stats]
    /\ current_priority \in [Threads -> Priorities]
    /\ remaining_tick \in [Threads -> Nat \ {0}]
    /\ rt_thread_priority_table \in [Priorities -> Seq(Threads)]
    /\ rt_thread_ready_priority_group \subseteq Priorities
    /\ rt_current_thread \in Threads \cup {NoThread}
    /\ rt_scheduler_lock_nest \in 0..MaxNest
    /\ timer_list \subseteq Threads
    /\ ticks_left \in [Threads -> 0..MaxSleep]
    /\ rt_thread_defunct \in Seq(Threads)
    /\ freed \subseteq Threads
    /\ rt_interrupt_nest \in 0..1
    /\ pc \in [Threads -> Labels]
    /\ obj \in [Threads -> Threads]
    /\ resched_owed \in BOOLEAN

\* No ready thread is invisible to rt_schedule: the bit of every priority
\* whose list holds a thread is set in rt_thread_ready_priority_group.
ReadyThreadsVisible ==
    \A p \in Priorities :
        rt_thread_priority_table[p] # <<>> => p \in rt_thread_ready_priority_group

\* The converse: a bit left set over an empty list would make rt_schedule take
\* the list head for a thread.  The only moment it may be stale is between the
\* two sections of an rt_thread_resume whose thread became ready meanwhile.
BitsNotStale ==
    \A p \in rt_thread_ready_priority_group :
        rt_thread_priority_table[p] = <<>> =>
            \E c \in Threads : pc[c] \in {"insert", "start_insert"} /\ current_priority[obj[c]] = p

\* rt_schedule always finds a bit set, because idle never leaves its list.
IdleAlwaysReady ==
    Idle \in ToSet(rt_thread_priority_table[PriorityMax - 1])

\* rt_schedule never takes a list head for a thread.
ScheduleDefined == rt_current_thread # NoThread

\* While the scheduler is unlocked, and unless a caller of rt_thread_resume or
\* rt_thread_control still owes rt_schedule, the running thread is the first
\* of the highest ready priority: no path of the tick, of a wakeup or of
\* rt_exit_critical forgets to reschedule.
RunsHighest ==
    (/\ rt_interrupt_nest = 0 /\ rt_scheduler_lock_nest = 0 /\ ~resched_owed
     /\ ScheduleDefined /\ pc[rt_current_thread] = "run")
    => rt_current_thread = to_thread(rt_thread_priority_table, rt_thread_ready_priority_group)

\* A call is about to delete, or is deleting, t.
Deleting(t) ==
    \E c \in Threads : obj[c] = t /\ pc[c] \in {"delete_timer", "delete_close", "delete_defunct"}

Resuming(t) ==
    \E c \in Threads : obj[c] = t /\ pc[c] \in {"insert", "start_insert"}

\* thread->stat and the lists agree: a thread is in the ready list of its own
\* priority exactly when it is READY, and in no other list of the table.
StatMatchesTable ==
    \A t \in Threads :
        /\ \A p \in Priorities :
               t \in ToSet(rt_thread_priority_table[p]) => stat[t] = "READY" /\ p = current_priority[t]
        /\ stat[t] = "READY" /\ ~Deleting(t) /\ ~Resuming(t)
               => t \in ToSet(rt_thread_priority_table[current_priority[t]])

\* Both at once: no node is linked twice, and stat tells where it is linked.
ListsMatchStat == ListsIntact /\ StatMatchesTable

\* What RT_ASSERT(thread->stat == RT_THREAD_SUSPEND) in rt_thread_timeout
\* relies on: only a suspended thread has a started timer.
TimeoutAssertion ==
    \A t \in timer_list : stat[t] = "SUSPEND"

\* A thread whose stack and object were freed by idle is used no more: it is
\* in no list, has no timer, does not run and no call in progress is about it.
NoUseAfterFree ==
    \A t \in freed :
        /\ \A p \in Priorities : t \notin ToSet(rt_thread_priority_table[p])
        /\ t \notin ToSet(rt_thread_defunct)
        /\ t \notin timer_list
        /\ t # rt_current_thread
        /\ ~Deleting(t) /\ ~Resuming(t)

\* A closed thread stays closed: no late wakeup makes it ready again.
ClosedIsFinal ==
    [][\A t \in Threads : stat[t] = "CLOSE" => stat'[t] = "CLOSE"]_vars

\* Time slices share the processor: a ready thread of the highest priority
\* runs again and again, or stops being ready or highest.
RoundRobin ==
    \A t \in Threads :
        []<>(\/ rt_current_thread = t
             \/ stat[t] # "READY"
             \/ highest_ready_priority(rt_thread_ready_priority_group) < current_priority[t])
=============================================================================
