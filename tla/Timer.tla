------------------------------- MODULE Timer -------------------------------
(***************************************************************************)
(* The hard timers of timer.c and the tick of clock.c that drives them.    *)
(*                                                                         *)
(* rt_tick is a 32-bit counter that wraps.  rt_timer_check runs in the     *)
(* tick interrupt, so no thread takes a step from TickIncrease to TickEnd; *)
(* the timeout functions it calls may start, stop and control timers       *)
(* themselves.  A thread runs with interrupts enabled: a tick may come     *)
(* between any two of the sections that make up a call.  The soft timers   *)
(* are switched off in rtconfig.h.                                         *)
(***************************************************************************)
EXTENDS Integers, FiniteSets, RtList

CONSTANTS Timers, NoTimer,
          Threads,         \* the threads that use timers
          ThreadTimers,    \* the timers each of them uses
          CallbackStarts,  \* the timers that timeout functions start
          SelfRestart,     \* TRUE: a timeout function may start its own timer
          ControlActive,   \* TRUE: rt_timer_control is called on active timers
          TickMod,         \* 2^32: the range of rt_tick_t
          MaxInit,         \* bound on init_tick
          MaxDelay         \* bound on the ticks between the two parts of rt_timer_start

RT_TICK_MAX == TickMod - 1

\* The half of the range that counts as the past.
Half == RT_TICK_MAX \div 2

ASSUME TickAssumption ==
    /\ TickMod \in Nat \ {0}
    /\ MaxInit \in Nat \ {0}
    /\ MaxDelay \in Nat
    /\ MaxInit + MaxDelay + 1 < Half    \* RT_ASSERT(timer->init_tick < RT_TICK_MAX/2)

ASSUME HalfAssumption == Half \in Nat /\ 2 * Half < TickMod

ASSUME UseAssumption ==
    /\ NoTimer \notin Timers
    /\ ThreadTimers \in [Threads -> SUBSET Timers]
    /\ CallbackStarts \subseteq Timers
    /\ SelfRestart \in BOOLEAN
    /\ ControlActive \in BOOLEAN

VARIABLES
    rt_tick,
    rt_timer_list,      \* the linked timers
    timeout_tick,       \* timer->timeout_tick
    init_tick,          \* timer->init_tick
    activated,          \* the timers with RT_TIMER_FLAG_ACTIVATED
    periodic,           \* the timers with RT_TIMER_FLAG_PERIODIC
    objects,            \* the timers that are initialised and not detached
    interrupt,          \* "no", "check": in the loop, "callback": in a timeout function
    firing,             \* the timer whose timeout function runs
    pc, obj,            \* where a thread stands in a call, and the timer it is about
    loaded,             \* the ACTIVATED bit a thread in rt_timer_control has read
    left                \* ticks to go, a number that does not wrap: what was asked for

timer == <<timeout_tick, init_tick, activated, periodic, objects>>
isr == <<interrupt, firing>>
calls == <<pc, obj, loaded>>
vars == <<rt_tick, rt_timer_list, timer, isr, calls, left>>

Linked == ToSet(rt_timer_list)

\* Unsigned arithmetic on ticks.
TickAdd(a, b) == IF a + b < TickMod THEN a + b ELSE a + b - TickMod

TickSub(a, b) == IF a >= b THEN a - b ELSE a - b + TickMod

Init ==
    /\ rt_tick = 0
    /\ rt_timer_list = <<>>
    /\ timeout_tick = [t \in Timers |-> 0]
    /\ init_tick = [t \in Timers |-> 1]
    /\ activated = {} /\ periodic = {}
    /\ objects = CallbackStarts      \* set up before the threads run
    /\ interrupt = "no" /\ firing = NoTimer
    /\ pc = [c \in Threads |-> "run"]
    /\ obj = [c \in Threads |-> NoTimer]
    /\ loaded = [c \in Threads |-> FALSE]
    /\ left = [t \in Timers |-> 0]

-----------------------------------------------------------------------------
\* Mutant of NotBefore: a comparison that does not know of the wrap.
NotBefore_NoWrap(a, b) == a >= b

\* The test of rt_timer_start: tick a is b or comes after it.
NotBefore(a, b) == TickSub(a, b) < Half

\* Mutant of Insert: the case of the last position is forgotten.
Insert_NotLast(t, timeout) ==
    LET later == {i \in DOMAIN rt_timer_list : NotBefore(timeout[rt_timer_list[i]], timeout[t])}
    IN  IF later = {} THEN rt_timer_list ELSE InsertBeforeFirst(rt_timer_list, later, t)

\* The loop of rt_timer_start: before the first timer that is not due earlier.
Insert(t, timeout) ==
    LET later == {i \in DOMAIN rt_timer_list : NotBefore(timeout[rt_timer_list[i]], timeout[t])}
    IN  InsertBeforeFirst(rt_timer_list, later, t)

\* What rt_timer_start writes before its section.
Deadline(t) ==
    /\ timeout_tick' = [timeout_tick EXCEPT ![t] = TickAdd(rt_tick, init_tick[t])]
    /\ left' = [left EXCEPT ![t] = init_tick[t]]

At(c, label) == interrupt = "no" /\ pc[c] = label

Goto(c, label) == pc' = [pc EXCEPT ![c] = label] /\ UNCHANGED <<obj, loaded>>

\* The call of thread c returns.
Return(c) ==
    /\ pc' = [pc EXCEPT ![c] = "run"]
    /\ obj' = [obj EXCEPT ![c] = NoTimer]
    /\ loaded' = [loaded EXCEPT ![c] = FALSE]

\* Thread c enters a call on a timer it uses.
Enter(c, t, label) ==
    /\ At(c, "run") /\ t \in ThreadTimers[c] \cap objects
    /\ pc' = [pc EXCEPT ![c] = label]
    /\ obj' = [obj EXCEPT ![c] = t]

-----------------------------------------------------------------------------
\* Calls of threads

\* rt_timer_init, rt_timer_create
TimerInit(c, t, time, flag) ==
    /\ At(c, "run") /\ t \in ThreadTimers[c] \ objects
    /\ objects' = objects \cup {t}
    /\ activated' = activated \ {t}
    /\ periodic' = IF flag = "PERIODIC" THEN periodic \cup {t} ELSE periodic \ {t}
    /\ timeout_tick' = [timeout_tick EXCEPT ![t] = 0]
    /\ init_tick' = [init_tick EXCEPT ![t] = time]
    /\ UNCHANGED <<rt_tick, rt_timer_list, isr, calls, left>>

\* rt_timer_start up to its section; an active timer is refused.
TimerStart(c, t) ==
    /\ Enter(c, t, "start_insert") /\ t \notin activated
    /\ Deadline(t)
    /\ UNCHANGED <<rt_tick, rt_timer_list, init_tick, activated, periodic, objects, isr, loaded>>

\* The section of rt_timer_start.
StartInsert(c) ==
    /\ At(c, "start_insert")
    /\ rt_timer_list' = Insert(obj[c], timeout_tick)
    /\ activated' = activated \cup {obj[c]}
    /\ Return(c)
    /\ UNCHANGED <<rt_tick, timeout_tick, init_tick, periodic, objects, isr, left>>

\* rt_timer_stop: the test of the flag ...
TimerStop(c, t) ==
    /\ Enter(c, t, "stop_remove") /\ t \in activated
    /\ UNCHANGED <<rt_tick, rt_timer_list, timer, isr, loaded, left>>

\* ... the section ...
StopRemove(c) ==
    /\ At(c, "stop_remove")
    /\ rt_timer_list' = rt_list_remove(rt_timer_list, obj[c])
    /\ Goto(c, "stop_clear")
    /\ UNCHANGED <<rt_tick, timer, isr, left>>

\* ... and the flag, outside the section.
StopClear(c) ==
    /\ At(c, "stop_clear")
    /\ activated' = activated \ {obj[c]}
    /\ Return(c)
    /\ UNCHANGED <<rt_tick, rt_timer_list, timeout_tick, init_tick, periodic, objects, isr, left>>

\* rt_timer_control(RT_TIMER_CTRL_SET_TIME)
SetTime(c, t, time) ==
    /\ At(c, "run") /\ t \in ThreadTimers[c] \cap objects
    /\ init_tick' = [init_tick EXCEPT ![t] = time]
    /\ UNCHANGED <<rt_tick, rt_timer_list, timeout_tick, activated, periodic, objects, isr,
                   calls, left>>

\* rt_timer_control(RT_TIMER_CTRL_SET_ONESHOT, RT_TIMER_CTRL_SET_PERIODIC): the
\* flag byte is read with interrupts enabled ...
SetFlag(c, t, flag) ==
    /\ Enter(c, t, flag) /\ flag \in {"ONESHOT", "PERIODIC"}
    /\ t \in activated => ControlActive
    /\ loaded' = [loaded EXCEPT ![c] = t \in activated]
    /\ UNCHANGED <<rt_tick, rt_timer_list, timer, isr, left>>

\* ... and written back with every bit as it was read but one.
StoreFlag(c) ==
    /\ At(c, "ONESHOT") \/ At(c, "PERIODIC")
    /\ periodic' = IF pc[c] = "PERIODIC" THEN periodic \cup {obj[c]} ELSE periodic \ {obj[c]}
    /\ activated' = IF loaded[c] THEN activated \cup {obj[c]} ELSE activated \ {obj[c]}
    /\ Return(c)
    /\ UNCHANGED <<rt_tick, rt_timer_list, timeout_tick, init_tick, objects, isr, left>>

\* rt_timer_detach, rt_timer_delete: the section ...
TimerDetach(c, t) ==
    /\ Enter(c, t, "detach_object")
    /\ rt_timer_list' = rt_list_remove(rt_timer_list, t)
    /\ UNCHANGED <<rt_tick, timer, isr, loaded, left>>

\* ... and rt_object_detach or rt_object_delete.
DetachObject(c) ==
    /\ At(c, "detach_object")
    /\ objects' = objects \ {obj[c]}
    /\ Return(c)
    /\ UNCHANGED <<rt_tick, rt_timer_list, timeout_tick, init_tick, activated, periodic, isr,
                   left>>

-----------------------------------------------------------------------------
\* The tick interrupt

\* A thread stands between the two parts of rt_timer_start of t.
Pending(t) == \E c \in Threads : pc[c] = "start_insert" /\ obj[c] = t

\* rt_tick_increase: ++ rt_tick, then rt_timer_check.  A thread is not kept
\* between the two parts of rt_timer_start for more than MaxDelay ticks.
TickIncrease ==
    /\ interrupt = "no"
    /\ \A t \in Timers : Pending(t) => left[t] > -MaxDelay
    /\ rt_tick' = TickAdd(rt_tick, 1)
    /\ left' = [t \in Timers |-> IF t \in Linked \/ Pending(t) THEN left[t] - 1 ELSE 0]
    /\ interrupt' = "check"
    /\ UNCHANGED <<rt_timer_list, timer, firing, calls>>

\* Mutant of Expired: a comparison that does not know of the wrap.
Expired_NoWrap(t) == rt_tick >= timeout_tick[t]

\* The test of rt_timer_check.
Expired(t) == TickSub(rt_tick, timeout_tick[t]) < Half

\* The first timer of the list has expired: it is taken out and its timeout
\* function is called.
Expire ==
    /\ interrupt = "check" /\ ~rt_list_isempty(rt_timer_list) /\ Expired(Head(rt_timer_list))
    /\ rt_timer_list' = Tail(rt_timer_list)
    /\ firing' = Head(rt_timer_list)
    /\ interrupt' = "callback"
    /\ UNCHANGED <<rt_tick, timer, calls, left>>

\* A timeout function calls rt_timer_start: interrupts stay disabled.
CallbackStart(t) ==
    /\ interrupt = "callback" /\ t \in (CallbackStarts \cap objects) \ activated
    /\ t = firing => SelfRestart
    /\ Deadline(t)
    /\ rt_timer_list' = Insert(t, timeout_tick')
    /\ activated' = activated \cup {t}
    /\ UNCHANGED <<rt_tick, init_tick, periodic, objects, isr, calls>>

\* A timeout function calls rt_timer_stop.
CallbackStop(t) ==
    /\ interrupt = "callback" /\ t \in activated \cap objects
    /\ rt_timer_list' = rt_list_remove(rt_timer_list, t)
    /\ activated' = activated \ {t}
    /\ UNCHANGED <<rt_tick, timeout_tick, init_tick, periodic, objects, isr, calls, left>>

\* A timeout function calls rt_timer_control on its own timer.
CallbackControl(time, flag) ==
    /\ interrupt = "callback"
    /\ init_tick' = [init_tick EXCEPT ![firing] = time]
    /\ periodic' = IF flag = "PERIODIC" THEN periodic \cup {firing} ELSE periodic \ {firing}
    /\ UNCHANGED <<rt_tick, rt_timer_list, timeout_tick, activated, objects, isr, calls, left>>

\* The timeout function returns: a periodic timer that is still active is
\* started again ...
Restart ==
    /\ interrupt = "callback" /\ firing \in periodic \cap activated
    /\ Deadline(firing)
    /\ rt_timer_list' = Insert(firing, timeout_tick')
    /\ interrupt' = "check" /\ firing' = NoTimer
    /\ UNCHANGED <<rt_tick, init_tick, activated, periodic, objects, calls>>

\* Mutant of ExpireEnd: the timer stays active.
ExpireEnd_StaysActive ==
    /\ interrupt = "callback" /\ firing \notin periodic \cap activated
    /\ interrupt' = "check" /\ firing' = NoTimer
    /\ UNCHANGED <<rt_tick, rt_timer_list, timer, calls, left>>

\* ... any other one becomes inactive.
ExpireEnd ==
    /\ interrupt = "callback" /\ firing \notin periodic \cap activated
    /\ activated' = activated \ {firing}
    /\ interrupt' = "check" /\ firing' = NoTimer
    /\ UNCHANGED <<rt_tick, rt_timer_list, timeout_tick, init_tick, periodic, objects, calls,
                   left>>

\* The loop ends at the first timer that has not expired.
TickEnd ==
    /\ interrupt = "check"
    /\ ~rt_list_isempty(rt_timer_list) => ~Expired(Head(rt_timer_list))
    /\ interrupt' = "no"
    /\ UNCHANGED <<rt_tick, rt_timer_list, timer, firing, calls, left>>

-----------------------------------------------------------------------------
Continue(c) ==
    StartInsert(c) \/ StopRemove(c) \/ StopClear(c) \/ StoreFlag(c) \/ DetachObject(c)

ThreadStep(c) ==
    \/ Continue(c)
    \/ \E t \in Timers :
          \/ TimerStart(c, t) \/ TimerStop(c, t) \/ TimerDetach(c, t)
          \/ \E time \in 1..MaxInit : SetTime(c, t, time)
          \/ \E flag \in {"ONESHOT", "PERIODIC"} :
                SetFlag(c, t, flag) \/ \E time \in 1..MaxInit : TimerInit(c, t, time, flag)

Callback ==
    \/ \E t \in Timers : CallbackStart(t) \/ CallbackStop(t)
    \/ \E time \in 1..MaxInit, flag \in {"ONESHOT", "PERIODIC"} : CallbackControl(time, flag)

TimerCheck == Expire \/ Restart \/ ExpireEnd \/ TickEnd

Next == (\E c \in Threads : ThreadStep(c)) \/ Callback \/ TimerCheck \/ TickIncrease

Spec == Init /\ [][Next]_vars

\* The tick keeps coming, its handler ends (a timeout function returns), and a
\* thread inside a call goes on (strong fairness: every tick interrupts it).
FairSpec ==
    /\ Spec
    /\ WF_vars(TickIncrease) /\ WF_vars(TimerCheck)
    /\ \A c \in Threads : SF_vars(Continue(c))

-----------------------------------------------------------------------------
(* Properties *)

\* The types of the variables.
TypeOK ==
    /\ rt_tick \in 0..RT_TICK_MAX
    /\ rt_timer_list \in Seq(Timers)
    /\ timeout_tick \in [Timers -> 0..RT_TICK_MAX]
    /\ init_tick \in [Timers -> 1..MaxInit]
    /\ activated \subseteq Timers /\ periodic \subseteq Timers /\ objects \subseteq Timers
    /\ interrupt \in {"no", "check", "callback"}
    /\ firing \in Timers \cup {NoTimer}
    /\ pc \in [Threads -> {"run", "start_insert", "stop_remove", "stop_clear", "ONESHOT",
                           "PERIODIC", "detach_object"}]
    /\ obj \in [Threads -> Timers \cup {NoTimer}]
    /\ loaded \in [Threads -> BOOLEAN]
    /\ left \in [Timers -> (-MaxDelay - 1)..MaxInit]

\* The list is in the order of the time the timers have left, also when some
\* deadlines lie beyond the wrap of rt_tick and others do not.
ListSorted ==
    \A i, j \in DOMAIN rt_timer_list : i < j => left[rt_timer_list[i]] <= left[rt_timer_list[j]]

\* rt_timer_check fires no timer before its time and leaves none that is due,
\* although it looks at the head of the list only and its comparison wraps.
FiresOnTime ==
    [][/\ Expire => left[Head(rt_timer_list)] <= 0
       /\ TickEnd => \A t \in Linked : left[t] > 0]_vars

\* Somebody is at work on t: its timeout function runs, or a call on it is not
\* yet over.
Busy(t) ==
    \/ interrupt = "callback" /\ firing = t
    \/ \E c \in Threads : obj[c] = t /\ pc[c] \in {"stop_clear", "detach_object"}

\* RT_TIMER_FLAG_ACTIVATED tells the truth: a timer is linked, and linked once,
\* exactly when it is active.  Otherwise rt_timer_start would link it a second
\* time or refuse it for ever.
ActiveIsLinked ==
    /\ LinkedOnce(rt_timer_list)
    /\ Linked \subseteq objects
    /\ \A t \in objects : ~Busy(t) => (t \in Linked <=> t \in activated)

\* An active timer fires unless it is stopped first.
ActiveTimersFire ==
    \A t \in Timers :
        (t \in activated \cap objects)
        ~> (firing = t \/ t \notin activated \cap objects)
=============================================================================
