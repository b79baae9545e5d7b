---------------------------- MODULE TimerProofs ----------------------------
(***************************************************************************)
(* The order of the timer list, the moment timers fire and the truth of    *)
(* the ACTIVATED flag, for every set of timers and threads and every width *)
(* of the tick counter, under the use of timers that the code supports.    *)
(***************************************************************************)
EXTENDS Timer, RtListProofs

\* The use of timers under which timer.c keeps its promises: a timer belongs
\* to one thread or to the timeout functions, a timeout function does not start
\* the timer it was called for, and rt_timer_control changes the mode of
\* inactive timers only.
Separate ==
    /\ ~SelfRestart /\ ~ControlActive
    /\ \A c \in Threads : ThreadTimers[c] \cap CallbackStarts = {}
    /\ \A c, d \in Threads : c # d => ThreadTimers[c] \cap ThreadTimers[d] = {}

\* A tick that is d ticks from the origin, reduced to the range of the counter.
Wrap(d) == IF d >= TickMod THEN d - TickMod ELSE IF d < 0 THEN d + TickMod ELSE d

\* A thread inside a call works on a timer of its own, and from the point where
\* it has found or made the timer inactive nobody else links it.
CallsKeepTheirTimer ==
    \A c \in Threads :
        /\ ~loaded[c]
        /\ pc[c] # "run" => obj[c] \in ThreadTimers[c] \cap objects
        /\ pc[c] \in {"start_insert", "ONESHOT", "PERIODIC"} => obj[c] \notin activated
        /\ pc[c] \notin {"run", "stop_remove"} => obj[c] \notin Linked /\ obj[c] # firing

\* The timer whose timeout function runs has been taken out of the list.
FiringIsUnlinked ==
    IF interrupt = "callback" THEN firing \in objects \ Linked ELSE firing = NoTimer

\* The deadline of a timer that is linked, or about to be, is the tick it has
\* left from now, and outside the interrupt it is overdue by MaxDelay at most.
DeadlineIsLeft ==
    /\ \A t \in Timers : t \in Linked \/ Pending(t) => timeout_tick[t] = Wrap(rt_tick + left[t])
    /\ \A t \in Timers : Pending(t) => left[t] >= -MaxDelay
    /\ interrupt = "no" => \A t \in Linked : left[t] >= -MaxDelay

\* The inductive invariant.
TimerInv ==
    /\ TypeOK
    /\ CallsKeepTheirTimer
    /\ FiringIsUnlinked
    /\ ActiveIsLinked
    /\ DeadlineIsLeft
    /\ ListSorted

-----------------------------------------------------------------------------
\* The wrapped difference of two deadlines orders them as the ticks they have
\* left do, because these differ by less than half of the range.
LEMMA NotBeforeIsOrder ==
    ASSUME NEW r \in 0..RT_TICK_MAX,
           NEW m \in (-MaxDelay - 1)..MaxInit, NEW n \in (-MaxDelay - 1)..MaxInit
    PROVE  NotBefore(Wrap(r + m), Wrap(r + n)) <=> n <= m
<1>1. PICK h : h = Half
  OBVIOUS
<1>2. /\ TickMod \in Nat \ {0} /\ MaxInit \in Nat \ {0} /\ MaxDelay \in Nat
      /\ h \in Nat /\ MaxInit + MaxDelay + 1 < h /\ 2 * h < TickMod
  BY <1>1, TickAssumption, HalfAssumption
<1>3. r \in Int /\ 0 <= r /\ r < TickMod
  BY <1>2 DEF RT_TICK_MAX
<1>4. m \in Int /\ n \in Int /\ m - n < h /\ n - m < h
  BY <1>2
<1>5. NotBefore(Wrap(r + m), Wrap(r + n)) <=> TickSub(Wrap(r + m), Wrap(r + n)) < h
  BY <1>1 DEF NotBefore
<1> DEFINE v == Wrap(r + m)
           w == Wrap(r + n)
<1>6. v \in Int /\ w \in Int
  BY <1>2, <1>3, <1>4 DEF Wrap
<1>7. /\ v = r + m \/ v = r + m - TickMod \/ v = r + m + TickMod
      /\ w = r + n \/ w = r + n - TickMod \/ w = r + n + TickMod
      /\ 0 <= v /\ v < TickMod /\ 0 <= w /\ w < TickMod
  BY <1>2, <1>3, <1>4, <1>6 DEF Wrap
<1> HIDE DEF v, w
<1>8. TickSub(v, w) = IF m >= n THEN m - n ELSE m - n + TickMod
  BY <1>2, <1>3, <1>4, <1>6, <1>7 DEF TickSub
<1> QED BY <1>2, <1>4, <1>5, <1>8 DEF v, w

\* The test of rt_timer_check: a timer has expired when it has no tick left.
LEMMA ExpiredIsDue ==
    ASSUME TypeOK, NEW t \in Timers, timeout_tick[t] = Wrap(rt_tick + left[t])
    PROVE  Expired(t) <=> left[t] <= 0
<1>1. rt_tick \in 0..RT_TICK_MAX /\ left[t] \in (-MaxDelay - 1)..MaxInit
  BY DEF TypeOK
<1>2. 0 \in (-MaxDelay - 1)..MaxInit
  BY TickAssumption
<1>3. Wrap(rt_tick + 0) = rt_tick
  BY <1>1, TickAssumption DEF Wrap, RT_TICK_MAX
<1>4. NotBefore(Wrap(rt_tick + 0), Wrap(rt_tick + left[t])) <=> left[t] <= 0
  BY <1>1, <1>2, NotBeforeIsOrder
<1> QED BY <1>3, <1>4 DEF Expired, NotBefore

\* A deadline is in the range of the counter, and one tick brings it nearer.
LEMMA DeadlineType ==
    ASSUME NEW r \in 0..RT_TICK_MAX, NEW n \in 1..MaxInit
    PROVE  TickAdd(r, n) = Wrap(r + n) /\ TickAdd(r, n) \in 0..RT_TICK_MAX
  BY TickAssumption, HalfAssumption DEF TickAdd, Wrap, RT_TICK_MAX

LEMMA TickKeepsDeadline ==
    ASSUME NEW r \in 0..RT_TICK_MAX, NEW n \in (-MaxDelay - 1)..MaxInit
    PROVE  TickAdd(r, 1) \in 0..RT_TICK_MAX /\ Wrap(TickAdd(r, 1) + (n - 1)) = Wrap(r + n)
<1>1. PICK h : h = Half
  OBVIOUS
<1>2. /\ TickMod \in Nat \ {0} /\ MaxInit \in Nat \ {0} /\ MaxDelay \in Nat
      /\ h \in Nat /\ MaxInit + MaxDelay + 1 < h /\ 2 * h < TickMod
  BY <1>1, TickAssumption, HalfAssumption
<1>3. r \in Int /\ 0 <= r /\ r < TickMod /\ n \in Int /\ n - 1 > -TickMod /\ n < TickMod
  BY <1>2 DEF RT_TICK_MAX
<1>4. TickAdd(r, 1) = IF r + 1 < TickMod THEN r + 1 ELSE 0
  BY <1>2, <1>3 DEF TickAdd
<1>5. TickAdd(r, 1) \in 0..RT_TICK_MAX
  BY <1>2, <1>3, <1>4 DEF RT_TICK_MAX
<1>6. CASE r + 1 < TickMod
  BY <1>2, <1>3, <1>4, <1>5, <1>6 DEF Wrap
<1>7. CASE ~(r + 1 < TickMod)
  BY <1>2, <1>3, <1>4, <1>5, <1>7 DEF Wrap
<1> QED BY <1>6, <1>7

\* The loop of rt_timer_start links the timer once and keeps the order.
LEMMA InsertInOrder ==
    ASSUME NEW r \in 0..RT_TICK_MAX,
           NEW key \in [Timers -> (-MaxDelay - 1)..MaxInit],
           NEW deadline, NEW t \in Timers,
           rt_timer_list \in Seq(Timers), LinkedOnce(rt_timer_list), t \notin Linked,
           \A u \in Linked \cup {t} : deadline[u] = Wrap(r + key[u]),
           SortedBy(rt_timer_list, key)
    PROVE  /\ Insert(t, deadline) \in Seq(Timers)
           /\ ToSet(Insert(t, deadline)) = Linked \cup {t}
           /\ LinkedOnce(Insert(t, deadline))
           /\ SortedBy(Insert(t, deadline), key)
<1> DEFINE P == {i \in DOMAIN rt_timer_list : NotBefore(deadline[rt_timer_list[i]], deadline[t])}
<1>1. P \in SUBSET (1..Len(rt_timer_list))
  OBVIOUS
<1>2. Insert(t, deadline) = InsertBeforeFirst(rt_timer_list, P, t)
  BY DEF Insert
<1>3. \A i \in 1..Len(rt_timer_list) : rt_timer_list[i] \in Linked /\ rt_timer_list[i] \in Timers
  BY DEF Linked, ToSet
<1>4. \A i \in 1..Len(rt_timer_list) : i \in P <=> key[t] <= key[rt_timer_list[i]]
  <2> SUFFICES ASSUME NEW i \in 1..Len(rt_timer_list)
               PROVE  i \in P <=> key[t] <= key[rt_timer_list[i]]
    OBVIOUS
  <2>1. PICK u \in Timers : u = rt_timer_list[i] /\ u \in Linked
    BY <1>3
  <2>2. deadline[u] = Wrap(r + key[u]) /\ deadline[t] = Wrap(r + key[t])
    BY <2>1
  <2>3. NotBefore(deadline[u], deadline[t]) <=> key[t] <= key[u]
    BY <2>2, NotBeforeIsOrder
  <2>4. i \in P <=> NotBefore(deadline[u], deadline[t])
    BY <2>1
  <2> QED BY <2>1, <2>3, <2>4
<1>5. key \in [Timers -> Int] /\ \A u \in Timers : key[u] \in Int
  BY TickAssumption
<1> HIDE DEF P
<1>6. \A i \in P : key[t] <= key[rt_timer_list[i]]
  BY <1>1, <1>4
<1>7. \A i \in (1..Len(rt_timer_list)) \ P : key[rt_timer_list[i]] <= key[t]
  BY <1>3, <1>4, <1>5
<1>8. SortedBy(InsertBeforeFirst(rt_timer_list, P, t), key)
  BY <1>1, <1>5, <1>6, <1>7, InsertSorted
<1> QED BY <1>1, <1>2, <1>8, InsertBeforeFirstMembers DEF Linked
-----------------------------------------------------------------------------
\* The three facts that make TimerInv inductive: it holds at the start ...
LEMMA TimerInitially == Init => TimerInv
<1> SUFFICES ASSUME Init PROVE TimerInv
  OBVIOUS
<1> USE DEF Init
<1>1. Linked = {}
  BY DEF Linked, ToSet
<1>2. TypeOK
  <2>1. 0 \in 0..RT_TICK_MAX /\ 1 \in 1..MaxInit /\ 0 \in (-MaxDelay - 1)..MaxInit
    BY TickAssumption DEF RT_TICK_MAX
  <2>2. rt_timer_list \in Seq(Timers) /\ loaded \in [Threads -> BOOLEAN]
    OBVIOUS
  <2> QED BY <2>1, <2>2, UseAssumption DEF TypeOK
<1>3. CallsKeepTheirTimer
  BY DEF CallsKeepTheirTimer
<1>4. FiringIsUnlinked /\ DeadlineIsLeft
  BY <1>1 DEF FiringIsUnlinked, DeadlineIsLeft, Pending
<1>5. ActiveIsLinked /\ ListSorted
  BY <1>1 DEF ActiveIsLinked, LinkedOnce, ListSorted
<1> QED BY <1>2, <1>3, <1>4, <1>5 DEF TimerInv

-----------------------------------------------------------------------------
\* What rt_timer_check takes out is due.
LEMMA ExpireIsDue ==
    ASSUME TimerInv, Expire
    PROVE  left[Head(rt_timer_list)] <= 0
<1>1. TypeOK /\ rt_timer_list \in Seq(Timers) /\ rt_timer_list # <<>>
  BY DEF TimerInv, TypeOK, Expire, rt_list_isempty
<1>2. PICK t \in Timers : t = Head(rt_timer_list) /\ t \in Linked
  BY <1>1, TailMembers DEF Linked
<1>3. timeout_tick[t] = Wrap(rt_tick + left[t]) /\ Expired(t)
  BY <1>2 DEF TimerInv, DeadlineIsLeft, Expire
<1> QED BY <1>1, <1>2, <1>3, ExpiredIsDue

\* Where rt_timer_check stops, at the first timer that has not expired or at
\* the end of the list, no timer is due.
LEMMA TickEndLeavesNone ==
    ASSUME TimerInv, TickEnd
    PROVE  \A t \in Linked : left[t] > 0
<1>1. TypeOK /\ rt_timer_list \in Seq(Timers)
  BY DEF TimerInv, TypeOK
<1>2. \A t \in Timers : left[t] \in Int
  BY <1>1, TickAssumption DEF TypeOK
<1>3. SUFFICES ASSUME NEW i \in 1..Len(rt_timer_list)
               PROVE  left[rt_timer_list[i]] > 0
  BY <1>1 DEF Linked, ToSet
<1>4. rt_timer_list # <<>> /\ 1 \in 1..Len(rt_timer_list)
  BY <1>1
<1>5. PICK t \in Timers : t = Head(rt_timer_list) /\ t = rt_timer_list[1] /\ t \in Linked
  BY <1>1, <1>4, TailMembers DEF Linked
<1>6. left[t] > 0
  <2>1. timeout_tick[t] = Wrap(rt_tick + left[t]) /\ ~Expired(t)
    BY <1>4, <1>5 DEF TimerInv, DeadlineIsLeft, TickEnd, rt_list_isempty
  <2>2. ~(left[t] <= 0)
    BY <1>1, <2>1, ExpiredIsDue
  <2> QED BY <1>2, <2>2
<1>7. i # 1 => left[t] <= left[rt_timer_list[i]]
  <2>1. DOMAIN rt_timer_list = 1..Len(rt_timer_list)
    BY <1>1
  <2> QED BY <1>4, <1>5, <2>1 DEF TimerInv, ListSorted
<1> QED BY <1>1, <1>2, <1>5, <1>6, <1>7

-----------------------------------------------------------------------------
\* ... every step keeps it ...
LEMMA TimerStep == Separate /\ TimerInv /\ [Next]_vars => TimerInv'
<1> SUFFICES ASSUME Separate, TimerInv, [Next]_vars
             PROVE  TimerInv'
  OBVIOUS
\* What the invariant says, one fact at a time.
<1>1. /\ rt_tick \in 0..RT_TICK_MAX
      /\ rt_timer_list \in Seq(Timers)
      /\ timeout_tick \in [Timers -> 0..RT_TICK_MAX]
      /\ init_tick \in [Timers -> 1..MaxInit]
      /\ left \in [Timers -> (-MaxDelay - 1)..MaxInit]
  BY DEF TimerInv, TypeOK
<1>2. /\ activated \subseteq Timers /\ periodic \subseteq Timers /\ objects \subseteq Timers
      /\ interrupt \in {"no", "check", "callback"}
      /\ firing \in Timers \cup {NoTimer}
  BY DEF TimerInv, TypeOK
<1>3. /\ pc \in [Threads -> {"run", "start_insert", "stop_remove", "stop_clear", "ONESHOT",
                             "PERIODIC", "detach_object"}]
      /\ obj \in [Threads -> Timers \cup {NoTimer}]
  BY DEF TimerInv, TypeOK
<1>4. loaded \in [Threads -> BOOLEAN]
  BY DEF TimerInv, TypeOK
<1>5. \A c \in Threads :
        /\ ~loaded[c]
        /\ pc[c] # "run" => obj[c] \in ThreadTimers[c] \cap objects
        /\ pc[c] \in {"start_insert", "ONESHOT", "PERIODIC"} => obj[c] \notin activated
        /\ pc[c] \notin {"run", "stop_remove"} => obj[c] \notin Linked /\ obj[c] # firing
  BY DEF TimerInv, CallsKeepTheirTimer
<1>6. /\ interrupt = "callback" => firing \in objects \ Linked
      /\ interrupt # "callback" => firing = NoTimer
  BY DEF TimerInv, FiringIsUnlinked
<1>7. /\ LinkedOnce(rt_timer_list)
      /\ Linked \subseteq objects
      /\ \A t \in objects : ~Busy(t) => (t \in Linked <=> t \in activated)
  BY DEF TimerInv, ActiveIsLinked
<1>8. /\ \A t \in Timers : t \in Linked \/ Pending(t) => timeout_tick[t] = Wrap(rt_tick + left[t])
      /\ \A t \in Timers : Pending(t) => left[t] >= -MaxDelay
      /\ interrupt = "no" => \A t \in Linked : left[t] >= -MaxDelay
  BY DEF TimerInv, DeadlineIsLeft
<1>9. SortedBy(rt_timer_list, left)
  <2>1. DOMAIN rt_timer_list = 1..Len(rt_timer_list)
    BY <1>1
  <2>2. ListSorted
    BY DEF TimerInv
  <2> QED BY <2>1, <2>2 DEF ListSorted, SortedBy
<1>10. /\ NoTimer \notin Timers
       /\ ThreadTimers \in [Threads -> SUBSET Timers]
       /\ CallbackStarts \subseteq Timers
  BY UseAssumption
<1>11. /\ \A c \in Threads : ThreadTimers[c] \cap CallbackStarts = {}
       /\ \A c, d \in Threads : c # d => ThreadTimers[c] \cap ThreadTimers[d] = {}
  BY DEF Separate
\* A timer that nobody works on is linked exactly when it is active.
<1>12. \A c \in Threads : \A t \in ThreadTimers[c] \cap objects :
          pc[c] \in {"run", "stop_remove"} /\ interrupt = "no" => (t \in Linked <=> t \in activated)
  <2> SUFFICES ASSUME NEW c \in Threads, NEW t \in ThreadTimers[c] \cap objects,
                      pc[c] \in {"run", "stop_remove"}, interrupt = "no"
               PROVE  t \in Linked <=> t \in activated
    OBVIOUS
  <2>1. ~Busy(t)
    <3> SUFFICES ASSUME NEW d \in Threads, obj[d] = t, pc[d] \in {"stop_clear", "detach_object"}
                 PROVE  FALSE
      BY DEF Busy
    <3> QED BY <1>5, <1>11
  <2> QED BY <1>7, <2>1
\* What a step that leaves the list, the clock and the deadlines alone keeps.
<1>13. ASSUME UNCHANGED <<rt_tick, rt_timer_list, timeout_tick, left>>,
              interrupt' = interrupt,
              \A t \in Timers : Pending(t)' => Pending(t)
       PROVE  DeadlineIsLeft' /\ ListSorted' /\ LinkedOnce(rt_timer_list)' /\ Linked' = Linked
  <2>1. Linked' = Linked /\ LinkedOnce(rt_timer_list)' /\ ListSorted'
    BY <1>7, <1>13 DEF Linked, LinkedOnce, TimerInv, ListSorted
  <2>2. DeadlineIsLeft'
    BY <1>8, <1>13, <2>1 DEF DeadlineIsLeft
  <2> QED BY <2>1, <2>2
\* What a step that takes a timer out of the list keeps.
<1>14. ASSUME NEW t \in Timers, rt_timer_list' = rt_list_remove(rt_timer_list, t),
              UNCHANGED <<rt_tick, timeout_tick, left>>,
              interrupt' = interrupt,
              \A u \in Timers : Pending(u)' => Pending(u)
       PROVE  /\ DeadlineIsLeft' /\ ListSorted' /\ LinkedOnce(rt_timer_list)'
              /\ Linked' = Linked \ {t} /\ rt_timer_list' \in Seq(Timers)
  <2>1. Linked' = Linked \ {t} /\ LinkedOnce(rt_timer_list)' /\ rt_timer_list' \in Seq(Timers)
    BY <1>1, <1>7, <1>14, RemoveMembers DEF Linked
  <2>2. SortedBy(rt_timer_list', left)
    BY <1>1, <1>9, <1>14, RemoveSorted
  <2>3. ListSorted'
    BY <1>14, <2>1, <2>2 DEF ListSorted, SortedBy
  <2>4. DeadlineIsLeft'
    BY <1>8, <1>14, <2>1 DEF DeadlineIsLeft
  <2> QED BY <2>1, <2>3, <2>4
\* What a step that links a timer keeps.
<1>15. ASSUME NEW t \in Timers, t \notin Linked,
              rt_tick' = rt_tick,
              rt_timer_list' = Insert(t, timeout_tick'),
              left' \in [Timers -> (-MaxDelay - 1)..MaxInit],
              \A u \in Linked : timeout_tick'[u] = timeout_tick[u] /\ left'[u] = left[u],
              timeout_tick'[t] = Wrap(rt_tick + left'[t])
       PROVE  /\ ListSorted' /\ LinkedOnce(rt_timer_list)'
              /\ Linked' = Linked \cup {t} /\ rt_timer_list' \in Seq(Timers)
  <2>1. \A u \in Linked \cup {t} : timeout_tick'[u] = Wrap(rt_tick + left'[u])
    <3> SUFFICES ASSUME NEW u \in Linked PROVE timeout_tick'[u] = Wrap(rt_tick + left'[u])
      BY <1>15
    <3>1. u \in Timers
      BY <1>1 DEF Linked, ToSet
    <3>2. timeout_tick[u] = Wrap(rt_tick + left[u])
      BY <1>8, <3>1
    <3> QED BY <1>15, <3>2
  <2>2. SortedBy(rt_timer_list, left')
    <3>1. \A i \in 1..Len(rt_timer_list) : left'[rt_timer_list[i]] = left[rt_timer_list[i]]
      BY <1>1, <1>15 DEF Linked, ToSet
    <3> QED BY <1>9, <3>1 DEF SortedBy
  <2> DEFINE key == left'
             deadline == timeout_tick'
             list == Insert(t, deadline)
  <2> HIDE DEF key, deadline
  <2>3. /\ list \in Seq(Timers) /\ ToSet(list) = Linked \cup {t}
        /\ LinkedOnce(list) /\ SortedBy(list, key)
    <3>1. key \in [Timers -> (-MaxDelay - 1)..MaxInit] /\ SortedBy(rt_timer_list, key)
      BY <1>15, <2>2 DEF key
    <3>2. \A u \in Linked \cup {t} : deadline[u] = Wrap(rt_tick + key[u])
      BY <2>1 DEF key, deadline
    <3>3. /\ rt_tick \in 0..RT_TICK_MAX /\ rt_timer_list \in Seq(Timers)
          /\ LinkedOnce(rt_timer_list) /\ t \notin Linked
      BY <1>1, <1>7, <1>15
    <3> QED BY <3>1, <3>2, <3>3, InsertInOrder
  <2>4. rt_timer_list' = list
    BY <1>15 DEF deadline
  <2> HIDE DEF list
  <2>5. ListSorted'
    <3>1. SortedBy(rt_timer_list', left')
      BY <2>3, <2>4 DEF key
    <3> QED BY <2>3, <2>4, <3>1 DEF ListSorted, SortedBy
  <2> QED BY <2>3, <2>4, <2>5 DEF Linked
\* Steps of threads.
<1>16. ASSUME NEW c \in Threads, NEW t \in Timers, NEW time \in 1..MaxInit,
              NEW flag \in {"ONESHOT", "PERIODIC"}, TimerInit(c, t, time, flag)
       PROVE  TimerInv'
  <2> USE <1>16 DEF TimerInit, At, isr, calls
  <2>1. t \notin Linked /\ \A u \in Timers : Pending(u)' = Pending(u)
    BY <1>7 DEF Pending
  <2>2. ~Pending(t)
    BY <1>5 DEF Pending
  <2>3. Linked' = Linked /\ LinkedOnce(rt_timer_list)' /\ ListSorted'
    BY <1>7 DEF Linked, LinkedOnce, TimerInv, ListSorted
  <2>4. DeadlineIsLeft'
    BY <1>1, <1>8, <2>1, <2>2, <2>3 DEF DeadlineIsLeft
  <2>5. TypeOK'
    BY <1>1, <1>2, <1>3, <1>4, TickAssumption DEF TypeOK, RT_TICK_MAX
  <2>6. CallsKeepTheirTimer'
    BY <1>5, <2>3 DEF CallsKeepTheirTimer
  <2>7. ActiveIsLinked' /\ FiringIsUnlinked'
    BY <1>6, <1>7, <2>1, <2>3 DEF ActiveIsLinked, FiringIsUnlinked, Busy
  <2> QED BY <2>3, <2>4, <2>5, <2>6, <2>7 DEF TimerInv
<1>17. ASSUME NEW c \in Threads, NEW t \in Timers, TimerStart(c, t)
       PROVE  TimerInv'
  <2> USE <1>17 DEF TimerStart, Enter, Deadline, At, isr
  <2>1. t \notin Linked /\ t \in ThreadTimers[c] \cap objects /\ t # firing
    BY <1>6, <1>10, <1>12
  <2>2. Linked' = Linked /\ LinkedOnce(rt_timer_list)'
    BY <1>7 DEF Linked, LinkedOnce
  <2>3. ListSorted'
    <3>1. \A i \in 1..Len(rt_timer_list) : left'[rt_timer_list[i]] = left[rt_timer_list[i]]
      BY <1>1, <2>1 DEF Linked, ToSet
    <3>2. DOMAIN rt_timer_list' = 1..Len(rt_timer_list)
      BY <1>1
    <3> QED BY <1>9, <3>1, <3>2 DEF ListSorted, SortedBy
  <2>4. /\ init_tick[t] \in 1..MaxInit
        /\ TickAdd(rt_tick, init_tick[t]) = Wrap(rt_tick + init_tick[t])
        /\ TickAdd(rt_tick, init_tick[t]) \in 0..RT_TICK_MAX
    BY <1>1, DeadlineType
  <2>5. /\ left' \in [Timers -> (-MaxDelay - 1)..MaxInit]
        /\ left'[t] >= -MaxDelay
    BY <1>1, <2>4, TickAssumption
  <2>6. DeadlineIsLeft'
    <3>1. \A u \in Timers : u # t /\ Pending(u)' => Pending(u)
      BY <1>3 DEF Pending
    <3>2. timeout_tick'[t] = Wrap(rt_tick' + left'[t])
      BY <1>1, <2>4
    <3>3. \A u \in Timers : u # t => timeout_tick'[u] = timeout_tick[u] /\ left'[u] = left[u]
      BY <1>1
    <3> QED BY <1>1, <1>8, <2>1, <2>2, <2>5, <3>1, <3>2, <3>3 DEF DeadlineIsLeft
  <2>7. TypeOK'
    BY <1>1, <1>2, <1>3, <1>4, <2>4, <2>5 DEF TypeOK
  <2>8. CallsKeepTheirTimer'
    BY <1>3, <1>5, <2>1, <2>2 DEF CallsKeepTheirTimer
  <2>9. ActiveIsLinked' /\ FiringIsUnlinked'
    BY <1>3, <1>6, <1>7, <2>2 DEF ActiveIsLinked, FiringIsUnlinked, Busy
  <2> QED BY <2>3, <2>6, <2>7, <2>8, <2>9 DEF TimerInv
<1>18. ASSUME NEW c \in Threads, StartInsert(c)
       PROVE  TimerInv'
  <2> USE <1>18 DEF StartInsert, Return, At, isr
  <2>1. PICK t \in Timers : /\ t = obj[c] /\ t \in ThreadTimers[c] \cap objects
                            /\ t \notin Linked /\ Pending(t)
    BY <1>3, <1>5, <1>10 DEF Pending
  <2>2. timeout_tick'[t] = Wrap(rt_tick + left'[t]) /\ left[t] >= -MaxDelay
    BY <1>8, <2>1
  <2>3. rt_timer_list' = Insert(t, timeout_tick')
    BY <2>1
  <2>4. /\ ListSorted' /\ LinkedOnce(rt_timer_list)'
        /\ Linked' = Linked \cup {t} /\ rt_timer_list' \in Seq(Timers)
    BY <1>1, <1>15, <2>1, <2>2, <2>3
  <2>5. DeadlineIsLeft'
    <3>1. \A u \in Timers : Pending(u)' => Pending(u)
      BY <1>3 DEF Pending
    <3> QED BY <1>8, <2>1, <2>2, <2>4, <3>1 DEF DeadlineIsLeft
  <2>6. TypeOK'
    BY <1>1, <1>2, <1>3, <1>4, <2>1, <2>4 DEF TypeOK
  <2>7. CallsKeepTheirTimer'
    BY <1>3, <1>5, <1>11, <2>1, <2>4 DEF CallsKeepTheirTimer
  <2>8. ActiveIsLinked' /\ FiringIsUnlinked'
    BY <1>3, <1>6, <1>7, <2>1, <2>4 DEF ActiveIsLinked, FiringIsUnlinked, Busy
  <2> QED BY <2>4, <2>5, <2>6, <2>7, <2>8 DEF TimerInv
<1>19. ASSUME NEW c \in Threads, NEW t \in Timers, TimerStop(c, t)
       PROVE  TimerInv'
  <2> USE <1>19 DEF TimerStop, Enter, At, isr, timer
  <2>1. \A u \in Timers : Pending(u)' => Pending(u)
    BY <1>3 DEF Pending
  <2>2. DeadlineIsLeft' /\ ListSorted' /\ LinkedOnce(rt_timer_list)' /\ Linked' = Linked
    BY <1>13, <2>1
  <2>3. TypeOK'
    BY <1>1, <1>2, <1>3, <1>4 DEF TypeOK
  <2>4. CallsKeepTheirTimer'
    BY <1>3, <1>5, <2>2 DEF CallsKeepTheirTimer
  <2>5. ActiveIsLinked' /\ FiringIsUnlinked'
    BY <1>3, <1>6, <1>7, <2>2 DEF ActiveIsLinked, FiringIsUnlinked, Busy
  <2> QED BY <2>2, <2>3, <2>4, <2>5 DEF TimerInv
<1>20. ASSUME NEW c \in Threads, StopRemove(c)
       PROVE  TimerInv'
  <2> USE <1>20 DEF StopRemove, Goto, At, isr, timer
  <2>1. PICK t \in Timers : t = obj[c] /\ t \in ThreadTimers[c] \cap objects /\ t # firing
    BY <1>3, <1>5, <1>6, <1>10
  <2>2. \A u \in Timers : Pending(u)' => Pending(u)
    BY <1>3 DEF Pending
  <2>3. /\ DeadlineIsLeft' /\ ListSorted' /\ LinkedOnce(rt_timer_list)'
        /\ Linked' = Linked \ {t} /\ rt_timer_list' \in Seq(Timers)
    BY <1>14, <2>1, <2>2
  <2>4. TypeOK'
    BY <1>1, <1>2, <1>3, <1>4, <2>3 DEF TypeOK
  <2>5. CallsKeepTheirTimer'
    BY <1>3, <1>5, <2>1, <2>3 DEF CallsKeepTheirTimer
  <2>6. ActiveIsLinked' /\ FiringIsUnlinked'
    BY <1>3, <1>6, <1>7, <2>1, <2>3 DEF ActiveIsLinked, FiringIsUnlinked, Busy
  <2> QED BY <2>3, <2>4, <2>5, <2>6 DEF TimerInv
<1>21. ASSUME NEW c \in Threads, StopClear(c)
       PROVE  TimerInv'
  <2> USE <1>21 DEF StopClear, Return, At, isr
  <2>1. PICK t \in Timers : t = obj[c] /\ t \in ThreadTimers[c] \cap objects /\ t \notin Linked
    BY <1>3, <1>5, <1>10
  <2>2. \A u \in Timers : Pending(u)' => Pending(u)
    BY <1>3 DEF Pending
  <2>3. DeadlineIsLeft' /\ ListSorted' /\ LinkedOnce(rt_timer_list)' /\ Linked' = Linked
    BY <1>13, <2>2
  <2>4. TypeOK'
    BY <1>1, <1>2, <1>3, <1>4 DEF TypeOK
  <2>5. CallsKeepTheirTimer'
    BY <1>3, <1>5, <2>1, <2>3 DEF CallsKeepTheirTimer
  <2>6. ActiveIsLinked' /\ FiringIsUnlinked'
    BY <1>3, <1>6, <1>7, <2>1, <2>3 DEF ActiveIsLinked, FiringIsUnlinked, Busy
  <2> QED BY <2>3, <2>4, <2>5, <2>6 DEF TimerInv
<1>22. ASSUME NEW c \in Threads, NEW t \in Timers, NEW time \in 1..MaxInit, SetTime(c, t, time)
       PROVE  TimerInv'
  <2> USE <1>22 DEF SetTime, At, isr, calls
  <2>1. DeadlineIsLeft' /\ ListSorted' /\ LinkedOnce(rt_timer_list)' /\ Linked' = Linked
    BY <1>13 DEF Pending
  <2>2. TypeOK'
    BY <1>1, <1>2, <1>3, <1>4 DEF TypeOK
  <2>3. CallsKeepTheirTimer' /\ ActiveIsLinked' /\ FiringIsUnlinked'
    BY <1>5, <1>6, <1>7, <2>1 DEF CallsKeepTheirTimer, ActiveIsLinked, FiringIsUnlinked, Busy
  <2> QED BY <2>1, <2>2, <2>3 DEF TimerInv
<1>23. ASSUME NEW c \in Threads, NEW t \in Timers, NEW flag \in {"ONESHOT", "PERIODIC"},
              SetFlag(c, t, flag)
       PROVE  TimerInv'
  <2> USE <1>23 DEF SetFlag, Enter, At, isr, timer
  <2>1. t \notin activated /\ t \notin Linked /\ t # firing /\ t \in ThreadTimers[c] \cap objects
    BY <1>6, <1>10, <1>12 DEF Separate
  <2>2. \A u \in Timers : Pending(u)' => Pending(u)
    BY <1>3 DEF Pending
  <2>3. DeadlineIsLeft' /\ ListSorted' /\ LinkedOnce(rt_timer_list)' /\ Linked' = Linked
    BY <1>13, <2>2
  <2>4. loaded' = [loaded EXCEPT ![c] = FALSE]
    <3>1. (t \in activated) = FALSE
      BY <2>1
    <3>2. loaded' = [loaded EXCEPT ![c] = t \in activated]
      OBVIOUS
    <3> QED BY ONLY <3>1, <3>2, Zenon
  <2>5. TypeOK'
    BY <1>1, <1>2, <1>3, <1>4, <2>4 DEF TypeOK
  <2>6. CallsKeepTheirTimer'
    BY <1>3, <1>4, <1>5, <2>1, <2>3, <2>4 DEF CallsKeepTheirTimer
  <2>7. ActiveIsLinked' /\ FiringIsUnlinked'
    BY <1>3, <1>6, <1>7, <2>3 DEF ActiveIsLinked, FiringIsUnlinked, Busy
  <2> QED BY <2>3, <2>5, <2>6, <2>7 DEF TimerInv
<1>24. ASSUME NEW c \in Threads, StoreFlag(c)
       PROVE  TimerInv'
  <2> USE <1>24 DEF StoreFlag, Return, At, isr
  <2>1. PICK t \in Timers : t = obj[c] /\ t \notin activated
    BY <1>3, <1>5, <1>10
  <2>2. activated' = activated
    BY <1>5, <2>1
  <2>3. \A u \in Timers : Pending(u)' => Pending(u)
    BY <1>3 DEF Pending
  <2>4. DeadlineIsLeft' /\ ListSorted' /\ LinkedOnce(rt_timer_list)' /\ Linked' = Linked
    BY <1>13, <2>3
  <2>5. TypeOK'
    BY <1>1, <1>2, <1>3, <1>4, <2>1, <2>2 DEF TypeOK
  <2>6. CallsKeepTheirTimer'
    BY <1>3, <1>4, <1>5, <2>2, <2>4 DEF CallsKeepTheirTimer
  <2>7. ActiveIsLinked' /\ FiringIsUnlinked'
    BY <1>3, <1>6, <1>7, <2>2, <2>4 DEF ActiveIsLinked, FiringIsUnlinked, Busy
  <2> QED BY <2>4, <2>5, <2>6, <2>7 DEF TimerInv
<1>25. ASSUME NEW c \in Threads, NEW t \in Timers, TimerDetach(c, t)
       PROVE  TimerInv'
  <2> USE <1>25 DEF TimerDetach, Enter, At, isr, timer
  <2>1. t # firing /\ t \in ThreadTimers[c] \cap objects
    BY <1>6, <1>10
  <2>2. \A u \in Timers : Pending(u)' => Pending(u)
    BY <1>3 DEF Pending
  <2>3. /\ DeadlineIsLeft' /\ ListSorted' /\ LinkedOnce(rt_timer_list)'
        /\ Linked' = Linked \ {t} /\ rt_timer_list' \in Seq(Timers)
    BY <1>14, <2>2
  <2>4. TypeOK'
    BY <1>1, <1>2, <1>3, <1>4, <2>3 DEF TypeOK
  <2>5. CallsKeepTheirTimer'
    BY <1>3, <1>5, <2>1, <2>3 DEF CallsKeepTheirTimer
  <2>6. ActiveIsLinked' /\ FiringIsUnlinked'
    BY <1>3, <1>6, <1>7, <2>3 DEF ActiveIsLinked, FiringIsUnlinked, Busy
  <2> QED BY <2>3, <2>4, <2>5, <2>6 DEF TimerInv
<1>26. ASSUME NEW c \in Threads, DetachObject(c)
       PROVE  TimerInv'
  <2> USE <1>26 DEF DetachObject, Return, At, isr
  <2>1. PICK t \in Timers : t = obj[c] /\ t \in ThreadTimers[c] \cap objects /\ t \notin Linked
    BY <1>3, <1>5, <1>10
  <2>2. \A u \in Timers : Pending(u)' => Pending(u)
    BY <1>3 DEF Pending
  <2>3. DeadlineIsLeft' /\ ListSorted' /\ LinkedOnce(rt_timer_list)' /\ Linked' = Linked
    BY <1>13, <2>2
  <2>4. TypeOK'
    BY <1>1, <1>2, <1>3, <1>4 DEF TypeOK
  <2>5. CallsKeepTheirTimer'
    BY <1>3, <1>4, <1>5, <1>11, <2>1, <2>3 DEF CallsKeepTheirTimer
  <2>6. ActiveIsLinked' /\ FiringIsUnlinked'
    BY <1>3, <1>6, <1>7, <2>1, <2>3 DEF ActiveIsLinked, FiringIsUnlinked, Busy
  <2> QED BY <2>3, <2>4, <2>5, <2>6 DEF TimerInv
\* Steps of the tick interrupt.
<1>27. ASSUME TickIncrease
       PROVE  TimerInv'
  <2> USE <1>27 DEF TickIncrease, timer, calls
  <2>1. \A t \in Timers : /\ left[t] \in (-MaxDelay - 1)..MaxInit
                          /\ TickAdd(rt_tick, 1) \in 0..RT_TICK_MAX
                          /\ Wrap(TickAdd(rt_tick, 1) + (left[t] - 1)) = Wrap(rt_tick + left[t])
    BY <1>1, TickKeepsDeadline
  <2>2. \A t \in Timers : Pending(t)' = Pending(t)
    BY DEF Pending
  <2>3. Linked' = Linked /\ LinkedOnce(rt_timer_list)' /\ Linked \subseteq Timers
    BY <1>1, <1>7 DEF Linked, LinkedOnce, ToSet
  <2>4. \A t \in Timers : t \in Linked \/ Pending(t) => left[t] > -MaxDelay - 1
    BY <1>1, <1>8, <2>3, TickAssumption
  <2>5. left' \in [Timers -> (-MaxDelay - 1)..MaxInit]
    BY <1>1, <2>1, <2>4, TickAssumption
  <2>6. \A t \in Timers : t \in Linked \/ Pending(t) => left'[t] = left[t] - 1
    OBVIOUS
  <2>7. ListSorted'
    <3>1. \A i \in 1..Len(rt_timer_list) :
            /\ left'[rt_timer_list[i]] = left[rt_timer_list[i]] - 1
            /\ left[rt_timer_list[i]] \in Int
      BY <1>1, <2>6, TickAssumption DEF Linked, ToSet
    <3>2. DOMAIN rt_timer_list' = 1..Len(rt_timer_list)
      BY <1>1
    <3>3. \A i, j \in 1..Len(rt_timer_list) :
              i < j => left[rt_timer_list[i]] <= left[rt_timer_list[j]]
      BY <1>9 DEF SortedBy
    <3>4. \A i, j \in 1..Len(rt_timer_list) :
              i < j => left'[rt_timer_list[i]] <= left'[rt_timer_list[j]]
      BY <3>1, <3>3
    <3>5. rt_timer_list' = rt_timer_list
      OBVIOUS
    <3> QED BY ONLY <3>2, <3>4, <3>5 DEF ListSorted
  <2>8. DeadlineIsLeft'
    <3>1. \A t \in Timers : t \in Linked \/ Pending(t) => timeout_tick[t] = Wrap(rt_tick' + left'[t])
      BY <1>8, <2>1, <2>6
    <3>2. \A t \in Timers : Pending(t) => left'[t] >= -MaxDelay
      BY <1>1, <2>6, TickAssumption
    <3> QED BY <2>2, <2>3, <3>1, <3>2 DEF DeadlineIsLeft
  <2>9. TypeOK'
    <3>1. rt_tick' \in 0..RT_TICK_MAX
      BY <1>1, TickAssumption DEF TickAdd, RT_TICK_MAX
    <3> QED BY <1>1, <1>2, <1>3, <1>4, <2>5, <3>1 DEF TypeOK
  <2>10. CallsKeepTheirTimer' /\ ActiveIsLinked' /\ FiringIsUnlinked'
    BY <1>5, <1>6, <1>7, <2>3 DEF CallsKeepTheirTimer, ActiveIsLinked, FiringIsUnlinked, Busy
  <2> QED BY <2>7, <2>8, <2>9, <2>10 DEF TimerInv
<1>28. ASSUME Expire
       PROVE  TimerInv'
  <2> USE <1>28 DEF Expire, rt_list_isempty, timer, calls
  <2>1. PICK t \in Timers : t = Head(rt_timer_list)
    BY <1>1
  <2>2. /\ rt_timer_list' \in Seq(Timers) /\ t \in Linked
        /\ Linked' = Linked \ {t} /\ LinkedOnce(rt_timer_list)'
    BY <1>1, <1>7, <2>1, TailMembers DEF Linked
  <2>3. ListSorted'
    <3>1. SortedBy(rt_timer_list', left)
      BY <1>1, <1>9, TailSorted
    <3> QED BY <2>2, <3>1 DEF ListSorted, SortedBy
  <2>4. DeadlineIsLeft'
    BY <1>8, <2>2 DEF DeadlineIsLeft, Pending
  <2>5. TypeOK'
    BY <1>1, <1>2, <1>3, <1>4, <2>1, <2>2 DEF TypeOK
  <2>6. CallsKeepTheirTimer'
    BY <1>5, <2>1, <2>2 DEF CallsKeepTheirTimer
  <2>7. ActiveIsLinked' /\ FiringIsUnlinked'
    BY <1>6, <1>7, <2>1, <2>2 DEF ActiveIsLinked, FiringIsUnlinked, Busy
  <2> QED BY <2>3, <2>4, <2>5, <2>6, <2>7 DEF TimerInv
<1>29. ASSUME NEW t \in Timers, CallbackStart(t)
       PROVE  TimerInv'
  <2> USE <1>29 DEF CallbackStart, Deadline, isr, calls
  <2>1. t # firing /\ t \in objects /\ t \in CallbackStarts /\ t \notin activated
    BY DEF Separate
  <2>2. \A c \in Threads : pc[c] # "run" => obj[c] # t
    BY <1>5, <1>11, <2>1
  <2>3. ~Busy(t) /\ ~Pending(t)
    BY <2>1, <2>2 DEF Busy, Pending
  <2>4. t \notin Linked
    BY <1>7, <2>1, <2>3
  <2>5. /\ init_tick[t] \in 1..MaxInit
        /\ TickAdd(rt_tick, init_tick[t]) = Wrap(rt_tick + init_tick[t])
        /\ TickAdd(rt_tick, init_tick[t]) \in 0..RT_TICK_MAX
    BY <1>1, DeadlineType
  <2>6. /\ left' \in [Timers -> (-MaxDelay - 1)..MaxInit]
        /\ timeout_tick' \in [Timers -> 0..RT_TICK_MAX]
        /\ timeout_tick'[t] = Wrap(rt_tick + left'[t])
        /\ \A u \in Timers \ {t} : timeout_tick'[u] = timeout_tick[u] /\ left'[u] = left[u]
    BY <1>1, <2>5, TickAssumption
  <2>7. Linked \subseteq Timers \ {t}
    BY <1>1, <2>4 DEF Linked, ToSet
  <2>8. /\ ListSorted' /\ LinkedOnce(rt_timer_list)'
        /\ Linked' = Linked \cup {t} /\ rt_timer_list' \in Seq(Timers)
    BY <1>15, <2>4, <2>6, <2>7
  <2>9. DeadlineIsLeft'
    <3>1. \A u \in Timers : Pending(u)' = Pending(u)
      BY DEF Pending
    <3> QED BY <1>8, <2>3, <2>6, <2>8, <3>1 DEF DeadlineIsLeft
  <2>10. TypeOK'
    BY <1>1, <1>2, <1>3, <1>4, <2>6, <2>8 DEF TypeOK
  <2>11. CallsKeepTheirTimer'
    BY <1>5, <2>2, <2>8 DEF CallsKeepTheirTimer
  <2>12. ActiveIsLinked' /\ FiringIsUnlinked'
    BY <1>6, <1>7, <2>1, <2>8 DEF ActiveIsLinked, FiringIsUnlinked, Busy
  <2> QED BY <2>8, <2>9, <2>10, <2>11, <2>12 DEF TimerInv
<1>30. ASSUME NEW t \in Timers, CallbackStop(t)
       PROVE  TimerInv'
  <2> USE <1>30 DEF CallbackStop, isr, calls
  <2>1. \A u \in Timers : Pending(u)' => Pending(u)
    BY DEF Pending
  <2>2. /\ DeadlineIsLeft' /\ ListSorted' /\ LinkedOnce(rt_timer_list)'
        /\ Linked' = Linked \ {t} /\ rt_timer_list' \in Seq(Timers)
    BY <1>14, <2>1
  <2>3. TypeOK'
    BY <1>1, <1>2, <1>3, <1>4, <2>2 DEF TypeOK
  <2>4. CallsKeepTheirTimer'
    BY <1>5, <2>2 DEF CallsKeepTheirTimer
  <2>5. ActiveIsLinked' /\ FiringIsUnlinked'
    BY <1>6, <1>7, <2>2 DEF ActiveIsLinked, FiringIsUnlinked, Busy
  <2> QED BY <2>2, <2>3, <2>4, <2>5 DEF TimerInv
<1>31. ASSUME NEW time \in 1..MaxInit, NEW flag \in {"ONESHOT", "PERIODIC"},
              CallbackControl(time, flag)
       PROVE  TimerInv'
  <2> USE <1>31 DEF CallbackControl, isr, calls
  <2>1. DeadlineIsLeft' /\ ListSorted' /\ LinkedOnce(rt_timer_list)' /\ Linked' = Linked
    BY <1>13 DEF Pending
  <2>2. TypeOK'
    BY <1>1, <1>2, <1>3, <1>4, <1>6 DEF TypeOK
  <2>3. CallsKeepTheirTimer' /\ ActiveIsLinked' /\ FiringIsUnlinked'
    BY <1>5, <1>6, <1>7, <2>1 DEF CallsKeepTheirTimer, ActiveIsLinked, FiringIsUnlinked, Busy
  <2> QED BY <2>1, <2>2, <2>3 DEF TimerInv
<1>32. ASSUME Restart
       PROVE  TimerInv'
  <2> USE <1>32 DEF Restart, Deadline, calls
  <2>1. PICK t \in Timers : t = firing /\ t \in objects \ Linked /\ t \in activated
    BY <1>2, <1>6
  <2>2. ~Pending(t)
    BY <1>5, <2>1 DEF Pending
  <2>3. /\ init_tick[t] \in 1..MaxInit
        /\ TickAdd(rt_tick, init_tick[t]) = Wrap(rt_tick + init_tick[t])
        /\ TickAdd(rt_tick, init_tick[t]) \in 0..RT_TICK_MAX
    BY <1>1, DeadlineType
  <2>4. /\ left' \in [Timers -> (-MaxDelay - 1)..MaxInit]
        /\ timeout_tick' \in [Timers -> 0..RT_TICK_MAX]
        /\ timeout_tick'[t] = Wrap(rt_tick + left'[t])
        /\ \A u \in Timers \ {t} : timeout_tick'[u] = timeout_tick[u] /\ left'[u] = left[u]
    BY <1>1, <2>1, <2>3, TickAssumption
  <2>5. Linked \subseteq Timers \ {t} /\ rt_timer_list' = Insert(t, timeout_tick')
    BY <1>1, <2>1 DEF Linked, ToSet
  <2>6. /\ ListSorted' /\ LinkedOnce(rt_timer_list)'
        /\ Linked' = Linked \cup {t} /\ rt_timer_list' \in Seq(Timers)
    BY <1>15, <2>1, <2>4, <2>5
  <2>7. DeadlineIsLeft'
    <3>1. \A u \in Timers : Pending(u)' = Pending(u)
      BY DEF Pending
    <3> QED BY <1>8, <2>2, <2>4, <2>6, <3>1 DEF DeadlineIsLeft
  <2>8. TypeOK'
    BY <1>1, <1>2, <1>3, <1>4, <2>4, <2>6 DEF TypeOK
  <2>9. CallsKeepTheirTimer'
    BY <1>5, <1>10, <2>1, <2>6 DEF CallsKeepTheirTimer
  <2>10. ActiveIsLinked' /\ FiringIsUnlinked'
    BY <1>6, <1>7, <2>1, <2>6 DEF ActiveIsLinked, FiringIsUnlinked, Busy
  <2> QED BY <2>6, <2>7, <2>8, <2>9, <2>10 DEF TimerInv
<1>33. ASSUME ExpireEnd
       PROVE  TimerInv'
  <2> USE <1>33 DEF ExpireEnd, calls
  <2>1. Linked' = Linked /\ LinkedOnce(rt_timer_list)' /\ ListSorted'
    BY <1>7 DEF Linked, LinkedOnce, TimerInv, ListSorted
  <2>2. DeadlineIsLeft'
    BY <1>8, <2>1 DEF DeadlineIsLeft, Pending
  <2>3. TypeOK'
    BY <1>1, <1>2, <1>3, <1>4 DEF TypeOK
  <2>4. CallsKeepTheirTimer'
    BY <1>5, <1>10, <2>1 DEF CallsKeepTheirTimer
  <2>5. ActiveIsLinked' /\ FiringIsUnlinked'
    BY <1>6, <1>7, <2>1 DEF ActiveIsLinked, FiringIsUnlinked, Busy
  <2> QED BY <2>1, <2>2, <2>3, <2>4, <2>5 DEF TimerInv
<1>34. ASSUME TickEnd
       PROVE  TimerInv'
  <2> USE <1>34 DEF TickEnd, rt_list_isempty, timer, calls
  <2>1. Linked' = Linked /\ LinkedOnce(rt_timer_list)' /\ ListSorted'
    BY <1>7 DEF Linked, LinkedOnce, TimerInv, ListSorted
  <2>2. \A t \in Linked : left[t] > 0
    BY TickEndLeavesNone, <1>34
  <2>3. DeadlineIsLeft'
    <3>1. \A t \in Linked : left[t] >= -MaxDelay
      <4>1. Linked \subseteq Timers
        BY <1>1 DEF Linked, ToSet
      <4>2. \A t \in Timers : left[t] > 0 => left[t] >= -MaxDelay
        BY <1>1, TickAssumption
      <4> QED BY <2>2, <4>1, <4>2
    <3> QED BY <1>8, <2>1, <3>1 DEF DeadlineIsLeft, Pending
  <2>4. TypeOK'
    BY <1>1, <1>2, <1>3, <1>4 DEF TypeOK
  <2>5. CallsKeepTheirTimer' /\ ActiveIsLinked' /\ FiringIsUnlinked'
    BY <1>5, <1>6, <1>7, <2>1 DEF CallsKeepTheirTimer, ActiveIsLinked, FiringIsUnlinked, Busy
  <2> QED BY <2>1, <2>3, <2>4, <2>5 DEF TimerInv
<1>35. ASSUME UNCHANGED vars
       PROVE  TimerInv'
  <2> USE <1>35 DEF vars, timer, isr, calls
  <2>1. DeadlineIsLeft' /\ ListSorted' /\ LinkedOnce(rt_timer_list)' /\ Linked' = Linked
    BY <1>13 DEF Pending
  <2>2. TypeOK'
    BY <1>1, <1>2, <1>3, <1>4 DEF TypeOK
  <2>3. CallsKeepTheirTimer' /\ ActiveIsLinked' /\ FiringIsUnlinked'
    BY <1>5, <1>6, <1>7, <2>1 DEF CallsKeepTheirTimer, ActiveIsLinked, FiringIsUnlinked, Busy
  <2> QED BY <2>1, <2>2, <2>3 DEF TimerInv
<1>36. ASSUME NEW c \in Threads, ThreadStep(c)
       PROVE  TimerInv'
  BY <1>16, <1>17, <1>18, <1>19, <1>20, <1>21, <1>22, <1>23, <1>24, <1>25, <1>26, <1>36
     DEF ThreadStep, Continue
<1> QED
  BY <1>27, <1>28, <1>29, <1>30, <1>31, <1>32, <1>33, <1>34, <1>35, <1>36
     DEF Next, Callback, TimerCheck

-----------------------------------------------------------------------------
\* ... and so it holds in every reachable state.
LEMMA TimerAlways == Separate => (Spec => []TimerInv)
<1> SUFFICES ASSUME Separate PROVE Spec => []TimerInv
  OBVIOUS
<1>1. TimerInv /\ [Next]_vars => TimerInv'
  BY TimerStep
<1> QED BY <1>1, TimerInitially, PTL DEF Spec

\* The list of rt_timer_list stays in the order of the time the timers have
\* left, whatever the width of the tick counter and wherever it wraps.
THEOREM TimerOrder == Separate => (Spec => []ListSorted)
<1> SUFFICES ASSUME Separate PROVE Spec => []ListSorted
  OBVIOUS
<1>1. TimerInv => ListSorted
  BY DEF TimerInv
<1>2. Spec => []TimerInv
  BY TimerAlways
<1> QED BY <1>1, <1>2, PTL

\* RT_TIMER_FLAG_ACTIVATED tells the truth about the list while a tick may
\* interrupt rt_timer_start and rt_timer_stop between their sections.
THEOREM TimerFlagTrue == Separate => (Spec => []ActiveIsLinked)
<1> SUFFICES ASSUME Separate PROVE Spec => []ActiveIsLinked
  OBVIOUS
<1>1. TimerInv => ActiveIsLinked
  BY DEF TimerInv
<1>2. Spec => []TimerInv
  BY TimerAlways
<1> QED BY <1>1, <1>2, PTL

\* rt_timer_check fires no timer before its time and leaves none that is due.
THEOREM TimerFiresOnTime == Separate => (Spec => FiresOnTime)
<1> SUFFICES ASSUME Separate PROVE Spec => FiresOnTime
  OBVIOUS
<1>1. ASSUME TimerInv, [Next]_vars
      PROVE  [/\ Expire => left[Head(rt_timer_list)] <= 0
              /\ TickEnd => \A t \in Linked : left[t] > 0]_vars
  <2>1. ASSUME Expire PROVE left[Head(rt_timer_list)] <= 0
    BY <1>1, <2>1, ExpireIsDue
  <2>2. ASSUME TickEnd PROVE \A t \in Linked : left[t] > 0
    BY <1>1, <2>2, TickEndLeavesNone
  <2> QED BY <2>1, <2>2
<1>2. Spec => []TimerInv
  BY TimerAlways
<1> QED BY <1>1, <1>2, PTL DEF Spec, FiresOnTime
=============================================================================
