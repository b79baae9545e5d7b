\* A thread with a timer, and a second timer that timeout functions start.
SPECIFICATION FairSpec
CONSTANTS
    a = a
    x = x
    z = z
    Timers = {x, z}
    NoTimer = NoTimer
    Threads = {a}
    CallbackStarts = {z}
    SelfRestart = FALSE
    ControlActive = FALSE
    TickMod = 11
    MaxInit = 2
    MaxDelay = 1
    ThreadTimers <- MCThreadTimers
INVARIANTS
    ListSorted
    ActiveIsLinked
PROPERTIES
    FiresOnTime
    ActiveTimersFire
