\* Threads that start, yield, sleep, exit, lock the scheduler and delete a thread that does not sleep.
SPECIFICATION FairSpec
CONSTANTS
    NoThread = NoThread
    init = init
    t1 = t1
    t2 = t2
    idle = idle
    Threads = {init, t1, t2, idle}
    Idle = idle
    PriorityMax = 3
    Dynamic = {t1, t2}
    MaxSleep = 1
    MaxNest = 2
    Starters = {init}
    Yielders = {t1}
    Sleepers = {init, t1}
    Suspenders = {}
    Suspendable = {}
    Resumers = {}
    Lockers = {init, t2}
    Exiters = {init, t1}
    Deleters = {init}
    Deletable = {t2}
    PriorityChangers = {}
    InitPriority <- MCPriority
    InitTick <- MCTick
    InitTable <- MCTable
INVARIANTS
    NoUseAfterFree
PROPERTIES
    
    RoundRobin
