\* One thread resumes and reprioritises two that suspend each other or sleep.
SPECIFICATION Spec
CONSTANTS
    NoThread = NoThread
    init = init
    t1 = t1
    t2 = t2
    idle = idle
    Threads = {init, t1, t2, idle}
    Idle = idle
    PriorityMax = 3
    Dynamic = {init, t1}
    MaxSleep = 1
    MaxNest = 1
    Starters = {init}
    Yielders = {}
    Sleepers = {t2}
    Suspenders = {t1, t2}
    Suspendable = {t1, t2}
    Resumers = {init}
    Lockers = {}
    Exiters = {}
    Deleters = {}
    Deletable = {}
    PriorityChangers = {init}
    InitPriority <- MCPriority
    InitTick <- MCTick
    InitTable <- MCTable
INVARIANTS
    ListsMatchStat
    TypeOK
    ReadyThreadsVisible
    BitsNotStale
    RunsHighest
    TimeoutAssertion
