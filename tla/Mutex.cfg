\* One mutex, waits with timeouts.
SPECIFICATION FairSpec
CONSTANTS
    high = high
    mid = mid
    low = low
    Threads = {high, mid, low}
    NoThread = NoThread
    PrioFlag = TRUE
    Mutexes = {1}
    MaxHold = 2
    TimedTakers = {high, mid}
    Sleepers = {high, mid, low}
    InnerFirst = TRUE
    Prio <- MCPrio
INVARIANTS
    OwnerConsistent
    OwnerInherits
    PriorityRestored
PROPERTIES
    UrgentThreadServed
