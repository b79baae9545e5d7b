\* Takes with and without timeouts, releases, a reset and a deletion.
\* Once the semaphore is deleted nobody uses it, so the behaviour may stop.
SPECIFICATION FairSpec
CONSTANTS
    a = a
    b = b
    c = c
    d = d
    Threads = {a, b, c, d}
    PrioFlag = TRUE
    InitValue = 1
    ValueMod = 4
    MaxTokens = 2
    TimedTakers = {a, c}
    Resetters = {d}
    Deleters = {d}
    Prio <- MCPrio
INVARIANTS
    WaitersConsistent
    NoWaiterWhileAvailable
    TokensConserved

    
CHECK_DEADLOCK FALSE
