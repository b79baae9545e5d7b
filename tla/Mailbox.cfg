\* Senders and receivers that wait, with and without timeouts.
SPECIFICATION FairSpec
CONSTANTS
    a = a
    b = b
    c = c
    Threads = {a, b, c}
    PrioFlag = FALSE
    Messages = {m1, m2}
    NoMessage = NoMessage
    Size = 2
    MaxTimeout = 1
    Forever = Forever
    Senders = {a, b}
    Receivers = {b, c}
    Resetters = {a}
    Timeouts = {1, Forever}
    Prio <- MCPrio
INVARIANTS
    NoLostWakeup
PROPERTIES
    
    TimedWaitEnds
