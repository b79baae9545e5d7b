\* AND and OR receivers, with and without clearing.
SPECIFICATION EventSpec
CONSTANTS
    a = a
    b = b
    Threads = {a, b}
    PrioFlag = FALSE
    Bits = {1, 2}
    TimedReceivers = {a}
    Resetters = {b}
    Prio <- MCPrio
INVARIANTS
    NoSatisfiedWaiter
    ReceivesWhatItWanted
PROPERTIES
    ClearedOnce
