\* Two senders, two receivers and a reset on a queue of two messages.
SPECIFICATION Spec
CONSTANTS
    a = a
    b = b
    c = c
    Threads = {a, b, c}
    PrioFlag = TRUE
    Messages = {m1, m2}
    NoMessage = NoMessage
    MaxMsgs = 2
    Null = Null
    TimedReceivers = {b}
    Senders = {a, b}
    Receivers = {b, c}
    Resetters = {a}
    Prio <- MCPrio
INVARIANTS
    SlotsPartitioned
    NoLostWakeup

    
