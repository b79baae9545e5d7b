\* The same instance as DataQueue.cfg: a push that gives up leaves the low water
\* mark wanted by nobody.
SPECIFICATION DataQueueSpec
CONSTANTS
    source = source
    sink1 = sink1
    sink2 = sink2
    manager = manager
    Threads = {source, sink1, sink2, manager}
    Prio <- MCPrio
    PrioFlag = FALSE
    Items = {m1, m2}
    NoItem = NoItem
    QueueSize = 2
    Lwm = 0
    IndexMod = 8
    MaxIndex = 6
    Pushers = {source}
    Poppers = {sink1, sink2}
    QueueResetters = {manager}
    PushTimed = {TRUE, FALSE}
    PopTimed = {TRUE, FALSE}
    IsrPushes = TRUE
INVARIANTS
    InterruptsRestored
CHECK_DEADLOCK FALSE
