\* A pool created and deleted in a heap that another thread uses, with one thread
\* that waits for blocks.
SPECIFICATION Spec
CONSTANTS
    waiter = waiter
    user = user
    manager = manager
    Threads = {waiter, user, manager}
    Prio <- MCPrio
    PrioFlag = FALSE
    Callers = {user, manager}
    NoThread = NoThread
    Nowhere = Nowhere
    MemSize = 11
    HeaderSize = 1
    MinSize = 2
    Sizes = {0, 1, 2, 4}
    MaxBlocks = 2
    BlockCount = 2
    NoOwner = NoOwner
    Users = {waiter, user}
    Waiters = {waiter}
    Managers = {manager}
    HeapUsers = {user}
    ObjectSize = 2
    RoomSize = 4
INVARIANTS
    HeapConsistent
    PoolConsistent
    
    NoLeak
PROPERTIES
    ImplementsAllocator
