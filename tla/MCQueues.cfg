SPECIFICATION QueueSpec
CONSTANTS
    p1 = p1 p2 = p2 c = c o = o t1 = t1 t2 = t2 u1 = u1 u2 = u2 u3 = u3
    u4 = u4 l1 = l1 l2 = l2 l3 = l3 None = None
INVARIANTS
    SpmcSafe PoolCounted TimersSound PoisonSafe BlocksSafe
PROPERTIES
    TimerFires QueuesFifo
