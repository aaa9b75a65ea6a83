SPECIFICATION Spec
CONSTANTS
    t1 = t1
    t2 = t2
    t3 = t3
    t4 = t4
    k1 = k1
    k2 = k2
    k3 = k3
    Threads <- FourThreads
    Keys <- ThreeKeys
    NoKey = NoKey
    NoThread = NoThread
    Fallback = Fallback
    NumSlots = 2
PROPERTIES
    OverflowOnlyWhenCrowded
    ImplementsTargetMutex
    Drains
