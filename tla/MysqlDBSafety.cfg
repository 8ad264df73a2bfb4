\* Three requests, two of one key, on two connections.
CONSTANTS
    t1 = t1
    t2 = t2
    t3 = t3
    Tasks <- ThreeTasks
    Key <- TwoKeys
    CfgConnNum = 2
SPECIFICATION Spec
INVARIANTS
    TypeOK
    AtMostOnce
    KeyOrder
    FlushTakenDone
    SecondFlushCovers
    DestroyDrains
    DestroyNeverEarly
    IInv
PROPERTY ImplementsAsyncDB
\* The object is gone after Destroy.
CHECK_DEADLOCK FALSE
