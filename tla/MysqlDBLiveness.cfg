\* Liveness, under fairness of the threads and of the service loop.
CONSTANTS
    t1 = t1
    t2 = t2
    t3 = t3
    Tasks <- TwoTasks
    Key <- OneKey
    CfgConnNum = 2
SPECIFICATION FairSpec
PROPERTIES
    EveryRequestExecuted
    EveryCallback
    FlushReturns
    CleanDestroyReturns
CHECK_DEADLOCK FALSE
