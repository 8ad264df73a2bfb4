\* "flush all async tasks and wait tasks finish" (IDBMgr.h:36).
CONSTANTS
    t1 = t1
    t2 = t2
    t3 = t3
    Tasks <- TwoTasks
    Key <- OneKey
    CfgConnNum = 2
SPECIFICATION Spec
INVARIANT FlushWaitsAll
CHECK_DEADLOCK FALSE
