\* Destroy waits for the threads to exit (Database.cpp:117).
CONSTANTS
    t1 = t1
    t2 = t2
    t3 = t3
    Tasks <- TwoTasks
    Key <- OneKey
    CfgConnNum = 2
SPECIFICATION FairSpec
PROPERTY DestroyReturns
CHECK_DEADLOCK FALSE
