\* Two producers and two consumers, any mix of the operations; no help from the
\* timeout for TaskServed.
CONSTANTS
    t1 = t1
    t2 = t2
    p1 = p1
    p2 = p2
    c1 = c1
    c2 = c2
    Free = Free
    Tasks <- TwoTasks
    Producers <- TwoProducers
    Consumers <- TwoConsumers
SPECIFICATION FairSpec
INVARIANTS
    TypeOK
    NoLostWakeup
PROPERTIES
    ImplementsTaskQueue
    TaskServed
