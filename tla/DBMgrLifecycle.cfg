\* Every short ini file, three names, up to four objects.
CONSTANTS
    NumNames = 3
    MaxObjects = 4
    MaxDue = 2
    Configs <- ShortConfigs
SPECIFICATION FairSpec
INVARIANTS
    TypeOK
    ConfigInForce
    RunningIsOwned
    FrameServesAll
    CallbackOwnerLives
PROPERTIES
    EveryDatabaseUpdated
\* The component is gone after OnDestroy.
CHECK_DEADLOCK FALSE
