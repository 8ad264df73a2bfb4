\* DestroyDatabase of a database that is registered.
CONSTANTS
    NumNames = 2
    MaxObjects = 2
    MaxDue = 1
    Configs <- OneDatabase
SPECIFICATION Spec
INVARIANT DestroyDatabaseDestroys
CHECK_DEADLOCK FALSE
