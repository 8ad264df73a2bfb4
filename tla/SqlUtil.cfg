\* Every record of thirteen tables (there is none of the one with a YEAR), a `long` of
\* as many bits as a LONG.
CONSTANTS
    Width <- MCWidth
    Mantissa = 3
    Tables <- MCTables
    Numbers <- MCNumbers
    Doubles <- MCDoubles
    Texts <- MCTexts
    HalfWord = 128
    NumLen = 3
    Slack = 15
    NameMax = 6
    CondSize = 60
    NumberMax = 3
    Decimals = 1
    Unit = 100
    MaxExp = 7
    LongBits = 4
SPECIFICATION Spec
INVARIANTS
    TypeOK
    BufferHolds
    AllChanged
    SavedIsSet
    ConditionNamesKey
    AssertsOnlyKnown
\* A failed assertion ends the program.
CHECK_DEADLOCK FALSE
