\* Two connections, three selections, results of up to two rows.
CONSTANTS
    c1 = c1
    c2 = c2
    Conns <- TwoConns
    Columns <- MCColumns
    KeyOf <- MCKeyOf
    Definitions <- MCDefinitions
    Selections <- MCSelections
    MaxRows = 2
    MaxInfos = 2
    Texts <- MCTexts
    Null = "NULL"
    Empty = ""
    Holds <- MCHolds
    LeadingInt <- MCLeadingInt
    LengthOf <- MCLengthOf
    Width <- MCWidth
    Mantissa = 4
SPECIFICATION Spec
INVARIANTS TypeOK InfoOwned BetweenCalls ReadsBack
PROPERTY InfoNeverChanges
SYMMETRY Interchangeable
