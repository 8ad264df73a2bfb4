\* One connection, a string column, results of up to two rows.
CONSTANTS
    c1 = c1
    c2 = c2
    Conns <- OneConn
    Columns <- MCColumns
    KeyOf <- MCKeyOf
    Definitions <- MCDefinitions
    Selections <- NameOnly
    MaxRows = 2
    MaxInfos = 1
    Texts <- MCTexts
    Null = "NULL"
    Empty = ""
    Holds <- MCHolds
    LeadingInt <- MCLeadingInt
    LengthOf <- MCLengthOf
    Width <- MCWidth
    Mantissa = 4
SPECIFICATION Spec
INVARIANT StringsReadBack
