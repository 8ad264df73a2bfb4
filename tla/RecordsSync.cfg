\* Two copies of the rows of a table with a one-column key, or none.
CONSTANTS
    r1 = r1
    r2 = r2
    NumFields = 3
    MaxVal = 1
    Handles <- TwoRecords
    Schemas <- SimpleSchemas
SPECIFICATION Spec
INVARIANTS TypeOK Synced
PROPERTY WritesOwnEditsOnly
SYMMETRY Interchangeable
