\* A primary key of two columns.
CONSTANTS
    r1 = r1
    r2 = r2
    NumFields = 3
    MaxVal = 1
    Handles <- OneRecord
    Schemas <- CompositeSchema
SPECIFICATION Spec
PROPERTY WritesOwnEditsOnly
