SPECIFICATION Spec
CONSTANTS
    a1 = a1
    a2 = a2
    b1 = b1
    b2 = b2
    c = c
    NoFile = NoFile
    NoMessage = NoMessage
    Messages <- FiveMessages
    SizeOf <- FiveSizes
    BytesOf <- FiveBytes
    BytesPerUnit = 2
    Earlier <- BigEarlier
    FileSize = 4
    FileCount = 3
    Failing <- NoSizeFailure
    MaxStarts = 2
SYMMETRY SizeSymmetry
INVARIANTS
    TypeOK
    SizeBound
PROPERTIES
    OnlyOldestDropped
    ImplementsWindow
CHECK_DEADLOCK FALSE
