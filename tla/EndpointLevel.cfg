SPECIFICATION Spec
CONSTANTS
    c1 = c1
    c2 = c2
    i1 = i1
    i2 = i2
    Clients <- OneClient
    Undescribed <- NoImports
    Levels <- AnyLevel
    Imports <- OneImport
    Owner <- OneOwner
    Called <- NoImports
INVARIANT
    EveryLibraryIsFinalized
CHECK_DEADLOCK FALSE
