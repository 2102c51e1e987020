SPECIFICATION FairSpec
CONSTANTS
    c1 = c1
    c2 = c2
    i1 = i1
    i2 = i2
    Clients <- OneClient
    Imports <- TwoImports
    Owner <- BothOwner
    Called <- NoImports
    Undescribed <- OneImport
    Levels <- AnyLevel
PROPERTIES
    LeavingReleases
CHECK_DEADLOCK FALSE
