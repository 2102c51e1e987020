SPECIFICATION Spec
CONSTANTS
    c1 = c1
    c2 = c2
    i1 = i1
    i2 = i2
    Clients <- TwoClients
    Undescribed <- NoImports
    Levels <- KnownLevel
    Imports <- TwoImports
    Owner <- PairOwner
    Called <- OneImport
INVARIANTS
    TypeOK
    ImportedLibraryIsUsable
    NoLibraryForgotten
    FinalizedOnce
CHECK_DEADLOCK FALSE
