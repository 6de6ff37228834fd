SPECIFICATION FairSpec
CONSTANTS
    Disks <- AllDisks
    Main <- MainFile
    HOME <- Home
    PKGDATADIR <- Data
    MaxFiles = 4
INVARIANTS
    TypeOK
    ReadInPlace
    ErrorsLocated
    NamesKept
PROPERTIES
    ParseEnds
