CONSTANTS
    TopLevels = 2
    BookLevels = 3
    Depth = 2
    MaxUpdates = 2
SPECIFICATION BookSpec
INVARIANTS
    BookTypeOK
    PublishedIsWhole
    ValidatedIsOfOneUpdate
