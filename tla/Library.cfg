SPECIFICATION Spec
CONSTANTS
    Clients = {c1, c2}
    Genres = {"novel", "scifi"}
    SeedAuthors = 1
    SeedBooks <- Shelf
    MaxAuthors = 2
    MaxBooks = 4
    MaxChanges = 3
    DefaultLimit = 1
    MaxLimit = 3
    Limits = {0, 2}
    IntMax = 7
SYMMETRY ClientSymmetry
INVARIANTS
    LibraryTypeOK
    PagesAreRuns
    PagingOffByChangesOnly
    CountsOffByChangesOnly
    PutAnswersItsBook
