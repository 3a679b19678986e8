SPECIFICATION StorageSpec
CONSTANTS
    MaxProducts = 2
    MaxCategories = 1
    MaxLinks = 2
    GivenIds = {}
    AddLists <- NoList
    EditLists = {}
INVARIANTS
    CategoryIdsAreWhereProductIs
CHECK_DEADLOCK FALSE
