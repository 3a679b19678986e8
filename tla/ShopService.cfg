SPECIFICATION ServiceSpec
CONSTANTS
    MaxProducts = 2
    MaxCategories = 1
    MaxLinks = 3
    GivenIds = {2}
    AddLists <- SomeLists
    EditLists <- OneLink
    Clients = {u1, u2}
SYMMETRY ClientSymmetry
INVARIANTS
    StorageTypeOK
    MirrorsAgree
    OnlyDeletesLoseEntries
PROPERTIES
    LinkingKeepsSymmetry
CHECK_DEADLOCK FALSE
