SPECIFICATION TaskSpec
CONSTANTS
    Connections = {c1, c2}
    TaskIds = {t1, t2}
    Fields = {"Title"}
    Values = {v1, v2}
INVARIANTS
    TaskTypeOK
    LoadsLastSave
PROPERTIES
    SavesAreWhole
    DeletedStaysDeleted
