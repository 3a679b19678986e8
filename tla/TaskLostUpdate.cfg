SPECIFICATION TaskSpec
CONSTANTS
    Connections = {c1, c2}
    TaskIds = {t1}
    Fields = {"Title", "Status"}
    Values = {v1, v2}
PROPERTIES
    UpdateKeepsFieldsNotGiven
