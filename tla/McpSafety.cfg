SPECIFICATION Spec
CONSTANTS
    Tasks = {t1, t2}
    Raws <- MCRaws
    Fold <- MCFold
    MaxConns = 2
    MaxChanges = 2
    MaxWork = 1
INVARIANTS
    ConnectionsKept
    ToolsFollow
PROPERTIES
    DroppedEnds
CHECK_DEADLOCK FALSE
