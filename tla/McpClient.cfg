SPECIFICATION Spec
CONSTANTS
    Tasks = {t1, t2}
    Raws <- MCRaws
    Fold <- MCFold
    MaxConns = 2
    MaxChanges = 0
    MaxWork = 3
INVARIANTS
    ClientEnsured
CHECK_DEADLOCK FALSE
