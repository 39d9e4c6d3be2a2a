SPECIFICATION Spec
CONSTANTS
    s1 = s1
    s2 = s2
    Scripts = {s1, s2}
    Keys = {"k1", "k2"}
    Sizes = {2}
    MaxValue = 2
    MaxTotal = 3
    Cap = {1}
    Limits = {1}
    Kept <- MCKept
    Callers = {s1}
    MaxCalls = 4
    MaxWrites = 1
INVARIANTS
    OnlyFinishedStored
    CallsContained
PROPERTIES
    StoreWithin
    CallsReturn
CHECK_DEADLOCK FALSE
