SPECIFICATION Spec
CONSTANTS
    Tools <- OneTool
    Program = "exec"
    Heights = {2, 3}
    MaxTurns = 2
    MaxCalls = 2
    MaxExtras = 1
INVARIANTS
    CacheTrue
    CallsAnswered
    ReaderAgrees
    ScreenTrue
PROPERTIES
    OfferHeld
CHECK_DEADLOCK FALSE
