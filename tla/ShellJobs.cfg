SPECIFICATION Spec
CONSTANTS
    c1 = c1
    c2 = c2
    Callers <- TwoCallers
    MaxBackground = 1
    MaxJobs = 2
    MaxTurns = 2
    MaxPrinted = 3
    MaxLines = 2
    MaxBytes = 2
    Long <- LongLines
    Printers <- FirstJob
    Filter <- EvenLines
INVARIANTS
    OutputAccounted
    EndingsTrue
PROPERTIES
    DoneIsFinal
    EndsReach
CHECK_DEADLOCK FALSE
