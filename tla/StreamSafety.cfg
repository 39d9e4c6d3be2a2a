SPECIFICATION StreamSpec
CONSTANTS
    Policies <- MCPolicies
    Budgets <- MCBudgets
    Headers <- MCHeaders
    Words <- MCWords
    RawChunks <- MCRaws
    MaxRaws = 4
INVARIANTS
    ResponseTrue
PROPERTIES
    NoLateRequest
    Settles
CHECK_DEADLOCK FALSE
