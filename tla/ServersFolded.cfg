CONSTANTS
    Fold <- MCFold
    AgentDefaults <- MCAgentDefaults
    RetryKeys = {"base_delay"}
    Efforts <- MCEfforts
    IntOf <- MCIntOf
    Registered <- MCRegistered
    ServerFiles <- MCServerFiles
    Variables <- MCVariables
    Tables = {}
    Values = {}
    Arguments = {}
    Schemas = {}
    ConfigFiles = {}
    Selections = {}
SPECIFICATION RulesSpec
INVARIANTS FirstNameKept
CHECK_DEADLOCK FALSE
