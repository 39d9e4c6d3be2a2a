SPECIFICATION HostSpec
CONSTANTS
    Sources <- MCSources
    Projects <- MCProjects
    Reserved = {"sh"}
    Slug <- MCSlug
    Directories <- MCDirectories
    Placed <- MCPlaced
    MaxCommands = 3
    Tokens <- MCTokens
    Plans <- MCPlans
    Given <- MCGiven
    Fold <- MCFold
    AgentDefaults <- MCAgentDefaults
    RetryKeys = {"base_delay"}
    Efforts <- MCEfforts
    IntOf <- MCIntOf
    Registered <- MCRegistered
    ServerFiles <- MCServerFiles
    Variables <- MCVariables
    Tables <- MCTables
    Values <- MCValues
    Arguments <- MCArguments
    Schemas <- MCSchemas
    ConfigFiles <- MCConfigFiles
    Selections <- MCSelections
INVARIANTS
    DirectoriesWhole
    ServersTrue
    ArgumentsTrue
    ConfigKept
PROPERTIES
    LoadsTrue
    CallsTrue
CHECK_DEADLOCK FALSE
