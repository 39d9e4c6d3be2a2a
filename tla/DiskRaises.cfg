SPECIFICATION DiskSpec
CONSTANTS
    Sources <- MCSources
    Projects <- MCProjects
    Reserved = {"sh"}
    Slug <- MCSlug
    Directories <- MCDirectories
    Placed <- MCPlaced
    MaxCommands = 3
PROPERTIES
    HostStands
CHECK_DEADLOCK FALSE
