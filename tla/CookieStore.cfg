CONSTANTS
    Names = {"__pus", "__kp"}
    Watched = {"__pus", "__kp"}
    Values = {"v1", "v2", "old"}
    None = None
    Browsers <- MCBrowsers
    Profiles <- MCProfiles
    Databases <- MCDatabases
    AtFirst <- MCAtFirst
    CommandLine <- MCCommandLine
    Refreshers = {"timer", "repair", "tray"}
    MaxFaults = 1
SPECIFICATION Spec
INVARIANTS TypeOK ReplacedWhole
PROPERTIES CatchesUp
CHECK_DEADLOCK FALSE
