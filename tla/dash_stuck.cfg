SPECIFICATION FairSpec
CONSTANTS
    Dirs <- OneDir
    Modes = {"preview"}
    MaxRequests = 2
    Scopes = {}
    Dotenvs = {}
    PlanDotenvs = {}
    None = None
    MaxPreflights = 1
    MaxOthers = 0
    MaxFaults = 1
PROPERTY AlwaysIdleAgain
CHECK_DEADLOCK FALSE
