SPECIFICATION Spec
CONSTANTS
    Dirs <- SmallDirs
    Modes = {"preview"}
    MaxRequests = 3
    Scopes = {e1, e2}
    Dotenvs = {}
    PlanDotenvs = {}
    None = None
    MaxPreflights = 1
    MaxOthers = 0
    MaxFaults = 0
PROPERTY ExclusionsKept
CHECK_DEADLOCK FALSE
