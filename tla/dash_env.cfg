SPECIFICATION Spec
CONSTANTS
    Dirs <- OneDir
    Modes = {"preview"}
    MaxRequests = 2
    Scopes = {}
    Dotenvs = {key}
    PlanDotenvs = {key}
    None = None
    MaxPreflights = 1
    MaxOthers = 0
    MaxFaults = 0
INVARIANT TaskEnvironment
CHECK_DEADLOCK FALSE
