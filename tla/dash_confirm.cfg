SPECIFICATION Spec
CONSTANTS
    Dirs <- OneDir
    Modes = {"release"}
    MaxRequests = 2
    Scopes = {}
    Dotenvs = {}
    PlanDotenvs = {}
    None = None
    MaxPreflights = 1
    MaxOthers = 0
    MaxFaults = 0
PROPERTY ConfirmedRunResumes
CHECK_DEADLOCK FALSE
