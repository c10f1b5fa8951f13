SPECIFICATION FairSpec
CONSTANTS
    Dirs <- TwoDirs
    Modes = {"preview", "release"}
    MaxRequests = 3
    Scopes = {e1}
    Dotenvs = {}
    PlanDotenvs = {}
    None = None
    MaxPreflights = 1
    MaxOthers = 1
    MaxFaults = 1
INVARIANT OnePublish
PROPERTIES RunsUndisturbed RetiredAsShown BusyEnds RequestsAnswered
CHECK_DEADLOCK FALSE
