\* A task that plans, then ends.
SPECIFICATION Spec
CONSTANTS
    NoTask = NoTask
    Tasks = {a, b}
    ApiTasks = {b}
    ResumedTasks = {}
    Toolbox = {"plan", "entries"}
    Mirrored = FALSE
    MaxRecords = 2
    MaxSteps = 2
    MaxSeconds = 1
    MaxCalls = 1
    SetStatuses = {}
    MaxClock = 1
    MaxAside = 0
    DiskMayFail = FALSE
PROPERTIES
    RecordedWorkSurvivesTheRun
CHECK_DEADLOCK FALSE
