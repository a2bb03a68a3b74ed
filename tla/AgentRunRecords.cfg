\* The records: two tasks, one of them from POST /tasks, that set their status
\* and write deliverables, on a disk that may fail or be replaced and a gist
\* with one request aside.
SPECIFICATION Spec
CONSTANTS
    NoTask = NoTask
    Tasks = {a, b}
    ApiTasks = {b}
    ResumedTasks = {}
    Toolbox = {"set_status", "deliverables"}
    Mirrored = TRUE
    MaxRecords = 2
    MaxSteps = 1
    MaxSeconds = 1
    MaxCalls = 1
    SetStatuses = {"completed"}
    MaxClock = 0
    MaxAside = 1
    DiskMayFail = TRUE
INVARIANTS
    WorkIsRecorded
    OutcomeIsRecorded
PROPERTIES
    OnlyOwnRunWrites
    EveryRunEnds
    ImplementsTaskService
CHECK_DEADLOCK FALSE
