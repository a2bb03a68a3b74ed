\* The scratchpad: three tasks, one of them from POST /tasks and resumed once
\* more after it ended, that plan, take notes, log progress, record artifacts
\* and ask for approval.  There is room for one record.
SPECIFICATION Spec
CONSTANTS
    NoTask = NoTask
    Tasks = {a, b, c}
    ApiTasks = {b}
    ResumedTasks = {b}
    Toolbox = {"plan", "entries", "progress", "artifacts", "privileged"}
    Mirrored = FALSE
    MaxRecords = 1
    MaxSteps = 1
    MaxSeconds = 1
    MaxCalls = 1
    SetStatuses = {}
    MaxClock = 1
    MaxAside = 0
    DiskMayFail = FALSE
SYMMETRY Peers
INVARIANTS
    TypeOK
    RunsAreSerialised
    ScratchpadIsOwn
    PlanIsOwn
CHECK_DEADLOCK FALSE
