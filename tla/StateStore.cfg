\* Two savers of task records and the long-term memory; everything may fail.
SPECIFICATION Spec
CONSTANTS
    running = running
    queueing = queueing
    memory = memory
    tasks = tasks
    x = x
    y = y
    Keys = {tasks, memory}
    Clients = {running, queueing, memory}
    KeyOf <- DocumentOf
    WritesOf <- OwnEntries
    Cached = {memory}
    Entries = {x, y}
    ReadsMayFail = TRUE
    DiskMayFail = TRUE
INVARIANTS
    TypeOK
PROPERTIES
    HistorySurvives
    DiskForgetsNothing
    EveryOperationReturns
