\* Three tasks with two steps of up to three calls over a transcript of six.
SPECIFICATION Spec
CONSTANTS
    MaxMessages = 6
    MaxChars = 9
    MaxRecap = 2
    MaxSteps = 2
    MaxCalls = 3
    ResultSizes = {1, 5}
    PromptSize = 2
    MaxRuns = 3
INVARIANTS
    TypeOK
    ModelSeesItsStep
    CompleteExchangesGoWhole
    NothingFallsBetween
CHECK_DEADLOCK FALSE
