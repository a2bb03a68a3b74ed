\* Two accounts, a service deleted and created again, the secret exchanged once.
SPECIFICATION Spec
CONSTANTS
    LastAccount = 2
    MaxServices = 2
    MaxVersion = 2
    MaxActs = 3
INVARIANTS
    OneServicePerAccount
    PushReports
PROPERTIES
    ProcedureDelivers
CHECK_DEADLOCK FALSE
