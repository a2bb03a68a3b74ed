\* Two updates, either mode, one redelivery or restart each.
SPECIFICATION Spec
CONSTANTS
    user = user
    stranger = stranger
    Updates = {1, 2}
    Sender <- SmallSenders
    Allowed = {user}
    Modes = {"webhook", "polling"}
    Limit = 3
    MaxSeen = 1
    Kept = 1
    MaxDeliveries = 2
    MaxRestarts = 1
INVARIANTS
    TypeOK
    OneRunPerUpdate
    DroppedMeansHandled
PROPERTIES
    PollingHandlesAll
CHECK_DEADLOCK FALSE
