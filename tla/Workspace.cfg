\* A command with a limit below or above the default, two calls on a deliverable and a skill.
SPECIFICATION Spec
CONSTANTS
    Calls = {x, y, z}
    Commands = {x}
    Timeout = 2
    Asked = {1, 3}
    Grace = 1
    MaxClock = 3
    Deliverables = {report}
    SkillFiles = {}
    MaxRestarts = 1
INVARIANTS
    TypeOK
    StraysAreExplained
    ReportsHold
    ArtifactsStand
PROPERTIES
    EveryCallReports
CHECK_DEADLOCK FALSE
