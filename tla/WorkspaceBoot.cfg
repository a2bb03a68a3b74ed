\* A skill file whose writing fails inside a character, or whose bytes are no text.
SPECIFICATION Spec
CONSTANTS
    Calls = {y}
    Commands = {}
    Timeout = 2
    Asked = {1}
    Grace = 1
    MaxClock = 2
    Deliverables = {}
    SkillFiles = {skill}
    MaxRestarts = 1
INVARIANTS
    SkillsNeverStopABoot
CHECK_DEADLOCK FALSE
