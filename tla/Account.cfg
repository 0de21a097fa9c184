SPECIFICATION Spec
CONSTANTS
    Numbers = {1, 2}
    Dialled = {1}
    MaxRunning = 2
    MaxComplete = 2
    Builds = {TRUE, FALSE}
    MaxNote = 1
    MaxAsk = 2
    Subjects = {"signin", "alerts"}
INVARIANTS
    NoticedOnce
PROPERTIES
    BadgeRight
    DeviceFollows
    RolesConverge
    Resolves
