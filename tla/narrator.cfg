\* No story, no archived Conductor, no memory update: narrator_story has those.
SPECIFICATION Spec
CONSTANTS
    Projects = {"atlas"}
    Guide = "guide"
    Summary = "summary"
    Memory = "memory"
    Story = "story"
    Jobs = {1, 2}
    MaxTime = 3
    DayLength = 2
    Interval = 1
    MaxActivity = 2
    Tables = {"task"}
    Budget = 1
    DbBudget = 1
    FirstInstall = FALSE
    Env = {"timeouts", "stops", "rejects"}
CHECK_DEADLOCK FALSE
INVARIANTS NothingSkipped LogWhole
PROPERTIES FinalRowKept
