\* No crash and no rejected delivery: narrator has those.
SPECIFICATION Spec
CONSTANTS
    Projects = {"atlas"}
    Guide = "guide"
    Summary = "summary"
    Memory = "memory"
    Story = "story"
    Jobs = {1, 2}
    MaxTime = 2
    DayLength = 1
    Interval = 1
    MaxActivity = 1
    Tables = {"task"}
    Budget = 2
    DbBudget = 2
    FirstInstall = FALSE
    Env = {"timeouts", "offline", "archives", "memory", "story"}
CHECK_DEADLOCK FALSE
 
PROPERTIES RowsSettle
