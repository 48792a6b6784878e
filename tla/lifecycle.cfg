\* A Conductor and a worker in one project; everything may happen.
SPECIFICATION Spec
CONSTANTS
    Guide = 0
    Conductors = {1}
    Workers = {2}
    Projects = {{1, 2}}
    Hosts = {1, 2, 3}
    Reminders = {1}
    Env = {"failures", "failovers", "stops", "reminders"}
CHECK_DEADLOCK FALSE
INVARIANTS   NoSilentOrphan
PROPERTIES RestoreEnds
