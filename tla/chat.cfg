\* One tab among others (ServeElsewhere); the cache forgets rows, connections drop,
\* the agent is replaced.
SPECIFICATION Spec
CONSTANTS
    Tabs = {"a"}
    Rows = {1, 2, 3}
    Keep = 2
    MaxInFlight = 3
    Env = {"drops", "revisits", "replaced"}
CHECK_DEADLOCK FALSE
INVARIANTS NothingMissing OrderKept IndicatorsIdle DraftKept
