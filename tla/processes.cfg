\* One command at a time; a server may crash anywhere but inside a write.
SPECIFICATION Spec
CONSTANTS
    Threshold = 4
    TailBudget = 3
    Pids = {1, 2, 3}
    Shells = {1}
    KeepCount = 1
    MaxEntries = 8
    Env = {"crashes", "slowStops"}
CHECK_DEADLOCK FALSE
INVARIANTS ServerKnown NothingForgotten NoOrphanResults
