SPECIFICATION Spec
CONSTANTS
    s1 = s1
    c1 = c1
    Deliveries = {s1, c1}
    Scheduled = {s1}
    Oversized = {}
    Prompt = Prompt
    Sessions = {1, 2, 3}
    ErrorIds = {1}
    Decisions = {"retry", "failover", "await", "overflow", "exhausted"}
    ResetRole = FALSE
    Env = {"prompt", "abort", "sendFails", "initFails", "lostStream"}
CHECK_DEADLOCK FALSE
INVARIANTS TypeOK NoLostPromise Watched
