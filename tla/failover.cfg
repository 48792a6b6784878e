SPECIFICATION Spec
CONSTANTS
    s2 = s2
    s1 = s1
    c1 = c1
    Deliveries = {s1, s2, c1}
    Scheduled = {s1, s2}
    Oversized = {}
    Prompt = Prompt
    Sessions = {1, 2, 3, 4}
    ErrorIds = {1}
    Decisions = {"failover", "exhausted"}
    ResetRole = FALSE
    Env = {"prompt"}
CHECK_DEADLOCK FALSE
INVARIANTS ScheduledAlone SessionHeard
PROPERTIES ContractHolds
