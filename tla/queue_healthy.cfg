SPECIFICATION Spec
CONSTANTS
    s2 = s2
    s1 = s1
    o1 = o1
    c2 = c2
    c1 = c1
    Deliveries = {s1, s2, c1, c2, o1}
    Scheduled = {s1, s2}
    Oversized = {o1}
    Prompt = Prompt
    Sessions = {1, 2, 3, 4}
    ErrorIds = {}
    Decisions = {}
    ResetRole = TRUE
    Env = {"prompt", "abort", "sendFails", "initFails", "bloated"}
CHECK_DEADLOCK FALSE
INVARIANTS InFlightPrefix ScheduledAlone NoDoubleSend  ReinitFlagHeld
 
