SPECIFICATION LiveSpec
CONSTANTS
    Author = author
    None = none
    Plans = {p1}
    Users = {author, u1}
    CreatedBy <- MCCreatedBy
    Keys = {k1}
    Handlers = {h1}
    Runs = {r1, r2}
    Reconcilers = {c1, c2}
    SafetyStates = {safe, unsafe}
    SafeStates = {safe}
    Modes = {"staging"}
    ApiOps = {"simulate", "request", "capture", "decide", "execute"}
    Faults = {"provider_error", "worker_crash", "db_error", "retag", "stall", "enqueue_fails", "lapse"}
    MaxSim = 1
    MaxApprovals = 1
    MaxAttempts = 2
CHECK_DEADLOCK FALSE
PROPERTY OpenSettles
PROPERTY QueuedIsPickedUp
