SPECIFICATION Spec
CONSTANTS
    Author = author
    None = none
    Plans = {p1, p2}
    Users = {author, u1}
    CreatedBy <- MCCreatedBy
    Keys = {k1, k2}
    Handlers = {h1, h2}
    Runs = {r1}
    Reconcilers = {}
    SafetyStates = {safe, unsafe}
    SafeStates = {safe}
    Modes = {"simulation", "staging"}
    ApiOps = {"simulate", "request", "capture", "decide", "execute"}
    Faults = {"job_forgotten", "wrong_token"}
    MaxSim = 2
    MaxApprovals = 1
    MaxAttempts = 1
SYMMETRY MCPlanSymmetry
CHECK_DEADLOCK FALSE
INVARIANT KeySpentOnce
