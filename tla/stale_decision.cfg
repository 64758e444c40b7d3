SPECIFICATION Spec
CONSTANTS
    Author = author
    None = none
    Plans = {p1}
    Users = {author, u1, u2}
    CreatedBy <- MCCreatedBy
    Keys = {k1}
    Handlers = {h1, h2}
    Runs = {r1}
    Reconcilers = {}
    SafetyStates = {safe, unsafe}
    SafeStates = {safe}
    Modes = {"staging"}
    ApiOps = {"simulate", "request", "capture", "decide", "execute", "generic_decide"}
    Faults = {}
    MaxSim = 1
    MaxApprovals = 1
    MaxAttempts = 1
CHECK_DEADLOCK FALSE
INVARIANT MutationHadMakerChecker
