SPECIFICATION Spec
CONSTANTS
    Author = author
    None = none
    Plans = {p1}
    Users = {author, u1}
    CreatedBy <- MCCreatedBy
    Keys = {k1}
    Handlers = {h1, h2}
    Runs = {r1}
    Reconcilers = {}
    SafetyStates = {safe, unsafe}
    SafeStates = {safe}
    Modes = {"staging"}
    ApiOps = {"simulate", "request", "capture", "decide", "execute"}
    Faults = {"lapse","enqueue_fails","drift"}
    MaxSim = 2
    MaxApprovals = 2
    MaxAttempts = 1
SYMMETRY MCSymmetry
CHECK_DEADLOCK FALSE
INVARIANT MutationWasApproved
INVARIANT CallMatchesCapture
INVARIANT EnqueueFailureNeverExecutes
