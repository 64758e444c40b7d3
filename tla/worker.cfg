SPECIFICATION Spec
CONSTANTS
    Author = author
    None = none
    Plans = {p1}
    Users = {author, u1}
    CreatedBy <- MCCreatedBy
    Keys = {k1}
    Handlers = {h1}
    Runs = {r1, r2}
    Reconcilers = {c1}
    SafetyStates = {safe, unsafe}
    SafeStates = {safe}
    Modes = {"staging"}
    ApiOps = {"simulate", "request", "capture", "decide", "execute", "untimely_request", "generic_request", "generic_decide", "generic_complete"}
    Faults = {"stall", "provider_error", "worker_crash", "db_error", "slow_worker", "reconciler_crash", "retag", "drift", "wrong_token", "gate_closed", "api_crash", "capture_fails"}
    MaxSim = 1
    MaxApprovals = 1
    MaxAttempts = 2
SYMMETRY MCSymmetry
CHECK_DEADLOCK FALSE
INVARIANT TypeOK
INVARIANT RefusedTryAppliedNothing
INVARIANT AttemptIsOnRecord
INVARIANT ExclusiveExecution
PROPERTY OutcomeMovesForward
PROPERTY PromiseKept
