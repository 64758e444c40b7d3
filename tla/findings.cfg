SPECIFICATION Spec
CONSTANTS
    U1 = u1
    U2 = u2
    E1 = e1
    E2 = e2
    F1 = f1
    F2 = f2
    None = none
    Rows = {f1, f2}
    Users = {u1, u2}
    Engines = {e1, e2}
    Settings <- MCSettings
CHECK_DEADLOCK FALSE
INVARIANT AccurateWhenAlone
PROPERTY ActionsFollowTheMatrix
PROPERTY DecisionStands
PROPERTY LastingExposureIsFound
