SPECIFICATION Spec
CONSTANTS
    Accounts = {a1, a2}
    Numbers = {n1, n2}
    RuntimeNumber = n1
    Allowed = {n1, n2}
    Modes = {"disabled", "readonly-validation", "sts-validation"}
    Works = {w1, w2}
    None = none
SYMMETRY MCSymmetry
INVARIANT SucceededIsProved
PROPERTY BlockedStaysBlocked
