SPECIFICATION Spec
CONSTANTS
    People = {ann, bob, cid}
    Founders = {ann, bob}
    Invitees = {cid}
    Requests = {q1, q2}
    Granted = {"OWNER", "ADMIN"}
    SignIns = {cid}
    MaxResets = 1
    MaxSessions = 2
    None = none
SYMMETRY MCSymmetry
CHECK_DEADLOCK FALSE
INVARIANT SessionsAreCurrent
PROPERTY OwnerKept
PROPERTY JoinsAsInvited
PROPERTY RemovedStaysOut
