SPECIFICATION FairSpec
CONSTANTS
    R1 = r1
    R2 = r2
    W1 = w1
    W2 = w2
    None = none
    Runs = {r1, r2}
    Workers = {w1, w2}
    Conditions = {c}
    MaxHigh = 1
    MaxStalled = 1
    Settings <- MCSettings
CHECK_DEADLOCK FALSE
INVARIANT AccurateWhenAlone
PROPERTY AcknowledgementStands
PROPERTY LastingConditionIsAlerted
