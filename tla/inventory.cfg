SPECIFICATION FairSpec
CONSTANTS
    Ra = ra
    Rb = rb
    X = x
    W1 = w1
    W2 = w2
    S1 = s1
    S2 = s2
    None = none
    Scans = {s1, s2}
    Workers = {w1, w2}
    Regions = {ra, rb}
    Resources = {x}
    Home <- MCHome
    Settings <- MCSettings
    MaxJobAttempts = 2
    MaxStalled = 1
CHECK_DEADLOCK FALSE
INVARIANT PresentNeverStale
INVARIANT AccurateWhenAlone
PROPERTY SweepOnlyAbandoned
PROPERTY RestartsRepair
