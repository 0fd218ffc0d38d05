CONSTANTS
    s1 = s1
    s2 = s2
    Sensors = {s1, s2}
    Requested <- MCRequested
    GapThreshold = 2
    MaxPerSensor = 2
    MaxTotal = 2
    Retention = 4
    TimestampsMax = 4
    NoGap = NoGap
    MaxTime = 4
    MaxMissed = 2
SPECIFICATION Spec
INVARIANTS TypeOK
PROPERTIES GapsClosed
