CONSTANTS
    Requests = {r1, r2}
    FirstDay = 1
    LastDay = 2
    Asked <- MCAsked
    MaxWindow = 2
    TrainDays = 1
    ForecastDays = 1
    Trained = {s1, s2}
    CacheTTL = 2
    Slow = 1
    AtOnce <- MCAtOnce
    None = None
SPECIFICATION Spec
INVARIANTS TypeOK Covered NothingOld
PROPERTIES PartsExpire
