CONSTANTS
    Keys = {k1, k2}
    Limit = 2
    Period = 3
    Burst = TRUE
    Second = 2
    NoState = NoState
    Horizon = 8
SPECIFICATION LimiterSpec
INVARIANTS LimiterTypeOK WindowBound RetryAfterExact
