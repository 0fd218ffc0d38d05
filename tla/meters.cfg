CONSTANTS
    a = a
    b = b
    Requests = {r1, r2}
    Macs = {a, b}
    BadRow = BadRow
    MeterRows <- MCMeterRows
    PlantRows <- MCPlantRows
    Hints = {0, 6}
    DefaultHint <- MCDefaultHint
    Everything = Everything
    Filters <- MCFilters
    Live = Live
    Committed = Committed
    NoRow = NoRow
SPECIFICATION Spec
INVARIANTS TypeOK IdsAgree NothingMissed
PROPERTIES EventuallyAnswered
