CONSTANTS
    Sensors = {s1}
    Ranges = {"short", "long"}
    DefaultRange = "short"
    Hours <- MCHours
    MaxPoints <- MCMaxPoints
    MinPoints = 1
    Zooms <- MCZooms
    Nothing = Nothing
    MaxTime = 1
    MaxRequests = 2
SPECIFICATION Spec
INVARIANTS TypeOK RangeComplete NoReadingTwice
PROPERTIES NeverLeftBehind
