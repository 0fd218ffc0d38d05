CONSTANTS
    Sensors = {r1}
    NoValue = NoValue
    DayMinutes = 32
    FlipMinutes = 2
    MaxTickGap = 2
    Days <- MCDays
    ScheduleOf <- MCScheduleOf
    Minutes <- MCMinutes
    Readings <- MCReadings
    Forecasts <- MCForecasts
SPECIFICATION Spec
INVARIANTS TypeOK RowsFresh MinutesFresh NameFresh ForecastWithinADegree
