CONSTANTS
    Sensors = {r1}
    NoValue = NoValue
    DayMinutes = 16
    FlipMinutes = 2
    MaxTickGap = 4
    Minute = 2
    MonthDays = 3
    SensorsMin = 3
    SensorsDefault = 5
    SensorsMax = 8
    BackendDefault = 3
    ForecastInterval = 8
    ForecastRetry = 5
    Horizon = 8
    Days <- MCDays
    ScheduleOf <- MCScheduleOf
    Minutes <- MCMinutes
    Epochs <- MCEpochs
    CallTimes <- MCCallTimes
    RetryHints <- MCRetryHints
    Readings <- MCReadings
    Forecasts <- MCForecasts
SPECIFICATION Spec
INVARIANTS TypeOK SalahMatchesTimer NeverStuck ForecastKept
PROPERTIES PollsSpaced OutageRepolled RowsKeptOnFailure ImplementsDisplay
