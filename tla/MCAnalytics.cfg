SPECIFICATION AnalyticsSpec
CONSTANTS
    None = None
    Visits = {1, 2}
    Browsers = {b1}
    DayLength = 2
    RetentionDays = 1
    QueueSize = 1
    Lag = 1
    BatchSize = 1
    MaxBatches = 1
    Ranges <- DaysAsked
    MaxRangeDays = 2
    MaxFailures = 1
    Horizon = 4
INVARIANTS
    EventsKnowTheirVisitor
    ReportAddsUp
PROPERTY
    ExpiredRowsGo
