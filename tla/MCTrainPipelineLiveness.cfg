SPECIFICATION FairSpec
CONSTANTS
    Trains = {t1, t2}
    Stanox = {s1}
    KnownStanox = {s1}
    Departures = {0}
    DayLength = 2
    MovementAge = 0
    ActivationAge = 1
    Grace = 0
    Lags = {0}
    None = None
    MaxBatch = 2
    MaxMessages = 3
    MaxTime = 1
    MaxFaults = 2
PROPERTY ViewCatchesUp StaleEntriesLeave
CHECK_DEADLOCK FALSE
