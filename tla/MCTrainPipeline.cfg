SPECIFICATION Spec
CONSTANTS
    Trains = {t1, t2}
    Stanox = {s1, s2}
    KnownStanox = {s1}
    Departures = {0}
    DayLength = 2
    MovementAge = 0
    ActivationAge = 1
    Grace = 0
    Lags = {0}
    None = None
    MaxBatch = 2
    MaxMessages = 4
    MaxTime = 2
    MaxFaults = 2
SYMMETRY TrainSymmetry
INVARIANTS
    TypeOK
    ViewReflectsLog
    NoRecordSkipped
    PoisonBlocksTopic
PROPERTY RefinesReplayedView
CHECK_DEADLOCK FALSE
