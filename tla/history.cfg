SPECIFICATION Spec
CONSTANTS
    d1 = d1
    d2 = d2
    w1 = w1
    w2 = w2
    Deliveries = {d1, d2}
    Workers = {w1, w2}
    MaxAttempts = 2
    RetentionDays = 1
    Week = 2
    MaxRows = 3
    MaxReplays = 1
    MaxFaults = 1
SYMMETRY Symmetry
CONSTRAINTS OneCause OneTroubled OneOverlap QuietPass
INVARIANTS
    TypeOK
    Recoverable
PROPERTIES
    OnlyFinishedDeleted
    HistoryKept
