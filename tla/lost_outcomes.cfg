SPECIFICATION Spec
CONSTANTS
    Events = {e1}
    Endpoints = {p1}
    Workers = {w1, w2}
    Publishers = {q1}
    MaxAttempts = 2
    Take = 2
    MaxTries = 2
    Budget <- MCBudget
    MaxLimit = 0
    MaxToggle = 0
    MaxReplay = 0
    MaxCrash = 1
    MaxDb = 1
    MaxAdd = 0
    MaxLoss = 0
    MaxPurge = 0
    MaxStall = 1
    MaxSlow = 0
SYMMETRY Symmetry
INVARIANTS
    TypeOK
    NextAttemptScheduled
    AttemptsBounded
    AckedOnce
    SingleSender
PROPERTIES
    Lifecycle
