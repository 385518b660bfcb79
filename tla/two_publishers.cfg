SPECIFICATION Spec
CONSTANTS
    Events = {e1}
    Endpoints = {p1}
    Workers = {w1, w2}
    Publishers = {q1, q2}
    MaxAttempts = 2
    Take = 2
    MaxTries = 2
    Budget <- MCBudget
    MaxLimit = 0
    MaxToggle = 0
    MaxReplay = 1
    MaxCrash = 0
    MaxDb = 0
    MaxAdd = 1
    MaxLoss = 1
    MaxPurge = 1
    MaxStall = 0
    MaxSlow = 1
SYMMETRY Symmetry
CONSTRAINT OneCause
INVARIANTS
    SingleSender
    NextAttemptScheduled
    AttemptOnce
    AckedOnce
