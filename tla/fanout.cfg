SPECIFICATION Spec
CONSTANTS
    Events = {e1}
    Endpoints = {p1, p2}
    Workers = {w1}
    Publishers = {q1}
    MaxAttempts = 2
    Take = 2
    MaxTries = 2
    Budget <- MCBudget
    MaxLimit = 1
    MaxToggle = 1
    MaxReplay = 0
    MaxCrash = 0
    MaxDb = 0
    MaxAdd = 0
    MaxLoss = 0
    MaxPurge = 0
    MaxStall = 0
    MaxSlow = 0
SYMMETRY Symmetry
INVARIANTS
    EventAgrees
