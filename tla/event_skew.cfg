SPECIFICATION FairSpec
CONSTANTS
    Events = {e1}
    Endpoints = {p1, p2}
    Workers = {w1, w2}
    Publishers = {q1}
    MaxAttempts = 2
    Take = 2
    MaxTries = 2
    Budget <- MCBudget
    MaxLimit = 0
    MaxToggle = 0
    MaxReplay = 0
    MaxCrash = 0
    MaxDb = 0
    MaxAdd = 0
    MaxLoss = 0
    MaxPurge = 0
    MaxStall = 0
    MaxSlow = 0
PROPERTIES
    EventSettles
