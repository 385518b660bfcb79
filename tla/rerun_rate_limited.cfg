SPECIFICATION FairSpec
CONSTANTS
    Events = {e1}
    Endpoints = {p1}
    Workers = {w1}
    Publishers = {q1}
    MaxAttempts = 2
    Take = 2
    MaxTries = 2
    Budget <- MCBudget
    MaxLimit = 1
    MaxToggle = 0
    MaxReplay = 0
    MaxCrash = 1
    MaxDb = 0
    MaxAdd = 0
    MaxLoss = 0
    MaxPurge = 0
    MaxStall = 0
    MaxSlow = 0
PROPERTIES
    PendingResumes
