SPECIFICATION FairSpec
CONSTANTS
    Events = {e1}
    Endpoints = {p1}
    Workers = {w1}
    Publishers = {q1}
    MaxAttempts = 2
    Take = 3
    MaxTries = 2
    Budget <- MCBudget
    MaxLimit = 1
    MaxToggle = 0
    MaxReplay = 0
    MaxCrash = 1
    MaxDb = 1
    MaxAdd = 1
    MaxLoss = 1
    MaxPurge = 0
    MaxStall = 1
    MaxSlow = 0
CONSTRAINT TwoFaults
PROPERTIES
    Settles
    ClaimsResolve
    PublicationRecovers
