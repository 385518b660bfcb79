SPECIFICATION Spec
CONSTANTS
    Rotations = {q1, q2}
    Sends = {s1}
    Overlap = 6
    MaxAge = 2
    MaxPause = 1
    LastSecret = 4
INVARIANTS
    TypeOK
    Verifiable
    LatestSigns
