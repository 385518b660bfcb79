SPECIFICATION Spec
CONSTANTS
    r1 = r1
    r2 = r2
    r3 = r3
    r4 = r4
    Rows <- MCRows
    GroupOf <- MCGroupOf
    Queries <- MCQueries
    LastTime = 3
SYMMETRY Symmetry
INVARIANTS
    TypeOK
    WalkComplete
    SeenOnce
