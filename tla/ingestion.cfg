SPECIFICATION Spec
CONSTANTS
    Tenants = {t1}
    Endpoints = {e1, e2}
    u1 = u1
    u2 = u2
    Urls = {u1, u2}
    Wildcard = Wildcard
    created = created
    refunded = refunded
    Types <- MCTypes
    IdempotencyKeys = {i1}
    Requests = {r1, r2}
    Keys = {k1, k2, k3, k4, k5}
    Nothing = Nothing
    Updates <- MCUpdates
    Subscriptions <- MCSubscriptions
    Calls = 4
SYMMETRY Symmetry
INVARIANTS
    TypeOK
    AcceptedOnce
    FanOutWasRight
    AsAsked
    KeyOpens
CHECK_DEADLOCK FALSE
