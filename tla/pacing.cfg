SPECIFICATION Spec
CONSTANTS
    d1 = d1
    d2 = d2
    tenant = tenant
    endpoint = endpoint
    TenantLimit = 2
    EndpointLimit = 1
    Second = 3
    Spread = 1
    Latency = 1
    MaxAttempts = 2
    BaseDelay = 2
    MaxDelay = 2
    Multiplier = 3
    Divisor = 2
    WindowLength = 1
    NoScope = NoScope
    Nobody = Nobody
    Lifetime = 5
    Watched = endpoint
    TenantScope = tenant
    Processes = {p1, p2}
    Scopes <- MCScopes
    Limit <- MCLimit
    Requests <- MCDeliveries
    Deliveries <- MCDeliveries
    EndpointScope <- MCEndpointScope
    RetryAfter <- MCRetryAfter
SYMMETRY Symmetry
INVARIANTS
    TypeOK
    WindowBound
    RetryRespected
    WaitBounded
    RefusalsEnd
PROPERTIES
    OneClockIdeal
