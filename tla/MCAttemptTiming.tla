---------------------------- MODULE MCAttemptTiming ----------------------------
(* A small instance of AttemptTiming: a tenant with two deliveries, the second *)
(* to an endpoint with a limit of its own.                                     *)
EXTENDS AttemptTiming, TLC

CONSTANTS d1, d2, tenant, endpoint, TenantLimit, EndpointLimit

MCScopes == {tenant, endpoint}
MCLimit == [s \in MCScopes |-> IF s = tenant THEN TenantLimit ELSE EndpointLimit]
MCDeliveries == {d1, d2}
MCEndpointScope == [d \in MCDeliveries |-> IF d = d1 THEN NoScope ELSE endpoint]
MCRetryAfter == {[kind |-> "none", value |-> 0], [kind |-> "seconds", value |-> 1],
                 [kind |-> "date", value |-> 5]}

(* Processes are interchangeable.                                              *)
Symmetry == Permutations(Processes)
=============================================================================
