------------------------------ MODULE MCTenantApi ------------------------------
(* A small instance of TenantApi.                                              *)
EXTENDS TenantApi, TLC

CONSTANTS created, refunded, u1, u2

MCTypes == {created, refunded, Wildcard}
Same == [url |-> {}, active |-> {}, types |-> {}]
MCUpdates == {[Same EXCEPT !.types = {{refunded}}],
              [Same EXCEPT !.types = {{Wildcard}}, !.url = {u2}, !.active = {TRUE}]}
MCSubscriptions == {{created, refunded}}

Symmetry == Permutations(Requests) \cup Permutations(Endpoints)
=============================================================================
