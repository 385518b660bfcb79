----------------------------- MODULE MCPagination -----------------------------
(* A small instance of Pagination: four rows, all of the tenant that asks.     *)
EXTENDS Pagination, TLC

CONSTANTS r1, r2, r3, r4

MCRows == {r1, r2, r3, r4}
MCGroupOf == [r \in MCRows |-> "own"]

(* All events; the open deliveries up to some time; the tenants.               *)
MCQueries ==
    { [listing |-> "events", group |-> "own", status |-> Every,
       from |-> 0, to |-> LastTime, limit |-> 2],
      [listing |-> "deliveries", group |-> "own", status |-> "open",
       from |-> 0, to |-> 2, limit |-> 1],
      [listing |-> "tenants", group |-> "own", status |-> Every,
       from |-> 0, to |-> 0, limit |-> 1] }

Symmetry == Permutations({r1, r2, r3, r4})
=============================================================================
