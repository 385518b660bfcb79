----------------------------- MODULE MCRetention -----------------------------
(* A small instance of Retention, with deliveries and workers that are alike.  *)
EXTENDS Retention, TLC

Symmetry == Permutations(Deliveries) \cup Permutations(Workers)

(* Bounds: a replay or a fault, not both; at most one delivery is scheduled    *)
(* again or ends without success; two workers at a time, or a third row, only  *)
(* after a replay or a fault and once the sibling has succeeded, and with that *)
(* row maintenance only while no worker is busy; and days without maintenance  *)
(* only without a cause.                                                       *)
OneCause == replay.count + faults <= IF upkeep = "lapsed" THEN 0 ELSE 1

Once(d) == <<d, 2>> \notin DOMAIN outbox /\ \A j \in DOMAIN jobs : j.row # <<d, 2>>

OneTroubled ==
    \E d \in Deliveries : \A o \in Deliveries \ {d} :
        Once(o) /\ delivery[o].status \notin {"DLQ", "CANCELLED"}

Busy == {w \in Workers : ~at(w, "idle")}
Third == \E r \in DOMAIN outbox : r[2] > 2

OneOverlap ==
    Cardinality(Busy) > 1 \/ Third =>
        /\ replay.count + faults > 0
        /\ \E d \in Deliveries : \A o \in Deliveries \ {d} :
               delivery[o].status = "SUCCESS" /\ Once(o)

QuietPass == Third => pass = "none" \/ Busy = {}
=============================================================================
