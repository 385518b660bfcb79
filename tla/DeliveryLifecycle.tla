--------------------------- MODULE DeliveryLifecycle ---------------------------
(* What the engine promises of one delivery: attempts numbered in order, one   *)
(* worker at a time with each, and an outcome that is recorded by that worker, *)
(* once and for good.  How attempts are scheduled, queued, run again and       *)
(* recovered is left to the engine.                                            *)
EXTENDS Integers

CONSTANTS Workers, MaxAttempts

VARIABLES
    status,
    attempts,   \* how many have begun
    holders     \* who is between the beginning and the outcome of an attempt

lifeVars == <<status, attempts, holders>>

Init ==
    /\ status = "NONE"
    /\ attempts = 0
    /\ holders = {}

Accept ==
    /\ status = "NONE"
    /\ status' = "PENDING"
    /\ UNCHANGED <<attempts, holders>>

Begin(w) ==
    /\ status \in {"PENDING", "FAILED"} /\ holders = {}
    /\ status' = "PROCESSING"
    /\ attempts' = attempts + 1
    /\ holders' = {w}

End(w, outcome) ==
    /\ status = "PROCESSING" /\ holders = {w}
    /\ status' = outcome
    /\ holders' = {}
    /\ UNCHANGED attempts

(* An attempt that is not the last has failed.                                 *)
Postpone(w) == attempts < MaxAttempts /\ End(w, "FAILED")

(* A worker dies with the delivery in its hands.                               *)
Abandon ==
    /\ holders' = {}
    /\ UNCHANGED <<status, attempts>>

(* The engine takes back an attempt that nobody is at any more.                *)
Recover ==
    /\ status = "PROCESSING" /\ holders = {}
    /\ status' = "FAILED"
    /\ UNCHANGED <<attempts, holders>>

Next ==
    \/ Accept \/ Abandon \/ Recover
    \/ \E w \in Workers : \/ Begin(w) \/ Postpone(w)
                          \/ \E outcome \in {"SUCCESS", "DLQ"} : End(w, outcome)

Spec == Init /\ [][Next]_lifeVars
=============================================================================
