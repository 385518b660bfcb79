----------------------------- MODULE FaultBudget -----------------------------
(* What the surroundings of the engine may do to it, and how often.  Every     *)
(* fault is a nondeterministic action of some module that spends one unit of   *)
(* its kind, so that a run names the faults it allows and how many, and a      *)
(* property can be stated relative to the faults that have happened.           *)
EXTENDS Integers

FaultKinds ==
    { "limit",      \* the rate limiter refuses a send
      "toggle",     \* an operator activates or deactivates an endpoint
      "replay",     \* a tenant asks for a delivery to be replayed
      "crash",      \* a worker or a publisher dies in the middle of its work
      "db",         \* a database call of a worker or a publisher throws
      "add",        \* Queue.add throws
      "loss",       \* Redis restarts and loses a job
      "purge",      \* removeOnComplete or removeOnFail evicts a finished job
      "stall",      \* BullMQ takes a job away from a worker that is still alive
      "slow" }      \* a send outlives config.staleDeliveryAge

CONSTANT Budget     \* how many faults of each kind a behaviour may contain

ASSUME BudgetAssumption == Budget \in [FaultKinds -> Nat]

VARIABLE budget     \* what is left of it

FaultTypeOK == budget \in [FaultKinds -> Nat]

FaultInit == budget = Budget

Spend(kind) ==
    /\ budget[kind] > 0
    /\ budget' = [budget EXCEPT ![kind] = @ - 1]

Spent(kind) == Budget[kind] - budget[kind]
=============================================================================
