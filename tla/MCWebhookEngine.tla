--------------------------- MODULE MCWebhookEngine ---------------------------
(* Small instances of WebhookEngine: one number per kind of fault.             *)
EXTENDS WebhookEngine, TLC

CONSTANTS MaxLimit, MaxToggle, MaxReplay, MaxCrash, MaxDb, MaxAdd, MaxLoss, MaxPurge, MaxStall, MaxSlow

MCBudget ==
    [limit |-> MaxLimit, toggle |-> MaxToggle, replay |-> MaxReplay, crash |-> MaxCrash,
     db |-> MaxDb, add |-> MaxAdd, loss |-> MaxLoss, purge |-> MaxPurge, stall |-> MaxStall,
     slow |-> MaxSlow]

(* Workers, publishers and endpoints are interchangeable; used in safety runs. *)
Symmetry == Permutations(Workers) \cup Permutations(Publishers) \cup Permutations(Endpoints)

(* Bounds: replays, slow sends and the faults of the queue, each on its own;   *)
(* two faults of any kinds.                                                    *)
OneCause ==
    Spent("replay") + Spent("slow") + Spent("add") + Spent("loss") + Spent("purge") <= 1
TwoFaults ==
    Spent("limit") + Spent("crash") + Spent("db") + Spent("add") + Spent("loss") + Spent("stall") <= 2
=============================================================================
