---------------------------- MODULE DeliveryQueue ----------------------------
(* The BullMQ queue `webhook-deliveries`, as the engine uses it: Queue.add with *)
(* a job id and attempts: 1, getJob/getState, and workers that take, complete  *)
(* or fail a job.  BullMQ and Redis are not part of the repository.            *)
EXTENDS Integers, DeliveryStore, FaultBudget

VARIABLES
    waiting,    \* jobs to be taken
    running,    \* pairs <<job, worker>>: the jobs under a worker's lock
    completed,  \* finished jobs still kept (removeOnComplete: 100)
    failed,     \* failed jobs still kept (removeOnFail: 50)
    stalled     \* unfinished jobs that have lost their lock once (maxStalledCount: 1)

queueVars == <<waiting, running, completed, failed, stalled>>

(* jobId(outbox.id, outbox.attempts); the payload is the row's.                *)
Jobs == [row : Nat, tries : Nat]
jobId(r) == [row |-> r, tries |-> outbox[r].tries]

QueueTypeOK ==
    /\ waiting \in SUBSET Jobs
    /\ running \in SUBSET (Jobs \X Workers)
    /\ completed \in SUBSET Jobs
    /\ failed \in SUBSET Jobs
    /\ stalled \in SUBSET Jobs

QueueInit ==
    waiting = {} /\ running = {} /\ completed = {} /\ failed = {} /\ stalled = {}

exists(j) == j \in waiting \cup completed \cup failed \/ \E w \in Workers : <<j, w>> \in running

(* Mutant: a job that is missing altogether is taken to be in order.           *)
stranded_OnlyFailed(j) == j \in failed

(* getState of what getJob returns: only these two answers are acted upon.     *)
stranded(j) == j \in failed \/ ~exists(j)

(* Adding an id that is present is a no-op, even when that job has finished.   *)
add(j) ==
    /\ waiting' = IF exists(j) THEN waiting ELSE waiting \cup {j}
    /\ UNCHANGED <<running, completed, failed, stalled>>

take(j, w) ==
    /\ j \in waiting
    /\ waiting' = waiting \ {j}
    /\ running' = running \cup {<<j, w>>}
    /\ UNCHANGED <<completed, failed, stalled>>

(* Completing and failing need the lock: a worker that lost it changes nothing.*)
complete(j, w) ==
    /\ running' = running \ {<<j, w>>}
    /\ completed' = IF <<j, w>> \in running THEN completed \cup {j} ELSE completed
    /\ stalled' = IF <<j, w>> \in running THEN stalled \ {j} ELSE stalled
    /\ UNCHANGED <<waiting, failed>>

fail(j, w) ==
    /\ running' = running \ {<<j, w>>}
    /\ failed' = IF <<j, w>> \in running THEN failed \cup {j} ELSE failed
    /\ stalled' = IF <<j, w>> \in running THEN stalled \ {j} ELSE stalled
    /\ UNCHANGED <<waiting, completed>>

(* The lock of a running job expires: the first time it waits again.           *)
stall(j, w) ==
    /\ <<j, w>> \in running
    /\ running' = running \ {<<j, w>>}
    /\ waiting' = IF j \in stalled THEN waiting ELSE waiting \cup {j}
    /\ failed' = IF j \in stalled THEN failed \cup {j} ELSE failed
    /\ stalled' = IF j \in stalled THEN stalled \ {j} ELSE stalled \cup {j}
    /\ UNCHANGED completed

Purge ==
    /\ Spend("purge")
    /\ \E j \in completed \cup failed :
          completed' = completed \ {j} /\ failed' = failed \ {j}
    /\ UNCHANGED <<waiting, running, stalled>>

(* Redis restarts from a snapshot that does not have the job yet.              *)
LoseJob ==
    /\ Spend("loss")
    /\ \E j \in waiting : waiting' = waiting \ {j} /\ stalled' = stalled \ {j}
    /\ UNCHANGED <<running, completed, failed>>
=============================================================================
