----------------------------- MODULE Dispatcher ------------------------------
(* The dispatcher role: DispatcherWorker takes a job, ProcessDeliveryUseCase   *)
(* checks the delivery, its endpoint and the rate limits, and                  *)
(* DeliveryExecutorService claims it, sends it and records the outcome.  The   *)
(* program counter names the await a worker is about to make.                  *)
EXTENDS DeliveryQueue

CONSTANT MaxAttempts    \* config.retryConfig.maxAttempts

ASSUME MaxAttemptsAssumption == MaxAttempts \in Nat \ {0}

VARIABLES
    worker,     \* the stack frame of each job slot: where it is, and its job
    acks        \* how many 2xx answers the receiver of a delivery has given

dispatcherVars == <<worker, acks>>

HoldingPcs == {"send", "succeed", "retry", "dead"}     \* after a successful claim
MarkingPcs == {"cancel", "succeed", "dead"}            \* two-step transactions
WorkerPcs == HoldingPcs \cup MarkingPcs
               \cup {"idle", "find", "limit", "delay", "claim", "done", "error"}

NoJob == [row |-> 0, tries |-> 0]

DispatcherTypeOK ==
    /\ worker \in [Workers -> [pc : WorkerPcs, job : Jobs]]
    /\ acks \in [Deliveries -> Nat]

DispatcherInit ==
    /\ worker = [w \in Workers |-> [pc |-> "idle", job |-> NoJob]]
    /\ acks = [d \in Deliveries |-> 0]

(* job.data of the job a worker runs.                                          *)
deliveryId(w) == outbox[worker[w].job.row].delivery
expectedAttempt(w) == outbox[worker[w].job.row].attempt

Holds(w, d) == worker[w].pc \in HoldingPcs /\ deliveryId(w) = d

at(w, pc) == worker[w].pc = pc
goto(w, pc) == worker' = [worker EXCEPT ![w].pc = pc]

(* Mutant: one attempt too many.                                               *)
catchPc_OneMore(w, retryable) ==
    IF expectedAttempt(w) > MaxAttempts \/ ~retryable THEN "dead" ELSE "retry"

(* The catch block of the executor, for a status that is retried or is not.    *)
catchPc(w, retryable) ==
    IF expectedAttempt(w) >= MaxAttempts \/ ~retryable THEN "dead" ELSE "retry"

(* Mutant: markDeadLetter leaves the delivery FAILED.                          *)
MarkStatus_DeadIsFailed(pc) ==
    CASE pc = "cancel" -> "CANCELLED" [] pc = "succeed" -> "SUCCESS" [] pc = "dead" -> "FAILED"

MarkStatus(pc) ==
    CASE pc = "cancel" -> "CANCELLED" [] pc = "succeed" -> "SUCCESS" [] pc = "dead" -> "DLQ"

-----------------------------------------------------------------------------
TakeJob(w) ==
    /\ at(w, "idle")
    /\ \E j \in waiting :
          take(j, w) /\ worker' = [worker EXCEPT ![w] = [pc |-> "find", job |-> j]]
    /\ UNCHANGED <<storeVars, acks, budget>>

(* findById: its answer decides now, its effects come at later awaits.         *)
Find(w) ==
    /\ at(w, "find")
    /\ goto(w, IF delivery[deliveryId(w)].status \in Terminal THEN "done"
               ELSE IF ~active[deliveryId(w)[2]] THEN "cancel" ELSE "limit")
    /\ UNCHANGED <<storeVars, queueVars, acks, budget>>

CheckRateLimit(w) ==
    /\ at(w, "limit")
    /\ \/ goto(w, "claim") /\ UNCHANGED budget
       \/ Spend("limit") /\ goto(w, "delay")
    /\ UNCHANGED <<storeVars, queueVars, acks>>

MarkRateLimited(w) ==
    /\ at(w, "delay")
    /\ markRateLimitedAndSchedule(deliveryId(w), expectedAttempt(w))
    /\ goto(w, "done")
    /\ UNCHANGED <<queueVars, acks, budget>>

Claim(w) ==
    /\ at(w, "claim")
    /\ \/ claimForProcessing(deliveryId(w), expectedAttempt(w)) /\ goto(w, "send")
       \/ /\ ~Locked(deliveryId(w)) /\ ~claimable(deliveryId(w), expectedAttempt(w))
          /\ goto(w, "done") /\ UNCHANGED storeVars
    /\ UNCHANGED <<queueVars, acks, budget>>

(* A 2xx answer, a status or network error that is retried, or another one.    *)
Send(w) ==
    /\ at(w, "send")
    /\ \/ goto(w, "succeed") /\ acks' = [acks EXCEPT ![deliveryId(w)] = @ + 1]
       \/ \E retryable \in BOOLEAN : goto(w, catchPc(w, retryable)) /\ UNCHANGED acks
    /\ UNCHANGED <<storeVars, queueVars, budget>>

BeginMark(w) ==
    /\ worker[w].pc \in MarkingPcs
    /\ \A t \in tx : t.by # w
    /\ beginMark(w, deliveryId(w), MarkStatus(worker[w].pc))
    /\ UNCHANGED <<worker, queueVars, acks, budget>>

CommitMark(w) ==
    /\ worker[w].pc \in MarkingPcs
    /\ commitMark(w, deliveryId(w))
    /\ goto(w, "done")
    /\ UNCHANGED <<queueVars, acks, budget>>

MarkFailed(w) ==
    /\ at(w, "retry")
    /\ markFailedAndSchedule(deliveryId(w), expectedAttempt(w) + 1)
    /\ goto(w, "done")
    /\ UNCHANGED <<queueVars, acks, budget>>

(* process() has returned or thrown; BullMQ moves the job (attempts: 1).       *)
Finish(w) ==
    /\ \/ at(w, "done") /\ complete(worker[w].job, w)
       \/ at(w, "error") /\ fail(worker[w].job, w)
    /\ worker' = [worker EXCEPT ![w] = [pc |-> "idle", job |-> NoJob]]
    /\ UNCHANGED <<storeVars, acks, budget>>

WorkerStep(w) ==
    \/ TakeJob(w) \/ Find(w) \/ CheckRateLimit(w) \/ MarkRateLimited(w) \/ Claim(w)
    \/ Send(w) \/ BeginMark(w) \/ CommitMark(w) \/ MarkFailed(w) \/ Finish(w)

-----------------------------------------------------------------------------
(* Where an exception leads: markSuccess is inside the executor's try, so its  *)
(* failure is answered as a status 500; every other call leaves process().     *)
afterThrow(w) == IF at(w, "succeed") THEN catchPc(w, TRUE) ELSE "error"

(* A call throws without effect; an open transaction is rolled back.           *)
CallThrows(w) ==
    /\ worker[w].pc \notin {"idle", "send", "done", "error"}
    /\ Spend("db")
    /\ rollback(w)
    /\ goto(w, afterThrow(w))
    /\ UNCHANGED <<queueVars, acks>>

(* The transaction commits but its answer is lost.                             *)
CommitThenThrow(w) ==
    /\ Spend("db")
    /\ \/ worker[w].pc \in MarkingPcs /\ commitMark(w, deliveryId(w))
       \/ at(w, "delay") /\ markRateLimitedAndSchedule(deliveryId(w), expectedAttempt(w))
       \/ at(w, "claim") /\ claimForProcessing(deliveryId(w), expectedAttempt(w))
       \/ at(w, "retry") /\ markFailedAndSchedule(deliveryId(w), expectedAttempt(w) + 1)
    /\ goto(w, afterThrow(w))
    /\ UNCHANGED <<queueVars, acks>>

(* The process dies: its transaction is rolled back, its lock left to expire.  *)
CrashWorker(w) ==
    /\ ~at(w, "idle")
    /\ Spend("crash")
    /\ rollback(w)
    /\ worker' = [worker EXCEPT ![w] = [pc |-> "idle", job |-> NoJob]]
    /\ UNCHANGED <<queueVars, acks>>

WorkerFault(w) == CallThrows(w) \/ CommitThenThrow(w) \/ CrashWorker(w)

(* The stalled-job check of BullMQ: for a job whose worker is gone, and, when  *)
(* the event loop was blocked past the lock, for one whose worker is alive.    *)
orphaned(j, w) == worker[w].job # j

StallOrphan ==
    /\ \E r \in running : orphaned(r[1], r[2]) /\ stall(r[1], r[2])
    /\ UNCHANGED <<storeVars, dispatcherVars, budget>>

StallLive ==
    /\ Spend("stall")
    /\ \E r \in running : ~orphaned(r[1], r[2]) /\ stall(r[1], r[2])
    /\ UNCHANGED <<storeVars, dispatcherVars>>
=============================================================================
