------------------------------- MODULE Retention -------------------------------
(* What the maintenance deletes: outbox rows a week after their publication,   *)
(* and finished events, with all that refers to them, once their retention is  *)
(* over.  Both run while deliveries of the event are replayed, refused, sent   *)
(* and cancelled, while their jobs wait, fail or get lost, while calls of the  *)
(* database throw before or after they have committed, and after days without  *)
(* any maintenance.  One event is followed through the days; that workers die  *)
(* and their jobs are run again is the matter of WebhookEngine.                *)
EXTENDS Integers, FiniteSets

CONSTANTS Deliveries,       \* of the event
          Workers,
          MaxAttempts,
          RetentionDays,    \* EVENT_RETENTION_DAYS
          Week,             \* the seven days a published row is kept
          MaxRows,          \* bounds: outbox rows of a delivery,
          MaxReplays,       \* replays,
          MaxFaults         \* jobs Redis loses, calls that throw, and sends that
                            \* outlive STALE_DELIVERY_MS

ASSUME RetentionAssumption ==
    /\ RetentionDays \in Nat /\ Week \in Nat \ {0}
    /\ MaxAttempts \in Nat \ {0} /\ MaxRows \in Nat \ {0}
    /\ MaxReplays \in Nat /\ MaxFaults \in Nat

VARIABLES
    event,      \* its status, and the full days since updatedAt
    delivery,   \* status, attempts, and the full days since updatedAt
    outbox,     \* the rows that exist, by id: a delivery and a number
    jobs,       \* state of every job BullMQ still has
    worker,     \* what each worker is about to do, with which job
    pass,       \* where the maintenance pass is, if one is under way
    replay,     \* deliveries a replay has read and will reset; those it has reset
    faults,
    upkeep,     \* "done" or "due" today; "lapsed" when a day has gone without, or a
                \* job failed or been lost when its row was about to be deleted
    skewed,     \* the event has, or may be given, a status that knows nothing of a
                \* replay, or of a delivery that was reopened when it had ended
    strayed     \* deliveries whose last refusal was of another attempt than the next

vars == <<event, delivery, outbox, jobs, worker, pass, replay, faults, upkeep, skewed, strayed>>

Terminal == {"SUCCESS", "DLQ", "CANCELLED"}
RowIds == Deliveries \X (1..MaxRows)
Attempts == 0..(MaxAttempts + faults)    \* recoverStaleDeliveries knows no maximum
Rows == [attempt : Attempts \ {0}, published : BOOLEAN, age : 0..Week, tries : 0..MaxFaults]
Jobs == [row : RowIds, attempt : Attempts \ {0}, tries : 0..MaxFaults]
JobStates == {"waiting", "active", "completed", "failed"}
MaxAge == RetentionDays         \* older is no different
Idle == [pc |-> "idle"]

TypeOK ==
    /\ event \in [status : {"PROCESSING", "DONE", "FAILED", "GONE"}, age : 0..MaxAge]
    /\ delivery \in [Deliveries -> [status : {"PENDING", "PROCESSING", "FAILED", "GONE"} \cup Terminal,
                                    attempts : Attempts, age : 0..MaxAge]]
    /\ DOMAIN outbox \subseteq RowIds /\ \A r \in DOMAIN outbox : outbox[r] \in Rows
    /\ DOMAIN jobs \subseteq Jobs /\ \A j \in DOMAIN jobs : jobs[j] \in JobStates
    /\ worker \in [Workers -> {Idle}
                     \cup [pc : {"claim", "send", "catch"}, job : Jobs]
                     \cup [pc : {"commit"}, job : Jobs, outcome : Terminal,
                           status : {"PROCESSING", "DONE", "FAILED"}]]
    /\ pass \in {"none", "events", "recovery"}
    /\ replay \in [read : SUBSET Deliveries, reset : SUBSET Deliveries, count : 0..MaxReplays]
    /\ faults \in 0..MaxFaults
    /\ upkeep \in {"done", "due", "lapsed"}
    /\ skewed \in BOOLEAN
    /\ strayed \subseteq Deliveries

with(f, x, y) == [z \in DOMAIN f \cup {x} |-> IF z = x THEN y ELSE f[z]]
without(f, S) == [z \in DOMAIN f \ S |-> f[z]]

newRow(attempt) == [attempt |-> attempt, published |-> FALSE, age |-> 0, tries |-> 0]

(* create: the row gets an id that neither a row nor a job has.                *)
freeIds(d) == {r \in RowIds : r[1] = d /\ r \notin DOMAIN outbox
                                      /\ \A j \in DOMAIN jobs : j.row # r}
create(d, attempt) ==
    \E r \in freeIds(d) : /\ \A q \in freeIds(d) : r[2] <= q[2]
                          /\ outbox' = with(outbox, r, newRow(attempt))

Init ==
    /\ event = [status |-> "PROCESSING", age |-> 0]
    /\ delivery = [d \in Deliveries |-> [status |-> "PENDING", attempts |-> 0, age |-> 0]]
    /\ outbox = [r \in Deliveries \X {1} |-> newRow(1)]
    /\ jobs = [j \in {} |-> "waiting"]
    /\ worker = [w \in Workers |-> Idle]
    /\ pass = "none"
    /\ replay = [read |-> {}, reset |-> {}, count |-> 0]
    /\ faults = 0
    /\ upkeep = "done"
    /\ skewed = FALSE
    /\ strayed = {}

-----------------------------------------------------------------------------
at(w, pc) == worker[w].pc = pc
row(w) == worker[w].job.row
own(w) == row(w)[1]                 \* job.data.deliveryId
expected(w) == worker[w].job.attempt

exists(d) == delivery[d].status # "GONE"
update(d, status) ==
    delivery' = [delivery EXCEPT ![d].status = status, ![d].age = 0]
updateEvent(status) == event' = [status |-> status, age |-> 0]

Marking == {w \in Workers : at(w, "commit")}
Locked(d) == \E w \in Marking : own(w) = d

calculateEventStatus(statuses) ==
    IF ~(statuses \subseteq Terminal) THEN "PROCESSING"
    ELSE IF {"DLQ", "CANCELLED"} \cap statuses # {} THEN "FAILED" ELSE "DONE"

(* process() returns or throws.                                                *)
finish(w, state) ==
    /\ jobs' = [jobs EXCEPT ![worker[w].job] = state]
    /\ worker' = [worker EXCEPT ![w] = Idle]

goto(w, pc) == worker' = [worker EXCEPT ![w] = [pc |-> pc, job |-> @.job]]

fault == faults < MaxFaults /\ faults' = faults + 1

return(w) == finish(w, "completed") /\ UNCHANGED faults

(* The call that w awaits throws: the executor takes an exception of           *)
(* markSuccess for one of the send, any other fails the job.                   *)
throw(w) ==
    /\ fault
    /\ IF at(w, "commit") /\ worker[w].outcome = "SUCCESS"
       THEN goto(w, "catch") /\ UNCHANGED jobs
       ELSE finish(w, "failed")

(* A job that will not claim any more is found out by its row, if that is      *)
(* still there when the next recovery runs.                                    *)
missed(j) == upkeep' = IF j.row \in DOMAIN outbox /\ outbox[j.row].age < Week - 1
                       THEN upkeep ELSE "lapsed"

(* publishPending for one row, whether or not the maintenance has just run.    *)
Publish ==
    /\ pass = "none"
    /\ \E r \in DOMAIN outbox :
          LET j == [row |-> r, attempt |-> outbox[r].attempt, tries |-> outbox[r].tries]
          IN  /\ ~outbox[r].published
              /\ jobs' = IF j \in DOMAIN jobs THEN jobs ELSE with(jobs, j, "waiting")
              /\ outbox' = [outbox EXCEPT ![r].published = TRUE, ![r].age = 0]
    /\ UNCHANGED <<event, delivery, worker, pass, replay, faults, upkeep, skewed, strayed>>

(* findById, which may find nothing, or a delivery that has ended.             *)
Find(w) ==
    /\ at(w, "idle")
    /\ \E j \in DOMAIN jobs :
          LET d == j.row[1]
              over == ~exists(d) \/ delivery[d].status \in Terminal
          IN  /\ jobs[j] = "waiting"
              /\ jobs' = [jobs EXCEPT ![j] = IF over THEN "completed" ELSE "active"]
              /\ worker' = IF over THEN worker
                           ELSE [worker EXCEPT ![w] = [pc |-> "claim", job |-> j]]
    /\ UNCHANGED <<event, delivery, outbox, pass, replay, faults, upkeep, skewed, strayed>>

(* The writers below match the delivery by its id alone, and these two do not  *)
(* touch the event: one that has ended meanwhile is not, if its event has too. *)
reopens(d) == delivery[d].status \in Terminal /\ (event.status # "PROCESSING" \/ Marking # {})

(* The rate limiter refuses: markRateLimitedAndSchedule, which throws if the   *)
(* delivery has gone.                                                          *)
MarkRateLimited(w) ==
    /\ at(w, "claim") /\ ~Locked(own(w))
    /\ IF exists(own(w))
       THEN /\ update(own(w), "PENDING") /\ create(own(w), expected(w))
            /\ strayed' = IF expected(w) = delivery[own(w)].attempts + 1
                          THEN strayed \ {own(w)} ELSE strayed \cup {own(w)}
            /\ return(w) \/ throw(w)
       ELSE finish(w, "failed") /\ UNCHANGED <<delivery, outbox, faults, strayed>>
    /\ skewed' = (skewed \/ reopens(own(w)))
    /\ UNCHANGED <<event, pass, replay, upkeep>>

Claim(w) ==
    /\ at(w, "claim") /\ ~Locked(own(w))
    /\ IF /\ delivery[own(w)].status \in {"PENDING", "FAILED"}
          /\ delivery[own(w)].attempts = expected(w) - 1
       THEN /\ delivery' = [delivery EXCEPT ![own(w)] =
                               [status |-> "PROCESSING", attempts |-> @.attempts + 1, age |-> 0]]
            /\ updateEvent("PROCESSING")
            /\ skewed' = (skewed /\ Marking # {})
            /\ \/ goto(w, "send") /\ UNCHANGED <<jobs, faults>>
               \/ throw(w)
       ELSE return(w) /\ UNCHANGED <<event, delivery, skewed>>
    /\ UNCHANGED <<outbox, pass, replay, upkeep, strayed>>

(* Mutant: the claim has counted the attempt, and the retry counts it again.   *)
MarkFailed_CountsTwice(w) ==
    /\ at(w, "send") \/ at(w, "catch")
    /\ expected(w) < MaxAttempts /\ ~Locked(own(w))
    /\ IF exists(own(w))
       THEN /\ update(own(w), "FAILED") /\ create(own(w), expected(w) + 2)
            /\ return(w) \/ throw(w)
       ELSE finish(w, "failed") /\ UNCHANGED <<delivery, outbox, faults>>
    /\ skewed' = (skewed \/ reopens(own(w)))
    /\ UNCHANGED <<event, pass, replay, upkeep, strayed>>

(* The send, or markSuccess after it, fails with attempts left:                *)
(* markFailedAndSchedule.                                                      *)
MarkFailed(w) ==
    /\ at(w, "send") \/ at(w, "catch")
    /\ expected(w) < MaxAttempts /\ ~Locked(own(w))
    /\ IF exists(own(w))
       THEN /\ update(own(w), "FAILED") /\ create(own(w), expected(w) + 1)
            /\ return(w) \/ throw(w)
       ELSE finish(w, "failed") /\ UNCHANGED <<delivery, outbox, faults>>
    /\ skewed' = (skewed \/ reopens(own(w)))
    /\ UNCHANGED <<event, pass, replay, upkeep, strayed>>

(* What ends the delivery: its endpoint was found inactive, the send has       *)
(* succeeded or failed for good, or markSuccess has failed and was the last.   *)
ends(w, outcome) ==
    \/ at(w, "claim") /\ outcome = "CANCELLED"
    \/ at(w, "send") /\ outcome \in {"SUCCESS", "DLQ"}
    \/ at(w, "catch") /\ outcome = "DLQ" /\ expected(w) >= MaxAttempts

(* markCancelled, markSuccess and markDeadLetter read the other deliveries,    *)
(* and commit later.                                                           *)
BeginMark(w) ==
    /\ \E outcome \in Terminal :
          LET others == {delivery[d].status : d \in Deliveries \ {own(w)}}
          IN  /\ ends(w, outcome) /\ ~Locked(own(w))
              /\ IF exists(own(w))
                 THEN /\ worker' = [worker EXCEPT ![w] =
                             [pc |-> "commit", job |-> @.job, outcome |-> outcome,
                              status |-> calculateEventStatus(others \cup {outcome})]]
                      /\ UNCHANGED jobs
                 ELSE finish(w, "failed")
    /\ UNCHANGED <<event, delivery, outbox, pass, replay, faults, upkeep, skewed, strayed>>

CommitMark(w) ==
    /\ at(w, "commit")
    /\ update(own(w), worker[w].outcome)
    /\ updateEvent(worker[w].status)
    /\ return(w) \/ throw(w)
    /\ UNCHANGED <<outbox, pass, replay, upkeep, skewed, strayed>>

(* w has a job of which it has not claimed the attempt.                        *)
unclaimed(w) == at(w, "claim") \/ (at(w, "commit") /\ worker[w].outcome = "CANCELLED")

(* A call throws and nothing is committed.                                     *)
Throw(w) ==
    /\ ~at(w, "idle") /\ throw(w)
    /\ IF unclaimed(w) THEN missed(worker[w].job) ELSE UNCHANGED upkeep
    /\ UNCHANGED <<event, delivery, outbox, pass, replay, skewed, strayed>>

-----------------------------------------------------------------------------
(* A replay of anything but a success: read, and reset awaits later.           *)
ReplayCheck(d) ==
    /\ exists(d) /\ delivery[d].status # "SUCCESS"
    /\ replay.count < MaxReplays
    /\ replay' = [replay EXCEPT !.read = @ \cup {d}, !.count = @ + 1]
    /\ UNCHANGED <<event, delivery, outbox, jobs, worker, pass, faults, upkeep, skewed, strayed>>

(* Mutant: the event keeps the status its last delivery gave it.               *)
resetForReplay_EventKept(d) ==
    /\ delivery' = [delivery EXCEPT ![d] = [status |-> "PENDING", attempts |-> 0, age |-> 0]]
    /\ create(d, 1)
    /\ UNCHANGED event

resetForReplay(d) ==
    /\ delivery' = [delivery EXCEPT ![d] = [status |-> "PENDING", attempts |-> 0, age |-> 0]]
    /\ updateEvent("PROCESSING")
    /\ create(d, 1)

ReplayReset(d) ==
    /\ d \in replay.read /\ ~Locked(d)
    /\ IF exists(d)
       THEN resetForReplay(d) /\ skewed' = (Marking # {}) /\ strayed' = strayed \ {d}
       ELSE UNCHANGED <<event, delivery, outbox, skewed, strayed>>
    /\ replay' = [replay EXCEPT !.read = @ \ {d}, !.reset = @ \cup {d}]
    /\ UNCHANGED <<jobs, worker, pass, faults, upkeep>>

-----------------------------------------------------------------------------
(* recoverAndCleanup, step by step.                                            *)
cleanupPublishedOutboxRows ==
    /\ pass = "none"
    /\ outbox' = without(outbox, {r \in DOMAIN outbox : outbox[r].published /\ outbox[r].age >= Week})
    /\ pass' = "events"
    /\ UNCHANGED <<event, delivery, jobs, worker, replay, faults, upkeep, skewed, strayed>>

(* Mutant: a day too early.                                                    *)
expired_Early == event.status \in {"DONE", "FAILED"} /\ event.age >= RetentionDays - 1

expired == event.status \in {"DONE", "FAILED"} /\ event.age >= RetentionDays

(* deleteMany, with what the schema cascades to.  It waits for the row a       *)
(* marking transaction has updated.                                            *)
cleanupOldEvents ==
    /\ pass = "events" /\ pass' = "recovery"
    /\ IF RetentionDays > 0 /\ expired
       THEN /\ Marking = {}
            /\ event' = [event EXCEPT !.status = "GONE"]
            /\ delivery' = [d \in Deliveries |-> [delivery[d] EXCEPT !.status = "GONE"]]
            /\ outbox' = without(outbox, DOMAIN outbox)
       ELSE UNCHANGED <<event, delivery, outbox>>
    /\ UNCHANGED <<jobs, worker, replay, faults, upkeep, skewed, strayed>>

(* One turn of recoverStaleDeliveries; as a rule nobody is at the delivery any *)
(* more.                                                                       *)
attended(d) == \E w \in Workers : /\ worker[w].pc \in {"send", "catch", "commit"}
                                  /\ own(w) = d /\ expected(w) = delivery[d].attempts

recoverStaleDelivery(d) ==
    /\ pass = "recovery"
    /\ delivery[d].status = "PROCESSING" /\ ~Locked(d)
    /\ update(d, "FAILED") /\ create(d, delivery[d].attempts + 1)
    /\ IF attended(d) THEN fault ELSE UNCHANGED faults
    /\ UNCHANGED <<event, jobs, worker, pass, replay, upkeep, skewed, strayed>>

(* Mutant: a job that has gone is not missed.                                  *)
stranded_OnlyFailed(r) ==
    /\ outbox[r].published /\ delivery[r[1]].status = "PENDING"
    /\ LET j == [row |-> r, attempt |-> outbox[r].attempt, tries |-> outbox[r].tries]
       IN  j \in DOMAIN jobs /\ jobs[j] = "failed"

stranded(r) ==
    /\ outbox[r].published /\ delivery[r[1]].status = "PENDING"
    /\ LET j == [row |-> r, attempt |-> outbox[r].attempt, tries |-> outbox[r].tries]
       IN  j \notin DOMAIN jobs \/ jobs[j] = "failed"

recoverStrandedPublishedOutbox ==
    /\ pass = "recovery" /\ pass' = "none"
    /\ \A r \in DOMAIN outbox : stranded(r) => outbox[r].tries < MaxFaults
    /\ outbox' = [r \in DOMAIN outbox |->
                     IF stranded(r) THEN [outbox[r] EXCEPT !.published = FALSE, !.tries = @ + 1]
                     ELSE outbox[r]]
    /\ upkeep' = IF upkeep = "due" THEN "done" ELSE upkeep
    /\ UNCHANGED <<event, delivery, jobs, worker, replay, faults, skewed, strayed>>

(* A step of the pass throws, or its process dies.                             *)
GiveUp ==
    /\ pass # "none" /\ pass' = "none"
    /\ UNCHANGED <<event, delivery, outbox, jobs, worker, replay, faults, upkeep, skewed, strayed>>

-----------------------------------------------------------------------------
(* Redis loses a job that waits, or findById throws and fails it.              *)
LoseJob ==
    /\ fault
    /\ \E j \in DOMAIN jobs :
          /\ jobs[j] = "waiting" /\ missed(j)
          /\ jobs' = without(jobs, {j}) \/ jobs' = [jobs EXCEPT ![j] = "failed"]
    /\ UNCHANGED <<event, delivery, outbox, worker, pass, replay, skewed, strayed>>

older(age, most) == IF age < most THEN age + 1 ELSE age

(* No transaction lasts a day.                                                 *)
Day ==
    /\ Marking = {}
    /\ event' = [event EXCEPT !.age = older(@, MaxAge)]
    /\ delivery' = [d \in Deliveries |-> [delivery[d] EXCEPT !.age = older(@, MaxAge)]]
    /\ outbox' = [r \in DOMAIN outbox |->
                     IF outbox[r].published THEN [outbox[r] EXCEPT !.age = older(@, Week)]
                     ELSE outbox[r]]
    /\ upkeep' = IF upkeep = "done" THEN "due" ELSE "lapsed"
    /\ UNCHANGED <<jobs, worker, pass, replay, faults, skewed, strayed>>

WorkerStep(w) ==
    \/ Find(w) \/ MarkRateLimited(w) \/ Claim(w)
    \/ MarkFailed(w) \/ BeginMark(w) \/ CommitMark(w) \/ Throw(w)

Maintenance ==
    \/ cleanupPublishedOutboxRows \/ cleanupOldEvents
    \/ \E d \in Deliveries : recoverStaleDelivery(d)
    \/ recoverStrandedPublishedOutbox \/ GiveUp

Next ==
    \/ Publish \/ Maintenance \/ LoseJob \/ Day
    \/ \E w \in Workers : WorkerStep(w)
    \/ \E d \in Deliveries : ReplayCheck(d) \/ ReplayReset(d)

Spec == Init /\ [][Next]_vars

-----------------------------------------------------------------------------
Deleted == event.status # "GONE" /\ event'.status = "GONE"

(* OnlyFinishedDeleted: an event is deleted when all its deliveries have       *)
(* ended, although replays start them again at any time and outcomes are       *)
(* recorded late and twice.  The exceptions are a replay between the halves of *)
(* the transaction that finishes the event, and a refusal or a failure that    *)
(* reopens a delivery that has ended and leaves the event finished: of an      *)
(* attempt that a replay, a recovery or another outcome has overtaken, or of   *)
(* one whose markSuccess has committed and thrown.                             *)
OnlyFinishedDeleted ==
    [][Deleted /\ ~skewed => \A d \in Deliveries : delivery[d].status \in Terminal]_vars

(* HistoryKept: and, with the same exceptions, not before the retention days   *)
(* have passed since anything happened to any of them: whatever else ends or   *)
(* restarts one writes the event.                                              *)
HistoryKept ==
    [][Deleted /\ ~skewed => \A d \in Deliveries : delivery[d].age >= RetentionDays]_vars

(* Recoverable: a pending delivery always has, for the attempt a claim would   *)
(* accept, a job that has still to claim or cancel it, or a row that will      *)
(* become one or lets recovery find out that its job has failed or gone: the   *)
(* deletion of rows takes none that is needed, if maintenance completes every  *)
(* day and no job fails or gets lost on the last day of the week or, having    *)
(* waited on, after it.  The exception is a refusal that has recorded another  *)
(* attempt.                                                                    *)
hasRow(d) ==
    \E r \in DOMAIN outbox : /\ r[1] = d
                             /\ outbox[r].attempt = delivery[d].attempts + 1
                             /\ ~outbox[r].published \/ stranded(r)

isOpen(j) == jobs[j] = "waiting" \/ \E w \in Workers : unclaimed(w) /\ worker[w].job = j

hasJob(d) ==
    \E j \in DOMAIN jobs : j.row[1] = d /\ j.attempt = delivery[d].attempts + 1 /\ isOpen(j)

Recoverable ==
    \A d \in Deliveries \ strayed :
        delivery[d].status = "PENDING" /\ upkeep # "lapsed" => hasRow(d) \/ hasJob(d)
=============================================================================
