---------------------------- MODULE DeliveryStore ----------------------------
(* The PostgreSQL tables the delivery path shares (Delivery, WebhookEvent,     *)
(* DeliveryOutbox and the isActive column of Endpoint) and the repository      *)
(* methods that write them.  Each operator below is one transaction, or half   *)
(* of one where another session can commit in between.                         *)
EXTENDS Integers, Sequences, FiniteSets

CONSTANTS Events, Endpoints,
          Workers       \* the job slots of all dispatcher processes

ASSUME StoreAssumption == IsFiniteSet(Endpoints)

VARIABLES
    delivery,   \* Delivery rows, by <<event, endpoint>>
    event,      \* WebhookEvent.status; "NONE" before the event is accepted
    outbox,     \* DeliveryOutbox rows in the order of createdAt
    tx,         \* marking transactions that are open: they hold their row's lock
    active      \* Endpoint.isActive

storeVars == <<delivery, event, outbox, tx, active>>

Deliveries == Events \X Endpoints

Terminal == {"SUCCESS", "DLQ", "CANCELLED"}
Unfinished == {"PENDING", "PROCESSING", "FAILED"}
EventStatus == {"NONE", "NO_SUBSCRIBERS", "PENDING", "PROCESSING", "DONE", "FAILED"}

(* lastAttemptAt is the time of a claim.  Its value is the claim itself, named *)
(* by the pair (resets, attempts): claims after a replay count anew.  `aged`   *)
(* says that it lies more than staleDeliveryAge in the past.                   *)
DeliveryRow == [status : {"NONE"} \cup Unfinished \cup Terminal,
                attempts : Nat, resets : Nat, aged : BOOLEAN]

(* `due` is availableAt <= now, `tries` the row's publication count `attempts`.*)
OutboxRow == [delivery : Deliveries, attempt : Nat, due : BOOLEAN,
              published : BOOLEAN, tries : Nat]

(* A transaction that has updated its delivery and read the event's others.    *)
OpenTx == [by : Workers, delivery : Deliveries, status : Terminal,
           event : {"PROCESSING", "DONE", "FAILED"}]

StoreTypeOK ==
    /\ delivery \in [Deliveries -> DeliveryRow]
    /\ event \in [Events -> EventStatus]
    /\ outbox \in Seq(OutboxRow)
    /\ tx \in SUBSET OpenTx
    /\ active \in [Endpoints -> BOOLEAN]

StoreInit ==
    /\ delivery = [d \in Deliveries |->
                      [status |-> "NONE", attempts |-> 0, resets |-> 0, aged |-> FALSE]]
    /\ event = [e \in Events |-> "NONE"]
    /\ outbox = <<>>
    /\ tx = {}
    /\ active = [p \in Endpoints |-> TRUE]

NewRow(d, attempt, due) ==
    [delivery |-> d, attempt |-> attempt, due |-> due, published |-> FALSE, tries |-> 0]

(* An uncommitted update makes every other writer of the row wait.             *)
Locked(d) == \E t \in tx : t.delivery = d

DeliveriesOf(e) == {d \in Deliveries : d[1] = e /\ delivery[d].status # "NONE"}

calculateEventStatus(statuses) ==
    IF statuses \cap Unfinished # {} THEN "PROCESSING"
    ELSE IF statuses \cap {"DLQ", "CANCELLED"} # {} THEN "FAILED" ELSE "DONE"

-----------------------------------------------------------------------------
(* createForTenant: the event, one delivery per subscribed active endpoint and *)
(* one outbox row each, in one transaction.  createMany fixes no order.        *)
createForTenant(e, subscribed) ==
    /\ event[e] = "NONE"
    /\ event' = [event EXCEPT ![e] = IF subscribed = {} THEN "NO_SUBSCRIBERS" ELSE "PENDING"]
    /\ delivery' = [d \in Deliveries |->
                       IF d[1] = e /\ d[2] \in subscribed
                       THEN [delivery[d] EXCEPT !.status = "PENDING"]
                       ELSE delivery[d]]
    /\ \E order \in [1..Cardinality(subscribed) -> subscribed] :
          /\ \A i, j \in DOMAIN order : order[i] = order[j] => i = j
          /\ outbox' = outbox \o [i \in DOMAIN order |-> NewRow(<<e, order[i]>>, 1, TRUE)]
    /\ UNCHANGED <<tx, active>>

(* Mutants: the update matches by id alone, or leaves the attempt number out.  *)
claimable_ById(d, expectedAttempt) == delivery[d].status # "NONE"
claimable_AnyAttempt(d, expectedAttempt) == delivery[d].status \in {"PENDING", "FAILED"}

(* claimForProcessing: a compare-and-set on the attempt number.                *)
claimable(d, expectedAttempt) ==
    /\ delivery[d].attempts = expectedAttempt - 1
    /\ delivery[d].status \in {"PENDING", "FAILED"}

claimForProcessing(d, expectedAttempt) ==
    /\ ~Locked(d)
    /\ claimable(d, expectedAttempt)
    /\ delivery' = [delivery EXCEPT ![d].status = "PROCESSING",
                                    ![d].attempts = @ + 1,
                                    ![d].aged = FALSE]
    /\ event' = [event EXCEPT ![d[1]] = "PROCESSING"]
    /\ UNCHANGED <<outbox, tx, active>>

(* Mutant: the statuses are read before the delivery is updated.               *)
beginMark_ReadFirst(w, d, status) ==
    /\ ~Locked(d)
    /\ LET all == {delivery[o].status : o \in DeliveriesOf(d[1])}
       IN  tx' = tx \cup {[by |-> w, delivery |-> d, status |-> status,
                           event |-> calculateEventStatus(all)]}
    /\ UNCHANGED <<delivery, event, outbox, active>>

(* markSuccess, markDeadLetter and markCancelled.  The first half updates the  *)
(* delivery and reads the statuses refreshEventStatus works from: its own      *)
(* update and, under READ COMMITTED, only what the others have committed.      *)
beginMark(w, d, status) ==
    /\ ~Locked(d)
    /\ LET others == {delivery[o].status : o \in DeliveriesOf(d[1]) \ {d}}
       IN  tx' = tx \cup {[by |-> w, delivery |-> d, status |-> status,
                           event |-> calculateEventStatus(others \cup {status})]}
    /\ UNCHANGED <<delivery, event, outbox, active>>

(* The second half writes the event status computed above and commits.         *)
commitMark(w, d) ==
    \E t \in tx :
        /\ t.by = w /\ t.delivery = d
        /\ delivery' = [delivery EXCEPT ![d].status = t.status]
        /\ event' = [event EXCEPT ![d[1]] = t.event]
        /\ tx' = tx \ {t}
        /\ UNCHANGED <<outbox, active>>

rollback(w) ==
    /\ tx' = {t \in tx : t.by # w}
    /\ UNCHANGED <<delivery, event, outbox, active>>

(* Common to the three writers that move a delivery and schedule it.           *)
reschedule(d, updated, scheduled) ==
    /\ ~Locked(d)
    /\ delivery' = [delivery EXCEPT ![d] = updated]
    /\ outbox' = Append(outbox, scheduled)

(* Mutant: the retry is scheduled under the number of the failed attempt.      *)
markFailedAndSchedule_SameAttempt(d, nextAttemptNumber) ==
    /\ reschedule(d, [delivery[d] EXCEPT !.status = "FAILED"],
                  NewRow(d, nextAttemptNumber - 1, FALSE))
    /\ UNCHANGED <<event, tx, active>>

markFailedAndSchedule(d, nextAttemptNumber) ==
    /\ reschedule(d, [delivery[d] EXCEPT !.status = "FAILED"],
                  NewRow(d, nextAttemptNumber, FALSE))
    /\ UNCHANGED <<event, tx, active>>

markRateLimitedAndSchedule(d, attemptNumber) ==
    /\ reschedule(d, [delivery[d] EXCEPT !.status = "PENDING"],
                  NewRow(d, attemptNumber, FALSE))
    /\ UNCHANGED <<event, tx, active>>

resetForReplay(d) ==
    /\ reschedule(d, [status |-> "PENDING", attempts |-> 0,
                      resets |-> delivery[d].resets + 1, aged |-> FALSE],
                  NewRow(d, 1, TRUE))
    /\ event' = [event EXCEPT ![d[1]] = "PROCESSING"]
    /\ UNCHANGED <<tx, active>>

(* Mutant: the recovered attempt keeps its number.                             *)
recoverStale_SameAttempt(s) ==
    /\ ~Locked(s.delivery)
    /\ reschedule(s.delivery, [delivery[s.delivery] EXCEPT !.status = "FAILED"],
                  NewRow(s.delivery, s.attempts, TRUE))
    /\ UNCHANGED <<event, tx, active>>

(* The transaction of recoverStaleDeliveries for one snapshot [delivery,       *)
(* resets, attempts]: the WHERE clause still matches iff the row is PROCESSING *)
(* and has not been claimed or reset since, as a later lastAttemptAt is past   *)
(* the cutoff.  The row's number comes from the snapshot.                      *)
recoverStale(s) ==
    LET d == s.delivery
        matches == /\ delivery[d].status = "PROCESSING"
                   /\ delivery[d].resets = s.resets
                   /\ delivery[d].attempts = s.attempts
    IN  /\ ~Locked(d)
        /\ IF matches
           THEN reschedule(d, [delivery[d] EXCEPT !.status = "FAILED"],
                           NewRow(d, s.attempts + 1, TRUE))
           ELSE UNCHANGED <<delivery, outbox>>
        /\ UNCHANGED <<event, tx, active>>

-----------------------------------------------------------------------------
(* The publisher's updates of one outbox row.                                  *)
setPublished(r) ==
    /\ outbox' = [outbox EXCEPT ![r].published = TRUE]
    /\ UNCHANGED <<delivery, event, tx, active>>

countFailure(r) ==
    /\ outbox' = [outbox EXCEPT ![r].tries = @ + 1]
    /\ UNCHANGED <<delivery, event, tx, active>>

unpublish(r) ==
    /\ outbox' = [outbox EXCEPT ![r].published = FALSE, ![r].tries = @ + 1]
    /\ UNCHANGED <<delivery, event, tx, active>>

DueRows == {r \in DOMAIN outbox : outbox[r].due /\ ~outbox[r].published}

(* Mutants: the age of the claim is not looked at, or compared the wrong way.  *)
StaleDeliveries_AnyAge == {d \in Deliveries : delivery[d].status = "PROCESSING"}
StaleDeliveries_Recent ==
    {d \in Deliveries : delivery[d].status = "PROCESSING" /\ ~delivery[d].aged}

StaleDeliveries == {d \in Deliveries : delivery[d].status = "PROCESSING" /\ delivery[d].aged}

StrandedCandidates ==
    {r \in DOMAIN outbox :
        outbox[r].published /\ delivery[outbox[r].delivery].status = "PENDING"}

-----------------------------------------------------------------------------
(* The passing of time, and PATCH/DELETE of an endpoint.                       *)
RowDue ==
    \E r \in DOMAIN outbox :
        /\ ~outbox[r].due
        /\ outbox' = [outbox EXCEPT ![r].due = TRUE]
        /\ UNCHANGED <<delivery, event, tx, active>>

age(d) ==
    /\ delivery[d].status = "PROCESSING"
    /\ ~delivery[d].aged
    /\ delivery' = [delivery EXCEPT ![d].aged = TRUE]
    /\ UNCHANGED <<event, outbox, tx, active>>

setActive(p) ==
    /\ active' = [active EXCEPT ![p] = ~@]
    /\ UNCHANGED <<delivery, event, outbox, tx>>
=============================================================================
